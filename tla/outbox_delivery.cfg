SPECIFICATION Spec
CONSTANTS
  Dms = {d1, d2}
  Audits = {}
  Replays = {d1, d2}
  Entities = {e1}
  Entity <- CommonRow
  NoMessage = none
  Workers = {w1, w2}
  Jobs = {j1, j2}
  Operators = {o1}
  maxAttempts = 1
  MaxFaults = 1
  MaxRetries = 1
SYMMETRY Interchangeable
INVARIANTS
  CopiesAreAccountedFor
  NothingIsLost
  HandedOverIsServed
  AttemptsAreBounded
PROPERTIES
  SentIsFinal
CHECK_DEADLOCK FALSE

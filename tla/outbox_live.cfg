SPECIFICATION Spec
CONSTANTS
  Dms = {d1}
  Audits = {a1}
  Replays = {a1}
  Entities = {e1}
  Entity <- CommonRow
  NoMessage = none
  Workers = {w1}
  Jobs = {j1}
  Operators = {}
  maxAttempts = 2
  MaxFaults = 1
  MaxRetries = 0
PROPERTIES
  MessagesSettle
CHECK_DEADLOCK FALSE

------------------------- MODULE DiscordOutboxProofs -------------------------
(***************************************************************************)
(* Proofs about DiscordOutbox, for any messages, entries, workers, jobs,   *)
(* operators, faults and retries.  Budget: a message has one copy to spend, *)
(* and one more for each event that `extra` counts; its request, its row,  *)
(* the calls at work on it and its queue entry hold what is left of it, and *)
(* each step hands a right to send on and never doubles it.                *)
(***************************************************************************)
EXTENDS DiscordOutbox, FiniteSetTheorems, TLAPS

-----------------------------------------------------------------------------
(* Records. *)

LEMMA TaskIsRecord ==
  ASSUME NEW k \in Task
  PROVE /\ k.step \in {"listed", "claimed", "sent", "failed"}
        /\ k.message \in Messages /\ k.attempts \in Nat /\ k.entity \in Entities
        /\ k # Idle
  <1>1. k.step \in {"listed", "claimed", "sent", "failed"}
    BY DEF Task
  <1>2. Idle.step = "idle"
    BY DEF Idle
  <1> QED BY <1>1, <1>2 DEF Task

LEMMA IdleHasNoStep == Idle.step = "idle"
  BY DEF Idle

LEMMA RowIsRecord ==
  ASSUME NEW r \in OutboxRow
  PROVE /\ r.status \in {"NONE", "PENDING", "PROCESSING", "SENT", "HANDED_OFF", "DEAD"}
        /\ r.attempts \in Nat /\ r.due \in BOOLEAN
  BY DEF OutboxRow

LEMMA EntryIsRecord ==
  ASSUME NEW r \in QueueRow
  PROVE /\ r.status \in {"NONE", "PENDING", "RETRYING", "SENT", "PERMANENT_FAILURE"}
        /\ r.payload \in Messages \cup {NoMessage}
        /\ r.attempts \in Nat /\ r.due \in BOOLEAN
  BY DEF QueueRow

LEMMA Types ==
  ASSUME TypeOK
  PROVE /\ outbox \in [Messages -> OutboxRow]
        /\ queue \in [Entities -> QueueRow]
        /\ primary \in [Messages -> {"idle", "send", "sent", "queue", "done"}]
        /\ inserting \subseteq Messages
        /\ mark \in [Messages -> {"none", "SENT", "HANDED_OFF", "DEAD"}]
        /\ senders \in [Senders -> Task \cup {Idle}]
        /\ desk \in [Operators -> Messages \cup {NoMessage}]
        /\ retries \in Nat /\ faults \in Nat
        /\ copies \in [Messages -> Nat] /\ extra \in [Messages -> Nat]
  BY DEF TypeOK

LEMMA Constants ==
  /\ Entity \in [Messages -> Entities]
  /\ NoMessage \notin Messages
  /\ Workers \cap Jobs = {}
  /\ IsFiniteSet(Senders)
  /\ maxAttempts \in Nat /\ maxAttempts > 0
  <1>1. IsFiniteSet(Workers \cup Jobs)
    BY OutboxAssumption, FS_Union
  <1> QED BY <1>1, OutboxAssumption DEF Senders

\* A sender who is not idle has a task.
LEMMA SenderHasTask ==
  ASSUME TypeOK, NEW s \in Senders, senders[s] # Idle
  PROVE senders[s] \in Task
  BY Types

LEMMA StepMeansTask ==
  ASSUME TypeOK, NEW s \in Senders, senders[s].step # "idle"
  PROVE senders[s] # Idle /\ senders[s] \in Task
  BY SenderHasTask, IdleHasNoStep

-----------------------------------------------------------------------------
(* What the updates of a row, an entry or a task write. *)

LEMMA PutBack ==
  ASSUME TypeOK, NEW m \in Messages, outbox' = [outbox EXCEPT ![m].status = "PENDING", ![m].due = TRUE]
  PROVE \E r \in OutboxRow : /\ outbox' = [outbox EXCEPT ![m] = r]
                             /\ r.status = "PENDING" /\ r.attempts = outbox[m].attempts
  <1>0. outbox \in [Messages -> OutboxRow] /\ outbox[m] \in OutboxRow
    BY Types
  <1> DEFINE r == [outbox[m] EXCEPT !.status = "PENDING", !.due = TRUE]
  <1>1. r \in OutboxRow /\ r.status = "PENDING" /\ r.attempts = outbox[m].attempts
    BY <1>0 DEF OutboxRow
  <1>2. outbox' = [outbox EXCEPT ![m] = r]
    BY <1>0
  <1> QED BY <1>1, <1>2

LEMMA PutClaimed ==
  ASSUME TypeOK, NEW m \in Messages, outbox' = [outbox EXCEPT ![m].status = "PROCESSING"]
  PROVE \E r \in OutboxRow : /\ outbox' = [outbox EXCEPT ![m] = r]
                             /\ r.status = "PROCESSING" /\ r.attempts = outbox[m].attempts
  <1>0. outbox \in [Messages -> OutboxRow] /\ outbox[m] \in OutboxRow
    BY Types
  <1> DEFINE r == [outbox[m] EXCEPT !.status = "PROCESSING"]
  <1>1. r \in OutboxRow /\ r.status = "PROCESSING" /\ r.attempts = outbox[m].attempts
    BY <1>0 DEF OutboxRow
  <1>2. outbox' = [outbox EXCEPT ![m] = r]
    BY <1>0
  <1> QED BY <1>1, <1>2

LEMMA PutDue ==
  ASSUME TypeOK, NEW m \in Messages, outbox' = [outbox EXCEPT ![m].due = TRUE]
  PROVE \E r \in OutboxRow : /\ outbox' = [outbox EXCEPT ![m] = r]
                             /\ r.status = outbox[m].status /\ r.attempts = outbox[m].attempts
  <1>0. outbox \in [Messages -> OutboxRow] /\ outbox[m] \in OutboxRow
    BY Types
  <1> DEFINE r == [outbox[m] EXCEPT !.due = TRUE]
  <1>1. r \in OutboxRow /\ r.status = outbox[m].status /\ r.attempts = outbox[m].attempts
    BY <1>0 DEF OutboxRow
  <1>2. outbox' = [outbox EXCEPT ![m] = r]
    BY <1>0
  <1> QED BY <1>1, <1>2

LEMMA PutStep ==
  ASSUME TypeOK, NEW s \in Senders, senders[s] \in Task,
         NEW st \in {"listed", "claimed", "sent", "failed"}, Goto(s, st)
  PROVE \E t \in Task : /\ senders' = [senders EXCEPT ![s] = t]
                        /\ t.step = st
                        /\ t.message = senders[s].message /\ t.entity = senders[s].entity
                        /\ t.attempts = senders[s].attempts
  <1>0. senders \in [Senders -> Task \cup {Idle}]
    BY Types
  <1> DEFINE t == [senders[s] EXCEPT !.step = st]
  <1>1. t \in Task /\ t.step = st /\ t.message = senders[s].message /\ t.entity = senders[s].entity
        /\ t.attempts = senders[s].attempts
    BY DEF Task
  <1>2. senders' = [senders EXCEPT ![s] = t]
    BY <1>0 DEF Goto
  <1> QED BY <1>1, <1>2

LEMMA PutEntryDue ==
  ASSUME TypeOK, NEW e \in Entities, queue' = [queue EXCEPT ![e].due = TRUE]
  PROVE \E r \in QueueRow : /\ queue' = [queue EXCEPT ![e] = r]
                            /\ r.status = queue[e].status /\ r.payload = queue[e].payload
  <1>0. queue \in [Entities -> QueueRow] /\ queue[e] \in QueueRow
    BY Types
  <1> DEFINE r == [queue[e] EXCEPT !.due = TRUE]
  <1>1. r \in QueueRow /\ r.status = queue[e].status /\ r.payload = queue[e].payload
    BY <1>0 DEF QueueRow
  <1>2. queue' = [queue EXCEPT ![e] = r]
    BY <1>0
  <1> QED BY <1>1, <1>2

\* Histories grow by one, for one message.
LEMMA OneMore ==
  ASSUME NEW f \in [Messages -> Nat], NEW m \in Messages
  PROVE /\ Once(f, m) \in [Messages -> Nat]
        /\ Once(f, m)[m] = f[m] + 1
        /\ \A x \in Messages : x # m => Once(f, m)[x] = f[x]
  BY DEF Once
-----------------------------------------------------------------------------
(* Who is at work, after one sender has gone on. *)

One(b) == IF b THEN 1 ELSE 0

\* A sender s with task k is counted in Sending(m).
Counts(s, k, m) == /\ k # Idle /\ k.message = m
                   /\ \/ k.step \in {"claimed", "failed"}
                      \/ s \in Jobs /\ k.step = "listed"

LEMMA SendingIsFinite ==
  ASSUME NEW m
  PROVE IsFiniteSet(Sending(m)) /\ Cardinality(Sending(m)) \in Nat
  <1>1. Sending(m) \subseteq Senders
    BY DEF Sending
  <1>2. IsFiniteSet(Sending(m))
    BY <1>1, Constants, FS_Subset
  <1> QED BY <1>2, FS_CardinalityType

LEMMA SendingAfter ==
  ASSUME TypeOK, NEW s \in Senders, NEW k, NEW m, senders' = [senders EXCEPT ![s] = k]
  PROVE Cardinality(Sending(m))'
           = Cardinality(Sending(m)) - One(Counts(s, senders[s], m)) + One(Counts(s, k, m))
  <1>0. senders \in [Senders -> Task \cup {Idle}]
    BY Types
  <1>1. s \in Sending(m) <=> Counts(s, senders[s], m)
    BY DEF Sending, Counts
  <1>2. senders'[s] = k /\ \A x \in Senders : x # s => senders'[x] = senders[x]
    BY <1>0
  <1>3. ASSUME Counts(s, k, m)
        PROVE Sending(m)' = Sending(m) \cup {s}
    BY <1>2, <1>3 DEF Sending, Counts
  <1>4. ASSUME ~Counts(s, k, m)
        PROVE Sending(m)' = Sending(m) \ {s}
    BY <1>2, <1>4 DEF Sending, Counts
  <1>5. IsFiniteSet(Sending(m)) /\ Cardinality(Sending(m)) \in Nat
    BY SendingIsFinite
  <1>6. Cardinality(Sending(m) \cup {s})
           = IF s \in Sending(m) THEN Cardinality(Sending(m)) ELSE Cardinality(Sending(m)) + 1
    BY <1>5, FS_AddElement
  <1>7. Cardinality(Sending(m) \ {s})
           = IF s \in Sending(m) THEN Cardinality(Sending(m)) - 1 ELSE Cardinality(Sending(m))
    BY <1>5, FS_RemoveElement
  <1>8. CASE Counts(s, k, m)
    <2>1. Cardinality(Sending(m))' = Cardinality(Sending(m) \cup {s})
      BY <1>3, <1>8
    <2> QED BY <2>1, <1>8, <1>1, <1>5, <1>6 DEF One
  <1>9. CASE ~Counts(s, k, m)
    <2>1. Cardinality(Sending(m))' = Cardinality(Sending(m) \ {s})
      BY <1>4, <1>9
    <2> QED BY <2>1, <1>9, <1>1, <1>5, <1>7 DEF One
  <1> QED BY <1>8, <1>9

LEMMA WorkersAndJobs ==
  /\ \A w \in Workers : w \in Senders /\ w \notin Jobs
  /\ \A j \in Jobs : j \in Senders /\ j \notin Workers
  BY Constants DEF Senders

\* A job's step leaves the workers alone.
LEMMA JobKeepsHolders ==
  ASSUME TypeOK, NEW j \in Jobs, NEW k, NEW m, senders' = [senders EXCEPT ![j] = k]
  PROVE Holders(m)' = Holders(m) /\ AtWork(m)' = AtWork(m)
  <1>0. senders \in [Senders -> Task \cup {Idle}]
    BY Types
  <1>1. \A w \in Workers : senders'[w] = senders[w]
    BY <1>0, WorkersAndJobs
  <1> QED BY <1>1 DEF Holders, AtWork

\* A worker's step leaves the jobs alone.
LEMMA WorkerKeepsJobs ==
  ASSUME TypeOK, NEW w \in Workers, NEW k, senders' = [senders EXCEPT ![w] = k]
  PROVE /\ \A j \in Jobs : senders'[j] = senders[j]
        /\ \A e : OnEntry(e)' = OnEntry(e)
  <1>0. senders \in [Senders -> Task \cup {Idle}]
    BY Types
  <1>1. \A j \in Jobs : senders'[j] = senders[j]
    BY <1>0, WorkersAndJobs
  <1> QED BY <1>1 DEF OnEntry

-----------------------------------------------------------------------------
(* Parts of the budget that a step leaves alone. *)

LEMMA PartsAreSmall ==
  ASSUME NEW m
  PROVE FromRequest(m) \in 0 .. 1 /\ FromRow(m) \in 0 .. 1 /\ FromEntry(m) \in 0 .. 1
  BY DEF FromRequest, FromRow, FromEntry

LEMMA RequestKept ==
  ASSUME NEW m, primary'[m] = primary[m]
  PROVE FromRequest(m)' = FromRequest(m)
  BY DEF FromRequest

LEMMA RowKept ==
  ASSUME NEW m, primary'[m] = primary[m], mark'[m] = mark[m],
         m \in inserting' <=> m \in inserting,
         outbox'[m].status = outbox[m].status,
         Holders(m)' = Holders(m)
  PROVE FromRow(m)' = FromRow(m)
  BY DEF FromRow

LEMMA EntryKept ==
  ASSUME NEW m,
         queue'[Entity[m]].payload = queue[Entity[m]].payload,
         queue'[Entity[m]].status = queue[Entity[m]].status,
         OnEntry(Entity[m])' = OnEntry(Entity[m]),
         \A j \in OnEntry(Entity[m]) : senders'[j].message = senders[j].message
  PROVE FromEntry(m)' = FromEntry(m)
  BY DEF FromEntry

\* The senders are as they were.
LEMMA SendersKept ==
  ASSUME NEW m, UNCHANGED senders
  PROVE /\ Sending(m)' = Sending(m) /\ Holders(m)' = Holders(m) /\ AtWork(m)' = AtWork(m)
        /\ \A e : OnEntry(e)' = OnEntry(e)
  BY DEF Sending, Holders, AtWork, OnEntry
-----------------------------------------------------------------------------
(* Parts of the invariant that a step leaves alone.  Nothing undoes that a
   request is over, a copy has arrived or a fault has happened. *)

DoneStays == \A m \in Messages : primary[m] = "done" => primary'[m] = "done"
SettledStay == \A m \in Messages : Settled(m) => Settled(m)'
CopiesGrow == \A m \in Messages : copies[m] > 0 => copies'[m] > 0
FaultsStay == faults' = 0 => faults = 0
SameStatus == \A m \in Messages : outbox'[m].status = outbox[m].status

LEMMA InvOf ==
  ASSUME IInv
  PROVE /\ TypeOK /\ RowsFollowRequests /\ RowsAreInserted
        /\ WorkIsSettled /\ EntriesAreFilled /\ JobsAgree /\ SentIsCounted
        /\ CopiesAreBudgeted /\ AttemptsAreLeft /\ ClaimsAreExclusive /\ HandOversAreKept
  BY DEF IInv

LEMMA RequestsKept ==
  ASSUME UNCHANGED <<primary, mark, inserting>>
  PROVE DoneStays /\ SettledStay
  BY DEF DoneStays, SettledStay, Settled

LEMMA RowsKept ==
  ASSUME RowsFollowRequests, UNCHANGED <<outbox, primary, mark, inserting>>
  PROVE RowsFollowRequests'
  BY DEF RowsFollowRequests, Settled

\* The row of a settled message may become anything.
LEMMA RowsOfSettled ==
  ASSUME TypeOK, RowsFollowRequests, NEW m \in Messages, Settled(m), NEW r,
         outbox' = [outbox EXCEPT ![m] = r], UNCHANGED <<primary, mark, inserting>>
  PROVE RowsFollowRequests'
  <1>0. outbox \in [Messages -> OutboxRow]
    BY Types
  <1>1. \A x \in Messages : x # m => outbox'[x] = outbox[x]
    BY <1>0
  <1>2. \A x \in Messages : Settled(x)' <=> Settled(x)
    BY DEF Settled
  <1> QED BY <1>1, <1>2 DEF RowsFollowRequests, Settled

LEMMA InsertedKept ==
  ASSUME RowsAreInserted, FaultsStay,
         \A m \in Messages : /\ primary'[m] # "idle" /\ m \notin inserting'
                                  => primary[m] # "idle" /\ m \notin inserting
                             /\ outbox'[m].status = outbox[m].status \/ outbox'[m].status # "NONE"
  PROVE RowsAreInserted'
  BY DEF RowsAreInserted, FaultsStay

LEMMA WorkKept ==
  ASSUME WorkIsSettled, SettledStay, TypeOK,
         \A w \in Workers : senders'[w] # Idle =>
             senders[w] # Idle /\ senders'[w].message = senders[w].message,
         \A o \in Operators : desk'[o] # NoMessage => desk'[o] = desk[o],
         \A m \in Messages : \/ outbox'[m].status = outbox[m].status
                             \/ outbox'[m].status \notin {"NONE", "HANDED_OFF"}
  PROVE WorkIsSettled'
  <1>1. \A w \in Workers : senders[w] # Idle => senders[w].message \in Messages
    BY SenderHasTask, WorkersAndJobs, TaskIsRecord
  <1>2. \A o \in Operators : desk[o] # NoMessage => desk[o] \in Messages
    BY Types
  <1>3. ASSUME NEW w \in Workers, senders'[w] # Idle
        PROVE /\ primary'[senders'[w].message] = "done" /\ mark'[senders'[w].message] = "none"
              /\ senders'[w].message \notin inserting'
    <2>1. PICK m \in Messages : m = senders'[w].message /\ m = senders[w].message
      BY <1>1, <1>3
    <2>2. senders[w] # Idle
      BY <1>3
    <2>3. Settled(m)
      BY <2>1, <2>2 DEF WorkIsSettled
    <2>4. Settled(m)'
      BY <2>3 DEF SettledStay
    <2> QED BY <2>1, <2>4 DEF Settled
  <1>4. ASSUME NEW o \in Operators, desk'[o] # NoMessage
        PROVE /\ primary'[desk'[o]] = "done" /\ mark'[desk'[o]] = "none" /\ desk'[o] \notin inserting'
              /\ outbox'[desk'[o]].status \notin {"NONE", "HANDED_OFF"}
    <2>1. PICK m \in Messages : m = desk'[o] /\ m = desk[o]
      BY <1>2, <1>4
    <2>2. Settled(m) /\ outbox[m].status \notin {"NONE", "HANDED_OFF"}
      BY <1>4, <2>1 DEF WorkIsSettled
    <2>3. Settled(m)' /\ outbox'[m].status \notin {"NONE", "HANDED_OFF"}
      BY <2>2 DEF SettledStay
    <2> QED BY <2>1, <2>3 DEF Settled
  <1> QED BY <1>3, <1>4 DEF WorkIsSettled, Settled

LEMMA EntriesKept ==
  ASSUME TypeOK, EntriesAreFilled, DoneStays,
         \A e \in Entities : /\ queue'[e].payload = queue[e].payload
                             /\ queue'[e].status # "NONE" => queue[e].payload # NoMessage
  PROVE EntriesAreFilled'
  <1>1. \A e \in Entities : queue[e].payload \in Messages \cup {NoMessage}
    BY Types, EntryIsRecord
  <1> QED BY <1>1, OutboxAssumption DEF EntriesAreFilled, Enqueued, DoneStays

LEMMA JobsKept ==
  ASSUME TypeOK, JobsAgree, DoneStays,
         \A j \in Jobs : \/ senders'[j] = Idle
                         \/ senders'[j] = senders[j]
                         \/ /\ senders[j] # Idle
                            /\ senders'[j].step # "claimed"
                            /\ senders'[j].message = senders[j].message
                            /\ senders'[j].entity = senders[j].entity,
         \A e \in Entities : \/ /\ queue'[e].payload = queue[e].payload
                                /\ queue'[e].due => queue[e].due
                             \/ queue'[e].payload # NoMessage /\ ~queue'[e].due
  PROVE JobsAgree'
  <1> SUFFICES ASSUME NEW j \in Jobs, senders'[j] # Idle
               PROVE /\ senders'[j].step # "claimed"
                     /\ senders'[j].message \in Dms
                     /\ Entity[senders'[j].message] = senders'[j].entity
                     /\ primary'[senders'[j].message] = "done"
                     /\ queue'[senders'[j].entity].payload # NoMessage
                     /\ queue'[senders'[j].entity].due =>
                           queue'[senders'[j].entity].payload = senders'[j].message
                     /\ \A i \in Jobs : senders'[i] # Idle /\ senders'[i].entity = senders'[j].entity
                                          => senders'[i].message = senders'[j].message
    BY DEF JobsAgree, Enqueued, OnEntry
  <1>1. senders[j] # Idle /\ senders[j] \in Task
    BY SenderHasTask, WorkersAndJobs
  <1>2. PICK m \in Messages : m = senders[j].message /\ m = senders'[j].message
    BY <1>1, TaskIsRecord
  <1>3. PICK e \in Entities : e = senders[j].entity /\ e = senders'[j].entity
    BY <1>1, TaskIsRecord
  <1>4. /\ senders[j].step # "claimed"
        /\ m \in Dms /\ Entity[m] = e /\ primary[m] = "done"
        /\ queue[e].payload # NoMessage
        /\ queue[e].due => queue[e].payload = m
        /\ \A i \in Jobs : senders[i] # Idle /\ senders[i].entity = e => senders[i].message = m
    BY <1>1, <1>2, <1>3 DEF JobsAgree, Enqueued, OnEntry
  <1>5. senders'[j].step # "claimed"
    BY <1>4
  <1>6. m \in Dms /\ Entity[m] = e /\ primary'[m] = "done"
    BY <1>4 DEF DoneStays
  <1>7. queue'[e].payload # NoMessage /\ (queue'[e].due => queue'[e].payload = m)
    BY <1>4
  <1>8. \A i \in Jobs : senders'[i] # Idle /\ senders'[i].entity = e => senders'[i].message = m
    BY <1>4
  <1> QED BY <1>2, <1>3, <1>5, <1>6, <1>7, <1>8

LEMMA SentKept ==
  ASSUME TypeOK, SentIsCounted, CopiesGrow,
         \A s \in Senders : \/ senders'[s] = senders[s] \/ senders'[s] = Idle
                            \/ senders'[s].step # "sent",
         \A m \in Messages : /\ outbox'[m].status = "SENT" =>
                                   outbox[m].status = "SENT" \/ copies'[m] > 0
                             /\ primary'[m] = "sent" => primary[m] = "sent"
                             /\ mark'[m] = "SENT" => mark[m] = "SENT"
  PROVE SentIsCounted'
  <1>1. \A s \in Senders : senders[s] # Idle => senders[s].message \in Messages
    BY SenderHasTask, TaskIsRecord
  <1> QED BY <1>1 DEF SentIsCounted, CopiesGrow

LEMMA AttemptsKept ==
  ASSUME AttemptsAreLeft, UNCHANGED <<desk, retries>>,
         \A m \in Messages : /\ outbox'[m].attempts = outbox[m].attempts
                             /\ outbox'[m].status \in {"PENDING", "PROCESSING"} =>
                                   outbox[m].status \in {"PENDING", "PROCESSING"},
         \A w \in Workers : senders'[w] # Idle /\ senders'[w].step # "listed" =>
               /\ senders[w] # Idle /\ senders[w].step # "listed"
               /\ senders'[w].attempts = senders[w].attempts
  PROVE AttemptsAreLeft'
  <1>1. AtDesk' = AtDesk
    BY DEF AtDesk
  <1>2. RetriesDone' = RetriesDone
    BY <1>1 DEF RetriesDone
  <1> QED BY <1>1, <1>2 DEF AttemptsAreLeft

\* A fresh row has an attempt left.
LEMMA SomeAttemptsAreLeft ==
  ASSUME TypeOK, AttemptsAreLeft
  PROVE /\ RetriesDone \in Int /\ Cardinality(AtDesk) \in Nat
        /\ 0 < maxAttempts + RetriesDone /\ 0 <= maxAttempts + RetriesDone
  <1>1. RetriesDone >= 0 /\ Cardinality(AtDesk) \in Nat
    BY FS_CardinalityType DEF AttemptsAreLeft
  <1>2. RetriesDone \in Int
    BY <1>1, Types DEF RetriesDone
  <1> QED BY <1>1, <1>2, Constants

LEMMA ClaimsKept ==
  ASSUME ClaimsAreExclusive, retries' = 0 => retries = 0,
         retries = 0 => \A m \in Messages :
                             \/ Holders(m)' = {}
                             \/ /\ Holders(m)' = Holders(m)
                                /\ outbox'[m].status = outbox[m].status
  PROVE ClaimsAreExclusive'
  BY DEF ClaimsAreExclusive

LEMMA HandOversKept ==
  ASSUME HandOversAreKept, CopiesGrow, UNCHANGED queue,
         \A m \in Messages : mark'[m] = "HANDED_OFF" \/ outbox'[m].status = "HANDED_OFF"
                                => mark[m] = "HANDED_OFF" \/ outbox[m].status = "HANDED_OFF"
  PROVE HandOversAreKept'
  <1>1. \A e \in Entities : queue'[e].status = "SENT" => \E d \in Dms : Entity[d] = e /\ copies'[d] > 0
    <2> SUFFICES ASSUME NEW e \in Entities, queue[e].status = "SENT"
                 PROVE \E d \in Dms : Entity[d] = e /\ copies'[d] > 0
      OBVIOUS
    <2>1. PICK d \in Dms : Entity[d] = e /\ copies[d] > 0
      BY DEF HandOversAreKept
    <2> QED BY <2>1 DEF CopiesGrow, Messages
  <1>2. \A m \in Messages : mark'[m] = "HANDED_OFF" \/ outbox'[m].status = "HANDED_OFF" =>
           queue'[Entity[m]].status # "NONE"
    BY DEF HandOversAreKept
  <1> QED BY <1>1, <1>2 DEF HandOversAreKept

LEMMA BudgetKept ==
  ASSUME NEW m \in Messages, TypeOK, CopiesAreBudgeted,
         FromRequest(m)' + FromRow(m)' + Cardinality(Sending(m))' + FromEntry(m)' + copies'[m] - extra'[m]
           <= FromRequest(m) + FromRow(m) + Cardinality(Sending(m)) + FromEntry(m) + copies[m] - extra[m],
         copies'[m] \in Nat, extra'[m] \in Nat, Cardinality(Sending(m))' \in Nat
  PROVE copies'[m] + FromRequest(m)' + FromRow(m)' + Cardinality(Sending(m))' + FromEntry(m)'
          <= 1 + extra'[m]
  <1>1. /\ FromRequest(m) \in Int /\ FromRow(m) \in Int /\ FromEntry(m) \in Int
        /\ Cardinality(Sending(m)) \in Nat /\ copies[m] \in Nat /\ extra[m] \in Nat
    BY PartsAreSmall, SendingIsFinite, Types
  <1>2. FromRequest(m)' \in Int /\ FromRow(m)' \in Int /\ FromEntry(m)' \in Int
    BY DEF FromRequest, FromRow, FromEntry
  <1>3. copies[m] + FromRequest(m) + FromRow(m) + Cardinality(Sending(m)) + FromEntry(m) <= 1 + extra[m]
    BY DEF CopiesAreBudgeted
  <1> QED BY <1>1, <1>2, <1>3
-----------------------------------------------------------------------------
(* Attempts and histories. *)

LEMMA AttemptDoes ==
  ASSUME TypeOK, NEW m \in Messages, NEW n \in {0, 1}, Attempt(m, n)
  PROVE /\ copies' \in [Messages -> Nat] /\ extra' \in [Messages -> Nat] /\ faults' \in Nat
        /\ copies'[m] - extra'[m] = copies[m] - extra[m] + n
        /\ copies'[m] >= n
        /\ \A x \in Messages : x # m => copies'[x] = copies[x] /\ extra'[x] = extra[x]
        /\ CopiesGrow /\ FaultsStay
  <1>1. copies \in [Messages -> Nat] /\ extra \in [Messages -> Nat] /\ faults \in Nat
    BY Types
  <1>2. PICK lost \in 0 .. MaxFaults - faults :
           /\ faults' = faults + lost
           /\ copies' = [copies EXCEPT ![m] = @ + lost + n]
           /\ extra' = [extra EXCEPT ![m] = @ + lost]
    BY DEF Attempt
  <1>3. lost \in Nat /\ MaxFaults \in Nat
    BY <1>1, <1>2, OutboxAssumption
  <1>4. copies[m] + lost + n \in Nat /\ extra[m] + lost \in Nat /\ n \in Nat
    BY <1>1, <1>3
  <1>5. /\ copies' \in [Messages -> Nat] /\ copies'[m] = copies[m] + lost + n
        /\ extra' \in [Messages -> Nat] /\ extra'[m] = extra[m] + lost
        /\ \A x \in Messages : x # m => copies'[x] = copies[x] /\ extra'[x] = extra[x]
    BY <1>1, <1>2, <1>4
  <1>6. /\ copies'[m] - extra'[m] = copies[m] - extra[m] + n
        /\ copies'[m] >= n /\ copies'[m] >= copies[m]
    BY <1>1, <1>3, <1>4, <1>5
  <1>7. CopiesGrow
    BY <1>1, <1>5, <1>6 DEF CopiesGrow
  <1>8. faults' \in Nat /\ FaultsStay
    BY <1>1, <1>2, <1>3 DEF FaultsStay
  <1> QED BY <1>5, <1>6, <1>7, <1>8

LEMMA ArrivesDoes ==
  ASSUME TypeOK, NEW m \in Messages, Arrives(m)
  PROVE /\ copies' \in [Messages -> Nat] /\ extra' \in [Messages -> Nat] /\ faults' \in Nat
        /\ copies'[m] - extra'[m] = copies[m] - extra[m] + 1 /\ copies'[m] > 0
        /\ \A x \in Messages : x # m => copies'[x] = copies[x] /\ extra'[x] = extra[x]
        /\ CopiesGrow /\ FaultsStay
  <1>1. Attempt(m, 1)
    BY DEF Arrives
  <1>2. copies' \in [Messages -> Nat] /\ copies'[m] >= 1
    BY <1>1, AttemptDoes
  <1> QED BY <1>1, <1>2, AttemptDoes

LEMMA FaultDoes ==
  ASSUME TypeOK, Fault
  PROVE faults' \in Nat /\ FaultsStay
  BY Types DEF Fault, FaultsStay

LEMMA NotSentDoes ==
  ASSUME TypeOK, NEW m \in Messages, NotSent(m)
  PROVE /\ copies' \in [Messages -> Nat] /\ extra' \in [Messages -> Nat] /\ faults' \in Nat
        /\ copies'[m] - extra'[m] = copies[m] - extra[m]
        /\ \A x \in Messages : x # m => copies'[x] = copies[x] /\ extra'[x] = extra[x]
        /\ CopiesGrow /\ FaultsStay
  <1>1. Attempt(m, 0)
    BY DEF NotSent
  <1>2. copies[m] - extra[m] + 0 = copies[m] - extra[m]
    BY Types
  <1> QED BY <1>1, <1>2, AttemptDoes

\* Events of which some let a message be sent once more.
LEMMA ExtraDoes ==
  ASSUME TypeOK, NEW m \in Messages, NEW b \in BOOLEAN,
         extra' = IF b THEN Once(extra, m) ELSE extra
  PROVE /\ extra' \in [Messages -> Nat]
        /\ b => extra'[m] = extra[m] + 1
        /\ \A x \in Messages : extra'[x] >= extra[x]
        /\ \A x \in Messages : x # m => extra'[x] = extra[x]
  <1>1. extra \in [Messages -> Nat]
    BY Types
  <1>2. CASE b
    <2>1. extra' = Once(extra, m)
      BY <1>2
    <2>2. /\ extra' \in [Messages -> Nat] /\ extra'[m] = extra[m] + 1
          /\ \A x \in Messages : x # m => extra'[x] = extra[x]
      BY <1>1, <2>1, OneMore
    <2>3. \A x \in Messages : extra'[x] >= extra[x]
      BY <1>1, <2>2
    <2> QED BY <1>2, <2>2, <2>3
  <1>3. CASE ~b
    BY <1>1, <1>3
  <1> QED BY <1>2, <1>3

LEMMA SameCopies ==
  ASSUME UNCHANGED copies
  PROVE CopiesGrow
  BY DEF CopiesGrow

-----------------------------------------------------------------------------
(* The first step, and the steps that the request makes. *)

LEMMA InitIInv == Init => IInv
  <1> SUFFICES ASSUME Init PROVE IInv
    OBVIOUS
  <1>0. /\ outbox = [m \in Messages |-> Absent] /\ queue = [e \in Entities |-> NotQueued]
        /\ primary = [m \in Messages |-> "idle"] /\ inserting = {}
        /\ mark = [m \in Messages |-> "none"] /\ senders = [s \in Senders |-> Idle]
        /\ desk = [o \in Operators |-> NoMessage] /\ retries = 0 /\ faults = 0
        /\ copies = [m \in Messages |-> 0] /\ extra = [m \in Messages |-> 0]
    BY DEF Init
  <1>1. TypeOK
    BY <1>0 DEF TypeOK, OutboxRow, QueueRow, Absent, NotQueued
  <1>2. RowsFollowRequests /\ RowsAreInserted
    BY <1>0 DEF RowsFollowRequests, RowsAreInserted, Settled, Absent
  <1>3. WorkIsSettled /\ EntriesAreFilled /\ JobsAgree /\ SentIsCounted
    BY <1>0, WorkersAndJobs DEF WorkIsSettled, EntriesAreFilled, JobsAgree, SentIsCounted, NotQueued, Absent
  <1>4. CopiesAreBudgeted
    <2> SUFFICES ASSUME NEW m \in Messages
                 PROVE copies[m] + FromRequest(m) + FromRow(m) + Cardinality(Sending(m)) + FromEntry(m)
                         <= 1 + extra[m]
      BY DEF CopiesAreBudgeted
    <2>1. Sending(m) = {}
      BY <1>0 DEF Sending
    <2>2. Cardinality(Sending(m)) = 0
      BY <2>1, FS_EmptySet
    <2>3. FromRequest(m) = 1 /\ FromRow(m) = 0
      BY <1>0 DEF FromRequest, FromRow
    <2>4. Entity[m] \in Entities /\ m # NoMessage
      BY OutboxAssumption
    <2>5. queue[Entity[m]].payload = NoMessage
      BY <1>0, <2>4 DEF NotQueued
    <2>6. FromEntry(m) = 0
      BY <2>4, <2>5 DEF FromEntry
    <2> QED BY <1>0, <2>2, <2>3, <2>6
  <1>5. AttemptsAreLeft
    <2>1. AtDesk = {}
      BY <1>0 DEF AtDesk
    <2>2. IsFiniteSet(AtDesk) /\ RetriesDone = 0
      BY <1>0, <2>1, FS_EmptySet DEF RetriesDone
    <2> QED BY <1>0, <2>2, OutboxAssumption, WorkersAndJobs DEF AttemptsAreLeft, Absent
  <1>6. ClaimsAreExclusive
    BY <1>0, WorkersAndJobs DEF ClaimsAreExclusive, Holders, AtWork
  <1>7. HandOversAreKept
    BY <1>0 DEF HandOversAreKept, Absent, NotQueued
  <1> QED BY <1>1, <1>2, <1>3, <1>4, <1>5, <1>6, <1>7 DEF IInv

\* The request begins; its row is to be inserted.
LEMMA DeliverInv ==
  ASSUME IInv, NEW m \in Messages, Deliver(m)
  PROVE IInv'
  <1>0. /\ TypeOK /\ RowsFollowRequests /\ RowsAreInserted
        /\ WorkIsSettled /\ EntriesAreFilled /\ JobsAgree /\ SentIsCounted
        /\ CopiesAreBudgeted /\ AttemptsAreLeft /\ ClaimsAreExclusive /\ HandOversAreKept
    BY InvOf
  <1>1. /\ m \in Dms \cup Audits /\ primary[m] = "idle"
        /\ primary' = [primary EXCEPT ![m] = "send"] /\ inserting' = inserting \cup {m}
        /\ UNCHANGED <<outbox, queue, mark, senders, desk, retries, faults, copies, extra>>
    BY DEF Deliver
  <1>2. /\ primary'[m] = "send"
        /\ \A x \in Messages : x # m => primary'[x] = primary[x] /\ (x \in inserting' <=> x \in inserting)
    BY <1>0, <1>1, Types
  <1>3. outbox[m].status = "NONE" /\ mark[m] = "none" /\ ~outbox[m].due
    BY <1>0, <1>1, Types DEF RowsFollowRequests, Settled
  <1>4. DoneStays /\ SettledStay
    BY <1>1, <1>2 DEF DoneStays, SettledStay, Settled
  <1>5. CopiesGrow /\ FaultsStay
    BY <1>1, SameCopies DEF FaultsStay
  <1>6. TypeOK'
    BY <1>0, <1>1 DEF TypeOK
  <1>7. RowsAreInserted'
    BY <1>0, <1>1, <1>2, <1>3 DEF RowsAreInserted
  <1>8. RowsFollowRequests'
    BY <1>0, <1>1, <1>2, <1>3 DEF RowsFollowRequests, Settled
  <1>9. WorkIsSettled'
    BY <1>0, <1>1, <1>4, WorkKept
  <1>10. EntriesAreFilled'
    BY <1>0, <1>1, <1>4, EntriesKept DEF EntriesAreFilled
  <1>11. JobsAgree'
    BY <1>0, <1>1, <1>4, JobsKept
  <1>12. SentIsCounted'
    BY <1>0, <1>1, <1>2, <1>5, SentKept
  <1>13. CopiesAreBudgeted'
    <2> SUFFICES ASSUME NEW x \in Messages
                 PROVE copies'[x] + FromRequest(x)' + FromRow(x)' + Cardinality(Sending(x))' + FromEntry(x)'
                         <= 1 + extra'[x]
      BY DEF CopiesAreBudgeted
    <2>1. Sending(x)' = Sending(x) /\ Holders(x)' = Holders(x) /\ \A e : OnEntry(e)' = OnEntry(e)
      BY <1>1, SendersKept
    <2>2. FromRequest(x)' = FromRequest(x)
      BY <1>1, <1>2 DEF FromRequest
    <2>3. FromRow(x)' = FromRow(x)
      BY <1>1, <1>2, <2>1 DEF FromRow
    <2>4. FromEntry(x)' = FromEntry(x)
      BY <1>1, <2>1, EntryKept
    <2> QED BY <1>0, <1>1, <2>1, <2>2, <2>3, <2>4 DEF CopiesAreBudgeted
  <1>14. AttemptsAreLeft'
    BY <1>0, <1>1, AttemptsKept
  <1>15. ClaimsAreExclusive'
    BY <1>0, <1>1, SendersKept, ClaimsKept
  <1>16. HandOversAreKept'
    BY <1>0, <1>1, <1>5, HandOversKept
  <1> QED BY <1>6, <1>7, <1>8, <1>9, <1>10, <1>11, <1>12, <1>13, <1>14, <1>15, <1>16 DEF IInv

\* The row appears, not yet due.
LEMMA EnqueueDiscordOutboxEventInv ==
  ASSUME IInv, NEW m \in Messages, EnqueueDiscordOutboxEvent(m)
  PROVE IInv'
  <1>0. /\ TypeOK /\ RowsFollowRequests /\ RowsAreInserted
        /\ WorkIsSettled /\ EntriesAreFilled /\ JobsAgree /\ SentIsCounted
        /\ CopiesAreBudgeted /\ AttemptsAreLeft /\ ClaimsAreExclusive /\ HandOversAreKept
    BY InvOf
  <1> DEFINE r == [status |-> "PENDING", attempts |-> 0, due |-> FALSE]
  <1>1. /\ m \in inserting /\ inserting' = inserting \ {m}
        /\ outbox' = [outbox EXCEPT ![m] = r]
        /\ UNCHANGED <<queue, primary, mark, senders, desk, retries, faults, copies, extra>>
    BY DEF EnqueueDiscordOutboxEvent
  <1>2. /\ outbox'[m] = r
        /\ \A x \in Messages : x # m => outbox'[x] = outbox[x] /\ (x \in inserting' <=> x \in inserting)
    BY <1>0, <1>1, Types
  <1>2a. r \in OutboxRow /\ r.status = "PENDING" /\ r.attempts = 0 /\ r.due = FALSE
    BY DEF OutboxRow
  <1>3. outbox[m].status = "NONE" /\ primary[m] # "idle" /\ ~Settled(m)
    BY <1>0, <1>1 DEF RowsFollowRequests, Settled
  <1>4. DoneStays /\ SettledStay
    BY <1>1 DEF DoneStays, SettledStay, Settled
  <1>5. CopiesGrow /\ FaultsStay
    BY <1>1, SameCopies DEF FaultsStay
  <1>6. TypeOK'
    <2>1. outbox' \in [Messages -> OutboxRow] /\ inserting' \subseteq Messages
      BY <1>0, <1>1, <1>2a, Types
    <2> QED BY <1>0, <1>1, <2>1 DEF TypeOK
  <1>7. RowsAreInserted'
    BY <1>0, <1>1, <1>2, <1>2a DEF RowsAreInserted
  <1>8. RowsFollowRequests'
    BY <1>0, <1>1, <1>2, <1>2a, <1>3 DEF RowsFollowRequests, Settled
  <1>9. WorkIsSettled'
    BY <1>0, <1>1, <1>2, <1>2a, <1>4, WorkKept
  <1>10. EntriesAreFilled'
    BY <1>0, <1>1, <1>4, EntriesKept DEF EntriesAreFilled
  <1>11. JobsAgree'
    BY <1>0, <1>1, <1>4, JobsKept
  <1>12. SentIsCounted'
    BY <1>0, <1>1, <1>2, <1>2a, <1>5, SentKept
  <1>13. CopiesAreBudgeted'
    <2> SUFFICES ASSUME NEW x \in Messages
                 PROVE copies'[x] + FromRequest(x)' + FromRow(x)' + Cardinality(Sending(x))' + FromEntry(x)'
                         <= 1 + extra'[x]
      BY DEF CopiesAreBudgeted
    <2>1. Sending(x)' = Sending(x) /\ Holders(x)' = Holders(x) /\ \A e : OnEntry(e)' = OnEntry(e)
      BY <1>1, SendersKept
    <2>2. FromRequest(x)' = FromRequest(x)
      BY <1>1, RequestKept
    <2>3. FromRow(x)' = FromRow(x)
      <3>1. CASE x = m
        BY <3>1, <1>1, <1>2, <1>2a DEF FromRow
      <3>2. CASE x # m
        BY <3>2, <1>1, <1>2, <2>1, RowKept
      <3> QED BY <3>1, <3>2
    <2>4. FromEntry(x)' = FromEntry(x)
      BY <1>1, <2>1, EntryKept
    <2> QED BY <1>0, <1>1, <2>1, <2>2, <2>3, <2>4 DEF CopiesAreBudgeted
  <1>14. AttemptsAreLeft'
    <2>1. AtDesk' = AtDesk /\ RetriesDone' = RetriesDone
      BY <1>1 DEF AtDesk, RetriesDone
    <2>2. 0 < maxAttempts + RetriesDone /\ 0 <= maxAttempts + RetriesDone
      BY <1>0, SomeAttemptsAreLeft
    <2> QED BY <1>0, <1>1, <1>2, <1>2a, <2>1, <2>2 DEF AttemptsAreLeft
  <1>15. ClaimsAreExclusive'
    <2>1. Holders(m) = {}
      BY <1>0, <1>3 DEF Holders, AtWork, WorkIsSettled
    <2>2. \A x \in Messages : Holders(x)' = Holders(x)
      BY <1>1, SendersKept
    <2> QED BY <1>0, <1>1, <1>2, <2>1, <2>2, ClaimsKept
  <1>16. HandOversAreKept'
    BY <1>0, <1>1, <1>2, <1>2a, <1>5, HandOversKept
  <1> QED BY <1>6, <1>7, <1>8, <1>9, <1>10, <1>11, <1>12, <1>13, <1>14, <1>15, <1>16 DEF IInv

\* The request goes on from p0 to p and may begin to mark its row: what does not
\* depend on what it has sent or queued.
LEMMA RequestGoesOn ==
  ASSUME IInv, NEW m \in Messages, primary[m] \in {"send", "sent", "queue"},
         NEW p \in {"sent", "queue", "done"}, NEW k \in {"none", "SENT", "HANDED_OFF", "DEAD"},
         primary' = [primary EXCEPT ![m] = p], mark' = [mark EXCEPT ![m] = k],
         k # "none" => p = "done",
         p = "queue" => m \in Dms,
         FaultsStay, UNCHANGED <<outbox, inserting, senders, desk, retries>>
  PROVE /\ primary' \in [Messages -> {"idle", "send", "sent", "queue", "done"}]
        /\ mark' \in [Messages -> {"none", "SENT", "HANDED_OFF", "DEAD"}]
        /\ primary'[m] = p /\ mark'[m] = k
        /\ \A x \in Messages : x # m => primary'[x] = primary[x] /\ mark'[x] = mark[x]
        /\ DoneStays /\ FromRow(m) = 0
        /\ RowsFollowRequests' /\ RowsAreInserted' /\ WorkIsSettled'
        /\ AttemptsAreLeft' /\ ClaimsAreExclusive'
  <1>0. /\ TypeOK /\ RowsFollowRequests /\ RowsAreInserted
        /\ WorkIsSettled /\ AttemptsAreLeft /\ ClaimsAreExclusive
    BY InvOf
  <1>1. /\ primary' \in [Messages -> {"idle", "send", "sent", "queue", "done"}]
        /\ mark' \in [Messages -> {"none", "SENT", "HANDED_OFF", "DEAD"}]
        /\ primary'[m] = p /\ mark'[m] = k
        /\ \A x \in Messages : x # m => primary'[x] = primary[x] /\ mark'[x] = mark[x]
    BY <1>0, Types
  <1>2. DoneStays /\ SettledStay
    BY <1>1 DEF DoneStays, SettledStay, Settled
  <1>3. FromRow(m) = 0
    BY DEF FromRow
  <1>4. RowsFollowRequests'
    <2> SUFFICES ASSUME NEW x \in Messages
                 PROVE /\ x \in inserting' => /\ outbox'[x].status = "NONE" /\ primary'[x] # "idle"
                                              /\ x \in Dms \cup Audits
                       /\ primary'[x] = "idle" => outbox'[x].status = "NONE"
                       /\ primary'[x] = "queue" => x \in Dms
                       /\ mark'[x] # "none" => primary'[x] = "done"
                       /\ ~Settled(x)' => outbox'[x].status \in {"NONE", "PENDING"} /\ ~outbox'[x].due
      BY DEF RowsFollowRequests
    <2>1. CASE x = m
      <3>1. ~Settled(m)
        BY DEF Settled
      <3> QED BY <3>1, <2>1, <1>0, <1>1 DEF RowsFollowRequests
    <2>2. CASE x # m
      <3>1. Settled(x)' <=> Settled(x)
        BY <2>2, <1>1 DEF Settled
      <3> QED BY <3>1, <2>2, <1>0, <1>1 DEF RowsFollowRequests
    <2> QED BY <2>1, <2>2
  <1>5. RowsAreInserted'
    BY <1>0, <1>1, InsertedKept
  <1>6. WorkIsSettled'
    BY <1>0, <1>2, WorkKept
  <1>7. AttemptsAreLeft'
    BY <1>0, AttemptsKept
  <1>8. ClaimsAreExclusive'
    BY <1>0, SendersKept, ClaimsKept
  <1> QED BY <1>1, <1>2, <1>3, <1>4, <1>5, <1>6, <1>7, <1>8

\* What the message could still be sent by, when its request goes on and neither
\* senders nor entries change.
LEMMA RequestBudget ==
  ASSUME TypeOK, CopiesAreBudgeted, NEW m \in Messages,
         \A x \in Messages : x # m => primary'[x] = primary[x] /\ mark'[x] = mark[x],
         UNCHANGED <<outbox, queue, inserting, senders>>,
         copies' \in [Messages -> Nat], extra' \in [Messages -> Nat],
         \A x \in Messages : x # m => copies'[x] = copies[x] /\ extra'[x] = extra[x],
         FromRequest(m)' + FromRow(m)' + copies'[m] - extra'[m]
            <= FromRequest(m) + FromRow(m) + copies[m] - extra[m]
  PROVE CopiesAreBudgeted'
  <1> SUFFICES ASSUME NEW x \in Messages
               PROVE copies'[x] + FromRequest(x)' + FromRow(x)' + Cardinality(Sending(x))' + FromEntry(x)'
                       <= 1 + extra'[x]
    BY DEF CopiesAreBudgeted
  <1>1. Sending(x)' = Sending(x) /\ Holders(x)' = Holders(x) /\ \A e : OnEntry(e)' = OnEntry(e)
    BY SendersKept
  <1>2. FromEntry(x)' = FromEntry(x)
    BY <1>1, EntryKept
  <1>3. CASE x # m
    <2>1. FromRequest(x)' = FromRequest(x)
      BY <1>3, RequestKept
    <2>2. FromRow(x)' = FromRow(x)
      BY <1>1, <1>3, RowKept
    <2> QED BY <1>1, <1>2, <1>3, <2>1, <2>2 DEF CopiesAreBudgeted
  <1>4. CASE x = m
    <2>1. Cardinality(Sending(m))' = Cardinality(Sending(m)) /\ FromEntry(m)' = FromEntry(m)
      BY <1>1, <1>2, <1>4
    <2>2. Cardinality(Sending(m)) \in Nat /\ FromEntry(m) \in Int
      BY SendingIsFinite, PartsAreSmall
    <2>3. FromRequest(m)' \in Int /\ FromRow(m)' \in Int /\ FromRequest(m) \in Int /\ FromRow(m) \in Int
      BY DEF FromRequest, FromRow
    <2>4. copies[m] \in Nat /\ extra[m] \in Nat /\ copies'[m] \in Nat /\ extra'[m] \in Nat
      BY Types
    <2>5. FromRequest(m)' + FromRow(m)' + Cardinality(Sending(m))' + FromEntry(m)' + copies'[m] - extra'[m]
           <= FromRequest(m) + FromRow(m) + Cardinality(Sending(m)) + FromEntry(m) + copies[m] - extra[m]
      BY <2>1, <2>2, <2>3, <2>4
    <2> QED BY <1>4, <2>1, <2>2, <2>4, <2>5, BudgetKept
  <1> QED BY <1>3, <1>4

\* The message is sent, or refused and left to others or given up.
LEMMA DispatchInv ==
  ASSUME IInv, NEW m \in Messages, Dispatch(m)
  PROVE IInv'
  <1>0. /\ TypeOK /\ RowsFollowRequests /\ RowsAreInserted
        /\ WorkIsSettled /\ EntriesAreFilled /\ JobsAgree /\ SentIsCounted
        /\ CopiesAreBudgeted /\ AttemptsAreLeft /\ ClaimsAreExclusive /\ HandOversAreKept
    BY InvOf
  <1>1. primary[m] = "send" /\ UNCHANGED <<outbox, queue, inserting, senders, desk, retries>>
    BY DEF Dispatch
  <1>2. mark[m] = "none"
    BY <1>0, <1>1 DEF RowsFollowRequests
  <1>3. /\ copies' \in [Messages -> Nat] /\ extra' \in [Messages -> Nat] /\ faults' \in Nat
        /\ \A x \in Messages : x # m => copies'[x] = copies[x] /\ extra'[x] = extra[x]
        /\ CopiesGrow /\ FaultsStay
    BY <1>0, ArrivesDoes, NotSentDoes DEF Dispatch
  <1>4. PICK p \in {"sent", "queue", "done"}, k \in {"none", "DEAD"} :
           /\ primary' = [primary EXCEPT ![m] = p] /\ mark' = [mark EXCEPT ![m] = k]
           /\ k # "none" => p = "done"
           /\ p = "queue" => m \in Dms
           /\ \/ p = "sent" /\ Arrives(m)
              \/ p # "sent" /\ NotSent(m)
    <2>1. mark = [mark EXCEPT ![m] = "none"]
      BY <1>0, <1>2, Types
    <2>2. CASE Arrives(m) /\ primary' = [primary EXCEPT ![m] = "sent"] /\ UNCHANGED mark
      BY <2>1, <2>2
    <2>3. CASE NotSent(m) /\ AfterRefusal(m)
      <3>1. CASE m \in Dms /\ primary' = [primary EXCEPT ![m] = "queue"] /\ UNCHANGED mark
        BY <2>1, <2>3, <3>1
      <3>2. CASE primary' = [primary EXCEPT ![m] = "done"] /\ mark' = [mark EXCEPT ![m] = "DEAD"]
        BY <2>3, <3>2
      <3>3. CASE m \in Audits /\ primary' = [primary EXCEPT ![m] = "done"] /\ UNCHANGED mark
        BY <2>1, <2>3, <3>3
      <3> QED BY <2>3, <3>1, <3>2, <3>3 DEF AfterRefusal
    <2> QED BY <2>2, <2>3 DEF Dispatch
  <1>5. /\ primary' \in [Messages -> {"idle", "send", "sent", "queue", "done"}]
        /\ mark' \in [Messages -> {"none", "SENT", "HANDED_OFF", "DEAD"}]
        /\ primary'[m] = p /\ mark'[m] = k
        /\ \A x \in Messages : x # m => primary'[x] = primary[x] /\ mark'[x] = mark[x]
        /\ DoneStays /\ FromRow(m) = 0
        /\ RowsFollowRequests' /\ RowsAreInserted' /\ WorkIsSettled'
        /\ AttemptsAreLeft' /\ ClaimsAreExclusive'
    BY <1>1, <1>3, <1>4, RequestGoesOn
  <1>6. TypeOK'
    BY <1>0, <1>1, <1>3, <1>5 DEF TypeOK
  <1>7. EntriesAreFilled' /\ JobsAgree'
    BY <1>0, <1>1, <1>5, EntriesKept, JobsKept DEF EntriesAreFilled
  <1>8. SentIsCounted'
    <2>1. p = "sent" => copies'[m] > 0
      BY <1>0, <1>4, ArrivesDoes, Types
    <2>2. \A s \in Senders : senders[s] # Idle => senders[s].message \in Messages
      BY <1>0, SenderHasTask, TaskIsRecord
    <2> QED BY <1>0, <1>1, <1>3, <1>5, <2>1, <2>2 DEF SentIsCounted, CopiesGrow
  <1>9. CopiesAreBudgeted'
    <2>1. FromRequest(m) = 1
      BY <1>1 DEF FromRequest
    <2>2. copies[m] \in Nat /\ extra[m] \in Nat /\ copies'[m] \in Nat /\ extra'[m] \in Nat
      BY <1>0, <1>3, Types
    <2>3. FromRequest(m)' + FromRow(m)' + copies'[m] - extra'[m]
            <= FromRequest(m) + FromRow(m) + copies[m] - extra[m]
      <3>1. CASE p = "sent" /\ Arrives(m)
        <4>1. FromRequest(m)' = 0 /\ FromRow(m)' = 0
          BY <1>5, <3>1 DEF FromRequest, FromRow
        <4>2. copies'[m] - extra'[m] = copies[m] - extra[m] + 1
          BY <1>0, <3>1, ArrivesDoes
        <4> QED BY <2>1, <2>2, <4>1, <4>2, <1>5
      <3>2. CASE p # "sent" /\ NotSent(m)
        <4>1. copies'[m] - extra'[m] = copies[m] - extra[m]
          BY <1>0, <3>2, NotSentDoes
        <4>2. FromRequest(m)' + FromRow(m)' <= 1 /\ FromRequest(m)' \in Int /\ FromRow(m)' \in Int
          BY <1>5, <3>2 DEF FromRequest, FromRow
        <4> QED BY <2>1, <2>2, <4>1, <4>2, <1>5
      <3> QED BY <1>4, <3>1, <3>2
    <2> QED BY <1>0, <1>1, <1>3, <1>5, <2>3, RequestBudget
  <1>10. HandOversAreKept'
    BY <1>0, <1>1, <1>3, <1>5, HandOversKept
  <1> QED BY <1>5, <1>6, <1>7, <1>8, <1>9, <1>10 DEF IInv

\* The request ends, after its message was recorded as delivered.
LEMMA ReportSentInv ==
  ASSUME IInv, NEW m \in Messages, ReportSent(m)
  PROVE IInv'
  <1>0. /\ TypeOK /\ RowsFollowRequests /\ RowsAreInserted
        /\ WorkIsSettled /\ EntriesAreFilled /\ JobsAgree /\ SentIsCounted
        /\ CopiesAreBudgeted /\ AttemptsAreLeft /\ ClaimsAreExclusive /\ HandOversAreKept
    BY InvOf
  <1>1. /\ primary[m] = "sent"
        /\ primary' = [primary EXCEPT ![m] = "done"] /\ mark' = [mark EXCEPT ![m] = "SENT"]
        /\ UNCHANGED <<outbox, queue, inserting, senders, desk, retries, faults, copies, extra>>
    BY DEF ReportSent
  <1>2. FaultsStay /\ CopiesGrow
    BY <1>1, SameCopies DEF FaultsStay
  <1>3. /\ primary' \in [Messages -> {"idle", "send", "sent", "queue", "done"}]
        /\ mark' \in [Messages -> {"none", "SENT", "HANDED_OFF", "DEAD"}]
        /\ primary'[m] = "done" /\ mark'[m] = "SENT"
        /\ \A x \in Messages : x # m => primary'[x] = primary[x] /\ mark'[x] = mark[x]
        /\ DoneStays /\ FromRow(m) = 0
        /\ RowsFollowRequests' /\ RowsAreInserted' /\ WorkIsSettled'
        /\ AttemptsAreLeft' /\ ClaimsAreExclusive'
    BY <1>1, <1>2, RequestGoesOn
  <1>4. TypeOK'
    BY <1>0, <1>1, <1>3 DEF TypeOK
  <1>5. EntriesAreFilled' /\ JobsAgree'
    BY <1>0, <1>1, <1>3, EntriesKept, JobsKept DEF EntriesAreFilled
  <1>6. SentIsCounted'
    BY <1>0, <1>1, <1>3 DEF SentIsCounted
  <1>7. CopiesAreBudgeted'
    <2>1. FromRequest(m)' = 0 /\ FromRow(m)' = 0 /\ FromRequest(m) = 0 /\ FromRow(m) = 0
      BY <1>1, <1>3 DEF FromRequest, FromRow
    <2>2. copies' \in [Messages -> Nat] /\ extra' \in [Messages -> Nat]
      BY <1>0, <1>1, Types
    <2>3. FromRequest(m)' + FromRow(m)' + copies'[m] - extra'[m]
            <= FromRequest(m) + FromRow(m) + copies[m] - extra[m]
      BY <1>1, <2>1, <2>2
    <2> QED BY <1>0, <1>1, <1>3, <2>2, <2>3, RequestBudget
  <1>8. HandOversAreKept'
    BY <1>0, <1>1, <1>2, <1>3, HandOversKept
  <1> QED BY <1>3, <1>4, <1>5, <1>6, <1>7, <1>8 DEF IInv

\* The request is lost.
LEMMA CrashPrimaryInv ==
  ASSUME IInv, NEW m \in Messages, CrashPrimary(m)
  PROVE IInv'
  <1>0. /\ TypeOK /\ RowsFollowRequests /\ RowsAreInserted
        /\ WorkIsSettled /\ EntriesAreFilled /\ JobsAgree /\ SentIsCounted
        /\ CopiesAreBudgeted /\ AttemptsAreLeft /\ ClaimsAreExclusive /\ HandOversAreKept
    BY InvOf
  <1>1. /\ primary[m] \in {"send", "sent", "queue"} /\ Fault
        /\ primary' = [primary EXCEPT ![m] = "done"]
        /\ extra' = IF primary[m] = "sent" THEN Once(extra, m) ELSE extra
        /\ UNCHANGED <<outbox, queue, inserting, mark, senders, desk, retries, copies>>
    BY DEF CrashPrimary
  <1>2. FaultsStay /\ CopiesGrow /\ faults' \in Nat
    BY <1>0, <1>1, SameCopies, FaultDoes
  <1>3. mark[m] = "none"
    BY <1>0, <1>1 DEF RowsFollowRequests
  <1>4. mark' = [mark EXCEPT ![m] = "none"]
    BY <1>0, <1>1, <1>3, Types
  <1>5. /\ primary' \in [Messages -> {"idle", "send", "sent", "queue", "done"}]
        /\ mark' \in [Messages -> {"none", "SENT", "HANDED_OFF", "DEAD"}]
        /\ primary'[m] = "done" /\ mark'[m] = "none"
        /\ \A x \in Messages : x # m => primary'[x] = primary[x] /\ mark'[x] = mark[x]
        /\ DoneStays /\ FromRow(m) = 0
        /\ RowsFollowRequests' /\ RowsAreInserted' /\ WorkIsSettled'
        /\ AttemptsAreLeft' /\ ClaimsAreExclusive'
    BY <1>1, <1>2, <1>4, RequestGoesOn
  <1>6. /\ extra' \in [Messages -> Nat]
        /\ primary[m] = "sent" => extra'[m] = extra[m] + 1
        /\ \A x \in Messages : extra'[x] >= extra[x]
        /\ \A x \in Messages : x # m => extra'[x] = extra[x]
    BY <1>0, <1>1, ExtraDoes
  <1>7. TypeOK'
    BY <1>0, <1>1, <1>2, <1>5, <1>6 DEF TypeOK
  <1>8. EntriesAreFilled' /\ JobsAgree'
    BY <1>0, <1>1, <1>5, EntriesKept, JobsKept DEF EntriesAreFilled
  <1>9. SentIsCounted'
    BY <1>0, <1>1, <1>5 DEF SentIsCounted
  <1>10. CopiesAreBudgeted'
    <2>1. FromRequest(m)' = 0 /\ FromRow(m)' <= 1 /\ FromRow(m)' \in Int
      BY <1>5 DEF FromRequest, FromRow
    <2>2. FromRequest(m) = IF primary[m] = "sent" THEN 0 ELSE 1
      BY <1>1 DEF FromRequest
    <2>3. copies' \in [Messages -> Nat] /\ copies[m] \in Nat /\ extra[m] \in Nat /\ extra'[m] \in Nat
      BY <1>0, <1>1, <1>6, Types
    <2>4. FromRequest(m)' + FromRow(m)' + copies'[m] - extra'[m]
            <= FromRequest(m) + FromRow(m) + copies[m] - extra[m]
      BY <1>1, <1>5, <1>6, <2>1, <2>2, <2>3
    <2> QED BY <1>0, <1>1, <1>5, <1>6, <2>3, <2>4, RequestBudget
  <1>11. HandOversAreKept'
    BY <1>0, <1>1, <1>2, <1>5, HandOversKept
  <1> QED BY <1>5, <1>7, <1>8, <1>9, <1>10, <1>11 DEF IInv

\* The message goes to the retry queue, which may have an entry in its place.
LEMMA EnqueueCustomerDmRetryInv ==
  ASSUME IInv, NEW m \in Messages, EnqueueCustomerDmRetry(m)
  PROVE IInv'
  <1>0. /\ TypeOK /\ RowsFollowRequests /\ RowsAreInserted
        /\ WorkIsSettled /\ EntriesAreFilled /\ JobsAgree /\ SentIsCounted
        /\ CopiesAreBudgeted /\ AttemptsAreLeft /\ ClaimsAreExclusive /\ HandOversAreKept
    BY InvOf
  <1>1. PICK e \in Entities, n \in Nat :
           /\ e = Entity[m]
           /\ queue' = IF queue[e].status \in Queued \cup {"SENT"}
                       THEN queue
                       ELSE [queue EXCEPT ![e] = [status |-> "PENDING", payload |-> m,
                                                  attempts |-> n, due |-> FALSE]]
    <2>1. Entity[m] \in Entities
      BY Constants
    <2>2. queue[Entity[m]].attempts \in Nat
      BY <1>0, <2>1, Types, EntryIsRecord
    <2> QED BY <2>1, <2>2 DEF EnqueueCustomerDmRetry
  <1>2. /\ primary[m] = "queue"
        /\ primary' = [primary EXCEPT ![m] = "done"] /\ mark' = [mark EXCEPT ![m] = "HANDED_OFF"]
        /\ UNCHANGED <<outbox, inserting, senders, desk, retries, faults, copies, extra>>
    BY DEF EnqueueCustomerDmRetry
  <1>3. m \in Dms /\ mark[m] = "none" /\ m # NoMessage
    BY <1>0, <1>2, Constants DEF RowsFollowRequests
  <1>4. FaultsStay /\ CopiesGrow
    BY <1>2, SameCopies DEF FaultsStay
  <1>5. /\ primary' \in [Messages -> {"idle", "send", "sent", "queue", "done"}]
        /\ mark' \in [Messages -> {"none", "SENT", "HANDED_OFF", "DEAD"}]
        /\ primary'[m] = "done" /\ mark'[m] = "HANDED_OFF"
        /\ \A x \in Messages : x # m => primary'[x] = primary[x] /\ mark'[x] = mark[x]
        /\ DoneStays /\ FromRow(m) = 0
        /\ RowsFollowRequests' /\ RowsAreInserted' /\ WorkIsSettled'
        /\ AttemptsAreLeft' /\ ClaimsAreExclusive'
    BY <1>2, <1>4, RequestGoesOn
  <1> DEFINE r == [status |-> "PENDING", payload |-> m, attempts |-> n, due |-> FALSE]
  <1>6. r \in QueueRow /\ r.status = "PENDING" /\ r.payload = m /\ r.due = FALSE
    BY DEF QueueRow
  <1>7. /\ queue' \in [Entities -> QueueRow]
        /\ \A f \in Entities : f # e => queue'[f] = queue[f]
        /\ \/ queue[e].status \in Queued \cup {"SENT"} /\ queue'[e] = queue[e]
           \/ queue[e].status \notin Queued \cup {"SENT"} /\ queue'[e] = r
    BY <1>0, <1>1, <1>6, Types
  <1>8. queue[e].payload # m
    BY <1>0, <1>1, <1>2, <1>3 DEF EntriesAreFilled, Enqueued
  <1>9. TypeOK'
    BY <1>0, <1>2, <1>5, <1>7 DEF TypeOK
  <1>10. EntriesAreFilled'
    <2>1. \A f \in Entities : queue[f].payload \in Messages \cup {NoMessage}
      BY <1>0, Types, EntryIsRecord
    <2>2. ASSUME NEW f \in Entities
          PROVE /\ queue'[f].payload # NoMessage =>
                     /\ queue'[f].payload \in Dms /\ Entity[queue'[f].payload] = f
                     /\ primary'[queue'[f].payload] = "done"
                /\ queue'[f].status # "NONE" => queue'[f].payload # NoMessage
      <3>1. CASE queue'[f] = queue[f]
        BY <1>0, <1>5, <2>1, <3>1 DEF EntriesAreFilled, Enqueued, DoneStays
      <3>2. CASE f = e /\ queue'[e] = r
        BY <1>1, <1>3, <1>5, <1>6, <3>2
      <3> QED BY <1>7, <3>1, <3>2
    <2> QED BY <2>2 DEF EntriesAreFilled, Enqueued
  <1>11. JobsAgree'
    <2>1. \A f \in Entities : \/ /\ queue'[f].payload = queue[f].payload
                                 /\ queue'[f].due => queue[f].due
                              \/ queue'[f].payload # NoMessage /\ ~queue'[f].due
      BY <1>3, <1>6, <1>7
    <2> QED BY <1>0, <1>2, <1>5, <2>1, JobsKept
  <1>12. SentIsCounted'
    BY <1>0, <1>2, <1>5 DEF SentIsCounted
  <1>13. CopiesAreBudgeted'
    <2> SUFFICES ASSUME NEW x \in Messages
                 PROVE copies'[x] + FromRequest(x)' + FromRow(x)' + Cardinality(Sending(x))' + FromEntry(x)'
                         <= 1 + extra'[x]
      BY DEF CopiesAreBudgeted
    <2>1. Sending(x)' = Sending(x) /\ Holders(x)' = Holders(x) /\ \A f : OnEntry(f)' = OnEntry(f)
      BY <1>2, SendersKept
    <2>2. CASE x = m
      <3>1. FromRequest(m) = 1 /\ FromRequest(m)' = 0 /\ FromRow(m)' = 0
        BY <1>2, <1>5 DEF FromRequest, FromRow
      <3>2. FromEntry(m) = 0
        BY <1>1, <1>8 DEF FromEntry
      <3>3. FromEntry(m)' \in 0 .. 1
        BY DEF FromEntry
      <3>4. Cardinality(Sending(m))' = Cardinality(Sending(m)) /\ Cardinality(Sending(m)) \in Nat
        BY <2>1, <2>2, SendingIsFinite
      <3>5. copies[m] \in Nat /\ extra[m] \in Nat
        BY <1>0, Types
      <3>6. copies'[m] = copies[m] /\ extra'[m] = extra[m]
        BY <1>2
      <3>7. copies[m] + FromRequest(m) + FromRow(m) + Cardinality(Sending(m)) + FromEntry(m) <= 1 + extra[m]
        BY <1>0 DEF CopiesAreBudgeted
      <3> QED BY <1>5, <2>2, <3>1, <3>2, <3>3, <3>4, <3>5, <3>6, <3>7
    <2>3. CASE x # m
      <3>1. FromRequest(x)' = FromRequest(x)
        BY <1>5, <2>3, RequestKept
      <3>2. FromRow(x)' = FromRow(x)
        BY <1>2, <1>5, <2>1, <2>3, RowKept
      <3>3. FromEntry(x)' <= FromEntry(x) /\ FromEntry(x)' \in Int /\ FromEntry(x) \in Int
        <4>0. Entity[x] \in Entities
          BY Constants
        <4>1. CASE queue'[Entity[x]] = queue[Entity[x]]
          <5>1. FromEntry(x)' = FromEntry(x)
            BY <1>2, <2>1, <4>1, EntryKept
          <5> QED BY <5>1, PartsAreSmall
        <4>2. CASE Entity[x] = e /\ queue'[e] = r
          <5>1. FromEntry(x)' = 0
            BY <1>6, <2>3, <4>2 DEF FromEntry
          <5> QED BY <5>1, PartsAreSmall
        <4> QED BY <1>7, <4>0, <4>1, <4>2
      <3>4. Cardinality(Sending(x))' = Cardinality(Sending(x)) /\ Cardinality(Sending(x)) \in Nat
        BY <2>1, SendingIsFinite
      <3>5. copies[x] \in Nat /\ extra[x] \in Nat /\ copies'[x] = copies[x] /\ extra'[x] = extra[x]
        BY <1>0, <1>2, Types
      <3>6. FromRequest(x) \in Int /\ FromRow(x) \in Int
        BY PartsAreSmall
      <3>7. copies[x] + FromRequest(x) + FromRow(x) + Cardinality(Sending(x)) + FromEntry(x) <= 1 + extra[x]
        BY <1>0 DEF CopiesAreBudgeted
      <3> QED BY <3>1, <3>2, <3>3, <3>4, <3>5, <3>6, <3>7
    <2> QED BY <2>2, <2>3
  <1>14. HandOversAreKept'
    <2>1. \A x \in Messages : Entity[x] \in Entities
      BY Constants
    <2>2. /\ queue'[e].status # "NONE"
          /\ \A f \in Entities : /\ queue[f].status # "NONE" => queue'[f].status # "NONE"
                                /\ queue'[f].status = "SENT" => queue[f].status = "SENT"
      BY <1>6, <1>7 DEF Queued
    <2>3. ASSUME NEW x \in Messages, mark'[x] = "HANDED_OFF" \/ outbox'[x].status = "HANDED_OFF"
          PROVE queue'[Entity[x]].status # "NONE"
      BY <1>0, <1>1, <1>2, <1>5, <2>1, <2>2, <2>3 DEF HandOversAreKept
    <2> QED BY <1>0, <1>2, <2>2, <2>3 DEF HandOversAreKept
  <1> QED BY <1>5, <1>9, <1>10, <1>11, <1>12, <1>13, <1>14 DEF IInv

\* A message whose row is yet to be marked is not settled: nobody is at work on it.
LEMMA NobodyBeforeSettled ==
  ASSUME TypeOK, RowsFollowRequests, WorkIsSettled, NEW m \in Messages, ~Settled(m)
  PROVE /\ outbox[m].status \in {"NONE", "PENDING"} /\ ~outbox[m].due
        /\ AtWork(m) = {} /\ Holders(m) = {}
        /\ \A o \in Operators : desk[o] # m
  <1>1. \A w \in Workers : senders[w] # Idle => senders[w].message # m
    BY DEF WorkIsSettled
  <1>2. \A o \in Operators : desk[o] # m
    BY Constants DEF WorkIsSettled
  <1> QED BY <1>1, <1>2 DEF RowsFollowRequests, AtWork, Holders

\* A mark is written, or lost: nobody but its request is concerned.
LEMMA MarkEnds ==
  ASSUME IInv, NEW m \in Messages, mark[m] # "none", mark' = [mark EXCEPT ![m] = "none"],
         outbox' \in [Messages -> OutboxRow],
         \A x \in Messages : x # m => outbox'[x] = outbox[x],
         \/ outbox'[m] = outbox[m]
         \/ /\ outbox[m].status = "PENDING" /\ outbox'[m].status = mark[m]
            /\ outbox'[m].attempts = outbox[m].attempts,
         extra' \in [Messages -> Nat],
         \A x \in Messages : x # m => extra'[x] = extra[x],
         FromRow(m)' - extra'[m] <= FromRow(m) - extra[m],
         faults' \in Nat, FaultsStay,
         UNCHANGED <<queue, primary, inserting, senders, desk, retries, copies>>
  PROVE IInv'
  <1>0. /\ TypeOK /\ RowsFollowRequests /\ RowsAreInserted
        /\ WorkIsSettled /\ EntriesAreFilled /\ JobsAgree /\ SentIsCounted
        /\ CopiesAreBudgeted /\ AttemptsAreLeft /\ ClaimsAreExclusive /\ HandOversAreKept
    BY InvOf
  <1>1. /\ mark' \in [Messages -> {"none", "SENT", "HANDED_OFF", "DEAD"}] /\ mark'[m] = "none"
        /\ \A x \in Messages : x # m => mark'[x] = mark[x]
    BY <1>0, Types
  <1>2. /\ mark[m] \in {"SENT", "HANDED_OFF", "DEAD"} /\ primary[m] = "done" /\ ~Settled(m)
    BY <1>0, Types DEF RowsFollowRequests, Settled
  <1>3. /\ outbox[m].status \in {"NONE", "PENDING"} /\ ~outbox[m].due
        /\ Holders(m) = {} /\ \A o \in Operators : desk[o] # m
    BY <1>0, <1>2, NobodyBeforeSettled
  <1>4. CopiesGrow /\ DoneStays /\ SettledStay
    BY <1>1, SameCopies DEF DoneStays, SettledStay, Settled
  <1>5. TypeOK'
    BY <1>0, <1>1 DEF TypeOK
  <1>6. RowsFollowRequests'
    <2>1. m \in inserting => outbox'[m] = outbox[m]
      BY <1>0 DEF RowsFollowRequests
    <2>2. \A x \in Messages : x # m => (Settled(x)' <=> Settled(x))
      BY <1>1 DEF Settled
    <2>3. Settled(m)' <=> m \notin inserting
      BY <1>1, <1>2 DEF Settled
    <2> QED BY <1>0, <1>1, <1>2, <1>3, <2>1, <2>2, <2>3 DEF RowsFollowRequests
  <1>7. RowsAreInserted'
    BY <1>0, <1>2, InsertedKept
  <1>8. WorkIsSettled'
    <2>1. \A w \in Workers : senders[w] # Idle => senders[w].message \in Messages
      BY <1>0, SenderHasTask, WorkersAndJobs, TaskIsRecord
    <2>2. \A o \in Operators : desk[o] # NoMessage => desk[o] \in Messages
      BY <1>0, Types
    <2>3. \A w \in Workers : senders[w] # Idle => Settled(senders[w].message)
      BY <1>0 DEF WorkIsSettled
    <2>4. \A o \in Operators : desk[o] # NoMessage =>
             Settled(desk[o]) /\ outbox[desk[o]].status \notin {"NONE", "HANDED_OFF"}
      BY <1>0 DEF WorkIsSettled
    <2>5. \A w \in Workers : senders[w] # Idle =>
             /\ primary'[senders[w].message] = "done" /\ mark'[senders[w].message] = "none"
             /\ senders[w].message \notin inserting'
      BY <2>1, <2>3, <1>1 DEF Settled
    <2>6. \A o \in Operators : desk[o] # NoMessage =>
             /\ primary'[desk[o]] = "done" /\ mark'[desk[o]] = "none" /\ desk[o] \notin inserting'
             /\ outbox'[desk[o]].status \notin {"NONE", "HANDED_OFF"}
      BY <2>2, <2>4, <1>1, <1>3 DEF Settled
    <2> QED BY <2>5, <2>6 DEF WorkIsSettled, Settled
  <1>9. EntriesAreFilled' /\ JobsAgree'
    BY <1>0, <1>4, EntriesKept, JobsKept DEF EntriesAreFilled
  <1>10. SentIsCounted'
    <2>1. \A x \in Messages : outbox'[x].status = "SENT" => copies'[x] > 0
      BY <1>0, <1>3 DEF SentIsCounted
    <2>2. \A x \in Messages : /\ outbox'[x].status = "SENT" => outbox[x].status = "SENT" \/ copies'[x] > 0
                              /\ primary'[x] = "sent" => primary[x] = "sent"
                              /\ mark'[x] = "SENT" => mark[x] = "SENT"
      BY <2>1, <1>1
    <2> QED BY <1>0, <1>4, <2>2, SentKept
  <1>11. CopiesAreBudgeted'
    <2> SUFFICES ASSUME NEW x \in Messages
                 PROVE copies'[x] + FromRequest(x)' + FromRow(x)' + Cardinality(Sending(x))' + FromEntry(x)'
                         <= 1 + extra'[x]
      BY DEF CopiesAreBudgeted
    <2>1. Sending(x)' = Sending(x) /\ Holders(x)' = Holders(x) /\ \A f : OnEntry(f)' = OnEntry(f)
      BY SendersKept
    <2>2. FromRequest(x)' = FromRequest(x)
      BY RequestKept
    <2>3. FromEntry(x)' = FromEntry(x)
      BY <2>1, EntryKept
    <2>4. CASE x # m
      <3>1. FromRow(x)' = FromRow(x)
        BY <1>1, <2>1, <2>4, RowKept
      <3> QED BY <1>0, <2>1, <2>2, <2>3, <2>4, <3>1 DEF CopiesAreBudgeted
    <2>5. CASE x = m
      <3>1. /\ FromRequest(m) \in Int /\ FromRow(m) \in Int /\ FromEntry(m) \in Int
            /\ Cardinality(Sending(m)) \in Nat /\ copies[m] \in Nat /\ extra[m] \in Nat
            /\ extra'[m] \in Nat
        BY <1>0, PartsAreSmall, SendingIsFinite, Types
      <3>2. FromRow(m)' \in Int
        BY DEF FromRow
      <3>3. copies[m] + FromRequest(m) + FromRow(m) + Cardinality(Sending(m)) + FromEntry(m) <= 1 + extra[m]
        BY <1>0 DEF CopiesAreBudgeted
      <3>4. FromRequest(m)' = FromRequest(m) /\ FromEntry(m)' = FromEntry(m)
            /\ Cardinality(Sending(m))' = Cardinality(Sending(m)) /\ copies'[m] = copies[m]
        BY <2>1, <2>2, <2>3, <2>5
      <3> QED BY <2>5, <3>1, <3>2, <3>3, <3>4
    <2> QED BY <2>4, <2>5
  <1>12. AttemptsAreLeft'
    BY <1>0, <1>2, AttemptsKept
  <1>13. ClaimsAreExclusive'
    BY <1>0, <1>3, SendersKept, ClaimsKept
  <1>14. HandOversAreKept'
    BY <1>0, <1>1, <1>2, <1>4, HandOversKept
  <1> QED BY <1>5, <1>6, <1>7, <1>8, <1>9, <1>10, <1>11, <1>12, <1>13, <1>14 DEF IInv

\* The mark is written over a row that is there; one that is not will stay pending.
LEMMA MarkDiscordOutboxInv ==
  ASSUME IInv, NEW m \in Messages, MarkDiscordOutbox(m)
  PROVE IInv'
  <1>0. TypeOK /\ RowsFollowRequests /\ WorkIsSettled
    BY InvOf
  <1>1. /\ mark[m] # "none" /\ mark' = [mark EXCEPT ![m] = "none"]
        /\ outbox' = IF outbox[m].status \in Markable
                     THEN [outbox EXCEPT ![m].status = mark[m], ![m].due = FALSE]
                     ELSE outbox
        /\ extra' = IF m \in inserting /\ mark[m] # "DEAD" THEN Once(extra, m) ELSE extra
        /\ UNCHANGED <<queue, primary, inserting, senders, desk, retries, faults, copies>>
    BY DEF MarkDiscordOutbox
  <1>2. mark[m] \in {"SENT", "HANDED_OFF", "DEAD"} /\ primary[m] = "done" /\ ~Settled(m)
    BY <1>0, <1>1, Types DEF RowsFollowRequests, Settled
  <1>3. outbox[m].status \in {"NONE", "PENDING"} /\ Holders(m) = {}
    BY <1>0, <1>2, NobodyBeforeSettled
  <1>4. mark'[m] = "none"
    BY <1>0, <1>1, Types
  <1>5. m \in inserting => outbox[m].status = "NONE"
    BY <1>0 DEF RowsFollowRequests
  <1>6. /\ extra' \in [Messages -> Nat]
        /\ m \in inserting /\ mark[m] # "DEAD" => extra'[m] = extra[m] + 1
        /\ \A x \in Messages : extra'[x] >= extra[x]
        /\ \A x \in Messages : x # m => extra'[x] = extra[x]
    BY <1>0, <1>1, ExtraDoes
  <1>7. /\ outbox' \in [Messages -> OutboxRow]
        /\ \A x \in Messages : x # m => outbox'[x] = outbox[x]
        /\ \/ outbox'[m] = outbox[m] /\ outbox[m].status = "NONE"
           \/ /\ outbox[m].status = "PENDING" /\ outbox'[m].status = mark[m]
              /\ outbox'[m].attempts = outbox[m].attempts
    <2>1. CASE outbox[m].status = "PENDING"
      <3>1. PICK st \in {"SENT", "HANDED_OFF", "DEAD"}, n \in Nat :
               st = mark[m] /\ n = outbox[m].attempts
        BY <1>0, <1>2, Types, RowIsRecord
      <3>2. outbox' = [outbox EXCEPT ![m].status = st, ![m].due = FALSE]
        BY <1>1, <2>1, <3>1 DEF Markable
      <3>3. outbox \in [Messages -> OutboxRow] /\ outbox[m] \in OutboxRow
        BY <1>0, Types
      <3> DEFINE r == [outbox[m] EXCEPT !.status = st, !.due = FALSE]
      <3>4. r \in OutboxRow /\ r.status = st /\ r.attempts = n
        BY <3>1, <3>3 DEF OutboxRow
      <3>5. outbox' = [outbox EXCEPT ![m] = r]
        BY <3>2, <3>3
      <3>6. outbox'[m] = r /\ outbox' \in [Messages -> OutboxRow]
            /\ \A x \in Messages : x # m => outbox'[x] = outbox[x]
        BY <3>3, <3>4, <3>5
      <3> HIDE DEF r
      <3> QED BY <2>1, <3>1, <3>4, <3>6
    <2>2. CASE outbox[m].status = "NONE"
      <3>1. outbox' = outbox
        BY <1>1, <2>2 DEF Markable
      <3> QED BY <1>0, <2>2, <3>1, Types
    <2> QED BY <1>3, <2>1, <2>2
  <1>8. FromRow(m)' - extra'[m] <= FromRow(m) - extra[m]
    <2>1. extra[m] \in Nat /\ extra'[m] \in Nat /\ extra'[m] >= extra[m]
      BY <1>0, <1>6, Types
    <2>2. CASE m \in inserting
      <3>1. FromRow(m)' = 1
        BY <1>1, <1>2, <1>4, <2>2 DEF FromRow
      <3>2. FromRow(m) = IF mark[m] = "DEAD" THEN 1 ELSE 0
        BY <1>2, <2>2 DEF FromRow
      <3> QED BY <1>6, <2>1, <2>2, <3>1, <3>2
    <2>3. CASE m \notin inserting /\ outbox[m].status = "NONE" /\ outbox'[m] = outbox[m]
      <3>1. FromRow(m)' = 0
        BY <1>1, <2>3 DEF FromRow
      <3>2. FromRow(m) \in 0 .. 1
        BY PartsAreSmall
      <3> QED BY <2>1, <3>1, <3>2
    <2>4. CASE m \notin inserting /\ outbox[m].status = "PENDING" /\ outbox'[m].status = mark[m]
      <3>1. FromRow(m) = IF mark[m] = "DEAD" THEN 1 ELSE 0
        BY <1>2, <2>4 DEF FromRow
      <3>2. FromRow(m)' = IF mark[m] = "DEAD" THEN 1 ELSE 0
        BY <1>1, <1>2, <1>4, <2>4 DEF FromRow
      <3> QED BY <2>1, <3>1, <3>2
    <2> QED BY <1>5, <1>7, <2>2, <2>3, <2>4
  <1>9. faults' \in Nat /\ FaultsStay
    BY <1>0, <1>1, Types DEF FaultsStay
  <1> QED BY <1>1, <1>6, <1>7, <1>8, <1>9, MarkEnds

\* The mark is lost.
LEMMA LoseMarkInv ==
  ASSUME IInv, NEW m \in Messages, LoseMark(m)
  PROVE IInv'
  <1>0. TypeOK /\ RowsFollowRequests /\ WorkIsSettled
    BY InvOf
  <1>1. /\ mark[m] # "none" /\ Fault /\ mark' = [mark EXCEPT ![m] = "none"]
        /\ extra' = IF mark[m] # "DEAD" THEN Once(extra, m) ELSE extra
        /\ UNCHANGED <<outbox, queue, primary, inserting, senders, desk, retries, copies>>
    BY DEF LoseMark
  <1>2. /\ extra' \in [Messages -> Nat]
        /\ mark[m] # "DEAD" => extra'[m] = extra[m] + 1
        /\ \A x \in Messages : extra'[x] >= extra[x]
        /\ \A x \in Messages : x # m => extra'[x] = extra[x]
    BY <1>0, <1>1, ExtraDoes
  <1>3. faults' \in Nat /\ FaultsStay
    BY <1>0, <1>1, FaultDoes
  <1>4. FromRow(m)' - extra'[m] <= FromRow(m) - extra[m]
    <2>1. extra[m] \in Nat /\ extra'[m] \in Nat /\ extra'[m] >= extra[m]
      BY <1>0, <1>2, Types
    <2>2. FromRow(m) \in 0 .. 1 /\ FromRow(m)' \in 0 .. 1
      BY DEF FromRow
    <2>3. CASE mark[m] # "DEAD"
      BY <1>2, <2>1, <2>2, <2>3
    <2>4. CASE mark[m] = "DEAD"
      <3>1. Holders(m)' = Holders(m)
        BY <1>1, SendersKept
      <3>2. mark'[m] = "none"
        BY <1>0, <1>1, Types
      <3>3. FromRow(m)' = FromRow(m)
        BY <1>1, <2>4, <3>1, <3>2 DEF FromRow
      <3> QED BY <2>1, <2>2, <3>3
    <2> QED BY <2>3, <2>4
  <1>5. outbox' \in [Messages -> OutboxRow]
    BY <1>0, <1>1, Types
  <1> QED BY <1>1, <1>2, <1>3, <1>4, <1>5, MarkEnds

\* The insertion is lost.
LEMMA LoseInsertionInv ==
  ASSUME IInv, NEW m \in Messages, LoseInsertion(m)
  PROVE IInv'
  <1>0. /\ TypeOK /\ RowsFollowRequests /\ RowsAreInserted
        /\ WorkIsSettled /\ EntriesAreFilled /\ JobsAgree /\ SentIsCounted
        /\ CopiesAreBudgeted /\ AttemptsAreLeft /\ ClaimsAreExclusive /\ HandOversAreKept
    BY InvOf
  <1>1. /\ m \in inserting /\ Fault /\ inserting' = inserting \ {m}
        /\ UNCHANGED <<outbox, queue, primary, mark, senders, desk, retries, copies, extra>>
    BY DEF LoseInsertion
  <1>2. \A x \in Messages : x # m => (x \in inserting' <=> x \in inserting)
    BY <1>1
  <1>3. faults' \in Nat /\ faults' # 0 /\ FaultsStay
    BY <1>0, <1>1, Types DEF Fault, FaultsStay
  <1>4. DoneStays /\ SettledStay /\ CopiesGrow
    BY <1>1, SameCopies DEF DoneStays, SettledStay, Settled
  <1>5. TypeOK'
    BY <1>0, <1>1, <1>3 DEF TypeOK
  <1>6. RowsFollowRequests' /\ RowsAreInserted'
    BY <1>0, <1>1, <1>2, <1>3 DEF RowsFollowRequests, RowsAreInserted, Settled
  <1>7. WorkIsSettled'
    BY <1>0, <1>1, <1>4, WorkKept
  <1>8. EntriesAreFilled' /\ JobsAgree'
    BY <1>0, <1>1, <1>4, EntriesKept, JobsKept DEF EntriesAreFilled
  <1>9. SentIsCounted'
    BY <1>0, <1>1, <1>4, SentKept
  <1>10. CopiesAreBudgeted'
    <2> SUFFICES ASSUME NEW x \in Messages
                 PROVE copies'[x] + FromRequest(x)' + FromRow(x)' + Cardinality(Sending(x))' + FromEntry(x)'
                         <= 1 + extra'[x]
      BY DEF CopiesAreBudgeted
    <2>1. Sending(x)' = Sending(x) /\ Holders(x)' = Holders(x) /\ \A f : OnEntry(f)' = OnEntry(f)
      BY <1>1, SendersKept
    <2>2. FromRequest(x)' = FromRequest(x) /\ FromEntry(x)' = FromEntry(x)
      BY <1>1, <2>1, RequestKept, EntryKept
    <2>3. FromRow(x)' <= FromRow(x) /\ FromRow(x)' \in Int /\ FromRow(x) \in Int
      BY <1>1, <1>2, <2>1 DEF FromRow
    <2>4. copies[x] \in Nat /\ extra[x] \in Nat /\ copies'[x] = copies[x] /\ extra'[x] = extra[x]
      BY <1>0, <1>1, Types
    <2>5. Cardinality(Sending(x))' = Cardinality(Sending(x)) /\ Cardinality(Sending(x)) \in Nat
      BY <2>1, SendingIsFinite
    <2>6. FromRequest(x) \in Int /\ FromEntry(x) \in Int
      BY PartsAreSmall
    <2>7. copies[x] + FromRequest(x) + FromRow(x) + Cardinality(Sending(x)) + FromEntry(x) <= 1 + extra[x]
      BY <1>0 DEF CopiesAreBudgeted
    <2> QED BY <2>2, <2>3, <2>4, <2>5, <2>6, <2>7
  <1>11. AttemptsAreLeft'
    BY <1>0, <1>1, AttemptsKept
  <1>12. ClaimsAreExclusive'
    BY <1>0, <1>1, SendersKept, ClaimsKept
  <1>13. HandOversAreKept'
    BY <1>0, <1>1, <1>4, HandOversKept
  <1> QED BY <1>5, <1>6, <1>7, <1>8, <1>9, <1>10, <1>11, <1>12, <1>13 DEF IInv
-----------------------------------------------------------------------------
(* Steps that change the row of a settled message. *)

LEMMA SettledRowChanges ==
  ASSUME IInv, NEW m \in Messages, Settled(m), NEW r \in OutboxRow, outbox' = [outbox EXCEPT ![m] = r],
         \/ r.status = outbox[m].status
         \/ r.status \notin {"NONE", "HANDED_OFF"},
         r.status = "SENT" => outbox[m].status = "SENT" \/ copies[m] > 0,
         UNCHANGED <<queue, primary, inserting, mark, faults, copies>>,
         \A j \in Jobs : senders'[j] = senders[j],
         \A w \in Workers : /\ senders'[w] # Idle =>
                                  senders[w] # Idle /\ senders'[w].message = senders[w].message
                            /\ \/ senders'[w] = senders[w] \/ senders'[w] = Idle
                               \/ senders'[w].step # "sent",
         \A o \in Operators : desk'[o] # NoMessage => desk'[o] = desk[o]
  PROVE /\ outbox' \in [Messages -> OutboxRow] /\ outbox'[m] = r
        /\ \A x \in Messages : x # m => outbox'[x] = outbox[x]
        /\ \A x \in Messages : FromRequest(x)' = FromRequest(x) /\ FromEntry(x)' = FromEntry(x)
        /\ RowsFollowRequests' /\ RowsAreInserted' /\ WorkIsSettled' /\ EntriesAreFilled'
        /\ JobsAgree' /\ SentIsCounted' /\ HandOversAreKept'
  <1>0. /\ TypeOK /\ RowsFollowRequests /\ RowsAreInserted
        /\ WorkIsSettled /\ EntriesAreFilled /\ JobsAgree /\ SentIsCounted /\ HandOversAreKept
    BY InvOf
  <1>1. /\ outbox' \in [Messages -> OutboxRow] /\ outbox'[m] = r
        /\ \A x \in Messages : x # m => outbox'[x] = outbox[x]
    BY <1>0, Types
  <1>2. DoneStays /\ SettledStay /\ CopiesGrow /\ FaultsStay
    BY RequestsKept, SameCopies DEF FaultsStay
  <1>3. \A x \in Messages : \/ outbox'[x].status = outbox[x].status
                            \/ outbox'[x].status \notin {"NONE", "HANDED_OFF"}
    BY <1>1
  <1>4. RowsFollowRequests'
    BY <1>0, RowsOfSettled
  <1>5. RowsAreInserted'
    BY <1>0, <1>2, <1>3, InsertedKept
  <1>6. WorkIsSettled'
    BY <1>0, <1>2, <1>3, WorkKept
  <1>7. EntriesAreFilled' /\ JobsAgree'
    BY <1>0, <1>2, EntriesKept, JobsKept DEF EntriesAreFilled
  <1>8. SentIsCounted'
    <2>1. \A s \in Senders : \/ senders'[s] = senders[s] \/ senders'[s] = Idle
                             \/ senders'[s].step # "sent"
      BY DEF Senders
    <2>2. \A x \in Messages : outbox'[x].status = "SENT" => outbox[x].status = "SENT" \/ copies'[x] > 0
      BY <1>1
    <2> QED BY <1>0, <1>2, <2>1, <2>2, SentKept
  <1>9. HandOversAreKept'
    BY <1>0, <1>1, <1>2, HandOversKept
  <1>10. ASSUME NEW x \in Messages
         PROVE FromRequest(x)' = FromRequest(x) /\ FromEntry(x)' = FromEntry(x)
    <2>1. OnEntry(Entity[x])' = OnEntry(Entity[x])
      BY DEF OnEntry
    <2>2. \A j \in OnEntry(Entity[x]) : senders'[j].message = senders[j].message
      BY DEF OnEntry
    <2> QED BY <2>1, <2>2, RequestKept, EntryKept
  <1> QED BY <1>1, <1>4, <1>5, <1>6, <1>7, <1>8, <1>9, <1>10

LEMMA RowBudget ==
  ASSUME TypeOK, CopiesAreBudgeted, NEW m \in Messages, UNCHANGED copies,
         extra' \in [Messages -> Nat],
         \A x \in Messages : FromRequest(x)' = FromRequest(x) /\ FromEntry(x)' = FromEntry(x),
         \A x \in Messages : x # m => /\ FromRow(x)' = FromRow(x)
                                      /\ Cardinality(Sending(x))' = Cardinality(Sending(x))
                                      /\ extra'[x] = extra[x],
         Cardinality(Sending(m))' \in Int,
         FromRow(m)' + Cardinality(Sending(m))' - extra'[m]
            <= FromRow(m) + Cardinality(Sending(m)) - extra[m]
  PROVE CopiesAreBudgeted'
  <1> SUFFICES ASSUME NEW x \in Messages
               PROVE copies'[x] + FromRequest(x)' + FromRow(x)' + Cardinality(Sending(x))' + FromEntry(x)'
                       <= 1 + extra'[x]
    BY DEF CopiesAreBudgeted
  <1>1. CASE x # m
    BY <1>1 DEF CopiesAreBudgeted
  <1>2. CASE x = m
    <2>1. /\ FromRequest(m) \in Int /\ FromRow(m) \in Int /\ FromEntry(m) \in Int
          /\ Cardinality(Sending(m)) \in Nat /\ copies[m] \in Nat /\ extra[m] \in Nat
          /\ extra'[m] \in Nat
      BY PartsAreSmall, SendingIsFinite, Types
    <2>2. FromRow(m)' \in Int
      BY DEF FromRow
    <2>3. copies[m] + FromRequest(m) + FromRow(m) + Cardinality(Sending(m)) + FromEntry(m) <= 1 + extra[m]
      BY DEF CopiesAreBudgeted
    <2>4. FromRequest(m)' = FromRequest(m) /\ FromEntry(m)' = FromEntry(m) /\ copies'[m] = copies[m]
      OBVIOUS
    <2> QED BY <1>2, <2>1, <2>2, <2>3, <2>4
  <1> QED BY <1>1, <1>2

\* Without a step of a sender only the row of m counts.
LEMMA QuietBudget ==
  ASSUME TypeOK, CopiesAreBudgeted, NEW m \in Messages, UNCHANGED <<copies, senders, primary, mark, inserting>>,
         extra' \in [Messages -> Nat],
         \A x \in Messages : x # m => outbox'[x] = outbox[x] /\ extra'[x] = extra[x],
         \A x \in Messages : FromRequest(x)' = FromRequest(x) /\ FromEntry(x)' = FromEntry(x),
         FromRow(m)' - extra'[m] <= FromRow(m) - extra[m]
  PROVE CopiesAreBudgeted'
  <1>1. \A x \in Messages : Sending(x)' = Sending(x) /\ Holders(x)' = Holders(x)
    BY SendersKept
  <1>2. \A x \in Messages : x # m => FromRow(x)' = FromRow(x)
    BY <1>1, RowKept
  <1>3. FromRow(m) \in Int /\ FromRow(m)' \in Int
    BY DEF FromRow
  <1>4. /\ Cardinality(Sending(m)) \in Nat /\ extra[m] \in Nat /\ extra'[m] \in Nat
        /\ Cardinality(Sending(m))' = Cardinality(Sending(m))
    BY <1>1, SendingIsFinite, Types
  <1>5. FromRow(m)' + Cardinality(Sending(m))' - extra'[m]
            <= FromRow(m) + Cardinality(Sending(m)) - extra[m]
    BY <1>3, <1>4
  <1> QED BY <1>1, <1>2, <1>4, <1>5, RowBudget

\* A message whose row is due or beyond waiting is settled.
LEMMA BusyIsSettled ==
  ASSUME RowsFollowRequests, NEW m \in Messages,
         outbox[m].due \/ outbox[m].status \notin {"NONE", "PENDING"}
  PROVE Settled(m)
  BY DEF RowsFollowRequests

\* A claim that is fifteen minutes old: nobody works on the message any more.
LEMMA RecoverStaleProcessingInv ==
  ASSUME IInv, NEW m \in Messages, RecoverStaleProcessing(m)
  PROVE IInv'
  <1>0. /\ TypeOK /\ RowsFollowRequests /\ CopiesAreBudgeted /\ AttemptsAreLeft /\ ClaimsAreExclusive
    BY InvOf
  <1>1. /\ outbox[m].status = "PROCESSING" /\ AtWork(m) = {}
        /\ outbox' = [outbox EXCEPT ![m].status = "PENDING", ![m].due = TRUE]
        /\ UNCHANGED <<queue, primary, inserting, mark, senders, desk, retries, faults, copies, extra>>
    BY DEF RecoverStaleProcessing
  <1>2. PICK r \in OutboxRow : /\ outbox' = [outbox EXCEPT ![m] = r]
                               /\ r.status = "PENDING" /\ r.attempts = outbox[m].attempts
    BY <1>0, <1>1, PutBack
  <1>3. Settled(m)
    BY <1>0, <1>1, BusyIsSettled
  <1>4. /\ outbox' \in [Messages -> OutboxRow] /\ outbox'[m] = r
        /\ \A x \in Messages : x # m => outbox'[x] = outbox[x]
        /\ \A x \in Messages : FromRequest(x)' = FromRequest(x) /\ FromEntry(x)' = FromEntry(x)
        /\ RowsFollowRequests' /\ RowsAreInserted' /\ WorkIsSettled' /\ EntriesAreFilled'
        /\ JobsAgree' /\ SentIsCounted' /\ HandOversAreKept'
    BY <1>1, <1>2, <1>3, SettledRowChanges
  <1>5. TypeOK'
    BY <1>0, <1>1, <1>4 DEF TypeOK
  <1>6. Holders(m) = {} /\ Holders(m)' = {}
    BY <1>1 DEF Holders, AtWork
  <1>7. CopiesAreBudgeted'
    <2>1. FromRow(m) = 1
      BY <1>1, <1>3, <1>6 DEF FromRow, Settled
    <2>2. FromRow(m)' \in 0 .. 1
      BY DEF FromRow
    <2>3. extra[m] \in Nat /\ extra' = extra /\ extra \in [Messages -> Nat]
      BY <1>0, <1>1, Types
    <2>4. FromRow(m)' - extra'[m] <= FromRow(m) - extra[m]
      BY <2>1, <2>2, <2>3
    <2> QED BY <1>0, <1>1, <1>4, <2>3, <2>4, QuietBudget
  <1>8. AttemptsAreLeft'
    <2>1. \A x \in Messages : /\ outbox'[x].attempts = outbox[x].attempts
                              /\ outbox'[x].status \in {"PENDING", "PROCESSING"} =>
                                   outbox[x].status \in {"PENDING", "PROCESSING"}
      BY <1>1, <1>2, <1>4
    <2> QED BY <1>0, <1>1, <2>1, AttemptsKept
  <1>9. ClaimsAreExclusive'
    <2>1. \A x \in Messages : \/ Holders(x)' = {}
                              \/ Holders(x)' = Holders(x) /\ outbox'[x].status = outbox[x].status
      BY <1>1, <1>4, <1>6, SendersKept
    <2> QED BY <1>0, <1>1, <2>1, ClaimsKept
  <1> QED BY <1>4, <1>5, <1>7, <1>8, <1>9 DEF IInv

\* A grace period or a delay is over.
LEMMA BecomeDueInv ==
  ASSUME IInv, NEW m \in Messages, BecomeDue(m)
  PROVE IInv'
  <1>0. /\ TypeOK /\ RowsFollowRequests /\ CopiesAreBudgeted /\ AttemptsAreLeft /\ ClaimsAreExclusive
    BY InvOf
  <1>1. /\ Settled(m) /\ outbox' = [outbox EXCEPT ![m].due = TRUE]
        /\ UNCHANGED <<queue, primary, inserting, mark, senders, desk, retries, faults, copies, extra>>
    BY DEF BecomeDue, Settled
  <1>2. PICK r \in OutboxRow : /\ outbox' = [outbox EXCEPT ![m] = r]
                               /\ r.status = outbox[m].status /\ r.attempts = outbox[m].attempts
    BY <1>0, <1>1, PutDue
  <1>3. /\ outbox' \in [Messages -> OutboxRow] /\ outbox'[m] = r
        /\ \A x \in Messages : x # m => outbox'[x] = outbox[x]
        /\ \A x \in Messages : FromRequest(x)' = FromRequest(x) /\ FromEntry(x)' = FromEntry(x)
        /\ RowsFollowRequests' /\ RowsAreInserted' /\ WorkIsSettled' /\ EntriesAreFilled'
        /\ JobsAgree' /\ SentIsCounted' /\ HandOversAreKept'
    BY <1>1, <1>2, SettledRowChanges
  <1>4. TypeOK'
    BY <1>0, <1>1, <1>3 DEF TypeOK
  <1>5. \A x \in Messages : /\ Holders(x)' = Holders(x)
                            /\ outbox'[x].status = outbox[x].status
                            /\ outbox'[x].attempts = outbox[x].attempts
    BY <1>1, <1>2, <1>3, SendersKept
  <1>6. CopiesAreBudgeted'
    <2>1. FromRow(m)' = FromRow(m) /\ FromRow(m) \in Int
      BY <1>1, <1>5, RowKept, PartsAreSmall
    <2>2. extra[m] \in Nat /\ extra' = extra /\ extra \in [Messages -> Nat]
      BY <1>0, <1>1, Types
    <2>3. FromRow(m)' - extra'[m] <= FromRow(m) - extra[m]
      BY <2>1, <2>2
    <2> QED BY <1>0, <1>1, <1>3, <2>2, <2>3, QuietBudget
  <1>7. AttemptsAreLeft'
    BY <1>0, <1>1, <1>5, AttemptsKept
  <1>8. ClaimsAreExclusive'
    BY <1>0, <1>1, <1>5, ClaimsKept
  <1> QED BY <1>3, <1>4, <1>6, <1>7, <1>8 DEF IInv

-----------------------------------------------------------------------------
(* Operators. *)

LEMMA BeginRetryInv ==
  ASSUME IInv, NEW o \in Operators, NEW m \in Messages, BeginRetry(o, m)
  PROVE IInv'
  <1>0. /\ TypeOK /\ RowsFollowRequests /\ RowsAreInserted
        /\ WorkIsSettled /\ EntriesAreFilled /\ JobsAgree /\ SentIsCounted
        /\ CopiesAreBudgeted /\ AttemptsAreLeft /\ ClaimsAreExclusive /\ HandOversAreKept
    BY InvOf
  <1>1. /\ desk[o] = NoMessage /\ outbox[m].status \in {"FAILED", "DEAD", "PROCESSING"}
        /\ retries' = retries + 1 /\ desk' = [desk EXCEPT ![o] = m]
        /\ UNCHANGED <<outbox, queue, primary, inserting, mark, senders, faults, copies, extra>>
    BY DEF BeginRetry
  <1>2. Settled(m)
    BY <1>0, <1>1, BusyIsSettled
  <1>3. /\ desk' \in [Operators -> Messages \cup {NoMessage}] /\ desk'[o] = m /\ m # NoMessage
        /\ \A q \in Operators : q # o => desk'[q] = desk[q]
        /\ retries \in Nat
    BY <1>0, <1>1, Types, Constants
  <1>4. DoneStays /\ SettledStay /\ CopiesGrow /\ FaultsStay
    BY <1>1, RequestsKept, SameCopies DEF FaultsStay
  <1>5. TypeOK'
    BY <1>0, <1>1, <1>3 DEF TypeOK
  <1>6. RowsFollowRequests' /\ RowsAreInserted' /\ EntriesAreFilled' /\ JobsAgree' /\ SentIsCounted'
        /\ HandOversAreKept'
    BY <1>0, <1>1, <1>4, RowsKept, InsertedKept, EntriesKept, JobsKept, SentKept, HandOversKept
    DEF EntriesAreFilled
  <1>7. WorkIsSettled'
    <2>1. \A x \in Messages : Settled(x)' <=> Settled(x)
      BY <1>1 DEF Settled
    <2>2. \A w \in Workers : senders[w] # Idle => senders[w].message \in Messages
      BY <1>0, SenderHasTask, WorkersAndJobs, TaskIsRecord
    <2>3. ASSUME NEW q \in Operators, desk'[q] # NoMessage
          PROVE /\ primary'[desk'[q]] = "done" /\ mark'[desk'[q]] = "none" /\ desk'[q] \notin inserting'
                /\ outbox'[desk'[q]].status \notin {"NONE", "HANDED_OFF"}
      BY <1>0, <1>1, <1>2, <1>3, <2>3 DEF WorkIsSettled, Settled
    <2>4. ASSUME NEW w \in Workers, senders'[w] # Idle
          PROVE /\ primary'[senders'[w].message] = "done" /\ mark'[senders'[w].message] = "none"
                /\ senders'[w].message \notin inserting'
      BY <1>0, <1>1, <2>4 DEF WorkIsSettled, Settled
    <2> QED BY <2>3, <2>4 DEF WorkIsSettled, Settled
  <1>8. CopiesAreBudgeted'
    BY <1>0, <1>1, SendersKept
    DEF CopiesAreBudgeted, FromRequest, FromRow, FromEntry
  <1>9. AttemptsAreLeft'
    <2>1. IsFiniteSet(AtDesk) /\ Cardinality(AtDesk) \in Nat /\ o \notin AtDesk
      BY <1>0, <1>1, SomeAttemptsAreLeft DEF AttemptsAreLeft, AtDesk
    <2>2. AtDesk' = AtDesk \cup {o}
      BY <1>3 DEF AtDesk
    <2>3. IsFiniteSet(AtDesk \cup {o}) /\ Cardinality(AtDesk \cup {o}) = Cardinality(AtDesk) + 1
      BY <2>1, FS_AddElement
    <2>4. IsFiniteSet(AtDesk') /\ Cardinality(AtDesk') = Cardinality(AtDesk) + 1
      BY <2>2, <2>3
    <2>5. RetriesDone' = RetriesDone
      BY <1>1, <1>3, <2>1, <2>4 DEF RetriesDone
    <2> QED BY <1>0, <1>1, <2>4, <2>5 DEF AttemptsAreLeft
  <1>10. ClaimsAreExclusive'
    BY <1>1, <1>3 DEF ClaimsAreExclusive
  <1> QED BY <1>5, <1>6, <1>7, <1>8, <1>9, <1>10 DEF IInv

LEMMA FinishRetryInv ==
  ASSUME IInv, NEW o \in Operators, FinishRetry(o)
  PROVE IInv'
  <1>0. /\ TypeOK /\ RowsFollowRequests /\ WorkIsSettled
        /\ CopiesAreBudgeted /\ AttemptsAreLeft /\ ClaimsAreExclusive
    BY InvOf
  <1>1. PICK m \in Messages :
           /\ m = desk[o] /\ m # NoMessage
           /\ outbox' = [outbox EXCEPT ![m].status = "PENDING", ![m].due = TRUE]
           /\ extra' = IF Overtakes(m) THEN Once(extra, m) ELSE extra
           /\ desk' = [desk EXCEPT ![o] = NoMessage]
           /\ UNCHANGED <<queue, primary, inserting, mark, senders, retries, faults, copies>>
    BY <1>0, Types DEF FinishRetry
  <1>2. PICK r \in OutboxRow : /\ outbox' = [outbox EXCEPT ![m] = r]
                               /\ r.status = "PENDING" /\ r.attempts = outbox[m].attempts
    BY <1>0, <1>1, PutBack
  <1>3. Settled(m) /\ outbox[m].status \in {"PENDING", "PROCESSING", "SENT", "DEAD"}
    BY <1>0, <1>1, Types, RowIsRecord DEF WorkIsSettled
  <1>4. /\ desk' \in [Operators -> Messages \cup {NoMessage}] /\ desk'[o] = NoMessage
        /\ \A q \in Operators : q # o => desk'[q] = desk[q]
    BY <1>0, <1>1, Types
  <1>5. /\ outbox' \in [Messages -> OutboxRow] /\ outbox'[m] = r
        /\ \A x \in Messages : x # m => outbox'[x] = outbox[x]
        /\ \A x \in Messages : FromRequest(x)' = FromRequest(x) /\ FromEntry(x)' = FromEntry(x)
        /\ RowsFollowRequests' /\ RowsAreInserted' /\ WorkIsSettled' /\ EntriesAreFilled'
        /\ JobsAgree' /\ SentIsCounted' /\ HandOversAreKept'
    BY <1>1, <1>2, <1>3, <1>4, SettledRowChanges
  <1>6. /\ extra' \in [Messages -> Nat]
        /\ Overtakes(m) => extra'[m] = extra[m] + 1
        /\ \A x \in Messages : extra'[x] >= extra[x]
        /\ \A x \in Messages : x # m => extra'[x] = extra[x]
    <2>1. Overtakes(m) \in BOOLEAN
      BY DEF Overtakes
    <2> QED BY <1>0, <1>1, <2>1, ExtraDoes
  <1>7. TypeOK'
    BY <1>0, <1>1, <1>4, <1>5, <1>6 DEF TypeOK
  <1>8. CopiesAreBudgeted'
    <2>1. FromRow(m)' \in 0 .. 1 /\ FromRow(m) \in 0 .. 1
      BY DEF FromRow
    <2>2. Overtakes(m) \/ FromRow(m) = 1
      BY <1>3 DEF Overtakes, FromRow, Settled
    <2>3. extra[m] \in Nat /\ extra'[m] \in Nat /\ extra'[m] >= extra[m]
      BY <1>0, <1>6, Types
    <2>4. FromRow(m)' - extra'[m] <= FromRow(m) - extra[m]
      BY <1>6, <2>1, <2>2, <2>3
    <2> QED BY <1>0, <1>1, <1>5, <1>6, <2>4, QuietBudget
  <1>9. /\ IsFiniteSet(AtDesk') /\ RetriesDone' = RetriesDone + 1 /\ retries # 0
        /\ RetriesDone >= 0 /\ RetriesDone \in Int
    <2>1. /\ IsFiniteSet(AtDesk) /\ Cardinality(AtDesk) \in Nat /\ o \in AtDesk
          /\ RetriesDone >= 0 /\ RetriesDone \in Int
      BY <1>0, <1>1, SomeAttemptsAreLeft DEF AttemptsAreLeft, AtDesk
    <2>2. AtDesk' = AtDesk \ {o}
      BY <1>4 DEF AtDesk
    <2>3. IsFiniteSet(AtDesk \ {o}) /\ Cardinality(AtDesk \ {o}) = Cardinality(AtDesk) - 1
          /\ Cardinality(AtDesk \ {o}) \in Nat
      BY <2>1, FS_RemoveElement, FS_CardinalityType
    <2>4. IsFiniteSet(AtDesk') /\ Cardinality(AtDesk') = Cardinality(AtDesk) - 1
          /\ Cardinality(AtDesk) - 1 \in Nat
      BY <2>2, <2>3
    <2>5. retries \in Nat /\ retries' = retries
      BY <1>0, <1>1, Types
    <2> QED BY <2>1, <2>4, <2>5 DEF RetriesDone
  <1>10. AttemptsAreLeft'
    <2>1. /\ \A x \in Messages :
               /\ outbox[x].attempts \in Nat
               /\ outbox[x].attempts <= maxAttempts + RetriesDone
               /\ outbox[x].status \in {"PENDING", "PROCESSING"} => outbox[x].attempts < maxAttempts + RetriesDone
          /\ \A w \in Workers : senders[w] # Idle /\ senders[w].step # "listed" =>
               senders[w].attempts < maxAttempts + RetriesDone /\ senders[w].attempts \in Nat
      BY <1>0, Types, RowIsRecord, SenderHasTask, TaskIsRecord, WorkersAndJobs DEF AttemptsAreLeft
    <2>2. maxAttempts \in Nat
      BY Constants
    <2>3. /\ \A x \in Messages : outbox'[x].attempts < maxAttempts + (RetriesDone + 1)
          /\ \A w \in Workers : senders'[w] # Idle /\ senders'[w].step # "listed" =>
               senders'[w].attempts < maxAttempts + (RetriesDone + 1)
      BY <1>1, <1>2, <1>5, <1>9, <2>1, <2>2
    <2>4. \A x \in Messages : outbox'[x].attempts \in Nat
      BY <1>5, RowIsRecord
    <2>5. \A x \in Messages : outbox'[x].attempts <= maxAttempts + (RetriesDone + 1)
      BY <1>9, <2>2, <2>3, <2>4
    <2> QED BY <1>9, <2>3, <2>5 DEF AttemptsAreLeft
  <1>11. ClaimsAreExclusive'
    BY <1>1, <1>9 DEF ClaimsAreExclusive
  <1> QED BY <1>5, <1>7, <1>8, <1>10, <1>11 DEF IInv

\* Another row for a message: it is settled from its first step on.
LEMMA ReplayInv ==
  ASSUME IInv, NEW m \in Messages, NEW n \in Messages, Replay(m, n)
  PROVE IInv'
  <1>0. /\ TypeOK /\ RowsFollowRequests /\ RowsAreInserted
        /\ WorkIsSettled /\ EntriesAreFilled /\ JobsAgree /\ SentIsCounted
        /\ CopiesAreBudgeted /\ AttemptsAreLeft /\ ClaimsAreExclusive /\ HandOversAreKept
    BY InvOf
  <1> DEFINE r == [status |-> "PENDING", attempts |-> 0, due |-> TRUE]
  <1>1. /\ primary[n] = "idle" /\ primary' = [primary EXCEPT ![n] = "done"]
        /\ outbox' = [outbox EXCEPT ![n] = r]
        /\ UNCHANGED <<queue, inserting, mark, senders, desk, retries, faults, copies, extra>>
    BY DEF Replay
  <1>2. r \in OutboxRow /\ r.status = "PENDING" /\ r.attempts = 0
    BY DEF OutboxRow
  <1>3. /\ outbox' \in [Messages -> OutboxRow] /\ outbox'[n] = r
        /\ primary' \in [Messages -> {"idle", "send", "sent", "queue", "done"}] /\ primary'[n] = "done"
        /\ \A x \in Messages : x # n => outbox'[x] = outbox[x] /\ primary'[x] = primary[x]
    BY <1>0, <1>1, <1>2, Types
  <1> HIDE DEF r
  <1>4. outbox[n].status = "NONE" /\ n \notin inserting /\ mark[n] = "none" /\ ~Settled(n)
    BY <1>0, <1>1 DEF RowsFollowRequests, Settled
  <1>5. Holders(n) = {}
    BY <1>0, <1>4, NobodyBeforeSettled
  <1>6. DoneStays /\ SettledStay /\ CopiesGrow /\ FaultsStay
    BY <1>1, <1>3, SameCopies DEF DoneStays, SettledStay, Settled, FaultsStay
  <1>7. TypeOK'
    BY <1>0, <1>1, <1>3 DEF TypeOK
  <1>8. RowsFollowRequests'
    <2>1. \A x \in Messages : x # n => (Settled(x)' <=> Settled(x))
      BY <1>1, <1>3 DEF Settled
    <2>2. Settled(n)'
      BY <1>1, <1>3, <1>4 DEF Settled
    <2> QED BY <1>0, <1>1, <1>3, <1>4, <2>1, <2>2 DEF RowsFollowRequests
  <1>9. RowsAreInserted'
    BY <1>0, <1>1, <1>2, <1>3 DEF RowsAreInserted
  <1>10. WorkIsSettled'
    BY <1>0, <1>1, <1>2, <1>3, <1>6, WorkKept
  <1>11. EntriesAreFilled' /\ JobsAgree'
    BY <1>0, <1>1, <1>6, EntriesKept, JobsKept DEF EntriesAreFilled
  <1>12. SentIsCounted'
    BY <1>0, <1>1, <1>2, <1>3, <1>6, SentKept
  <1>13. CopiesAreBudgeted'
    <2> SUFFICES ASSUME NEW x \in Messages
                 PROVE copies'[x] + FromRequest(x)' + FromRow(x)' + Cardinality(Sending(x))' + FromEntry(x)'
                         <= 1 + extra'[x]
      BY DEF CopiesAreBudgeted
    <2>1. Sending(x)' = Sending(x) /\ Holders(x)' = Holders(x) /\ \A f : OnEntry(f)' = OnEntry(f)
      BY <1>1, SendersKept
    <2>2. FromEntry(x)' = FromEntry(x)
      BY <1>1, <2>1, EntryKept
    <2>3. CASE x # n
      <3>1. FromRequest(x)' = FromRequest(x) /\ FromRow(x)' = FromRow(x)
        BY <1>1, <1>3, <2>1, <2>3, RequestKept, RowKept
      <3> QED BY <1>0, <1>1, <2>1, <2>2, <3>1 DEF CopiesAreBudgeted
    <2>4. CASE x = n
      <3>1. FromRequest(n) = 1 /\ FromRequest(n)' = 0 /\ FromRow(n) = 0 /\ FromRow(n)' = 1
        BY <1>1, <1>2, <1>3, <1>4 DEF FromRequest, FromRow
      <3>2. FromEntry(n) \in Int /\ Cardinality(Sending(n)) \in Nat /\ copies[n] \in Nat /\ extra[n] \in Nat
        BY <1>0, PartsAreSmall, SendingIsFinite, Types
      <3>3. copies[n] + FromRequest(n) + FromRow(n) + Cardinality(Sending(n)) + FromEntry(n) <= 1 + extra[n]
        BY <1>0 DEF CopiesAreBudgeted
      <3>4. /\ Cardinality(Sending(n))' = Cardinality(Sending(n)) /\ FromEntry(n)' = FromEntry(n)
            /\ copies'[n] = copies[n] /\ extra'[n] = extra[n]
        BY <1>1, <2>1, <2>2, <2>4
      <3> QED BY <2>4, <3>1, <3>2, <3>3, <3>4
    <2> QED BY <2>3, <2>4
  <1>14. AttemptsAreLeft'
    <2>1. AtDesk' = AtDesk /\ RetriesDone' = RetriesDone
      BY <1>1 DEF AtDesk, RetriesDone
    <2>2. 0 < maxAttempts + RetriesDone /\ 0 <= maxAttempts + RetriesDone
      BY <1>0, SomeAttemptsAreLeft
    <2> QED BY <1>0, <1>1, <1>2, <1>3, <2>1, <2>2 DEF AttemptsAreLeft
  <1>15. ClaimsAreExclusive'
    <2>1. \A x \in Messages : Holders(x)' = Holders(x)
      BY <1>1, SendersKept
    <2> QED BY <1>0, <1>1, <1>3, <1>5, <2>1, ClaimsKept
  <1>16. HandOversAreKept'
    BY <1>0, <1>1, <1>2, <1>3, <1>6, HandOversKept
  <1> QED BY <1>7, <1>8, <1>9, <1>10, <1>11, <1>12, <1>13, <1>14, <1>15, <1>16 DEF IInv

-----------------------------------------------------------------------------
(* Senders that take up work, go on and return. *)

\* A worker lists a row that is due.
LEMMA FindDueInv ==
  ASSUME IInv, NEW w \in Workers, NEW m \in Messages, FindDue(w, m)
  PROVE IInv'
  <1>0. /\ TypeOK /\ RowsFollowRequests /\ RowsAreInserted
        /\ WorkIsSettled /\ EntriesAreFilled /\ JobsAgree /\ SentIsCounted
        /\ CopiesAreBudgeted /\ AttemptsAreLeft /\ ClaimsAreExclusive /\ HandOversAreKept
    BY InvOf
  <1> DEFINE t == [step |-> "listed", message |-> m, attempts |-> 0, entity |-> Entity[m]]
  <1>1. /\ senders[w] = Idle /\ outbox[m].due
        /\ senders' = [senders EXCEPT ![w] = t]
        /\ UNCHANGED <<outbox, queue, primary, inserting, mark, desk, retries, faults, copies, extra>>
    BY DEF FindDue
  <1>2. t \in Task /\ t.step = "listed" /\ t.message = m
    <2>1. Entity[m] \in Entities
      BY Constants
    <2> QED BY <2>1 DEF Task
  <1> HIDE DEF t
  <1>3. w \in Senders /\ w \notin Jobs
    BY WorkersAndJobs
  <1>4. /\ senders' \in [Senders -> Task \cup {Idle}] /\ senders'[w] = t
        /\ \A x \in Senders : x # w => senders'[x] = senders[x]
    BY <1>0, <1>1, <1>2, <1>3, Types
  <1>5. Settled(m)
    BY <1>0, <1>1, BusyIsSettled
  <1>6. \A j \in Jobs : senders'[j] = senders[j]
    BY <1>3, <1>4, WorkersAndJobs
  <1>7. \A x \in Messages : Holders(x)' = Holders(x)
    BY <1>1, <1>2, <1>4, WorkersAndJobs DEF Holders, AtWork
  <1>8. DoneStays /\ CopiesGrow /\ FaultsStay
    BY <1>1, RequestsKept, SameCopies DEF FaultsStay
  <1>9. TypeOK'
    BY <1>0, <1>1, <1>4 DEF TypeOK
  <1>10. RowsFollowRequests' /\ RowsAreInserted' /\ EntriesAreFilled' /\ JobsAgree' /\ HandOversAreKept'
    BY <1>0, <1>1, <1>6, <1>8, RowsKept, InsertedKept, EntriesKept, JobsKept, HandOversKept
    DEF EntriesAreFilled
  <1>11. SentIsCounted'
    <2>1. \A s \in Senders : senders'[s] = senders[s] \/ senders'[s].step # "sent"
      BY <1>2, <1>4
    <2> QED BY <1>0, <1>1, <1>8, <2>1, SentKept
  <1>12. WorkIsSettled'
    <2>1. ASSUME NEW v \in Workers, senders'[v] # Idle
          PROVE /\ primary'[senders'[v].message] = "done" /\ mark'[senders'[v].message] = "none"
                /\ senders'[v].message \notin inserting'
      <3>1. CASE v = w
        BY <1>1, <1>2, <1>4, <1>5, <3>1 DEF Settled
      <3>2. CASE v # w
        BY <1>0, <1>1, <1>4, <2>1, <3>2, WorkersAndJobs DEF WorkIsSettled, Settled
      <3> QED BY <3>1, <3>2
    <2> QED BY <1>0, <1>1, <2>1 DEF WorkIsSettled, Settled
  <1>13. CopiesAreBudgeted'
    <2> SUFFICES ASSUME NEW x \in Messages
                 PROVE copies'[x] + FromRequest(x)' + FromRow(x)' + Cardinality(Sending(x))' + FromEntry(x)'
                         <= 1 + extra'[x]
      BY DEF CopiesAreBudgeted
    <2>1. FromRequest(x)' = FromRequest(x) /\ FromRow(x)' = FromRow(x)
      BY <1>1, <1>7, RequestKept, RowKept
    <2>2. FromEntry(x)' = FromEntry(x)
      <3>1. OnEntry(Entity[x])' = OnEntry(Entity[x])
        BY <1>0, <1>1, WorkerKeepsJobs
      <3>2. \A j \in OnEntry(Entity[x]) : senders'[j].message = senders[j].message
        BY <1>6 DEF OnEntry
      <3> QED BY <1>1, <3>1, <3>2, EntryKept
    <2>3. Cardinality(Sending(x))' = Cardinality(Sending(x))
      <3>1. ~Counts(w, senders[w], x) /\ ~Counts(w, t, x)
        BY <1>1, <1>2, <1>3 DEF Counts
      <3>2. Cardinality(Sending(x))'
              = Cardinality(Sending(x)) - One(Counts(w, senders[w], x)) + One(Counts(w, t, x))
        BY <1>0, <1>1, <1>3, SendingAfter
      <3>3. One(Counts(w, senders[w], x)) = 0 /\ One(Counts(w, t, x)) = 0
        BY <3>1 DEF One
      <3>4. Cardinality(Sending(x)) \in Nat
        BY SendingIsFinite
      <3> QED BY <3>2, <3>3, <3>4
    <2> QED BY <1>0, <1>1, <2>1, <2>2, <2>3 DEF CopiesAreBudgeted
  <1>14. AttemptsAreLeft'
    <2>1. \A v \in Workers : senders'[v] # Idle /\ senders'[v].step # "listed" => senders'[v] = senders[v]
      BY <1>2, <1>4, WorkersAndJobs
    <2> QED BY <1>0, <1>1, <2>1, AttemptsKept
  <1>15. ClaimsAreExclusive'
    BY <1>0, <1>1, <1>7, ClaimsKept
  <1> QED BY <1>9, <1>10, <1>11, <1>12, <1>13, <1>14, <1>15 DEF IInv

\* One sender takes the step to task k: what this changes in the budget of x.
LEMMA SenderBudget ==
  ASSUME TypeOK, CopiesAreBudgeted, NEW s \in Senders, NEW k, senders' = [senders EXCEPT ![s] = k],
         NEW x \in Messages, copies'[x] \in Nat, extra'[x] \in Nat,
         FromRequest(x)' = FromRequest(x),
         FromRow(x)' + FromEntry(x)' + One(Counts(s, k, x)) + copies'[x] - extra'[x]
            <= FromRow(x) + FromEntry(x) + One(Counts(s, senders[s], x)) + copies[x] - extra[x]
  PROVE copies'[x] + FromRequest(x)' + FromRow(x)' + Cardinality(Sending(x))' + FromEntry(x)'
          <= 1 + extra'[x]
  <1>1. Cardinality(Sending(x))'
           = Cardinality(Sending(x)) - One(Counts(s, senders[s], x)) + One(Counts(s, k, x))
    BY SendingAfter
  <1>2. /\ FromRequest(x) \in Int /\ FromRow(x) \in Int /\ FromEntry(x) \in Int
        /\ Cardinality(Sending(x)) \in Nat /\ copies[x] \in Nat /\ extra[x] \in Nat
    BY PartsAreSmall, SendingIsFinite, Types
  <1>3. FromRow(x)' \in Int /\ FromEntry(x)' \in Int
    BY DEF FromRow, FromEntry
  <1>4. One(Counts(s, senders[s], x)) \in Int /\ One(Counts(s, k, x)) \in Int
    BY DEF One
  <1>5. copies[x] + FromRequest(x) + FromRow(x) + Cardinality(Sending(x)) + FromEntry(x) <= 1 + extra[x]
    BY DEF CopiesAreBudgeted
  <1> QED BY <1>1, <1>2, <1>3, <1>4, <1>5

\* What a task that is over or goes on counted for.
LEMMA CountsAre ==
  ASSUME TypeOK, NEW s \in Senders, NEW x
  PROVE /\ One(Counts(s, Idle, x)) = 0
        /\ senders[s] # Idle /\ senders[s].message # x => One(Counts(s, senders[s], x)) = 0
        /\ senders[s] # Idle /\ senders[s].message = x /\ senders[s].step = "sent" =>
              One(Counts(s, senders[s], x)) = 0
        /\ senders[s] # Idle /\ senders[s].message = x /\ senders[s].step \in {"claimed", "failed"} =>
              One(Counts(s, senders[s], x)) = 1
        /\ senders[s] # Idle /\ senders[s].message = x /\ senders[s].step = "listed" =>
              One(Counts(s, senders[s], x)) = IF s \in Jobs THEN 1 ELSE 0
        /\ One(Counts(s, senders[s], x)) \in 0 .. 1
  BY DEF One, Counts

\* When a worker returns, rows of other messages are as they were.
LEMMA WorkerReturns ==
  ASSUME TypeOK, NEW w \in Workers, senders[w] # Idle, senders' = [senders EXCEPT ![w] = Idle],
         NEW x
  PROVE /\ x # senders[w].message => Holders(x)' = Holders(x)
        /\ x = senders[w].message => Holders(x)' = Holders(x) \ {w}
  <1>0. senders \in [Senders -> Task \cup {Idle}]
    BY Types
  <1>1. senders'[w] = Idle /\ \A v \in Workers : v # w => senders'[v] = senders[v]
    BY <1>0, WorkersAndJobs
  <1> QED BY <1>1 DEF Holders, AtWork

\* When a job returns, only the message it had listed may be sent by its entry again.
LEMMA JobReturns ==
  ASSUME TypeOK, JobsAgree, NEW j \in Jobs, senders[j] # Idle, senders' = [senders EXCEPT ![j] = Idle],
         \A f \in Entities : /\ queue'[f].payload = queue[f].payload
                             /\ f # senders[j].entity => queue'[f].status = queue[f].status,
         NEW x \in Messages
  PROVE /\ x # senders[j].message => FromEntry(x)' <= FromEntry(x)
        /\ x = senders[j].message => FromEntry(x) = 0
  <1>0. senders \in [Senders -> Task \cup {Idle}] /\ Entity[x] \in Entities
    BY Types, Constants
  <1>1. PICK e \in Entities, m \in Messages : e = senders[j].entity /\ m = senders[j].message
    BY SenderHasTask, TaskIsRecord, WorkersAndJobs
  <1>2. /\ Entity[m] = e
        /\ \A i \in OnEntry(e) : senders[i].message = m
        /\ j \in OnEntry(e)
    BY <1>1 DEF JobsAgree, Enqueued, OnEntry
  <1>3. senders'[j] = Idle /\ \A i \in Jobs : i # j => senders'[i] = senders[i]
    BY <1>0, WorkersAndJobs
  <1>4. CASE x = m
    <2>1. FromEntry(x) = 0
      BY <1>1, <1>2, <1>4 DEF FromEntry
    <2> QED BY <1>1, <1>4, <2>1
  <1>5. CASE x # m
    <2>1. CASE Entity[x] = e
      <3>1. FromEntry(x)' \in 0 .. 1 /\ FromEntry(x) \in 0 .. 1
        BY DEF FromEntry
      <3>2. CASE queue[e].payload = x
        <4>1. FromEntry(x) = 1
          BY <1>2, <1>5, <2>1, <3>2 DEF FromEntry
        <4> QED BY <1>1, <1>5, <3>1, <4>1
      <3>3. CASE queue[e].payload # x
        <4>1. FromEntry(x)' = 0
          BY <1>0, <2>1, <3>3 DEF FromEntry
        <4> QED BY <1>1, <1>5, <3>1, <4>1
      <3> QED BY <3>2, <3>3
    <2>2. CASE Entity[x] # e
      <3>1. OnEntry(Entity[x])' = OnEntry(Entity[x])
        BY <1>1, <1>3, <2>2 DEF OnEntry
      <3>2. \A i \in OnEntry(Entity[x]) : senders'[i].message = senders[i].message
        BY <1>1, <1>3, <2>2 DEF OnEntry
      <3>3. FromEntry(x)' = FromEntry(x)
        BY <1>0, <1>1, <2>2, <3>1, <3>2, EntryKept
      <3> QED BY <1>1, <1>5, <3>3, PartsAreSmall
    <2> QED BY <2>1, <2>2
  <1> QED BY <1>4, <1>5

\* A sender gives up its task without having written anything.
LEMMA SenderLeaves ==
  ASSUME IInv, NEW s \in Senders, senders[s] # Idle, senders' = [senders EXCEPT ![s] = Idle],
         UNCHANGED <<outbox, queue, primary, inserting, mark, desk, retries, copies>>,
         faults' \in Nat, FaultsStay,
         extra' \in [Messages -> Nat], \A x \in Messages : extra'[x] >= extra[x],
         senders[s].step = "sent" => extra'[senders[s].message] = extra[senders[s].message] + 1,
         s \in Workers \/ senders[s].step # "claimed"
  PROVE IInv'
  <1>0. /\ TypeOK /\ RowsFollowRequests /\ RowsAreInserted
        /\ WorkIsSettled /\ EntriesAreFilled /\ JobsAgree /\ SentIsCounted
        /\ CopiesAreBudgeted /\ AttemptsAreLeft /\ ClaimsAreExclusive /\ HandOversAreKept
    BY InvOf
  <1>1. /\ senders' \in [Senders -> Task \cup {Idle}] /\ senders'[s] = Idle
        /\ \A q \in Senders : q # s => senders'[q] = senders[q]
    BY <1>0, Types
  <1>2. \A q \in Senders : senders'[q] = senders[q] \/ senders'[q] = Idle
    BY <1>1
  <1>3. PICK m \in Messages : m = senders[s].message
    BY <1>0, SenderHasTask, TaskIsRecord
  <1>4. DoneStays /\ SettledStay /\ CopiesGrow
    BY RequestsKept, SameCopies
  <1>5. TypeOK'
    BY <1>0, <1>1 DEF TypeOK
  <1>6. RowsFollowRequests' /\ RowsAreInserted' /\ EntriesAreFilled' /\ HandOversAreKept'
    BY <1>0, <1>4, RowsKept, InsertedKept, EntriesKept, HandOversKept DEF EntriesAreFilled
  <1>7. JobsAgree'
    BY <1>0, <1>2, <1>4, JobsKept, WorkersAndJobs
  <1>8. SentIsCounted'
    BY <1>0, <1>2, <1>4, SentKept
  <1>9. WorkIsSettled'
    BY <1>0, <1>2, <1>4, WorkKept, WorkersAndJobs
  <1>10. CopiesAreBudgeted'
    <2> SUFFICES ASSUME NEW x \in Messages
                 PROVE copies'[x] + FromRequest(x)' + FromRow(x)' + Cardinality(Sending(x))' + FromEntry(x)'
                         <= 1 + extra'[x]
      BY DEF CopiesAreBudgeted
    <2>1. FromRequest(x)' = FromRequest(x)
      BY RequestKept
    <2>2. /\ copies[x] \in Nat /\ extra[x] \in Nat /\ extra'[x] \in Nat /\ extra'[x] >= extra[x]
          /\ copies'[x] = copies[x]
      BY <1>0, Types
    <2>3. /\ FromRow(x) \in 0 .. 1 /\ FromRow(x)' \in 0 .. 1
          /\ FromEntry(x) \in 0 .. 1 /\ FromEntry(x)' \in 0 .. 1
      BY DEF FromRow, FromEntry
    <2>4. senders[s].step \in {"listed", "claimed", "sent", "failed"}
      BY <1>0, SenderHasTask, TaskIsRecord
    <2>5. /\ One(Counts(s, Idle, x)) = 0 /\ One(Counts(s, senders[s], x)) \in 0 .. 1
          /\ m # x => One(Counts(s, senders[s], x)) = 0
          /\ m = x /\ senders[s].step \in {"claimed", "failed"} => One(Counts(s, senders[s], x)) = 1
          /\ m = x /\ senders[s].step = "listed" /\ s \in Jobs => One(Counts(s, senders[s], x)) = 1
          /\ m = x /\ senders[s].step = "sent" => extra'[x] = extra[x] + 1
      BY <1>0, <1>3, CountsAre
    <2>6. FromRow(x)' + FromEntry(x)' + One(Counts(s, Idle, x)) + copies'[x] - extra'[x]
            <= FromRow(x) + FromEntry(x) + One(Counts(s, senders[s], x)) + copies[x] - extra[x]
      <3>1. CASE s \in Workers
        <4>1. FromEntry(x)' = FromEntry(x)
          <5>1. OnEntry(Entity[x])' = OnEntry(Entity[x])
            BY <1>0, <3>1, WorkerKeepsJobs
          <5>2. \A j \in OnEntry(Entity[x]) : senders'[j].message = senders[j].message
            BY <1>0, <3>1, WorkerKeepsJobs DEF OnEntry
          <5> QED BY <5>1, <5>2, EntryKept
        <4>2. m # x \/ senders[s].step = "listed" => FromRow(x)' = FromRow(x)
          <5>1. m # x => Holders(x)' = Holders(x)
            BY <1>0, <1>3, <3>1, WorkerReturns
          <5>2. senders[s].step = "listed" => Holders(x)' = Holders(x)
            <6>1. Holders(m)' = Holders(m) \ {s}
              BY <1>0, <1>3, <3>1, WorkerReturns
            <6>2. senders[s].step = "listed" => s \notin Holders(m)
              BY DEF Holders
            <6> QED BY <5>1, <6>1, <6>2
          <5> QED BY <5>1, <5>2, RowKept
        <4> QED BY <2>2, <2>3, <2>4, <2>5, <4>1, <4>2
      <3>2. CASE s \in Jobs
        <4>1. FromRow(x)' = FromRow(x)
          BY <1>0, <3>2, JobKeepsHolders, RowKept
        <4>2. /\ x # m => FromEntry(x)' <= FromEntry(x)
              /\ x = m => FromEntry(x) = 0
          BY <1>0, <1>3, <3>2, JobReturns
        <4> QED BY <2>2, <2>3, <2>4, <2>5, <3>2, <4>1, <4>2
      <3> QED BY <3>1, <3>2 DEF Senders
    <2> QED BY <1>0, <2>1, <2>2, <2>6, SenderBudget
  <1>11. AttemptsAreLeft'
    BY <1>0, <1>2, AttemptsKept, WorkersAndJobs
  <1>12. ClaimsAreExclusive'
    <2>1. CASE s \in Jobs
      BY <1>0, <2>1, JobKeepsHolders, ClaimsKept
    <2>2. CASE s \in Workers
      <3>1. ASSUME retries = 0, NEW x \in Messages
            PROVE Holders(x)' = {} \/ Holders(x)' = Holders(x)
        <4>1. /\ x # m => Holders(x)' = Holders(x)
              /\ Holders(m)' = Holders(m) \ {s}
          BY <1>0, <1>3, <2>2, WorkerReturns
        <4>2. Holders(m) \ {s} = {} \/ Holders(m) \ {s} = Holders(m)
          BY <1>0, <3>1 DEF ClaimsAreExclusive
        <4> QED BY <4>1, <4>2
      <3> QED BY <1>0, <3>1, ClaimsKept
    <2> QED BY <2>1, <2>2 DEF Senders
  <1> QED BY <1>5, <1>6, <1>7, <1>8, <1>9, <1>10, <1>11, <1>12 DEF IInv

\* A worker or a job is lost.
LEMMA CrashInv ==
  ASSUME IInv, NEW s \in Senders, Crash(s)
  PROVE IInv'
  <1>0. TypeOK /\ JobsAgree
    BY InvOf
  <1>1. /\ senders[s] # Idle /\ Fault
        /\ extra' = IF senders[s].step = "sent" THEN Once(extra, senders[s].message) ELSE extra
        /\ senders' = [senders EXCEPT ![s] = Idle]
        /\ UNCHANGED <<outbox, queue, primary, inserting, mark, desk, retries, copies>>
    BY DEF Crash, Return
  <1>2. senders[s].message \in Messages
    BY <1>0, <1>1, SenderHasTask, TaskIsRecord
  <1>3. /\ extra' \in [Messages -> Nat]
        /\ senders[s].step = "sent" => extra'[senders[s].message] = extra[senders[s].message] + 1
        /\ \A x \in Messages : extra'[x] >= extra[x]
    BY <1>0, <1>1, <1>2, ExtraDoes
  <1>4. faults' \in Nat /\ FaultsStay
    BY <1>0, <1>1, FaultDoes
  <1>5. s \in Workers \/ senders[s].step # "claimed"
    BY <1>0, <1>1 DEF JobsAgree, Senders
  <1> QED BY <1>1, <1>3, <1>4, <1>5, SenderLeaves

\* Whoever finds the row still pending has it; the others return.
LEMMA ClaimInv ==
  ASSUME IInv, NEW w \in Workers, Claim(w)
  PROVE IInv'
  <1>0. /\ TypeOK /\ RowsFollowRequests /\ WorkIsSettled
        /\ CopiesAreBudgeted /\ AttemptsAreLeft /\ ClaimsAreExclusive
    BY InvOf
  <1>1. w \in Senders /\ senders[w].step = "listed"
    BY WorkersAndJobs DEF Claim
  <1>2. senders[w] # Idle /\ senders[w] \in Task
    BY <1>0, <1>1, StepMeansTask
  <1>3. PICK m \in Messages, n \in Nat : m = senders[w].message /\ n = outbox[m].attempts
    BY <1>0, <1>2, TaskIsRecord, Types, RowIsRecord
  <1>4. UNCHANGED <<queue, primary, inserting, mark, desk, retries, faults, copies, extra>>
    BY DEF Claim
  <1>5. ASSUME outbox[m].status # "PENDING"
        PROVE IInv'
    <2>1. senders' = [senders EXCEPT ![w] = Idle] /\ UNCHANGED outbox
      BY <1>3, <1>5 DEF Claim, Return
    <2>2. faults' \in Nat /\ extra' \in [Messages -> Nat] /\ FaultsStay
          /\ \A x \in Messages : extra'[x] >= extra[x]
      BY <1>0, <1>4, Types DEF FaultsStay
    <2> QED BY <1>1, <1>2, <1>4, <2>1, <2>2, SenderLeaves
  <1>6. ASSUME outbox[m].status = "PENDING"
        PROVE IInv'
    <2>1. /\ outbox' = [outbox EXCEPT ![m].status = "PROCESSING"]
          /\ senders' = [senders EXCEPT ![w].step = "claimed", ![w].attempts = n]
      BY <1>3, <1>6 DEF Claim
    <2>2. PICK r \in OutboxRow : /\ outbox' = [outbox EXCEPT ![m] = r]
                                 /\ r.status = "PROCESSING" /\ r.attempts = outbox[m].attempts
      BY <1>0, <2>1, PutClaimed
    <2>3. PICK t \in Task : /\ senders' = [senders EXCEPT ![w] = t]
                            /\ t.step = "claimed" /\ t.message = m /\ t.attempts = n
      <3> DEFINE t == [senders[w] EXCEPT !.step = "claimed", !.attempts = n]
      <3>1. t \in Task /\ t.step = "claimed" /\ t.message = m /\ t.attempts = n
        BY <1>2, <1>3 DEF Task
      <3>2. senders \in [Senders -> Task \cup {Idle}]
        BY <1>0, Types
      <3>3. senders' = [senders EXCEPT ![w] = t]
        BY <1>1, <2>1, <3>2
      <3> QED BY <3>1, <3>3
    <2>4. t # Idle
      BY TaskIsRecord
    <2>5. /\ senders' \in [Senders -> Task \cup {Idle}] /\ senders'[w] = t
          /\ \A q \in Senders : q # w => senders'[q] = senders[q]
      BY <1>0, <1>1, <2>3, Types
    <2>6. Settled(m)
      BY <1>0, <1>2, <1>3 DEF WorkIsSettled
    <2>7. /\ outbox' \in [Messages -> OutboxRow] /\ outbox'[m] = r
          /\ \A x \in Messages : x # m => outbox'[x] = outbox[x]
          /\ \A x \in Messages : FromRequest(x)' = FromRequest(x) /\ FromEntry(x)' = FromEntry(x)
          /\ RowsFollowRequests' /\ RowsAreInserted' /\ WorkIsSettled' /\ EntriesAreFilled'
          /\ JobsAgree' /\ SentIsCounted' /\ HandOversAreKept'
      <3>1. \A j \in Jobs : senders'[j] = senders[j]
        BY <2>5, WorkersAndJobs
      <3>2. \A v \in Workers : /\ senders'[v] # Idle =>
                                     senders[v] # Idle /\ senders'[v].message = senders[v].message
                               /\ \/ senders'[v] = senders[v] \/ senders'[v] = Idle
                                  \/ senders'[v].step # "sent"
        BY <1>2, <1>3, <2>3, <2>5, WorkersAndJobs
      <3> QED BY <1>4, <2>2, <2>6, <3>1, <3>2, SettledRowChanges
    <2>8. TypeOK'
      BY <1>0, <1>4, <2>5, <2>7 DEF TypeOK
    <2>9. /\ \A x \in Messages : x # m => Holders(x)' = Holders(x)
          /\ Holders(m)' = Holders(m) \cup {w}
      BY <1>2, <1>3, <2>3, <2>4, <2>5, WorkersAndJobs DEF Holders, AtWork
    <2>10. CopiesAreBudgeted'
      <3> SUFFICES ASSUME NEW x \in Messages
                   PROVE copies'[x] + FromRequest(x)' + FromRow(x)' + Cardinality(Sending(x))' + FromEntry(x)'
                           <= 1 + extra'[x]
        BY DEF CopiesAreBudgeted
      <3>1. /\ copies[x] \in Nat /\ extra[x] \in Nat /\ copies'[x] = copies[x] /\ extra'[x] = extra[x]
            /\ FromEntry(x) \in Int
        BY <1>0, <1>4, Types, PartsAreSmall
      <3>2. FromRequest(x)' = FromRequest(x) /\ FromEntry(x)' = FromEntry(x)
        BY <2>7
      <3>3. CASE x = m
        <4>1. FromRow(m) = 1
          BY <1>6, <2>6 DEF FromRow, Settled
        <4>2. FromRow(m)' = 0
          BY <1>4, <2>2, <2>6, <2>7, <2>9 DEF FromRow, Settled
        <4>3. One(Counts(w, senders[w], m)) = 0
          BY <1>0, <1>1, <1>2, <1>3, CountsAre, WorkersAndJobs
        <4>4. One(Counts(w, t, m)) = 1
          BY <2>3, <2>4 DEF One, Counts
        <4>5. FromRow(x)' + FromEntry(x)' + One(Counts(w, t, x)) + copies'[x] - extra'[x]
                 <= FromRow(x) + FromEntry(x) + One(Counts(w, senders[w], x)) + copies[x] - extra[x]
          BY <3>1, <3>2, <3>3, <4>1, <4>2, <4>3, <4>4
        <4> QED BY <1>0, <1>1, <2>3, <3>1, <3>2, <4>5, SenderBudget
      <3>4. CASE x # m
        <4>1. FromRow(x)' = FromRow(x)
          BY <1>4, <2>7, <2>9, <3>4, RowKept
        <4>2. One(Counts(w, senders[w], x)) = 0 /\ One(Counts(w, t, x)) = 0
          BY <1>3, <2>3, <3>4 DEF One, Counts
        <4>3. FromRow(x) \in Int
          BY PartsAreSmall
        <4>4. FromRow(x)' + FromEntry(x)' + One(Counts(w, t, x)) + copies'[x] - extra'[x]
                 <= FromRow(x) + FromEntry(x) + One(Counts(w, senders[w], x)) + copies[x] - extra[x]
          BY <3>1, <3>2, <4>1, <4>2, <4>3
        <4> QED BY <1>0, <1>1, <2>3, <3>1, <3>2, <4>4, SenderBudget
      <3> QED BY <3>3, <3>4
    <2>11. AttemptsAreLeft'
      <3>1. AtDesk' = AtDesk /\ RetriesDone' = RetriesDone
        BY <1>4 DEF AtDesk, RetriesDone
      <3>2. outbox[m].attempts < maxAttempts + RetriesDone
        BY <1>0, <1>6 DEF AttemptsAreLeft
      <3>3. \A x \in Messages :
               /\ outbox'[x].attempts = outbox[x].attempts
               /\ outbox'[x].status \in {"PENDING", "PROCESSING"} =>
                     outbox[x].status \in {"PENDING", "PROCESSING"}
        BY <1>6, <2>2, <2>7
      <3>4. \A v \in Workers : senders'[v] # Idle /\ senders'[v].step # "listed" =>
               senders'[v].attempts < maxAttempts + RetriesDone
        BY <1>0, <1>3, <2>3, <2>5, <3>2, WorkersAndJobs DEF AttemptsAreLeft
      <3> QED BY <1>0, <3>1, <3>3, <3>4 DEF AttemptsAreLeft
    <2>12. ClaimsAreExclusive'
      <3> SUFFICES ASSUME retries' = 0, NEW x \in Messages, NEW v \in Holders(x)'
                   PROVE outbox'[x].status = "PROCESSING" /\ Holders(x)' = {v}
        BY DEF ClaimsAreExclusive
      <3>1. CASE x = m
        <4>1. Holders(m) = {}
          BY <1>0, <1>4, <1>6 DEF ClaimsAreExclusive
        <4> QED BY <2>2, <2>7, <2>9, <3>1, <4>1
      <3>2. CASE x # m
        BY <1>0, <1>4, <2>7, <2>9, <3>2 DEF ClaimsAreExclusive
      <3> QED BY <3>1, <3>2
    <2> QED BY <2>7, <2>8, <2>10, <2>11, <2>12 DEF IInv
  <1> QED BY <1>5, <1>6

\* A worker writes what has become of the row that he claimed, and returns.
LEMMA RowIsFinished ==
  ASSUME IInv, NEW w \in Workers, senders[w].step \in {"claimed", "sent", "failed"},
         NEW m \in Messages, m = senders[w].message, NEW r \in OutboxRow,
         outbox' = [outbox EXCEPT ![m] = r], senders' = [senders EXCEPT ![w] = Idle],
         r.status \in {"SENT", "DEAD", "PENDING"},
         r.status = "SENT" <=> senders[w].step = "sent",
         r.attempts = senders[w].attempts + 1,
         r.status = "PENDING" => r.attempts < maxAttempts,
         UNCHANGED <<queue, primary, inserting, mark, desk, retries, faults, copies, extra>>
  PROVE IInv'
  <1>0. /\ TypeOK /\ RowsFollowRequests /\ WorkIsSettled /\ SentIsCounted
        /\ CopiesAreBudgeted /\ AttemptsAreLeft /\ ClaimsAreExclusive
    BY InvOf
  <1>1. w \in Senders /\ senders[w] # Idle /\ senders[w] \in Task
    BY <1>0, StepMeansTask, WorkersAndJobs
  <1>2. /\ senders' \in [Senders -> Task \cup {Idle}] /\ senders'[w] = Idle
        /\ \A q \in Senders : q # w => senders'[q] = senders[q]
    BY <1>0, <1>1, Types
  <1>3. Settled(m)
    BY <1>0, <1>1 DEF WorkIsSettled
  <1>4. /\ outbox' \in [Messages -> OutboxRow] /\ outbox'[m] = r
        /\ \A x \in Messages : x # m => outbox'[x] = outbox[x]
        /\ \A x \in Messages : FromRequest(x)' = FromRequest(x) /\ FromEntry(x)' = FromEntry(x)
        /\ RowsFollowRequests' /\ RowsAreInserted' /\ WorkIsSettled' /\ EntriesAreFilled'
        /\ JobsAgree' /\ SentIsCounted' /\ HandOversAreKept'
    <2>1. \A j \in Jobs : senders'[j] = senders[j]
      BY <1>2, WorkersAndJobs
    <2>2. \A v \in Workers : senders'[v] = senders[v] \/ senders'[v] = Idle
      BY <1>2, WorkersAndJobs
    <2>3. r.status = "SENT" => copies[m] > 0
      BY <1>0, <1>1 DEF SentIsCounted
    <2> QED BY <1>3, <2>1, <2>2, <2>3, SettledRowChanges
  <1>5. TypeOK'
    BY <1>0, <1>2, <1>4 DEF TypeOK
  <1>6. /\ \A x \in Messages : x # m => Holders(x)' = Holders(x)
        /\ Holders(m)' = Holders(m) \ {w}
    BY <1>0, <1>1, WorkerReturns
  <1>7. CopiesAreBudgeted'
    <2> SUFFICES ASSUME NEW x \in Messages
                 PROVE copies'[x] + FromRequest(x)' + FromRow(x)' + Cardinality(Sending(x))' + FromEntry(x)'
                         <= 1 + extra'[x]
      BY DEF CopiesAreBudgeted
    <2>1. /\ copies[x] \in Nat /\ extra[x] \in Nat /\ copies'[x] = copies[x] /\ extra'[x] = extra[x]
          /\ FromEntry(x) \in Int /\ FromRow(x) \in 0 .. 1
      BY <1>0, Types, PartsAreSmall
    <2>2. FromRequest(x)' = FromRequest(x) /\ FromEntry(x)' = FromEntry(x)
      BY <1>4
    <2>3. FromRow(x)' + One(Counts(w, Idle, x)) <= FromRow(x) + One(Counts(w, senders[w], x))
          /\ FromRow(x)' \in Int
      <3>1. /\ One(Counts(w, Idle, x)) = 0
            /\ m # x => One(Counts(w, senders[w], x)) = 0
            /\ m = x => One(Counts(w, senders[w], x)) = IF senders[w].step = "sent" THEN 0 ELSE 1
        BY <1>0, <1>1, CountsAre
      <3>2. FromRow(x)' \in 0 .. 1
        BY DEF FromRow
      <3>3. x # m => FromRow(x)' = FromRow(x)
        BY <1>4, <1>6, RowKept
      <3>4. senders[w].step = "sent" => FromRow(m)' = 0
        BY <1>3, <1>4 DEF FromRow, Settled
      <3>5. CASE x = m /\ senders[w].step = "sent"
        BY <2>1, <3>1, <3>4, <3>5
      <3>6. CASE x = m /\ senders[w].step # "sent"
        BY <2>1, <3>1, <3>2, <3>6
      <3>7. CASE x # m
        BY <2>1, <3>1, <3>3, <3>7
      <3> QED BY <3>5, <3>6, <3>7
    <2>4. One(Counts(w, Idle, x)) \in Int /\ One(Counts(w, senders[w], x)) \in Int
      BY DEF One
    <2>5. FromRow(x)' + FromEntry(x)' + One(Counts(w, Idle, x)) + copies'[x] - extra'[x]
             <= FromRow(x) + FromEntry(x) + One(Counts(w, senders[w], x)) + copies[x] - extra[x]
      BY <2>1, <2>2, <2>3, <2>4
    <2> QED BY <1>0, <1>1, <2>1, <2>2, <2>5, SenderBudget
  <1>8. AttemptsAreLeft'
    <2>1. AtDesk' = AtDesk /\ RetriesDone' = RetriesDone
      BY DEF AtDesk, RetriesDone
    <2>2. /\ RetriesDone \in Int /\ RetriesDone >= 0 /\ maxAttempts \in Nat
          /\ senders[w].attempts \in Nat /\ senders[w].attempts < maxAttempts + RetriesDone
      BY <1>0, <1>1, TaskIsRecord, SomeAttemptsAreLeft, Constants DEF AttemptsAreLeft
    <2>3. /\ r.attempts <= maxAttempts + RetriesDone
          /\ r.status \in {"PENDING", "PROCESSING"} => r.attempts < maxAttempts + RetriesDone
      BY <2>2
    <2>4. \A v \in Workers : senders'[v] = senders[v] \/ senders'[v] = Idle
      BY <1>2, WorkersAndJobs
    <2> QED BY <1>0, <1>4, <2>1, <2>3, <2>4 DEF AttemptsAreLeft
  <1>9. ClaimsAreExclusive'
    <2>1. w \in Holders(m)
      BY <1>1 DEF Holders, AtWork
    <2>2. retries = 0 => Holders(m)' = {}
      BY <1>0, <1>6, <2>1 DEF ClaimsAreExclusive
    <2> QED BY <1>0, <1>4, <1>6, <2>2, ClaimsKept
  <1> QED BY <1>4, <1>5, <1>7, <1>8, <1>9 DEF IInv

LEMMA MarkDeadInvalidInv ==
  ASSUME IInv, NEW w \in Workers, MarkDeadInvalid(w)
  PROVE IInv'
  <1>0. TypeOK
    BY InvOf
  <1>1. senders[w].step = "claimed"
    BY DEF MarkDeadInvalid
  <1>2. PICK m \in Messages, n \in Nat : m = senders[w].message /\ n = senders[w].attempts
    BY <1>0, <1>1, StepMeansTask, WorkersAndJobs, TaskIsRecord
  <1> DEFINE r == [status |-> "DEAD", attempts |-> n + 1, due |-> FALSE]
  <1>3. r \in OutboxRow /\ r.status = "DEAD" /\ r.attempts = n + 1
    BY DEF OutboxRow
  <1>4. /\ outbox' = [outbox EXCEPT ![m] = r] /\ senders' = [senders EXCEPT ![w] = Idle]
        /\ UNCHANGED <<queue, primary, inserting, mark, desk, retries, faults, copies, extra>>
    BY <1>2 DEF MarkDeadInvalid, Return
  <1> HIDE DEF r
  <1> QED BY <1>1, <1>2, <1>3, <1>4, RowIsFinished

LEMMA FinalizeOutboxAttemptInv ==
  ASSUME IInv, NEW w \in Workers, FinalizeOutboxAttempt(w)
  PROVE IInv'
  <1>0. TypeOK
    BY InvOf
  <1>1. senders[w].step \in {"sent", "failed"}
    BY DEF FinalizeOutboxAttempt
  <1>2. PICK m \in Messages, n \in Nat : m = senders[w].message /\ n = senders[w].attempts
    BY <1>0, <1>1, StepMeansTask, WorkersAndJobs, TaskIsRecord
  <1>3. PICK st \in {"SENT", "DEAD", "PENDING"} :
           st = IF senders[w].step = "sent" THEN "SENT"
                ELSE IF n + 1 >= maxAttempts THEN "DEAD" ELSE "PENDING"
    OBVIOUS
  <1> DEFINE r == [status |-> st, attempts |-> n + 1, due |-> FALSE]
  <1>4. r \in OutboxRow /\ r.status = st /\ r.attempts = n + 1
    BY DEF OutboxRow
  <1>5. /\ outbox' = [outbox EXCEPT ![m] = r] /\ senders' = [senders EXCEPT ![w] = Idle]
        /\ UNCHANGED <<queue, primary, inserting, mark, desk, retries, faults, copies, extra>>
    BY <1>2, <1>3 DEF FinalizeOutboxAttempt, Return
  <1> HIDE DEF r
  <1>6. /\ r.status = "SENT" <=> senders[w].step = "sent"
        /\ r.status = "PENDING" => r.attempts < maxAttempts
    <2>1. maxAttempts \in Nat
      BY Constants
    <2> QED BY <1>3, <1>4, <2>1
  <1> QED BY <1>1, <1>2, <1>4, <1>5, <1>6, RowIsFinished

\* A sender's task goes on, for the same message and entry.
LEMMA TaskGoesOn ==
  ASSUME TypeOK, NEW s \in Senders, senders[s] # Idle, NEW t \in Task,
         senders' = [senders EXCEPT ![s] = t],
         t.message = senders[s].message, t.entity = senders[s].entity,
         s \in Workers => senders[s].step # "listed" /\ t.step # "listed"
  PROVE /\ \A x : Holders(x)' = Holders(x)
        /\ \A e : OnEntry(e)' = OnEntry(e)
        /\ \A q \in Senders : senders'[q] # Idle => senders[q] # Idle
        /\ \A q \in Senders : senders'[q].message = senders[q].message
        /\ senders' \in [Senders -> Task \cup {Idle}] /\ senders'[s] = t
        /\ \A q \in Senders : q # s => senders'[q] = senders[q]
  <1>0. /\ senders' \in [Senders -> Task \cup {Idle}] /\ senders'[s] = t
        /\ \A q \in Senders : q # s => senders'[q] = senders[q]
    BY Types
  <1>1. t # Idle
    BY TaskIsRecord
  <1>2. \A x : Holders(x)' = Holders(x)
    BY <1>0, <1>1, WorkersAndJobs DEF Holders, AtWork
  <1>3. \A e : OnEntry(e)' = OnEntry(e)
    BY <1>0, <1>1, WorkersAndJobs DEF OnEntry
  <1> QED BY <1>0, <1>2, <1>3

\* A worker sends what it has claimed, a job what it has listed.
LEMMA SendInv ==
  ASSUME IInv, NEW s \in Senders, Send(s)
  PROVE IInv'
  <1>0. /\ TypeOK /\ RowsFollowRequests /\ RowsAreInserted
        /\ WorkIsSettled /\ EntriesAreFilled /\ JobsAgree /\ SentIsCounted
        /\ CopiesAreBudgeted /\ AttemptsAreLeft /\ ClaimsAreExclusive /\ HandOversAreKept
    BY InvOf
  <1>1. /\ s \in Workers => senders[s].step = "claimed"
        /\ s \notin Workers => senders[s].step = "listed"
        /\ UNCHANGED <<outbox, queue, primary, inserting, mark, desk, retries>>
    BY DEF Send
  <1>2. senders[s] # Idle /\ senders[s] \in Task
    BY <1>0, <1>1, StepMeansTask
  <1>3. PICK m \in Messages : m = senders[s].message
    BY <1>2, TaskIsRecord
  <1>4. PICK st \in {"sent", "failed"} : /\ Goto(s, st)
                                         /\ \/ st = "sent" /\ Arrives(m)
                                            \/ st = "failed" /\ NotSent(m)
    BY <1>3 DEF Send
  <1>5. PICK t \in Task : /\ senders' = [senders EXCEPT ![s] = t]
                          /\ t.step = st
                          /\ t.message = senders[s].message /\ t.entity = senders[s].entity
                          /\ t.attempts = senders[s].attempts
    BY <1>0, <1>2, <1>4, PutStep
  <1>6. /\ \A x : Holders(x)' = Holders(x)
        /\ \A e : OnEntry(e)' = OnEntry(e)
        /\ \A q \in Senders : senders'[q] # Idle => senders[q] # Idle
        /\ \A q \in Senders : senders'[q].message = senders[q].message
        /\ senders' \in [Senders -> Task \cup {Idle}] /\ senders'[s] = t
        /\ \A q \in Senders : q # s => senders'[q] = senders[q]
    BY <1>0, <1>1, <1>2, <1>5, TaskGoesOn
  <1>7. /\ copies' \in [Messages -> Nat] /\ extra' \in [Messages -> Nat] /\ faults' \in Nat
        /\ \A x \in Messages : x # m => copies'[x] = copies[x] /\ extra'[x] = extra[x]
        /\ CopiesGrow /\ FaultsStay
    BY <1>0, <1>4, ArrivesDoes, NotSentDoes
  <1>8. DoneStays /\ SettledStay
    BY <1>1, RequestsKept
  <1>9. TypeOK'
    BY <1>0, <1>1, <1>6, <1>7 DEF TypeOK
  <1>10. RowsFollowRequests' /\ RowsAreInserted' /\ EntriesAreFilled' /\ HandOversAreKept'
    BY <1>0, <1>1, <1>7, <1>8, RowsKept, InsertedKept, EntriesKept, HandOversKept DEF EntriesAreFilled
  <1>11. JobsAgree'
    <2>1. \A j \in Jobs : \/ senders'[j] = senders[j]
                          \/ /\ senders[j] # Idle /\ senders'[j].step # "claimed"
                             /\ senders'[j].message = senders[j].message
                             /\ senders'[j].entity = senders[j].entity
      BY <1>2, <1>5, <1>6, WorkersAndJobs
    <2> QED BY <1>0, <1>1, <1>8, <2>1, JobsKept
  <1>12. WorkIsSettled'
    BY <1>0, <1>1, <1>6, <1>8, WorkKept, WorkersAndJobs
  <1>13. SentIsCounted'
    <2>1. \A q \in Senders : senders[q] # Idle => senders[q].message \in Messages
      BY <1>0, SenderHasTask, TaskIsRecord
    <2>2. st = "sent" => copies'[m] > 0
      BY <1>0, <1>4, ArrivesDoes, Types
    <2>3. \A q \in Senders : senders'[q] # Idle /\ senders'[q].step = "sent" =>
             copies'[senders'[q].message] > 0
      <3> SUFFICES ASSUME NEW q \in Senders, senders'[q] # Idle, senders'[q].step = "sent"
                   PROVE copies'[senders'[q].message] > 0
        OBVIOUS
      <3>1. CASE q = s
        BY <1>3, <1>5, <1>6, <2>2, <3>1
      <3>2. CASE q # s
        BY <1>0, <1>6, <1>7, <2>1, <3>2 DEF SentIsCounted, CopiesGrow
      <3> QED BY <3>1, <3>2
    <2> QED BY <1>0, <1>1, <1>7, <2>3 DEF SentIsCounted, CopiesGrow
  <1>14. CopiesAreBudgeted'
    <2> SUFFICES ASSUME NEW x \in Messages
                 PROVE copies'[x] + FromRequest(x)' + FromRow(x)' + Cardinality(Sending(x))' + FromEntry(x)'
                         <= 1 + extra'[x]
      BY DEF CopiesAreBudgeted
    <2>1. /\ copies[x] \in Nat /\ extra[x] \in Nat /\ copies'[x] \in Nat /\ extra'[x] \in Nat
          /\ FromRow(x) \in Int /\ FromEntry(x) \in Int
      BY <1>0, <1>7, Types, PartsAreSmall
    <2>2. FromRequest(x)' = FromRequest(x) /\ FromRow(x)' = FromRow(x)
      BY <1>1, <1>6, RequestKept, RowKept
    <2>3. FromEntry(x)' = FromEntry(x)
      <3>1. \A j \in OnEntry(Entity[x]) : senders'[j].message = senders[j].message
        BY <1>6, WorkersAndJobs DEF OnEntry
      <3> QED BY <1>1, <1>6, <3>1, EntryKept
    <2>4. One(Counts(s, t, x)) + copies'[x] - extra'[x]
             <= One(Counts(s, senders[s], x)) + copies[x] - extra[x]
      <3>1. CASE x # m
        <4>1. One(Counts(s, t, x)) = 0 /\ One(Counts(s, senders[s], x)) = 0
          BY <1>3, <1>5, <3>1 DEF One, Counts
        <4> QED BY <1>7, <2>1, <3>1, <4>1
      <3>2. CASE x = m
        <4>1. One(Counts(s, senders[s], m)) = 1
          BY <1>1, <1>2, <1>3 DEF One, Counts, Senders
        <4>2. CASE st = "sent" /\ Arrives(m)
          <5>1. One(Counts(s, t, m)) = 0
            BY <1>5, <4>2 DEF One, Counts
          <5>2. copies'[m] - extra'[m] = copies[m] - extra[m] + 1
            BY <1>0, <4>2, ArrivesDoes
          <5> QED BY <2>1, <3>2, <4>1, <5>1, <5>2
        <4>3. CASE st = "failed" /\ NotSent(m)
          <5>1. One(Counts(s, t, m)) \in 0 .. 1
            BY DEF One
          <5>2. copies'[m] - extra'[m] = copies[m] - extra[m]
            BY <1>0, <4>3, NotSentDoes
          <5> QED BY <2>1, <3>2, <4>1, <5>1, <5>2
        <4> QED BY <1>4, <4>2, <4>3
      <3> QED BY <3>1, <3>2
    <2>5. One(Counts(s, t, x)) \in Int /\ One(Counts(s, senders[s], x)) \in Int
      BY DEF One
    <2>6. FromRow(x)' + FromEntry(x)' + One(Counts(s, t, x)) + copies'[x] - extra'[x]
             <= FromRow(x) + FromEntry(x) + One(Counts(s, senders[s], x)) + copies[x] - extra[x]
      BY <2>1, <2>2, <2>3, <2>4, <2>5
    <2> QED BY <1>0, <1>5, <2>1, <2>2, <2>6, SenderBudget
  <1>15. AttemptsAreLeft'
    <2>1. \A w \in Workers : senders'[w] # Idle /\ senders'[w].step # "listed" =>
             /\ senders[w] # Idle /\ senders[w].step # "listed"
             /\ senders'[w].attempts = senders[w].attempts
      BY <1>1, <1>2, <1>5, <1>6, WorkersAndJobs
    <2> QED BY <1>0, <1>1, <2>1, AttemptsKept
  <1>16. ClaimsAreExclusive'
    BY <1>0, <1>1, <1>6, ClaimsKept
  <1> QED BY <1>9, <1>10, <1>11, <1>12, <1>13, <1>14, <1>15, <1>16 DEF IInv

-----------------------------------------------------------------------------
(* Jobs of the retry queue. *)

\* A job lists an entry that is due; other jobs may have listed it already.
LEMMA ListQueueInv ==
  ASSUME IInv, NEW j \in Jobs, NEW e \in Entities, ListQueue(j, e)
  PROVE IInv'
  <1>0. /\ TypeOK /\ RowsFollowRequests /\ RowsAreInserted
        /\ WorkIsSettled /\ EntriesAreFilled /\ JobsAgree /\ SentIsCounted
        /\ CopiesAreBudgeted /\ AttemptsAreLeft /\ ClaimsAreExclusive /\ HandOversAreKept
    BY InvOf
  <1>1. PICK m \in Messages, n \in Nat :
           m = queue[e].payload /\ n = queue[e].attempts /\ Enqueued(e, m)
    <2>1. queue[e].status \in Queued
      BY DEF ListQueue
    <2>2. queue[e].payload # NoMessage
      BY <1>0, <2>1 DEF EntriesAreFilled, Queued
    <2> QED BY <1>0, <2>2, Types, EntryIsRecord DEF EntriesAreFilled
  <1> DEFINE t == [step |-> "listed", message |-> m, attempts |-> n, entity |-> e]
  <1>2. /\ senders[j] = Idle /\ queue[e].status \in Queued /\ queue[e].due
        /\ senders' = [senders EXCEPT ![j] = t]
        /\ extra' = IF OnEntry(e) # {} THEN Once(extra, m) ELSE extra
        /\ UNCHANGED <<outbox, queue, primary, inserting, mark, desk, retries, faults, copies>>
    BY <1>1 DEF ListQueue
  <1>3. t \in Task /\ t.step = "listed" /\ t.message = m /\ t.entity = e
    BY DEF Task
  <1> HIDE DEF t
  <1>4. t # Idle /\ j \in Senders /\ j \notin Workers
    BY <1>3, TaskIsRecord, WorkersAndJobs
  <1>5. /\ senders' \in [Senders -> Task \cup {Idle}] /\ senders'[j] = t
        /\ \A q \in Senders : q # j => senders'[q] = senders[q]
    BY <1>0, <1>2, <1>3, <1>4, Types
  <1>6. /\ extra' \in [Messages -> Nat]
        /\ OnEntry(e) # {} => extra'[m] = extra[m] + 1
        /\ \A x \in Messages : extra'[x] >= extra[x]
        /\ \A x \in Messages : x # m => extra'[x] = extra[x]
    <2>1. (OnEntry(e) # {}) \in BOOLEAN
      OBVIOUS
    <2> QED BY <1>0, <1>2, <2>1, ExtraDoes
  <1>7. DoneStays /\ SettledStay /\ CopiesGrow /\ FaultsStay
    BY <1>2, RequestsKept, SameCopies DEF FaultsStay
  <1>8. \A w \in Workers : senders'[w] = senders[w]
    BY <1>4, <1>5, WorkersAndJobs
  <1>9. \A x \in Messages : Holders(x)' = Holders(x)
    BY <1>0, <1>2, JobKeepsHolders
  <1>10. TypeOK'
    BY <1>0, <1>2, <1>5, <1>6 DEF TypeOK
  <1>11. RowsFollowRequests' /\ RowsAreInserted' /\ EntriesAreFilled' /\ HandOversAreKept' /\ WorkIsSettled'
    BY <1>0, <1>2, <1>7, <1>8, RowsKept, InsertedKept, EntriesKept, HandOversKept, WorkKept
    DEF EntriesAreFilled
  <1>12. JobsAgree'
    <2> SUFFICES ASSUME NEW i \in Jobs, senders'[i] # Idle
                 PROVE /\ senders'[i].step # "claimed"
                       /\ senders'[i].message \in Dms
                       /\ Entity[senders'[i].message] = senders'[i].entity
                       /\ primary'[senders'[i].message] = "done"
                       /\ queue'[senders'[i].entity].payload # NoMessage
                       /\ queue'[senders'[i].entity].due =>
                             queue'[senders'[i].entity].payload = senders'[i].message
                       /\ \A k \in Jobs : senders'[k] # Idle /\ senders'[k].entity = senders'[i].entity
                                            => senders'[k].message = senders'[i].message
      BY DEF JobsAgree, Enqueued, OnEntry
    <2>1. m # NoMessage /\ \A k \in Jobs : k # j => senders'[k] = senders[k]
      BY <1>5, Constants, WorkersAndJobs
    <2>2. \A k \in Jobs : senders[k] # Idle /\ senders[k].entity = e => senders[k].message = m
      BY <1>0, <1>1, <1>2 DEF JobsAgree
    <2>3. CASE i = j
      BY <1>1, <1>2, <1>3, <1>5, <2>1, <2>2, <2>3, WorkersAndJobs DEF Enqueued
    <2>4. CASE i # j
      <3>1. /\ senders[i] # Idle /\ senders'[i] = senders[i]
            /\ senders[i].step # "claimed"
            /\ Enqueued(senders[i].entity, senders[i].message)
            /\ queue[senders[i].entity].payload # NoMessage
            /\ queue[senders[i].entity].due => queue[senders[i].entity].payload = senders[i].message
            /\ \A k \in Jobs : senders[k] # Idle /\ senders[k].entity = senders[i].entity
                                 => senders[k].message = senders[i].message
        BY <1>0, <2>1, <2>4 DEF JobsAgree, OnEntry
      <3>2. \A k \in Jobs : senders'[k] # Idle /\ senders'[k].entity = senders[i].entity
                               => senders'[k].message = senders[i].message
        BY <1>3, <1>5, <2>1, <2>2, <3>1, WorkersAndJobs
      <3> QED BY <1>2, <3>1, <3>2 DEF Enqueued
    <2> QED BY <2>3, <2>4
  <1>13. SentIsCounted'
    <2>1. \A q \in Senders : senders'[q] = senders[q] \/ senders'[q].step # "sent"
      BY <1>3, <1>5
    <2> QED BY <1>0, <1>2, <1>7, <2>1, SentKept
  <1>14. CopiesAreBudgeted'
    <2> SUFFICES ASSUME NEW x \in Messages
                 PROVE copies'[x] + FromRequest(x)' + FromRow(x)' + Cardinality(Sending(x))' + FromEntry(x)'
                         <= 1 + extra'[x]
      BY DEF CopiesAreBudgeted
    <2>1. /\ copies[x] \in Nat /\ extra[x] \in Nat /\ copies'[x] \in Nat /\ extra'[x] \in Nat
          /\ extra'[x] >= extra[x] /\ copies'[x] = copies[x]
          /\ FromRow(x) \in Int /\ FromEntry(x) \in 0 .. 1
      BY <1>0, <1>2, <1>6, Types, PartsAreSmall
    <2>2. FromRequest(x)' = FromRequest(x) /\ FromRow(x)' = FromRow(x)
      BY <1>2, <1>9, RequestKept, RowKept
    <2>3. One(Counts(j, senders[j], x)) = 0
      BY <1>2 DEF One, Counts
    <2>4. FromEntry(x)' + One(Counts(j, t, x)) - extra'[x] <= FromEntry(x) - extra[x]
          /\ FromEntry(x)' \in Int
      <3>1. CASE x = m
        <4>1. One(Counts(j, t, m)) = 1
          BY <1>3, <1>4 DEF One, Counts
        <4>2. FromEntry(m)' = 0
          <5>1. j \in OnEntry(e)'
            BY <1>3, <1>4, <1>5 DEF OnEntry
          <5>2. senders'[j].message = m /\ Entity[m] = e
            BY <1>1, <1>3, <1>5 DEF Enqueued
          <5> QED BY <5>1, <5>2 DEF FromEntry
        <4>3. OnEntry(e) = {} => FromEntry(m) = 1
          BY <1>1, <1>2 DEF FromEntry, Enqueued
        <4>4. CASE OnEntry(e) = {}
          BY <2>1, <3>1, <4>1, <4>2, <4>3, <4>4
        <4>5. CASE OnEntry(e) # {}
          BY <1>6, <2>1, <3>1, <4>1, <4>2, <4>5
        <4> QED BY <4>4, <4>5
      <3>2. CASE x # m
        <4>1. One(Counts(j, t, x)) = 0
          BY <1>3, <3>2 DEF One, Counts
        <4>2. CASE Entity[x] = e
          <5>1. FromEntry(x) = 0 /\ FromEntry(x)' = 0
            BY <1>1, <1>2, <3>2, <4>2 DEF FromEntry
          <5> QED BY <1>6, <2>1, <3>2, <4>1, <5>1
        <4>3. CASE Entity[x] # e
          <5>1. OnEntry(Entity[x])' = OnEntry(Entity[x])
            BY <1>2, <1>3, <1>5, <4>3, WorkersAndJobs DEF OnEntry
          <5>2. \A i \in OnEntry(Entity[x]) : senders'[i].message = senders[i].message
            BY <1>2, <1>5, WorkersAndJobs DEF OnEntry
          <5>3. FromEntry(x)' = FromEntry(x)
            BY <1>2, <5>1, <5>2, EntryKept
          <5> QED BY <1>6, <2>1, <3>2, <4>1, <5>3
        <4> QED BY <4>2, <4>3
      <3> QED BY <3>1, <3>2
    <2>5. One(Counts(j, t, x)) \in Int
      BY DEF One
    <2>6. FromRow(x)' + FromEntry(x)' + One(Counts(j, t, x)) + copies'[x] - extra'[x]
             <= FromRow(x) + FromEntry(x) + One(Counts(j, senders[j], x)) + copies[x] - extra[x]
      BY <2>1, <2>2, <2>3, <2>4, <2>5
    <2> QED BY <1>0, <1>2, <1>4, <2>1, <2>2, <2>6, SenderBudget
  <1>15. AttemptsAreLeft'
    BY <1>0, <1>2, <1>8, AttemptsKept
  <1>16. ClaimsAreExclusive'
    BY <1>0, <1>2, <1>9, ClaimsKept
  <1> QED BY <1>10, <1>11, <1>12, <1>13, <1>14, <1>15, <1>16 DEF IInv

\* A job writes what has become of the entry and returns.
LEMMA RecordQueueAttemptInv ==
  ASSUME IInv, NEW j \in Jobs, RecordQueueAttempt(j)
  PROVE IInv'
  <1>0. /\ TypeOK /\ RowsFollowRequests /\ RowsAreInserted
        /\ WorkIsSettled /\ EntriesAreFilled /\ JobsAgree /\ SentIsCounted
        /\ CopiesAreBudgeted /\ AttemptsAreLeft /\ ClaimsAreExclusive /\ HandOversAreKept
    BY InvOf
  <1>1. /\ senders[j].step \in {"sent", "failed"}
        /\ senders' = [senders EXCEPT ![j] = Idle]
        /\ UNCHANGED <<outbox, primary, inserting, mark, desk, retries, faults, copies, extra>>
    BY DEF RecordQueueAttempt, Return
  <1>2. j \in Senders /\ j \notin Workers /\ senders[j] # Idle /\ senders[j] \in Task
    BY <1>0, <1>1, StepMeansTask, WorkersAndJobs
  <1>3. PICK m \in Messages, e \in Entities, n \in Nat :
           m = senders[j].message /\ e = senders[j].entity /\ n = senders[j].attempts + 1
    BY <1>2, TaskIsRecord
  <1>4. PICK st \in {"SENT", "PERMANENT_FAILURE", "RETRYING"} :
           /\ st = "SENT" <=> senders[j].step = "sent"
           /\ queue' = [queue EXCEPT ![e].status = st, ![e].attempts = n, ![e].due = FALSE]
    BY <1>3 DEF RecordQueueAttempt
  <1>5. PICK r \in QueueRow : /\ queue' = [queue EXCEPT ![e] = r]
                              /\ r.status = st /\ r.due = FALSE /\ r.payload = queue[e].payload
    <2>0. queue \in [Entities -> QueueRow] /\ queue[e] \in QueueRow
      BY <1>0, Types
    <2> DEFINE r == [queue[e] EXCEPT !.status = st, !.attempts = n, !.due = FALSE]
    <2>1. r \in QueueRow /\ r.status = st /\ r.due = FALSE /\ r.payload = queue[e].payload
      BY <2>0 DEF QueueRow
    <2>2. queue' = [queue EXCEPT ![e] = r]
      BY <1>4, <2>0
    <2> QED BY <2>1, <2>2
  <1>6. /\ queue' \in [Entities -> QueueRow] /\ queue'[e] = r
        /\ \A f \in Entities : f # e => queue'[f] = queue[f]
        /\ senders' \in [Senders -> Task \cup {Idle}] /\ senders'[j] = Idle
        /\ \A q \in Senders : q # j => senders'[q] = senders[q]
    BY <1>0, <1>1, <1>2, <1>5, Types
  <1>7. /\ m \in Dms /\ Entity[m] = e /\ queue[e].payload # NoMessage
        /\ \A i \in OnEntry(e) : senders[i].message = m
    BY <1>0, <1>2, <1>3 DEF JobsAgree, Enqueued
  <1>8. \A f \in Entities : /\ queue'[f].payload = queue[f].payload
                            /\ queue'[f].due => queue[f].due
                            /\ f # e => queue'[f].status = queue[f].status
                            /\ queue'[f].status # "NONE" => queue[f].payload # NoMessage
    BY <1>0, <1>5, <1>6, <1>7 DEF EntriesAreFilled
  <1>9. DoneStays /\ SettledStay /\ CopiesGrow /\ FaultsStay
    BY <1>1, RequestsKept, SameCopies DEF FaultsStay
  <1>10. \A q \in Senders : senders'[q] = senders[q] \/ senders'[q] = Idle
    BY <1>6
  <1>11. (\A w \in Workers : senders'[w] = senders[w]) /\ \A x \in Messages : Holders(x)' = Holders(x)
    BY <1>0, <1>1, <1>2, <1>6, JobKeepsHolders, WorkersAndJobs
  <1>12. TypeOK'
    BY <1>0, <1>1, <1>6 DEF TypeOK
  <1>13. RowsFollowRequests' /\ RowsAreInserted' /\ EntriesAreFilled' /\ WorkIsSettled'
    BY <1>0, <1>1, <1>8, <1>9, <1>11, RowsKept, InsertedKept, EntriesKept, WorkKept
  <1>14. JobsAgree'
    BY <1>0, <1>8, <1>9, <1>10, JobsKept, WorkersAndJobs
  <1>15. SentIsCounted'
    BY <1>0, <1>1, <1>9, <1>10, SentKept
  <1>16. CopiesAreBudgeted'
    <2> SUFFICES ASSUME NEW x \in Messages
                 PROVE copies'[x] + FromRequest(x)' + FromRow(x)' + Cardinality(Sending(x))' + FromEntry(x)'
                         <= 1 + extra'[x]
      BY DEF CopiesAreBudgeted
    <2>1. /\ copies[x] \in Nat /\ extra[x] \in Nat /\ copies'[x] = copies[x] /\ extra'[x] = extra[x]
          /\ FromRow(x) \in Int /\ FromEntry(x) \in 0 .. 1
      BY <1>0, <1>1, Types, PartsAreSmall
    <2>2. FromRequest(x)' = FromRequest(x) /\ FromRow(x)' = FromRow(x)
      BY <1>1, <1>11, RequestKept, RowKept
    <2>3. /\ x # m => FromEntry(x)' <= FromEntry(x)
          /\ x = m => FromEntry(x) = 0
      BY <1>0, <1>1, <1>2, <1>3, <1>8, JobReturns
    <2>4. /\ One(Counts(j, Idle, x)) = 0 /\ One(Counts(j, senders[j], x)) \in 0 .. 1
          /\ x = m /\ senders[j].step = "failed" => One(Counts(j, senders[j], x)) = 1
      BY <1>0, <1>2, <1>3, CountsAre
    <2>5. FromEntry(x)' \in 0 .. 1
      BY DEF FromEntry
    <2>6. x = m /\ senders[j].step = "sent" => FromEntry(x)' = 0
      <3> SUFFICES ASSUME x = m, senders[j].step = "sent"
                   PROVE FromEntry(m)' = 0
        OBVIOUS
      \* Whoever else has listed the entry has listed this message.
      <3>1. \A i \in OnEntry(e)' : senders'[i].message = m
        BY <1>6, <1>7, WorkersAndJobs DEF OnEntry
      <3>2. queue'[e].status = "SENT"
        BY <1>4, <1>5, <1>6
      <3> QED BY <1>7, <3>1, <3>2 DEF FromEntry, Queued
    <2>7. FromRow(x)' + FromEntry(x)' + One(Counts(j, Idle, x)) + copies'[x] - extra'[x]
             <= FromRow(x) + FromEntry(x) + One(Counts(j, senders[j], x)) + copies[x] - extra[x]
      <3>1. CASE x # m
        BY <2>1, <2>2, <2>3, <2>4, <2>5, <3>1
      <3>2. CASE x = m /\ senders[j].step = "sent"
        BY <2>1, <2>2, <2>3, <2>4, <2>5, <2>6, <3>2
      <3>3. CASE x = m /\ senders[j].step = "failed"
        BY <2>1, <2>2, <2>3, <2>4, <2>5, <3>3
      <3> QED BY <1>1, <3>1, <3>2, <3>3
    <2> QED BY <1>0, <1>1, <1>2, <2>1, <2>2, <2>7, SenderBudget
  <1>17. AttemptsAreLeft'
    BY <1>0, <1>1, <1>11, AttemptsKept
  <1>18. ClaimsAreExclusive'
    BY <1>0, <1>1, <1>11, ClaimsKept
  <1>19. HandOversAreKept'
    <2>1. \A x \in Messages : Entity[x] \in Entities
      BY Constants
    <2>2. ASSUME NEW f \in Entities, queue'[f].status = "SENT"
          PROVE \E d \in Dms : Entity[d] = f /\ copies'[d] > 0
      <3>1. CASE queue'[f] = queue[f]
        BY <1>0, <1>1, <2>2, <3>1 DEF HandOversAreKept
      <3>2. CASE f = e /\ senders[j].step = "sent"
        BY <1>0, <1>1, <1>2, <1>3, <3>2 DEF SentIsCounted, JobsAgree, Enqueued
      <3> QED BY <1>4, <1>5, <1>6, <2>2, <3>1, <3>2
    <2>3. \A x \in Messages : mark'[x] = "HANDED_OFF" \/ outbox'[x].status = "HANDED_OFF" =>
             queue'[Entity[x]].status # "NONE"
      BY <1>0, <1>1, <1>4, <1>5, <1>6, <2>1 DEF HandOversAreKept
    <2> QED BY <2>2, <2>3 DEF HandOversAreKept
  <1> QED BY <1>12, <1>13, <1>14, <1>15, <1>16, <1>17, <1>18, <1>19 DEF IInv

\* The delay of an entry is over; nobody has listed it.
LEMMA BecomeDueInQueueInv ==
  ASSUME IInv, NEW e \in Entities, BecomeDueInQueue(e)
  PROVE IInv'
  <1>0. /\ TypeOK /\ RowsFollowRequests /\ RowsAreInserted
        /\ WorkIsSettled /\ EntriesAreFilled /\ JobsAgree /\ SentIsCounted
        /\ CopiesAreBudgeted /\ AttemptsAreLeft /\ ClaimsAreExclusive /\ HandOversAreKept
    BY InvOf
  <1>1. /\ OnEntry(e) = {} /\ queue' = [queue EXCEPT ![e].due = TRUE]
        /\ UNCHANGED <<outbox, primary, inserting, mark, senders, desk, retries, faults, copies, extra>>
    BY DEF BecomeDueInQueue
  <1>2. PICK r \in QueueRow : /\ queue' = [queue EXCEPT ![e] = r]
                              /\ r.status = queue[e].status /\ r.payload = queue[e].payload
    BY <1>0, <1>1, PutEntryDue
  <1>3. /\ queue' \in [Entities -> QueueRow]
        /\ \A f \in Entities : /\ f # e => queue'[f] = queue[f]
                               /\ queue'[f].status = queue[f].status
                               /\ queue'[f].payload = queue[f].payload
    BY <1>0, <1>2, Types
  <1>4. DoneStays /\ SettledStay /\ CopiesGrow /\ FaultsStay
    BY <1>1, RequestsKept, SameCopies DEF FaultsStay
  <1>5. TypeOK'
    BY <1>0, <1>1, <1>3 DEF TypeOK
  <1>6. RowsFollowRequests' /\ RowsAreInserted' /\ WorkIsSettled' /\ SentIsCounted'
    BY <1>0, <1>1, <1>4, RowsKept, InsertedKept, WorkKept, SentKept
  <1>7. EntriesAreFilled'
    BY <1>0, <1>3, <1>4, EntriesKept DEF EntriesAreFilled
  <1>8. JobsAgree'
    <2> SUFFICES ASSUME NEW j \in Jobs, senders[j] # Idle
                 PROVE /\ senders[j].step # "claimed"
                       /\ Enqueued(senders[j].entity, senders[j].message)
                       /\ queue'[senders[j].entity].payload # NoMessage
                       /\ queue'[senders[j].entity].due =>
                             queue'[senders[j].entity].payload = senders[j].message
                       /\ \A i \in OnEntry(senders[j].entity) : senders[i].message = senders[j].message
      BY <1>1 DEF JobsAgree, Enqueued, OnEntry
    <2>1. senders[j].entity \in Entities /\ senders[j].entity # e
      BY <1>0, <1>1, SenderHasTask, TaskIsRecord, WorkersAndJobs DEF OnEntry
    <2> QED BY <1>0, <1>3, <2>1 DEF JobsAgree
  <1>9. CopiesAreBudgeted'
    <2> SUFFICES ASSUME NEW x \in Messages
                 PROVE copies'[x] + FromRequest(x)' + FromRow(x)' + Cardinality(Sending(x))' + FromEntry(x)'
                         <= 1 + extra'[x]
      BY DEF CopiesAreBudgeted
    <2>1. Sending(x)' = Sending(x) /\ Holders(x)' = Holders(x) /\ \A f : OnEntry(f)' = OnEntry(f)
      BY <1>1, SendersKept
    <2>2. Entity[x] \in Entities
      BY Constants
    <2>3. FromRequest(x)' = FromRequest(x) /\ FromRow(x)' = FromRow(x) /\ FromEntry(x)' = FromEntry(x)
      BY <1>1, <1>3, <2>1, <2>2, RequestKept, RowKept, EntryKept
    <2> QED BY <1>0, <1>1, <2>1, <2>3 DEF CopiesAreBudgeted
  <1>10. AttemptsAreLeft' /\ ClaimsAreExclusive'
    BY <1>0, <1>1, SendersKept, AttemptsKept, ClaimsKept
  <1>11. HandOversAreKept'
    <2>1. \A x \in Messages : Entity[x] \in Entities
      BY Constants
    <2> QED BY <1>0, <1>1, <1>3, <2>1 DEF HandOversAreKept
  <1> QED BY <1>5, <1>6, <1>7, <1>8, <1>9, <1>10, <1>11 DEF IInv

-----------------------------------------------------------------------------
(* The theorems. *)

LEMMA StutterInv ==
  ASSUME IInv, UNCHANGED vars
  PROVE IInv'
  <1>1. TypeOK'
    BY DEF IInv, vars, TypeOK
  <1>2. RowsFollowRequests' /\ RowsAreInserted'
    BY DEF IInv, vars, RowsFollowRequests, RowsAreInserted, Settled
  <1>3. WorkIsSettled' /\ EntriesAreFilled'
    BY DEF IInv, vars, WorkIsSettled, Settled, EntriesAreFilled, Enqueued
  <1>4. JobsAgree' /\ SentIsCounted'
    BY DEF IInv, vars, JobsAgree, OnEntry, Enqueued, SentIsCounted
  <1>5. CopiesAreBudgeted'
    <2>1. ASSUME NEW m \in Messages
          PROVE  /\ FromRequest(m)' = FromRequest(m) /\ FromRow(m)' = FromRow(m)
                 /\ Sending(m)' = Sending(m) /\ FromEntry(m)' = FromEntry(m)
      BY DEF vars, FromRequest, FromRow, Holders, AtWork, Sending, FromEntry, OnEntry
    <2> QED BY <2>1 DEF IInv, vars, CopiesAreBudgeted
  <1>6. AttemptsAreLeft'
    BY DEF IInv, vars, AttemptsAreLeft, AtDesk, RetriesDone
  <1>7. ClaimsAreExclusive'
    BY DEF IInv, vars, ClaimsAreExclusive, Holders, AtWork
  <1>8. HandOversAreKept'
    BY DEF IInv, vars, HandOversAreKept
  <1> QED BY <1>1, <1>2, <1>3, <1>4, <1>5, <1>6, <1>7, <1>8 DEF IInv

LEMMA NextIInv == IInv /\ [Next]_vars => IInv'
  <1> SUFFICES ASSUME IInv, [Next]_vars PROVE IInv'
    OBVIOUS
  <1>1. ASSUME NEW m \in Messages, PrimaryPath(m) PROVE IInv'
    BY <1>1, DeliverInv, EnqueueDiscordOutboxEventInv, DispatchInv, ReportSentInv,
       EnqueueCustomerDmRetryInv, MarkDiscordOutboxInv DEF PrimaryPath
  <1>2. ASSUME NEW m \in Messages,
               \/ LoseInsertion(m) \/ LoseMark(m) \/ CrashPrimary(m)
               \/ RecoverStaleProcessing(m) \/ BecomeDue(m)
        PROVE IInv'
    BY <1>2, LoseInsertionInv, LoseMarkInv, CrashPrimaryInv, RecoverStaleProcessingInv, BecomeDueInv
  <1>3. ASSUME NEW m \in Messages,
               \/ \E w \in Workers : FindDue(w, m)
               \/ \E o \in Operators : BeginRetry(o, m)
               \/ \E r \in Messages : Replay(m, r)
        PROVE IInv'
    BY <1>3, FindDueInv, BeginRetryInv, ReplayInv
  <1>4. ASSUME NEW e \in Entities, BecomeDueInQueue(e) \/ \E j \in Jobs : ListQueue(j, e)
        PROVE IInv'
    BY <1>4, BecomeDueInQueueInv, ListQueueInv
  <1>5. ASSUME NEW w \in Workers, Worker(w) PROVE IInv'
    BY <1>5, ClaimInv, MarkDeadInvalidInv, SendInv, FinalizeOutboxAttemptInv, WorkersAndJobs DEF Worker
  <1>6. ASSUME NEW j \in Jobs, Job(j) PROVE IInv'
    BY <1>6, SendInv, RecordQueueAttemptInv, WorkersAndJobs DEF Job
  <1>7. ASSUME NEW s \in Senders, Crash(s) PROVE IInv'
    BY <1>7, CrashInv
  <1>8. ASSUME NEW o \in Operators, FinishRetry(o) PROVE IInv'
    BY <1>8, FinishRetryInv
  <1>9. CASE UNCHANGED vars
    BY <1>9, StutterInv
  <1> QED BY <1>1, <1>2, <1>3, <1>4, <1>5, <1>6, <1>7, <1>8, <1>9 DEF Next

\* Requests, rows, claims and entries of the retry queue agree in every state:
\* in particular a message has never more rights to be sent than it is owed.
THEOREM OutboxInvariant == Spec => []IInv
  BY InitIInv, NextIInv, PTL DEF Spec

\* A message reaches Discord once, and once more for each event that `extra`
\* counts, whatever requests, workers, jobs and operators do at the same time.
THEOREM CopiesAreExplained == Spec => []CopiesAreAccountedFor
  <1>1. IInv => CopiesAreAccountedFor
    <2> SUFFICES ASSUME IInv, NEW m \in Messages PROVE copies[m] <= 1 + extra[m]
      BY DEF CopiesAreAccountedFor
    <2>1. TypeOK /\ CopiesAreBudgeted
      BY InvOf
    <2>2. copies[m] + FromRequest(m) + FromRow(m) + Cardinality(Sending(m)) + FromEntry(m) <= 1 + extra[m]
      BY <2>1 DEF CopiesAreBudgeted
    <2>3. /\ FromRequest(m) \in 0 .. 1 /\ FromRow(m) \in 0 .. 1 /\ FromEntry(m) \in 0 .. 1
          /\ Cardinality(Sending(m)) \in Nat /\ copies[m] \in Nat /\ extra[m] \in Nat
      BY <2>1, PartsAreSmall, SendingIsFinite, Types
    <2> QED BY <2>2, <2>3
  <1> QED BY <1>1, OutboxInvariant, PTL

\* What is recorded as sent was sent, and a message whose request is over has a
\* row, unless something of it was lost.
THEOREM NoMessageIsLost == Spec => []NothingIsLost
  <1>1. IInv => NothingIsLost
    BY DEF IInv, NothingIsLost, SentIsCounted, RowsAreInserted
  <1> QED BY <1>1, OutboxInvariant, PTL

\* A row is tried maxAttempts times, and once more for each retry by an operator.
THEOREM AttemptsAreFew == Spec => []AttemptsAreBounded
  <1>1. IInv => AttemptsAreBounded
    <2> SUFFICES ASSUME IInv, NEW m \in Messages PROVE outbox[m].attempts <= maxAttempts + retries
      BY DEF AttemptsAreBounded
    <2>1. TypeOK /\ AttemptsAreLeft
      BY InvOf
    <2>2. RetriesDone \in Int /\ Cardinality(AtDesk) \in Nat /\ retries \in Nat
      BY <2>1, SomeAttemptsAreLeft, Types
    <2>3. RetriesDone <= retries
      BY <2>2 DEF RetriesDone
    <2>4. outbox[m].attempts <= maxAttempts + RetriesDone /\ outbox[m].attempts \in Nat
      BY <2>1, Types, RowIsRecord DEF AttemptsAreLeft
    <2> QED BY <2>2, <2>3, <2>4, Constants
  <1> QED BY <1>1, OutboxInvariant, PTL

\* The entry that took over a message is not dropped, nor closed as sent before a
\* message about its object is sent, however many messages share it.
THEOREM HandOversAreServed == Spec => []HandedOverIsServed
  <1>1. IInv => HandedOverIsServed
    <2> SUFFICES ASSUME IInv, NEW m \in Messages, outbox[m].status = "HANDED_OFF"
                 PROVE \/ queue[Entity[m]].status \in Queued \cup {"PERMANENT_FAILURE"}
                       \/ /\ queue[Entity[m]].status = "SENT"
                          /\ \E d \in AboutSameObject(m) : copies[d] > 0
      BY DEF HandedOverIsServed
    <2>1. TypeOK /\ HandOversAreKept
      BY InvOf
    <2>2. Entity[m] \in Entities
      BY Constants
    <2>3. queue[Entity[m]].status \in Queued \cup {"PERMANENT_FAILURE", "SENT"}
      BY <2>1, <2>2, Types DEF HandOversAreKept, QueueRow, Queued
    <2> QED BY <2>1, <2>2, <2>3 DEF HandOversAreKept, AboutSameObject
  <1> QED BY <1>1, OutboxInvariant, PTL
-----------------------------------------------------------------------------
(* The action property. *)

\* Without a retry a worker has no claim on a row that was sent, and nobody else
\* writes to it: a retry that could is under way at a desk.
LEMMA SentStays ==
  ASSUME IInv, Next, NEW m \in Messages, outbox[m].status = "SENT", retries = 0
  PROVE outbox'[m].status = "SENT"
  <1>0. /\ TypeOK /\ RowsFollowRequests /\ AttemptsAreLeft /\ ClaimsAreExclusive
        /\ outbox \in [Messages -> OutboxRow]
    BY InvOf, Types
  <1>1. ASSUME NEW x \in Messages, PrimaryPath(x) PROVE outbox'[m].status = "SENT"
    <2>1. CASE EnqueueDiscordOutboxEvent(x)
      <3>1. x # m
        BY <1>0, <2>1 DEF EnqueueDiscordOutboxEvent, RowsFollowRequests
      <3> QED BY <1>0, <2>1, <3>1 DEF EnqueueDiscordOutboxEvent
    <2>2. CASE MarkDiscordOutbox(x)
      <3>1. outbox[x].status \in Markable => x # m
        BY DEF Markable
      <3> QED BY <1>0, <2>2, <3>1 DEF MarkDiscordOutbox
    <2>3. CASE Deliver(x) \/ Dispatch(x) \/ ReportSent(x) \/ EnqueueCustomerDmRetry(x)
      BY <2>3 DEF Deliver, Dispatch, ReportSent, EnqueueCustomerDmRetry
    <2> QED BY <1>1, <2>1, <2>2, <2>3 DEF PrimaryPath
  <1>2. ASSUME NEW x \in Messages, RecoverStaleProcessing(x) \/ BecomeDue(x)
        PROVE outbox'[m].status = "SENT"
    <2>1. x # m
      BY <1>2 DEF RecoverStaleProcessing, BecomeDue
    <2> QED BY <1>0, <1>2, <2>1 DEF RecoverStaleProcessing, BecomeDue
  <1>3. ASSUME NEW x \in Messages, NEW r \in Messages, Replay(x, r) PROVE outbox'[m].status = "SENT"
    <2>1. r # m
      BY <1>0, <1>3 DEF Replay, RowsFollowRequests
    <2> QED BY <1>0, <1>3, <2>1 DEF Replay
  <1>4. ASSUME NEW w \in Workers, senders[w].step \in {"claimed", "sent", "failed"}
        PROVE senders[w].message # m
    <2>1. w \in Senders /\ senders[w] # Idle
      BY <1>0, <1>4, WorkersAndJobs, IdleHasNoStep
    <2>2. senders[w].message = m => w \in Holders(m)
      BY <1>4, <2>1 DEF Holders, AtWork
    <2> QED BY <1>0, <2>2 DEF ClaimsAreExclusive
  <1>5. ASSUME NEW w \in Workers, Worker(w) PROVE outbox'[m].status = "SENT"
    <2>1. CASE Claim(w)
      <3>1. senders[w].message # m \/ outbox' = outbox
        BY <2>1 DEF Claim
      <3>2. outbox' = [outbox EXCEPT ![senders[w].message].status = "PROCESSING"] \/ outbox' = outbox
        BY <2>1 DEF Claim
      <3> QED BY <1>0, <3>1, <3>2
    <2>2. CASE MarkDeadInvalid(w)
      BY <1>0, <1>4, <2>2 DEF MarkDeadInvalid
    <2>3. CASE FinalizeOutboxAttempt(w)
      BY <1>0, <1>4, <2>3 DEF FinalizeOutboxAttempt
    <2>4. CASE Send(w)
      BY <2>4 DEF Send
    <2> QED BY <1>5, <2>1, <2>2, <2>3, <2>4 DEF Worker
  <1>6. ASSUME NEW o \in Operators, FinishRetry(o) PROVE FALSE
    <2>1. o \in AtDesk
      BY <1>6 DEF FinishRetry, AtDesk
    <2>2. IsFiniteSet(AtDesk) /\ Cardinality(AtDesk) \in Nat /\ Cardinality(AtDesk) # 0
      BY <1>0, <2>1, FS_EmptySet, FS_CardinalityType DEF AttemptsAreLeft
    <2> QED BY <1>0, <2>2 DEF AttemptsAreLeft, RetriesDone
  <1>7. \/ outbox' = outbox
        \/ \E x \in Messages : \/ PrimaryPath(x) \/ RecoverStaleProcessing(x) \/ BecomeDue(x)
                               \/ \E r \in Messages : Replay(x, r)
        \/ \E w \in Workers : Worker(w)
        \/ \E o \in Operators : FinishRetry(o)
    BY DEF Next, LoseInsertion, LoseMark, CrashPrimary, FindDue, BeginRetry, BecomeDueInQueue, ListQueue,
           Job, Send, RecordQueueAttempt, Crash
  <1> QED BY <1>1, <1>2, <1>3, <1>5, <1>6, <1>7

\* A row recorded as sent stays sent as long as no operator puts a row back.
THEOREM SentStaysSent == Spec => SentIsFinal
  <1>1. ASSUME IInv, [Next]_vars
        PROVE [\A m \in Messages : outbox[m].status = "SENT" /\ retries = 0
                                     => outbox'[m].status = "SENT"]_vars
    BY <1>1, SentStays
  <1> QED BY <1>1, OutboxInvariant, PTL DEF Spec, SentIsFinal
=============================================================================

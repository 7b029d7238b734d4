----------------------------- MODULE DiscordOutbox -----------------------------
(***************************************************************************)
(* Delivery of Discord messages.  A request sends its message itself (the  *)
(* primary path) and writes an outbox row in the background.  What it      *)
(* could not send is handed over: to the retry queue                       *)
(* (NotificationDeliveryQueue) or to the worker of the outbox.  Workers    *)
(* claim outbox rows, the retry queue is worked off without claims, stale  *)
(* claims are recovered, operators put rows back and replay them.          *)
(* Every send ends by a timeout of its own, 8 seconds directly and 5       *)
(* through the bot; grace periods, delays and the age of a stale claim are *)
(* minutes: a row becomes due, and a claim stale, only when nobody is at   *)
(* work on its message any more.                                           *)
(***************************************************************************)
EXTENDS Integers, FiniteSets

CONSTANTS Dms, Audits,  \* messages to customers and to the staff: their requests send them
          Replays,      \* rows that operators make to send a message again
          Entities, Entity,  \* retry queue rows, and the one a message would use:
                        \* its dedupeKey is made of user, type and reference code
          NoMessage,
          Workers,      \* calls of processDiscordOutboxForBot
          Jobs,         \* calls of processNotificationRetryQueue
          Operators,    \* calls of retryDiscordOutboxDelivery
          maxAttempts,  \* attempts after which a row is given up
          MaxFaults,    \* lost requests, answers and background writes
          MaxRetries    \* rows put back by operators

Messages == Dms \cup Audits \cup Replays   \* each has an outbox row of its own

ASSUME OutboxAssumption ==
          /\ Entity \in [Messages -> Entities]
          /\ NoMessage \notin Messages
          /\ Workers \cap Jobs = {}
          /\ IsFiniteSet(Workers) /\ IsFiniteSet(Jobs)
          /\ maxAttempts \in Nat \ {0} /\ MaxFaults \in Nat /\ MaxRetries \in Nat

VARIABLES outbox,    \* DiscordOutbox rows by message
          queue,     \* NotificationDeliveryQueue rows by entity
          primary,   \* the request that sends the message first
          inserting, \* messages whose outbox row is being inserted in the background
          mark,      \* the status that the request writes in the background at its end
          senders,   \* workers of the outbox and jobs of the queue
          desk,      \* operators between their read and their write
          retries,   \* how often a row has been put back
          faults,    \* how often a request, an answer or a write has been lost
          copies,    \* history: how often a message has reached Discord
          extra      \* history: events after which a message may be sent once more

vars == <<outbox, queue, primary, inserting, mark, senders, desk, retries, faults, copies, extra>>

Idle == [step |-> "idle"]
Senders == Workers \cup Jobs

OutboxRow == [status : {"NONE", "PENDING", "PROCESSING", "SENT", "HANDED_OFF", "DEAD"},
              attempts : Nat, due : BOOLEAN]
QueueRow == [status : {"NONE", "PENDING", "RETRYING", "SENT", "PERMANENT_FAILURE"},
             payload : Messages \cup {NoMessage}, attempts : Nat, due : BOOLEAN]
Task == [step : {"listed", "claimed", "sent", "failed"}, message : Messages, attempts : Nat,
         entity : Entities]

Absent == [status |-> "NONE", attempts |-> 0, due |-> FALSE]
NotQueued == [status |-> "NONE", payload |-> NoMessage, attempts |-> 0, due |-> FALSE]

\* What the mark* functions may overwrite, what the queue still has to send.
Markable == {"PENDING", "PROCESSING", "FAILED"}
Queued == {"PENDING", "RETRYING"}

TypeOK ==
    /\ outbox \in [Messages -> OutboxRow]
    /\ queue \in [Entities -> QueueRow]
    /\ primary \in [Messages -> {"idle", "send", "sent", "queue", "done"}]
    /\ inserting \subseteq Messages
    /\ mark \in [Messages -> {"none", "SENT", "HANDED_OFF", "DEAD"}]
    /\ senders \in [Senders -> Task \cup {Idle}]
    /\ desk \in [Operators -> Messages \cup {NoMessage}]
    /\ retries \in Nat
    /\ faults \in Nat
    /\ copies \in [Messages -> Nat]
    /\ extra \in [Messages -> Nat]

Init ==
    /\ outbox = [m \in Messages |-> Absent]
    /\ queue = [e \in Entities |-> NotQueued]
    /\ primary = [m \in Messages |-> "idle"]
    /\ inserting = {}
    /\ mark = [m \in Messages |-> "none"]
    /\ senders = [s \in Senders |-> Idle]
    /\ desk = [o \in Operators |-> NoMessage]
    /\ retries = 0
    /\ faults = 0
    /\ copies = [m \in Messages |-> 0]
    /\ extra = [m \in Messages |-> 0]

-----------------------------------------------------------------------------
Once(f, m) == [f EXCEPT ![m] = @ + 1]
Fault == faults < MaxFaults /\ faults' = faults + 1

(* An attempt to send m, directly and, unless that reports success, through the
   bot.  A message whose answer is lost (a timeout) counts as not sent, so the
   next way is tried, or the next attempt made: m may be sent once more. *)
Attempt(m, answered) == \E lost \in 0 .. MaxFaults - faults :
    /\ faults' = faults + lost
    /\ copies' = [copies EXCEPT ![m] = @ + lost + answered]
    /\ extra' = [extra EXCEPT ![m] = @ + lost]

Arrives(m) == Attempt(m, 1)
NotSent(m) == Attempt(m, 0)

-----------------------------------------------------------------------------
(* The primary path: deliverCustomerNotificationDm, sendStaffAuditMessageAsync. *)

Deliver(m) ==
    /\ m \in Dms \cup Audits
    /\ primary[m] = "idle"
    /\ primary' = [primary EXCEPT ![m] = "send"]
    /\ inserting' = inserting \cup {m}
    /\ UNCHANGED <<outbox, queue, mark, senders, desk, retries, faults, copies, extra>>

(* The background insertion; the row is due after two minutes.  A row that
   appears after the mark it was to receive stays pending. *)
EnqueueDiscordOutboxEvent(m) ==
    /\ m \in inserting
    /\ inserting' = inserting \ {m}
    /\ outbox' = [outbox EXCEPT ![m] = [status |-> "PENDING", attempts |-> 0, due |-> FALSE]]
    /\ UNCHANGED <<queue, primary, mark, senders, desk, retries, faults, copies, extra>>

\* The message has been refused: the retry queue takes it, it is given up, or it
\* is left to the worker of the outbox.
AfterRefusal(m) ==
    \/ /\ m \in Dms      \* isRetryableDeliveryFailure
       /\ primary' = [primary EXCEPT ![m] = "queue"]
       /\ UNCHANGED mark
    \/ /\ primary' = [primary EXCEPT ![m] = "done"]
       /\ mark' = [mark EXCEPT ![m] = "DEAD"]
    \/ /\ m \in Audits    \* the channel may recover
       /\ primary' = [primary EXCEPT ![m] = "done"]
       /\ UNCHANGED mark

Dispatch(m) ==
    /\ primary[m] = "send"
    /\ \/ /\ Arrives(m)
          /\ primary' = [primary EXCEPT ![m] = "sent"]
          /\ UNCHANGED mark
       \/ /\ NotSent(m)
          /\ AfterRefusal(m)
    /\ UNCHANGED <<outbox, queue, inserting, senders, desk, retries>>

\* Mutant: the mark that ends the request does not ask for the result.
ReportAnySent(m) ==
    /\ primary[m] \in {"sent", "queue"}
    /\ primary' = [primary EXCEPT ![m] = "done"]
    /\ mark' = [mark EXCEPT ![m] = "SENT"]
    /\ UNCHANGED <<outbox, queue, inserting, senders, desk, retries, faults, copies, extra>>

\* After markDiscordDelivered the outbox row is marked in the background.
ReportSent(m) ==
    /\ primary[m] = "sent"
    /\ primary' = [primary EXCEPT ![m] = "done"]
    /\ mark' = [mark EXCEPT ![m] = "SENT"]
    /\ UNCHANGED <<outbox, queue, inserting, senders, desk, retries, faults, copies, extra>>

(* enqueueCustomerDmRetry, then the outbox row is handed over: an entry that is
   waiting or sent is left as it is, whichever message it carries. *)
EnqueueCustomerDmRetry(m) ==
    LET e == Entity[m] IN
    /\ primary[m] = "queue"
    /\ queue' = IF queue[e].status \in Queued \cup {"SENT"}
                THEN queue
                ELSE [queue EXCEPT ![e] = [status |-> "PENDING", payload |-> m,
                                           attempts |-> @.attempts, due |-> FALSE]]
    /\ primary' = [primary EXCEPT ![m] = "done"]
    /\ mark' = [mark EXCEPT ![m] = "HANDED_OFF"]
    /\ UNCHANGED <<outbox, inserting, senders, desk, retries, faults, copies, extra>>

(* markDiscordOutboxSent, ...HandedOff, ...Dead.  The insertion may come later:
   the row then stays pending although the message is sent or queued. *)
MarkDiscordOutbox(m) ==
    /\ mark[m] # "none"
    /\ mark' = [mark EXCEPT ![m] = "none"]
    /\ outbox' = IF outbox[m].status \in Markable
                 THEN [outbox EXCEPT ![m].status = mark[m], ![m].due = FALSE]
                 ELSE outbox
    /\ extra' = IF m \in inserting /\ mark[m] # "DEAD" THEN Once(extra, m) ELSE extra
    /\ UNCHANGED <<queue, primary, inserting, senders, desk, retries, faults, copies>>

\* A background write fails; errors are logged and swallowed.
LoseInsertion(m) ==
    /\ m \in inserting
    /\ Fault
    /\ inserting' = inserting \ {m}
    /\ UNCHANGED <<outbox, queue, primary, mark, senders, desk, retries, copies, extra>>

LoseMark(m) ==
    /\ mark[m] # "none"
    /\ Fault
    /\ mark' = [mark EXCEPT ![m] = "none"]
    /\ extra' = IF mark[m] # "DEAD" THEN Once(extra, m) ELSE extra
    /\ UNCHANGED <<outbox, queue, primary, inserting, senders, desk, retries, copies>>

\* The request is lost, in the worst case between the message and its record.
CrashPrimary(m) ==
    /\ primary[m] \in {"send", "sent", "queue"}
    /\ Fault
    /\ primary' = [primary EXCEPT ![m] = "done"]
    /\ extra' = IF primary[m] = "sent" THEN Once(extra, m) ELSE extra
    /\ UNCHANGED <<outbox, queue, inserting, mark, senders, desk, retries, copies>>

-----------------------------------------------------------------------------
Goto(s, step) == senders' = [senders EXCEPT ![s].step = step]
Return(s) == senders' = [senders EXCEPT ![s] = Idle]
AtWork(m) == {w \in Workers : senders[w] # Idle /\ senders[w].message = m}
Holders(m) == {w \in AtWork(m) : senders[w].step # "listed"}

(* The worker of the outbox: processDiscordOutboxForBot. *)

FindDue(w, m) ==
    /\ senders[w] = Idle
    /\ outbox[m].status = "PENDING" /\ outbox[m].due
    /\ senders' = [senders EXCEPT ![w] = [step |-> "listed", message |-> m, attempts |-> 0,
                                          entity |-> Entity[m]]]
    /\ UNCHANGED <<outbox, queue, primary, inserting, mark, desk, retries, faults, copies, extra>>

\* Mutant: the claim does not look at the status of the row.
ClaimAnyway(w) ==
    LET m == senders[w].message IN
    /\ senders[w].step = "listed"
    /\ outbox' = [outbox EXCEPT ![m].status = "PROCESSING"]
    /\ senders' = [senders EXCEPT ![w].step = "claimed", ![w].attempts = outbox[m].attempts]
    /\ UNCHANGED <<queue, primary, inserting, mark, desk, retries, faults, copies, extra>>

\* claimOutboxRowForBot: whoever finds the row still pending has it.
Claim(w) ==
    LET m == senders[w].message IN
    /\ w \in Workers
    /\ senders[w].step = "listed"
    /\ IF outbox[m].status = "PENDING"
       THEN /\ outbox' = [outbox EXCEPT ![m].status = "PROCESSING"]
            /\ senders' = [senders EXCEPT ![w].step = "claimed", ![w].attempts = outbox[m].attempts]
       ELSE Return(w) /\ UNCHANGED outbox
    /\ UNCHANGED <<queue, primary, inserting, mark, desk, retries, faults, copies, extra>>

\* markDeadInvalid: a payload that the bot cannot read or may not deliver.
MarkDeadInvalid(w) ==
    LET k == senders[w] IN
    /\ k.step = "claimed"
    /\ outbox' = [outbox EXCEPT ![k.message] = [status |-> "DEAD", attempts |-> k.attempts + 1,
                                                due |-> FALSE]]
    /\ Return(w)
    /\ UNCHANGED <<queue, primary, inserting, mark, desk, retries, faults, copies, extra>>

\* A worker sends what it has claimed, a job of the queue what it has listed.
Send(s) ==
    /\ senders[s].step = IF s \in Workers THEN "claimed" ELSE "listed"
    /\ \/ Arrives(senders[s].message) /\ Goto(s, "sent")
       \/ NotSent(senders[s].message) /\ Goto(s, "failed")
    /\ UNCHANGED <<outbox, queue, primary, inserting, mark, desk, retries>>

\* Mutant: a refused attempt is not counted.
FinalizeUncounted(w) ==
    LET k == senders[w] IN
    /\ w \in Workers
    /\ k.step \in {"sent", "failed"}
    /\ outbox' = [outbox EXCEPT ![k.message].status = IF k.step = "sent" THEN "SENT" ELSE "PENDING",
                                ![k.message].due = FALSE]
    /\ Return(w)
    /\ UNCHANGED <<queue, primary, inserting, mark, desk, retries, faults, copies, extra>>

\* Mutant: the last attempt is one too late.
FinalizeLate(w) ==
    LET k == senders[w]
        tried == k.attempts + 1 IN
    /\ w \in Workers
    /\ k.step \in {"sent", "failed"}
    /\ outbox' = [outbox EXCEPT ![k.message] =
                     [status |-> IF k.step = "sent" THEN "SENT"
                                 ELSE IF tried > maxAttempts THEN "DEAD" ELSE "PENDING",
                      attempts |-> tried, due |-> FALSE]]
    /\ Return(w)
    /\ UNCHANGED <<queue, primary, inserting, mark, desk, retries, faults, copies, extra>>

\* finalizeOutboxAttempt: written by identifier, whatever the row has become.
FinalizeOutboxAttempt(w) ==
    LET k == senders[w]
        tried == k.attempts + 1 IN
    /\ w \in Workers
    /\ k.step \in {"sent", "failed"}
    /\ outbox' = [outbox EXCEPT ![k.message] =
                     [status |-> IF k.step = "sent" THEN "SENT"
                                 ELSE IF tried >= maxAttempts THEN "DEAD" ELSE "PENDING",
                      attempts |-> tried, due |-> FALSE]]
    /\ Return(w)
    /\ UNCHANGED <<queue, primary, inserting, mark, desk, retries, faults, copies, extra>>

-----------------------------------------------------------------------------
(* The retry queue: processNotificationRetryQueue.  Entries are not claimed:
   what overlapping jobs list, each of them sends. *)

OnEntry(e) == {j \in Jobs : senders[j] # Idle /\ senders[j].entity = e}

ListQueue(j, e) ==
    /\ senders[j] = Idle
    /\ queue[e].status \in Queued /\ queue[e].due
    /\ senders' = [senders EXCEPT ![j] = [step |-> "listed", message |-> queue[e].payload,
                                          attempts |-> queue[e].attempts, entity |-> e]]
    /\ extra' = IF OnEntry(e) # {} THEN Once(extra, queue[e].payload) ELSE extra
    /\ UNCHANGED <<outbox, queue, primary, inserting, mark, desk, retries, faults, copies>>

\* Mutant: an entry is done once it has been tried.
CloseEntry(j) ==
    LET k == senders[j] IN
    /\ j \in Jobs
    /\ k.step \in {"sent", "failed"}
    /\ queue' = [queue EXCEPT ![k.entity].status = "SENT", ![k.entity].due = FALSE]
    /\ Return(j)
    /\ UNCHANGED <<outbox, primary, inserting, mark, desk, retries, faults, copies, extra>>

RecordQueueAttempt(j) ==
    LET k == senders[j]
        tried == k.attempts + 1
        Row(status) == queue' = [queue EXCEPT ![k.entity].status = status,
                                              ![k.entity].attempts = tried,
                                              ![k.entity].due = FALSE] IN
    /\ j \in Jobs
    /\ \/ k.step = "sent" /\ Row("SENT")
       \/ k.step = "failed" /\ Row("PERMANENT_FAILURE")   \* also when a retry is not worth it
       \/ k.step = "failed" /\ tried < maxAttempts /\ Row("RETRYING")
    /\ Return(j)
    /\ UNCHANGED <<outbox, primary, inserting, mark, desk, retries, faults, copies, extra>>

\* A worker or a job is lost, in the worst case between the message and its record.
Crash(s) ==
    LET k == senders[s] IN
    /\ k # Idle
    /\ Fault
    /\ extra' = IF k.step = "sent" THEN Once(extra, k.message) ELSE extra
    /\ Return(s)
    /\ UNCHANGED <<outbox, queue, primary, inserting, mark, desk, retries, copies>>

-----------------------------------------------------------------------------
(* Time: a grace period or a delay is over, or a claim is fifteen minutes old. *)

\* Mutant: a claim counts as stale at once.
RecoverAny(m) ==
    /\ outbox[m].status = "PROCESSING"
    /\ outbox' = [outbox EXCEPT ![m].status = "PENDING", ![m].due = TRUE]
    /\ UNCHANGED <<queue, primary, inserting, mark, senders, desk, retries, faults, copies, extra>>

RecoverStaleProcessing(m) ==
    /\ outbox[m].status = "PROCESSING"
    /\ AtWork(m) = {}
    /\ outbox' = [outbox EXCEPT ![m].status = "PENDING", ![m].due = TRUE]
    /\ UNCHANGED <<queue, primary, inserting, mark, senders, desk, retries, faults, copies, extra>>

BecomeDue(m) ==
    /\ outbox[m].status = "PENDING" /\ ~outbox[m].due
    /\ primary[m] = "done" /\ m \notin inserting /\ mark[m] = "none"
    /\ AtWork(m) = {}
    /\ outbox' = [outbox EXCEPT ![m].due = TRUE]
    /\ UNCHANGED <<queue, primary, inserting, mark, senders, desk, retries, faults, copies, extra>>

BecomeDueInQueue(e) ==
    /\ queue[e].status \in Queued /\ ~queue[e].due
    /\ OnEntry(e) = {}
    /\ queue' = [queue EXCEPT ![e].due = TRUE]
    /\ UNCHANGED <<outbox, primary, inserting, mark, senders, desk, retries, faults, copies, extra>>

-----------------------------------------------------------------------------
(* Operators.  retryDiscordOutboxDelivery reads the row, looks at its status and
   then writes; it does not look at the age of a claim. *)

BeginRetry(o, m) ==
    /\ desk[o] = NoMessage
    /\ outbox[m].status \in {"FAILED", "DEAD", "PROCESSING"}
    /\ retries < MaxRetries
    /\ retries' = retries + 1
    /\ desk' = [desk EXCEPT ![o] = m]
    /\ UNCHANGED <<outbox, queue, primary, inserting, mark, senders, faults, copies, extra>>

\* The row is put back under a live claim, or after it was sent.
Overtakes(m) == outbox[m].status = "SENT" \/ (outbox[m].status = "PROCESSING" /\ Holders(m) # {})

FinishRetry(o) ==
    LET m == desk[o] IN
    /\ m # NoMessage
    /\ outbox' = [outbox EXCEPT ![m].status = "PENDING", ![m].due = TRUE]
    /\ extra' = IF Overtakes(m) THEN Once(extra, m) ELSE extra
    /\ desk' = [desk EXCEPT ![o] = NoMessage]
    /\ UNCHANGED <<queue, primary, inserting, mark, senders, retries, faults, copies>>

\* replayDiscordOutboxDelivery: another row, with a key of its own.
Replay(m, r) ==
    /\ outbox[m].status \in {"SENT", "DEAD"}
    /\ r \in Replays /\ primary[r] = "idle"
    /\ primary' = [primary EXCEPT ![r] = "done"]
    /\ outbox' = [outbox EXCEPT ![r] = [status |-> "PENDING", attempts |-> 0, due |-> TRUE]]
    /\ UNCHANGED <<queue, inserting, mark, senders, desk, retries, faults, copies, extra>>
-----------------------------------------------------------------------------
PrimaryPath(m) == \/ Deliver(m) \/ EnqueueDiscordOutboxEvent(m) \/ Dispatch(m)
                  \/ ReportSent(m) \/ EnqueueCustomerDmRetry(m) \/ MarkDiscordOutbox(m)
Worker(w) == Claim(w) \/ MarkDeadInvalid(w) \/ Send(w) \/ FinalizeOutboxAttempt(w)
Job(j) == Send(j) \/ RecordQueueAttempt(j)

Next == \/ \E m \in Messages :
              \/ PrimaryPath(m) \/ LoseInsertion(m) \/ LoseMark(m) \/ CrashPrimary(m)
              \/ RecoverStaleProcessing(m) \/ BecomeDue(m)
              \/ \E w \in Workers : FindDue(w, m)
              \/ \E o \in Operators : BeginRetry(o, m)
              \/ \E r \in Messages : Replay(m, r)
        \/ \E e \in Entities : BecomeDueInQueue(e) \/ \E j \in Jobs : ListQueue(j, e)
        \/ \E w \in Workers : Worker(w)
        \/ \E j \in Jobs : Job(j)
        \/ \E s \in Senders : Crash(s)
        \/ \E o \in Operators : FinishRetry(o)

(* A request goes on until it is lost, time passes, and a call of the worker or
   of the queue's job goes through all that is due. *)
Fairness ==
    /\ \A m \in Messages : /\ WF_vars(EnqueueDiscordOutboxEvent(m)) /\ WF_vars(MarkDiscordOutbox(m))
                           /\ WF_vars(Dispatch(m)) /\ WF_vars(ReportSent(m))
                           /\ WF_vars(EnqueueCustomerDmRetry(m))
                           /\ WF_vars(RecoverStaleProcessing(m)) /\ WF_vars(BecomeDue(m))
                           /\ SF_vars(\E w \in Workers : FindDue(w, m))
    /\ \A e \in Entities : /\ WF_vars(BecomeDueInQueue(e))
                           /\ SF_vars(\E j \in Jobs : ListQueue(j, e))
    /\ \A w \in Workers : WF_vars(Worker(w))
    /\ \A j \in Jobs : WF_vars(Job(j))

Spec == Init /\ [][Next]_vars /\ Fairness

-----------------------------------------------------------------------------
(* A message reaches Discord once, and once more for each of the events that
   `extra` counts: an answer that is lost, a request that is lost between message
   and record, a background write that is lost or overtaken by the mark, a row
   put back by an operator under a live claim, an entry listed by two jobs.  In
   particular overlapping workers, recovery and the two delivery paths do not
   send a message twice. *)
CopiesAreAccountedFor == \A m \in Messages : copies[m] <= 1 + extra[m]

(* What is recorded as sent has been sent; and a message whose request is over
   has been sent or has a row that is waiting, worked on, given up or handed over,
   unless a write of its own was lost. *)
NothingIsLost == \A m \in Messages :
    /\ outbox[m].status = "SENT" => copies[m] > 0
    /\ primary[m] = "done" /\ m \notin inserting /\ faults = 0 => outbox[m].status # "NONE"

(* What the retry queue has taken over it serves: the entry for the object of a
   message that was handed over is still to be sent, or has openly been given up,
   or a message about that object has reached the customer.  Which one is left
   open: an entry keeps the message it has, and later ones are handed over to it. *)
AboutSameObject(m) == {d \in Dms : Entity[d] = Entity[m]}

HandedOverIsServed == \A m \in Messages :
    outbox[m].status = "HANDED_OFF" =>
        \/ queue[Entity[m]].status \in Queued \cup {"PERMANENT_FAILURE"}
        \/ queue[Entity[m]].status = "SENT" /\ \E d \in AboutSameObject(m) : copies[d] > 0

\* A row is tried maxAttempts times, and once more each time an operator puts it back.
AttemptsAreBounded == \A m \in Messages : outbox[m].attempts <= maxAttempts + retries

\* A row recorded as sent is never taken up again, unless an operator puts it back.
SentIsFinal == [][\A m \in Messages : outbox[m].status = "SENT" /\ retries = 0
                                        => outbox'[m].status = "SENT"]_vars

\* Every waiting or claimed row, and every waiting entry of the queue, is finished in the end.
MessagesSettle ==
    /\ \A m \in Messages : (outbox[m].status \in {"PENDING", "PROCESSING"})
                             ~> (outbox[m].status \in {"SENT", "HANDED_OFF", "DEAD"})
    /\ \A e \in Entities : (queue[e].status \in Queued)
                             ~> (queue[e].status \in {"SENT", "PERMANENT_FAILURE"})
-----------------------------------------------------------------------------
(* The inductive invariant.  The request of a settled message is over, and so
   are the writes that it began in the background. *)
Settled(m) == primary[m] = "done" /\ mark[m] = "none" /\ m \notin inserting

RowsFollowRequests == \A m \in Messages :
    /\ m \in inserting => /\ outbox[m].status = "NONE"
                          /\ primary[m] # "idle"
                          /\ m \in Dms \cup Audits
    /\ primary[m] = "idle" => outbox[m].status = "NONE"
    /\ primary[m] = "queue" => m \in Dms
    /\ mark[m] # "none" => primary[m] = "done"
    /\ ~Settled(m) => outbox[m].status \in {"NONE", "PENDING"} /\ ~outbox[m].due

\* A row is only missing when its insertion is under way or has been lost.
RowsAreInserted == \A m \in Messages :
    primary[m] # "idle" /\ m \notin inserting /\ faults = 0 => outbox[m].status # "NONE"

\* Workers and operators only get to see rows of settled messages.
WorkIsSettled ==
    /\ \A w \in Workers : senders[w] # Idle => Settled(senders[w].message)
    /\ \A o \in Operators : desk[o] # NoMessage =>
          Settled(desk[o]) /\ outbox[desk[o]].status \notin {"NONE", "HANDED_OFF"}

Enqueued(e, m) == m \in Dms /\ Entity[m] = e /\ primary[m] = "done"

EntriesAreFilled == \A e \in Entities :
    /\ queue[e].payload # NoMessage => Enqueued(e, queue[e].payload)
    /\ queue[e].status # "NONE" => queue[e].payload # NoMessage

\* Jobs on one entry have listed the same message, which is the payload of an
\* entry that is due.
JobsAgree == \A j \in Jobs : senders[j] # Idle =>
    LET k == senders[j] IN
    /\ k.step # "claimed"
    /\ Enqueued(k.entity, k.message)
    /\ queue[k.entity].payload # NoMessage
    /\ queue[k.entity].due => queue[k.entity].payload = k.message
    /\ \A i \in OnEntry(k.entity) : senders[i].message = k.message

SentIsCounted ==
    /\ \A s \in Senders : senders[s] # Idle /\ senders[s].step = "sent" => copies[senders[s].message] > 0
    /\ \A m \in Messages :
          /\ outbox[m].status = "SENT" => copies[m] > 0
          /\ primary[m] = "sent" => copies[m] > 0
          /\ mark[m] = "SENT" => copies[m] > 0

\* What may still send m: its request, its row, those at work on it, its entry.
FromRequest(m) == IF primary[m] \in {"idle", "send", "queue"} THEN 1 ELSE 0
FromRow(m) == IF /\ primary[m] = "done" /\ mark[m] \notin {"SENT", "HANDED_OFF"}
                 /\ \/ m \in inserting
                    \/ outbox[m].status \in {"PENDING", "DEAD"}
                    \/ outbox[m].status = "PROCESSING" /\ Holders(m) = {}
              THEN 1 ELSE 0
Sending(m) == {s \in Senders : /\ senders[s] # Idle
                               /\ senders[s].message = m
                               /\ \/ senders[s].step \in {"claimed", "failed"}
                                  \/ s \in Jobs /\ senders[s].step = "listed"}
FromEntry(m) == IF /\ queue[Entity[m]].payload = m
                   /\ \A j \in OnEntry(Entity[m]) : senders[j].message # m
                   /\ queue[Entity[m]].status \in Queued \/ OnEntry(Entity[m]) # {}
                THEN 1 ELSE 0

CopiesAreBudgeted == \A m \in Messages :
    copies[m] + FromRequest(m) + FromRow(m) + Cardinality(Sending(m)) + FromEntry(m) <= 1 + extra[m]

(* Each retry that is over allows one attempt more; a row that is waiting and a
   worker who has claimed one have an attempt left. *)
AtDesk == {o \in Operators : desk[o] # NoMessage}
RetriesDone == retries - Cardinality(AtDesk)

AttemptsAreLeft ==
    /\ IsFiniteSet(AtDesk)
    /\ RetriesDone >= 0
    /\ \A m \in Messages :
          /\ outbox[m].attempts <= maxAttempts + RetriesDone
          /\ outbox[m].status \in {"PENDING", "PROCESSING"} => outbox[m].attempts < maxAttempts + RetriesDone
    /\ \A w \in Workers : senders[w] # Idle /\ senders[w].step # "listed" =>
          senders[w].attempts < maxAttempts + RetriesDone

\* Without a retry, a row that a worker has claimed is his alone.
ClaimsAreExclusive == retries = 0 =>
    \A m \in Messages : \A w \in Holders(m) : outbox[m].status = "PROCESSING" /\ Holders(m) = {w}

\* What is handed over, or about to be marked so, has an entry, and an entry is
\* only closed as sent when a message about its object has been sent.
HandOversAreKept ==
    /\ \A m \in Messages : mark[m] = "HANDED_OFF" \/ outbox[m].status = "HANDED_OFF" =>
          queue[Entity[m]].status # "NONE"
    /\ \A e \in Entities : queue[e].status = "SENT" =>
          \E d \in Dms : Entity[d] = e /\ copies[d] > 0

IInv == /\ TypeOK /\ RowsFollowRequests /\ RowsAreInserted
        /\ WorkIsSettled /\ EntriesAreFilled /\ JobsAgree /\ SentIsCounted
        /\ CopiesAreBudgeted /\ AttemptsAreLeft /\ ClaimsAreExclusive /\ HandOversAreKept
=============================================================================

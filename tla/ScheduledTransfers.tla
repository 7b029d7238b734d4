-------------------------- MODULE ScheduledTransfers --------------------------
(***************************************************************************)
(* The executor of scheduled intrabank transfers                           *)
(* (scheduled-transfer-executor.service.ts): cron calls and operators run  *)
(* a payment through the same function, which claims the run with a unique *)
(* row (payment, scheduledRunAt), moves the money in one database          *)
(* transaction and records the outcome in another.  A worker is one call   *)
(* of executeSinglePayment: a cron request handles its list one payment    *)
(* after the other, from the rows it has read at its start.                *)
(* Time is counted in minutes.  Accounts, balances and permissions are     *)
(* left out: the transfer succeeds or fails.                               *)
(***************************************************************************)
EXTENDS Integers

CONSTANTS Payments,    \* ScheduledPayment rows
          Cron,        \* calls on behalf of the scheduler
          Operators,   \* calls of "run now"
          Desk,        \* requests to cancel, pause or resume
          Horizon,     \* the last minute of the model (bounds time)
          Period,      \* minutes between two runs of a recurring payment
          Deadline,    \* minutes that a request lives at most: the code has no limit,
                       \* but its calls are sized to end in half a minute
          MaxCrashes   \* requests that may be lost half-way (bounds crashes)

ASSUME ScheduleAssumption ==
          /\ Horizon \in Nat /\ MaxCrashes \in Nat
          /\ Period \in Nat \ {0} /\ Deadline \in 0..(Period - 1)
          /\ Cron \cap Operators = {}

\* Two requests in a row fit into a period (NeverScheduledForThePast is false otherwise).
ASSUME DeadlineAssumption == 2 * Deadline <= Period

VARIABLES now,         \* minutes
          payments,    \* ScheduledPayment rows; next is scheduledDate or nextRunDate
          runs,        \* ScheduledTransferExecution rows, by payment and run
          moved,       \* history: how often the money of a run has moved
          workers,     \* calls of the executor
          desk,        \* requests between their check and their write
          crashes

vars == <<now, payments, runs, moved, workers, desk, crashes>>

Workers == Cron \cup Operators
Times == 0..(Horizon + Period)
FAILURE_THRESHOLD == 3

Idle == [step |-> "idle"]
Claimed == {"pay", "mark", "fail"}   \* steps of the worker that has created the row

PaymentRow == [kind : {"RECURRING", "SCHEDULED"},
               status : {"APPROVED", "EXECUTED", "CANCELLED", "PAUSED", "FAILED"},
               next : Times, failures : Nat]

Task == [step : {"unpause", "reread", "create"} \cup Claimed, payment : Payments,
         runAt : 0..Horizon, failures : Nat, begun : 0..Horizon]

Request == [op : {"cancel", "pause", "resume"}, payment : Payments]

Due(p) == payments[p].status = "APPROVED" /\ payments[p].next <= now
RunRow(p) == runs[p][payments[p].next]   \* the row of the run that is due

Init == /\ now = 0
        /\ payments \in [Payments -> [kind : {"RECURRING", "SCHEDULED"}, status : {"APPROVED"},
                                      next : 0..Horizon, failures : {0}]]
        /\ runs = [p \in Payments |-> [r \in Times |-> "NONE"]]
        /\ moved = [p \in Payments |-> [r \in Times |-> 0]]
        /\ workers = [w \in Workers |-> Idle]
        /\ desk = [d \in Desk |-> [op |-> "idle"]]
        /\ crashes = 0

-----------------------------------------------------------------------------
Goto(w, step) == workers' = [workers EXCEPT ![w].step = step]
Return(w) == workers' = [workers EXCEPT ![w] = Idle]

Start(w, p, run, step) ==
    /\ workers[w] = Idle
    /\ workers' = [workers EXCEPT ![w] = [step |-> step, payment |-> p, runAt |-> run,
                                          failures |-> payments[p].failures, begun |-> now]]

\* executeDueScheduledTransfers: the row is used as it was when it was found due.
FindDue(w, p) ==
    /\ w \in Cron
    /\ Due(p)
    /\ Start(w, p, payments[p].next, "create")
    /\ UNCHANGED <<now, payments, runs, moved, desk, crashes>>

\* executeScheduledTransferNow: what is not due runs under the current minute.
RunNow(w, p) ==
    /\ w \in Operators
    /\ payments[p].status \in {"APPROVED", "PAUSED"}
    /\ Start(w, p, IF payments[p].next <= now THEN payments[p].next ELSE now,
             IF payments[p].status = "PAUSED" THEN "unpause" ELSE "reread")
    /\ UNCHANGED <<now, payments, runs, moved, desk, crashes>>

Unpause(w) ==
    /\ workers[w].step = "unpause"
    /\ payments' = [payments EXCEPT ![workers[w].payment].status = "APPROVED"]
    /\ Goto(w, "reread")
    /\ UNCHANGED <<now, runs, moved, desk, crashes>>

\* The row is read again, its status is not looked at again.
Reread(w) ==
    /\ workers[w].step = "reread"
    /\ workers' = [workers EXCEPT ![w].step = "create",
                                  ![w].failures = payments[workers[w].payment].failures]
    /\ UNCHANGED <<now, payments, runs, moved, desk, crashes>>

\* Mutant: no unique constraint on (payment, scheduledRunAt).
CreateSecondExecution(w) ==
    /\ workers[w].step = "create"
    /\ runs' = [runs EXCEPT ![workers[w].payment][workers[w].runAt] = "PENDING"]
    /\ Goto(w, "pay")
    /\ UNCHANGED <<now, payments, moved, desk, crashes>>

CreateExecution(w) ==
    LET k == workers[w] IN
    /\ k.step = "create"
    /\ runs[k.payment][k.runAt] = "NONE"
    /\ runs' = [runs EXCEPT ![k.payment][k.runAt] = "PENDING"]
    /\ Goto(w, "pay")
    /\ UNCHANGED <<now, payments, moved, desk, crashes>>

\* Mutant: the call that finds a pending row goes on with it.
TakeOver(w) ==
    LET k == workers[w]
        row == runs[k.payment][k.runAt] IN
    /\ k.step = "create"
    /\ row # "NONE"
    /\ IF row = "PENDING" THEN Goto(w, "pay") ELSE Return(w)
    /\ UNCHANGED <<now, payments, runs, moved, desk, crashes>>

\* Mutant: the call that finds a pending row records its run as skipped.
SkipExisting(w) ==
    LET k == workers[w]
        row == runs[k.payment][k.runAt] IN
    /\ k.step = "create"
    /\ row # "NONE"
    /\ runs' = IF row = "PENDING"
               THEN [runs EXCEPT ![k.payment][k.runAt] = "SKIPPED"]
               ELSE runs
    /\ Return(w)
    /\ UNCHANGED <<now, payments, moved, desk, crashes>>

(* The unique constraint: an executed run and a pending one are left alone, a
   failed one is made pending again.  In no case does this call go on with the
   run: the branches for a stale pending row and for a failed one set
   executionId and then fall through to `throw error`. *)
FindExisting(w) ==
    LET k == workers[w]
        row == runs[k.payment][k.runAt] IN
    /\ k.step = "create"
    /\ row # "NONE"
    /\ runs' = IF row = "FAILED"
               THEN [runs EXCEPT ![k.payment][k.runAt] = "PENDING"]
               ELSE runs
    /\ Return(w)
    /\ UNCHANGED <<now, payments, moved, desk, crashes>>

\* submitInternalTransfer commits; the outcome is recorded later.
MoveMoney(w) ==
    LET k == workers[w] IN
    /\ k.step = "pay"
    /\ moved' = [moved EXCEPT ![k.payment][k.runAt] = @ + 1]
    /\ Goto(w, "mark")
    /\ UNCHANGED <<now, payments, runs, desk, crashes>>

\* A validation or the transfer fails, or what follows the transfer does: the
\* same catch block handles both.
Fail(w) ==
    /\ workers[w].step \in {"pay", "mark"}
    /\ Goto(w, "fail")
    /\ UNCHANGED <<now, payments, runs, moved, desk, crashes>>

\* Mutant: the date of a recurring payment is not moved on.
MarkExecutedInPlace(w) ==
    LET k == workers[w] IN
    /\ k.step = "mark"
    /\ runs' = [runs EXCEPT ![k.payment][k.runAt] = "EXECUTED"]
    /\ payments' = [payments EXCEPT ![k.payment] =
           IF @.kind = "RECURRING" THEN [@ EXCEPT !.failures = 0, !.status = "APPROVED"]
                                   ELSE [@ EXCEPT !.failures = 0, !.status = "EXECUTED"]]
    /\ Return(w)
    /\ UNCHANGED <<now, moved, desk, crashes>>

MarkExecuted(w) ==
    LET k == workers[w] IN
    /\ k.step = "mark"
    /\ runs' = [runs EXCEPT ![k.payment][k.runAt] = "EXECUTED"]
    /\ payments' = [payments EXCEPT ![k.payment] =
           IF @.kind = "RECURRING"
           THEN [@ EXCEPT !.failures = 0, !.next = k.runAt + Period, !.status = "APPROVED"]
           ELSE [@ EXCEPT !.failures = 0, !.status = "EXECUTED"]]
    /\ Return(w)
    /\ UNCHANGED <<now, moved, desk, crashes>>

\* Mutant: the date is moved on by a success only.
RecordFailureInPlace(w) ==
    LET k == workers[w] IN
    /\ k.step = "fail"
    /\ runs' = [runs EXCEPT ![k.payment][k.runAt] = "FAILED"]
    /\ payments' = [payments EXCEPT ![k.payment] =
           IF @.kind = "RECURRING"
           THEN [@ EXCEPT !.failures = k.failures + 1, !.status = "APPROVED"]
           ELSE [@ EXCEPT !.failures = k.failures + 1, !.status = "FAILED"]]
    /\ Return(w)
    /\ UNCHANGED <<now, moved, desk, crashes>>

\* The number of failures is the one that was read at the start, plus one.
RecordFailure(w) ==
    LET k == workers[w]
        failures == k.failures + 1 IN
    /\ k.step = "fail"
    /\ runs' = [runs EXCEPT ![k.payment][k.runAt] = "FAILED"]
    /\ payments' = [payments EXCEPT ![k.payment] =
           IF @.kind = "RECURRING"
           THEN [@ EXCEPT !.failures = failures, !.next = k.runAt + Period,
                          !.status = IF failures >= FAILURE_THRESHOLD
                                     THEN "PAUSED" ELSE "APPROVED"]
           ELSE [@ EXCEPT !.failures = failures, !.status = "FAILED"]]
    /\ Return(w)
    /\ UNCHANGED <<now, moved, desk, crashes>>

\* The process dies, or a write of the outcome fails: nothing is recorded.
Crash(w) ==
    /\ workers[w] # Idle
    /\ crashes < MaxCrashes
    /\ crashes' = crashes + 1
    /\ Return(w)
    /\ UNCHANGED <<now, payments, runs, moved, desk>>

-----------------------------------------------------------------------------
(* Cancel, pause, resume: a check, and a write that does not repeat it. *)

BeginRequest(d, op, p) ==
    /\ desk[d].op = "idle"
    /\ IF op = "resume" THEN payments[p].status = "PAUSED"
                        ELSE payments[p].status \notin {"EXECUTED", "CANCELLED"}
    /\ desk' = [desk EXCEPT ![d] = [op |-> op, payment |-> p]]
    /\ UNCHANGED <<now, payments, runs, moved, workers, crashes>>

FinishRequest(d) ==
    /\ desk[d].op # "idle"
    /\ payments' = [payments EXCEPT ![desk[d].payment] =
           CASE desk[d].op = "cancel" -> [@ EXCEPT !.status = "CANCELLED"]
             [] desk[d].op = "pause" -> [@ EXCEPT !.status = "PAUSED"]
             [] desk[d].op = "resume" -> [@ EXCEPT !.status = "APPROVED", !.failures = 0]]
    /\ desk' = [desk EXCEPT ![d] = [op |-> "idle"]]
    /\ UNCHANGED <<now, runs, moved, workers, crashes>>

\* A request does not outlive its deadline.
Tick ==
    /\ now < Horizon
    /\ \A w \in Workers : workers[w] # Idle => now - workers[w].begun < Deadline
    /\ now' = now + 1
    /\ UNCHANGED <<payments, runs, moved, workers, desk, crashes>>

-----------------------------------------------------------------------------
Work(w) == \/ Unpause(w)
           \/ Reread(w)
           \/ CreateExecution(w)
           \/ FindExisting(w)
           \/ MoveMoney(w)
           \/ Fail(w)
           \/ MarkExecuted(w)
           \/ RecordFailure(w)

Next == \/ \E w \in Workers, p \in Payments : FindDue(w, p) \/ RunNow(w, p)
        \/ \E w \in Workers : Work(w) \/ Crash(w)
        \/ \E d \in Desk, p \in Payments, op \in {"cancel", "pause", "resume"} :
              BeginRequest(d, op, p)
        \/ \E d \in Desk : FinishRequest(d)
        \/ Tick

(* The scheduler calls every few minutes, and a call that is not lost goes on
   to its end. *)
Fairness == /\ \A p \in Payments : WF_vars(\E w \in Cron : FindDue(w, p))
            /\ \A w \in Workers : WF_vars(Work(w))

Spec == Init /\ [][Next]_vars /\ Fairness
-----------------------------------------------------------------------------
(* Properties. *)

TypeOK ==
    /\ now \in 0..Horizon
    /\ payments \in [Payments -> PaymentRow]
    /\ runs \in [Payments -> [Times -> {"NONE", "PENDING", "EXECUTED", "FAILED"}]]
    /\ moved \in [Payments -> [Times -> Nat]]
    /\ workers \in [Workers -> Task \cup {Idle}]
    /\ desk \in [Desk -> Request \cup {[op |-> "idle"]}]
    /\ crashes \in 0..MaxCrashes

(* No two workers move the money of the same run, and a run that reads
   EXECUTED has moved it: the unique row is the claim. *)
PaidOncePerRun ==
    \A p \in Payments, r \in Times : /\ moved[p][r] <= 1
                                     /\ runs[p][r] = "EXECUTED" => moved[p][r] = 1

(* A run is in the hands of at most one worker, the one that has created its
   row, and only this worker writes an outcome. *)
Owns(w, p, r) == /\ workers[w].step \in Claimed
                 /\ workers[w].payment = p
                 /\ workers[w].runAt = r

OneOwner ==
    \A p \in Payments, r \in Times, v, w \in Workers : Owns(v, p, r) /\ Owns(w, p, r) => v = w

(* A claimed run is pending, and its money is where the owner's step says; the
   money of a run that nobody has claimed has not moved. *)
ClaimsAgree ==
    \A p \in Payments, r \in Times :
       /\ runs[p][r] = "NONE" => moved[p][r] = 0
       /\ \A w \in Workers : Owns(w, p, r) =>
             /\ runs[p][r] = "PENDING"
             /\ workers[w].step = "pay" => moved[p][r] = 0
             /\ workers[w].step = "mark" => moved[p][r] = 1

(* The inductive invariant behind the claim. *)
IInv == TypeOK /\ OneOwner /\ ClaimsAgree /\ PaidOncePerRun

(* An active recurring payment is never scheduled for a run that has been
   executed: it would be skipped from then on. *)
NeverScheduledForThePast ==
    \A p \in Payments : payments[p].kind = "RECURRING" => RunRow(p) # "EXECUTED"

\* A worker that may still record the outcome of a run of p.
InFlight(w, p) == /\ workers[w] # Idle
                  /\ workers[w].payment = p
                  /\ workers[w].step \in Claimed \/ runs[p][workers[w].runAt] = "NONE"

(* Behind it: executed runs lie before the date of their payment.  A run in
   flight is the one that is due, or the date has moved away from it: then it was
   ad hoc or young at that time, and the date moved beyond its worker's start. *)
RequestsAreYoung == \A w \in Workers : workers[w] # Idle =>
    /\ workers[w].runAt <= workers[w].begun
    /\ workers[w].begun <= now /\ now <= workers[w].begun + Deadline

ExecutedRunsArePast == \A p \in Payments, r \in Times :
    payments[p].kind = "RECURRING" /\ runs[p][r] = "EXECUTED" => r <= now /\ r < payments[p].next

WrittenBack(k, next) == \/ k.runAt = next
                        \/ k.begun < next /\ (k.runAt = k.begun \/ k.begun < k.runAt + Deadline)

RunsInFlightAgree == \A p \in Payments, w \in Workers :
    payments[p].kind = "RECURRING" /\ InFlight(w, p) => WrittenBack(workers[w], payments[p].next)

DatesAgree == RequestsAreYoung /\ ExecutedRunsArePast /\ RunsInFlightAgree

DatesInv == IInv /\ DatesAgree

(* The unique row of a run is as good as an idempotency key: of all calls that try
   the run one moves its money, once, and the row reads EXECUTED only afterwards
   and then for ever, whatever the other calls and the desk write. *)
Attempts == Payments \X Times
Executed == {x \in Attempts : runs[x[1]][x[2]] = "EXECUTED"}

Once == INSTANCE OneEffect WITH Requests <- Attempts,
                                Key <- [x \in Attempts |-> x],
                                made <- [x \in Attempts |-> moved[x[1]][x[2]]],
                                receipts <- {<<x, x>> : x \in Executed}

RunsHaveOneEffect == Once!Spec

(* A recurring payment does not stay due for the same run, whoever runs, pauses
   or cancels it meanwhile: the run is executed or fails, and the date moves on. *)
DueAt(p, r) == Due(p) /\ payments[p].next = r

RecurringRunsFinish ==
    \A p \in Payments, r \in 0..Horizon :
       payments[p].kind = "RECURRING" /\ DueAt(p, r) ~> ~DueAt(p, r)

=============================================================================

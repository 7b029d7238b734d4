------------------------------- MODULE Payroll --------------------------------
(***************************************************************************)
(* The payroll executor (payroll-executor.service.ts).  A payroll run has  *)
(* one execution row, which is claimed, taken over when it is more than    *)
(* two minutes old, or retried after a failure; its lines are paid one     *)
(* transfer after the other, each recorded after it has been made.  A      *)
(* scan turns the pay dates of the employees into runs.                    *)
(* A worker is one call of executeSinglePayrollRun, a scanner one round of *)
(* the loop of createAutoPayrollRunsForDueEmployees.  Dates are pay        *)
(* periods; the age of an execution row is only fresh or old.  Amounts,    *)
(* balances, the company's plan and edits of the registry are left out.    *)
(***************************************************************************)
EXTENDS Integers

CONSTANTS Employees, Runs, \* PayrollEmployee and PayrollRun rows
          Workers, Scanners,
          Horizon,         \* the last pay period of the model (bounds time)
          MaxFaults        \* requests lost or refused after a payment (bounds faults)

ASSUME PayrollAssumption == Horizon \in Nat /\ MaxFaults \in Nat

VARIABLES today,
          nextPayDate,     \* of each employee
          runs,
          executions,      \* the execution row of each run
          lines,           \* the line rows of each execution
          paid,            \* history: for whom a run's money has moved
          workers, scans,  \* calls in progress
          faults

vars == <<today, nextPayDate, runs, executions, lines, paid, workers, scans, faults>>

Dates == 0..(Horizon + 1)
FAILURE_THRESHOLD == 3

NoRun == [status |-> "NONE"]
PayrollRun == [status : {"APPROVED", "EXECUTED", "FAILED"}, payDate : Dates,
               staff : SUBSET Employees, auto : BOOLEAN, failures : Nat]
Execution == [status : {"NONE", "PENDING", "EXECUTED", "FAILED"}, old : BOOLEAN]

Idle == [step |-> "idle"]
Holding == {"lines", "pay", "mark", "advance", "failline", "failrun"}
Task == [step : {"claim", "reset"} \cup Holding, run : Runs, failures : Nat, begun : 0..Horizon,
         late : BOOLEAN,            \* the row was old when the call began
         made : BOOLEAN,            \* this call has created the row
         todo : SUBSET Employees, line : SUBSET Employees]
Scan == [step : {"lookup", "create", "revive"}, employee : Employees, payDate : Dates,
         run : SUBSET Runs, begun : 0..Horizon]

Holds(w, r) == workers[w].step \in Holding /\ workers[w].run = r

Init == /\ today = 0
        /\ nextPayDate \in [Employees -> 0..Horizon]
        /\ runs = [r \in Runs |-> NoRun]
        /\ executions = [r \in Runs |-> [status |-> "NONE", old |-> FALSE]]
        /\ lines = [r \in Runs |-> [e \in Employees |-> "NONE"]]
        /\ paid = [r \in Runs |-> {}]
        /\ workers = [w \in Workers |-> Idle]
        /\ scans = [s \in Scanners |-> Idle]
        /\ faults = 0

-----------------------------------------------------------------------------
(* Runs: by hand, or from the pay dates. *)

CreatePayrollRun(r, staff, date) ==
    /\ runs[r] = NoRun
    /\ staff # {}
    /\ runs' = [runs EXCEPT ![r] = [status |-> "APPROVED", payDate |-> date, staff |-> staff,
                                    auto |-> FALSE, failures |-> 0]]
    /\ UNCHANGED <<today, nextPayDate, executions, lines, paid, workers, scans, faults>>

ListEmployee(s, e) ==
    /\ scans[s] = Idle
    /\ nextPayDate[e] <= today
    /\ scans' = [scans EXCEPT ![s] = [step |-> "lookup", employee |-> e, run |-> {},
                                      payDate |-> nextPayDate[e], begun |-> today]]
    /\ UNCHANGED <<today, nextPayDate, runs, executions, lines, paid, workers, faults>>

AutoRuns(e, date) == {r \in Runs : /\ runs[r] # NoRun
                                   /\ runs[r].auto
                                   /\ runs[r].staff = {e}
                                   /\ runs[r].payDate = date}

\* A failed run is to be revived; any other run settles the matter.
LookUp(s) ==
    LET found == AutoRuns(scans[s].employee, scans[s].payDate) IN
    /\ scans[s].step = "lookup"
    /\ \/ /\ found = {}
          /\ scans' = [scans EXCEPT ![s].step = "create"]
       \/ \E r \in found :
             scans' = [scans EXCEPT ![s] = IF runs[r].status = "FAILED"
                                           THEN [@ EXCEPT !.step = "revive", !.run = {r}]
                                           ELSE Idle]
    /\ UNCHANGED <<today, nextPayDate, runs, executions, lines, paid, workers, faults>>

\* The write repeats neither check.
Revive(s) ==
    /\ scans[s].step = "revive"
    /\ runs' = [r \in Runs |-> IF r \in scans[s].run
                               THEN [runs[r] EXCEPT !.status = "APPROVED", !.failures = 0]
                               ELSE runs[r]]
    /\ scans' = [scans EXCEPT ![s] = Idle]
    /\ UNCHANGED <<today, nextPayDate, executions, lines, paid, workers, faults>>

CreateAutoRun(s, r) ==
    /\ scans[s].step = "create"
    /\ runs[r] = NoRun
    /\ runs' = [runs EXCEPT ![r] = [status |-> "APPROVED", payDate |-> scans[s].payDate,
                                    staff |-> {scans[s].employee}, auto |-> TRUE,
                                    failures |-> 0]]
    /\ scans' = [scans EXCEPT ![s] = Idle]
    /\ UNCHANGED <<today, nextPayDate, executions, lines, paid, workers, faults>>

\* No operating account, nobody to act for the company, or the request is lost.
SkipEmployee(s) ==
    /\ scans[s] # Idle
    /\ scans' = [scans EXCEPT ![s] = Idle]
    /\ UNCHANGED <<today, nextPayDate, runs, executions, lines, paid, workers, faults>>

-----------------------------------------------------------------------------
(* One run. *)

Goto(w, step) == workers' = [workers EXCEPT ![w].step = step]
Return(w) == workers' = [workers EXCEPT ![w] = Idle]

ListRun(w, r) ==
    /\ workers[w] = Idle
    /\ runs[r].status = "APPROVED"
    /\ runs[r].payDate <= today
    /\ workers' = [workers EXCEPT ![w] =
           [step |-> "claim", run |-> r, failures |-> runs[r].failures, begun |-> today,
            late |-> executions[r].old, made |-> FALSE, todo |-> {}, line |-> {}]]
    /\ UNCHANGED <<today, nextPayDate, runs, executions, lines, paid, scans, faults>>

CreateExecution(w) ==
    LET r == workers[w].run IN
    /\ workers[w].step = "claim"
    /\ executions[r].status = "NONE"
    /\ executions' = [executions EXCEPT ![r].status = "PENDING"]
    /\ workers' = [workers EXCEPT ![w].step = "lines", ![w].made = TRUE]
    /\ UNCHANGED <<today, nextPayDate, runs, lines, paid, scans, faults>>

\* Mutant: a pending row is taken over whatever its age.
TakeOverPending(w) ==
    LET status == executions[workers[w].run].status IN
    /\ workers[w].step = "claim"
    /\ \/ status = "PENDING" /\ Goto(w, "lines")
       \/ status = "FAILED" /\ Goto(w, "reset")
       \/ status = "EXECUTED" /\ Return(w)
    /\ UNCHANGED <<today, nextPayDate, runs, executions, lines, paid, scans, faults>>

\* Mutant: a pending row is never taken over.
LeavePending(w) ==
    LET status == executions[workers[w].run].status IN
    /\ workers[w].step = "claim"
    /\ \/ status = "FAILED" /\ Goto(w, "reset")
       \/ status \in {"EXECUTED", "PENDING"} /\ Return(w)
    /\ UNCHANGED <<today, nextPayDate, runs, executions, lines, paid, scans, faults>>

\* The unique constraint: a failed run is retried, a pending one is taken over if it
\* is old by the clock of the call's beginning; its age is not renewed.
FindExecution(w) ==
    LET status == executions[workers[w].run].status IN
    /\ workers[w].step = "claim"
    /\ \/ status = "PENDING" /\ workers[w].late /\ Goto(w, "lines")
       \/ status = "FAILED" /\ Goto(w, "reset")
       \/ status = "EXECUTED" /\ Return(w)
       \/ status = "PENDING" /\ ~workers[w].late /\ Return(w)
    /\ UNCHANGED <<today, nextPayDate, runs, executions, lines, paid, scans, faults>>

ResetExecution(w) ==
    /\ workers[w].step = "reset"
    /\ executions' = [executions EXCEPT ![workers[w].run].status = "PENDING"]
    /\ Goto(w, "lines")
    /\ UNCHANGED <<today, nextPayDate, runs, lines, paid, scans, faults>>

\* The source account is not active, or a line has no account number.
RejectRun(w) ==
    /\ workers[w].step = "lines"
    /\ Goto(w, "failrun")
    /\ UNCHANGED <<today, nextPayDate, runs, executions, lines, paid, scans, faults>>

\* Mutant: only pending lines are paid.
ReadPendingLines(w) ==
    LET r == workers[w].run IN
    /\ workers[w].step = "lines"
    /\ lines' = [lines EXCEPT ![r] = [e \in Employees |->
           IF e \in runs[r].staff /\ @[e] = "NONE" THEN "PENDING" ELSE @[e]]]
    /\ workers' = [workers EXCEPT ![w].step = "pay",
                                  ![w].todo = {e \in runs[r].staff : lines'[r][e] = "PENDING"}]
    /\ UNCHANGED <<today, nextPayDate, runs, executions, paid, scans, faults>>

\* Mutant: lines that are recorded as executed are paid like the others.
ReadAllLines(w) ==
    LET r == workers[w].run IN
    /\ workers[w].step = "lines"
    /\ lines' = [lines EXCEPT ![r] = [e \in Employees |->
           IF e \in runs[r].staff /\ @[e] = "NONE" THEN "PENDING" ELSE @[e]]]
    /\ workers' = [workers EXCEPT ![w].step = "pay", ![w].todo = runs[r].staff]
    /\ UNCHANGED <<today, nextPayDate, runs, executions, paid, scans, faults>>

\* Missing lines are inserted, existing ones left alone; then all are read.
ReadLines(w) ==
    LET r == workers[w].run IN
    /\ workers[w].step = "lines"
    /\ lines' = [lines EXCEPT ![r] = [e \in Employees |->
           IF e \in runs[r].staff /\ @[e] = "NONE" THEN "PENDING" ELSE @[e]]]
    /\ workers' = [workers EXCEPT ![w].step = "pay",
                                  ![w].todo = {e \in runs[r].staff : lines[r][e] # "EXECUTED"}]
    /\ UNCHANGED <<today, nextPayDate, runs, executions, paid, scans, faults>>

\* submitInternalTransfer commits, without an idempotency key.
PayLine(w, e) ==
    /\ workers[w].step = "pay"
    /\ e \in workers[w].todo
    /\ paid' = [paid EXCEPT ![workers[w].run] = @ \cup {e}]
    /\ workers' = [workers EXCEPT ![w].step = "mark", ![w].line = {e}]
    /\ UNCHANGED <<today, nextPayDate, runs, executions, lines, scans, faults>>

\* Mutant: a line that cannot be paid is passed over.
SkipLine(w, e) ==
    /\ workers[w].step = "pay"
    /\ e \in workers[w].todo
    /\ workers' = [workers EXCEPT ![w].todo = @ \ {e}]
    /\ UNCHANGED <<today, nextPayDate, runs, executions, lines, paid, scans, faults>>

\* The employee's account is not active, or the transfer is refused.
RefuseLine(w, e) ==
    /\ workers[w].step = "pay"
    /\ e \in workers[w].todo
    /\ workers' = [workers EXCEPT ![w].step = "failline", ![w].line = {e}]
    /\ UNCHANGED <<today, nextPayDate, runs, executions, lines, paid, scans, faults>>

SetLine(w, status) ==
    lines' = [lines EXCEPT ![workers[w].run] = [e \in Employees |->
                 IF e \in workers[w].line THEN status ELSE @[e]]]

MarkLine(w) ==
    /\ workers[w].step = "mark"
    /\ SetLine(w, "EXECUTED")
    /\ Goto(w, "advance")
    /\ UNCHANGED <<today, nextPayDate, runs, executions, paid, scans, faults>>

\* advanceEmployeePaySchedule: strictly after the time of the call.
AdvanceEmployee(w) ==
    /\ workers[w].step = "advance"
    /\ nextPayDate' = [e \in Employees |-> IF e \in workers[w].line
                                           THEN workers[w].begun + 1 ELSE nextPayDate[e]]
    /\ workers' = [workers EXCEPT ![w].step = "pay", ![w].todo = @ \ workers[w].line]
    /\ UNCHANGED <<today, runs, executions, lines, paid, scans, faults>>

\* What follows the transfer fails: the same catch block.
RecordingFails(w) ==
    /\ workers[w].step \in {"mark", "advance"}
    /\ faults < MaxFaults
    /\ faults' = faults + 1
    /\ Goto(w, "failline")
    /\ UNCHANGED <<today, nextPayDate, runs, executions, lines, paid, scans>>

FailLine(w) ==
    /\ workers[w].step = "failline"
    /\ SetLine(w, "FAILED")
    /\ Goto(w, "failrun")
    /\ UNCHANGED <<today, nextPayDate, runs, executions, paid, scans, faults>>

Settle(w, outcome, status, failures) ==
    LET r == workers[w].run IN
    /\ executions' = [executions EXCEPT ![r].status = outcome]
    /\ runs' = [runs EXCEPT ![r].status = status, ![r].failures = failures]
    /\ Return(w)
    /\ UNCHANGED <<today, nextPayDate, lines, paid, scans, faults>>

\* The number of failures is the one that was read when the run was listed, plus one.
RecordPayrollFailure(w) ==
    LET failures == workers[w].failures + 1 IN
    /\ workers[w].step = "failrun"
    /\ Settle(w, "FAILED", IF failures >= FAILURE_THRESHOLD THEN "FAILED" ELSE "APPROVED", failures)

FinishRun(w) ==
    /\ workers[w].step = "pay"
    /\ workers[w].todo = {}
    /\ Settle(w, "EXECUTED", "EXECUTED", 0)

Crash(w) ==
    /\ workers[w] # Idle
    /\ faults < MaxFaults
    /\ faults' = faults + 1
    /\ Return(w)
    /\ UNCHANGED <<today, nextPayDate, runs, executions, lines, paid, scans>>

-----------------------------------------------------------------------------
(* Time.  Nothing bounds a call: its row may turn two minutes old, or a pay period
   begin, while it is at work. *)

GrowOld(r) ==
    /\ executions[r].status # "NONE"
    /\ ~executions[r].old
    /\ executions' = [executions EXCEPT ![r].old = TRUE]
    /\ UNCHANGED <<today, nextPayDate, runs, lines, paid, workers, scans, faults>>

Tick ==
    /\ today < Horizon
    /\ today' = today + 1
    /\ UNCHANGED <<nextPayDate, runs, executions, lines, paid, workers, scans, faults>>

-----------------------------------------------------------------------------
Work(w) == \/ CreateExecution(w)
           \/ FindExecution(w)
           \/ ResetExecution(w)
           \/ RejectRun(w)
           \/ ReadLines(w)
           \/ \E e \in Employees : PayLine(w, e) \/ RefuseLine(w, e)
           \/ MarkLine(w)
           \/ AdvanceEmployee(w)
           \/ FailLine(w)
           \/ RecordPayrollFailure(w)
           \/ FinishRun(w)

ScanStep(s) == \/ \E e \in Employees : ListEmployee(s, e)
               \/ LookUp(s)
               \/ Revive(s)
               \/ \E r \in Runs : CreateAutoRun(s, r)
               \/ SkipEmployee(s)

Next == \/ \E r \in Runs, staff \in SUBSET Employees, date \in today..Horizon :
              CreatePayrollRun(r, staff, date)
        \/ \E s \in Scanners : ScanStep(s)
        \/ \E w \in Workers, r \in Runs : ListRun(w, r)
        \/ \E w \in Workers : Work(w) \/ RecordingFails(w) \/ Crash(w)
        \/ \E r \in Runs : GrowOld(r)
        \/ Tick

(* Every call of the scheduler goes through all runs that are due, so none of
   them is passed over for ever; a call that is not lost goes on; minutes pass. *)
Fairness == /\ \A r \in Runs : SF_vars(\E w \in Workers : ListRun(w, r)) /\ WF_vars(GrowOld(r))
            /\ \A w \in Workers : WF_vars(Work(w))

Spec == Init /\ [][Next]_vars /\ Fairness
-----------------------------------------------------------------------------
(* Properties. *)

TypeOK ==
    /\ today \in 0..Horizon
    /\ nextPayDate \in [Employees -> Dates]
    /\ runs \in [Runs -> PayrollRun \cup {NoRun}]
    /\ executions \in [Runs -> Execution]
    /\ lines \in [Runs -> [Employees -> {"NONE", "PENDING", "EXECUTED", "FAILED"}]]
    /\ paid \in [Runs -> SUBSET Employees]
    /\ workers \in [Workers -> Task \cup {Idle}]
    /\ scans \in [Scanners -> Scan \cup {Idle}]
    /\ faults \in 0..MaxFaults

(* A run that reads EXECUTED has paid everyone on it, however many calls have
   worked on it, failed half-way, taken it over or been lost. *)
ExecutedRunsArePaid ==
    \A r \in Runs : runs[r].status = "EXECUTED" => runs[r].staff \subseteq paid[r]

(* For the first two minutes of the execution row, the call that has created it has
   the run to itself, whatever calls come, fail or are lost.  Afterwards the age says
   nothing about the creator: a call that finds the row old joins it. *)
FirstAttemptIsExclusive ==
    \A r \in Runs, v, w \in Workers :
        /\ Holds(v, r) /\ workers[v].made /\ ~executions[r].old
        /\ Holds(w, r)
        => v = w

(* A line that is recorded as executed has been paid, and whom a call has no
   longer on its list has been paid. *)
LinesArePaid ==
    /\ \A r \in Runs, e \in Employees : lines[r][e] = "EXECUTED" => e \in paid[r]
    /\ \A r \in Runs, w \in Workers : Holds(w, r) =>
          /\ workers[w].step = "pay" => runs[r].staff \ workers[w].todo \subseteq paid[r]
          /\ workers[w].step \in {"mark", "advance"} =>
                /\ workers[w].line \subseteq paid[r]
                /\ runs[r].staff \ workers[w].todo \subseteq paid[r]

(* Calls are about runs that exist. *)
CallsHaveRuns ==
    /\ \A w \in Workers : workers[w] # Idle => runs[workers[w].run] # NoRun
    /\ \A s \in Scanners : scans[s] # Idle => \A r \in scans[s].run : runs[r] # NoRun

(* What makes the first claim exclusive: while its row is fresh, it is pending, and the
   other calls on the run stand before their claim, none with the row read as old. *)
At(w, r) == workers[w] # Idle /\ workers[w].run = r

FirstClaim ==
    /\ \A r \in Runs : executions[r].status = "NONE" => ~executions[r].old
    /\ \A r \in Runs, w \in Workers : At(w, r) =>
          /\ workers[w].late => executions[r].old
          /\ executions[r].status = "NONE" => workers[w].step = "claim"
          /\ workers[w].made /\ ~executions[r].old =>
                /\ executions[r].status = "PENDING"
                /\ \A v \in Workers : At(v, r) /\ v # w => workers[v].step = "claim"

(* The inductive invariant behind both. *)
IInv == TypeOK /\ CallsHaveRuns /\ LinesArePaid /\ FirstClaim /\ ExecutedRunsArePaid

(* A batch made by hand does not stay approved once it is due: it is executed,
   or given up after its failures. *)
BatchDue(r) == /\ runs[r].status = "APPROVED"
               /\ ~runs[r].auto
               /\ runs[r].payDate <= today

BatchesEnd == \A r \in Runs : BatchDue(r) ~> ~BatchDue(r)

(* A line that is recorded as executed is not paid again. *)
PaysLine(w, e) == /\ workers[w].step = "pay"
                  /\ workers'[w].step = "mark"
                  /\ workers'[w].line = {e}

PaidLinesAreNotPaidAgain ==
    [][\A w \in Workers, e \in Employees :
          PaysLine(w, e) => lines[workers[w].run][e] # "EXECUTED"]_vars

(* Nothing prevents two calls from working on a run whose row is two minutes old or has
   failed; only while none do is a payment never repeated.  This is the invariant
   behind it: a call's list has nobody whose line is executed, but for the one
   it is just about to cross off. *)
CallsDoNotOverlap == \A r \in Runs, v, w \in Workers : At(v, r) /\ At(w, r) => v = w

ListsAreUnpaid ==
    \A w \in Workers : workers[w].step \in {"pay", "mark", "advance"} =>
        \A e \in workers[w].todo : lines[workers[w].run][e] = "EXECUTED" =>
            workers[w].step = "advance" /\ e \in workers[w].line
=============================================================================

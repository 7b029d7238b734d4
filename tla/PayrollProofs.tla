----------------------------- MODULE PayrollProofs ----------------------------
(* Proofs about Payroll: an executed run has paid everyone, and the first
   claim of a run is exclusive while its row is fresh, for any number of calls and
   employees. *)
EXTENDS Payroll, TLAPS

USE PayrollAssumption

-----------------------------------------------------------------------------
(* Calls. *)

Steps == {"claim", "reset"} \cup Holding

(* A worker with a step of a run has a task, and the run exists. *)
LEMMA StepsAreTasks ==
  ASSUME IInv, NEW w \in Workers, workers[w] # Idle
  PROVE  /\ workers[w] \in Task
         /\ workers[w].run \in Runs
         /\ runs[workers[w].run] \in PayrollRun
         /\ runs[workers[w].run] # NoRun
<1>1. workers[w] \in Task
  BY DEF IInv, TypeOK
<1>2. workers[w].run \in Runs
  BY <1>1 DEF Task
<1>3. runs[workers[w].run] # NoRun
  BY DEF IInv, CallsHaveRuns
<1> QED
  BY <1>1, <1>2, <1>3 DEF IInv, TypeOK

LEMMA StepIsBusy ==
  ASSUME NEW w \in Workers, workers[w].step \in Steps
  PROVE  workers[w] # Idle
BY DEF Idle, Steps, Holding

(* A worker whose task becomes k. *)
Becomes(w, k) == workers' = [workers EXCEPT ![w] = k]

LEMMA BecomesType ==
  ASSUME TypeOK, NEW w \in Workers, NEW k \in Task \cup {Idle}, Becomes(w, k)
  PROVE  /\ workers' \in [Workers -> Task \cup {Idle}]
         /\ workers'[w] = k
         /\ \A v \in Workers : v # w => workers'[v] = workers[v]
BY DEF TypeOK, Becomes

(* A worker that goes on with its run keeps the run, and what it knows of the row. *)
SameCall(w, k) == /\ k \in Task
                  /\ k.run = workers[w].run
                  /\ k.late = workers[w].late
                  /\ k.made = workers[w].made

LEMMA SameCallFrame ==
  ASSUME TypeOK, NEW w \in Workers, NEW k, Becomes(w, k), SameCall(w, k) \/ k = Idle,
         workers[w] # Idle, NEW v \in Workers
  PROVE  /\ workers'[v] # Idle => /\ workers[v] # Idle
                                  /\ workers'[v].run = workers[v].run
                                  /\ workers'[v].late = workers[v].late
                                  /\ workers'[v].made = workers[v].made
         /\ \A r : At(v, r)' => At(v, r)
         /\ v # w => workers'[v] = workers[v]
<1>1. k \in Task \cup {Idle}
  BY DEF SameCall
<1>2. workers'[w] = k /\ (v # w => workers'[v] = workers[v])
  BY <1>1, BecomesType
<1>3. workers'[v] # Idle => /\ workers[v] # Idle
                            /\ workers'[v].run = workers[v].run
                            /\ workers'[v].late = workers[v].late
                            /\ workers'[v].made = workers[v].made
  BY <1>2 DEF SameCall
<1> QED
  BY <1>2, <1>3 DEF At

LEMMA CallsKept ==
  ASSUME IInv, NEW w \in Workers, NEW k, Becomes(w, k), SameCall(w, k) \/ k = Idle,
         workers[w] # Idle, scans' = scans,
         \A r \in Runs : runs[r] # NoRun => runs'[r] # NoRun
  PROVE  CallsHaveRuns'
<1>1. \A v \in Workers : workers'[v] # Idle =>
         workers[v] # Idle /\ workers'[v].run = workers[v].run
  BY SameCallFrame DEF IInv
<1>2. \A v \in Workers : workers[v] # Idle => workers[v].run \in Runs
  BY StepsAreTasks
<1>3. \A s \in Scanners : scans[s] # Idle => scans[s].run \subseteq Runs
  BY DEF IInv, TypeOK, Scan
<1> QED
  BY <1>1, <1>2, <1>3 DEF IInv, CallsHaveRuns

(* The first claim is kept by a step that leaves the rows alone and moves no call out
   of its claim. *)
LEMMA FirstClaimKept ==
  ASSUME IInv, NEW w \in Workers, NEW k, Becomes(w, k), SameCall(w, k) \/ k = Idle,
         workers[w] # Idle, workers[w].step = "claim" => k = Idle,
         executions' = executions
  PROVE  FirstClaim'
<1>1. \A v \in Workers, r \in Runs : At(v, r)' =>
         /\ At(v, r)
         /\ workers'[v].late = workers[v].late
         /\ workers'[v].made = workers[v].made
         /\ workers[v].step = "claim" => workers'[v].step = "claim"
  <2> SUFFICES ASSUME NEW v \in Workers, NEW r \in Runs, At(v, r)'
               PROVE  /\ At(v, r)
                      /\ workers'[v].late = workers[v].late
                      /\ workers'[v].made = workers[v].made
                      /\ workers[v].step = "claim" => workers'[v].step = "claim"
    OBVIOUS
  <2>1. workers'[v] # Idle
    BY DEF At
  <2>2. k \in Task \cup {Idle}
    BY DEF SameCall
  <2>3. v = w => workers'[v] = k
    BY <2>2, BecomesType DEF IInv
  <2> QED
    BY <2>1, <2>3, SameCallFrame DEF IInv
<1> QED
  BY <1>1 DEF IInv, FirstClaim

-----------------------------------------------------------------------------
(* The lines of a run. *)

(* A step of a call that holds its run: what the call claims to have paid is
   paid, and so is every executed line. *)
LEMMA LineStep ==
  ASSUME IInv, NEW w \in Workers, workers[w].step \in Holding,
         NEW k, Becomes(w, k), SameCall(w, k), k.step \in Holding,
         UNCHANGED <<runs, executions, scans>>,
         \A r \in Runs : paid[r] \subseteq paid'[r],
         \A r \in Runs, e \in Employees : lines'[r][e] = "EXECUTED" => e \in paid'[r],
         k.step = "pay" => runs[k.run].staff \ k.todo \subseteq paid'[k.run],
         k.step \in {"mark", "advance"} =>
            /\ k.line \subseteq paid'[k.run]
            /\ runs[k.run].staff \ k.todo \subseteq paid'[k.run]
  PROVE  /\ workers' \in [Workers -> Task \cup {Idle}]
         /\ CallsHaveRuns' /\ FirstClaim' /\ LinesArePaid' /\ ExecutedRunsArePaid'
<1>1. workers[w] # Idle /\ workers[w].step # "claim"
  BY StepIsBusy DEF Steps, Holding
<1>2. k \in Task
  BY DEF SameCall
<1>3. /\ workers' \in [Workers -> Task \cup {Idle}]
      /\ workers'[w] = k
      /\ \A v \in Workers : v # w => workers'[v] = workers[v]
  BY <1>2, BecomesType DEF IInv
<1>4. CallsHaveRuns'
  BY <1>1, CallsKept
<1>5. FirstClaim'
  BY <1>1, FirstClaimKept
<1>6. ASSUME NEW r \in Runs, NEW v \in Workers, Holds(v, r)'
      PROVE  /\ workers'[v].step = "pay" => runs[r].staff \ workers'[v].todo \subseteq paid'[r]
             /\ workers'[v].step \in {"mark", "advance"} =>
                   /\ workers'[v].line \subseteq paid'[r]
                   /\ runs[r].staff \ workers'[v].todo \subseteq paid'[r]
  <2>1. CASE v = w
    BY <1>3, <1>6, <2>1 DEF Holds
  <2>2. CASE v # w
    <3>1. Holds(v, r) /\ workers'[v] = workers[v]
      BY <1>3, <1>6, <2>2 DEF Holds
    <3>2. /\ workers[v].step = "pay" => runs[r].staff \ workers[v].todo \subseteq paid[r]
          /\ workers[v].step \in {"mark", "advance"} =>
                /\ workers[v].line \subseteq paid[r]
                /\ runs[r].staff \ workers[v].todo \subseteq paid[r]
      BY <3>1 DEF IInv, LinesArePaid
    <3>3. paid[r] \subseteq paid'[r]
      OBVIOUS
    <3> QED
      BY <3>1, <3>2, <3>3
  <2> QED
    BY <2>1, <2>2
<1>7. LinesArePaid'
  BY <1>6 DEF LinesArePaid
<1>8. ExecutedRunsArePaid'
  BY DEF IInv, ExecutedRunsArePaid
<1> QED
  BY <1>3, <1>4, <1>5, <1>7, <1>8

(* Inv is the part of the invariant that each action is shown to keep. *)
Parts == CallsHaveRuns /\ FirstClaim /\ LinesArePaid /\ ExecutedRunsArePaid

LEMMA RejectStep ==
  ASSUME IInv, NEW w \in Workers,
         \/ RejectRun(w)
         \/ \E e \in Employees : RefuseLine(w, e)
         \/ RecordingFails(w)
  PROVE  TypeOK' /\ Parts'
<1>1. workers[w].step \in Holding /\ workers[w] # Idle
  BY StepIsBusy DEF RejectRun, RefuseLine, RecordingFails, Holding, Steps
<1>2. workers[w] \in Task
  BY <1>1, StepsAreTasks
<1>3. PICK k \in Task : Becomes(w, k) /\ SameCall(w, k) /\ k.step \in {"failline", "failrun"}
  <2>1. CASE RejectRun(w)
    <3> DEFINE k == [workers[w] EXCEPT !.step = "failrun"]
    <3>1. Becomes(w, k)
      BY <2>1 DEF RejectRun, Goto, Becomes
    <3>2. k \in Task /\ SameCall(w, k) /\ k.step = "failrun"
      BY <1>2 DEF SameCall, Task, Holding
    <3> HIDE DEF k
    <3> QED
      BY <3>1, <3>2
  <2>2. CASE \E e \in Employees : RefuseLine(w, e)
    <3>1. PICK e \in Employees : RefuseLine(w, e)
      BY <2>2
    <3> DEFINE k == [workers[w] EXCEPT !.step = "failline", !.line = {e}]
    <3>2. Becomes(w, k)
      BY <3>1 DEF RefuseLine, Becomes, IInv, TypeOK
    <3>3. k \in Task /\ SameCall(w, k) /\ k.step = "failline"
      BY <1>2 DEF SameCall, Task, Holding
    <3> HIDE DEF k
    <3> QED
      BY <3>2, <3>3
  <2>3. CASE RecordingFails(w)
    <3> DEFINE k == [workers[w] EXCEPT !.step = "failline"]
    <3>1. Becomes(w, k)
      BY <2>3 DEF RecordingFails, Goto, Becomes
    <3>2. k \in Task /\ SameCall(w, k) /\ k.step = "failline"
      BY <1>2 DEF SameCall, Task, Holding
    <3> HIDE DEF k
    <3> QED
      BY <3>1, <3>2
  <2> QED
    BY <2>1, <2>2, <2>3
<1>4. /\ UNCHANGED <<today, nextPayDate, runs, executions, lines, paid, scans>>
      /\ faults' \in 0..MaxFaults
  BY DEF RejectRun, RefuseLine, RecordingFails, IInv, TypeOK
<1>5. \A r \in Runs, e \in Employees : lines'[r][e] = "EXECUTED" => e \in paid'[r]
  BY <1>4 DEF IInv, LinesArePaid
<1>6. workers' \in [Workers -> Task \cup {Idle}] /\ Parts'
  BY <1>1, <1>3, <1>4, <1>5, LineStep DEF Holding, Parts
<1> QED
  BY <1>4, <1>6 DEF IInv, TypeOK

LEMMA PayStep ==
  ASSUME IInv, NEW w \in Workers, NEW e \in Employees, PayLine(w, e)
  PROVE  TypeOK' /\ Parts'
<1>1. /\ workers[w].step \in Holding /\ workers[w] # Idle
      /\ workers[w].step = "pay"
  BY StepIsBusy DEF PayLine, Holding, Steps
<1>2. workers[w] \in Task /\ workers[w].run \in Runs
  BY <1>1, StepsAreTasks
<1> DEFINE k == [workers[w] EXCEPT !.step = "mark", !.line = {e}]
           q == workers[w].run
<1>3. Becomes(w, k)
  BY DEF PayLine, Becomes, IInv, TypeOK
<1>4. /\ SameCall(w, k) /\ k \in Task
      /\ k.step = "mark" /\ k.run = q /\ k.line = {e} /\ k.todo = workers[w].todo
  BY <1>2 DEF SameCall, Task, Holding
<1>5. /\ UNCHANGED <<today, nextPayDate, runs, executions, lines, scans, faults>>
      /\ paid' = [paid EXCEPT ![q] = @ \cup {e}]
  BY DEF PayLine
<1>6. /\ paid' \in [Runs -> SUBSET Employees]
      /\ paid'[q] = paid[q] \cup {e}
      /\ \A r \in Runs : paid[r] \subseteq paid'[r]
  <2> HIDE DEF k, q
  <2>1. paid \in [Runs -> SUBSET Employees] /\ q \in Runs
    BY <1>2 DEF IInv, TypeOK, q
  <2> QED
    BY <1>5, <2>1
<1>7. runs[q].staff \ workers[w].todo \subseteq paid[q]
  BY <1>1, <1>2 DEF IInv, LinesArePaid, Holds
<1> HIDE DEF k, q
<1>8. \A r \in Runs, f \in Employees : lines'[r][f] = "EXECUTED" => f \in paid'[r]
  BY <1>5, <1>6 DEF IInv, LinesArePaid
<1>9. runs[k.run].staff \ k.todo \subseteq paid'[k.run] /\ k.line \subseteq paid'[k.run]
  BY <1>4, <1>6, <1>7
<1>10. k.step \in Holding
  BY <1>4 DEF Holding
<1>11. workers' \in [Workers -> Task \cup {Idle}] /\ Parts'
  BY <1>1, <1>3, <1>4, <1>5, <1>6, <1>8, <1>9, <1>10, LineStep DEF Parts
<1> QED
  BY <1>5, <1>6, <1>11 DEF IInv, TypeOK

(* Lines are read: what a call does not have to pay has been recorded as paid. *)
LEMMA ReadLinesStep ==
  ASSUME IInv, NEW w \in Workers, ReadLines(w)
  PROVE  TypeOK' /\ Parts'
<1>1. workers[w].step \in Holding /\ workers[w] # Idle
  BY StepIsBusy DEF ReadLines, Holding, Steps
<1>2. /\ workers[w] \in Task /\ workers[w].run \in Runs
      /\ runs[workers[w].run] \in PayrollRun
  BY <1>1, StepsAreTasks
<1> DEFINE q == workers[w].run
           todo == {e \in runs[q].staff : lines[q][e] # "EXECUTED"}
           k == [workers[w] EXCEPT !.step = "pay", !.todo = todo]
           row(e) == IF e \in runs[q].staff /\ lines[q][e] = "NONE" THEN "PENDING" ELSE lines[q][e]
<1>3. Becomes(w, k)
  BY DEF ReadLines, Becomes, IInv, TypeOK
<1>4. runs[q].staff \subseteq Employees
  BY <1>2 DEF PayrollRun
<1>5. /\ SameCall(w, k) /\ k \in Task
      /\ k.step = "pay" /\ k.run = q /\ k.todo = todo
  <2>1. todo \subseteq Employees
    BY <1>4
  <2> HIDE DEF todo
  <2> QED
    BY <1>2, <2>1 DEF SameCall, Task, Holding
<1>6. /\ UNCHANGED <<today, nextPayDate, runs, executions, paid, scans, faults>>
      /\ lines' = [lines EXCEPT ![q] = [e \in Employees |-> row(e)]]
  BY <1>2 DEF ReadLines, IInv, TypeOK
<1>7. /\ lines \in [Runs -> [Employees -> {"NONE", "PENDING", "EXECUTED", "FAILED"}]]
      /\ q \in Runs
  BY <1>2 DEF IInv, TypeOK
<1>8. \A e \in Employees : /\ row(e) \in {"NONE", "PENDING", "EXECUTED", "FAILED"}
                           /\ row(e) = "EXECUTED" => lines[q][e] = "EXECUTED"
  BY <1>7
<1> HIDE DEF row
<1>9. /\ lines' \in [Runs -> [Employees -> {"NONE", "PENDING", "EXECUTED", "FAILED"}]]
      /\ \A e \in Employees : lines'[q][e] = row(e)
      /\ \A r \in Runs : r # q => lines'[r] = lines[r]
  BY <1>6, <1>7, <1>8
<1>10. \A r \in Runs, e \in Employees : lines'[r][e] = "EXECUTED" => e \in paid'[r]
  BY <1>6, <1>8, <1>9 DEF IInv, LinesArePaid
<1>11. runs[q].staff \ todo \subseteq paid'[q]
  BY <1>4, <1>6, <1>7 DEF IInv, LinesArePaid
<1> HIDE DEF k, q, todo
<1>12. k.step \in Holding /\ k.step \notin {"mark", "advance"}
  BY <1>5 DEF Holding
<1>13. workers' \in [Workers -> Task \cup {Idle}] /\ Parts'
  BY <1>1, <1>3, <1>5, <1>6, <1>10, <1>11, <1>12, LineStep DEF Parts
<1> QED
  BY <1>6, <1>9, <1>13 DEF IInv, TypeOK

(* A line is recorded: as executed by the call that has paid it, or as failed. *)
LEMMA RecordLineStep ==
  ASSUME IInv, NEW w \in Workers, MarkLine(w) \/ FailLine(w)
  PROVE  TypeOK' /\ Parts'
<1>1. /\ workers[w].step \in Holding /\ workers[w] # Idle
      /\ workers[w].step \in {"mark", "failline"}
  BY StepIsBusy DEF MarkLine, FailLine, Holding, Steps
<1>2. workers[w] \in Task /\ workers[w].run \in Runs
  BY <1>1, StepsAreTasks
<1> DEFINE q == workers[w].run
           line == workers[w].line
<1>3. PICK step \in {"advance", "failrun"}, status \in {"EXECUTED", "FAILED"} :
         /\ Becomes(w, [workers[w] EXCEPT !.step = step])
         /\ lines' = [lines EXCEPT ![q] = [e \in Employees |->
                         IF e \in line THEN status ELSE lines[q][e]]]
         /\ status = "EXECUTED" \/ step = "advance" => workers[w].step = "mark"
  <2>1. lines[q] = lines[workers[w].run]
    OBVIOUS
  <2>2. CASE MarkLine(w)
    BY <1>2, <2>2 DEF MarkLine, SetLine, Goto, Becomes, IInv, TypeOK
  <2>3. CASE FailLine(w)
    BY <1>2, <2>3 DEF FailLine, SetLine, Goto, Becomes, IInv, TypeOK
  <2> QED
    BY <2>2, <2>3
<1> DEFINE k == [workers[w] EXCEPT !.step = step]
           row(e) == IF e \in line THEN status ELSE lines[q][e]
<1>4. /\ SameCall(w, k) /\ k \in Task
      /\ k.step = step /\ k.run = q /\ k.line = line /\ k.todo = workers[w].todo
  BY <1>2 DEF SameCall, Task, Holding
<1>5. UNCHANGED <<today, nextPayDate, runs, executions, paid, scans, faults>>
  BY DEF MarkLine, FailLine
<1>6. workers[w].step = "mark" => /\ line \subseteq paid[q]
                                  /\ runs[q].staff \ workers[w].todo \subseteq paid[q]
  BY <1>1, <1>2 DEF IInv, LinesArePaid, Holds
<1>7. /\ lines \in [Runs -> [Employees -> {"NONE", "PENDING", "EXECUTED", "FAILED"}]]
      /\ q \in Runs
  BY <1>2 DEF IInv, TypeOK
<1>8. \A e \in Employees : /\ row(e) \in {"NONE", "PENDING", "EXECUTED", "FAILED"}
                           /\ row(e) = "EXECUTED" => e \in paid[q]
  BY <1>3, <1>6, <1>7 DEF IInv, LinesArePaid
<1>9. lines' = [lines EXCEPT ![q] = [e \in Employees |-> row(e)]]
  BY <1>3
<1> HIDE DEF row
<1>10. /\ lines' \in [Runs -> [Employees -> {"NONE", "PENDING", "EXECUTED", "FAILED"}]]
       /\ \A e \in Employees : lines'[q][e] = row(e)
       /\ \A r \in Runs : r # q => lines'[r] = lines[r]
  BY <1>7, <1>8, <1>9
<1>11. \A r \in Runs, e \in Employees : lines'[r][e] = "EXECUTED" => e \in paid'[r]
  BY <1>5, <1>8, <1>10 DEF IInv, LinesArePaid
<1>12. Becomes(w, k)
  BY <1>3
<1> HIDE DEF k, q, line
<1>13. /\ k.step \in Holding /\ k.step # "pay"
       /\ k.step \in {"mark", "advance"} =>
             /\ k.line \subseteq paid'[k.run]
             /\ runs[k.run].staff \ k.todo \subseteq paid'[k.run]
  BY <1>3, <1>4, <1>5, <1>6 DEF Holding
<1>14. workers' \in [Workers -> Task \cup {Idle}] /\ Parts'
  BY <1>1, <1>4, <1>5, <1>11, <1>12, <1>13, LineStep DEF Parts
<1> QED
  BY <1>5, <1>10, <1>14 DEF IInv, TypeOK

LEMMA AdvanceStep ==
  ASSUME IInv, NEW w \in Workers, AdvanceEmployee(w)
  PROVE  TypeOK' /\ Parts'
<1>1. /\ workers[w].step \in Holding /\ workers[w] # Idle
      /\ workers[w].step = "advance"
  BY StepIsBusy DEF AdvanceEmployee, Holding, Steps
<1>2. workers[w] \in Task /\ workers[w].run \in Runs
  BY <1>1, StepsAreTasks
<1> DEFINE q == workers[w].run
           k == [workers[w] EXCEPT !.step = "pay", !.todo = @ \ workers[w].line]
<1>3. Becomes(w, k)
  BY DEF AdvanceEmployee, Becomes, IInv, TypeOK
<1>4. /\ SameCall(w, k) /\ k \in Task
      /\ k.step = "pay" /\ k.run = q /\ k.todo = workers[w].todo \ workers[w].line
  <2>1. workers[w].todo \ workers[w].line \subseteq Employees
    BY <1>2 DEF Task
  <2> QED
    BY <1>2, <2>1 DEF SameCall, Task, Holding
<1>5. /\ UNCHANGED <<today, runs, executions, lines, paid, scans, faults>>
      /\ nextPayDate' = [e \in Employees |-> IF e \in workers[w].line
                                             THEN workers[w].begun + 1 ELSE nextPayDate[e]]
  BY DEF AdvanceEmployee
<1>6. nextPayDate' \in [Employees -> Dates]
  <2>1. workers[w].begun + 1 \in Dates
    BY <1>2 DEF Task, Dates
  <2>2. nextPayDate \in [Employees -> Dates]
    BY DEF IInv, TypeOK
  <2> QED
    BY <1>5, <2>1, <2>2
<1>7. runs[q].staff \ k.todo \subseteq paid'[q]
  BY <1>1, <1>2, <1>4, <1>5 DEF IInv, LinesArePaid, Holds
<1>8. \A r \in Runs, e \in Employees : lines'[r][e] = "EXECUTED" => e \in paid'[r]
  BY <1>5 DEF IInv, LinesArePaid
<1> HIDE DEF k, q
<1>9. k.step \in Holding /\ k.step \notin {"mark", "advance"}
  BY <1>4 DEF Holding
<1>10. workers' \in [Workers -> Task \cup {Idle}] /\ Parts'
  BY <1>1, <1>3, <1>4, <1>5, <1>7, <1>8, <1>9, LineStep DEF Parts
<1> QED
  BY <1>5, <1>6, <1>10 DEF IInv, TypeOK

-----------------------------------------------------------------------------
(* Claims. *)

(* A step that pays nothing and records no line keeps what is known of lines, if no
   call comes to stand before a payment. *)
LEMMA LinesKept ==
  ASSUME IInv, UNCHANGED <<lines, paid>>,
         \A r \in Runs : runs[r] # NoRun => runs'[r].staff = runs[r].staff,
         \A v \in Workers : workers'[v] = workers[v] \/ workers'[v].step \in {"claim", "reset", "lines", "idle"}
  PROVE  LinesArePaid'
<1>1. \A r \in Runs, v \in Workers : Holds(v, r)' /\ workers'[v].step \in {"pay", "mark", "advance"} =>
         Holds(v, r) /\ workers'[v] = workers[v] /\ runs'[r].staff = runs[r].staff
  <2> SUFFICES ASSUME NEW r \in Runs, NEW v \in Workers, Holds(v, r)',
                      workers'[v].step \in {"pay", "mark", "advance"}
               PROVE  Holds(v, r) /\ workers'[v] = workers[v] /\ runs'[r].staff = runs[r].staff
    OBVIOUS
  <2>1. workers'[v] = workers[v] /\ Holds(v, r)
    BY DEF Holds
  <2>2. workers[v] # Idle
    BY <2>1, StepIsBusy DEF Holds, Steps
  <2>3. runs[r] # NoRun
    BY <2>1, <2>2, StepsAreTasks DEF Holds
  <2> QED
    BY <2>1, <2>3
<1> QED
  BY <1>1 DEF IInv, LinesArePaid

LEMMA ListRunStep ==
  ASSUME IInv, NEW w \in Workers, NEW r \in Runs, ListRun(w, r)
  PROVE  TypeOK' /\ Parts'
<1>1. runs[r] # NoRun /\ runs[r] \in PayrollRun
  <2>1. runs[r].status = "APPROVED"
    BY DEF ListRun
  <2>2. runs[r] # NoRun
    BY <2>1 DEF NoRun
  <2> QED
    BY <2>2 DEF IInv, TypeOK
<1>2. runs[r].failures \in Nat /\ today \in 0..Horizon /\ executions[r] \in Execution
  BY <1>1 DEF PayrollRun, IInv, TypeOK
<1> DEFINE k == [step |-> "claim", run |-> r, failures |-> runs[r].failures, begun |-> today,
                 late |-> executions[r].old, made |-> FALSE, todo |-> {}, line |-> {}]
<1>3. k \in Task /\ Becomes(w, k)
  BY <1>2 DEF Task, Execution, ListRun, Becomes
<1>4. /\ k.step = "claim" /\ k.run = r /\ k.late = executions[r].old /\ k.made = FALSE
      /\ k # Idle
  BY DEF Idle
<1> HIDE DEF k
<1>5. /\ workers' \in [Workers -> Task \cup {Idle}]
      /\ workers'[w] = k
      /\ \A v \in Workers : v # w => workers'[v] = workers[v]
  BY <1>3, BecomesType DEF IInv
<1>6. UNCHANGED <<today, nextPayDate, runs, executions, lines, paid, scans, faults>>
  BY DEF ListRun
<1>7. TypeOK'
  BY <1>5, <1>6 DEF IInv, TypeOK
<1>8. CallsHaveRuns'
  BY <1>1, <1>4, <1>5, <1>6 DEF IInv, CallsHaveRuns
<1>9. LinesArePaid'
  BY <1>4, <1>5, <1>6, LinesKept
<1>10. FirstClaim'
  <2> SUFFICES ASSUME NEW q \in Runs, NEW v \in Workers, At(v, q)'
               PROVE  /\ workers'[v].late => executions[q].old
                      /\ executions[q].status = "NONE" => workers'[v].step = "claim"
                      /\ workers'[v].made /\ ~executions[q].old =>
                            /\ executions[q].status = "PENDING"
                            /\ \A u \in Workers : At(u, q)' /\ u # v => workers'[u].step = "claim"
    BY <1>6 DEF IInv, FirstClaim
  <2>1. CASE v = w
    <3>1. q = r
      BY <1>4, <1>5, <2>1 DEF At
    <3> QED
      BY <1>4, <1>5, <2>1, <3>1
  <2>2. CASE v # w
    <3>1. At(v, q) /\ workers'[v] = workers[v]
      BY <1>5, <2>2 DEF At
    <3>2. \A u \in Workers : At(u, q)' /\ u # w => At(u, q) /\ workers'[u] = workers[u]
      BY <1>5 DEF At
    <3> QED
      BY <1>4, <1>5, <3>1, <3>2 DEF IInv, FirstClaim
  <2> QED
    BY <2>1, <2>2
<1>11. ExecutedRunsArePaid'
  BY <1>6 DEF IInv, ExecutedRunsArePaid
<1> QED
  BY <1>7, <1>8, <1>9, <1>10, <1>11 DEF Parts

LEMMA CreateExecutionStep ==
  ASSUME IInv, NEW w \in Workers, CreateExecution(w)
  PROVE  TypeOK' /\ Parts'
<1>1. workers[w] # Idle /\ workers[w].step = "claim"
  BY StepIsBusy DEF CreateExecution, Steps
<1>2. workers[w] \in Task /\ workers[w].run \in Runs
  BY <1>1, StepsAreTasks
<1> DEFINE q == workers[w].run
           k == [workers[w] EXCEPT !.step = "lines", !.made = TRUE]
<1>3. Becomes(w, k)
  BY DEF CreateExecution, Becomes, IInv, TypeOK
<1>4. k \in Task /\ k.step = "lines" /\ k.run = q /\ k.late = workers[w].late
  BY <1>2 DEF Task, Holding
<1>5. /\ executions[q].status = "NONE"
      /\ executions' = [executions EXCEPT ![q] = [executions[q] EXCEPT !.status = "PENDING"]]
      /\ UNCHANGED <<today, nextPayDate, runs, lines, paid, scans, faults>>
  BY DEF CreateExecution
<1>6. At(w, q)
  BY <1>1 DEF At
<1> HIDE DEF k, q
<1>7. /\ workers' \in [Workers -> Task \cup {Idle}]
      /\ workers'[w] = k
      /\ \A v \in Workers : v # w => workers'[v] = workers[v]
  BY <1>3, <1>4, BecomesType DEF IInv
<1>8. q \in Runs /\ executions \in [Runs -> Execution] /\ executions[q] \in Execution
  BY <1>2 DEF IInv, TypeOK, q
<1>9. /\ executions' \in [Runs -> Execution]
      /\ executions'[q].status = "PENDING" /\ executions'[q].old = executions[q].old
      /\ \A r \in Runs : r # q => executions'[r] = executions[r]
  <2>1. /\ [executions[q] EXCEPT !.status = "PENDING"] \in Execution
        /\ [executions[q] EXCEPT !.status = "PENDING"].status = "PENDING"
        /\ [executions[q] EXCEPT !.status = "PENDING"].old = executions[q].old
    BY <1>8 DEF Execution
  <2> QED
    BY <1>5, <1>8, <2>1
<1>10. TypeOK'
  BY <1>5, <1>7, <1>9 DEF IInv, TypeOK
<1>11. CallsHaveRuns'
  BY <1>1, <1>4, <1>5, <1>7 DEF IInv, CallsHaveRuns, q
<1>12. LinesArePaid'
  BY <1>4, <1>5, <1>7, LinesKept
<1>13. ~executions[q].old /\ \A v \in Workers : At(v, q) => workers[v].step = "claim" /\ ~workers[v].late
  BY <1>5, <1>8 DEF IInv, FirstClaim
<1>14. \A r \in Runs, v \in Workers : At(v, r)' => At(v, r)
  BY <1>4, <1>6, <1>7 DEF At
<1>15. FirstClaim'
  <2>1. \A r \in Runs : executions'[r].status = "NONE" => ~executions'[r].old
    BY <1>9 DEF IInv, FirstClaim
  <2>2. ASSUME NEW r \in Runs, NEW v \in Workers, At(v, r)'
        PROVE  /\ workers'[v].late => executions'[r].old
               /\ executions'[r].status = "NONE" => workers'[v].step = "claim"
               /\ workers'[v].made /\ ~executions'[r].old =>
                     /\ executions'[r].status = "PENDING"
                     /\ \A u \in Workers : At(u, r)' /\ u # v => workers'[u].step = "claim"
    <3>1. CASE r # q
      <4>1. v # w /\ At(v, r) /\ \A u \in Workers : At(u, r)' => u # w /\ At(u, r)
        BY <1>4, <1>7, <1>14, <2>2, <3>1 DEF At
      <4> QED
        BY <1>7, <1>9, <3>1, <4>1 DEF IInv, FirstClaim
    <3>2. CASE r = q
      <4>1. \A u \in Workers : At(u, r)' /\ u # w => workers'[u].step = "claim"
        BY <1>7, <1>13, <1>14, <3>2
      <4>2. v # w => ~workers[v].made
        BY <1>5, <1>14, <2>2, <3>2 DEF IInv, FirstClaim
      <4>3. ~workers'[v].late
        BY <1>4, <1>6, <1>7, <1>13, <1>14, <2>2, <3>2
      <4>4. workers'[v].made => v = w
        BY <1>7, <4>2
      <4>5. executions'[r].status = "PENDING" /\ ~executions'[r].old
        BY <1>9, <1>13, <3>2
      <4> QED
        BY <4>1, <4>3, <4>4, <4>5
    <3> QED
      BY <3>1, <3>2
  <2> QED
    BY <2>1, <2>2 DEF FirstClaim
<1>16. ExecutedRunsArePaid'
  BY <1>5 DEF IInv, ExecutedRunsArePaid
<1> QED
  BY <1>10, <1>11, <1>12, <1>15, <1>16 DEF Parts

(* The row found pending is old, or the row found failed: in both cases the call that
   has created it is over. *)
LEMMA FindExecutionStep ==
  ASSUME IInv, NEW w \in Workers, FindExecution(w)
  PROVE  TypeOK' /\ Parts'
<1>1. workers[w] # Idle /\ workers[w].step = "claim"
  BY StepIsBusy DEF FindExecution, Steps
<1>2. workers[w] \in Task /\ workers[w].run \in Runs
  BY <1>1, StepsAreTasks
<1> DEFINE q == workers[w].run
<1>3. UNCHANGED <<today, nextPayDate, runs, executions, lines, paid, scans, faults>>
  BY DEF FindExecution
<1>4. At(w, q)
  BY <1>1 DEF At
<1>5. PICK k \in Task \cup {Idle} :
         /\ Becomes(w, k)
         /\ k # Idle => /\ SameCall(w, k) /\ k.step \in {"lines", "reset"}
                        /\ executions[q].status # "NONE"
                        /\ executions[q].status = "PENDING" => workers[w].late
  <2>1. CASE Return(w)
    BY <2>1 DEF Return, Becomes
  <2>2. ASSUME NEW step \in {"lines", "reset"}, Goto(w, step),
               executions[q].status # "NONE",
               executions[q].status = "PENDING" => workers[w].late
        PROVE  \E k \in Task \cup {Idle} :
                  /\ Becomes(w, k)
                  /\ k # Idle => /\ SameCall(w, k) /\ k.step \in {"lines", "reset"}
                                 /\ executions[q].status # "NONE"
                                 /\ executions[q].status = "PENDING" => workers[w].late
    <3> DEFINE k == [workers[w] EXCEPT !.step = step]
    <3>1. Becomes(w, k)
      BY <2>2 DEF Goto, Becomes
    <3>2. k \in Task /\ SameCall(w, k) /\ k.step \in {"lines", "reset"}
      BY <1>2 DEF SameCall, Task, Holding
    <3> HIDE DEF k
    <3> QED
      BY <2>2, <3>1, <3>2
  <2> QED
    BY <2>1, <2>2 DEF FindExecution
<1>6. k = Idle \/ SameCall(w, k)
  BY <1>5
<1>7. /\ workers' \in [Workers -> Task \cup {Idle}]
      /\ workers'[w] = k
      /\ \A v \in Workers : v # w => workers'[v] = workers[v]
  BY <1>5, BecomesType DEF IInv
<1>8. TypeOK'
  BY <1>3, <1>7 DEF IInv, TypeOK
<1>9. CallsHaveRuns'
  BY <1>1, <1>3, <1>5, <1>6, CallsKept
<1>10. LinesArePaid'
  BY <1>3, <1>5, <1>7, LinesKept DEF Idle
<1>11. k # Idle =>
          \A v \in Workers : At(v, q) => ~workers[v].made \/ executions[q].old
  BY <1>2, <1>4, <1>5 DEF IInv, FirstClaim
<1>12. FirstClaim'
  <2>1. ASSUME NEW r \in Runs, NEW v \in Workers, At(v, r)'
        PROVE  /\ workers'[v].late => executions[r].old
               /\ executions[r].status = "NONE" => workers'[v].step = "claim"
               /\ workers'[v].made /\ ~executions[r].old =>
                     /\ executions[r].status = "PENDING"
                     /\ \A u \in Workers : At(u, r)' /\ u # v => workers'[u].step = "claim"
    <3>1. /\ At(v, r) /\ workers'[v].late = workers[v].late /\ workers'[v].made = workers[v].made
          /\ v # w => workers'[v] = workers[v]
      BY <1>1, <1>5, <1>6, <2>1, SameCallFrame DEF IInv, At
    <3>2. \A u \in Workers : At(u, r)' => At(u, r)
      BY <1>1, <1>5, <1>6, SameCallFrame DEF IInv
    <3>3. v = w \/ At(w, r)' => r = q /\ k # Idle
      BY <1>7, <2>1, <3>1, <3>2 DEF At
    <3>4. v = w => ~workers'[v].made \/ executions[r].old
      BY <1>2, <1>4, <1>11, <2>1, <3>1, <3>3 DEF Task
    <3>5. At(w, r)' => ~workers[v].made \/ executions[r].old
      BY <1>11, <3>1, <3>3
    <3> QED
      BY <1>5, <1>7, <3>1, <3>2, <3>3, <3>4, <3>5 DEF IInv, FirstClaim
  <2> QED
    BY <1>3, <2>1 DEF IInv, FirstClaim
<1>13. ExecutedRunsArePaid'
  BY <1>3 DEF IInv, ExecutedRunsArePaid
<1> QED
  BY <1>8, <1>9, <1>10, <1>12, <1>13 DEF Parts

(* A call past its claim writes the row: nobody else has made it, if it is fresh. *)
LEMMA RowStep ==
  ASSUME IInv, NEW w \in Workers, workers[w].step \in Steps \ {"claim"},
         NEW k, Becomes(w, k), SameCall(w, k) \/ k = Idle,
         NEW status \in {"PENDING", "EXECUTED", "FAILED"},
         executions' = [executions EXCEPT ![workers[w].run].status = status],
         k # Idle => status = "PENDING"
  PROVE  executions' \in [Runs -> Execution] /\ FirstClaim'
<1> DEFINE q == workers[w].run
<1>1. workers[w] # Idle
  BY StepIsBusy
<1>2. q \in Runs /\ At(w, q) /\ workers[w].step # "claim"
  BY <1>1, StepsAreTasks DEF At
<1>3. executions \in [Runs -> Execution] /\ executions[q] \in Execution
  BY <1>2 DEF IInv, TypeOK
<1> HIDE DEF q
<1>4. /\ executions' \in [Runs -> Execution]
      /\ executions'[q].status = status /\ executions'[q].old = executions[q].old
      /\ \A r \in Runs : r # q => executions'[r] = executions[r]
  <2>1. executions' = [executions EXCEPT ![q] = [executions[q] EXCEPT !.status = status]]
    BY DEF q
  <2>2. /\ [executions[q] EXCEPT !.status = status] \in Execution
        /\ [executions[q] EXCEPT !.status = status].status = status
        /\ [executions[q] EXCEPT !.status = status].old = executions[q].old
    BY <1>3 DEF Execution
  <2> QED
    BY <1>2, <1>3, <2>1, <2>2
<1>5. \A v \in Workers : At(v, q) /\ v # w => ~workers[v].made \/ executions[q].old
  BY <1>2 DEF IInv, FirstClaim
<1>6. k \in Task \cup {Idle}
  BY DEF SameCall
<1>7. workers'[w] = k /\ \A v \in Workers : v # w => workers'[v] = workers[v]
  BY <1>6, BecomesType DEF IInv
<1>8. \A r \in Runs : executions'[r].status = "NONE" => ~executions'[r].old
  BY <1>4 DEF IInv, FirstClaim
<1>9. ASSUME NEW r \in Runs, NEW v \in Workers, At(v, r)'
      PROVE  /\ workers'[v].late => executions'[r].old
             /\ executions'[r].status = "NONE" => workers'[v].step = "claim"
             /\ workers'[v].made /\ ~executions'[r].old =>
                   /\ executions'[r].status = "PENDING"
                   /\ \A u \in Workers : At(u, r)' /\ u # v => workers'[u].step = "claim"
  <2>1. /\ At(v, r) /\ workers'[v].late = workers[v].late /\ workers'[v].made = workers[v].made
        /\ v # w => workers'[v] = workers[v]
    BY <1>1, <1>9, SameCallFrame DEF IInv, At
  <2>2. \A u \in Workers : At(u, r)' => At(u, r)
    BY <1>1, SameCallFrame DEF IInv
  <2>3. CASE r # q
    <3>1. v # w /\ \A u \in Workers : At(u, r)' => u # w
      BY <2>1, <2>2, <2>3 DEF At, q
    <3>2. executions'[r] = executions[r] /\ workers'[v] = workers[v]
      BY <1>4, <2>1, <2>3, <3>1
    <3>3. \A u \in Workers : At(u, r)' => At(u, r) /\ workers'[u] = workers[u]
      BY <1>7, <2>2, <3>1
    <3>4. /\ workers[v].late => executions[r].old
          /\ executions[r].status = "NONE" => workers[v].step = "claim"
          /\ workers[v].made /\ ~executions[r].old =>
                /\ executions[r].status = "PENDING"
                /\ \A u \in Workers : At(u, r) /\ u # v => workers[u].step = "claim"
      BY <2>1 DEF IInv, FirstClaim
    <3>5. workers'[v].made /\ ~executions'[r].old =>
             \A u \in Workers : At(u, r)' /\ u # v => workers'[u].step = "claim"
      BY <3>2, <3>3, <3>4
    <3> QED
      BY <3>2, <3>4, <3>5
  <2>4. CASE r = q
    <3>1. v = w => k # Idle
      BY <1>7, <1>9 DEF At
    <3>2. workers'[v].made /\ ~executions'[r].old => v = w
      BY <1>4, <1>5, <2>1, <2>4
    <3> QED
      BY <1>4, <1>7, <2>1, <2>2, <2>4, <3>1, <3>2 DEF IInv, FirstClaim
  <2> QED
    BY <2>3, <2>4
<1> QED
  BY <1>4, <1>8, <1>9 DEF FirstClaim

LEMMA ResetStep ==
  ASSUME IInv, NEW w \in Workers, ResetExecution(w)
  PROVE  TypeOK' /\ Parts'
<1>1. workers[w] # Idle /\ workers[w].step \in Steps \ {"claim"}
  BY StepIsBusy DEF ResetExecution, Steps, Holding
<1>2. workers[w] \in Task
  BY <1>1, StepsAreTasks
<1> DEFINE k == [workers[w] EXCEPT !.step = "lines"]
<1>3. Becomes(w, k)
  BY DEF ResetExecution, Goto, Becomes
<1>4. k \in Task /\ SameCall(w, k) /\ k.step = "lines"
  BY <1>2 DEF SameCall, Task, Holding
<1>5. /\ executions' = [executions EXCEPT ![workers[w].run].status = "PENDING"]
      /\ UNCHANGED <<today, nextPayDate, runs, lines, paid, scans, faults>>
  BY DEF ResetExecution
<1> HIDE DEF k
<1>6. /\ workers' \in [Workers -> Task \cup {Idle}]
      /\ workers'[w] = k
      /\ \A v \in Workers : v # w => workers'[v] = workers[v]
  BY <1>3, <1>4, BecomesType DEF IInv
<1>7. executions' \in [Runs -> Execution] /\ FirstClaim'
  BY <1>1, <1>3, <1>4, <1>5, RowStep
<1>8. CallsHaveRuns'
  BY <1>1, <1>3, <1>4, <1>5, CallsKept
<1>9. LinesArePaid'
  BY <1>4, <1>5, <1>6, LinesKept
<1>10. ExecutedRunsArePaid'
  BY <1>5 DEF IInv, ExecutedRunsArePaid
<1> QED
  BY <1>5, <1>6, <1>7, <1>8, <1>9, <1>10 DEF IInv, TypeOK, Parts

(* The outcome of a run is recorded: it reads EXECUTED only when the call has nobody
   left to pay. *)
LEMMA SettleStep ==
  ASSUME IInv, NEW w \in Workers, RecordPayrollFailure(w) \/ FinishRun(w)
  PROVE  TypeOK' /\ Parts'
<1>1. workers[w] # Idle /\ workers[w].step \in Steps \ {"claim"} /\ workers[w].step \in Holding
  BY StepIsBusy DEF RecordPayrollFailure, FinishRun, Steps, Holding
<1>2. /\ workers[w] \in Task /\ workers[w].run \in Runs
      /\ runs[workers[w].run] \in PayrollRun
  BY <1>1, StepsAreTasks
<1> DEFINE q == workers[w].run
<1>3. workers[w].failures + 1 \in Nat
  BY <1>2 DEF Task
<1>4. workers[w].step = "pay" /\ workers[w].todo = {} => runs[q].staff \subseteq paid[q]
  BY <1>1, <1>2 DEF IInv, LinesArePaid, Holds
<1>5. PICK outcome \in {"EXECUTED", "FAILED"}, status \in {"EXECUTED", "FAILED", "APPROVED"},
           failures \in Nat :
         /\ Settle(w, outcome, status, failures)
         /\ status = "EXECUTED" => runs[q].staff \subseteq paid[q]
  <2>1. CASE RecordPayrollFailure(w)
    <3> DEFINE f == workers[w].failures + 1
               status == IF f >= FAILURE_THRESHOLD THEN "FAILED" ELSE "APPROVED"
    <3>1. Settle(w, "FAILED", status, f)
      BY <2>1 DEF RecordPayrollFailure
    <3>2. status \in {"FAILED", "APPROVED"} /\ f \in Nat
      BY <1>3
    <3> HIDE DEF status, f
    <3> QED
      BY <3>1, <3>2
  <2>2. CASE FinishRun(w)
    BY <1>4, <2>2 DEF FinishRun
  <2> QED
    BY <2>1, <2>2
<1>6. /\ executions' = [executions EXCEPT ![workers[w].run].status = outcome]
      /\ Becomes(w, Idle)
      /\ UNCHANGED <<today, nextPayDate, lines, paid, scans, faults>>
  BY <1>5 DEF Settle, Return, Becomes
<1> DEFINE row == [runs[q] EXCEPT !.status = status, !.failures = failures]
<1>7. runs' = [runs EXCEPT ![q] = row]
  BY <1>2, <1>5 DEF Settle, IInv, TypeOK
<1>8. /\ row \in PayrollRun /\ row # NoRun
      /\ row.status = status /\ row.staff = runs[q].staff
  BY <1>2 DEF PayrollRun, NoRun
<1> HIDE DEF row
<1>9. /\ runs' \in [Runs -> PayrollRun \cup {NoRun}]
      /\ runs'[q] = row
      /\ \A r \in Runs : r # q => runs'[r] = runs[r]
  <2> HIDE DEF q
  <2>1. q \in Runs /\ runs \in [Runs -> PayrollRun \cup {NoRun}]
    BY <1>2 DEF IInv, TypeOK, q
  <2> QED
    BY <1>7, <1>8, <2>1
<1>10. /\ workers' \in [Workers -> Task \cup {Idle}]
       /\ workers'[w] = Idle
       /\ \A v \in Workers : v # w => workers'[v] = workers[v]
  BY <1>6, BecomesType DEF IInv
<1>11. executions' \in [Runs -> Execution] /\ FirstClaim'
  <2>1. outcome \in {"PENDING", "EXECUTED", "FAILED"}
    OBVIOUS
  <2> QED
    BY <1>1, <1>6, <2>1, RowStep
<1>12. CallsHaveRuns'
  <2>1. \A r \in Runs : runs[r] # NoRun => runs'[r] # NoRun
    BY <1>8, <1>9
  <2> QED
    BY <1>1, <1>6, <2>1, CallsKept
<1>13. LinesArePaid'
  <2>1. \A r \in Runs : runs[r] # NoRun => runs'[r].staff = runs[r].staff
    BY <1>8, <1>9
  <2>2. Idle.step = "idle"
    BY DEF Idle
  <2> QED
    BY <1>6, <1>10, <2>1, <2>2, LinesKept
<1>14. ExecutedRunsArePaid'
  BY <1>5, <1>6, <1>8, <1>9 DEF IInv, ExecutedRunsArePaid
<1> QED
  BY <1>6, <1>9, <1>10, <1>11, <1>12, <1>13, <1>14 DEF IInv, TypeOK, Parts

LEMMA CrashStep ==
  ASSUME IInv, NEW w \in Workers, Crash(w)
  PROVE  TypeOK' /\ Parts'
<1>1. /\ workers[w] # Idle /\ Becomes(w, Idle)
      /\ UNCHANGED <<today, nextPayDate, runs, executions, lines, paid, scans>>
      /\ faults' \in 0..MaxFaults
  BY DEF Crash, Return, Becomes, IInv, TypeOK
<1>2. /\ workers' \in [Workers -> Task \cup {Idle}]
      /\ workers'[w] = Idle
      /\ \A v \in Workers : v # w => workers'[v] = workers[v]
  BY <1>1, BecomesType DEF IInv
<1>3. FirstClaim'
  BY <1>1, FirstClaimKept
<1>4. CallsHaveRuns'
  BY <1>1, CallsKept
<1>5. LinesArePaid'
  <2>1. Idle.step = "idle"
    BY DEF Idle
  <2> QED
    BY <1>1, <1>2, <2>1, LinesKept
<1>6. ExecutedRunsArePaid'
  BY <1>1 DEF IInv, ExecutedRunsArePaid
<1> QED
  BY <1>1, <1>2, <1>3, <1>4, <1>5, <1>6 DEF IInv, TypeOK, Parts

-----------------------------------------------------------------------------
(* Time, scans and new runs. *)

LEMMA GrowOldStep ==
  ASSUME IInv, NEW q \in Runs, GrowOld(q)
  PROVE  TypeOK' /\ Parts'
<1>1. /\ executions[q].status # "NONE"
      /\ executions' = [executions EXCEPT ![q] = [executions[q] EXCEPT !.old = TRUE]]
      /\ UNCHANGED <<today, nextPayDate, runs, lines, paid, workers, scans, faults>>
  BY DEF GrowOld
<1>2. executions \in [Runs -> Execution] /\ executions[q] \in Execution
  BY DEF IInv, TypeOK
<1>3. /\ executions' \in [Runs -> Execution]
      /\ executions'[q].status = executions[q].status /\ executions'[q].old = TRUE
      /\ \A r \in Runs : r # q => executions'[r] = executions[r]
  <2>1. /\ [executions[q] EXCEPT !.old = TRUE] \in Execution
        /\ [executions[q] EXCEPT !.old = TRUE].status = executions[q].status
        /\ [executions[q] EXCEPT !.old = TRUE].old = TRUE
    BY <1>2 DEF Execution
  <2> QED
    BY <1>1, <1>2, <2>1
<1>4. FirstClaim'
  <2>1. \A r, w : At(w, r)' <=> At(w, r)
    BY <1>1 DEF At
  <2>2. \A r \in Runs : executions'[r].status = "NONE" => ~executions'[r].old
    BY <1>1, <1>3 DEF IInv, FirstClaim
  <2>3. ASSUME NEW r \in Runs, NEW w \in Workers, At(w, r)
        PROVE  /\ workers[w].late => executions'[r].old
               /\ executions'[r].status = "NONE" => workers[w].step = "claim"
               /\ workers[w].made /\ ~executions'[r].old =>
                     /\ executions'[r].status = "PENDING"
                     /\ \A v \in Workers : At(v, r) /\ v # w => workers[v].step = "claim"
    BY <1>1, <1>3, <2>3 DEF IInv, FirstClaim
  <2> QED
    BY <1>1, <2>1, <2>2, <2>3 DEF FirstClaim
<1>5. CallsHaveRuns' /\ LinesArePaid' /\ ExecutedRunsArePaid'
  BY <1>1 DEF IInv, CallsHaveRuns, LinesArePaid, ExecutedRunsArePaid, Holds
<1> QED
  BY <1>1, <1>3, <1>4, <1>5 DEF IInv, TypeOK, Parts

(* A step that leaves the calls and their rows alone, and changes runs only by making
   them or by setting another status than EXECUTED. *)
LEMMA RunsStep ==
  ASSUME IInv, UNCHANGED <<executions, lines, paid, workers>>,
         \A r \in Runs : runs'[r] # runs[r] => runs'[r] # NoRun /\ runs'[r].status = "APPROVED",
         \A r \in Runs : runs[r] # NoRun => runs'[r].staff = runs[r].staff
  PROVE  /\ FirstClaim' /\ LinesArePaid' /\ ExecutedRunsArePaid'
         /\ \A w \in Workers : workers'[w] # Idle => runs'[workers'[w].run] # NoRun
         /\ \A r \in Runs : runs[r] # NoRun => runs'[r] # NoRun
<1>1. FirstClaim'
  BY DEF IInv, FirstClaim, At
<1>2. LinesArePaid'
  BY LinesKept
<1>3. \A r \in Runs : runs[r] # NoRun => runs'[r] # NoRun
  OBVIOUS
<1>4. \A w \in Workers : workers[w] # Idle => runs'[workers[w].run] # NoRun
  BY <1>3, StepsAreTasks
<1>5. ExecutedRunsArePaid'
  <2> SUFFICES ASSUME NEW r \in Runs, runs'[r].status = "EXECUTED"
               PROVE  runs'[r].staff \subseteq paid[r]
    BY DEF ExecutedRunsArePaid
  <2>1. runs'[r] = runs[r]
    OBVIOUS
  <2> QED
    BY <2>1 DEF IInv, ExecutedRunsArePaid
<1> QED
  BY <1>1, <1>2, <1>3, <1>4, <1>5

LEMMA CreatePayrollRunStep ==
  ASSUME IInv, NEW q \in Runs, NEW staff \in SUBSET Employees, NEW date \in today..Horizon,
         CreatePayrollRun(q, staff, date)
  PROVE  TypeOK' /\ Parts'
<1> DEFINE row == [status |-> "APPROVED", payDate |-> date, staff |-> staff,
                   auto |-> FALSE, failures |-> 0]
<1>1. row \in PayrollRun /\ row # NoRun /\ row.status = "APPROVED"
  BY DEF PayrollRun, NoRun, Dates, IInv, TypeOK
<1>2. /\ runs[q] = NoRun /\ runs' = [runs EXCEPT ![q] = row]
      /\ UNCHANGED <<today, nextPayDate, executions, lines, paid, workers, scans, faults>>
  BY DEF CreatePayrollRun
<1> HIDE DEF row
<1>3. /\ runs' \in [Runs -> PayrollRun \cup {NoRun}]
      /\ runs'[q] = row
      /\ \A r \in Runs : r # q => runs'[r] = runs[r]
  BY <1>1, <1>2 DEF IInv, TypeOK
<1>4. /\ FirstClaim' /\ LinesArePaid' /\ ExecutedRunsArePaid'
      /\ \A w \in Workers : workers'[w] # Idle => runs'[workers'[w].run] # NoRun
      /\ \A r \in Runs : runs[r] # NoRun => runs'[r] # NoRun
  <2>1. /\ \A r \in Runs : runs'[r] # runs[r] => runs'[r] # NoRun /\ runs'[r].status = "APPROVED"
        /\ \A r \in Runs : runs[r] # NoRun => runs'[r].staff = runs[r].staff
    BY <1>1, <1>2, <1>3
  <2> QED
    BY <1>2, <2>1, RunsStep
<1>5. \A s \in Scanners : scans[s] # Idle => scans[s].run \subseteq Runs
  BY DEF IInv, TypeOK, Scan
<1>6. CallsHaveRuns'
  BY <1>2, <1>4, <1>5 DEF IInv, CallsHaveRuns
<1> QED
  BY <1>2, <1>3, <1>4, <1>6 DEF IInv, TypeOK, Parts

(* A scan goes on, or ends. *)
LEMMA ScanKept ==
  ASSUME IInv, NEW s \in Scanners, NEW k \in Scan \cup {Idle},
         scans' = [scans EXCEPT ![s] = k],
         k # Idle => \A r \in k.run : runs[r] # NoRun,
         UNCHANGED <<today, nextPayDate, runs, executions, lines, paid, workers, faults>>
  PROVE  TypeOK' /\ Parts'
<1>1. /\ scans' \in [Scanners -> Scan \cup {Idle}]
      /\ scans'[s] = k
      /\ \A t \in Scanners : t # s => scans'[t] = scans[t]
  BY DEF IInv, TypeOK
<1>2. TypeOK'
  BY <1>1 DEF IInv, TypeOK
<1>3. CallsHaveRuns'
  BY <1>1 DEF IInv, CallsHaveRuns
<1>4. FirstClaim'
  BY DEF IInv, FirstClaim, At
<1>5. LinesArePaid' /\ ExecutedRunsArePaid'
  BY DEF IInv, LinesArePaid, ExecutedRunsArePaid, Holds
<1> QED
  BY <1>2, <1>3, <1>4, <1>5 DEF Parts

LEMMA ListEmployeeStep ==
  ASSUME IInv, NEW s \in Scanners, NEW e \in Employees, ListEmployee(s, e)
  PROVE  TypeOK' /\ Parts'
<1> DEFINE k == [step |-> "lookup", employee |-> e, run |-> {},
                 payDate |-> nextPayDate[e], begun |-> today]
<1>1. k \in Scan /\ \A r \in k.run : runs[r] # NoRun
  BY DEF Scan, IInv, TypeOK
<1>2. /\ scans' = [scans EXCEPT ![s] = k]
      /\ UNCHANGED <<today, nextPayDate, runs, executions, lines, paid, workers, faults>>
  BY DEF ListEmployee
<1> HIDE DEF k
<1> QED
  BY <1>1, <1>2, ScanKept

LEMMA LookUpStep ==
  ASSUME IInv, NEW s \in Scanners, LookUp(s)
  PROVE  TypeOK' /\ Parts'
<1>1. scans[s] # Idle /\ scans[s] \in Scan
  <2>1. scans[s].step = "lookup"
    BY DEF LookUp
  <2> QED
    BY <2>1 DEF Idle, IInv, TypeOK
<1> DEFINE found == AutoRuns(scans[s].employee, scans[s].payDate)
<1>2. /\ \/ scans' = [scans EXCEPT ![s] = [scans[s] EXCEPT !.step = "create"]]
         \/ \E r \in found : \/ scans' = [scans EXCEPT ![s] =
                                    [scans[s] EXCEPT !.step = "revive", !.run = {r}]]
                             \/ scans' = [scans EXCEPT ![s] = Idle]
      /\ UNCHANGED <<today, nextPayDate, runs, executions, lines, paid, workers, faults>>
  BY DEF LookUp
<1>3. \A r \in found : r \in Runs /\ runs[r] # NoRun
  BY DEF AutoRuns
<1> HIDE DEF found
<1>4. CASE scans' = [scans EXCEPT ![s] = [scans[s] EXCEPT !.step = "create"]]
  <2> DEFINE k == [scans[s] EXCEPT !.step = "create"]
  <2>1. k \in Scan /\ k.run = scans[s].run
    BY <1>1 DEF Scan
  <2>2. \A r \in k.run : runs[r] # NoRun
    BY <1>1, <2>1 DEF IInv, CallsHaveRuns
  <2>3. scans' = [scans EXCEPT ![s] = k]
    BY <1>4
  <2> HIDE DEF k
  <2> QED
    BY <1>2, <2>1, <2>2, <2>3, ScanKept
<1>5. ASSUME NEW r \in found,
             scans' = [scans EXCEPT ![s] = [scans[s] EXCEPT !.step = "revive", !.run = {r}]]
      PROVE  TypeOK' /\ Parts'
  <2> DEFINE k == [scans[s] EXCEPT !.step = "revive", !.run = {r}]
  <2>1. k \in Scan /\ k.run = {r}
    BY <1>1, <1>3 DEF Scan
  <2>2. \A q \in k.run : runs[q] # NoRun
    BY <1>3, <2>1
  <2>3. scans' = [scans EXCEPT ![s] = k]
    BY <1>5
  <2> HIDE DEF k
  <2> QED
    BY <1>2, <2>1, <2>2, <2>3, ScanKept
<1>6. CASE scans' = [scans EXCEPT ![s] = Idle]
  BY <1>2, <1>6, ScanKept
<1> QED
  BY <1>2, <1>4, <1>5, <1>6

LEMMA SkipEmployeeStep ==
  ASSUME IInv, NEW s \in Scanners, SkipEmployee(s)
  PROVE  TypeOK' /\ Parts'
BY ScanKept DEF SkipEmployee

(* A scan that writes to runs ends with it. *)
LEMMA ScanWrites ==
  ASSUME IInv, NEW s \in Scanners,
         scans' = [scans EXCEPT ![s] = Idle],
         runs' \in [Runs -> PayrollRun \cup {NoRun}],
         \A r \in Runs : runs'[r] # runs[r] => runs'[r] # NoRun /\ runs'[r].status = "APPROVED",
         \A r \in Runs : runs[r] # NoRun => runs'[r].staff = runs[r].staff,
         UNCHANGED <<today, nextPayDate, executions, lines, paid, workers, faults>>
  PROVE  TypeOK' /\ Parts'
<1>1. /\ scans' \in [Scanners -> Scan \cup {Idle}]
      /\ scans'[s] = Idle
      /\ \A t \in Scanners : t # s => scans'[t] = scans[t]
  BY DEF IInv, TypeOK
<1>2. /\ FirstClaim' /\ LinesArePaid' /\ ExecutedRunsArePaid'
      /\ \A w \in Workers : workers'[w] # Idle => runs'[workers'[w].run] # NoRun
      /\ \A r \in Runs : runs[r] # NoRun => runs'[r] # NoRun
  BY RunsStep
<1>3. \A t \in Scanners : scans[t] # Idle => scans[t].run \subseteq Runs
  BY DEF IInv, TypeOK, Scan
<1>4. CallsHaveRuns'
  BY <1>1, <1>2, <1>3 DEF IInv, CallsHaveRuns
<1> QED
  BY <1>1, <1>2, <1>4 DEF IInv, TypeOK, Parts

LEMMA ReviveStep ==
  ASSUME IInv, NEW s \in Scanners, Revive(s)
  PROVE  TypeOK' /\ Parts'
<1>1. scans[s] # Idle
  <2>1. scans[s].step = "revive"
    BY DEF Revive
  <2> QED
    BY <2>1 DEF Idle
<1>2. \A r \in scans[s].run : runs[r] # NoRun
  BY <1>1 DEF IInv, CallsHaveRuns
<1> DEFINE revived(r) == [runs[r] EXCEPT !.status = "APPROVED", !.failures = 0]
<1>3. /\ runs' = [r \in Runs |-> IF r \in scans[s].run THEN revived(r) ELSE runs[r]]
      /\ scans' = [scans EXCEPT ![s] = Idle]
      /\ UNCHANGED <<today, nextPayDate, executions, lines, paid, workers, faults>>
  BY DEF Revive
<1>4. ASSUME NEW r \in Runs, runs[r] # NoRun
      PROVE  /\ revived(r) \in PayrollRun /\ revived(r) # NoRun
             /\ revived(r).status = "APPROVED" /\ revived(r).staff = runs[r].staff
  <2>1. runs[r] \in PayrollRun
    BY <1>4 DEF IInv, TypeOK
  <2> QED
    BY <2>1 DEF PayrollRun, NoRun
<1> HIDE DEF revived
<1>5. \A r \in Runs : runs'[r] = IF r \in scans[s].run THEN revived(r) ELSE runs[r]
  BY <1>3
<1>6. runs' \in [Runs -> PayrollRun \cup {NoRun}]
  <2>1. \A r \in Runs : (IF r \in scans[s].run THEN revived(r) ELSE runs[r])
                            \in PayrollRun \cup {NoRun}
    BY <1>2, <1>4 DEF IInv, TypeOK
  <2> QED
    BY <1>3, <2>1
<1>7. /\ \A r \in Runs : runs'[r] # runs[r] => runs'[r] # NoRun /\ runs'[r].status = "APPROVED"
      /\ \A r \in Runs : runs[r] # NoRun => runs'[r].staff = runs[r].staff
  BY <1>2, <1>4, <1>5
<1> QED
  BY <1>3, <1>6, <1>7, ScanWrites

LEMMA CreateAutoRunStep ==
  ASSUME IInv, NEW s \in Scanners, NEW q \in Runs, CreateAutoRun(s, q)
  PROVE  TypeOK' /\ Parts'
<1>1. scans[s] # Idle /\ scans[s] \in Scan
  BY DEF CreateAutoRun, Idle, IInv, TypeOK
<1> DEFINE row == [status |-> "APPROVED", payDate |-> scans[s].payDate,
                   staff |-> {scans[s].employee}, auto |-> TRUE, failures |-> 0]
<1>2. row \in PayrollRun /\ row # NoRun /\ row.status = "APPROVED"
  BY <1>1 DEF Scan, PayrollRun, NoRun
<1>3. /\ runs[q] = NoRun /\ runs' = [runs EXCEPT ![q] = row]
      /\ scans' = [scans EXCEPT ![s] = Idle]
      /\ UNCHANGED <<today, nextPayDate, executions, lines, paid, workers, faults>>
  BY DEF CreateAutoRun
<1> HIDE DEF row
<1>4. /\ runs' \in [Runs -> PayrollRun \cup {NoRun}]
      /\ runs'[q] = row
      /\ \A r \in Runs : r # q => runs'[r] = runs[r]
  BY <1>2, <1>3 DEF IInv, TypeOK
<1>5. /\ \A r \in Runs : runs'[r] # runs[r] => runs'[r] # NoRun /\ runs'[r].status = "APPROVED"
      /\ \A r \in Runs : runs[r] # NoRun => runs'[r].staff = runs[r].staff
  BY <1>2, <1>3, <1>4
<1> QED
  BY <1>3, <1>4, <1>5, ScanWrites

-----------------------------------------------------------------------------
(* The theorems. *)

LEMMA InitIInv == Init => IInv
<1> SUFFICES ASSUME Init PROVE IInv
  OBVIOUS
<1>1. TypeOK
  BY DEF Init, TypeOK, Dates, Execution
<1>2. \A w \in Workers : workers[w] = Idle
  BY DEF Init
<1>3. CallsHaveRuns
  BY <1>2 DEF Init, CallsHaveRuns
<1>4. LinesArePaid
  BY <1>2 DEF Init, LinesArePaid, Holds, Holding, Idle
<1>5. FirstClaim
  BY <1>2 DEF Init, FirstClaim, At
<1>6. ExecutedRunsArePaid
  BY DEF Init, ExecutedRunsArePaid, NoRun
<1> QED
  BY <1>1, <1>3, <1>4, <1>5, <1>6 DEF IInv

LEMMA ScannerStep ==
  ASSUME IInv, NEW s \in Scanners, ScanStep(s)
  PROVE  TypeOK' /\ Parts'
BY ListEmployeeStep, LookUpStep, ReviveStep, CreateAutoRunStep, SkipEmployeeStep DEF ScanStep

LEMMA WorkerStep ==
  ASSUME IInv, NEW w \in Workers, Work(w) \/ RecordingFails(w) \/ Crash(w)
  PROVE  TypeOK' /\ Parts'
<1>1. CASE CreateExecution(w)
  BY <1>1, CreateExecutionStep
<1>2. CASE FindExecution(w)
  BY <1>2, FindExecutionStep
<1>3. CASE ResetExecution(w)
  BY <1>3, ResetStep
<1>4. CASE RejectRun(w) \/ RecordingFails(w) \/ \E e \in Employees : RefuseLine(w, e)
  BY <1>4, RejectStep
<1>5. CASE ReadLines(w)
  BY <1>5, ReadLinesStep
<1>6. CASE \E e \in Employees : PayLine(w, e)
  BY <1>6, PayStep
<1>7. CASE MarkLine(w) \/ FailLine(w)
  BY <1>7, RecordLineStep
<1>8. CASE AdvanceEmployee(w)
  BY <1>8, AdvanceStep
<1>9. CASE RecordPayrollFailure(w) \/ FinishRun(w)
  BY <1>9, SettleStep
<1>10. CASE Crash(w)
  BY <1>10, CrashStep
<1> QED
  BY <1>1, <1>2, <1>3, <1>4, <1>5, <1>6, <1>7, <1>8, <1>9, <1>10 DEF Work

(* Time: no call or row changes. *)
LEMMA TickStep ==
  ASSUME IInv, Tick \/ UNCHANGED vars
  PROVE  TypeOK' /\ Parts'
<1>1. /\ today' \in 0..Horizon
      /\ UNCHANGED <<nextPayDate, runs, executions, lines, paid, workers, scans, faults>>
  BY DEF Tick, vars, IInv, TypeOK
<1>2. TypeOK'
  BY <1>1 DEF IInv, TypeOK
<1>3. CallsHaveRuns' /\ ExecutedRunsArePaid'
  BY <1>1 DEF IInv, CallsHaveRuns, ExecutedRunsArePaid
<1>4. LinesArePaid'
  BY <1>1 DEF IInv, LinesArePaid, Holds
<1>5. FirstClaim'
  BY <1>1 DEF IInv, FirstClaim, At
<1> QED
  BY <1>2, <1>3, <1>4, <1>5 DEF Parts

LEMMA NextIInv == IInv /\ [Next]_vars => IInv'
<1> SUFFICES ASSUME IInv, [Next]_vars PROVE TypeOK' /\ Parts'
  BY DEF IInv, Parts
<1>1. CASE \E r \in Runs, staff \in SUBSET Employees, date \in today..Horizon :
              CreatePayrollRun(r, staff, date)
  BY <1>1, CreatePayrollRunStep
<1>2. CASE \E s \in Scanners : ScanStep(s)
  BY <1>2, ScannerStep
<1>3. CASE \E w \in Workers, r \in Runs : ListRun(w, r)
  BY <1>3, ListRunStep
<1>4. CASE \E w \in Workers : Work(w) \/ RecordingFails(w) \/ Crash(w)
  BY <1>4, WorkerStep
<1>5. CASE \E r \in Runs : GrowOld(r)
  BY <1>5, GrowOldStep
<1>6. CASE Tick \/ UNCHANGED vars
  BY <1>6, TickStep
<1> QED
  BY <1>1, <1>2, <1>3, <1>4, <1>5, <1>6 DEF Next

(* The inductive invariant: calls, rows, lines and money of the payroll executor agree
   at every moment, whatever calls take a run over, fail half-way or are lost. *)
THEOREM PayrollInvariant == Spec => []IInv
<1> QED
  BY InitIInv, NextIInv, PTL DEF Spec

(* A run that reads EXECUTED has paid everyone on it: executeSinglePayrollRun closes
   a run only when every line is recorded as executed or has been paid by the call. *)
THEOREM ExecutedIsPaid == Spec => []ExecutedRunsArePaid
<1>1. IInv => ExecutedRunsArePaid
  BY DEF IInv
<1> QED
  BY <1>1, PayrollInvariant, PTL

(* Until the execution row is two minutes old, no other call works on a run as long as
   the one that has created the row does, whatever calls come, fail or are lost: the row
   stays pending, and the clock of every call that finds it is too early.  Nothing is
   claimed of an older row, which any call joins (payroll-executor.service.ts:83). *)
THEOREM FirstClaimIsExclusive == Spec => []FirstAttemptIsExclusive
<1>1. IInv => FirstAttemptIsExclusive
  <2> SUFFICES ASSUME IInv, NEW r \in Runs, NEW v \in Workers, NEW w \in Workers,
                      Holds(v, r), workers[v].made, ~executions[r].old, Holds(w, r), v # w
               PROVE  FALSE
    BY DEF FirstAttemptIsExclusive
  <2>1. At(v, r) /\ At(w, r) /\ workers[w].step # "claim"
    BY StepIsBusy DEF Holds, At, Holding, Steps
  <2> QED
    BY <2>1 DEF IInv, FirstClaim
<1> QED
  BY <1>1, PayrollInvariant, PTL

-----------------------------------------------------------------------------
(* Payments are not repeated as long as calls on a run do not overlap. *)

Paying == {"pay", "mark", "advance"}

(* What a step does to the lists and the lines: a call's list is replaced when it
   reads the lines, and its line is marked or crossed off by itself. *)
LEMMA OthersLists ==
  ASSUME IInv, CallsDoNotOverlap, ListsAreUnpaid, NEW w \in Workers, NEW v \in Workers,
         workers[w] # Idle, v # w,
         workers'[v] = workers[v],
         \A r \in Runs : r # workers[w].run => lines'[r] = lines[r],
         workers'[v].step \in Paying, NEW e \in workers'[v].todo,
         lines'[workers'[v].run][e] = "EXECUTED"
  PROVE  workers'[v].step = "advance" /\ e \in workers'[v].line
<1>1. workers[v] # Idle /\ workers[v].run \in Runs
  BY StepsAreTasks, StepIsBusy DEF Paying, Steps, Holding
<1>2. workers[v].run # workers[w].run
  BY <1>1 DEF CallsDoNotOverlap, At
<1>3. lines'[workers[v].run] = lines[workers[v].run]
  BY <1>1, <1>2
<1> QED
  BY <1>3 DEF ListsAreUnpaid, Paying

LEMMA OwnList ==
  ASSUME IInv, ListsAreUnpaid, NEW w \in Workers, Work(w),
         workers'[w].step \in Paying, NEW e \in workers'[w].todo,
         lines'[workers'[w].run][e] = "EXECUTED"
  PROVE  workers'[w].step = "advance" /\ e \in workers'[w].line
<1> DEFINE r == workers[w].run
<1>1. DOMAIN workers = Workers /\ DOMAIN lines = Runs
  BY DEF IInv, TypeOK
<1>2. ASSUME workers[w] # Idle
      PROVE  /\ workers[w] \in Task /\ r \in Runs
             /\ lines[r] \in [Employees -> {"NONE", "PENDING", "EXECUTED", "FAILED"}]
             /\ runs[r].staff \subseteq Employees
  BY <1>2, StepsAreTasks DEF IInv, TypeOK, PayrollRun, NoRun
<1>3. ASSUME workers[w].step \in Steps
      PROVE  workers[w] # Idle
  BY <1>3, StepIsBusy
<1>4. CASE ReadLines(w)
  <2>1. workers[w] # Idle
    BY <1>3, <1>4 DEF ReadLines, Steps, Holding
  <2>2. /\ workers'[w].run = r
        /\ workers'[w].todo = {x \in runs[r].staff : lines[r][x] # "EXECUTED"}
        /\ lines'[r] = [x \in Employees |->
               IF x \in runs[r].staff /\ lines[r][x] = "NONE" THEN "PENDING" ELSE lines[r][x]]
    BY <1>1, <1>2, <1>4, <2>1 DEF ReadLines, Task
  <2>3. e \in Employees /\ lines[r][e] # "EXECUTED"
    BY <1>2, <2>1, <2>2
  <2>4. lines'[r][e] # "EXECUTED"
    BY <2>2, <2>3
  <2> QED
    BY <2>2, <2>4
<1>5. CASE \E x \in Employees : PayLine(w, x)
  <2>1. workers[w] # Idle /\ workers[w].step = "pay"
    BY <1>3, <1>5 DEF PayLine, Steps, Holding
  <2>2. /\ workers'[w].run = r /\ workers'[w].todo = workers[w].todo /\ lines' = lines
    BY <1>1, <1>2, <1>5, <2>1 DEF PayLine, Task
  <2> QED
    BY <2>1, <2>2 DEF ListsAreUnpaid
<1>6. CASE MarkLine(w)
  <2>1. workers[w] # Idle /\ workers[w].step = "mark"
    BY <1>3, <1>6 DEF MarkLine, Steps, Holding
  <2>2. /\ workers'[w].run = r /\ workers'[w].todo = workers[w].todo
        /\ workers'[w].line = workers[w].line /\ workers'[w].step = "advance"
        /\ lines'[r] = [x \in Employees |-> IF x \in workers[w].line
                                            THEN "EXECUTED" ELSE lines[r][x]]
    BY <1>1, <1>2, <1>6, <2>1 DEF MarkLine, SetLine, Goto, Task
  <2>3. e \in Employees
    BY <1>2, <2>1, <2>2 DEF Task
  <2>4. e \notin workers[w].line => lines[r][e] = "EXECUTED"
    BY <2>2, <2>3
  <2> QED
    BY <2>1, <2>2, <2>4 DEF ListsAreUnpaid
<1>7. CASE AdvanceEmployee(w)
  <2>1. workers[w] # Idle /\ workers[w].step = "advance"
    BY <1>3, <1>7 DEF AdvanceEmployee, Steps, Holding
  <2>2. /\ workers'[w].run = r /\ workers'[w].todo = workers[w].todo \ workers[w].line
        /\ lines' = lines
    BY <1>1, <1>2, <1>7, <2>1 DEF AdvanceEmployee, Task
  <2> QED
    BY <2>1, <2>2 DEF ListsAreUnpaid
<1>8. ASSUME CreateExecution(w) \/ FindExecution(w) \/ ResetExecution(w) \/ RejectRun(w)
             \/ (\E x \in Employees : RefuseLine(w, x)) \/ FailLine(w)
             \/ RecordPayrollFailure(w) \/ FinishRun(w)
      PROVE  FALSE
  <2>1. workers[w] # Idle
    BY <1>3, <1>8 DEF CreateExecution, FindExecution, ResetExecution, RejectRun, RefuseLine,
       FailLine, RecordPayrollFailure, FinishRun, Steps, Holding
  <2>2. workers[w] \in Task
    BY <1>2, <2>1
  <2>3. workers'[w].step \in {"lines", "reset", "failrun", "failline", "idle"}
    BY <1>1, <1>8, <2>2 DEF CreateExecution, FindExecution, ResetExecution, RejectRun,
       RefuseLine, FailLine, RecordPayrollFailure, FinishRun, Settle, Goto, Return, Task, Idle
  <2> QED
    BY <2>3 DEF Paying
<1> QED
  BY <1>4, <1>5, <1>6, <1>7, <1>8 DEF Work

\* A call writes to the lines of its own run and to no other call.
LEMMA WorkIsItsOwn ==
  ASSUME IInv, NEW w \in Workers, Work(w)
  PROVE  /\ workers[w] # Idle
         /\ \A v \in Workers : v # w => workers'[v] = workers[v]
         /\ \A r \in Runs : r # workers[w].run => lines'[r] = lines[r]
<1>1. DOMAIN workers = Workers /\ DOMAIN lines = Runs
  BY DEF IInv, TypeOK
<1>2. workers[w].step \in Steps
  BY DEF Work, CreateExecution, FindExecution, ResetExecution, RejectRun, ReadLines, PayLine,
     RefuseLine, MarkLine, AdvanceEmployee, FailLine, RecordPayrollFailure, FinishRun,
     Steps, Holding
<1>3. \A v \in Workers : v # w => workers'[v] = workers[v]
  BY <1>1 DEF Work, CreateExecution, FindExecution, ResetExecution, RejectRun, ReadLines,
     PayLine, RefuseLine, MarkLine, AdvanceEmployee, FailLine, RecordPayrollFailure,
     FinishRun, Settle, Goto, Return
<1>4. \A r \in Runs : r # workers[w].run => lines'[r] = lines[r]
  BY <1>1 DEF Work, CreateExecution, FindExecution, ResetExecution, RejectRun, ReadLines,
     PayLine, RefuseLine, MarkLine, AdvanceEmployee, FailLine, RecordPayrollFailure,
     FinishRun, Settle, SetLine
<1> QED
  BY <1>2, <1>3, <1>4, StepIsBusy

LEMMA ListsPreserved ==
  ASSUME IInv, CallsDoNotOverlap, ListsAreUnpaid, [Next]_vars
  PROVE  ListsAreUnpaid'
<1>1. ASSUME NEW w \in Workers, Work(w)
      PROVE  ListsAreUnpaid'
  <2> SUFFICES ASSUME NEW v \in Workers, workers'[v].step \in Paying,
                      NEW e \in workers'[v].todo,
                      lines'[workers'[v].run][e] = "EXECUTED"
               PROVE  workers'[v].step = "advance" /\ e \in workers'[v].line
    BY DEF ListsAreUnpaid, Paying
  <2>1. CASE v = w
    BY <1>1, <2>1, OwnList
  <2>2. CASE v # w
    BY <1>1, <2>2, WorkIsItsOwn, OthersLists
  <2> QED
    BY <2>1, <2>2
<1>2. ASSUME lines' = lines,
             \A v \in Workers : workers'[v] = workers[v] \/ workers'[v].step \notin Paying
      PROVE  ListsAreUnpaid'
  BY <1>2 DEF ListsAreUnpaid, Paying
<1>3. DOMAIN workers = Workers
  BY DEF IInv, TypeOK
<1>4. ASSUME NEW w \in Workers, NEW k, Becomes(w, k), k.step \notin Paying, lines' = lines
      PROVE  ListsAreUnpaid'
  BY <1>2, <1>3, <1>4 DEF Becomes
<1>5. ASSUME NEW w \in Workers, NEW r \in Runs, ListRun(w, r)
      PROVE  ListsAreUnpaid'
  <2> DEFINE k == [step |-> "claim", run |-> r, failures |-> runs[r].failures,
                   begun |-> today, late |-> executions[r].old, made |-> FALSE,
                   todo |-> {}, line |-> {}]
  <2>1. Becomes(w, k) /\ k.step \notin Paying /\ lines' = lines
    BY <1>5 DEF ListRun, Becomes, Paying
  <2> HIDE DEF k
  <2> QED
    BY <1>4, <2>1
<1>6. ASSUME NEW w \in Workers, RecordingFails(w)
      PROVE  ListsAreUnpaid'
  <2> DEFINE k == [workers[w] EXCEPT !.step = "failline"]
  <2>1. workers[w] # Idle
    BY <1>6, StepIsBusy DEF RecordingFails, Steps, Holding
  <2>2. workers[w] \in Task
    BY <2>1, StepsAreTasks
  <2>3. Becomes(w, k) /\ k.step \notin Paying /\ lines' = lines
    BY <1>6, <2>2 DEF RecordingFails, Goto, Becomes, Paying, Task
  <2> HIDE DEF k
  <2> QED
    BY <1>4, <2>3
<1>7. ASSUME NEW w \in Workers, Crash(w)
      PROVE  ListsAreUnpaid'
  BY <1>4, <1>7 DEF Crash, Return, Becomes, Idle, Paying
<1>8. CASE UNCHANGED <<workers, lines>>
  BY <1>2, <1>8
<1>9. CASE \E s \in Scanners : ScanStep(s)
  BY <1>8, <1>9 DEF ScanStep, ListEmployee, LookUp, Revive, CreateAutoRun, SkipEmployee
<1> QED
  BY <1>1, <1>5, <1>6, <1>7, <1>8, <1>9 DEF Next, CreatePayrollRun, GrowOld, Tick, vars

\* Only PayLine takes a call from "pay" to "mark".
LEMMA PaysFromTheList ==
  ASSUME IInv, Next, NEW w \in Workers, NEW e \in Employees, PaysLine(w, e)
  PROVE  e \in workers[w].todo
<1>1. DOMAIN workers = Workers
  BY DEF IInv, TypeOK
<1>2. workers[w].step = "pay" /\ workers'[w].step = "mark" /\ workers'[w].line = {e}
  BY DEF PaysLine
<1>3. workers[w] # Idle /\ workers[w] \in Task
  BY <1>2, StepIsBusy, StepsAreTasks DEF Steps, Holding
<1>4. ASSUME NEW v \in Workers, Work(v)
      PROVE  e \in workers[w].todo
  <2>1. v = w
    BY <1>2, <1>4, WorkIsItsOwn
  <2>2. PICK x \in Employees : PayLine(w, x) \/ RefuseLine(w, x) \/ FinishRun(w)
    BY <1>2, <1>4, <2>1 DEF Work, CreateExecution, FindExecution, ResetExecution, RejectRun,
       ReadLines, MarkLine, AdvanceEmployee, FailLine, RecordPayrollFailure
  <2>3. CASE PayLine(w, x)
    BY <1>1, <1>2, <1>3, <2>3 DEF PayLine, Task
  <2>4. CASE RefuseLine(w, x)
    BY <1>1, <1>2, <1>3, <2>4 DEF RefuseLine, Task
  <2>5. CASE FinishRun(w)
    BY <1>1, <1>2, <2>5 DEF FinishRun, Settle, Return, Idle
  <2> QED
    BY <2>2, <2>3, <2>4, <2>5
<1>5. ASSUME NEW v \in Workers, NEW r \in Runs, ListRun(v, r)
      PROVE  FALSE
  BY <1>1, <1>2, <1>3, <1>5 DEF ListRun
<1>6. ASSUME NEW v \in Workers, RecordingFails(v) \/ Crash(v)
      PROVE  FALSE
  BY <1>1, <1>2, <1>3, <1>6 DEF RecordingFails, Crash, Goto, Return, Task, Idle
<1>7. UNCHANGED workers => FALSE
  BY <1>2
<1>8. ASSUME NEW s \in Scanners, ScanStep(s)
      PROVE  FALSE
  BY <1>7, <1>8 DEF ScanStep, ListEmployee, LookUp, Revive, CreateAutoRun, SkipEmployee
<1> QED
  BY <1>4, <1>5, <1>6, <1>7, <1>8 DEF Next, CreatePayrollRun, GrowOld, Tick

(* A line recorded as executed is paid again only if two calls have worked on the
   run at the same time: a retry, and a call that takes over, leave it alone. *)
THEOREM RetriesPayOnlyTheRest ==
  Spec /\ []CallsDoNotOverlap => PaidLinesAreNotPaidAgain
<1>1. Init => ListsAreUnpaid
  BY DEF Init, ListsAreUnpaid, Idle
<1>2. IInv /\ CallsDoNotOverlap /\ ListsAreUnpaid /\ [Next]_vars => ListsAreUnpaid'
  BY ListsPreserved
<1>3. IInv /\ ListsAreUnpaid /\ [Next]_vars =>
        [\A w \in Workers, e \in Employees :
            PaysLine(w, e) => lines[workers[w].run][e] # "EXECUTED"]_vars
  <2> SUFFICES ASSUME IInv, ListsAreUnpaid, Next, NEW w \in Workers, NEW e \in Employees,
                      PaysLine(w, e)
               PROVE  lines[workers[w].run][e] # "EXECUTED"
    BY DEF vars
  <2>1. e \in workers[w].todo
    BY PaysFromTheList
  <2> QED
    BY <2>1 DEF ListsAreUnpaid, PaysLine
<1> QED
  BY <1>1, <1>2, <1>3, PayrollInvariant, PTL DEF Spec, PaidLinesAreNotPaidAgain

=============================================================================

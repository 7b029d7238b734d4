----------------------- MODULE ScheduledTransfersProofs -----------------------
(* Proofs about ScheduledTransfers: the unique execution row is a claim, for
   any number of workers, payments and lost requests. *)
EXTENDS ScheduledTransfers, TLAPS

USE ScheduleAssumption DEF Workers

-----------------------------------------------------------------------------
(* Types. *)

(* A run stays in the range of dates, as does the date that follows it. *)
LEMMA RunsAreDates ==
  /\ 0..Horizon \subseteq Times
  /\ \A r \in 0..Horizon : r + Period \in Times
BY DEF Times

(* No task and no request is taken for an idle worker. *)
LEMMA StepsAreTasks ==
  ASSUME TypeOK, NEW w \in Workers,
         workers[w].step \in {"unpause", "reread", "create"} \cup Claimed
  PROVE  workers[w] \in Task
BY DEF TypeOK, Idle, Claimed

(* Writing one task keeps the type of the workers. *)
LEMMA StartType ==
  ASSUME TypeOK, NEW w \in Workers, NEW p \in Payments, NEW run \in 0..Horizon,
         NEW step \in {"unpause", "reread", "create"}, Start(w, p, run, step)
  PROVE  workers' \in [Workers -> Task \cup {Idle}]
<1>1. payments[p].failures \in Nat /\ now \in 0..Horizon
  BY DEF TypeOK, PaymentRow
<1>2. [step |-> step, payment |-> p, runAt |-> run,
       failures |-> payments[p].failures, begun |-> now] \in Task
  BY <1>1 DEF Task
<1> QED
  BY <1>2 DEF Start, TypeOK

LEMMA GotoType ==
  ASSUME TypeOK, NEW w \in Workers, workers[w] \in Task,
         NEW step \in {"unpause", "reread", "create"} \cup Claimed, Goto(w, step)
  PROVE  workers' \in [Workers -> Task \cup {Idle}]
<1>1. [workers[w] EXCEPT !.step = step] \in Task
  BY DEF Task
<1> QED
  BY <1>1 DEF Goto, TypeOK

LEMMA ReturnType ==
  ASSUME TypeOK, NEW w \in Workers, Return(w)
  PROVE  workers' \in [Workers -> Task \cup {Idle}]
BY DEF Return, TypeOK

(* Writing one execution row, or one payment, keeps the type of all. *)
LEMMA RowType ==
  ASSUME TypeOK, NEW p \in Payments, NEW r \in Times,
         NEW s \in {"PENDING", "EXECUTED", "FAILED"}
  PROVE  [runs EXCEPT ![p][r] = s]
            \in [Payments -> [Times -> {"NONE", "PENDING", "EXECUTED", "FAILED"}]]
BY DEF TypeOK

LEMMA PaymentType ==
  ASSUME TypeOK, NEW p \in Payments, NEW row \in PaymentRow
  PROVE  [payments EXCEPT ![p] = row] \in [Payments -> PaymentRow]
BY DEF TypeOK

-----------------------------------------------------------------------------
(* Who owns what after a step. *)

LEMMA GotoOwns ==
  ASSUME TypeOK, NEW w \in Workers, workers[w] \in Task, NEW step, Goto(w, step),
         NEW v \in Workers, NEW p, NEW r
  PROVE  /\ v # w => (Owns(v, p, r)' <=> Owns(v, p, r)) /\ workers'[v] = workers[v]
         /\ workers'[w].step = step
         /\ Owns(w, p, r)' <=> /\ step \in Claimed
                               /\ workers[w].payment = p
                               /\ workers[w].runAt = r
<1>1. workers' = [workers EXCEPT ![w] = [workers[w] EXCEPT !.step = step]]
  BY DEF Goto, TypeOK
<1>2. /\ workers'[w] = [workers[w] EXCEPT !.step = step]
      /\ v # w => workers'[v] = workers[v]
  BY <1>1 DEF TypeOK
<1>3. /\ workers'[w].step = step
      /\ workers'[w].payment = workers[w].payment
      /\ workers'[w].runAt = workers[w].runAt
  BY <1>2 DEF Task
<1> QED
  BY <1>2, <1>3 DEF Owns

LEMMA ReturnOwns ==
  ASSUME TypeOK, NEW w \in Workers, Return(w), NEW v \in Workers, NEW p, NEW r
  PROVE  /\ v # w => (Owns(v, p, r)' <=> Owns(v, p, r)) /\ workers'[v] = workers[v]
         /\ ~Owns(w, p, r)'
BY DEF Return, TypeOK, Owns, Idle, Claimed

-----------------------------------------------------------------------------
(* The claim. *)

Claims == OneOwner /\ ClaimsAgree /\ PaidOncePerRun

(* A step that leaves rows and money alone, claims nothing, and moves an owner
   at most to its catch block, keeps the claims. *)
LEMMA QuietStep ==
  ASSUME Claims, runs' = runs, moved' = moved,
         \A v \in Workers : \A p, r :
            Owns(v, p, r)' => /\ Owns(v, p, r)
                              /\ workers'[v].step \in {workers[v].step, "fail"}
  PROVE  Claims'
<1>1. OneOwner'
  BY DEF Claims, OneOwner
<1>2. PaidOncePerRun'
  BY DEF Claims, PaidOncePerRun
<1>3. ClaimsAgree'
  <2> SUFFICES ASSUME NEW p \in Payments, NEW r \in Times
               PROVE  /\ runs[p][r] = "NONE" => moved[p][r] = 0
                      /\ \A w \in Workers : Owns(w, p, r)' =>
                            /\ runs[p][r] = "PENDING"
                            /\ workers'[w].step = "pay" => moved[p][r] = 0
                            /\ workers'[w].step = "mark" => moved[p][r] = 1
    BY DEF ClaimsAgree
  <2>1. runs[p][r] = "NONE" => moved[p][r] = 0
    BY DEF Claims, ClaimsAgree
  <2>2. ASSUME NEW w \in Workers, Owns(w, p, r)'
        PROVE  /\ runs[p][r] = "PENDING"
               /\ workers'[w].step = "pay" => moved[p][r] = 0
               /\ workers'[w].step = "mark" => moved[p][r] = 1
    <3>1. Owns(w, p, r) /\ workers'[w].step \in {workers[w].step, "fail"}
      BY <2>2
    <3> QED
      BY <3>1 DEF Claims, ClaimsAgree
  <2> QED
    BY <2>1, <2>2
<1> QED
  BY <1>1, <1>2, <1>3 DEF Claims

(* A step of worker w that concerns one run, which no other worker owns, keeps
   the claims if it leaves this run in order. *)
LEMMA RunStep ==
  ASSUME Claims, NEW w \in Workers, NEW q \in Payments, NEW s \in Times,
         \A v \in Workers : v # w =>
            /\ workers'[v] = workers[v]
            /\ ~Owns(v, q, s),
         \A p, r : Owns(w, p, r)' => p = q /\ r = s,
         \A p \in Payments, r \in Times : p # q \/ r # s =>
            runs'[p][r] = runs[p][r] /\ moved'[p][r] = moved[p][r],
         runs'[q][s] # "NONE",
         runs'[q][s] = "EXECUTED" => moved'[q][s] = 1,
         moved'[q][s] <= 1,
         Owns(w, q, s)' => /\ runs'[q][s] = "PENDING"
                           /\ workers'[w].step = "pay" => moved'[q][s] = 0
                           /\ workers'[w].step = "mark" => moved'[q][s] = 1
  PROVE  Claims'
<1>1. \A v \in Workers : v # w => \A p, r : Owns(v, p, r)' <=> Owns(v, p, r)
  BY DEF Owns
<1>2. OneOwner'
  BY <1>1 DEF Claims, OneOwner
<1>3. PaidOncePerRun'
  BY DEF Claims, PaidOncePerRun
<1>4. ASSUME NEW p \in Payments, NEW r \in Times
      PROVE  runs'[p][r] = "NONE" => moved'[p][r] = 0
  BY DEF Claims, ClaimsAgree
<1>5. ASSUME NEW p \in Payments, NEW r \in Times, NEW v \in Workers, Owns(v, p, r)'
      PROVE  /\ runs'[p][r] = "PENDING"
             /\ workers'[v].step = "pay" => moved'[p][r] = 0
             /\ workers'[v].step = "mark" => moved'[p][r] = 1
  <2>1. CASE v = w
    BY <1>5, <2>1
  <2>2. CASE v # w
    <3>1. Owns(v, p, r) /\ workers'[v] = workers[v]
      BY <1>1, <1>5, <2>2
    <3>2. p # q \/ r # s
      BY <2>2, <3>1
    <3>3. /\ runs[p][r] = "PENDING"
          /\ workers[v].step = "pay" => moved[p][r] = 0
          /\ workers[v].step = "mark" => moved[p][r] = 1
      BY <3>1 DEF Claims, ClaimsAgree
    <3> QED
      BY <3>1, <3>2, <3>3
  <2> QED
    BY <2>1, <2>2
<1>6. ClaimsAgree'
  BY <1>4, <1>5 DEF ClaimsAgree
<1> QED
  BY <1>2, <1>3, <1>6 DEF Claims

-----------------------------------------------------------------------------
(* The initial states. *)

LEMMA InitIInv == Init => IInv
<1> SUFFICES ASSUME Init PROVE IInv
  OBVIOUS
<1>1. TypeOK
  <2>1. [Payments -> [kind : {"RECURRING", "SCHEDULED"}, status : {"APPROVED"},
                      next : 0..Horizon, failures : {0}]] \subseteq [Payments -> PaymentRow]
    BY RunsAreDates DEF PaymentRow
  <2>2. payments \in [Payments -> PaymentRow]
    BY <2>1 DEF Init
  <2> QED
    BY <2>2 DEF Init, TypeOK
<1>2. \A w \in Workers : workers[w].step = "idle"
  BY DEF Init, Idle
<1>3. \A w \in Workers : \A p, r : ~Owns(w, p, r)
  BY <1>2 DEF Owns, Claimed
<1>4. \A p \in Payments, r \in Times : runs[p][r] = "NONE" /\ moved[p][r] = 0
  BY DEF Init
<1> QED
  BY <1>1, <1>3, <1>4 DEF IInv, OneOwner, ClaimsAgree, PaidOncePerRun

-----------------------------------------------------------------------------
(* What a worker does. *)

(* The run of a task. *)
LEMMA TaskFields ==
  ASSUME NEW k \in Task
  PROVE  /\ k.payment \in Payments
         /\ k.runAt \in 0..Horizon /\ k.runAt \in Times
         /\ k.runAt + Period \in Times
         /\ k.failures \in Nat
BY RunsAreDates DEF Task

LEMMA FindDueStep ==
  ASSUME IInv, NEW w \in Workers, NEW p \in Payments, FindDue(w, p) \/ RunNow(w, p)
  PROVE  TypeOK' /\ Claims'
<1>1. now \in 0..Horizon /\ payments[p].next \in Times
  BY DEF IInv, TypeOK, PaymentRow
<1>2. PICK run \in 0..Horizon, step \in {"unpause", "reread", "create"} :
         Start(w, p, run, step)
  <2>1. CASE FindDue(w, p)
    <3>1. payments[p].next \in 0..Horizon
      BY <1>1, <2>1 DEF FindDue, Due, Times
    <3> QED
      BY <2>1, <3>1 DEF FindDue
  <2>2. CASE RunNow(w, p)
    <3> DEFINE run == IF payments[p].next <= now THEN payments[p].next ELSE now
               step == IF payments[p].status = "PAUSED" THEN "unpause" ELSE "reread"
    <3>1. run \in 0..Horizon
      BY <1>1 DEF Times
    <3>2. step \in {"unpause", "reread", "create"}
      OBVIOUS
    <3>3. Start(w, p, run, step)
      BY <2>2 DEF RunNow
    <3> HIDE DEF run, step
    <3> QED
      BY <3>1, <3>2, <3>3
  <2> QED
    BY <2>1, <2>2
<1>3. UNCHANGED <<now, payments, runs, moved, desk, crashes>>
  BY DEF FindDue, RunNow
<1>4. TypeOK'
  <2>1. workers' \in [Workers -> Task \cup {Idle}]
    BY <1>2, StartType DEF IInv
  <2> QED
    BY <1>3, <2>1 DEF IInv, TypeOK
<1>5. /\ workers'[w].step = step
      /\ \A v \in Workers : v # w => workers'[v] = workers[v]
  BY <1>2 DEF Start, IInv, TypeOK
<1>6. \A v \in Workers : \A q, r : Owns(v, q, r)' =>
         Owns(v, q, r) /\ workers'[v].step \in {workers[v].step, "fail"}
  BY <1>5 DEF Owns, Claimed
<1> QED
  BY <1>3, <1>4, <1>6, QuietStep DEF IInv, Claims

(* A worker that reads its payment again, or unpauses it, has no claim yet. *)
LEMMA UnpauseStep ==
  ASSUME IInv, NEW w \in Workers, Unpause(w)
  PROVE  TypeOK' /\ Claims'
<1>1. workers[w] \in Task
  BY StepsAreTasks DEF IInv, Unpause
<1>2. workers[w].payment \in Payments
  BY <1>1, TaskFields
<1>3. TypeOK'
  <2>1. [payments[workers[w].payment] EXCEPT !.status = "APPROVED"] \in PaymentRow
    <3>1. payments[workers[w].payment] \in PaymentRow
      BY <1>2 DEF IInv, TypeOK
    <3> QED
      BY <3>1 DEF PaymentRow
  <2>2. payments' = [payments EXCEPT ![workers[w].payment] =
                       [payments[workers[w].payment] EXCEPT !.status = "APPROVED"]]
    BY DEF Unpause
  <2>3. payments' \in [Payments -> PaymentRow]
    BY <1>2, <2>1, <2>2, PaymentType DEF IInv
  <2>4. workers' \in [Workers -> Task \cup {Idle}]
    BY <1>1, GotoType DEF IInv, Unpause
  <2> QED
    BY <2>3, <2>4 DEF Unpause, IInv, TypeOK
<1>4. \A v \in Workers : \A p, r : Owns(v, p, r)' =>
         Owns(v, p, r) /\ workers'[v].step \in {workers[v].step, "fail"}
  BY <1>1, GotoOwns DEF IInv, Unpause, Claimed
<1> QED
  BY <1>3, <1>4, QuietStep DEF IInv, Claims, Unpause

LEMMA RereadStep ==
  ASSUME IInv, NEW w \in Workers, Reread(w)
  PROVE  TypeOK' /\ Claims'
<1>1. workers[w] \in Task
  BY StepsAreTasks DEF IInv, Reread
<1>2. workers[w].payment \in Payments
  BY <1>1, TaskFields
<1> DEFINE read == payments[workers[w].payment].failures
<1>3. read \in Nat
  BY <1>2 DEF IInv, TypeOK, PaymentRow
<1> HIDE DEF read
<1>4. workers' = [workers EXCEPT ![w] = [workers[w] EXCEPT !.step = "create",
                                                           !.failures = read]]
  BY DEF Reread, read, IInv, TypeOK
<1>5. [workers[w] EXCEPT !.step = "create", !.failures = read] \in Task
  BY <1>1, <1>3 DEF Task
<1>6. TypeOK'
  <2>1. workers' \in [Workers -> Task \cup {Idle}]
    BY <1>4, <1>5 DEF IInv, TypeOK
  <2> QED
    BY <2>1 DEF Reread, IInv, TypeOK
<1>7. /\ workers'[w].step = "create"
      /\ \A v \in Workers : v # w => workers'[v] = workers[v]
  BY <1>1, <1>4 DEF IInv, TypeOK, Task
<1>8. \A v \in Workers : \A p, r : Owns(v, p, r)' =>
         Owns(v, p, r) /\ workers'[v].step \in {workers[v].step, "fail"}
  BY <1>7 DEF Owns, Claimed
<1> QED
  BY <1>6, <1>8, QuietStep DEF IInv, Claims, Reread

(* The catch block is entered by the owner, and a worker that returns or is
   lost gives up what it owns. *)
LEMMA FailStep ==
  ASSUME IInv, NEW w \in Workers, Fail(w)
  PROVE  TypeOK' /\ Claims'
<1>1. workers[w] \in Task
  BY StepsAreTasks DEF IInv, Fail, Claimed
<1>2. TypeOK'
  <2>1. workers' \in [Workers -> Task \cup {Idle}]
    BY <1>1, GotoType DEF IInv, Fail, Claimed
  <2> QED
    BY <2>1 DEF Fail, IInv, TypeOK
<1>3. \A v \in Workers : \A p, r : Owns(v, p, r)' =>
         Owns(v, p, r) /\ workers'[v].step \in {workers[v].step, "fail"}
  <2> SUFFICES ASSUME NEW v \in Workers, NEW p, NEW r, Owns(v, p, r)'
               PROVE  Owns(v, p, r) /\ workers'[v].step \in {workers[v].step, "fail"}
    OBVIOUS
  <2>1. CASE v = w
    <3>1. workers[w].payment = p /\ workers[w].runAt = r /\ workers'[w].step = "fail"
      BY <1>1, <2>1, GotoOwns DEF IInv, Fail
    <3> QED
      BY <2>1, <3>1 DEF Owns, Fail, Claimed
  <2>2. CASE v # w
    BY <1>1, <2>2, GotoOwns DEF IInv, Fail
  <2> QED
    BY <2>1, <2>2
<1> QED
  BY <1>2, <1>3, QuietStep DEF IInv, Claims, Fail

LEMMA CrashStep ==
  ASSUME IInv, NEW w \in Workers, Crash(w)
  PROVE  TypeOK' /\ Claims'
<1>1. TypeOK'
  <2>1. workers' \in [Workers -> Task \cup {Idle}]
    BY ReturnType DEF IInv, Crash
  <2>2. crashes' \in 0..MaxCrashes
    BY DEF IInv, TypeOK, Crash
  <2> QED
    BY <2>1, <2>2 DEF Crash, IInv, TypeOK
<1>2. \A v \in Workers : \A p, r : Owns(v, p, r)' =>
         Owns(v, p, r) /\ workers'[v].step \in {workers[v].step, "fail"}
  BY ReturnOwns DEF IInv, Crash
<1> QED
  BY <1>1, <1>2, QuietStep DEF IInv, Claims, Crash

-----------------------------------------------------------------------------
(* The steps that concern the claimed run. *)

(* A worker in a claimed step owns its run, and owns it alone. *)
LEMMA OwnerIsAlone ==
  ASSUME IInv, NEW w \in Workers, workers[w].step \in Claimed
  PROVE  /\ workers[w] \in Task
         /\ Owns(w, workers[w].payment, workers[w].runAt)
         /\ \A v \in Workers : v # w => ~Owns(v, workers[w].payment, workers[w].runAt)
<1>1. workers[w] \in Task
  BY StepsAreTasks DEF IInv
<1>2. workers[w].payment \in Payments /\ workers[w].runAt \in Times
  BY <1>1, TaskFields
<1>3. Owns(w, workers[w].payment, workers[w].runAt)
  BY DEF Owns
<1> QED
  BY <1>1, <1>2, <1>3 DEF IInv, OneOwner

(* A row is written where its index says, and nowhere else. *)
LEMMA RowWritten ==
  ASSUME TypeOK, NEW q \in Payments, NEW s \in Times,
         NEW row \in {"PENDING", "EXECUTED", "FAILED"},
         runs' = [runs EXCEPT ![q][s] = row]
  PROVE  /\ runs'[q][s] = row
         /\ \A p \in Payments, r \in Times : p # q \/ r # s => runs'[p][r] = runs[p][r]
BY DEF TypeOK

(* Creating the row is the claim: nobody owns a run that has no row. *)
LEMMA CreateExecutionStep ==
  ASSUME IInv, NEW w \in Workers, CreateExecution(w)
  PROVE  TypeOK' /\ Claims'
<1> DEFINE q == workers[w].payment
           s == workers[w].runAt
<1>1. workers[w] \in Task
  BY StepsAreTasks DEF IInv, CreateExecution
<1>2. q \in Payments /\ s \in Times
  BY <1>1, TaskFields
<1>3. /\ runs[q][s] = "NONE"
      /\ runs' = [runs EXCEPT ![q][s] = "PENDING"]
      /\ Goto(w, "pay")
      /\ UNCHANGED <<now, payments, moved, desk, crashes>>
  BY DEF CreateExecution
<1>4. /\ \A v \in Workers : v # w => workers'[v] = workers[v]
      /\ \A p, r : Owns(w, p, r)' => p = q /\ r = s
      /\ workers'[w].step = "pay"
  BY <1>1, <1>3, GotoOwns DEF IInv
<1> HIDE DEF q, s
<1>5. TypeOK'
  <2>1. workers' \in [Workers -> Task \cup {Idle}]
    BY <1>1, <1>3, GotoType DEF IInv, Claimed
  <2>2. runs' \in [Payments -> [Times -> {"NONE", "PENDING", "EXECUTED", "FAILED"}]]
    BY <1>2, <1>3, RowType DEF IInv
  <2> QED
    BY <1>3, <2>1, <2>2 DEF IInv, TypeOK
<1>6. \A v \in Workers : ~Owns(v, q, s)
  BY <1>2, <1>3 DEF IInv, ClaimsAgree
<1>7. moved'[q][s] = 0
  BY <1>2, <1>3 DEF IInv, ClaimsAgree
<1>8. /\ runs'[q][s] = "PENDING"
      /\ \A p \in Payments, r \in Times : p # q \/ r # s =>
            runs'[p][r] = runs[p][r] /\ moved'[p][r] = moved[p][r]
  <2>1. TypeOK /\ runs' = [runs EXCEPT ![q][s] = "PENDING"]
    BY <1>3 DEF IInv
  <2>2. /\ runs'[q][s] = "PENDING"
        /\ \A p \in Payments, r \in Times : p # q \/ r # s => runs'[p][r] = runs[p][r]
    BY <1>2, <2>1, RowWritten, Zenon
  <2> QED
    BY <1>3, <2>2
<1>9. Claims
  BY DEF IInv, Claims
<1> QED
  BY <1>2, <1>4, <1>5, <1>6, <1>7, <1>8, <1>9, RunStep

(* A failed row that is made pending again has no owner, before or after. *)
LEMMA FindExistingStep ==
  ASSUME IInv, NEW w \in Workers, FindExisting(w)
  PROVE  TypeOK' /\ Claims'
<1> DEFINE q == workers[w].payment
           s == workers[w].runAt
<1>1. workers[w] \in Task
  BY StepsAreTasks DEF IInv, FindExisting
<1>2. q \in Payments /\ s \in Times
  BY <1>1, TaskFields
<1>3. /\ runs' = IF runs[q][s] = "FAILED" THEN [runs EXCEPT ![q][s] = "PENDING"] ELSE runs
      /\ Return(w)
      /\ UNCHANGED <<now, payments, moved, desk, crashes>>
  BY DEF FindExisting
<1> HIDE DEF q, s
<1>4. workers' \in [Workers -> Task \cup {Idle}]
  BY <1>3, ReturnType DEF IInv
<1>5. /\ \A v \in Workers : v # w => workers'[v] = workers[v]
      /\ \A p, r : ~Owns(w, p, r)'
      /\ \A v \in Workers : v # w => \A p, r : Owns(v, p, r)' <=> Owns(v, p, r)
  BY <1>3, ReturnOwns DEF IInv
<1>6. Claims
  BY DEF IInv, Claims
<1>7. CASE runs[q][s] # "FAILED"
  <2>1. TypeOK'
    BY <1>3, <1>4, <1>7 DEF IInv, TypeOK
  <2>2. \A v \in Workers : \A p, r : Owns(v, p, r)' =>
           Owns(v, p, r) /\ workers'[v].step \in {workers[v].step, "fail"}
    BY <1>5
  <2> QED
    BY <1>3, <1>6, <1>7, <2>1, <2>2, QuietStep
<1>8. CASE runs[q][s] = "FAILED"
  <2>1. runs' = [runs EXCEPT ![q][s] = "PENDING"]
    BY <1>3, <1>8
  <2>2. runs' \in [Payments -> [Times -> {"NONE", "PENDING", "EXECUTED", "FAILED"}]]
    BY <1>2, <2>1, RowType DEF IInv
  <2>3. TypeOK'
    BY <1>3, <1>4, <2>2 DEF IInv, TypeOK
  <2>4. \A v \in Workers : ~Owns(v, q, s)
    BY <1>2, <1>8 DEF IInv, ClaimsAgree
  <2>5. /\ runs'[q][s] = "PENDING"
        /\ \A p \in Payments, r \in Times : p # q \/ r # s =>
              runs'[p][r] = runs[p][r] /\ moved'[p][r] = moved[p][r]
    <3>1. TypeOK
      BY DEF IInv
    <3>2. /\ runs'[q][s] = "PENDING"
          /\ \A p \in Payments, r \in Times : p # q \/ r # s => runs'[p][r] = runs[p][r]
      BY <1>2, <2>1, <3>1, RowWritten, Zenon
    <3> QED
      BY <1>3, <3>2
  <2>6. moved'[q][s] <= 1
    BY <1>2, <1>3 DEF IInv, PaidOncePerRun
  <2> QED
    BY <1>2, <1>5, <1>6, <2>3, <2>4, <2>5, <2>6, RunStep
<1> QED
  BY <1>7, <1>8

(* The money moves while the run is pending and has not moved. *)
LEMMA MoveMoneyStep ==
  ASSUME IInv, NEW w \in Workers, MoveMoney(w)
  PROVE  TypeOK' /\ Claims'
<1> DEFINE q == workers[w].payment
           s == workers[w].runAt
<1>1. /\ workers[w] \in Task
      /\ Owns(w, q, s)
      /\ \A v \in Workers : v # w => ~Owns(v, q, s)
  BY OwnerIsAlone DEF MoveMoney, Claimed
<1>2. q \in Payments /\ s \in Times
  BY <1>1, TaskFields
<1>3. /\ workers[w].step = "pay"
      /\ moved' = [moved EXCEPT ![q][s] = @ + 1]
      /\ Goto(w, "mark")
      /\ UNCHANGED <<now, payments, runs, desk, crashes>>
  BY DEF MoveMoney
<1>4. /\ \A v \in Workers : v # w => workers'[v] = workers[v]
      /\ \A p, r : Owns(w, p, r)' => p = q /\ r = s
      /\ workers'[w].step = "mark"
  BY <1>1, <1>3, GotoOwns DEF IInv
<1>5. runs[q][s] = "PENDING" /\ moved[q][s] = 0
  BY <1>1, <1>2, <1>3 DEF IInv, ClaimsAgree
<1> HIDE DEF q, s
<1>6. moved \in [Payments -> [Times -> Nat]]
  BY DEF IInv, TypeOK
<1>7. /\ moved' \in [Payments -> [Times -> Nat]]
      /\ moved'[q][s] = 1
      /\ \A p \in Payments, r \in Times : p # q \/ r # s => moved'[p][r] = moved[p][r]
  BY <1>2, <1>3, <1>5, <1>6
<1>8. TypeOK'
  <2>1. workers' \in [Workers -> Task \cup {Idle}]
    BY <1>1, <1>3, GotoType DEF IInv, Claimed
  <2> QED
    BY <1>3, <1>7, <2>1 DEF IInv, TypeOK
<1>9. Claims
  BY DEF IInv, Claims
<1>10. /\ \A p \in Payments, r \in Times : p # q \/ r # s =>
             runs'[p][r] = runs[p][r] /\ moved'[p][r] = moved[p][r]
       /\ runs'[q][s] = "PENDING"
  BY <1>3, <1>5, <1>7
<1> QED
  BY <1>1, <1>2, <1>4, <1>7, <1>8, <1>9, <1>10, RunStep

(* Recording the outcome ends the claim: the run is executed only after its
   money has moved. *)
LEMMA OutcomeStep ==
  ASSUME IInv, NEW w \in Workers, MarkExecuted(w) \/ RecordFailure(w)
  PROVE  TypeOK' /\ Claims'
<1> DEFINE q == workers[w].payment
           s == workers[w].runAt
<1>1. /\ workers[w] \in Task
      /\ Owns(w, q, s)
      /\ \A v \in Workers : v # w => ~Owns(v, q, s)
  BY OwnerIsAlone DEF MarkExecuted, RecordFailure, Claimed
<1>2. /\ q \in Payments /\ s \in Times
      /\ s + Period \in Times
      /\ workers[w].failures + 1 \in Nat
  BY <1>1, TaskFields
<1>3. PICK row \in {"EXECUTED", "FAILED"}, payment \in PaymentRow :
         /\ row = "EXECUTED" => workers[w].step = "mark"
         /\ runs' = [runs EXCEPT ![q][s] = row]
         /\ payments' = [payments EXCEPT ![q] = payment]
  <2>1. payments \in [Payments -> PaymentRow] /\ payments[q] \in PaymentRow
    BY <1>2 DEF IInv, TypeOK
  <2> DEFINE old == payments[q]
             done == IF old.kind = "RECURRING"
                     THEN [old EXCEPT !.failures = 0, !.next = s + Period, !.status = "APPROVED"]
                     ELSE [old EXCEPT !.failures = 0, !.status = "EXECUTED"]
             failures == workers[w].failures + 1
             failed == IF old.kind = "RECURRING"
                       THEN [old EXCEPT !.failures = failures, !.next = s + Period,
                                        !.status = IF failures >= FAILURE_THRESHOLD
                                                   THEN "PAUSED" ELSE "APPROVED"]
                       ELSE [old EXCEPT !.failures = failures, !.status = "FAILED"]
  <2>2. CASE MarkExecuted(w)
    <3>1. done \in PaymentRow
      BY <1>2, <2>1 DEF PaymentRow
    <3>2. /\ workers[w].step = "mark"
          /\ runs' = [runs EXCEPT ![q][s] = "EXECUTED"]
          /\ payments' = [payments EXCEPT ![q] = done]
      BY <2>2 DEF MarkExecuted
    <3> HIDE DEF done
    <3> QED
      BY <3>1, <3>2
  <2>3. CASE RecordFailure(w)
    <3>1. failed \in PaymentRow
      <4> HIDE DEF q, s
      <4> QED
        BY <1>2, <2>1 DEF PaymentRow
    <3>2. /\ runs' = [runs EXCEPT ![q][s] = "FAILED"]
          /\ payments' = [payments EXCEPT ![q] = failed]
      BY <2>3 DEF RecordFailure
    <3> HIDE DEF failed
    <3> QED
      BY <3>1, <3>2
  <2> QED
    BY <2>2, <2>3
<1>4. Return(w) /\ UNCHANGED <<now, moved, desk, crashes>>
  BY DEF MarkExecuted, RecordFailure
<1>5. /\ \A v \in Workers : v # w => workers'[v] = workers[v]
      /\ \A p, r : ~Owns(w, p, r)'
  BY <1>4, ReturnOwns DEF IInv
<1>6. /\ workers[w].step = "mark" => moved[q][s] = 1
      /\ moved[q][s] <= 1
  BY <1>1, <1>2 DEF IInv, ClaimsAgree, PaidOncePerRun
<1> HIDE DEF q, s
<1>7. TypeOK
  BY DEF IInv
<1>8. TypeOK'
  <2>1. workers' \in [Workers -> Task \cup {Idle}]
    BY <1>4, <1>7, ReturnType
  <2>2. runs' \in [Payments -> [Times -> {"NONE", "PENDING", "EXECUTED", "FAILED"}]]
    BY <1>2, <1>3, <1>7, RowType
  <2>3. payments' \in [Payments -> PaymentRow]
    BY <1>2, <1>3, <1>7, PaymentType
  <2> QED
    BY <1>4, <1>7, <2>1, <2>2, <2>3 DEF TypeOK
<1>9. /\ runs'[q][s] = row
      /\ \A p \in Payments, r \in Times : p # q \/ r # s => runs'[p][r] = runs[p][r]
  <2>1. /\ row \in {"PENDING", "EXECUTED", "FAILED"}
        /\ runs' = [runs EXCEPT ![q][s] = row]
    BY <1>3
  <2>2. runs \in [Payments -> [Times -> {"NONE", "PENDING", "EXECUTED", "FAILED"}]]
    BY <1>7 DEF TypeOK
  <2> QED
    BY <1>2, <2>1, <2>2
<1>10. Claims
  BY DEF IInv, Claims
<1>11. /\ runs'[q][s] # "NONE"
       /\ runs'[q][s] = "EXECUTED" => moved'[q][s] = 1
       /\ moved'[q][s] <= 1
       /\ \A p \in Payments, r \in Times : p # q \/ r # s =>
             runs'[p][r] = runs[p][r] /\ moved'[p][r] = moved[p][r]
  BY <1>3, <1>4, <1>6, <1>9
<1> QED
  BY <1>1, <1>2, <1>5, <1>8, <1>10, <1>11, RunStep

-----------------------------------------------------------------------------
(* Requests of the desk, and time, leave runs and workers alone. *)

LEMMA DeskStep ==
  ASSUME IInv, NEW d \in Desk,
         \/ \E p \in Payments, op \in {"cancel", "pause", "resume"} : BeginRequest(d, op, p)
         \/ FinishRequest(d)
  PROVE  TypeOK'
<1>1. CASE \E p \in Payments, op \in {"cancel", "pause", "resume"} : BeginRequest(d, op, p)
  <2>1. PICK p \in Payments, op \in {"cancel", "pause", "resume"} : BeginRequest(d, op, p)
    BY <1>1
  <2>2. [op |-> op, payment |-> p] \in Request
    BY DEF Request
  <2> QED
    BY <2>1, <2>2 DEF BeginRequest, IInv, TypeOK
<1>2. CASE FinishRequest(d)
  <2>1. desk[d] \in Request
    BY <1>2 DEF FinishRequest, IInv, TypeOK
  <2>2. desk[d].payment \in Payments /\ desk[d].op \in {"cancel", "pause", "resume"}
    BY <2>1 DEF Request
  <2>3. payments[desk[d].payment] \in PaymentRow
    BY <2>2 DEF IInv, TypeOK
  <2> DEFINE old == payments[desk[d].payment]
             new == CASE desk[d].op = "cancel" -> [old EXCEPT !.status = "CANCELLED"]
                      [] desk[d].op = "pause" -> [old EXCEPT !.status = "PAUSED"]
                      [] desk[d].op = "resume" -> [old EXCEPT !.status = "APPROVED",
                                                              !.failures = 0]
  <2>4. new \in PaymentRow
    BY <2>2, <2>3 DEF PaymentRow
  <2>5. payments' = [payments EXCEPT ![desk[d].payment] = new]
    BY <1>2 DEF FinishRequest
  <2> HIDE DEF new
  <2>6. payments' \in [Payments -> PaymentRow]
    BY <2>2, <2>4, <2>5, PaymentType DEF IInv
  <2>7. desk' \in [Desk -> Request \cup {[op |-> "idle"]}]
    BY <1>2 DEF FinishRequest, IInv, TypeOK
  <2> QED
    BY <1>2, <2>6, <2>7 DEF FinishRequest, IInv, TypeOK
<1> QED
  BY <1>1, <1>2

LEMMA ClaimsKept ==
  ASSUME IInv, UNCHANGED <<runs, moved, workers>>
  PROVE  Claims'
BY DEF IInv, Claims, OneOwner, ClaimsAgree, PaidOncePerRun, Owns

-----------------------------------------------------------------------------
(* Every step keeps the invariant. *)

LEMMA WorkStep ==
  ASSUME IInv, NEW w \in Workers, Work(w) \/ Crash(w)
  PROVE  TypeOK' /\ Claims'
<1>1. CASE Unpause(w)
  BY <1>1, UnpauseStep
<1>2. CASE Reread(w)
  BY <1>2, RereadStep
<1>3. CASE CreateExecution(w)
  BY <1>3, CreateExecutionStep
<1>4. CASE FindExisting(w)
  BY <1>4, FindExistingStep
<1>5. CASE MoveMoney(w)
  BY <1>5, MoveMoneyStep
<1>6. CASE Fail(w)
  BY <1>6, FailStep
<1>7. CASE MarkExecuted(w) \/ RecordFailure(w)
  BY <1>7, OutcomeStep
<1>8. CASE Crash(w)
  BY <1>8, CrashStep
<1> QED
  BY <1>1, <1>2, <1>3, <1>4, <1>5, <1>6, <1>7, <1>8 DEF Work

LEMMA NextIInv == IInv /\ [Next]_vars => IInv'
<1> SUFFICES ASSUME IInv, [Next]_vars PROVE TypeOK' /\ Claims'
  BY DEF IInv, Claims
<1>1. CASE \E w \in Workers, p \in Payments : FindDue(w, p) \/ RunNow(w, p)
  BY <1>1, FindDueStep
<1>2. CASE \E w \in Workers : Work(w) \/ Crash(w)
  BY <1>2, WorkStep
<1>3. CASE \E d \in Desk : \/ \E p \in Payments, op \in {"cancel", "pause", "resume"} :
                                 BeginRequest(d, op, p)
                           \/ FinishRequest(d)
  <2>1. TypeOK'
    BY <1>3, DeskStep
  <2>2. UNCHANGED <<runs, moved, workers>>
    BY <1>3 DEF BeginRequest, FinishRequest
  <2> QED
    BY <2>1, <2>2, ClaimsKept
<1>4. CASE Tick
  <2>1. now' \in 0..Horizon
    BY <1>4 DEF Tick, IInv, TypeOK
  <2>2. TypeOK'
    BY <1>4, <2>1 DEF Tick, IInv, TypeOK
  <2> QED
    BY <1>4, <2>2, ClaimsKept DEF Tick
<1>5. CASE UNCHANGED vars
  <2>1. TypeOK'
    BY <1>5 DEF vars, IInv, TypeOK
  <2> QED
    BY <1>5, <2>1, ClaimsKept DEF vars
<1> QED
  BY <1>1, <1>2, <1>3, <1>4, <1>5 DEF Next

(* The inductive invariant: rows, claims and money agree at every moment of
   every behaviour, whatever calls race and whichever are lost. *)
THEOREM ClaimInvariant == Spec => []IInv
<1> QED
  BY InitIInv, NextIInv, PTL DEF Spec

(* The money of a run moves at most once, and has moved when the run reads
   EXECUTED: executeSinglePayment pays only behind a row it has created. *)
THEOREM RunsPaidOnce == Spec => []PaidOncePerRun
<1>1. IInv => PaidOncePerRun
  BY DEF IInv
<1> QED
  BY <1>1, ClaimInvariant, PTL

(* At most one call is between the creation of the row of a run and the record
   of its outcome, even after a failed row has been made pending again. *)
THEOREM RunsHaveOneOwner == Spec => []OneOwner
<1>1. IInv => OneOwner
  BY DEF IInv
<1> QED
  BY <1>1, ClaimInvariant, PTL

-----------------------------------------------------------------------------
(* The dates of recurring payments. *)

LEMMA TaskTimes ==
  ASSUME TypeOK, NEW w \in Workers, workers[w] # Idle
  PROVE  /\ workers[w] \in Task
         /\ workers[w].payment \in Payments
         /\ workers[w].runAt \in Nat /\ workers[w].runAt \in Times
         /\ workers[w].begun \in Nat
<1>1. workers[w] \in Task
  BY DEF TypeOK
<1> QED
  BY <1>1, TaskFields DEF Task

LEMMA PaymentTimes ==
  ASSUME TypeOK, NEW p \in Payments
  PROVE  payments[p] \in PaymentRow /\ payments[p].next \in Nat /\ now \in Nat
BY DEF TypeOK, PaymentRow, Times

(* A step that moves no date and executes no run keeps the dates in order. *)
LEMMA DatesKept ==
  ASSUME DatesAgree, now' = now,
         \A p \in Payments : payments'[p].kind = payments[p].kind /\ payments'[p].next = payments[p].next,
         \A p \in Payments, r \in Times : runs'[p][r] = "EXECUTED" => runs[p][r] = "EXECUTED",
         \A v \in Workers : workers'[v] # Idle =>
            /\ workers[v] # Idle
            /\ workers'[v].payment = workers[v].payment
            /\ workers'[v].runAt = workers[v].runAt
            /\ workers'[v].begun = workers[v].begun,
         \A p \in Payments, v \in Workers : InFlight(v, p)' => InFlight(v, p)
  PROVE  DatesAgree'
<1>1. RequestsAreYoung'
  BY DEF DatesAgree, RequestsAreYoung
<1>2. ExecutedRunsArePast'
  BY DEF DatesAgree, ExecutedRunsArePast
<1>3. RunsInFlightAgree'
  <2> SUFFICES ASSUME NEW p \in Payments, NEW w \in Workers,
                      payments'[p].kind = "RECURRING", InFlight(w, p)'
               PROVE  WrittenBack(workers'[w], payments'[p].next)
    BY DEF RunsInFlightAgree
  <2>1. workers'[w] # Idle
    BY DEF InFlight
  <2>2. WrittenBack(workers[w], payments[p].next)
    BY DEF DatesAgree, RunsInFlightAgree
  <2> QED
    BY <2>1, <2>2 DEF WrittenBack
<1> QED
  BY <1>1, <1>2, <1>3 DEF DatesAgree

(* What a step does to the run of its worker and leaves of the others'. *)
LEMMA OthersInFlight ==
  ASSUME NEW v \in Workers, NEW p, workers'[v] = workers[v],
         runs[p][workers[v].runAt] # "NONE" => runs'[p][workers[v].runAt] # "NONE",
         InFlight(v, p)'
  PROVE  InFlight(v, p)
BY DEF InFlight

LEMMA WrittenRowIsThere ==
  ASSUME TypeOK, NEW q, NEW s, NEW row \in {"PENDING", "EXECUTED", "FAILED"},
         runs' = [runs EXCEPT ![q][s] = row]
  PROVE  \A p \in Payments : \A r \in Times : runs[p][r] # "NONE" => runs'[p][r] # "NONE"
BY DEF TypeOK

LEMMA StepIn ==
  ASSUME TypeOK, NEW w \in Workers, workers[w] \in Task, NEW step, Goto(w, step)
  PROVE  /\ \A v \in Workers : v # w => workers'[v] = workers[v]
         /\ workers'[w].step = step
         /\ workers'[w].payment = workers[w].payment
         /\ workers'[w].runAt = workers[w].runAt
         /\ workers'[w].begun = workers[w].begun
<1>1. workers' = [workers EXCEPT ![w] = [workers[w] EXCEPT !.step = step]]
  BY DEF Goto, TypeOK
<1>2. /\ workers'[w] = [workers[w] EXCEPT !.step = step]
      /\ \A v \in Workers : v # w => workers'[v] = workers[v]
  BY <1>1 DEF TypeOK
<1> QED
  BY <1>2 DEF Task

(* A worker goes on with its run, or returns, and records no outcome. *)
LEMMA WorkerGoesOn ==
  ASSUME TypeOK, DatesAgree, NEW w \in Workers, workers[w] # Idle, now' = now,
         \A p \in Payments : payments'[p].kind = payments[p].kind /\ payments'[p].next = payments[p].next,
         \A p \in Payments : \A r \in Times :
            /\ runs'[p][r] = "EXECUTED" => runs[p][r] = "EXECUTED"
            /\ runs[p][r] # "NONE" => runs'[p][r] # "NONE",
         \A v \in Workers : v # w => workers'[v] = workers[v],
         workers'[w] # Idle =>
            /\ workers'[w].payment = workers[w].payment
            /\ workers'[w].runAt = workers[w].runAt
            /\ workers'[w].begun = workers[w].begun
            /\ workers'[w].step \in Claimed =>
                  \/ workers[w].step \in Claimed
                  \/ runs[workers[w].payment][workers[w].runAt] = "NONE"
  PROVE  DatesAgree'
<1>1. \A v \in Workers : workers'[v] # Idle =>
         /\ workers[v] # Idle
         /\ workers'[v].payment = workers[v].payment
         /\ workers'[v].runAt = workers[v].runAt
         /\ workers'[v].begun = workers[v].begun
  OBVIOUS
<1>2. ASSUME NEW p \in Payments, NEW v \in Workers, InFlight(v, p)'
      PROVE  InFlight(v, p)
  <2>1. /\ workers'[v] # Idle /\ workers[v] # Idle
        /\ workers[v].payment = p /\ workers'[v].payment = p
        /\ workers'[v].runAt = workers[v].runAt
        /\ workers'[v].step \in Claimed \/ runs'[p][workers[v].runAt] = "NONE"
    BY <1>1, <1>2 DEF InFlight
  <2>2. workers[v].runAt \in Times
    BY <2>1, TaskTimes
  <2>3. workers[v].step \in Claimed \/ runs[p][workers[v].runAt] = "NONE"
    BY <2>1, <2>2
  <2> QED
    BY <2>1, <2>3 DEF InFlight
<1> QED
  BY <1>1, <1>2, DatesKept

LEMMA WorkDates ==
  ASSUME DatesInv, NEW w \in Workers,
         \/ Unpause(w) \/ Reread(w) \/ CreateExecution(w) \/ FindExisting(w)
         \/ MoveMoney(w) \/ Fail(w) \/ Crash(w)
  PROVE  DatesAgree'
<1>0. TypeOK /\ DatesAgree
  BY DEF DatesInv, IInv
<1>1. workers[w] # Idle /\ workers[w] \in Task /\ workers[w].payment \in Payments /\ workers[w].runAt \in Times
  <2>1. workers[w] # Idle
    BY DEF Unpause, Reread, CreateExecution, FindExisting, MoveMoney, Fail, Crash, Idle
  <2> QED
    BY <1>0, <2>1, TaskTimes
<1> DEFINE q == workers[w].payment
           s == workers[w].runAt
           SameDates == \A p \in Payments : /\ payments'[p].kind = payments[p].kind
                                            /\ payments'[p].next = payments[p].next
           SameRuns == \A p \in Payments : \A r \in Times :
                          /\ runs'[p][r] = "EXECUTED" => runs[p][r] = "EXECUTED"
                          /\ runs[p][r] # "NONE" => runs'[p][r] # "NONE"
<1>2. now' = now
  BY DEF Unpause, Reread, CreateExecution, FindExisting, MoveMoney, Fail, Crash
<1>3. SameDates
  <2>1. CASE Unpause(w)
    <3>1. payments \in [Payments -> PaymentRow] /\ payments[q] \in PaymentRow
      BY <1>0, <1>1 DEF TypeOK
    <3>2. payments' = [payments EXCEPT ![q] = [payments[q] EXCEPT !.status = "APPROVED"]]
      BY <2>1 DEF Unpause
    <3> HIDE DEF q
    <3> QED
      BY <1>1, <3>1, <3>2 DEF PaymentRow
  <2>2. CASE ~Unpause(w)
    BY <2>2 DEF Reread, CreateExecution, FindExisting, MoveMoney, Fail, Crash
  <2> QED
    BY <2>1, <2>2
<1>4. SameRuns
  <2>1. CASE runs' = [runs EXCEPT ![q][s] = "PENDING"]
    <3> HIDE DEF q, s
    <3>1. runs \in [Payments -> [Times -> {"NONE", "PENDING", "EXECUTED", "FAILED"}]]
      BY <1>0 DEF TypeOK
    <3> QED
      BY <2>1, <3>1
  <2>2. CASE runs' = runs
    BY <2>2
  <2> QED
    BY <2>1, <2>2 DEF Unpause, Reread, CreateExecution, FindExisting, MoveMoney, Fail, Crash
<1> HIDE DEF SameDates, SameRuns
<1>5. CASE FindExisting(w) \/ Crash(w)
  <2>1. /\ \A v \in Workers : v # w => workers'[v] = workers[v]
        /\ workers'[w] = Idle
    BY <1>0, <1>5 DEF FindExisting, Crash, Return, TypeOK
  <2> QED
    BY <1>0, <1>1, <1>2, <1>3, <1>4, <2>1, WorkerGoesOn DEF SameDates, SameRuns
<1>6. CASE Reread(w)
  <2>1. /\ \A v \in Workers : v # w => workers'[v] = workers[v]
        /\ workers'[w].step = "create" /\ workers'[w].payment = q
        /\ workers'[w].runAt = s /\ workers'[w].begun = workers[w].begun
    <3>1. workers' = [workers EXCEPT ![w] = [workers[w] EXCEPT !.step = "create",
                                                  !.failures = payments[workers[w].payment].failures]]
      BY <1>0, <1>6 DEF Reread, TypeOK
    <3>2. /\ \A v \in Workers : v # w => workers'[v] = workers[v]
          /\ workers'[w] = [workers[w] EXCEPT !.step = "create",
                                              !.failures = payments[workers[w].payment].failures]
      BY <1>0, <3>1 DEF TypeOK
    <3> QED
      BY <1>1, <3>2 DEF Task
  <2>2. workers'[w].step \notin Claimed
    BY <2>1 DEF Claimed
  <2> QED
    BY <1>0, <1>1, <1>2, <1>3, <1>4, <2>1, <2>2, WorkerGoesOn DEF SameDates, SameRuns
<1>7. CASE Unpause(w) \/ CreateExecution(w) \/ MoveMoney(w) \/ Fail(w)
  <2>1. PICK step \in {"reread", "pay", "mark", "fail"} :
           /\ Goto(w, step)
           /\ step \in Claimed => workers[w].step \in Claimed \/ runs[q][s] = "NONE"
    BY <1>7 DEF Unpause, CreateExecution, MoveMoney, Fail, Claimed
  <2>2. /\ \A v \in Workers : v # w => workers'[v] = workers[v]
        /\ workers'[w].step = step /\ workers'[w].payment = q
        /\ workers'[w].runAt = s /\ workers'[w].begun = workers[w].begun
    BY <1>0, <1>1, <2>1, StepIn
  <2> QED
    BY <1>0, <1>1, <1>2, <1>3, <1>4, <2>1, <2>2, WorkerGoesOn DEF SameDates, SameRuns
<1> QED
  BY <1>5, <1>6, <1>7

(* A call begins with the run that is due, or ad hoc before it is due. *)
LEMMA StartDates ==
  ASSUME DatesInv, NEW w \in Workers, NEW p \in Payments, FindDue(w, p) \/ RunNow(w, p)
  PROVE  DatesAgree'
<1>0. TypeOK /\ DatesAgree
  BY DEF DatesInv, IInv
<1>1. payments[p].next \in Nat /\ now \in Nat
  BY <1>0, PaymentTimes
<1>2. PICK run \in Nat, step \in {"unpause", "reread", "create"} :
         /\ Start(w, p, run, step)
         /\ \/ run = payments[p].next /\ run <= now
            \/ run = now /\ now < payments[p].next
  <2>1. CASE FindDue(w, p)
    BY <1>1, <2>1 DEF FindDue, Due
  <2>2. CASE RunNow(w, p)
    <3> DEFINE due == IF payments[p].next <= now THEN payments[p].next ELSE now
               begin == IF payments[p].status = "PAUSED" THEN "unpause" ELSE "reread"
    <3>1. /\ due \in Nat /\ begin \in {"unpause", "reread", "create"}
          /\ \/ due = payments[p].next /\ due <= now
             \/ due = now /\ now < payments[p].next
      BY <1>1
    <3>2. Start(w, p, due, begin)
      BY <2>2 DEF RunNow
    <3> HIDE DEF due, begin
    <3> QED
      BY <3>1, <3>2
  <2> QED
    BY <2>1, <2>2
<1>3. UNCHANGED <<now, payments, runs>>
  BY DEF FindDue, RunNow
<1>4. /\ \A v \in Workers : v # w => workers'[v] = workers[v]
      /\ workers'[w].payment = p /\ workers'[w].runAt = run /\ workers'[w].begun = now
  BY <1>0, <1>2 DEF Start, TypeOK
<1>5. RequestsAreYoung'
  BY <1>0, <1>1, <1>2, <1>3, <1>4 DEF DatesAgree, RequestsAreYoung
<1>6. ExecutedRunsArePast'
  BY <1>0, <1>3 DEF DatesAgree, ExecutedRunsArePast
<1>7. RunsInFlightAgree'
  <2> SUFFICES ASSUME NEW x \in Payments, NEW v \in Workers,
                      payments[x].kind = "RECURRING", InFlight(v, x)'
               PROVE  WrittenBack(workers'[v], payments[x].next)
    BY <1>3 DEF RunsInFlightAgree
  <2>1. CASE v = w
    <3>1. x = p
      BY <1>4, <2>1 DEF InFlight
    <3> QED
      BY <1>2, <1>4, <2>1, <3>1 DEF WrittenBack
  <2>2. CASE v # w
    <3>1. InFlight(v, x) /\ workers'[v] = workers[v]
      BY <1>3, <1>4, <2>2, OthersInFlight
    <3> QED
      BY <1>0, <3>1 DEF DatesAgree, RunsInFlightAgree
  <2> QED
    BY <2>1, <2>2
<1> QED
  BY <1>5, <1>6, <1>7 DEF DatesAgree

(* The arithmetic of the dates: z records its outcome and moves the date from n
   to the run after its own, k is still in flight.  What has been executed lies
   before the new date, and k agrees with it as before.  Here a request must not
   take longer than half a period. *)
LEMMA DateMovesOn ==
  ASSUME NEW z, NEW n \in Nat, NEW t \in Nat, z.runAt \in Nat, z.begun \in Nat,
         WrittenBack(z, n), z.begun <= t, t <= z.begun + Deadline
  PROVE  z.runAt = n \/ t < z.runAt + Period
<1> QED
  BY DeadlineAssumption DEF WrittenBack

LEMMA OthersAgreeAgain ==
  ASSUME NEW z, NEW k, NEW n \in Nat, NEW t \in Nat,
         z.runAt \in Nat, z.begun \in Nat, k.runAt \in Nat, k.begun \in Nat,
         WrittenBack(z, n), z.begun <= t, t <= z.begun + Deadline,
         WrittenBack(k, n), k.begun <= t,
         k.runAt # z.runAt
  PROVE  WrittenBack(k, z.runAt + Period)
<1>1. z.runAt = n \/ t < z.runAt + Period
  BY DateMovesOn
<1>2. k.runAt = k.begun \/ k.begun < k.runAt + Deadline
  BY DEF WrittenBack
<1>3. k.begun < z.runAt + Period
  BY <1>1 DEF WrittenBack
<1> QED
  BY <1>2, <1>3 DEF WrittenBack

LEMMA TickDates ==
  ASSUME DatesInv, Tick
  PROVE  DatesAgree'
<1>0. TypeOK /\ DatesAgree /\ now \in Nat
  BY DEF DatesInv, IInv, TypeOK
<1>1. now' = now + 1 /\ UNCHANGED <<payments, runs, workers>>
  BY DEF Tick
<1>2. RequestsAreYoung'
  <2> SUFFICES ASSUME NEW w \in Workers, workers[w] # Idle
               PROVE  /\ workers[w].runAt <= workers[w].begun
                      /\ workers[w].begun <= now + 1 /\ now + 1 <= workers[w].begun + Deadline
    BY <1>1 DEF RequestsAreYoung
  <2>1. workers[w].begun \in Nat
    BY <1>0, TaskTimes
  <2>2. now - workers[w].begun < Deadline
    BY DEF Tick
  <2>3. workers[w].runAt <= workers[w].begun /\ workers[w].begun <= now
    BY <1>0 DEF DatesAgree, RequestsAreYoung
  <2> QED
    BY <1>0, <2>1, <2>2, <2>3
<1>3. ExecutedRunsArePast'
  <2> SUFFICES ASSUME NEW p \in Payments, NEW r \in Times,
                      payments[p].kind = "RECURRING", runs[p][r] = "EXECUTED"
               PROVE  r <= now + 1 /\ r < payments[p].next
    BY <1>1 DEF ExecutedRunsArePast
  <2>1. r <= now /\ r < payments[p].next /\ r \in Nat
    BY <1>0 DEF DatesAgree, ExecutedRunsArePast, Times
  <2> QED
    BY <1>0, <2>1
<1>4. RunsInFlightAgree'
  BY <1>0, <1>1 DEF DatesAgree, RunsInFlightAgree, InFlight
<1> QED
  BY <1>2, <1>3, <1>4 DEF DatesAgree

LEMMA DeskDates ==
  ASSUME DatesInv, NEW d \in Desk,
         \/ \E p \in Payments, op \in {"cancel", "pause", "resume"} : BeginRequest(d, op, p)
         \/ FinishRequest(d)
  PROVE  DatesAgree'
<1>0. TypeOK /\ DatesAgree
  BY DEF DatesInv, IInv
<1>1. UNCHANGED <<now, runs, workers>>
  BY DEF BeginRequest, FinishRequest
<1>2. \A p \in Payments : payments'[p].kind = payments[p].kind /\ payments'[p].next = payments[p].next
  <2>1. CASE FinishRequest(d)
    <3>1. desk[d] \in Request
      BY <1>0, <2>1 DEF FinishRequest, TypeOK
    <3>2. PICK q \in Payments : q = desk[d].payment
      BY <3>1 DEF Request
    <3>3. desk[d].op \in {"cancel", "pause", "resume"}
      BY <3>1 DEF Request
    <3>4. payments \in [Payments -> PaymentRow] /\ payments[q] \in PaymentRow
      BY <1>0 DEF TypeOK
    <3> DEFINE new == CASE desk[d].op = "cancel" -> [payments[q] EXCEPT !.status = "CANCELLED"]
                        [] desk[d].op = "pause" -> [payments[q] EXCEPT !.status = "PAUSED"]
                        [] desk[d].op = "resume" -> [payments[q] EXCEPT !.status = "APPROVED",
                                                                        !.failures = 0]
    <3>5. new.kind = payments[q].kind /\ new.next = payments[q].next
      BY <3>3, <3>4 DEF PaymentRow
    <3>6. payments' = [payments EXCEPT ![q] = new]
      BY <2>1, <3>2 DEF FinishRequest
    <3> HIDE DEF new
    <3> QED
      BY <3>4, <3>5, <3>6
  <2>2. CASE ~FinishRequest(d)
    BY <2>2 DEF BeginRequest
  <2> QED
    BY <2>1, <2>2
<1> QED
  BY <1>0, <1>1, <1>2, DatesKept DEF InFlight

(* The outcome of a run is recorded and the date of its payment moves on. *)
LEMMA OutcomeWrites ==
  ASSUME TypeOK, NEW w \in Workers, workers[w] \in Task, MarkExecuted(w) \/ RecordFailure(w)
  PROVE  LET q == workers[w].payment
             s == workers[w].runAt IN
         /\ UNCHANGED now
         /\ runs'[q][s] # "NONE"
         /\ \A p \in Payments : \A r \in Times : p # q \/ r # s => runs'[p][r] = runs[p][r]
         /\ workers'[w] = Idle
         /\ \A v \in Workers : v # w => workers'[v] = workers[v]
         /\ \A p \in Payments : p # q => payments'[p] = payments[p]
         /\ payments'[q].kind = payments[q].kind
         /\ payments[q].kind = "RECURRING" => payments'[q].next = s + Period
<1> DEFINE q == workers[w].payment
           s == workers[w].runAt
<1>0. /\ payments \in [Payments -> PaymentRow]
      /\ runs \in [Payments -> [Times -> {"NONE", "PENDING", "EXECUTED", "FAILED"}]]
      /\ q \in Payments /\ s \in Times
  BY TaskFields DEF TypeOK
<1>1. /\ workers'[w] = Idle /\ UNCHANGED now
      /\ \A v \in Workers : v # w => workers'[v] = workers[v]
  BY DEF MarkExecuted, RecordFailure, Return, TypeOK
<1>2. PICK row \in {"EXECUTED", "FAILED"} : runs' = [runs EXCEPT ![q][s] = row]
  BY DEF MarkExecuted, RecordFailure
<1>3. PICK new \in PaymentRow : /\ payments' = [payments EXCEPT ![q] = new]
                                /\ new.kind = payments[q].kind
                                /\ payments[q].kind = "RECURRING" => new.next = s + Period
  <2>1. payments[q] \in PaymentRow /\ s + Period \in Times /\ workers[w].failures + 1 \in Nat
    BY <1>0, TaskFields
  <2> DEFINE old == payments[q]
             done == IF old.kind = "RECURRING"
                     THEN [old EXCEPT !.failures = 0, !.next = s + Period, !.status = "APPROVED"]
                     ELSE [old EXCEPT !.failures = 0, !.status = "EXECUTED"]
             failures == workers[w].failures + 1
             failed == IF old.kind = "RECURRING"
                       THEN [old EXCEPT !.failures = failures, !.next = s + Period,
                                        !.status = IF failures >= FAILURE_THRESHOLD
                                                   THEN "PAUSED" ELSE "APPROVED"]
                       ELSE [old EXCEPT !.failures = failures, !.status = "FAILED"]
  <2>2. CASE MarkExecuted(w)
    <3>1. /\ done \in PaymentRow /\ done.kind = old.kind
          /\ old.kind = "RECURRING" => done.next = s + Period
      <4> HIDE DEF q, s
      <4> QED
        BY <2>1 DEF PaymentRow
    <3>2. payments' = [payments EXCEPT ![q] = done]
      BY <2>2 DEF MarkExecuted
    <3> HIDE DEF done
    <3> QED
      BY <3>1, <3>2
  <2>3. CASE RecordFailure(w)
    <3>1. /\ failed \in PaymentRow /\ failed.kind = old.kind
          /\ old.kind = "RECURRING" => failed.next = s + Period
      <4> HIDE DEF q, s
      <4> QED
        BY <2>1 DEF PaymentRow
    <3>2. payments' = [payments EXCEPT ![q] = failed]
      BY <2>3 DEF RecordFailure
    <3> HIDE DEF failed
    <3> QED
      BY <3>1, <3>2
  <2> QED
    BY <2>2, <2>3
<1>4. /\ runs'[q][s] # "NONE"
      /\ \A p \in Payments : \A r \in Times : p # q \/ r # s => runs'[p][r] = runs[p][r]
  <2> HIDE DEF q, s
  <2> QED
    BY <1>0, <1>2
<1>5. /\ \A p \in Payments : p # q => payments'[p] = payments[p]
      /\ payments'[q] = new
  <2> HIDE DEF q, s
  <2> QED
    BY <1>0, <1>3
<1> QED
  BY <1>1, <1>3, <1>4, <1>5

LEMMA OutcomeDates ==
  ASSUME DatesInv, NEW w \in Workers, MarkExecuted(w) \/ RecordFailure(w)
  PROVE  DatesAgree'
<1>0. TypeOK /\ DatesAgree /\ OneOwner /\ now \in Nat
  BY DEF DatesInv, IInv, TypeOK
<1>1. /\ workers[w] \in Task /\ workers[w] # Idle
      /\ workers[w].step \in Claimed
      /\ \A v \in Workers : v # w => ~Owns(v, workers[w].payment, workers[w].runAt)
  BY OwnerIsAlone DEF MarkExecuted, RecordFailure, Claimed, DatesInv, Idle
<1>2. PICK q \in Payments, s \in Times :
         /\ q = workers[w].payment /\ s = workers[w].runAt
         /\ UNCHANGED now
         /\ runs'[q][s] # "NONE"
         /\ \A p \in Payments : \A r \in Times : p # q \/ r # s => runs'[p][r] = runs[p][r]
         /\ workers'[w] = Idle
         /\ \A v \in Workers : v # w => workers'[v] = workers[v]
         /\ \A p \in Payments : p # q => payments'[p] = payments[p]
         /\ payments'[q].kind = payments[q].kind
         /\ payments[q].kind = "RECURRING" => payments'[q].next = s + Period
  BY <1>0, <1>1, TaskFields, OutcomeWrites
<1>3. /\ s \in Nat /\ workers[w].begun \in Nat /\ payments[q].next \in Nat
      /\ s <= workers[w].begun /\ workers[w].begun <= now /\ now <= workers[w].begun + Deadline
  BY <1>0, <1>1, <1>2, TaskTimes, PaymentTimes DEF DatesAgree, RequestsAreYoung
<1>4. RequestsAreYoung'
  BY <1>0, <1>2 DEF DatesAgree, RequestsAreYoung
<1>5. payments[q].kind = "RECURRING" => WrittenBack(workers[w], payments[q].next)
  BY <1>0, <1>1, <1>2 DEF DatesAgree, RunsInFlightAgree, InFlight
<1>6. ExecutedRunsArePast'
  <2> SUFFICES ASSUME NEW p \in Payments, NEW r \in Times,
                      payments'[p].kind = "RECURRING", runs'[p][r] = "EXECUTED"
               PROVE  r <= now /\ r < payments'[p].next
    BY <1>2 DEF ExecutedRunsArePast
  <2>0. r \in Nat
    BY DEF Times
  <2>1. CASE p # q
    BY <1>0, <1>2, <2>1 DEF DatesAgree, ExecutedRunsArePast
  <2>2. CASE p = q /\ r = s
    BY <1>0, <1>2, <1>3, <2>2
  <2>3. CASE p = q /\ r # s
    <3>1. r <= now /\ r < payments[q].next
      BY <1>0, <1>2, <2>3 DEF DatesAgree, ExecutedRunsArePast
    <3>2. s = payments[q].next \/ now < s + Period
      BY <1>0, <1>2, <1>3, <1>5, <2>3, DateMovesOn
    <3>3. payments'[q].next = s + Period
      BY <1>2, <2>3
    <3> QED
      BY <1>0, <1>3, <2>0, <2>3, <3>1, <3>2, <3>3
  <2> QED
    BY <2>1, <2>2, <2>3
<1>7. RunsInFlightAgree'
  <2> SUFFICES ASSUME NEW p \in Payments, NEW v \in Workers,
                      payments'[p].kind = "RECURRING", InFlight(v, p)'
               PROVE  WrittenBack(workers'[v], payments'[p].next)
    BY DEF RunsInFlightAgree
  <2>1. v # w /\ workers'[v] = workers[v] /\ workers[v] # Idle /\ workers[v].payment = p
    BY <1>2 DEF InFlight
  <2>2. workers[v].runAt \in Times /\ workers[v].runAt \in Nat /\ workers[v].begun \in Nat
    BY <1>0, <2>1, TaskTimes
  <2>3. InFlight(v, p)
    <3>1. runs[p][workers[v].runAt] # "NONE" => runs'[p][workers[v].runAt] # "NONE"
      BY <1>2, <2>2
    <3> QED
      BY <2>1, <3>1, OthersInFlight
  <2>4. WrittenBack(workers[v], payments[p].next)
    BY <1>0, <1>2, <2>3 DEF DatesAgree, RunsInFlightAgree
  <2>5. CASE p # q
    BY <1>2, <2>1, <2>4, <2>5
  <2>6. CASE p = q
    <3>1. workers[v].runAt # s
      BY <1>1, <1>2, <2>1, <2>6 DEF InFlight, Owns
    <3>2. workers[v].begun <= now
      BY <1>0, <2>1 DEF DatesAgree, RequestsAreYoung
    <3>3. payments'[q].next = s + Period /\ payments[q].kind = "RECURRING"
      BY <1>2, <2>6
    <3>4. WrittenBack(workers[v], s + Period)
      BY <1>0, <1>2, <1>3, <1>5, <2>2, <2>4, <2>6, <3>1, <3>2, <3>3, OthersAgreeAgain
    <3> QED
      BY <2>1, <2>6, <3>3, <3>4
  <2> QED
    BY <2>5, <2>6
<1> QED
  BY <1>4, <1>6, <1>7 DEF DatesAgree

LEMMA InitDates == Init => DatesAgree
<1> SUFFICES ASSUME Init PROVE DatesAgree
  OBVIOUS
<1>1. \A w \in Workers : workers[w] = Idle
  BY DEF Init
<1>2. \A p \in Payments, r \in Times : runs[p][r] = "NONE"
  BY DEF Init
<1> QED
  BY <1>1, <1>2 DEF DatesAgree, RequestsAreYoung, ExecutedRunsArePast, RunsInFlightAgree, InFlight

LEMMA NextDatesInv == DatesInv /\ [Next]_vars => DatesInv'
<1> SUFFICES ASSUME DatesInv, [Next]_vars PROVE DatesAgree'
  BY NextIInv DEF DatesInv
<1>1. CASE \E w \in Workers, p \in Payments : FindDue(w, p) \/ RunNow(w, p)
  BY <1>1, StartDates
<1>2. CASE \E w \in Workers : Work(w) \/ Crash(w)
  BY <1>2, WorkDates, OutcomeDates DEF Work
<1>3. CASE \E d \in Desk : \/ \E p \in Payments, op \in {"cancel", "pause", "resume"} :
                                 BeginRequest(d, op, p)
                           \/ FinishRequest(d)
  BY <1>3, DeskDates
<1>4. CASE Tick
  BY <1>4, TickDates
<1>5. CASE UNCHANGED vars
  BY <1>5 DEF vars, DatesInv, DatesAgree, RequestsAreYoung, ExecutedRunsArePast, RunsInFlightAgree,
              InFlight
<1> QED
  BY <1>1, <1>2, <1>3, <1>4, <1>5 DEF Next

(* The date of a recurring payment and the runs in flight agree, when a request
   does not take longer than half a period. *)
THEOREM DatesInvariant == Spec => []DatesInv
<1>1. Init => DatesInv
  BY InitIInv, InitDates DEF DatesInv
<1> QED
  BY <1>1, NextDatesInv, PTL DEF Spec

(* No recurring payment is ever scheduled for a run that has been executed, whose
   row would block it: neither a run-now nor a late outcome sets the date back. *)
THEOREM DatesMoveOn == Spec => []NeverScheduledForThePast
<1>1. DatesInv => NeverScheduledForThePast
  <2> SUFFICES ASSUME DatesInv, NEW p \in Payments, payments[p].kind = "RECURRING",
                      runs[p][payments[p].next] = "EXECUTED"
               PROVE  FALSE
    BY DEF NeverScheduledForThePast, RunRow
  <2>1. payments[p].next \in Times /\ payments[p].next \in Nat
    BY DEF DatesInv, IInv, TypeOK, PaymentRow, Times
  <2>2. payments[p].next < payments[p].next
    BY <2>1 DEF DatesInv, DatesAgree, ExecutedRunsArePast
  <2> QED
    BY <2>1, <2>2
<1> QED
  BY <1>1, DatesInvariant, PTL

-----------------------------------------------------------------------------
(* The refinement of OneEffect. *)

\* The run that a worker in a claimed step is about.
RunOf(w) == <<workers[w].payment, workers[w].runAt>>

\* A step moves the money of one run, records one run as executed, or neither.
Moves(x) == /\ moved[x[1]][x[2]] = 0
            /\ moved' = [moved EXCEPT ![x[1]][x[2]] = 1]
            /\ Executed' = Executed

Records(x) == /\ moved[x[1]][x[2]] = 1
              /\ moved' = moved
              /\ Executed' = Executed \cup {x}

LEMMA MoveMoneyMoves ==
  ASSUME IInv, NEW w \in Workers, MoveMoney(w)
  PROVE  RunOf(w) \in Attempts /\ Moves(RunOf(w))
<1> DEFINE q == workers[w].payment
           s == workers[w].runAt
<1>1. workers[w] \in Task /\ Owns(w, q, s)
  BY OwnerIsAlone DEF MoveMoney, Claimed
<1>2. q \in Payments /\ s \in Times
  BY <1>1, TaskFields
<1>3. moved[q][s] = 0
  BY <1>1, <1>2 DEF IInv, ClaimsAgree, MoveMoney
<1>4. moved' = [moved EXCEPT ![q][s] = 1]
  BY <1>2, <1>3 DEF MoveMoney, IInv, TypeOK
<1>5. Executed' = Executed
  BY DEF MoveMoney, Executed
<1> QED
  BY <1>2, <1>3, <1>4, <1>5 DEF RunOf, Attempts, Moves

LEMMA MarkExecutedRecords ==
  ASSUME IInv, NEW w \in Workers, MarkExecuted(w)
  PROVE  RunOf(w) \in Attempts /\ Records(RunOf(w))
<1> DEFINE q == workers[w].payment
           s == workers[w].runAt
<1>1. workers[w] \in Task /\ Owns(w, q, s)
  BY OwnerIsAlone DEF MarkExecuted, Claimed
<1>2. q \in Payments /\ s \in Times
  BY <1>1, TaskFields
<1>3. moved[q][s] = 1
  BY <1>1, <1>2 DEF IInv, ClaimsAgree, MarkExecuted
<1>4. runs' = [runs EXCEPT ![q][s] = "EXECUTED"] /\ moved' = moved
  BY DEF MarkExecuted
<1>5. /\ runs'[q][s] = "EXECUTED"
      /\ \A p \in Payments, r \in Times : p # q \/ r # s => runs'[p][r] = runs[p][r]
  BY <1>2, <1>4, RowWritten DEF IInv
<1>6. Executed' = Executed \cup {<<q, s>>}
  BY <1>2, <1>5 DEF Executed, Attempts
<1> QED
  BY <1>2, <1>3, <1>4, <1>6 DEF RunOf, Attempts, Records

\* A row that is written otherwise neither reads EXECUTED before nor afterwards.
LEMMA RowsKeepExecuted ==
  ASSUME IInv, NEW q \in Payments, NEW s \in Times, NEW row \in {"PENDING", "FAILED"},
         runs[q][s] # "EXECUTED", runs' = [runs EXCEPT ![q][s] = row]
  PROVE  Executed' = Executed
<1>1. /\ runs'[q][s] = row
      /\ \A p \in Payments, r \in Times : p # q \/ r # s => runs'[p][r] = runs[p][r]
  BY DEF IInv, TypeOK
<1> QED
  BY <1>1 DEF Executed, Attempts

LEMMA ExecutedIsFinal ==
  ASSUME IInv, NEW w \in Workers,
         CreateExecution(w) \/ FindExisting(w) \/ RecordFailure(w)
  PROVE  Executed' = Executed /\ moved' = moved
<1> DEFINE q == workers[w].payment
           s == workers[w].runAt
<1>1. workers[w] \in Task /\ moved' = moved
  BY StepsAreTasks DEF IInv, CreateExecution, FindExisting, RecordFailure, Claimed
<1>2. q \in Payments /\ s \in Times
  BY <1>1, TaskFields
<1>3. CASE CreateExecution(w)
  BY <1>1, <1>2, <1>3, RowsKeepExecuted DEF CreateExecution
<1>4. CASE FindExisting(w)
  <2>1. CASE runs[q][s] = "FAILED"
    BY <1>1, <1>2, <1>4, <2>1, RowsKeepExecuted DEF FindExisting
  <2>2. CASE runs[q][s] # "FAILED"
    BY <1>1, <1>4, <2>2 DEF FindExisting, Executed
  <2> QED
    BY <2>1, <2>2
<1>5. CASE RecordFailure(w)
  <2>1. Owns(w, q, s)
    BY <1>5, OwnerIsAlone DEF RecordFailure, Claimed
  <2>2. runs[q][s] = "PENDING"
    BY <1>2, <2>1 DEF IInv, ClaimsAgree
  <2> QED
    BY <1>1, <1>2, <1>5, <2>2, RowsKeepExecuted DEF RecordFailure
<1> QED
  BY <1>3, <1>4, <1>5

LEMMA StepsMoveOrRecord ==
  ASSUME IInv, [Next]_vars
  PROVE  \/ \E x \in Attempts : Moves(x) \/ Records(x)
         \/ Executed' = Executed /\ moved' = moved
<1>1. CASE UNCHANGED <<runs, moved>>
  BY <1>1 DEF Executed
<1>2. ASSUME NEW w \in Workers, Work(w) \/ Crash(w)
      PROVE  \/ \E x \in Attempts : Moves(x) \/ Records(x)
             \/ Executed' = Executed /\ moved' = moved
  <2>1. CASE Unpause(w) \/ Reread(w) \/ Fail(w) \/ Crash(w)
    BY <1>1, <2>1 DEF Unpause, Reread, Fail, Crash
  <2>2. CASE CreateExecution(w) \/ FindExisting(w) \/ RecordFailure(w)
    BY <2>2, ExecutedIsFinal
  <2>3. CASE MoveMoney(w)
    BY <2>3, MoveMoneyMoves
  <2>4. CASE MarkExecuted(w)
    BY <2>4, MarkExecutedRecords
  <2> QED
    BY <1>2, <2>1, <2>2, <2>3, <2>4 DEF Work
<1>3. CASE \/ \E w \in Workers, p \in Payments : FindDue(w, p) \/ RunNow(w, p)
           \/ \E d \in Desk, p \in Payments, op \in {"cancel", "pause", "resume"} :
                 BeginRequest(d, op, p)
           \/ \E d \in Desk : FinishRequest(d)
           \/ Tick \/ UNCHANGED vars
  BY <1>1, <1>3 DEF FindDue, RunNow, BeginRequest, FinishRequest, Tick, vars
<1> QED
  BY <1>2, <1>3 DEF Next

(* The executor implements OneEffect: a step moves the money of a run that has not
   moved, records a run as executed whose money has, or is a stutter. *)
THEOREM ScheduleImplementsOneEffect == Spec => RunsHaveOneEffect
<1> DEFINE made == [x \in Attempts |-> moved[x[1]][x[2]]]
           receipts == {<<x, x>> : x \in Executed}
<1>1. Init => Once!Init
  <2> SUFFICES ASSUME Init PROVE Once!Init
    OBVIOUS
  <2>1. \A x \in Attempts : moved[x[1]][x[2]] = 0 /\ runs[x[1]][x[2]] = "NONE"
    BY DEF Init, Attempts
  <2>2. Executed = {}
    BY <2>1 DEF Executed
  <2> QED
    BY <2>1, <2>2 DEF Once!Init
<1>2. IInv /\ [Next]_vars => [Once!Next]_<<made, receipts>>
  <2> SUFFICES ASSUME IInv, [Next]_vars PROVE Once!Next \/ UNCHANGED <<made, receipts>>
    OBVIOUS
  <2>1. ASSUME NEW x \in Attempts, Moves(x)
        PROVE  Once!Next
    <3>1. x[1] \in Payments /\ x[2] \in Times
      BY DEF Attempts
    <3>2. made[x] = 0 /\ receipts' = receipts
      BY <2>1 DEF Moves
    <3>3. \A y \in Attempts : moved'[y[1]][y[2]] = IF y = x THEN 1 ELSE moved[y[1]][y[2]]
      BY <2>1, <3>1 DEF Moves, Attempts, IInv, TypeOK
    <3>4. made' = [made EXCEPT ![x] = 1]
      BY <3>3
    <3>5. Once!CarryOut(x)
      BY <3>2, <3>4 DEF Once!CarryOut
    <3> QED
      BY <3>5 DEF Once!Next
  <2>2. ASSUME NEW x \in Attempts, Records(x)
        PROVE  Once!Next
    <3>1. made[x] = 1 /\ made' = made /\ receipts' = receipts \cup {<<x, x>>}
      BY <2>2 DEF Records
    <3>2. Once!Tell(x, x)
      BY <3>1 DEF Once!Tell
    <3> QED
      BY <3>2 DEF Once!Next
  <2>3. CASE Executed' = Executed /\ moved' = moved
    BY <2>3
  <2> QED
    BY <2>1, <2>2, <2>3, StepsMoveOrRecord
<1> QED
  BY <1>1, <1>2, ClaimInvariant, PTL DEF Spec, RunsHaveOneEffect, Once!Spec

=============================================================================

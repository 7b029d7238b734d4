----------------------- MODULE CommercialBillingProofs -----------------------
(***************************************************************************)
(* Proofs about CommercialBilling: its inductive invariant, for any number  *)
(* of companies, jobs and requests, any length of the month and of the      *)
(* grace period.  A step either moves one job (JobMoves) or writes one row  *)
(* (RowMoves); each action is an instance of one of the two.                *)
(***************************************************************************)
EXTENDS CommercialBilling, TLAPS

\* A task as IInv wants it.
TaskAgrees(t) ==
    t # Idle => /\ t.now <= now /\ t.pastDue <= now
                /\ t.step \in {"readPastDue", "markPastDue"} => t.phase = 1
                /\ t.step = "core" => t.phase > 1
                /\ t.step # "next" => t.on \notin t.todo

\* What Sees says, of a task.
TaskSees(t, c) == t # Idle /\ (c \in t.todo \/ (t.step # "next" /\ t.on = c))

\* What LooksAreRight says of a task and a company.
Right(t, c) == IF t.phase = 1 THEN Owes(company[c], t.now)
               ELSE company[c].plan = "PRO" => Forfeited(company[c], now)

\* What OneStory says, of a row.
Story(r) ==
    /\ (r.plan = "PRO" /\ r.source = "PURCHASED") => (r.next # Never /\ r.account /\ r.expires = Never)
    /\ (r.plan = "PRO" /\ r.source # "PURCHASED")
          => (r.source = "ADMIN_GRANT" /\ r.next = Never /\ r.expires # Never)

LEMMA CoreRow == Core \in Row /\ Story(Core) /\ Core.pastDue = Never /\ Core.plan = "CORE"
  BY DEF Core, Row, Story, Date, Never

\* What IInv says of one row, one task and one request.
LEMMA InvOfOne ==
  ASSUME IInv
  PROVE /\ \A c \in Companies : company[c] \in Row /\ Story(company[c]) /\ company[c].pastDue <= now
        /\ \A j \in Jobs : /\ jobs[j] # Idle => jobs[j] \in Task
                           /\ stale[j] \subseteq Companies
                           /\ TaskAgrees(jobs[j])
                           /\ \A c \in Companies :
                                 TaskSees(jobs[j], c) /\ c \notin stale[j] => Right(jobs[j], c)
  <1>1. \A c \in Companies : company[c] \in Row /\ company[c].pastDue <= now
    BY DEF IInv, TypeOK, TimesAgree
  <1>2. \A c \in Companies : Story(company[c])
    BY DEF IInv, OneStory, Story, Subscriber
  <1>3. \A j \in Jobs : (jobs[j] # Idle => jobs[j] \in Task) /\ stale[j] \subseteq Companies
    BY DEF IInv, TypeOK
  <1>4. \A j \in Jobs : TaskAgrees(jobs[j])
    BY DEF IInv, TimesAgree, StepsAgree, TaskAgrees
  <1>5. \A j \in Jobs, c \in Companies : Sees(j, c) <=> TaskSees(jobs[j], c)
    BY DEF Sees, TaskSees
  <1>6. \A j \in Jobs, c \in Companies :
           TaskSees(jobs[j], c) /\ c \notin stale[j] => Right(jobs[j], c)
    BY <1>5 DEF IInv, LooksAreRight, Right
  <1> QED BY <1>1, <1>2, <1>3, <1>4, <1>6

\* The other direction, for the next state.
LEMMA InvFromParts ==
  ASSUME TypeOK', PaidThrough', NeverChargedAhead', GrantsExpire', MarksAreRight',
         \A c \in Companies : Story(company'[c]) /\ company'[c].pastDue <= now',
         \A j \in Jobs : TaskAgrees(jobs[j])',
         \A j \in Jobs, c \in Companies :
            (TaskSees(jobs[j], c) /\ c \notin stale[j] => Right(jobs[j], c))'
  PROVE IInv'
  <1>1. OneStory'
    BY DEF OneStory, Story, Subscriber
  <1>2. TimesAgree' /\ StepsAgree'
    BY DEF TimesAgree, StepsAgree, TaskAgrees
  <1>3. LooksAreRight'
    BY DEF LooksAreRight, Sees, TaskSees, Right
  <1> QED BY <1>1, <1>2, <1>3 DEF IInv

\* A job that goes on, with what it is not up to date about.
LEMMA JobMoves ==
  ASSUME IInv, NEW j \in Jobs, NEW t \in Task \cup {Idle}, NEW s \in SUBSET Companies,
         jobs' = [jobs EXCEPT ![j] = t], stale' = [stale EXCEPT ![j] = s], faults' \in Nat,
         UNCHANGED <<now, company, begun, charges, desk, doubtful, requests>>,
         TaskAgrees(t),
         \A c \in Companies : TaskSees(t, c) /\ c \notin s => Right(t, c)
  PROVE IInv'
  <1>1. TypeOK'
    BY DEF IInv, TypeOK
  <1>2. PaidThrough' /\ NeverChargedAhead' /\ GrantsExpire' /\ MarksAreRight'
    BY DEF IInv, PaidThrough, NeverChargedAhead, GrantsExpire, Subscriber, MarksAreRight, Unpaid
  <1>3. \A c \in Companies : Story(company'[c]) /\ company'[c].pastDue <= now'
    BY InvOfOne
  <1>4. \A i \in Jobs : /\ jobs'[i] = IF i = j THEN t ELSE jobs[i]
                        /\ stale'[i] = IF i = j THEN s ELSE stale[i]
    BY DEF IInv, TypeOK
  <1>5. \A i \in Jobs : TaskAgrees(jobs[i])'
    BY <1>4, InvOfOne DEF TaskAgrees
  <1>6. \A i \in Jobs, c \in Companies :
           (TaskSees(jobs[i], c) /\ c \notin stale[i] => Right(jobs[i], c))'
    BY <1>4, InvOfOne DEF TaskSees, Right, Owes, Forfeited
  <1> QED BY <1>1, <1>2, <1>3, <1>5, <1>6, InvFromParts

\* A row that is written: its own columns, and what else the step changes.
LEMMA RowMoves ==
  ASSUME IInv, NEW c \in Companies, NEW row \in Row, NEW mine, Write(c, row, mine),
         now' = now, faults' \in Nat, requests' = requests,
         Story(row), row.pastDue <= now,
         row.plan = "PRO" /\ row.billing = "PAST_DUE"
            => c \in doubtful' \/ (row.source = "PURCHASED" /\ row.next <= now),
         begun' \in [Companies -> Nat], charges' \in [Companies -> Nat],
         \A e \in Companies : e # c => begun'[e] = begun[e] /\ charges'[e] = charges[e],
         row.plan = "PRO" /\ row.source = "PURCHASED"
            => row.next = begun'[c] + Month * charges'[c] /\ row.next <= now + Month,
         jobs' \in [Jobs -> Task \cup {Idle}],
         \A j \in Jobs :
            \/ j \notin mine /\ jobs'[j] = jobs[j]
            \/ /\ TaskAgrees(jobs'[j])
               /\ \A e \in Companies : TaskSees(jobs'[j], e) =>
                     /\ TaskSees(jobs[j], e)
                     /\ jobs'[j].phase = jobs[j].phase /\ jobs'[j].now = jobs[j].now
                     /\ e # c \/ c \in stale'[j],
         desk' \in [Desk -> Request \cup {Done}],
         \A d \in Desk : desk'[d] # Done => desk'[d] = desk[d]
  PROVE IInv'
  <1>1. /\ company' = [company EXCEPT ![c] = row]
        /\ stale' \in [Jobs -> SUBSET Companies]
        /\ \A j \in Jobs :
              /\ stale[j] \subseteq stale'[j]
              /\ j \notin mine /\ TaskSees(jobs[j], c) /\ row # company[c] => c \in stale'[j]
    BY DEF Write, IInv, TypeOK, Sees, TaskSees
  <1>1a. doubtful' \subseteq Companies /\ \A e \in doubtful : e # c => e \in doubtful'
    BY DEF Write, IInv, TypeOK
  <1>2. \A e \in Companies : company'[e] = IF e = c THEN row ELSE company[e]
    BY <1>1 DEF IInv, TypeOK
  <1>3. TypeOK'
    BY <1>1, <1>1a DEF IInv, TypeOK
  <1>4. PaidThrough'
    BY <1>2 DEF IInv, PaidThrough, Subscriber
  <1>5. NeverChargedAhead'
    BY <1>2 DEF IInv, NeverChargedAhead, Subscriber
  <1>6. GrantsExpire'
    BY DEF IInv, GrantsExpire
  <1>6a. MarksAreRight'
    BY <1>1a, <1>2 DEF IInv, MarksAreRight, Unpaid
  <1>7. \A e \in Companies : Story(company'[e]) /\ company'[e].pastDue <= now'
    BY <1>2, InvOfOne
  <1>8. \A j \in Jobs : TaskAgrees(jobs[j])'
    BY InvOfOne DEF TaskAgrees
  <1>9. ASSUME NEW j \in Jobs, NEW e \in Companies, TaskSees(jobs'[j], e), e \notin stale'[j]
        PROVE Right(jobs[j], e)'
    <2>1. /\ TaskSees(jobs[j], e) /\ e \notin stale[j]
          /\ jobs'[j].phase = jobs[j].phase /\ jobs'[j].now = jobs[j].now
      BY <1>1, <1>9
    <2>2. Right(jobs[j], e)
      BY <2>1, InvOfOne
    <2>3. company'[e] = company[e]
      <3>1. CASE e # c
        BY <1>2, <3>1
      <3>2. CASE e = c
        <4>1. j \notin mine
          BY <1>9, <3>2
        <4>2. row = company[c]
          BY <1>1, <1>9, <2>1, <3>2, <4>1
        <4> QED BY <1>2, <3>2, <4>2
      <3> QED BY <3>1, <3>2
    <2> QED BY <2>1, <2>2, <2>3 DEF Right, Owes, Forfeited
  <1>10. \A j \in Jobs, e \in Companies :
            (TaskSees(jobs[j], e) /\ e \notin stale[j] => Right(jobs[j], e))'
    BY <1>9 DEF TaskSees
  <1> QED BY <1>3, <1>4, <1>5, <1>6, <1>6a, <1>7, <1>8, <1>10, InvFromParts
-----------------------------------------------------------------------------
LEMMA InitInv == Init => IInv
  <1> SUFFICES ASSUME Init PROVE IInv
    OBVIOUS
  <1>1. TypeOK
    BY CoreRow, BillingAssumption DEF Init, TypeOK
  <1>2. PaidThrough /\ NeverChargedAhead /\ OneStory
    BY DEF Init, PaidThrough, NeverChargedAhead, OneStory, Subscriber, Core
  <1>3. TimesAgree /\ GrantsExpire /\ StepsAgree /\ LooksAreRight /\ MarksAreRight
    BY DEF Init, TimesAgree, GrantsExpire, StepsAgree, LooksAreRight, MarksAreRight, Sees,
       Core, Never
  <1> QED BY <1>1, <1>2, <1>3 DEF IInv

LEMMA TickInv == ASSUME IInv, Tick PROVE IInv'
  <1>1. now \in Nat /\ now' = now + 1
    BY DEF IInv, TypeOK, Tick
  <1>2. TypeOK'
    BY <1>1 DEF IInv, TypeOK, Tick
  <1>3. PaidThrough' /\ GrantsExpire'
    BY DEF IInv, Tick, PaidThrough, GrantsExpire, Subscriber
  <1>4. ASSUME NEW c \in Companies, Subscriber(c)
        PROVE company[c].next <= now' + Month
    <2>1. company[c].next <= now + Month
      BY <1>4 DEF IInv, NeverChargedAhead
    <2>2. company[c].next \in Int
      BY InvOfOne DEF Row, Date, Never
    <2> QED BY <1>1, <2>1, <2>2, BillingAssumption
  <1>5. NeverChargedAhead'
    BY <1>4 DEF NeverChargedAhead, Subscriber, Tick
  <1>6. \A c \in Companies : Story(company'[c]) /\ company'[c].pastDue <= now'
    <2> SUFFICES ASSUME NEW c \in Companies PROVE Story(company'[c]) /\ company'[c].pastDue <= now'
      OBVIOUS
    <2>1. company'[c] = company[c] /\ company[c].pastDue \in Int
      BY InvOfOne DEF Tick, Row, Date, Never
    <2> QED BY <2>1, <1>1, InvOfOne
  <1>7. \A j \in Jobs : TaskAgrees(jobs[j])'
    <2> SUFFICES ASSUME NEW j \in Jobs, jobs[j] # Idle PROVE TaskAgrees(jobs[j])'
      BY DEF TaskAgrees, Tick
    <2>1. jobs[j].now \in Int /\ jobs[j].pastDue \in Int
      BY InvOfOne DEF Task, Date, Never
    <2> QED BY <2>1, <1>1, InvOfOne DEF TaskAgrees, Tick
  <1>8. ASSUME NEW c \in Companies, Forfeited(company[c], now)
        PROVE Forfeited(company[c], now')
    <2>1. company[c].scheduled \in Int /\ company[c].pastDue \in Int /\ company[c].expires \in Int
      BY InvOfOne DEF Row, Date, Never
    <2> QED BY <1>8, <2>1, <1>1, BillingAssumption DEF Forfeited
  <1>9. \A j \in Jobs, c \in Companies :
           (TaskSees(jobs[j], c) /\ c \notin stale[j] => Right(jobs[j], c))'
    <2> SUFFICES ASSUME NEW j \in Jobs, NEW c \in Companies,
                        TaskSees(jobs[j], c), c \notin stale[j]
                 PROVE Right(jobs[j], c)'
      BY DEF Tick, TaskSees
    <2>1. Right(jobs[j], c)
      BY InvOfOne
    <2> QED BY <2>1, <1>8 DEF Right, Tick, Owes
  <1>10. MarksAreRight'
    <2> SUFFICES ASSUME NEW c \in Companies, company[c].next <= now
                 PROVE company[c].next <= now'
      BY DEF IInv, MarksAreRight, Unpaid, Tick
    <2>1. company[c].next \in Int
      BY InvOfOne DEF Row, Date, Never
    <2> QED BY <1>1, <2>1
  <1> QED BY <1>2, <1>3, <1>5, <1>6, <1>7, <1>9, <1>10, InvFromParts

LEMMA PurchaseInv == ASSUME IInv, NEW c \in Companies, Purchase(c) PROVE IInv'
  <1> DEFINE row == [plan |-> "PRO", source |-> "PURCHASED", billing |-> "CURRENT", account |-> TRUE,
                     next |-> now + Month, pastDue |-> Never, expires |-> Never, scheduled |-> Never]
  <1>1. now \in Nat /\ Month \in Nat /\ Month # 0
    BY BillingAssumption DEF IInv, TypeOK
  <1>2. row \in Row /\ Story(row) /\ row.pastDue <= now /\ row.next = now + Month * 1
    BY <1>1 DEF Row, Date, Never, Story
  <1>3. Write(c, row, {}) /\ now' = now /\ jobs' = jobs /\ desk' = desk
        /\ faults' \in Nat /\ requests' = requests /\ row.billing # "PAST_DUE"
    BY DEF Purchase, IInv, TypeOK
  <1>4. /\ begun' = [begun EXCEPT ![c] = now] /\ charges' = [charges EXCEPT ![c] = 1]
        /\ begun \in [Companies -> Nat] /\ charges \in [Companies -> Nat]
        /\ jobs \in [Jobs -> Task \cup {Idle}] /\ desk \in [Desk -> Request \cup {Done}]
    BY DEF Purchase, IInv, TypeOK
  <1>5. begun'[c] = now /\ charges'[c] = 1
    BY <1>4
  <1>6. /\ row.pastDue <= now
        /\ row.next = begun'[c] + Month * charges'[c] /\ row.next <= now + Month
    BY <1>1, <1>2, <1>5
  <1>7. /\ begun' \in [Companies -> Nat] /\ charges' \in [Companies -> Nat]
        /\ \A e \in Companies : e # c => begun'[e] = begun[e] /\ charges'[e] = charges[e]
    BY <1>1, <1>4
  <1>8. \A j \in Jobs : j \notin {} /\ jobs'[j] = jobs[j]
    BY <1>3
  <1>9. jobs' \in [Jobs -> Task \cup {Idle}] /\ desk' \in [Desk -> Request \cup {Done}]
    BY <1>3, <1>4
  <1> HIDE DEF row
  <1> QED BY <1>2, <1>3, <1>6, <1>7, <1>8, <1>9, RowMoves

LEMMA BeginRequestInv ==
  ASSUME IInv, NEW d \in Desk, NEW c \in Companies,
         NEW op \in {"account", "schedule", "cancel", "downgrade", "grant"}, BeginRequest(d, op, c)
  PROVE IInv'
  <1>1. company[c] \in Row /\ now \in Nat /\ Month \in Nat
    BY InvOfOne, BillingAssumption DEF IInv, TypeOK
  <1>2. PeriodEnd(company[c]) \in Date
    BY <1>1 DEF PeriodEnd, Row
  <1>3. GrantExpires(company[c]) \in Nat
    BY <1>1 DEF GrantExpires, Row, Date, Never
  <1> DEFINE u == CASE op = "schedule" -> PeriodEnd(company[c])
                    [] op = "grant" -> GrantExpires(company[c])
                    [] OTHER -> Never
  <1>3a. u \in Date /\ (op = "grant" => u # Never)
    BY <1>2, <1>3 DEF Date, Never
  <1>4. desk' = [desk EXCEPT ![d] = [op |-> op, on |-> c, until |-> u]]
    BY DEF BeginRequest
  <1> HIDE DEF u
  <1>5. [op |-> op, on |-> c, until |-> u] \in Request
    BY <1>3a DEF Request
  <1>6. TypeOK'
    BY <1>4, <1>5 DEF IInv, TypeOK, BeginRequest
  <1>7. PaidThrough' /\ NeverChargedAhead'
    BY DEF IInv, BeginRequest, PaidThrough, NeverChargedAhead, Subscriber
  <1>7a. MarksAreRight'
    BY DEF IInv, BeginRequest, MarksAreRight, Unpaid
  <1>8. GrantsExpire'
    BY <1>3a, <1>4 DEF IInv, GrantsExpire, TypeOK
  <1>9. UNCHANGED <<now, company, jobs, stale>>
    BY DEF BeginRequest
  <1>10. /\ \A e \in Companies : Story(company'[e]) /\ company'[e].pastDue <= now'
         /\ \A j \in Jobs : TaskAgrees(jobs[j])'
    BY <1>9, InvOfOne DEF TaskAgrees
  <1>11. \A j \in Jobs, e \in Companies :
            (TaskSees(jobs[j], e) /\ e \notin stale[j] => Right(jobs[j], e))'
    BY <1>9, InvOfOne DEF TaskSees, Right, Owes, Forfeited
  <1> QED BY <1>6, <1>7, <1>7a, <1>8, <1>10, <1>11, InvFromParts

LEMMA FinishRequestInv == ASSUME IInv, NEW d \in Desk, FinishRequest(d) PROVE IInv'
  <1> DEFINE q == desk[d]
             c == q.on
             r == company[c]
             row == Result(q, r)
  <1>1. q \in Request /\ c \in Companies
    BY DEF FinishRequest, IInv, TypeOK, Request
  <1>2. r \in Row /\ Story(r) /\ r.pastDue <= now /\ now \in Nat
    BY <1>1, InvOfOne DEF IInv, TypeOK
  <1>3. q.op = "grant" => q.until # Never
    BY DEF FinishRequest, IInv, GrantsExpire
  <1>4. /\ row \in Row /\ Story(row) /\ row.pastDue <= now
        /\ row.plan = "PRO" /\ row.source = "PURCHASED"
              => r.plan = "PRO" /\ r.source = "PURCHASED" /\ row.next = r.next
        /\ row.plan = "PRO" /\ row.billing = "PAST_DUE"
              => /\ r.plan = "PRO" /\ r.billing = "PAST_DUE"
                 /\ row.source = r.source /\ row.next = r.next
    <2>1. CASE q.op = "account"
      BY <2>1, <1>1, <1>2 DEF Result, Row, Story
    <2>2. CASE q.op = "schedule"
      BY <2>2, <1>1, <1>2 DEF Result, Row, Story, Request
    <2>3. CASE q.op = "cancel"
      BY <2>3, <1>1, <1>2 DEF Result, Row, Story, Date
    <2>4. CASE q.op = "downgrade"
      BY <2>4, <1>2, CoreRow DEF Result, Never, Core
    <2>5. CASE q.op = "grant"
      <3>1. row = Granted(r, q.until) /\ q.until \in Date
        BY <2>5, <1>1 DEF Result, Request
      <3>2. row = [plan |-> "PRO", source |-> "ADMIN_GRANT", billing |-> "NOT_BILLED",
                   account |-> FALSE, next |-> Never, pastDue |-> Never,
                   expires |-> q.until, scheduled |-> Never]
        BY <3>1 DEF Granted, Core
      <3>3. row \in Row
        BY <3>1, <3>2 DEF Row, Date
      <3>4. /\ Story(row) /\ row.source # "PURCHASED" /\ row.pastDue = Never
            /\ row.billing # "PAST_DUE"
        BY <3>2, <2>5, <1>3 DEF Story
      <3> QED BY <3>3, <3>4, <1>2 DEF Never
    <2> QED BY <1>1, <2>1, <2>2, <2>3, <2>4, <2>5 DEF Request
  <1>5. /\ Write(c, row, {}) /\ now' = now /\ jobs' = jobs
        /\ begun' = begun /\ charges' = charges /\ faults' \in Nat /\ requests' = requests
        /\ desk' = [desk EXCEPT ![d] = Done]
    BY DEF FinishRequest, IInv, TypeOK
  <1>6. row.plan = "PRO" /\ row.billing = "PAST_DUE"
            => c \in doubtful' \/ (row.source = "PURCHASED" /\ row.next <= now)
    BY <1>1, <1>4, <1>5 DEF IInv, MarksAreRight, Unpaid, Write
  <1>7. row.plan = "PRO" /\ row.source = "PURCHASED"
            => row.next = begun'[c] + Month * charges'[c] /\ row.next <= now + Month
    BY <1>1, <1>4, <1>5 DEF IInv, PaidThrough, NeverChargedAhead, Subscriber
  <1>8. /\ desk' \in [Desk -> Request \cup {Done}] /\ \A i \in Desk : desk'[i] # Done => desk'[i] = desk[i]
        /\ begun \in [Companies -> Nat] /\ charges \in [Companies -> Nat]
        /\ jobs \in [Jobs -> Task \cup {Idle}]
    BY <1>5 DEF IInv, TypeOK
  <1>9. \A j \in Jobs : j \notin {} /\ jobs'[j] = jobs[j]
    BY <1>5
  <1>10. begun' \in [Companies -> Nat] /\ charges' \in [Companies -> Nat]
         /\ jobs' \in [Jobs -> Task \cup {Idle}]
    BY <1>5, <1>8
  <1>11. \A e \in Companies : e # c => begun'[e] = begun[e] /\ charges'[e] = charges[e]
    BY <1>5
  <1> HIDE DEF row, c, r
  <1> QED BY <1>1, <1>4, <1>5, <1>6, <1>7, <1>8, <1>9, <1>10, <1>11, RowMoves
-----------------------------------------------------------------------------
\* What a job finds when it reads one of the lists from which Pro is taken.
LEMMA ListedHasForfeited ==
  ASSUME IInv, NEW t \in Nat, t <= now, NEW phase \in {"scheduled", "grace", "expired"},
         NEW c \in Listed(phase, t)
  PROVE Forfeited(company[c], now)
  <1>1. c \in Companies /\ company[c] \in Row /\ company[c].pastDue <= now /\ now \in Nat
    BY InvOfOne DEF Listed, IInv, TypeOK
  <1>2. CASE phase = "scheduled"
    BY <1>1, <1>2 DEF Listed, Forfeited, Row, Date, Never
  <1>3. CASE phase = "grace"
    <2>1. company[c].pastDue \in Nat /\ (Grace = 0 \/ t >= company[c].pastDue + Grace)
      BY <1>1, <1>3 DEF Listed, PastGrace, Row, Date, Never
    <2>2. now >= company[c].pastDue + Grace
      BY <2>1, <1>1, BillingAssumption
    <2> QED BY <1>3, <2>2 DEF Listed, Forfeited
  <1>4. CASE phase = "expired"
    BY <1>1, <1>4 DEF Listed, Forfeited, Row, Date, Never
  <1> QED BY <1>2, <1>3, <1>4

LEMMA StartJobInv == ASSUME IInv, NEW j \in Jobs, StartJob(j) PROVE IInv'
  <1>1. PICK c \in Companies :
           jobs' = [jobs EXCEPT ![j] = [phase |-> 1, now |-> now, todo |-> Listed("due", now),
                                        step |-> "next", on |-> c, pastDue |-> Never]]
    BY DEF StartJob
  <1> DEFINE t == [phase |-> 1, now |-> now, todo |-> Listed("due", now),
                   step |-> "next", on |-> c, pastDue |-> Never]
  <1>2. now \in Nat /\ faults \in Nat /\ Listed("due", now) \subseteq Companies
    BY DEF IInv, TypeOK, Listed
  <1>3. t \in Task /\ TaskAgrees(t)
    BY <1>2 DEF Task, Date, Never, TaskAgrees
  <1>4. \A e \in Companies : TaskSees(t, e) => Right(t, e)
    <2> SUFFICES ASSUME NEW e \in Listed("due", now) PROVE Owes(company[e], now)
      BY DEF TaskSees, Right
    <2>1. e \in Companies /\ Story(company[e])
      BY InvOfOne DEF Listed
    <2> QED BY <2>1 DEF Listed, Owes, Story
  <1>5. /\ UNCHANGED <<now, company, begun, charges, desk, doubtful, requests, faults>>
        /\ stale' = [stale EXCEPT ![j] = {}]
    BY DEF StartJob
  <1> HIDE DEF t
  <1> QED BY <1>1, <1>2, <1>3, <1>4, <1>5, JobMoves DEF t

LEMMA NextTask ==
  ASSUME NEW k \in Task, NEW p \in 1..4, NEW list \in SUBSET Companies
  PROVE [k EXCEPT !.phase = p, !.todo = list] \in Task
  BY DEF Task

LEMMA NextPhaseInv == ASSUME IInv, NEW j \in Jobs, NextPhase(j) PROVE IInv'
  <1> DEFINE k == jobs[j]
             list == Listed(Phases[k.phase + 1], k.now)
             t == [k EXCEPT !.phase = k.phase + 1, !.todo = list]
  <1>1. k \in Task /\ TaskAgrees(k) /\ k # Idle /\ k.step = "next" /\ faults \in Nat
    BY InvOfOne DEF NextPhase, IInv, TypeOK
  <1>2. /\ UNCHANGED <<now, company, begun, charges, desk, doubtful, requests, faults>>
        /\ stale' = [stale EXCEPT ![j] = {}]
    BY DEF NextPhase
  <1>3. CASE k.phase = 4
    <2>1. jobs' = [jobs EXCEPT ![j] = Idle]
      BY <1>3 DEF NextPhase
    <2>2. TaskAgrees(Idle) /\ \A c \in Companies : ~TaskSees(Idle, c)
      BY DEF TaskAgrees, TaskSees
    <2> QED BY <1>1, <1>2, <2>1, <2>2, JobMoves
  <1>4. CASE k.phase # 4
    <2>1. jobs' = [jobs EXCEPT ![j] = t]
      BY <1>4 DEF NextPhase
    <2>2. k.phase \in 1..3 /\ k.now \in Nat /\ k.now <= now
      BY <1>1, <1>4 DEF Task, TaskAgrees
    <2>3. Phases[k.phase + 1] \in {"scheduled", "grace", "expired"}
      BY <2>2 DEF Phases
    <2>4. list \subseteq Companies /\ \A c \in list : Forfeited(company[c], now)
      BY <2>2, <2>3, ListedHasForfeited DEF Listed
    <2> HIDE DEF list
    <2>5. t \in Task
      <3>1. k.phase + 1 \in 1..4
        BY <2>2
      <3> QED BY <1>1, <2>4, <3>1, NextTask
    <2>6. /\ t.phase = k.phase + 1 /\ t.todo = list
          /\ t.step = "next" /\ t.now = k.now /\ t.pastDue = k.pastDue /\ t.on = k.on
      BY <1>1 DEF Task
    <2>7. TaskAgrees(t)
      BY <1>1, <2>6 DEF TaskAgrees
    <2>8. \A c \in Companies : TaskSees(t, c) => Right(t, c)
      BY <2>2, <2>4, <2>6 DEF TaskSees, Right
    <2> HIDE DEF t
    <2>9. faults' \in Nat /\ t \in Task \cup {Idle}
      BY <1>1, <1>2, <2>5
    <2> QED BY <1>2, <2>1, <2>7, <2>8, <2>9, JobMoves
  <1> QED BY <1>3, <1>4

\* A step that leaves the phase of a job alone, takes on nothing new and forgets at most
\* about a company that the job is right about.
LEMMA TaskMoves ==
  ASSUME IInv, NEW j \in Jobs, NEW t \in Task, NEW s \in SUBSET Companies, jobs[j] # Idle,
         jobs' = [jobs EXCEPT ![j] = t], stale' = [stale EXCEPT ![j] = s], faults' \in Nat,
         UNCHANGED <<now, company, begun, charges, desk, doubtful, requests>>,
         t.now = jobs[j].now, t.phase = jobs[j].phase, t.pastDue <= now,
         t.todo \subseteq jobs[j].todo,
         t.step \in {"readPastDue", "markPastDue"} => t.phase = 1,
         t.step = "core" => t.phase > 1,
         t.step # "next" => /\ t.on \notin t.todo
                            /\ \/ t.on \in jobs[j].todo
                               \/ t.on = jobs[j].on /\ jobs[j].step # "next",
         \A c \in stale[j] : c \in s \/ Right(t, c)
  PROVE IInv'
  <1>1. TaskAgrees(t)
    BY InvOfOne DEF TaskAgrees
  <1>2. \A c \in Companies : TaskSees(t, c) => TaskSees(jobs[j], c)
    BY DEF TaskSees
  <1>3. ASSUME NEW c \in Companies, TaskSees(t, c), c \notin s
        PROVE Right(t, c)
    <2>1. c \notin stale[j] => Right(jobs[j], c)
      BY <1>2, <1>3, InvOfOne
    <2> QED BY <2>1, <1>3 DEF Right
  <1> QED BY <1>1, <1>3, JobMoves

\* A step that leaves alone what jobs are not up to date about.
LEMMA StaleKept ==
  ASSUME IInv, NEW j \in Jobs, stale' = stale
  PROVE stale' = [stale EXCEPT ![j] = stale[j]] /\ stale[j] \in SUBSET Companies
  BY DEF IInv, TypeOK

LEMMA RenewReconciledInv ==
  ASSUME IInv, NEW j \in Jobs, NEW c \in Companies, RenewReconciled(j, c) PROVE IInv'
  <1> DEFINE t == [jobs[j] EXCEPT !.todo = @ \ {c}]
  <1>1. jobs[j] \in Task /\ jobs[j] # Idle /\ TaskAgrees(jobs[j]) /\ jobs[j].step = "next"
    BY InvOfOne DEF RenewReconciled, At
  <1>2. t \in Task /\ t.todo \subseteq jobs[j].todo
    BY <1>1 DEF Task
  <1>3. /\ t.now = jobs[j].now /\ t.phase = jobs[j].phase
        /\ t.pastDue = jobs[j].pastDue /\ t.step = "next"
    BY <1>1 DEF Task
  <1>4. /\ jobs' = [jobs EXCEPT ![j] = t]
        /\ UNCHANGED <<now, company, begun, charges, desk, doubtful, requests>>
        /\ faults' \in Nat /\ stale' = [stale EXCEPT ![j] = stale[j]]
        /\ stale[j] \in SUBSET Companies
    BY StaleKept DEF RenewReconciled, IInv, TypeOK
  <1> HIDE DEF t
  <1> QED BY <1>1, <1>2, <1>3, <1>4, TaskMoves DEF TaskAgrees

LEMMA RenewFailsInv ==
  ASSUME IInv, NEW j \in Jobs, NEW c \in Companies, RenewFails(j, c) PROVE IInv'
  <1> DEFINE t == [jobs[j] EXCEPT !.todo = @ \ {c}, !.step = "readPastDue", !.on = c]
             seen == Renewable(company[c]) /\ ~NotDue(company[c], jobs[j].now)
             s == IF seen THEN stale[j] \ {c} ELSE stale[j]
  <1>1. jobs[j] \in Task /\ jobs[j] # Idle /\ TaskAgrees(jobs[j]) /\ c \in jobs[j].todo
    BY InvOfOne DEF RenewFails, At
  <1>2. jobs[j].phase = 1
    BY <1>1 DEF RenewFails, At, Phases, Task
  <1>3. t \in Task /\ t.todo = jobs[j].todo \ {c}
    BY <1>1 DEF Task
  <1>4. /\ t.now = jobs[j].now /\ t.phase = jobs[j].phase
        /\ t.pastDue = jobs[j].pastDue /\ t.step = "readPastDue" /\ t.on = c
    BY <1>1 DEF Task
  <1>5. /\ jobs' = [jobs EXCEPT ![j] = t] /\ faults' \in Nat
        /\ UNCHANGED <<now, company, begun, charges, desk, doubtful, requests>>
        /\ stale' = [stale EXCEPT ![j] = s] /\ s \in SUBSET Companies
    BY DEF RenewFails, IInv, TypeOK
  <1>6. seen => Owes(company[c], jobs[j].now)
    <2>1. company[c] \in Row /\ Story(company[c]) /\ jobs[j].now \in Nat
      BY <1>1, InvOfOne DEF Task
    <2> QED BY <2>1 DEF Renewable, NotDue, Owes, Story, Row, Date, Never
  <1>7. \A e \in stale[j] : e \in s \/ Right(t, e)
    BY <1>2, <1>4, <1>6 DEF Right
  <1> HIDE DEF t, s, seen
  <1> QED BY <1>1, <1>2, <1>3, <1>4, <1>5, <1>7, TaskMoves DEF TaskAgrees

LEMMA ReadPastDueInv == ASSUME IInv, NEW j \in Jobs, ReadPastDue(j) PROVE IInv'
  <1> DEFINE k == jobs[j]
             u == IF company[k.on].pastDue # Never THEN company[k.on].pastDue ELSE k.now
             t == [k EXCEPT !.step = "markPastDue", !.pastDue = u]
  <1>1. k \in Task /\ k # Idle /\ TaskAgrees(k) /\ k.step = "readPastDue"
    BY InvOfOne DEF ReadPastDue
  <1>2. u \in Date /\ u <= now
    <2>1. k.on \in Companies /\ k.now \in Nat /\ k.now <= now
      BY <1>1 DEF Task, TaskAgrees
    <2>2. company[k.on] \in Row /\ company[k.on].pastDue <= now
      BY <2>1, InvOfOne
    <2> QED BY <2>1, <2>2 DEF Row, Date
  <1>3. t \in Task /\ t.todo = k.todo
    BY <1>1, <1>2 DEF Task
  <1>4. /\ t.now = k.now /\ t.phase = k.phase /\ t.pastDue = u /\ t.step = "markPastDue"
        /\ t.on = k.on /\ k.on \notin k.todo
    BY <1>1 DEF Task, TaskAgrees
  <1>5. /\ jobs' = [jobs EXCEPT ![j] = t]
        /\ UNCHANGED <<now, company, begun, charges, desk, doubtful, requests>>
        /\ faults' \in Nat /\ stale' = [stale EXCEPT ![j] = stale[j]]
        /\ stale[j] \in SUBSET Companies
    BY StaleKept DEF ReadPastDue, IInv, TypeOK
  <1>6. t.phase = 1
    BY <1>1, <1>4 DEF TaskAgrees
  <1> HIDE DEF t, u
  <1> QED BY <1>1, <1>2, <1>3, <1>4, <1>5, <1>6, TaskMoves

LEMMA BeginDowngradeInv ==
  ASSUME IInv, NEW j \in Jobs, NEW c \in Companies, BeginDowngrade(j, c) PROVE IInv'
  <1> DEFINE k == jobs[j]
             s == IF company[c].plan = "PRO" THEN "core" ELSE "next"
             t == [k EXCEPT !.todo = @ \ {c}, !.on = c, !.step = s]
  <1>1. k \in Task /\ k # Idle /\ TaskAgrees(k) /\ k.phase > 1 /\ c \in k.todo
    BY InvOfOne DEF BeginDowngrade
  <1>2. s \in {"next", "core"}
    OBVIOUS
  <1>3. t \in Task /\ t.todo = k.todo \ {c}
    BY <1>1, <1>2 DEF Task
  <1>4. t.now = k.now /\ t.phase = k.phase /\ t.pastDue = k.pastDue /\ t.step = s /\ t.on = c
    BY <1>1 DEF Task
  <1>5. /\ jobs' = [jobs EXCEPT ![j] = t]
        /\ UNCHANGED <<now, company, begun, charges, desk, doubtful, requests>>
        /\ faults' \in Nat /\ stale' = [stale EXCEPT ![j] = stale[j]]
        /\ stale[j] \in SUBSET Companies
    BY StaleKept DEF BeginDowngrade, IInv, TypeOK
  <1>6. s = "core" => k.phase > 1
    BY <1>1
  <1> HIDE DEF t, s
  <1> QED BY <1>1, <1>2, <1>3, <1>4, <1>5, <1>6, TaskMoves DEF TaskAgrees

LEMMA CrashJobInv == ASSUME IInv, NEW j \in Jobs, CrashJob(j) PROVE IInv'
  <1>1. TaskAgrees(Idle) /\ \A c \in Companies : ~TaskSees(Idle, c)
    BY DEF TaskAgrees, TaskSees
  <1>2. faults' \in Nat
    BY DEF CrashJob, IInv, TypeOK
  <1> QED BY <1>1, <1>2, JobMoves DEF CrashJob

LEMMA PassOverInv == ASSUME IInv, NEW j \in Jobs, PassOver(j) PROVE IInv'
  <1> DEFINE k == jobs[j]
  <1>1. k \in Task /\ k # Idle /\ TaskAgrees(k)
    BY InvOfOne DEF PassOver
  <1>2. PICK t \in Task :
           /\ jobs' = [jobs EXCEPT ![j] = t]
           /\ t.todo \subseteq k.todo /\ t.step = "next"
           /\ t.now = k.now /\ t.phase = k.phase /\ t.pastDue = k.pastDue
    <2>1. ASSUME NEW c \in k.todo, At(j, "due"), jobs' = [jobs EXCEPT ![j].todo = @ \ {c}]
          PROVE \E t \in Task :
                   /\ jobs' = [jobs EXCEPT ![j] = t]
                   /\ t.todo \subseteq k.todo /\ t.step = "next"
                   /\ t.now = k.now /\ t.phase = k.phase /\ t.pastDue = k.pastDue
      <3> DEFINE t == [k EXCEPT !.todo = @ \ {c}]
      <3>1. t \in Task /\ t.todo \subseteq k.todo /\ t.step = "next" /\ t.now = k.now
            /\ t.phase = k.phase /\ t.pastDue = k.pastDue
        BY <1>1, <2>1 DEF Task, At
      <3>2. jobs' = [jobs EXCEPT ![j] = t]
        BY <2>1
      <3> HIDE DEF t
      <3> QED BY <3>1, <3>2
    <2>2. ASSUME Goto(j, "next")
          PROVE \E t \in Task :
                   /\ jobs' = [jobs EXCEPT ![j] = t]
                   /\ t.todo \subseteq k.todo /\ t.step = "next"
                   /\ t.now = k.now /\ t.phase = k.phase /\ t.pastDue = k.pastDue
      <3> DEFINE t == [k EXCEPT !.step = "next"]
      <3>1. t \in Task /\ t.todo \subseteq k.todo /\ t.step = "next" /\ t.now = k.now
            /\ t.phase = k.phase /\ t.pastDue = k.pastDue
        BY <1>1 DEF Task
      <3>2. jobs' = [jobs EXCEPT ![j] = t]
        BY <2>2 DEF Goto
      <3> HIDE DEF t
      <3> QED BY <3>1, <3>2
    <2> QED BY <2>1, <2>2 DEF PassOver
  <1>3. /\ UNCHANGED <<now, company, begun, charges, desk, doubtful, requests>>
        /\ faults' \in Nat /\ stale' = [stale EXCEPT ![j] = stale[j]]
        /\ stale[j] \in SUBSET Companies
    BY StaleKept DEF PassOver, IInv, TypeOK
  <1> HIDE DEF k
  <1> QED BY <1>1, <1>2, <1>3, TaskMoves DEF TaskAgrees, k

LEMMA RenewInv ==
  ASSUME IInv, NEW j \in Jobs, NEW c \in Companies, Renew(j, c) PROVE IInv'
  <1> DEFINE r == company[c]
             row == [r EXCEPT !.billing = "CURRENT", !.pastDue = Never, !.next = r.next + Month]
  <1>1. jobs[j] \in Task /\ jobs[j] # Idle /\ TaskAgrees(jobs[j]) /\ c \in jobs[j].todo
    BY InvOfOne DEF Renew, At
  <1>2. jobs[j].phase = 1 /\ jobs[j].now \in Nat /\ jobs[j].now <= now
    BY <1>1 DEF Renew, At, Phases, Task, TaskAgrees
  <1>3. r \in Row /\ Story(r) /\ now \in Nat /\ Month \in Nat /\ Month # 0
    BY InvOfOne, BillingAssumption DEF IInv, TypeOK
  <1>4. r.plan = "PRO" /\ r.source = "PURCHASED" /\ r.next \in Nat /\ r.next <= jobs[j].now
    BY <1>3, <1>2 DEF Renew, Renewable, NotDue, Story, Row, Date, Never
  <1>5. r.next = begun[c] + Month * charges[c] /\ begun[c] \in Nat /\ charges[c] \in Nat
    BY <1>4 DEF IInv, PaidThrough, Subscriber, TypeOK
  <1>6. r.next + Month \in Date
    BY <1>3, <1>4 DEF Date
  <1>7. row \in Row
    BY <1>3, <1>6 DEF Row, Date
  <1>8. row.plan = "PRO" /\ row.source = "PURCHASED" /\ row.next = r.next + Month
        /\ row.pastDue = Never /\ row.account = r.account /\ row.expires = r.expires
    BY <1>3, <1>4 DEF Row
  <1>9. Story(row) /\ row.pastDue <= now
    BY <1>3, <1>4, <1>8 DEF Story, Never
  <1>10. /\ Write(c, row, UpToDate(j)) /\ now' = now /\ begun' = begun /\ desk' = desk
         /\ faults' \in Nat /\ requests' = requests
         /\ charges' = [charges EXCEPT ![c] = @ + 1]
    BY DEF Renew, AfterRenewal, IInv, TypeOK
  <1>11. /\ begun \in [Companies -> Nat] /\ charges \in [Companies -> Nat]
         /\ jobs \in [Jobs -> Task \cup {Idle}] /\ desk \in [Desk -> Request \cup {Done}]
    BY DEF IInv, TypeOK
  <1>12. /\ charges' \in [Companies -> Nat] /\ charges'[c] = charges[c] + 1
         /\ \A e \in Companies : e # c => begun'[e] = begun[e] /\ charges'[e] = charges[e]
    BY <1>10, <1>11
  <1>13. row.next = begun'[c] + Month * charges'[c] /\ row.next <= now + Month
    <2>1. Month * (charges[c] + 1) = Month * charges[c] + Month
      BY <1>3, <1>5
    <2>2. row.next = begun[c] + (Month * charges[c] + Month)
      BY <1>3, <1>5, <1>8
    <2>3. row.next <= now + Month
      BY <1>2, <1>3, <1>4, <1>8
    <2> QED BY <2>1, <2>2, <2>3, <1>10, <1>12
  <1>14. PICK t \in Task :
            /\ jobs' = [jobs EXCEPT ![j] = t]
            /\ t.phase = jobs[j].phase /\ t.now = jobs[j].now /\ t.pastDue = jobs[j].pastDue
            /\ t.todo = jobs[j].todo \ {c}
            /\ t.step = "next" \/ (t.step = "readPastDue" /\ t.on = c)
    <2> DEFINE u == [jobs[j] EXCEPT !.todo = @ \ {c}]
               v == [jobs[j] EXCEPT !.todo = @ \ {c}, !.step = "readPastDue", !.on = c]
    <2>1. /\ u \in Task /\ u.phase = jobs[j].phase /\ u.now = jobs[j].now
          /\ u.pastDue = jobs[j].pastDue /\ u.todo = jobs[j].todo \ {c} /\ u.step = "next"
      BY <1>1 DEF Task, Renew, At
    <2>2. /\ v \in Task /\ v.phase = jobs[j].phase /\ v.now = jobs[j].now
          /\ v.pastDue = jobs[j].pastDue /\ v.todo = jobs[j].todo \ {c}
          /\ v.step = "readPastDue" /\ v.on = c
      BY <1>1 DEF Task
    <2>3. jobs' = [jobs EXCEPT ![j] = u] \/ jobs' = [jobs EXCEPT ![j] = v]
      BY DEF Renew, AfterRenewal
    <2> HIDE DEF u, v
    <2> QED BY <2>1, <2>2, <2>3
  <1>15. TaskAgrees(t)
    BY <1>1, <1>2, <1>14 DEF TaskAgrees
  <1>16. /\ jobs' \in [Jobs -> Task \cup {Idle}] /\ jobs'[j] = t
         /\ \A i \in Jobs : i # j => jobs'[i] = jobs[i]
    BY <1>11, <1>14
  <1>17. t.step # "next" => c \in stale'[j]
    <2>1. row # r
      <3>1. row.next # r.next
        BY <1>3, <1>4, <1>8
      <3> HIDE DEF row, r
      <3> QED BY <3>1
    <2>2. t.step # "next" => j \notin UpToDate(j)
      BY <1>16 DEF UpToDate
    <2>3. Sees(j, c)
      BY <1>1 DEF Sees
    <2> QED BY <1>10, <2>1, <2>2, <2>3 DEF Write
  <1>18. \A e \in Companies : TaskSees(t, e) => TaskSees(jobs[j], e) /\ (e # c \/ c \in stale'[j])
    BY <1>1, <1>14, <1>17 DEF TaskSees
  <1>19. row.billing # "PAST_DUE"
    BY <1>3 DEF Row
  <1> HIDE DEF row, r
  <1>20. \A i \in Jobs :
            \/ i \notin UpToDate(j) /\ jobs'[i] = jobs[i]
            \/ /\ TaskAgrees(jobs'[i])
               /\ \A e \in Companies : TaskSees(jobs'[i], e) =>
                     /\ TaskSees(jobs[i], e)
                     /\ jobs'[i].phase = jobs[i].phase /\ jobs'[i].now = jobs[i].now
                     /\ e # c \/ c \in stale'[i]
    BY <1>14, <1>15, <1>16, <1>18 DEF UpToDate
  <1> QED BY <1>7, <1>9, <1>10, <1>11, <1>12, <1>13, <1>16, <1>19, <1>20, RowMoves

\* The two blind writes of a job: the job goes on, and the plan ends or stays as it is.
LEMMA JobWrites ==
  ASSUME IInv, NEW j \in Jobs, jobs[j] # Idle, jobs[j].step # "next",
         NEW row \in Row, Story(row), row.pastDue <= now,
         Write(jobs[j].on, row, {j}), Goto(j, "next"),
         UNCHANGED <<now, begun, charges, desk, requests, faults>>,
         row.plan = "PRO" /\ row.billing = "PAST_DUE"
            => jobs[j].on \in doubtful' \/ (row.source = "PURCHASED" /\ row.next <= now),
         \/ row.plan = "CORE"
         \/ /\ row.plan = company[jobs[j].on].plan
            /\ row.source = company[jobs[j].on].source
            /\ row.next = company[jobs[j].on].next
  PROVE IInv'
  <1> DEFINE c == jobs[j].on
             t == [jobs[j] EXCEPT !.step = "next"]
  <1>1. jobs[j] \in Task /\ TaskAgrees(jobs[j]) /\ c \in Companies
    BY InvOfOne DEF Task
  <1>2. t \in Task /\ t.step = "next" /\ t.now = jobs[j].now /\ t.phase = jobs[j].phase
        /\ t.pastDue = jobs[j].pastDue /\ t.todo = jobs[j].todo
    BY <1>1 DEF Task
  <1>3. TaskAgrees(t)
    BY <1>1, <1>2 DEF TaskAgrees
  <1>4. \A e \in Companies : TaskSees(t, e) => TaskSees(jobs[j], e) /\ e # c
    BY <1>1, <1>2 DEF TaskSees, TaskAgrees
  <1>5. /\ begun \in [Companies -> Nat] /\ charges \in [Companies -> Nat] /\ faults \in Nat
        /\ jobs \in [Jobs -> Task \cup {Idle}] /\ desk \in [Desk -> Request \cup {Done}]
    BY DEF IInv, TypeOK
  <1>6. row.plan = "PRO" /\ row.source = "PURCHASED"
            => row.next = begun'[c] + Month * charges'[c] /\ row.next <= now + Month
    BY <1>1 DEF IInv, PaidThrough, NeverChargedAhead, Subscriber
  <1>7. jobs' = [jobs EXCEPT ![j] = t]
    BY DEF Goto
  <1>7a. row.plan = "PRO" /\ row.billing = "PAST_DUE"
            => c \in doubtful' \/ (row.source = "PURCHASED" /\ row.next <= now)
    OBVIOUS
  <1>10. Write(c, row, {j})
    OBVIOUS
  <1> HIDE DEF t, c
  <1>8. /\ jobs' \in [Jobs -> Task \cup {Idle}] /\ jobs'[j] = t
        /\ \A i \in Jobs : i # j => jobs'[i] = jobs[i]
    BY <1>2, <1>5, <1>7
  <1>9. \A i \in Jobs :
            \/ i \notin {j} /\ jobs'[i] = jobs[i]
            \/ /\ TaskAgrees(jobs'[i])
               /\ \A e \in Companies : TaskSees(jobs'[i], e) =>
                     /\ TaskSees(jobs[i], e)
                     /\ jobs'[i].phase = jobs[i].phase /\ jobs'[i].now = jobs[i].now
                     /\ e # c \/ c \in stale'[i]
    BY <1>2, <1>3, <1>4, <1>8
  <1> QED BY <1>1, <1>5, <1>6, <1>7a, <1>8, <1>9, <1>10, RowMoves

LEMMA MarkPastDueInv == ASSUME IInv, NEW j \in Jobs, MarkPastDue(j) PROVE IInv'
  <1> DEFINE c == jobs[j].on
             row == [company[c] EXCEPT !.billing = "PAST_DUE", !.pastDue = jobs[j].pastDue]
  <1>1. /\ jobs[j] \in Task /\ TaskAgrees(jobs[j]) /\ jobs[j] # Idle
        /\ jobs[j].step = "markPastDue" /\ c \in Companies /\ jobs[j].pastDue \in Date
    BY InvOfOne DEF MarkPastDue, Task
  <1>2. jobs[j].phase = 1 /\ jobs[j].pastDue <= now
    BY <1>1 DEF TaskAgrees
  <1>3. company[c] \in Row /\ Story(company[c])
    BY <1>1, InvOfOne
  <1>4. row \in Row /\ row.pastDue = jobs[j].pastDue
        /\ row.plan = company[c].plan /\ row.source = company[c].source
        /\ row.next = company[c].next /\ row.account = company[c].account
        /\ row.expires = company[c].expires
    BY <1>1, <1>3 DEF Row
  <1>5. Story(row)
    BY <1>3, <1>4 DEF Story
  <1>6. Write(c, row, {j}) /\ Goto(j, "next")
        /\ UNCHANGED <<now, begun, charges, desk, requests, faults>>
    BY DEF MarkPastDue
  <1>7. row.plan = "PRO" /\ row.billing = "PAST_DUE"
            => c \in doubtful' \/ (row.source = "PURCHASED" /\ row.next <= now)
    <2>1. row.billing = "PAST_DUE" /\ c \in stale[j] => c \in doubtful'
      BY <1>6 DEF Write
    <2>2. c \notin stale[j] => Owes(company[c], jobs[j].now)
      BY <1>1, <1>2, InvOfOne DEF TaskSees, Right
    <2>3. jobs[j].now \in Nat /\ jobs[j].now <= now /\ now \in Nat /\ company[c].next \in Int
      BY <1>1, <1>3 DEF Task, TaskAgrees, Row, Date, Never, IInv, TypeOK
    <2> QED BY <1>4, <2>1, <2>2, <2>3 DEF Owes
  <1> HIDE DEF row
  <1> QED BY <1>1, <1>2, <1>4, <1>5, <1>6, <1>7, JobWrites

LEMMA WriteCoreInv == ASSUME IInv, NEW j \in Jobs, WriteCore(j) PROVE IInv'
  <1>1. /\ jobs[j] # Idle /\ jobs[j].step # "next"
        /\ Write(jobs[j].on, Core, {j}) /\ Goto(j, "next")
        /\ UNCHANGED <<now, begun, charges, desk, requests, faults>>
    BY DEF WriteCore
  <1>2. Core.pastDue <= now
    BY CoreRow DEF IInv, TypeOK, Never
  <1> QED BY <1>1, <1>2, CoreRow, JobWrites

-----------------------------------------------------------------------------
(* The inductive invariant holds in every reachable state. *)
THEOREM BillingInvariant == Spec => []IInv
  <1>1. Init => IInv
    BY InitInv
  <1>2. IInv /\ [Next]_vars => IInv'
    <2> SUFFICES ASSUME IInv, [Next]_vars PROVE IInv'
      OBVIOUS
    <2>1. CASE UNCHANGED vars
      <3>1. UNCHANGED <<now, company, jobs, stale>>
        BY <2>1 DEF vars
      <3>2. TypeOK' /\ PaidThrough' /\ NeverChargedAhead' /\ GrantsExpire' /\ MarksAreRight'
        BY <2>1 DEF vars, IInv, TypeOK, PaidThrough, NeverChargedAhead, GrantsExpire,
           MarksAreRight, Unpaid, Subscriber
      <3>3. /\ \A c \in Companies : Story(company'[c]) /\ company'[c].pastDue <= now'
            /\ \A j \in Jobs : TaskAgrees(jobs[j])'
            /\ \A j \in Jobs, c \in Companies :
                  (TaskSees(jobs[j], c) /\ c \notin stale[j] => Right(jobs[j], c))'
        BY <3>1, InvOfOne DEF TaskAgrees, TaskSees, Right, Owes, Forfeited
      <3> QED BY <3>2, <3>3, InvFromParts
    <2>2. CASE Tick
      BY <2>2, TickInv
    <2>3. CASE \E c \in Companies : Purchase(c)
      BY <2>3, PurchaseInv
    <2>4. CASE \E d \in Desk : FinishRequest(d)
      BY <2>4, FinishRequestInv
    <2>5. CASE \E d \in Desk, c \in Companies,
                  op \in {"account", "schedule", "cancel", "downgrade", "grant"} : BeginRequest(d, op, c)
      BY <2>5, BeginRequestInv
    <2>6. CASE \E j \in Jobs : StartJob(j) \/ PassOver(j) \/ CrashJob(j) \/ NextPhase(j) \/ ReadPastDue(j)
                               \/ MarkPastDue(j) \/ WriteCore(j)
      BY <2>6, StartJobInv, PassOverInv, CrashJobInv, NextPhaseInv, ReadPastDueInv,
         MarkPastDueInv, WriteCoreInv
    <2>7. CASE \E j \in Jobs, c \in Companies : Renew(j, c) \/ RenewReconciled(j, c)
                                                \/ RenewFails(j, c) \/ BeginDowngrade(j, c)
      BY <2>7, RenewInv, RenewReconciledInv, RenewFailsInv, BeginDowngradeInv
    <2> QED BY <2>1, <2>2, <2>3, <2>4, <2>5, <2>6, <2>7 DEF Next, JobStep
  <1> QED BY <1>1, <1>2, PTL DEF Spec

(* A subscription is paid up to its next billing date, month by month. *)
THEOREM SubscriptionsArePaidThrough == Spec => []PaidThrough
  <1>1. IInv => PaidThrough
    BY DEF IInv
  <1> QED BY <1>1, BillingInvariant, PTL

(* No month is charged before the one that is paid for is over. *)
THEOREM NobodyIsChargedAhead == Spec => []NeverChargedAhead
  <1>1. IInv => NeverChargedAhead
    BY DEF IInv
  <1> QED BY <1>1, BillingInvariant, PTL

(* The columns of a company describe either a subscription or a grant. *)
THEOREM RowsTellOneStory == Spec => []OneStory
  <1>1. IInv => OneStory
    BY DEF IInv
  <1> QED BY <1>1, BillingInvariant, PTL

(* Jobs take Pro only from companies whose row says that they have forfeited it, unless
   the row has changed since the job read its list; and a company that is past due has a
   month unpaid, unless the mark comes from a job that was not up to date: from
   LooksAreRight and MarksAreRight, in the state in which the row is written. *)
THEOREM ProIsTakenOnlyWhenForfeited == Spec => TakenOnlyWhenForfeited
  <1>1. IInv /\ [Next]_vars =>
          [\A j \in Jobs, c \in Companies :
              WriteCore(j) /\ jobs[j].on = c /\ company[c].plan = "PRO" =>
                 /\ c \in stale[j] \/ Forfeited(company[c], now)
                 /\ company[c].billing = "PAST_DUE" => c \in doubtful \/ Unpaid(c)]_vars
    <2> SUFFICES ASSUME IInv, NEW j \in Jobs, NEW c \in Companies,
                        WriteCore(j), jobs[j].on = c, company[c].plan = "PRO"
                 PROVE /\ c \in stale[j] \/ Forfeited(company[c], now)
                       /\ company[c].billing = "PAST_DUE" => c \in doubtful \/ Unpaid(c)
      OBVIOUS
    <2>1. jobs[j] # Idle /\ jobs[j].step = "core"
      BY DEF WriteCore
    <2>2. Sees(j, c) /\ jobs[j].phase # 1
      BY <2>1, InvOfOne DEF Sees, TaskAgrees, Task
    <2> QED BY <2>2 DEF IInv, LooksAreRight, MarksAreRight
  <1> QED BY <1>1, BillingInvariant, PTL DEF Spec, TakenOnlyWhenForfeited
=============================================================================

--------------------------- MODULE CommercialBilling ---------------------------
(***************************************************************************)
(* Alta Commercial Pro: a company buys the plan or is granted it by an      *)
(* administrator, a job renews it month by month, marks what it cannot      *)
(* charge as past due and takes the plan away after a grace period, at a    *)
(* date the customer has scheduled, or when a grant expires.  Purchases and *)
(* renewals hold the lock of the company's row; every other write goes to   *)
(* the row as it is, after checks on a row that was read before.            *)
(* Time is counted in days, months have the same length.  Whether a charge  *)
(* goes through (funds, status of the account) is left open.                *)
(***************************************************************************)
EXTENDS Integers

CONSTANTS Companies,
          Jobs,        \* calls of runCommercialProBillingJob, by cron or by hand
          Desk,        \* requests of customers and administrators
          Month, Grace,
          Horizon,     \* the last day of the model (bounds time)
          MaxRequests, \* requests but cancellations (bounds how often they change their minds)
          MaxFaults    \* calls of the job or of the database that fail (bounds faults)

ASSUME BillingAssumption ==
          /\ Month \in Nat \ {0} /\ Grace \in Nat
          /\ Horizon \in Nat /\ MaxRequests \in Nat /\ MaxFaults \in Nat

VARIABLES now,
          company,     \* the plan and billing columns of Company
          begun,       \* history: the day on which the present subscription was bought
          charges,     \* history: how often it has been charged
          jobs, desk,
          stale,       \* history: companies a job has on its hands whose row has changed since
          doubtful,    \* history: companies marked past due by a job that was not up to date
          requests, faults

vars == <<now, company, begun, charges, jobs, desk, stale, doubtful,
          requests, faults>>

Never == -1
Date == Nat \cup {Never}

Row == [plan : {"CORE", "PRO"}, source : {"NONE", "PURCHASED", "ADMIN_GRANT"},
        billing : {"NOT_BILLED", "CURRENT", "PAST_DUE"},
        account : BOOLEAN,   \* commercialBillingAccountId is set
        next : Date,         \* commercialNextBillingAt
        pastDue : Date,      \* commercialPastDueAt
        expires : Date,      \* commercialProExpiresAt
        scheduled : Date]    \* commercialDowngradeScheduledAt

Core == [plan |-> "CORE", source |-> "NONE", billing |-> "NOT_BILLED", account |-> FALSE,
         next |-> Never, pastDue |-> Never, expires |-> Never, scheduled |-> Never]

\* What a job does one after the other, each for a list it reads when it gets there.
Phases == <<"due", "scheduled", "grace", "expired">>

Idle == [phase |-> 0]
Task == [phase : 1..4, now : Nat, todo : SUBSET Companies,
         step : {"next", "readPastDue", "markPastDue", "core"},
         on : Companies, pastDue : Date]

Request == [op : {"account", "schedule", "cancel", "downgrade", "grant"}, on : Companies,
            until : Date]    \* what it has computed from the row it has read
Done == [op |-> "none"]

TypeOK == /\ now \in Nat
          /\ company \in [Companies -> Row]
          /\ begun \in [Companies -> Nat] /\ charges \in [Companies -> Nat]
          /\ jobs \in [Jobs -> Task \cup {Idle}]
          /\ desk \in [Desk -> Request \cup {Done}]
          /\ stale \in [Jobs -> SUBSET Companies] /\ doubtful \subseteq Companies
          /\ requests \in Nat /\ faults \in Nat

Init == /\ now = 0
        /\ company = [c \in Companies |-> Core]
        /\ begun = [c \in Companies |-> 0]
        /\ charges = [c \in Companies |-> 0]
        /\ jobs = [j \in Jobs |-> Idle]
        /\ desk = [d \in Desk |-> Done]
        /\ stale = [j \in Jobs |-> {}] /\ doubtful = {}
        /\ requests = 0
        /\ faults = 0

-----------------------------------------------------------------------------
\* A company on the list of a job, or the one it is at.
Sees(j, c) == /\ jobs[j] # Idle
              /\ c \in jobs[j].todo \/ (jobs[j].step # "next" /\ jobs[j].on = c)

\* The jobs up to date about their own write are mine; what a job writes about a past
\* due company that it is not up to date about is doubtful until the company pays.
Write(c, row, mine) ==
    /\ company' = [company EXCEPT ![c] = row]
    /\ stale' = [j \in Jobs |-> IF j \notin mine /\ Sees(j, c) /\ row # company[c]
                                 THEN stale[j] \cup {c} ELSE stale[j]]
    /\ doubtful' = IF row.billing # "PAST_DUE" THEN doubtful \ {c}
                   ELSE IF \E j \in mine : c \in stale[j] THEN doubtful \cup {c}
                   ELSE doubtful

-----------------------------------------------------------------------------
(* purchaseCommercialPro: one transaction under the company's lock; a company
   that is on Pro is refused, or told of the purchase it has made. *)
Purchase(c) ==
    /\ company[c].plan # "PRO"
    /\ Write(c, [plan |-> "PRO", source |-> "PURCHASED", billing |-> "CURRENT", account |-> TRUE,
                 next |-> now + Month, pastDue |-> Never, expires |-> Never, scheduled |-> Never],
             {})
    /\ begun' = [begun EXCEPT ![c] = now]
    /\ charges' = [charges EXCEPT ![c] = 1]
    /\ UNCHANGED <<now, jobs, desk, requests, faults>>

PeriodEnd(row) == IF row.next # Never THEN row.next ELSE row.expires   \* resolvePeriodEndAt

\* resolveAdminGrantExpiresAt: a running grant is extended.
GrantExpires(row) ==
    IF row.plan = "PRO" /\ row.source = "ADMIN_GRANT" /\ row.expires > now
    THEN row.expires + Month ELSE now + Month

(* The other requests read the row, check that the company is on Pro (a grant
   does not) and later write what they have computed from what they have read. *)
BeginRequest(d, op, c) ==
    LET r == company[c] IN
    /\ desk[d] = Done
    /\ op # "cancel" => requests < MaxRequests
    /\ requests' = IF op = "cancel" THEN requests ELSE requests + 1
    /\ op # "grant" => r.plan = "PRO"
    /\ op = "schedule" => r.scheduled = Never /\ PeriodEnd(r) # Never
    /\ op = "cancel" => r.scheduled # Never
    /\ desk' = [desk EXCEPT ![d] =
                   [op |-> op, on |-> c,
                    until |-> CASE op = "schedule" -> PeriodEnd(r)
                                [] op = "grant" -> GrantExpires(r)
                                [] OTHER -> Never]]
    /\ UNCHANGED <<now, company, begun, charges, jobs, stale, doubtful, faults>>

\* Mutant: a grant leaves the columns of a purchase as they are.
GrantedOnTop(row, until) ==
    [row EXCEPT !.plan = "PRO", !.source = "ADMIN_GRANT", !.expires = until]

Granted(row, until) ==
    [Core EXCEPT !.plan = "PRO", !.source = "ADMIN_GRANT", !.expires = until]

\* What a request makes of the row as it is now.
Result(q, row) ==
    CASE q.op = "account"   -> [row EXCEPT !.account = TRUE]
      [] q.op = "schedule"  -> [row EXCEPT !.scheduled = q.until]
      [] q.op = "cancel"    -> [row EXCEPT !.scheduled = Never]
      [] q.op = "downgrade" -> Core
      [] q.op = "grant"     -> Granted(row, q.until)

FinishRequest(d) ==
    LET q == desk[d] IN
    /\ q # Done
    /\ Write(q.on, Result(q, company[q.on]), {})
    /\ desk' = [desk EXCEPT ![d] = Done]
    /\ UNCHANGED <<now, begun, charges, jobs, requests, faults>>

-----------------------------------------------------------------------------
(* The job: `now` is read once, and each list when its phase begins. *)

\* Mutant: the days of grace are not counted.
PastDueAtAll(row, t) == row.pastDue # Never

PastGrace(row, t) == row.pastDue # Never /\ (Grace = 0 \/ t >= row.pastDue + Grace)

Listed(phase, t) == {c \in Companies : LET r == company[c] IN
    /\ r.plan = "PRO"
    /\ CASE phase = "due" -> /\ r.next # Never /\ r.next <= t
                             /\ r.source # "ADMIN_GRANT"
                             /\ r.scheduled = Never
         [] phase = "scheduled" -> r.scheduled # Never /\ r.scheduled <= t
         [] phase = "grace" -> /\ r.billing = "PAST_DUE"
                               /\ r.scheduled = Never
                               /\ PastGrace(r, t)
         [] phase = "expired" -> /\ r.source = "ADMIN_GRANT"
                                 /\ r.expires # Never /\ r.expires <= t}

At(j, phase) == jobs[j] # Idle /\ jobs[j].step = "next" /\ Phases[jobs[j].phase] = phase
Goto(j, step) == jobs' = [jobs EXCEPT ![j].step = step]

StartJob(j) ==
    /\ jobs[j] = Idle
    /\ \E c \in Companies :
          jobs' = [jobs EXCEPT ![j] = [phase |-> 1, now |-> now, todo |-> Listed("due", now),
                                       step |-> "next", on |-> c, pastDue |-> Never]]
    /\ stale' = [stale EXCEPT ![j] = {}]
    /\ UNCHANGED <<now, company, begun, charges, desk, doubtful, requests, faults>>

\* Mutant: the job ends before it comes to the grants that have expired.
SkipExpired(j) ==
    LET k == jobs[j] IN
    /\ k # Idle /\ k.step = "next" /\ k.todo = {}
    /\ jobs' = [jobs EXCEPT ![j] =
                   IF k.phase = 3 THEN Idle
                   ELSE [k EXCEPT !.phase = @ + 1, !.todo = Listed(Phases[k.phase + 1], k.now)]]
    /\ stale' = [stale EXCEPT ![j] = {}]
    /\ UNCHANGED <<now, company, begun, charges, desk, doubtful, requests, faults>>

NextPhase(j) ==
    LET k == jobs[j] IN
    /\ k # Idle /\ k.step = "next" /\ k.todo = {}
    /\ jobs' = [jobs EXCEPT ![j] =
                   IF k.phase = 4 THEN Idle
                   ELSE [k EXCEPT !.phase = @ + 1, !.todo = Listed(Phases[k.phase + 1], k.now)]]
    /\ stale' = [stale EXCEPT ![j] = {}]
    /\ UNCHANGED <<now, company, begun, charges, desk, doubtful, requests, faults>>

\* The checks of renewCommercialProSubscription; a renewal that another job has
\* made is found out and is not an error.
Renewable(row) == /\ row.plan = "PRO" /\ row.scheduled = Never
                  /\ row.source # "ADMIN_GRANT" /\ row.account

\* Mutant: a renewal does not look at the date again.
NeverNotDue(row, t) == FALSE

NotDue(row, t) == row.next # Never /\ row.next > t

\* After a renewal the job goes on with its list or, when the audit entry or the message
\* to the customer fails, with the answer to an error: it takes the charge for refused.
AfterRenewal(j, c) ==
    \/ /\ jobs' = [jobs EXCEPT ![j].todo = @ \ {c}]
       /\ faults' = faults
    \/ /\ faults < MaxFaults
       /\ faults' = faults + 1
       /\ jobs' = [jobs EXCEPT ![j].todo = @ \ {c}, ![j].step = "readPastDue", ![j].on = c]

UpToDate(j) == IF jobs'[j].step = "next" THEN {j} ELSE {}

\* Mutant: the next month is counted from today.
RenewFromToday(j, c) ==
    LET r == company[c] IN
    /\ At(j, "due") /\ c \in jobs[j].todo
    /\ Renewable(r) /\ ~NotDue(r, jobs[j].now)
    /\ AfterRenewal(j, c)
    /\ Write(c, [r EXCEPT !.billing = "CURRENT", !.pastDue = Never, !.next = now + Month],
             UpToDate(j))
    /\ charges' = [charges EXCEPT ![c] = @ + 1]
    /\ UNCHANGED <<now, begun, desk, requests>>

Renew(j, c) ==
    LET r == company[c] IN
    /\ At(j, "due") /\ c \in jobs[j].todo
    /\ Renewable(r) /\ ~NotDue(r, jobs[j].now)
    /\ AfterRenewal(j, c)
    /\ Write(c, [r EXCEPT !.billing = "CURRENT", !.pastDue = Never, !.next = @ + Month],
             UpToDate(j))
    /\ charges' = [charges EXCEPT ![c] = @ + 1]
    /\ UNCHANGED <<now, begun, desk, requests>>

\* Another job has charged it since the list was read: nothing is left to do.
RenewReconciled(j, c) ==
    /\ At(j, "due") /\ c \in jobs[j].todo
    /\ Renewable(company[c]) /\ NotDue(company[c], jobs[j].now) /\ charges[c] > 1
    /\ jobs' = [jobs EXCEPT ![j].todo = @ \ {c}]
    /\ UNCHANGED <<now, company, begun, charges, desk, stale, doubtful, requests, faults>>

\* Mutant: a charge that is refused is only logged.
LogRefusal(j, c) ==
    /\ At(j, "due") /\ c \in jobs[j].todo
    /\ jobs' = [jobs EXCEPT ![j].todo = @ \ {c}]
    /\ UNCHANGED <<now, company, begun, charges, desk, stale, doubtful, requests, faults>>

\* Every other answer is an error: the company is no longer renewable, it is not
\* due and was never renewed, or (the row has been looked at again) the charge is refused.
RenewFails(j, c) ==
    LET r == company[c] IN
    /\ At(j, "due") /\ c \in jobs[j].todo
    /\ ~(Renewable(r) /\ NotDue(r, jobs[j].now) /\ charges[c] > 1)
    /\ jobs' = [jobs EXCEPT ![j].todo = @ \ {c}, ![j].step = "readPastDue", ![j].on = c]
    /\ stale' = IF Renewable(r) /\ ~NotDue(r, jobs[j].now)
                THEN [stale EXCEPT ![j] = @ \ {c}] ELSE stale
    /\ UNCHANGED <<now, company, begun, charges, desk, doubtful, requests, faults>>

(* markCommercialProPastDue: the date of the first failure is kept.  It is read
   first, and written without a further look at the company. *)
ReadPastDue(j) ==
    LET k == jobs[j] IN
    /\ k # Idle /\ k.step = "readPastDue"
    /\ LET first == company[k.on].pastDue IN
       jobs' = [jobs EXCEPT ![j].step = "markPastDue",
                            ![j].pastDue = IF first # Never THEN first ELSE k.now]
    /\ UNCHANGED <<now, company, begun, charges, desk, stale, doubtful, requests, faults>>

MarkPastDue(j) ==
    LET k == jobs[j] IN
    /\ k # Idle /\ k.step = "markPastDue"
    /\ Write(k.on, [company[k.on] EXCEPT !.billing = "PAST_DUE", !.pastDue = k.pastDue], {j})
    /\ Goto(j, "next")
    /\ UNCHANGED <<now, begun, charges, desk, requests, faults>>

(* downgradeCommercialProToCore: only the plan is looked at again.  What the
   company has beyond Core is cancelled before its row is written. *)
BeginDowngrade(j, c) ==
    LET k == jobs[j] IN
    /\ k # Idle /\ k.step = "next" /\ k.phase > 1 /\ c \in k.todo
    /\ jobs' = [jobs EXCEPT ![j].todo = @ \ {c}, ![j].on = c,
                            ![j].step = IF company[c].plan = "PRO" THEN "core" ELSE "next"]
    /\ UNCHANGED <<now, company, begun, charges, desk, stale, doubtful, requests, faults>>

WriteCore(j) ==
    LET k == jobs[j] IN
    /\ k # Idle /\ k.step = "core"
    /\ Write(k.on, Core, {j})
    /\ Goto(j, "next")
    /\ UNCHANGED <<now, begun, charges, desk, requests, faults>>

\* The process dies, or a downgrade throws: the rest of the job is not done.
CrashJob(j) ==
    /\ jobs[j] # Idle /\ faults < MaxFaults
    /\ faults' = faults + 1
    /\ jobs' = [jobs EXCEPT ![j] = Idle]
    /\ stale' = [stale EXCEPT ![j] = {}]
    /\ UNCHANGED <<now, company, begun, charges, desk, doubtful, requests>>

\* An error outside of the renewal: before it, or in the answer to one.  The loop passes
\* over the company.
PassOver(j) ==
    /\ jobs[j] # Idle /\ faults < MaxFaults
    /\ faults' = faults + 1
    /\ \/ \E c \in jobs[j].todo :
             At(j, "due") /\ jobs' = [jobs EXCEPT ![j].todo = @ \ {c}]
       \/ jobs[j].step \in {"readPastDue", "markPastDue"} /\ Goto(j, "next")
    /\ UNCHANGED <<now, company, begun, charges, desk, stale, doubtful, requests>>

Tick ==
    /\ now < Horizon
    /\ now' = now + 1
    /\ UNCHANGED <<company, begun, charges, jobs, desk, stale, doubtful, requests, faults>>

JobStep(j) == \/ NextPhase(j) \/ ReadPastDue(j) \/ MarkPastDue(j) \/ WriteCore(j)
              \/ \E c \in Companies : \/ Renew(j, c) \/ RenewReconciled(j, c)
                                     \/ RenewFails(j, c) \/ BeginDowngrade(j, c)

Next == \/ Tick
        \/ \E c \in Companies : Purchase(c)
        \/ \E d \in Desk : \/ FinishRequest(d)
                           \/ \E op \in {"account", "schedule", "cancel", "downgrade", "grant"},
                                 c \in Companies : BeginRequest(d, op, c)
        \/ \E j \in Jobs : StartJob(j) \/ JobStep(j) \/ PassOver(j) \/ CrashJob(j)

\* The cron calls the job day after day, and a call that is not lost gets through
\* its lists; days go by.
Fairness == /\ WF_vars(Tick)
            /\ \A j \in Jobs : WF_vars(StartJob(j)) /\ WF_vars(JobStep(j))

Spec == Init /\ [][Next]_vars
FairSpec == Spec /\ Fairness

-----------------------------------------------------------------------------
Subscriber(c) == company[c].plan = "PRO" /\ company[c].source = "PURCHASED"

(* A subscription is paid up to its next billing date, by one charge a month
   since it was bought: two jobs, a job that comes days late and requests in
   between neither charge a month twice nor give one away.  (The renewal takes
   the company's lock, reads the date again and counts on from the due date.) *)
PaidThrough == \A c \in Companies :
    Subscriber(c) => company[c].next = begun[c] + Month * charges[c]

(* Nobody is charged for a month before the month that was paid for is over. *)
NeverChargedAhead == \A c \in Companies : Subscriber(c) => company[c].next <= now + Month

(* Whoever has written last, the columns of a company tell one story: a
   subscription has a billing date and an account to charge and never expires,
   a grant expires and is never billed.  (Each of the requests writes all of
   these columns or none, so that blind writes leave no mixture.) *)
OneStory == \A c \in Companies : LET r == company[c] IN
    /\ Subscriber(c) => r.next # Never /\ r.account /\ r.expires = Never
    /\ r.plan = "PRO" /\ r.source # "PURCHASED" =>
          r.source = "ADMIN_GRANT" /\ r.next = Never /\ r.expires # Never

\* The company has no claim to Pro any more on the day t.
Forfeited(row, t) ==
    \/ row.scheduled # Never /\ row.scheduled <= t
    \/ row.billing = "PAST_DUE" /\ row.scheduled = Never /\ t >= row.pastDue + Grace
    \/ row.source = "ADMIN_GRANT" /\ row.expires <= t

\* The month that is running has not been charged.
Unpaid(c) == company[c].source = "PURCHASED" /\ company[c].next <= now

(* A job takes Pro only from a company whose row says that it has forfeited it, unless
   the row has changed since this job read its list; and where the row says so because
   the company is past due, a month is unpaid: a mark is wrong only if the job that has
   made it was not up to date, because somebody else had written the row in between or
   because it took an error after a renewal of its own for a refusal. *)
TakenOnlyWhenForfeited ==
    [][\A j \in Jobs, c \in Companies :
          WriteCore(j) /\ jobs[j].on = c /\ company[c].plan = "PRO" =>
             /\ c \in stale[j] \/ Forfeited(company[c], now)
             /\ company[c].billing = "PAST_DUE" => c \in doubtful \/ Unpaid(c)]_vars

\* What a job has read or computed lies in the past, and so does every first failure.
TimesAgree ==
    /\ \A c \in Companies : company[c].pastDue <= now
    /\ \A j \in Jobs : jobs[j] # Idle => jobs[j].now <= now /\ jobs[j].pastDue <= now

\* A grant on its way has a date on which it expires.
GrantsExpire == \A d \in Desk : desk[d] # Done /\ desk[d].op = "grant" => desk[d].until # Never

\* Charging is the work of the first phase, taking Pro away that of the others; the
\* company a job is at is not on its list any more.
StepsAgree == \A j \in Jobs : jobs[j] # Idle =>
    /\ jobs[j].step \in {"readPastDue", "markPastDue"} => jobs[j].phase = 1
    /\ jobs[j].step = "core" => jobs[j].phase > 1
    /\ jobs[j].step # "next" => jobs[j].on \notin jobs[j].todo

Owes(row, t) == /\ row.plan = "PRO" /\ row.source = "PURCHASED"
                /\ row.scheduled = Never /\ row.next <= t

\* What a job has on its hands is what it takes it for, as long as nobody changes the row:
\* a company that owes the month, or one that has forfeited Pro.
LooksAreRight == \A j \in Jobs, c \in Companies : Sees(j, c) /\ c \notin stale[j] =>
    IF jobs[j].phase = 1 THEN Owes(company[c], jobs[j].now)
    ELSE company[c].plan = "PRO" => Forfeited(company[c], now)

MarksAreRight == \A c \in Companies :
    company[c].plan = "PRO" /\ company[c].billing = "PAST_DUE" => c \in doubtful \/ Unpaid(c)

(* The inductive invariant: the types, the three invariants above, and what
   jobs and requests hold beside the rows. *)
IInv == /\ TypeOK /\ PaidThrough /\ NeverChargedAhead /\ OneStory
        /\ TimesAgree /\ GrantsExpire /\ StepsAgree /\ LooksAreRight /\ MarksAreRight

Overstays(c) == company[c].plan = "PRO" /\ Forfeited(company[c], now)

(* A company that has forfeited Pro does not keep it, unless it pays, cancels
   its downgrade or gets a grant: jobs that die half-way and jobs that overlap
   only put it off. *)
ForfeitedPlansEnd == \A c \in Companies : Overstays(c) ~> ~Overstays(c)

Unbilled(c) == /\ Subscriber(c) /\ company[c].billing = "CURRENT"
               /\ company[c].scheduled = Never /\ company[c].next <= now

(* A subscription whose month is over is charged, becomes past due, or ends. *)
DueSubscriptionsAreBilled == \A c \in Companies : Unbilled(c) ~> ~Unbilled(c)
=============================================================================

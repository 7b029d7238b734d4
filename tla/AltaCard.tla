------------------------------- MODULE AltaCard -------------------------------
(***************************************************************************)
(* One personal Alta Card: purchases, payments, corrections by operators,   *)
(* monthly statements, and the daily billing job that pays automatically,   *)
(* marks statements overdue, and charges late fees and interest.            *)
(* Only purchases lock the card's row.  Every other writer reads the card   *)
(* inside its transaction and writes back a balance computed from what it   *)
(* has read; the write takes the row's lock until the commit, so what comes *)
(* after it in the transaction is one step with it.                         *)
(* A month has three parts: the 1st, when statements are generated; the     *)
(* days up to the 15th, when the payment is due; the days after it.         *)
(* Statement n is that of month n - 1.  Bank accounts and the funds in them *)
(* are left out: an automatic payment may fail for any reason.              *)
(***************************************************************************)
EXTENDS Integers, Sequences

CONSTANTS Desk,        \* requests of the cardholder and of operators
          Job,         \* the daily billing job
          Amounts,     \* what is spent, paid and corrected
          Limit,       \* creditLimit
          LateFee,     \* ALTA_CARD_LATE_FEE_AMOUNT
          Interests,   \* what a month's interest may come to
          Horizon,     \* the last part of a month (bounds time)
          MaxRequests, \* bounds the requests
          MaxCrashes   \* bounds how often the job is lost half-way

ASSUME CardAssumption ==
          /\ Job \notin Desk
          /\ Amounts \subseteq Nat \ {0} /\ Interests \subseteq Nat \ {0}
          /\ Limit \in Nat /\ LateFee \in Nat \ {0}
          /\ Horizon \in Nat /\ MaxRequests \in Nat /\ MaxCrashes \in Nat

VARIABLES clock,
          card, stmts,
          unbilled,    \* by month, the sum of the rows that no statement has collected
          call,        \* transactions under way
          job,
          requests, crashes,
          rows,        \* history: the sum of all rows of the card
          cut,         \* history: what was credited beyond the balance
          lost,        \* history: what was overwritten
          inTime,      \* history: statements paid in full before they were past due
          raced        \* history: statements written by two at a time

books == <<rows, cut, lost>>
vars == <<clock, card, stmts, unbilled, call, job, requests, crashes, books, inTime, raced>>

Least(a, b) == IF a < b THEN a ELSE b
Floor0(x) == IF x < 0 THEN 0 ELSE x

Month == clock \div 3
Months == Horizon \div 3
StatementDay == clock % 3 = 0
DueDay(n) == clock >= 3 * n + 1    \* isStatementDueForAutopay
PastDue(n) == clock >= 3 * n + 2   \* dueDate < now

Unpaid == {"ISSUED", "PARTIALLY_PAID", "OVERDUE"}
Statement == [status : Unpaid \cup {"OPEN", "PAID"},
              billed : Nat, paid : Nat, remaining : Nat,
              fee : {"NONE", "ACTIVE", "PAID", "WAIVED"},
              interest : Nat]      \* how often; interestAppliedAt is set when not 0

Opened == [status |-> "OPEN", billed |-> 0, paid |-> 0, remaining |-> 0,
           fee |-> "NONE", interest |-> 0]

Payments == {"PAY", "CREDIT"}
Surcharges == {"FEE", "INTEREST"}
Call == [op : Payments \cup Surcharges \cup {"DEBIT", "WAIVE"}, read : BOOLEAN,
         on : Nat, amount : Nat \ {0},
         balance : Nat, available : Nat, seen : Statement]
None == [op |-> "none"]

Phases == {"idle", "autopay", "mark", "delinquent", "fees", "interest"}

TypeOK ==
    /\ clock \in 0 .. Horizon
    /\ card \in [status : {"ACTIVE", "FROZEN", "DELINQUENT"}, balance : Nat, available : Nat]
    /\ stmts \in Seq(Statement) /\ stmts # << >>
    /\ unbilled \in [0 .. Months -> Int]
    /\ call \in [Desk \cup {Job} -> Call \cup {None}]
    /\ job \in [phase : Phases, todo : SUBSET Nat, marked : SUBSET Nat, promote : BOOLEAN]
    /\ requests \in Nat /\ crashes \in Nat
    /\ rows \in Int /\ cut \in Nat /\ lost \in Int
    /\ inTime \subseteq Nat /\ raced \subseteq Nat

\* A card that has been activated in month 0: initializeBillingCycleForCard.
Init ==
    /\ clock = 0
    /\ card = [status |-> "ACTIVE", balance |-> 0, available |-> Limit]
    /\ stmts = <<Opened>>
    /\ unbilled = [m \in 0 .. Months |-> 0]
    /\ call = [p \in Desk \cup {Job} |-> None]
    /\ job = [phase |-> "idle", todo |-> {}, marked |-> {}, promote |-> FALSE]
    /\ requests = 0 /\ crashes = 0
    /\ rows = 0 /\ cut = 0 /\ lost = 0
    /\ inTime = {} /\ raced = {}

Tick ==
    /\ clock < Horizon
    /\ clock' = clock + 1
    /\ UNCHANGED <<card, stmts, unbilled, call, job, requests, crashes, books, inTime, raced>>

-----------------------------------------------------------------------------
\* The card with another balance: the available credit follows.
Owing(balance) == [card EXCEPT !.balance = balance, !.available = Floor0(Limit - balance)]

\* A row of the current month that the next statement will collect.
Post(amount) ==
    /\ rows' = rows + amount
    /\ unbilled' = [unbilled EXCEPT ![Month] = @ + amount]

Asked == requests < MaxRequests /\ requests' = requests + 1

\* chargeAltaCardInTransaction: the only operation that locks the card before it
\* reads it.
Purchase(amount) ==
    /\ Asked
    /\ card.status = "ACTIVE"
    /\ amount =< card.available
    /\ card' = Owing(card.balance + amount)
    /\ Post(amount)
    /\ UNCHANGED <<clock, stmts, call, job, crashes, cut, lost, inTime, raced>>

Freeze ==
    /\ Asked
    /\ card.status = "ACTIVE"
    /\ card' = [card EXCEPT !.status = "FROZEN"]
    /\ UNCHANGED <<clock, stmts, unbilled, call, job, crashes, books, inTime, raced>>

Unfreeze ==
    /\ card.status = "FROZEN"
    /\ card' = [card EXCEPT !.status = "ACTIVE"]
    /\ UNCHANGED <<clock, stmts, unbilled, call, job, requests, crashes, books, inTime, raced>>

-----------------------------------------------------------------------------
(* generateStatement closes the open period, by the scheduler on the 1st for an
   active card whose period has ended, or by an operator at any time.  It
   collects the rows of the period that have no statement and carries over what
   is left of the statement before.  It is one step here, although nothing is
   locked: what commits between its reads changes how much it bills. *)
Closable == stmts[Len(stmts)].status = "OPEN" /\ Len(stmts) =< Months

PreviousBalance ==
    LET n == Len(stmts) - 1 IN
    IF n = 0 THEN 0 ELSE IF stmts[n].status = "PAID" THEN 0 ELSE stmts[n].remaining

Issued(balance) == [Opened EXCEPT !.status = "ISSUED", !.billed = balance, !.remaining = balance]

GenerateStatement ==
    LET n == Len(stmts)
        balance == Floor0(PreviousBalance + unbilled[n - 1])
    IN  /\ Closable
        /\ stmts' = Append([stmts EXCEPT ![n] = Issued(balance)], Opened)
        /\ unbilled' = [unbilled EXCEPT ![n - 1] = 0]
        /\ UNCHANGED <<clock, card, call, job, crashes, books, inTime, raced>>

ScheduledStatement ==
    /\ StatementDay
    /\ card.status = "ACTIVE"
    /\ Len(stmts) =< Month
    /\ GenerateStatement
    /\ UNCHANGED requests

OperatorStatement == Asked /\ GenerateStatement

-----------------------------------------------------------------------------
Start(p, op, n, amount) ==
    /\ call[p] = None
    /\ call' = [call EXCEPT ![p] = [op |-> op, read |-> FALSE, on |-> n, amount |-> amount,
                                    balance |-> 0, available |-> 0, seen |-> Opened]]

Owed(n) == IF stmts[n].status \in Unpaid THEN Floor0(stmts[n].billed - stmts[n].paid) ELSE 0

\* submitCardPayment looks at the card before its transaction.
BeginPayment(p, amount) ==
    /\ card.balance > 0
    /\ Start(p, "PAY", 0, Least(amount, card.balance))

\* applyLateFeeForStatement and calculateStatementInterest, before the transaction.
FeeIsDue(n) == PastDue(n) /\ stmts[n].remaining > 0 /\ stmts[n].fee \notin {"ACTIVE", "PAID"}
\* Mutant: interest is charged on any statement on which something remains.
InterestBeforeDue(n) ==
    stmts[n].remaining > 0 /\ stmts[n].status \in Unpaid /\ stmts[n].interest = 0

\* Mutant: what remains of the statement is not looked at.
InterestOnNothing(n) == PastDue(n) /\ stmts[n].interest = 0

InterestIsDue(n) ==
    PastDue(n) /\ stmts[n].remaining > 0 /\ stmts[n].status \in Unpaid /\ stmts[n].interest = 0

RequestPayment(d, amount) ==
    /\ Asked
    /\ BeginPayment(d, amount)
    /\ UNCHANGED <<clock, card, stmts, unbilled, job, crashes, books, inTime, raced>>

RequestAdjustment(d, op, amount) ==
    /\ Asked
    /\ Start(d, op, 0, amount)
    /\ UNCHANGED <<clock, card, stmts, unbilled, job, crashes, books, inTime, raced>>

RequestInterest(d, n, amount) ==
    /\ Asked
    /\ InterestIsDue(n)
    /\ Start(d, "INTEREST", n, amount)
    /\ UNCHANGED <<clock, card, stmts, unbilled, job, crashes, books, inTime, raced>>

RequestWaiver(d, n) ==
    /\ Asked
    /\ stmts[n].fee = "ACTIVE"
    /\ Start(d, "WAIVE", n, LateFee)
    /\ UNCHANGED <<clock, card, stmts, unbilled, job, crashes, books, inTime, raced>>

-----------------------------------------------------------------------------
\* Mutant: a late fee and interest are charged without a look at the available credit.
AcceptedBeyondLimit(k, s) ==
    CASE k.op = "PAY" -> card.balance > 0
      [] k.op = "CREDIT" -> TRUE
      [] k.op = "DEBIT" -> k.amount =< card.available
      [] k.op = "FEE" -> s.fee \notin {"ACTIVE", "PAID"}
      [] k.op = "INTEREST" -> s.interest = 0
      [] k.op = "WAIVE" -> s.fee = "ACTIVE"

\* Mutant: the transaction does not look again whether interest has been charged.
AcceptedUnseen(k, s) ==
    CASE k.op = "PAY" -> card.balance > 0
      [] k.op = "CREDIT" -> TRUE
      [] k.op \in {"DEBIT", "INTEREST"} -> k.amount =< card.available
      [] k.op = "FEE" -> s.fee \notin {"ACTIVE", "PAID"} /\ k.amount =< card.available
      [] k.op = "WAIVE" -> s.fee = "ACTIVE"

\* What a transaction checks on what it reads; it is rolled back otherwise.
Accepted(k, s) ==
    CASE k.op = "PAY" -> card.balance > 0
      [] k.op = "CREDIT" -> TRUE
      [] k.op = "DEBIT" -> k.amount =< card.available
      [] k.op = "FEE" -> s.fee \notin {"ACTIVE", "PAID"} /\ k.amount =< card.available
      [] k.op = "INTEREST" -> s.interest = 0 /\ k.amount =< card.available
      [] k.op = "WAIVE" -> s.fee = "ACTIVE"

Read(p) ==
    LET k == call[p]
        s == IF k.on = 0 THEN Opened ELSE stmts[k.on]
    IN  /\ k # None /\ ~k.read
        /\ call' = [call EXCEPT ![p] =
              IF Accepted(k, s)
              THEN [k EXCEPT !.read = TRUE, !.balance = card.balance,
                             !.available = card.available, !.seen = s]
              ELSE None]
        /\ raced' = IF k.op \in Surcharges /\ s.remaining = 0 THEN raced \cup {k.on} ELSE raced
        /\ UNCHANGED <<clock, card, stmts, unbilled, job, requests, crashes, books, inTime>>

Ready(p, ops) == call[p] # None /\ call[p].op \in ops /\ call[p].read

Finish(p) == call' = [call EXCEPT ![p] = None]

\* The balance is written as it follows from the balance that was read.
Overwritten(p) == lost' = lost + call[p].balance - card.balance

Credited(p) == Least(call[p].amount, call[p].balance)

\* allocatePaymentToStatements for one statement.  Fees come first: any payment
\* settles an active fee.
Receive(s, amount) ==
    IF amount = 0 THEN s
    ELSE [s EXCEPT !.paid = @ + amount,
                   !.remaining = Floor0(s.billed - s.paid - amount),
                   !.status = IF s.billed - s.paid - amount =< 0 THEN "PAID" ELSE "PARTIALLY_PAID",
                   !.fee = IF @ = "ACTIVE" THEN "PAID" ELSE @]

\* maybeRestoreActiveFromDelinquency, after the allocation.
Restored(status) ==
    IF /\ status = "DELINQUENT"
       /\ ~ \E n \in DOMAIN stmts' : stmts'[n].status = "OVERDUE" /\ stmts'[n].remaining > 0
    THEN "ACTIVE" ELSE status

\* The rest of a payment: the full amount is recorded and goes to the oldest
\* unpaid statements; left[n] is what is left of it when statement n's turn comes.
CommitPayment(p) ==
    /\ Ready(p, {"PAY"})
    /\ \E left \in [1 .. Len(stmts) + 1 -> 0 .. call[p].amount] :
          /\ left[1] = call[p].amount
          /\ \A n \in 1 .. Len(stmts) : left[n + 1] = left[n] - Least(left[n], Owed(n))
          /\ stmts' = [n \in 1 .. Len(stmts) |-> Receive(stmts[n], left[n] - left[n + 1])]
          /\ inTime' = inTime \cup {n \in 1 .. Len(stmts) :
                          ~PastDue(n) /\ left[n] # left[n + 1] /\ stmts'[n].status = "PAID"}
    /\ card' = [Owing(call[p].balance - Credited(p)) EXCEPT !.status = Restored(@)]
    /\ Post(- call[p].amount)
    /\ cut' = cut + call[p].amount - Credited(p)
    /\ Overwritten(p)
    /\ Finish(p)
    /\ UNCHANGED <<clock, job, requests, crashes, raced>>

CommitAdjustment(p) ==
    /\ \/ /\ Ready(p, {"CREDIT"})
          /\ card' = Owing(call[p].balance - Credited(p))
          /\ Post(- call[p].amount)
          /\ cut' = cut + call[p].amount - Credited(p)
       \/ /\ Ready(p, {"DEBIT"})
          /\ card' = Owing(call[p].balance + call[p].amount)
          /\ Post(call[p].amount)
          /\ UNCHANGED cut
    /\ Overwritten(p)
    /\ Finish(p)
    /\ UNCHANGED <<clock, stmts, job, requests, crashes, inTime, raced>>

\* A late fee and interest write the statement as it follows from the statement
\* that was read, but for what has been paid on it.
Surcharged(s, k) ==
    [s EXCEPT !.billed = k.seen.billed + k.amount,
              !.remaining = k.seen.remaining + k.amount,
              !.status = IF k.op = "FEE" \/ k.seen.status \in Unpaid THEN "OVERDUE"
                         ELSE k.seen.status,
              !.fee = IF k.op = "FEE" THEN "ACTIVE" ELSE @,
              !.interest = IF k.op = "INTEREST" THEN @ + 1 ELSE @]

CommitSurcharge(p) ==
    LET k == call[p] IN
    /\ Ready(p, Surcharges)
    /\ card' = Owing(k.balance + k.amount)
    /\ stmts' = [stmts EXCEPT ![k.on] = Surcharged(@, k)]
    /\ raced' = IF stmts[k.on] # k.seen THEN raced \cup {k.on} ELSE raced
    /\ rows' = rows + k.amount
    /\ Overwritten(p)
    /\ Finish(p)
    /\ UNCHANGED <<clock, unbilled, job, requests, crashes, cut, inTime>>

Waived(s) == [s EXCEPT !.billed = Floor0(@ - LateFee), !.remaining = Floor0(@ - LateFee),
                       !.fee = "WAIVED"]

\* Mutant: the waiver credits the card without a row.
WaiveWithoutRow(p) ==
    LET n == call[p].on IN
    /\ Ready(p, {"WAIVE"})
    /\ card' = Owing(call[p].balance - Credited(p))
    /\ stmts' = [stmts EXCEPT ![n] = Waived(@)]
    /\ raced' = IF stmts[n] # call[p].seen THEN raced \cup {n} ELSE raced
    /\ cut' = cut + LateFee - Credited(p)
    /\ Overwritten(p)
    /\ Finish(p)
    /\ UNCHANGED <<clock, unbilled, rows, job, requests, crashes, inTime>>

\* waiveAltaCardFee reads the statement again after it has written the card.
CommitWaiver(p) ==
    LET n == call[p].on IN
    /\ Ready(p, {"WAIVE"})
    /\ card' = Owing(call[p].balance - Credited(p))
    /\ stmts' = [stmts EXCEPT ![n] = Waived(@)]
    /\ raced' = IF stmts[n] # call[p].seen THEN raced \cup {n} ELSE raced
    /\ rows' = rows - LateFee
    /\ cut' = cut + LateFee - Credited(p)
    /\ Overwritten(p)
    /\ Finish(p)
    /\ UNCHANGED <<clock, unbilled, job, requests, crashes, inTime>>

-----------------------------------------------------------------------------
(* processAltaCardBilling: its phases, each over a list that is read when the
   phase begins. *)
Oldest(ns) == {n \in ns : \A m \in ns : n =< m}

WithBalance(statuses) == {n \in DOMAIN stmts : stmts[n].status \in statuses /\ stmts[n].remaining > 0}

Late(statuses) == {n \in WithBalance(statuses) : PastDue(n)}

Enter(phase, todo) == job' = [job EXCEPT !.phase = phase, !.todo = todo]

\* Mutant: only statements on which nothing was paid are marked overdue.
MarkUntouched ==
    /\ job.todo = {} /\ ~job.promote /\ call[Job] = None
    /\ \/ job.phase = "idle" /\ Enter("autopay", {n \in Oldest(WithBalance(Unpaid)) : DueDay(n)})
       \/ /\ job.phase = "autopay"
          /\ LET late == Late({"ISSUED"})
             IN  job' = [job EXCEPT !.phase = "mark", !.todo = late, !.marked = late]
       \/ job.phase = "mark" /\ job' = [job EXCEPT !.phase = "delinquent", !.todo = job.marked, !.marked = {}]
       \/ job.phase = "delinquent" /\ Enter("fees", Late(Unpaid))
       \/ job.phase = "fees" /\ Enter("interest", {n \in Late(Unpaid) : stmts[n].interest = 0})
       \/ job.phase = "interest" /\ Enter("idle", {})
    /\ UNCHANGED <<clock, card, stmts, unbilled, call, requests, crashes, books, inTime, raced>>

NextPhase ==
    /\ job.todo = {} /\ ~job.promote /\ call[Job] = None
    /\ \/ job.phase = "idle" /\ Enter("autopay", {n \in Oldest(WithBalance(Unpaid)) : DueDay(n)})
       \/ /\ job.phase = "autopay"
          /\ LET late == Late({"ISSUED", "PARTIALLY_PAID"})
             IN  job' = [job EXCEPT !.phase = "mark", !.todo = late, !.marked = late]
       \/ job.phase = "mark" /\ job' = [job EXCEPT !.phase = "delinquent", !.todo = job.marked, !.marked = {}]
       \/ job.phase = "delinquent" /\ Enter("fees", Late(Unpaid))
       \/ job.phase = "fees" /\ Enter("interest", {n \in Late(Unpaid) : stmts[n].interest = 0})
       \/ job.phase = "interest" /\ Enter("idle", {})
    /\ UNCHANGED <<clock, card, stmts, unbilled, call, requests, crashes, books, inTime, raced>>

Tackle(n) == job' = [job EXCEPT !.todo = @ \ {n}]

\* runAutopayForCard pays the statement balance, a minimum or a fixed amount of
\* the oldest unpaid statement, or nothing.
Autopay(n) ==
    /\ job.phase = "autopay"
    /\ Tackle(n)
    /\ \/ UNCHANGED call
       \/ \E m \in Oldest(WithBalance(Unpaid)) :
             /\ DueDay(m) /\ Owed(m) > 0
             /\ \E amount \in Amounts \cup {Owed(m)} : BeginPayment(Job, Least(amount, Owed(m)))
    /\ UNCHANGED <<clock, card, stmts, unbilled, requests, crashes, books, inTime, raced>>

\* markOverdueStatements writes by identifier, whatever has been paid meanwhile.
MarkOverdue(n) ==
    /\ job.phase = "mark"
    /\ Tackle(n)
    /\ stmts' = [stmts EXCEPT ![n].status = "OVERDUE"]
    /\ raced' = IF stmts[n].remaining = 0 THEN raced \cup {n} ELSE raced
    /\ UNCHANGED <<clock, card, unbilled, call, requests, crashes, books, inTime>>

LookAtStatus ==
    /\ job.phase = "delinquent" /\ job.todo # {}
    /\ job' = [job EXCEPT !.todo = {}, !.promote = card.status = "ACTIVE"]
    /\ UNCHANGED <<clock, card, stmts, unbilled, call, requests, crashes, books, inTime, raced>>

MarkDelinquent ==
    /\ job.promote
    /\ card' = [card EXCEPT !.status = "DELINQUENT"]
    /\ job' = [job EXCEPT !.promote = FALSE]
    /\ UNCHANGED <<clock, stmts, unbilled, call, requests, crashes, books, inTime, raced>>

ChargeStatement(n) ==
    /\ call[Job] = None
    /\ n \in Oldest(job.todo)
    /\ Tackle(n)
    /\ \/ job.phase = "fees" /\ FeeIsDue(n) /\ Start(Job, "FEE", n, LateFee)
       \/ job.phase = "fees" /\ ~FeeIsDue(n) /\ UNCHANGED call
       \/ /\ job.phase = "interest" /\ InterestIsDue(n)
          /\ \E amount \in Interests : Start(Job, "INTEREST", n, amount)
       \/ job.phase = "interest" /\ ~InterestIsDue(n) /\ UNCHANGED call
    /\ UNCHANGED <<clock, card, stmts, unbilled, requests, crashes, books, inTime, raced>>

Crash ==
    /\ job.phase # "idle"
    /\ crashes < MaxCrashes
    /\ crashes' = crashes + 1
    /\ job' = [job EXCEPT !.phase = "idle", !.todo = {}, !.marked = {}, !.promote = FALSE]
    /\ call' = [call EXCEPT ![Job] = None]
    /\ UNCHANGED <<clock, card, stmts, unbilled, requests, books, inTime, raced>>

-----------------------------------------------------------------------------
Transaction(p) ==
    Read(p) \/ CommitPayment(p) \/ CommitAdjustment(p) \/ CommitSurcharge(p) \/ CommitWaiver(p)

Request(d) ==
    \/ \E amount \in Amounts : RequestPayment(d, amount)
    \/ \E amount \in Amounts, op \in {"CREDIT", "DEBIT"} : RequestAdjustment(d, op, amount)
    \/ \E n \in DOMAIN stmts : RequestWaiver(d, n)
    \/ \E n \in DOMAIN stmts, amount \in Interests : RequestInterest(d, n, amount)

JobStep ==
    \/ NextPhase \/ LookAtStatus \/ MarkDelinquent
    \/ \E n \in job.todo : Autopay(n) \/ MarkOverdue(n) \/ ChargeStatement(n)
    \/ Transaction(Job)

Next ==
    \/ Tick \/ Freeze \/ Unfreeze \/ ScheduledStatement \/ OperatorStatement
    \/ \E amount \in Amounts : Purchase(amount)
    \/ \E d \in Desk : Request(d) \/ Transaction(d)
    \/ JobStep \/ Crash

Spec == Init /\ [][Next]_vars

\* The job is called every day; it is started again after it has ended or was lost.
FairSpec == Spec /\ WF_vars(JobStep)

-----------------------------------------------------------------------------
(* The card never owes more than its limit, and what is left of the limit is
   available, although payments, fees, interest, waivers and corrections write
   balances they have computed from a card they did not lock, over one another
   (alta-card-transaction.service.ts:398-552). *)
WithinLimit == card.balance + card.available = Limit

(* The balance is the sum of the card's rows, but for credits that were larger
   than the balance they met and for balances that were overwritten. *)
BalanceIsItsRows == card.balance = rows + cut + lost

(* A statement that was never written by two at a time adds up: what remains is
   what was billed less what was paid, no more is paid than was billed, it is
   PAID only when nothing remains, and it has borne interest once at most
   (docs/banking/alta-card.md:341 and 353). *)
StatementsAddUp ==
    \A n \in DOMAIN stmts \ raced :
       LET s == stmts[n] IN
       /\ s.paid + s.remaining = s.billed
       /\ s.status = "PAID" => s.remaining = 0
       /\ s.interest =< 1

(* Who pays the whole statement by its due date pays neither a late fee nor
   interest on it, whatever the job and the operators do at the same time
   (docs/banking/alta-card.md:350). *)
PaidInTimeIsFree ==
    \A n \in inTime : stmts[n].status = "PAID" /\ stmts[n].fee = "NONE" /\ stmts[n].interest = 0

(* A statement that is past due is marked overdue unless nothing is left to pay,
   although the job may be lost half-way and every small payment takes the mark
   away again. *)
DueStatementsAreNoticed ==
    \A n \in 1 .. (Horizon - 2) \div 3 :   \* those that are past due at the end
       n \in Late(Unpaid) ~> /\ n \in DOMAIN stmts
                             /\ stmts[n].status = "OVERDUE" \/ stmts[n].remaining = 0

-----------------------------------------------------------------------------
(* The inductive invariant. *)

\* A balance that will be written stays within the limit.
CallIsCovered(k) ==
    k.read => /\ k.balance + k.available = Limit
              /\ k.op \in Surcharges \cup {"DEBIT"} => k.amount =< k.available

\* Fees, interest and waivers are for statements that are past due and were not
\* paid in time; what they have read of the statement still holds or is marked.
CallIsLate(k) ==
    IF k.op \notin Surcharges \cup {"WAIVE"} THEN k.on = 0
    ELSE /\ k.on \in DOMAIN stmts \ inTime
         /\ stmts[k.on].status # "OPEN"
         /\ PastDue(k.on)
         /\ k.op # "INTEREST" => k.amount = LateFee
         /\ k.read => k.seen.status # "OPEN"
         /\ k.read /\ k.op \in Surcharges /\ k.seen.remaining = 0 => k.on \in raced
         /\ k.read /\ k.op = "INTEREST" => k.seen.interest = 0
         /\ k.read /\ k.op = "WAIVE" => k.seen.fee = "ACTIVE"

CallsAreRight ==
    \A p \in DOMAIN call : call[p] # None => CallIsCovered(call[p]) /\ CallIsLate(call[p])

JobIsLate ==
    job.phase \in {"mark", "fees", "interest"} =>
       \A n \in job.todo : /\ n \in DOMAIN stmts \ inTime
                           /\ stmts[n].status # "OPEN"
                           /\ PastDue(n)

StatementsAreInOrder ==
    /\ inTime \subseteq DOMAIN stmts
    /\ \A n \in DOMAIN stmts :
          /\ stmts[n].status = "OPEN" => stmts[n] = Opened
          /\ stmts[n].fee # "NONE" \/ stmts[n].interest # 0 => PastDue(n)
          /\ n \in inTime => stmts[n].remaining = 0
          /\ n \notin raced /\ stmts[n].fee = "ACTIVE" => stmts[n].remaining >= LateFee

IInv == /\ TypeOK /\ WithinLimit /\ BalanceIsItsRows /\ StatementsAddUp /\ PaidInTimeIsFree
        /\ CallsAreRight /\ JobIsLate /\ StatementsAreInOrder
=============================================================================

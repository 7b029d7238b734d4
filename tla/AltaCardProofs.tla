--------------------------- MODULE AltaCardProofs ---------------------------
(***************************************************************************)
(* Proofs about AltaCard: its inductive invariant, for any limit, fee,      *)
(* interest, number of months, cardholders and operators, and lost jobs.    *)
(* Frame says once what every step must respect: time and marks only grow,  *)
(* what is past due does not become paid in time, a closed period does not  *)
(* open.  Each action is then an argument about the card and the statements *)
(* that it writes.                                                          *)
(***************************************************************************)
EXTENDS AltaCard, TLAPS

People == Desk \cup {Job}

\* What IInv says of one statement.
StatementIsRight(n, s) ==
    /\ s \in Statement
    /\ n \notin raced => /\ s.paid + s.remaining = s.billed
                         /\ s.status = "PAID" => s.remaining = 0
                         /\ s.interest =< 1
                         /\ s.fee = "ACTIVE" => s.remaining >= LateFee
    /\ n \in inTime => s.status = "PAID" /\ s.fee = "NONE" /\ s.interest = 0 /\ s.remaining = 0
    /\ s.status = "OPEN" => s = Opened
    /\ s.fee # "NONE" \/ s.interest # 0 => PastDue(n)

CallIsRight(k) == k \in Call /\ CallIsCovered(k) /\ CallIsLate(k)

\* What JobIsLate says of one statement.
TakenUp(n) == n \in DOMAIN stmts \ inTime /\ stmts[n].status # "OPEN" /\ PastDue(n)

CardRow == [status : {"ACTIVE", "FROZEN", "DELINQUENT"}, balance : Nat, available : Nat]
JobRow == [phase : Phases, todo : SUBSET Nat, marked : SUBSET Nat, promote : BOOLEAN]

LEMMA OpenedIsStatement == Opened \in Statement
  BY DEF Opened, Statement, Unpaid

LEMMA StatementIsRecord ==
  ASSUME NEW s \in Statement
  PROVE /\ s.status \in Unpaid \cup {"OPEN", "PAID"}
        /\ s.billed \in Nat /\ s.paid \in Nat /\ s.remaining \in Nat /\ s.interest \in Nat
        /\ s.fee \in {"NONE", "ACTIVE", "PAID", "WAIVED"}
  BY DEF Statement

LEMMA CallIsRecord ==
  ASSUME NEW k \in Call
  PROVE /\ k.op \in {"PAY", "CREDIT", "FEE", "INTEREST", "DEBIT", "WAIVE"}
        /\ k.read \in BOOLEAN
        /\ k.on \in Nat /\ k.amount \in Nat /\ k.amount > 0
        /\ k.balance \in Nat /\ k.available \in Nat /\ k.seen \in Statement
        /\ k # None
  <1>1. None.op = "none"
    BY DEF None
  <1>2. k.op \in {"PAY", "CREDIT", "FEE", "INTEREST", "DEBIT", "WAIVE"}
    BY DEF Call, Payments, Surcharges
  <1> QED BY <1>1, <1>2 DEF Call

LEMMA CardIsRecord ==
  ASSUME NEW c \in CardRow
  PROVE /\ c.status \in {"ACTIVE", "FROZEN", "DELINQUENT"}
        /\ c.balance \in Nat /\ c.available \in Nat
  BY DEF CardRow

LEMMA JobIsRecord ==
  ASSUME NEW j \in JobRow
  PROVE /\ j.phase \in Phases /\ j.todo \in SUBSET Nat /\ j.marked \in SUBSET Nat
        /\ j.promote \in BOOLEAN
  BY DEF JobRow

LEMMA MonthsAreNat == Months \in Nat
  BY CardAssumption DEF Months

-----------------------------------------------------------------------------
\* IInv, of one statement, one call and the list of the job.
LEMMA InvOfOne ==
  ASSUME IInv
  PROVE /\ \A n \in DOMAIN stmts : StatementIsRight(n, stmts[n]) /\ n \in Nat /\ n > 0
        /\ \A p \in People : call[p] # None => CallIsRight(call[p])
        /\ job.phase \in {"mark", "fees", "interest"} => \A n \in job.todo : TakenUp(n)
  <1>1. \A n \in DOMAIN stmts : stmts[n] \in Statement /\ n \in Nat /\ n > 0
    BY DEF IInv, TypeOK
  <1>2. ASSUME NEW n \in DOMAIN stmts
        PROVE StatementIsRight(n, stmts[n])
    BY <1>1, <1>2 DEF IInv, StatementsAddUp, PaidInTimeIsFree, StatementsAreInOrder, StatementIsRight
  <1>3. ASSUME NEW p \in People, call[p] # None
        PROVE CallIsRight(call[p])
    <2>1. DOMAIN call = People /\ call[p] \in Call
      BY <1>3 DEF IInv, TypeOK, People
    <2> QED BY <1>3, <2>1 DEF IInv, CallsAreRight, CallIsRight
  <1>4. job.phase \in {"mark", "fees", "interest"} => \A n \in job.todo : TakenUp(n)
    BY DEF IInv, JobIsLate, TakenUp
  <1> QED BY <1>1, <1>2, <1>3, <1>4

\* A statement that a step leaves alone.
LEMMA StatementStays ==
  ASSUME NEW n, NEW s, StatementIsRight(n, s), n \in Nat, clock \in Nat, clock' \in Nat,
         clock' >= clock, raced \subseteq raced', n \in inTime' => n \in inTime
  PROVE StatementIsRight(n, s)'
  <1>1. PastDue(n) => PastDue(n)'
    BY DEF PastDue
  <1> QED BY <1>1 DEF StatementIsRight

LEMMA Frame ==
  ASSUME IInv, CardAssumption,
         clock' \in 0 .. Horizon, clock' >= clock,
         card' \in CardRow, WithinLimit', BalanceIsItsRows',
         rows' \in Int, cut' \in Nat, lost' \in Int,
         unbilled' \in [0 .. Months -> Int], requests' \in Nat, crashes' \in Nat,
         stmts' \in Seq(Statement), DOMAIN stmts \subseteq DOMAIN stmts',
         raced \subseteq raced', raced' \subseteq Nat,
         inTime' \subseteq DOMAIN stmts',
         \A n \in inTime' : n \in inTime \/ ~PastDue(n),
         \A n \in DOMAIN stmts : stmts[n].status # "OPEN" => stmts'[n].status # "OPEN",
         \A n \in DOMAIN stmts' : StatementIsRight(n, stmts[n])',
         call' \in [People -> Call \cup {None}],
         \A p \in People : \/ call'[p] \in {None, call[p]}
                           \/ CallIsRight(call'[p]) \/ CallIsRight(call[p])',
         job' \in JobRow,
         job'.phase \in {"mark", "fees", "interest"} => \A n \in job'.todo : TakenUp(n)
  PROVE IInv'
  <1> USE CardAssumption
  <1>0. clock \in Nat /\ clock' \in Nat /\ Horizon \in Nat
    BY DEF IInv, TypeOK
  <1>1. ASSUME NEW n \in Nat, PastDue(n)
        PROVE PastDue(n)'
    BY <1>0, <1>1 DEF PastDue
  <1>2. ASSUME NEW n, TakenUp(n)
        PROVE TakenUp(n)'
    <2>1. n \in Nat
      BY <1>2, InvOfOne DEF TakenUp
    <2>2. n \notin inTime'
      BY <1>2 DEF TakenUp
    <2> QED BY <1>1, <1>2, <2>1, <2>2 DEF TakenUp
  <1>3. ASSUME NEW k \in Call, CallIsRight(k)
        PROVE CallIsRight(k)'
    <2>1. k.op \notin Surcharges \cup {"WAIVE"} \/ TakenUp(k.on)
      BY <1>3 DEF CallIsRight, CallIsLate, TakenUp
    <2>2. k.op \notin Surcharges \cup {"WAIVE"} \/ TakenUp(k.on)'
      BY <1>2, <2>1
    <2>3. CallIsLate(k)'
      BY <1>3, <2>2 DEF CallIsRight, CallIsLate, TakenUp
    <2> QED BY <1>3, <2>3 DEF CallIsRight, CallIsCovered
  <1>4. ASSUME NEW p \in People, call'[p] # None
        PROVE CallIsRight(call[p])'
    <2>1. call'[p] \in Call
      BY <1>4
    <2>2. CallIsRight(call'[p]) \/ CallIsRight(call[p])'
      BY <1>4, InvOfOne
    <2>3. CASE CallIsRight(call'[p])
      <3>1. PICK k \in Call : k = call'[p] /\ CallIsRight(k)
        BY <2>1, <2>3
      <3>2. CallIsRight(k)'
        BY <1>3, <3>1
      <3> QED BY <3>1, <3>2
    <2> QED BY <2>2, <2>3
  <1>5. CallsAreRight'
    BY <1>4 DEF CallsAreRight, CallIsRight
  <1>6. JobIsLate'
    BY <1>2 DEF JobIsLate, TakenUp
  <1>7. StatementsAddUp' /\ PaidInTimeIsFree' /\ StatementsAreInOrder'
    BY DEF StatementsAddUp, PaidInTimeIsFree, StatementsAreInOrder, StatementIsRight
  <1>8. TypeOK'
    <2>1. stmts' # << >>
      BY DEF IInv, TypeOK
    <2>2. inTime' \subseteq Nat
      OBVIOUS
    <2> QED BY <2>1, <2>2 DEF TypeOK, People, CardRow, JobRow
  <1> QED BY <1>5, <1>6, <1>7, <1>8 DEF IInv

-----------------------------------------------------------------------------
LEMMA Types ==
  ASSUME IInv
  PROVE /\ clock \in 0 .. Horizon /\ clock \in Nat
        /\ card \in CardRow /\ WithinLimit /\ BalanceIsItsRows
        /\ stmts \in Seq(Statement) /\ stmts # << >>
        /\ unbilled \in [0 .. Months -> Int]
        /\ call \in [People -> Call \cup {None}]
        /\ job \in JobRow
        /\ requests \in Nat /\ crashes \in Nat
        /\ rows \in Int /\ cut \in Nat /\ lost \in Int
        /\ inTime \subseteq DOMAIN stmts /\ raced \subseteq Nat
  BY CardAssumption DEF IInv, TypeOK, CardRow, JobRow, People, StatementsAreInOrder

\* A step that writes one call.
LEMMA CallMoves ==
  ASSUME IInv, NEW p \in People, NEW k, call' = [call EXCEPT ![p] = k],
         k = None \/ CallIsRight(k)
  PROVE /\ call' \in [People -> Call \cup {None}]
        /\ \A q \in People : call'[q] \in {None, call[q]} \/ CallIsRight(call'[q])
  <1>1. call \in [People -> Call \cup {None}]
    BY Types
  <1>2. k \in Call \cup {None}
    BY DEF CallIsRight
  <1> QED BY <1>1, <1>2

\* A step that leaves the statements alone.
LEMMA CardFrame ==
  ASSUME IInv, UNCHANGED <<clock, stmts, inTime, raced>>,
         card' \in CardRow, WithinLimit', BalanceIsItsRows',
         rows' \in Int, cut' \in Nat, lost' \in Int,
         unbilled' \in [0 .. Months -> Int], requests' \in Nat, crashes' \in Nat,
         call' \in [People -> Call \cup {None}],
         \A p \in People : call'[p] \in {None, call[p]} \/ CallIsRight(call'[p]),
         job' \in JobRow,
         job'.phase \in {"mark", "fees", "interest"} => \A n \in job'.todo : TakenUp(n)
  PROVE IInv'
  <1>1. \A n \in DOMAIN stmts' : StatementIsRight(n, stmts[n])'
    BY InvOfOne DEF StatementIsRight, PastDue
  <1>2. clock' = clock /\ clock \in Nat /\ clock \in 0 .. Horizon
    BY Types
  <1>3. clock' >= clock /\ clock' \in 0 .. Horizon
    BY <1>2
  <1> QED BY <1>1, <1>3, Frame, Types, CardAssumption

\* A step that writes one statement.
LEMMA StatementFrame ==
  ASSUME IInv, UNCHANGED <<clock, inTime>>,
         NEW n \in DOMAIN stmts, NEW s, stmts' = [stmts EXCEPT ![n] = s],
         raced \subseteq raced', raced' \subseteq Nat,
         StatementIsRight(n, s)', s.status # "OPEN",
         card' \in CardRow, WithinLimit', BalanceIsItsRows',
         rows' \in Int, cut' \in Nat, lost' \in Int,
         UNCHANGED <<unbilled, requests, crashes>>,
         call' \in [People -> Call \cup {None}],
         \A p \in People : call'[p] \in {None, call[p]} \/ CallIsRight(call'[p]),
         job' \in JobRow,
         job'.phase \in {"mark", "fees", "interest"} => \A m \in job'.todo : TakenUp(m)
  PROVE IInv'
  <1>0. clock' = clock /\ clock \in Nat /\ clock \in 0 .. Horizon
    BY Types
  <1>1. s \in Statement
    BY DEF StatementIsRight
  <1>2. stmts' \in Seq(Statement) /\ DOMAIN stmts' = DOMAIN stmts
    BY <1>1, Types
  <1>3. ASSUME NEW m \in DOMAIN stmts'
        PROVE StatementIsRight(m, stmts[m])'
    <2>1. CASE m = n
      <3>1. stmts'[m] = s
        BY <1>2, <1>3, <2>1, Types
      <3> QED BY <2>1, <3>1
    <2>2. CASE m # n
      <3>1. stmts'[m] = stmts[m]
        BY <1>2, <1>3, <2>2, Types
      <3>2. StatementIsRight(m, stmts[m]) /\ m \in Nat
        BY <1>2, <1>3, InvOfOne
      <3>3. clock \in Nat /\ clock' \in Nat /\ clock' >= clock
        BY <1>0
      <3> QED BY <3>1, <3>2, <3>3, StatementStays
    <2> QED BY <2>1, <2>2
  <1>4. \A m \in DOMAIN stmts : stmts[m].status # "OPEN" => stmts'[m].status # "OPEN"
    BY Types
  <1>5. clock' >= clock /\ clock' \in 0 .. Horizon
    BY <1>0
  <1> QED BY <1>2, <1>3, <1>4, <1>5, Frame, Types, CardAssumption

\* A balance within the limit.
LEMMA OwingIsRight ==
  ASSUME IInv, NEW balance \in Nat, balance =< Limit
  PROVE /\ Owing(balance) \in CardRow
        /\ Owing(balance).balance = balance
        /\ Owing(balance).available = Limit - balance
        /\ Owing(balance).status = card.status
  <1>1. card \in [status : {"ACTIVE", "FROZEN", "DELINQUENT"}, balance : Nat, available : Nat]
    BY DEF IInv, TypeOK
  <1>2. Floor0(Limit - balance) = Limit - balance /\ Limit - balance \in Nat
    BY CardAssumption DEF Floor0
  <1> QED BY <1>1, <1>2 DEF Owing, CardRow

\* A row that the next statement collects.
LEMMA PostIsRight ==
  ASSUME IInv, NEW amount \in Int, Post(amount)
  PROVE rows' = rows + amount /\ rows' \in Int /\ unbilled' \in [0 .. Months -> Int]
  <1>1. rows \in Int /\ unbilled \in [0 .. Months -> Int]
    BY Types
  <1>2. rows' = rows + amount /\ unbilled' = [unbilled EXCEPT ![Month] = unbilled[Month] + amount]
    BY DEF Post
  <1>3. ASSUME NEW m \in 0 .. Months
        PROVE unbilled'[m] \in Int
    BY <1>1, <1>2
  <1>4. unbilled' \in [0 .. Months -> Int]
    BY <1>1, <1>2, <1>3
  <1> QED BY <1>1, <1>2, <1>4

-----------------------------------------------------------------------------
LEMMA InitIsRight == Init => IInv
  <1> SUFFICES ASSUME Init PROVE IInv
    OBVIOUS
  <1> USE CardAssumption DEF Init
  <1>1. stmts \in Seq(Statement) /\ stmts # << >> /\ DOMAIN stmts = {1}
    BY OpenedIsStatement
  <1>2. TypeOK
    <2>1. unbilled \in [0 .. Months -> Int]
      BY MonthsAreNat
    <2>2. call \in [Desk \cup {Job} -> Call \cup {None}]
      OBVIOUS
    <2> QED BY <1>1, <2>1, <2>2 DEF TypeOK, Phases
  <1>3. stmts[1] = Opened
    OBVIOUS
  <1>4. StatementsAddUp /\ PaidInTimeIsFree /\ StatementsAreInOrder
    BY <1>1, <1>3 DEF StatementsAddUp, PaidInTimeIsFree, StatementsAreInOrder, Opened
  <1>5. WithinLimit /\ BalanceIsItsRows /\ CallsAreRight /\ JobIsLate
    BY DEF WithinLimit, BalanceIsItsRows, CallsAreRight, JobIsLate
  <1> QED BY <1>2, <1>4, <1>5 DEF IInv

LEMMA TickKeeps == IInv /\ Tick => IInv'
  <1> SUFFICES ASSUME IInv, Tick PROVE IInv'
    OBVIOUS
  <1> USE DEF Tick
  <1>0. clock \in Nat /\ Horizon \in Nat /\ clock < Horizon /\ clock' = clock + 1
    BY Types, CardAssumption
  <1>1. clock' >= clock /\ clock' \in 0 .. Horizon /\ clock \in Nat /\ clock' \in Nat
    BY <1>0
  <1>2. \A n \in DOMAIN stmts' : StatementIsRight(n, stmts[n])'
    BY <1>1, InvOfOne, StatementStays
  <1>3. WithinLimit' /\ BalanceIsItsRows'
    BY Types DEF WithinLimit, BalanceIsItsRows, books
  <1> QED BY <1>1, <1>2, <1>3, Frame, Types, InvOfOne, CardAssumption DEF books

LEMMA PostedAddsUp ==
  ASSUME NEW r \in Int, NEW c \in Int, NEW l \in Int, NEW amount \in Int
  PROVE (r + c + l) + amount = (r + amount) + c + l
  OBVIOUS

LEMMA PurchaseKeeps ==
  ASSUME IInv, NEW amount \in Amounts, Purchase(amount)
  PROVE IInv'
  <1> USE DEF Purchase
  <1>1. amount \in Nat /\ amount =< card.available
    BY CardAssumption
  <1>2. card.balance \in Nat /\ card.available \in Nat /\ card.balance + card.available = Limit
    BY Types, CardIsRecord DEF WithinLimit
  <1>3. card.balance + amount \in Nat /\ card.balance + amount =< Limit
    BY <1>1, <1>2, CardAssumption
  <1>4. /\ card' \in CardRow /\ card'.balance = card.balance + amount
        /\ card'.available = Limit - card'.balance
    BY <1>3, OwingIsRight
  <1>5. rows' = rows + amount /\ rows' \in Int /\ unbilled' \in [0 .. Months -> Int]
    BY <1>1, PostIsRight
  <1>6. WithinLimit'
    BY <1>3, <1>4, CardAssumption DEF WithinLimit
  <1>7. BalanceIsItsRows'
    <2>1. /\ rows \in Int /\ cut \in Int /\ lost \in Int /\ amount \in Int
          /\ card.balance = rows + cut + lost
      BY <1>1, Types DEF BalanceIsItsRows
    <2>2. card'.balance = rows' + cut' + lost'
      BY <1>4, <1>5, <2>1, PostedAddsUp
    <2> QED BY <2>2 DEF BalanceIsItsRows
  <1>8. requests' \in Nat
    BY Types DEF Asked
  <1> QED BY <1>4, <1>5, <1>6, <1>7, <1>8, CardFrame, Types, InvOfOne

\* A step that writes the status of the card only.
LEMMA StatusMoves ==
  ASSUME IInv, NEW status \in {"ACTIVE", "FROZEN", "DELINQUENT"},
         card' = [card EXCEPT !.status = status],
         requests' \in Nat, job' \in JobRow,
         job'.phase \in {"mark", "fees", "interest"} => \A n \in job'.todo : TakenUp(n),
         UNCHANGED <<clock, stmts, unbilled, call, crashes, books, inTime, raced>>
  PROVE IInv'
  <1>1. card' \in CardRow /\ card'.balance = card.balance /\ card'.available = card.available
    BY Types DEF CardRow
  <1>2. WithinLimit' /\ BalanceIsItsRows'
    BY <1>1, Types DEF WithinLimit, BalanceIsItsRows, books
  <1> QED BY <1>1, <1>2, CardFrame, Types, InvOfOne DEF books

LEMMA FreezeKeeps == IInv /\ (Freeze \/ Unfreeze) => IInv'
  <1> SUFFICES ASSUME IInv, Freeze \/ Unfreeze PROVE IInv'
    OBVIOUS
  <1>1. requests' \in Nat /\ job' \in JobRow
    BY Types DEF Freeze, Unfreeze, Asked
  <1> QED BY <1>1, StatusMoves, InvOfOne DEF Freeze, Unfreeze

-----------------------------------------------------------------------------
\* The last element is written and another one appended.
LEMMA LastIsClosed ==
  ASSUME NEW S, NEW q \in Seq(S), q # << >>, NEW s \in S, NEW o \in S, NEW n, n = Len(q)
  PROVE LET r == Append([q EXCEPT ![n] = s], o)
        IN  /\ n \in Nat /\ n > 0 /\ DOMAIN q = 1 .. n
            /\ r \in Seq(S) /\ DOMAIN r = 1 .. (n + 1)
            /\ r[n] = s /\ r[n + 1] = o
            /\ \A m \in 1 .. n : m # n => r[m] = q[m]
  <1>1. n \in Nat /\ n > 0 /\ DOMAIN q = 1 .. n
    OBVIOUS
  <1> DEFINE c == [q EXCEPT ![n] = s]
  <1>2. c \in Seq(S) /\ Len(c) = n /\ c[n] = s /\ \A m \in 1 .. n : m # n => c[m] = q[m]
    BY <1>1
  <1> HIDE DEF c
  <1> DEFINE r == Append(c, o)
  <1>3. r \in Seq(S) /\ Len(r) = n + 1
    BY <1>2
  <1>4. DOMAIN r = 1 .. (n + 1)
    BY <1>1, <1>3
  <1>5. r[n + 1] = o /\ \A m \in 1 .. n : r[m] = c[m]
    BY <1>1, <1>2
  <1>6. r[n] = s /\ \A m \in 1 .. n : m # n => r[m] = q[m]
    BY <1>1, <1>2, <1>5
  <1> QED BY <1>1, <1>3, <1>4, <1>5, <1>6 DEF c

\* What is left of the statement before the open one.
LEMMA PreviousIsNat ==
  ASSUME IInv
  PROVE PreviousBalance \in Nat
  <1> DEFINE m == Len(stmts) - 1
  <1>0. Len(stmts) \in Nat /\ Len(stmts) > 0 /\ DOMAIN stmts = 1 .. Len(stmts)
    BY Types
  <1>1. m = 0 \/ m \in DOMAIN stmts
    BY <1>0
  <1> HIDE DEF m
  <1>2. m = 0 \/ stmts[m].remaining \in Nat
    BY <1>1, InvOfOne, StatementIsRecord DEF StatementIsRight
  <1> QED BY <1>2 DEF PreviousBalance, m

LEMMA IssuedIsRight ==
  ASSUME NEW owed \in Nat
  PROVE LET s == Issued(owed)
        IN  /\ s \in Statement /\ s.paid = 0 /\ s.remaining = s.billed /\ s.billed \in Nat
            /\ s.status = "ISSUED" /\ s.fee = "NONE" /\ s.interest = 0
  BY DEF Issued, Opened, Statement, Unpaid

\* A new statement has nothing paid on it, no fee and no interest.
LEMMA GenerateKeeps ==
  ASSUME IInv, GenerateStatement, requests' \in Nat
  PROVE IInv'
  <1>1. PICK n \in Nat, owed \in Nat :
           /\ n = Len(stmts) /\ n > 0 /\ stmts[n].status = "OPEN"
           /\ stmts' = Append([stmts EXCEPT ![n] = Issued(owed)], Opened)
           /\ unbilled' = [unbilled EXCEPT ![n - 1] = 0]
    <2> DEFINE n == Len(stmts)
    <2> DEFINE owed == PreviousBalance + unbilled[n - 1]
    <2>0. stmts[n].status = "OPEN" /\ n =< Months
      BY DEF GenerateStatement, Closable
    <2>1. n \in Nat /\ n > 0 /\ n =< Months /\ stmts[n].status = "OPEN"
      BY <2>0, Types
    <2>2. n - 1 \in 0 .. Months
      BY <2>1, MonthsAreNat
    <2>3. owed \in Int
      BY <2>2, PreviousIsNat, Types
    <2>4. Floor0(owed) \in Nat
      BY <2>3 DEF Floor0
    <2> QED BY <2>1, <2>4 DEF GenerateStatement
  <1>2. UNCHANGED <<clock, card, call, job, crashes, books, inTime, raced>>
    BY DEF GenerateStatement
  <1>3. PICK s \in Statement :
           /\ s = Issued(owed) /\ s.paid = 0 /\ s.remaining = s.billed /\ s.billed \in Nat
           /\ s.status = "ISSUED" /\ s.fee = "NONE" /\ s.interest = 0
    BY IssuedIsRight
  <1>4. stmts' = Append([stmts EXCEPT ![n] = s], Opened)
    BY <1>1, <1>3
  <1>5. /\ DOMAIN stmts = 1 .. n
        /\ stmts' \in Seq(Statement) /\ DOMAIN stmts' = 1 .. (n + 1)
        /\ stmts'[n] = s /\ stmts'[n + 1] = Opened
        /\ \A m \in 1 .. n : m # n => stmts'[m] = stmts[m]
    BY <1>1, <1>4, LastIsClosed, OpenedIsStatement, Types
  <1>6. n \in DOMAIN stmts
    BY <1>1, <1>5
  <1>7. n \notin inTime
    BY <1>1, <1>6, InvOfOne DEF StatementIsRight
  <1>8. n + 1 \notin inTime
    BY <1>5, Types
  <1>9. clock' = clock /\ clock \in Nat /\ clock \in 0 .. Horizon
    BY <1>2, Types
  <1>10. clock' >= clock /\ clock' \in Nat /\ clock' \in 0 .. Horizon
    BY <1>9
  <1>11. StatementIsRight(n, stmts[n])'
    BY <1>2, <1>3, <1>5, <1>7 DEF StatementIsRight
  <1>12. StatementIsRight(n + 1, stmts[n + 1])'
    <2>1. /\ Opened.paid = 0 /\ Opened.billed = 0 /\ Opened.remaining = 0 /\ Opened.interest = 0
          /\ Opened.status = "OPEN" /\ Opened.fee = "NONE"
      BY DEF Opened
    <2> QED BY <1>2, <1>5, <1>8, <2>1, OpenedIsStatement DEF StatementIsRight
  <1>13. ASSUME NEW m \in 1 .. n, m # n
         PROVE StatementIsRight(m, stmts[m])'
    <2>1. StatementIsRight(m, stmts[m]) /\ m \in Nat
      BY <1>5, InvOfOne
    <2>3. stmts'[m] = stmts[m]
      BY <1>5, <1>13
    <2> QED BY <1>2, <1>9, <1>10, <2>1, <2>3, StatementStays
  <1>14. \A m \in DOMAIN stmts' : StatementIsRight(m, stmts[m])'
    <2>1. \A m \in DOMAIN stmts' : m = n \/ m = n + 1 \/ (m \in 1 .. n /\ m # n)
      BY <1>5
    <2> QED BY <1>11, <1>12, <1>13, <2>1
  <1>15. \A m \in DOMAIN stmts : stmts[m].status # "OPEN" => stmts'[m].status # "OPEN"
    BY <1>1, <1>5
  <1>16. unbilled' \in [0 .. Months -> Int]
    <2>1. unbilled \in [0 .. Months -> Int] /\ unbilled' = [unbilled EXCEPT ![n - 1] = 0]
      BY <1>1, Types
    <2>2. \A m \in 0 .. Months : unbilled'[m] \in Int
      BY <2>1
    <2> QED BY <2>1, <2>2
  <1>17. DOMAIN stmts \subseteq DOMAIN stmts'
    BY <1>5
  <1>18. inTime' \subseteq DOMAIN stmts'
    BY <1>2, <1>17, Types
  <1>19. WithinLimit' /\ BalanceIsItsRows'
    BY <1>2, Types DEF WithinLimit, BalanceIsItsRows, books
  <1> QED BY <1>2, <1>5, <1>10, <1>14, <1>15, <1>16, <1>17, <1>18, <1>19, Frame, Types, InvOfOne,
             CardAssumption DEF books

LEMMA StatementsKeep == IInv /\ (ScheduledStatement \/ OperatorStatement) => IInv'
  <1> SUFFICES ASSUME IInv, ScheduledStatement \/ OperatorStatement PROVE IInv'
    OBVIOUS
  <1>1. requests' \in Nat
    BY Types DEF ScheduledStatement, OperatorStatement, Asked
  <1> QED BY <1>1, GenerateKeeps DEF ScheduledStatement, OperatorStatement

-----------------------------------------------------------------------------
Begun(op, n, amount) ==
    [op |-> op, read |-> FALSE, on |-> n, amount |-> amount,
     balance |-> 0, available |-> 0, seen |-> Opened]

LEMMA BegunIsRight ==
  ASSUME NEW op \in {"PAY", "CREDIT", "FEE", "INTEREST", "DEBIT", "WAIVE"},
         NEW n \in Nat, NEW amount \in Nat \ {0},
         op \in {"PAY", "CREDIT", "DEBIT"} => n = 0,
         op \in {"FEE", "INTEREST", "WAIVE"} => TakenUp(n),
         op \in {"FEE", "WAIVE"} => amount = LateFee
  PROVE CallIsRight(Begun(op, n, amount))
  <1> DEFINE k == Begun(op, n, amount)
  <1>1. k.op = op /\ k.read = FALSE /\ k.on = n /\ k.amount = amount
    BY DEF Begun
  <1>2. k \in Call
    BY OpenedIsStatement DEF Begun, Call, Payments, Surcharges
  <1> HIDE DEF k
  <1>3. CallIsCovered(k)
    BY <1>1 DEF CallIsCovered
  <1>4. CallIsLate(k)
    BY <1>1 DEF CallIsLate, TakenUp, Surcharges
  <1> QED BY <1>2, <1>3, <1>4 DEF CallIsRight, k

\* A step that writes one call, and perhaps the list of the job.
LEMMA CallFrame ==
  ASSUME IInv, NEW p \in People, NEW k, call' = [call EXCEPT ![p] = k],
         k = None \/ CallIsRight(k),
         UNCHANGED <<clock, card, stmts, unbilled, crashes, books, inTime, raced>>,
         requests' \in Nat, job' \in JobRow,
         job'.phase \in {"mark", "fees", "interest"} => \A n \in job'.todo : TakenUp(n)
  PROVE IInv'
  <1>1. WithinLimit' /\ BalanceIsItsRows'
    BY Types DEF WithinLimit, BalanceIsItsRows, books
  <1>2. /\ call' \in [People -> Call \cup {None}]
        /\ \A q \in People : call'[q] \in {None, call[q]} \/ CallIsRight(call'[q])
    BY CallMoves
  <1> QED BY <1>1, <1>2, CardFrame, Types DEF books

\* What is past due and not paid was not paid in time.
LEMMA LateIsTakenUp ==
  ASSUME IInv, NEW n \in DOMAIN stmts, PastDue(n), stmts[n].remaining > 0 \/ stmts[n].fee = "ACTIVE",
         stmts[n].status # "OPEN" \/ stmts[n].fee = "ACTIVE"
  PROVE TakenUp(n)
  <1>1. StatementIsRight(n, stmts[n])
    BY InvOfOne
  <1>2. stmts[n].fee = "ACTIVE" => stmts[n].status # "OPEN"
    BY <1>1 DEF StatementIsRight, Opened
  <1>3. n \notin inTime
    BY <1>1 DEF StatementIsRight
  <1> QED BY <1>2, <1>3 DEF TakenUp

\* A payment that begins.
LEMMA PaymentBegins ==
  ASSUME IInv, NEW p \in People, NEW amount \in Nat \ {0}, BeginPayment(p, amount),
         UNCHANGED <<clock, card, stmts, unbilled, crashes, books, inTime, raced>>,
         requests' \in Nat, job' \in JobRow,
         job'.phase \in {"mark", "fees", "interest"} => \A n \in job'.todo : TakenUp(n)
  PROVE IInv'
  <1> DEFINE paid == Least(amount, card.balance)
  <1>1. card.balance \in Nat /\ card.balance > 0
    BY Types, CardIsRecord DEF BeginPayment
  <1>2. paid \in Nat \ {0}
    BY <1>1 DEF Least
  <1>3. call' = [call EXCEPT ![p] = Begun("PAY", 0, paid)]
    BY DEF BeginPayment, Start, Begun
  <1> HIDE DEF paid
  <1>4. CallIsRight(Begun("PAY", 0, paid))
    BY <1>2, BegunIsRight
  <1> QED BY <1>3, <1>4, CallFrame

LEMMA RequestKeeps ==
  ASSUME IInv, NEW d \in Desk, Request(d)
  PROVE IInv'
  <1> USE CardAssumption
  <1>0. d \in People
    BY DEF People
  <1>1. ASSUME Asked PROVE requests' \in Nat
    BY <1>1, Types DEF Asked
  <1>2. ASSUME NEW amount \in Amounts, RequestPayment(d, amount) PROVE IInv'
    <2>1. amount \in Nat \ {0}
      OBVIOUS
    <2> QED BY <1>0, <1>1, <1>2, <2>1, PaymentBegins, Types, InvOfOne DEF RequestPayment
  <1>3. ASSUME NEW amount \in Amounts, NEW op \in {"CREDIT", "DEBIT"}, RequestAdjustment(d, op, amount)
        PROVE IInv'
    <2>1. amount \in Nat \ {0}
      OBVIOUS
    <2>2. CallIsRight(Begun(op, 0, amount))
      BY <2>1, BegunIsRight
    <2>3. call' = [call EXCEPT ![d] = Begun(op, 0, amount)]
      BY <1>3 DEF RequestAdjustment, Start, Begun
    <2> QED BY <1>0, <1>1, <1>3, <2>2, <2>3, CallFrame, Types, InvOfOne DEF RequestAdjustment
  <1>4. ASSUME NEW n \in DOMAIN stmts, RequestWaiver(d, n) PROVE IInv'
    <2>1. stmts[n].fee = "ACTIVE" /\ n \in Nat /\ PastDue(n)
      BY <1>4, InvOfOne DEF RequestWaiver, StatementIsRight
    <2>2. TakenUp(n)
      BY <2>1, LateIsTakenUp
    <2>3. CallIsRight(Begun("WAIVE", n, LateFee))
      BY <2>1, <2>2, BegunIsRight
    <2>4. call' = [call EXCEPT ![d] = Begun("WAIVE", n, LateFee)]
      BY <1>4 DEF RequestWaiver, Start, Begun
    <2> QED BY <1>0, <1>1, <1>4, <2>3, <2>4, CallFrame, Types, InvOfOne DEF RequestWaiver
  <1>5. ASSUME NEW n \in DOMAIN stmts, NEW amount \in Interests, RequestInterest(d, n, amount) PROVE IInv'
    <2>1. amount \in Nat \ {0} /\ n \in Nat
      BY InvOfOne
    <2>2. TakenUp(n)
      BY <1>5, LateIsTakenUp DEF RequestInterest, InterestIsDue, Unpaid
    <2>3. CallIsRight(Begun("INTEREST", n, amount))
      BY <2>1, <2>2, BegunIsRight
    <2>4. call' = [call EXCEPT ![d] = Begun("INTEREST", n, amount)]
      BY <1>5 DEF RequestInterest, Start, Begun
    <2> QED BY <1>0, <1>1, <1>5, <2>3, <2>4, CallFrame, Types, InvOfOne DEF RequestInterest
  <1> QED BY <1>2, <1>3, <1>4, <1>5 DEF Request

-----------------------------------------------------------------------------
\* What a transaction has read covers what it will write.
LEMMA ReadKeeps ==
  ASSUME IInv, NEW p \in People, Read(p)
  PROVE IInv'
  <1>1. PICK k \in Call : k = call[p] /\ CallIsRight(k) /\ k.read = FALSE
    BY InvOfOne, CallIsRecord DEF Read, CallIsRight
  <1>2. PICK s \in Statement :
           /\ s = IF k.on = 0 THEN Opened ELSE stmts[k.on]
           /\ k.op \in Surcharges \cup {"WAIVE"} => s = stmts[k.on] /\ TakenUp(k.on)
    <2>1. CASE k.op \in Surcharges \cup {"WAIVE"}
      <3>1. TakenUp(k.on)
        BY <1>1, <2>1 DEF CallIsRight, CallIsLate, TakenUp
      <3>2. k.on # 0 /\ stmts[k.on] \in Statement
        BY <3>1, InvOfOne DEF TakenUp, StatementIsRight
      <3> QED BY <3>1, <3>2
    <2>2. CASE k.op \notin Surcharges \cup {"WAIVE"}
      BY <1>1, <2>2, OpenedIsStatement DEF CallIsRight, CallIsLate
    <2> QED BY <2>1, <2>2
  <1>3. UNCHANGED <<clock, card, stmts, unbilled, job, requests, crashes, books, inTime>>
    BY DEF Read
  <1>4. raced' = IF k.op \in Surcharges /\ s.remaining = 0 THEN raced \cup {k.on} ELSE raced
    BY <1>1, <1>2 DEF Read
  <1>5. raced \subseteq raced' /\ raced' \subseteq Nat
    BY <1>4, CallIsRecord, Types
  <1>6. card.balance \in Nat /\ card.available \in Nat
    BY Types, CardIsRecord
  <1>7. PICK seen \in Call :
           /\ call' = [call EXCEPT ![p] = IF Accepted(k, s) THEN seen ELSE None]
           /\ seen.op = k.op /\ seen.on = k.on /\ seen.amount = k.amount /\ seen.read = TRUE
           /\ seen.balance = card.balance /\ seen.available = card.available /\ seen.seen = s
    <2> DEFINE seen == [k EXCEPT !.read = TRUE, !.balance = card.balance,
                                 !.available = card.available, !.seen = s]
    <2>1. call' = [call EXCEPT ![p] = IF Accepted(k, s) THEN seen ELSE None]
      BY <1>1, <1>2 DEF Read
    <2>2. /\ seen \in Call
          /\ seen.op = k.op /\ seen.on = k.on /\ seen.amount = k.amount /\ seen.read = TRUE
          /\ seen.balance = card.balance /\ seen.available = card.available /\ seen.seen = s
      BY <1>6 DEF Call
    <2> HIDE DEF seen
    <2> QED BY <2>1, <2>2
  <1>9. ASSUME Accepted(k, s)
        PROVE CallIsRight(seen)'
    <2>1. k.op \in Surcharges \cup {"DEBIT"} => k.amount =< card.available
      BY <1>9 DEF Accepted, Surcharges
    <2>2. CallIsCovered(seen)
      BY <1>7, <2>1, Types DEF CallIsCovered, WithinLimit
    <2>3. CASE k.op \notin Surcharges \cup {"WAIVE"}
      <3>1. CallIsLate(seen)'
        BY <1>1, <1>7, <2>3 DEF CallIsRight, CallIsLate
      <3> QED BY <1>7, <2>2, <3>1 DEF CallIsRight, CallIsCovered
    <2>4. CASE k.op \in Surcharges \cup {"WAIVE"}
      <3>1. TakenUp(k.on) /\ s = stmts[k.on]
        BY <1>2, <2>4
      <3>2. /\ k.on \in DOMAIN stmts' \ inTime' /\ stmts'[k.on].status # "OPEN" /\ PastDue(k.on)'
            /\ s.status # "OPEN"
        BY <1>3, <3>1 DEF TakenUp, PastDue
      <3>3. k.op # "INTEREST" => k.amount = LateFee
        BY <1>1, <2>4 DEF CallIsRight, CallIsLate
      <3>4. k.op \in Surcharges /\ s.remaining = 0 => k.on \in raced'
        BY <1>4
      <3>5. k.op = "INTEREST" => s.interest = 0
        BY <1>9 DEF Accepted
      <3>6. k.op = "WAIVE" => s.fee = "ACTIVE"
        BY <1>9 DEF Accepted
      <3>7. CallIsLate(seen)'
        BY <1>7, <2>4, <3>2, <3>3, <3>4, <3>5, <3>6 DEF CallIsLate
      <3> QED BY <1>7, <2>2, <3>7 DEF CallIsRight, CallIsCovered
    <2> QED BY <2>3, <2>4
  <1>10. /\ call' \in [People -> Call \cup {None}]
         /\ \A q \in People : call'[q] \in {None, call[q]} \/ (Accepted(k, s) /\ call'[q] = seen)
    BY <1>7, Types
  <1>11. \A q \in People : call'[q] \in {None, call[q]} \/ CallIsRight(call[q])'
    <2>1. ASSUME NEW q \in People, Accepted(k, s), call'[q] = seen
          PROVE CallIsRight(call[q])'
      BY <1>9, <2>1
    <2> QED BY <1>10, <2>1
  <1>12. clock' = clock /\ clock \in Nat /\ clock \in 0 .. Horizon
    BY <1>3, Types
  <1>13. clock' >= clock /\ clock' \in Nat /\ clock' \in 0 .. Horizon
    BY <1>12
  <1>14. \A n \in DOMAIN stmts' : StatementIsRight(n, stmts[n])'
    BY <1>3, <1>5, <1>12, <1>13, InvOfOne, StatementStays
  <1>15. WithinLimit' /\ BalanceIsItsRows'
    BY <1>3, Types DEF WithinLimit, BalanceIsItsRows, books
  <1> QED BY <1>3, <1>5, <1>10, <1>11, <1>13, <1>14, <1>15, Frame, Types, InvOfOne, CardAssumption
          DEF books

-----------------------------------------------------------------------------
LEMMA BooksAddUp ==
  ASSUME NEW r1 \in Int, NEW c1 \in Int, NEW l1 \in Int, NEW r2 \in Int, NEW c2 \in Int,
         NEW seen \in Int, NEW owed \in Int, NEW delta \in Int,
         r2 + c2 = r1 + c1 + delta, owed = r1 + c1 + l1
  PROVE l1 + seen - owed \in Int /\ r2 + c2 + (l1 + seen - owed) = seen + delta
  OBVIOUS

LEMMA CreditedAddsUp ==
  ASSUME NEW r \in Int, NEW c \in Nat, NEW amount \in Nat, NEW credited \in Nat, credited =< amount
  PROVE /\ c + amount - credited \in Nat
        /\ (r - amount) + (c + amount - credited) = r + c + (- credited)
  OBVIOUS

\* The card and the books after a transaction that changes the balance it has read.
LEMMA BalanceIsWritten ==
  ASSUME IInv, NEW p \in People, call[p] # None, NEW delta \in Int,
         call[p].balance + delta \in Nat, call[p].balance + delta =< Limit,
         rows' + cut' = rows + cut + delta, rows' \in Int, cut' \in Nat,
         card'.balance = call[p].balance + delta, card'.available = Limit - card'.balance,
         Overwritten(p), Finish(p)
  PROVE /\ WithinLimit' /\ BalanceIsItsRows' /\ lost' \in Int
        /\ call' \in [People -> Call \cup {None}]
        /\ \A q \in People : call'[q] \in {None, call[q]} \/ CallIsRight(call'[q])
  <1>1. call[p].balance \in Nat /\ card.balance \in Nat
    BY InvOfOne, Types, CallIsRecord, CardIsRecord DEF CallIsRight
  <1>2. rows \in Int /\ cut \in Nat /\ lost \in Int /\ card.balance = rows + cut + lost
    BY Types DEF BalanceIsItsRows
  <1>3. lost' = lost + call[p].balance - card.balance
    BY DEF Overwritten
  <1>4. WithinLimit'
    <2>1. card'.balance \in Nat /\ Limit \in Nat /\ card'.available = Limit - card'.balance
      BY CardAssumption
    <2> QED BY <2>1 DEF WithinLimit
  <1>5. lost' \in Int /\ rows' + cut' + lost' = call[p].balance + delta
    <2>1. PICK seen \in Int, owed \in Int : seen = call[p].balance /\ owed = card.balance
      BY <1>1
    <2>2. PICK r1 \in Int, c1 \in Int, l1 \in Int, r2 \in Int, c2 \in Int :
             r1 = rows /\ c1 = cut /\ l1 = lost /\ r2 = rows' /\ c2 = cut'
      BY <1>2
    <2>3. r2 + c2 = r1 + c1 + delta /\ owed = r1 + c1 + l1
      BY <1>2, <2>1, <2>2
    <2>4. l1 + seen - owed \in Int /\ r2 + c2 + (l1 + seen - owed) = seen + delta
      BY <2>3, BooksAddUp
    <2>5. lost' = l1 + seen - owed
      BY <1>3, <2>1, <2>2
    <2> QED BY <2>1, <2>2, <2>4, <2>5
  <1>6. BalanceIsItsRows'
    BY <1>5 DEF BalanceIsItsRows
  <1>7. call' = [call EXCEPT ![p] = None]
    BY DEF Finish
  <1> QED BY <1>4, <1>5, <1>6, <1>7, CallMoves

\* What is credited is at most the balance that was read.
LEMMA CreditIsRight ==
  ASSUME IInv, NEW p \in People, call[p] # None, call[p].read
  PROVE /\ Credited(p) \in Nat /\ Credited(p) =< call[p].amount /\ call[p].amount \in Nat
        /\ call[p].balance - Credited(p) \in Nat /\ call[p].balance - Credited(p) =< Limit
  <1>1. CallIsRight(call[p])
    BY InvOfOne
  <1>2. /\ call[p].amount \in Nat /\ call[p].balance \in Nat /\ call[p].available \in Nat
        /\ call[p].balance + call[p].available = Limit
    BY <1>1, CallIsRecord DEF CallIsRight, CallIsCovered
  <1> QED BY <1>2, CardAssumption DEF Credited, Least

LEMMA AdjustmentKeeps ==
  ASSUME IInv, NEW p \in People, CommitAdjustment(p)
  PROVE IInv'
  <1>1. call[p] # None /\ call[p].read
    BY DEF CommitAdjustment, Ready
  <1>2. /\ UNCHANGED <<clock, stmts, job, requests, crashes, inTime, raced>>
        /\ Overwritten(p) /\ Finish(p)
    BY DEF CommitAdjustment
  <1>3. rows \in Int /\ cut \in Nat
    BY Types
  <1>4. CASE /\ card' = Owing(call[p].balance - Credited(p))
             /\ Post(- call[p].amount)
             /\ cut' = cut + call[p].amount - Credited(p)
    <2>1. /\ Credited(p) \in Nat /\ Credited(p) =< call[p].amount /\ call[p].amount \in Nat
          /\ call[p].balance - Credited(p) \in Nat /\ call[p].balance - Credited(p) =< Limit
      BY <1>1, CreditIsRight
    <2>2. /\ card' \in CardRow /\ card'.balance = call[p].balance - Credited(p)
          /\ card'.available = Limit - card'.balance
      BY <1>4, <2>1, OwingIsRight
    <2>3. - call[p].amount \in Int
      BY <2>1
    <2>4. rows' = rows - call[p].amount /\ rows' \in Int /\ unbilled' \in [0 .. Months -> Int]
      BY <1>3, <1>4, <2>1, <2>3, PostIsRight
    <2>5. cut' \in Nat /\ rows' + cut' = rows + cut + (- Credited(p))
      <3>1. cut' = cut + call[p].amount - Credited(p) /\ rows' = rows - call[p].amount
        BY <1>4, <2>4
      <3> QED BY <1>3, <2>1, <3>1, CreditedAddsUp
    <2>6. /\ call[p].balance \in Nat
          /\ call[p].balance + (- Credited(p)) = call[p].balance - Credited(p)
          /\ - Credited(p) \in Int
      BY <1>1, <2>1, InvOfOne, CallIsRecord DEF CallIsRight
    <2>7. /\ WithinLimit' /\ BalanceIsItsRows' /\ lost' \in Int
          /\ call' \in [People -> Call \cup {None}]
          /\ \A q \in People : call'[q] \in {None, call[q]} \/ CallIsRight(call'[q])
      BY <1>1, <1>2, <2>1, <2>2, <2>4, <2>5, <2>6, BalanceIsWritten
    <2> QED BY <1>2, <2>2, <2>4, <2>5, <2>7, CardFrame, Types, InvOfOne
  <1>5. CASE /\ call[p].op = "DEBIT"
             /\ card' = Owing(call[p].balance + call[p].amount)
             /\ Post(call[p].amount)
             /\ UNCHANGED cut
    <2>1. CallIsRight(call[p])
      BY <1>1, InvOfOne
    <2>2. /\ call[p].amount \in Nat /\ call[p].balance \in Nat /\ call[p].available \in Nat
          /\ call[p].balance + call[p].available = Limit
          /\ call[p].amount =< call[p].available
      BY <1>1, <1>5, <2>1, CallIsRecord DEF CallIsRight, CallIsCovered
    <2>3. call[p].balance + call[p].amount \in Nat /\ call[p].balance + call[p].amount =< Limit
      BY <2>2, CardAssumption
    <2>4. /\ card' \in CardRow /\ card'.balance = call[p].balance + call[p].amount
          /\ card'.available = Limit - card'.balance
      BY <1>5, <2>3, OwingIsRight
    <2>5. call[p].amount \in Int
      BY <2>2
    <2>6. rows' = rows + call[p].amount /\ rows' \in Int /\ unbilled' \in [0 .. Months -> Int]
      BY <1>5, <2>5, PostIsRight
    <2>7. cut' \in Nat /\ rows' + cut' = rows + cut + call[p].amount
      BY <1>3, <1>5, <2>2, <2>6
    <2>8. /\ WithinLimit' /\ BalanceIsItsRows' /\ lost' \in Int
          /\ call' \in [People -> Call \cup {None}]
          /\ \A q \in People : call'[q] \in {None, call[q]} \/ CallIsRight(call'[q])
      BY <1>1, <1>2, <2>3, <2>4, <2>5, <2>6, <2>7, BalanceIsWritten
    <2> QED BY <1>2, <2>4, <2>6, <2>7, <2>8, CardFrame, Types, InvOfOne
  <1> QED BY <1>4, <1>5 DEF CommitAdjustment, Ready

-----------------------------------------------------------------------------
LEMMA SurchargedIsRecord ==
  ASSUME NEW old \in Statement, NEW k \in Call
  PROVE LET s == Surcharged(old, k)
        IN  /\ s \in Statement
            /\ s.billed = k.seen.billed + k.amount /\ s.remaining = k.seen.remaining + k.amount
            /\ s.paid = old.paid
            /\ s.status = IF k.op = "FEE" \/ k.seen.status \in Unpaid THEN "OVERDUE"
                          ELSE k.seen.status
            /\ s.fee = IF k.op = "FEE" THEN "ACTIVE" ELSE old.fee
            /\ s.interest = IF k.op = "INTEREST" THEN old.interest + 1 ELSE old.interest
  <1>1. /\ k.seen.billed + k.amount \in Nat /\ k.seen.remaining + k.amount \in Nat
        /\ k.seen.status \in Unpaid \cup {"OPEN", "PAID"}
        /\ old.interest + 1 \in Nat
    BY CallIsRecord, StatementIsRecord
  <1>2. "OVERDUE" \in Unpaid
    BY DEF Unpaid
  <1> QED BY <1>1, <1>2 DEF Surcharged, Statement

LEMMA WaivedIsRecord ==
  ASSUME NEW old \in Statement
  PROVE LET s == Waived(old)
        IN  /\ s \in Statement
            /\ s.billed = Floor0(old.billed - LateFee)
            /\ s.remaining = Floor0(old.remaining - LateFee)
            /\ s.paid = old.paid /\ s.status = old.status /\ s.fee = "WAIVED"
            /\ s.interest = old.interest
  <1>1. Floor0(old.billed - LateFee) \in Nat /\ Floor0(old.remaining - LateFee) \in Nat
    BY StatementIsRecord, CardAssumption DEF Floor0
  <1> QED BY <1>1 DEF Waived, Statement

\* A surcharge or a waiver writes a statement that is past due; where the statement
\* is not marked, it is still what was read.
LEMMA SurchargeKeeps ==
  ASSUME IInv, NEW p \in People, CommitSurcharge(p)
  PROVE IInv'
  <1>1. PICK k \in Call : k = call[p] /\ CallIsRight(k) /\ k.read /\ k.op \in Surcharges
    BY InvOfOne DEF CommitSurcharge, Ready, CallIsRight
  <1>2. /\ UNCHANGED <<clock, unbilled, job, requests, crashes, cut, inTime>>
        /\ card' = Owing(k.balance + k.amount)
        /\ rows' = rows + k.amount
        /\ Overwritten(p) /\ Finish(p)
    BY <1>1 DEF CommitSurcharge
  <1>3. /\ k.amount \in Nat /\ k.amount > 0 /\ k.balance \in Nat /\ k.available \in Nat
        /\ k.balance + k.available = Limit /\ k.amount =< k.available
    BY <1>1, CallIsRecord DEF CallIsRight, CallIsCovered
  <1>4. k.balance + k.amount \in Nat /\ k.balance + k.amount =< Limit /\ k.amount \in Int
    BY <1>3, CardAssumption
  <1>5. /\ card' \in CardRow /\ card'.balance = k.balance + k.amount
        /\ card'.available = Limit - card'.balance
    BY <1>2, <1>4, OwingIsRight
  <1>6. rows \in Int /\ cut \in Nat
    BY Types
  <1>7. rows' \in Int /\ cut' \in Nat /\ rows' + cut' = rows + cut + k.amount
    BY <1>2, <1>3, <1>6
  <1>8. /\ WithinLimit' /\ BalanceIsItsRows' /\ lost' \in Int
        /\ call' \in [People -> Call \cup {None}]
        /\ \A q \in People : call'[q] \in {None, call[q]} \/ CallIsRight(call'[q])
    BY <1>1, <1>2, <1>4, <1>5, <1>7, CallIsRecord, BalanceIsWritten
  <1>9. PICK n \in DOMAIN stmts : n = k.on /\ TakenUp(n)
    BY <1>1 DEF CallIsRight, CallIsLate, TakenUp
  <1>10. PICK old \in Statement : old = stmts[n] /\ StatementIsRight(n, old)
    BY InvOfOne DEF StatementIsRight
  <1>11. /\ k.seen \in Statement /\ k.seen.status # "OPEN"
         /\ k.op = "FEE" => k.amount = LateFee
         /\ k.seen.remaining = 0 => n \in raced
         /\ k.op = "INTEREST" => k.seen.interest = 0
    BY <1>1, <1>9, CallIsRecord DEF CallIsRight, CallIsLate, Surcharges
  <1>12. stmts' = [stmts EXCEPT ![n] = Surcharged(old, k)]
    <2>1. stmts' = [stmts EXCEPT ![call[p].on] = Surcharged(stmts[call[p].on], call[p])]
      BY DEF CommitSurcharge
    <2> QED BY <1>1, <1>9, <1>10, <2>1
  <1>13. raced' = IF old # k.seen THEN raced \cup {n} ELSE raced
    BY <1>1, <1>9, <1>10 DEF CommitSurcharge
  <1>14. raced \subseteq raced' /\ raced' \subseteq Nat /\ n \in Nat
    BY <1>13, InvOfOne, Types
  <1>15. /\ old.billed \in Nat /\ old.paid \in Nat /\ old.remaining \in Nat /\ old.interest \in Nat
         /\ k.seen.billed \in Nat /\ k.seen.remaining \in Nat
         /\ k.seen.status \in Unpaid \cup {"OPEN", "PAID"}
    BY <1>11, StatementIsRecord
  <1>16. PICK s \in Statement :
            /\ s = Surcharged(old, k)
            /\ s.billed = k.seen.billed + k.amount /\ s.remaining = k.seen.remaining + k.amount
            /\ s.paid = old.paid
            /\ s.status = IF k.op = "FEE" \/ k.seen.status \in Unpaid THEN "OVERDUE"
                          ELSE k.seen.status
            /\ s.fee = IF k.op = "FEE" THEN "ACTIVE" ELSE old.fee
            /\ s.interest = IF k.op = "INTEREST" THEN old.interest + 1 ELSE old.interest
    BY SurchargedIsRecord
  <1>17. s.status # "OPEN"
    BY <1>11, <1>16
  <1>18. ASSUME n \notin raced'
         PROVE /\ s.paid + s.remaining = s.billed
               /\ s.status = "PAID" => s.remaining = 0
               /\ s.interest =< 1
               /\ s.fee = "ACTIVE" => s.remaining >= LateFee
    <2>1. old = k.seen /\ n \notin raced
      BY <1>13, <1>18
    <2>2. /\ old.paid + old.remaining = old.billed
          /\ old.status = "PAID" => old.remaining = 0
          /\ old.interest =< 1
          /\ old.fee = "ACTIVE" => old.remaining >= LateFee
          /\ old.remaining # 0
      BY <1>10, <1>11, <2>1 DEF StatementIsRight
    <2>3. s.status # "PAID"
      BY <1>16, <2>1, <2>2
    <2>4. s.paid + s.remaining = s.billed
      BY <1>3, <1>15, <1>16, <2>1, <2>2
    <2>5. s.interest =< 1
      BY <1>11, <1>15, <1>16, <2>1, <2>2
    <2>6. s.fee = "ACTIVE" => s.remaining >= LateFee
      BY <1>3, <1>11, <1>15, <1>16, <2>1, <2>2, CardAssumption
    <2> QED BY <2>3, <2>4, <2>5, <2>6
  <1>19. n \notin inTime' /\ PastDue(n)'
    BY <1>2, <1>9 DEF TakenUp, PastDue
  <1>20. StatementIsRight(n, s)'
    BY <1>16, <1>17, <1>18, <1>19 DEF StatementIsRight
  <1> QED BY <1>2, <1>5, <1>7, <1>8, <1>12, <1>14, <1>16, <1>17, <1>20, StatementFrame, Types, InvOfOne

LEMMA WaiverKeeps ==
  ASSUME IInv, NEW p \in People, CommitWaiver(p)
  PROVE IInv'
  <1>1. PICK k \in Call : k = call[p] /\ CallIsRight(k) /\ k.read /\ k.op = "WAIVE"
    BY InvOfOne DEF CommitWaiver, Ready, CallIsRight
  <1>2. /\ UNCHANGED <<clock, unbilled, job, requests, crashes, inTime>>
        /\ card' = Owing(call[p].balance - Credited(p))
        /\ rows' = rows - LateFee
        /\ cut' = cut + LateFee - Credited(p)
        /\ Overwritten(p) /\ Finish(p)
    BY DEF CommitWaiver
  <1>3. /\ call[p] # None /\ k.amount = LateFee
        /\ k.seen.fee = "ACTIVE" /\ k.seen \in Statement
    BY <1>1, CallIsRecord DEF CallIsRight, CallIsLate, Surcharges
  <1>4. /\ Credited(p) \in Nat /\ Credited(p) =< LateFee /\ LateFee \in Nat
        /\ call[p].balance - Credited(p) \in Nat /\ call[p].balance - Credited(p) =< Limit
    BY <1>1, <1>3, CreditIsRight
  <1>5. /\ card' \in CardRow /\ card'.balance = call[p].balance - Credited(p)
        /\ card'.available = Limit - card'.balance
    BY <1>2, <1>4, OwingIsRight
  <1>6. rows \in Int /\ cut \in Nat
    BY Types
  <1>7. rows' \in Int /\ cut' \in Nat /\ rows' + cut' = rows + cut + (- Credited(p))
    <2>1. rows' = rows - LateFee /\ cut' = cut + LateFee - Credited(p)
      BY <1>2
    <2>2. rows' \in Int
      BY <1>4, <1>6, <2>1
    <2> QED BY <1>4, <1>6, <2>1, <2>2, CreditedAddsUp
  <1>8. /\ call[p].balance \in Nat
        /\ call[p].balance + (- Credited(p)) = call[p].balance - Credited(p)
        /\ - Credited(p) \in Int
    BY <1>1, <1>4, CallIsRecord
  <1>9. /\ WithinLimit' /\ BalanceIsItsRows' /\ lost' \in Int
        /\ call' \in [People -> Call \cup {None}]
        /\ \A q \in People : call'[q] \in {None, call[q]} \/ CallIsRight(call'[q])
    BY <1>2, <1>3, <1>4, <1>5, <1>7, <1>8, BalanceIsWritten
  <1>10. PICK n \in DOMAIN stmts : n = k.on /\ TakenUp(n)
    BY <1>1 DEF CallIsRight, CallIsLate, TakenUp
  <1>11. PICK old \in Statement : old = stmts[n] /\ StatementIsRight(n, old)
    BY InvOfOne DEF StatementIsRight
  <1>12. stmts' = [stmts EXCEPT ![n] = Waived(old)]
    <2>1. stmts' = [stmts EXCEPT ![call[p].on] = Waived(stmts[call[p].on])]
      BY DEF CommitWaiver
    <2> QED BY <1>1, <1>10, <1>11, <2>1
  <1>13. raced' = IF old # k.seen THEN raced \cup {n} ELSE raced
    BY <1>1, <1>10, <1>11 DEF CommitWaiver
  <1>14. raced \subseteq raced' /\ raced' \subseteq Nat /\ n \in Nat
    BY <1>13, InvOfOne, Types
  <1>15. /\ old.billed \in Nat /\ old.paid \in Nat /\ old.remaining \in Nat /\ old.interest \in Nat
         /\ old.status # "OPEN"
    BY <1>10, <1>11, StatementIsRecord DEF TakenUp
  <1>16. PICK s \in Statement :
            /\ s = Waived(old)
            /\ s.billed = Floor0(old.billed - LateFee) /\ s.remaining = Floor0(old.remaining - LateFee)
            /\ s.paid = old.paid /\ s.status = old.status /\ s.fee = "WAIVED"
            /\ s.interest = old.interest
    BY WaivedIsRecord
  <1>17. ASSUME n \notin raced'
         PROVE /\ s.paid + s.remaining = s.billed
               /\ s.status = "PAID" => s.remaining = 0
               /\ s.interest =< 1
    <2>1. old = k.seen /\ n \notin raced
      BY <1>13, <1>17
    <2>2. /\ old.paid + old.remaining = old.billed
          /\ old.status = "PAID" => old.remaining = 0
          /\ old.interest =< 1 /\ old.remaining >= LateFee
      BY <1>3, <1>11, <2>1 DEF StatementIsRight
    <2>3. s.remaining = old.remaining - LateFee /\ s.billed = old.billed - LateFee
      BY <1>4, <1>15, <1>16, <2>2 DEF Floor0
    <2>4. s.status # "PAID"
      BY <1>4, <1>15, <1>16, <2>2, CardAssumption
    <2>5. s.paid + s.remaining = s.billed
      BY <1>4, <1>15, <1>16, <2>2, <2>3
    <2> QED BY <1>16, <2>2, <2>4, <2>5
  <1>18. n \notin inTime' /\ PastDue(n)'
    BY <1>2, <1>10 DEF TakenUp, PastDue
  <1>19. StatementIsRight(n, s)'
    BY <1>15, <1>16, <1>17, <1>18 DEF StatementIsRight
  <1> QED BY <1>2, <1>5, <1>7, <1>9, <1>12, <1>14, <1>15, <1>16, <1>19, StatementFrame, Types, InvOfOne

-----------------------------------------------------------------------------
\* A statement that receives a part of a payment, at most what is owed on it.
LEMMA ReceiveIsRight ==
  ASSUME IInv, NEW n \in DOMAIN stmts, NEW amount \in Nat, amount =< Owed(n)
  PROVE LET old == stmts[n]
            s == Receive(stmts[n], amount)
        IN  /\ s \in Statement
            /\ amount = 0 => s = old
            /\ n \in inTime => amount = 0
            /\ n \notin raced => /\ s.paid + s.remaining = s.billed
                                 /\ s.status = "PAID" => s.remaining = 0
                                 /\ s.interest =< 1
                                 /\ s.fee = "ACTIVE" => s.remaining >= LateFee
            /\ amount # 0 => /\ s.status # "OPEN" /\ s.interest = old.interest
                             /\ s.fee # "NONE" => old.fee # "NONE"
                             /\ s.status = "PAID" => s.remaining = 0
  <1>1. PICK old \in Statement : old = stmts[n] /\ StatementIsRight(n, old)
    BY InvOfOne DEF StatementIsRight
  <1>2. CASE amount = 0
    BY <1>1, <1>2 DEF Receive, StatementIsRight
  <1>3. CASE amount # 0
    <2>1. /\ old.billed \in Nat /\ old.paid \in Nat /\ old.remaining \in Nat /\ old.interest \in Nat
          /\ old.fee \in {"NONE", "ACTIVE", "PAID", "WAIVED"}
      BY StatementIsRecord
    <2>2. old.status \in Unpaid /\ amount =< Floor0(old.billed - old.paid)
      BY <1>1, <1>3 DEF Owed
    <2>3. amount > 0 /\ amount =< old.billed - old.paid
      BY <1>3, <2>1, <2>2 DEF Floor0
    <2>4. PICK left \in Nat : left = old.billed - old.paid - amount
      BY <2>1, <2>3
    <2>5. Floor0(left) = left
      BY DEF Floor0
    <2> DEFINE s == Receive(old, amount)
    <2>6. PICK status \in {"PAID", "PARTIALLY_PAID"} :
             status = IF left =< 0 THEN "PAID" ELSE "PARTIALLY_PAID"
      OBVIOUS
    <2>7. PICK fee \in {"NONE", "PAID", "WAIVED"} :
             fee = IF old.fee = "ACTIVE" THEN "PAID" ELSE old.fee
      BY <2>1
    <2>8. PICK paid \in Nat : paid = old.paid + amount
      BY <2>1
    <2>9. s = [old EXCEPT !.paid = paid, !.remaining = left, !.status = status, !.fee = fee]
      BY <1>3, <2>4, <2>5, <2>6, <2>7, <2>8 DEF Receive
    <2> HIDE DEF s
    <2>10. s \in Statement
      BY <2>9 DEF Statement, Unpaid
    <2>11. /\ s.paid = paid /\ s.remaining = left /\ s.status = status /\ s.fee = fee
           /\ s.interest = old.interest /\ s.billed = old.billed
      BY <2>9 DEF Statement
    <2>12. /\ s \in Statement /\ s.paid = old.paid + amount /\ s.remaining = left
           /\ s.status = IF left =< 0 THEN "PAID" ELSE "PARTIALLY_PAID"
           /\ s.fee = IF old.fee = "ACTIVE" THEN "PAID" ELSE old.fee
           /\ s.interest = old.interest /\ s.billed = old.billed
      BY <2>6, <2>7, <2>8, <2>10, <2>11
    <2>13. n \notin inTime
      BY <1>1, <2>2 DEF StatementIsRight, Unpaid
    <2>14. s.status # "OPEN" /\ s.fee # "ACTIVE"
      BY <2>12
    <2>15. s.fee # "NONE" => old.fee # "NONE"
      BY <2>12
    <2>16. s.status = "PAID" => s.remaining = 0
      BY <2>12
    <2>17. s.paid + s.remaining = s.billed
      BY <2>1, <2>4, <2>12
    <2>18. n \notin raced => s.interest =< 1
      BY <1>1, <2>12 DEF StatementIsRight
    <2> QED BY <1>1, <1>3, <2>12, <2>13, <2>14, <2>15, <2>16, <2>17, <2>18 DEF s
  <1> QED BY <1>2, <1>3

\* Every statement receives its part of a payment, from the oldest on.
LEMMA AllocationIsRight ==
  ASSUME IInv, NEW amount \in Nat,
         NEW left \in [1 .. Len(stmts) + 1 -> 0 .. amount],
         \A n \in 1 .. Len(stmts) : left[n + 1] = left[n] - Least(left[n], Owed(n)),
         NEW n \in 1 .. Len(stmts)
  PROVE /\ n \in DOMAIN stmts
        /\ left[n] - left[n + 1] \in Nat /\ left[n] - left[n + 1] =< Owed(n)
        /\ left[n] # left[n + 1] <=> left[n] - left[n + 1] # 0
  <1>1. Len(stmts) \in Nat /\ DOMAIN stmts = 1 .. Len(stmts) /\ n \in DOMAIN stmts
    BY Types
  <1>2. stmts[n].billed \in Nat /\ stmts[n].paid \in Nat
    BY <1>1, InvOfOne, StatementIsRecord DEF StatementIsRight
  <1>3. Owed(n) \in Nat
    <2>1. stmts[n].billed - stmts[n].paid \in Int
      BY <1>2
    <2>2. Floor0(stmts[n].billed - stmts[n].paid) \in Nat
      BY <2>1 DEF Floor0
    <2> QED BY <2>2 DEF Owed
  <1>4. n \in 1 .. Len(stmts) + 1 /\ n + 1 \in 1 .. Len(stmts) + 1
    BY <1>1
  <1>5. left[n] \in Nat /\ left[n + 1] \in Nat
    BY <1>4
  <1>6. left[n + 1] = left[n] - Least(left[n], Owed(n))
    OBVIOUS
  <1> QED BY <1>1, <1>3, <1>5, <1>6 DEF Least

LEMMA PaymentKeeps ==
  ASSUME IInv, NEW p \in People, CommitPayment(p)
  PROVE IInv'
  <1>1. call[p] # None /\ call[p].read
    BY DEF CommitPayment, Ready
  <1>2. /\ UNCHANGED <<clock, job, requests, crashes, raced>>
        /\ card' = [Owing(call[p].balance - Credited(p)) EXCEPT !.status = Restored(@)]
        /\ Post(- call[p].amount)
        /\ cut' = cut + call[p].amount - Credited(p)
        /\ Overwritten(p) /\ Finish(p)
    BY DEF CommitPayment
  <1>3. /\ Credited(p) \in Nat /\ Credited(p) =< call[p].amount /\ call[p].amount \in Nat
        /\ call[p].balance - Credited(p) \in Nat /\ call[p].balance - Credited(p) =< Limit
    BY <1>1, CreditIsRight
  <1>4. PICK owing \in CardRow :
           /\ owing = Owing(call[p].balance - Credited(p))
           /\ owing.balance = call[p].balance - Credited(p)
           /\ owing.available = Limit - owing.balance
    BY <1>3, OwingIsRight
  <1>5. PICK status \in {"ACTIVE", "FROZEN", "DELINQUENT"} : status = Restored(owing.status)
    BY CardIsRecord DEF Restored
  <1>6. card' = [owing EXCEPT !.status = status]
    BY <1>2, <1>4, <1>5
  <1>7. /\ card' \in CardRow /\ card'.balance = owing.balance /\ card'.available = owing.available
    BY <1>6 DEF CardRow
  <1>8. /\ card'.balance = call[p].balance - Credited(p)
        /\ card'.available = Limit - card'.balance
    BY <1>4, <1>7
  <1>9. rows \in Int /\ cut \in Nat
    BY Types
  <1>10. - call[p].amount \in Int
    BY <1>3
  <1>11. rows' = rows - call[p].amount /\ rows' \in Int /\ unbilled' \in [0 .. Months -> Int]
    BY <1>2, <1>3, <1>9, <1>10, PostIsRight
  <1>12. cut' \in Nat /\ rows' + cut' = rows + cut + (- Credited(p))
    <2>1. cut' = cut + call[p].amount - Credited(p) /\ rows' = rows - call[p].amount
      BY <1>2, <1>11
    <2> QED BY <1>3, <1>9, <2>1, CreditedAddsUp
  <1>13. /\ call[p].balance \in Nat
         /\ call[p].balance + (- Credited(p)) = call[p].balance - Credited(p)
         /\ - Credited(p) \in Int
    BY <1>1, <1>3, InvOfOne, CallIsRecord DEF CallIsRight
  <1>14. /\ WithinLimit' /\ BalanceIsItsRows' /\ lost' \in Int
         /\ call' \in [People -> Call \cup {None}]
         /\ \A q \in People : call'[q] \in {None, call[q]} \/ CallIsRight(call'[q])
    BY <1>1, <1>2, <1>3, <1>8, <1>11, <1>12, <1>13, BalanceIsWritten
  <1>15. PICK left \in [1 .. Len(stmts) + 1 -> 0 .. call[p].amount] :
            /\ \A n \in 1 .. Len(stmts) : left[n + 1] = left[n] - Least(left[n], Owed(n))
            /\ stmts' = [n \in 1 .. Len(stmts) |-> Receive(stmts[n], left[n] - left[n + 1])]
            /\ inTime' = inTime \cup {n \in 1 .. Len(stmts) :
                             ~PastDue(n) /\ left[n] # left[n + 1] /\ stmts'[n].status = "PAID"}
    BY DEF CommitPayment
  <1>16. Len(stmts) \in Nat /\ DOMAIN stmts = 1 .. Len(stmts) /\ DOMAIN stmts' = DOMAIN stmts
    BY <1>15, Types
  <1>17. ASSUME NEW n \in DOMAIN stmts
         PROVE \E amount \in Nat :
                  /\ amount =< Owed(n) /\ stmts'[n] = Receive(stmts[n], amount)
                  /\ n \in inTime' => n \in inTime \/ (~PastDue(n) /\ amount # 0 /\ stmts'[n].status = "PAID")
    <2>1. n \in 1 .. Len(stmts)
      BY <1>16
    <2>2. /\ left[n] - left[n + 1] \in Nat /\ left[n] - left[n + 1] =< Owed(n)
          /\ left[n] # left[n + 1] <=> left[n] - left[n + 1] # 0
      BY <1>3, <1>15, <2>1, AllocationIsRight
    <2>3. stmts'[n] = Receive(stmts[n], left[n] - left[n + 1])
      BY <1>15, <2>1
    <2>4. n \in inTime' => n \in inTime \/ (~PastDue(n) /\ left[n] # left[n + 1] /\ stmts'[n].status = "PAID")
      BY <1>15, <2>1
    <2> QED BY <2>2, <2>3, <2>4
  <1>18. clock' = clock /\ clock \in Nat /\ clock \in 0 .. Horizon
    BY <1>2, Types
  <1>19. clock' >= clock /\ clock' \in Nat /\ clock' \in 0 .. Horizon
    BY <1>18
  <1>20. ASSUME NEW n \in DOMAIN stmts
         PROVE /\ StatementIsRight(n, stmts[n])' /\ stmts'[n] \in Statement
               /\ stmts[n].status # "OPEN" => stmts'[n].status # "OPEN"
    <2>1. PICK amount \in Nat :
             /\ amount =< Owed(n) /\ stmts'[n] = Receive(stmts[n], amount)
             /\ n \in inTime' => n \in inTime \/ (~PastDue(n) /\ amount # 0 /\ stmts'[n].status = "PAID")
      BY <1>17
    <2>2. PICK old \in Statement : old = stmts[n] /\ StatementIsRight(n, old)
      BY InvOfOne DEF StatementIsRight
    <2>3. PICK s \in Statement :
             /\ s = stmts'[n]
             /\ amount = 0 => s = old
             /\ n \in inTime => amount = 0
             /\ n \notin raced => /\ s.paid + s.remaining = s.billed
                                  /\ s.status = "PAID" => s.remaining = 0
                                  /\ s.interest =< 1
                                  /\ s.fee = "ACTIVE" => s.remaining >= LateFee
             /\ amount # 0 => /\ s.status # "OPEN" /\ s.interest = old.interest
                              /\ s.fee # "NONE" => old.fee # "NONE"
                              /\ s.status = "PAID" => s.remaining = 0
      BY <2>1, <2>2, ReceiveIsRight
    <2>4. PastDue(n)' <=> PastDue(n)
      BY <1>18 DEF PastDue
    <2>5. CASE amount = 0
      <3>1. s = old /\ (n \in inTime' => n \in inTime)
        BY <2>1, <2>3, <2>5
      <3> QED BY <1>2, <2>2, <2>3, <2>4, <3>1 DEF StatementIsRight
    <2>6. CASE amount # 0
      <3>1. n \in inTime' => s.status = "PAID" /\ s.fee = "NONE" /\ s.interest = 0 /\ s.remaining = 0
        BY <2>1, <2>2, <2>3, <2>6 DEF StatementIsRight
      <3>2. s.fee # "NONE" \/ s.interest # 0 => PastDue(n)'
        BY <2>2, <2>3, <2>4, <2>6 DEF StatementIsRight
      <3>3. StatementIsRight(n, s)'
        BY <1>2, <2>3, <2>6, <3>1, <3>2 DEF StatementIsRight
      <3> QED BY <2>3, <2>6, <3>3
    <2> QED BY <2>5, <2>6
  <1>21. stmts' \in Seq(Statement)
    <2>1. stmts' = [n \in 1 .. Len(stmts) |-> stmts'[n]]
      BY <1>15
    <2>2. \A n \in 1 .. Len(stmts) : stmts'[n] \in Statement
      BY <1>16, <1>20
    <2> QED BY <1>16, <2>1, <2>2
  <1>22. \A n \in inTime' : n \in inTime \/ ~PastDue(n)
    BY <1>15
  <1>23. inTime' \subseteq DOMAIN stmts'
    BY <1>15, <1>16, Types
  <1> QED BY <1>2, <1>7, <1>11, <1>12, <1>14, <1>16, <1>19, <1>20, <1>21, <1>22, <1>23,
             Frame, Types, InvOfOne, CardAssumption

LEMMA TransactionKeeps ==
  ASSUME IInv, NEW p \in People, Transaction(p)
  PROVE IInv'
  BY ReadKeeps, PaymentKeeps, AdjustmentKeeps, SurchargeKeeps, WaiverKeeps DEF Transaction

-----------------------------------------------------------------------------
\* A step of the job that writes its list only.
LEMMA JobFrame ==
  ASSUME IInv, UNCHANGED <<clock, card, stmts, unbilled, call, books, inTime, raced>>,
         requests' \in Nat, crashes' \in Nat, job' \in JobRow,
         job'.phase \in {"mark", "fees", "interest"} => \A n \in job'.todo : TakenUp(n)
  PROVE IInv'
  <1>1. WithinLimit' /\ BalanceIsItsRows'
    BY Types DEF WithinLimit, BalanceIsItsRows, books
  <1> QED BY <1>1, CardFrame, Types, InvOfOne DEF books

LEMMA LateOnes ==
  ASSUME IInv, NEW statuses, "OPEN" \notin statuses
  PROVE Late(statuses) \in SUBSET Nat /\ \A n \in Late(statuses) : TakenUp(n)
  <1>1. ASSUME NEW n \in Late(statuses)
        PROVE n \in Nat /\ TakenUp(n)
    <2>1. /\ n \in DOMAIN stmts /\ PastDue(n) /\ stmts[n].status # "OPEN"
          /\ stmts[n].remaining > 0
      BY <1>1 DEF Late, WithBalance
    <2> QED BY <2>1, LateIsTakenUp, InvOfOne
  <1> QED BY <1>1

LEMMA NextPhaseKeeps ==
  ASSUME IInv, NextPhase
  PROVE IInv'
  <1>1. /\ UNCHANGED <<clock, card, stmts, unbilled, call, requests, crashes, books, inTime, raced>>
        /\ requests' \in Nat /\ crashes' \in Nat
    BY Types DEF NextPhase
  <1>2. "OPEN" \notin Unpaid /\ "OPEN" \notin {"ISSUED", "PARTIALLY_PAID"}
    BY DEF Unpaid
  <1>3. ASSUME NEW phase \in Phases, NEW todo \in SUBSET Nat, Enter(phase, todo),
               phase \in {"fees", "interest"} => \A n \in todo : TakenUp(n),
               phase # "mark"
        PROVE IInv'
    <2>1. job' \in JobRow /\ job'.phase = phase /\ job'.todo = todo
      BY <1>3, Types DEF Enter, JobRow
    <2> QED BY <1>1, <1>3, <2>1, JobFrame
  <1>4. ASSUME Enter("autopay", {n \in Oldest(WithBalance(Unpaid)) : DueDay(n)})
        PROVE IInv'
    <2>1. {n \in Oldest(WithBalance(Unpaid)) : DueDay(n)} \in SUBSET Nat
      BY InvOfOne DEF Oldest, WithBalance
    <2> QED BY <1>3, <1>4, <2>1 DEF Phases
  <1>5. ASSUME NEW late, late = Late({"ISSUED", "PARTIALLY_PAID"}),
               job' = [job EXCEPT !.phase = "mark", !.todo = late, !.marked = late]
        PROVE IInv'
    <2>1. late \in SUBSET Nat /\ \A n \in late : TakenUp(n)
      BY <1>2, <1>5, LateOnes
    <2>2. job' \in JobRow /\ job'.todo = late
      BY <1>5, <2>1, Types DEF JobRow, Phases
    <2> QED BY <1>1, <2>1, <2>2, JobFrame
  <1>6. ASSUME job' = [job EXCEPT !.phase = "delinquent", !.todo = job.marked, !.marked = {}]
        PROVE IInv'
    <2>1. job.marked \in SUBSET Nat
      BY Types, JobIsRecord
    <2>2. job' \in JobRow /\ job'.phase = "delinquent"
      BY <1>6, <2>1, Types DEF JobRow, Phases
    <2> QED BY <1>1, <2>2, JobFrame
  <1>7. ASSUME Enter("fees", Late(Unpaid))
        PROVE IInv'
    BY <1>2, <1>3, <1>7, LateOnes DEF Phases
  <1>8. ASSUME Enter("interest", {n \in Late(Unpaid) : stmts[n].interest = 0})
        PROVE IInv'
    <2>1. /\ {n \in Late(Unpaid) : stmts[n].interest = 0} \in SUBSET Nat
          /\ \A n \in {n \in Late(Unpaid) : stmts[n].interest = 0} : TakenUp(n)
      BY <1>2, LateOnes
    <2> QED BY <1>3, <1>8, <2>1 DEF Phases
  <1>9. ASSUME Enter("idle", {})
        PROVE IInv'
    BY <1>3, <1>9 DEF Phases
  <1> QED BY <1>4, <1>5, <1>6, <1>7, <1>8, <1>9 DEF NextPhase

\* The list of the job without one of its statements.
LEMMA TackleIsRight ==
  ASSUME IInv, NEW n, Tackle(n)
  PROVE /\ job' \in JobRow /\ job'.phase = job.phase
        /\ job'.phase \in {"mark", "fees", "interest"} => \A m \in job'.todo : TakenUp(m)
  <1>1. job.todo \in SUBSET Nat
    BY Types, JobIsRecord
  <1>2. job' = [job EXCEPT !.todo = job.todo \ {n}]
    BY DEF Tackle
  <1>3. job' \in JobRow /\ job'.phase = job.phase /\ job'.todo = job.todo \ {n}
    BY <1>1, <1>2, Types DEF JobRow
  <1> QED BY <1>3, InvOfOne

LEMMA AutopayKeeps ==
  ASSUME IInv, NEW n \in job.todo, Autopay(n)
  PROVE IInv'
  <1>1. /\ UNCHANGED <<clock, card, stmts, unbilled, requests, crashes, books, inTime, raced>>
        /\ requests' \in Nat /\ crashes' \in Nat /\ Tackle(n)
    BY Types DEF Autopay
  <1>2. ASSUME UNCHANGED call PROVE IInv'
    BY <1>1, <1>2, TackleIsRight, JobFrame
  <1>3. ASSUME NEW m \in Oldest(WithBalance(Unpaid)), Owed(m) > 0,
               NEW amount \in Amounts \cup {Owed(m)}, BeginPayment(Job, Least(amount, Owed(m)))
        PROVE IInv'
    <2>1. m \in DOMAIN stmts
      BY <1>3 DEF Oldest, WithBalance
    <2>2. Owed(m) \in Nat
      BY <2>1, InvOfOne, StatementIsRecord DEF StatementIsRight, Owed, Floor0
    <2>3. PICK paid \in Nat \ {0} : paid = Least(amount, Owed(m))
      <3>1. PICK owed \in Nat : owed = Owed(m) /\ owed > 0
        BY <1>3, <2>2
      <3>2. amount \in Nat /\ amount > 0
        BY <3>1, CardAssumption
      <3>3. Least(amount, owed) \in Nat /\ Least(amount, owed) > 0
        BY <3>1, <3>2 DEF Least
      <3> QED BY <3>1, <3>3
    <2>4. Job \in People /\ BeginPayment(Job, paid)
      BY <1>3, <2>3 DEF People
    <2> QED BY <1>1, <2>4, TackleIsRight, PaymentBegins
  <1> QED BY <1>2, <1>3 DEF Autopay

LEMMA MarkKeeps ==
  ASSUME IInv, NEW n \in job.todo, MarkOverdue(n)
  PROVE IInv'
  <1>1. TakenUp(n) /\ n \in DOMAIN stmts /\ n \in Nat
    BY InvOfOne DEF MarkOverdue, TakenUp
  <1>2. /\ UNCHANGED <<clock, card, unbilled, call, requests, crashes, books, inTime>>
        /\ Tackle(n)
    BY DEF MarkOverdue
  <1>3. PICK old \in Statement : old = stmts[n] /\ StatementIsRight(n, old)
    BY <1>1, InvOfOne DEF StatementIsRight
  <1>4. PICK s \in Statement :
           /\ stmts' = [stmts EXCEPT ![n] = s]
           /\ s.status = "OVERDUE" /\ s.billed = old.billed /\ s.paid = old.paid
           /\ s.remaining = old.remaining /\ s.fee = old.fee /\ s.interest = old.interest
    <2> DEFINE s == [old EXCEPT !.status = "OVERDUE"]
    <2>1. /\ s \in Statement
          /\ s.status = "OVERDUE" /\ s.billed = old.billed /\ s.paid = old.paid
          /\ s.remaining = old.remaining /\ s.fee = old.fee /\ s.interest = old.interest
      BY DEF Statement, Unpaid
    <2>2. stmts' = [stmts EXCEPT ![n] = s]
      BY <1>3 DEF MarkOverdue
    <2> QED BY <2>1, <2>2
  <1>5. raced \subseteq raced' /\ raced' \subseteq Nat
    BY <1>1, Types DEF MarkOverdue
  <1>6. n \notin inTime' /\ PastDue(n)'
    BY <1>1, <1>2 DEF TakenUp, PastDue
  <1>7. StatementIsRight(n, s)'
    BY <1>3, <1>4, <1>5, <1>6 DEF StatementIsRight
  <1>8. WithinLimit' /\ BalanceIsItsRows'
    BY <1>2, Types DEF WithinLimit, BalanceIsItsRows, books
  <1> QED BY <1>1, <1>2, <1>4, <1>5, <1>7, <1>8, TackleIsRight, StatementFrame, Types, InvOfOne DEF books

LEMMA DelinquentKeeps ==
  ASSUME IInv, LookAtStatus \/ MarkDelinquent
  PROVE IInv'
  <1>1. CASE LookAtStatus
    <2>1. job' \in JobRow /\ job'.phase = "delinquent"
      BY <1>1, Types DEF LookAtStatus, JobRow
    <2> QED BY <1>1, <2>1, JobFrame, Types DEF LookAtStatus
  <1>2. CASE MarkDelinquent
    <2>1. job' \in JobRow /\ job'.phase = job.phase /\ job'.todo = job.todo
      BY <1>2, Types DEF MarkDelinquent, JobRow
    <2> QED BY <1>2, <2>1, StatusMoves, Types, InvOfOne DEF MarkDelinquent
  <1> QED BY <1>1, <1>2

LEMMA ChargeKeeps ==
  ASSUME IInv, NEW n \in job.todo, ChargeStatement(n)
  PROVE IInv'
  <1>1. /\ UNCHANGED <<clock, card, stmts, unbilled, requests, crashes, books, inTime, raced>>
        /\ requests' \in Nat /\ crashes' \in Nat /\ Tackle(n)
        /\ job.phase \in {"fees", "interest"}
    BY Types DEF ChargeStatement
  <1>2. TakenUp(n) /\ n \in Nat
    BY <1>1, Types, JobIsRecord, InvOfOne
  <1>3. Job \in People
    BY DEF People
  <1>4. ASSUME UNCHANGED call PROVE IInv'
    BY <1>1, <1>4, TackleIsRight, JobFrame
  <1>5. ASSUME NEW op \in Surcharges, NEW amount \in Nat \ {0}, Start(Job, op, n, amount),
               op = "FEE" => amount = LateFee
        PROVE IInv'
    <2>1. call' = [call EXCEPT ![Job] = Begun(op, n, amount)]
      BY <1>5 DEF Start, Begun
    <2>2. CallIsRight(Begun(op, n, amount))
      BY <1>2, <1>5, BegunIsRight DEF Surcharges
    <2> QED BY <1>1, <1>3, <2>1, <2>2, TackleIsRight, CallFrame
  <1>6. LateFee \in Nat \ {0} /\ \A amount \in Interests : amount \in Nat \ {0}
    BY CardAssumption
  <1> QED BY <1>4, <1>5, <1>6 DEF ChargeStatement, Surcharges

LEMMA CrashKeeps == IInv /\ Crash => IInv'
  <1> SUFFICES ASSUME IInv, Crash PROVE IInv'
    OBVIOUS
  <1>1. job' \in JobRow /\ job'.phase = "idle"
    BY Types DEF Crash, JobRow, Phases
  <1>2. call' = [call EXCEPT ![Job] = None] /\ Job \in People
    BY DEF Crash, People
  <1>3. /\ call' \in [People -> Call \cup {None}]
        /\ \A q \in People : call'[q] \in {None, call[q]} \/ CallIsRight(call'[q])
    BY <1>2, CallMoves
  <1>4. crashes' \in Nat
    BY Types DEF Crash
  <1>5. WithinLimit' /\ BalanceIsItsRows'
    BY Types DEF Crash, WithinLimit, BalanceIsItsRows, books
  <1> QED BY <1>1, <1>3, <1>4, <1>5, CardFrame, Types DEF Crash, books

LEMMA NextKeeps == IInv /\ [Next]_vars => IInv'
  <1> SUFFICES ASSUME IInv, [Next]_vars PROVE IInv'
    OBVIOUS
  <1>1. CASE UNCHANGED vars
    BY <1>1, JobFrame, Types, InvOfOne DEF vars
  <1>2. CASE \E d \in Desk : Request(d) \/ Transaction(d)
    BY <1>2, RequestKeeps, TransactionKeeps DEF People
  <1>3. CASE JobStep
    <2>1. CASE \E n \in job.todo : Autopay(n) \/ MarkOverdue(n) \/ ChargeStatement(n)
      BY <2>1, AutopayKeeps, MarkKeeps, ChargeKeeps
    <2>2. CASE Transaction(Job)
      BY <2>2, TransactionKeeps DEF People
    <2> QED BY <1>3, <2>1, <2>2, NextPhaseKeeps, DelinquentKeeps DEF JobStep
  <1>4. CASE \E amount \in Amounts : Purchase(amount)
    BY <1>4, PurchaseKeeps
  <1> QED BY <1>1, <1>2, <1>3, <1>4, TickKeeps, FreezeKeeps, StatementsKeep, CrashKeeps DEF Next

-----------------------------------------------------------------------------
(* The invariant of the card, in every state of every run: what a transaction
   has read covers what it will write, and what is charged is past due. *)
THEOREM CardInvariant == Spec => []IInv
  <1>1. Init => IInv
    BY InitIsRight
  <1>2. IInv /\ [Next]_vars => IInv'
    BY NextKeeps
  <1> QED BY <1>1, <1>2, PTL DEF Spec

(* The balance and the available credit always make up the limit
   (alta-card-transaction.service.ts:398-552). *)
THEOREM CardStaysWithinLimit == Spec => []WithinLimit
  <1>1. IInv => WithinLimit
    BY DEF IInv
  <1> QED BY <1>1, CardInvariant, PTL

(* The balance is the sum of the rows, of what was credited in excess and of
   what was overwritten, and of nothing else. *)
THEOREM BalanceFollowsRows == Spec => []BalanceIsItsRows
  <1>1. IInv => BalanceIsItsRows
    BY DEF IInv
  <1> QED BY <1>1, CardInvariant, PTL

(* A statement that is written by one at a time adds up and bears interest once
   (alta-card-fee.service.ts:137-185). *)
THEOREM StatementsAlwaysAddUp == Spec => []StatementsAddUp
  <1>1. IInv => StatementsAddUp
    BY DEF IInv
  <1> QED BY <1>1, CardInvariant, PTL

(* A statement that was paid before it was past due never bears a fee or
   interest (alta-card-interest.service.ts and alta-card-fee.service.ts look at
   the due date before and the row at the write). *)
THEOREM PayingInTimeIsFree == Spec => []PaidInTimeIsFree
  <1>1. IInv => PaidInTimeIsFree
    BY DEF IInv
  <1> QED BY <1>1, CardInvariant, PTL
=============================================================================

----------------------------- MODULE TerminalCash -----------------------------
(***************************************************************************)
(* The money of Alta Terminal: transfers between a bank account and the     *)
(* cash of a portfolio, orders for the stable coin NPFC, sweeps of accrued  *)
(* revenue into a portfolio and contributions to the stabilization fund.    *)
(* Each is one PostgreSQL transaction (READ COMMITTED) that locks rows one  *)
(* after the other, reads them and writes absolute values; the database     *)
(* breaks a cycle of waiting transactions by aborting one.  Each is wrapped *)
(* by beginFinancialIdempotency, which looks for a record of the key before *)
(* and creates it after the transaction, in statements of its own.          *)
(* Coins and money are counted in a unit so small that every fee is whole.  *)
(* Wallet rows are only locked under the lock of their portfolio, and are   *)
(* left out of the locks; wallets are active and portfolios may be traded.  *)
(***************************************************************************)
EXTENDS Integers, Sequences, FiniteSets, Functions

CONSTANTS Portfolios,
          Calls,         \* requests at work at the same time
          Requests,      \* what clients may ask for, again and again
          Cent,          \* units in a cent
          FeeRate,       \* the fee is the FeeRate-th part of the gross value
          BankStart, CashStart, CoinStart, RevenueStart,
          MaxStarts,     \* how often all requests together are sent (bounds retries)
          MaxFaults,     \* lost connections and processes (bounds faults)
          MaxMoves       \* changes of the asset's status (bounds operators)

Fundings == {"BANK_TO_TERMINAL", "TERMINAL_TO_BANK"}
Sides == {"BUY", "SELL"}
Desk == {"SWEEP", "CONTRIBUTE"}

ASSUME TerminalAssumption ==
         /\ IsFiniteSet(Portfolios) /\ IsFiniteSet(Requests)
         /\ Cent \in Nat \ {0} /\ FeeRate \in Nat \ {0}
         /\ BankStart \in Nat /\ CoinStart \in Nat /\ RevenueStart \in Nat
         /\ CashStart \in Nat
         /\ \A r \in Requests : /\ r.op \in Fundings \cup Sides \cup Desk
                                /\ r.portfolio \in Portfolios
                                /\ r.amount \in Nat \ {0}

\* The unique columns of the table that a request writes to; "key" stands for
\* the user as well, and orders are unique per portfolio.
Key == [r \in Requests |->
          CASE r.op \in Fundings -> <<"terminal_funding", r.key>>
            [] r.op \in Sides -> <<"terminal_crypto_order", r.portfolio, r.key>>
            [] OTHER -> <<r.op, r.key>>]

Keys == {Key[r] : r \in Requests}

Bank == <<"BankAccount">>
Portfolio(p) == <<"TerminalPortfolio", p>>
Cash(p) == <<"TerminalPortfolioCashAccount", p>>
Market == <<"TerminalCryptoMarketState">>

\* Mutant: a transfer does not lock the bank account.
PathAroundBank == [r \in Requests |->
           CASE r.op \in Fundings -> <<Cash(r.portfolio)>>
             [] r.op \in Sides -> <<Portfolio(r.portfolio), Cash(r.portfolio), Market>>
             [] r.op = "SWEEP" -> <<Market, Cash(r.portfolio)>>
             [] r.op = "CONTRIBUTE" -> <<Market>>]

\* The rows that a transaction locks FOR UPDATE, in this order.
Path == [r \in Requests |->
           CASE r.op \in Fundings -> <<Bank, Cash(r.portfolio)>>
             [] r.op \in Sides -> <<Portfolio(r.portfolio), Cash(r.portfolio), Market>>
             [] r.op = "SWEEP" -> <<Market, Cash(r.portfolio)>>
             [] r.op = "CONTRIBUTE" -> <<Market>>]

\* Inserting a row that refers to a portfolio waits for whoever has locked it.
References(r) == IF r.op \in Fundings \cup {"SWEEP"} THEN {Portfolio(r.portfolio)} ELSE {}

VARIABLES bank,      \* the balance available on the bank account
          cash,      \* availableCash of each portfolio
          ledger,    \* the sum of each portfolio's posted cash ledger entries
          holding,   \* NPFC in each portfolio's wallet
          market,    \* the columns of TerminalCryptoMarketState
          status,    \* the status of the asset
          made,      \* how many rows each request has created
          records,   \* FinancialIdempotencyRecord: the request whose result is stored
          calls,
          receipts,  \* the answers of success: who was given whose result
          starts, faults, moves

vars == <<bank, cash, ledger, holding, market, status, made, records, calls, receipts,
          starts, faults, moves>>

NoRequest == [op |-> "none"]
Idle == [step |-> "idle"]

Init == /\ bank = BankStart
        /\ cash = [p \in Portfolios |-> CashStart]
        /\ ledger = [p \in Portfolios |-> CashStart]
        /\ holding = [p \in Portfolios |-> CoinStart]
        /\ market = [supply |-> CoinStart * Cardinality(Portfolios),
                     reserve |-> CoinStart * Cardinality(Portfolios),
                     stabilization |-> 0, revenue |-> RevenueStart, version |-> 0]
        /\ status = "ACTIVE"
        /\ made = [r \in Requests |-> 0]
        /\ records = [k \in Keys |-> NoRequest]
        /\ calls = [c \in Calls |-> Idle]
        /\ receipts = {}
        /\ starts = 0 /\ faults = 0 /\ moves = 0

money == <<bank, cash, ledger, holding, market>>

-----------------------------------------------------------------------------
(* Locks.  A call holds the rows it has passed on its path. *)
Holds(c) == IF calls[c].step \in {"lock", "write"}
            THEN {Path[calls[c].request][i] : i \in 1..calls[c].locked}
            ELSE {}

\* The rows a call needs next.
Needs(c) == CASE calls[c].step = "lock" -> {Path[calls[c].request][calls[c].locked + 1]}
              [] calls[c].step = "write" -> References(calls[c].request)
              [] OTHER -> {}

WaitsFor(c, d) == c # d /\ Needs(c) \cap Holds(d) # {}
Blocked(c) == \E d \in Calls : WaitsFor(c, d)

\* c waits in a ring of calls each of which waits for another one of them.
Deadlocked(c) == /\ Blocked(c)
                 /\ \E ring \in SUBSET Calls :
                    /\ c \in ring
                    /\ \A d \in ring : \E e \in ring : WaitsFor(d, e)

Goto(c, call) == calls' = [calls EXCEPT ![c] = call]
Return(c) == Goto(c, Idle)
Advance(c, step) == Goto(c, [calls[c] EXCEPT !.step = step])

\* The answer of a call is the result of request q.
Answer(c, r, q) == /\ receipts' = receipts \cup {<<r, q>>}
                   /\ Return(c)

\* The row that the key of r has created, if there is one.
Rows(r) == {q \in Requests : Key[q] = Key[r] /\ made[q] > 0}

-----------------------------------------------------------------------------
(* A request arrives.  Sweeps and contributions look for their row first,   *)
(* whatever was asked for under the key; everything then looks for a record *)
(* of the key.  Orders, sweeps and contributions name the version of the    *)
(* market that the client has seen, now or earlier.                         *)
Submit(c, r) ==
    /\ calls[c].step = "idle" /\ starts < MaxStarts
    /\ starts' = starts + 1
    /\ \/ \E q \in Rows(r) : r.op \in Desk /\ Answer(c, r, q)
       \/ /\ r.op \in Desk => Rows(r) = {}
          /\ records[Key[r]] = r
          /\ Answer(c, r, r)
       \/ /\ r.op \in Desk => Rows(r) = {}
          /\ records[Key[r]] = NoRequest
          /\ \E seen \in IF r.op \in Fundings THEN {0} ELSE 0..market.version :
                Goto(c, [step |-> "lock", request |-> r, quote |-> seen, locked |-> 0])
          /\ UNCHANGED receipts
    /\ UNCHANGED <<money, status, made, records, faults, moves>>

Allows(side) == status = "ACTIVE" \/ (status = "REDEMPTION_ONLY" /\ side = "SELL")

\* What a transaction reads once it has all its locks.
Snapshot(r) == [bank |-> bank, cash |-> cash[r.portfolio],
                holding |-> holding[r.portfolio], market |-> market]

\* Mutant: the last row is read when the lock is asked for, not when it is there.
LockLate(c) ==
    LET r == calls[c].request
        n == calls[c].locked + 1
    IN /\ calls[c].step = "lock"
       /\ IF n = Len(Path[r])
          THEN Goto(c, [step |-> "write", request |-> r, quote |-> calls[c].quote,
                        locked |-> n - 1, read |-> Snapshot(r)])
          ELSE ~Blocked(c) /\ Goto(c, [calls[c] EXCEPT !.locked = n])
       /\ UNCHANGED <<money, status, made, records, receipts, starts, faults, moves>>

\* The next row is locked.  An order looks at the asset before it locks the
\* market; the other reads follow the last lock.
Lock(c) ==
    LET r == calls[c].request
        n == calls[c].locked + 1
    IN /\ calls[c].step = "lock" /\ ~Blocked(c)
       /\ \/ /\ r.op \in Sides /\ n = 2 /\ ~Allows(r.op)
             /\ Return(c)
          \/ /\ n < Len(Path[r])
             /\ r.op \in Sides /\ n = 2 => Allows(r.op)
             /\ Goto(c, [calls[c] EXCEPT !.locked = n])
          \/ /\ n = Len(Path[r])
             /\ Goto(c, [step |-> "write", request |-> r, quote |-> calls[c].quote,
                         locked |-> n, read |-> Snapshot(r)])
       /\ UNCHANGED <<money, status, made, records, receipts, starts, faults, moves>>

-----------------------------------------------------------------------------
(* The writes.  Cash and market get the values that were read, changed. *)
Writes(c, ops) == /\ calls[c].step = "write" /\ calls[c].request.op \in ops
                  /\ ~Blocked(c)

Made(c) == /\ made' = [made EXCEPT ![calls[c].request] = @ + 1]
           /\ Advance(c, "record")
           /\ UNCHANGED <<status, records, receipts, starts, faults, moves>>

\* The transaction is rolled back and the client told that it failed.
Refuse(c) == /\ Return(c)
             /\ UNCHANGED <<money, status, made, records, receipts, starts, faults, moves>>

\* Mutant: nothing in the table makes the key unique.
FundAgain(c) ==
    LET r == calls[c].request
        in == r.op = "BANK_TO_TERMINAL"
        n == IF in THEN r.amount ELSE -r.amount
    IN /\ Writes(c, Fundings)
       /\ IF r.amount > (IF in THEN calls[c].read.bank ELSE calls[c].read.cash)
          THEN Refuse(c)
          ELSE /\ bank' = bank - n
               /\ cash' = [cash EXCEPT ![r.portfolio] = calls[c].read.cash + n]
               /\ ledger' = [ledger EXCEPT ![r.portfolio] = @ + n]
               /\ UNCHANGED <<holding, market>>
               /\ Made(c)

\* A transfer between the bank and the portfolio.
Fund(c) ==
    LET r == calls[c].request
        in == r.op = "BANK_TO_TERMINAL"
        n == IF in THEN r.amount ELSE -r.amount
    IN /\ Writes(c, Fundings)
       /\ IF \/ r.amount > (IF in THEN calls[c].read.bank ELSE calls[c].read.cash)
             \/ Rows(r) # {}
          THEN Refuse(c)
          ELSE /\ bank' = bank - n
               /\ cash' = [cash EXCEPT ![r.portfolio] = calls[c].read.cash + n]
               /\ ledger' = [ledger EXCEPT ![r.portfolio] = @ + n]
               /\ UNCHANGED <<holding, market>>
               /\ Made(c)

Fee(gross) == gross \div FeeRate
\* Columns with two decimals: half a cent is rounded up.
Rounded(n) == ((2 * n + Cent) \div (2 * Cent)) * Cent
RoundedDown(n) == (n \div Cent) * Cent

\* What a purchase or a sale does to the market, and its cash to the portfolio.
Bought(gross, m) ==
    [m EXCEPT !.supply = @ + gross - Fee(gross), !.reserve = @ + gross - Fee(gross),
              !.revenue = @ + Fee(gross), !.version = @ + 1]

Payout(gross) == RoundedDown(gross - Fee(gross))

\* Mutant: what rounding leaves over does not stay in the reserve.
SoldLosingDust(gross, m) ==
    [m EXCEPT !.supply = @ - gross, !.reserve = @ - gross,
              !.revenue = @ + Fee(gross), !.version = @ + 1]

Sold(gross, m) ==
    [m EXCEPT !.supply = @ - gross, !.reserve = @ - Payout(gross) - Fee(gross),
              !.revenue = @ + Fee(gross), !.version = @ + 1]

Buy(c) ==
    LET r == calls[c].request
        read == calls[c].read
        after == Bought(r.amount, read.market)
    IN /\ Writes(c, {"BUY"})
       /\ Rows(r) = {}
       /\ IF \/ read.market.version # calls[c].quote
             \/ r.amount > read.cash
             \/ after.reserve < after.supply
          THEN Refuse(c)
          ELSE /\ cash' = [cash EXCEPT ![r.portfolio] = Rounded(read.cash - r.amount)]
               /\ ledger' = [ledger EXCEPT ![r.portfolio] =
                                @ - Rounded(Fee(r.amount)) - Rounded(r.amount - Fee(r.amount))]
               /\ holding' = [holding EXCEPT ![r.portfolio] =
                                read.holding + r.amount - Fee(r.amount)]
               /\ market' = after
               /\ UNCHANGED bank
               /\ Made(c)

Sell(c) ==
    LET r == calls[c].request
        read == calls[c].read
        after == Sold(r.amount, read.market)
    IN /\ Writes(c, {"SELL"})
       /\ Rows(r) = {}
       /\ IF \/ read.market.version # calls[c].quote
             \/ r.amount > read.holding
             \/ after.reserve < after.supply
          THEN Refuse(c)
          ELSE /\ cash' = [cash EXCEPT ![r.portfolio] = read.cash + Payout(r.amount)]
               /\ ledger' = [ledger EXCEPT ![r.portfolio] =
                                @ + Rounded(r.amount) - Rounded(Fee(r.amount))]
               /\ holding' = [holding EXCEPT ![r.portfolio] = read.holding - r.amount]
               /\ market' = after
               /\ UNCHANGED bank
               /\ Made(c)

\* The order exists: the same request gets its settlement again, another one
\* under the same key is refused.
ReplayOrder(c) ==
    /\ Writes(c, Sides)
    /\ Rows(calls[c].request) # {}
    /\ \/ /\ calls[c].request \in Rows(calls[c].request)
          /\ Advance(c, "record")
          /\ UNCHANGED <<money, status, made, records, receipts, starts, faults, moves>>
       \/ calls[c].request \notin Rows(calls[c].request) /\ Refuse(c)

\* Revenue goes to the cash of the portfolio that the configuration names.
Sweep(c) ==
    LET r == calls[c].request
        read == calls[c].read
    IN /\ Writes(c, {"SWEEP"})
       /\ IF \/ read.market.version # calls[c].quote
             \/ r.amount > read.market.revenue
             \/ Rows(r) # {}
          THEN Refuse(c)
          ELSE /\ cash' = [cash EXCEPT ![r.portfolio] = read.cash + r.amount]
               /\ ledger' = [ledger EXCEPT ![r.portfolio] = @ + r.amount]
               /\ market' = [market EXCEPT !.revenue = read.market.revenue - r.amount,
                                           !.version = @ + 1]
               /\ UNCHANGED <<bank, holding>>
               /\ Made(c)

\* Revenue goes to the stabilization fund.
Contribute(c) ==
    LET r == calls[c].request
        read == calls[c].read
    IN /\ Writes(c, {"CONTRIBUTE"})
       /\ IF \/ read.market.version # calls[c].quote
             \/ r.amount > read.market.revenue
             \/ Rows(r) # {}
          THEN Refuse(c)
          ELSE /\ market' = [market EXCEPT
                                !.stabilization = read.market.stabilization + r.amount,
                                !.revenue = read.market.revenue - r.amount,
                                !.version = @ + 1]
               /\ UNCHANGED <<bank, cash, ledger, holding>>
               /\ Made(c)

-----------------------------------------------------------------------------
\* The result is stored; who comes second gives the stored one instead.
Record(c) ==
    LET r == calls[c].request
        k == Key[r]
    IN /\ calls[c].step = "record"
       /\ \/ records[k] = NoRequest /\ records' = [records EXCEPT ![k] = r] /\ Answer(c, r, r)
          \/ records[k] = r /\ UNCHANGED records /\ Answer(c, r, r)
          \/ records[k] \notin {NoRequest, r} /\ UNCHANGED <<records, receipts>> /\ Return(c)
       /\ UNCHANGED <<money, status, made, starts, faults, moves>>

\* A process or its connection is lost: an open transaction is rolled back, a
\* committed one stays without a record, and the client hears nothing.
Crash(c) == /\ calls[c].step # "idle" /\ faults < MaxFaults
            /\ faults' = faults + 1
            /\ Return(c)
            /\ UNCHANGED <<money, status, made, records, receipts, starts, moves>>

\* PostgreSQL aborts a transaction that waits in a ring.
AbortDeadlocked(c) == Deadlocked(c) /\ Refuse(c)

Transitions == {<<"DRAFT", "ACTIVE">>, <<"ACTIVE", "HALTED">>, <<"ACTIVE", "REDEMPTION_ONLY">>,
                <<"HALTED", "REDEMPTION_ONLY">>, <<"HALTED", "ACTIVE">>,
                <<"REDEMPTION_ONLY", "ACTIVE">>, <<"REDEMPTION_ONLY", "HALTED">>,
                <<"REDEMPTION_ONLY", "CLOSED">>, <<"DRAFT", "CLOSED">>}

\* An operator halts, resumes or closes the asset, in one transaction that
\* locks the asset only.  Whether it is ready to be active again is left open.
TransitionAsset(s) ==
    /\ <<status, s>> \in Transitions /\ moves < MaxMoves
    /\ s = "CLOSED" => market.supply = 0
    /\ status' = s /\ moves' = moves + 1
    /\ UNCHANGED <<money, made, records, calls, receipts, starts, faults>>

Step(c) == \/ Lock(c)
           \/ Fund(c)
           \/ Buy(c)
           \/ Sell(c)
           \/ ReplayOrder(c)
           \/ Sweep(c)
           \/ Contribute(c)
           \/ Record(c)

Next == \/ \E c \in Calls : \/ \E r \in Requests : Submit(c, r)
                            \/ Step(c)
                            \/ Crash(c)
                            \/ AbortDeadlocked(c)
        \/ \E s \in {"ACTIVE", "HALTED", "REDEMPTION_ONLY", "CLOSED"} : TransitionAsset(s)

Spec == Init /\ [][Next]_vars

-----------------------------------------------------------------------------
(* Properties. *)

MarketRow == [supply : Int, reserve : Int, stabilization : Int, revenue : Int, version : Nat]
Read == [bank : Int, cash : Int, holding : Int, market : MarketRow]

Locking == [step : {"lock"}, request : Requests, quote : Nat, locked : Nat]
Writing == [step : {"write", "record"}, request : Requests, quote : Nat, locked : Nat,
            read : Read]

TypeOK == /\ bank \in Int /\ market \in MarketRow
          /\ cash \in [Portfolios -> Int] /\ ledger \in [Portfolios -> Int]
          /\ holding \in [Portfolios -> Int]
          /\ status \in {"ACTIVE", "HALTED", "REDEMPTION_ONLY", "CLOSED"}
          /\ made \in [Requests -> Nat]
          /\ records \in [Keys -> Requests \cup {NoRequest}]
          /\ calls \in [Calls -> Locking \cup Writing \cup {Idle}]
          /\ receipts \subseteq Requests \X Requests
          /\ starts \in Nat /\ faults \in Nat /\ moves \in Nat

\* No transaction spends what another one has spent: balances, coins, revenue
\* and the stabilization fund stay at or above zero although every write is of
\* an absolute value (terminal-funding.service.ts:294, crypto-revenue-sweep
\* .service.ts:162, terminal-crypto-execution.service.ts:560).
NothingIsOverdrawn == /\ bank >= 0 /\ market.revenue >= 0 /\ market.stabilization >= 0
                      /\ \A p \in Portfolios : cash[p] >= 0 /\ holding[p] >= 0

OrdersOf(p) == {r \in Requests : r.op \in Sides /\ r.portfolio = p /\ made[r] > 0}
Near(m, n, d) == m - n <= d /\ n - m <= d

\* The cash of a portfolio is what its ledger entries add up to, but for the
\* rounding of the two entries of an order, at most two cents for each order.
CashFollowsItsLedger ==
    \A p \in Portfolios : Near(cash[p], ledger[p], 2 * Cent * Cardinality(OrdersOf(p)))

Total(f) == FoldFunction(+, 0, f)

Florins == bank + Total(cash) + market.reserve + market.stabilization + market.revenue
Started == BankStart + RevenueStart + (CashStart + CoinStart) * Cardinality(Portfolios)
Purchases == {r \in Requests : r.op = "BUY" /\ made[r] > 0}

\* Florins move between the bank, the portfolios and the pots of the market and
\* nowhere else; the rounding of the cash column may create or destroy half a
\* cent for each purchase.
FlorinsAreConserved == Near(2 * Florins, 2 * Started, Cent * Cardinality(Purchases))

\* The coins in circulation are those in the wallets, and the reserve covers
\* them (crypto-reconciliation.service.ts:111 and 257).
CoinsAreBacked == Total(holding) = market.supply /\ market.supply <= market.reserve

Once == INSTANCE OneEffect

\* However often a request is sent, by however many clients at once, and
\* whatever is lost between the transaction and the record of its key: it takes
\* effect at most once, and an answer of success is the result of that effect.
ImplementsOneEffect == Once!Spec

\* The inductive invariant.
PathsAreFollowed == \A c \in Calls :
    /\ calls[c].step = "lock" => calls[c].locked < Len(Path[calls[c].request])
    /\ calls[c].step = "write" => calls[c].locked = Len(Path[calls[c].request])

LocksAreExclusive == \A c, d \in Calls : c # d => Holds(c) \cap Holds(d) = {}

ReadsAreCurrent == \A c \in Calls : calls[c].step = "write" =>
    LET r == calls[c].request
        read == calls[c].read
    IN /\ r.op \in Fundings => read.bank = bank
       /\ r.op # "CONTRIBUTE" => read.cash = cash[r.portfolio]
       /\ r.op \in Sides => read.holding = holding[r.portfolio]
       /\ r.op \notin Fundings => read.market = market

OncePerKey == /\ \A r \in Requests : made[r] \in {0, 1}
              /\ \A r, q \in Requests : made[r] = 1 /\ made[q] = 1 /\ Key[r] = Key[q] => r = q

ResultsAreMade == /\ \A k \in Keys : records[k] # NoRequest => made[records[k]] = 1
                  /\ \A c \in Calls : calls[c].step = "record" => made[calls[c].request] = 1

IInv == /\ TypeOK /\ PathsAreFollowed /\ LocksAreExclusive /\ ReadsAreCurrent
        /\ OncePerKey /\ ResultsAreMade /\ NothingIsOverdrawn
=============================================================================

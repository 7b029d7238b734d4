----------------------------- MODULE BankLedger ------------------------------
(***************************************************************************)
(* The bank ledger of bank.service.ts, ops-account-ops.service.ts and      *)
(* financial-integrity.service.ts: accounts, the transactions that change  *)
(* their balances, holds, and the requests that customers and operators    *)
(* have in flight.                                                         *)
(*                                                                         *)
(* A handler reads and checks first, outside of any database transaction,  *)
(* and writes later: it is two steps here, with what it read kept in       *)
(* calls[c] between them.  A prisma.$transaction is one step: it holds the *)
(* account rows FOR UPDATE, which also blocks the insertion of a hold or   *)
(* of a transaction that references the row, and what may still change     *)
(* under it (a hold released, a withdrawal denied) only raises the         *)
(* available balance it has computed.                                      *)
(***************************************************************************)
EXTENDS Integers, FiniteSets

CONSTANTS Accounts,    \* bank accounts
          TxIds,       \* identifiers of BankTransaction rows (bounds their number)
          HoldIds,     \* identifiers of BankAccountHold rows (bounds their number)
          Calls,       \* handlers running at the same time (bounds concurrency)
          MaxAmount,   \* largest amount of one request
          Flags        \* restrict* flags that operators use

ASSUME LedgerAssumption ==
          /\ IsFiniteSet(TxIds)
          /\ IsFiniteSet(HoldIds)
          /\ MaxAmount \in Nat \ {0}
          /\ Flags \subseteq {"deposits", "withdrawals", "transfers"}

VARIABLES status,      \* BankAccount.status
          balance,     \* BankAccount.balance
          restricted,  \* the restrict* flags that are set
          txs,         \* BankTransaction rows
          holds,       \* BankAccountHold rows
          calls,       \* handlers between their checks and their writes
          overridden   \* history: accounts debited with allowOverdraft

vars == <<status, balance, restricted, txs, holds, calls, overridden>>

Amounts == 1..MaxAmount
Statuses == {"PENDING", "ACTIVE", "FROZEN", "CLOSED"}

NoRow == [status |-> "NONE"]
Idle == [op |-> "idle"]

(* debitText: the description matches /debit adjustment|admin debit/i, the
   test by which reconciliation and reversals tell a debit from a credit.
   reverses: the adjustment named by the reversesAdjustment: review note. *)
TxRow == [account : Accounts, type : {"DEPOSIT", "WITHDRAWAL", "ADJUSTMENT"},
          amount : Amounts, status : {"PENDING", "APPROVED", "DENIED"},
          debitText : BOOLEAN, reverses : SUBSET TxIds]

HoldRow == [account : Accounts, amount : Amounts, status : {"ACTIVE", "RELEASED"}]

HoldReads == {"balance", "reserved", "held"}

Call == [op : {"deposit", "withdrawal"}, account : Accounts, amount : Amounts]
   \cup [op : {"transfer"}, account : Accounts, to : Accounts, amount : Amounts]
   \cup [op : {"setStatus"}, account : Accounts, status : Statuses]
   \cup [op : {"setFlags"}, account : Accounts, flags : SUBSET Flags]
   \cup [op : {"reverse", "adjust"}, account : Accounts, amount : Amounts,
         debit : BOOLEAN, debitText : BOOLEAN, override : BOOLEAN,
         reverses : SUBSET TxIds]
   \cup [op : {"hold"}, account : Accounts, amount : Amounts,
         seen : Int, unread : SUBSET HoldReads]

-----------------------------------------------------------------------------
(* Sums.  The amounts of the rows named by S add up to the number of units
   <<row, i>> with i no larger than the row's amount. *)
Total(S, rows) == Cardinality({u \in S \X Amounts : u[2] <= rows[u[1]].amount})

PendingWithdrawals(rows, a) == {t \in TxIds : /\ rows[t].status = "PENDING"
                                              /\ rows[t].type = "WITHDRAWAL"
                                              /\ rows[t].account = a}

ActiveHolds(rows, a) == {h \in HoldIds : /\ rows[h].status = "ACTIVE"
                                         /\ rows[h].account = a}

Reserved(a) == Total(PendingWithdrawals(txs, a), txs)
Held(a) == Total(ActiveHolds(holds, a), holds)

\* Mutant: the available balance forgets the withdrawals under review.
AvailableWithoutReserved(a) == balance[a] - Held(a)
\* Mutant: the available balance forgets the holds.
AvailableWithoutHeld(a) == balance[a] - Reserved(a)

Available(a) == balance[a] - Reserved(a) - Held(a)

-----------------------------------------------------------------------------
Row(a, type, n, s) ==
    [account |-> a, type |-> type, amount |-> n, status |-> s,
     debitText |-> FALSE, reverses |-> {}]

FreshTx(t) == txs[t] = NoRow

Keep(c, call) == calls' = [calls EXCEPT ![c] = call]
Return(c) == Keep(c, Idle)

Init == /\ status = [a \in Accounts |-> "NONE"]
        /\ balance = [a \in Accounts |-> 0]
        /\ restricted = [a \in Accounts |-> {}]
        /\ txs = [t \in TxIds |-> NoRow]
        /\ holds = [h \in HoldIds |-> NoRow]
        /\ calls = [c \in Calls |-> Idle]
        /\ overridden = {}

ledgerVars == <<status, balance, restricted, txs, holds, overridden>>

\* A check fails, the transaction is rolled back or the process dies: no write.
Reject(c) == /\ calls[c] # Idle
             /\ Return(c)
             /\ UNCHANGED ledgerVars

-----------------------------------------------------------------------------
(* Customer requests. *)

\* Accounts of most types open at once, the others wait for an approval.
OpenBankAccount(a, s) ==
    /\ status[a] = "NONE"
    /\ status' = [status EXCEPT ![a] = s]
    /\ UNCHANGED <<balance, restricted, txs, holds, calls, overridden>>

BeginDeposit(c, a, n) ==
    /\ calls[c] = Idle
    /\ status[a] = "ACTIVE"
    /\ "deposits" \notin restricted[a]
    /\ Keep(c, [op |-> "deposit", account |-> a, amount |-> n])
    /\ UNCHANGED ledgerVars

SubmitDepositRequest(c, t) ==
    LET k == calls[c] IN
    /\ k.op = "deposit"
    /\ FreshTx(t)
    /\ txs' = [txs EXCEPT ![t] = Row(k.account, "DEPOSIT", k.amount, "PENDING")]
    /\ Return(c)
    /\ UNCHANGED <<status, balance, restricted, holds, overridden>>

BeginWithdrawal(c, a, n) ==
    /\ calls[c] = Idle
    /\ status[a] = "ACTIVE"
    /\ "withdrawals" \notin restricted[a]
    /\ Keep(c, [op |-> "withdrawal", account |-> a, amount |-> n])
    /\ UNCHANGED ledgerVars

SubmitWithdrawalRequest(c, t) ==
    LET k == calls[c] IN
    /\ k.op = "withdrawal"
    /\ k.amount <= Available(k.account)
    /\ FreshTx(t)
    /\ txs' = [txs EXCEPT ![t] = Row(k.account, "WITHDRAWAL", k.amount, "PENDING")]
    /\ Return(c)
    /\ UNCHANGED <<status, balance, restricted, holds, overridden>>

BeginTransfer(c, a, b, n) ==
    /\ calls[c] = Idle
    /\ a # b
    /\ status[a] = "ACTIVE"
    /\ status[b] = "ACTIVE"
    /\ Keep(c, [op |-> "transfer", account |-> a, to |-> b, amount |-> n])
    /\ UNCHANGED ledgerVars

SubmitInternalTransfer(c, a, b, n) ==
    /\ "transfers" \notin restricted[a]
    /\ "deposits" \notin restricted[b]
    /\ BeginTransfer(c, a, b, n)

\* An operator's transfer does not look at the restrictions.
SubmitOperatorInternalTransfer(c, a, b, n) == BeginTransfer(c, a, b, n)

\* Both accounts are locked in order; the debit, the credit and both legs commit.
ExecuteTransfer(c, out, in) ==
    LET k == calls[c] IN
    /\ k.op = "transfer"
    /\ k.amount <= Available(k.account)
    /\ out # in /\ FreshTx(out) /\ FreshTx(in)
    /\ balance' = [balance EXCEPT ![k.account] = @ - k.amount, ![k.to] = @ + k.amount]
    /\ txs' = [txs EXCEPT ![out] = Row(k.account, "WITHDRAWAL", k.amount, "APPROVED"),
                          ![in] = Row(k.to, "DEPOSIT", k.amount, "APPROVED")]
    /\ Return(c)
    /\ UNCHANGED <<status, restricted, holds, overridden>>

-----------------------------------------------------------------------------
(* Operator reviews: one database transaction each, with the row locked. *)

\* Mutant: the row is not looked at again once it is locked.
ReviewAgain(t, type, outcome) ==
    /\ txs[t].status # "NONE"
    /\ txs[t].type = type
    /\ txs' = [txs EXCEPT ![t].status = outcome]
    /\ UNCHANGED <<status, restricted, holds, calls, overridden>>

Review(t, type, outcome) ==
    /\ txs[t].status = "PENDING"
    /\ txs[t].type = type
    /\ txs' = [txs EXCEPT ![t].status = outcome]
    /\ UNCHANGED <<status, restricted, holds, calls, overridden>>

\* The account's status is not looked at: it may be frozen or closed by now.
ApproveDeposit(t) ==
    /\ Review(t, "DEPOSIT", "APPROVED")
    /\ balance' = [balance EXCEPT ![txs[t].account] = @ + txs[t].amount]

DenyDeposit(t) == Review(t, "DEPOSIT", "DENIED") /\ UNCHANGED balance

\* Mutant: the funds are not checked again at the approval.
ApproveWithdrawalUnchecked(t) ==
    /\ Review(t, "WITHDRAWAL", "APPROVED")
    /\ balance' = [balance EXCEPT ![txs[t].account] = @ - txs[t].amount]

\* The withdrawal under review is left out of what is reserved.
ApproveWithdrawal(t) ==
    /\ Review(t, "WITHDRAWAL", "APPROVED")
    /\ txs[t].amount <= Available(txs[t].account) + txs[t].amount
    /\ balance' = [balance EXCEPT ![txs[t].account] = @ - txs[t].amount]

\* Mutant: a denied withdrawal is paid back, although nothing was taken.
DenyWithdrawalRefunds(t) ==
    /\ Review(t, "WITHDRAWAL", "DENIED")
    /\ balance' = [balance EXCEPT ![txs[t].account] = @ + txs[t].amount]

DenyWithdrawal(t) == Review(t, "WITHDRAWAL", "DENIED") /\ UNCHANGED balance

-----------------------------------------------------------------------------
(* Account status and restrictions: read, checked, then written without a
   lock and without a condition on what was read. *)

BeginStatus(c, a, from, new) ==
    /\ calls[c] = Idle
    /\ status[a] \in from
    /\ Keep(c, [op |-> "setStatus", account |-> a, status |-> new])
    /\ UNCHANGED ledgerVars

ApproveBankAccount(c, a) == BeginStatus(c, a, {"PENDING"}, "ACTIVE")
FreezeBankAccount(c, a) == BeginStatus(c, a, Statuses \ {"CLOSED"}, "FROZEN")
UnfreezeBankAccount(c, a) == BeginStatus(c, a, {"FROZEN"}, "ACTIVE")
ReopenBankAccount(c, a) == BeginStatus(c, a, {"CLOSED"}, "ACTIVE")
CloseBankAccount(c, a) == /\ balance[a] = 0
                          /\ BeginStatus(c, a, Statuses \ {"CLOSED"}, "CLOSED")

WriteStatus(c) ==
    LET k == calls[c] IN
    /\ k.op = "setStatus"
    /\ status' = [status EXCEPT ![k.account] = k.status]
    /\ Return(c)
    /\ UNCHANGED <<balance, restricted, txs, holds, overridden>>

\* Flags that the operator does not name are written back as they were read.
SetAccountRestrictions(c, a, named, on) ==
    /\ calls[c] = Idle
    /\ on \subseteq named
    /\ Keep(c, [op |-> "setFlags", account |-> a,
                flags |-> (restricted[a] \ named) \cup on])
    /\ UNCHANGED ledgerVars

WriteRestrictions(c) ==
    LET k == calls[c] IN
    /\ k.op = "setFlags"
    /\ restricted' = [restricted EXCEPT ![k.account] = k.flags]
    /\ Return(c)
    /\ UNCHANGED <<status, balance, txs, holds, overridden>>

-----------------------------------------------------------------------------
(* Adjustments and their reversals. *)

BeginAdjustment(c, a, n, debit, override) ==
    /\ calls[c] = Idle
    /\ status[a] = "ACTIVE"
    /\ Keep(c, [op |-> "adjust", account |-> a, amount |-> n, debit |-> debit,
                debitText |-> debit, override |-> override, reverses |-> {}])
    /\ UNCHANGED ledgerVars

\* The approved adjustments that name t as the one they reverse.
Reversals(t) == {s \in TxIds : txs[s].status = "APPROVED" /\ t \in txs[s].reverses}

\* Mutant: the reversal moves the money in the direction of the original.
ReverseSameWay(c, t, override) ==
    LET r == txs[t] IN
    /\ calls[c] = Idle
    /\ r.status = "APPROVED" /\ r.type = "ADJUSTMENT"
    /\ r.reverses = {}
    /\ Reversals(t) = {}
    /\ Keep(c, [op |-> "reverse", account |-> r.account, amount |-> r.amount,
                debit |-> r.debitText, debitText |-> r.debitText,
                override |-> override, reverses |-> {t}])
    /\ UNCHANGED ledgerVars

\* A reversal's description is "Reversal" and the description it reverses.
ReverseAdjustment(c, t, override) ==
    LET r == txs[t] IN
    /\ calls[c] = Idle
    /\ r.status = "APPROVED" /\ r.type = "ADJUSTMENT"
    /\ r.reverses = {}
    /\ Reversals(t) = {}
    /\ Keep(c, [op |-> "reverse", account |-> r.account, amount |-> r.amount,
                debit |-> ~r.debitText, debitText |-> r.debitText,
                override |-> override, reverses |-> {t}])
    /\ UNCHANGED ledgerVars

\* adminAdjustBankAccount, called by the reversal, reads the account on its own.
CheckReversal(c) ==
    LET k == calls[c] IN
    /\ k.op = "reverse"
    /\ status[k.account] = "ACTIVE"
    /\ Keep(c, [k EXCEPT !.op = "adjust"])
    /\ UNCHANGED ledgerVars

PostAdjustment(c, t) ==
    LET k == calls[c]
        override == k.debit /\ k.override IN
    /\ k.op = "adjust"
    /\ k.debit /\ ~override => k.amount <= Available(k.account)
    /\ FreshTx(t)
    /\ balance' = [balance EXCEPT ![k.account] =
                       IF k.debit THEN @ - k.amount ELSE @ + k.amount]
    /\ txs' = [txs EXCEPT ![t] =
                   [account |-> k.account, type |-> "ADJUSTMENT", amount |-> k.amount,
                    status |-> "APPROVED", debitText |-> k.debitText,
                    reverses |-> k.reverses]]
    /\ overridden' = IF override THEN overridden \cup {k.account} ELSE overridden
    /\ Return(c)
    /\ UNCHANGED <<status, restricted, holds>>

-----------------------------------------------------------------------------
(* Holds.  applyAccountHold reads the status, then the balance, then what is
   reserved and what is held, these two in either order, and inserts the row:
   no lock and no transaction holds these steps together. *)

ApplyAccountHold(c, a, n) ==
    /\ calls[c] = Idle
    /\ status[a] = "ACTIVE"
    /\ Keep(c, [op |-> "hold", account |-> a, amount |-> n, seen |-> 0,
                unread |-> HoldReads])
    /\ UNCHANGED ledgerVars

ReadForHold(c, part) ==
    LET k == calls[c]
        read == CASE part = "balance" -> balance[k.account]
                  [] part = "reserved" -> -Reserved(k.account)
                  [] part = "held" -> -Held(k.account) IN
    /\ k.op = "hold"
    /\ part \in k.unread
    /\ part # "balance" => "balance" \notin k.unread
    /\ Keep(c, [k EXCEPT !.seen = @ + read, !.unread = @ \ {part}])
    /\ UNCHANGED ledgerVars

InsertHold(c, h) ==
    LET k == calls[c] IN
    /\ k.op = "hold"
    /\ k.unread = {}
    /\ k.amount <= k.seen
    /\ holds[h] = NoRow
    /\ holds' = [holds EXCEPT ![h] = [account |-> k.account, amount |-> k.amount,
                                      status |-> "ACTIVE"]]
    /\ Return(c)
    /\ UNCHANGED <<status, balance, restricted, txs, overridden>>

\* Releasing twice writes the same row again, so the unlocked check is harmless.
ReleaseAccountHold(h) ==
    /\ holds[h].status = "ACTIVE"
    /\ holds' = [holds EXCEPT ![h].status = "RELEASED"]
    /\ UNCHANGED <<status, balance, restricted, txs, calls, overridden>>

-----------------------------------------------------------------------------
CustomerCall(c) ==
    \E a \in Accounts, n \in Amounts :
       \/ BeginDeposit(c, a, n)
       \/ BeginWithdrawal(c, a, n)
       \/ \E b \in Accounts : SubmitInternalTransfer(c, a, b, n)

OperatorCall(c) ==
    \/ \E a, b \in Accounts, n \in Amounts : SubmitOperatorInternalTransfer(c, a, b, n)
    \/ \E a \in Accounts :
          \/ ApproveBankAccount(c, a)
          \/ FreezeBankAccount(c, a)
          \/ UnfreezeBankAccount(c, a)
          \/ ReopenBankAccount(c, a)
          \/ CloseBankAccount(c, a)
          \/ \E named, on \in SUBSET Flags : SetAccountRestrictions(c, a, named, on)
          \/ \E n \in Amounts : ApplyAccountHold(c, a, n)
          \/ \E n \in Amounts, debit, override \in BOOLEAN :
                BeginAdjustment(c, a, n, debit, override)
    \/ \E t \in TxIds, override \in BOOLEAN : ReverseAdjustment(c, t, override)

FinishCall(c) ==
    \/ Reject(c)
    \/ WriteStatus(c)
    \/ WriteRestrictions(c)
    \/ CheckReversal(c)
    \/ \E part \in HoldReads : ReadForHold(c, part)
    \/ \E h \in HoldIds : InsertHold(c, h)
    \/ \E t \in TxIds : \/ SubmitDepositRequest(c, t)
                        \/ SubmitWithdrawalRequest(c, t)
                        \/ PostAdjustment(c, t)
                        \/ \E u \in TxIds : ExecuteTransfer(c, t, u)

ReviewRow(t) == \/ ApproveDeposit(t)
                \/ DenyDeposit(t)
                \/ ApproveWithdrawal(t)
                \/ DenyWithdrawal(t)

Next == \/ \E a \in Accounts, s \in {"PENDING", "ACTIVE"} : OpenBankAccount(a, s)
        \/ \E c \in Calls : CustomerCall(c) \/ OperatorCall(c) \/ FinishCall(c)
        \/ \E t \in TxIds : ReviewRow(t)
        \/ \E h \in HoldIds : ReleaseAccountHold(h)

Spec == Init /\ [][Next]_vars
-----------------------------------------------------------------------------
(* Properties. *)

TypeOK == /\ status \in [Accounts -> Statuses \cup {"NONE"}]
          /\ balance \in [Accounts -> Int]
          /\ restricted \in [Accounts -> SUBSET Flags]
          /\ txs \in [TxIds -> TxRow \cup {NoRow}]
          /\ holds \in [HoldIds -> HoldRow \cup {NoRow}]
          /\ calls \in [Calls -> Call \cup {Idle}]
          /\ overridden \in SUBSET Accounts

(* What reconciliation makes of the approved rows: signedAmountForTransaction
   takes an adjustment for a debit when its description says so. *)
Approved(rows, a) == {t \in TxIds : /\ rows[t].status = "APPROVED"
                                    /\ rows[t].account = a}

CountedAsDebit(row) == \/ row.type = "WITHDRAWAL"
                       \/ row.type = "ADJUSTMENT" /\ row.debitText

Credits(rows, a) == {t \in Approved(rows, a) : ~CountedAsDebit(rows[t])}
Debits(rows, a) == {t \in Approved(rows, a) : CountedAsDebit(rows[t])}

LedgerBalance(a) == Total(Credits(txs, a), txs) - Total(Debits(txs, a), txs)

\* Reversals of debits and of credits: the description is that of the original.
DebitReversals(rows, a) == {t \in Debits(rows, a) : rows[t].reverses # {}}
CreditReversals(rows, a) == {t \in Credits(rows, a) : rows[t].reverses # {}}

(* The stored balance is the sum of the approved rows, row by row, in whatever
   order handlers interleave, except for reversals: a reversal moves the money
   the other way and keeps the description that tells its sign, so each one
   shifts what reconciliation computes by twice its amount. *)
DriftIsReversals ==
    \A a \in Accounts : balance[a] = LedgerBalance(a)
                                      + 2 * Total(DebitReversals(txs, a), txs)
                                      - 2 * Total(CreditReversals(txs, a), txs)

(* The direction of an adjustment in flight follows from its description and
   from whether it reverses another one; a transfer is between two accounts;
   only adjustments reverse, and they are posted approved. *)
CallAgrees(k) ==
    /\ k.op \in {"adjust", "reverse"} => (k.debit <=> (k.debitText <=> k.reverses = {}))
    /\ k.op = "transfer" => k.account # k.to

CallsAgree == \A c \in Calls : CallAgrees(calls[c])

RowsAgree == \A t \in TxIds : txs[t] # NoRow =>
                IF txs[t].type = "ADJUSTMENT"
                THEN txs[t].status = "APPROVED"
                ELSE txs[t].reverses = {} /\ ~txs[t].debitText

(* The withdrawals waiting for a review are covered by the balance of their
   account, so no account is overdrawn, unless an administrator's override
   debited it: assertAccountAvailableForDebitInTx under the row lock. *)
WithdrawalsCovered ==
    \A a \in Accounts \ overridden : Reserved(a) <= balance[a]

(* The inductive invariant behind the reconciliation of balances and rows. *)
IInv == /\ TypeOK
        /\ CallsAgree
        /\ RowsAgree
        /\ DriftIsReversals

(* No step but an override takes money that is reserved or held: after a
   debit what is left still covers every pending withdrawal and every active
   hold, although the checks of the handlers that wrote them are long past. *)
DebitsRespectReservations ==
    [][\A a \in Accounts :
          balance'[a] < balance[a] /\ overridden' = overridden
          /\ a \notin overridden => balance'[a] >= Reserved(a)' + Held(a)']_vars

(* A reviewed request keeps its outcome and its amount, whoever else reviews
   it at the same time; a row never changes account, type or amount. *)
ReviewsAreFinal ==
    [][\A t \in TxIds : txs[t] # NoRow =>
          \/ txs'[t] = txs[t]
          \/ /\ txs[t].status = "PENDING"
             /\ txs'[t] = [txs[t] EXCEPT !.status = txs'[t].status]]_vars

(* The ledger implements the account book. *)
Book == INSTANCE AccountBook WITH reserved <- [a \in Accounts |-> Reserved(a)]
ImplementsBook == Book!Spec

=============================================================================

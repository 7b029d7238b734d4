-------------------------- MODULE BankLedgerProofs ---------------------------
(***************************************************************************)
(* Theorems about BankLedger: type correctness, the inductive invariant    *)
(* behind the reconciliation of balances and rows and behind the cover of  *)
(* pending withdrawals, and the refinement of AccountBook.                 *)
(***************************************************************************)
EXTENDS BankLedger, FiniteSetTheorems, TLAPS

-----------------------------------------------------------------------------
(* Sums of amounts. *)

LEMMA AmountsAreFinite == IsFiniteSet(Amounts)
BY FS_Interval, LedgerAssumption DEF Amounts

(* The units of a finite set of rows are finite. *)
LEMMA UnitsAreFinite ==
  ASSUME NEW S, IsFiniteSet(S), NEW rows
  PROVE  IsFiniteSet({u \in S \X Amounts : u[2] <= rows[u[1]].amount})
<1>1. IsFiniteSet(S \X Amounts)
  BY AmountsAreFinite, FS_Product, Zenon
<1>2. {u \in S \X Amounts : u[2] <= rows[u[1]].amount} \in SUBSET (S \X Amounts)
  OBVIOUS
<1> QED
  BY <1>1, <1>2, FS_Subset, Zenon

(* A sum over a finite set of rows is a natural number. *)
LEMMA TotalIsNat ==
  ASSUME NEW S, IsFiniteSet(S), NEW rows
  PROVE  Total(S, rows) \in Nat
BY UnitsAreFinite, FS_CardinalityType, Zenon DEF Total

(* Only the amounts of the rows that are named matter to a sum. *)
LEMMA TotalAgrees ==
  ASSUME NEW S, NEW rows, NEW new,
         \A s \in S : new[s].amount = rows[s].amount
  PROVE  Total(S, new) = Total(S, rows)
<1>1. {u \in S \X Amounts : u[2] <= new[u[1]].amount}
        = {u \in S \X Amounts : u[2] <= rows[u[1]].amount}
  OBVIOUS
<1> QED
  BY <1>1 DEF Total

(* A row that joins a sum raises it by its amount. *)
LEMMA TotalAdd ==
  ASSUME NEW S, IsFiniteSet(S), NEW rows, NEW t, t \notin S,
         rows[t].amount \in Amounts
  PROVE  Total(S \cup {t}, rows) = Total(S, rows) + rows[t].amount
<1> DEFINE n == rows[t].amount
           U == {u \in S \X Amounts : u[2] <= rows[u[1]].amount}
           V == {t} \X (1..n)
           W == {u \in (S \cup {t}) \X Amounts : u[2] <= rows[u[1]].amount}
<1>0. n \in Nat /\ 1 <= n /\ n <= MaxAmount
  BY LedgerAssumption DEF Amounts
<1>1. IsFiniteSet(U) /\ Cardinality(U) \in Nat
  BY UnitsAreFinite, FS_CardinalityType, Zenon
<1>2. IsFiniteSet(V) /\ Cardinality(V) = n
  <2>1. IsFiniteSet({t}) /\ Cardinality({t}) = 1
    BY FS_Singleton
  <2>2. IsFiniteSet(1..n) /\ Cardinality(1..n) = n
    <3>1. 1 \in Int /\ n \in Int
      BY <1>0
    <3>2. IsFiniteSet(1..n) /\ Cardinality(1..n) = IF 1 > n THEN 0 ELSE n - 1 + 1
      BY <3>1, FS_Interval, Zenon
    <3> QED
      BY <3>2, <1>0
  <2>3. IsFiniteSet(V) /\ Cardinality(V) = Cardinality({t}) * Cardinality(1..n)
    BY <2>1, <2>2, FS_Product, Zenon
  <2> QED
    BY <1>0, <2>1, <2>2, <2>3
<1>3. W = U \cup V
  BY <1>0, LedgerAssumption DEF Amounts
<1>4. U \cap V = {}
  OBVIOUS
<1>5. Cardinality(U \cup V) = Cardinality(U) + Cardinality(V) - Cardinality(U \cap V)
  BY <1>1, <1>2, FS_Union, Zenon
<1>6. Cardinality(U \cap V) = 0
  BY <1>4, FS_EmptySet, Zenon
<1>7. Total(S, rows) = Cardinality(U) /\ Total(S \cup {t}, rows) = Cardinality(W)
  BY DEF Total
<1> HIDE DEF U, V, W
<1> QED
  BY <1>0, <1>1, <1>2, <1>3, <1>5, <1>6, <1>7

(* The sum over the rows whose content is in R: an update of one row takes the
   old amount out, if the old content was in R, and adds the new one, if the new
   content is. *)
Weight(row, R) == IF row \in R THEN row.amount ELSE 0

Picked(rows, Ids, R) == {t \in Ids : rows[t] \in R}

LEMMA TotalUpdate ==
  ASSUME NEW Ids, NEW R, NEW rows, NEW new, NEW t,
         IsFiniteSet(Ids), t \in Ids,
         \A r \in R : r.amount \in Amounts,
         \A s \in Ids \ {t} : new[s] = rows[s]
  PROVE  /\ Total(Picked(rows, Ids, R), rows) \in Nat
         /\ Total(Picked(new, Ids, R), new) \in Nat
         /\ Total(Picked(new, Ids, R), new) =
               Total(Picked(rows, Ids, R), rows)
                  - Weight(rows[t], R) + Weight(new[t], R)
<1> DEFINE S == Picked(rows, Ids, R) \ {t}
<1>1. IsFiniteSet(S) /\ t \notin S
  <2>1. S \in SUBSET Ids
    BY DEF Picked
  <2> QED
    BY <2>1, FS_Subset, Zenon
<1>2. Total(S, new) = Total(S, rows) /\ Total(S, rows) \in Nat
  <2>1. \A s \in S : new[s].amount = rows[s].amount
    BY DEF Picked
  <2> QED
    BY <1>1, <2>1, TotalAgrees, TotalIsNat, Zenon
<1>3. ASSUME NEW f, \A s \in Ids \ {t} : f[s] = rows[s]
      PROVE  Total(Picked(f, Ids, R), f) = Total(S, f) + Weight(f[t], R)
  <2>1. CASE f[t] \in R
    <3>1. Picked(f, Ids, R) = S \cup {t}
      BY <1>3, <2>1 DEF Picked
    <3>2. f[t].amount \in Amounts
      BY <2>1
    <3>3. Total(S \cup {t}, f) = Total(S, f) + f[t].amount
      <4> HIDE DEF S
      <4> QED
        BY <1>1, <3>2, TotalAdd
    <3> QED
      BY <2>1, <3>1, <3>3 DEF Weight
  <2>2. CASE f[t] \notin R
    <3>1. Picked(f, Ids, R) = S
      BY <1>3, <2>2 DEF Picked
    <3>2. Total(S, f) \in Nat
      BY <1>1, TotalIsNat, Zenon
    <3> QED
      BY <2>2, <3>1, <3>2 DEF Weight
  <2> QED
    BY <2>1, <2>2
<1>4. Weight(rows[t], R) \in Nat /\ Weight(new[t], R) \in Nat
  BY LedgerAssumption DEF Weight, Amounts
<1>5. Total(Picked(rows, Ids, R), rows) = Total(S, rows) + Weight(rows[t], R)
  BY <1>3, Zenon
<1>6. Total(Picked(new, Ids, R), new) = Total(S, new) + Weight(new[t], R)
  BY <1>3, Zenon
<1> HIDE DEF S
<1> QED
  BY <1>2, <1>4, <1>5, <1>6

-----------------------------------------------------------------------------
(* The sums of BankLedger as sums over classes of rows. *)

PendingClass(a) == {r \in TxRow : r.status = "PENDING" /\ r.type = "WITHDRAWAL" /\ r.account = a}
ApprovedClass(a) == {r \in TxRow : r.status = "APPROVED" /\ r.account = a}
CreditClass(a) == {r \in ApprovedClass(a) : ~CountedAsDebit(r)}
DebitClass(a) == {r \in ApprovedClass(a) : CountedAsDebit(r)}
DebitReversalClass(a) == {r \in DebitClass(a) : r.reverses # {}}
CreditReversalClass(a) == {r \in CreditClass(a) : r.reverses # {}}
HoldClass(a) == {r \in HoldRow : r.status = "ACTIVE" /\ r.account = a}

TxTable == [TxIds -> TxRow \cup {NoRow}]
HoldTable == [HoldIds -> HoldRow \cup {NoRow}]

(* The balance that the approved rows amount to, and one row's part in it. *)
Net(rows, a) == Total(Credits(rows, a), rows) - Total(Debits(rows, a), rows)
                  + 2 * Total(DebitReversals(rows, a), rows)
                  - 2 * Total(CreditReversals(rows, a), rows)

Effect(row, a) == Weight(row, CreditClass(a)) - Weight(row, DebitClass(a))
                    + 2 * Weight(row, DebitReversalClass(a))
                    - 2 * Weight(row, CreditReversalClass(a))

Pending(rows, a) == Total(PendingWithdrawals(rows, a), rows)

LEMMA ClassesAreRows ==
  ASSUME NEW a
  PROVE  /\ PendingClass(a) \subseteq TxRow
         /\ CreditClass(a) \subseteq TxRow
         /\ DebitClass(a) \subseteq TxRow
         /\ DebitReversalClass(a) \subseteq TxRow
         /\ CreditReversalClass(a) \subseteq TxRow
BY DEF PendingClass, CreditClass, DebitClass, DebitReversalClass,
   CreditReversalClass, ApprovedClass

LEMMA RowsInClasses ==
  ASSUME NEW rows \in TxTable, NEW a
  PROVE  /\ PendingWithdrawals(rows, a) = Picked(rows, TxIds, PendingClass(a))
         /\ Credits(rows, a) = Picked(rows, TxIds, CreditClass(a))
         /\ Debits(rows, a) = Picked(rows, TxIds, DebitClass(a))
         /\ DebitReversals(rows, a) = Picked(rows, TxIds, DebitReversalClass(a))
         /\ CreditReversals(rows, a) = Picked(rows, TxIds, CreditReversalClass(a))
<1>1. \A t \in TxIds : \/ rows[t] \in TxRow
                       \/ rows[t] \notin TxRow /\ rows[t].status = "NONE"
  BY DEF TxTable, NoRow, TxRow
<1>2. Approved(rows, a) = Picked(rows, TxIds, ApprovedClass(a))
  BY <1>1 DEF Approved, Picked, ApprovedClass
<1> QED
  BY <1>1, <1>2 DEF PendingWithdrawals, Credits, Debits, DebitReversals, CreditReversals, Picked,
                    PendingClass, CreditClass, DebitClass,
                    DebitReversalClass, CreditReversalClass, ApprovedClass

(* What an update of one row does to the sums of an account. *)
LEMMA RowUpdate ==
  ASSUME NEW rows \in TxTable, NEW t \in TxIds, NEW row \in TxRow, NEW a
  PROVE  LET new == [rows EXCEPT ![t] = row] IN
         /\ new \in TxTable
         /\ Pending(rows, a) \in Nat
         /\ Pending(new, a) \in Nat
         /\ Pending(new, a) = Pending(rows, a) - Weight(rows[t], PendingClass(a))
                                              + Weight(row, PendingClass(a))
         /\ Net(rows, a) \in Int
         /\ Net(new, a) = Net(rows, a) - Effect(rows[t], a) + Effect(row, a)
<1> DEFINE new == [rows EXCEPT ![t] = row]
<1>1. new \in TxTable /\ new[t] = row
  BY DEF TxTable
<1>2. \A s \in TxIds \ {t} : new[s] = rows[s]
  BY DEF TxTable
<1>3. ASSUME NEW R, R \subseteq TxRow
      PROVE  /\ Total(Picked(rows, TxIds, R), rows) \in Nat
             /\ Total(Picked(new, TxIds, R), new) \in Nat
             /\ Total(Picked(new, TxIds, R), new) =
                  Total(Picked(rows, TxIds, R), rows) - Weight(rows[t], R) + Weight(row, R)
             /\ Weight(rows[t], R) \in Nat
             /\ Weight(row, R) \in Nat
  <2>1. \A r \in R : r.amount \in Amounts
    BY <1>3 DEF TxRow
  <2>2. IsFiniteSet(TxIds)
    BY LedgerAssumption
  <2>3. Weight(rows[t], R) \in Nat /\ Weight(row, R) \in Nat
    BY <2>1, LedgerAssumption DEF Weight, Amounts
  <2> HIDE DEF new
  <2>4. /\ Total(Picked(rows, TxIds, R), rows) \in Nat
        /\ Total(Picked(new, TxIds, R), new) \in Nat
        /\ Total(Picked(new, TxIds, R), new) =
             Total(Picked(rows, TxIds, R), rows) - Weight(rows[t], R) + Weight(new[t], R)
    BY <1>2, <2>1, <2>2, TotalUpdate
  <2> QED
    BY <1>1, <2>3, <2>4
<1>4. /\ PendingClass(a) \subseteq TxRow /\ CreditClass(a) \subseteq TxRow
      /\ DebitClass(a) \subseteq TxRow
      /\ DebitReversalClass(a) \subseteq TxRow
      /\ CreditReversalClass(a) \subseteq TxRow
  BY ClassesAreRows
<1> HIDE DEF new
<1>5. \A f \in {rows, new} :
         /\ PendingWithdrawals(f, a) = Picked(f, TxIds, PendingClass(a))
         /\ Credits(f, a) = Picked(f, TxIds, CreditClass(a))
         /\ Debits(f, a) = Picked(f, TxIds, DebitClass(a))
         /\ DebitReversals(f, a) = Picked(f, TxIds, DebitReversalClass(a))
         /\ CreditReversals(f, a) = Picked(f, TxIds, CreditReversalClass(a))
  BY <1>1, RowsInClasses
<1>6. /\ Pending(rows, a) \in Nat /\ Pending(new, a) \in Nat
      /\ Pending(new, a) = Pending(rows, a) - Weight(rows[t], PendingClass(a))
                                           + Weight(row, PendingClass(a))
  BY <1>3, <1>4, <1>5 DEF Pending
<1>7. Net(rows, a) \in Int /\ Net(new, a) = Net(rows, a) - Effect(rows[t], a) + Effect(row, a)
  <2> DEFINE T(f, R) == Total(Picked(f, TxIds, R), f)
             C == CreditClass(a)
             D == DebitClass(a)
             P == DebitReversalClass(a)
             Q == CreditReversalClass(a)
  <2>1. \A f \in {rows, new} : Net(f, a) = T(f, C) - T(f, D) + 2 * T(f, P) - 2 * T(f, Q)
    BY <1>5 DEF Net
  <2>2. Effect(rows[t], a) = Weight(rows[t], C) - Weight(rows[t], D)
                               + 2 * Weight(rows[t], P) - 2 * Weight(rows[t], Q)
    BY DEF Effect
  <2>3. Effect(row, a) = Weight(row, C) - Weight(row, D)
                               + 2 * Weight(row, P) - 2 * Weight(row, Q)
    BY DEF Effect
  <2>4. \A R \in {C, D, P, Q} :
           /\ T(rows, R) \in Nat /\ T(new, R) \in Nat
           /\ T(new, R) = T(rows, R) - Weight(rows[t], R) + Weight(row, R)
           /\ Weight(rows[t], R) \in Nat /\ Weight(row, R) \in Nat
    BY <1>3, <1>4
  <2> HIDE DEF T, C, D, P, Q
  <2> QED
    BY <2>1, <2>2, <2>3, <2>4
<1> QED
  BY <1>1, <1>6, <1>7 DEF new
-----------------------------------------------------------------------------
(* Types. *)

(* What the operation of a call in flight says about its other fields. *)
LEMMA CallFields ==
  ASSUME NEW k \in Call \cup {Idle}
  PROVE  /\ k.op \in {"deposit", "withdrawal", "hold", "transfer", "adjust", "reverse"}
              => k.account \in Accounts /\ k.amount \in Amounts
         /\ k.op = "hold" => k \in [op : {"hold"}, account : Accounts, amount : Amounts,
                                 seen : Int, unread : SUBSET HoldReads]
         /\ k.op = "transfer" => k.to \in Accounts
         /\ k.op = "setStatus" => k.account \in Accounts /\ k.status \in Statuses
         /\ k.op = "setFlags" => k.account \in Accounts /\ k.flags \in SUBSET Flags
         /\ k.op \in {"adjust", "reverse"}
              => /\ k \in [op : {"reverse", "adjust"}, account : Accounts,
                            amount : Amounts, debit : BOOLEAN, debitText : BOOLEAN,
                            override : BOOLEAN, reverses : SUBSET TxIds]
                 /\ k.debit \in BOOLEAN /\ k.debitText \in BOOLEAN
                 /\ k.override \in BOOLEAN /\ k.reverses \in SUBSET TxIds
BY DEF Call, Idle

LEMMA RowFields ==
  ASSUME TypeOK, NEW t \in TxIds, txs[t].status \in {"PENDING", "APPROVED"}
  PROVE  /\ txs[t] \in TxRow
         /\ txs[t].account \in Accounts
         /\ txs[t].amount \in Amounts
         /\ txs[t].debitText \in BOOLEAN
         /\ txs[t].reverses \in SUBSET TxIds
<1>1. txs[t] \in TxRow \cup {NoRow} /\ txs[t] # NoRow
  BY DEF TypeOK, NoRow
<1> QED
  BY <1>1 DEF TxRow

LEMMA NewRow ==
  ASSUME NEW a \in Accounts, NEW type \in {"DEPOSIT", "WITHDRAWAL"}, NEW n \in Amounts,
         NEW s \in {"PENDING", "APPROVED"}
  PROVE  Row(a, type, n, s) \in TxRow
BY DEF Row, TxRow

LEMMA AmountsAreNat == Amounts \subseteq Nat
BY LedgerAssumption DEF Amounts

(* A handler that has only read: it changes no row, and the call it keeps is
   well-formed. *)
LEMMA KeepsType ==
  ASSUME TypeOK, UNCHANGED ledgerVars, NEW c \in Calls, NEW k \in Call \cup {Idle},
         Keep(c, k)
  PROVE  TypeOK'
BY DEF TypeOK, ledgerVars, Keep

LEMMA TransferType ==
  ASSUME TypeOK, NEW c \in Calls, NEW a \in Accounts, NEW b \in Accounts, NEW n \in Amounts,
         BeginTransfer(c, a, b, n)
  PROVE  TypeOK'
<1>1. [op |-> "transfer", account |-> a, to |-> b, amount |-> n] \in Call
  BY DEF Call
<1> QED
  BY <1>1, KeepsType DEF BeginTransfer

LEMMA CustomerCallType ==
  ASSUME TypeOK, NEW c \in Calls, CustomerCall(c)
  PROVE  TypeOK'
<1>1. PICK a \in Accounts, n \in Amounts :
         \/ BeginDeposit(c, a, n)
         \/ BeginWithdrawal(c, a, n)
         \/ \E b \in Accounts : SubmitInternalTransfer(c, a, b, n)
  BY DEF CustomerCall
<1>2. CASE BeginDeposit(c, a, n)
  <2>1. [op |-> "deposit", account |-> a, amount |-> n] \in Call
    BY DEF Call
  <2> QED
    BY <1>2, <2>1, KeepsType DEF BeginDeposit
<1>3. CASE BeginWithdrawal(c, a, n)
  <2>1. [op |-> "withdrawal", account |-> a, amount |-> n] \in Call
    BY DEF Call
  <2> QED
    BY <1>3, <2>1, KeepsType DEF BeginWithdrawal
<1>4. ASSUME NEW b \in Accounts, SubmitInternalTransfer(c, a, b, n)
      PROVE  TypeOK'
  BY <1>4, TransferType DEF SubmitInternalTransfer
<1> QED
  BY <1>1, <1>2, <1>3, <1>4

LEMMA OperatorCallType ==
  ASSUME TypeOK, NEW c \in Calls, OperatorCall(c)
  PROVE  TypeOK'
<1>1. ASSUME NEW a \in Accounts, NEW from, NEW new \in Statuses, BeginStatus(c, a, from, new)
      PROVE  TypeOK'
  <2>1. [op |-> "setStatus", account |-> a, status |-> new] \in Call
    BY DEF Call
  <2> QED
    BY <1>1, <2>1, KeepsType DEF BeginStatus
<1>2. ASSUME NEW a \in Accounts,
             \/ ApproveBankAccount(c, a)
             \/ FreezeBankAccount(c, a)
             \/ UnfreezeBankAccount(c, a)
             \/ ReopenBankAccount(c, a)
             \/ CloseBankAccount(c, a)
      PROVE  TypeOK'
  <2>1. {"ACTIVE", "FROZEN", "CLOSED"} \subseteq Statuses
    BY DEF Statuses
  <2> QED
    BY <1>1, <1>2, <2>1 DEF ApproveBankAccount, FreezeBankAccount, UnfreezeBankAccount,
                            ReopenBankAccount, CloseBankAccount
<1>3. ASSUME NEW a \in Accounts, NEW named \in SUBSET Flags, NEW on \in SUBSET Flags,
             SetAccountRestrictions(c, a, named, on)
      PROVE  TypeOK'
  <2>1. (restricted[a] \ named) \cup on \in SUBSET Flags
    BY DEF TypeOK
  <2>2. [op |-> "setFlags", account |-> a, flags |-> (restricted[a] \ named) \cup on] \in Call
    BY <2>1 DEF Call
  <2> QED
    BY <1>3, <2>2, KeepsType DEF SetAccountRestrictions
<1>4. ASSUME NEW a \in Accounts, NEW n \in Amounts, ApplyAccountHold(c, a, n)
      PROVE  TypeOK'
  <2>1. [op |-> "hold", account |-> a, amount |-> n, seen |-> 0, unread |-> HoldReads] \in Call
    BY DEF Call, TypeOK
  <2> QED
    BY <1>4, <2>1, KeepsType DEF ApplyAccountHold
<1>5. ASSUME NEW a \in Accounts, NEW n \in Amounts, NEW debit \in BOOLEAN,
             NEW override \in BOOLEAN, BeginAdjustment(c, a, n, debit, override)
      PROVE  TypeOK'
  <2>1. [op |-> "adjust", account |-> a, amount |-> n, debit |-> debit,
         debitText |-> debit, override |-> override, reverses |-> {}] \in Call
    BY DEF Call
  <2> QED
    BY <1>5, <2>1, KeepsType DEF BeginAdjustment
<1>6. ASSUME NEW t \in TxIds, NEW override \in BOOLEAN, ReverseAdjustment(c, t, override)
      PROVE  TypeOK'
  <2>1. /\ txs[t].account \in Accounts /\ txs[t].amount \in Amounts
        /\ txs[t].debitText \in BOOLEAN
    BY <1>6, RowFields DEF ReverseAdjustment
  <2>2. [op |-> "reverse", account |-> txs[t].account, amount |-> txs[t].amount,
         debit |-> ~txs[t].debitText, debitText |-> txs[t].debitText,
         override |-> override, reverses |-> {t}] \in Call
    BY <2>1 DEF Call
  <2> QED
    BY <1>6, <2>2, KeepsType DEF ReverseAdjustment
<1>7. ASSUME NEW a \in Accounts, NEW b \in Accounts, NEW n \in Amounts,
             SubmitOperatorInternalTransfer(c, a, b, n)
      PROVE  TypeOK'
  BY <1>7, TransferType DEF SubmitOperatorInternalTransfer
<1> QED
  BY <1>2, <1>3, <1>4, <1>5, <1>6, <1>7 DEF OperatorCall
-----------------------------------------------------------------------------
(* What one row weighs. *)

LEMMA NoRowWeighsNothing ==
  ASSUME NEW a
  PROVE  Weight(NoRow, PendingClass(a)) = 0 /\ Effect(NoRow, a) = 0
<1>1. NoRow \notin TxRow
  BY DEF NoRow, TxRow
<1>2. \A R : R \subseteq TxRow => Weight(NoRow, R) = 0
  BY <1>1 DEF Weight
<1>3. /\ Weight(NoRow, PendingClass(a)) = 0 /\ Weight(NoRow, CreditClass(a)) = 0
      /\ Weight(NoRow, DebitClass(a)) = 0
      /\ Weight(NoRow, DebitReversalClass(a)) = 0
      /\ Weight(NoRow, CreditReversalClass(a)) = 0
  BY <1>2, ClassesAreRows
<1> QED
  BY <1>3 DEF Effect

LEMMA PendingWeight ==
  ASSUME NEW row \in TxRow, NEW a
  PROVE  Weight(row, PendingClass(a)) =
            IF row.status = "PENDING" /\ row.type = "WITHDRAWAL" /\ row.account = a
            THEN row.amount ELSE 0
BY DEF Weight, PendingClass

(* An approved row counts for its account as reconciliation counts it, and a
   reversal counts the other way. *)
LEMMA RowEffect ==
  ASSUME NEW row \in TxRow, NEW a
  PROVE  /\ ~(row.status = "APPROVED" /\ row.account = a) => Effect(row, a) = 0
         /\ row.status = "APPROVED" /\ row.account = a =>
              Effect(row, a) = IF row.reverses = {} <=> CountedAsDebit(row)
                               THEN 0 - row.amount ELSE row.amount
<1>1. row.amount \in Nat
  BY AmountsAreNat DEF TxRow
<1>2. CASE ~(row.status = "APPROVED" /\ row.account = a)
  <2>1. row \notin ApprovedClass(a)
    BY <1>2 DEF ApprovedClass
  <2>2. Effect(row, a) = 0
    BY <2>1 DEF Effect, Weight, CreditClass, DebitClass, DebitReversalClass, CreditReversalClass
  <2> QED
    BY <1>2, <2>2
<1>3. CASE row.status = "APPROVED" /\ row.account = a
  <2>1. row \in ApprovedClass(a)
    BY <1>3 DEF ApprovedClass
  <2>2. /\ Weight(row, CreditClass(a)) = IF CountedAsDebit(row) THEN 0 ELSE row.amount
        /\ Weight(row, DebitClass(a)) = IF CountedAsDebit(row) THEN row.amount ELSE 0
    BY <2>1 DEF Weight, CreditClass, DebitClass
  <2>4. /\ Weight(row, DebitReversalClass(a)) =
              IF row.reverses # {} /\ CountedAsDebit(row) THEN row.amount ELSE 0
        /\ Weight(row, CreditReversalClass(a)) =
              IF row.reverses # {} /\ ~CountedAsDebit(row) THEN row.amount ELSE 0
    BY <2>1 DEF Weight, DebitReversalClass, CreditReversalClass, DebitClass, CreditClass
  <2>6. CASE row.reverses = {}
    <3>1. Weight(row, DebitReversalClass(a)) = 0 /\ Weight(row, CreditReversalClass(a)) = 0
      BY <2>4, <2>6
    <3> QED
      BY <1>1, <1>3, <2>2, <2>6, <3>1 DEF Effect
  <2>7. CASE row.reverses # {}
    <3>1. CASE CountedAsDebit(row)
      BY <1>1, <1>3, <2>2, <2>4, <2>7, <3>1 DEF Effect
    <3>2. CASE ~CountedAsDebit(row)
      BY <1>1, <1>3, <2>2, <2>4, <2>7, <3>2 DEF Effect
    <3> QED
      BY <3>1, <3>2
  <2> QED
    BY <2>6, <2>7
<1> QED
  BY <1>2, <1>3
-----------------------------------------------------------------------------
(* The inductive invariant. *)

Balanced(bal, rows) == \A a \in Accounts : bal[a] = Net(rows, a)

LEMMA NetIsInt ==
  ASSUME NEW rows \in TxTable, NEW a
  PROVE  /\ Total(Credits(rows, a), rows) \in Nat
         /\ Total(Debits(rows, a), rows) \in Nat
         /\ Total(DebitReversals(rows, a), rows) \in Nat
         /\ Total(CreditReversals(rows, a), rows) \in Nat
<1>1. /\ Credits(rows, a) \in SUBSET TxIds /\ Debits(rows, a) \in SUBSET TxIds
      /\ DebitReversals(rows, a) \in SUBSET TxIds /\ CreditReversals(rows, a) \in SUBSET TxIds
  BY DEF Credits, Debits, DebitReversals, CreditReversals, Approved
<1>2. \A S \in SUBSET TxIds : IsFiniteSet(S)
  BY LedgerAssumption, FS_Subset
<1> QED
  BY <1>1, <1>2, TotalIsNat

LEMMA DriftIsBalanced ==
  ASSUME txs \in TxTable, txs' \in TxTable
  PROVE  /\ DriftIsReversals <=> Balanced(balance, txs)
         /\ DriftIsReversals' <=> Balanced(balance', txs')
<1>1. ASSUME NEW rows \in TxTable, NEW a
      PROVE  Net(rows, a) = (Total(Credits(rows, a), rows) - Total(Debits(rows, a), rows))
                             + 2 * Total(DebitReversals(rows, a), rows)
                             - 2 * Total(CreditReversals(rows, a), rows)
  BY NetIsInt DEF Net
<1> QED
  BY <1>1 DEF DriftIsReversals, Balanced, LedgerBalance

(* An update of one row keeps the books balanced when the balances move by the
   difference of the two effects. *)
(* What is held is never negative, so that what is available is at most what is
   not reserved. *)
LEMMA HeldIsNat ==
  ASSUME NEW a
  PROVE  Held(a) \in Nat
<1>1. ActiveHolds(holds, a) \in SUBSET HoldIds
  BY DEF ActiveHolds
<1>2. IsFiniteSet(ActiveHolds(holds, a))
  BY <1>1, LedgerAssumption, FS_Subset
<1> QED
  BY <1>2, TotalIsNat DEF Held

LEMMA ReservedIsPending == \A a : Reserved(a) = Pending(txs, a)
BY DEF Reserved, Pending

LEMMA AvailableIsFree ==
  ASSUME TypeOK, NEW a \in Accounts, NEW n \in Amounts, n <= Available(a)
  PROVE  n <= balance[a] - Pending(txs, a)
<1>1. Pending(txs, a) \in Nat
  <2>1. PendingWithdrawals(txs, a) \in SUBSET TxIds
    BY DEF PendingWithdrawals
  <2> QED
    BY <2>1, LedgerAssumption, FS_Subset, TotalIsNat DEF Pending
<1>2. balance[a] \in Int /\ n \in Nat
  BY AmountsAreNat DEF TypeOK
<1> QED
  BY <1>1, <1>2, HeldIsNat, ReservedIsPending DEF Available

-----------------------------------------------------------------------------
(* Every step of the ledger keeps its types, the agreement of its rows and the
   balance of its books, and is a step of the account book or changes nothing
   that the book sees. *)

bookView == <<balance, [a \in Accounts |-> Reserved(a)], overridden>>

(* What a step leaves on an account that it debits, unless it overrides. *)
LeavesReservations ==
    \A a \in Accounts :
       balance'[a] < balance[a] /\ overridden' = overridden /\ a \notin overridden
          => balance'[a] >= Reserved(a)' + Held(a)'

(* A step that leaves the money and the transactions alone. *)
LEMMA QuietStep ==
  ASSUME UNCHANGED <<balance, txs, overridden>>
  PROVE  /\ RowsAgree => RowsAgree'
         /\ Balanced(balance, txs) => Balanced(balance', txs')
         /\ UNCHANGED bookView
<1>1. \A a : Reserved(a)' = Reserved(a)
  BY DEF Reserved
<1> QED
  BY <1>1 DEF RowsAgree, bookView

LEMMA RowsAgreeUpdate ==
  ASSUME TypeOK, RowsAgree, NEW t \in TxIds, NEW row \in TxRow,
         txs' = [txs EXCEPT ![t] = row],
         IF row.type = "ADJUSTMENT"
           THEN row.status = "APPROVED"
           ELSE row.reverses = {} /\ ~row.debitText
  PROVE  RowsAgree'
BY DEF TypeOK, RowsAgree

(* A step that writes one row: the books stay balanced when the balances move by
   the difference of the two effects, and what is pending moves by the weights. *)
LEMMA OneRowStep ==
  ASSUME TypeOK, Balanced(balance, txs), NEW t \in TxIds, NEW row \in TxRow,
         txs' = [txs EXCEPT ![t] = row],
         \A a \in Accounts : balance'[a] = balance[a] - Effect(txs[t], a) + Effect(row, a)
  PROVE  /\ Balanced(balance', txs')
         /\ \A a \in Accounts :
               /\ Reserved(a) \in Nat
               /\ Reserved(a)' = Reserved(a) - Weight(txs[t], PendingClass(a))
                                             + Weight(row, PendingClass(a))
<1>1. txs \in TxTable
  BY DEF TypeOK, TxTable
<1> DEFINE new == [txs EXCEPT ![t] = row]
<1>2. ASSUME NEW a
      PROVE  /\ Pending(txs, a) \in Nat
             /\ Pending(new, a) = Pending(txs, a) - Weight(txs[t], PendingClass(a))
                                                  + Weight(row, PendingClass(a))
  BY <1>1, RowUpdate, Zenon
<1>3. Balanced(balance', new)
  <2> HIDE DEF new
  <2> SUFFICES ASSUME NEW a \in Accounts PROVE balance'[a] = Net(new, a)
    BY DEF Balanced
  <2>1. Net(new, a) = Net(txs, a) - Effect(txs[t], a) + Effect(row, a)
    BY <1>1, RowUpdate, Zenon DEF new
  <2>2. balance[a] = Net(txs, a)
    BY DEF Balanced
  <2> QED
    BY <2>1, <2>2
<1> QED
  BY <1>2, <1>3 DEF Reserved, Pending

LEMMA SubmitDepositStep ==
  ASSUME TypeOK, RowsAgree, Balanced(balance, txs),
         NEW c \in Calls, NEW t \in TxIds, SubmitDepositRequest(c, t)
  PROVE  /\ TypeOK' /\ RowsAgree' /\ Balanced(balance', txs')
         /\ UNCHANGED bookView
<1> DEFINE k == calls[c]
           row == Row(k.account, "DEPOSIT", k.amount, "PENDING")
<1>1. /\ k.account \in Accounts /\ k.amount \in Amounts
      /\ txs[t] = NoRow /\ txs' = [txs EXCEPT ![t] = row]
      /\ UNCHANGED <<status, balance, restricted, holds, overridden>>
      /\ calls' = [calls EXCEPT ![c] = Idle]
  BY CallFields DEF SubmitDepositRequest, TypeOK, FreshTx, Return, Keep
<1>2. row \in TxRow
  BY <1>1, NewRow
<1>3. /\ row.status = "PENDING" /\ row.type = "DEPOSIT"
      /\ row.reverses = {} /\ ~row.debitText
  BY DEF Row
<1> HIDE DEF row, k
<1>4. TypeOK' /\ RowsAgree'
  BY <1>1, <1>2, <1>3, RowsAgreeUpdate DEF TypeOK
<1>5. ASSUME NEW a
      PROVE  /\ Effect(txs[t], a) = 0 /\ Effect(row, a) = 0
             /\ Weight(txs[t], PendingClass(a)) = 0 /\ Weight(row, PendingClass(a)) = 0
  BY <1>1, <1>2, <1>3, NoRowWeighsNothing, RowEffect, PendingWeight
<1>6. \A a \in Accounts : balance'[a] = balance[a] - Effect(txs[t], a) + Effect(row, a)
  BY <1>1, <1>5 DEF TypeOK
<1>7. /\ Balanced(balance', txs')
      /\ \A a \in Accounts :
            /\ Reserved(a) \in Nat
            /\ Reserved(a)' = Reserved(a) - Weight(txs[t], PendingClass(a))
                                          + Weight(row, PendingClass(a))
  BY <1>1, <1>2, <1>6, OneRowStep, Zenon
<1>8. \A a \in Accounts : Reserved(a)' = Reserved(a)
  BY <1>5, <1>7
<1> QED
  BY <1>1, <1>4, <1>7, <1>8 DEF bookView

LEMMA SubmitWithdrawalStep ==
  ASSUME TypeOK, RowsAgree, Balanced(balance, txs),
         NEW c \in Calls, NEW t \in TxIds, SubmitWithdrawalRequest(c, t)
  PROVE  /\ TypeOK' /\ RowsAgree' /\ Balanced(balance', txs')
         /\ \E a \in Accounts, n \in Amounts : Book!Reserve(a, n)
<1> DEFINE k == calls[c]
           row == Row(k.account, "WITHDRAWAL", k.amount, "PENDING")
<1>1. /\ k.account \in Accounts /\ k.amount \in Amounts
      /\ k.amount <= Available(k.account)
      /\ txs[t] = NoRow /\ txs' = [txs EXCEPT ![t] = row]
      /\ UNCHANGED <<status, balance, restricted, holds, overridden>>
      /\ calls' = [calls EXCEPT ![c] = Idle]
  BY CallFields DEF SubmitWithdrawalRequest, TypeOK, FreshTx, Return, Keep
<1>2. row \in TxRow
  BY <1>1, NewRow
<1>3. /\ row.status = "PENDING" /\ row.type = "WITHDRAWAL" /\ row.account = k.account
      /\ row.amount = k.amount /\ row.reverses = {} /\ ~row.debitText
  BY DEF Row
<1> HIDE DEF row, k
<1>4. TypeOK' /\ RowsAgree'
  BY <1>1, <1>2, <1>3, RowsAgreeUpdate DEF TypeOK
<1>5. ASSUME NEW a
      PROVE  /\ Effect(txs[t], a) = 0 /\ Effect(row, a) = 0
             /\ Weight(txs[t], PendingClass(a)) = 0
             /\ Weight(row, PendingClass(a)) = IF a = k.account THEN k.amount ELSE 0
  BY <1>1, <1>2, <1>3, NoRowWeighsNothing, RowEffect, PendingWeight
<1>6. \A a \in Accounts : balance'[a] = balance[a] - Effect(txs[t], a) + Effect(row, a)
  BY <1>1, <1>5 DEF TypeOK
<1>7. /\ Balanced(balance', txs')
      /\ \A a \in Accounts :
            /\ Reserved(a) \in Nat
            /\ Reserved(a)' = Reserved(a) - Weight(txs[t], PendingClass(a))
                                          + Weight(row, PendingClass(a))
  BY <1>1, <1>2, <1>6, OneRowStep, Zenon
<1>8. k.amount <= balance[k.account] - Reserved(k.account)
  BY <1>1, AvailableIsFree DEF Reserved, Pending
<1>9. \A a \in Accounts :
         Reserved(a)' = IF a = k.account THEN Reserved(a) + k.amount ELSE Reserved(a)
  BY <1>1, <1>5, <1>7, AmountsAreNat
<1>10. Book!Reserve(k.account, k.amount)
  BY <1>1, <1>8, <1>9 DEF Book!Reserve, Book!Free
<1> QED
  BY <1>1, <1>4, <1>7, <1>10

(* A review changes the status of one pending row.  What the row weighs follows
   from its type and from the outcome. *)
LEMMA ReviewedRow ==
  ASSUME TypeOK, RowsAgree, NEW t \in TxIds, NEW type \in {"DEPOSIT", "WITHDRAWAL"},
         NEW outcome \in {"APPROVED", "DENIED"}, Review(t, type, outcome),
         NEW row, row = [txs[t] EXCEPT !.status = outcome]
  PROVE  /\ row \in TxRow
         /\ txs[t].account \in Accounts /\ txs[t].amount \in Amounts
         /\ txs' = [txs EXCEPT ![t] = row]
         /\ RowsAgree'
         /\ txs' \in TxTable
         /\ \A a : /\ Effect(txs[t], a) = 0
                   /\ Effect(row, a) =
                        IF outcome = "APPROVED" /\ txs[t].account = a
                        THEN IF type = "WITHDRAWAL" THEN 0 - txs[t].amount ELSE txs[t].amount
                        ELSE 0
                   /\ Weight(row, PendingClass(a)) = 0
                   /\ Weight(txs[t], PendingClass(a)) =
                        IF type = "WITHDRAWAL" /\ txs[t].account = a
                        THEN txs[t].amount ELSE 0
<1>1. txs[t] \in TxRow /\ txs[t].account \in Accounts /\ txs[t].amount \in Amounts
  BY RowFields DEF Review
<1>2. /\ txs[t].status = "PENDING" /\ txs[t].type = type
      /\ txs[t].reverses = {} /\ ~txs[t].debitText
  BY DEF Review, RowsAgree, NoRow
<1>3. row \in TxRow
  BY <1>1 DEF TxRow
<1>4. /\ row.status = outcome /\ row.type = type /\ row.account = txs[t].account
      /\ row.amount = txs[t].amount /\ row.reverses = {} /\ ~row.debitText
  BY <1>1, <1>2 DEF TxRow
<1>5. txs' = [txs EXCEPT ![t] = row]
  BY DEF Review
<1>6. RowsAgree'
  BY <1>3, <1>4, <1>5, RowsAgreeUpdate
<1>7. txs' \in TxTable
  BY <1>3, <1>5 DEF TxTable, TypeOK
<1>8. ASSUME NEW a
      PROVE  /\ Effect(txs[t], a) = 0
             /\ Weight(row, PendingClass(a)) = 0
             /\ Weight(txs[t], PendingClass(a)) =
                  IF type = "WITHDRAWAL" /\ txs[t].account = a THEN txs[t].amount ELSE 0
  BY <1>1, <1>2, <1>3, <1>4, RowEffect, PendingWeight
<1>9. ASSUME NEW a
      PROVE  Effect(row, a) =
               IF outcome = "APPROVED" /\ txs[t].account = a
               THEN IF type = "WITHDRAWAL" THEN 0 - txs[t].amount ELSE txs[t].amount
               ELSE 0
  <2>1. CountedAsDebit(row) <=> type = "WITHDRAWAL"
    BY <1>4 DEF CountedAsDebit
  <2> QED
    BY <1>3, <1>4, <2>1, RowEffect
<1> QED
  BY <1>1, <1>3, <1>5, <1>6, <1>7, <1>8, <1>9

LEMMA ReviewType ==
  ASSUME TypeOK, txs' \in TxTable, balance' \in [Accounts -> Int],
         UNCHANGED <<status, restricted, holds, calls, overridden>>
  PROVE  TypeOK'
BY DEF TypeOK, TxTable

LEMMA ApproveDepositStep ==
  ASSUME TypeOK, RowsAgree, Balanced(balance, txs), NEW t \in TxIds, ApproveDeposit(t)
  PROVE  /\ TypeOK' /\ RowsAgree' /\ Balanced(balance', txs')
         /\ \E a \in Accounts, n \in Amounts : Book!Credit(a, n)
<1> DEFINE row == [txs[t] EXCEPT !.status = "APPROVED"]
           acc == txs[t].account
           n == txs[t].amount
<1>1. /\ Review(t, "DEPOSIT", "APPROVED")
      /\ balance' = [balance EXCEPT ![acc] = @ + n]
      /\ UNCHANGED <<status, restricted, holds, calls, overridden>>
  BY DEF ApproveDeposit, Review
<1> HIDE DEF row, acc, n
<1>2. /\ row \in TxRow /\ acc \in Accounts /\ n \in Amounts /\ n \in Nat
      /\ txs' = [txs EXCEPT ![t] = row] /\ RowsAgree' /\ txs' \in TxTable
  BY <1>1, ReviewedRow, AmountsAreNat DEF row, acc, n
<1>3. \A a : /\ Effect(txs[t], a) = 0
             /\ Effect(row, a) = IF acc = a THEN n ELSE 0
             /\ Weight(row, PendingClass(a)) = 0
             /\ Weight(txs[t], PendingClass(a)) = 0
  BY <1>1, ReviewedRow DEF row, acc, n
<1>4. TypeOK'
  <2>1. balance' \in [Accounts -> Int]
    BY <1>1, <1>2 DEF TypeOK
  <2> QED
    BY <1>1, <1>2, <2>1, ReviewType
<1>5. \A a \in Accounts : balance'[a] = balance[a] - Effect(txs[t], a) + Effect(row, a)
  BY <1>1, <1>2, <1>3 DEF TypeOK
<1>6. /\ Balanced(balance', txs')
      /\ \A a \in Accounts :
            /\ Reserved(a) \in Nat
            /\ Reserved(a)' = Reserved(a) - Weight(txs[t], PendingClass(a))
                                          + Weight(row, PendingClass(a))
  BY <1>2, <1>5, OneRowStep, Zenon
<1>7. \A a \in Accounts : Reserved(a)' = Reserved(a)
  BY <1>3, <1>6
<1>8. Book!Credit(acc, n)
  BY <1>1, <1>2, <1>7 DEF Book!Credit
<1> QED
  BY <1>2, <1>4, <1>6, <1>8

LEMMA DenyDepositStep ==
  ASSUME TypeOK, RowsAgree, Balanced(balance, txs), NEW t \in TxIds, DenyDeposit(t)
  PROVE  /\ TypeOK' /\ RowsAgree' /\ Balanced(balance', txs')
         /\ UNCHANGED bookView
<1> DEFINE row == [txs[t] EXCEPT !.status = "DENIED"]
<1>1. /\ Review(t, "DEPOSIT", "DENIED") /\ balance' = balance
      /\ UNCHANGED <<status, restricted, holds, calls, overridden>>
  BY DEF DenyDeposit, Review
<1> HIDE DEF row
<1>2. /\ row \in TxRow /\ txs' = [txs EXCEPT ![t] = row] /\ RowsAgree' /\ txs' \in TxTable
  BY <1>1, ReviewedRow DEF row
<1>3. \A a : /\ Effect(txs[t], a) = 0 /\ Effect(row, a) = 0
             /\ Weight(row, PendingClass(a)) = 0
             /\ Weight(txs[t], PendingClass(a)) = 0
  BY <1>1, ReviewedRow DEF row
<1>4. TypeOK'
  <2>1. balance' \in [Accounts -> Int]
    BY <1>1 DEF TypeOK
  <2> QED
    BY <1>1, <1>2, <2>1, ReviewType
<1>5. \A a \in Accounts : balance'[a] = balance[a] - Effect(txs[t], a) + Effect(row, a)
  BY <1>1, <1>3 DEF TypeOK
<1>6. /\ Balanced(balance', txs')
      /\ \A a \in Accounts :
            /\ Reserved(a) \in Nat
            /\ Reserved(a)' = Reserved(a) - Weight(txs[t], PendingClass(a))
                                          + Weight(row, PendingClass(a))
  BY <1>2, <1>5, OneRowStep, Zenon
<1>7. \A a \in Accounts : Reserved(a)' = Reserved(a)
  BY <1>3, <1>6
<1> QED
  BY <1>1, <1>2, <1>4, <1>6, <1>7 DEF bookView

(* The funds check leaves out the withdrawal under review: all that is reserved,
   this withdrawal included, is there. *)
LEMMA ApproveWithdrawalStep ==
  ASSUME TypeOK, RowsAgree, Balanced(balance, txs), NEW t \in TxIds, ApproveWithdrawal(t)
  PROVE  /\ TypeOK' /\ RowsAgree' /\ Balanced(balance', txs')
         /\ \E a \in Accounts, n \in Amounts : Book!Settle(a, n)
         /\ LeavesReservations
<1> DEFINE row == [txs[t] EXCEPT !.status = "APPROVED"]
           acc == txs[t].account
           n == txs[t].amount
<1>1. /\ Review(t, "WITHDRAWAL", "APPROVED")
      /\ n <= Available(acc) + n
      /\ balance' = [balance EXCEPT ![acc] = @ - n]
      /\ UNCHANGED <<status, restricted, holds, calls, overridden>>
  BY DEF ApproveWithdrawal, Review
<1> HIDE DEF row, acc, n
<1>2. /\ row \in TxRow /\ acc \in Accounts /\ n \in Amounts /\ n \in Nat
      /\ txs' = [txs EXCEPT ![t] = row] /\ RowsAgree' /\ txs' \in TxTable
  BY <1>1, ReviewedRow, AmountsAreNat DEF row, acc, n
<1>3. \A a : /\ Effect(txs[t], a) = 0
             /\ Effect(row, a) = IF acc = a THEN 0 - n ELSE 0
             /\ Weight(row, PendingClass(a)) = 0
             /\ Weight(txs[t], PendingClass(a)) =
                  IF acc = a THEN n ELSE 0
  BY <1>1, ReviewedRow DEF row, acc, n
<1>4. TypeOK'
  <2>1. balance' \in [Accounts -> Int]
    BY <1>1, <1>2 DEF TypeOK
  <2> QED
    BY <1>1, <1>2, <2>1, ReviewType
<1>5. \A a \in Accounts : balance'[a] = balance[a] - Effect(txs[t], a) + Effect(row, a)
  BY <1>1, <1>2, <1>3 DEF TypeOK
<1>6. /\ Balanced(balance', txs')
      /\ \A a \in Accounts :
            /\ Reserved(a) \in Nat
            /\ Reserved(a)' = Reserved(a) - Weight(txs[t], PendingClass(a))
                                          + Weight(row, PendingClass(a))
  BY <1>2, <1>5, OneRowStep, Zenon
<1>7. /\ \A a \in Accounts : Reserved(a) \in Nat /\ Reserved(a)' \in Nat
      /\ \A a \in Accounts :
            Reserved(a)' = IF acc = a THEN Reserved(a) - n
                                                ELSE Reserved(a)
  <2>1. \A a \in Accounts : Reserved(a)' \in Nat
    <3>1. \A a : PendingWithdrawals(txs', a) \in SUBSET TxIds
      BY DEF PendingWithdrawals
    <3> QED
      BY <3>1, LedgerAssumption, FS_Subset, TotalIsNat DEF Reserved
  <2> QED
    BY <1>2, <1>3, <1>6, <2>1
<1>8. n <= Reserved(acc)
  BY <1>2, <1>7
<1>9. Reserved(acc) <= balance[acc]
  BY <1>1, <1>2, <1>7, HeldIsNat DEF Available, TypeOK
<1>10. Book!Settle(acc, n)
  BY <1>1, <1>2, <1>7, <1>8, <1>9 DEF Book!Settle
<1>11. LeavesReservations
  <2> SUFFICES ASSUME NEW a \in Accounts, balance'[a] < balance[a]
               PROVE  balance'[a] >= Reserved(a)' + Held(a)'
    BY DEF LeavesReservations
  <2>1. a = acc /\ balance'[a] = balance[a] - n /\ balance[a] \in Int
    BY <1>1, <1>2 DEF TypeOK
  <2>2. Held(a)' = Held(a) /\ Held(a) \in Nat
    BY <1>1, HeldIsNat DEF Held
  <2>3. Reserved(a)' = Reserved(a) - n /\ Reserved(a) \in Nat
    BY <1>7, <2>1
  <2>4. n <= balance[a] - Reserved(a) - Held(a) + n
    BY <1>1, <2>1 DEF Available
  <2> QED
    BY <1>2, <2>1, <2>2, <2>3, <2>4
<1> QED
  BY <1>2, <1>4, <1>6, <1>10, <1>11

LEMMA DenyWithdrawalStep ==
  ASSUME TypeOK, RowsAgree, Balanced(balance, txs), NEW t \in TxIds, DenyWithdrawal(t)
  PROVE  /\ TypeOK' /\ RowsAgree' /\ Balanced(balance', txs')
         /\ \E a \in Accounts, n \in Amounts : Book!Release(a, n)
<1> DEFINE row == [txs[t] EXCEPT !.status = "DENIED"]
           acc == txs[t].account
           n == txs[t].amount
<1>1. /\ Review(t, "WITHDRAWAL", "DENIED") /\ balance' = balance
      /\ UNCHANGED <<status, restricted, holds, calls, overridden>>
  BY DEF DenyWithdrawal, Review
<1> HIDE DEF row, acc, n
<1>2. /\ row \in TxRow /\ acc \in Accounts /\ n \in Amounts /\ n \in Nat
      /\ txs' = [txs EXCEPT ![t] = row] /\ RowsAgree' /\ txs' \in TxTable
  BY <1>1, ReviewedRow, AmountsAreNat DEF row, acc, n
<1>3. \A a : /\ Effect(txs[t], a) = 0 /\ Effect(row, a) = 0
             /\ Weight(row, PendingClass(a)) = 0
             /\ Weight(txs[t], PendingClass(a)) =
                  IF acc = a THEN n ELSE 0
  BY <1>1, ReviewedRow DEF row, acc, n
<1>4. TypeOK'
  <2>1. balance' \in [Accounts -> Int]
    BY <1>1 DEF TypeOK
  <2> QED
    BY <1>1, <1>2, <2>1, ReviewType
<1>5. \A a \in Accounts : balance'[a] = balance[a] - Effect(txs[t], a) + Effect(row, a)
  BY <1>1, <1>3 DEF TypeOK
<1>6. /\ Balanced(balance', txs')
      /\ \A a \in Accounts :
            /\ Reserved(a) \in Nat
            /\ Reserved(a)' = Reserved(a) - Weight(txs[t], PendingClass(a))
                                          + Weight(row, PendingClass(a))
  BY <1>2, <1>5, OneRowStep, Zenon
<1>7. /\ \A a \in Accounts : Reserved(a) \in Nat /\ Reserved(a)' \in Nat
      /\ \A a \in Accounts :
            Reserved(a)' = IF acc = a THEN Reserved(a) - n
                                                ELSE Reserved(a)
  <2>1. \A a \in Accounts : Reserved(a)' \in Nat
    <3>1. \A a : PendingWithdrawals(txs', a) \in SUBSET TxIds
      BY DEF PendingWithdrawals
    <3> QED
      BY <3>1, LedgerAssumption, FS_Subset, TotalIsNat DEF Reserved
  <2> QED
    BY <1>2, <1>3, <1>6, <2>1
<1>8. n <= Reserved(acc)
  BY <1>2, <1>7
<1>9. Book!Release(acc, n)
  BY <1>1, <1>2, <1>7, <1>8 DEF Book!Release
<1> QED
  BY <1>2, <1>4, <1>6, <1>9

-----------------------------------------------------------------------------
(* Adjustments and transfers. *)

LEMMA PostAdjustmentStep ==
  ASSUME TypeOK, CallsAgree, RowsAgree, Balanced(balance, txs),
         NEW c \in Calls, NEW t \in TxIds, PostAdjustment(c, t)
  PROVE  /\ TypeOK' /\ RowsAgree' /\ Balanced(balance', txs')
         /\ \E a \in Accounts, n \in Amounts :
               Book!Credit(a, n) \/ Book!Debit(a, n) \/ Book!Override(a, n)
         /\ LeavesReservations
<1> DEFINE k == calls[c]
           acc == k.account
           n == k.amount
           row == [account |-> acc, type |-> "ADJUSTMENT", amount |-> n,
                   status |-> "APPROVED", debitText |-> k.debitText,
                   reverses |-> k.reverses]
<1>1. /\ k.op = "adjust" /\ acc \in Accounts /\ n \in Amounts
      /\ k.debit \in BOOLEAN /\ k.debitText \in BOOLEAN /\ k.override \in BOOLEAN
      /\ k.reverses \in SUBSET TxIds
  <2>1. k \in Call \cup {Idle} /\ k.op = "adjust"
    BY DEF PostAdjustment, TypeOK
  <2>2. k \in [op : {"reverse", "adjust"}, account : Accounts,
               amount : Amounts, debit : BOOLEAN, debitText : BOOLEAN,
               override : BOOLEAN, reverses : SUBSET TxIds]
    BY <2>1, CallFields
  <2> QED
    BY <2>1, <2>2
<1>2. n \in Nat
  BY <1>1, AmountsAreNat
<1>3. /\ txs[t] = NoRow /\ txs' = [txs EXCEPT ![t] = row]
      /\ balance' = [balance EXCEPT ![acc] = IF k.debit THEN @ - n ELSE @ + n]
      /\ UNCHANGED <<status, restricted, holds>>
      /\ calls' = [calls EXCEPT ![c] = Idle]
  BY DEF PostAdjustment, FreshTx, Return, Keep
<1>4. /\ k.debit /\ ~k.override => n <= Available(acc)
      /\ overridden' = IF k.debit /\ k.override THEN overridden \cup {acc} ELSE overridden
  BY DEF PostAdjustment
<1>5. k.debit <=> (k.debitText <=> k.reverses = {})
  BY <1>1 DEF CallsAgree, CallAgrees
<1>6. row \in TxRow
  BY <1>1 DEF TxRow
<1>7. /\ row.status = "APPROVED" /\ row.type = "ADJUSTMENT" /\ row.account = acc
      /\ row.amount = n /\ row.debitText = k.debitText /\ row.reverses = k.reverses
  OBVIOUS
<1> HIDE DEF row, acc, n, k
<1>8. TypeOK'
  <2>1. balance' \in [Accounts -> Int]
    BY <1>1, <1>2, <1>3 DEF TypeOK
  <2> QED
    BY <1>1, <1>3, <1>4, <1>6, <2>1 DEF TypeOK
<1>9. RowsAgree'
  BY <1>3, <1>6, <1>7, RowsAgreeUpdate
<1>10. ASSUME NEW a
       PROVE  /\ Effect(txs[t], a) = 0
              /\ Weight(txs[t], PendingClass(a)) = 0 /\ Weight(row, PendingClass(a)) = 0
  BY <1>3, <1>6, <1>7, NoRowWeighsNothing, PendingWeight
<1>11. ASSUME NEW a
       PROVE  Effect(row, a) = IF acc = a THEN IF k.debit THEN 0 - n ELSE n ELSE 0
  <2>1. CountedAsDebit(row) <=> k.debitText
    BY <1>1, <1>7 DEF CountedAsDebit
  <2>2. (row.reverses = {} <=> CountedAsDebit(row)) <=> k.debit
    BY <1>5, <1>7, <2>1
  <2> QED
    BY <1>6, <1>7, <2>2, RowEffect
<1>12. \A a \in Accounts : balance'[a] = balance[a] - Effect(txs[t], a) + Effect(row, a)
  BY <1>1, <1>2, <1>3, <1>10, <1>11 DEF TypeOK
<1>13. /\ Balanced(balance', txs')
       /\ \A a \in Accounts :
             /\ Reserved(a) \in Nat
             /\ Reserved(a)' = Reserved(a) - Weight(txs[t], PendingClass(a))
                                           + Weight(row, PendingClass(a))
  BY <1>3, <1>6, <1>12, OneRowStep, Zenon
<1>14. \A a \in Accounts : Reserved(a)' = Reserved(a)
  BY <1>10, <1>13
<1>18. LeavesReservations
  <2> SUFFICES ASSUME NEW a \in Accounts, balance'[a] < balance[a],
                      overridden' = overridden, a \notin overridden
               PROVE  balance'[a] >= Reserved(a)' + Held(a)'
    BY DEF LeavesReservations
  <2>1. /\ k.debit /\ a = acc /\ balance'[a] = balance[a] - n /\ balance[a] \in Int
    BY <1>1, <1>2, <1>3 DEF TypeOK
  <2>2. ~k.override
    BY <1>1, <1>4, <2>1
  <2>3. Held(a)' = Held(a) /\ Held(a) \in Nat
    BY <1>3, HeldIsNat DEF Held
  <2>4. Reserved(a)' = Reserved(a) /\ Reserved(a) \in Nat
    BY <1>13, <1>14
  <2>5. n <= balance[a] - Reserved(a) - Held(a)
    BY <1>4, <2>1, <2>2 DEF Available
  <2> QED
    BY <1>2, <2>1, <2>3, <2>4, <2>5
<1>15. CASE ~k.debit
  <2>1. Book!Credit(acc, n)
    BY <1>1, <1>3, <1>4, <1>14, <1>15 DEF Book!Credit
  <2> QED
    BY <1>1, <1>8, <1>9, <1>13, <1>18, <2>1
<1>16. CASE k.debit /\ k.override
  <2>1. Book!Override(acc, n)
    BY <1>1, <1>3, <1>4, <1>14, <1>16 DEF Book!Override
  <2> QED
    BY <1>1, <1>8, <1>9, <1>13, <1>18, <2>1
<1>17. CASE k.debit /\ ~k.override
  <2>1. n <= balance[acc] - Reserved(acc)
    BY <1>1, <1>4, <1>17, AvailableIsFree DEF Reserved, Pending
  <2>2. Book!Debit(acc, n)
    BY <1>1, <1>3, <1>4, <1>14, <1>17, <2>1 DEF Book!Debit, Book!Free
  <2> QED
    BY <1>1, <1>8, <1>9, <1>13, <1>18, <2>2
<1> QED
  BY <1>15, <1>16, <1>17

(* The two legs of a transfer, written one after the other. *)
LEMMA ExecuteTransferStep ==
  ASSUME TypeOK, RowsAgree, Balanced(balance, txs), NEW c \in Calls,
         NEW out \in TxIds, NEW in \in TxIds, ExecuteTransfer(c, out, in),
         calls[c].account # calls[c].to
  PROVE  /\ TypeOK' /\ RowsAgree' /\ Balanced(balance', txs')
         /\ \E a \in Accounts, b \in Accounts, n \in Amounts : Book!Move(a, b, n)
         /\ LeavesReservations
<1> DEFINE acc == calls[c].account
           to == calls[c].to
           n == calls[c].amount
           debit == Row(acc, "WITHDRAWAL", n, "APPROVED")
           credit == Row(to, "DEPOSIT", n, "APPROVED")
           half == [txs EXCEPT ![out] = debit]
<1>1. /\ acc \in Accounts /\ to \in Accounts /\ n \in Amounts
      /\ n <= Available(acc)
      /\ out # in /\ txs[out] = NoRow /\ txs[in] = NoRow
      /\ UNCHANGED <<status, restricted, holds, overridden>>
      /\ calls' = [calls EXCEPT ![c] = Idle]
  BY CallFields DEF ExecuteTransfer, TypeOK, FreshTx, Return, Keep
<1>2. balance' = [balance EXCEPT ![acc] = @ - n, ![to] = @ + n]
  BY DEF ExecuteTransfer
<1>3. txs' = [half EXCEPT ![in] = credit]
  BY DEF ExecuteTransfer
<1>4. debit \in TxRow /\ credit \in TxRow
  BY <1>1, NewRow
<1>5. /\ debit.status = "APPROVED" /\ debit.type = "WITHDRAWAL" /\ debit.account = acc
      /\ debit.amount = n /\ debit.reverses = {} /\ ~debit.debitText
      /\ credit.status = "APPROVED" /\ credit.type = "DEPOSIT" /\ credit.account = to
      /\ credit.amount = n /\ credit.reverses = {} /\ ~credit.debitText
  BY DEF Row
<1>6. acc # to /\ n \in Nat
  BY <1>1, AmountsAreNat
<1>7. txs \in TxTable
  BY DEF TypeOK, TxTable
<1>8. half \in TxTable /\ half[in] = NoRow
  BY <1>1, <1>4, <1>7 DEF TxTable
<1>9. half = [txs EXCEPT ![out] = debit]
  OBVIOUS
<1> HIDE DEF acc, to, n, debit, credit, half
<1>10. TypeOK'
  <2>1. balance' \in [Accounts -> Int]
    BY <1>1, <1>2, <1>6 DEF TypeOK
  <2>2. txs' \in TxTable
    BY <1>3, <1>4, <1>8 DEF TxTable
  <2> QED
    BY <1>1, <2>1, <2>2 DEF TypeOK, TxTable
<1>11. RowsAgree'
  BY <1>3, <1>4, <1>5, <1>7, <1>8, <1>9 DEF RowsAgree, TxTable
<1>12. ASSUME NEW a
       PROVE  /\ Effect(NoRow, a) = 0 /\ Weight(NoRow, PendingClass(a)) = 0
              /\ Weight(debit, PendingClass(a)) = 0 /\ Weight(credit, PendingClass(a)) = 0
              /\ Effect(debit, a) = IF acc = a THEN 0 - n ELSE 0
              /\ Effect(credit, a) = IF to = a THEN n ELSE 0
  <2>1. CountedAsDebit(debit) /\ ~CountedAsDebit(credit)
    BY <1>5 DEF CountedAsDebit
  <2>2. Effect(debit, a) = IF acc = a THEN 0 - n ELSE 0
    BY <1>4, <1>5, <2>1, RowEffect
  <2>3. Effect(credit, a) = IF to = a THEN n ELSE 0
    BY <1>4, <1>5, <2>1, RowEffect
  <2> QED
    BY <1>4, <1>5, <2>2, <2>3, NoRowWeighsNothing, PendingWeight
<1>13. ASSUME NEW a
       PROVE  /\ Pending(txs, a) \in Nat /\ Pending(half, a) \in Nat
              /\ Pending(half, a) = Pending(txs, a) - Weight(txs[out], PendingClass(a))
                                                    + Weight(debit, PendingClass(a))
              /\ Net(txs, a) \in Int
              /\ Net(half, a) = Net(txs, a) - Effect(txs[out], a) + Effect(debit, a)
  <2>1. /\ Pending(txs, a) \in Nat /\ Pending(half, a) \in Nat
        /\ Pending(half, a) = Pending(txs, a) - Weight(txs[out], PendingClass(a))
                                              + Weight(debit, PendingClass(a))
    BY <1>4, <1>7, RowUpdate, ZenonT(30) DEF half
  <2>2. /\ Net(txs, a) \in Int
        /\ Net(half, a) = Net(txs, a) - Effect(txs[out], a) + Effect(debit, a)
    BY <1>4, <1>7, RowUpdate, ZenonT(30) DEF half
  <2> QED
    BY <2>1, <2>2
<1>14. ASSUME NEW a
       PROVE  /\ Net(half, a) \in Int
              /\ Pending(txs', a) = Pending(half, a) - Weight(half[in], PendingClass(a))
                                                     + Weight(credit, PendingClass(a))
              /\ Net(txs', a) = Net(half, a) - Effect(half[in], a) + Effect(credit, a)
  <2> DEFINE full == [half EXCEPT ![in] = credit]
  <2>1. Pending(full, a) = Pending(half, a) - Weight(half[in], PendingClass(a))
                                           + Weight(credit, PendingClass(a))
    BY <1>4, <1>8, RowUpdate, ZenonT(30)
  <2>2. Net(half, a) \in Int
    BY <1>4, <1>8, RowUpdate, ZenonT(30)
  <2>3. Net(full, a) = Net(half, a) - Effect(half[in], a) + Effect(credit, a)
    BY <1>4, <1>8, RowUpdate, ZenonT(30)
  <2> QED
    BY <1>3, <2>1, <2>2, <2>3
<1>15. Balanced(balance', txs')
  <2> SUFFICES ASSUME NEW a \in Accounts PROVE balance'[a] = Net(txs', a)
    BY DEF Balanced
  <2>1. balance[a] = Net(txs, a)
    BY DEF Balanced
  <2>2. balance'[a] = IF a = acc THEN balance[a] - n
                      ELSE IF a = to THEN balance[a] + n ELSE balance[a]
    BY <1>1, <1>2, <1>6 DEF TypeOK
  <2>3. Net(txs', a) = Net(txs, a) + Effect(debit, a) + Effect(credit, a)
    <3>1. Effect(txs[out], a) = 0 /\ Effect(half[in], a) = 0
      BY <1>1, <1>8, <1>12
    <3>2. Effect(debit, a) \in Int /\ Effect(credit, a) \in Int
      BY <1>6, <1>12
    <3> QED
      BY <1>13, <1>14, <3>1, <3>2
  <2> QED
    BY <1>6, <1>12, <1>13, <2>1, <2>2, <2>3
<1>16. \A a : Reserved(a)' = Reserved(a)
  <2> SUFFICES ASSUME NEW a PROVE Pending(txs', a) = Pending(txs, a)
    BY DEF Reserved, Pending
  <2>1. Weight(txs[out], PendingClass(a)) = 0 /\ Weight(half[in], PendingClass(a)) = 0
    BY <1>1, <1>8, <1>12
  <2> QED
    BY <1>12, <1>13, <1>14, <2>1
<1>17. n <= balance[acc] - Reserved(acc)
  BY <1>1, AvailableIsFree DEF Reserved, Pending
<1>18. Book!Move(acc, to, n)
  BY <1>1, <1>2, <1>6, <1>16, <1>17 DEF Book!Move, Book!Free
<1>19. LeavesReservations
  <2> SUFFICES ASSUME NEW a \in Accounts, balance'[a] < balance[a]
               PROVE  balance'[a] >= Reserved(a)' + Held(a)'
    BY DEF LeavesReservations
  <2>1. a = acc /\ balance'[a] = balance[a] - n /\ balance[a] \in Int
    BY <1>1, <1>2, <1>6 DEF TypeOK
  <2>2. Held(a)' = Held(a) /\ Held(a) \in Nat
    BY <1>1, HeldIsNat DEF Held
  <2>3. Reserved(a)' = Reserved(a) /\ Reserved(a) \in Nat
    BY <1>13, <1>16 DEF Reserved, Pending
  <2>4. n <= balance[a] - Reserved(a) - Held(a)
    BY <1>1, <2>1 DEF Available
  <2> QED
    BY <1>6, <2>1, <2>2, <2>3, <2>4
<1> QED
  BY <1>1, <1>10, <1>11, <1>15, <1>18, <1>19

-----------------------------------------------------------------------------
(* The steps that move no money. *)

LEMMA FinishCallType ==
  ASSUME TypeOK, NEW c \in Calls,
         \/ Reject(c) \/ WriteStatus(c) \/ WriteRestrictions(c)
         \/ CheckReversal(c)
         \/ \E part \in HoldReads : ReadForHold(c, part)
         \/ \E h \in HoldIds : InsertHold(c, h)
  PROVE  /\ TypeOK'
         /\ UNCHANGED <<balance, txs, overridden>>
<1>1. calls[c] \in Call \cup {Idle} /\ Idle \in Call \cup {Idle}
  BY DEF TypeOK
<1>2. CASE Reject(c)
  BY <1>1, <1>2, KeepsType DEF Reject, Return, ledgerVars
<1>3. CASE WriteStatus(c)
  <2>1. calls[c].account \in Accounts /\ calls[c].status \in Statuses
    BY <1>1, <1>3, CallFields DEF WriteStatus
  <2> QED
    BY <1>3, <2>1 DEF WriteStatus, TypeOK, Return, Keep
<1>4. CASE WriteRestrictions(c)
  <2>1. calls[c].account \in Accounts /\ calls[c].flags \in SUBSET Flags
    BY <1>1, <1>4, CallFields DEF WriteRestrictions
  <2> QED
    BY <1>4, <2>1 DEF WriteRestrictions, TypeOK, Return, Keep
<1>5. CASE CheckReversal(c)
  <2>1. calls[c] \in [op : {"reverse", "adjust"}, account : Accounts,
                      amount : Amounts, debit : BOOLEAN, debitText : BOOLEAN,
                      override : BOOLEAN, reverses : SUBSET TxIds]
    BY <1>1, <1>5, CallFields DEF CheckReversal
  <2>2. [calls[c] EXCEPT !.op = "adjust"] \in Call
    BY <2>1 DEF Call
  <2> QED
    BY <1>5, <2>2, KeepsType DEF CheckReversal, ledgerVars
<1>6. ASSUME NEW part \in HoldReads, ReadForHold(c, part)
      PROVE  TypeOK' /\ UNCHANGED <<balance, txs, overridden>>
  <2> DEFINE k == calls[c]
             read == CASE part = "balance" -> balance[k.account]
                       [] part = "reserved" -> -Reserved(k.account)
                       [] part = "held" -> -Held(k.account)
  <2>1. k \in [op : {"hold"}, account : Accounts, amount : Amounts,
               seen : Int, unread : SUBSET HoldReads]
    BY <1>1, <1>6, CallFields DEF ReadForHold
  <2>2. balance[k.account] \in Int /\ Reserved(k.account) \in Int /\ Held(k.account) \in Int
    <3>1. PendingWithdrawals(txs, k.account) \in SUBSET TxIds
      BY DEF PendingWithdrawals
    <3>2. Reserved(k.account) \in Nat
      BY <3>1, LedgerAssumption, FS_Subset, TotalIsNat DEF Reserved
    <3> QED
      BY <2>1, <3>2, HeldIsNat DEF TypeOK
  <2>3. read \in Int
    BY <2>2 DEF HoldReads
  <2>4. Keep(c, [k EXCEPT !.seen = @ + read, !.unread = @ \ {part}])
    BY <1>6 DEF ReadForHold
  <2> HIDE DEF read
  <2>5. [k EXCEPT !.seen = @ + read, !.unread = @ \ {part}]
           \in [op : {"hold"}, account : Accounts, amount : Amounts,
               seen : Int, unread : SUBSET HoldReads]
    <3>1. k.seen + read \in Int /\ k.unread \ {part} \in SUBSET HoldReads
      BY <2>1, <2>3
    <3> HIDE DEF k
    <3> QED
      BY <2>1, <3>1
  <2>6. [k EXCEPT !.seen = @ + read, !.unread = @ \ {part}] \in Call
    BY <2>5 DEF Call
  <2> QED
    BY <1>6, <2>4, <2>6, KeepsType DEF ReadForHold, ledgerVars
<1>7. ASSUME NEW h \in HoldIds, InsertHold(c, h)
      PROVE  TypeOK' /\ UNCHANGED <<balance, txs, overridden>>
  <2>1. calls[c].account \in Accounts /\ calls[c].amount \in Amounts
    BY <1>1, <1>7, CallFields DEF InsertHold
  <2>2. [account |-> calls[c].account, amount |-> calls[c].amount,
         status |-> "ACTIVE"] \in HoldRow
    BY <2>1 DEF HoldRow
  <2> QED
    BY <1>7, <2>2 DEF InsertHold, TypeOK, Return, Keep
<1> QED
  BY <1>2, <1>3, <1>4, <1>5, <1>6, <1>7

LEMMA ReleaseHoldType ==
  ASSUME TypeOK, NEW h \in HoldIds, ReleaseAccountHold(h)
  PROVE  TypeOK' /\ UNCHANGED <<balance, txs, calls, overridden>>
<1>1. holds[h] \in HoldRow
  BY DEF TypeOK, ReleaseAccountHold, NoRow
<1>2. [holds[h] EXCEPT !.status = "RELEASED"] \in HoldRow
  BY <1>1 DEF HoldRow
<1> QED
  BY <1>2 DEF ReleaseAccountHold, TypeOK

LEMMA OpenType ==
  ASSUME TypeOK, NEW a \in Accounts, NEW s \in {"PENDING", "ACTIVE"}, OpenBankAccount(a, s)
  PROVE  TypeOK' /\ UNCHANGED <<balance, txs, calls, overridden>>
BY DEF OpenBankAccount, TypeOK, Statuses

LEMMA QuietCalls ==
  ASSUME NEW c \in Calls, CustomerCall(c) \/ OperatorCall(c)
  PROVE  UNCHANGED <<balance, txs, overridden>>
BY DEF CustomerCall, OperatorCall, BeginDeposit, BeginWithdrawal, BeginTransfer,
   SubmitInternalTransfer, SubmitOperatorInternalTransfer,
   ApproveBankAccount, FreezeBankAccount, UnfreezeBankAccount, ReopenBankAccount,
   CloseBankAccount, BeginStatus, SetAccountRestrictions, ApplyAccountHold,
   BeginAdjustment, ReverseAdjustment, ledgerVars

-----------------------------------------------------------------------------
(* What the calls in flight agree on. *)

LEMMA KeepAgrees ==
  ASSUME TypeOK, CallsAgree, NEW c \in Calls, NEW k, CallAgrees(k), Keep(c, k)
  PROVE  CallsAgree'
<1>1. \A d \in Calls : calls'[d] = calls[d] \/ calls'[d] = k
  BY DEF Keep, TypeOK
<1> QED
  BY <1>1 DEF CallsAgree

LEMMA IdleAgrees == CallAgrees(Idle)
BY DEF CallAgrees, Idle

LEMMA TransferAgrees ==
  ASSUME TypeOK, CallsAgree, NEW c \in Calls, NEW a \in Accounts, NEW b \in Accounts,
         NEW n \in Amounts, BeginTransfer(c, a, b, n)
  PROVE  CallsAgree'
<1>1. CallAgrees([op |-> "transfer", account |-> a, to |-> b, amount |-> n])
  BY DEF CallAgrees, BeginTransfer
<1> QED
  BY <1>1, KeepAgrees DEF BeginTransfer

LEMMA CustomerCallAgrees ==
  ASSUME TypeOK, CallsAgree, NEW c \in Calls, CustomerCall(c)
  PROVE  CallsAgree'
<1>1. ASSUME NEW a \in Accounts, NEW n \in Amounts,
             BeginDeposit(c, a, n) \/ BeginWithdrawal(c, a, n)
      PROVE  CallsAgree'
  <2>1. /\ CallAgrees([op |-> "deposit", account |-> a, amount |-> n])
        /\ CallAgrees([op |-> "withdrawal", account |-> a, amount |-> n])
    BY DEF CallAgrees
  <2> QED
    BY <1>1, <2>1, KeepAgrees DEF BeginDeposit, BeginWithdrawal
<1>2. ASSUME NEW a \in Accounts, NEW n \in Amounts, NEW b \in Accounts,
             SubmitInternalTransfer(c, a, b, n)
      PROVE  CallsAgree'
  BY <1>2, TransferAgrees DEF SubmitInternalTransfer
<1> QED
  BY <1>1, <1>2 DEF CustomerCall

LEMMA OperatorCallAgrees ==
  ASSUME TypeOK, CallsAgree, NEW c \in Calls, OperatorCall(c)
  PROVE  CallsAgree'
<1>1. ASSUME NEW a \in Accounts, NEW from, NEW new, BeginStatus(c, a, from, new)
      PROVE  CallsAgree'
  <2>1. CallAgrees([op |-> "setStatus", account |-> a, status |-> new])
    BY DEF CallAgrees
  <2> QED
    BY <1>1, <2>1, KeepAgrees DEF BeginStatus
<1>2. ASSUME NEW a \in Accounts, NEW named, NEW on, SetAccountRestrictions(c, a, named, on)
      PROVE  CallsAgree'
  <2>1. CallAgrees([op |-> "setFlags", account |-> a,
                    flags |-> (restricted[a] \ named) \cup on])
    BY DEF CallAgrees
  <2> QED
    BY <1>2, <2>1, KeepAgrees DEF SetAccountRestrictions
<1>3. ASSUME NEW a \in Accounts, NEW n \in Amounts, ApplyAccountHold(c, a, n)
      PROVE  CallsAgree'
  <2>1. CallAgrees([op |-> "hold", account |-> a, amount |-> n, seen |-> 0,
                    unread |-> HoldReads])
    BY DEF CallAgrees
  <2> QED
    BY <1>3, <2>1, KeepAgrees DEF ApplyAccountHold
<1>4. ASSUME NEW a \in Accounts, NEW n \in Amounts, NEW debit \in BOOLEAN,
             NEW override \in BOOLEAN, BeginAdjustment(c, a, n, debit, override)
      PROVE  CallsAgree'
  <2>1. CallAgrees([op |-> "adjust", account |-> a, amount |-> n, debit |-> debit,
                    debitText |-> debit, override |-> override, reverses |-> {}])
    BY DEF CallAgrees
  <2> QED
    BY <1>4, <2>1, KeepAgrees DEF BeginAdjustment
<1>5. ASSUME NEW t \in TxIds, NEW override \in BOOLEAN, ReverseAdjustment(c, t, override)
      PROVE  CallsAgree'
  <2>1. txs[t].debitText \in BOOLEAN
    BY <1>5, RowFields DEF ReverseAdjustment
  <2>2. {t} # {}
    OBVIOUS
  <2>3. CallAgrees([op |-> "reverse", account |-> txs[t].account, amount |-> txs[t].amount,
                    debit |-> ~txs[t].debitText, debitText |-> txs[t].debitText,
                    override |-> override, reverses |-> {t}])
    BY <2>1, <2>2 DEF CallAgrees
  <2> QED
    BY <1>5, <2>3, KeepAgrees DEF ReverseAdjustment
<1>6. ASSUME NEW a \in Accounts, NEW b \in Accounts, NEW n \in Amounts,
             SubmitOperatorInternalTransfer(c, a, b, n)
      PROVE  CallsAgree'
  BY <1>6, TransferAgrees DEF SubmitOperatorInternalTransfer
<1> QED
  BY <1>1, <1>2, <1>3, <1>4, <1>5, <1>6
  DEF OperatorCall, ApproveBankAccount, FreezeBankAccount, UnfreezeBankAccount,
      ReopenBankAccount, CloseBankAccount

LEMMA FinishCallAgrees ==
  ASSUME TypeOK, CallsAgree, NEW c \in Calls, FinishCall(c)
  PROVE  CallsAgree'
<1>1. CASE Return(c)
  BY <1>1, IdleAgrees, KeepAgrees DEF Return
<1>2. CASE CheckReversal(c)
  <2>1. calls[c] \in [op : {"reverse", "adjust"}, account : Accounts,
                      amount : Amounts, debit : BOOLEAN, debitText : BOOLEAN,
                      override : BOOLEAN, reverses : SUBSET TxIds]
    BY <1>2, CallFields DEF CheckReversal, TypeOK
  <2>2. CallAgrees([calls[c] EXCEPT !.op = "adjust"])
    BY <1>2, <2>1 DEF CallAgrees, CallsAgree, CheckReversal
  <2> QED
    BY <1>2, <2>2, KeepAgrees DEF CheckReversal
<1>3. ASSUME NEW part \in HoldReads, ReadForHold(c, part)
      PROVE  CallsAgree'
  <2> DEFINE read == CASE part = "balance" -> balance[calls[c].account]
                       [] part = "reserved" -> -Reserved(calls[c].account)
                       [] part = "held" -> -Held(calls[c].account)
             k == [calls[c] EXCEPT !.seen = @ + read, !.unread = @ \ {part}]
  <2>1. Keep(c, k)
    BY <1>3 DEF ReadForHold
  <2> HIDE DEF read
  <2>2. calls[c] \in [op : {"hold"}, account : Accounts, amount : Amounts,
                     seen : Int, unread : SUBSET HoldReads]
    BY <1>3, CallFields DEF ReadForHold, TypeOK
  <2>3. CallAgrees(k)
    BY <2>2 DEF CallAgrees
  <2> QED
    BY <2>1, <2>3, KeepAgrees
<1> QED
  BY <1>1, <1>2, <1>3
  DEF FinishCall, Reject, WriteStatus, WriteRestrictions, InsertHold,
      SubmitDepositRequest, SubmitWithdrawalRequest, PostAdjustment, ExecuteTransfer

-----------------------------------------------------------------------------
(* The theorems. *)

LEMMA InitiallyBalanced ==
  ASSUME Init
  PROVE  IInv /\ Book!Init
<1>1. TypeOK
  BY DEF Init, TypeOK, Statuses
<1>2. CallsAgree /\ RowsAgree
  BY IdleAgrees DEF Init, CallsAgree, RowsAgree
<1>3. \A a : /\ PendingWithdrawals(txs, a) = {} /\ Credits(txs, a) = {}
             /\ Debits(txs, a) = {}
             /\ DebitReversals(txs, a) = {} /\ CreditReversals(txs, a) = {}
  BY DEF Init, NoRow, PendingWithdrawals, Credits, Debits, DebitReversals,
         CreditReversals, Approved
<1>4. Total({}, txs) = 0
  <2>1. {u \in {} \X Amounts : u[2] <= txs[u[1]].amount} = {}
    OBVIOUS
  <2> QED
    BY <2>1, FS_EmptySet DEF Total
<1>5. DriftIsReversals
  BY <1>3, <1>4, SMTT(30) DEF DriftIsReversals, LedgerBalance, Init
<1>6. Book!Init
  BY <1>3, <1>4 DEF Book!Init, Init, Reserved
<1> QED
  BY <1>1, <1>2, <1>5, <1>6 DEF IInv

LEMMA BooksBalance ==
  ASSUME IInv
  PROVE  Balanced(balance, txs)
<1>1. txs \in TxTable
  BY DEF IInv, TypeOK, TxTable
<1>2. ASSUME NEW a
      PROVE  Net(txs, a) = (Total(Credits(txs, a), txs) - Total(Debits(txs, a), txs))
                            + 2 * Total(DebitReversals(txs, a), txs)
                            - 2 * Total(CreditReversals(txs, a), txs)
  BY <1>1, NetIsInt DEF Net
<1> QED
  BY <1>2 DEF IInv, DriftIsReversals, Balanced, LedgerBalance

(* One step of the ledger: the invariant holds again, and the account book has
   made one step or none. *)
LEMMA LedgerStep ==
  ASSUME IInv, [Next]_vars
  PROVE  IInv' /\ [Book!Next]_bookView
<1>1. TypeOK /\ CallsAgree /\ RowsAgree /\ txs \in TxTable
  BY DEF IInv, TypeOK, TxTable
<1>2. Balanced(balance, txs)
  BY BooksBalance
<1> DEFINE Good == TypeOK' /\ RowsAgree' /\ Balanced(balance', txs')
<1>3. SUFFICES Good /\ CallsAgree' /\ [Book!Next]_bookView
  <2>1. Good => txs' \in TxTable
    BY DEF TypeOK, TxTable
  <2> QED
    BY <1>1, <1>3, <2>1, DriftIsBalanced DEF IInv
<1>4. ASSUME NEW c \in Calls, CustomerCall(c) \/ OperatorCall(c)
      PROVE  Good /\ CallsAgree' /\ [Book!Next]_bookView
  <2>1. TypeOK' /\ CallsAgree'
    BY <1>1, <1>4, CustomerCallType, OperatorCallType, CustomerCallAgrees, OperatorCallAgrees
  <2>2. UNCHANGED <<balance, txs, overridden>>
    BY <1>4, QuietCalls
  <2>3. RowsAgree' /\ Balanced(balance', txs') /\ UNCHANGED bookView
    BY <1>1, <1>2, <2>2, QuietStep
  <2> QED
    BY <2>1, <2>3
<1>5. ASSUME NEW c \in Calls, FinishCall(c)
      PROVE  Good /\ CallsAgree' /\ [Book!Next]_bookView
  <2>1. CallsAgree'
    BY <1>1, <1>5, FinishCallAgrees
  <2>2. CASE \/ Reject(c) \/ WriteStatus(c) \/ WriteRestrictions(c)
             \/ CheckReversal(c)
             \/ \E part \in HoldReads : ReadForHold(c, part)
             \/ \E h \in HoldIds : InsertHold(c, h)
    <3>1. TypeOK' /\ UNCHANGED <<balance, txs, overridden>>
      BY <1>1, <2>2, FinishCallType
    <3>2. RowsAgree' /\ Balanced(balance', txs') /\ UNCHANGED bookView
      BY <1>1, <1>2, <3>1, QuietStep
    <3> QED
      BY <2>1, <3>1, <3>2
  <2>3. ASSUME NEW t \in TxIds, SubmitDepositRequest(c, t)
        PROVE  Good /\ UNCHANGED bookView
    BY <1>1, <1>2, <2>3, SubmitDepositStep
  <2>4. ASSUME NEW t \in TxIds, SubmitWithdrawalRequest(c, t)
        PROVE  Good /\ Book!Next
    BY <1>1, <1>2, <2>4, SubmitWithdrawalStep DEF Book!Next, Book!Operate
  <2>5. ASSUME NEW t \in TxIds, PostAdjustment(c, t)
        PROVE  Good /\ Book!Next
    BY <1>1, <1>2, <2>5, PostAdjustmentStep DEF Book!Next, Book!Operate
  <2>6. ASSUME NEW t \in TxIds, NEW u \in TxIds, ExecuteTransfer(c, t, u)
        PROVE  Good /\ Book!Next
    <3>1. calls[c].account # calls[c].to
      BY <1>1, <2>6 DEF CallsAgree, CallAgrees, ExecuteTransfer
    <3> QED
      BY <1>1, <1>2, <2>6, <3>1, ExecuteTransferStep DEF Book!Next
  <2> QED
    BY <1>5, <2>1, <2>2, <2>3, <2>4, <2>5, <2>6 DEF FinishCall
<1>6. ASSUME NEW t \in TxIds, ReviewRow(t)
      PROVE  Good /\ CallsAgree' /\ [Book!Next]_bookView
  <2>1. CallsAgree'
    BY <1>1, <1>6 DEF CallsAgree, ReviewRow, ApproveDeposit, DenyDeposit,
                      ApproveWithdrawal, DenyWithdrawal, Review
  <2>2. CASE ApproveDeposit(t)
    BY <1>1, <1>2, <2>1, <2>2, ApproveDepositStep DEF Book!Next, Book!Operate
  <2>3. CASE DenyDeposit(t)
    BY <1>1, <1>2, <2>1, <2>3, DenyDepositStep
  <2>4. CASE ApproveWithdrawal(t)
    BY <1>1, <1>2, <2>1, <2>4, ApproveWithdrawalStep DEF Book!Next, Book!Operate
  <2>5. CASE DenyWithdrawal(t)
    BY <1>1, <1>2, <2>1, <2>5, DenyWithdrawalStep DEF Book!Next, Book!Operate
  <2> QED
    BY <1>6, <2>2, <2>3, <2>4, <2>5 DEF ReviewRow
<1>7. ASSUME NEW h \in HoldIds, ReleaseAccountHold(h)
      PROVE  Good /\ CallsAgree' /\ [Book!Next]_bookView
  <2>1. TypeOK' /\ UNCHANGED <<balance, txs, calls, overridden>>
    BY <1>1, <1>7, ReleaseHoldType
  <2>2. RowsAgree' /\ Balanced(balance', txs') /\ UNCHANGED bookView
    BY <1>1, <1>2, <2>1, QuietStep
  <2> QED
    BY <1>1, <2>1, <2>2 DEF CallsAgree
<1>8. ASSUME NEW a \in Accounts, NEW s \in {"PENDING", "ACTIVE"}, OpenBankAccount(a, s)
      PROVE  Good /\ CallsAgree' /\ [Book!Next]_bookView
  <2>1. TypeOK' /\ UNCHANGED <<balance, txs, calls, overridden>>
    BY <1>1, <1>8, OpenType
  <2>2. RowsAgree' /\ Balanced(balance', txs') /\ UNCHANGED bookView
    BY <1>1, <1>2, <2>1, QuietStep
  <2> QED
    BY <1>1, <2>1, <2>2 DEF CallsAgree
<1>9. CASE UNCHANGED vars
  <2>1. TypeOK' /\ CallsAgree' /\ UNCHANGED <<balance, txs, overridden>>
    BY <1>1, <1>9 DEF vars, TypeOK, CallsAgree
  <2>2. RowsAgree' /\ Balanced(balance', txs') /\ UNCHANGED bookView
    BY <1>1, <1>2, <2>1, QuietStep
  <2> QED
    BY <2>1, <2>2
<1> QED
  BY <1>4, <1>5, <1>6, <1>7, <1>8, <1>9 DEF Next

(* The types, the agreement of the rows, and the reconciliation of the stored
   balances with the approved rows hold in every state of every ledger, however
   its handlers interleave: bank.service.ts writes a balance and its row in one
   database transaction. *)
THEOREM LedgerInvariant == Spec => []IInv
<1>1. Init => IInv
  BY InitiallyBalanced
<1>2. IInv /\ [Next]_vars => IInv'
  BY LedgerStep
<1> QED
  BY <1>1, <1>2, PTL DEF Spec

(* Every variable of the ledger keeps its type. *)
THEOREM TypeCorrect == Spec => []TypeOK
<1>1. IInv => TypeOK
  BY DEF IInv
<1> QED
  BY <1>1, LedgerInvariant, PTL

(* A stored balance differs from what reconciliation computes by twice what
   reversals moved, and by nothing else. *)
THEOREM ReconciliationDrift == Spec => []DriftIsReversals
<1>1. IInv => DriftIsReversals
  BY DEF IInv
<1> QED
  BY <1>1, LedgerInvariant, PTL

(* The ledger implements the account book: what its handlers do to balances and
   to pending withdrawals are the operations of AccountBook, each under the
   book's condition, although the handlers check before they lock. *)
THEOREM LedgerImplementsBook == Spec => ImplementsBook
<1>1. Init => Book!Init
  BY InitiallyBalanced
<1>2. IInv /\ [Next]_vars => [Book!Next]_(Book!bookVars)
  BY LedgerStep DEF Book!bookVars, bookView
<1> QED
  BY <1>1, <1>2, LedgerInvariant, PTL DEF Spec, ImplementsBook, Book!Spec

(* The withdrawals that wait for a review are covered by their account. *)
THEOREM LedgerCoversWithdrawals == Spec => []WithdrawalsCovered
<1>1. Book!Spec => [](Book!TypeOK /\ Book!Covered)
  BY AmountsAreNat, Book!BookIsCovered
<1>2. Book!Covered => WithdrawalsCovered
  BY DEF Book!Covered, WithdrawalsCovered
<1> QED
  BY <1>1, <1>2, LedgerImplementsBook, PTL DEF ImplementsBook

(* A step that leaves balances alone, or raises them, debits nothing. *)
LEMMA DebitStep ==
  ASSUME IInv, [Next]_vars
  PROVE  LeavesReservations
<1>1. TypeOK /\ CallsAgree /\ RowsAgree /\ txs \in TxTable
  BY DEF IInv, TypeOK, TxTable
<1>2. Balanced(balance, txs)
  BY BooksBalance
<1>3. ASSUME UNCHANGED balance PROVE LeavesReservations
  BY <1>1, <1>3 DEF LeavesReservations, TypeOK
<1>4. ASSUME NEW c \in Calls, NEW t \in TxIds, PostAdjustment(c, t)
      PROVE  LeavesReservations
  BY <1>1, <1>2, <1>4, PostAdjustmentStep
<1>5. ASSUME NEW c \in Calls, NEW t \in TxIds, NEW u \in TxIds, ExecuteTransfer(c, t, u)
      PROVE  LeavesReservations
  <2>1. calls[c].account # calls[c].to
    BY <1>1, <1>5 DEF CallsAgree, CallAgrees, ExecuteTransfer
  <2> QED
    BY <1>1, <1>2, <1>5, <2>1, ExecuteTransferStep
<1>6. ASSUME NEW t \in TxIds, ApproveWithdrawal(t)
      PROVE  LeavesReservations
  BY <1>1, <1>2, <1>6, ApproveWithdrawalStep
<1>7. ASSUME NEW t \in TxIds, ApproveDeposit(t)
      PROVE  LeavesReservations
  <2>1. txs[t].account \in Accounts /\ txs[t].amount \in Nat
    BY <1>1, <1>7, RowFields, AmountsAreNat DEF ApproveDeposit, Review
  <2>2. \A a \in Accounts : ~(balance'[a] < balance[a])
    BY <1>1, <1>7, <2>1 DEF ApproveDeposit, TypeOK
  <2> QED
    BY <2>2 DEF LeavesReservations
<1>8. ASSUME NEW c \in Calls, FinishCall(c) PROVE LeavesReservations
  <2>1. CASE \/ Reject(c) \/ WriteStatus(c) \/ WriteRestrictions(c)
             \/ CheckReversal(c)
             \/ \E part \in HoldReads : ReadForHold(c, part)
             \/ \E h \in HoldIds : InsertHold(c, h)
    BY <1>1, <1>3, <2>1, FinishCallType
  <2>2. ASSUME NEW t \in TxIds, SubmitDepositRequest(c, t) \/ SubmitWithdrawalRequest(c, t)
        PROVE  LeavesReservations
    BY <1>3, <2>2 DEF SubmitDepositRequest, SubmitWithdrawalRequest
  <2> QED
    BY <1>4, <1>5, <1>8, <2>1, <2>2 DEF FinishCall
<1>9. ASSUME NEW t \in TxIds, ReviewRow(t) PROVE LeavesReservations
  BY <1>3, <1>6, <1>7, <1>9 DEF ReviewRow, DenyDeposit, DenyWithdrawal
<1>10. ASSUME NEW c \in Calls, CustomerCall(c) \/ OperatorCall(c) PROVE LeavesReservations
  BY <1>3, <1>10, QuietCalls
<1>11. ASSUME NEW h \in HoldIds, ReleaseAccountHold(h) PROVE LeavesReservations
  BY <1>3, <1>11 DEF ReleaseAccountHold
<1>12. ASSUME NEW a \in Accounts, NEW s \in {"PENDING", "ACTIVE"}, OpenBankAccount(a, s)
       PROVE  LeavesReservations
  BY <1>3, <1>12 DEF OpenBankAccount
<1>13. CASE UNCHANGED vars
  BY <1>3, <1>13 DEF vars
<1> QED
  BY <1>8, <1>9, <1>10, <1>11, <1>12, <1>13 DEF Next

(* No debit but an override takes money that is reserved or held. *)
THEOREM DebitsKeepReservations == Spec => DebitsRespectReservations
<1>1. IInv /\ [Next]_vars => [LeavesReservations]_vars
  BY DebitStep
<1>2. [LeavesReservations]_vars =>
        [\A a \in Accounts :
           balance'[a] < balance[a] /\ overridden' = overridden
           /\ a \notin overridden => balance'[a] >= Reserved(a)' + Held(a)']_vars
  BY DEF LeavesReservations
<1> QED
  BY <1>1, <1>2, LedgerInvariant, PTL DEF Spec, DebitsRespectReservations

(* A step writes rows that were free, or reviews one that was pending. *)
LEMMA ReviewStep ==
  ASSUME IInv, [Next]_vars, NEW t \in TxIds, txs[t] # NoRow
  PROVE  \/ txs'[t] = txs[t]
         \/ /\ txs[t].status = "PENDING"
            /\ txs'[t] = [txs[t] EXCEPT !.status = txs'[t].status]
<1> DEFINE Final == \/ txs'[t] = txs[t]
                    \/ /\ txs[t].status = "PENDING"
                       /\ txs'[t] = [txs[t] EXCEPT !.status = txs'[t].status]
<1>1. TypeOK /\ txs \in TxTable
  BY DEF IInv, TypeOK, TxTable
<1>2. ASSUME UNCHANGED txs PROVE Final
  BY <1>2
<1>3. ASSUME NEW u \in TxIds, NEW row, txs[u] = NoRow, txs' = [txs EXCEPT ![u] = row]
      PROVE  Final
  BY <1>1, <1>3 DEF TxTable
<1>4. ASSUME NEW u \in TxIds, NEW type, NEW outcome, Review(u, type, outcome)
      PROVE  Final
  <2>1. CASE u # t
    BY <1>1, <1>4, <2>1 DEF Review, TxTable
  <2>2. CASE u = t
    <3>1. txs[t] \in TxRow /\ txs[t].status = "PENDING"
      BY <1>1, <1>4, <2>2, RowFields DEF Review
    <3>2. txs'[t] = [txs[t] EXCEPT !.status = outcome]
      BY <1>1, <1>4, <2>2 DEF Review, TxTable
    <3>3. txs'[t].status = outcome
      BY <3>1, <3>2 DEF TxRow
    <3> QED
      BY <3>1, <3>2, <3>3
  <2> QED
    BY <2>1, <2>2
<1> HIDE DEF Final
<1>5. ASSUME NEW c \in Calls, FinishCall(c) PROVE Final
  <2>1. CASE \/ Reject(c) \/ WriteStatus(c) \/ WriteRestrictions(c)
             \/ CheckReversal(c)
             \/ \E part \in HoldReads : ReadForHold(c, part)
             \/ \E h \in HoldIds : InsertHold(c, h)
    BY <1>1, <1>2, <2>1, FinishCallType
  <2>2. ASSUME NEW u \in TxIds,
               SubmitDepositRequest(c, u) \/ SubmitWithdrawalRequest(c, u)
                  \/ PostAdjustment(c, u)
        PROVE  Final
    BY <1>3, <2>2 DEF SubmitDepositRequest, SubmitWithdrawalRequest, PostAdjustment, FreshTx
  <2>3. ASSUME NEW u \in TxIds, NEW w \in TxIds, ExecuteTransfer(c, u, w)
        PROVE  Final
    <3>1. u # t /\ w # t
      BY <2>3 DEF ExecuteTransfer, FreshTx
    <3> QED
      BY <1>1, <2>3, <3>1 DEF ExecuteTransfer, TxTable, Final
  <2> QED
    BY <1>5, <2>1, <2>2, <2>3 DEF FinishCall
<1>6. ASSUME NEW u \in TxIds, ReviewRow(u) PROVE Final
  BY <1>4, <1>6 DEF ReviewRow, ApproveDeposit, DenyDeposit, ApproveWithdrawal, DenyWithdrawal
<1>7. ASSUME NEW c \in Calls, CustomerCall(c) \/ OperatorCall(c) PROVE Final
  BY <1>2, <1>7, QuietCalls
<1>8. ASSUME NEW h \in HoldIds, ReleaseAccountHold(h) PROVE Final
  BY <1>2, <1>8 DEF ReleaseAccountHold
<1>9. ASSUME NEW a \in Accounts, NEW s \in {"PENDING", "ACTIVE"}, OpenBankAccount(a, s)
      PROVE  Final
  BY <1>2, <1>9 DEF OpenBankAccount
<1>10. CASE UNCHANGED vars
  BY <1>2, <1>10 DEF vars
<1> QED
  BY <1>5, <1>6, <1>7, <1>8, <1>9, <1>10 DEF Next, Final

(* A row keeps its account, type and amount, and a reviewed row its outcome. *)
THEOREM ReviewsStayFinal == Spec => ReviewsAreFinal
<1> DEFINE A == \A t \in TxIds : txs[t] # NoRow =>
                  \/ txs'[t] = txs[t]
                  \/ /\ txs[t].status = "PENDING"
                     /\ txs'[t] = [txs[t] EXCEPT !.status = txs'[t].status]
<1>1. IInv /\ [Next]_vars => [A]_vars
  BY ReviewStep
<1> QED
  BY <1>1, LedgerInvariant, PTL DEF Spec, ReviewsAreFinal

=============================================================================

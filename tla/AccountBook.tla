----------------------------- MODULE AccountBook -----------------------------
(***************************************************************************)
(* What Alta Bank promises about the money in its customer accounts,       *)
(* without requests, reviews, statuses or database rows.  An account has a *)
(* balance and a part of it that is reserved for withdrawals that wait for *)
(* a review.  Money is spent only out of what is not reserved, and a       *)
(* reserved amount is paid out only while every reserved amount of the     *)
(* account is there.  The one exception is an administrator's override,    *)
(* after which the account carries no promise.  BankLedger is shown to     *)
(* implement this module.                                                  *)
(***************************************************************************)
EXTENDS Integers, TLAPS

CONSTANTS Accounts,
          Amounts      \* amounts of one operation

VARIABLES balance,     \* money of each account
          reserved,    \* part of it promised to withdrawals under review
          overridden   \* accounts debited past their funds by an override

bookVars == <<balance, reserved, overridden>>

Free(a) == balance[a] - reserved[a]

Init == /\ balance = [a \in Accounts |-> 0]
        /\ reserved = [a \in Accounts |-> 0]
        /\ overridden = {}

\* A withdrawal request sets n aside.
Reserve(a, n) == /\ n <= Free(a)
                 /\ reserved' = [reserved EXCEPT ![a] = @ + n]
                 /\ UNCHANGED <<balance, overridden>>

\* The request is denied: n is free again.
Release(a, n) == /\ n <= reserved[a]
                 /\ reserved' = [reserved EXCEPT ![a] = @ - n]
                 /\ UNCHANGED <<balance, overridden>>

\* The request is approved: n leaves the bank.
Settle(a, n) == /\ n <= reserved[a]
                /\ reserved[a] <= balance[a]
                /\ balance' = [balance EXCEPT ![a] = @ - n]
                /\ reserved' = [reserved EXCEPT ![a] = @ - n]
                /\ UNCHANGED overridden

Credit(a, n) == /\ balance' = [balance EXCEPT ![a] = @ + n]
                /\ UNCHANGED <<reserved, overridden>>

Debit(a, n) == /\ n <= Free(a)
               /\ balance' = [balance EXCEPT ![a] = @ - n]
               /\ UNCHANGED <<reserved, overridden>>

Override(a, n) == /\ balance' = [balance EXCEPT ![a] = @ - n]
                  /\ overridden' = overridden \cup {a}
                  /\ UNCHANGED reserved

Move(a, b, n) == /\ a # b
                 /\ n <= Free(a)
                 /\ balance' = [balance EXCEPT ![a] = @ - n, ![b] = @ + n]
                 /\ UNCHANGED <<reserved, overridden>>

\* One account's own operations, and the transfer of money between two.
Operate(a, n) == \/ Reserve(a, n)
                 \/ Release(a, n)
                 \/ Settle(a, n)
                 \/ Credit(a, n)
                 \/ Debit(a, n)
                 \/ Override(a, n)

Next == \E a \in Accounts, n \in Amounts :
           \/ Operate(a, n)
           \/ \E b \in Accounts : Move(a, b, n)

Spec == Init /\ [][Next]_bookVars

-----------------------------------------------------------------------------
TypeOK == /\ balance \in [Accounts -> Int]
          /\ reserved \in [Accounts -> Nat]
          /\ overridden \in SUBSET Accounts

(* Every withdrawal under review is covered by the balance, so no account is
   overdrawn, unless an administrator overrode the check for it. *)
Covered == \A a \in Accounts \ overridden : reserved[a] <= balance[a]

-----------------------------------------------------------------------------
(* The book keeps every reserved amount covered, for any accounts and any
   amounts: what AccountBook promises of assertAccountAvailableForDebitInTx. *)
THEOREM BookIsCovered ==
  ASSUME Amounts \subseteq Nat
  PROVE  Spec => [](TypeOK /\ Covered)
<1>1. Init => TypeOK /\ Covered
  BY DEF Init, TypeOK, Covered
<1>2. TypeOK /\ Covered /\ [Next]_bookVars => TypeOK' /\ Covered'
  <2> SUFFICES ASSUME TypeOK, Covered, [Next]_bookVars
               PROVE  TypeOK' /\ Covered'
    OBVIOUS
  <2>1. ASSUME NEW a \in Accounts, NEW n \in Amounts, Operate(a, n)
        PROVE  TypeOK' /\ Covered'
    <3>1. n \in Nat
      OBVIOUS
    <3>2. CASE Reserve(a, n)
      BY <3>1, <3>2 DEF Reserve, Free, TypeOK, Covered
    <3>3. CASE Release(a, n)
      BY <3>1, <3>3 DEF Release, TypeOK, Covered
    <3>4. CASE Settle(a, n)
      BY <3>1, <3>4 DEF Settle, TypeOK, Covered
    <3>5. CASE Credit(a, n)
      BY <3>1, <3>5 DEF Credit, TypeOK, Covered
    <3>6. CASE Debit(a, n)
      BY <3>1, <3>6 DEF Debit, Free, TypeOK, Covered
    <3>7. CASE Override(a, n)
      BY <3>1, <3>7 DEF Override, TypeOK, Covered
    <3> QED
      BY <2>1, <3>2, <3>3, <3>4, <3>5, <3>6, <3>7 DEF Operate
  <2>2. ASSUME NEW a \in Accounts, NEW b \in Accounts, NEW n \in Amounts, Move(a, b, n)
        PROVE  TypeOK' /\ Covered'
    <3>1. n \in Nat
      OBVIOUS
    <3> QED
      BY <2>2, <3>1 DEF Move, Free, TypeOK, Covered
  <2>3. CASE UNCHANGED bookVars
    BY <2>3 DEF bookVars, TypeOK, Covered
  <2> QED
    BY <2>1, <2>2, <2>3 DEF Next
<1> QED
  BY <1>1, <1>2, PTL DEF Spec
=============================================================================

---------------------------- MODULE MCBankLedger ----------------------------
(* Instances of BankLedger for TLC. *)
EXTENDS BankLedger, TLC

\* Rows, handlers and accounts are interchangeable.
RowSymmetry == Permutations(TxIds) \cup Permutations(Accounts)
                  \cup Permutations(Calls)
=============================================================================

------------------------------ MODULE MCPayroll -------------------------------
(* Instances of Payroll for TLC. *)
EXTENDS Payroll, TLC

\* Employees and calls are interchangeable.
CallSymmetry == Permutations(Employees) \cup Permutations(Workers)
=============================================================================

---------------------------- MODULE MCTerminalCash ----------------------------
(***************************************************************************)
(* Instances of TerminalCash for TLC.  A unit is the hundred-thousandth     *)
(* part of a florin, so that a cent has 1000 units; the fee for NPFC is 10  *)
(* basis points.                                                            *)
(***************************************************************************)
EXTENDS TerminalCash

CONSTANTS p1, p2

Ask(o, p, n, k) == [op |-> o, portfolio |-> p, amount |-> n, key |-> k]

\* Two portfolios draw on one bank account and trade in one market while the
\* desk takes revenue out of it; a key is used for two transfers and for two
\* orders that differ.
Requested == {Ask("BANK_TO_TERMINAL", p1, 200000, 1), Ask("BANK_TO_TERMINAL", p2, 200000, 2),
              Ask("TERMINAL_TO_BANK", p1, 500000, 1),
              Ask("BUY", p1, 500000, 1), Ask("SELL", p1, 105000, 1),
              Ask("BUY", p2, 100000, 1),
              Ask("SWEEP", p1, 100000, 1), Ask("CONTRIBUTE", p1, 100000, 1)}
=============================================================================

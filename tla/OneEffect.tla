------------------------------- MODULE OneEffect -------------------------------
(***************************************************************************)
(* What an idempotency key promises: of all requests that carry the same    *)
(* key at most one is ever carried out, and whoever is told that a request  *)
(* is done gets the receipt of that one, after it was carried out.          *)
(***************************************************************************)
EXTENDS Integers

CONSTANTS Requests,
          Key        \* the key of each request

VARIABLES made,      \* how often each request has been carried out
          receipts   \* pairs of a request and the request whose receipt it was given

Init == made = [r \in Requests |-> 0] /\ receipts = {}

CarryOut(r) == /\ \A q \in Requests : Key[q] = Key[r] => made[q] = 0
               /\ made' = [made EXCEPT ![r] = 1]
               /\ UNCHANGED receipts

Tell(r, q) == /\ made[q] = 1
              /\ Key[q] = Key[r]
              /\ receipts' = receipts \cup {<<r, q>>}
              /\ UNCHANGED made

Next == \E r \in Requests : CarryOut(r) \/ \E q \in Requests : Tell(r, q)

Spec == Init /\ [][Next]_<<made, receipts>>
=============================================================================

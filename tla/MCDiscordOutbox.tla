---------------------------- MODULE MCDiscordOutbox ----------------------------
(* Instances of DiscordOutbox for TLC: the messages to customers are about one
   object, so they share a row of the retry queue.  The sets of messages overlap:
   a message begins with its request or as the replay of another. *)
EXTENDS DiscordOutbox, TLC

CommonRow == [m \in Messages |-> CHOOSE e \in Entities : TRUE]

Interchangeable == Permutations(Dms) \cup Permutations(Workers) \cup Permutations(Jobs)
=============================================================================

------------------------------ MODULE MCMailbox ------------------------------
(* Small instances of Mailbox for TLC. *)
EXTENDS Mailbox, TLC

Symm == Permutations(Producers) \cup Permutations(Items \ {NoTask})
=============================================================================

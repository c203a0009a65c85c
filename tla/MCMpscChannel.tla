---------------------------- MODULE MCMpscChannel ----------------------------
(* Small instances of MpscChannel for TLC. *)
EXTENDS MpscChannel, TLC

CONSTANTS a, b

\* two values, in a bulk and alone, so that an order of them can be told from another
MCBulks == {<<a, b>>, <<b>>}

Symm == Permutations(Producers)
=============================================================================

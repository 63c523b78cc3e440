----------------------------- MODULE MCFaketime -----------------------------
(* Small instances of Faketime. *)
EXTENDS Faketime, TLC

CONSTANTS a, b, t1, t2

Symmetry == Permutations(Threads)
=============================================================================

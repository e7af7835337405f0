------------------------- MODULE MCEmailVerification -------------------------
(* EmailVerification on small instances. *)
EXTENDS EmailVerification, TLC

Symmetry == Permutations(Code) \cup Permutations(Client)
=============================================================================

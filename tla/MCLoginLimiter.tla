--------------------------- MODULE MCLoginLimiter ---------------------------
(***************************************************************************)
(* Instances of LoginLimiter for TLC.                                       *)
(***************************************************************************)
EXTENDS LoginLimiter, TLC

Symmetry == Permutations(Request) \union Permutations(Client)
=============================================================================

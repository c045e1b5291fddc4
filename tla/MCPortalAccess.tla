--------------------------- MODULE MCPortalAccess ---------------------------
(***************************************************************************)
(* Threads, tokens, hashes and targets are interchangeable: nothing in      *)
(* PortalAccess tells one from another.                                     *)
(***************************************************************************)
EXTENDS PortalAccess, TLC

Symmetry ==
  Permutations(Thread) \union Permutations(Token)
    \union Permutations(Hash) \union Permutations(Target)
=============================================================================

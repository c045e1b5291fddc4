--------------------------- MODULE MCBridgeApply ---------------------------
(***************************************************************************)
(* Instances of BridgeApply for TLC.  One body of each kind is enough: the  *)
(* code tells bodies apart only by comparing texts and by these kinds.      *)
(***************************************************************************)
EXTENDS BridgeApply, TLC

(* The reconcilers of a run without dry runs and --no-restart are alike.    *)
Symmetry == Permutations(Reconciler)

(* The operator's own [forward_protocol] is rendered away, so which one the *)
(* base names is fixed.                                                     *)
OwnBase == base = Absent \/ base.upstream = "own"
=============================================================================

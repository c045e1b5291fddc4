--------------------------- MODULE ClientRecovery ---------------------------
(***************************************************************************)
(* Both recovery tools over one panel, with the operator at it.  The tools  *)
(* meet in the panel: a restart by the outbound tool makes the calls of the *)
(* subscription tool fail, and what the latter writes to the client is what *)
(* the former reads.                                                        *)
(***************************************************************************)
EXTENDS SubscriptionRecovery, OutboundRecovery

vars == <<panelvars, spent, subvars, outvars>>

TypeOK == PanelTypeOK /\ SubTypeOK /\ OutTypeOK

Init == PanelInit /\ SubInit /\ OutInit

Subscription == SubNext /\ UNCHANGED outvars
Outbound     == OutNext /\ UNCHANGED subvars

Others ==
  /\ Panel
  /\ Noticed /\ Remembered
  /\ UNCHANGED <<sub, mode, held, subState, subLapses>>
  /\ UNCHANGED <<out, task, have, outState, outLapses>>

Next == Subscription \/ Outbound \/ Others

Spec == Init /\ [][Next]_vars
=============================================================================

-------------------------- MODULE MCOutboundFetch --------------------------
(***************************************************************************)
(* An instance of OutboundFetch for TLC: one address of each kind that the  *)
(* checks tell apart.                                                       *)
(***************************************************************************)
EXTENDS OutboundFetch

Plain(c) == [class |-> c, metadata |-> FALSE]

MCAddress == {Plain("global"), Plain("loopback"), Plain("multicast"),
              Plain("link-local"), [class |-> "global", metadata |-> TRUE]}
=============================================================================

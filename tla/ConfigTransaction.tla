------------------------- MODULE ConfigTransaction -------------------------
(***************************************************************************)
(* What ttx-bridge promises its operator (SPEC.md section 6, AD-5): a new   *)
(* configuration settles only after the service was started with it and     *)
(* was seen running; an apply that fails leaves the settled configuration   *)
(* as it was.  Every departure from that is a lapse, and it is counted.     *)
(***************************************************************************)
CONSTANTS
  Content,     \* what a configuration can hold
  Acceptable,  \* those the bridge may put in place
  Absent       \* no configuration

VARIABLES
  settled,  \* the configuration in force once every apply is over
  service,  \* what the service loaded at its last start, and is it active
  sound     \* no change was ever left without its checked restart

Init ==
  /\ settled \in Content \union {Absent}
  /\ service = [loaded |-> settled, active |-> settled # Absent]
  /\ sound = TRUE

(* The service starts, with the settled configuration or one on trial.      *)
Start ==
  /\ \E c \in Acceptable \union {settled}, up \in BOOLEAN :
       service' = [loaded |-> c, active |-> up]
  /\ UNCHANGED <<settled, sound>>

Stop ==
  /\ service' = [service EXCEPT !.active = FALSE]
  /\ UNCHANGED <<settled, sound>>

(* The configuration on trial becomes the settled one.                      *)
Commit ==
  /\ service.loaded \in Acceptable
  /\ service.active
  /\ settled' = service.loaded
  /\ UNCHANGED <<service, sound>>

(* An interrupted or half-failed apply: the settled configuration may be a  *)
(* new one nobody started, and the promise is void from here on.            *)
LapseOccurs ==
  /\ settled' \in Acceptable \union {settled}
  /\ sound' = FALSE
  /\ UNCHANGED service

Next == Start \/ Stop \/ Commit \/ LapseOccurs

Spec == Init /\ [][Next]_<<settled, service, sound>>
=============================================================================

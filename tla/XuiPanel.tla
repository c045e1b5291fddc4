------------------------------ MODULE XuiPanel ------------------------------
(***************************************************************************)
(* The 3x-ui panel as the two recovery tools use it                         *)
(* (deploy/xui_subscription_recovery.py, xui_outbound_client_recovery.py),   *)
(* with the operator who edits it meanwhile.  All of it is external.        *)
(*                                                                         *)
(* The abstraction.  A client is its subId and a revision, which stands for *)
(* all its other fields, UUID and flow included; the rest of an inbound and *)
(* the rest of the Xray template are revisions too.  Every edit makes a     *)
(* revision that was never there before.                                    *)
(***************************************************************************)
EXTENDS Naturals

CONSTANTS
  Inbound,    \* the inbounds the client is attached to
  Absent,     \* no state.json
  Before,     \* credentials no client has any more
  MaxEdits,   \* bound on edits at the panel
  MaxErrors,  \* bound on failed calls and commands
  MaxKills    \* bound on killed commands

ASSUME PanelAssumption ==
  /\ Inbound # {}
  /\ "record" \notin Inbound
  /\ Before \notin Nat
  /\ MaxEdits \in Nat
  /\ MaxErrors \in Nat
  /\ MaxKills \in Nat

Rev      == 0..MaxEdits
Client   == [sub : {"old", "new"}, rev : Rev]
Place    == Inbound \union {"record"}       \* where the panel keeps the client
Template == [cred : Rev \union {Before}, rev : Rev]

VARIABLES
  clients,    \* the client's record, and its copy in each inbound's settings
  rest,       \* what else an inbound holds
  template,   \* xrayTemplateConfig: the outbound's credentials and the rest
  active,     \* the credentials in the config.json Xray runs with
  up,         \* the panel answers
  spent       \* how much of each bound was used

panelvars == <<clients, rest, template, active, up>>

Bound == [edits |-> MaxEdits, errors |-> MaxErrors, kills |-> MaxKills]
Spend(b) ==
  /\ spent[b] < Bound[b]
  /\ spent' = [spent EXCEPT ![b] = @ + 1]

PanelTypeOK ==
  /\ clients \in [Place -> Client]
  /\ rest \in [Inbound -> Rev]
  /\ template \in Template
  /\ active \in Rev \union {Before}
  /\ up \in BOOLEAN
  /\ spent \in [DOMAIN Bound -> Nat]
  /\ \A b \in DOMAIN Bound : spent[b] <= Bound[b]

PanelInit ==
  /\ clients = [p \in Place |-> [sub |-> "old", rev |-> 0]]
  /\ rest = [i \in Inbound |-> 0]
  /\ template = [cred |-> Before, rev |-> 0]
  /\ active = Before
  /\ up = TRUE
  /\ spent = [b \in DOMAIN Bound |-> 0]

Fresh == spent["edits"] + 1

(* The operator changes the client, which the panel writes to all places.   *)
EditClient ==
  /\ up
  /\ Spend("edits")
  /\ clients' = [p \in Place |-> [clients[p] EXCEPT !.rev = Fresh]]
  /\ UNCHANGED <<rest, template, active, up>>

EditInbound ==
  /\ up
  /\ Spend("edits")
  /\ \E i \in Inbound : rest' = [rest EXCEPT ![i] = Fresh]
  /\ UNCHANGED <<clients, template, active, up>>

(* The operator saves the template, with or without these credentials.      *)
EditTemplate ==
  /\ up
  /\ Spend("edits")
  /\ \E c \in {template.cred, Before} : template' = [cred |-> c, rev |-> Fresh]
  /\ UNCHANGED <<clients, rest, active, up>>

(* The panel starts Xray again, with a config.json made of the template:    *)
(* after its own start, and whenever it, or somebody at it, wants to.       *)
StartXray ==
  /\ active' = template.cred
  /\ up' = TRUE
  /\ UNCHANGED <<clients, rest, template, spent>>

(* clients/update writes the payload to the places it comes to; a panel     *)
(* that is down does nothing, and an error may stop it halfway, whatever    *)
(* the answer says, or lose the answer.                                     *)
Post(payload, answered) ==
  \E reached \in SUBSET Place :
    /\ clients' = [p \in Place |-> IF p \in reached THEN payload ELSE clients[p]]
    /\ \/ /\ up /\ reached = Place /\ answered
          /\ UNCHANGED spent
       \/ /\ ~up /\ reached = {} /\ ~answered
          /\ UNCHANGED spent
       \/ /\ up /\ ~(reached = Place /\ answered)
          /\ Spend("errors")
    /\ UNCHANGED <<rest, template, active, up>>

(* A request that is not answered.                                          *)
CallFails ==
  \/ ~up /\ UNCHANGED spent
  \/ up /\ Spend("errors")

Panel == EditClient \/ EditInbound \/ EditTemplate \/ StartXray
=============================================================================

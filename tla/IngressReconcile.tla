-------------------------- MODULE IngressReconcile --------------------------
(***************************************************************************)
(* The panel half of a reconcile (bridge/ttx_bridge.py): list the inbounds  *)
(* of 3x-ui, find the ingress by its remark, add or repair it.  The calls   *)
(* are separate HTTP requests outside the apply lock, so the operator and   *)
(* other reconcilers work on the panel between them.                        *)
(*                                                                         *)
(* The abstraction.  An inbound is its remark, its port, whether the other  *)
(* fields the bridge owns are right, and its traffic counter.  The panel is *)
(* external: it numbers inbounds in ascending order, lists them in that     *)
(* order and refuses a port another inbound has.                            *)
(***************************************************************************)
EXTENDS Naturals, FiniteSets

CONSTANTS
  Reconciler,   \* the bridge processes
  Daemon,       \* those that run for ever: the watch loop or the timer
  DryRunner,    \* those started with --dry-run
  Manage,       \* ingress.manage
  Port,         \* ports in use
  OwnPort,      \* ingress.port
  Nothing,      \* no inbound
  MaxId,        \* bound on the inbounds ever created
  MaxTraffic,   \* bound on a traffic counter
  MaxRuns,      \* bound on runs of the reconcilers outside Daemon
  MaxEdits,     \* bound on changes by the operator
  MaxErrors     \* bound on failed requests

Inbound == [remark : {"ingress", "other"}, port : Port, right : BOOLEAN,
            traffic : 0..MaxTraffic]

ASSUME IngressAssumption ==
  /\ Daemon \subseteq Reconciler
  /\ DryRunner \subseteq Reconciler
  /\ Manage \in BOOLEAN
  /\ OwnPort \in Port
  /\ Nothing \notin Inbound
  /\ MaxId \in Nat \ {0}
  /\ MaxTraffic \in Nat
  /\ MaxRuns \in Nat
  /\ MaxEdits \in Nat
  /\ MaxErrors \in Nat

Id == 1..MaxId

VARIABLES
  inbounds,  \* the panel's table: an inbound, or Nothing, for every id
  nextId,    \* the panel's next id
  pc,        \* where each reconciler stands in reconcile_ingress
  found,     \* the id find_ingress returned, 0 for none
  existing,  \* the inbound of that id when it was listed
  outcome,   \* what the last reconcile_ingress of each reported
  spent      \* how much of each bound was used

panelvars == <<inbounds, nextId>>
vars == <<inbounds, nextId, pc, found, existing, outcome, spent>>

Budget == {"runs", "edits", "errors"}
Bound == [runs |-> MaxRuns, edits |-> MaxEdits, errors |-> MaxErrors]

Spend(b) ==
  /\ spent[b] < Bound[b]
  /\ spent' = [spent EXCEPT ![b] = @ + 1]

Present == {i \in Id : inbounds[i] # Nothing}

TypeOK ==
  /\ inbounds \in [Id -> Inbound \union {Nothing}]
  /\ nextId \in 1..MaxId + 1
  /\ pc \in [Reconciler -> {"idle", "listed"}]
  /\ found \in [Reconciler -> 0..MaxId]
  /\ existing \in [Reconciler -> Inbound \union {Nothing}]
  /\ outcome \in [Reconciler -> {"none", "ok", "failed"}]
  /\ spent \in [Budget -> Nat]

PortFree(port, id) == \A i \in Present \ {id} : inbounds[i].port # port

(* The panel holds some inbounds of the operator, or an earlier ingress.    *)
Init ==
  /\ nextId \in 1..2
  /\ inbounds \in [Id -> Inbound \union {Nothing}]
  /\ \A i \in Id : inbounds[i] # Nothing <=> i < nextId
  /\ \A i \in Present : PortFree(inbounds[i].port, i) /\ inbounds[i].traffic = 0
  /\ pc = [p \in Reconciler |-> "idle"]
  /\ found = [p \in Reconciler |-> 0]
  /\ existing = [p \in Reconciler |-> Nothing]
  /\ outcome = [p \in Reconciler |-> "none"]
  /\ spent = [b \in Budget |-> 0]

-----------------------------------------------------------------------------
(***************************************************************************)
(* What the bridge computes                                                *)
(***************************************************************************)

(* build_ingress_payload with the counters of the inbound it replaces; and  *)
(* a payload without them.                                                  *)
PayloadBare(traffic) ==
  [remark |-> "ingress", port |-> OwnPort, right |-> TRUE]
Payload(traffic) ==
  [remark |-> "ingress", port |-> OwnPort, right |-> TRUE,
   traffic |-> traffic]

(* find_ingress goes by the remark and nothing else; a search that also     *)
(* takes the inbound that has the configured port.                          *)
OwnedByPort(inbound) == inbound.remark = "ingress" \/ inbound.port = OwnPort
Owned(inbound) == inbound.remark = "ingress"

Found ==
  LET owned == {i \in Present : Owned(inbounds[i])}
  IN  IF owned = {} THEN 0
      ELSE CHOOSE i \in owned : \A j \in owned : i <= j

(* A comparison that looks at the port alone; the whole of it.              *)
DriftedPort(inbound) == inbound.port # OwnPort
Drifted(inbound) == inbound.port # OwnPort \/ ~inbound.right

-----------------------------------------------------------------------------
(***************************************************************************)
(* reconcile_ingress                                                       *)
(***************************************************************************)

Starts(p) == IF p \in Daemon THEN UNCHANGED spent ELSE Spend("runs")

Finish(p, o) ==
  /\ pc' = [pc EXCEPT ![p] = "idle"]
  /\ found' = [found EXCEPT ![p] = 0]
  /\ existing' = [existing EXCEPT ![p] = Nothing]
  /\ outcome' = [outcome EXCEPT ![p] = o]

(* list_inbounds, with the login before it, and find_ingress.               *)
List(p) ==
  /\ pc[p] = "idle"
  /\ Starts(p)
  /\ pc' = [pc EXCEPT ![p] = "listed"]
  /\ found' = [found EXCEPT ![p] = Found]
  /\ existing' = [existing EXCEPT ![p] =
                    IF Found = 0 THEN Nothing ELSE inbounds[Found]]
  /\ UNCHANGED <<panelvars, outcome>>

(* Any of the requests fails: nothing was done, or only the answer is lost. *)
ListFails(p) ==
  /\ pc[p] = "idle"
  /\ Spend("errors")
  /\ Finish(p, "failed")
  /\ UNCHANGED panelvars

(* Nothing to do, or nothing allowed: dry run, manage=false.                *)
Leave(p) ==
  /\ pc[p] = "listed"
  /\ IF found[p] = 0 THEN ~Manage \/ p \in DryRunner
     ELSE ~Drifted(existing[p]) \/ ~Manage \/ p \in DryRunner
  /\ Finish(p, IF found[p] = 0 /\ ~Manage THEN "failed" ELSE "ok")
  /\ UNCHANGED <<panelvars, spent>>

Answered(p) ==
  \/ Finish(p, "ok") /\ UNCHANGED spent
  \/ Finish(p, "failed") /\ Spend("errors")

WantsAdd(p) ==
  pc[p] = "listed" /\ found[p] = 0 /\ Manage /\ p \notin DryRunner

(* add_inbound; the panel refuses a port that is taken.                     *)
Add(p) ==
  /\ WantsAdd(p)
  /\ PortFree(OwnPort, 0)
  /\ nextId \in Id
  /\ inbounds' = [inbounds EXCEPT ![nextId] = Payload(0)]
  /\ nextId' = nextId + 1
  /\ Answered(p)

AddRefused(p) ==
  /\ WantsAdd(p)
  /\ (~PortFree(OwnPort, 0) /\ UNCHANGED spent) \/ Spend("errors")
  /\ Finish(p, "failed")
  /\ UNCHANGED panelvars

WantsUpdate(p) ==
  /\ pc[p] = "listed"
  /\ found[p] # 0
  /\ Drifted(existing[p])
  /\ Manage
  /\ p \notin DryRunner

Updatable(p) == found[p] \in Present /\ PortFree(OwnPort, found[p])

(* update_inbound writes the whole inbound, its counters as they were       *)
(* listed.                                                                  *)
Update(p) ==
  /\ WantsUpdate(p)
  /\ Updatable(p)
  /\ inbounds' = [inbounds EXCEPT ![found[p]] = Payload(existing[p].traffic)]
  /\ Answered(p)
  /\ UNCHANGED nextId

UpdateRefused(p) ==
  /\ WantsUpdate(p)
  /\ (~Updatable(p) /\ UNCHANGED spent) \/ Spend("errors")
  /\ Finish(p, "failed")
  /\ UNCHANGED panelvars

-----------------------------------------------------------------------------
(***************************************************************************)
(* The operator at the panel, and the traffic                              *)
(***************************************************************************)

runvars == <<pc, found, existing, outcome>>

Edited == [remark : {"ingress", "other"}, port : Port, right : BOOLEAN]

Create ==
  /\ Spend("edits")
  /\ nextId \in Id
  /\ \E new \in Edited :
       /\ PortFree(new.port, 0)
       /\ inbounds' = [inbounds EXCEPT ![nextId] =
                         [remark |-> new.remark, port |-> new.port,
                          right |-> new.right, traffic |-> 0]]
  /\ nextId' = nextId + 1
  /\ UNCHANGED runvars

Edit ==
  /\ Spend("edits")
  /\ \E i \in Present, new \in Edited :
       /\ PortFree(new.port, i)
       /\ inbounds' = [inbounds EXCEPT ![i] =
                         [remark |-> new.remark, port |-> new.port,
                          right |-> new.right, traffic |-> @.traffic]]
  /\ UNCHANGED <<nextId, runvars>>

Delete ==
  /\ Spend("edits")
  /\ \E i \in Present : inbounds' = [inbounds EXCEPT ![i] = Nothing]
  /\ UNCHANGED <<nextId, runvars>>

Traffic ==
  /\ \E i \in Present :
       /\ inbounds[i].traffic < MaxTraffic
       /\ inbounds' = [inbounds EXCEPT ![i].traffic = @ + 1]
  /\ UNCHANGED <<nextId, runvars, spent>>

-----------------------------------------------------------------------------
(* A reconciler's next step when no request fails.                          *)
Proceed(p) ==
  Leave(p) \/ Add(p) \/ AddRefused(p) \/ Update(p) \/ UpdateRefused(p)

Next ==
  \/ \E p \in Reconciler : List(p) \/ ListFails(p) \/ Proceed(p)
  \/ Create \/ Edit \/ Delete \/ Traffic

Spec == Init /\ [][Next]_vars

(* The daemon lists again and again; a request ends, or times out after     *)
(* 20 seconds.  Nothing is assumed about errors, the operator or the order. *)
Fairness ==
  /\ \A p \in Daemon : WF_vars(List(p))
  /\ \A p \in Reconciler : WF_vars(Proceed(p))

FairSpec == Spec /\ Fairness

-----------------------------------------------------------------------------
(***************************************************************************)
(* Properties                                                              *)
(***************************************************************************)


(* Ownership (AD-6, SPEC 6.2): a reconciler only ever writes an inbound     *)
(* that did not exist before, or one that carried its remark when listed,   *)
(* never one that merely has the port; none with manage=false or --dry-run. *)
OwnedWrite ==
  runvars' # runvars =>
    \A i \in Id : inbounds'[i] # inbounds[i] =>
      \E p \in Reconciler :
        /\ pc[p] = "listed" /\ pc'[p] = "idle"
        /\ Manage /\ p \notin DryRunner
        /\ \/ inbounds[i] = Nothing /\ found[p] = 0
           \/ found[p] = i /\ existing[p].remark = "ingress"

OnlyOwnedWritten == [][OwnedWrite]_vars

(* The ingress as the configuration wants it.                               *)
Correct == Found # 0 /\ inbounds[Found].port = OwnPort /\ inbounds[Found].right

(* Nothing else has the ingress port.                                       *)
Repairable == PortFree(OwnPort, Found)

(* Whatever races with the operator and with manual runs came before: once  *)
(* the port is not taken by another inbound, the daemon makes the ingress   *)
(* what the configuration says, and it stays that.                          *)
Repaired == <>[]Repairable => <>[]Correct
=============================================================================

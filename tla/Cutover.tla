------------------------------ MODULE Cutover ------------------------------
(***************************************************************************)
(* The move of public port 443 from Xray to the Nginx SNI router:           *)
(* deploy/live_portal_cutover.sh, the helper it calls                       *)
(* (deploy/xui_portal_cutover.py apply and rollback) and the operator who   *)
(* calls the helper by hand (HANDOFF.md, 117-126).                          *)
(*                                                                         *)
(* The abstraction.  Inbound 6 is its endpoint, which stands for the fields *)
(* the cutover changes together (listen, port, share address,               *)
(* externalProxy), and the rest, which the operator edits.  The stages of   *)
(* state.json between "prepared" and "applied" are never read and are left  *)
(* out.  The panel, Xray, Nginx and systemd are external; Xray is down from  *)
(* a restart until it has bound its port.                                   *)
(***************************************************************************)
EXTENDS Naturals

CONSTANTS
  Absent,     \* no state.json, no appliedInbound
  MaxEdits,   \* bound on edits of the inbound and its Host groups
  MaxErrors,  \* bound on failed calls and commands
  MaxKills,   \* bound on signals
  MaxManual,  \* bound on rollbacks started by hand
  MaxEvents   \* bound on restarts of Xray by others

ASSUME CutoverAssumption ==
  /\ MaxEdits \in Nat
  /\ MaxErrors \in Nat
  /\ MaxKills \in Nat
  /\ MaxManual \in Nat
  /\ MaxEvents \in Nat

Inbound == [endpoint : {"public", "loopback"}, rest : 0..MaxEdits]
State == [stage : {"prepared", "applied", "rolled_back"},
          original : {i \in Inbound : i.endpoint = "public"},
          applied : Inbound \union {Absent},
          owned : BOOLEAN]

ASSUME AbsentAssumption == Absent \notin Inbound /\ Absent \notin State

VARIABLES
  inbound,   \* inbound 6 in the panel's database
  host,      \* its Host groups: none, the exact managed one, anything else
  xray,      \* where Xray listens
  router,    \* MODULE_DEST is installed: Nginx will route
  conf,      \* ROUTER_DEST, which it includes, is installed
  nginx,     \* Nginx runs, and its loaded configuration has the router
  state,     \* state.json
  script,    \* where live_portal_cutover.sh stands
  started,   \* its APPLY_STARTED
  helper,    \* where xui_portal_cutover.py stands
  caller,    \* who started it
  seen,      \* the inbound the helper read
  owns,      \* create_host of apply, owned_host_present of rollback
  raced,     \* history: an edit since the helper's last check
  lapses,    \* history: what left the port unattended
  spent      \* how much of each bound was used

panelvars == <<inbound, host>>
nginxvars == <<router, conf, nginx>>
localvars == <<caller, seen, owns>>
scriptvars == <<script, started>>
historyvars == <<raced, lapses>>
vars == <<inbound, host, xray, router, conf, nginx, state, script, started,
          helper, caller, seen, owns, raced, lapses, spent>>

ApplyPlace == {"apply", "prepare", "add_host", "check", "update",
               "restart", "verify"}
RollbackPlace == {"rollback", "revert", "rerestart", "await", "del_host",
                  "confirm"}
MainPlace == {"preflight", "applying", "wait_loopback", "install",
              "install_module", "reload", "probe"}
TrapPlace == {"unroute", "unroute_conf", "stop_nginx", "rolling_back",
              "start_nginx"}
ScriptPlace == {"idle"} \union MainPlace \union TrapPlace
Lapse == {"not_ours", "killed", "rollback_failed", "trap_failed"}

Budget == {"edits", "errors", "kills", "manual", "events"}
Bound == [edits |-> MaxEdits, errors |-> MaxErrors, kills |-> MaxKills,
          manual |-> MaxManual, events |-> MaxEvents]
Spend(b) ==
  /\ spent[b] < Bound[b]
  /\ spent' = [spent EXCEPT ![b] = @ + 1]

TypeOK ==
  /\ inbound \in Inbound
  /\ host \in {"none", "managed", "foreign"}
  /\ xray \in {"public", "loopback", "down"}
  /\ router \in BOOLEAN
  /\ conf \in BOOLEAN
  /\ nginx \in [running : BOOLEAN, routes : BOOLEAN]
  /\ state \in State \union {Absent}
  /\ script \in ScriptPlace
  /\ started \in BOOLEAN
  /\ helper \in {"idle"} \union ApplyPlace \union RollbackPlace
  /\ caller \in {"script", "operator"}
  /\ seen \in Inbound \union {Absent}
  /\ owns \in BOOLEAN
  /\ raced \in BOOLEAN
  /\ lapses \subseteq Lapse
  /\ spent \in [Budget -> Nat]

(* Xray owns the port, or somebody has moved the inbound already.           *)
Init ==
  /\ inbound \in {i \in Inbound : i.rest = 0}
  /\ host \in {"none", "managed", "foreign"}
  /\ xray = inbound.endpoint
  /\ router = FALSE
  /\ conf = FALSE
  /\ nginx = [running |-> TRUE, routes |-> FALSE]
  /\ state = Absent
  /\ script = "idle"
  /\ started = FALSE
  /\ helper = "idle"
  /\ caller = "script"
  /\ seen = Absent
  /\ owns = FALSE
  /\ raced = FALSE
  /\ lapses = IF inbound.endpoint = "public" THEN {} ELSE {"not_ours"}
  /\ spent = [b \in Budget |-> 0]

NginxHolds443 == nginx.running /\ nginx.routes
Port443Free == xray # "public" /\ ~NginxHolds443

-----------------------------------------------------------------------------
(***************************************************************************)
(* The helper, command by command                                          *)
(***************************************************************************)

Goto(from, to) == helper = from /\ helper' = to

(* The helper returns; the script goes on, or into its trap.                *)
Return(ok) ==
  /\ helper' = "idle"
  /\ seen' = Absent
  /\ owns' = FALSE
  /\ raced' = FALSE
  /\ UNCHANGED <<caller, started>>
  /\ script' = CASE caller = "operator" -> script
                 [] script = "applying" ->
                      IF ok THEN "wait_loopback" ELSE "unroute"
                 [] OTHER -> "start_nginx"

(* A rollback that fails says so.                                           *)
FailureLapses ==
  IF helper \in RollbackPlace THEN {"rollback_failed"} ELSE {}

(* A CutoverError or OSError: a refused check, a failed call, a failed save *)
(* of state.json.                                                           *)
Refuse ==
  /\ Return(FALSE)
  /\ lapses' = lapses \union FailureLapses
  /\ UNCHANGED <<panelvars, xray, nginxvars, state, spent>>

CallFails ==
  /\ helper # "idle"
  /\ Spend("errors")
  /\ Return(FALSE)
  /\ lapses' = lapses \union FailureLapses
  /\ UNCHANGED <<panelvars, xray, nginxvars, state>>

(* command_apply, up to the point where it has decided to go on; and        *)
(* without the check of the endpoint in validate_inbound.                   *)
MayApplyUnvalidated == state = Absent /\ host # "foreign" /\ xray # "loopback"
MayApply ==
  /\ state = Absent
  /\ inbound.endpoint = "public"
  /\ host # "foreign"
  /\ xray # "loopback"

ApplyRead ==
  /\ MayApply
  /\ Goto("apply", "prepare")
  /\ seen' = inbound
  /\ owns' = (host = "none")
  /\ UNCHANGED <<panelvars, xray, nginxvars, state, scriptvars, caller,
                 historyvars, spent>>

Prepare ==
  /\ Goto("prepare", IF owns THEN "add_host" ELSE "check")
  /\ state' = [stage |-> "prepared", original |-> seen, applied |-> Absent,
               owned |-> owns]
  /\ UNCHANGED <<panelvars, xray, nginxvars, scriptvars, localvars, historyvars,
                 spent>>

(* A call is answered, or it is done and the answer is lost.                *)
Answered(next) ==
  \/ /\ helper' = next
     /\ UNCHANGED <<scriptvars, localvars, historyvars, spent>>
  \/ /\ Spend("errors")
     /\ Return(FALSE)
     /\ lapses' = lapses \union FailureLapses

AddHost ==
  /\ helper = "add_host"
  /\ host' = IF host = "none" THEN "managed" ELSE "foreign"
  /\ Answered("check")
  /\ UNCHANGED <<inbound, xray, nginxvars, state>>

(* writable_equal against the inbound that was backed up; a comparison of   *)
(* the endpoint alone.                                                      *)
SameEndpoint == inbound.endpoint = seen.endpoint
SameInbound == inbound = seen

Check ==
  /\ Goto("check", "update")
  /\ host = "managed"
  /\ SameInbound
  /\ raced' = FALSE
  /\ UNCHANGED <<panelvars, xray, nginxvars, state, scriptvars, localvars,
                 lapses, spent>>

Update ==
  /\ helper = "update"
  /\ inbound' = [seen EXCEPT !.endpoint = "loopback"]
  /\ Answered("restart")
  /\ UNCHANGED <<host, xray, nginxvars, state>>

Restart ==
  /\ helper = "restart"
  /\ xray' = "down"
  /\ Answered("verify")
  /\ UNCHANGED <<panelvars, nginxvars, state>>

(* The listeners, the inbound and the Host group are as they should be.     *)
Applied ==
  /\ xray = "loopback"
  /\ Port443Free
  /\ inbound.endpoint = "loopback"
  /\ host = "managed"

Verify ==
  /\ helper = "verify"
  /\ Applied
  /\ state' = [state EXCEPT !.stage = "applied", !.applied = inbound]
  /\ Return(TRUE)
  /\ UNCHANGED <<panelvars, xray, nginxvars, lapses, spent>>

(* command_rollback, up to the point where it has decided to go on: not     *)
(* after another rollback, nor over a change since apply, nor while 443 is  *)
(* taken, nor over somebody else's Host group; and without the port check.  *)
PortUnchecked == TRUE
PortReturns ==
  inbound.endpoint # state.original.endpoint => Port443Free

SinceApply ==
  \/ inbound = state.original
  \/ state.applied = Absent
  \/ inbound = state.applied

MayRollBack ==
  /\ state # Absent
  /\ state.stage # "rolled_back"
  /\ SinceApply
  /\ PortReturns
  /\ state.owned => host # "foreign"

RollbackRead ==
  /\ MayRollBack
  /\ Goto("rollback",
          IF inbound # state.original THEN "revert"
          ELSE IF state.owned /\ host = "managed" THEN "del_host"
          ELSE "confirm")
  /\ seen' = inbound
  /\ owns' = (state.owned /\ host = "managed")
  /\ raced' = FALSE
  /\ UNCHANGED <<panelvars, xray, nginxvars, state, scriptvars, caller, lapses,
                 spent>>

Revert ==
  /\ helper = "revert"
  /\ inbound' = state.original
  /\ Answered("rerestart")
  /\ UNCHANGED <<host, xray, nginxvars, state>>

Rerestart ==
  /\ helper = "rerestart"
  /\ xray' = "down"
  /\ Answered("await")
  /\ UNCHANGED <<panelvars, nginxvars, state>>

(* wait_for_port on the original endpoint, until its timeout.               *)
OriginalUp == xray = "public"

Await ==
  /\ OriginalUp
  /\ Goto("await", IF owns THEN "del_host" ELSE "confirm")
  /\ UNCHANGED <<panelvars, xray, nginxvars, state, scriptvars, localvars,
                 historyvars, spent>>

(* The group is deleted by its id, whatever it has become; a group of       *)
(* another id stays.                                                        *)
DelHost ==
  /\ helper = "del_host"
  /\ host' \in {"none"} \union (IF host = "foreign" THEN {host} ELSE {})
  /\ Answered("confirm")
  /\ UNCHANGED <<inbound, xray, nginxvars, state>>

Restored ==
  /\ inbound.endpoint = "public"
  /\ host = IF state.owned THEN "none" ELSE "managed"

Confirm ==
  /\ helper = "confirm"
  /\ Restored
  /\ state' = [state EXCEPT !.stage = "rolled_back"]
  /\ Return(TRUE)
  /\ UNCHANGED <<panelvars, xray, nginxvars, lapses, spent>>

(* A check that does not hold ends the command.                             *)
Refused ==
  \/ helper = "apply" /\ ~MayApply /\ Refuse
  \/ helper = "check" /\ ~(host = "managed" /\ SameInbound) /\ Refuse
  \/ helper = "verify" /\ ~Applied /\ Refuse
  \/ helper = "rollback" /\ ~MayRollBack /\ Refuse
  \/ helper = "await" /\ ~OriginalUp /\ Refuse
  \/ helper = "confirm" /\ ~Restored /\ Refuse

Helper ==
  \/ ApplyRead \/ Prepare \/ AddHost \/ Check \/ Update \/ Restart \/ Verify
  \/ RollbackRead \/ Revert \/ Rerestart \/ Await \/ DelHost \/ Confirm
  \/ Refused

-----------------------------------------------------------------------------
(***************************************************************************)
(* live_portal_cutover.sh                                                  *)
(***************************************************************************)

ScriptGoto(from, to) == script = from /\ script' = to

Call(command) ==
  /\ helper = "idle"
  /\ helper' = command
  /\ caller' = "script"
  /\ UNCHANGED <<seen, owns>>

(* The script is started once the stream files are not there; its          *)
(* preflight ends with the helper's dry-run, and a failure there is already *)
(* an ERR.                                                                  *)
StartScript ==
  /\ helper = "idle"
  /\ ~router /\ ~conf
  /\ Spend("manual")
  /\ ScriptGoto("idle", "preflight")
  /\ started' = FALSE
  /\ UNCHANGED <<panelvars, xray, nginxvars, state, helper, localvars,
                 historyvars>>

DryRunPasses ==
  /\ nginx.running
  /\ host # "foreign"
  /\ inbound.endpoint = "public" => xray # "loopback"

Preflight ==
  /\ script = "preflight"
  /\ IF DryRunPasses
     THEN script' = "applying" /\ started' = TRUE /\ Call("apply")
     ELSE script' = "unroute" /\ UNCHANGED <<started, helper, localvars>>
  /\ UNCHANGED <<panelvars, xray, nginxvars, state, historyvars, spent>>

WaitLoopback ==
  /\ ScriptGoto("wait_loopback",
                IF xray = "loopback" /\ Port443Free THEN "install"
                ELSE "unroute")
  /\ UNCHANGED <<started, panelvars, xray, nginxvars, state, helper, localvars,
                 historyvars, spent>>

(* First the file that is included, then the one that includes it.          *)
Install ==
  /\ ScriptGoto("install", "install_module")
  /\ conf' = TRUE
  /\ UNCHANGED <<started, panelvars, xray, router, nginx, state, helper,
                 localvars, historyvars, spent>>

InstallModule ==
  /\ ScriptGoto("install_module", "reload")
  /\ router' = TRUE
  /\ UNCHANGED <<started, panelvars, xray, conf, nginx, state, helper,
                 localvars, historyvars, spent>>

(* A reload that cannot bind keeps the old configuration.                   *)
Reload ==
  /\ ScriptGoto("reload", IF Port443Free THEN "probe" ELSE "unroute")
  /\ nginx' = [nginx EXCEPT !.routes = @ \/ (router /\ Port443Free)]
  /\ UNCHANGED <<started, panelvars, xray, router, conf, state, helper,
                 localvars, historyvars, spent>>

Probe ==
  /\ ScriptGoto("probe", IF xray = "loopback" THEN "idle" ELSE "unroute")
  /\ UNCHANGED <<started, panelvars, xray, nginxvars, state, helper, localvars,
                 historyvars, spent>>

(* Any command of the main part fails, which the trap catches.              *)
CommandFails ==
  /\ script \in MainPlace \ {"applying"}
  /\ Spend("errors")
  /\ script' = "unroute"
  /\ UNCHANGED <<started, panelvars, xray, nginxvars, state, helper, localvars,
                 historyvars>>

(* The trap moves the files away, each if it is there.                      *)
Unroute ==
  /\ ScriptGoto("unroute", "unroute_conf")
  /\ router' = FALSE
  /\ UNCHANGED <<started, panelvars, xray, conf, nginx, state, helper,
                 localvars, historyvars, spent>>

UnrouteConf ==
  /\ ScriptGoto("unroute_conf", "stop_nginx")
  /\ conf' = FALSE
  /\ UNCHANGED <<started, panelvars, xray, router, nginx, state, helper,
                 localvars, historyvars, spent>>

(* It has removed itself, but errexit is still on: a log line that cannot   *)
(* be written, an install or a mv that fails ends the script right there.   *)
TrapFails ==
  /\ \/ script = "unroute"
     \/ script = "unroute_conf" /\ conf
  /\ Spend("errors")
  /\ script' = "idle"
  /\ lapses' = lapses \union {"trap_failed"}
  /\ UNCHANGED <<started, panelvars, xray, nginxvars, state, helper, localvars,
                 raced>>

(* The trap stops Nginx before it calls the helper, if apply was started    *)
(* and there is a state.json; a trap that waits for apply to succeed.       *)
RollbackIfApplied == started /\ state # Absent /\ state.stage = "applied"
RollbackNeeded == started /\ state # Absent

Stopped == [running |-> FALSE, routes |-> FALSE]

StopNginx ==
  /\ script = "stop_nginx"
  /\ \/ nginx' = Stopped /\ UNCHANGED spent
     \/ UNCHANGED nginx /\ Spend("errors")    \* || true
  /\ IF RollbackNeeded
     THEN script' = "rolling_back" /\ Call("rollback")
     ELSE script' = "start_nginx" /\ UNCHANGED <<helper, localvars>>
  /\ UNCHANGED <<started, panelvars, xray, router, conf, state, historyvars>>

(* Starting what still runs changes nothing.                                *)
StartNginx ==
  /\ ScriptGoto("start_nginx", "idle")
  /\ \/ /\ nginx' = IF nginx.running THEN nginx
                     ELSE [running |-> TRUE, routes |-> router /\ Port443Free]
        /\ UNCHANGED spent
     \/ UNCHANGED nginx /\ Spend("errors")    \* nginx -t, or || true
  /\ UNCHANGED <<started, panelvars, xray, router, conf, state, helper,
                 localvars, historyvars>>

(* A signal to the script and its command: INT and TERM run the trap, KILL  *)
(* ends both, and so do INT and TERM once the trap has removed itself.      *)
(* (A signal to the script alone waits for the command: CommandFails.)      *)
Signal(trapped) ==
  /\ IF trapped THEN script \in MainPlace
     ELSE script # "idle" \/ helper # "idle"
  /\ Spend("kills")
  /\ script' = IF trapped THEN "unroute" ELSE "idle"
  /\ helper' = "idle"
  /\ lapses' = lapses \union (IF trapped THEN {} ELSE {"killed"})
  /\ seen' = Absent
  /\ owns' = FALSE
  /\ raced' = FALSE
  /\ UNCHANGED <<started, panelvars, xray, nginxvars, state, caller>>

Script ==
  \/ Preflight \/ WaitLoopback \/ Install \/ InstallModule \/ Reload \/ Probe
  \/ Unroute \/ UnrouteConf \/ StopNginx \/ StartNginx

-----------------------------------------------------------------------------
(***************************************************************************)
(* The operator and the others                                             *)
(***************************************************************************)

(* HANDOFF.md: stop Nginx, then roll back; the order may be forgotten.      *)
ManualRollback ==
  /\ script = "idle"
  /\ helper = "idle"
  /\ Spend("manual")
  /\ helper' = "rollback"
  /\ caller' = "operator"
  /\ nginx' \in {nginx, Stopped}
  /\ UNCHANGED <<panelvars, xray, router, conf, state, scriptvars, seen, owns,
                 historyvars>>

EditInbound ==
  /\ Spend("edits")
  /\ inbound' = [inbound EXCEPT !.rest = spent.edits + 1]
  /\ raced' = (helper # "idle")
  /\ UNCHANGED <<host, xray, nginxvars, state, scriptvars, helper, localvars,
                 lapses>>

(* The managed group is changed, or another one added.                      *)
EditHost ==
  /\ Spend("edits")
  /\ host' = "foreign"
  /\ UNCHANGED <<inbound, xray, nginxvars, state, scriptvars, helper, localvars,
                 historyvars>>

(* Xray binds what the database says, if Nginx does not hold the port.      *)
XrayUp ==
  /\ xray = "down"
  /\ inbound.endpoint = "public" => ~NginxHolds443
  /\ xray' = inbound.endpoint
  /\ UNCHANGED <<panelvars, nginxvars, state, scriptvars, helper, localvars,
                 historyvars, spent>>

XrayRestarted ==
  /\ Spend("events")
  /\ xray' = "down"
  /\ UNCHANGED <<panelvars, nginxvars, state, scriptvars, helper, localvars,
                 historyvars>>

(* The script runs once: all is done, and the helper waits for nobody.      *)
Done == script = "idle" /\ helper = "idle" /\ UNCHANGED vars

Next ==
  \/ Helper \/ CallFails
  \/ StartScript \/ Script \/ CommandFails \/ TrapFails
  \/ Signal(TRUE) \/ Signal(FALSE)
  \/ ManualRollback \/ EditInbound \/ EditHost \/ XrayUp \/ XrayRestarted
  \/ Done

Spec == Init /\ [][Next]_vars

-----------------------------------------------------------------------------
(***************************************************************************)
(* Properties                                                              *)
(***************************************************************************)

(* Nginx never holds 443 while the database gives the port to Xray, so no   *)
(* restart of Xray, whoever asks for it, meets a taken port: the order that *)
(* HANDOFF.md asks for is enforced by the checks of the helper and of the   *)
(* script, whatever fails or is interrupted.                                *)
RouterMeansLoopback ==
  NginxHolds443 => inbound.endpoint = "loopback" /\ xray # "public"

(* When the script and the helper are done, 443 has an owner: the router,   *)
(* or Xray as soon as it is up.  The exceptions are a run that was killed,  *)
(* a rollback that reported its failure, and a trap that failed before it   *)
(* called the rollback: SPEC 12.4, 582-585, promises the rollback after any *)
(* error, but lines 60-67 of the script may end it first.                   *)
Served443 ==
  script = "idle" /\ helper = "idle" /\ lapses = {} =>
    \/ NginxHolds443
    \/ inbound.endpoint = "public" /\ xray # "loopback"

(* The helper overwrites no edit of the operator: not one made before its   *)
(* last check of apply (592), nor one made after apply has stored the       *)
(* inbound (636-641).  The code leaves three gaps: between a check and its  *)
(* write, before the rollback of an apply that did not finish, and between  *)
(* apply's write and the copy of the inbound that it stores.                *)
EditsKept ==
  [][inbound'.rest # inbound.rest /\ UNCHANGED spent.edits =>
       \/ raced
       \/ helper = "revert" /\ state.applied \in {Absent, inbound}]_vars
=============================================================================

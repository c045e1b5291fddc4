---------------------------- MODULE BridgeApply ----------------------------
(***************************************************************************)
(* The apply transaction of ttx-bridge (bridge/ttx_bridge.py): several      *)
(* reconcilers (the watch daemon, the systemd timer, an operator's manual   *)
(* run) render vpn.base.toml, take the apply lock, snapshot and replace     *)
(* vpn.toml, restart TrustTunnel, check it and roll back on failure.        *)
(*                                                                         *)
(* The abstraction.  A configuration text is a body, which the operator    *)
(* writes, and the upstream its [forward_protocol] names.  The panel half   *)
(* of a reconcile is module IngressReconcile; here it passes or refuses.   *)
(* systemd and TrustTunnel are external: a restart is a job that systemd    *)
(* runs on its own, so a systemctl call that times out leaves it pending.  *)
(***************************************************************************)
EXTENDS Naturals

CONSTANTS
  Reconciler,       \* the bridge processes: watch, timer, manual runs
  Daemon,           \* the one that runs for ever: the watch loop or the timer
  DryRunner,        \* those started with --dry-run
  NoRestarter,      \* those started with --no-restart
  RestartOnChange,  \* trusttunnel.restart_on_change of bridge.json
  Body,             \* what the operator can write in vpn.base.toml
  Malformed,        \* bodies that are not TOML
  Looping,          \* bodies whose listen_address has the ingress port
  Failing,          \* bodies the endpoint does not survive
  Absent,           \* the file does not exist
  NoOne,            \* the lock is free
  MaxRuns,          \* bound on runs of the reconcilers outside Daemon
  MaxEdits,         \* bound on edits of vpn.base.toml
  MaxErrors,        \* bound on I/O errors and systemctl timeouts
  MaxKills,         \* bound on bridge processes killed
  MaxEvents         \* bound on service stops and starts by others

ASSUME ReconcilerAssumption ==
  /\ Daemon \subseteq Reconciler
  /\ DryRunner \subseteq Reconciler
  /\ NoRestarter \subseteq Reconciler
  /\ NoOne \notin Reconciler
  /\ RestartOnChange \in BOOLEAN

Content == [body : Body, upstream : {"own", "ingress"}]

ASSUME ContentAssumption ==
  /\ Malformed \subseteq Body
  /\ Looping \subseteq Body
  /\ Failing \subseteq Body
  /\ Absent \notin Content

ASSUME BoundAssumption ==
  /\ MaxRuns \in Nat
  /\ MaxEdits \in Nat
  /\ MaxErrors \in Nat
  /\ MaxKills \in Nat
  /\ MaxEvents \in Nat

File == Content \union {Absent}

VARIABLES
  base,      \* vpn.base.toml
  target,    \* vpn.toml
  backup,    \* vpn.toml.ttx-bak
  lock,      \* holder of the flock on .ttx-bridge.lock
  pc,        \* where each reconciler stands in cmd_reconcile
  rendered,  \* the text it rendered
  previous,  \* the FileState it captured
  outcome,   \* what its last finished run reported
  service,   \* TrustTunnel: the content it started with, and is it active
  job,       \* a systemd start job for it is pending
  lapses,    \* history: how a change was left without a checked restart
  spent      \* how much of each bound was used

filevars == <<base, target, backup>>
runvars == <<lock, rendered, previous, outcome>>
worldvars == <<service, job>>
vars == <<base, target, backup, lock, pc, rendered, previous, outcome,
          service, job, lapses, spent>>

(***************************************************************************)
(* Where a reconciler can be.  In the Holding places it has the lock, in    *)
(* the Unsettled ones vpn.toml holds its text but the run can still undo    *)
(* it, in the Restored ones it has put the snapshot back.                   *)
(***************************************************************************)
Unsettled == {"staged", "restarting", "checking", "recovering"}
Restored  == {"restored", "rerestarting", "rechecking"}
Holding   == {"locked", "captured", "backed"} \union Unsettled \union Restored
Place     == {"idle", "queued"} \union Holding

(* What a finished run reported; Rejected ones end with exit code 4.        *)
Unharmed == {"lock_timeout", "rejected"}
Undone   == {"rolled_back", "rolled_back_not_started"}
Rejected == Unharmed \union Undone \union {"not_restored"}
Outcome  == {"none", "refused", "loop", "unchanged", "dry_run", "unrestarted",
             "applied"} \union Rejected
Lapse    == {"killed", "unrestarted", "not_restored", "not_restarted"}

Budget == {"runs", "edits", "errors", "kills", "events"}

Bound == [runs |-> MaxRuns, edits |-> MaxEdits, errors |-> MaxErrors,
          kills |-> MaxKills, events |-> MaxEvents]

Spend(b) ==
  /\ spent[b] < Bound[b]
  /\ spent' = [spent EXCEPT ![b] = @ + 1]

(* The operator's body with the managed [forward_protocol] section: a table *)
(* of that name in the base is cut out, whatever it said.                   *)
Render(text) == [text EXCEPT !.upstream = "ingress"]

Wellformed(text) == text.body \notin Malformed
Loops(text)      == text.body \in Looping

(* A text the bridge is allowed to put in place.                            *)
Acceptable == {c \in Content : /\ c.upstream = "ingress"
                               /\ Wellformed(c)
                               /\ ~Loops(c)}

(* What the operator may have put in place before the bridge came.         *)
Unmanaged == {c \in Content : c.upstream = "own"} \union {Absent}

(* The type invariant; it says too that neither vpn.toml nor a text on its  *)
(* way there is ever malformed or loops traffic (validate_vpn_config,       *)
(* guard_loop).                                                             *)
TypeOK ==
  /\ base \in File
  /\ target \in Acceptable \union Unmanaged
  /\ backup \in Acceptable \union Unmanaged
  /\ lock \in Reconciler \union {NoOne}
  /\ pc \in [Reconciler -> Place]
  /\ rendered \in [Reconciler -> Acceptable \union {Absent}]
  /\ previous \in [Reconciler -> Acceptable \union Unmanaged]
  /\ outcome \in [Reconciler -> Outcome]
  /\ service \in [loaded : File, active : BOOLEAN]
  /\ job \in BOOLEAN
  /\ lapses \subseteq Lapse
  /\ spent \in [Budget -> Nat]

(* The service runs what vpn.toml holds: nothing, the configuration an      *)
(* operator wrote before the bridge was installed, or a managed one.        *)
Init ==
  /\ base \in File
  /\ target \in Acceptable \union Unmanaged
  /\ backup = Absent
  /\ lock = NoOne
  /\ pc = [p \in Reconciler |-> "idle"]
  /\ rendered = [p \in Reconciler |-> Absent]
  /\ previous = [p \in Reconciler |-> Absent]
  /\ outcome = [p \in Reconciler |-> "none"]
  /\ service = [loaded |-> target, active |-> target # Absent]
  /\ job = FALSE
  /\ lapses = {}
  /\ spent = [b \in Budget |-> 0]

-----------------------------------------------------------------------------
(***************************************************************************)
(* Steps of one reconciler                                                 *)
(***************************************************************************)

Goto(p, from, to) ==
  /\ pc[p] = from
  /\ pc' = [pc EXCEPT ![p] = to]

(* The run ends: the lock, if held, is released and the locals are gone.    *)
Finish(p, o) ==
  /\ pc' = [pc EXCEPT ![p] = "idle"]
  /\ rendered' = [rendered EXCEPT ![p] = Absent]
  /\ previous' = [previous EXCEPT ![p] = Absent]
  /\ outcome' = [outcome EXCEPT ![p] = o]
  /\ lock' = IF lock = p THEN NoOne ELSE lock

Error == Spend("errors")

(* The watch loop sleeps and starts over (or systemd's timer does); a       *)
(* manual run is one of MaxRuns.                                            *)
Starts(p) == IF p \in Daemon THEN UNCHANGED spent ELSE Spend("runs")

(* Strict incompatibility, a panel failure, or no readable base config.     *)
Refuse(p) ==
  /\ pc[p] = "idle"
  /\ \/ Error
     \/ base = Absent /\ Starts(p)
  /\ Finish(p, "refused")
  /\ UNCHANGED <<filevars, worldvars, lapses>>

(* guard_loop and validate_vpn_config; and the same without guard_loop.     *)
PassesUnguarded(text) == Wellformed(text)
Passes(text) == Wellformed(text) /\ ~Loops(text)

(* render_vpn_config, guard_loop and the first validation, before the lock. *)
RenderRejected(p) ==
  /\ pc[p] = "idle"
  /\ Starts(p)
  /\ base # Absent
  /\ ~Passes(base)
  /\ Finish(p, IF Loops(base) THEN "loop" ELSE "rejected")
  /\ UNCHANGED <<filevars, worldvars, lapses>>

RenderQueue(p) ==
  /\ Starts(p)
  /\ base # Absent
  /\ Passes(base)
  /\ Goto(p, "idle", "queued")
  /\ rendered' = [rendered EXCEPT ![p] = Render(base)]
  /\ UNCHANGED <<filevars, lock, previous, outcome, worldvars, lapses>>

(* The flock excludes other holders; a lock that does not.                  *)
FlockNone == TRUE
Flock == lock = NoOne

(* The flock poll: it succeeds, or fails and the deadline has passed.       *)
Lock(p) ==
  /\ Flock
  /\ Goto(p, "queued", "locked")
  /\ lock' = p
  /\ UNCHANGED <<filevars, rendered, previous, outcome, worldvars, lapses,
                 spent>>

LockTimeout(p) ==
  /\ pc[p] = "queued"
  /\ lock # NoOne
  /\ Finish(p, "lock_timeout")
  /\ UNCHANGED <<filevars, worldvars, lapses, spent>>

(* stage_config_if_changed compares the texts; comparisons that only ask    *)
(* whether the file is there, and that always say it changed.               *)
ChangedIfAbsent(p) == target = Absent
ChangedAlways(p) == TRUE
Changed(p) == target # rendered[p]

Unchanged(p) ==
  /\ pc[p] = "locked"
  /\ ~Changed(p)
  /\ Finish(p, "unchanged")
  /\ UNCHANGED <<filevars, worldvars, lapses, spent>>

DryRun(p) ==
  /\ pc[p] = "locked"
  /\ Changed(p)
  /\ p \in DryRunner
  /\ Finish(p, "dry_run")
  /\ UNCHANGED <<filevars, worldvars, lapses, spent>>

Capture(p) ==
  /\ Changed(p)
  /\ p \notin DryRunner
  /\ Goto(p, "locked", "captured")
  /\ previous' = [previous EXCEPT ![p] = target]
  /\ UNCHANGED <<filevars, lock, rendered, outcome, worldvars, lapses, spent>>

(* .ttx-bak takes every snapshot of an existing file; or only the first.    *)
FirstBackup(p) == IF backup = Absent THEN previous[p] ELSE backup
Backup(p) == IF previous[p] = Absent THEN backup ELSE previous[p]

WriteBackup(p) ==
  /\ Goto(p, "captured", "backed")
  /\ backup' = Backup(p)
  /\ UNCHANGED <<base, target, runvars, worldvars, lapses, spent>>

WriteTarget(p) ==
  /\ Goto(p, "backed", "staged")
  /\ target' = rendered[p]
  /\ UNCHANGED <<base, backup, runvars, worldvars, lapses, spent>>

(* An OSError of the lock file, the capture or a write: os.replace did not  *)
(* happen.                                                                  *)
StageFails(p) ==
  /\ pc[p] \in {"queued", "locked", "captured", "backed"}
  /\ Error
  /\ Finish(p, "rejected")
  /\ UNCHANGED <<filevars, worldvars, lapses>>

(* --no-restart, or restart_on_change=false: written, not restarted.        *)
SkipRestart(p) ==
  /\ pc[p] = "staged"
  /\ p \in NoRestarter \/ ~RestartOnChange
  /\ Finish(p, "unrestarted")
  /\ lapses' = lapses \union {"unrestarted"}
  /\ UNCHANGED <<filevars, worldvars, spent>>

Restarts(p) == p \notin NoRestarter /\ RestartOnChange

Restart(p) ==
  /\ Restarts(p)
  /\ Goto(p, "staged", "restarting")
  /\ job' = TRUE
  /\ UNCHANGED <<filevars, runvars, service, lapses, spent>>

RestartDone(p) ==
  /\ ~job
  /\ Goto(p, "restarting", "checking")
  /\ UNCHANGED <<filevars, runvars, worldvars, lapses, spent>>

(* systemctl cannot be run, exits non-zero, or is killed by its timeout     *)
(* while the job stays pending; or is-active says no, or times out.         *)
RestartFails(p) ==
  /\ Restarts(p)
  /\ \/ /\ \E from \in {"staged", "restarting", "checking"} :
             Goto(p, from, "recovering")
        /\ Error
     \/ /\ \E from \in {"restarting", "checking"} : Goto(p, from, "recovering")
        /\ ~job
        /\ ~service.active
        /\ UNCHANGED spent
  /\ UNCHANGED <<filevars, runvars, worldvars, lapses>>

(* systemctl is-active; and its omission.                                   *)
ActiveUnchecked == TRUE
IsActive == service.active

Healthy(p) ==
  /\ pc[p] = "checking"
  /\ IsActive
  /\ Finish(p, "applied")
  /\ UNCHANGED <<filevars, worldvars, lapses, spent>>

(* recover_previous_config                                                  *)
Restore(p) ==
  /\ Goto(p, "recovering", "restored")
  /\ target' = previous[p]
  /\ UNCHANGED <<base, backup, runvars, worldvars, lapses, spent>>

RestoreFails(p) ==
  /\ pc[p] = "recovering"
  /\ Error
  /\ Finish(p, "not_restored")
  /\ lapses' = lapses \union {"not_restored"}
  /\ UNCHANGED <<filevars, worldvars>>

(* The restart after a restore; a rollback of the file alone.               *)
RequestForgotten == UNCHANGED job
RequestPrevious == job' = TRUE

RestartPrevious(p) ==
  /\ Goto(p, "restored", "rerestarting")
  /\ RequestPrevious
  /\ UNCHANGED <<filevars, runvars, service, lapses, spent>>

RestartPreviousDone(p) ==
  /\ ~job
  /\ Goto(p, "rerestarting", "rechecking")
  /\ UNCHANGED <<filevars, runvars, worldvars, lapses, spent>>

PreviousHealthy(p) ==
  /\ pc[p] = "rechecking"
  /\ service.active
  /\ Finish(p, "rolled_back")
  /\ UNCHANGED <<filevars, worldvars, lapses, spent>>

(* Only a restart that systemctl could not request at all is a lapse: a job *)
(* that timed out still starts the restored file.                           *)
RestartPreviousFails(p) ==
  /\ \/ /\ pc[p] \in Restored
        /\ Error
     \/ /\ pc[p] \in {"rerestarting", "rechecking"}
        /\ ~job
        /\ ~service.active
        /\ UNCHANGED spent
  /\ Finish(p, "rolled_back_not_started")
  /\ lapses' = IF pc[p] = "restored" THEN lapses \union {"not_restarted"}
               ELSE lapses
  /\ UNCHANGED <<filevars, worldvars>>

(* SIGKILL, or SIGTERM when systemd stops x-ui, which ttx-bridge Requires:  *)
(* no handler runs and the kernel drops the flock.                          *)
Kill(p) ==
  /\ pc[p] # "idle"
  /\ Spend("kills")
  /\ Finish(p, "none")
  /\ lapses' = IF pc[p] \in Unsettled \union {"restored"}
               THEN lapses \union {"killed"} ELSE lapses
  /\ UNCHANGED <<filevars, worldvars>>

-----------------------------------------------------------------------------
(***************************************************************************)
(* The environment: the operator, systemd, TrustTunnel                     *)
(***************************************************************************)

EditBase ==
  /\ Spend("edits")
  /\ base' \in Content \ {base}
  /\ UNCHANGED <<target, backup, pc, runvars, worldvars, lapses>>

(* The start job runs: the endpoint reads vpn.toml.  A configuration it     *)
(* does not survive may still look active right after the start.            *)
RunJob ==
  /\ job
  /\ job' = FALSE
  /\ service' \in
       [loaded : {target},
        active : IF target = Absent THEN {FALSE}
                 ELSE IF target.body \in Failing THEN BOOLEAN ELSE {TRUE}]
  /\ UNCHANGED <<filevars, pc, runvars, lapses, spent>>

ServiceDies ==
  /\ service.active
  /\ service.loaded.body \in Failing
  /\ service' = [service EXCEPT !.active = FALSE]
  /\ UNCHANGED <<filevars, pc, runvars, job, lapses, spent>>

(* Somebody else stops the unit (an x-ui stop does) or asks for a start.    *)
ServiceStopped ==
  /\ service.active
  /\ Spend("events")
  /\ service' = [service EXCEPT !.active = FALSE]
  /\ UNCHANGED <<filevars, pc, runvars, job, lapses>>

ServiceStarted ==
  /\ Spend("events")
  /\ job' = TRUE
  /\ UNCHANGED <<filevars, pc, runvars, service, lapses>>

-----------------------------------------------------------------------------
Apply(p) ==
  \/ Unchanged(p) \/ DryRun(p) \/ Capture(p) \/ WriteBackup(p)
  \/ WriteTarget(p) \/ SkipRestart(p) \/ Restart(p) \/ RestartDone(p)
  \/ RestartFails(p) \/ Healthy(p) \/ Restore(p) \/ RestartPrevious(p)
  \/ RestartPreviousDone(p) \/ PreviousHealthy(p) \/ RestartPreviousFails(p)

Begin(p) == RenderRejected(p) \/ RenderQueue(p)
(* A lock without the deadline.                                             *)
AcquireForever(p) == Lock(p)

Acquire(p) == Lock(p) \/ LockTimeout(p)

Next ==
  \/ \E p \in Reconciler :
       \/ Begin(p) \/ Acquire(p) \/ Apply(p)
       \/ Refuse(p) \/ StageFails(p) \/ RestoreFails(p) \/ Kill(p)
  \/ EditBase \/ RunJob \/ ServiceDies \/ ServiceStopped \/ ServiceStarted

Spec == Init /\ [][Next]_vars

(* The watch loop or the timer starts a run again and again, each wait in a *)
(* run has a timeout, and systemd runs its jobs.  Nothing is assumed about  *)
(* errors, kills, edits, manual runs or who gets the lock first.            *)
Fairness ==
  /\ \A p \in Daemon : WF_vars(Begin(p))
  /\ \A p \in Reconciler : WF_vars(Acquire(p)) /\ WF_vars(Apply(p))
  /\ WF_vars(RunJob)

FairSpec == Spec /\ Fairness

-----------------------------------------------------------------------------
(***************************************************************************)
(* Properties                                                              *)
(***************************************************************************)

(* With no apply in progress and no start pending, TrustTunnel was started  *)
(* with exactly what vpn.toml holds, unless a run was killed half-way, told *)
(* not to restart, or could not put the old file back or request its        *)
(* restart: the point of restart, health check and rollback (lines 577-603).*)
ServedUnlessLapse ==
  lock = NoOne /\ ~job /\ lapses = {} => service.loaded = target

(* A rollback undoes the run's own write and nothing else: while a run can  *)
(* still roll back, vpn.toml holds what it wrote over what it captured, so  *)
(* no other run's apply is lost (the purpose of apply_lock, line 494).      *)
OnlyOwnWriteUndone ==
  \A p \in Reconciler :
    /\ pc[p] \in Unsettled => target = rendered[p] /\ target # previous[p]
    /\ pc[p] \in {"captured", "backed"} \union Restored => target = previous[p]

(* Whenever vpn.toml is an unsettled text, .ttx-bak holds the file it       *)
(* replaced, for the operator's manual recovery (RUNBOOK.md, 230-235).      *)
BackupIsPrevious ==
  \A p \in Reconciler :
    pc[p] \in Unsettled /\ previous[p] # Absent => backup = previous[p]

(* A run that ends with exit code 4 and did not report a failed restore     *)
(* leaves vpn.toml as it was when the run took the lock; a run that ends    *)
(* well leaves its own text, unless it was a dry run.  The abstract         *)
(* specification says the same of the service.                              *)
Settled ==
  IF lock # NoOne /\ pc[lock] \in Unsettled THEN previous[lock] ELSE target

Transaction ==
  INSTANCE ConfigTransaction WITH settled <- Settled, sound <- lapses = {}

Implements == Transaction!Spec

(* A run started by hand, by the timer or by the watch loop ends, whoever   *)
(* holds the lock: every wait of the code has a deadline.                   *)
EveryRunEnds == \A p \in Reconciler : pc[p] # "idle" ~> pc[p] = "idle"

(* The base stays a text that renders to an acceptable configuration the    *)
(* endpoint survives.                                                       *)
Usable ==
  base # Absent /\ Wellformed(base) /\ ~Loops(base) /\ base.body \notin Failing

(* Once the operator stops editing, vpn.toml becomes the rendered base and  *)
(* stays it, whatever stale renders, kills and rollbacks came before.       *)
Converges == <>[]Usable => <>[](Usable /\ target = Render(base))

(* A converged bridge leaves the service alone: restarts only follow        *)
(* changes (AD-5), so they cease.                                           *)
RestartsCease == <>[]Usable => <>[]~job

(* What the log says.  Line 662, "no changes, the state is consistent":     *)
(* the service runs what vpn.toml holds, or is about to.                    *)
UnchangedMeansServed ==
  [][\A p \in Reconciler : Unchanged(p) => job \/ service.loaded = target]_vars
=============================================================================

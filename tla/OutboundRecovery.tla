-------------------------- MODULE OutboundRecovery --------------------------
(***************************************************************************)
(* deploy/xui_outbound_client_recovery.py: dry-run, apply and rollback of   *)
(* the credentials of one outbound in the Xray template, straight in the    *)
(* panel's database, with a restart of the panel to make Xray take them.    *)
(*                                                                         *)
(* The abstraction.  That an outbound or a client is missing or not unique  *)
(* is left out.  The two SELECTs of read_values are two steps, because they *)
(* are not in a transaction.                                                *)
(***************************************************************************)
EXTENDS XuiPanel

VARIABLES
  out,        \* where the command stands
  task,       \* what it does: apply, the way back of a failed one, rollback
  have,       \* its locals: desired, original and applied template
  outState,   \* state.json
  lastEdit,   \* history: the last edit of the template
  outLapses   \* history: why its stage may not tell what the template is

outvars == <<out, task, have, outState, lastEdit, outLapses>>

Have == [desired : Rev, original : Template, applied : Template]
OutRecorded == [stage : {"prepared", "applied", "rolled-back"}, have : Have]

OutTypeOK ==
  /\ out \in {"idle", "client", "active", "prepare", "replace", "restart", "verify", "save"}
  /\ task \in {"apply", "restore", "rollback"}
  /\ have \in Have
  /\ IF out \in {"replace", "restart", "verify", "save"}
     THEN outState \in [stage : {"prepared", "applied", "rolled-back"}, have : {have}]
     ELSE outState \in OutRecorded \union {Absent}
  /\ lastEdit \in Rev
  /\ outLapses \subseteq {"killed", "rollback", "restore"}

(* What a command that is over has: nothing that matters.                   *)
NoLocals ==
  LET none == [cred |-> Before, rev |-> 0] IN
  [desired |-> 0, original |-> none, applied |-> none]

OutInit ==
  /\ out = "idle"
  /\ task = "apply"
  /\ have = NoLocals
  /\ outState = Absent
  /\ lastEdit = 0
  /\ outLapses = {}

OutGoto(place, t, h) == out' = place /\ task' = t /\ have' = h
OutOver == OutGoto("idle", "apply", NoLocals)
OutLocal == UNCHANGED <<panelvars, spent, lastEdit>>

(* The template to be there before the next replacement, and after it.      *)
Expected    == IF task = "apply" THEN have.original ELSE have.applied
Replacement == IF task = "apply" THEN have.applied ELSE have.original

(* A failure once the template is changed: apply goes back, and the others  *)
(* end where they are.                                                      *)
ChangedLate == FALSE
Changed == task = "apply"
OutFail ==
  /\ IF Changed THEN OutGoto("replace", "restore", have) ELSE OutOver
  /\ outLapses' = IF task = "rollback" THEN outLapses \union {"rollback"} ELSE outLapses

(* read_values: the client of the inbound, then the template.               *)
ReadClient ==
  /\ out = "idle"
  /\ \E i \in Inbound :
       OutGoto("client", "apply", [have EXCEPT !.desired = clients[i].rev])
  /\ OutLocal /\ UNCHANGED <<outState, outLapses>>

ReadTemplate ==
  /\ out = "client"
  /\ OutGoto("active", "apply",
       [have EXCEPT !.original = template,
                    !.applied = [template EXCEPT !.cred = have.desired]])
  /\ OutLocal /\ UNCHANGED <<outState, outLapses>>

(* What Xray runs with must be what the template says; a dry-run ends here. *)
CompareActive ==
  /\ out = "active"
  /\ \/ active = have.original.cred /\ OutGoto("prepare", "apply", have)
     \/ OutOver
  /\ OutLocal /\ UNCHANGED <<outState, outLapses>>

OutPrepare ==
  /\ out = "prepare"
  /\ \/ /\ outState = Absent
        /\ outState' = [stage |-> "prepared", have |-> have]
        /\ OutGoto("replace", "apply", have)
     \/ /\ outState # Absent
        /\ OutOver
        /\ UNCHANGED outState
  /\ OutLocal /\ UNCHANGED outLapses

(* rollback, which reads the template too and wants it as it was applied.   *)
OutRollback ==
  /\ out = "idle"
  /\ outState # Absent /\ outState.stage = "applied"
  /\ template = outState.have.applied
  /\ OutGoto("replace", "rollback", outState.have)
  /\ OutLocal /\ UNCHANGED <<outState, outLapses>>

(* replace_value: one transaction that changes the template only if it is   *)
(* what the command believes it to be; otherwise it raises.  So it does if  *)
(* the database is locked for 30 seconds or cannot be written, and nobody   *)
(* catches that on the way back of an apply.                                *)
ComparedNever == TRUE
Compared == template = Expected

Replace ==
  /\ out = "replace"
  /\ \/ /\ Compared
        /\ template' = Replacement
        /\ OutGoto("restart", task, have)
        /\ UNCHANGED <<spent, outLapses>>
     \/ /\ ~Compared
        /\ OutOver
        /\ UNCHANGED <<template, spent, outLapses>>
     \/ /\ Spend("errors")    \* sqlite3.Error
        /\ OutOver
        /\ outLapses' = IF task = "restore" THEN outLapses \union {"restore"} ELSE outLapses
        /\ UNCHANGED template
  /\ UNCHANGED <<clients, rest, active, up, outState, lastEdit>>

(* systemctl restart x-ui.service: the panel is down until StartXray.       *)
Restart ==
  /\ out = "restart"
  /\ \/ /\ up' = FALSE /\ UNCHANGED spent
        /\ OutGoto("verify", task, have)
        /\ UNCHANGED outLapses
     \/ /\ up' \in {up, FALSE} /\ Spend("errors")
        /\ OutFail
  /\ UNCHANGED <<clients, rest, template, active, outState, lastEdit>>

(* config.json is read until it has the credentials, or for 15 seconds.     *)
Wanted == Replacement.cred
Taken == active = Wanted

OutVerify ==
  /\ out = "verify"
  /\ \/ /\ Taken
        /\ IF task = "restore" THEN OutOver ELSE OutGoto("save", task, have)
        /\ UNCHANGED outLapses
     \/ /\ ~Taken
        /\ OutFail
  /\ OutLocal /\ UNCHANGED outState

OutSave ==
  /\ out = "save"
  /\ outState' = [outState EXCEPT !.stage =
                    IF task = "apply" THEN "applied" ELSE "rolled-back"]
  /\ OutOver
  /\ OutLocal /\ UNCHANGED outLapses

(* A command that is killed, or cannot write its state.json.                *)
OutTorn ==
  \/ out = "replace" /\ task = "restore"
  \/ out \in {"restart", "verify", "save"} /\ task # "restore"

KillOut ==
  /\ out # "idle"
  /\ Spend("kills")
  /\ OutOver
  /\ outLapses' = IF OutTorn THEN outLapses \union {"killed"} ELSE outLapses
  /\ UNCHANGED <<panelvars, outState, lastEdit>>

ArchiveOut ==
  /\ out = "idle" /\ outState # Absent
  /\ outState' = Absent
  /\ outLapses' = {}
  /\ OutLocal /\ UNCHANGED <<out, task, have>>

OutNext ==
  \/ ReadClient \/ ReadTemplate \/ CompareActive \/ OutPrepare
  \/ OutRollback \/ Replace \/ Restart \/ OutVerify \/ OutSave
  \/ KillOut \/ ArchiveOut

(* What an edit of the template means to the history.                       *)
Remembered == lastEdit' = IF template' # template THEN Fresh ELSE lastEdit

-----------------------------------------------------------------------------
(* No edit of the template is ever lost: whatever the operator saved last   *)
(* is still there but for the credentials (replace_value).                  *)
TemplateKept == template.rev = lastEdit

(* Once a command is over, the stage in state.json tells what the template  *)
(* is, unless somebody edited it since: the applied one exactly after an    *)
(* apply.  After a command that succeeded, Xray also runs with what the     *)
(* template says, though nothing waits for its start (restart_and_verify).  *)
(* The exceptions are commands killed, or unable to write state.json, after *)
(* their replacement, rollbacks that fail after it, and an apply on its way *)
(* back whose replacement raises an SQLite error (201, 213-214): state.json *)
(* says prepared then, and the template is the applied one.                 *)
StageTemplate ==
  IF outState.stage = "applied" THEN outState.have.applied ELSE outState.have.original

StageTold ==
  template.rev = outState.have.original.rev =>
    /\ template = StageTemplate
    /\ outState.stage # "prepared" => active = template.cred

OutStageTells == (out = "idle" /\ outState # Absent /\ outLapses = {}) => StageTold
=============================================================================

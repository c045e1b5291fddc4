------------------------ MODULE SubscriptionRecovery ------------------------
(***************************************************************************)
(* deploy/xui_subscription_recovery.py: dry-run, apply and rollback of one  *)
(* client's subId through the panel's API, with the state.json between them.*)
(*                                                                         *)
(* The abstraction.  The GETs of the inbounds are one step; the checks of   *)
(* an answer's shape are left out, the panel's answers pass them.  The      *)
(* source database gives the new subId and is only read.                    *)
(***************************************************************************)
EXTENDS XuiPanel

VARIABLES
  sub,        \* where the command stands
  mode,       \* what its next update and checks are for
  held,       \* what it holds: client_snapshot and originals
  subState,   \* state.json
  quietRev,   \* history: the last edit of the client while no command ran
  subLapses   \* history: why, since the last check, its stage
              \* may not tell what the panel has

subvars == <<sub, mode, held, subState, quietRev, subLapses>>

Held  == [snapshot : Client, originals : [Inbound -> [client : Client, rest : Rev]]]
Stage == {"prepared", "applied", "rolled-back"}
Recorded == [stage : Stage, held : Held]

(* One step per request: clients/update, clients/get, inbounds/get.  A      *)
(* command that changes the panel has written what it holds to state.json.  *)
SubTypeOK ==
  /\ sub \in {"idle", "read", "prepare", "update", "record", "inbounds", "save"}
  /\ mode \in {"apply", "restore", "guard", "rollback"}
  /\ held \in Held
  /\ IF sub \in {"update", "record", "inbounds", "save"}
     THEN subState \in [stage : Stage, held : {held}]
     ELSE subState \in Recorded \union {Absent}
  /\ quietRev \in Rev
  /\ subLapses \subseteq {"killed", "restore", "rollback"}

(* What a command that is over holds: nothing that matters.                 *)
Blank ==
  LET client == [sub |-> "old", rev |-> 0] IN
  [snapshot |-> client, originals |-> [i \in Inbound |-> [client |-> client, rest |-> 0]]]

SubInit ==
  /\ sub = "idle"
  /\ mode = "apply"
  /\ held = Blank
  /\ subState = Absent
  /\ quietRev = 0
  /\ subLapses = {}

First == CHOOSE i \in Inbound : TRUE    \* the first of --inbound-ids

(* original_client comes from the first inbound, not from the record.       *)
OriginalOf(h) == h.originals[First].client
Original == OriginalOf(held)

(* What the next update writes, and the subId the next check looks for.     *)
Payload    == IF mode = "apply" THEN [Original EXCEPT !.sub = "new"] ELSE Original
ExpectedId == IF mode \in {"apply", "guard"} THEN "new" ELSE Original.sub

Equal(expected, current, id) == current = [expected EXCEPT !.sub = id]

RecordIsRight == Equal(held.snapshot, clients["record"], ExpectedId)
InboundsAreRight ==
  \A i \in Inbound :
    /\ Equal(held.originals[i].client, clients[i], ExpectedId)
    /\ rest[i] = held.originals[i].rest

SubGoto(place, m, h) == sub' = place /\ mode' = m /\ held' = h
SubOver == SubGoto("idle", "apply", Blank)
SubLocal == UNCHANGED <<panelvars, spent, quietRev>>

(* A command that fails after it set out to write the new id puts the old   *)
(* one back; a failure of that, or of a rollback's own update, stays.       *)
RestoresUpdate == mode = "apply" /\ sub = "update"
Restores == mode = "apply"
Fail ==
  /\ IF Restores THEN SubGoto("update", "restore", held) ELSE SubOver
  /\ subLapses' = IF mode \in {"restore", "rollback"}
                  THEN subLapses \union {mode} ELSE subLapses

(* prepare reads the client's record, then the inbounds, whose copies must  *)
(* agree but for their subId; a dry-run ends there.                         *)
Snapshot ==
  /\ sub = "idle" /\ up
  /\ SubGoto("read", "apply", [held EXCEPT !.snapshot = clients["record"]])
  /\ SubLocal /\ UNCHANGED <<subState, subLapses>>

Agree == \A i \in Inbound : Equal(clients[First], clients[i], clients[i].sub)

Read ==
  /\ sub = "read" /\ up
  /\ \/ /\ Agree
        /\ SubGoto("prepare", "apply", [held EXCEPT !.originals =
             [i \in Inbound |-> [client |-> clients[i], rest |-> rest[i]]]])
     \/ SubOver
  /\ SubLocal /\ UNCHANGED <<subState, subLapses>>

ReadFails ==
  /\ sub = "read" /\ CallFails
  /\ SubOver
  /\ UNCHANGED <<panelvars, quietRev, subState, subLapses>>

(* apply refuses to go over a state.json, whatever its stage.               *)
MayPrepare == subState = Absent
Unwritten == UNCHANGED subState
Written == subState' = [stage |-> "prepared", held |-> held]
Prepare ==
  /\ sub = "prepare"
  /\ \/ /\ MayPrepare
        /\ Written
        /\ SubGoto("update", "apply", held)
     \/ /\ ~MayPrepare
        /\ SubOver
        /\ UNCHANGED subState
  /\ SubLocal /\ UNCHANGED subLapses

(* rollback takes what apply recorded, and looks whether it is still so.    *)
Unguarded == "rollback"
Guarded == "guard"
Rollback ==
  /\ sub = "idle"
  /\ subState # Absent /\ subState.stage = "applied"
  /\ SubGoto(IF Guarded = "guard" THEN "record" ELSE "update", Guarded, subState.held)
  /\ SubLocal /\ UNCHANGED <<subState, subLapses>>

Update ==
  /\ sub = "update"
  /\ \/ Post(Payload, TRUE) /\ SubGoto("record", mode, held) /\ UNCHANGED subLapses
     \/ Post(Payload, FALSE) /\ Fail
  /\ UNCHANGED <<quietRev, subState>>

(* verify_client_record *)
CheckRecord ==
  /\ sub = "record"
  /\ \/ /\ up /\ RecordIsRight
        /\ SubGoto("inbounds", mode, held)
        /\ UNCHANGED <<spent, subLapses>>
     \/ /\ up /\ ~RecordIsRight /\ UNCHANGED spent
        /\ Fail
     \/ CallFails /\ Fail
  /\ UNCHANGED <<panelvars, quietRev, subState>>

(* verify_inbounds, and where a command goes that has checked everything.   *)
Checked ==
  CASE mode = "guard"   -> SubGoto("update", "rollback", held)
    [] mode = "restore" -> SubOver
    [] OTHER            -> SubGoto("save", mode, held)

CheckInbounds ==
  /\ sub = "inbounds"
  /\ \/ /\ up /\ InboundsAreRight
        /\ Checked
        /\ subLapses' = {}
        /\ UNCHANGED spent
     \/ /\ up /\ ~InboundsAreRight /\ UNCHANGED spent
        /\ Fail
     \/ CallFails /\ Fail
  /\ UNCHANGED <<panelvars, quietRev, subState>>

Save ==
  /\ sub = "save"
  /\ subState' = [subState EXCEPT !.stage =
                    IF mode = "apply" THEN "applied" ELSE "rolled-back"]
  /\ SubOver
  /\ SubLocal /\ UNCHANGED subLapses

(* A command that is killed, or cannot write its state.json.                *)
Torn ==
  \/ sub = "update" /\ mode = "restore"
  \/ sub \in {"record", "inbounds", "save"} /\ mode # "guard"

KillSub ==
  /\ sub # "idle"
  /\ Spend("kills")
  /\ SubOver
  /\ subLapses' = IF Torn THEN subLapses \union {"killed"} ELSE subLapses
  /\ UNCHANGED <<panelvars, quietRev, subState>>

(* The operator puts a state.json away, as the error message says.          *)
ArchiveSub ==
  /\ sub = "idle" /\ subState # Absent
  /\ subState' = Absent
  /\ SubLocal /\ UNCHANGED <<sub, mode, held, subLapses>>

SubNext ==
  \/ Snapshot \/ Read \/ ReadFails \/ Prepare
  \/ Rollback \/ Update \/ CheckRecord \/ CheckInbounds \/ Save
  \/ KillSub \/ ArchiveSub

(* What an edit of the client means to the history: when no command runs,   *)
(* nothing the tool does later may overwrite it.                            *)
Noticed ==
  quietRev' = IF sub = "idle" /\ clients' # clients THEN Fresh ELSE quietRev

-----------------------------------------------------------------------------
(* An edit of the client made while no command runs is never overwritten:   *)
(* apply reads it first, and a rollback of an older apply refuses to go     *)
(* over it (build_payload, rollback's two checks).                          *)
SubEditsKept == \A p \in Place : clients[p].rev >= quietRev

(* Once a command is over, the stage in state.json tells which subId every  *)
(* place has: the new one exactly after an apply.  The exceptions are       *)
(* commands killed after their update, and failed restores and rollbacks.   *)
StageId ==
  IF subState.stage = "applied" THEN "new" ELSE OriginalOf(subState.held).sub

SubStageTells ==
  (sub = "idle" /\ subState # Absent /\ subLapses = {}) =>
    \A p \in Place : clients[p].sub = StageId
=============================================================================

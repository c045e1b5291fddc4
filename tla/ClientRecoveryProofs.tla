------------------------ MODULE ClientRecoveryProofs ------------------------
(***************************************************************************)
(* Proofs about the two recovery tools, for any set of inbounds and any     *)
(* number of edits, failures and killed commands.                           *)
(***************************************************************************)
EXTENDS ClientRecovery, TLAPS

USE DEF Rev, Client, Place, Template, Held, Stage, Recorded, Have, OutRecorded

LEMMA BlankType == Blank \in Held
  BY PanelAssumption DEF Blank

LEMMA NoLocalsType == NoLocals \in Have /\ NoLocals.original.rev = 0 /\ NoLocals.applied.rev = 0
  BY PanelAssumption DEF NoLocals

LEMMA FirstIsInbound == First \in Inbound
  BY PanelAssumption DEF First

LEMMA BoundType ==
  /\ DOMAIN Bound = {"edits", "errors", "kills"}
  /\ \A b \in DOMAIN Bound : Bound[b] \in Nat
  /\ Bound["edits"] = MaxEdits
  BY PanelAssumption DEF Bound

(* Spending keeps the type of spent, and what is fresh is a revision.       *)
LEMMA SpendType ==
  ASSUME PanelTypeOK, NEW b \in DOMAIN Bound, Spend(b)
  PROVE  /\ spent' \in [DOMAIN Bound -> Nat]
         /\ \A c \in DOMAIN Bound : spent'[c] <= Bound[c]
         /\ spent'["edits"] >= spent["edits"]
         /\ b = "edits" => Fresh \in Rev /\ spent'["edits"] = Fresh
  <1>1. spent' = [spent EXCEPT ![b] = @ + 1] /\ spent[b] < Bound[b]
    BY DEF Spend
  <1>2. \A c \in DOMAIN Bound : spent[c] \in Nat /\ Bound[c] \in Nat
    BY BoundType DEF PanelTypeOK
  <1> QED
    BY <1>1, <1>2, BoundType, PanelAssumption DEF PanelTypeOK, Fresh

-----------------------------------------------------------------------------
(* Types.                                                                   *)

LEMMA PanelKept ==
  ASSUME PanelTypeOK, UNCHANGED <<panelvars, spent>>
  PROVE  PanelTypeOK'
  BY DEF PanelTypeOK, panelvars

LEMMA PayloadType == ASSUME SubTypeOK PROVE Payload \in Client
  BY FirstIsInbound DEF SubTypeOK, Payload, Original, OriginalOf

LEMMA PostType ==
  ASSUME PanelTypeOK, NEW payload \in Client, NEW answered \in BOOLEAN,
         Post(payload, answered)
  PROVE  PanelTypeOK'
  <1>1. PICK reached \in SUBSET Place :
          clients' = [p \in Place |-> IF p \in reached THEN payload ELSE clients[p]]
    BY DEF Post
  <1>2. UNCHANGED spent \/ Spend("errors")
    BY DEF Post
  <1>3. clients' \in [Place -> Client]
    BY <1>1 DEF PanelTypeOK
  <1>4. UNCHANGED <<rest, template, active, up>>
    BY DEF Post
  <1> QED
    BY <1>2, <1>3, <1>4, SpendType, BoundType DEF PanelTypeOK

LEMMA CallFailsType ==
  ASSUME PanelTypeOK, CallFails, UNCHANGED panelvars
  PROVE  PanelTypeOK'
  BY SpendType, BoundType DEF PanelTypeOK, CallFails, panelvars

LEMMA SubStepType ==
  ASSUME PanelTypeOK, SubTypeOK, SubNext
  PROVE  PanelTypeOK' /\ SubTypeOK'
  <1>1. CASE Snapshot
    BY BlankType, <1>1, PanelKept DEF Snapshot, SubTypeOK, PanelTypeOK, SubLocal, SubGoto, SubOver
  <1>2. CASE Read
    <2>1. [held EXCEPT !.originals =
             [i \in Inbound |-> [client |-> clients[i], rest |-> rest[i]]]] \in Held
      BY DEF SubTypeOK, PanelTypeOK
    <2> QED
      BY BlankType, <1>2, <2>1, PanelKept DEF Read, SubTypeOK, SubLocal, SubGoto, SubOver
  <1>3. CASE ReadFails
    BY BlankType, <1>3, CallFailsType DEF ReadFails, SubTypeOK, SubGoto, SubOver
  <1>4. CASE Prepare
    BY BlankType, <1>4, PanelKept DEF Prepare, Written, SubTypeOK, SubLocal, SubGoto, SubOver, MayPrepare
  <1>5. CASE Rollback
    BY BlankType, <1>5, PanelKept DEF Rollback, Guarded, SubTypeOK, SubLocal, SubGoto, SubOver
  <1>6. CASE Update
    BY BlankType, <1>6, PayloadType, PostType DEF Update, Fail, SubTypeOK, SubGoto, SubOver
  <1>7. CASE CheckRecord
    BY BlankType, <1>7, PanelKept, CallFailsType DEF CheckRecord, Fail, SubTypeOK, SubGoto, SubOver
  <1>8. CASE CheckInbounds
    BY BlankType, <1>8, PanelKept, CallFailsType DEF CheckInbounds, Checked, Fail, SubTypeOK, SubGoto, SubOver
  <1>9. CASE Save
    BY BlankType, <1>9, PanelKept DEF Save, SubTypeOK, SubLocal, SubGoto, SubOver
  <1>10. CASE KillSub
    <2>1. PanelTypeOK'
      BY BlankType, <1>10, SpendType, BoundType DEF KillSub, PanelTypeOK, panelvars
    <2> QED
      BY BlankType, <1>10, <2>1 DEF KillSub, SubTypeOK, SubGoto, SubOver
  <1>11. CASE ArchiveSub
    BY BlankType, <1>11, PanelKept DEF ArchiveSub, SubTypeOK, SubLocal
  <1> QED
    BY <1>1, <1>2, <1>3, <1>4, <1>5, <1>6, <1>7, <1>8, <1>9, <1>10, <1>11 DEF SubNext

LEMMA OutStepType ==
  ASSUME PanelTypeOK, OutTypeOK, OutNext
  PROVE  PanelTypeOK' /\ OutTypeOK'
  <1>1. CASE ReadClient
    BY NoLocalsType, <1>1, PanelKept DEF ReadClient, OutTypeOK, PanelTypeOK, OutLocal, OutGoto, OutOver
  <1>2. CASE ReadTemplate
    BY NoLocalsType, <1>2, PanelKept DEF ReadTemplate, OutTypeOK, PanelTypeOK, OutLocal, OutGoto, OutOver
  <1>3. CASE CompareActive
    BY NoLocalsType, <1>3, PanelKept DEF CompareActive, OutTypeOK, OutLocal, OutGoto, OutOver
  <1>4. CASE OutPrepare
    BY NoLocalsType, <1>4, PanelKept DEF OutPrepare, OutTypeOK, OutLocal, OutGoto, OutOver
  <1>5. CASE OutRollback
    BY NoLocalsType, <1>5, PanelKept DEF OutRollback, OutTypeOK, OutLocal, OutGoto, OutOver
  <1>6. CASE Replace
    <2>1. PanelTypeOK'
      BY <1>6, SpendType, BoundType DEF Replace, OutTypeOK, PanelTypeOK, Replacement
    <2> QED
      BY NoLocalsType, <1>6, <2>1 DEF Replace, OutTypeOK, OutGoto, OutOver
  <1>7. CASE Restart
    <2>1. PanelTypeOK'
      BY NoLocalsType, <1>7, SpendType, BoundType DEF Restart, PanelTypeOK
    <2> QED
      BY NoLocalsType, <1>7, <2>1 DEF Restart, OutFail, Changed, OutTypeOK, OutGoto, OutOver
  <1>8. CASE OutVerify
    BY NoLocalsType, <1>8, PanelKept DEF OutVerify, OutFail, Changed, OutTypeOK, OutLocal, OutGoto, OutOver
  <1>9. CASE OutSave
    BY NoLocalsType, <1>9, PanelKept DEF OutSave, OutTypeOK, OutLocal, OutGoto, OutOver
  <1>10. CASE KillOut
    <2>1. PanelTypeOK'
      BY NoLocalsType, <1>10, SpendType, BoundType DEF KillOut, PanelTypeOK, panelvars
    <2> QED
      BY NoLocalsType, <1>10, <2>1 DEF KillOut, OutTypeOK, OutGoto, OutOver
  <1>11. CASE ArchiveOut
    BY NoLocalsType, <1>11, PanelKept DEF ArchiveOut, OutTypeOK, OutLocal
  <1> QED
    BY <1>1, <1>2, <1>3, <1>4, <1>5, <1>6, <1>7, <1>8, <1>9, <1>10, <1>11 DEF OutNext

(* An edit at the panel, and what each history keeps of it.                 *)
LEMMA PanelStepType ==
  ASSUME PanelTypeOK, Panel
  PROVE  PanelTypeOK' /\ (clients' # clients \/ template' # template => Fresh \in Rev)
  <1>1. CASE EditClient
    BY <1>1, SpendType, BoundType DEF EditClient, PanelTypeOK
  <1>2. CASE EditInbound
    BY <1>2, SpendType, BoundType DEF EditInbound, PanelTypeOK
  <1>3. CASE EditTemplate
    BY <1>3, SpendType, BoundType DEF EditTemplate, PanelTypeOK
  <1>4. CASE StartXray
    BY <1>4 DEF StartXray, PanelTypeOK
  <1> QED
    BY <1>1, <1>2, <1>3, <1>4 DEF Panel

LEMMA InitType == Init => TypeOK
  <1> SUFFICES ASSUME Init PROVE TypeOK
    OBVIOUS
  <1>1. PanelTypeOK
    BY PanelAssumption, BoundType DEF Init, PanelInit, PanelTypeOK
  <1>2. SubTypeOK
    BY <1>1, BlankType, PanelAssumption DEF Init, SubInit, SubTypeOK, PanelTypeOK, PanelInit
  <1>3. OutTypeOK
    BY <1>1, PanelAssumption, NoLocalsType DEF Init, OutInit, OutTypeOK, PanelTypeOK, PanelInit
  <1> QED
    BY <1>1, <1>2, <1>3 DEF TypeOK

(* Both tools keep the types of what the panel has and of what they         *)
(* remember, and a command that changes the panel has its state.json        *)
(* written.                                                                 *)
THEOREM TypeCorrect == Spec => []TypeOK
<1>1. Init => TypeOK
  BY InitType
<1>2. TypeOK /\ [Next]_vars => TypeOK'
  <2> SUFFICES ASSUME TypeOK, [Next]_vars PROVE TypeOK'
    OBVIOUS
  <2> USE DEF TypeOK
  <2>1. CASE Subscription
    BY <2>1, SubStepType DEF Subscription, OutTypeOK, outvars
  <2>2. CASE Outbound
    BY <2>2, OutStepType DEF Outbound, SubTypeOK, subvars
  <2>3. CASE Others
    BY <2>3, PanelStepType DEF Others, Noticed, Remembered, SubTypeOK, OutTypeOK
  <2>4. CASE UNCHANGED vars
    BY <2>4, PanelKept DEF vars, SubTypeOK, OutTypeOK, subvars, outvars
  <2> QED
    BY <2>1, <2>2, <2>3, <2>4 DEF Next
<1> QED
  BY <1>1, <1>2, PTL DEF Spec

-----------------------------------------------------------------------------
(* The template.  No edit of it is later than the last Fresh; what a        *)
(* command remembers of it differs in the credentials only; and where the   *)
(* command stands tells what the template is unless it was edited since.    *)

Same(t) == template.rev = t.rev => template = t

NotBegun == out \in {"idle", "client", "active", "prepare"}

Bounded ==
  /\ template.rev <= spent["edits"]
  /\ have.original.rev <= spent["edits"]
  /\ have.applied.rev = have.original.rev
  /\ outState # Absent =>
       /\ outState.have.original.rev <= spent["edits"]
       /\ outState.have.applied.rev = outState.have.original.rev

Tasks ==
  /\ out \in {"replace", "restart", "verify", "save"} =>
       outState.stage = IF task = "rollback" THEN "applied" ELSE "prepared"
  /\ out = "save" => task # "restore"

Knows ==
  /\ out \in {"active", "prepare"} => Same(have.original)
  /\ out = "replace" => Same(Expected)
  /\ out \in {"restart", "verify", "save"} => Same(Replacement)
  /\ out = "save" /\ template.rev = have.original.rev => active = template.cred

Told ==
  /\ NotBegun /\ outState # Absent /\ outLapses = {} => StageTold
  /\ out = "replace" /\ task = "rollback" /\ outLapses = {} => StageTold

OutInv == TypeOK /\ TemplateKept /\ Bounded /\ Tasks /\ Knows /\ Told

USE DEF Same, NotBegun, StageTold, StageTemplate

(* The other tool and the history leave all of it alone.                    *)
LEMMA OutIdle ==
  ASSUME OutInv, UNCHANGED <<template, active, outvars>>, TypeOK',
         spent'["edits"] >= spent["edits"]
  PROVE  OutInv'
  <1> USE DEF OutInv
  <1>0. /\ out' = out /\ task' = task /\ have' = have /\ outState' = outState
        /\ lastEdit' = lastEdit /\ outLapses' = outLapses
        /\ template' = template /\ active' = active
    BY DEF outvars
  <1>1. TemplateKept'
    BY <1>0 DEF TemplateKept
  <1>2. Bounded'
    <2>1. spent["edits"] \in Nat /\ spent'["edits"] \in Nat
      BY BoundType DEF TypeOK, PanelTypeOK
    <2>2. template.rev \in Nat /\ have.original.rev \in Nat
      BY PanelAssumption DEF TypeOK, PanelTypeOK, OutTypeOK
    <2>3. outState # Absent => outState.have.original.rev \in Nat
      BY PanelAssumption DEF TypeOK, OutTypeOK
    <2> QED
      BY <1>0, <2>1, <2>2, <2>3 DEF Bounded
  <1>3. Tasks'
    BY <1>0 DEF Tasks
  <1>4. Knows'
    BY <1>0 DEF Knows, Expected, Replacement
  <1>5. Told'
    BY <1>0 DEF Told
  <1> QED
    BY <1>1, <1>2, <1>3, <1>4, <1>5

(* Edits at the panel, and Xray started again.                              *)
LEMMA OutPanel ==
  ASSUME OutInv, Others, TypeOK'
  PROVE  OutInv'
  <1> USE DEF OutInv
  <1>0. /\ out' = out /\ task' = task /\ have' = have /\ outState' = outState
        /\ outLapses' = outLapses
        /\ lastEdit' = IF template' # template THEN Fresh ELSE lastEdit
    BY DEF Others, Remembered
  <1>1. CASE EditTemplate
    <2>1. /\ template'.rev = Fresh /\ spent'["edits"] = Fresh /\ Fresh = spent["edits"] + 1
          /\ active' = active /\ spent["edits"] \in Nat
      BY <1>1, SpendType, BoundType DEF EditTemplate, Fresh, TypeOK, PanelTypeOK
    <2>2. /\ template.rev \in Nat /\ have.original.rev \in Nat
          /\ outState # Absent => outState.have.original.rev \in Nat
      BY PanelAssumption DEF TypeOK, PanelTypeOK, OutTypeOK
    <2>3. template' # template
      BY <2>1, <2>2 DEF Bounded
    <2>4. TemplateKept' /\ Bounded' /\ Tasks'
      BY <1>0, <2>1, <2>2, <2>3 DEF TemplateKept, Bounded, Tasks
    <2>5. /\ template'.rev # have.original.rev /\ template'.rev # have.applied.rev
          /\ outState # Absent => template'.rev # outState.have.original.rev
      BY <2>1, <2>2 DEF Bounded
    <2>6. Knows'
      BY <1>0, <2>5 DEF Knows, Expected, Replacement
    <2>7. outState.have = have \/ out # "replace"
      BY DEF TypeOK, OutTypeOK
    <2>8. Told'
      BY <1>0, <2>5, <2>7 DEF Told
    <2> QED
      BY <2>4, <2>6, <2>8
  <1>2. CASE StartXray
    <2>1. template' = template /\ spent' = spent /\ active' = template.cred
      BY <1>2 DEF StartXray
    <2>2. TemplateKept' /\ Bounded' /\ Tasks'
      BY <1>0, <2>1 DEF TemplateKept, Bounded, Tasks
    <2>3. Knows' /\ Told'
      BY <1>0, <2>1 DEF Knows, Told, Expected, Replacement
    <2> QED
      BY <2>2, <2>3
  <1>3. CASE EditClient \/ EditInbound
    <2>1. UNCHANGED <<template, active>> /\ Spend("edits")
      BY <1>3 DEF EditClient, EditInbound
    <2>2. spent'["edits"] >= spent["edits"]
      BY <2>1, SpendType, BoundType DEF TypeOK
    <2> QED
      BY <1>0, <2>1, <2>2, OutIdle DEF outvars
  <1> QED
    BY <1>1, <1>2, <1>3 DEF Others, Panel

LEMMA OutStep ==
  ASSUME OutInv, OutNext, TypeOK'
  PROVE  OutInv'
  <1> USE DEF OutInv
  <1>0. /\ out \in {"replace", "restart", "verify", "save"} =>
             outState \in OutRecorded /\ outState.have = have
        /\ task \in {"apply", "restore", "rollback"}
        /\ spent["edits"] \in Nat
        /\ have \in Have /\ template \in Template
        /\ outState \in OutRecorded \union {Absent}
        /\ NoLocals.original.rev = 0 /\ NoLocals.applied.rev = 0
    BY BoundType, NoLocalsType DEF TypeOK, OutTypeOK, PanelTypeOK
  <1>1. CASE ReadClient
    <2>1. have'.original = have.original /\ have'.applied = have.applied
      BY <1>0, <1>1 DEF ReadClient, OutGoto
    <2> QED
      BY <1>0, <1>1, <2>1 DEF ReadClient, OutLocal, OutGoto, OutOver, panelvars,
           TemplateKept, Bounded, Tasks, Knows, Told
  <1>2. CASE ReadTemplate
    <2>1. have'.original = template /\ have'.applied.rev = template.rev
      BY <1>0, <1>2 DEF ReadTemplate, OutGoto
    <2> QED
      BY <1>0, <1>2, <2>1 DEF ReadTemplate, OutLocal, OutGoto, OutOver, panelvars,
           TemplateKept, Bounded, Tasks, Knows, Told
  <1>3. CASE CompareActive
    BY <1>0, <1>3 DEF CompareActive, OutLocal, OutGoto, OutOver, panelvars,
         TemplateKept, Bounded, Tasks, Knows, Told
  <1>4. CASE OutPrepare
    BY <1>0, <1>4 DEF OutPrepare, OutLocal, OutGoto, OutOver, panelvars,
         TemplateKept, Bounded, Tasks, Knows, Told, Expected, Replacement
  <1>5. CASE OutRollback
    BY <1>0, <1>5 DEF OutRollback, OutLocal, OutGoto, OutOver, panelvars,
         TemplateKept, Bounded, Tasks, Knows, Told, Expected, Replacement
  <1>6. CASE Replace
    <2>1. spent'["edits"] = spent["edits"]
      BY <1>6, BoundType DEF Replace, Spend, TypeOK, PanelTypeOK
    <2>2. /\ out = "replace" /\ outState' = outState
          /\ active' = active /\ lastEdit' = lastEdit
      BY <1>6 DEF Replace
    <2>3. CASE /\ Compared /\ template' = Replacement
               /\ OutGoto("restart", task, have) /\ UNCHANGED outLapses
      BY <1>0, <2>1, <2>2, <2>3 DEF Compared, OutGoto,
           TemplateKept, Bounded, Tasks, Knows, Told, Expected, Replacement
    <2>4. CASE ~Compared /\ OutOver /\ UNCHANGED <<template, outLapses>>
      BY <1>0, <2>1, <2>2, <2>4 DEF Compared, OutGoto, OutOver,
           TemplateKept, Bounded, Tasks, Knows, Told, Expected, Replacement
    <2>5. CASE /\ OutOver /\ UNCHANGED template
               /\ outLapses' = IF task = "restore" THEN outLapses \union {"restore"}
                               ELSE outLapses
      <3>1. task # "restore" => UNCHANGED outLapses
        BY <2>5
      <3>2. task = "restore" => outLapses' # {}
        BY <2>5
      <3> QED
        BY <1>0, <2>1, <2>2, <2>5, <3>1, <3>2 DEF OutGoto, OutOver,
             TemplateKept, Bounded, Tasks, Knows, Told, Expected, Replacement
    <2> QED
      BY <1>6, <2>3, <2>4, <2>5 DEF Replace
  <1>7. CASE Restart
    <2>1. spent'["edits"] = spent["edits"]
      BY <1>7, BoundType DEF Restart, Spend, TypeOK, PanelTypeOK
    <2>2. /\ out = "restart" /\ outState' = outState
          /\ template' = template /\ active' = active /\ lastEdit' = lastEdit
      BY <1>7 DEF Restart
    <2>3. CASE OutGoto("verify", task, have) /\ UNCHANGED outLapses
      BY <1>0, <2>1, <2>2, <2>3 DEF OutGoto,
           TemplateKept, Bounded, Tasks, Knows, Told, Expected, Replacement
    <2>4. CASE OutFail
      <3>1. CASE task = "apply"
        BY <1>0, <2>1, <2>2, <2>4, <3>1 DEF OutGoto, OutFail, Changed,
             TemplateKept, Bounded, Tasks, Knows, Told, Expected, Replacement
      <3>2. CASE task = "restore"
        BY <1>0, <2>1, <2>2, <2>4, <3>2 DEF OutGoto, OutOver, OutFail, Changed,
             TemplateKept, Bounded, Tasks, Knows, Told, Expected, Replacement
      <3>3. CASE task = "rollback"
        BY <1>0, <2>1, <2>2, <2>4, <3>3 DEF OutGoto, OutOver, OutFail, Changed,
             TemplateKept, Bounded, Tasks, Knows, Told, Expected, Replacement
      <3> QED
        BY <1>0, <3>1, <3>2, <3>3
    <2> QED
      BY <1>7, <2>3, <2>4 DEF Restart
  <1>8. CASE OutVerify
    BY <1>0, <1>8 DEF OutVerify, OutLocal, OutGoto, OutOver, OutFail, Changed, Taken, Wanted,
         panelvars, TemplateKept, Bounded, Tasks, Knows, Told, Expected, Replacement
  <1>9. CASE OutSave
    BY <1>0, <1>9 DEF OutSave, OutLocal, OutGoto, OutOver,
         panelvars, TemplateKept, Bounded, Tasks, Knows, Told, Expected, Replacement
  <1>10. CASE KillOut
    <2>1. spent'["edits"] = spent["edits"]
      BY <1>10, BoundType DEF KillOut, Spend, TypeOK, PanelTypeOK
    <2>2. /\ out' = "idle" /\ have' = NoLocals /\ outState' = outState
          /\ template' = template /\ active' = active /\ lastEdit' = lastEdit
      BY <1>10 DEF KillOut, OutGoto, OutOver, panelvars
    <2>3. outLapses' = {} => ~OutTorn /\ outLapses = {}
      BY <1>10 DEF KillOut
    <2>4. TemplateKept' /\ Bounded' /\ Tasks' /\ Knows'
      BY <1>0, <2>1, <2>2 DEF TemplateKept, Bounded, Tasks, Knows
    <2>5. ASSUME outState # Absent, outLapses' = {} PROVE StageTold
      <3>1. CASE NotBegun
        BY <2>3, <2>5, <3>1 DEF Told
      <3>2. CASE out = "replace"
        BY <1>0, <2>3, <2>5, <3>2 DEF Told, OutTorn, Tasks, Knows, Expected
      <3>3. CASE out \in {"restart", "verify", "save"}
        BY <1>0, <2>3, <2>5, <3>3 DEF OutTorn, Tasks, Knows, Replacement
      <3> QED
        BY <3>1, <3>2, <3>3 DEF TypeOK, OutTypeOK
    <2>6. Told'
      BY <2>2, <2>5 DEF Told
    <2> QED
      BY <2>4, <2>6
  <1>11. CASE ArchiveOut
    BY <1>0, <1>11 DEF ArchiveOut, OutLocal,
         panelvars, TemplateKept, Bounded, Tasks, Knows, Told
  <1> QED
    BY <1>1, <1>2, <1>3, <1>4, <1>5, <1>6, <1>7, <1>8, <1>9, <1>10, <1>11 DEF OutNext

(* The subscription tool leaves the template and Xray alone.                *)
LEMMA SubLeaves ==
  ASSUME PanelTypeOK, SubNext
  PROVE  /\ UNCHANGED <<template, active>>
         /\ spent'["edits"] >= spent["edits"]
  <1>1. UNCHANGED spent \/ Spend("errors") \/ Spend("kills")
    BY DEF SubNext, Snapshot, Read, ReadFails, Prepare, Rollback, Update, CheckRecord,
           CheckInbounds, Save, KillSub, ArchiveSub, Post, CallFails, SubLocal
  <1>2. UNCHANGED <<template, active>>
    BY DEF SubNext, Snapshot, Read, ReadFails, Prepare, Rollback, Update, CheckRecord,
           CheckInbounds, Save, KillSub, ArchiveSub, Post, SubLocal, panelvars
  <1>3. spent["edits"] \in Nat
    BY BoundType DEF PanelTypeOK
  <1> QED
    BY <1>1, <1>2, <1>3, SpendType, BoundType

LEMMA OutInvariant == Spec => []OutInv
<1>1. Init => OutInv
  <2> SUFFICES ASSUME Init PROVE OutInv
    OBVIOUS
  <2>1. TypeOK
    BY InitType
  <2>2. /\ out = "idle" /\ outState = Absent /\ lastEdit = 0
        /\ template = [cred |-> Before, rev |-> 0] /\ spent["edits"] = 0
        /\ have = NoLocals
    BY BoundType DEF Init, PanelInit, OutInit
  <2> QED
    BY <2>1, <2>2, NoLocalsType DEF OutInv, TemplateKept, Bounded, Tasks, Knows, Told
<1>2. TypeOK' /\ OutInv /\ [Next]_vars => OutInv'
  <2> SUFFICES ASSUME TypeOK', OutInv, [Next]_vars PROVE OutInv'
    OBVIOUS
  <2>1. CASE Subscription
    <3>1. spent'["edits"] >= spent["edits"] /\ UNCHANGED <<template, active>>
      BY <2>1, SubLeaves DEF Subscription, OutInv, TypeOK
    <3> QED
      BY <2>1, <3>1, OutIdle DEF Subscription
  <2>2. CASE Outbound
    BY <2>2, OutStep DEF Outbound
  <2>3. CASE Others
    BY <2>3, OutPanel
  <2>4. CASE UNCHANGED vars
    <3>1. spent'["edits"] >= spent["edits"]
      BY <2>4, BoundType DEF vars, OutInv, TypeOK, PanelTypeOK
    <3> QED
      BY <2>4, <3>1, OutIdle DEF vars, panelvars
  <2> QED
    BY <2>1, <2>2, <2>3, <2>4 DEF Next
<1> QED
  BY <1>1, <1>2, TypeCorrect, PTL DEF Spec

(* Whatever the tools and the operator do, and in whatever order, the       *)
(* template is the one the operator saved last, but for the credentials.    *)
THEOREM NoTemplateEditLost == Spec => []TemplateKept
<1>1. OutInv => TemplateKept
  BY DEF OutInv
<1> QED
  BY <1>1, OutInvariant, PTL

(* Outside the exceptions it names, the stage of the outbound tool tells    *)
(* what the template is and, after a success, what Xray runs with.          *)
THEOREM OutboundStageTells == Spec => []OutStageTells
<1>1. OutInv => OutStageTells
  BY DEF OutInv, Told, OutStageTells
<1> QED
  BY <1>1, OutInvariant, PTL

-----------------------------------------------------------------------------
(* The client.  Outside a lapse all places have the same subId, and where   *)
(* the command stands tells which; what it would write is not older than    *)
(* the last edit made while no command ran.                                 *)

AllHave(id) == \A p \in Place : clients[p].sub = id

Writing == sub \in {"update", "record", "inbounds", "save"}

(* The command has not changed the client (yet), and would leave it as the  *)
(* stage says.                                                              *)
Quiet ==
  \/ sub \in {"idle", "read", "prepare"}
  \/ sub \in {"record", "inbounds"} /\ mode = "guard"
  \/ sub = "update" /\ mode \in {"apply", "rollback"}

Modes ==
  /\ Writing => subState.stage = IF mode \in {"guard", "rollback"} THEN "applied" ELSE "prepared"
  /\ sub = "update" => mode # "guard"
  /\ sub = "save" => mode \in {"apply", "rollback"}

IdsAgree ==
  /\ subLapses = {} /\ Quiet => AllHave(clients["record"].sub)
  /\ subLapses = {} /\ sub = "prepare" => AllHave(Original.sub)
  /\ subLapses = {} /\ Quiet /\ (Writing \/ subState # Absent) => AllHave(StageId)
  /\ sub = "save" => AllHave(ExpectedId)
  /\ sub = "inbounds" => clients["record"].sub = ExpectedId
  /\ sub = "update" /\ mode = "rollback" => AllHave("new")

NotOlder ==
  /\ quietRev <= spent["edits"]
  /\ SubEditsKept
  /\ sub = "prepare" \/ (Writing /\ mode # "guard") => Original.rev >= quietRev

SubInv == TypeOK /\ Modes /\ IdsAgree /\ NotOlder

USE DEF AllHave, Writing, Quiet, StageId

LEMMA HeldTypes ==
  ASSUME TypeOK
  PROVE  /\ Original \in Client /\ Payload \in Client
         /\ \A p \in Place : clients[p] \in Client
         /\ held \in Held
         /\ subState \in Recorded \union {Absent}
         /\ Writing => subState \in Recorded /\ subState.held = held
         /\ quietRev \in Nat /\ spent["edits"] \in Nat
         /\ mode \in {"apply", "restore", "guard", "rollback"}
         /\ sub \in {"idle", "read", "prepare", "update", "record", "inbounds", "save"}
  BY PayloadType, FirstIsInbound, PanelAssumption, BoundType
  DEF TypeOK, PanelTypeOK, SubTypeOK, Original, OriginalOf

(* Nothing but the subscription tool and the operator changes the client.   *)
LEMMA SubIdle ==
  ASSUME SubInv, UNCHANGED <<clients, subvars>>, TypeOK',
         spent'["edits"] >= spent["edits"]
  PROVE  SubInv'
  <1>0. /\ sub' = sub /\ mode' = mode /\ held' = held /\ subState' = subState
        /\ quietRev' = quietRev /\ subLapses' = subLapses /\ clients' = clients
    BY DEF subvars
  <1>1. Original' = Original /\ ExpectedId' = ExpectedId
    BY <1>0 DEF Original, OriginalOf, ExpectedId
  <1>2. Modes'
    BY <1>0 DEF SubInv, Modes
  <1>3. IdsAgree'
    BY <1>0, <1>1 DEF SubInv, IdsAgree, OriginalOf
  <1>4. NotOlder'
    <2>1. quietRev \in Nat /\ spent["edits"] \in Nat /\ spent'["edits"] \in Nat
      BY BoundType, HeldTypes DEF SubInv, TypeOK, PanelTypeOK
    <2> QED
      BY <1>0, <1>1, <2>1 DEF SubInv, NotOlder, SubEditsKept
  <1> QED
    BY <1>2, <1>3, <1>4 DEF SubInv

(* An edit of the client leaves its subId alone; the history takes it for   *)
(* one to be kept when no command runs.                                     *)
LEMMA SubPanel ==
  ASSUME SubInv, Others, TypeOK'
  PROVE  SubInv'
  <1>0. /\ sub' = sub /\ mode' = mode /\ held' = held /\ subState' = subState
        /\ subLapses' = subLapses
        /\ quietRev' = IF sub = "idle" /\ clients' # clients THEN Fresh ELSE quietRev
    BY DEF Others, Noticed
  <1>1. CASE EditClient
    <2>1. /\ spent'["edits"] = Fresh /\ Fresh = spent["edits"] + 1
          /\ clients' = [p \in Place |-> [clients[p] EXCEPT !.rev = Fresh]]
      BY <1>1, SpendType, BoundType DEF EditClient, Fresh, SubInv, TypeOK, PanelTypeOK
    <2>2. Original' = Original /\ ExpectedId' = ExpectedId
      BY <1>0 DEF Original, OriginalOf, ExpectedId
    <2>3. \A p \in Place : clients'[p].sub = clients[p].sub /\ clients'[p].rev = Fresh
      BY <2>1, HeldTypes DEF SubInv
    <2>4. Modes'
      BY <1>0 DEF SubInv, Modes
    <2>5. IdsAgree'
      BY <1>0, <2>2, <2>3 DEF SubInv, IdsAgree, OriginalOf
    <2>6. NotOlder'
      BY <1>0, <2>1, <2>2, <2>3, HeldTypes DEF SubInv, NotOlder, SubEditsKept
    <2> QED
      BY <2>4, <2>5, <2>6 DEF SubInv
  <1>2. CASE EditInbound \/ EditTemplate \/ StartXray
    <2>1. UNCHANGED clients /\ spent'["edits"] >= spent["edits"]
      BY <1>2, SpendType, BoundType, HeldTypes
      DEF EditInbound, EditTemplate, StartXray, SubInv, TypeOK
    <2> QED
      BY <1>0, <2>1, SubIdle DEF subvars
  <1> QED
    BY <1>1, <1>2 DEF Others, Panel

(* An update writes what the command holds, everywhere if it succeeds.      *)
LEMMA PostWrites ==
  ASSUME TypeOK, NEW payload \in Client, NEW answered \in BOOLEAN,
         Post(payload, answered)
  PROVE  /\ \A p \in Place : clients'[p] = payload \/ clients'[p] = clients[p]
         /\ spent'["edits"] = spent["edits"]
  <1>1. PICK reached \in SUBSET Place :
          /\ clients' = [p \in Place |-> IF p \in reached THEN payload ELSE clients[p]]
          /\ UNCHANGED spent \/ Spend("errors")
    BY DEF Post
  <1> QED
    BY <1>1, BoundType DEF Spend, TypeOK, PanelTypeOK

LEMMA ErrorsOnly ==
  ASSUME TypeOK, CallFails \/ Spend("kills") \/ UNCHANGED spent
  PROVE  spent'["edits"] = spent["edits"]
  BY BoundType DEF CallFails, Spend, TypeOK, PanelTypeOK

LEMMA SubStep ==
  ASSUME SubInv, SubNext, UNCHANGED outvars, TypeOK'
  PROVE  SubInv'
  <1> USE DEF SubInv
  <1>0. /\ Original \in Client /\ Payload \in Client
        /\ \A p \in Place : clients[p] \in Client
        /\ held \in Held
        /\ subState \in Recorded \union {Absent}
        /\ Writing => subState \in Recorded /\ subState.held = held
        /\ quietRev \in Nat /\ spent["edits"] \in Nat
        /\ First \in Inbound
    BY HeldTypes, FirstIsInbound
  <1>1. CASE Snapshot
    <2>1. held'.originals = held.originals
      BY <1>0, <1>1 DEF Snapshot, SubGoto
    <2> QED
      BY <1>0, <1>1, <2>1 DEF Snapshot, OriginalOf, Original, ExpectedId, SubLocal, SubGoto, SubOver, panelvars, Modes, IdsAgree, NotOlder, SubEditsKept
  <1>2. CASE Read
    <2>1. sub' = "prepare" => Original' = clients[First]
      BY <1>0, <1>2 DEF Read, Original, OriginalOf, SubGoto, SubOver
    <2>2. /\ sub = "read" /\ sub' \in {"prepare", "idle"} /\ subState' = subState
          /\ clients' = clients /\ spent' = spent /\ quietRev' = quietRev
          /\ subLapses' = subLapses
      BY <1>2 DEF Read, SubLocal, SubGoto, SubOver, panelvars
    <2>3. Modes'
      BY <2>2 DEF Modes
    <2>4. StageId' = StageId
      BY <2>2 DEF OriginalOf
    <2>5. IdsAgree'
      BY <1>0, <2>1, <2>2, <2>4 DEF IdsAgree
    <2>6. NotOlder'
      BY <1>0, <2>1, <2>2 DEF NotOlder, SubEditsKept
    <2> QED
      BY <2>3, <2>5, <2>6
  <1>3. CASE ReadFails
    BY <1>0, <1>3, ErrorsOnly DEF ReadFails, OriginalOf, Original, ExpectedId, SubLocal, SubGoto, SubOver, panelvars, Modes, IdsAgree, NotOlder, SubEditsKept
  <1>4. CASE Prepare
    BY <1>0, <1>4 DEF Prepare, Written, MayPrepare, OriginalOf, Original, ExpectedId, SubLocal, SubGoto, SubOver, panelvars, Modes, IdsAgree, NotOlder, SubEditsKept
  <1>5. CASE Rollback
    BY <1>0, <1>5 DEF Rollback, Guarded, OriginalOf, Original, ExpectedId, SubLocal, SubGoto, SubOver, panelvars, Modes, IdsAgree, NotOlder, SubEditsKept
  <1>9. CASE Save
    <2>1. /\ subState'.held = held /\ clients' = clients
          /\ subState'.stage = IF mode = "apply" THEN "applied" ELSE "rolled-back"
          /\ sub' = "idle" /\ mode' = "apply" /\ quietRev' = quietRev
          /\ spent' = spent /\ subLapses' = subLapses
      BY <1>0, <1>9 DEF Save, SubLocal, SubGoto, SubOver, panelvars
    <2>2. AllHave(ExpectedId) /\ mode \in {"apply", "rollback"}
      BY <1>9 DEF Save, Modes, IdsAgree
    <2>3. AllHave(StageId)'
      BY <2>1, <2>2 DEF ExpectedId, Original, OriginalOf
    <2>4. AllHave(clients["record"].sub)'
      BY <2>1, <2>2
    <2> QED
      BY <1>9, <2>1, <2>3, <2>4 DEF Save, Modes, IdsAgree, NotOlder, SubEditsKept
  <1>11. CASE ArchiveSub
    BY <1>0, <1>11 DEF ArchiveSub, OriginalOf, Original, ExpectedId, SubLocal, SubGoto, SubOver, panelvars, Modes, IdsAgree, NotOlder, SubEditsKept
  <1>6. CASE Update
    <2>1. /\ sub = "update" /\ subState' = subState /\ quietRev' = quietRev
      BY <1>6 DEF Update
    <2>2. /\ \A p \in Place : clients'[p] = Payload \/ clients'[p] = clients[p]
          /\ spent'["edits"] = spent["edits"]
      BY <1>0, <1>6, PostWrites DEF Update
    <2>3. /\ held' = held => Original' = Original
          /\ Payload.rev = Original.rev
      BY <1>0 DEF Original, OriginalOf, Payload
    <2>4. Original.rev >= quietRev
      BY <2>1 DEF NotOlder, Modes
    <2>5. held' = held \/ sub' = "idle" => NotOlder'
      BY <1>0, <2>1, <2>2, <2>3, <2>4 DEF NotOlder, SubEditsKept
    <2>6. CASE SubGoto("record", mode, held) /\ UNCHANGED subLapses
      <3>1. mode # "guard" /\ sub' = "record" /\ mode' = mode /\ held' = held
        BY <2>1, <2>6 DEF Modes, SubGoto, SubOver
      <3>2. Modes' /\ IdsAgree'
        BY <2>1, <3>1 DEF Modes, IdsAgree
      <3> QED
        BY <2>5, <3>1, <3>2
    <2>7. CASE Fail
      <3>1. /\ sub' \in {"update", "idle"}
            /\ sub' = "update" => mode = "apply" /\ mode' = "restore" /\ held' = held
            /\ sub' = "idle" => subLapses' # {}
        BY <2>1, <2>7, HeldTypes DEF Fail, Restores, SubGoto, SubOver, Modes
      <3>2. Modes' /\ IdsAgree'
        BY <2>1, <3>1 DEF Modes, IdsAgree
      <3> QED
        BY <2>5, <3>1, <3>2
    <2> QED
      BY <1>6, <2>6, <2>7 DEF Update
  <1>12. ASSUME Fail, sub \in {"record", "inbounds"}, clients' = clients,
                subState' = subState, quietRev' = quietRev, spent'["edits"] = spent["edits"]
         PROVE  SubInv'
    <2>1. (held' = held => Original' = Original) /\ StageId' = StageId
      BY <1>12 DEF Original, OriginalOf
    <2>2. CASE mode = "guard"
      <3>1. sub' = "idle" /\ subLapses' = subLapses
        BY <1>12, <2>2 DEF Fail, Restores, SubGoto, SubOver
      <3> QED
        BY <1>0, <1>12, <2>1, <2>2, <3>1 DEF Modes, IdsAgree, NotOlder, SubEditsKept
    <2>3. CASE mode = "apply"
      <3>1. sub' = "update" /\ mode' = "restore" /\ subLapses' = subLapses /\ held' = held
        BY <1>12, <2>3 DEF Fail, Restores, SubGoto, SubOver
      <3> QED
        BY <1>0, <1>12, <2>1, <2>3, <3>1 DEF Modes, IdsAgree, NotOlder, SubEditsKept
    <2>4. CASE mode \in {"restore", "rollback"}
      <3>1. sub' = "idle" /\ subLapses' # {}
        BY <1>12, <2>4 DEF Fail, Restores, SubGoto, SubOver
      <3> QED
        BY <1>0, <1>12, <2>1, <2>4, <3>1 DEF Modes, IdsAgree, NotOlder, SubEditsKept
    <2> QED
      BY <2>2, <2>3, <2>4, HeldTypes
  <1>7. CASE CheckRecord
    <2>1. /\ sub = "record" /\ clients' = clients
          /\ subState' = subState /\ quietRev' = quietRev
          /\ spent'["edits"] = spent["edits"]
      BY <1>7, ErrorsOnly DEF CheckRecord, panelvars
    <2>2. CASE RecordIsRight /\ SubGoto("inbounds", mode, held) /\ UNCHANGED subLapses
      <3>1. clients["record"].sub = ExpectedId
        BY <1>0, <2>2 DEF RecordIsRight, Equal
      <3>2. /\ Original' = Original /\ ExpectedId' = ExpectedId /\ StageId' = StageId
            /\ sub' = "inbounds" /\ mode' = mode
        BY <2>1, <2>2 DEF Original, OriginalOf, ExpectedId, SubGoto, SubOver
      <3> QED
        BY <1>0, <2>1, <2>2, <3>1, <3>2 DEF Modes, IdsAgree, NotOlder, SubEditsKept
    <2> QED
      BY <1>7, <1>12, <2>1, <2>2 DEF CheckRecord
  <1>8. CASE CheckInbounds
    <2>1. /\ sub = "inbounds" /\ clients' = clients
          /\ subState' = subState /\ quietRev' = quietRev
          /\ spent'["edits"] = spent["edits"]
      BY <1>8, ErrorsOnly DEF CheckInbounds, panelvars
    <2>2. CASE InboundsAreRight /\ Checked
      <3>1. AllHave(ExpectedId)
        <4>1. ASSUME NEW i \in Inbound PROVE clients[i].sub = ExpectedId
          <5>1. clients[i] = [held.originals[i].client EXCEPT !.sub = ExpectedId]
            BY <2>2 DEF InboundsAreRight, Equal
          <5>2. held.originals[i].client \in Client
            BY <1>0
          <5> QED
            BY <5>1, <5>2
        <4> QED
          BY <2>1, <4>1 DEF IdsAgree
      <3>2. mode = "guard" => Original.rev >= quietRev
        <4>1. clients[First] = [Original EXCEPT !.sub = ExpectedId]
          BY <1>0, <2>2 DEF InboundsAreRight, Equal, Original, OriginalOf
        <4> QED
          BY <1>0, <4>1 DEF NotOlder, SubEditsKept
      <3>3. (held' = held => Original' = Original) /\ StageId' = StageId
        BY <2>1 DEF Original, OriginalOf
      <3>4. NotOlder'
        BY <1>0, <2>1, <2>2, <3>2, <3>3, HeldTypes
        DEF NotOlder, SubEditsKept, Checked, SubGoto, SubOver
      <3>5. Modes'
        BY <1>0, <2>1, <2>2, HeldTypes DEF Modes, Checked, SubGoto, SubOver
      <3>6. IdsAgree'
        <4>1. CASE mode = "guard"
          BY <1>0, <2>1, <2>2, <3>1, <3>3, <4>1
          DEF IdsAgree, Modes, Checked, SubGoto, SubOver, ExpectedId, Original, OriginalOf
        <4>2. CASE mode = "restore"
          BY <1>0, <2>1, <2>2, <3>1, <3>3, <4>2
          DEF IdsAgree, Modes, Checked, SubGoto, SubOver, ExpectedId, Original, OriginalOf
        <4>3. CASE mode \in {"apply", "rollback"}
          <5>1. sub' = "save" /\ held' = held /\ ExpectedId' = ExpectedId
            BY <2>1, <2>2, <3>3, <4>3 DEF Checked, SubGoto, SubOver, ExpectedId
          <5> QED
            BY <2>1, <3>1, <5>1 DEF IdsAgree
        <4> QED
          BY <4>1, <4>2, <4>3, HeldTypes
      <3> QED
        BY <3>4, <3>5, <3>6
    <2> QED
      BY <1>8, <1>12, <2>1, <2>2 DEF CheckInbounds
  <1>10. CASE KillSub
    <2>1. /\ sub' = "idle" /\ mode' = "apply" /\ clients' = clients
          /\ subState' = subState /\ quietRev' = quietRev
          /\ spent'["edits"] = spent["edits"]
          /\ Torn => subLapses' # {}
          /\ ~Torn => subLapses' = subLapses
      BY <1>10, ErrorsOnly DEF KillSub, SubGoto, SubOver, panelvars
    <2>2. StageId' = StageId
      BY <2>1 DEF OriginalOf
    <2>3. ~Torn => Quiet
      BY HeldTypes DEF Torn, Modes
    <2>4. Modes' /\ NotOlder'
      BY <1>0, <2>1 DEF Modes, NotOlder, SubEditsKept
    <2>5. ~Torn /\ subLapses = {} => AllHave(clients["record"].sub)
      BY <1>0, <2>3 DEF IdsAgree
    <2>6. IdsAgree'
      BY <2>1, <2>2, <2>3, <2>5 DEF IdsAgree
    <2> QED
      BY <2>4, <2>6
  <1> QED
    BY <1>1, <1>2, <1>3, <1>4, <1>5, <1>6, <1>7, <1>8, <1>9, <1>10, <1>11 DEF SubNext

(* The other tool leaves the client alone.                                  *)
LEMMA OutLeaves ==
  ASSUME PanelTypeOK, OutNext
  PROVE  /\ UNCHANGED clients
         /\ spent'["edits"] >= spent["edits"]
  <1>1. UNCHANGED spent \/ Spend("errors") \/ Spend("kills")
    BY DEF OutNext, ReadClient, ReadTemplate, CompareActive, OutPrepare, OutRollback,
           Replace, Restart, OutVerify, OutSave, KillOut, ArchiveOut, OutLocal
  <1>2. UNCHANGED clients
    BY DEF OutNext, ReadClient, ReadTemplate, CompareActive, OutPrepare, OutRollback,
           Replace, Restart, OutVerify, OutSave, KillOut, ArchiveOut, OutLocal, panelvars
  <1>3. spent["edits"] \in Nat
    BY BoundType DEF PanelTypeOK
  <1> QED
    BY <1>1, <1>2, <1>3, SpendType, BoundType

LEMMA SubInvariant == Spec => []SubInv
<1>1. Init => SubInv
  <2> SUFFICES ASSUME Init PROVE SubInv
    OBVIOUS
  <2>1. TypeOK
    BY InitType
  <2>2. /\ sub = "idle" /\ subState = Absent /\ quietRev = 0 /\ spent["edits"] = 0
        /\ \A p \in Place : clients[p] = [sub |-> "old", rev |-> 0]
    BY BoundType DEF Init, PanelInit, SubInit
  <2> QED
    BY <2>1, <2>2 DEF SubInv, Modes, IdsAgree, NotOlder, SubEditsKept
<1>2. TypeOK' /\ SubInv /\ [Next]_vars => SubInv'
  <2> SUFFICES ASSUME TypeOK', SubInv, [Next]_vars PROVE SubInv'
    OBVIOUS
  <2>1. CASE Subscription
    BY <2>1, SubStep DEF Subscription
  <2>2. CASE Outbound
    <3>1. spent'["edits"] >= spent["edits"] /\ UNCHANGED clients
      BY <2>2, OutLeaves DEF Outbound, SubInv, TypeOK
    <3> QED
      BY <2>2, <3>1, SubIdle DEF Outbound
  <2>3. CASE Others
    BY <2>3, SubPanel
  <2>4. CASE UNCHANGED vars
    <3>1. spent'["edits"] >= spent["edits"]
      BY <2>4, BoundType DEF vars, SubInv, TypeOK, PanelTypeOK
    <3> QED
      BY <2>4, <3>1, SubIdle DEF vars, panelvars
  <2> QED
    BY <2>1, <2>2, <2>3, <2>4 DEF Next
<1> QED
  BY <1>1, <1>2, TypeCorrect, PTL DEF Spec

(* No apply, restore or rollback puts back a client older than the last     *)
(* edit that was made while no command ran.                                 *)
THEOREM QuietEditsKept == Spec => []SubEditsKept
<1>1. SubInv => SubEditsKept
  BY DEF SubInv, NotOlder
<1> QED
  BY <1>1, SubInvariant, PTL

(* Outside the exceptions it names, the stage of the subscription tool      *)
(* tells which subId every place has.                                       *)
THEOREM SubscriptionStageTells == Spec => []SubStageTells
<1>1. SubInv => SubStageTells
  BY DEF SubInv, IdsAgree, SubStageTells
<1> QED
  BY <1>1, SubInvariant, PTL
=============================================================================

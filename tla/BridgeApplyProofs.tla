------------------------- MODULE BridgeApplyProofs -------------------------
(***************************************************************************)
(* Proofs about BridgeApply, for any number of reconcilers and any bodies.  *)
(***************************************************************************)
EXTENDS BridgeApply, TLAPS

-----------------------------------------------------------------------------
(* Type correctness.                                                        *)

(* Rendering an acceptable base body gives an acceptable configuration.     *)
LEMMA RenderAcceptable ==
  ASSUME NEW text \in Content, Wellformed(text), ~Loops(text)
  PROVE  Render(text) \in Acceptable
BY DEF Render, Acceptable, Content, Wellformed, Loops

(* The kinds of files a name can hold are all files.                        *)
LEMMA FileKinds ==
  /\ Acceptable \subseteq Content
  /\ Unmanaged \subseteq File
  /\ Acceptable \subseteq File
  /\ Absent \in Unmanaged
  /\ Absent \notin Acceptable
BY ContentAssumption DEF Acceptable, Unmanaged, File

LEMMA InitType == Init => TypeOK
<1> SUFFICES ASSUME Init PROVE TypeOK
  OBVIOUS
<1>1. (target # Absent) \in BOOLEAN
  OBVIOUS
<1>2. service \in [loaded : File, active : BOOLEAN]
  BY <1>1, FileKinds DEF Init
<1>3. "idle" \in Place /\ "none" \in Outcome
  BY DEF Place, Outcome
<1>4. QED
  BY <1>2, <1>3, FileKinds DEF Init, TypeOK

LEMMA SpendType ==
  ASSUME spent \in [Budget -> Nat], NEW b \in Budget, Spend(b)
  PROVE  spent' \in [Budget -> Nat]
BY DEF Spend

(* Ending a run keeps the types of what it touches.                         *)
LEMMA FinishType ==
  ASSUME TypeOK, NEW p \in Reconciler, NEW o \in Outcome, Finish(p, o)
  PROVE  /\ lock' \in Reconciler \union {NoOne}
         /\ pc' \in [Reconciler -> Place]
         /\ rendered' \in [Reconciler -> Acceptable \union {Absent}]
         /\ previous' \in [Reconciler -> Acceptable \union Unmanaged]
         /\ outcome' \in [Reconciler -> Outcome]
BY FileKinds DEF TypeOK, Finish, Place

(* Moving on inside a run keeps the type of the control state.              *)
LEMMA GotoType ==
  ASSUME TypeOK, NEW p \in Reconciler, NEW from, NEW to \in Place,
         Goto(p, from, to)
  PROVE  pc' \in [Reconciler -> Place]
BY DEF TypeOK, Goto

LEMMA EnvironmentType ==
  /\ TypeOK
  /\ EditBase \/ RunJob \/ ServiceDies \/ ServiceStopped \/ ServiceStarted
  => TypeOK'
<1> SUFFICES ASSUME TypeOK,
                    EditBase \/ RunJob \/ ServiceDies \/ ServiceStopped
                      \/ ServiceStarted
             PROVE  TypeOK'
  OBVIOUS
<1> USE DEF TypeOK, filevars, runvars, worldvars
<1>1. CASE EditBase
  BY <1>1, SpendType DEF EditBase, Budget, File
<1>2. CASE RunJob
  <2>1. target \in File
    BY FileKinds
  <2>2. service' \in [loaded : File, active : BOOLEAN]
    BY <1>2, <2>1 DEF RunJob
  <2>3. QED
    BY <1>2, <2>2 DEF RunJob
<1>3. CASE ServiceDies
  BY <1>3 DEF ServiceDies
<1>4. CASE ServiceStopped
  BY <1>4, SpendType DEF ServiceStopped, Budget
<1>5. CASE ServiceStarted
  BY <1>5, SpendType DEF ServiceStarted, Budget
<1>6. QED
  BY <1>1, <1>2, <1>3, <1>4, <1>5

(* The actions that end a run.                                              *)
LEMMA EndType ==
  ASSUME TypeOK, NEW p \in Reconciler,
         \/ Refuse(p) \/ RenderRejected(p) \/ LockTimeout(p) \/ Unchanged(p)
         \/ DryRun(p) \/ StageFails(p) \/ SkipRestart(p) \/ Healthy(p)
         \/ RestoreFails(p) \/ PreviousHealthy(p) \/ RestartPreviousFails(p)
         \/ Kill(p)
  PROVE  TypeOK'
<1> USE DEF filevars, worldvars
<1>1. PICK o \in Outcome : Finish(p, o)
  BY DEF Refuse, RenderRejected, LockTimeout, Unchanged, DryRun, StageFails,
         SkipRestart, Healthy, RestoreFails, PreviousHealthy,
         RestartPreviousFails, Kill, Outcome, Rejected, Unharmed, Undone
<1>2. UNCHANGED <<filevars, worldvars>>
  BY DEF Refuse, RenderRejected, LockTimeout, Unchanged, DryRun, StageFails,
         SkipRestart, Healthy, RestoreFails, PreviousHealthy,
         RestartPreviousFails, Kill
<1>3. lapses' \subseteq Lapse
  BY DEF TypeOK, Refuse, RenderRejected, LockTimeout, Unchanged, DryRun,
         StageFails, SkipRestart, Healthy, RestoreFails, PreviousHealthy,
         RestartPreviousFails, Kill, Lapse
<1>4. spent' = spent \/ \E b \in Budget : Spend(b)
  BY DEF Refuse, RenderRejected, LockTimeout, Unchanged, DryRun, StageFails,
         SkipRestart, Healthy, RestoreFails, PreviousHealthy,
         RestartPreviousFails, Kill, Error, Starts, Budget
<1>5. spent' \in [Budget -> Nat]
  BY <1>4, SpendType DEF TypeOK
<1>6. QED
  BY <1>1, <1>2, <1>3, <1>5, FinishType DEF TypeOK

(* The actions that stay inside a run.                                      *)
LEMMA InsideType ==
  ASSUME TypeOK, NEW p \in Reconciler,
         \/ RenderQueue(p) \/ Lock(p) \/ Capture(p) \/ WriteBackup(p)
         \/ WriteTarget(p) \/ Restart(p) \/ RestartDone(p) \/ RestartFails(p)
         \/ Restore(p) \/ RestartPrevious(p) \/ RestartPreviousDone(p)
  PROVE  TypeOK'
<1> USE DEF TypeOK, Place, Holding, Unsettled, Restored, Passes,
           Backup, filevars, runvars, worldvars
<1>1. CASE RenderQueue(p)
  <2>1. base \in Content
    BY <1>1 DEF RenderQueue, File
  <2>2. rendered' \in [Reconciler -> Acceptable \union {Absent}]
    BY <1>1, <2>1, RenderAcceptable DEF RenderQueue
  <2>3. spent' \in [Budget -> Nat]
    BY <1>1, SpendType DEF RenderQueue, Starts, Budget
  <2>4. QED
    BY <1>1, <2>2, <2>3, GotoType DEF RenderQueue
<1>2. CASE Lock(p)
  BY <1>2, GotoType DEF Lock
<1>3. CASE Capture(p)
  BY <1>3, GotoType DEF Capture
<1>4. CASE WriteBackup(p)
  BY <1>4, GotoType DEF WriteBackup
<1>5. CASE WriteTarget(p)
  BY <1>5, GotoType, FileKinds DEF WriteTarget
<1>6. CASE Restart(p)
  BY <1>6, GotoType DEF Restart
<1>7. CASE RestartDone(p)
  BY <1>7, GotoType DEF RestartDone
<1>8. CASE RestartFails(p)
  <2>1. spent' \in [Budget -> Nat]
    BY <1>8, SpendType DEF RestartFails, Error, Budget
  <2>2. QED
    BY <1>8, <2>1, GotoType DEF RestartFails
<1>9. CASE Restore(p)
  BY <1>9, GotoType DEF Restore
<1>10. CASE RestartPrevious(p)
  BY <1>10, GotoType DEF RestartPrevious, RequestPrevious
<1>11. CASE RestartPreviousDone(p)
  BY <1>11, GotoType DEF RestartPreviousDone
<1>12. QED
  BY <1>1, <1>2, <1>3, <1>4, <1>5, <1>6, <1>7, <1>8, <1>9, <1>10, <1>11

LEMMA StepType == TypeOK /\ [Next]_vars => TypeOK'
<1>1. ASSUME TypeOK, Next PROVE TypeOK'
  BY <1>1, EnvironmentType, EndType, InsideType DEF Next, Begin, Acquire, Apply
<1>2. ASSUME TypeOK, UNCHANGED vars PROVE TypeOK'
  BY <1>2 DEF TypeOK, vars
<1>3. QED
  BY <1>1, <1>2

(* Type correctness: in particular vpn.toml, its backup and every text on   *)
(* its way to vpn.toml are what the operator had before the bridge, or      *)
(* acceptable: well-formed and free of traffic loops.                       *)
THEOREM TypeCorrect == Spec => []TypeOK
BY InitType, StepType, PTL DEF Spec

-----------------------------------------------------------------------------
(* The inductive invariant.                                                 *)

(* Exactly the holder of the flock is inside the critical section.          *)
HoldInv == \A p \in Reconciler : pc[p] \in Holding <=> lock = p

(* What a run carries: an acceptable text, a snapshot that differs from it, *)
(* and, before vpn.toml is replaced, its backup.                            *)
TextInv ==
  \A p \in Reconciler :
    /\ pc[p] # "idle" => rendered[p] \in Acceptable
    /\ pc[p] \in {"captured", "backed"} => previous[p] # rendered[p]
    /\ pc[p] = "backed" /\ previous[p] # Absent => backup = previous[p]

(* A text is checked only after the service was started with it.            *)
TrialInv ==
  \A p \in Reconciler :
    /\ pc[p] = "restarting" /\ ~job => service.loaded = target
    /\ pc[p] = "checking" => service.loaded = target

(* ServedUnlessLapse, extended to the runs that are under way.              *)
ServedInv ==
  /\ lapses = {}
  /\ ~job
  /\ \A p \in Reconciler : pc[p] \notin {"staged", "recovering", "restored"}
  => service.loaded = target

IInv ==
  /\ TypeOK
  /\ HoldInv
  /\ TextInv
  /\ OnlyOwnWriteUndone
  /\ BackupIsPrevious
  /\ TrialInv
  /\ ServedInv

(* The lock and the places stay in step.                                    *)
LEMMA HoldStep ==
  ASSUME IInv, TypeOK', Next
  PROVE  HoldInv'
<1> USE DEF IInv, TypeOK, HoldInv, Holding, Unsettled, Restored,
           Finish, Goto, filevars, runvars, worldvars, Flock, Changed,
           Backup, IsActive, RequestPrevious
<1>1. ASSUME NEW p \in Reconciler, Refuse(p) PROVE HoldInv'
  BY <1>1, ReconcilerAssumption DEF Refuse
<1>2. ASSUME NEW p \in Reconciler, RenderRejected(p) PROVE HoldInv'
  BY <1>2, ReconcilerAssumption DEF RenderRejected
<1>3. ASSUME NEW p \in Reconciler, RenderQueue(p) PROVE HoldInv'
  BY <1>3, ReconcilerAssumption DEF RenderQueue
<1>4. ASSUME NEW p \in Reconciler, Lock(p) PROVE HoldInv'
  BY <1>4, ReconcilerAssumption DEF Lock
<1>5. ASSUME NEW p \in Reconciler, LockTimeout(p) PROVE HoldInv'
  BY <1>5, ReconcilerAssumption DEF LockTimeout
<1>6. ASSUME NEW p \in Reconciler, Unchanged(p) PROVE HoldInv'
  BY <1>6, ReconcilerAssumption DEF Unchanged
<1>7. ASSUME NEW p \in Reconciler, DryRun(p) PROVE HoldInv'
  BY <1>7, ReconcilerAssumption DEF DryRun
<1>8. ASSUME NEW p \in Reconciler, Capture(p) PROVE HoldInv'
  BY <1>8, ReconcilerAssumption DEF Capture
<1>9. ASSUME NEW p \in Reconciler, WriteBackup(p) PROVE HoldInv'
  BY <1>9, ReconcilerAssumption DEF WriteBackup
<1>10. ASSUME NEW p \in Reconciler, WriteTarget(p) PROVE HoldInv'
  BY <1>10, ReconcilerAssumption DEF WriteTarget
<1>11. ASSUME NEW p \in Reconciler, StageFails(p) PROVE HoldInv'
  BY <1>11, ReconcilerAssumption DEF StageFails
<1>12. ASSUME NEW p \in Reconciler, SkipRestart(p) PROVE HoldInv'
  BY <1>12, ReconcilerAssumption DEF SkipRestart
<1>13. ASSUME NEW p \in Reconciler, Restart(p) PROVE HoldInv'
  BY <1>13, ReconcilerAssumption DEF Restart
<1>14. ASSUME NEW p \in Reconciler, RestartDone(p) PROVE HoldInv'
  BY <1>14, ReconcilerAssumption DEF RestartDone
<1>15. ASSUME NEW p \in Reconciler, RestartFails(p) PROVE HoldInv'
  BY <1>15, ReconcilerAssumption DEF RestartFails
<1>16. ASSUME NEW p \in Reconciler, Healthy(p) PROVE HoldInv'
  BY <1>16, ReconcilerAssumption DEF Healthy
<1>17. ASSUME NEW p \in Reconciler, Restore(p) PROVE HoldInv'
  BY <1>17, ReconcilerAssumption DEF Restore
<1>18. ASSUME NEW p \in Reconciler, RestoreFails(p) PROVE HoldInv'
  BY <1>18, ReconcilerAssumption DEF RestoreFails
<1>19. ASSUME NEW p \in Reconciler, RestartPrevious(p) PROVE HoldInv'
  BY <1>19, ReconcilerAssumption DEF RestartPrevious
<1>20. ASSUME NEW p \in Reconciler, RestartPreviousDone(p) PROVE HoldInv'
  BY <1>20, ReconcilerAssumption DEF RestartPreviousDone
<1>21. ASSUME NEW p \in Reconciler, PreviousHealthy(p) PROVE HoldInv'
  BY <1>21, ReconcilerAssumption DEF PreviousHealthy
<1>22. ASSUME NEW p \in Reconciler, RestartPreviousFails(p) PROVE HoldInv'
  BY <1>22, ReconcilerAssumption DEF RestartPreviousFails
<1>23. ASSUME NEW p \in Reconciler, Kill(p) PROVE HoldInv'
  BY <1>23, ReconcilerAssumption DEF Kill
<1>24. CASE EditBase
  BY <1>24 DEF EditBase
<1>25. CASE RunJob
  BY <1>25 DEF RunJob
<1>26. CASE ServiceDies
  BY <1>26 DEF ServiceDies
<1>27. CASE ServiceStopped
  BY <1>27 DEF ServiceStopped
<1>28. CASE ServiceStarted
  BY <1>28 DEF ServiceStarted
<1>29. QED
  BY <1>1, <1>2, <1>3, <1>4, <1>5, <1>6, <1>7, <1>8, <1>9, <1>10, <1>11,
     <1>12, <1>13, <1>14, <1>15, <1>16, <1>17, <1>18, <1>19, <1>20, <1>21,
     <1>22, <1>23, <1>24, <1>25, <1>26, <1>27, <1>28
     DEF Next, Begin, Acquire, Apply

(* What the runs carry.                                                     *)
LEMMA TextStep ==
  ASSUME IInv, TypeOK', Next
  PROVE  TextInv'
<1> USE DEF IInv, TypeOK, HoldInv, TextInv, Holding, Unsettled, Restored,
           Finish, Goto, filevars, runvars, worldvars, Flock, Changed,
           Backup, IsActive, RequestPrevious
<1>1. ASSUME NEW p \in Reconciler, Refuse(p) PROVE TextInv'
  BY <1>1 DEF Refuse
<1>2. ASSUME NEW p \in Reconciler, RenderRejected(p) PROVE TextInv'
  BY <1>2 DEF RenderRejected
<1>3. ASSUME NEW p \in Reconciler, RenderQueue(p) PROVE TextInv'
  BY <1>3, RenderAcceptable DEF RenderQueue, Passes, File
<1>4. ASSUME NEW p \in Reconciler, Lock(p) PROVE TextInv'
  BY <1>4 DEF Lock
<1>5. ASSUME NEW p \in Reconciler, LockTimeout(p) PROVE TextInv'
  BY <1>5 DEF LockTimeout
<1>6. ASSUME NEW p \in Reconciler, Unchanged(p) PROVE TextInv'
  BY <1>6 DEF Unchanged
<1>7. ASSUME NEW p \in Reconciler, DryRun(p) PROVE TextInv'
  BY <1>7 DEF DryRun
<1>8. ASSUME NEW p \in Reconciler, Capture(p) PROVE TextInv'
  BY <1>8 DEF Capture
<1>9. ASSUME NEW p \in Reconciler, WriteBackup(p) PROVE TextInv'
  BY <1>9 DEF WriteBackup
<1>10. ASSUME NEW p \in Reconciler, WriteTarget(p) PROVE TextInv'
  BY <1>10 DEF WriteTarget
<1>11. ASSUME NEW p \in Reconciler, StageFails(p) PROVE TextInv'
  BY <1>11 DEF StageFails
<1>12. ASSUME NEW p \in Reconciler, SkipRestart(p) PROVE TextInv'
  BY <1>12 DEF SkipRestart
<1>13. ASSUME NEW p \in Reconciler, Restart(p) PROVE TextInv'
  BY <1>13 DEF Restart
<1>14. ASSUME NEW p \in Reconciler, RestartDone(p) PROVE TextInv'
  BY <1>14 DEF RestartDone
<1>15. ASSUME NEW p \in Reconciler, RestartFails(p) PROVE TextInv'
  BY <1>15 DEF RestartFails
<1>16. ASSUME NEW p \in Reconciler, Healthy(p) PROVE TextInv'
  BY <1>16 DEF Healthy
<1>17. ASSUME NEW p \in Reconciler, Restore(p) PROVE TextInv'
  BY <1>17 DEF Restore
<1>18. ASSUME NEW p \in Reconciler, RestoreFails(p) PROVE TextInv'
  BY <1>18 DEF RestoreFails
<1>19. ASSUME NEW p \in Reconciler, RestartPrevious(p) PROVE TextInv'
  BY <1>19 DEF RestartPrevious
<1>20. ASSUME NEW p \in Reconciler, RestartPreviousDone(p) PROVE TextInv'
  BY <1>20 DEF RestartPreviousDone
<1>21. ASSUME NEW p \in Reconciler, PreviousHealthy(p) PROVE TextInv'
  BY <1>21 DEF PreviousHealthy
<1>22. ASSUME NEW p \in Reconciler, RestartPreviousFails(p) PROVE TextInv'
  BY <1>22 DEF RestartPreviousFails
<1>23. ASSUME NEW p \in Reconciler, Kill(p) PROVE TextInv'
  BY <1>23 DEF Kill
<1>24. CASE EditBase
  BY <1>24 DEF EditBase
<1>25. CASE RunJob
  BY <1>25 DEF RunJob
<1>26. CASE ServiceDies
  BY <1>26 DEF ServiceDies
<1>27. CASE ServiceStopped
  BY <1>27 DEF ServiceStopped
<1>28. CASE ServiceStarted
  BY <1>28 DEF ServiceStarted
<1>29. QED
  BY <1>1, <1>2, <1>3, <1>4, <1>5, <1>6, <1>7, <1>8, <1>9, <1>10, <1>11,
     <1>12, <1>13, <1>14, <1>15, <1>16, <1>17, <1>18, <1>19, <1>20, <1>21,
     <1>22, <1>23, <1>24, <1>25, <1>26, <1>27, <1>28
     DEF Next, Begin, Acquire, Apply

(* The files under the lock change only by their holder's hand.              *)
LEMMA FileStep ==
  ASSUME IInv, TypeOK', Next
  PROVE  OnlyOwnWriteUndone' /\ BackupIsPrevious'
<1> USE DEF IInv, TypeOK, HoldInv, TextInv, OnlyOwnWriteUndone,
           BackupIsPrevious, Holding, Unsettled, Restored,
           Finish, Goto, filevars, runvars, worldvars, Flock, Changed,
           Backup, IsActive, RequestPrevious
<1>1. ASSUME NEW p \in Reconciler, Refuse(p)
      PROVE  OnlyOwnWriteUndone' /\ BackupIsPrevious'
  BY <1>1 DEF Refuse
<1>2. ASSUME NEW p \in Reconciler, RenderRejected(p)
      PROVE  OnlyOwnWriteUndone' /\ BackupIsPrevious'
  BY <1>2 DEF RenderRejected
<1>3. ASSUME NEW p \in Reconciler, RenderQueue(p)
      PROVE  OnlyOwnWriteUndone' /\ BackupIsPrevious'
  BY <1>3 DEF RenderQueue
<1>4. ASSUME NEW p \in Reconciler, Lock(p)
      PROVE  OnlyOwnWriteUndone' /\ BackupIsPrevious'
  BY <1>4 DEF Lock
<1>5. ASSUME NEW p \in Reconciler, LockTimeout(p)
      PROVE  OnlyOwnWriteUndone' /\ BackupIsPrevious'
  BY <1>5 DEF LockTimeout
<1>6. ASSUME NEW p \in Reconciler, Unchanged(p)
      PROVE  OnlyOwnWriteUndone' /\ BackupIsPrevious'
  BY <1>6 DEF Unchanged
<1>7. ASSUME NEW p \in Reconciler, DryRun(p)
      PROVE  OnlyOwnWriteUndone' /\ BackupIsPrevious'
  BY <1>7 DEF DryRun
<1>8. ASSUME NEW p \in Reconciler, Capture(p)
      PROVE  OnlyOwnWriteUndone' /\ BackupIsPrevious'
  BY <1>8 DEF Capture
<1>9. ASSUME NEW p \in Reconciler, WriteBackup(p)
      PROVE  OnlyOwnWriteUndone' /\ BackupIsPrevious'
  BY <1>9 DEF WriteBackup
<1>10. ASSUME NEW p \in Reconciler, WriteTarget(p)
       PROVE  OnlyOwnWriteUndone' /\ BackupIsPrevious'
  BY <1>10 DEF WriteTarget
<1>11. ASSUME NEW p \in Reconciler, StageFails(p)
       PROVE  OnlyOwnWriteUndone' /\ BackupIsPrevious'
  BY <1>11 DEF StageFails
<1>12. ASSUME NEW p \in Reconciler, SkipRestart(p)
       PROVE  OnlyOwnWriteUndone' /\ BackupIsPrevious'
  BY <1>12 DEF SkipRestart
<1>13. ASSUME NEW p \in Reconciler, Restart(p)
       PROVE  OnlyOwnWriteUndone' /\ BackupIsPrevious'
  BY <1>13 DEF Restart
<1>14. ASSUME NEW p \in Reconciler, RestartDone(p)
       PROVE  OnlyOwnWriteUndone' /\ BackupIsPrevious'
  BY <1>14 DEF RestartDone
<1>15. ASSUME NEW p \in Reconciler, RestartFails(p)
       PROVE  OnlyOwnWriteUndone' /\ BackupIsPrevious'
  BY <1>15 DEF RestartFails
<1>16. ASSUME NEW p \in Reconciler, Healthy(p)
       PROVE  OnlyOwnWriteUndone' /\ BackupIsPrevious'
  BY <1>16 DEF Healthy
<1>17. ASSUME NEW p \in Reconciler, Restore(p)
       PROVE  OnlyOwnWriteUndone' /\ BackupIsPrevious'
  BY <1>17 DEF Restore
<1>18. ASSUME NEW p \in Reconciler, RestoreFails(p)
       PROVE  OnlyOwnWriteUndone' /\ BackupIsPrevious'
  BY <1>18 DEF RestoreFails
<1>19. ASSUME NEW p \in Reconciler, RestartPrevious(p)
       PROVE  OnlyOwnWriteUndone' /\ BackupIsPrevious'
  BY <1>19 DEF RestartPrevious
<1>20. ASSUME NEW p \in Reconciler, RestartPreviousDone(p)
       PROVE  OnlyOwnWriteUndone' /\ BackupIsPrevious'
  BY <1>20 DEF RestartPreviousDone
<1>21. ASSUME NEW p \in Reconciler, PreviousHealthy(p)
       PROVE  OnlyOwnWriteUndone' /\ BackupIsPrevious'
  BY <1>21 DEF PreviousHealthy
<1>22. ASSUME NEW p \in Reconciler, RestartPreviousFails(p)
       PROVE  OnlyOwnWriteUndone' /\ BackupIsPrevious'
  BY <1>22 DEF RestartPreviousFails
<1>23. ASSUME NEW p \in Reconciler, Kill(p)
       PROVE  OnlyOwnWriteUndone' /\ BackupIsPrevious'
  BY <1>23 DEF Kill
<1>24. CASE EditBase
  BY <1>24 DEF EditBase
<1>25. CASE RunJob
  BY <1>25 DEF RunJob
<1>26. CASE ServiceDies
  BY <1>26 DEF ServiceDies
<1>27. CASE ServiceStopped
  BY <1>27 DEF ServiceStopped
<1>28. CASE ServiceStarted
  BY <1>28 DEF ServiceStarted
<1>29. QED
  BY <1>1, <1>2, <1>3, <1>4, <1>5, <1>6, <1>7, <1>8, <1>9, <1>10, <1>11,
     <1>12, <1>13, <1>14, <1>15, <1>16, <1>17, <1>18, <1>19, <1>20, <1>21,
     <1>22, <1>23, <1>24, <1>25, <1>26, <1>27, <1>28
     DEF Next, Begin, Acquire, Apply

(* What the service was last started with.                                  *)
LEMMA ServedStep ==
  ASSUME IInv, TypeOK', Next
  PROVE  TrialInv' /\ ServedInv'
<1> USE DEF IInv, TypeOK, HoldInv, OnlyOwnWriteUndone, TrialInv,
           ServedInv, Holding, Unsettled, Restored,
           Finish, Goto, filevars, runvars, worldvars, Flock, Changed,
           Backup, IsActive, RequestPrevious
<1>1. ASSUME NEW p \in Reconciler, Refuse(p) PROVE TrialInv' /\ ServedInv'
  BY <1>1 DEF Refuse
<1>2. ASSUME NEW p \in Reconciler, RenderRejected(p)
      PROVE  TrialInv' /\ ServedInv'
  BY <1>2 DEF RenderRejected
<1>3. ASSUME NEW p \in Reconciler, RenderQueue(p)
      PROVE  TrialInv' /\ ServedInv'
  BY <1>3 DEF RenderQueue
<1>4. ASSUME NEW p \in Reconciler, Lock(p) PROVE TrialInv' /\ ServedInv'
  BY <1>4 DEF Lock
<1>5. ASSUME NEW p \in Reconciler, LockTimeout(p)
      PROVE  TrialInv' /\ ServedInv'
  BY <1>5 DEF LockTimeout
<1>6. ASSUME NEW p \in Reconciler, Unchanged(p) PROVE TrialInv' /\ ServedInv'
  BY <1>6 DEF Unchanged
<1>7. ASSUME NEW p \in Reconciler, DryRun(p) PROVE TrialInv' /\ ServedInv'
  BY <1>7 DEF DryRun
<1>8. ASSUME NEW p \in Reconciler, Capture(p) PROVE TrialInv' /\ ServedInv'
  BY <1>8 DEF Capture
<1>9. ASSUME NEW p \in Reconciler, WriteBackup(p)
      PROVE  TrialInv' /\ ServedInv'
  BY <1>9 DEF WriteBackup
<1>10. ASSUME NEW p \in Reconciler, WriteTarget(p)
       PROVE  TrialInv' /\ ServedInv'
  BY <1>10 DEF WriteTarget
<1>11. ASSUME NEW p \in Reconciler, StageFails(p)
       PROVE  TrialInv' /\ ServedInv'
  BY <1>11 DEF StageFails
<1>12. ASSUME NEW p \in Reconciler, SkipRestart(p)
       PROVE  TrialInv' /\ ServedInv'
  BY <1>12 DEF SkipRestart
<1>13. ASSUME NEW p \in Reconciler, Restart(p) PROVE TrialInv' /\ ServedInv'
  BY <1>13 DEF Restart
<1>14. ASSUME NEW p \in Reconciler, RestartDone(p)
       PROVE  TrialInv' /\ ServedInv'
  BY <1>14 DEF RestartDone
<1>15. ASSUME NEW p \in Reconciler, RestartFails(p)
       PROVE  TrialInv' /\ ServedInv'
  BY <1>15 DEF RestartFails
<1>16. ASSUME NEW p \in Reconciler, Healthy(p) PROVE TrialInv' /\ ServedInv'
  BY <1>16 DEF Healthy
<1>17. ASSUME NEW p \in Reconciler, Restore(p) PROVE TrialInv' /\ ServedInv'
  BY <1>17 DEF Restore
<1>18. ASSUME NEW p \in Reconciler, RestoreFails(p)
       PROVE  TrialInv' /\ ServedInv'
  BY <1>18 DEF RestoreFails
<1>19. ASSUME NEW p \in Reconciler, RestartPrevious(p)
       PROVE  TrialInv' /\ ServedInv'
  BY <1>19 DEF RestartPrevious
<1>20. ASSUME NEW p \in Reconciler, RestartPreviousDone(p)
       PROVE  TrialInv' /\ ServedInv'
  BY <1>20 DEF RestartPreviousDone
<1>21. ASSUME NEW p \in Reconciler, PreviousHealthy(p)
       PROVE  TrialInv' /\ ServedInv'
  BY <1>21 DEF PreviousHealthy
<1>22. ASSUME NEW p \in Reconciler, RestartPreviousFails(p)
       PROVE  TrialInv' /\ ServedInv'
  BY <1>22 DEF RestartPreviousFails
<1>23. ASSUME NEW p \in Reconciler, Kill(p) PROVE TrialInv' /\ ServedInv'
  BY <1>23 DEF Kill
<1>24. CASE EditBase
  BY <1>24 DEF EditBase
<1>25. CASE RunJob
  BY <1>25 DEF RunJob
<1>26. CASE ServiceDies
  BY <1>26 DEF ServiceDies
<1>27. CASE ServiceStopped
  BY <1>27 DEF ServiceStopped
<1>28. CASE ServiceStarted
  BY <1>28 DEF ServiceStarted
<1>29. QED
  BY <1>1, <1>2, <1>3, <1>4, <1>5, <1>6, <1>7, <1>8, <1>9, <1>10, <1>11,
     <1>12, <1>13, <1>14, <1>15, <1>16, <1>17, <1>18, <1>19, <1>20, <1>21,
     <1>22, <1>23, <1>24, <1>25, <1>26, <1>27, <1>28
     DEF Next, Begin, Acquire, Apply

LEMMA InitInductive == Init => IInv
<1> SUFFICES ASSUME Init PROVE IInv
  OBVIOUS
<1>1. HoldInv
  BY ReconcilerAssumption DEF Init, HoldInv, Holding, Unsettled, Restored
<1>2. TextInv /\ OnlyOwnWriteUndone /\ BackupIsPrevious /\ TrialInv /\ ServedInv
  BY
     DEF Init, TextInv, OnlyOwnWriteUndone, BackupIsPrevious, TrialInv,
         ServedInv,
         Unsettled, Restored
<1>3. QED
  BY <1>1, <1>2, InitType DEF IInv

LEMMA StepInductive == IInv /\ [Next]_vars => IInv'
<1>1. ASSUME IInv, Next PROVE IInv'
  <2>1. TypeOK'
    BY <1>1, StepType DEF IInv
  <2>2. QED
    BY <1>1, <2>1, HoldStep, TextStep, FileStep, ServedStep DEF IInv
<1>2. ASSUME IInv, UNCHANGED vars PROVE IInv'
  BY <1>2
     DEF IInv, TypeOK, HoldInv, TextInv, OnlyOwnWriteUndone, BackupIsPrevious,
              TrialInv, ServedInv, vars
<1>3. QED
  BY <1>1, <1>2

LEMMA Inductive == Spec => []IInv
BY InitInductive, StepInductive, PTL DEF Spec

(* No reconciler's rollback undoes another's apply: the purpose of          *)
(* apply_lock.                                                              *)
THEOREM RollbackSafe == Spec => []OnlyOwnWriteUndone
BY Inductive, PTL DEF IInv

(* While a write may be undone, .ttx-bak is the file that it replaced       *)
(* (stage_config_if_changed, line 527).                                     *)
THEOREM BackupKept == Spec => []BackupIsPrevious
BY Inductive, PTL DEF IInv

(* Between applies the service runs what vpn.toml holds, unless a lapse was *)
(* recorded.                                                                *)
THEOREM Served == Spec => []ServedUnlessLapse
<1>1. IInv => ServedUnlessLapse
  BY ReconcilerAssumption
     DEF IInv, HoldInv, ServedInv, ServedUnlessLapse, Holding, Unsettled,
         Restored
<1>2. QED
  BY <1>1, Inductive, PTL

-----------------------------------------------------------------------------
(* The bridge implements ConfigTransaction.                                 *)

(* What is settled, seen from a run that can still undo its write, and when *)
(* there is none.                                                           *)
SettledIs ==
  /\ \A p \in Reconciler : pc[p] \in Unsettled => Settled = previous[p]
  /\ (\A p \in Reconciler : pc[p] \notin Unsettled) => Settled = target

LEMMA SettledValue == IInv => SettledIs
BY ReconcilerAssumption
   DEF IInv, TypeOK, HoldInv, Holding, Settled, SettledIs

LEMMA SettledValueNext == IInv' => SettledIs'
BY ReconcilerAssumption
   DEF IInv, TypeOK, HoldInv, Holding, Settled, SettledIs

LEMMA InitImplements == Init => Transaction!Init
<1> SUFFICES ASSUME Init PROVE Transaction!Init
  OBVIOUS
<1>1. Settled = target
  BY DEF Init, Settled
<1>2. QED
  BY <1>1, FileKinds DEF Init, Transaction!Init, File

LEMMA StepImplements ==
  ASSUME IInv, IInv', Next
  PROVE  [Transaction!Next]_<<Settled, service, lapses = {}>>
<1>0. SettledIs /\ SettledIs'
  BY SettledValue, SettledValueNext
<1> USE <1>0, FileKinds
    DEF SettledIs, IInv, TypeOK, HoldInv, OnlyOwnWriteUndone, TextInv,
        TrialInv, Holding, Unsettled, Restored, Finish, Goto, filevars,
        runvars, worldvars, Flock, Changed, Backup, IsActive, RequestPrevious
<1> DEFINE Same == Settled' = Settled /\ service' = service /\ lapses' = lapses
<1>1. ASSUME NEW p \in Reconciler, Refuse(p) PROVE Same
  BY <1>1 DEF Refuse, Transaction!Commit, Transaction!LapseOccurs
<1>2. ASSUME NEW p \in Reconciler, RenderRejected(p) PROVE Same
  BY <1>2 DEF RenderRejected, Transaction!Commit, Transaction!LapseOccurs
<1>3. ASSUME NEW p \in Reconciler, RenderQueue(p) PROVE Same
  BY <1>3 DEF RenderQueue, Transaction!Commit, Transaction!LapseOccurs
<1>4. ASSUME NEW p \in Reconciler, Lock(p) PROVE Same
  BY <1>4 DEF Lock, Transaction!Commit, Transaction!LapseOccurs
<1>5. ASSUME NEW p \in Reconciler, LockTimeout(p) PROVE Same
  BY <1>5 DEF LockTimeout, Transaction!Commit, Transaction!LapseOccurs
<1>6. ASSUME NEW p \in Reconciler, Unchanged(p) PROVE Same
  BY <1>6 DEF Unchanged, Transaction!Commit, Transaction!LapseOccurs
<1>7. ASSUME NEW p \in Reconciler, DryRun(p) PROVE Same
  BY <1>7 DEF DryRun, Transaction!Commit, Transaction!LapseOccurs
<1>8. ASSUME NEW p \in Reconciler, Capture(p) PROVE Same
  BY <1>8 DEF Capture, Transaction!Commit, Transaction!LapseOccurs
<1>9. ASSUME NEW p \in Reconciler, WriteBackup(p) PROVE Same
  BY <1>9 DEF WriteBackup, Transaction!Commit, Transaction!LapseOccurs
<1>10. ASSUME NEW p \in Reconciler, WriteTarget(p) PROVE Same
  BY <1>10 DEF WriteTarget, Transaction!Commit, Transaction!LapseOccurs
<1>11. ASSUME NEW p \in Reconciler, StageFails(p) PROVE Same
  BY <1>11 DEF StageFails, Transaction!Commit, Transaction!LapseOccurs
<1>12. ASSUME NEW p \in Reconciler, SkipRestart(p)
       PROVE  Transaction!LapseOccurs
  BY <1>12 DEF SkipRestart, Transaction!Commit, Transaction!LapseOccurs
<1>13. ASSUME NEW p \in Reconciler, Restart(p) PROVE Same
  BY <1>13 DEF Restart, Transaction!Commit, Transaction!LapseOccurs
<1>14. ASSUME NEW p \in Reconciler, RestartDone(p) PROVE Same
  BY <1>14 DEF RestartDone, Transaction!Commit, Transaction!LapseOccurs
<1>15. ASSUME NEW p \in Reconciler, RestartFails(p) PROVE Same
  BY <1>15 DEF RestartFails, Transaction!Commit, Transaction!LapseOccurs
<1>16. ASSUME NEW p \in Reconciler, Healthy(p)
       PROVE  Transaction!Commit \/ Same
  BY <1>16 DEF Healthy, Transaction!Commit, Transaction!LapseOccurs
<1>17. ASSUME NEW p \in Reconciler, Restore(p) PROVE Same
  BY <1>17 DEF Restore, Transaction!Commit, Transaction!LapseOccurs
<1>18. ASSUME NEW p \in Reconciler, RestoreFails(p)
       PROVE  Transaction!LapseOccurs
  BY <1>18 DEF RestoreFails, Transaction!Commit, Transaction!LapseOccurs
<1>19. ASSUME NEW p \in Reconciler, RestartPrevious(p) PROVE Same
  BY <1>19 DEF RestartPrevious, Transaction!Commit, Transaction!LapseOccurs
<1>20. ASSUME NEW p \in Reconciler, RestartPreviousDone(p) PROVE Same
  BY <1>20 DEF RestartPreviousDone, Transaction!Commit, Transaction!LapseOccurs
<1>21. ASSUME NEW p \in Reconciler, PreviousHealthy(p) PROVE Same
  BY <1>21 DEF PreviousHealthy, Transaction!Commit, Transaction!LapseOccurs
<1>22. ASSUME NEW p \in Reconciler, RestartPreviousFails(p)
       PROVE  Transaction!LapseOccurs \/ Same
  BY <1>22 DEF RestartPreviousFails, Transaction!Commit, Transaction!LapseOccurs
<1>23. ASSUME NEW p \in Reconciler, Kill(p)
       PROVE  Transaction!LapseOccurs \/ Same
  BY <1>23 DEF Kill, Transaction!Commit, Transaction!LapseOccurs
<1>24. ASSUME EditBase PROVE Same
  BY <1>24 DEF EditBase, Transaction!Start, Transaction!Stop
<1>25. ASSUME RunJob PROVE Transaction!Start
  BY <1>25 DEF RunJob, Transaction!Start, Transaction!Stop
<1>26. ASSUME ServiceDies PROVE Transaction!Stop
  BY <1>26 DEF ServiceDies, Transaction!Start, Transaction!Stop
<1>27. ASSUME ServiceStopped PROVE Transaction!Stop
  BY <1>27 DEF ServiceStopped, Transaction!Start, Transaction!Stop
<1>28. ASSUME ServiceStarted PROVE Same
  BY <1>28 DEF ServiceStarted, Transaction!Start, Transaction!Stop
<1>29. QED
  BY <1>1, <1>2, <1>3, <1>4, <1>5, <1>6, <1>7, <1>8, <1>9, <1>10, <1>11,
     <1>12, <1>13, <1>14, <1>15, <1>16, <1>17, <1>18, <1>19, <1>20, <1>21,
     <1>22, <1>23, <1>24, <1>25, <1>26, <1>27, <1>28
     DEF Next, Begin, Acquire, Apply, Transaction!Next

(* Every behaviour of the bridge is one of the configuration transaction:   *)
(* all or nothing, and new only after it was seen running, but for lapses.  *)
THEOREM Refinement == Spec => Implements
<1>1. IInv /\ IInv' /\ [Next]_vars
        => [Transaction!Next]_<<Settled, service, lapses = {}>>
  <2>1. ASSUME UNCHANGED vars
        PROVE  UNCHANGED <<Settled, service, lapses = {}>>
    BY <2>1 DEF vars, Settled
  <2>2. QED
    BY <2>1, StepImplements
<1>2. QED
  BY <1>1, InitImplements, Inductive, PTL DEF Spec, Implements, Transaction!Spec
-----------------------------------------------------------------------------
(* A run is bounded: the safety half of EveryRunEnds.                       *)

(* How many steps a run can still take, the longest way being a refused     *)
(* configuration and its rollback.                                          *)
StepsAt ==
  [place \in Place |->
     CASE place = "idle" -> 0       [] place = "queued" -> 11
       [] place = "locked" -> 10    [] place = "captured" -> 9
       [] place = "backed" -> 8     [] place = "staged" -> 7
       [] place = "restarting" -> 6 [] place = "checking" -> 5
       [] place = "recovering" -> 4 [] place = "restored" -> 3
       [] place = "rerestarting" -> 2 [] place = "rechecking" -> 1]

(* Every step that the process p itself may take, but the start of a run.   *)
InRun(p) ==
  \/ Acquire(p) \/ Apply(p) \/ StageFails(p) \/ RestoreFails(p) \/ Kill(p)

Others(p) ==
  \/ \E q \in Reconciler \ {p} : \/ Begin(q) \/ Refuse(q) \/ InRun(q)
  \/ EditBase \/ RunJob \/ ServiceDies \/ ServiceStopped \/ ServiceStarted

(* A step of a run is a step forward, whatever the others did before it.    *)
LEMMA OwnStep ==
  ASSUME TypeOK, NEW p \in Reconciler, InRun(p)
  PROVE  StepsAt[pc'[p]] < StepsAt[pc[p]]
<1> DEFINE Onward(from, to) ==
      pc[p] = from /\ pc'[p] = to /\ StepsAt[to] < StepsAt[from]
<1>1. pc \in [Reconciler -> Place]
  BY DEF TypeOK
<1>2. /\ StepsAt["idle"] = 0 /\ StepsAt["queued"] = 11
      /\ StepsAt["locked"] = 10 /\ StepsAt["captured"] = 9
      /\ StepsAt["backed"] = 8 /\ StepsAt["staged"] = 7
      /\ StepsAt["restarting"] = 6 /\ StepsAt["checking"] = 5
      /\ StepsAt["recovering"] = 4 /\ StepsAt["restored"] = 3
      /\ StepsAt["rerestarting"] = 2 /\ StepsAt["rechecking"] = 1
  BY DEF StepsAt, Place, Holding, Unsettled, Restored
<1>3. \A place \in Place \ {"idle"} : StepsAt[place] > 0
  BY <1>2 DEF Place, Holding, Unsettled, Restored
<1>4. ASSUME NEW o, Finish(p, o), pc[p] # "idle"
      PROVE  StepsAt[pc'[p]] < StepsAt[pc[p]]
  BY <1>1, <1>2, <1>3, <1>4 DEF Finish
<1>5. ASSUME NEW from \in Place, NEW to \in Place, Goto(p, from, to),
             StepsAt[to] < StepsAt[from]
      PROVE  StepsAt[pc'[p]] < StepsAt[pc[p]]
  BY <1>1, <1>5 DEF Goto
<1> USE DEF Place, Holding, Unsettled, Restored
<1>6. CASE Acquire(p)
  BY <1>2, <1>4, <1>5, <1>6 DEF Acquire, Lock, LockTimeout
<1>7. CASE StageFails(p) \/ RestoreFails(p) \/ Kill(p)
  BY <1>4, <1>7 DEF StageFails, RestoreFails, Kill
<1>8. CASE Apply(p)
  <2>1. CASE Unchanged(p) \/ DryRun(p) \/ SkipRestart(p) \/ Healthy(p)
    BY <1>4, <2>1 DEF Unchanged, DryRun, SkipRestart, Healthy
  <2>2. CASE PreviousHealthy(p) \/ RestartPreviousFails(p)
    BY <1>4, <2>2 DEF PreviousHealthy, RestartPreviousFails
  <2>3. CASE Capture(p) \/ WriteBackup(p) \/ WriteTarget(p)
    BY <1>2, <1>5, <2>3 DEF Capture, WriteBackup, WriteTarget
  <2>4. CASE Restart(p) \/ RestartDone(p) \/ RestartFails(p)
    BY <1>2, <1>5, <2>4 DEF Restart, RestartDone, RestartFails
  <2>5. CASE Restore(p) \/ RestartPrevious(p) \/ RestartPreviousDone(p)
    BY <1>2, <1>5, <2>5 DEF Restore, RestartPrevious, RestartPreviousDone
  <2>6. QED
    BY <1>8, <2>1, <2>2, <2>3, <2>4, <2>5 DEF Apply
<1>9. QED
  BY <1>6, <1>7, <1>8 DEF InRun

(* Nobody else moves a run, neither on nor back.                            *)
LEMMA OthersStep ==
  ASSUME TypeOK, NEW p \in Reconciler, Others(p)
  PROVE  pc'[p] = pc[p]
<1>1. pc \in [Reconciler -> Place]
  BY DEF TypeOK
<1>2. ASSUME NEW q \in Reconciler \ {p}, NEW to, pc' = [pc EXCEPT ![q] = to]
      PROVE  pc'[p] = pc[p]
  BY <1>1, <1>2
<1>3. ASSUME NEW q \in Reconciler \ {p}, Begin(q) \/ Refuse(q)
      PROVE  pc'[p] = pc[p]
  BY <1>2, <1>3 DEF Begin, Refuse, RenderRejected, RenderQueue, Finish, Goto
<1>4. ASSUME NEW q \in Reconciler \ {p}, InRun(q)
      PROVE  pc'[p] = pc[p]
  <2>1. CASE Acquire(q) \/ StageFails(q) \/ RestoreFails(q) \/ Kill(q)
    BY <1>2, <2>1
       DEF Acquire, Lock, LockTimeout, StageFails, RestoreFails, Kill, Finish,
           Goto
  <2>2. CASE Apply(q)
    BY <1>2, <2>2
       DEF Apply, Unchanged, DryRun, Capture, WriteBackup, WriteTarget,
           SkipRestart, Restart, RestartDone, RestartFails, Healthy, Restore,
           RestartPrevious, RestartPreviousDone, PreviousHealthy,
           RestartPreviousFails, Finish, Goto
  <2>3. QED
    BY <1>4, <2>1, <2>2 DEF InRun
<1>5. ASSUME EditBase \/ RunJob \/ ServiceDies \/ ServiceStopped
               \/ ServiceStarted
      PROVE  pc'[p] = pc[p]
  BY <1>5 DEF EditBase, RunJob, ServiceDies, ServiceStopped, ServiceStarted
<1>6. QED
  BY <1>3, <1>4, <1>5 DEF Others

(* A run takes at most eleven steps after its render: each of its own takes *)
(* it forward, and whatever other processes, the operator and systemd do    *)
(* neither moves it nor sends it back to wait again (cmd_reconcile has no   *)
(* loop but the flock poll).                                                *)
THEOREM RunBounded ==
  Spec => [][\A p \in Reconciler :
               /\ pc[p] # "idle" =>
                    \/ InRun(p) /\ StepsAt[pc'[p]] < StepsAt[pc[p]]
                    \/ Others(p) /\ pc'[p] = pc[p]
               /\ pc[p] = "idle" => pc'[p] \in {"idle", "queued"}]_vars
<1> DEFINE Forward(p) ==
      /\ pc[p] # "idle" =>
           \/ InRun(p) /\ StepsAt[pc'[p]] < StepsAt[pc[p]]
           \/ Others(p) /\ pc'[p] = pc[p]
      /\ pc[p] = "idle" => pc'[p] \in {"idle", "queued"}
<1>1. TypeOK /\ [Next]_vars => [\A p \in Reconciler : Forward(p)]_vars
  <2> SUFFICES ASSUME TypeOK, Next, NEW p \in Reconciler PROVE Forward(p)
    OBVIOUS
  <2>1. pc \in [Reconciler -> Place]
    BY DEF TypeOK
  <2>2. ASSUME Begin(p) \/ Refuse(p)
        PROVE  pc[p] = "idle" /\ pc'[p] \in {"idle", "queued"}
    BY <2>1, <2>2
       DEF Begin, Refuse, RenderRejected, RenderQueue, Finish, Goto
  <2>3. CASE InRun(p)
    <3>1. pc[p] # "idle"
      BY <2>1, <2>3, OwnStep
         DEF InRun, Acquire, Apply, Lock, LockTimeout, StageFails,
             RestoreFails, Kill, Unchanged, DryRun, Capture, WriteBackup,
             WriteTarget, SkipRestart, Restart, RestartDone, RestartFails,
             Healthy, Restore, RestartPrevious, RestartPreviousDone,
             PreviousHealthy, RestartPreviousFails, Goto, Restored
    <3>2. QED
      BY <2>3, <3>1, OwnStep
  <2>4. CASE Others(p)
    BY <2>4, OthersStep
  <2>5. Begin(p) \/ Refuse(p) \/ InRun(p) \/ Others(p)
    BY DEF Next, InRun, Others
  <2>6. QED
    BY <2>2, <2>3, <2>4, <2>5
<1> HIDE DEF Forward
<1>2. Spec => [][\A p \in Reconciler : Forward(p)]_vars
  BY <1>1, TypeCorrect, PTL DEF Spec
<1>3. QED
  BY <1>2 DEF Forward
=============================================================================

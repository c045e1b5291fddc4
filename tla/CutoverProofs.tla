--------------------------- MODULE CutoverProofs ---------------------------
(***************************************************************************)
(* The type invariant of Cutover, RouterMeansLoopback, Served443 and        *)
(* EditsKept, for any bounds.  RouterMeansLoopback is not inductive: it     *)
(* needs where the script stands when the helper runs (Places), what the    *)
(* helper has read (Stored) and the facts that the checks of the two        *)
(* establish for their next steps (Order).  Served443 needs who answers at  *)
(* the port on the way there (Attended), EditsKept what the helper's last   *)
(* check has established (Checked).                                         *)
(***************************************************************************)
EXTENDS Cutover, TLAPS

(* The script and the operator do not use the helper at the same time.      *)
Places ==
  /\ helper \in ApplyPlace <=> script = "applying"
  /\ script = "rolling_back" => helper \in RollbackPlace
  /\ helper # "idle" => script \in {"applying", "rolling_back", "idle"}
  /\ helper # "idle" => (caller = "script" <=> script # "idle")

(* apply has read an inbound on the public port; after the first write of   *)
(* state.json there is one.                                                 *)
Stored ==
  /\ helper \in ApplyPlace \ {"apply"} =>
       seen \in Inbound /\ seen.endpoint = "public"
  /\ helper \in (ApplyPlace \ {"apply", "prepare"})
                  \union (RollbackPlace \ {"rollback"}) => state # Absent

(* The router is loaded after apply only, and is gone before a rollback.    *)
Order ==
  /\ RouterMeansLoopback
  /\ helper = "revert" => ~NginxHolds443
  /\ script \in {"wait_loopback", "install", "install_module", "reload"} =>
       inbound.endpoint = "loopback"
  /\ script \in TrapPlace \ {"unroute"} => ~router

(* TypeOK in two halves, and with the rest the inductive invariant.         *)
DataType ==
  /\ inbound \in Inbound
  /\ host \in {"none", "managed", "foreign"}
  /\ xray \in {"public", "loopback", "down"}
  /\ router \in BOOLEAN
  /\ conf \in BOOLEAN
  /\ nginx \in [running : BOOLEAN, routes : BOOLEAN]
  /\ state \in State \union {Absent}

ControlType ==
  /\ script \in ScriptPlace
  /\ started \in BOOLEAN
  /\ helper \in {"idle"} \union ApplyPlace \union RollbackPlace
  /\ caller \in {"script", "operator"}
  /\ seen \in Inbound \union {Absent}
  /\ owns \in BOOLEAN
  /\ raced \in BOOLEAN
  /\ lapses \subseteq Lapse
  /\ spent \in [Budget -> Nat]

IInv == DataType /\ ControlType /\ Places /\ Stored /\ Order

LEMMA TypeHalves == TypeOK <=> DataType /\ ControlType
BY DEF TypeOK, DataType, ControlType

USE DEF panelvars, nginxvars, localvars, scriptvars, historyvars, ScriptPlace,
        MainPlace, TrapPlace

-----------------------------------------------------------------------------
(* What the parts shared by several actions do.                             *)

(* The helper returns: the script goes on after a successful apply only.    *)
Returned(ok) ==
  /\ helper' = "idle"
  /\ seen' = Absent
  /\ owns' = FALSE
  /\ raced' = FALSE
  /\ caller' = caller
  /\ started' = started
  /\ script' \in ScriptPlace
  /\ script' = "wait_loopback" => ok /\ helper \in ApplyPlace
  /\ script' = "start_nginx" => script = "rolling_back"
  /\ script' \notin {"applying", "install", "install_module", "reload",
                     "unroute_conf", "stop_nginx", "rolling_back"}

LEMMA ReturnFacts ==
  ASSUME IInv, helper # "idle", NEW ok \in BOOLEAN, Return(ok)
  PROVE  Returned(ok)
BY DEF IInv, ControlType, Places, Return, Returned, ApplyPlace,
       RollbackPlace

LEMMA FailureType ==
  ASSUME lapses \subseteq Lapse, lapses' = lapses \union FailureLapses
  PROVE  lapses' \subseteq Lapse
BY DEF FailureLapses, Lapse

LEMMA SpendType ==
  ASSUME spent \in [Budget -> Nat], NEW b \in Budget, Spend(b)
  PROVE  spent' \in [Budget -> Nat] /\ spent[b] < Bound[b]
BY DEF Spend

(* A call of the helper moves it on, or it returns with a failure.          *)
Moved(next) ==
  /\ helper' = next
  /\ UNCHANGED <<scriptvars, localvars, historyvars, spent>>

Failed ==
  /\ Returned(FALSE)
  /\ lapses' \subseteq Lapse
  /\ spent' \in [Budget -> Nat]

LEMMA AnsweredFacts ==
  ASSUME IInv, helper # "idle", NEW next, Answered(next)
  PROVE  Moved(next) \/ Failed
BY ReturnFacts, FailureType, SpendType
   DEF Answered, Moved, Failed, IInv, ControlType, Budget

(* A failure disturbs no more than the control state.                       *)
LEMMA FailedControl ==
  ASSUME IInv, Failed
  PROVE  ControlType' /\ Places' /\ Stored'
<1>1. ControlType'
  BY DEF IInv, Failed, Returned, ControlType
<1>2. Places' /\ Stored'
  BY DEF IInv, Failed, Returned, Places, Stored, ApplyPlace,
         RollbackPlace
<1>3. QED
  BY <1>1, <1>2

-----------------------------------------------------------------------------
(* The calls of the helper.                                                 *)

LEMMA AddHostStep ==
  ASSUME IInv, AddHost PROVE IInv'
<1>1. DataType'
  <2>1. inbound' \in Inbound
    BY DEF AddHost, IInv, DataType
  <2>2. QED
    BY <2>1 DEF AddHost, IInv, DataType
<1>2. helper = "add_host" /\ Answered("check")
  BY DEF AddHost
<1>3. CASE Moved("check")
  <2>1. ControlType'
    BY <1>3 DEF Moved, IInv, ControlType, ApplyPlace, RollbackPlace
  <2>2. Places' /\ Stored'
    BY <1>2, <1>3 DEF AddHost, Moved, IInv, Places, Stored, ApplyPlace,
       RollbackPlace
  <2>3. Order'
    BY <1>2, <1>3 DEF AddHost, Moved, IInv, DataType, Places, Stored, Order,
       RouterMeansLoopback, NginxHolds443, Inbound, State, ApplyPlace,
       RollbackPlace
  <2>4. QED
    BY <1>1, <2>1, <2>2, <2>3 DEF IInv
<1>4. CASE Failed
  <2>1. Order'
    BY <1>2, <1>4 DEF AddHost, Failed, Returned, IInv, DataType, Places,
       Stored, Order, RouterMeansLoopback, NginxHolds443, Inbound, State,
       ApplyPlace, RollbackPlace
  <2>2. QED
    BY <1>1, <1>4, <2>1, FailedControl DEF IInv
<1>5. QED
  BY <1>2, <1>3, <1>4, AnsweredFacts

LEMMA UpdateStep ==
  ASSUME IInv, Update PROVE IInv'
<1>1. DataType'
  <2>1. inbound' \in Inbound
    BY DEF Update, IInv, DataType, Inbound, Stored, ApplyPlace,
       RollbackPlace
  <2>2. QED
    BY <2>1 DEF Update, IInv, DataType
<1>2. helper = "update" /\ Answered("restart")
  BY DEF Update
<1>3. CASE Moved("restart")
  <2>1. ControlType'
    BY <1>3 DEF Moved, IInv, ControlType, ApplyPlace, RollbackPlace
  <2>2. Places' /\ Stored'
    BY <1>2, <1>3 DEF Update, Moved, IInv, Places, Stored, ApplyPlace,
       RollbackPlace
  <2>3. Order'
    BY <1>2, <1>3 DEF Update, Moved, IInv, DataType, Places, Stored, Order,
       RouterMeansLoopback, NginxHolds443, Inbound, State, ApplyPlace,
       RollbackPlace
  <2>4. QED
    BY <1>1, <2>1, <2>2, <2>3 DEF IInv
<1>4. CASE Failed
  <2>1. Order'
    BY <1>2, <1>4 DEF Update, Failed, Returned, IInv, DataType, Places,
       Stored, Order, RouterMeansLoopback, NginxHolds443, Inbound, State,
       ApplyPlace, RollbackPlace
  <2>2. QED
    BY <1>1, <1>4, <2>1, FailedControl DEF IInv
<1>5. QED
  BY <1>2, <1>3, <1>4, AnsweredFacts

LEMMA RestartStep ==
  ASSUME IInv, Restart PROVE IInv'
<1>1. DataType'
  <2>1. inbound' \in Inbound
    BY DEF Restart, IInv, DataType
  <2>2. QED
    BY <2>1 DEF Restart, IInv, DataType
<1>2. helper = "restart" /\ Answered("verify")
  BY DEF Restart
<1>3. CASE Moved("verify")
  <2>1. ControlType'
    BY <1>3 DEF Moved, IInv, ControlType, ApplyPlace, RollbackPlace
  <2>2. Places' /\ Stored'
    BY <1>2, <1>3 DEF Restart, Moved, IInv, Places, Stored, ApplyPlace,
       RollbackPlace
  <2>3. Order'
    BY <1>2, <1>3 DEF Restart, Moved, IInv, DataType, Places, Stored, Order,
       RouterMeansLoopback, NginxHolds443, Inbound, State, ApplyPlace,
       RollbackPlace
  <2>4. QED
    BY <1>1, <2>1, <2>2, <2>3 DEF IInv
<1>4. CASE Failed
  <2>1. Order'
    BY <1>2, <1>4 DEF Restart, Failed, Returned, IInv, DataType, Places,
       Stored, Order, RouterMeansLoopback, NginxHolds443, Inbound, State,
       ApplyPlace, RollbackPlace
  <2>2. QED
    BY <1>1, <1>4, <2>1, FailedControl DEF IInv
<1>5. QED
  BY <1>2, <1>3, <1>4, AnsweredFacts

LEMMA RevertStep ==
  ASSUME IInv, Revert PROVE IInv'
<1>1. DataType'
  <2>1. inbound' \in Inbound
    BY DEF Revert, IInv, DataType, Inbound, State, Stored, ApplyPlace,
       RollbackPlace
  <2>2. QED
    BY <2>1 DEF Revert, IInv, DataType
<1>2. helper = "revert" /\ Answered("rerestart")
  BY DEF Revert
<1>3. CASE Moved("rerestart")
  <2>1. ControlType'
    BY <1>3 DEF Moved, IInv, ControlType, ApplyPlace, RollbackPlace
  <2>2. Places' /\ Stored'
    BY <1>2, <1>3 DEF Revert, Moved, IInv, Places, Stored, ApplyPlace,
       RollbackPlace
  <2>3. Order'
    BY <1>2, <1>3 DEF Revert, Moved, IInv, DataType, Places, Stored, Order,
       RouterMeansLoopback, NginxHolds443, Inbound, State, ApplyPlace,
       RollbackPlace
  <2>4. QED
    BY <1>1, <2>1, <2>2, <2>3 DEF IInv
<1>4. CASE Failed
  <2>1. Order'
    BY <1>2, <1>4 DEF Revert, Failed, Returned, IInv, DataType, Places,
       Stored, Order, RouterMeansLoopback, NginxHolds443, Inbound, State,
       ApplyPlace, RollbackPlace
  <2>2. QED
    BY <1>1, <1>4, <2>1, FailedControl DEF IInv
<1>5. QED
  BY <1>2, <1>3, <1>4, AnsweredFacts

LEMMA RerestartStep ==
  ASSUME IInv, Rerestart PROVE IInv'
<1>1. DataType'
  <2>1. inbound' \in Inbound
    BY DEF Rerestart, IInv, DataType
  <2>2. QED
    BY <2>1 DEF Rerestart, IInv, DataType
<1>2. helper = "rerestart" /\ Answered("await")
  BY DEF Rerestart
<1>3. CASE Moved("await")
  <2>1. ControlType'
    BY <1>3 DEF Moved, IInv, ControlType, ApplyPlace, RollbackPlace
  <2>2. Places' /\ Stored'
    BY <1>2, <1>3 DEF Rerestart, Moved, IInv, Places, Stored, ApplyPlace,
       RollbackPlace
  <2>3. Order'
    BY <1>2, <1>3 DEF Rerestart, Moved, IInv, DataType, Places, Stored,
       Order, RouterMeansLoopback, NginxHolds443, Inbound, State, ApplyPlace,
       RollbackPlace
  <2>4. QED
    BY <1>1, <2>1, <2>2, <2>3 DEF IInv
<1>4. CASE Failed
  <2>1. Order'
    BY <1>2, <1>4 DEF Rerestart, Failed, Returned, IInv, DataType, Places,
       Stored, Order, RouterMeansLoopback, NginxHolds443, Inbound, State,
       ApplyPlace, RollbackPlace
  <2>2. QED
    BY <1>1, <1>4, <2>1, FailedControl DEF IInv
<1>5. QED
  BY <1>2, <1>3, <1>4, AnsweredFacts

LEMMA DelHostStep ==
  ASSUME IInv, DelHost PROVE IInv'
<1>1. DataType'
  <2>1. inbound' \in Inbound
    BY DEF DelHost, IInv, DataType
  <2>2. QED
    BY <2>1 DEF DelHost, IInv, DataType
<1>2. helper = "del_host" /\ Answered("confirm")
  BY DEF DelHost
<1>3. CASE Moved("confirm")
  <2>1. ControlType'
    BY <1>3 DEF Moved, IInv, ControlType, ApplyPlace, RollbackPlace
  <2>2. Places' /\ Stored'
    BY <1>2, <1>3 DEF DelHost, Moved, IInv, Places, Stored, ApplyPlace,
       RollbackPlace
  <2>3. Order'
    BY <1>2, <1>3 DEF DelHost, Moved, IInv, DataType, Places, Stored, Order,
       RouterMeansLoopback, NginxHolds443, Inbound, State, ApplyPlace,
       RollbackPlace
  <2>4. QED
    BY <1>1, <2>1, <2>2, <2>3 DEF IInv
<1>4. CASE Failed
  <2>1. Order'
    BY <1>2, <1>4 DEF DelHost, Failed, Returned, IInv, DataType, Places,
       Stored, Order, RouterMeansLoopback, NginxHolds443, Inbound, State,
       ApplyPlace, RollbackPlace
  <2>2. QED
    BY <1>1, <1>4, <2>1, FailedControl DEF IInv
<1>5. QED
  BY <1>2, <1>3, <1>4, AnsweredFacts

-----------------------------------------------------------------------------
(* The ends of a command of the helper.                                     *)

LEMMA RefusedStep ==
  ASSUME IInv, Refused PROVE IInv'
<1>1. helper # "idle" /\ Returned(FALSE)
  BY ReturnFacts DEF Refused, Refuse
<1>2. UNCHANGED <<panelvars, xray, nginxvars, state>>
  BY DEF Refused, Refuse
<1>3. DataType'
  BY <1>2 DEF IInv, DataType
<1>4. ControlType' /\ Places' /\ Stored'
  <2>1. lapses' \subseteq Lapse /\ spent' \in [Budget -> Nat]
    BY FailureType, SpendType DEF Refused, Refuse, IInv, ControlType, Budget
  <2>2. QED
    BY <1>1, <2>1, FailedControl DEF Failed
<1>5. Order'
  BY <1>1, <1>2 DEF Returned, IInv, DataType, Places, Order,
     RouterMeansLoopback, NginxHolds443, ApplyPlace, RollbackPlace
<1>6. QED
  BY <1>3, <1>4, <1>5 DEF IInv

LEMMA CallFailsStep ==
  ASSUME IInv, CallFails PROVE IInv'
<1>1. helper # "idle" /\ Returned(FALSE)
  BY ReturnFacts DEF CallFails
<1>2. UNCHANGED <<panelvars, xray, nginxvars, state>>
  BY DEF CallFails
<1>3. DataType'
  BY <1>2 DEF IInv, DataType
<1>4. ControlType' /\ Places' /\ Stored'
  <2>1. lapses' \subseteq Lapse /\ spent' \in [Budget -> Nat]
    BY FailureType, SpendType DEF CallFails, IInv, ControlType, Budget
  <2>2. QED
    BY <1>1, <2>1, FailedControl DEF Failed
<1>5. Order'
  BY <1>1, <1>2 DEF Returned, IInv, DataType, Places, Order,
     RouterMeansLoopback, NginxHolds443, ApplyPlace, RollbackPlace
<1>6. QED
  BY <1>3, <1>4, <1>5 DEF IInv

LEMMA ConfirmStep ==
  ASSUME IInv, Confirm PROVE IInv'
<1>1. helper # "idle" /\ Returned(TRUE)
  BY ReturnFacts DEF Confirm
<1>2. UNCHANGED <<panelvars, xray, nginxvars, lapses, spent>>
  BY DEF Confirm
<1>3. DataType'
  BY <1>2 DEF IInv, DataType, Confirm, Stored, Inbound, State, ApplyPlace,
     RollbackPlace
<1>4. ControlType' /\ Places' /\ Stored'
  <2>1. ControlType'
    BY <1>1, <1>2 DEF Returned, IInv, ControlType
  <2>2. Places' /\ Stored'
    BY <1>1, <1>2 DEF Returned, IInv, Places, Stored, ApplyPlace,
       RollbackPlace
  <2>3. QED
    BY <2>1, <2>2
<1>5. Order'
  BY <1>1, <1>2 DEF Returned, Confirm, IInv, DataType, Places, Order,
     RouterMeansLoopback, NginxHolds443, ApplyPlace, RollbackPlace
<1>6. QED
  BY <1>3, <1>4, <1>5 DEF IInv

LEMMA VerifyStep ==
  ASSUME IInv, Verify PROVE IInv'
<1>1. helper # "idle" /\ Returned(TRUE)
  BY ReturnFacts DEF Verify
<1>2. UNCHANGED <<panelvars, xray, nginxvars, lapses, spent>>
  BY DEF Verify
<1>3. DataType'
  BY <1>2 DEF IInv, DataType, Verify, Stored, Inbound, State, ApplyPlace,
     RollbackPlace
<1>4. ControlType' /\ Places' /\ Stored'
  <2>1. ControlType'
    BY <1>1, <1>2 DEF Returned, IInv, ControlType
  <2>2. Places' /\ Stored'
    BY <1>1, <1>2 DEF Returned, IInv, Places, Stored, ApplyPlace,
       RollbackPlace
  <2>3. QED
    BY <2>1, <2>2
<1>5. Order'
  BY <1>1, <1>2 DEF Applied, Returned, Verify, IInv, DataType, Places,
     Order, RouterMeansLoopback, NginxHolds443, ApplyPlace, RollbackPlace
<1>6. QED
  BY <1>3, <1>4, <1>5 DEF IInv

-----------------------------------------------------------------------------
(* The other steps of the helper, the steps of the script and the others.   *)

LEMMA ApplyReadStep ==
  ASSUME IInv, ApplyRead PROVE IInv'
<1>1. DataType'
  BY DEF ApplyRead, MayApply, Goto, IInv, DataType
<1>2. ControlType'
  <2>1. owns' \in BOOLEAN
    BY DEF ApplyRead
  <2>2. helper' \in {"idle"} \union ApplyPlace \union RollbackPlace
    BY DEF ApplyRead, Goto, ApplyPlace, RollbackPlace
  <2>3. QED
    BY <2>1, <2>2 DEF ApplyRead, IInv, DataType, ControlType
<1>3. Places' /\ Stored'
  BY DEF ApplyRead, MayApply, Goto, IInv, DataType, Places, Stored,
     ApplyPlace, RollbackPlace
<1>4. Order'
  BY DEF ApplyRead, MayApply, Goto, IInv, DataType, Places, Stored, Order,
     RouterMeansLoopback, NginxHolds443, Inbound, ApplyPlace, RollbackPlace
<1>5. QED
  BY <1>1, <1>2, <1>3, <1>4 DEF IInv

LEMMA PrepareStep ==
  ASSUME IInv, Prepare PROVE IInv'
<1>1. DataType'
  BY DEF Prepare, Goto, IInv, DataType, ControlType, Stored, Inbound, State,
     ApplyPlace
<1>2. ControlType'
  BY DEF Prepare, Goto, IInv, ControlType, ApplyPlace, RollbackPlace
<1>3. Places' /\ Stored'
  <2>1. state' \in State
    BY DEF Prepare, Goto, IInv, ControlType, Stored, Inbound, State, ApplyPlace
  <2>2. state' # Absent
    BY <2>1, AbsentAssumption
  <2>3. QED
    BY <2>2 DEF Prepare, Goto, IInv, Places, Stored, ApplyPlace, RollbackPlace
<1>4. Order'
  BY DEF Prepare, Goto, IInv, DataType, Places, Stored, Order,
     RouterMeansLoopback, NginxHolds443, Inbound, ApplyPlace, RollbackPlace
<1>5. QED
  BY <1>1, <1>2, <1>3, <1>4 DEF IInv

LEMMA CheckStep ==
  ASSUME IInv, Check PROVE IInv'
<1>1. DataType'
  BY DEF Check, Goto, IInv, DataType
<1>2. ControlType'
  <2>1. /\ helper' \in {"idle"} \union ApplyPlace \union RollbackPlace
        /\ script' \in ScriptPlace
    BY DEF Check, Goto, IInv, ControlType, ApplyPlace, RollbackPlace
  <2>2. QED
    BY <2>1 DEF Check, Goto, IInv, ControlType
<1>3. Places' /\ Stored'
  BY DEF Check, Goto, IInv, Places, Stored, ApplyPlace, RollbackPlace
<1>4. Order'
  BY DEF Check, Goto, IInv, DataType, Places, Stored, Order,
     RouterMeansLoopback, NginxHolds443, Inbound, ApplyPlace, RollbackPlace
<1>5. QED
  BY <1>1, <1>2, <1>3, <1>4 DEF IInv

LEMMA RollbackReadStep ==
  ASSUME IInv, RollbackRead PROVE IInv'
<1>1. DataType'
  BY DEF RollbackRead, MayRollBack, Goto, PortReturns, Port443Free, IInv,
     DataType
<1>2. ControlType'
  <2>1. owns' \in BOOLEAN
    BY DEF RollbackRead
  <2>2. helper' \in {"idle"} \union ApplyPlace \union RollbackPlace
    BY DEF RollbackRead, Goto, ApplyPlace, RollbackPlace
  <2>3. QED
    BY <2>1, <2>2 DEF RollbackRead, IInv, DataType, ControlType
<1>3. Places' /\ Stored'
  BY DEF RollbackRead, MayRollBack, Goto, PortReturns, Port443Free, IInv,
     Places, Stored, ApplyPlace, RollbackPlace
<1>4. Order'
  BY DEF RollbackRead, MayRollBack, Goto, PortReturns, Port443Free, IInv,
     DataType, Places, Stored, Order, RouterMeansLoopback, NginxHolds443,
     Inbound, State, ApplyPlace, RollbackPlace
<1>5. QED
  BY <1>1, <1>2, <1>3, <1>4 DEF IInv

LEMMA AwaitStep ==
  ASSUME IInv, Await PROVE IInv'
<1>1. DataType'
  BY DEF Await, Goto, IInv, DataType
<1>2. ControlType'
  BY DEF Await, Goto, IInv, ControlType, ApplyPlace, RollbackPlace
<1>3. Places' /\ Stored'
  BY DEF Await, Goto, IInv, Places, Stored, ApplyPlace, RollbackPlace
<1>4. Order'
  BY DEF Await, Goto, IInv, DataType, Places, Stored, Order,
     RouterMeansLoopback, NginxHolds443, Inbound, ApplyPlace, RollbackPlace
<1>5. QED
  BY <1>1, <1>2, <1>3, <1>4 DEF IInv

LEMMA StartScriptStep ==
  ASSUME IInv, StartScript PROVE IInv'
<1>1. DataType'
  BY DEF StartScript, ScriptGoto, IInv, DataType
<1>2. ControlType'
  BY SpendType DEF StartScript, ScriptGoto, IInv, ControlType, Budget,
     ApplyPlace, RollbackPlace
<1>3. Places' /\ Stored'
  BY DEF StartScript, ScriptGoto, IInv, Places, Stored, ApplyPlace,
     RollbackPlace
<1>4. Order'
  BY DEF StartScript, ScriptGoto, IInv, DataType, Places, Stored, Order,
     RouterMeansLoopback, NginxHolds443, Inbound, ApplyPlace, RollbackPlace
<1>5. QED
  BY <1>1, <1>2, <1>3, <1>4 DEF IInv

LEMMA PreflightStep ==
  ASSUME IInv, Preflight PROVE IInv'
<1>1. DataType'
  BY DEF Preflight, Call, IInv, DataType
<1>2. ControlType'
  <2>1. /\ helper' \in {"idle"} \union ApplyPlace \union RollbackPlace
        /\ script' \in ScriptPlace
    BY DEF Preflight, Call, IInv, ControlType, ApplyPlace, RollbackPlace
  <2>2. QED
    BY <2>1 DEF Preflight, Call, IInv, ControlType
<1>3. Places' /\ Stored'
  BY DEF Preflight, Call, IInv, Places, Stored, ApplyPlace, RollbackPlace
<1>4. Order'
  BY DEF Preflight, Call, IInv, DataType, Places, Stored, Order,
     RouterMeansLoopback, NginxHolds443, Inbound, ApplyPlace, RollbackPlace
<1>5. QED
  BY <1>1, <1>2, <1>3, <1>4 DEF IInv

LEMMA WaitLoopbackStep ==
  ASSUME IInv, WaitLoopback PROVE IInv'
<1>1. DataType'
  BY DEF WaitLoopback, ScriptGoto, IInv, DataType
<1>2. ControlType'
  BY DEF WaitLoopback, ScriptGoto, IInv, ControlType, ApplyPlace,
     RollbackPlace
<1>3. Places' /\ Stored'
  BY DEF WaitLoopback, ScriptGoto, IInv, Places, Stored, ApplyPlace,
     RollbackPlace
<1>4. Order'
  BY DEF WaitLoopback, ScriptGoto, IInv, DataType, Places, Stored, Order,
     RouterMeansLoopback, NginxHolds443, Inbound, ApplyPlace, RollbackPlace
<1>5. QED
  BY <1>1, <1>2, <1>3, <1>4 DEF IInv

LEMMA InstallStep ==
  ASSUME IInv, Install PROVE IInv'
<1>1. DataType'
  BY DEF Install, ScriptGoto, IInv, DataType
<1>2. ControlType'
  BY DEF Install, ScriptGoto, IInv, ControlType, ApplyPlace, RollbackPlace
<1>3. Places' /\ Stored'
  BY DEF Install, ScriptGoto, IInv, Places, Stored, ApplyPlace,
     RollbackPlace
<1>4. Order'
  BY DEF Install, ScriptGoto, IInv, DataType, Places, Stored, Order,
     RouterMeansLoopback, NginxHolds443, Inbound, ApplyPlace, RollbackPlace
<1>5. QED
  BY <1>1, <1>2, <1>3, <1>4 DEF IInv

LEMMA InstallModuleStep ==
  ASSUME IInv, InstallModule PROVE IInv'
<1>1. DataType'
  BY DEF InstallModule, ScriptGoto, IInv, DataType
<1>2. ControlType'
  BY DEF InstallModule, ScriptGoto, IInv, ControlType, Budget, Lapse, ApplyPlace,
     RollbackPlace
<1>3. Places' /\ Stored'
  BY DEF InstallModule, ScriptGoto, IInv, Places, Stored, ApplyPlace, RollbackPlace
<1>4. Order'
  BY DEF InstallModule, ScriptGoto, IInv, DataType, Places, Stored, Order,
     RouterMeansLoopback, NginxHolds443, Inbound, ApplyPlace, RollbackPlace
<1>5. QED
  BY <1>1, <1>2, <1>3, <1>4 DEF IInv

LEMMA ReloadStep ==
  ASSUME IInv, Reload PROVE IInv'
<1>1. DataType'
  BY DEF Reload, ScriptGoto, Port443Free, IInv, DataType
<1>2. ControlType'
  BY DEF Reload, ScriptGoto, Port443Free, IInv, ControlType, ApplyPlace,
     RollbackPlace
<1>3. Places' /\ Stored'
  BY DEF Reload, ScriptGoto, Port443Free, IInv, Places, Stored, ApplyPlace,
     RollbackPlace
<1>4. Order'
  BY DEF Reload, ScriptGoto, Port443Free, IInv, DataType, Places, Stored,
     Order, RouterMeansLoopback, NginxHolds443, Inbound, ApplyPlace,
     RollbackPlace
<1>5. QED
  BY <1>1, <1>2, <1>3, <1>4 DEF IInv

LEMMA ProbeStep ==
  ASSUME IInv, Probe PROVE IInv'
<1>1. DataType'
  BY DEF Probe, ScriptGoto, IInv, DataType
<1>2. ControlType'
  BY DEF Probe, ScriptGoto, IInv, ControlType, ApplyPlace, RollbackPlace
<1>3. Places' /\ Stored'
  BY DEF Probe, ScriptGoto, IInv, Places, Stored, ApplyPlace, RollbackPlace
<1>4. Order'
  BY DEF Probe, ScriptGoto, IInv, DataType, Places, Stored, Order,
     RouterMeansLoopback, NginxHolds443, Inbound, ApplyPlace, RollbackPlace
<1>5. QED
  BY <1>1, <1>2, <1>3, <1>4 DEF IInv

LEMMA CommandFailsStep ==
  ASSUME IInv, CommandFails PROVE IInv'
<1>1. DataType'
  BY DEF CommandFails, IInv, DataType
<1>2. ControlType'
  BY SpendType DEF CommandFails, IInv, ControlType, Budget, ApplyPlace,
     RollbackPlace
<1>3. Places' /\ Stored'
  BY DEF CommandFails, IInv, Places, Stored, ApplyPlace, RollbackPlace
<1>4. Order'
  BY DEF CommandFails, IInv, DataType, Places, Stored, Order,
     RouterMeansLoopback, NginxHolds443, Inbound, ApplyPlace, RollbackPlace
<1>5. QED
  BY <1>1, <1>2, <1>3, <1>4 DEF IInv

LEMMA UnrouteStep ==
  ASSUME IInv, Unroute PROVE IInv'
<1>1. DataType'
  BY DEF Unroute, ScriptGoto, IInv, DataType
<1>2. ControlType'
  <2>1. /\ helper' \in {"idle"} \union ApplyPlace \union RollbackPlace
        /\ script' \in ScriptPlace
    BY DEF Unroute, ScriptGoto, IInv, ControlType, ApplyPlace,
       RollbackPlace
  <2>2. QED
    BY <2>1 DEF Unroute, ScriptGoto, IInv, ControlType
<1>3. Places' /\ Stored'
  BY DEF Unroute, ScriptGoto, IInv, Places, Stored, ApplyPlace,
     RollbackPlace
<1>4. Order'
  BY DEF Unroute, ScriptGoto, IInv, DataType, Places, Stored, Order,
     RouterMeansLoopback, NginxHolds443, Inbound, ApplyPlace, RollbackPlace
<1>5. QED
  BY <1>1, <1>2, <1>3, <1>4 DEF IInv

LEMMA UnrouteConfStep ==
  ASSUME IInv, UnrouteConf PROVE IInv'
<1>1. DataType'
  BY DEF UnrouteConf, ScriptGoto, IInv, DataType
<1>2. ControlType'
  BY DEF UnrouteConf, ScriptGoto, IInv, ControlType, Budget, Lapse, ApplyPlace,
     RollbackPlace
<1>3. Places' /\ Stored'
  BY DEF UnrouteConf, ScriptGoto, IInv, Places, Stored, ApplyPlace, RollbackPlace
<1>4. Order'
  BY DEF UnrouteConf, ScriptGoto, IInv, DataType, Places, Stored, Order,
     RouterMeansLoopback, NginxHolds443, Inbound, ApplyPlace, RollbackPlace
<1>5. QED
  BY <1>1, <1>2, <1>3, <1>4 DEF IInv

LEMMA TrapFailsStep ==
  ASSUME IInv, TrapFails PROVE IInv'
<1>1. DataType'
  BY DEF TrapFails, IInv, DataType
<1>2. ControlType'
  BY SpendType DEF TrapFails, IInv, ControlType, Budget, Lapse, ApplyPlace,
     RollbackPlace
<1>3. Places' /\ Stored'
  BY DEF TrapFails, IInv, Places, Stored, ApplyPlace, RollbackPlace
<1>4. Order'
  BY DEF TrapFails, IInv, DataType, Places, Stored, Order,
     RouterMeansLoopback, NginxHolds443, Inbound, ApplyPlace, RollbackPlace
<1>5. QED
  BY <1>1, <1>2, <1>3, <1>4 DEF IInv

LEMMA StoppedType == Stopped \in [running : BOOLEAN, routes : BOOLEAN]
BY DEF Stopped

LEMMA StopNginxStep ==
  ASSUME IInv, StopNginx PROVE IInv'
<1>1. DataType'
  <2>1. nginx' \in [running : BOOLEAN, routes : BOOLEAN]
    BY StoppedType DEF StopNginx, IInv, DataType
  <2>2. QED
    BY <2>1 DEF StopNginx, Call, IInv, DataType
<1>2. ControlType'
  <2>1. /\ helper' \in {"idle"} \union ApplyPlace \union RollbackPlace
        /\ script' \in ScriptPlace
    BY DEF StopNginx, Call, IInv, ControlType, ApplyPlace, RollbackPlace
  <2>2. QED
    BY <2>1, SpendType DEF StopNginx, Call, IInv, ControlType, Budget
<1>3. Places' /\ Stored'
  BY DEF StopNginx, Call, IInv, Places, Stored, ApplyPlace, RollbackPlace
<1>4. Order'
  BY DEF StopNginx, Stopped, Call, IInv, DataType, Places, Stored, Order,
     RouterMeansLoopback, NginxHolds443, Inbound, ApplyPlace, RollbackPlace
<1>5. QED
  BY <1>1, <1>2, <1>3, <1>4 DEF IInv

LEMMA StartNginxStep ==
  ASSUME IInv, StartNginx PROVE IInv'
<1>1. DataType'
  <2>1. nginx' \in [running : BOOLEAN, routes : BOOLEAN]
    <3>1. [running |-> TRUE, routes |-> router /\ Port443Free] \in
            [running : BOOLEAN, routes : BOOLEAN]
      BY DEF Port443Free, IInv, DataType, NginxHolds443
    <3>2. QED
      BY <3>1 DEF StartNginx, IInv, DataType
  <2>2. QED
    BY <2>1 DEF StartNginx, ScriptGoto, IInv, DataType
<1>2. ControlType'
  BY SpendType DEF StartNginx, ScriptGoto, IInv, ControlType, Budget, ApplyPlace,
     RollbackPlace
<1>3. Places' /\ Stored'
  BY DEF StartNginx, ScriptGoto, IInv, Places, Stored, ApplyPlace,
     RollbackPlace
<1>4. Order'
  BY DEF StartNginx, ScriptGoto, IInv, DataType, Places, Stored, Order,
     RouterMeansLoopback, NginxHolds443, Inbound, ApplyPlace, RollbackPlace
<1>5. QED
  BY <1>1, <1>2, <1>3, <1>4 DEF IInv

LEMMA SignalStep ==
  ASSUME IInv, NEW trapped \in BOOLEAN, Signal(trapped) PROVE IInv'
<1>1. DataType'
  BY DEF Signal, IInv, DataType
<1>2. ControlType'
  <2>1. /\ helper' \in {"idle"} \union ApplyPlace \union RollbackPlace
        /\ script' \in ScriptPlace
    BY DEF Signal, IInv, ControlType, ApplyPlace, RollbackPlace
  <2>2. QED
    BY <2>1, SpendType DEF Signal, IInv, ControlType, Budget, Lapse
<1>3. Places' /\ Stored'
  BY DEF Signal, IInv, Places, Stored, ApplyPlace, RollbackPlace
<1>4. Order'
  BY DEF Signal, IInv, DataType, Places, Stored, Order, RouterMeansLoopback,
     NginxHolds443, Inbound, ApplyPlace, RollbackPlace
<1>5. QED
  BY <1>1, <1>2, <1>3, <1>4 DEF IInv

LEMMA ManualRollbackStep ==
  ASSUME IInv, ManualRollback PROVE IInv'
<1>1. DataType'
  <2>1. nginx' \in [running : BOOLEAN, routes : BOOLEAN]
    BY StoppedType DEF ManualRollback, IInv, DataType
  <2>2. QED
    BY <2>1 DEF ManualRollback, Stopped, IInv, DataType
<1>2. ControlType'
  BY SpendType DEF ManualRollback, Stopped, IInv, ControlType, Budget, ApplyPlace,
     RollbackPlace
<1>3. Places' /\ Stored'
  BY DEF ManualRollback, Stopped, IInv, Places, Stored, ApplyPlace, RollbackPlace
<1>4. Order'
  BY DEF ManualRollback, Stopped, IInv, DataType, Places, Stored, Order,
     RouterMeansLoopback, NginxHolds443, Inbound, ApplyPlace, RollbackPlace
<1>5. QED
  BY <1>1, <1>2, <1>3, <1>4 DEF IInv

LEMMA EditInboundStep ==
  ASSUME IInv, EditInbound PROVE IInv'
<1>1. DataType'
  <2>1. spent.edits + 1 \in 0..MaxEdits
    BY SpendType, CutoverAssumption
       DEF EditInbound, IInv, ControlType, Budget, Bound
  <2>2. inbound' \in Inbound
    BY <2>1 DEF EditInbound, IInv, DataType, Inbound
  <2>3. QED
    BY <2>2 DEF EditInbound, IInv, DataType
<1>2. ControlType'
  <2>1. /\ helper' \in {"idle"} \union ApplyPlace \union RollbackPlace
        /\ script' \in ScriptPlace
    BY DEF EditInbound, IInv, ControlType, ApplyPlace, RollbackPlace
  <2>2. QED
    BY <2>1, SpendType DEF EditInbound, IInv, ControlType, Budget
<1>3. Places' /\ Stored'
  BY DEF EditInbound, IInv, Places, Stored, ApplyPlace, RollbackPlace
<1>4. Order'
  BY DEF EditInbound, IInv, DataType, Places, Stored, Order,
     RouterMeansLoopback, NginxHolds443, Inbound, ApplyPlace, RollbackPlace
<1>5. QED
  BY <1>1, <1>2, <1>3, <1>4 DEF IInv

LEMMA EditHostStep ==
  ASSUME IInv, EditHost PROVE IInv'
<1>1. DataType'
  BY DEF EditHost, IInv, DataType
<1>2. ControlType'
  BY SpendType DEF EditHost, IInv, ControlType, Budget, ApplyPlace,
     RollbackPlace
<1>3. Places' /\ Stored'
  BY DEF EditHost, IInv, Places, Stored, ApplyPlace, RollbackPlace
<1>4. Order'
  BY DEF EditHost, IInv, DataType, Places, Stored, Order,
     RouterMeansLoopback, NginxHolds443, Inbound, ApplyPlace, RollbackPlace
<1>5. QED
  BY <1>1, <1>2, <1>3, <1>4 DEF IInv

LEMMA XrayUpStep ==
  ASSUME IInv, XrayUp PROVE IInv'
<1>1. DataType'
  BY DEF XrayUp, IInv, DataType, Inbound
<1>2. ControlType'
  BY DEF XrayUp, IInv, ControlType, ApplyPlace, RollbackPlace
<1>3. Places' /\ Stored'
  BY DEF XrayUp, IInv, Places, Stored, ApplyPlace, RollbackPlace
<1>4. Order'
  BY DEF XrayUp, IInv, DataType, Places, Stored, Order, RouterMeansLoopback,
     NginxHolds443, Inbound, ApplyPlace, RollbackPlace
<1>5. QED
  BY <1>1, <1>2, <1>3, <1>4 DEF IInv

LEMMA XrayRestartedStep ==
  ASSUME IInv, XrayRestarted PROVE IInv'
<1>1. DataType'
  BY DEF XrayRestarted, IInv, DataType
<1>2. ControlType'
  BY SpendType DEF XrayRestarted, IInv, ControlType, Budget, ApplyPlace,
     RollbackPlace
<1>3. Places' /\ Stored'
  BY DEF XrayRestarted, IInv, Places, Stored, ApplyPlace, RollbackPlace
<1>4. Order'
  BY DEF XrayRestarted, IInv, DataType, Places, Stored, Order,
     RouterMeansLoopback, NginxHolds443, Inbound, ApplyPlace, RollbackPlace
<1>5. QED
  BY <1>1, <1>2, <1>3, <1>4 DEF IInv

-----------------------------------------------------------------------------
(* The invariant.                                                           *)

LEMMA InitIInv == Init => IInv
<1> SUFFICES ASSUME Init PROVE IInv
  OBVIOUS
<1>1. DataType
  BY DEF Init, DataType, Inbound
<1>2. ControlType
  BY DEF Init, ControlType, Lapse
<1>3. Places /\ Stored /\ Order
  BY DEF Init, Places, Stored, Order, RouterMeansLoopback, NginxHolds443,
         ApplyPlace, RollbackPlace
<1>4. QED
  BY <1>1, <1>2, <1>3 DEF IInv

LEMMA StutterStep == IInv /\ UNCHANGED vars => IInv'
<1> SUFFICES ASSUME IInv, UNCHANGED vars PROVE IInv'
  OBVIOUS
<1>1. DataType' /\ ControlType'
  BY DEF IInv, DataType, ControlType, vars
<1>2. Places' /\ Stored' /\ Order'
  BY DEF IInv, Places, Stored, Order, RouterMeansLoopback, NginxHolds443, vars
<1>3. QED
  BY <1>1, <1>2 DEF IInv

LEMMA NextIInv == IInv /\ [Next]_vars => IInv'
<1> SUFFICES ASSUME IInv, [Next]_vars PROVE IInv'
  OBVIOUS
<1>1. CASE Helper
  BY <1>1, ApplyReadStep, PrepareStep, AddHostStep, CheckStep, UpdateStep,
     RestartStep, VerifyStep, RollbackReadStep, RevertStep, RerestartStep,
     AwaitStep, DelHostStep, ConfirmStep, RefusedStep DEF Helper
<1>2. CASE Script
  BY <1>2, PreflightStep, WaitLoopbackStep, InstallStep, InstallModuleStep,
     ReloadStep, ProbeStep, UnrouteStep, UnrouteConfStep, StopNginxStep,
     StartNginxStep DEF Script
<1>3. CASE CallFails \/ StartScript \/ CommandFails \/ TrapFails
  BY <1>3, CallFailsStep, StartScriptStep, CommandFailsStep, TrapFailsStep
<1>4. CASE Signal(TRUE) \/ Signal(FALSE)
  BY <1>4, SignalStep
<1>5. CASE ManualRollback \/ EditInbound \/ EditHost \/ XrayUp \/ XrayRestarted
  BY <1>5, ManualRollbackStep, EditInboundStep, EditHostStep, XrayUpStep,
     XrayRestartedStep
<1>6. CASE Done \/ UNCHANGED vars
  BY <1>6, StutterStep DEF Done
<1>7. QED
  BY <1>1, <1>2, <1>3, <1>4, <1>5, <1>6 DEF Next

LEMMA Invariance == Spec => []IInv
BY InitIInv, NextIInv, PTL DEF Spec

(* TypeOK holds in every reachable state: the helper never stores or        *)
(* restores an inbound that is not on the public port (validate_inbound).   *)
THEOREM TypeCorrect == Spec => []TypeOK
<1>1. IInv => TypeOK
  BY TypeHalves DEF IInv
<1>2. QED
  BY <1>1, Invariance, PTL

(* RouterMeansLoopback holds in every reachable state: the checks of the    *)
(* helper and the order of the script keep Nginx and Xray from both having  *)
(* a claim to port 443, after any failures, signals and manual rollbacks.   *)
THEOREM OneOwner == Spec => []RouterMeansLoopback
<1>1. IInv => RouterMeansLoopback
  BY DEF IInv, Order
<1>2. QED
  BY <1>1, Invariance, PTL

-----------------------------------------------------------------------------
(* Served443: what is so as long as nothing has lapsed.  It takes the       *)
(* steps before the last: who answers at 443 while the script is on its     *)
(* way, and that a run that moved the inbound is one its trap rolls back.   *)

Public == inbound.endpoint = "public"

(* While the database gives the port to Xray, Xray is not left elsewhere    *)
(* but between a rollback's write and its restart; and it does so until     *)
(* apply has written, and when the trap starts Nginx again.                 *)
XrayAnswers ==
  /\ Public /\ helper # "rerestart" => xray # "loopback"
  /\ \/ script \in {"preflight", "start_nginx"}
     \/ helper \in {"apply", "prepare", "add_host", "check", "update"}
     => Public

(* A run that has moved the inbound knows it: APPLY_STARTED and state.json. *)
TrapKnows ==
  /\ script \in MainPlace \ {"preflight"} => started
  /\ script \in MainPlace \ {"preflight", "applying"} => state # Absent
  /\ script \in {"unroute", "unroute_conf", "stop_nginx"} /\ ~RollbackNeeded =>
       Public

(* Nginx runs up to the reload, which leaves it with the port.              *)
NginxAnswers ==
  /\ script \in MainPlace \ {"preflight"} => nginx.running
  /\ script = "reload" => router
  /\ script = "probe" => router /\ NginxHolds443
  /\ script = "idle" /\ helper = "idle" /\ ~Public => router /\ NginxHolds443

Attended == lapses = {} => XrayAnswers /\ TrapKnows /\ NginxAnswers

LEMMA AttendedStep == IInv /\ Attended /\ [Next]_vars => Attended'
<1> SUFFICES ASSUME IInv, XrayAnswers, TrapKnows, NginxAnswers, Next,
                    lapses' = {}
             PROVE  XrayAnswers' /\ TrapKnows' /\ NginxAnswers'
  <2>1. ASSUME Next, lapses' = {} PROVE lapses = {}
    BY <2>1 DEF Next, Helper, ApplyRead, Prepare, AddHost, Check, Update,
       Restart, Verify, RollbackRead, Revert, Rerestart, Await, DelHost,
       Confirm, Refused, Refuse, Answered, CallFails, StartScript, Script,
       Preflight, WaitLoopback, Install, InstallModule, Reload, Probe, Unroute,
       UnrouteConf, StopNginx, StartNginx, CommandFails, TrapFails, Signal,
       ManualRollback, EditInbound, EditHost, XrayUp, XrayRestarted, Done, vars
  <2>2. ASSUME UNCHANGED vars, Attended PROVE Attended'
    BY <2>2 DEF vars, Attended, XrayAnswers, TrapKnows, NginxAnswers, Public,
       RollbackNeeded, NginxHolds443
  <2>3. QED
    BY <2>1, <2>2 DEF Attended
<1> USE DEF IInv, DataType, ControlType, Places, Stored, Order,
        RouterMeansLoopback, XrayAnswers, TrapKnows, NginxAnswers, Public,
        RollbackNeeded, NginxHolds443, Inbound, State, ApplyPlace,
        RollbackPlace
<1>1. CASE ApplyRead
    BY <1>1 DEF ApplyRead, MayApply, Goto
<1>2. CASE Prepare
    BY <1>2 DEF Prepare, Goto
<1>3. CASE AddHost
    BY <1>3 DEF AddHost, Answered, Return, FailureLapses
<1>4. CASE Check
    BY <1>4 DEF Check, Goto
<1>5. CASE Update
    BY <1>5 DEF Update, Answered, Return, FailureLapses
<1>6. CASE Restart
    BY <1>6 DEF Restart, Answered, Return, FailureLapses
<1>7. CASE Verify
  <2>1. state' \in State
    BY <1>7 DEF Verify
  <2>2. state' # Absent
    BY <2>1, AbsentAssumption
  <2>3. QED
    BY <1>7, <2>2 DEF Verify, Applied, Port443Free, Return
<1>8. CASE RollbackRead
    BY <1>8 DEF RollbackRead, MayRollBack, PortReturns, Port443Free, Goto
<1>9. CASE Revert
    BY <1>9 DEF Revert, Answered, Return, FailureLapses
<1>10. CASE Rerestart
    BY <1>10 DEF Rerestart, Answered, Return, FailureLapses
<1>11. CASE Await
    BY <1>11 DEF Await, OriginalUp, Goto
<1>12. CASE DelHost
    BY <1>12 DEF DelHost, Answered, Return, FailureLapses
<1>13. CASE Confirm
    BY <1>13 DEF Confirm, Restored, Return
<1>14. CASE Refused
    BY <1>14 DEF Refused, Refuse, Return, FailureLapses
<1>15. CASE CallFails
    BY <1>15 DEF CallFails, Return, FailureLapses
<1>16. CASE StartScript
    BY <1>16 DEF StartScript, ScriptGoto
<1>17. CASE Preflight
    BY <1>17 DEF Preflight, Call, DryRunPasses
<1>18. CASE WaitLoopback
    BY <1>18 DEF WaitLoopback, ScriptGoto, Port443Free
<1>19. CASE Install
    BY <1>19 DEF Install, ScriptGoto
<1>20. CASE Reload
    BY <1>20 DEF Reload, ScriptGoto, Port443Free
<1>21. CASE Probe
    BY <1>21 DEF Probe, ScriptGoto
<1>22. CASE Unroute
    BY <1>22 DEF Unroute, ScriptGoto
<1>23. CASE StopNginx
    BY <1>23 DEF StopNginx, Stopped, Call
<1>24. CASE StartNginx
    BY <1>24 DEF StartNginx, ScriptGoto
<1>25. CASE CommandFails
    BY <1>25 DEF CommandFails
<1>26. CASE Signal(TRUE)
    BY <1>26 DEF Signal
<1>27. CASE Signal(FALSE)
    BY <1>27 DEF Signal
<1>28. CASE ManualRollback
    BY <1>28 DEF ManualRollback, Stopped
<1>29. CASE EditInbound
    BY <1>29 DEF EditInbound
<1>30. CASE EditHost
    BY <1>30 DEF EditHost
<1>31. CASE XrayUp
    BY <1>31 DEF XrayUp
<1>32. CASE XrayRestarted
    BY <1>32 DEF XrayRestarted
<1>33. CASE Done
    BY <1>33 DEF Done, vars
<1>34. CASE InstallModule
    BY <1>34 DEF InstallModule, ScriptGoto
<1>35. CASE UnrouteConf
    BY <1>35 DEF UnrouteConf, ScriptGoto
<1>36. CASE TrapFails
    BY <1>36 DEF TrapFails
<1>37. QED
    BY <1>1, <1>2, <1>3, <1>4, <1>5, <1>6, <1>7, <1>8, <1>9, <1>10, <1>11,
     <1>12, <1>13, <1>14, <1>15, <1>16, <1>17, <1>18, <1>19, <1>20, <1>21,
     <1>22, <1>23, <1>24, <1>25, <1>26, <1>27, <1>28, <1>29, <1>30, <1>31,
     <1>32, <1>33, <1>34, <1>35, <1>36 DEF Next, Helper, Script

LEMMA AlwaysAttended == Spec => []Attended
<1>1. Init => Attended
  BY DEF Init, Attended, XrayAnswers, TrapKnows, NginxAnswers, Public
<1>2. QED
  BY <1>1, AttendedStep, Invariance, PTL DEF Spec

(* Served443 holds in every reachable state: with the script and the        *)
(* helper done, no kill, no failed rollback and no trap that ended early,   *)
(* 443 has an owner (the order of live_portal_cutover.sh's trap and the     *)
(* checks of the helper).                                                   *)
THEOREM PortServed == Spec => []Served443
<1>1. Attended => Served443
  BY DEF Attended, XrayAnswers, NginxAnswers, Public, Served443
<1>2. QED
  BY <1>1, AlwaysAttended, PTL

-----------------------------------------------------------------------------
(* EditsKept: what the helper's last check has established, until an edit.  *)

Checked ==
  /\ helper = "update" /\ ~raced => inbound = seen
  /\ helper = "revert" /\ ~raced => SinceApply

LEMMA CheckedStep == IInv /\ Checked /\ [Next]_vars => Checked'
<1> SUFFICES ASSUME IInv, Checked, [Next]_vars PROVE Checked'
  OBVIOUS
<1> USE DEF Checked
<1>1. CASE Helper
  BY <1>1 DEF Helper, ApplyRead, Prepare, AddHost, Check, Update, Restart,
     Verify, RollbackRead, Revert, Rerestart, Await, DelHost, Confirm,
     Refused, Refuse, Answered, Return, Goto, MayRollBack, SinceApply,
     SameInbound
<1>2. CASE CallFails \/ Signal(TRUE) \/ Signal(FALSE)
  BY <1>2 DEF CallFails, Return, Signal
<1>3. CASE Script \/ ManualRollback
  BY <1>3 DEF Script, Preflight, WaitLoopback, Install, InstallModule, Reload,
     Probe, Unroute, UnrouteConf, StopNginx, StartNginx, ManualRollback, Call,
     SinceApply
<1>4. CASE EditInbound
  BY <1>4 DEF EditInbound
<1>5. CASE \/ StartScript \/ CommandFails \/ TrapFails \/ EditHost
           \/ XrayUp \/ XrayRestarted \/ Done \/ UNCHANGED vars
  BY <1>5 DEF StartScript, CommandFails, TrapFails, EditHost, XrayUp,
     XrayRestarted, Done, SinceApply, vars
<1>6. QED
  BY <1>1, <1>2, <1>3, <1>4, <1>5 DEF Next

(* Only the operator's edits, update and revert write the inbound.          *)
LEMMA InboundWritten ==
  ASSUME [Next]_vars, ~EditInbound, inbound' # inbound
  PROVE  Update \/ Revert
BY DEF Next, Helper, ApplyRead, Prepare, AddHost, Check, Restart, Verify,
   RollbackRead, Rerestart, Await, DelHost, Confirm, Refused, Refuse,
   CallFails, StartScript, Script, Preflight, WaitLoopback, Install,
   InstallModule, Reload, Probe, Unroute, UnrouteConf, StopNginx, StartNginx,
   CommandFails, TrapFails, Signal, ManualRollback, EditHost, XrayUp, XrayRestarted, Done, vars

(* EditsKept holds of every step: writable_equal and the comparison with    *)
(* appliedInbound (592, 636-641) let the helper overwrite no edit but one   *)
(* made in the gaps that EditsKept names.                                   *)
THEOREM NoEditLost == Spec => EditsKept
<1> DEFINE Kept == inbound'.rest # inbound.rest /\ UNCHANGED spent.edits =>
                     \/ raced
                     \/ helper = "revert" /\ state.applied \in {Absent, inbound}
<1>1. IInv /\ Checked /\ [Next]_vars => [Kept]_vars
  <2> SUFFICES ASSUME IInv, Checked, [Next]_vars, inbound'.rest # inbound.rest,
                      spent'.edits = spent.edits, ~raced
               PROVE  helper = "revert" /\ state.applied \in {Absent, inbound}
    OBVIOUS
  <2>1. CASE EditInbound
    <3>1. spent'.edits = spent.edits + 1 /\ spent.edits \in Nat
      BY <2>1 DEF EditInbound, Spend, IInv, ControlType, Budget
    <3>2. QED
      BY <3>1
  <2>2. CASE Update
    BY <2>2 DEF Update, Checked, IInv, Stored, ApplyPlace, Inbound
  <2>3. CASE Revert
    BY <2>3 DEF Revert, Checked, SinceApply
  <2>4. QED
    BY <2>1, <2>2, <2>3, InboundWritten
<1>2. Init => Checked
  BY DEF Init, Checked
<1>3. IInv /\ Checked /\ [Next]_vars => Checked'
  BY CheckedStep
<1> HIDE DEF Kept
<1>4. Spec => [][Kept]_vars
  BY <1>1, <1>2, <1>3, Invariance, PTL DEF Spec
<1>5. QED
  BY <1>4 DEF EditsKept, Kept
=============================================================================

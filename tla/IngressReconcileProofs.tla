----------------------- MODULE IngressReconcileProofs -----------------------
(***************************************************************************)
(* Proofs about IngressReconcile, for any number of reconcilers, any ports  *)
(* and any bounds.                                                          *)
(***************************************************************************)
EXTENDS IngressReconcile, WellFoundedInduction, TLAPS

-----------------------------------------------------------------------------
(* A set of ids that is not empty has a least one.                          *)
LEMMA LeastExists ==
  ASSUME NEW S \in SUBSET Nat, S # {}
  PROVE  \E i \in S : \A j \in S : i <= j
<1> DEFINE less == OpToRel(<, Nat)
<1>1. IsWellFoundedOn(less, Nat)
  BY NatLessThanWellFounded
<1>2. \A x, y \in Nat : x < y => <<x, y>> \in less
  BY DEF OpToRel
<1> HIDE DEF less
<1>3. \E x \in S : \A y \in S : ~(<<y, x>> \in less)
  BY <1>1, WFMin
<1>4. PICK i \in S : \A j \in S : ~(<<j, i>> \in less)
  BY <1>3
<1>5. ASSUME NEW j \in S PROVE i <= j
  <2>1. i \in Nat /\ j \in Nat
    OBVIOUS
  <2>2. ~(<<j, i>> \in less)
    BY <1>4
  <2>3. ~(j < i)
    BY <1>2, <2>1, <2>2
  <2>4. QED
    BY <2>1, <2>3
<1>6. QED
  BY <1>5

(* find_ingress returns an inbound with the bridge's remark, or none.       *)
LEMMA FoundOwned ==
  ASSUME TypeOK
  PROVE  /\ Found \in 0..MaxId
         /\ Found # 0 => /\ Found \in Id
                         /\ inbounds[Found] \in Inbound
                         /\ inbounds[Found].remark = "ingress"
<1> DEFINE owned == {i \in Present : Owned(inbounds[i])}
<1>1. owned \in SUBSET Nat /\ owned \subseteq Id
  BY DEF Present, Id
<1>2. Found = IF owned = {} THEN 0
              ELSE CHOOSE i \in owned : \A j \in owned : i <= j
  BY DEF Found
<1>3. \A i \in owned : /\ i \in 1..MaxId
                       /\ inbounds[i] \in Inbound
                       /\ inbounds[i].remark = "ingress"
  BY DEF TypeOK, Present, Owned, Id
<1> HIDE DEF owned
<1>4. CASE owned = {}
  BY <1>2, <1>4, IngressAssumption
<1>5. CASE owned # {}
  <2>1. \E i \in owned : \A j \in owned : i <= j
    BY <1>1, <1>5, LeastExists
  <2>2. Found \in owned
    BY <1>2, <1>5, <2>1
  <2>3. QED
    BY <1>1, <1>3, <2>2, IngressAssumption
<1>6. QED
  BY <1>4, <1>5

-----------------------------------------------------------------------------
(* Between the list and the write, the run holds an ingress it found.       *)
ListedOwned ==
  \A p \in Reconciler :
    pc[p] = "listed" /\ found[p] # 0
      => /\ found[p] \in Id
         /\ existing[p] \in Inbound
         /\ existing[p].remark = "ingress"

(* The ids the panel has not given out yet are free.                        *)
IdsInOrder == \A i \in Id : i >= nextId => inbounds[i] = Nothing

IInv == TypeOK /\ ListedOwned /\ IdsInOrder

LEMMA InitInv == Init => IInv
<1> SUFFICES ASSUME Init PROVE IInv
  OBVIOUS
<1>1. 0 \in 0..MaxId /\ 1..2 \subseteq 1..MaxId + 1
  BY IngressAssumption
<1>2. IdsInOrder
  BY <1>1 DEF Init, IdsInOrder, Id
<1>3. QED
  BY <1>1, <1>2, IngressAssumption DEF Init, IInv, TypeOK, ListedOwned

LEMMA SpendType ==
  ASSUME TypeOK, NEW b \in Budget, Spend(b)
  PROVE  spent' \in [Budget -> Nat]
BY DEF TypeOK, Spend

LEMMA FinishInv ==
  ASSUME IInv, NEW p \in Reconciler, NEW o \in {"none", "ok", "failed"},
         Finish(p, o)
  PROVE  /\ pc' \in [Reconciler -> {"idle", "listed"}]
         /\ found' \in [Reconciler -> 0..MaxId]
         /\ existing' \in [Reconciler -> Inbound \union {Nothing}]
         /\ outcome' \in [Reconciler -> {"none", "ok", "failed"}]
         /\ pc'[p] = "idle"
         /\ ListedOwned'
<1>1. 0 \in 0..MaxId
  BY IngressAssumption
<1>2. QED
  BY <1>1 DEF IInv, TypeOK, ListedOwned, Finish

(* A request that ends, with its answer or without.                         *)
LEMMA AnsweredInv ==
  ASSUME IInv, NEW p \in Reconciler, Answered(p)
  PROVE  /\ pc' \in [Reconciler -> {"idle", "listed"}]
         /\ found' \in [Reconciler -> 0..MaxId]
         /\ existing' \in [Reconciler -> Inbound \union {Nothing}]
         /\ outcome' \in [Reconciler -> {"none", "ok", "failed"}]
         /\ spent' \in [Budget -> Nat]
         /\ pc'[p] = "idle"
         /\ ListedOwned'
<1>1. TypeOK /\ "errors" \in Budget
  BY DEF IInv, Budget
<1>2. spent' \in [Budget -> Nat]
  BY <1>1, SpendType DEF Answered, TypeOK
<1>3. Finish(p, "ok") \/ Finish(p, "failed")
  BY DEF Answered
<1>4. QED
  BY <1>2, <1>3, FinishInv

LEMMA PayloadType ==
  ASSUME NEW traffic \in 0..MaxTraffic
  PROVE  Payload(traffic) \in Inbound
BY IngressAssumption DEF Payload, Inbound

LEMMA Step == IInv /\ [Next]_vars => IInv'
<1> SUFFICES ASSUME IInv, [Next]_vars PROVE IInv'
  OBVIOUS
<1> USE DEF panelvars, runvars
<1>0. TypeOK /\ ListedOwned /\ IdsInOrder
  BY DEF IInv
<1>b. "runs" \in Budget /\ "edits" \in Budget /\ "errors" \in Budget
  BY DEF Budget
<1>1. ASSUME NEW p \in Reconciler, List(p) PROVE IInv'
  <2>1. /\ Found \in 0..MaxId
        /\ Found # 0 => /\ Found \in Id
                        /\ inbounds[Found] \in Inbound
                        /\ inbounds[Found].remark = "ingress"
    BY <1>0, FoundOwned
  <2>2. spent' \in [Budget -> Nat]
    BY <1>0, <1>1, <1>b, SpendType DEF List, Starts, TypeOK
  <2>3. /\ pc' = [pc EXCEPT ![p] = "listed"]
        /\ found' = [found EXCEPT ![p] = Found]
        /\ existing' = [existing EXCEPT ![p] =
                          IF Found = 0 THEN Nothing ELSE inbounds[Found]]
        /\ UNCHANGED <<panelvars, outcome>>
    BY <1>1 DEF List
  <2>4. TypeOK'
    BY <1>0, <2>1, <2>2, <2>3 DEF TypeOK
  <2>5. ListedOwned'
    BY <1>0, <2>1, <2>3 DEF TypeOK, ListedOwned
  <2>6. QED
    BY <1>0, <2>3, <2>4, <2>5 DEF IInv, IdsInOrder
<1>2. ASSUME NEW p \in Reconciler, ListFails(p) PROVE IInv'
  BY <1>0, <1>2, <1>b, FinishInv, SpendType
  DEF ListFails, IInv, TypeOK, IdsInOrder
<1>3. ASSUME NEW p \in Reconciler, Leave(p) PROVE IInv'
  <2>1. \E o \in {"ok", "failed"} : Finish(p, o)
    BY <1>3 DEF Leave
  <2>2. QED
    BY <1>0, <1>3, <2>1, FinishInv DEF Leave, IInv, TypeOK, IdsInOrder
<1>4. ASSUME NEW p \in Reconciler, Add(p) PROVE IInv'
  <2>1. Payload(0) \in Inbound
    BY PayloadType, IngressAssumption
  <2>2. inbounds' \in [Id -> Inbound \union {Nothing}]
    BY <1>0, <1>4, <2>1 DEF Add, TypeOK
  <2>3. nextId' \in 1..MaxId + 1
    BY <1>4, IngressAssumption DEF Add, Id
  <2>4. IdsInOrder'
    BY <1>0, <1>4 DEF Add, IdsInOrder, TypeOK, Id
  <2>5. QED
    BY <1>0, <1>4, <2>2, <2>3, <2>4, AnsweredInv DEF Add, IInv, TypeOK
<1>5. ASSUME NEW p \in Reconciler, AddRefused(p) PROVE IInv'
  BY <1>0, <1>5, <1>b, FinishInv, SpendType
  DEF AddRefused, IInv, TypeOK, IdsInOrder
<1>6. ASSUME NEW p \in Reconciler, Update(p) PROVE IInv'
  <2>1. found[p] \in Id /\ existing[p] \in Inbound
    BY <1>0, <1>6 DEF Update, WantsUpdate, ListedOwned
  <2>2. Payload(existing[p].traffic) \in Inbound
    BY <2>1, PayloadType DEF Inbound
  <2>3. inbounds' \in [Id -> Inbound \union {Nothing}]
    BY <1>0, <1>6, <2>1, <2>2 DEF Update, TypeOK
  <2>4. IdsInOrder'
    BY <1>0, <1>6, <2>1 DEF Update, Updatable, Present, IdsInOrder, TypeOK
  <2>5. QED
    BY <1>0, <1>6, <2>3, <2>4, AnsweredInv DEF Update, IInv, TypeOK
<1>7. ASSUME NEW p \in Reconciler, UpdateRefused(p) PROVE IInv'
  BY <1>0, <1>7, <1>b, FinishInv, SpendType
  DEF UpdateRefused, IInv, TypeOK, IdsInOrder
<1>8. CASE Create
  <2>1. nextId \in Id /\ nextId' = nextId + 1
    BY <1>8 DEF Create
  <2>2. nextId' \in 1..MaxId + 1
    BY <2>1, IngressAssumption DEF Id
  <2>3. inbounds' \in [Id -> Inbound \union {Nothing}]
    BY <1>0, <1>8, IngressAssumption DEF Create, Edited, Inbound, TypeOK
  <2>4. QED
    BY <1>0, <1>8, <1>b, <2>2, <2>3, SpendType
    DEF Create, IInv, TypeOK, ListedOwned, IdsInOrder
<1>9. CASE Edit
  <2>1. inbounds' \in [Id -> Inbound \union {Nothing}]
    BY <1>0, <1>9 DEF Edit, Edited, Inbound, TypeOK, Present
  <2>2. IdsInOrder'
    BY <1>0, <1>9 DEF Edit, Present, IdsInOrder, TypeOK
  <2>3. QED
    BY <1>0, <1>9, <1>b, <2>1, <2>2, SpendType
    DEF Edit, IInv, TypeOK, ListedOwned
<1>10. CASE Delete
  <2>1. inbounds' \in [Id -> Inbound \union {Nothing}]
    BY <1>0, <1>10 DEF Delete, TypeOK, Present
  <2>2. QED
    BY <1>0, <1>10, <1>b, <2>1, SpendType
    DEF Delete, IInv, TypeOK, ListedOwned, IdsInOrder
<1>11. CASE Traffic
  <2>1. inbounds' \in [Id -> Inbound \union {Nothing}]
    BY <1>0, <1>11, IngressAssumption DEF Traffic, Inbound, TypeOK, Present
  <2>2. IdsInOrder'
    BY <1>0, <1>11 DEF Traffic, Present, IdsInOrder, TypeOK
  <2>3. QED
    BY <1>0, <1>11, <2>1, <2>2 DEF Traffic, IInv, TypeOK, ListedOwned
<1>12. CASE UNCHANGED vars
  BY <1>0, <1>12 DEF vars, IInv, TypeOK, ListedOwned, IdsInOrder
<1>13. QED
  BY <1>1, <1>2, <1>3, <1>4, <1>5, <1>6, <1>7, <1>8, <1>9, <1>10, <1>11, <1>12
  DEF Next, Proceed

LEMMA Inductive == Spec => []IInv
BY InitInv, Step, PTL DEF Spec

-----------------------------------------------------------------------------
(* The table, the runs and what they remember keep their types.             *)
THEOREM TypeCorrect == Spec => []TypeOK
<1>1. IInv => TypeOK
  BY DEF IInv
<1>2. QED
  BY <1>1, Inductive, PTL

(* Every write of a reconciler is an add or an update of the ingress it     *)
(* listed (AD-6, SPEC 6.2).                                                 *)
THEOREM Ownership == Spec => OnlyOwnedWritten
<1>1. ASSUME IInv, [Next]_vars PROVE OwnedWrite
  <2> USE DEF panelvars, runvars
  <2>0. TypeOK /\ ListedOwned /\ IdsInOrder
    BY <1>1 DEF IInv
  <2>1. ASSUME NEW p \in Reconciler, Add(p) PROVE OwnedWrite
    <3>1. \A i \in Id : inbounds'[i] # inbounds[i] => i = nextId
      BY <2>0, <2>1 DEF Add, TypeOK
    <3>2. nextId \in Id => inbounds[nextId] = Nothing
      BY <2>0 DEF IdsInOrder, Id
    <3>3. pc[p] = "listed" /\ found[p] = 0 /\ Manage /\ p \notin DryRunner
      BY <2>1 DEF Add, WantsAdd
    <3>4. pc'[p] = "idle"
      BY <1>1, <2>1, AnsweredInv DEF Add
    <3>5. QED
      BY <3>1, <3>2, <3>3, <3>4 DEF OwnedWrite
  <2>2. ASSUME NEW p \in Reconciler, Update(p) PROVE OwnedWrite
    <3>1. \A i \in Id : inbounds'[i] # inbounds[i] => i = found[p]
      BY <2>0, <2>2 DEF Update, TypeOK
    <3>2. /\ pc[p] = "listed" /\ Manage /\ p \notin DryRunner
          /\ existing[p].remark = "ingress"
      BY <2>0, <2>2 DEF Update, WantsUpdate, ListedOwned
    <3>3. pc'[p] = "idle"
      BY <1>1, <2>2, AnsweredInv DEF Update
    <3>4. QED
      BY <3>1, <3>2, <3>3 DEF OwnedWrite
  <2>3. CASE UNCHANGED runvars \/ UNCHANGED inbounds
    BY <2>3 DEF OwnedWrite
  <2>4. QED
    BY <1>1, <2>1, <2>2, <2>3
    DEF Next, Proceed, List, ListFails, Leave, AddRefused, UpdateRefused,
        Create, Edit, Delete, Traffic, vars
<1>2. QED
  BY <1>1, Inductive, PTL DEF Spec, OnlyOwnedWritten
=============================================================================

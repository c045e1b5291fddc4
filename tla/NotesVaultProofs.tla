-------------------------- MODULE NotesVaultProofs --------------------------
(***************************************************************************)
(* Proofs about the encrypted notebook, for any number of edits, of saves   *)
(* that fail and of pages that end.                                         *)
(***************************************************************************)
EXTENDS NotesVault, TLAPS

-----------------------------------------------------------------------------
(* The saves of the chain.                                                  *)

LEMMA HaveNames ==
  /\ Absent \notin SUBSET Edits /\ Locked \notin SUBSET Edits /\ None \notin SUBSET Edits
  /\ Absent # None
  BY NotesAssumption DEF Edits

Saving(e) == \E i \in 1..Len(saves) : e \in saves[i]

LEMMA InToSet ==
  ASSUME NEW S, NEW s \in Seq(S)
  PROVE  \A i \in 1..Len(s) : s[i] \in ToSet(s)
  <1>1. DOMAIN s = 1..Len(s)
    OBVIOUS
  <1> QED
    BY <1>1 DEF ToSet

LEMMA SavingIsUnderWay ==
  ASSUME saves \in Seq(SUBSET Edits), NEW e
  PROVE  e \in UnderWay <=> Saving(e)
  BY DEF UnderWay, ToSet, Saving

LEMMA TypedInit == Init => TypeOK
  <1> SUFFICES ASSUME Init PROVE TypeOK
    OBVIOUS
  <1>1. saves \in Seq(SUBSET Edits) /\ Len(saves) = 0 /\ locks \subseteq 1..Len(saves)
    BY DEF Init
  <1>2. made \in 0..MaxEdits /\ lost \subseteq 1..made
          /\ failures \in 0..MaxFailures /\ ends \in 0..MaxEnds
    BY NotesAssumption DEF Init
  <1> QED
    BY <1>1, <1>2 DEF Init, TypeOK

(* What lockNotes and the timer do to the chain and to dirty.               *)
LEMMA FlushTyped ==
  ASSUME TypeOK, Flush
  PROVE  /\ saves' \in Seq(SUBSET Edits) /\ dirty' \in BOOLEAN /\ timer' \in BOOLEAN
         /\ Len(saves) <= Len(saves')
         /\ \A i \in 1..Len(saves) : saves'[i] = saves[i]
         /\ Taken => Len(saves') = Len(saves) + 1 /\ saves'[Len(saves')] = context
         /\ ~Taken => saves' = saves /\ dirty' = dirty
  <1>1. Taken => context \in SUBSET Edits
    BY DEF Taken, TypeOK
  <1>2. dirty' \in BOOLEAN /\ timer' \in BOOLEAN /\ (~Taken => dirty' = dirty)
    BY Zenon DEF TypeOK, Flush, Taken
  <1>3. saves \in Seq(SUBSET Edits) /\ saves' = Flushed
    BY DEF TypeOK, Flush
  <1>4. CASE Taken
    <2>1. saves' = Append(saves, context)
      BY <1>3, <1>4 DEF Flushed
    <2> QED
      BY <1>1, <1>2, <1>3, <1>4, <2>1
  <1>5. CASE ~Taken
    BY <1>2, <1>3, <1>5 DEF Flushed
  <1> QED
    BY <1>4, <1>5

LEMMA TypedStep == TypeOK /\ [Next]_vars => TypeOK'
  <1> SUFFICES ASSUME TypeOK, [Next]_vars PROVE TypeOK'
    OBVIOUS
  <1>0. /\ MaxEdits \in Nat /\ MaxFailures \in Nat /\ MaxEnds \in Nat
        /\ \A s : lost' = lost \union (s \intersect 1..made) /\ made' = made => lost' \subseteq 1..made'
    BY NotesAssumption DEF TypeOK
  <1>1. CASE Edit
    <2>1. made + 1 \in Edits /\ made' \in 0..MaxEdits
      BY <1>0, <1>1 DEF Edit, Edits, TypeOK
    <2>2. context' \in SUBSET Edits
      BY <1>1, <2>1 DEF Edit, TypeOK
    <2>3. lost' \subseteq 1..made'
      BY <1>1, <2>1 DEF Edit, TypeOK
    <2> QED
      BY <1>1, <2>1, <2>2, <2>3 DEF Edit, TypeOK
  <1>2. CASE Flushes
    <2>1. Flush
      BY <1>2 DEF Flushes
    <2> QED
      BY <1>2, <2>1, FlushTyped DEF Flushes, TypeOK
  <1>3. CASE Lock
    <2>1. Flush
      BY <1>3 DEF Lock
    <2>2. locks' \subseteq 1..Len(saves') /\ context' \in (SUBSET Edits) \union {Locked}
      <3>1. locks \subseteq 1..Len(saves') /\ Len(saves') \in Nat
        BY <2>1, FlushTyped DEF TypeOK
      <3>2. saves' # <<>> => Len(saves') \in 1..Len(saves')
        BY <2>1, <3>1, FlushTyped
      <3> QED
        BY <1>3, <3>1, <3>2 DEF Lock, TypeOK
    <2> QED
      BY <1>3, <2>1, <2>2, FlushTyped DEF Lock, TypeOK
  <1>4. ASSUME NEW ok \in BOOLEAN, SaveEnds(ok), failures' \in 0..MaxFailures PROVE TypeOK'
    <2>1. Head(saves) \in SUBSET Edits /\ Tail(saves) \in Seq(SUBSET Edits)
            /\ Len(Tail(saves)) = Len(saves) - 1 /\ Len(saves) \in Nat
      BY <1>4 DEF SaveEnds, TypeOK
    <2>2. saves' \in Seq(SUBSET Edits) /\ stored' \in (SUBSET Edits) \union {Absent}
      BY <1>4, <2>1 DEF SaveEnds, TypeOK
    <2>3. locks' \subseteq 1..Len(saves')
      <3>1. CASE Skips
        BY <1>4, <3>1 DEF SaveEnds
      <3>2. CASE ~Skips
        <4>1. locks' = {n - 1 : n \in locks \ {1}} /\ saves' = Tail(saves)
          BY <1>4, <3>2 DEF SaveEnds
        <4> QED
          BY <2>1, <4>1 DEF TypeOK
      <3> QED
        BY <3>1, <3>2
    <2>4. context' \in (SUBSET Edits) \union {Locked} /\ dirty' \in BOOLEAN
      BY <1>4 DEF SaveEnds, DirtyAgain, TypeOK
    <2>5. lost' \subseteq 1..made'
      BY <1>0, <1>4 DEF SaveEnds, Lost
    <2> QED
      BY <1>4, <2>2, <2>3, <2>4, <2>5 DEF SaveEnds, TypeOK
  <1>5. CASE Saved
    BY <1>4, <1>5 DEF Saved, TypeOK
  <1>6. CASE SaveFails
    <2>1. failures' \in 0..MaxFailures
      BY <1>0, <1>6 DEF SaveFails, TypeOK
    <2> QED
      BY <1>4, <1>6, <2>1 DEF SaveFails
  <1>7. CASE Submit
    BY <1>0, <1>7 DEF Submit, Lost, TypeOK
  <1>8. CASE Opened
    <2>1. NotesOf(opening) \in SUBSET Edits
      BY <1>8 DEF Opened, NotesOf, TypeOK
    <2>2. lost' \subseteq 1..made'
      BY <1>0, <1>8 DEF Opened, Lost, TypeOK
    <2> QED
      BY <1>8, <2>1, <2>2 DEF Opened, TypeOK
  <1>9. CASE Refused
    BY <1>9 DEF Refused, TypeOK
  <1>10. CASE RemoveVault
    BY <1>0, <1>10 DEF RemoveVault, Lost, TypeOK
  <1>11. CASE PageEnds
    <2>1. saves' \in Seq(SUBSET Edits) /\ locks' \subseteq 1..Len(saves')
      BY <1>11 DEF PageEnds
    <2>2. lost' \subseteq 1..made'
      BY <1>0, <1>11 DEF PageEnds, Lost
    <2>3. ends' \in 0..MaxEnds
      BY <1>0, <1>11 DEF PageEnds, TypeOK
    <2> QED
      BY <1>11, <2>1, <2>2, <2>3 DEF PageEnds, TypeOK
  <1>12. CASE UNCHANGED vars
    BY <1>12 DEF vars, TypeOK
  <1> QED
    BY <1>1, <1>2, <1>3, <1>5, <1>6, <1>7, <1>8, <1>9, <1>10, <1>11, <1>12 DEF Next

-----------------------------------------------------------------------------
(* Each snapshot holds what the one before it holds, the open notebook all  *)
(* of it, and while a notebook is being opened no save is under way that    *)
(* has more than it will have: so a save that ends overwrites nothing.      *)

Ordered(e) ==
  /\ \A i, j \in 1..Len(saves) : i <= j /\ e \in saves[i] => e \in saves[j]
  /\ e \in NotesOf(stored) => \A i \in 1..Len(saves) : e \in saves[i]
  /\ context # Locked => (e \in NotesOf(stored) \/ Saving(e) => e \in context)
  /\ opening # None => (e \in NotesOf(stored) => e \in NotesOf(opening)) /\ ~Saving(e)

Safe(e) ==
  \/ e \in NotesOf(stored)
  \/ Saving(e)
  \/ e \in NotesOf(context) /\ dirty

ChainInv ==
  /\ opening # None => context = Locked
  /\ \A e \in 1..made \ lost : Ordered(e) /\ Safe(e)

LEMMA ChainInit == Init => ChainInv
  BY DEF Init, ChainInv

LEMMA NotesOfSets ==
  /\ NotesOf(Absent) = {} /\ NotesOf(Locked) = {}
  /\ \A s \in SUBSET Edits : NotesOf(s) = s
  BY HaveNames DEF NotesOf

(* Nothing holds an edit that was not made.                                 *)
MadeInv ==
  /\ NotesOf(stored) \subseteq 1..made
  /\ NotesOf(context) \subseteq 1..made
  /\ opening # None => NotesOf(opening) \subseteq 1..made
  /\ \A i \in 1..Len(saves) : saves[i] \subseteq 1..made

LEMMA MadeInit == Init => MadeInv
  BY NotesOfSets DEF Init, MadeInv

LEMMA FlushMade ==
  ASSUME TypeOK, MadeInv, Flush
  PROVE  \A i \in 1..Len(saves') : saves'[i] \subseteq 1..made
  <1>1. CASE Taken
    <2>1. context \subseteq 1..made
      BY <1>1, NotesOfSets DEF Taken, MadeInv, TypeOK
    <2>2. \A i \in 1..Len(saves') : i \in 1..Len(saves) \/ i = Len(saves')
      BY <1>1, FlushTyped DEF TypeOK
    <2> QED
      BY <1>1, <2>1, <2>2, FlushTyped DEF MadeInv
  <1>2. CASE ~Taken
    BY <1>2, FlushTyped DEF MadeInv
  <1> QED
    BY <1>1, <1>2

LEMMA MadeStep == TypeOK /\ MadeInv /\ [Next]_vars => MadeInv'
  <1> SUFFICES ASSUME TypeOK, MadeInv, [Next]_vars PROVE MadeInv'
    OBVIOUS
  <1>1. CASE Edit
    <2>1. context \in SUBSET Edits /\ made \in Nat /\ made + 1 \in Edits
      BY <1>1, NotesAssumption DEF Edit, TypeOK, Edits
    <2>2. context' = context \union {made + 1} /\ context' \in SUBSET Edits /\ made' = made + 1
      BY <1>1, <2>1 DEF Edit
    <2>3. NotesOf(context') \subseteq 1..made' /\ 1..made \subseteq 1..made'
      BY <2>1, <2>2, NotesOfSets DEF MadeInv
    <2> QED
      BY <1>1, <2>3 DEF Edit, MadeInv
  <1>2. CASE Flushes
    BY <1>2, FlushMade DEF Flushes, MadeInv
  <1>3. CASE Lock
    <2>1. \A i \in 1..Len(saves') : saves'[i] \subseteq 1..made
      BY <1>3, FlushMade DEF Lock
    <2> QED
      BY <1>3, <2>1, NotesOfSets DEF Lock, MadeInv
  <1>4. ASSUME NEW ok \in BOOLEAN, SaveEnds(ok) PROVE MadeInv'
    <2>1. /\ Len(saves) \in Nat /\ Len(saves) > 0 /\ Head(saves) = saves[1]
          /\ Len(Tail(saves)) = Len(saves) - 1
          /\ \A i \in 1..Len(Tail(saves)) : Tail(saves)[i] = saves[i + 1]
      BY <1>4 DEF SaveEnds, TypeOK
    <2>2. Head(saves) \in SUBSET Edits /\ Head(saves) \subseteq 1..made
      BY <1>4, <2>1 DEF TypeOK, MadeInv
    <2>3. NotesOf(stored') \subseteq 1..made
      BY <1>4, <2>2, NotesOfSets DEF SaveEnds, MadeInv
    <2>4. \A i \in 1..Len(saves') : saves'[i] \subseteq 1..made
      <3>1. CASE saves' = <<>>
        BY <3>1
      <3>2. CASE saves' = Tail(saves)
        BY <2>1, <3>2 DEF MadeInv
      <3> QED
        BY <1>4, <3>1, <3>2 DEF SaveEnds
    <2>5. NotesOf(context') \subseteq 1..made
      BY <1>4, NotesOfSets DEF SaveEnds, MadeInv
    <2> QED
      BY <1>4, <2>3, <2>4, <2>5 DEF SaveEnds, MadeInv
  <1>5. CASE Saved \/ SaveFails
    BY <1>4, <1>5 DEF Saved, SaveFails
  <1>6. CASE Submit
    BY <1>6 DEF Submit, MadeInv
  <1>7. CASE Opened
    <2>1. NotesOf(opening) \in SUBSET Edits /\ NotesOf(opening) \subseteq 1..made
      BY <1>7, NotesOfSets DEF Opened, MadeInv, TypeOK
    <2>2. NotesOf(context') = NotesOf(opening)
      BY <1>7, <2>1, NotesOfSets DEF Opened
    <2>3. NotesOf(stored') \subseteq 1..made
      BY <1>7, NotesOfSets DEF Opened, MadeInv
    <2> QED
      BY <1>7, <2>1, <2>2, <2>3 DEF Opened, MadeInv
  <1>8. CASE Refused \/ RemoveVault
    BY <1>8, NotesOfSets DEF Refused, RemoveVault, MadeInv
  <1>9. CASE PageEnds
    BY <1>9, NotesOfSets DEF PageEnds, MadeInv
  <1>10. CASE UNCHANGED vars
    BY <1>10 DEF vars, MadeInv
  <1> QED
    BY <1>1, <1>2, <1>3, <1>5, <1>6, <1>7, <1>8, <1>9, <1>10 DEF Next

-----------------------------------------------------------------------------
LEMMA LostStay ==
  ASSUME NEW s, Lost(s), made' = made, NEW e \in 1..made' \ lost'
  PROVE  e \in 1..made \ lost /\ e \notin s
  BY DEF Lost

LEMMA SavedInOrder ==
  ASSUME TypeOK, NEW e, Ordered(e), saves # <<>>
  PROVE  /\ Head(saves) = saves[1] /\ 1 \in 1..Len(saves)
         /\ e \in Head(saves) => \A i \in 1..Len(Tail(saves)) : e \in Tail(saves)[i]
         /\ \A i, j \in 1..Len(Tail(saves)) : i <= j /\ e \in Tail(saves)[i] => e \in Tail(saves)[j]
         /\ (\E i \in 1..Len(Tail(saves)) : e \in Tail(saves)[i]) => Saving(e)
         /\ Saving(e) => e \in Head(saves) \/ \E i \in 1..Len(Tail(saves)) : e \in Tail(saves)[i]
  <1>1. /\ Len(saves) \in Nat /\ Len(saves) > 0 /\ Head(saves) = saves[1]
        /\ Len(Tail(saves)) = Len(saves) - 1
        /\ \A i \in 1..Len(Tail(saves)) : Tail(saves)[i] = saves[i + 1]
    BY DEF TypeOK
  <1>2. \A i \in 1..Len(Tail(saves)) : i + 1 \in 1..Len(saves)
    BY <1>1
  <1>3. e \in Head(saves) => \A i \in 1..Len(Tail(saves)) : e \in Tail(saves)[i]
    BY <1>1, <1>2 DEF Ordered
  <1>4. \A i, j \in 1..Len(Tail(saves)) : i <= j /\ e \in Tail(saves)[i] => e \in Tail(saves)[j]
    BY <1>1, <1>2 DEF Ordered
  <1>5. (\E i \in 1..Len(Tail(saves)) : e \in Tail(saves)[i]) => Saving(e)
    BY <1>1, <1>2 DEF Saving
  <1>6. Saving(e) => e \in Head(saves) \/ \E i \in 1..Len(Tail(saves)) : e \in Tail(saves)[i]
    <2> SUFFICES ASSUME NEW k \in 1..Len(saves), e \in saves[k], k # 1
                 PROVE  \E i \in 1..Len(Tail(saves)) : e \in Tail(saves)[i]
      BY <1>1 DEF Saving
    <2>1. k - 1 \in 1..Len(Tail(saves)) /\ Tail(saves)[k - 1] = saves[k]
      BY <1>1
    <2> QED
      BY <2>1
  <1> QED
    BY <1>1, <1>3, <1>4, <1>5, <1>6

(* A flush only moves what is dirty from the notebook to the chain.         *)
LEMMA FlushSafe ==
  ASSUME TypeOK, ChainInv, Flush, NEW e \in 1..made \ lost,
         stored' = stored, opening' = opening, context' \in {context, Locked}
  PROVE  /\ Ordered(e)'
         /\ e \in NotesOf(stored) \/ Saving(e)' \/ (e \in NotesOf(context) /\ dirty')
  <1>0. Ordered(e) /\ Safe(e) /\ Len(saves) \in Nat
    BY DEF ChainInv, TypeOK
  <1>1. CASE Taken
    <2>1. context \in SUBSET Edits /\ context # Locked
      BY <1>1 DEF Taken, TypeOK
    <2>2. /\ Len(saves') = Len(saves) + 1 /\ saves'[Len(saves')] = context
          /\ \A i \in 1..Len(saves) : saves'[i] = saves[i]
      BY <1>1, FlushTyped
    <2>3. e \in NotesOf(stored) \/ Saving(e) => e \in context
      BY <1>0, <2>1 DEF Ordered
    <2>4. e \in context
      BY <1>0, <2>1, <2>3, NotesOfSets DEF Safe
    <2>5. Len(saves') \in 1..Len(saves')
      BY <1>0, <2>2
    <2>6. Saving(e)'
      BY <2>2, <2>4, <2>5 DEF Saving
    <2>7. opening = None
      BY <2>1 DEF ChainInv
    <2>8. \A i, j \in 1..Len(saves') : i <= j /\ e \in saves'[i] => e \in saves'[j]
      BY <1>0, <2>2, <2>4 DEF Ordered
    <2>9. e \in NotesOf(stored') => \A i \in 1..Len(saves') : e \in saves'[i]
      BY <1>0, <2>2, <2>4 DEF Ordered
    <2> QED
      BY <2>4, <2>6, <2>7, <2>8, <2>9 DEF Ordered
  <1>2. CASE ~Taken
    <2>1. saves' = saves /\ dirty' = dirty
      BY <1>2, FlushTyped
    <2>2. Saving(e)' = Saving(e)
      BY <2>1 DEF Saving
    <2>3. Ordered(e)'
      BY <1>0, <2>1, <2>2 DEF Ordered
    <2> QED
      BY <1>0, <2>1, <2>2, <2>3 DEF Safe
  <1> QED
    BY <1>1, <1>2

LEMMA ChainStep ==
  TypeOK /\ TypeOK' /\ MadeInv /\ ChainInv /\ [Next]_vars => ChainInv'
  <1> SUFFICES ASSUME TypeOK, TypeOK', MadeInv, ChainInv, [Next]_vars PROVE ChainInv'
    OBVIOUS
  <1>0. \A e \in 1..made \ lost : Ordered(e) /\ Safe(e)
    BY DEF ChainInv
  <1>1. CASE Edit
    <2>0. opening = None /\ opening' = None /\ context # Locked /\ context \in SUBSET Edits
      BY <1>1 DEF Edit, ChainInv, TypeOK
    <2>1. /\ context' = context \union {made + 1} /\ dirty' = TRUE
          /\ saves' = saves /\ stored' = stored /\ made' = made + 1 /\ lost' = lost
          /\ made \in Nat /\ made + 1 \in Edits
      BY <1>1, NotesAssumption DEF Edit, TypeOK, Edits
    <2>2. context' \in SUBSET Edits /\ NotesOf(context') = context' /\ NotesOf(context) = context
      BY <2>0, <2>1, NotesOfSets
    <2>3. ASSUME NEW e \in 1..made \ lost PROVE Ordered(e)' /\ Safe(e)'
      <3>1. Saving(e)' = Saving(e)
        BY <2>1 DEF Saving
      <3>2. e \in NotesOf(stored) \/ Saving(e) => e \in context
        BY <1>0, <2>0 DEF Ordered
      <3>3. Ordered(e)'
        BY <1>0, <2>0, <2>1, <3>1, <3>2 DEF Ordered
      <3>4. Safe(e)'
        BY <1>0, <2>1, <2>2, <3>1 DEF Safe
      <3> QED
        BY <3>3, <3>4
    <2>4. ASSUME NEW n, n = made + 1 PROVE Ordered(n)' /\ Safe(n)'
      <3>1. n \in context' /\ n \notin 1..made
        BY <2>1, <2>4
      <3>2. n \notin NotesOf(stored') /\ ~Saving(n)'
        BY <2>1, <3>1 DEF MadeInv, Saving
      <3> QED
        BY <2>0, <2>1, <2>2, <3>1, <3>2 DEF Ordered, Safe, Saving
    <2>5. ASSUME NEW e \in 1..made' \ lost' PROVE Ordered(e)' /\ Safe(e)'
      <3>1. e \in 1..made \ lost \/ e = made + 1
        BY <2>1
      <3> QED
        BY <2>3, <2>4, <3>1
    <2> QED
      BY <2>0, <2>5 DEF ChainInv
  <1>2. CASE Flushes
    <2>1. ASSUME NEW e \in 1..made \ lost PROVE Ordered(e)' /\ Safe(e)'
      <3>1. Flush /\ stored' = stored /\ opening' = opening /\ context' = context
        BY <1>2 DEF Flushes
      <3>2. /\ Ordered(e)'
            /\ e \in NotesOf(stored) \/ Saving(e)' \/ (e \in NotesOf(context) /\ dirty')
        BY <3>1, FlushSafe
      <3> QED
        BY <3>1, <3>2 DEF Safe
    <2> QED
      BY <1>2, <2>1 DEF Flushes, ChainInv
  <1>3. CASE Lock
    <2>0. Flush /\ stored' = stored /\ opening' = opening /\ context' \in {context, Locked}
            /\ opening = None
      BY <1>3 DEF Lock, ChainInv
    <2>1. ASSUME NEW e \in 1..made \ lost PROVE Ordered(e)' /\ Safe(e)'
      <3>1. /\ Ordered(e)'
            /\ e \in NotesOf(stored) \/ Saving(e)' \/ (e \in NotesOf(context) /\ dirty')
        BY <2>0, FlushSafe
      <3>2. saves' = <<>> => ~Taken /\ dirty' = FALSE
        <4>1. saves' = <<>> => ~Taken
          BY <2>0, FlushTyped DEF TypeOK
        <4>2. ~Taken => dirty = FALSE
          BY <1>3 DEF Lock, Taken, TypeOK
        <4> QED
          BY <2>0, <4>1, <4>2, FlushTyped
      <3>3. saves' # <<>> => context' = context
        BY <1>3 DEF Lock
      <3> QED
        BY <2>0, <3>1, <3>2, <3>3 DEF Safe
    <2> QED
      BY <1>3, <2>0, <2>1 DEF Lock, ChainInv
  <1>4. ASSUME NEW ok \in BOOLEAN, SaveEnds(ok) PROVE ChainInv'
    <2> DEFINE edited == IF LocksNow(ok) /\ DirtyAgain(ok) THEN NotesOf(context) ELSE {}
               failed == IF ok \/ context # Locked THEN {} ELSE Head(saves)
    <2>0. /\ saves # <<>> /\ opening' = opening /\ made' = made
          /\ stored' = IF ok THEN Head(saves) ELSE stored
          /\ saves' = IF Skips THEN <<>> ELSE Tail(saves)
          /\ Lost((edited \union failed \union Skipped) \ NotesOf(stored'))
          /\ Head(saves) \in SUBSET Edits
          /\ context' \in {context, Locked}
      BY <1>4 DEF SaveEnds, TypeOK
    <2>1. ASSUME NEW e \in 1..made' \ lost' PROVE Ordered(e)' /\ Safe(e)'
      <3>1. /\ e \in 1..made \ lost
            /\ e \notin edited \/ e \in NotesOf(stored')
            /\ e \notin failed \/ e \in NotesOf(stored')
            /\ e \notin Skipped \/ e \in NotesOf(stored')
        BY <2>0, LostStay
      <3>2. Ordered(e) /\ Safe(e)
        BY <1>0, <3>1
      <3>3. /\ e \in Head(saves) => \A i \in 1..Len(Tail(saves)) : e \in Tail(saves)[i]
            /\ \A i, j \in 1..Len(Tail(saves)) : i <= j /\ e \in Tail(saves)[i] => e \in Tail(saves)[j]
            /\ (\E i \in 1..Len(Tail(saves)) : e \in Tail(saves)[i]) => Saving(e)
            /\ Saving(e) => e \in Head(saves) \/ \E i \in 1..Len(Tail(saves)) : e \in Tail(saves)[i]
            /\ e \in NotesOf(stored) => e \in Head(saves)
            /\ e \in Head(saves) => Saving(e)
        BY <2>0, <3>2, SavedInOrder DEF Ordered, Saving
      <3>4. NotesOf(stored') = IF ok THEN Head(saves) ELSE NotesOf(stored)
        BY <2>0, NotesOfSets
      <3>5. e \in NotesOf(stored') => e \in Head(saves) /\ Saving(e)
        BY <3>3, <3>4
      <3>6. CASE Skips
        <4>1. context = Locked /\ context' = Locked /\ saves' = <<>> /\ Len(saves') = 0
          BY <2>0, <3>6 DEF Skips
        <4>2. ~Saving(e)' /\ NotesOf(context) = {}
          BY <4>1, NotesOfSets DEF Saving
        <4>3. (\E i \in 1..Len(Tail(saves)) : e \in Tail(saves)[i]) => e \in Skipped
          <5>1. Tail(saves) \in Seq(SUBSET Edits)
            BY <2>0 DEF TypeOK
          <5>2. \A i \in 1..Len(Tail(saves)) : Tail(saves)[i] \in ToSet(Tail(saves))
            BY <5>1, InToSet
          <5> QED
            BY <3>6, <5>2 DEF Skipped
        <4>4. Saving(e) => e \in NotesOf(stored')
          BY <3>1, <3>3, <3>4, <4>1, <4>3
        <4>5. Safe(e)'
          BY <3>2, <3>3, <4>2, <4>4, <3>4 DEF Safe
        <4>6. Ordered(e)'
          BY <2>0, <3>2, <3>5, <4>1, <4>2 DEF Ordered
        <4> QED
          BY <4>5, <4>6
      <3>7. CASE ~Skips
        <4>1. context # Locked /\ context \in SUBSET Edits /\ saves' = Tail(saves)
                /\ opening' = None /\ NotesOf(context) = context
          BY <2>0, <3>7, NotesOfSets DEF Skips, TypeOK, ChainInv
        <4>2. Saving(e)' <=> \E i \in 1..Len(Tail(saves)) : e \in Tail(saves)[i]
          BY <4>1 DEF Saving
        <4>3. Saving(e) \/ e \in NotesOf(stored) => e \in context
          BY <3>2, <4>1 DEF Ordered
        <4>4. context' # Locked => context' = context
          BY <2>0
        <4>5. \A i, j \in 1..Len(saves') : i <= j /\ e \in saves'[i] => e \in saves'[j]
          BY <3>3, <4>1
        <4>6. e \in NotesOf(stored') => \A i \in 1..Len(saves') : e \in saves'[i]
          BY <3>3, <3>5, <4>1
        <4>7. Ordered(e)'
          BY <3>3, <3>5, <4>1, <4>2, <4>3, <4>4, <4>5, <4>6 DEF Ordered
        <4>8. CASE LocksNow(ok)
          <5>1. e \in context /\ DirtyAgain(ok) => e \in NotesOf(stored')
            BY <3>1, <4>1, <4>8
          <5>2. CASE ok
            BY <3>2, <3>3, <3>4, <4>1, <4>2, <4>7, <5>1, <5>2 DEF Safe, DirtyAgain
          <5>3. CASE ~ok
            BY <3>2, <4>1, <4>3, <4>7, <5>1, <5>3 DEF Safe, DirtyAgain
          <5> QED
            BY <5>2, <5>3
        <4>9. CASE ~LocksNow(ok)
          <5>1. context' = context /\ dirty' = (dirty \/ ~ok)
            BY <1>4, <4>9 DEF SaveEnds, DirtyAgain
          <5>2. CASE ok
            <6>1. dirty => dirty'
              BY <5>1, <5>2
            <6> QED
              BY <3>2, <3>3, <3>4, <4>1, <4>2, <4>7, <5>1, <5>2, <6>1 DEF Safe
          <5>3. CASE ~ok
            <6>1. dirty'
              BY <5>1, <5>3
            <6> QED
              BY <3>2, <4>1, <4>3, <4>7, <5>1, <5>3, <6>1 DEF Safe
          <5> QED
            BY <5>2, <5>3
        <4> QED
          BY <4>7, <4>8, <4>9 DEF Safe
      <3> QED
        BY <3>6, <3>7
    <2> QED
      BY <2>0, <2>1 DEF ChainInv
  <1>5. CASE Saved \/ SaveFails
    BY <1>4, <1>5 DEF Saved, SaveFails
  <1>6. CASE Submit
    <2>1. ASSUME NEW e \in 1..made' \ lost' PROVE Ordered(e)' /\ Safe(e)'
      <3>1. e \in 1..made \ lost /\ e \notin UnderWay
        BY <1>6, LostStay DEF Submit
      <3>2. ~Saving(e) /\ Ordered(e) /\ Safe(e)
        BY <1>0, <3>1, SavingIsUnderWay DEF TypeOK
      <3>3. Saving(e)' = Saving(e)
        BY <1>6 DEF Submit, Saving
      <3>4. Ordered(e)'
        BY <1>6, <3>2, <3>3 DEF Submit, Ordered
      <3> QED
        BY <1>6, <3>2, <3>3, <3>4 DEF Submit, Safe
    <2> QED
      BY <1>6, <2>1 DEF Submit, ChainInv
  <1>7. CASE Opened
    <2>0. context = Locked /\ opening' = None /\ saves' = saves /\ dirty' = dirty
            /\ context' = NotesOf(opening) /\ made' = made
      BY <1>7 DEF Opened, ChainInv
    <2>1. ASSUME NEW e \in 1..made' \ lost' PROVE Ordered(e)' /\ Safe(e)'
      <3>1. e \in 1..made \ lost /\ (e \in NotesOf(stored') <=> e \in NotesOf(stored))
        <4>1. CASE opening = Absent
          <5>1. Lost(NotesOf(stored)) /\ NotesOf(stored') = {}
            BY <1>7, <4>1, NotesOfSets DEF Opened
          <5> QED
            BY <2>0, <5>1, LostStay
        <4>2. CASE opening # Absent
          BY <1>7, <2>0, <4>2 DEF Opened
        <4> QED
          BY <4>1, <4>2
      <3>2. Ordered(e) /\ Safe(e) /\ opening # None
        BY <1>0, <1>7, <3>1 DEF Opened
      <3>3. Saving(e)' = Saving(e) /\ ~Saving(e)
        BY <2>0, <3>2 DEF Saving, Ordered
      <3>4. e \in NotesOf(stored)
        BY <2>0, <3>2, <3>3, NotesOfSets DEF Safe
      <3>5. e \in context'
        BY <2>0, <3>2, <3>4 DEF Ordered
      <3>6. Ordered(e)'
        BY <2>0, <3>1, <3>2, <3>3, <3>5 DEF Ordered
      <3> QED
        BY <3>1, <3>4, <3>6 DEF Safe
    <2> QED
      BY <2>0, <2>1 DEF ChainInv
  <1>8. CASE Refused
    <2>1. ASSUME NEW e \in 1..made \ lost PROVE Ordered(e)' /\ Safe(e)'
      <3>1. Saving(e)' = Saving(e)
        BY <1>8 DEF Refused, Saving
      <3> QED
        BY <1>0, <1>8, <3>1 DEF Refused, Ordered, Safe
    <2> QED
      BY <1>8, <2>1 DEF Refused, ChainInv
  <1>9. CASE RemoveVault
    <2>1. ASSUME NEW e \in 1..made' \ lost' PROVE FALSE
      <3>1. e \in 1..made \ lost /\ e \notin NotesOf(stored) /\ e \notin UnderWay
        BY <1>9, LostStay DEF RemoveVault
      <3>2. ~Saving(e) /\ Safe(e)
        BY <1>0, <3>1, SavingIsUnderWay DEF TypeOK
      <3> QED
        BY <1>9, <3>1, <3>2, NotesOfSets DEF RemoveVault, Safe
    <2> QED
      BY <1>9, <2>1 DEF RemoveVault, ChainInv
  <1>10. CASE PageEnds
    <2>0. context' = Locked /\ opening' = None /\ saves' = <<>> /\ Len(saves') = 0
            /\ stored' = stored /\ made' = made
      BY <1>10 DEF PageEnds
    <2>1. ASSUME NEW e \in 1..made' \ lost' PROVE Ordered(e)' /\ Safe(e)'
      <3>1. /\ e \in 1..made \ lost
            /\ e \notin ((IF dirty THEN NotesOf(context) ELSE {}) \union UnderWay) \ NotesOf(stored)
        BY <1>10, LostStay DEF PageEnds
      <3>2. Safe(e) /\ (Saving(e) <=> e \in UnderWay)
        BY <1>0, <3>1, SavingIsUnderWay DEF TypeOK
      <3>3. e \in NotesOf(stored)
        BY <3>1, <3>2 DEF Safe
      <3> QED
        BY <2>0, <3>3 DEF Ordered, Safe
    <2> QED
      BY <2>0, <2>1 DEF ChainInv
  <1>11. CASE UNCHANGED vars
    <2>1. \A e : Saving(e)' = Saving(e)
      BY <1>11 DEF vars, Saving
    <2> QED
      BY <1>11, <2>1 DEF vars, ChainInv, Ordered, Safe
  <1> QED
    BY <1>1, <1>2, <1>3, <1>5, <1>6, <1>7, <1>8, <1>9, <1>10, <1>11 DEF Next

-----------------------------------------------------------------------------
Inv == TypeOK /\ MadeInv /\ ChainInv

LEMMA InvHolds == Spec => []Inv
  <1>1. Init => Inv
    BY TypedInit, MadeInit, ChainInit DEF Inv
  <1>2. Inv /\ [Next]_vars => Inv'
    BY TypedStep, MadeStep, ChainStep DEF Inv
  <1> QED
    BY <1>1, <1>2, PTL DEF Spec

(* The record, the open notebook and the chain hold edits only, and a lock  *)
(* that waits waits for a save that is there (lockNotes, flushSave).        *)
THEOREM TypeCorrect == Spec => []TypeOK
  BY InvHolds, PTL DEF Inv

(* No edit is lost but in the ways that the model counts, however saves,    *)
(* their failures, locks and unlocks follow one another (notes.js).         *)
THEOREM NoEditLost == Spec => []EditsSafe
  <1>1. Inv => EditsSafe
    <2> SUFFICES ASSUME Inv, NEW e \in 1..made \ lost
                 PROVE  \/ e \in NotesOf(stored)
                        \/ e \in UnderWay
                        \/ e \in NotesOf(context) /\ dirty
      BY DEF EditsSafe
    <2> QED
      BY SavingIsUnderWay DEF Inv, TypeOK, ChainInv, Safe
  <1> QED
    BY <1>1, InvHolds, PTL
-----------------------------------------------------------------------------
(* The safety half of LocksEnd: a lock that waits is never forgotten.       *)

SaveDone == Saved \/ SaveFails

(* What becomes of a lock that waits for k saves: the notebook is locked,   *)
(* or a save ended and it waits for one less, or something else went on.    *)
Kept(k) ==
  IF SaveDone THEN context' = Locked \/ k - 1 \in locks'
  ELSE context' = Locked \/ k \in locks'

LEMMA LockKept ==
  ASSUME TypeOK, NEW k \in locks, Next
  PROVE  Kept(k)
  <1>1. CASE SaveDone
    <2>1. PICK ok \in BOOLEAN : SaveEnds(ok)
      BY <1>1 DEF SaveDone, Saved, SaveFails
    <2>2. CASE Due
      BY <1>1, <2>1, <2>2 DEF SaveEnds, LocksNow, Kept
    <2>3. CASE ~Due
      <3>1. k # 1 /\ ~Skips
        BY <2>3 DEF Due
      <3>2. k - 1 \in locks'
        BY <2>1, <3>1 DEF SaveEnds
      <3> QED
        BY <1>1, <3>2 DEF Kept
    <2> QED
      BY <2>2, <2>3
  <1>2. CASE ~SaveDone
    BY <1>2
       DEF Kept, SaveDone, Next, Edit, Flushes, Lock, Submit, Opened, Refused,
           RemoveVault, PageEnds
  <1> QED
    BY <1>1, <1>2

(* A lock that waits has a save under way to wait for, no step forgets it,  *)
(* and every save that ends, well or not, takes one off what it waits for   *)
(* until the notebook is locked (lockNotes and the catch of flushSave).     *)
THEOREM LockNeverForgotten ==
  Spec => /\ [](\A k \in locks : k \in 1..Len(saves))
          /\ [][\A k \in locks : Kept(k)]_vars
  <1>1. TypeOK => \A k \in locks : k \in 1..Len(saves)
    BY DEF TypeOK
  <1>2. TypeOK /\ [Next]_vars => [\A k \in locks : Kept(k)]_vars
    BY LockKept
  <1> QED
    BY <1>1, <1>2, TypeCorrect, PTL DEF Spec
=============================================================================

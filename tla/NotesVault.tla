----------------------------- MODULE NotesVault -----------------------------
(***************************************************************************)
(* The encrypted notebook of the portal's page (static/js/notes.js with the *)
(* vault functions of static/js/crypto.js): edits, the delayed save, the    *)
(* chain of saves, locking, unlocking, removal and the end of the page.     *)
(*                                                                         *)
(* The abstraction.  A notebook's content is the set of edits it has.  What *)
(* runs between two awaits is one step; so is the end of a save with all    *)
(* the callbacks that wait for it, because no event comes between           *)
(* microtasks.  There is one tab, and one unlocking at a time.              *)
(***************************************************************************)
EXTENDS Naturals, Sequences, SequencesExt

CONSTANTS
  Absent,       \* no record in localStorage
  Locked,       \* context = null
  None,         \* no unlocking under way
  MaxEdits,     \* bound on edits
  MaxFailures,  \* bound on saves that fail
  MaxEnds       \* bound on ends of the page

ASSUME NotesAssumption ==
  /\ MaxEdits \in Nat /\ MaxFailures \in Nat /\ MaxEnds \in Nat
  /\ Absent # None
  /\ \A s \in SUBSET (1..MaxEdits) : s \notin {Absent, Locked, None}

Edits == 1..MaxEdits

VARIABLES
  stored,   \* the record in localStorage
  context,  \* the open notebook's notes
  dirty,    \* edits are there that no save has taken
  timer,    \* saveTimer is set
  saves,    \* saveChain: the snapshots of its saves, the first under way
  locks,    \* for each lockNotes that waits, how many saves it waits for
  opening,  \* what unlockVault or createVault, under way, will open
  made,     \* history: the number of edits made
  lost,     \* history: the edits thrown away, see below
  failures, \* the number of saves that failed
  ends      \* the number of times the page ended

vars == <<stored, context, dirty, timer, saves, locks, opening,
          made, lost, failures, ends>>

TypeOK ==
  /\ stored \in (SUBSET Edits) \union {Absent}
  /\ context \in (SUBSET Edits) \union {Locked}
  /\ dirty \in BOOLEAN /\ timer \in BOOLEAN
  /\ saves \in Seq(SUBSET Edits)
  /\ locks \subseteq 1..Len(saves)
  /\ opening \in (SUBSET Edits) \union {Absent, None}
  /\ made \in 0..MaxEdits /\ lost \subseteq 1..made
  /\ failures \in 0..MaxFailures /\ ends \in 0..MaxEnds

Init ==
  /\ stored = Absent
  /\ context = Locked /\ dirty = FALSE /\ timer = FALSE
  /\ saves = <<>> /\ locks = {} /\ opening = None
  /\ made = 0 /\ lost = {} /\ failures = 0 /\ ends = 0

NotesOf(c) == IF c \in {Absent, Locked} THEN {} ELSE c
UnderWay == UNION ToSet(saves)
Lost(edits) == lost' = lost \union (edits \intersect 1..made)

(* flushSave: what is dirty joins the chain.                                *)
Taken == context # Locked /\ dirty
Flushed == IF Taken THEN Append(saves, context) ELSE saves
Flush ==
  /\ timer' = FALSE
  /\ saves' = Flushed
  /\ dirty' = (dirty /\ ~Taken)

(* An input, a new or a deleted note (queueSave).                           *)
Edit ==
  /\ context # Locked
  /\ made < MaxEdits
  /\ made' = made + 1
  /\ context' = context \union {made + 1}
  /\ dirty' = TRUE
  /\ timer' = TRUE
  /\ UNCHANGED <<stored, saves, locks, opening, lost, failures, ends>>

(* The timer fires, or the page is hidden while dirty.                      *)
Flushes ==
  /\ timer \/ dirty
  /\ Flush
  /\ UNCHANGED <<stored, context, locks, opening, made, lost, failures, ends>>

(* lockNotes, by its button or after 15 minutes: it flushes and waits for   *)
(* the chain as it is then, which may have ended.                           *)
Lock ==
  /\ context # Locked
  /\ Flush
  /\ IF saves' = <<>>
     THEN context' = Locked /\ UNCHANGED locks
     ELSE locks' = locks \union {Len(saves')} /\ UNCHANGED context
  /\ UNCHANGED <<stored, opening, made, lost, failures, ends>>

-----------------------------------------------------------------------------
(* The end of the save under way.  A failure makes the notebook dirty.  The *)
(* next save starts before any lock goes on, unless the notebook is locked: *)
(* then all the others end without having saved.                            *)
DirtyStill(ok) == dirty
DirtyAgain(ok) == dirty \/ ~ok
Skips == context = Locked
Skipped == IF Skips THEN UNION ToSet(Tail(saves)) ELSE {}

(* A lock that waited for it goes on after a failure too, which is caught:  *)
(* context is null and dirty false, whatever was edited meanwhile.          *)
Due == 1 \in locks \/ (Skips /\ locks # {})
LocksIfSaved(ok) == ok /\ Due
LocksNow(ok) == Due

SaveEnds(ok) ==
  /\ saves # <<>>
  /\ stored' = IF ok THEN Head(saves) ELSE stored
  /\ saves' = IF Skips THEN <<>> ELSE Tail(saves)
  /\ locks' = IF Skips THEN {} ELSE {n - 1 : n \in locks \ {1}}
  /\ IF LocksNow(ok)
     THEN context' = Locked /\ dirty' = FALSE
     ELSE dirty' = DirtyAgain(ok) /\ UNCHANGED context
  /\ LET edited  == IF LocksNow(ok) /\ DirtyAgain(ok) THEN NotesOf(context) ELSE {}
         failed  == IF ok \/ context # Locked THEN {} ELSE Head(saves)
     IN  Lost((edited \union failed \union Skipped) \ NotesOf(stored'))
  /\ UNCHANGED <<timer, opening, made, ends>>

Saved == SaveEnds(TRUE) /\ UNCHANGED failures

SaveFails ==
  /\ failures < MaxFailures
  /\ failures' = failures + 1
  /\ SaveEnds(FALSE)

-----------------------------------------------------------------------------
(* The locked page's form: unlockVault reads the record, createVault sees   *)
(* that there is none, and both derive the key.                             *)
Submit ==
  /\ context = Locked /\ opening = None
  /\ opening' = stored
  /\ Lost(UnderWay)
  /\ UNCHANGED <<stored, context, dirty, timer, saves, locks, made, failures, ends>>

(* The notebook is opened; one that is created is written first.            *)
Opened ==
  /\ opening # None
  /\ context' = NotesOf(opening)
  /\ opening' = None
  /\ IF opening = Absent
     THEN stored' = {} /\ Lost(NotesOf(stored))
     ELSE UNCHANGED <<stored, lost>>
  /\ UNCHANGED <<dirty, timer, saves, locks, made, failures, ends>>

(* The password is wrong, or the record broken.                             *)
Refused ==
  /\ opening # None
  /\ opening' = None
  /\ UNCHANGED <<stored, context, dirty, timer, saves, locks, made, lost, failures, ends>>

(* removeVault, twice confirmed.                                            *)
RemoveVault ==
  /\ context = Locked /\ stored # Absent
  /\ stored' = Absent
  /\ Lost(NotesOf(stored) \union UnderWay)
  /\ UNCHANGED <<context, dirty, timer, saves, locks, opening, made, failures, ends>>

(* The page is left or loaded anew, asking first only while dirty; a save   *)
(* under way ends with it.                                                  *)
PageEnds ==
  /\ ends < MaxEnds
  /\ ends' = ends + 1
  /\ context' = Locked /\ dirty' = FALSE /\ timer' = FALSE
  /\ saves' = <<>> /\ locks' = {} /\ opening' = None
  /\ Lost(((IF dirty THEN NotesOf(context) ELSE {}) \union UnderWay) \ NotesOf(stored))
  /\ UNCHANGED <<stored, made, failures>>

Next ==
  \/ Edit \/ Flushes \/ Lock \/ Saved \/ SaveFails
  \/ Submit \/ Opened \/ Refused \/ RemoveVault \/ PageEnds

(* A browser ends every encryption, and stores or refuses to.               *)
Spec == Init /\ [][Next]_vars /\ WF_vars(Saved \/ SaveFails)

-----------------------------------------------------------------------------
(* Every edit is stored, or a save has it, or the open notebook has it and  *)
(* knows that it must be saved, unless it was thrown away: a lock went on   *)
(* although something was edited or had failed to be saved while it waited  *)
(* (line 273), the chain skipped the save (72) or it failed after the lock, *)
(* the page ended first, the notebook was removed, or unlocked so fast that *)
(* a save of before the lock was still under way.                           *)
EditsSafe ==
  \A e \in 1..made \ lost :
    \/ e \in NotesOf(stored)
    \/ e \in UnderWay
    \/ e \in NotesOf(context) /\ dirty

(* A notebook being locked gets locked, whatever becomes of the saves it    *)
(* waits for and of the edits meanwhile (lockNotes, the catch of flushSave).*)
LocksEnd == locks # {} ~> context = Locked
=============================================================================

------------------------- MODULE PortalAccessProofs -------------------------
(***************************************************************************)
(* Proofs about sessions and short links, for any number of threads,        *)
(* browsers, tokens, password hashes, codes and restarts.                   *)
(***************************************************************************)
EXTENDS PortalAccess, FiniteSetTheorems, TLAPS

USE DEF AnyToken, Kind, Authorised

LEMMA NoneIsNothing ==
  /\ None \notin AnyToken /\ None \notin Hash /\ None \notin Code
  /\ None \notin Target /\ None \notin Row /\ None \notin Link
  /\ None \notin Request
  BY AccessAssumption

LEMMA KindsAreKinds == Kinds \subseteq Kind
  BY AccessAssumption

LEMMA BoundsAreNumbers ==
  /\ MaxTime \in Nat /\ Ttl \in Nat /\ Attempts \in Nat \ {0}
  /\ Bound \in [DOMAIN Bound -> Nat]
  /\ DOMAIN Bound = {"requests", "restarts", "errors"}
  BY AccessAssumption DEF Bound

-----------------------------------------------------------------------------
(* Types.  A thread's request says enough of where the thread stands: what  *)
(* deletes a session has found one, what counts a visit has read its link.  *)

Place == {"idle", "look", "drop", "issue", "act", "count", "answer"}

Standing(t) ==
  /\ pc[t] = "idle" => req[t] = None
  /\ pc[t] # "idle" => req[t] \in Request
  /\ pc[t] = "look" => req[t].kind \in Authorised \union {"login"}
  /\ pc[t] = "drop" => req[t].kind = "login" /\ req[t].session # None
  /\ pc[t] = "issue" => req[t].kind = "login"
  /\ pc[t] = "act" => req[t].kind # "login"
  /\ pc[t] = "act" /\ req[t].kind \in Authorised => req[t].session # None
  /\ pc[t] \in {"look", "act"} =>
       /\ req[t].kind \in {"delete", "get", "head"} => req[t].code # None
       /\ req[t].kind = "create" => req[t].target # None
  /\ pc[t] = "count" => req[t].kind = "get" /\ req[t].seen # None
  /\ pc[t] = "answer" => req[t].kind \in {"login", "logout", "get", "head"}
  /\ pc[t] = "answer" /\ req[t].kind = "login" => req[t].session \in Token
  /\ pc[t] = "answer" /\ req[t].kind = "get" => req[t].seen # None
  /\ req[t] # None /\ req[t].seen # None => req[t].code # None

Typed ==
  /\ hash \in Hash
  /\ now \in 0..MaxTime
  /\ sessions \in [AnyToken -> Row \union {None}]
  /\ cookie \in [Browser -> AnyToken \union {None}]
  /\ links \in [Code -> Link \union {None}]
  /\ pc \in [Thread -> Place]
  /\ req \in [Thread -> Request \union {None}]
  /\ used \subseteq Token
  /\ revoked \subseteq AnyToken
  /\ issued \in [AnyToken -> Row]
  /\ visits \in [Code -> Nat]
  /\ strays \in [Code -> Nat]
  /\ lapses \subseteq {"overlap", "lost", "rehashed"}
  /\ spent \in [DOMAIN Bound -> Nat]
  /\ \A b \in DOMAIN Bound : spent[b] <= Bound[b]
  /\ \A t \in Thread : Standing(t)

LEMMA TypedInit == Init => Typed
  <1> SUFFICES ASSUME Init PROVE Typed
    OBVIOUS
  <1>1. issued \in [AnyToken -> Row]
    BY BoundsAreNumbers DEF Init, Row
  <1>2. sessions \in [AnyToken -> Row \union {None}]
    BY <1>1 DEF Init
  <1>3. spent \in [DOMAIN Bound -> Nat] /\ \A b \in DOMAIN Bound : spent[b] <= Bound[b]
    BY BoundsAreNumbers DEF Init
  <1>4. \A t \in Thread : Standing(t)
    BY DEF Init, Standing
  <1> QED
    BY <1>1, <1>2, <1>3, <1>4, BoundsAreNumbers DEF Init, Typed, Place

(* A step that moves one thread changes what stands of that thread only.    *)
LEMMA ThreadMoves ==
  ASSUME Typed, NEW t \in Thread, NEW place \in Place, NEW r \in Request \union {None},
         pc' = [pc EXCEPT ![t] = place], req' = [req EXCEPT ![t] = r], Standing(t)'
  PROVE  /\ pc' \in [Thread -> Place]
         /\ req' \in [Thread -> Request \union {None}]
         /\ \A u \in Thread : Standing(u)'
  <1>1. \A u \in Thread \ {t} : pc'[u] = pc[u] /\ req'[u] = req[u]
    BY DEF Typed
  <1>2. \A u \in Thread \ {t} : Standing(u)'
    BY <1>1 DEF Typed, Standing
  <1> QED
    BY <1>2 DEF Typed

LEMMA ThreadLeaves ==
  ASSUME Typed, NEW t \in Thread, Leave(t)
  PROVE  /\ pc' \in [Thread -> Place]
         /\ req' \in [Thread -> Request \union {None}]
         /\ \A u \in Thread : Standing(u)'
  <1>1. pc' = [pc EXCEPT ![t] = "idle"] /\ req' = [req EXCEPT ![t] = None]
    BY DEF Leave, Goto, Set
  <1>2. pc'[t] = "idle" /\ req'[t] = None
    BY <1>1 DEF Typed
  <1>3. Standing(t)'
    BY <1>2 DEF Standing
  <1> QED
    BY <1>1, <1>3, ThreadMoves DEF Place

LEMMA SpendKeepsBounds ==
  ASSUME Typed, NEW b \in DOMAIN Bound, Spend(b)
  PROVE  /\ spent' \in [DOMAIN Bound -> Nat]
         /\ \A c \in DOMAIN Bound : spent'[c] <= Bound[c]
  BY BoundsAreNumbers DEF Typed, Spend

(* The thread that takes a step has a request.                              *)
LEMMA HasRequest ==
  ASSUME Typed, NEW t \in Thread, pc[t] # "idle"
  PROVE  /\ req[t] \in Request /\ req[t] # None
         /\ req[t].kind \in Kind /\ req[t].browser \in Browser
         /\ req[t].token \in AnyToken \union {None}
         /\ req[t].session \in AnyToken \union {None}
         /\ req[t].code \in Code \union {None} /\ req[t].target \in Target \union {None}
         /\ req[t].tries \in 0..(Attempts - 1) /\ req[t].seen \in Link \union {None}
         /\ req[t].stray \in BOOLEAN
         /\ req[t].old \in [revoked : SUBSET AnyToken, now : Nat]
  BY NoneIsNothing DEF Typed, Standing, Request

-----------------------------------------------------------------------------
(* Each action keeps the types.                                             *)

LEMMA ArriveTyped == ASSUME Typed, NEW t \in Thread, Arrive(t) PROVE Typed'
  <1>1. PICK k \in Kinds, b \in Browser :
        \E c \in IF k \in {"login", "logout"} THEN {None}
                 ELSE IF k = "create" THEN Code \union {None} ELSE Code :
        \E g \in IF k = "create" THEN Target ELSE {None} :
          /\ Set(t, [kind |-> k, browser |-> b, token |-> cookie[b], session |-> None,
                     code |-> c, target |-> g, tries |-> 0, seen |-> None,
                     stray |-> FALSE, old |-> [revoked |-> revoked, now |-> now]])
          /\ Goto(t, IF k \in {"get", "head"} THEN "act" ELSE "look")
          /\ lapses' \subseteq lapses \union {"overlap"}
    BY DEF Arrive
  <1>2. PICK c \in IF k \in {"login", "logout"} THEN {None}
                   ELSE IF k = "create" THEN Code \union {None} ELSE Code,
             g \in IF k = "create" THEN Target ELSE {None} :
          /\ Set(t, [kind |-> k, browser |-> b, token |-> cookie[b], session |-> None,
                     code |-> c, target |-> g, tries |-> 0, seen |-> None,
                     stray |-> FALSE, old |-> [revoked |-> revoked, now |-> now]])
          /\ Goto(t, IF k \in {"get", "head"} THEN "act" ELSE "look")
    BY <1>1
  <1> DEFINE r == [kind |-> k, browser |-> b, token |-> cookie[b], session |-> None,
                   code |-> c, target |-> g, tries |-> 0, seen |-> None,
                   stray |-> FALSE, old |-> [revoked |-> revoked, now |-> now]]
             place == IF k \in {"get", "head"} THEN "act" ELSE "look"
  <1>3. k \in Kind
    BY KindsAreKinds
  <1>4. c \in Code \union {None} /\ g \in Target \union {None}
    BY <1>2
  <1>5. now \in Nat /\ 0 \in 0..(Attempts - 1)
    BY BoundsAreNumbers DEF Typed
  <1>6. cookie[b] \in AnyToken \union {None} /\ revoked \in SUBSET AnyToken
    BY DEF Typed
  <1>7. r \in Request
    BY <1>3, <1>4, <1>5, <1>6 DEF Request
  <1>8. pc' = [pc EXCEPT ![t] = place] /\ req' = [req EXCEPT ![t] = r] /\ place \in Place
    BY <1>2 DEF Goto, Set, Place
  <1>9. pc'[t] = place /\ req'[t] = r
    BY <1>8 DEF Typed
  <1>10. /\ k \in {"delete", "get", "head"} => r.code \in Code /\ r.code # None
         /\ k = "create" => r.target \in Target /\ r.target # None
    BY <1>2, NoneIsNothing
  <1> HIDE DEF r
  <1>11. r.kind = k /\ r.seen = None
    BY DEF r
  <1>12. Standing(t)'
    BY <1>3, <1>7, <1>9, <1>10, <1>11 DEF Standing
  <1>13. /\ pc' \in [Thread -> Place]
         /\ req' \in [Thread -> Request \union {None}]
         /\ \A u \in Thread : Standing(u)'
    BY <1>7, <1>8, <1>12, ThreadMoves
  <1>14. Spend("requests")
    BY DEF Arrive
  <1>15. /\ spent' \in [DOMAIN Bound -> Nat]
         /\ \A d \in DOMAIN Bound : spent'[d] <= Bound[d]
    BY <1>14, BoundsAreNumbers, SpendKeepsBounds
  <1> QED
    BY <1>1, <1>13, <1>15 DEF Arrive, Typed, sessionvars, linkvars

LEMMA LookTyped == ASSUME Typed, NEW t \in Thread, Look(t) PROVE Typed'
  <1> DEFINE k == req[t].token
  <1>1. pc[t] = "look" /\ req[t].kind \in Authorised \union {"login"}
    BY DEF Look, Typed, Standing
  <1>2. /\ pc' \in [Thread -> Place]
        /\ req' \in [Thread -> Request \union {None}]
        /\ \A u \in Thread : Standing(u)'
    <2>1. CASE /\ Valid(k)
               /\ Set(t, [req[t] EXCEPT !.session = k])
               /\ Goto(t, IF req[t].kind = "login" THEN "drop" ELSE "act")
      <3> DEFINE r == [req[t] EXCEPT !.session = k]
      <3>1. k \in AnyToken /\ k # None
        BY <1>1, <2>1, HasRequest, NoneIsNothing DEF Valid
      <3>2. r \in Request /\ r.kind = req[t].kind /\ r.session = k /\ r.code = req[t].code
              /\ r.seen = req[t].seen /\ r.target = req[t].target
        BY <1>1, <3>1, HasRequest DEF Request
      <3>3. \E place \in {"drop", "act"} :
              /\ place = "drop" <=> req[t].kind = "login"
              /\ pc' = [pc EXCEPT ![t] = place] /\ req' = [req EXCEPT ![t] = r]
        BY <2>1 DEF Goto, Set
      <3> HIDE DEF r
      <3>4. PICK place \in {"drop", "act"} :
              /\ place = "drop" <=> req[t].kind = "login"
              /\ pc' = [pc EXCEPT ![t] = place] /\ req' = [req EXCEPT ![t] = r]
        BY <3>3
      <3>5. pc'[t] = place /\ req'[t] = r
        BY <3>4 DEF Typed
      <3>6. /\ req[t].seen # None => req[t].code # None
            /\ req[t].kind = "delete" => req[t].code # None
            /\ req[t].kind = "create" => req[t].target # None
        BY <1>1, HasRequest DEF Typed, Standing
      <3>7. Standing(t)'
        BY <1>1, <3>1, <3>2, <3>4, <3>5, <3>6 DEF Standing
      <3> QED
        BY <3>2, <3>4, <3>7, ThreadMoves DEF Place
    <2>2. CASE req[t].kind = "login" /\ Goto(t, "issue") /\ req' = req
      <3>1. pc' = [pc EXCEPT ![t] = "issue"] /\ req' = [req EXCEPT ![t] = req[t]]
        BY <2>2 DEF Goto, Typed
      <3>2. pc'[t] = "issue" /\ req'[t] = req[t]
        BY <3>1 DEF Typed
      <3>3. Standing(t)'
        BY <1>1, <2>2, <3>2, HasRequest DEF Standing, Typed
      <3> QED
        BY <1>1, <3>1, <3>3, ThreadMoves, HasRequest DEF Place
    <2>3. CASE Leave(t)
      BY <2>3, ThreadLeaves
    <2> QED
      BY <2>1, <2>2, <2>3 DEF Look
  <1> QED
    BY <1>2 DEF Look, Typed, sessionvars, linkvars

(* Most steps only move their thread on.                                    *)
LEMMA ThreadGoes ==
  ASSUME Typed, NEW t \in Thread, NEW place \in Place, Goto(t, place), req' = req,
         pc[t] # "idle", Standing(t)'
  PROVE  /\ pc' \in [Thread -> Place]
         /\ req' \in [Thread -> Request \union {None}]
         /\ \A u \in Thread : Standing(u)'
  <1>1. pc' = [pc EXCEPT ![t] = place] /\ req' = [req EXCEPT ![t] = req[t]]
    BY DEF Goto, Typed
  <1> QED
    BY <1>1, ThreadMoves, HasRequest

LEMMA DeletedTyped ==
  ASSUME Typed, NEW k \in AnyToken, Deleted(k)
  PROVE  /\ sessions' \in [AnyToken -> Row \union {None}]
         /\ revoked' \subseteq AnyToken
         /\ used' = used /\ issued' = issued
  BY DEF Typed, Deleted

LEMMA DropTyped == ASSUME Typed, NEW t \in Thread, Drop(t) PROVE Typed'
  <1>1. pc[t] = "drop" /\ req[t].session \in AnyToken /\ req[t].kind = "login"
    BY HasRequest, NoneIsNothing DEF Drop, Typed, Standing
  <1>2. pc'[t] = "issue" /\ req'[t] = req[t]
    BY DEF Drop, Goto, Typed
  <1>3. Standing(t)'
    BY <1>1, <1>2 DEF Standing, Typed
  <1>4. /\ pc' \in [Thread -> Place]
        /\ req' \in [Thread -> Request \union {None}]
        /\ \A u \in Thread : Standing(u)'
    BY <1>1, <1>3, ThreadGoes DEF Drop, Place
  <1>5. Deleted(req[t].session)
    BY DEF Drop, Replaced
  <1>6. /\ sessions' \in [AnyToken -> Row \union {None}]
        /\ revoked' \subseteq AnyToken
        /\ used' = used /\ issued' = issued
    BY <1>1, <1>5, DeletedTyped
  <1> QED
    BY <1>4, <1>6 DEF Drop, Typed, linkvars

LEMMA LogoutTyped == ASSUME Typed, NEW t \in Thread, Logout(t) PROVE Typed'
  <1>1. pc[t] = "act" /\ req[t].session \in AnyToken /\ req[t].kind = "logout"
    BY HasRequest, NoneIsNothing DEF Logout, Typed, Standing
  <1>2. pc'[t] = "answer" /\ req'[t] = req[t]
    BY DEF Logout, Goto, Typed
  <1>3. Standing(t)'
    BY <1>1, <1>2 DEF Standing, Typed
  <1>4. /\ pc' \in [Thread -> Place]
        /\ req' \in [Thread -> Request \union {None}]
        /\ \A u \in Thread : Standing(u)'
    BY <1>1, <1>3, ThreadGoes DEF Logout, Place
  <1>5. /\ sessions' \in [AnyToken -> Row \union {None}]
        /\ revoked' \subseteq AnyToken
        /\ used' = used /\ issued' = issued
    BY <1>1, DeletedTyped DEF Logout
  <1> QED
    BY <1>4, <1>5 DEF Logout, Typed, linkvars

LEMMA IssueTyped == ASSUME Typed, NEW t \in Thread, Issue(t) PROVE Typed'
  <1> DEFINE row == [binding |-> hash, expires |-> now + Ttl]
  <1>1. PICK k \in Token \ used :
          /\ sessions' = [sessions EXCEPT ![k] = row]
          /\ issued' = [issued EXCEPT ![k] = row]
          /\ used' = used \union {k}
          /\ Set(t, [req[t] EXCEPT !.session = k])
    BY DEF Issue
  <1>2. row \in Row
    BY BoundsAreNumbers DEF Row, Typed
  <1>3. pc[t] = "issue" /\ req[t].kind = "login"
    BY DEF Issue, Typed, Standing
  <1> DEFINE r == [req[t] EXCEPT !.session = k]
  <1>4. /\ r \in Request /\ r.kind = "login" /\ r.session = k
        /\ r.seen = req[t].seen /\ r.code = req[t].code
    BY <1>3, HasRequest DEF Request
  <1>5. pc' = [pc EXCEPT ![t] = "answer"] /\ req' = [req EXCEPT ![t] = r]
    BY <1>1 DEF Issue, Goto, Set
  <1> HIDE DEF r
  <1>6. pc'[t] = "answer" /\ req'[t] = r
    BY <1>5 DEF Typed
  <1>7. req[t].seen # None => req[t].code # None
    BY <1>3, HasRequest DEF Typed, Standing
  <1>8. Standing(t)'
    BY <1>4, <1>6, <1>7 DEF Standing
  <1>9. /\ pc' \in [Thread -> Place]
        /\ req' \in [Thread -> Request \union {None}]
        /\ \A u \in Thread : Standing(u)'
    BY <1>4, <1>5, <1>8, ThreadMoves DEF Place
  <1>10. /\ sessions' \in [AnyToken -> Row \union {None}]
         /\ issued' \in [AnyToken -> Row]
         /\ used' \subseteq Token
    BY <1>1, <1>2 DEF Typed
  <1> QED
    BY <1>9, <1>10 DEF Issue, Typed, linkvars

LEMMA CreateTyped == ASSUME Typed, NEW t \in Thread, Create(t) PROVE Typed'
  <1>1. /\ pc[t] = "act" /\ req[t].kind = "create" /\ req[t].target \in Target
        /\ req[t].session # None
    BY HasRequest DEF Create, Typed, Standing
  <1>2. PICK c \in IF req[t].code # None THEN {req[t].code} ELSE Code :
       \/ /\ ~Taken(c)
          /\ links' = [links EXCEPT ![c] = [target |-> req[t].target, clicks |-> 0]]
          /\ visits' = [visits EXCEPT ![c] = 0]
          /\ strays' = [strays EXCEPT ![c] = 0]
          /\ Leave(t)
       \/ /\ Taken(c) /\ (req[t].code # None \/ Exhausted(t))
          /\ Leave(t)
          /\ UNCHANGED linkvars
       \/ /\ Taken(c) /\ req[t].code = None /\ ~Exhausted(t)
          /\ Set(t, [req[t] EXCEPT !.tries = @ + 1])
          /\ UNCHANGED <<linkvars, pc>>
    BY DEF Create
  <1>3. c \in Code
    BY <1>1, <1>2, HasRequest
  <1>4. [target |-> req[t].target, clicks |-> 0] \in Link
    BY <1>1 DEF Link
  <1>5. /\ links' \in [Code -> Link \union {None}]
        /\ visits' \in [Code -> Nat] /\ strays' \in [Code -> Nat]
    BY <1>2, <1>3, <1>4 DEF Typed, linkvars
  <1>6. /\ pc' \in [Thread -> Place]
        /\ req' \in [Thread -> Request \union {None}]
        /\ \A u \in Thread : Standing(u)'
    <2>1. CASE Leave(t)
      BY <2>1, ThreadLeaves
    <2>2. CASE ~Exhausted(t) /\ Set(t, [req[t] EXCEPT !.tries = @ + 1]) /\ pc' = pc
      <3> DEFINE r == [req[t] EXCEPT !.tries = @ + 1]
      <3>1. req[t].tries + 1 \in 0..(Attempts - 1)
        BY <1>1, <2>2, HasRequest, BoundsAreNumbers DEF Exhausted
      <3>2. /\ r \in Request /\ r.kind = "create" /\ r.session = req[t].session
            /\ r.seen = req[t].seen /\ r.code = req[t].code /\ r.target = req[t].target
        BY <1>1, <3>1, HasRequest DEF Request
      <3>3. pc' = [pc EXCEPT ![t] = "act"] /\ req' = [req EXCEPT ![t] = r]
        BY <1>1, <2>2 DEF Set, Typed
      <3> HIDE DEF r
      <3>4. pc'[t] = "act" /\ req'[t] = r
        BY <3>3 DEF Typed
      <3>5. /\ req[t].seen # None => req[t].code # None
            /\ req[t].target # None
        BY <1>1, HasRequest, NoneIsNothing DEF Typed, Standing
      <3>6. Standing(t)'
        BY <1>1, <3>2, <3>4, <3>5 DEF Standing
      <3> QED
        BY <3>2, <3>3, <3>6, ThreadMoves DEF Place
    <2> QED
      BY <1>2, <2>1, <2>2
  <1> QED
    BY <1>5, <1>6 DEF Create, Typed, sessionvars

LEMMA DeleteTyped == ASSUME Typed, NEW t \in Thread, Delete(t) PROVE Typed'
  <1>1. pc[t] = "act" /\ req[t].kind = "delete" /\ req[t].code \in Code
    BY HasRequest DEF Delete, Typed, Standing
  <1>2. links' \in [Code -> Link \union {None}]
    BY <1>1 DEF Delete, Typed
  <1>3. pc' = [pc EXCEPT ![t] = "idle"]
    BY DEF Delete, Goto
  <1>4. req' = [u \in Thread |->
               IF u = t THEN None
               ELSE IF Outlives(u, req[t].code) THEN [req[u] EXCEPT !.stray = TRUE]
               ELSE req[u]]
    BY DEF Delete
  <1>5. ASSUME NEW u \in Thread PROVE req'[u] \in Request \union {None} /\ Standing(u)'
    <2>1. CASE u = t
      BY <1>3, <1>4, <2>1 DEF Standing, Typed
    <2>2. CASE u # t /\ Outlives(u, req[t].code)
      <3> DEFINE r == [req[u] EXCEPT !.stray = TRUE]
      <3>1. pc[u] # "idle"
        BY <2>2 DEF Outlives, Typed, Standing
      <3>2. /\ r \in Request /\ r.kind = req[u].kind /\ r.session = req[u].session
            /\ r.seen = req[u].seen /\ r.code = req[u].code /\ r.target = req[u].target
        BY <3>1, HasRequest DEF Request
      <3>3. pc'[u] = pc[u] /\ req'[u] = r
        BY <1>3, <1>4, <2>2 DEF Typed
      <3> HIDE DEF r
      <3>4. Standing(u) /\ req[u] # None
        BY <3>1, HasRequest DEF Typed
      <3> QED
        BY <3>1, <3>2, <3>3, <3>4 DEF Standing
    <2>3. CASE u # t /\ ~Outlives(u, req[t].code)
      BY <1>3, <1>4, <2>3 DEF Standing, Typed
    <2> QED
      BY <2>1, <2>2, <2>3
  <1>6. pc' \in [Thread -> Place] /\ req' \in [Thread -> Request \union {None}]
    BY <1>3, <1>4, <1>5 DEF Typed, Place
  <1> QED
    BY <1>2, <1>5, <1>6 DEF Delete, Typed, sessionvars

LEMMA FollowTyped == ASSUME Typed, NEW t \in Thread, Follow(t) PROVE Typed'
  <1> DEFINE row == links[req[t].code]
  <1>1. pc[t] = "act" /\ req[t].kind \in {"get", "head"} /\ req[t].code \in Code
    BY HasRequest DEF Follow, Typed, Standing
  <1>2. /\ pc' \in [Thread -> Place]
        /\ req' \in [Thread -> Request \union {None}]
        /\ \A u \in Thread : Standing(u)'
    <2>1. CASE /\ row # None
               /\ Set(t, [req[t] EXCEPT !.seen = row])
               /\ Goto(t, IF req[t].kind = "get" THEN "count" ELSE "answer")
      <3> DEFINE r == [req[t] EXCEPT !.seen = row]
      <3>1. row \in Link
        BY <1>1, <2>1 DEF Typed
      <3>2. r \in Request /\ r.kind = req[t].kind /\ r.seen = row /\ r.code = req[t].code
        BY <1>1, <3>1, HasRequest DEF Request
      <3>3. \E place \in {"count", "answer"} :
              /\ place = "count" <=> req[t].kind = "get"
              /\ pc' = [pc EXCEPT ![t] = place] /\ req' = [req EXCEPT ![t] = r]
        BY <2>1 DEF Goto, Set
      <3> HIDE DEF r
      <3>4. PICK place \in {"count", "answer"} :
              /\ place = "count" <=> req[t].kind = "get"
              /\ pc' = [pc EXCEPT ![t] = place] /\ req' = [req EXCEPT ![t] = r]
        BY <3>3
      <3>5. pc'[t] = place /\ req'[t] = r
        BY <3>4 DEF Typed
      <3>6. r.code # None
        BY <1>1, <3>2, NoneIsNothing
      <3> HIDE DEF row
      <3>7. Standing(t)'
        BY <1>1, <2>1, <3>2, <3>4, <3>5, <3>6 DEF Standing
      <3> QED
        BY <3>2, <3>4, <3>7, ThreadMoves DEF Place
    <2>2. CASE Leave(t)
      BY <2>2, ThreadLeaves
    <2> QED
      BY <2>1, <2>2 DEF Follow
  <1> QED
    BY <1>2 DEF Follow, Typed, sessionvars, linkvars

LEMMA CountTyped == ASSUME Typed, NEW t \in Thread, Count(t) PROVE Typed'
  <1> DEFINE c == req[t].code
  <1>1. pc[t] = "count" /\ req[t].kind = "get" /\ req[t].seen # None /\ c \in Code
    BY HasRequest DEF Count, Typed, Standing
  <1>2. pc'[t] = "answer" /\ req'[t] = req[t]
    BY DEF Count, Goto, Typed
  <1>3. Standing(t)'
    BY <1>1, <1>2 DEF Standing, Typed
  <1>4. /\ pc' \in [Thread -> Place]
        /\ req' \in [Thread -> Request \union {None}]
        /\ \A u \in Thread : Standing(u)'
    BY <1>1, <1>3, ThreadGoes DEF Count, Place
  <1>5. links' \in [Code -> Link \union {None}] /\ strays' \in [Code -> Nat]
    <2>1. CASE /\ links[c] # None
               /\ links' = [links EXCEPT ![c].clicks = links[c].clicks + 1]
               /\ strays' = [strays EXCEPT ![c] = @ + (IF req[t].stray THEN 1 ELSE 0)]
      <3>1. [links[c] EXCEPT !.clicks = links[c].clicks + 1] \in Link
        BY <1>1, <2>1 DEF Typed, Link
      <3> QED
        BY <1>1, <2>1, <3>1 DEF Typed
    <2>2. CASE links' = links /\ strays' = strays
      BY <2>2 DEF Typed
    <2> QED
      BY <2>1, <2>2 DEF Count, ClicksAfter
  <1> QED
    BY <1>4, <1>5 DEF Count, Typed, sessionvars

LEMMA AnswerTyped == ASSUME Typed, NEW t \in Thread, Answer(t) PROVE Typed'
  <1>1. /\ pc' \in [Thread -> Place]
        /\ req' \in [Thread -> Request \union {None}]
        /\ \A u \in Thread : Standing(u)'
    BY ThreadLeaves DEF Answer
  <1>2. pc[t] = "answer" /\ (req[t].kind = "login" => req[t].session \in Token)
    BY DEF Answer, Typed, Standing
  <1>3. \/ /\ req[t].kind = "login"
           /\ cookie' = [cookie EXCEPT ![req[t].browser] = req[t].session]
        \/ cookie' = [cookie EXCEPT ![req[t].browser] = None]
        \/ cookie' = cookie
    BY DEF Answer
  <1>4. cookie' \in [Browser -> AnyToken \union {None}]
    BY <1>2, <1>3 DEF Typed
  <1>5. visits' \in [Code -> Nat]
    BY DEF Answer, Typed
  <1> QED
    BY <1>1, <1>4, <1>5 DEF Answer, Typed, sessionvars

LEMMA FailsTyped == ASSUME Typed, NEW t \in Thread, Fails(t) PROVE Typed'
  <1>1. /\ pc' \in [Thread -> Place]
        /\ req' \in [Thread -> Request \union {None}]
        /\ \A u \in Thread : Standing(u)'
    BY ThreadLeaves DEF Fails
  <1>2. /\ spent' \in [DOMAIN Bound -> Nat]
        /\ \A c \in DOMAIN Bound : spent'[c] <= Bound[c]
    BY BoundsAreNumbers, SpendKeepsBounds DEF Fails
  <1>3. strays' \in [Code -> Nat]
    BY DEF Fails, Typed
  <1>4. lapses' \subseteq {"overlap", "lost", "rehashed"}
    BY DEF Fails, Typed
  <1> QED
    BY <1>1, <1>2, <1>3, <1>4 DEF Fails, Typed, sessionvars

LEMMA CountedAreThreads ==
  ASSUME NEW c PROVE /\ IsFiniteSet({t \in Thread : Counted(t, c)})
                     /\ Cardinality({t \in Thread : Counted(t, c)}) \in Nat
  BY AccessAssumption, FS_Subset, FS_CardinalityType

LEMMA RestartTyped == ASSUME Typed, Restart PROVE Typed'
  <1>1. /\ pc' \in [Thread -> Place]
        /\ req' \in [Thread -> Request \union {None}]
        /\ \A u \in Thread : Standing(u)'
    BY DEF Restart, Standing, Place
  <1>2. /\ spent' \in [DOMAIN Bound -> Nat]
        /\ \A c \in DOMAIN Bound : spent'[c] <= Bound[c]
    BY BoundsAreNumbers, SpendKeepsBounds DEF Restart
  <1>3. strays' \in [Code -> Nat]
    <2>1. strays' = [c \in Code |-> strays[c] + Cardinality({t \in Thread : Counted(t, c)})]
      BY DEF Restart
    <2>2. \A c \in Code : Cardinality({t \in Thread : Counted(t, c)}) \in Nat
      BY CountedAreThreads
    <2> QED
      BY <2>1, <2>2 DEF Typed
  <1>4. lapses' \subseteq {"overlap", "lost", "rehashed"}
    BY DEF Restart, Typed
  <1> QED
    BY <1>1, <1>2, <1>3, <1>4 DEF Restart, Typed, sessionvars

LEMMA TypedStep == Typed /\ [Next]_vars => Typed'
  <1> SUFFICES ASSUME Typed, [Next]_vars PROVE Typed'
    OBVIOUS
  <1>1. ASSUME NEW t \in Thread, Arrive(t) \/ Serve(t) \/ Fails(t) PROVE Typed'
    BY <1>1, ArriveTyped, LookTyped, DropTyped, IssueTyped, LogoutTyped, CreateTyped,
       DeleteTyped, FollowTyped, CountTyped, AnswerTyped, FailsTyped DEF Serve
  <1>2. CASE Tick
    BY <1>2, BoundsAreNumbers DEF Tick, Typed, Standing, sessionvars, linkvars
  <1>3. CASE UNCHANGED vars
    BY <1>3 DEF vars, Typed, Standing
  <1> QED
    BY <1>1, <1>2, <1>3, RestartTyped DEF Next

-----------------------------------------------------------------------------
(* Sessions.  A row is as it was made and not revoked; a request that found *)
(* a session found such a row after it had come.                            *)

Drawn == used \union {Legacy}

Entitled(t) ==
  /\ req[t].session \in Drawn \union {None}
  /\ req[t].old.revoked \subseteq revoked
  /\ req[t].old.now <= now
  /\ req[t].session # None =>
       /\ issued[req[t].session].binding = hash
       /\ req[t].session \notin req[t].old.revoked
       /\ issued[req[t].session].expires > req[t].old.now

SessionInv ==
  /\ \A k \in AnyToken : sessions[k] # None =>
       k \in Drawn /\ k \notin revoked /\ sessions[k] = issued[k]
  /\ revoked \subseteq Drawn
  /\ \A b \in Browser : cookie[b] \in Drawn \union {None}
  /\ \A t \in Thread : pc[t] # "idle" => Entitled(t)

LEMMA SessionInit == Init => SessionInv
  BY DEF Init, SessionInv, Drawn

(* Requests stay entitled while the time goes on and more is revoked.       *)
LEMMA StaysEntitled ==
  ASSUME Typed, NEW t \in Thread, pc[t] # "idle", Entitled(t),
         req'[t].session = req[t].session, req'[t].old = req[t].old,
         used \subseteq used', revoked \subseteq revoked', now' \in Nat, now <= now', hash' = hash,
         \A k \in Drawn : issued'[k] = issued[k]
  PROVE  Entitled(t)'
  <1>1. req[t].old.now \in Nat /\ now \in Nat
    BY HasRequest, BoundsAreNumbers DEF Typed
  <1> QED
    BY <1>1 DEF Entitled, Drawn

LEMMA SessionsUntouched ==
  ASSUME Typed, SessionInv, UNCHANGED sessionvars, hash' = hash, now' \in Nat, now <= now',
         \A b \in Browser : cookie'[b] \in Drawn \union {None},
         \A t \in Thread : pc'[t] # "idle" =>
           \/ Entitled(t)'
           \/ /\ pc[t] # "idle"
              /\ req'[t].session = req[t].session /\ req'[t].old = req[t].old
  PROVE  SessionInv'
  <1>1. \A t \in Thread : pc'[t] # "idle" => Entitled(t)'
    BY StaysEntitled DEF SessionInv, sessionvars
  <1> QED
    BY <1>1 DEF SessionInv, sessionvars, Drawn

LEMMA SessionStep == Typed /\ Typed' /\ SessionInv /\ [Next]_vars => SessionInv'
  <1> SUFFICES ASSUME Typed, Typed', SessionInv, [Next]_vars PROVE SessionInv'
    OBVIOUS
  <1>0. now \in Nat /\ now' \in Nat /\ now <= now /\ \A b \in Browser : cookie[b] \in Drawn \union {None}
    BY BoundsAreNumbers DEF Typed, SessionInv
  <1>1. ASSUME NEW t \in Thread, Arrive(t) PROVE SessionInv'
    <2>1. PICK r : /\ r.session = None /\ r.old = [revoked |-> revoked, now |-> now]
                   /\ req' = [req EXCEPT ![t] = r]
      BY <1>1 DEF Arrive, Set
    <2>2. req'[t] = r
      BY <2>1 DEF Typed
    <2>3. Entitled(t)'
      BY <1>0, <1>1, <2>1, <2>2 DEF Entitled, Arrive, sessionvars
    <2>4. \A u \in Thread \ {t} : pc'[u] = pc[u] /\ req'[u] = req[u]
      BY <1>1, <2>1 DEF Arrive, Goto, Typed
    <2> QED
      BY <1>0, <1>1, <2>3, <2>4, SessionsUntouched DEF Arrive
  <1>2. ASSUME NEW t \in Thread, Look(t) PROVE SessionInv'
    <2>1. \A u \in Thread \ {t} : pc'[u] = pc[u] /\ req'[u] = req[u]
      BY <1>2 DEF Look, Goto, Set, Leave, Typed
    <2>2. CASE Valid(req[t].token) /\ Set(t, [req[t] EXCEPT !.session = req[t].token])
      <3> DEFINE k == req[t].token
      <3>1. k \in AnyToken
        BY <1>2, <2>2, HasRequest DEF Look, Valid
      <3>2. /\ k \in Drawn /\ k \notin revoked /\ issued[k].binding = hash
            /\ issued[k].expires > now
        BY <2>2, <3>1 DEF Valid, BoundRow, SessionInv
      <3>3. /\ req'[t].session = k /\ req'[t].old = req[t].old
            /\ req[t].old \in [revoked : SUBSET AnyToken, now : Nat]
        BY <1>2, <2>2, HasRequest DEF Look, Set, Typed, Request
      <3>4. req[t].old.revoked \subseteq revoked /\ req[t].old.now <= now
        BY <1>2 DEF SessionInv, Entitled, Look
      <3>5. issued[k].expires \in Nat /\ req[t].old.now \in Nat
        BY <3>1, <3>3 DEF Typed, Row
      <3>6. issued[k].expires > req[t].old.now
        BY <1>0, <3>2, <3>4, <3>5
      <3> HIDE DEF k
      <3>7. Entitled(t)'
        BY <1>2, <3>2, <3>3, <3>4, <3>6 DEF Entitled, Look, sessionvars, Drawn
      <3> QED
        BY <1>0, <1>2, <2>1, <3>7, SessionsUntouched DEF Look
    <2>3. CASE req' = req \/ Leave(t)
      <3>1. pc'[t] = "idle" \/ req'[t] = req[t]
        BY <2>3 DEF Leave, Goto, Typed
      <3> QED
        BY <1>0, <1>2, <2>1, <3>1, SessionsUntouched DEF Look
    <2> QED
      BY <1>2, <2>2, <2>3 DEF Look
  <1>3. ASSUME NEW t \in Thread, Drop(t) \/ Logout(t) PROVE SessionInv'
    <2>1. Deleted(req[t].session) /\ req[t].session \in AnyToken /\ pc[t] # "idle"
      BY <1>3, HasRequest DEF Drop, Logout, Replaced, Typed, Standing
    <2>2. req[t].session \in Drawn
      BY <2>1, NoneIsNothing DEF SessionInv, Entitled
    <2>3. \A u \in Thread : pc'[u] # "idle" => pc[u] # "idle" /\ req'[u] = req[u]
      BY <1>3, <2>1 DEF Drop, Logout, Goto, Typed
    <2>4. \A u \in Thread : pc'[u] # "idle" => Entitled(u)'
      BY <1>0, <1>3, <2>1, <2>3, StaysEntitled DEF Deleted, Drop, Logout, SessionInv
    <2>5. \A k \in AnyToken : sessions'[k] # None =>
            k # req[t].session /\ sessions'[k] = sessions[k]
      BY <2>1 DEF Deleted, Typed
    <2> QED
      BY <1>3, <2>1, <2>2, <2>4, <2>5 DEF Deleted, Drop, Logout, SessionInv, Drawn
  <1>4. ASSUME NEW t \in Thread, Issue(t) PROVE SessionInv'
    <2> DEFINE row == [binding |-> hash, expires |-> now + Ttl]
    <2>1. PICK k \in Token \ used :
            /\ sessions' = [sessions EXCEPT ![k] = row]
            /\ issued' = [issued EXCEPT ![k] = row]
            /\ used' = used \union {k}
            /\ Set(t, [req[t] EXCEPT !.session = k])
      BY <1>4 DEF Issue
    <2>2. k \notin Drawn /\ k \in AnyToken
      BY AccessAssumption DEF Drawn
    <2>3. req'[t].session = k /\ req'[t].old = req[t].old
      BY <1>4, <2>1, HasRequest DEF Issue, Set, Typed, Request
    <2>4. /\ req[t].old.revoked \subseteq revoked /\ req[t].old.now <= now
          /\ req[t].old.now \in Nat
      BY <1>4, HasRequest DEF SessionInv, Entitled, Issue
    <2>5. issued'[k] = row /\ sessions'[k] = row /\ row.binding = hash /\ row.expires = now + Ttl
      BY <2>1, <2>2 DEF Typed
    <2>6. row.expires > req[t].old.now
      BY <1>0, <2>4, <2>5, AccessAssumption
    <2> HIDE DEF row
    <2>7. k \notin revoked
      BY <2>2 DEF SessionInv
    <2>8. Entitled(t)'
      BY <1>4, <2>1, <2>3, <2>4, <2>5, <2>6, <2>7 DEF Entitled, Issue, Drawn
    <2>9. \A x \in AnyToken \ {k} : issued'[x] = issued[x] /\ sessions'[x] = sessions[x]
      BY <2>1 DEF Typed
    <2>10. \A x \in Drawn : issued'[x] = issued[x]
      BY <2>2, <2>9 DEF Drawn, Typed
    <2>11. \A u \in Thread \ {t} : pc'[u] # "idle" => pc[u] # "idle" /\ req'[u] = req[u]
      BY <1>4, <2>1 DEF Issue, Goto, Set, Typed
    <2>12. \A u \in Thread : pc'[u] # "idle" => Entitled(u)'
      BY <1>0, <1>4, <2>1, <2>8, <2>10, <2>11, StaysEntitled DEF Issue, SessionInv
    <2>13. Drawn' = Drawn \union {k}
      BY <2>1 DEF Drawn
    <2> QED
      BY <1>4, <2>2, <2>5, <2>7, <2>9, <2>12, <2>13 DEF Issue, SessionInv
  <1>5. ASSUME NEW t \in Thread, Create(t) \/ Follow(t) \/ Count(t) \/ Fails(t) PROVE SessionInv'
    <2>1. pc[t] # "idle"
      BY <1>5 DEF Create, Follow, Count, Fails
    <2>2. \A u \in Thread \ {t} : pc'[u] = pc[u] /\ req'[u] = req[u]
      BY <1>5 DEF Create, Follow, Count, Fails, Goto, Set, Leave, Typed
    <2>3. \/ pc'[t] = "idle"
          \/ req'[t].session = req[t].session /\ req'[t].old = req[t].old
      <3>1. CASE Create(t)
        BY <2>1, <3>1, HasRequest DEF Create, Goto, Set, Leave, Typed, Request
      <3>2. CASE Follow(t)
        BY <2>1, <3>2, HasRequest DEF Follow, Goto, Set, Leave, Typed, Request
      <3>3. CASE Count(t) \/ Fails(t)
        BY <3>3 DEF Count, Fails, Goto, Leave, Typed
      <3> QED
        BY <1>5, <3>1, <3>2, <3>3
    <2>4. UNCHANGED <<sessionvars, cookie, hash, now>>
      BY <1>5 DEF Create, Follow, Count, Fails
    <2> QED
      BY <1>0, <2>1, <2>2, <2>3, <2>4, SessionsUntouched
  <1>6. ASSUME NEW t \in Thread, Delete(t) PROVE SessionInv'
    <2>1. \A u \in Thread : pc'[u] # "idle" =>
            /\ pc[u] # "idle" /\ u # t
            /\ req'[u] \in {req[u], [req[u] EXCEPT !.stray = TRUE]}
      BY <1>6 DEF Delete, Goto, Typed
    <2>2. \A u \in Thread : pc'[u] # "idle" =>
            /\ pc[u] # "idle"
            /\ req'[u].session = req[u].session /\ req'[u].old = req[u].old
      BY <2>1, HasRequest DEF Request
    <2> QED
      BY <1>0, <1>6, <2>2, SessionsUntouched DEF Delete
  <1>7. ASSUME NEW t \in Thread, Answer(t) PROVE SessionInv'
    <2>1. \A u \in Thread : pc'[u] # "idle" => pc[u] # "idle" /\ req'[u] = req[u]
      BY <1>7 DEF Answer, Leave, Goto, Set, Typed
    <2>2. req[t].session \in Drawn \union {None}
      BY <1>7 DEF Answer, SessionInv, Entitled
    <2>3. \A b \in Browser : cookie'[b] \in Drawn \union {None}
      <3>1. \/ cookie' = [cookie EXCEPT ![req[t].browser] = req[t].session]
            \/ cookie' = [cookie EXCEPT ![req[t].browser] = None]
            \/ cookie' = cookie
        BY <1>7 DEF Answer
      <3> QED
        BY <1>0, <2>2, <3>1 DEF Typed
    <2> QED
      BY <1>0, <1>7, <2>1, <2>3, SessionsUntouched DEF Answer
  <1>8. CASE Restart
    BY <1>8 DEF Restart, SessionInv, Drawn, sessionvars
  <1>9. CASE Tick \/ UNCHANGED vars
    BY <1>0, <1>9, SessionsUntouched DEF Tick, vars, sessionvars
  <1> QED
    BY <1>1, <1>2, <1>3, <1>4, <1>5, <1>6, <1>7, <1>8, <1>9 DEF Next, Serve

-----------------------------------------------------------------------------
(* Clicks.  A request that has read a link and is no stray finds it there.  *)

Unanswered(c) == {t \in Thread : Counted(t, c)}

NoStray(t) == req[t].seen # None /\ ~req[t].stray => links[req[t].code] # None

ClickInv ==
  /\ ClicksExact
  /\ \A t \in Thread : pc[t] # "idle" => NoStray(t)

OthersWait(t) == \A u \in Thread \ {t} : pc'[u] = pc[u] /\ req'[u] = req[u]

LEMMA ClickInit == Init => ClickInv
  BY DEF Init, ClickInv, ClicksExact

LEMMA NowUnanswered ==
  ASSUME NEW t \in Thread, NEW c, OthersWait(t), ~Counted(t, c), Counted(t, c)'
  PROVE  Cardinality(Unanswered(c)') = Cardinality(Unanswered(c)) + 1
  <1>1. Unanswered(c)' = Unanswered(c) \union {t} /\ t \notin Unanswered(c)
    BY DEF OthersWait, Unanswered, Counted
  <1> QED
    BY <1>1, CountedAreThreads, FS_AddElement DEF Unanswered

LEMMA NowAnswered ==
  ASSUME NEW t \in Thread, NEW c, OthersWait(t), Counted(t, c), ~Counted(t, c)'
  PROVE  Cardinality(Unanswered(c)) = Cardinality(Unanswered(c)') + 1
  <1>1. Unanswered(c)' = Unanswered(c) \ {t} /\ t \in Unanswered(c)
    BY DEF OthersWait, Unanswered, Counted
  <1>2. /\ Cardinality(Unanswered(c)') = Cardinality(Unanswered(c)) - 1
        /\ Cardinality(Unanswered(c)) \in Nat
    BY <1>1, CountedAreThreads, FS_RemoveElement DEF Unanswered
  <1> QED
    BY <1>2

LEMMA StillCounted ==
  ASSUME NEW t \in Thread, NEW c, OthersWait(t), Counted(t, c)' <=> Counted(t, c)
  PROVE  Unanswered(c)' = Unanswered(c)
  BY DEF OthersWait, Unanswered, Counted

(* A step that changes neither links nor what is counted.                   *)
LEMMA ClicksUntouched ==
  ASSUME ClickInv, NEW t \in Thread, OthersWait(t), UNCHANGED linkvars,
         \A c \in Code : Counted(t, c)' <=> Counted(t, c),
         pc'[t] # "idle" => NoStray(t)'
  PROVE  ClickInv'
  <1>1. \A c \in Code : Unanswered(c)' = Unanswered(c)
    BY StillCounted
  <1>2. \A u \in Thread : pc'[u] # "idle" => NoStray(u)'
    BY DEF OthersWait, ClickInv, NoStray, linkvars
  <1> QED
    BY <1>1, <1>2 DEF ClickInv, ClicksExact, Unanswered, linkvars

LEMMA ClickStep == Typed /\ Typed' /\ ClickInv /\ [Next]_vars => ClickInv'
  <1> SUFFICES ASSUME Typed, Typed', ClickInv, [Next]_vars PROVE ClickInv'
    OBVIOUS
  <1>1. ASSUME NEW t \in Thread, Arrive(t) PROVE ClickInv'
    <2>1. PICK r : r.seen = None /\ req' = [req EXCEPT ![t] = r]
      BY <1>1 DEF Arrive, Set
    <2>2. /\ req'[t] = r /\ pc'[t] \in {"act", "look"} /\ pc[t] = "idle"
          /\ OthersWait(t)
      BY <1>1, <2>1 DEF Typed, Arrive, Goto, OthersWait
    <2>3. \A c \in Code : Counted(t, c)' <=> Counted(t, c)
      BY <2>2 DEF Counted
    <2> QED
      BY <1>1, <2>1, <2>2, <2>3, ClicksUntouched DEF Arrive, NoStray
  <1>2. ASSUME NEW t \in Thread, Look(t) \/ Drop(t) \/ Issue(t) \/ Logout(t) PROVE ClickInv'
    <2>1. /\ pc[t] \in {"look", "drop", "issue", "act"} /\ UNCHANGED linkvars
          /\ pc[t] \in {"look", "act"} => req[t].kind \in Authorised \union {"login"}
          /\ pc[t] \in {"drop", "issue"} => req[t].kind = "login"
      BY <1>2 DEF Look, Drop, Issue, Logout, Typed, Standing
    <2>2. OthersWait(t)
      BY <1>2 DEF OthersWait, Look, Drop, Issue, Logout, Goto, Set, Leave, Typed
    <2>3. \/ pc'[t] = "idle"
          \/ \E k : req'[t] \in {req[t], [req[t] EXCEPT !.session = k]}
      <3>1. CASE Look(t)
        BY <3>1 DEF Look, Goto, Set, Leave, Typed
      <3>2. CASE Issue(t)
        <4>1. PICK k : Set(t, [req[t] EXCEPT !.session = k])
          BY <3>2 DEF Issue
        <4> QED
          BY <4>1 DEF Set, Typed
      <3>3. CASE Drop(t) \/ Logout(t)
        BY <3>3 DEF Drop, Logout, Typed
      <3> QED
        BY <1>2, <3>1, <3>2, <3>3
    <2>4. \/ pc'[t] = "idle"
          \/ /\ req'[t].kind = req[t].kind /\ req'[t].seen = req[t].seen
             /\ req'[t].stray = req[t].stray /\ req'[t].code = req[t].code
      BY <2>1, <2>3, HasRequest DEF Request
    <2>5. \A c \in Code : Counted(t, c)' <=> Counted(t, c)
      BY <2>1, <2>4 DEF Counted
    <2>6. pc'[t] # "idle" => NoStray(t)'
      BY <2>1, <2>4 DEF ClickInv, NoStray, linkvars
    <2> QED
      BY <2>1, <2>2, <2>5, <2>6, ClicksUntouched
  <1>3. ASSUME NEW t \in Thread, Create(t) PROVE ClickInv'
    <2>1. PICK c \in IF req[t].code # None THEN {req[t].code} ELSE Code :
         \/ /\ ~Taken(c)
            /\ links' = [links EXCEPT ![c] = [target |-> req[t].target, clicks |-> 0]]
            /\ visits' = [visits EXCEPT ![c] = 0]
            /\ strays' = [strays EXCEPT ![c] = 0]
            /\ Leave(t)
         \/ /\ Leave(t)
            /\ UNCHANGED linkvars
         \/ /\ Set(t, [req[t] EXCEPT !.tries = @ + 1])
            /\ UNCHANGED <<linkvars, pc>>
      BY <1>3 DEF Create
    <2>2. pc[t] = "act" /\ OthersWait(t) /\ c \in Code
      BY <1>3, <2>1, HasRequest DEF Create, OthersWait, Set, Leave, Goto, Typed
    <2>3. CASE Leave(t) /\ UNCHANGED linkvars
      <3>1. pc'[t] = "idle"
        BY <2>3 DEF Leave, Goto, Typed
      <3> QED
        BY <2>2, <2>3, <3>1, ClicksUntouched DEF Counted
    <2>4. CASE Set(t, [req[t] EXCEPT !.tries = @ + 1]) /\ UNCHANGED <<linkvars, pc>>
      <3>1. /\ req'[t].seen = req[t].seen /\ req'[t].stray = req[t].stray
            /\ req'[t].code = req[t].code
        BY <2>2, <2>4, HasRequest DEF Set, Typed, Request
      <3>2. NoStray(t)'
        BY <2>2, <2>4, <3>1 DEF ClickInv, NoStray, linkvars
      <3> QED
        BY <2>2, <2>4, <3>2, ClicksUntouched DEF Counted
    <2>5. CASE /\ ~Taken(c)
               /\ links' = [links EXCEPT ![c] = [target |-> req[t].target, clicks |-> 0]]
               /\ visits' = [visits EXCEPT ![c] = 0]
               /\ strays' = [strays EXCEPT ![c] = 0]
               /\ Leave(t)
      <3>1. pc'[t] = "idle"
        BY <2>5 DEF Leave, Goto, Typed
      <3>2. \A x \in Code : Unanswered(x)' = Unanswered(x)
        BY <2>2, <3>1, StillCounted DEF Counted
      <3>3. Unanswered(c) = {}
        BY <2>5 DEF Unanswered, Counted, ClickInv, NoStray, Taken, Typed, Standing
      <3>4. links'[c].clicks = 0 /\ visits'[c] = 0 /\ strays'[c] = 0
        BY <2>2, <2>5 DEF Typed
      <3>5. links'[c].clicks = visits'[c] + strays'[c] + Cardinality(Unanswered(c)')
        BY <2>2, <3>2, <3>3, <3>4, FS_EmptySet
      <3>6. \A x \in Code \ {c} : links'[x] = links[x] /\ visits'[x] = visits[x] /\ strays'[x] = strays[x]
        BY <2>5 DEF Typed
      <3>7. ClicksExact'
        BY <3>2, <3>5, <3>6 DEF ClicksExact, ClickInv, Unanswered
      <3>8. links'[c] # None
        BY <2>2, <2>5, <1>3, HasRequest, NoneIsNothing DEF Typed, Create, Standing, Link
      <3>9. ASSUME NEW u \in Thread, pc'[u] # "idle" PROVE NoStray(u)'
        BY <2>2, <3>1, <3>6, <3>8, <3>9, HasRequest DEF OthersWait, ClickInv, NoStray, Typed, Standing
      <3> QED
        BY <3>7, <3>9 DEF ClickInv
    <2> QED
      BY <2>1, <2>3, <2>4, <2>5
  <1>4. ASSUME NEW t \in Thread, Delete(t) PROVE ClickInv'
    <2> DEFINE c == req[t].code
    <2>1. /\ links' = [links EXCEPT ![c] = None] /\ UNCHANGED <<visits, strays>>
          /\ pc' = [pc EXCEPT ![t] = "idle"] /\ pc[t] = "act" /\ c \in Code
      BY <1>4, HasRequest DEF Delete, Goto, Typed, Standing
    <2>2. \A u \in Thread \ {t} :
            req'[u] = IF Outlives(u, c) THEN [req[u] EXCEPT !.stray = TRUE] ELSE req[u]
      BY <1>4 DEF Delete
    <2>3. ASSUME NEW u \in Thread, u # t, pc[u] # "idle"
          PROVE  /\ req'[u].kind = req[u].kind /\ req'[u].code = req[u].code
                 /\ req'[u].seen = req[u].seen
                 /\ req'[u].stray = (req[u].stray \/ (req[u].code = c /\ req[u].seen # None))
      BY <2>2, <2>3, HasRequest DEF Outlives, Request
    <2>4. \A x \in Code \ {c} : links'[x] = links[x] /\ Unanswered(x)' = Unanswered(x)
      <3>1. ASSUME NEW x \in Code \ {c}, NEW u \in Thread PROVE Counted(u, x)' <=> Counted(u, x)
        <4>1. CASE u = t
          BY <2>1, <4>1 DEF Counted, Typed
        <4>2. CASE u # t /\ pc[u] # "idle"
          <5>1. req[u].stray \in BOOLEAN /\ pc'[u] = pc[u]
            BY <2>1, <4>2, HasRequest DEF Typed
          <5> HIDE DEF c
          <5> QED
            BY <2>3, <4>2, <5>1 DEF Counted
        <4>3. CASE u # t /\ pc[u] = "idle"
          BY <2>1, <4>3 DEF Counted, Typed
        <4> QED
          BY <4>1, <4>2, <4>3
      <3> QED
        BY <2>1, <3>1 DEF Unanswered, Typed
    <2>5. links'[c] = None
      BY <2>1 DEF Typed
    <2>6. ClicksExact'
      BY <2>1, <2>4, <2>5 DEF ClicksExact, ClickInv, Unanswered
    <2>7. ASSUME NEW u \in Thread, pc'[u] # "idle" PROVE NoStray(u)'
      <3>1. u # t /\ pc[u] # "idle"
        BY <2>1, <2>7 DEF Typed
      <3>2. req[u].seen # None => req[u].code \in Code
        BY <3>1, HasRequest DEF Typed, Standing
      <3> HIDE DEF c
      <3> QED
        BY <2>3, <2>4, <3>1, <3>2 DEF ClickInv, NoStray
    <2> QED
      BY <2>6, <2>7 DEF ClickInv
  <1>5. ASSUME NEW t \in Thread, Follow(t) PROVE ClickInv'
    <2>1. /\ pc[t] = "act" /\ UNCHANGED linkvars /\ OthersWait(t)
          /\ req[t].kind \in {"get", "head"} /\ req[t].code \in Code
      BY <1>5, HasRequest DEF Follow, OthersWait, Goto, Set, Leave, Typed, Standing
    <2>2. CASE Leave(t)
      <3>1. pc'[t] = "idle"
        BY <2>2 DEF Leave, Goto, Typed
      <3> QED
        BY <2>1, <3>1, ClicksUntouched DEF Counted
    <2>3. CASE /\ links[req[t].code] # None
               /\ Set(t, [req[t] EXCEPT !.seen = links[req[t].code]])
               /\ Goto(t, IF req[t].kind = "get" THEN "count" ELSE "answer")
      <3>1. /\ req'[t].kind = req[t].kind /\ req'[t].code = req[t].code
            /\ pc'[t] = IF req[t].kind = "get" THEN "count" ELSE "answer"
        BY <2>1, <2>3, HasRequest DEF Set, Goto, Typed, Request
      <3>2. \A c \in Code : ~Counted(t, c)' /\ ~Counted(t, c)
        BY <2>1, <3>1 DEF Counted
      <3>3. NoStray(t)'
        BY <2>1, <2>3, <3>1 DEF NoStray, linkvars
      <3> QED
        BY <2>1, <3>2, <3>3, ClicksUntouched
    <2> QED
      BY <1>5, <2>2, <2>3 DEF Follow
  <1>6. ASSUME NEW t \in Thread, Count(t) PROVE ClickInv'
    <2>0. PICK c \in Code : c = req[t].code
      BY <1>6, HasRequest DEF Count, Typed, Standing
    <2>1. /\ pc[t] = "count" /\ req[t].kind = "get" /\ req[t].seen # None
          /\ req[t].stray \in BOOLEAN /\ pc'[t] = "answer" /\ req'[t] = req[t]
          /\ visits' = visits /\ OthersWait(t)
      BY <1>6, HasRequest DEF Count, OthersWait, Goto, Typed, Standing
    <2>2. \A x \in Code : (links'[x] # None) <=> (links[x] # None)
      <3>1. CASE links[c] # None /\ links' = [links EXCEPT ![c].clicks = links[c].clicks + 1]
        <4>1. [links[c] EXCEPT !.clicks = links[c].clicks + 1] \in Link
          BY <3>1 DEF Typed, Link
        <4> QED
          BY <2>1, <3>1, <4>1, NoneIsNothing DEF Typed
      <3> QED
        BY <1>6, <2>0, <3>1 DEF Count, ClicksAfter
    <2>3. \A u \in Thread : pc'[u] # "idle" => NoStray(u)'
      <3>1. ASSUME NEW u \in Thread, pc'[u] # "idle" PROVE NoStray(u)'
        <4>1. pc[u] # "idle" /\ req'[u] = req[u]
          BY <2>1, <3>1 DEF OthersWait
        <4>2. req[u].seen # None => req[u].code \in Code
          BY <4>1, HasRequest DEF Typed, Standing
        <4> QED
          BY <2>2, <4>1, <4>2 DEF ClickInv, NoStray
      <3> QED
        BY <3>1
    <2>4. \A x \in Code \ {c} : Unanswered(x)' = Unanswered(x)
      BY <2>0, <2>1, StillCounted DEF Counted
    <2>5. Cardinality(Unanswered(c)') =
            Cardinality(Unanswered(c)) + (IF req[t].stray THEN 0 ELSE 1)
      <3>1. CASE req[t].stray
        <4>1. Unanswered(c)' = Unanswered(c)
          BY <2>0, <2>1, <3>1, StillCounted DEF Counted
        <4>2. Cardinality(Unanswered(c)) \in Nat
          BY CountedAreThreads DEF Unanswered
        <4> QED
          BY <3>1, <4>1, <4>2
      <3>2. CASE ~req[t].stray
        BY <2>0, <2>1, <3>2, NowUnanswered DEF Counted
      <3> QED
        BY <3>1, <3>2
    <2>6. Cardinality(Unanswered(c)) \in Nat
      BY CountedAreThreads DEF Unanswered
    <2>7. CASE /\ links[c] # None
               /\ links' = [links EXCEPT ![c].clicks = links[c].clicks + 1]
               /\ strays' = [strays EXCEPT ![c] = @ + (IF req[t].stray THEN 1 ELSE 0)]
      <3>1. links[c] \in Link /\ links[c].clicks \in Nat /\ visits[c] \in Nat /\ strays[c] \in Nat
        BY <2>1, <2>7 DEF Typed, Link
      <3>2. /\ links'[c].clicks = links[c].clicks + 1
            /\ strays'[c] = strays[c] + (IF req[t].stray THEN 1 ELSE 0)
        BY <2>1, <2>7, <3>1 DEF Typed, Link
      <3>3. links[c].clicks = visits[c] + strays[c] + Cardinality(Unanswered(c))
        BY <2>1, <2>7 DEF ClickInv, ClicksExact, Unanswered
      <3>4. links'[c].clicks = visits'[c] + strays'[c] + Cardinality(Unanswered(c)')
        BY <2>1, <2>5, <2>6, <3>1, <3>2, <3>3
      <3>5. \A x \in Code \ {c} : links'[x] = links[x] /\ strays'[x] = strays[x]
        BY <2>7 DEF Typed
      <3>6. ClicksExact'
        <4>1. ASSUME NEW x \in Code, links'[x] # None
              PROVE  links'[x].clicks = visits'[x] + strays'[x] + Cardinality(Unanswered(x)')
          <5>1. CASE x = c
            BY <3>4, <5>1
          <5>2. CASE x # c
            <6>1. /\ links'[x] = links[x] /\ strays'[x] = strays[x] /\ visits'[x] = visits[x]
                  /\ Unanswered(x)' = Unanswered(x)
              BY <2>1, <2>4, <3>5, <5>2
            <6>2. links[x].clicks = visits[x] + strays[x] + Cardinality(Unanswered(x))
              BY <4>1, <6>1 DEF ClicksExact, ClickInv, Unanswered
            <6> QED
              BY <6>1, <6>2
          <5> QED
            BY <5>1, <5>2
        <4> QED
          BY <4>1 DEF ClicksExact, Unanswered
      <3> QED
        BY <2>3, <3>6 DEF ClickInv
    <2>8. CASE links[c] = None /\ UNCHANGED <<links, strays>>
      <3>1. ClicksExact'
        BY <2>1, <2>4, <2>8 DEF ClicksExact, ClickInv, Unanswered
      <3> QED
        BY <2>3, <3>1 DEF ClickInv
    <2> QED
      BY <1>6, <2>0, <2>7, <2>8 DEF Count, ClicksAfter
  <1>7. ASSUME NEW t \in Thread, Answer(t) \/ Fails(t) PROVE ClickInv'
    <2>1. pc[t] # "idle" /\ pc'[t] = "idle" /\ OthersWait(t) /\ links' = links
      BY <1>7 DEF Answer, Fails, Leave, Goto, Set, OthersWait, Typed
    <2>2. \A c \in Code : visits'[c] + strays'[c] =
                            visits[c] + strays[c] + (IF Counted(t, c) THEN 1 ELSE 0)
      BY <1>7 DEF Answer, Fails, Typed
    <2>3. ASSUME NEW c \in Code
          PROVE  Cardinality(Unanswered(c)) =
                   Cardinality(Unanswered(c)') + (IF Counted(t, c) THEN 1 ELSE 0)
      <3>1. ~Counted(t, c)'
        BY <2>1 DEF Counted
      <3>2. CASE Counted(t, c)
        BY <2>1, <3>1, <3>2, NowAnswered
      <3>3. CASE ~Counted(t, c)
        <4>1. Unanswered(c)' = Unanswered(c) /\ Cardinality(Unanswered(c)) \in Nat
          BY <2>1, <3>1, <3>3, StillCounted, CountedAreThreads DEF Unanswered
        <4> QED
          BY <3>3, <4>1
      <3> QED
        BY <3>2, <3>3
    <2>4. ASSUME NEW c \in Code
          PROVE  /\ Cardinality(Unanswered(c)) \in Nat /\ visits[c] \in Nat /\ strays[c] \in Nat
                 /\ visits'[c] \in Nat /\ strays'[c] \in Nat
                 /\ Cardinality(Unanswered(c)') \in Nat
      <3>1. Unanswered(c)' \subseteq Thread
        BY DEF Unanswered
      <3>2. Cardinality(Unanswered(c)') \in Nat
        BY <3>1, AccessAssumption, FS_Subset, FS_CardinalityType
      <3> QED
        BY <3>2, CountedAreThreads DEF Unanswered, Typed
    <2>5. \A c \in Code :
            visits'[c] + strays'[c] + Cardinality(Unanswered(c)') =
              visits[c] + strays[c] + Cardinality(Unanswered(c))
      BY <2>2, <2>3, <2>4
    <2>6. ClicksExact'
      BY <2>1, <2>5 DEF ClicksExact, ClickInv, Unanswered
    <2> QED
      BY <2>1, <2>6 DEF ClickInv, NoStray, OthersWait
  <1>8. CASE Restart
    <2>1. \A c \in Code : Unanswered(c)' = {}
      BY <1>8 DEF Restart, Unanswered, Counted
    <2>2. \A c \in Code : /\ strays'[c] = strays[c] + Cardinality(Unanswered(c))
                          /\ visits[c] \in Nat /\ strays[c] \in Nat
                          /\ Cardinality(Unanswered(c)) \in Nat
      BY <1>8, CountedAreThreads DEF Restart, Unanswered, Typed
    <2>3. \A c \in Code :
            visits'[c] + strays'[c] + Cardinality(Unanswered(c)') =
              visits[c] + strays[c] + Cardinality(Unanswered(c))
      <3>1. ASSUME NEW c \in Code
            PROVE  visits'[c] + strays'[c] + Cardinality(Unanswered(c)') =
                     visits[c] + strays[c] + Cardinality(Unanswered(c))
        <4>1. Cardinality(Unanswered(c)') = 0 /\ visits'[c] = visits[c]
          BY <1>8, <2>1, FS_EmptySet DEF Restart
        <4> QED
          BY <2>2, <4>1
      <3> QED
        BY <3>1
    <2>4. ClicksExact'
      BY <1>8, <2>3 DEF ClicksExact, ClickInv, Unanswered, Restart
    <2> QED
      BY <1>8, <2>4 DEF Restart, ClickInv
  <1>9. CASE Tick \/ UNCHANGED vars
    BY <1>9 DEF Tick, vars, linkvars, ClickInv, ClicksExact, NoStray, Counted
  <1> QED
    BY <1>1, <1>2, <1>3, <1>4, <1>5, <1>6, <1>7, <1>8, <1>9 DEF Next, Serve

-----------------------------------------------------------------------------
(* Orphans.  A login or logout knows the cookie of its browser, which no    *)
(* other request sets meanwhile; once it has ended that session, or found   *)
(* it no good, nobody misses the cookie that its answer replaces.           *)

Good(k) == k # None /\ Live(k)

Alone ==
  \A t, u \in Thread :
    Changing(t) /\ Changing(u) /\ req[t].browser = req[u].browser => t = u

Replaces(t) ==
  Changing(t) =>
    /\ req[t].token = cookie[req[t].browser]
    /\ pc[t] \in {"drop", "act"} => req[t].session = req[t].token
    /\ pc[t] \in {"issue", "answer"} => ~Good(req[t].token)

Brings(t, k) == pc[t] = "answer" /\ req[t].kind = "login" /\ req[t].session = k

Carried ==
  \A k \in AnyToken : Live(k) =>
    (\E b \in Browser : cookie[b] = k) \/ (\E t \in Thread : Brings(t, k))

Orderly == Alone /\ (\A t \in Thread : Replaces(t)) /\ Carried

OrphanInv == lapses = {} => Orderly

(* A session does not become good again while the password stays.           *)
LEMMA StaysDead ==
  ASSUME Typed, hash' = hash, now' \in Nat, now <= now', NEW k \in AnyToken,
         sessions'[k] \in {sessions[k], None}, Live(k)'
  PROVE  Live(k)
  <1>1. now \in Nat
    BY BoundsAreNumbers DEF Typed
  <1>2. sessions[k] # None /\ sessions'[k] = sessions[k] /\ sessions[k] \in Row
    BY DEF Live, Typed
  <1>3. sessions[k].expires \in Nat
    BY <1>2 DEF Row
  <1> QED
    BY <1>1, <1>2, <1>3 DEF Live

(* A thread's step that sets no cookie keeps the order if its own request   *)
(* does, brings no less, and every session that is good was so, or is       *)
(* brought by it.                                                           *)
Untouched(u) ==
  /\ pc'[u] = pc[u]
  /\ Changing(u)' <=> Changing(u)
  /\ Changing(u) => /\ req'[u].kind = req[u].kind
                    /\ req'[u].browser = req[u].browser
                    /\ req'[u].token = req[u].token
                    /\ req'[u].session = req[u].session

LEMMA StaysOrderly ==
  ASSUME Typed, Typed', SessionInv, Orderly, NEW t \in Thread, cookie' = cookie,
         \A u \in Thread \ {t} : Untouched(u),
         \/ ~Changing(t)'
         \/ Changing(t) /\ req'[t].browser = req[t].browser
         \/ \A u \in Thread : Changing(u) => req[u].browser # req'[t].browser,
         Replaces(t)',
         \A k \in AnyToken : ~Brings(t, k),
         \A k \in Drawn \union {Legacy} : Live(k)' => Live(k),
         \A k \in AnyToken : Live(k)' => Live(k) \/ Brings(t, k)'
  PROVE  Orderly'
  <1>1. Alone'
    BY DEF Orderly, Alone, Untouched
  <1>2. ASSUME NEW u \in Thread, u # t PROVE Replaces(u)'
    <2> SUFFICES ASSUME Changing(u) PROVE Replaces(u)'
      BY <1>2 DEF Untouched, Replaces
    <2>1. req[u].token = cookie[req[u].browser] /\ req[u].browser \in Browser
      BY HasRequest DEF Orderly, Replaces, Changing, Typed, Standing
    <2>2. req[u].token \in Drawn \union {None}
      BY <2>1 DEF SessionInv
    <2>3. Good(req[u].token)' => Good(req[u].token)
      BY <1>2, <2>2 DEF Good, Untouched
    <2> QED
      BY <1>2, <2>3 DEF Orderly, Replaces, Untouched
  <1>3. Carried'
    <2> SUFFICES ASSUME NEW k \in AnyToken, Live(k)', ~Brings(t, k)'
                 PROVE  \/ \E b \in Browser : cookie[b] = k
                        \/ \E u \in Thread : Brings(u, k)'
      BY DEF Carried
    <2>1. Live(k)
      OBVIOUS
    <2>2. ASSUME NEW u \in Thread, Brings(u, k) PROVE Brings(u, k)'
      <3>1. u # t
        BY <2>2
      <3>2. Changing(u)
        BY <2>2, HasRequest DEF Brings, Changing
      <3> QED
        BY <2>2, <3>1, <3>2 DEF Brings, Untouched
    <2> QED
      BY <2>1, <2>2 DEF Orderly, Carried
  <1> QED
    BY <1>1, <1>2, <1>3 DEF Orderly

LEMMA OrphanInit == Init => OrphanInv
  <1> SUFFICES ASSUME Init PROVE Orderly
    BY DEF OrphanInv
  <1>1. \A k \in AnyToken : ~Live(k)
    BY NoneIsNothing DEF Init, Live
  <1> QED
    BY <1>1 DEF Init, Orderly, Alone, Replaces, Carried, Changing

(* Every step keeps the order while nothing lapses.                         *)
LEMMA OrphanStep ==
  Typed /\ Typed' /\ SessionInv /\ OrphanInv /\ [Next]_vars => OrphanInv'
  <1> SUFFICES ASSUME Typed, Typed', SessionInv, OrphanInv, [Next]_vars, lapses' = {}
               PROVE  Orderly'
    BY DEF OrphanInv
  <1>0. lapses \subseteq lapses'
    <2>1. ASSUME NEW t \in Thread, Arrive(t) PROVE lapses \subseteq lapses'
      BY <2>1 DEF Arrive
    <2>2. ASSUME NEW t \in Thread, Serve(t) PROVE lapses \subseteq lapses'
      BY <2>2 DEF Serve, Look, Drop, Issue, Logout, Create, Delete, Follow, Count,
         Answer
    <2>3. ASSUME NEW t \in Thread, Fails(t) PROVE lapses \subseteq lapses'
      BY <2>3 DEF Fails
    <2>4. CASE Restart \/ Tick \/ UNCHANGED vars
      BY <2>4 DEF Restart, Tick, vars
    <2> QED
      BY <2>1, <2>2, <2>3, <2>4 DEF Next
  <1>o. Orderly
    BY <1>0 DEF OrphanInv
  <1>n. now \in Nat /\ now' \in Nat /\ now <= now /\ None \notin AnyToken
    BY BoundsAreNumbers, NoneIsNothing DEF Typed
  <1>d. \A k \in Drawn \union {Legacy} : k \in AnyToken
    BY DEF Drawn, Typed
  <1>s. ASSUME UNCHANGED <<hash, now, sessions>> PROVE \A k : Live(k)' <=> Live(k)
    BY <1>s DEF Live
  <1>1. ASSUME NEW t \in Thread, Arrive(t) PROVE Orderly'
    <2>1. PICK k \in Kinds, b \in Browser :
            \E c \in IF k \in {"login", "logout"} THEN {None}
                     ELSE IF k = "create" THEN Code \union {None} ELSE Code :
            \E g \in IF k = "create" THEN Target ELSE {None} :
              /\ Set(t, [kind |-> k, browser |-> b, token |-> cookie[b], session |-> None,
                         code |-> c, target |-> g, tries |-> 0, seen |-> None,
                         stray |-> FALSE, old |-> [revoked |-> revoked, now |-> now]])
              /\ Goto(t, IF k \in {"get", "head"} THEN "act" ELSE "look")
              /\ lapses' = IF k \in {"login", "logout"} /\ \E u \in Thread : Changing(u) /\ req[u].browser = b
                           THEN lapses \union {"overlap"} ELSE lapses
      BY <1>1 DEF Arrive
    <2>r. PICK r : /\ r.kind = k /\ r.browser = b /\ r.token = cookie[b]
                   /\ req' = [req EXCEPT ![t] = r]
      BY <2>1 DEF Set
    <2>2. \A u \in Thread \ {t} : Untouched(u)
      BY <2>1, <2>r DEF Goto, Untouched, Changing, Typed
    <2>3. /\ req'[t].kind = k /\ req'[t].browser = b /\ req'[t].token = cookie[b]
          /\ pc'[t] = IF k \in {"get", "head"} THEN "act" ELSE "look"
      BY <2>1, <2>r DEF Goto, Typed
    <2>4. ~Changing(t)' \/ \A u \in Thread : Changing(u) => req[u].browser # req'[t].browser
      BY <2>1, <2>3 DEF Changing
    <2>5. Replaces(t)'
      BY <1>1, <2>3 DEF Replaces, Changing, Arrive
    <2>6. \A k1 \in AnyToken : ~Brings(t, k1)
      BY <1>1 DEF Arrive, Brings
    <2> QED
      BY <1>1, <1>o, <1>s, <2>2, <2>4, <2>5, <2>6, StaysOrderly DEF Arrive, sessionvars
  <1>2. ASSUME NEW t \in Thread, Look(t) PROVE Orderly'
    <2>1. pc[t] = "look" /\ UNCHANGED <<cookie, hash, now, sessions>>
      BY <1>2 DEF Look, sessionvars
    <2>2. \A u \in Thread \ {t} : Untouched(u)
      BY <1>2 DEF Look, Goto, Set, Leave, Untouched, Changing, Typed
    <2>3. /\ ~Changing(t)' \/ (Changing(t) /\ req'[t].browser = req[t].browser)
          /\ Replaces(t)'
      <3>1. CASE Leave(t)
        <4>1. req'[t] = None
          BY <3>1 DEF Leave, Set, Typed
        <4> QED
          BY <4>1 DEF Changing, Replaces
      <3>2. CASE /\ Valid(req[t].token)
                 /\ Set(t, [req[t] EXCEPT !.session = req[t].token])
                 /\ Goto(t, IF req[t].kind = "login" THEN "drop" ELSE "act")
        <4>1. req[t] \in Request /\ req[t] # None
          BY <2>1, HasRequest
        <4>2. req'[t] = [req[t] EXCEPT !.session = req[t].token]
          BY <3>2 DEF Set, Typed
        <4>3. /\ req'[t].kind = req[t].kind /\ req'[t].browser = req[t].browser
              /\ req'[t].token = req[t].token /\ req'[t].session = req[t].token
          BY <4>1, <4>2 DEF Request
        <4>4. pc'[t] \in {"drop", "act"}
          BY <3>2 DEF Goto, Typed
        <4> QED
          BY <1>o, <2>1, <4>1, <4>3, <4>4 DEF Orderly, Changing, Replaces
      <3>3. CASE ~Valid(req[t].token) /\ Goto(t, "issue") /\ UNCHANGED req
        <4>1. pc'[t] = "issue" /\ req'[t] = req[t]
          BY <3>3 DEF Goto, Typed
        <4>2. ~Good(req[t].token)
          BY <3>3 DEF Good, Live, Valid, BoundRow
        <4> QED
          BY <1>o, <1>s, <2>1, <4>1, <4>2 DEF Orderly, Changing, Replaces, Good
      <3> QED
        BY <1>2, <3>1, <3>2, <3>3 DEF Look
    <2>4. \A k1 \in AnyToken : ~Brings(t, k1)
      BY <2>1 DEF Brings
    <2> QED
      BY <1>o, <1>s, <2>1, <2>2, <2>3, <2>4, StaysOrderly
  <1>3. ASSUME NEW t \in Thread, Drop(t) \/ Logout(t) PROVE Orderly'
    <2> DEFINE k == req[t].session
    <2>1. /\ pc[t] \in {"drop", "act"} /\ Changing(t) /\ req'[t] = req[t]
          /\ pc'[t] \in {"issue", "answer"}
          /\ UNCHANGED <<cookie, hash, now>>
      BY <1>3, HasRequest DEF Drop, Logout, Goto, Changing, Typed, Standing
    <2>2. sessions' = [sessions EXCEPT ![k] = None]
      BY <1>3 DEF Drop, Logout, Replaced, Deleted
    <2>3. k = req[t].token /\ k \in AnyToken \union {None}
      BY <1>o, <2>1, HasRequest DEF Orderly, Replaces
    <2>4. ~Good(k)'
      BY <2>1, <2>2, <2>3 DEF Good, Live, Typed
    <2>5. Replaces(t)'
      BY <1>o, <2>1, <2>3, <2>4 DEF Orderly, Replaces, Good, Changing
    <2>6. \A u \in Thread \ {t} : Untouched(u)
      BY <1>3 DEF Drop, Logout, Goto, Untouched, Changing, Typed
    <2>7. \A k1 \in AnyToken : Live(k1)' => Live(k1)
      BY <1>n, <2>1, <2>2, StaysDead DEF Typed
    <2>8. \A k1 \in AnyToken : ~Brings(t, k1)
      BY <2>1 DEF Brings
    <2>9. Changing(t)' /\ req'[t].browser = req[t].browser
      BY <2>1 DEF Changing
    <2> QED
      BY <1>o, <1>d, <2>1, <2>5, <2>6, <2>7, <2>8, <2>9, StaysOrderly
  <1>4. ASSUME NEW t \in Thread, Issue(t) PROVE Orderly'
    <2>1. PICK k \in Token \ used :
            /\ sessions' = [sessions EXCEPT ![k] = [binding |-> hash, expires |-> now + Ttl]]
            /\ req' = [req EXCEPT ![t] = [req[t] EXCEPT !.session = k]]
      BY <1>4 DEF Issue, Set
    <2>2. k \notin Drawn \union {None} /\ k \in AnyToken
      BY AccessAssumption DEF Drawn
    <2>3. /\ pc[t] = "issue" /\ pc'[t] = "answer" /\ UNCHANGED <<cookie, hash, now>>
          /\ req[t].kind = "login" /\ Changing(t)
      BY <1>4, HasRequest DEF Issue, Goto, Changing, Typed, Standing
    <2>4. /\ req'[t].kind = "login" /\ req'[t].browser = req[t].browser
          /\ req'[t].token = req[t].token /\ req'[t].session = k /\ req'[t] # None
      <3>1. pc'[t] # "idle"
        BY <2>3
      <3> QED
        BY <2>1, <2>3, <3>1, HasRequest, NoneIsNothing DEF Typed, Request, Standing
    <2>5. \A k1 \in AnyToken \ {k} : Live(k1)' => Live(k1)
      BY <2>1, <2>3 DEF Live, Typed
    <2>6. req[t].token = cookie[req[t].browser] /\ ~Good(req[t].token)
      BY <1>o, <2>3 DEF Orderly, Replaces
    <2>7. req[t].token \in Drawn \union {None} /\ req[t].token \in AnyToken \union {None}
      BY <2>3, <2>6, HasRequest DEF SessionInv
    <2>8. Replaces(t)'
      BY <2>2, <2>3, <2>4, <2>5, <2>6, <2>7 DEF Replaces, Good
    <2>9. \A u \in Thread \ {t} : Untouched(u)
      BY <1>4, <2>1 DEF Issue, Goto, Untouched, Changing, Typed
    <2>10. \A k1 \in AnyToken : ~Brings(t, k1)
      BY <2>3 DEF Brings
    <2>11. \A k1 \in AnyToken : Live(k1)' => Live(k1) \/ Brings(t, k1)'
      BY <2>3, <2>4, <2>5 DEF Brings
    <2>12. \A k1 \in Drawn \union {Legacy} : Live(k1)' => Live(k1)
      BY <1>d, <2>2, <2>5 DEF Drawn
    <2> QED
      BY <1>o, <2>3, <2>4, <2>8, <2>9, <2>10, <2>11, <2>12, StaysOrderly
  <1>5. ASSUME NEW t \in Thread, Create(t) \/ Follow(t) \/ Count(t) PROVE Orderly'
    <2>1. /\ pc[t] # "idle" /\ ~Changing(t)
          /\ UNCHANGED <<cookie, hash, now, sessions>>
      BY <1>5, HasRequest DEF Create, Follow, Count, Changing, sessionvars, Typed, Standing
    <2>2. ~Changing(t)'
      <3>1. req'[t] = None \/ req'[t].kind = req[t].kind
        BY <1>5, <2>1, HasRequest DEF Create, Follow, Count, Set, Leave, Typed, Request
      <3> QED
        BY <2>1, <3>1, HasRequest DEF Changing
    <2>3. \A u \in Thread \ {t} : Untouched(u)
      BY <1>5 DEF Create, Follow, Count, Goto, Set, Leave, Untouched, Changing, Typed
    <2>4. \A k1 \in AnyToken : ~Brings(t, k1)
      BY <2>1, HasRequest DEF Brings, Changing
    <2>5. Replaces(t)'
      BY <2>2 DEF Replaces
    <2> QED
      BY <1>o, <1>s, <2>1, <2>2, <2>3, <2>4, <2>5, StaysOrderly
  <1>6. ASSUME NEW t \in Thread, Delete(t) PROVE Orderly'
    <2>1. /\ pc[t] = "act" /\ UNCHANGED <<cookie, hash, now, sessions>>
          /\ pc' = [pc EXCEPT ![t] = "idle"] /\ req'[t] = None
      BY <1>6 DEF Delete, Goto, sessionvars
    <2>2. ASSUME NEW u \in Thread \ {t} PROVE Untouched(u)
      <3>1. pc'[u] = pc[u] /\ req'[u] \in {req[u], [req[u] EXCEPT !.stray = TRUE]}
        BY <1>6, <2>1 DEF Delete, Typed
      <3>2. CASE pc[u] = "idle"
        BY <1>6, <2>1, <3>1, <3>2 DEF Delete, Outlives, Untouched, Changing, Typed, Standing
      <3>3. CASE pc[u] # "idle"
        <4>1. /\ req'[u].kind = req[u].kind /\ req'[u].browser = req[u].browser
              /\ req'[u].token = req[u].token /\ req'[u].session = req[u].session
              /\ req[u] # None
          BY <3>1, <3>3, HasRequest DEF Request
        <4>2. req'[u] # None
          BY <3>1, <3>3, NoneIsNothing DEF Typed, Standing
        <4> QED
          BY <3>1, <4>1, <4>2 DEF Untouched, Changing
      <3> QED
        BY <3>2, <3>3
    <2>3. ~Changing(t)' /\ Replaces(t)' /\ \A k1 \in AnyToken : ~Brings(t, k1)
      BY <2>1 DEF Changing, Replaces, Brings
    <2> QED
      BY <1>o, <1>s, <2>1, <2>2, <2>3, StaysOrderly
  <1>7. ASSUME NEW t \in Thread, Fails(t) PROVE Orderly'
    <2>1. /\ pc[t] # "idle" /\ req'[t] = None /\ UNCHANGED <<cookie, hash, now, sessions>>
          /\ ~(pc[t] = "answer" /\ Changing(t))
      BY <1>7 DEF Fails, Leave, Set, sessionvars, Typed
    <2>2. \A u \in Thread \ {t} : Untouched(u)
      BY <1>7 DEF Fails, Goto, Set, Leave, Untouched, Changing, Typed
    <2>3. ~Changing(t)' /\ Replaces(t)' /\ \A k1 \in AnyToken : ~Brings(t, k1)
      BY <2>1, HasRequest DEF Changing, Replaces, Brings
    <2> QED
      BY <1>o, <1>s, <2>1, <2>2, <2>3, StaysOrderly
  <1>8. ASSUME NEW t \in Thread, Answer(t) PROVE Orderly'
    <2> DEFINE b == req[t].browser
    <2>1. /\ pc[t] = "answer" /\ req'[t] = None /\ pc'[t] = "idle"
          /\ b \in Browser /\ req[t] # None
          /\ UNCHANGED <<hash, now, sessions>>
      BY <1>8, HasRequest DEF Answer, Leave, Goto, Set, sessionvars, Typed
    <2>2. \A u \in Thread \ {t} : pc'[u] = pc[u] /\ req'[u] = req[u]
      BY <1>8 DEF Answer, Leave, Goto, Set, Typed
    <2>3. \A x \in Browser \ {b} : cookie'[x] = cookie[x]
      BY <1>8 DEF Answer, Typed
    <2>4. ~Changing(t) => cookie' = cookie
      BY <1>8, <2>1 DEF Answer, Changing
    <2>5. Changing(t) => ~Good(cookie[b])
      BY <1>o, <2>1 DEF Orderly, Replaces
    <2>6. req[t].kind = "login" => cookie'[b] = req[t].session
      BY <1>8, <2>1 DEF Answer, Typed
    <2>7. Alone'
      BY <1>o, <2>1, <2>2 DEF Orderly, Alone, Changing
    <2>8. ASSUME NEW u \in Thread PROVE Replaces(u)'
      <3>1. CASE u = t
        BY <2>1, <3>1 DEF Replaces, Changing
      <3>2. CASE u # t /\ Changing(u)
        <4>1. req[u].browser \in Browser
          BY <3>2, HasRequest DEF Changing, Typed, Standing
        <4>2. Changing(t) => req[u].browser # b
          BY <1>o, <3>2 DEF Orderly, Alone
        <4>3. cookie'[req[u].browser] = cookie[req[u].browser]
          BY <2>3, <2>4, <4>1, <4>2
        <4> QED
          BY <1>o, <1>s, <2>1, <2>2, <3>2, <4>3 DEF Orderly, Replaces, Changing, Good
      <3>3. CASE u # t /\ ~Changing(u)
        BY <2>2, <3>3 DEF Replaces, Changing
      <3> QED
        BY <3>1, <3>2, <3>3
    <2>9. ASSUME NEW k \in AnyToken, Live(k)'
          PROVE  \/ \E x \in Browser : cookie'[x] = k
                 \/ \E u \in Thread : Brings(u, k)'
      <3>1. Live(k) /\ Good(k)
        BY <1>n, <1>s, <2>1, <2>9 DEF Good
      <3>2. CASE \E x \in Browser : cookie[x] = k
        BY <2>3, <2>4, <2>5, <3>1, <3>2
      <3>3. CASE \E u \in Thread \ {t} : Brings(u, k)
        BY <2>2, <3>3 DEF Brings
      <3>4. CASE Brings(t, k)
        BY <2>1, <2>6, <3>4 DEF Brings
      <3> QED
        BY <1>o, <3>1, <3>2, <3>3, <3>4 DEF Orderly, Carried
    <2> QED
      BY <2>7, <2>8, <2>9 DEF Orderly, Carried
  <1>9. CASE Restart
    <2>1. /\ UNCHANGED <<hash, now, sessions, cookie>>
          /\ \A u \in Thread : pc'[u] = "idle" /\ req'[u] = None
          /\ \A u \in Thread : ~(pc[u] = "answer" /\ Changing(u))
      BY <1>9 DEF Restart, sessionvars
    <2>2. \A u \in Thread, k \in AnyToken : ~Brings(u, k)
      BY <2>1, HasRequest DEF Brings, Changing
    <2> QED
      BY <1>o, <1>s, <2>1, <2>2 DEF Orderly, Alone, Replaces, Carried, Changing
  <1>10. CASE Tick
    <2>1. UNCHANGED <<hash, sessions, cookie, pc, req>> /\ now' = now + 1 /\ now <= now'
      BY <1>n, <1>10 DEF Tick, sessionvars
    <2>2. \A k \in AnyToken : Live(k)' => Live(k)
      BY <1>n, <2>1, StaysDead
    <2>3. ASSUME NEW u \in Thread PROVE Replaces(u)'
      <3>1. req[u].token \in AnyToken \union {None} \/ ~Changing(u)
        BY HasRequest DEF Changing, Typed, Standing
      <3> QED
        BY <1>o, <2>1, <2>2, <3>1 DEF Orderly, Replaces, Changing, Good
    <2> QED
      BY <1>o, <2>1, <2>2, <2>3 DEF Orderly, Alone, Carried, Changing, Brings
  <1>11. CASE UNCHANGED vars
    BY <1>o, <1>11
    DEF vars, Orderly, Alone, Replaces, Carried, Changing, Brings, Good, Live
  <1> QED
    BY <1>1, <1>2, <1>3, <1>4, <1>5, <1>6, <1>7, <1>8, <1>9, <1>10, <1>11 DEF Next, Serve

-----------------------------------------------------------------------------
Inv == Typed /\ SessionInv /\ ClickInv /\ OrphanInv

LEMMA InvHolds == Spec => []Inv
  <1>1. Init => Inv
    BY TypedInit, SessionInit, ClickInit, OrphanInit DEF Inv
  <1>2. Inv /\ [Next]_vars => Inv'
    BY TypedStep, SessionStep, ClickStep, OrphanStep DEF Inv
  <1> QED
    BY <1>1, <1>2, PTL DEF Spec

(* Tables, cookies and requests keep their types, and a token that was      *)
(* never drawn is nowhere (create_session draws it from token_urlsafe).     *)
THEOREM TypeCorrect == Spec => []TypeOK
  <1>1. Inv => TypeOK
    <2> SUFFICES ASSUME Inv PROVE TypeOK
      OBVIOUS
    <2>1. \A t \in Thread : IF pc[t] = "idle" THEN req[t] = None ELSE req[t] \in Request
      BY DEF Inv, Typed, Standing
    <2>2. \A k \in Token \ used : sessions[k] = None /\ \A b \in Browser : cookie[b] # k
      BY AccessAssumption DEF Inv, SessionInv, Drawn
    <2> QED
      BY <2>1, <2>2 DEF Inv, Typed, TypeOK, Place
  <1> QED
    BY <1>1, InvHolds, PTL

(* However logins, logouts, restarts and requests interleave, a request is  *)
(* let in only with a session under the password in force that was neither  *)
(* ended nor expired when it arrived (get_session, delete_session).         *)
THEOREM Accepted == Spec => []AcceptedStillValid
  <1>1. Inv => AcceptedStillValid
    BY DEF Inv, Typed, Standing, SessionInv, Entitled, AcceptedStillValid
  <1> QED
    BY <1>1, InvHolds, PTL

(* No click is lost or counted twice between the SELECT and the UPDATE of   *)
(* _redirect_short_link, whatever is created and deleted in between.        *)
THEOREM EveryClick == Spec => []ClicksExact
  <1>1. Inv => ClicksExact
    BY DEF Inv, ClickInv
  <1> QED
    BY <1>1, InvHolds, PTL

(* A session that is still good is one that a browser has, or that a login's *)
(* answer brings it: _login ends the session it replaces, whatever other     *)
(* threads do, while no two logins or logouts of one browser overlap, no     *)
(* answer of one is lost and the password stays.                             *)
THEOREM NoSessionOrphaned == Spec => []NoOrphan
  <1>1. Inv => NoOrphan
    BY DEF Inv, OrphanInv, Orderly, Carried, Brings, NoOrphan
  <1> QED
    BY <1>1, InvHolds, PTL
=============================================================================

------------------------- MODULE LoginLimiterProofs -------------------------
(***************************************************************************)
(* Proofs about LoginLimiter, for any number of requests and clients and    *)
(* any limits.                                                              *)
(***************************************************************************)
EXTENDS LoginLimiter, FiniteSetTheorems, SequenceTheorems, TLAPS

-----------------------------------------------------------------------------
(* The limiter's computations.                                              *)

(* Expiry only drops failures.                                              *)
LEMMA ExpireShortens ==
  ASSUME NEW failures \in Seq(Time), NEW cutoff \in Int
  PROVE  /\ Expire(failures, cutoff) \in Seq(Time)
         /\ Len(Expire(failures, cutoff)) <= Len(failures)
<1> DEFINE gone == {i \in 1..Len(failures) :
                      \A j \in 1..i : failures[j] < cutoff}
<1>1. Len(failures) \in Nat
  OBVIOUS
<1>2. IsFiniteSet(gone) /\ Cardinality(gone) <= Len(failures)
  <2>1. IsFiniteSet(1..Len(failures))
    BY <1>1, FS_Interval
  <2>2. Cardinality(1..Len(failures)) = Len(failures)
    <3> DEFINE n == Len(failures)
    <3>1. n \in Int /\ 1 \in Int /\ (1 > n <=> n = 0) /\ n - 1 + 1 = n
      BY <1>1
    <3> HIDE DEF n
    <3>2. Cardinality(1..n) = IF 1 > n THEN 0 ELSE n - 1 + 1
      BY <3>1, FS_Interval
    <3>3. QED
      BY <3>1, <3>2 DEF n
  <2>3. gone \in SUBSET (1..Len(failures))
    OBVIOUS
  <2> HIDE DEF gone
  <2>4. IsFiniteSet(gone) /\ Cardinality(gone) <= Cardinality(1..Len(failures))
    BY <2>1, <2>3, FS_Subset
  <2>5. QED
    BY <2>2, <2>4
<1>3. Cardinality(gone) \in Nat
  BY <1>2, FS_CardinalityType
<1>4. \A i \in Cardinality(gone) + 1 .. Len(failures) : failures[i] \in Time
  BY <1>1, <1>3
<1> HIDE DEF gone
<1>5. /\ SubSeq(failures, Cardinality(gone) + 1, Len(failures)) \in Seq(Time)
      /\ Len(SubSeq(failures, Cardinality(gone) + 1, Len(failures)))
           <= Len(failures)
  BY <1>1, <1>3, <1>4, SubSeqProperties
<1>6. QED
  BY <1>5 DEF Expire, gone

(* The tokens a refill leaves.                                              *)
LEMMA RefillBounds ==
  ASSUME TypeOK, NEW t \in Time
  PROVE  /\ Refilled(t) \in 0..Burst
         /\ Refilled(t) <= tokens + (IF t > lastRefill THEN t - lastRefill
                                     ELSE 0)
BY LimiterAssumption DEF TypeOK, Refilled, Elapsed, Time

(* The cleanup leaves each entry alone or, if nothing of it is in flight,   *)
(* makes it fresh.                                                          *)
LEMMA CleanupKeeps ==
  ASSUME TypeOK, NEW t \in Time
  PROVE  /\ CleanedUp(t) \in [Client -> State]
         /\ \A c \in Client :
              /\ CleanedUp(t)[c].inFlight = clients[c].inFlight
              /\ Len(CleanedUp(t)[c].failures) <= Len(clients[c].failures)
<1>1. Fresh \in State
  BY DEF Fresh, State
<1>2. \A c \in Client : clients[c] \in State
  BY DEF TypeOK
<1>3. \A c \in Client : ~Kept(clients[c], t - Window)
                          => clients[c].inFlight = 0
  BY <1>2 DEF Kept, State
<1>4. \A c \in Client : Len(Fresh.failures) <= Len(clients[c].failures)
  BY <1>2 DEF Fresh, State
<1>5. QED
  BY <1>1, <1>2, <1>3, <1>4 DEF CleanedUp, TypeOK, Fresh

(* The same of the cleanup followed by the expiry.                          *)
LEMMA ExpiredKeeps ==
  ASSUME TypeOK, NEW t \in Time, NEW c \in Client \union {Shared}
  PROVE  /\ Expired(c, t) \in [Client -> State]
         /\ \A d \in Client :
              /\ Expired(c, t)[d].inFlight = clients[d].inFlight
              /\ Len(Expired(c, t)[d].failures) <= Len(clients[d].failures)
<1>1. CASE c = Shared
  BY <1>1, CleanupKeeps DEF Expired
<1>2. CASE c \in Client
  <2> DEFINE old == CleanedUp(t)
             new == Expire(old[c].failures, t - Window)
  <2>1. /\ old \in [Client -> State]
        /\ \A d \in Client :
             /\ old[d].inFlight = clients[d].inFlight
             /\ Len(old[d].failures) <= Len(clients[d].failures)
    BY CleanupKeeps
  <2>2. old[c].failures \in Seq(Time) /\ t - Window \in Int
    BY <1>2, <2>1, LimiterAssumption DEF State, Time
  <2>3. new \in Seq(Time) /\ Len(new) <= Len(old[c].failures)
    BY <2>2, ExpireShortens
  <2>4. Expired(c, t) = [old EXCEPT ![c].failures = new]
    BY <1>2, LimiterAssumption DEF Expired
  <2> HIDE DEF old, new
  <2>5. [old EXCEPT ![c].failures = new] \in [Client -> State]
    BY <2>1, <2>3 DEF State
  <2>6. clients \in [Client -> State]
    BY DEF TypeOK
  <2>7. \A d \in Client : /\ Len(clients[d].failures) \in Nat
                          /\ Len(old[d].failures) \in Nat
    BY <2>1, <2>6 DEF State
  <2>8. Len(new) \in Nat
    BY <2>3
  <2>9. QED
    BY <1>2, <2>1, <2>3, <2>4, <2>5, <2>7, <2>8 DEF State
<1>3. QED
  BY <1>1, <1>2

-----------------------------------------------------------------------------
(* Type correctness, with what the clock readings and the shared client     *)
(* need.                                                                    *)

Readings ==
  \A r \in Request :
    /\ now[r] <= clock
    /\ pc[r] = "finishing" => client[r] # Shared

TypeInv == TypeOK /\ Readings /\ SlotsConserved

LEMMA GotoType ==
  ASSUME TypeOK, NEW r \in Request, NEW from, NEW to \in Place,
         Goto(r, from, to)
  PROVE  /\ pc' \in [Request -> Place]
         /\ pc[r] = from /\ pc'[r] = to
         /\ \A q \in Request \ {r} : pc'[q] = pc[q]
BY DEF TypeOK, Goto

(* A step of one thread changes the slots taken by that thread at most.     *)
LEMMA SlotsTakenStep ==
  ASSUME TypeOK, SlotsConserved, NEW r \in Request, NEW from \in Place,
         NEW to \in Place, Goto(r, from, to)
  PROVE  /\ from \in Admitted /\ to \in Admitted
              => Cardinality(SlotsTaken') = Cardinality(SlotsTaken)
         /\ from = "idle" /\ to \in Admitted
              => Cardinality(SlotsTaken') = Cardinality(SlotsTaken) + 1
         /\ from \in Admitted /\ to = "idle"
              => /\ Cardinality(SlotsTaken') = Cardinality(SlotsTaken) - 1
                 /\ slots + 1 <= Concurrency
         /\ Cardinality(SlotsTaken) \in Nat
<1>1. IsFiniteSet(SlotsTaken)
  BY LimiterAssumption, FS_Subset DEF SlotsTaken
<1>2. Cardinality(SlotsTaken) \in Nat
  BY <1>1, FS_CardinalityType
<1>3. /\ pc[r] = from /\ pc'[r] = to
      /\ \A q \in Request \ {r} : pc'[q] = pc[q]
  BY GotoType
<1>4. "idle" \notin Admitted
  BY DEF Admitted, Reserved
<1>5. CASE from \in Admitted /\ to \in Admitted
  <2>1. SlotsTaken' = SlotsTaken
    BY <1>3, <1>5 DEF SlotsTaken
  <2>2. QED
    BY <1>2, <1>4, <1>5, <2>1
<1>6. CASE from = "idle" /\ to \in Admitted
  <2>1. SlotsTaken' = SlotsTaken \union {r} /\ r \notin SlotsTaken
    BY <1>3, <1>4, <1>6 DEF SlotsTaken
  <2>2. QED
    BY <1>1, <1>2, <1>4, <1>6, <2>1, FS_AddElement
<1>7. CASE from \in Admitted /\ to = "idle"
  <2>1. SlotsTaken' = SlotsTaken \ {r} /\ r \in SlotsTaken
    BY <1>3, <1>4, <1>7 DEF SlotsTaken
  <2>2. /\ Cardinality(SlotsTaken') = Cardinality(SlotsTaken) - 1
        /\ IsFiniteSet(SlotsTaken')
    BY <1>1, <2>1, FS_RemoveElement
  <2>3. Cardinality(SlotsTaken') \in Nat
    BY <2>2, FS_CardinalityType
  <2>4. slots \in Nat /\ Concurrency \in Nat
    BY LimiterAssumption DEF TypeOK
  <2>5. QED
    BY <1>2, <1>4, <1>7, <2>2, <2>3, <2>4 DEF SlotsConserved
<1>8. QED
  BY <1>2, <1>5, <1>6, <1>7

LEMMA SlotsStep == TypeOK /\ SlotsConserved /\ [Next]_vars => SlotsConserved'
<1> SUFFICES ASSUME TypeOK, SlotsConserved, [Next]_vars
             PROVE  SlotsConserved'
  OBVIOUS
<1> USE DEF requestvars
<1>p. /\ "asked" \in Admitted /\ "beginning" \in Admitted
      /\ "verifying" \in Admitted /\ "verified" \in Admitted
      /\ "finishing" \in Admitted /\ "releasing" \in Admitted
      /\ Admitted \subseteq Place /\ "idle" \in Place
  BY DEF Place, Admitted, Reserved
<1>q. slots \in Nat /\ Concurrency \in Nat
  BY LimiterAssumption DEF TypeOK
<1>1. ASSUME NEW r \in Request, TakeSlot(r) PROVE SlotsConserved'
  BY <1>1, <1>p, <1>q, SlotsTakenStep DEF TakeSlot, SlotsConserved
<1>2. ASSUME NEW r \in Request, ReadClock(r) PROVE SlotsConserved'
  BY <1>2, <1>p, SlotsTakenStep DEF ReadClock, SlotsConserved
<1>3. ASSUME NEW r \in Request, Begin(r) PROVE SlotsConserved'
  <2>1. /\ UNCHANGED slots
        /\ \E to \in Admitted : Goto(r, "beginning", to)
    BY <1>3, <1>p DEF Begin
  <2>2. QED
    BY <2>1, <1>p, SlotsTakenStep DEF SlotsConserved
<1>4. ASSUME NEW r \in Request, Verify(r) PROVE SlotsConserved'
  BY <1>4, <1>p, SlotsTakenStep DEF Verify, SlotsConserved
<1>5. ASSUME NEW r \in Request, Finish(r) PROVE SlotsConserved'
  BY <1>5, <1>p, SlotsTakenStep DEF Finish, SlotsConserved
<1>6. ASSUME NEW r \in Request, Release(r) PROVE SlotsConserved'
  BY <1>6, <1>p, <1>q, SlotsTakenStep DEF Release, Returned, SlotsConserved
<1>7. CASE Tick
  BY <1>7 DEF Tick, SlotsConserved, SlotsTaken
<1>8. CASE UNCHANGED vars
  BY <1>8 DEF vars, SlotsConserved, SlotsTaken
<1>9. QED
  BY <1>1, <1>2, <1>3, <1>4, <1>5, <1>6, <1>7, <1>8 DEF Next

LEMMA InitTypeInv == Init => TypeInv
<1> SUFFICES ASSUME Init PROVE TypeInv
  OBVIOUS
<1>1. 0 \in Time /\ "idle" \in Place
  BY LimiterAssumption DEF Time, Place
<1>2. Fresh \in State
  BY DEF Fresh, State
<1>3. Burst \in 0..Burst /\ Concurrency \in 0..Concurrency
  BY LimiterAssumption
<1>4. TypeOK
  BY <1>1, <1>2, <1>3 DEF Init, TypeOK
<1>5. Readings
  BY <1>1 DEF Init, Readings
<1>6. SlotsTaken = {}
  BY DEF Init, SlotsTaken, Admitted, Reserved
<1>7. SlotsConserved
  BY <1>6, FS_EmptySet, LimiterAssumption DEF Init, SlotsConserved
<1>8. QED
  BY <1>4, <1>5, <1>7 DEF TypeInv

LEMMA TypeStep == TypeInv /\ [Next]_vars => TypeInv'
<1> SUFFICES ASSUME TypeInv, [Next]_vars PROVE TypeInv'
  OBVIOUS
<1> USE DEF requestvars, limitervars, historyvars
<1>0. TypeOK /\ Readings /\ SlotsConserved'
  BY SlotsStep DEF TypeInv
<1>s. SlotsConserved
  BY DEF TypeInv
<1>p. /\ "asked" \in Place /\ "beginning" \in Place /\ "verifying" \in Place
      /\ "verified" \in Place /\ "finishing" \in Place
      /\ "releasing" \in Place /\ "idle" \in Place
  BY DEF Place, Admitted, Reserved
<1>t. /\ 0 \in Time /\ Time \subseteq Nat
      /\ \A t \in Time : t \in Nat /\ t >= 0 /\ t <= MaxTime
  BY LimiterAssumption DEF Time
<1>1. ASSUME NEW r \in Request, TakeSlot(r) PROVE TypeInv'
  <2>1. slots' \in 0..Concurrency
    BY <1>0, <1>1, LimiterAssumption DEF TypeOK, TakeSlot
  <2>2. pc' \in [Request -> Place]
    BY <1>0, <1>1, <1>p, GotoType DEF TakeSlot
  <2>3. client' \in [Request -> Client \union {Shared}]
    BY <1>0, <1>1 DEF TypeOK, TakeSlot
  <2>4. Readings'
    BY <1>0, <1>1 DEF TypeOK, Readings, TakeSlot, Goto
  <2>5. QED
    BY <1>0, <1>1, <2>1, <2>2, <2>3, <2>4 DEF TypeInv, TypeOK, TakeSlot
<1>2. ASSUME NEW r \in Request, ReadClock(r) PROVE TypeInv'
  <2>1. pc' \in [Request -> Place]
    BY <1>0, <1>2, <1>p, GotoType DEF ReadClock
  <2>2. now' \in [Request -> Time]
    BY <1>0, <1>2 DEF TypeOK, ReadClock
  <2>3. Readings'
    BY <1>0, <1>2, <1>t DEF TypeOK, Readings, ReadClock, Goto
  <2>4. QED
    BY <1>0, <1>2, <2>1, <2>2, <2>3 DEF TypeInv, TypeOK, ReadClock
<1>3. ASSUME NEW r \in Request, Begin(r) PROVE TypeInv'
  <2> DEFINE t == now[r]
             c == client[r]
  <2>1. t \in Time /\ t <= clock /\ t >= 0 /\ c \in Client \union {Shared}
    <3>1. now[r] \in Time /\ client[r] \in Client \union {Shared}
      BY <1>0 DEF TypeOK
    <3>2. now[r] <= clock
      BY <1>0 DEF Readings
    <3>3. QED
      BY <1>t, <3>1, <3>2
  <2>2. /\ Refilled(t) \in 0..Burst
        /\ Expired(c, t) \in [Client -> State]
    BY <1>0, <2>1, RefillBounds, ExpiredKeeps
  <2>3. Passes(c, t) => Refilled(t) >= 1
    BY Zenon DEF Passes
  <2> HIDE DEF t, c
  <2>4. /\ Goto(r, "beginning",
                IF Passes(c, t) THEN "verifying" ELSE "releasing")
        /\ lastCleanup' = IF CleanupDue(t) THEN t ELSE lastCleanup
        /\ tokens' = IF Passes(c, t) THEN Refilled(t) - 1 ELSE Refilled(t)
        /\ lastRefill' = t
        /\ clients' = IF Passes(c, t) /\ c # Shared
                      THEN [Expired(c, t) EXCEPT ![c].inFlight = @ + 1]
                      ELSE Expired(c, t)
        /\ admitted' \in {admitted, admitted + 1}
        /\ rewound' \in {rewound}
             \union (IF t < lastRefill THEN {rewound + (lastRefill - t)}
                     ELSE {})
        /\ now' = [now EXCEPT ![r] = 0]
        /\ UNCHANGED <<clock, slots, client, valid, since, recorded, sorted>>
    BY <1>3 DEF Begin, t, c
  <2>5. tokens' \in 0..Burst
    BY <2>2, <2>3, <2>4, LimiterAssumption
  <2>6. clients' \in [Client -> State]
    BY <2>1, <2>2, <2>4 DEF State
  <2>7. lastRefill' \in 0..clock' /\ lastCleanup' \in 0..clock'
    BY <1>0, <1>t, <2>1, <2>4 DEF TypeOK
  <2>8. admitted' \in Nat /\ rewound' \in Nat
    BY <1>0, <1>t, <2>1, <2>4 DEF TypeOK
  <2>9. pc' \in [Request -> Place]
    BY <1>0, <1>p, <2>4, GotoType
  <2>10. now' \in [Request -> Time]
    BY <1>0, <1>t, <2>4 DEF TypeOK
  <2>11. Readings'
    BY <1>0, <1>t, <2>4 DEF TypeOK, Readings, Goto
  <2>12. QED
    BY <1>0, <2>4, <2>5, <2>6, <2>7, <2>8, <2>9, <2>10, <2>11
    DEF TypeInv, TypeOK
<1>4. ASSUME NEW r \in Request, Verify(r) PROVE TypeInv'
  <2>1. pc' \in [Request -> Place]
    BY <1>0, <1>4, <1>p, GotoType DEF Verify
  <2>2. valid' \in [Request -> BOOLEAN]
    BY <1>0, <1>4 DEF TypeOK, Verify
  <2>3. Readings'
    BY <1>0, <1>4 DEF TypeOK, Readings, Verify, Goto
  <2>4. QED
    BY <1>0, <1>4, <2>1, <2>2, <2>3 DEF TypeInv, TypeOK, Verify
<1>5. ASSUME NEW r \in Request, Finish(r) PROVE TypeInv'
  <2>1. pc' \in [Request -> Place] /\ pc[r] = "finishing"
    BY <1>0, <1>5, <1>p, GotoType DEF Finish
  <2>2. client[r] \in Client /\ now[r] \in Time
    BY <1>0, <2>1 DEF TypeOK, Readings
  <2>3. recorded' \in [Client -> Seq(Time)]
    BY <1>0, <1>5, <2>2 DEF TypeOK, Finish
  <2>4. clients' \in [Client -> State]
    <3> DEFINE new == [Landed(clients[client[r]]) EXCEPT
                         !.failures = IF valid[r] THEN <<>>
                                      ELSE Append(@, now[r])]
    <3>1. clients[client[r]] \in State
      BY <1>0, <2>2 DEF TypeOK
    <3>2. Landed(clients[client[r]]) \in State
      BY <3>1 DEF Landed, State
    <3>3. new \in State
      <4> DEFINE landed == Landed(clients[client[r]])
      <4> HIDE DEF landed
      <4>1. landed \in State
        BY <3>2 DEF landed
      <4>2. landed.failures \in Seq(Time) /\ landed.inFlight \in Nat
        BY <4>1 DEF State
      <4>3. Append(landed.failures, now[r]) \in Seq(Time) /\ <<>> \in Seq(Time)
        BY <2>2, <4>2
      <4>4. \A f \in Seq(Time) : [landed EXCEPT !.failures = f] \in State
        BY <4>1 DEF State
      <4>5. new = [landed EXCEPT !.failures =
                     IF valid[r] THEN <<>> ELSE Append(landed.failures, now[r])]
        BY <4>1 DEF State, landed
      <4>6. QED
        BY <4>3, <4>4, <4>5
    <3>4. clients' = IF clients[client[r]] = Fresh THEN clients
                     ELSE [clients EXCEPT ![client[r]] = new]
      BY <1>5 DEF Finish
    <3> HIDE DEF new
    <3>5. QED
      BY <1>0, <2>2, <3>3, <3>4 DEF TypeOK
  <2>5. now' \in [Request -> Time]
    <3>1. now' = [now EXCEPT ![r] = 0]
      BY <1>5 DEF Finish
    <3>2. QED
      BY <1>0, <3>1, <1>t DEF TypeOK
  <2>6. sorted' \subseteq Client
    BY <1>0, <1>5 DEF TypeOK, Finish
  <2>7. Readings'
    BY <1>0, <1>5, <1>t DEF TypeOK, Readings, Finish, Goto
  <2>8. QED
    BY <1>0, <1>5, <2>1, <2>3, <2>4, <2>5, <2>6, <2>7
    DEF TypeInv, TypeOK, Finish
<1>6. ASSUME NEW r \in Request, Release(r) PROVE TypeInv'
  <2>1. pc' \in [Request -> Place]
    BY <1>0, <1>6, <1>p, GotoType DEF Release
  <2>2. slots + 1 <= Concurrency
    <3>1. "releasing" \in Admitted /\ "verified" \in Admitted
      BY DEF Admitted, Reserved
    <3>2. QED
      BY <1>0, <1>6, <1>p, <1>s, <3>1, SlotsTakenStep DEF Release
  <2>3. slots' \in 0..Concurrency
    BY <1>0, <1>6, <2>2, LimiterAssumption DEF TypeOK, Release, Returned
  <2>4. /\ client' \in [Request -> Client \union {Shared}]
        /\ valid' \in [Request -> BOOLEAN]
    BY <1>0, <1>6 DEF TypeOK, Release
  <2>5. Readings'
    BY <1>0, <1>6 DEF TypeOK, Readings, Release, Goto
  <2>6. QED
    BY <1>0, <1>6, <2>1, <2>3, <2>4, <2>5 DEF TypeInv, TypeOK, Release
<1>7. ASSUME Tick PROVE TypeInv'
  BY <1>0, <1>7, <1>t, LimiterAssumption
  DEF TypeInv, TypeOK, Readings, Tick, Time
<1>8. CASE UNCHANGED vars
  BY <1>0, <1>8 DEF TypeInv, TypeOK, Readings, vars
<1>9. QED
  BY <1>1, <1>2, <1>3, <1>4, <1>5, <1>6, <1>7, <1>8 DEF Next

-----------------------------------------------------------------------------
(* The reservations of a client are its attempts in flight.                 *)

LEMMA AttemptsFinite ==
  ASSUME NEW c
  PROVE  IsFiniteSet(Attempts(c)) /\ Cardinality(Attempts(c)) \in Nat
<1>1. IsFiniteSet(Attempts(c))
  BY LimiterAssumption, FS_Subset DEF Attempts
<1>2. QED
  BY <1>1, FS_CardinalityType

(* What begin does to the entries: an admitted attempt of a client counts   *)
(* there, and no entry's failures grow.                                     *)
LEMMA BeginEntries ==
  ASSUME TypeInv, NEW r \in Request, Begin(r)
  PROVE  \A d \in Client :
           /\ Len(clients'[d].failures) <= Len(clients[d].failures)
           /\ clients'[d].inFlight =
                IF pc'[r] = "verifying" /\ client[r] = d
                THEN clients[d].inFlight + 1 ELSE clients[d].inFlight
           /\ pc'[r] = "verifying" /\ client[r] = d
                => Len(clients'[d].failures) + clients'[d].inFlight
                     <= FailureLimit
<1> DEFINE t == now[r]
           c == client[r]
<1>1. TypeOK /\ t \in Time /\ c \in Client \union {Shared}
  BY DEF TypeInv, TypeOK
<1>2. /\ Expired(c, t) \in [Client -> State]
      /\ \A d \in Client :
           /\ Expired(c, t)[d].inFlight = clients[d].inFlight
           /\ Len(Expired(c, t)[d].failures) <= Len(clients[d].failures)
  BY <1>1, ExpiredKeeps
<1>3. Passes(c, t) /\ c # Shared => ~Crowded(Expired(c, t)[c])
  BY Zenon DEF Passes
<1> HIDE DEF t, c
<1>4. /\ Goto(r, "beginning",
              IF Passes(c, t) THEN "verifying" ELSE "releasing")
      /\ clients' = IF Passes(c, t) /\ c # Shared
                    THEN [Expired(c, t) EXCEPT ![c].inFlight = @ + 1]
                    ELSE Expired(c, t)
  BY DEF Begin, t, c
<1>5. pc'[r] = "verifying" <=> Passes(c, t)
  BY <1>1, <1>4 DEF TypeOK, Goto
<1>6. ASSUME NEW d \in Client
      PROVE  /\ Expired(c, t)[d].inFlight \in Nat
             /\ Len(Expired(c, t)[d].failures) \in Nat
             /\ clients'[d].failures = Expired(c, t)[d].failures
             /\ clients'[d].inFlight =
                  IF Passes(c, t) /\ c # Shared /\ c = d
                  THEN Expired(c, t)[d].inFlight + 1
                  ELSE Expired(c, t)[d].inFlight
  BY <1>1, <1>2, <1>4 DEF State
<1>7. ASSUME NEW d \in Client, Passes(c, t), c = d
      PROVE  Len(clients'[d].failures) + clients'[d].inFlight <= FailureLimit
  <2>1. c # Shared
    BY <1>7, LimiterAssumption
  <2>2. ~(Len(Expired(c, t)[d].failures) + Expired(c, t)[d].inFlight
            >= FailureLimit)
    BY <1>3, <1>7, <2>1 DEF Crowded
  <2>3. QED
    BY <1>6, <1>7, <2>1, <2>2, LimiterAssumption
<1>8. QED
  BY <1>2, <1>5, <1>6, <1>7, LimiterAssumption DEF c

(* A step that leaves every client's attempts and entry alone.              *)
LEMMA AttemptsKept ==
  ASSUME ReservationsExact, UNCHANGED clients,
         \A c \in Client : Attempts(c)' = Attempts(c)
  PROVE  ReservationsExact'
BY DEF ReservationsExact

LEMMA ReservationsStep ==
  TypeInv /\ ReservationsExact /\ [Next]_vars => ReservationsExact'
<1> SUFFICES ASSUME TypeInv, ReservationsExact, [Next]_vars
             PROVE  ReservationsExact'
  OBVIOUS
<1> USE DEF requestvars, limitervars, historyvars
<1>0. TypeOK /\ Readings
  BY DEF TypeInv
<1>p. /\ "verifying" \in Reserved /\ "verified" \in Reserved
      /\ "finishing" \in Reserved /\ "releasing" \notin Reserved
      /\ "idle" \notin Reserved /\ "asked" \notin Reserved
      /\ "beginning" \notin Reserved
  BY DEF Reserved
<1>q. "verifying" \in Place /\ "releasing" \in Place
  BY DEF Place, Admitted, Reserved
<1>1. ASSUME NEW r \in Request, TakeSlot(r) PROVE ReservationsExact'
  <2>1. \A c \in Client : Attempts(c)' = Attempts(c)
    BY <1>0, <1>1, <1>p DEF TakeSlot, Goto, TypeOK, Attempts
  <2>2. QED
    BY <1>1, <2>1, AttemptsKept DEF TakeSlot
<1>2. ASSUME NEW r \in Request, ReadClock(r) PROVE ReservationsExact'
  <2>1. \A c \in Client : Attempts(c)' = Attempts(c)
    BY <1>0, <1>2, <1>p DEF ReadClock, Goto, TypeOK, Attempts
  <2>2. QED
    BY <1>2, <2>1, AttemptsKept DEF ReadClock
<1>3. ASSUME NEW r \in Request, Begin(r) PROVE ReservationsExact'
  <2> SUFFICES ASSUME NEW c \in Client
               PROVE  clients'[c].inFlight = Cardinality(Attempts(c)')
    BY DEF ReservationsExact
  <2>1. \E to \in {"verifying", "releasing"} : Goto(r, "beginning", to)
    BY <1>3 DEF Begin
  <2>2. /\ pc[r] = "beginning" /\ pc'[r] \in {"verifying", "releasing"}
        /\ \A q \in Request \ {r} : pc'[q] = pc[q]
        /\ client' = client
    BY <1>0, <1>3, <1>q, <2>1, GotoType DEF Begin
  <2>3. clients'[c].inFlight =
          IF pc'[r] = "verifying" /\ client[r] = c
          THEN clients[c].inFlight + 1 ELSE clients[c].inFlight
    BY <1>3, BeginEntries
  <2>4. clients[c].inFlight = Cardinality(Attempts(c))
    BY DEF ReservationsExact
  <2>5. CASE pc'[r] = "verifying" /\ client[r] = c
    <3>1. Attempts(c)' = Attempts(c) \union {r} /\ r \notin Attempts(c)
      BY <1>p, <2>2, <2>5 DEF Attempts
    <3>2. IsFiniteSet(Attempts(c)) /\ Cardinality(Attempts(c)) \in Nat
      BY AttemptsFinite
    <3>3. Cardinality(Attempts(c)') = Cardinality(Attempts(c)) + 1
      BY <3>1, <3>2, FS_AddElement
    <3>4. QED
      BY <2>3, <2>4, <2>5, <3>3
  <2>6. CASE ~(pc'[r] = "verifying" /\ client[r] = c)
    <3>1. Attempts(c)' = Attempts(c)
      BY <1>p, <2>2, <2>6 DEF Attempts
    <3>2. QED
      BY <2>3, <2>4, <2>6, <3>1
  <2>7. QED
    BY <2>5, <2>6
<1>4. ASSUME NEW r \in Request, Verify(r) PROVE ReservationsExact'
  <2>1. \A c \in Client : Attempts(c)' = Attempts(c)
    BY <1>0, <1>4, <1>p DEF Verify, Goto, TypeOK, Attempts
  <2>2. QED
    BY <1>4, <2>1, AttemptsKept DEF Verify
<1>5. ASSUME NEW r \in Request, Finish(r) PROVE ReservationsExact'
  <2> DEFINE d == client[r]
  <2> SUFFICES ASSUME NEW c \in Client
               PROVE  clients'[c].inFlight = Cardinality(Attempts(c)')
    BY DEF ReservationsExact
  <2>1. /\ pc[r] = "finishing" /\ pc'[r] = "releasing"
        /\ \A q \in Request \ {r} : pc'[q] = pc[q]
        /\ client' = client
    BY <1>0, <1>5, <1>q, GotoType DEF Finish
  <2>2. clients[c].inFlight = Cardinality(Attempts(c))
    BY DEF ReservationsExact
  <2>3. d \in Client /\ clients \in [Client -> State]
    BY <1>0, <2>1 DEF TypeOK, Readings
  <2>4. CASE c = d
    <3>1. Attempts(c)' = Attempts(c) \ {r} /\ r \in Attempts(c)
      BY <1>p, <2>1, <2>4 DEF Attempts
    <3>2. /\ Cardinality(Attempts(c)') = Cardinality(Attempts(c)) - 1
          /\ Cardinality(Attempts(c)') \in Nat
          /\ Cardinality(Attempts(c)) \in Nat
      <4>1. IsFiniteSet(Attempts(c)) /\ Cardinality(Attempts(c)) \in Nat
        BY AttemptsFinite
      <4>2. /\ Cardinality(Attempts(c)') = Cardinality(Attempts(c)) - 1
            /\ IsFiniteSet(Attempts(c)')
        BY <3>1, <4>1, FS_RemoveElement
      <4>3. QED
        BY <4>1, <4>2, FS_CardinalityType
    <3>3. clients[c].inFlight > 0 /\ clients[c] # Fresh
      BY <2>2, <3>2 DEF Fresh
    <3>4. clients'[c].inFlight = clients[c].inFlight - 1
      BY <1>5, <2>3, <2>4, <3>3 DEF Finish, Landed, State
    <3>5. QED
      BY <2>2, <3>2, <3>4
  <2>5. CASE c # d
    <3>1. Attempts(c)' = Attempts(c)
      BY <2>1, <2>5 DEF Attempts
    <3>2. clients'[c] = clients[c]
      BY <1>5, <2>3, <2>5 DEF Finish
    <3>3. QED
      BY <2>2, <3>1, <3>2
  <2>6. QED
    BY <2>4, <2>5
<1>6. ASSUME NEW r \in Request, Release(r) PROVE ReservationsExact'
  <2>1. \A c \in Client : Attempts(c)' = Attempts(c)
    BY <1>0, <1>6, <1>p, LimiterAssumption
    DEF Release, Goto, TypeOK, Attempts
  <2>2. QED
    BY <1>6, <2>1, AttemptsKept DEF Release
<1>7. CASE Tick \/ UNCHANGED vars
  <2>1. \A c \in Client : Attempts(c)' = Attempts(c)
    BY <1>7 DEF Tick, vars, Attempts
  <2>2. QED
    BY <1>7, <2>1, AttemptsKept DEF Tick, vars
<1>8. QED
  BY <1>1, <1>2, <1>3, <1>4, <1>5, <1>6, <1>7 DEF Next

-----------------------------------------------------------------------------
(* The limit on the failures of a client.                                   *)

LEMMA FailuresStep ==
  TypeInv /\ ReservationsExact /\ FailuresWithinLimit /\ [Next]_vars
    => FailuresWithinLimit'
<1> SUFFICES ASSUME TypeInv, ReservationsExact, FailuresWithinLimit,
                    [Next]_vars
             PROVE  FailuresWithinLimit'
  OBVIOUS
<1> USE DEF requestvars, limitervars, historyvars
<1>0. TypeOK /\ Readings
  BY DEF TypeInv
<1>1. CASE UNCHANGED clients
  BY <1>1 DEF FailuresWithinLimit
<1>2. ASSUME NEW r \in Request, Begin(r) PROVE FailuresWithinLimit'
  <2> SUFFICES ASSUME NEW d \in Client
               PROVE  Len(clients'[d].failures) + clients'[d].inFlight
                        <= FailureLimit
    BY DEF FailuresWithinLimit
  <2>1. /\ Len(clients'[d].failures) <= Len(clients[d].failures)
        /\ clients'[d].inFlight =
             IF pc'[r] = "verifying" /\ client[r] = d
             THEN clients[d].inFlight + 1 ELSE clients[d].inFlight
        /\ pc'[r] = "verifying" /\ client[r] = d
             => Len(clients'[d].failures) + clients'[d].inFlight
                  <= FailureLimit
    BY <1>2, BeginEntries
  <2>2. Len(clients[d].failures) + clients[d].inFlight <= FailureLimit
    BY DEF FailuresWithinLimit
  <2>3. /\ Len(clients'[d].failures) \in Nat
        /\ Len(clients[d].failures) \in Nat
        /\ clients[d].inFlight \in Nat
    <3>1. TypeOK'
      BY TypeStep DEF TypeInv
    <3>2. clients'[d] \in State /\ clients[d] \in State
      BY <1>0, <3>1 DEF TypeOK
    <3>3. QED
      BY <3>2 DEF State
  <2>4. QED
    <3> DEFINE length == Len(clients[d].failures)
               length1 == Len(clients'[d].failures)
               flight == clients[d].inFlight
               flight1 == clients'[d].inFlight
               mine == pc'[r] = "verifying" /\ client[r] = d
    <3>1. /\ length + flight <= FailureLimit /\ length \in Nat
          /\ flight \in Nat /\ length1 \in Nat /\ length1 <= length
          /\ flight1 = IF mine THEN flight + 1 ELSE flight
          /\ mine => length1 + flight1 <= FailureLimit
          /\ FailureLimit \in Nat
      BY <2>1, <2>2, <2>3, LimiterAssumption
    <3> HIDE DEF length, length1, flight, flight1, mine
    <3>2. length1 + flight1 <= FailureLimit
      BY <3>1
    <3>3. QED
      BY <3>2 DEF length1, flight1
<1>3. ASSUME NEW r \in Request, Finish(r) PROVE FailuresWithinLimit'
  <2> DEFINE d == client[r]
  <2>1. pc[r] = "finishing" /\ d \in Client /\ clients[d] \in State
    BY <1>0, <1>3 DEF TypeOK, Readings, Finish, Goto
  <2>2. clients[d].inFlight > 0
    <3>1. r \in Attempts(d)
      BY <2>1 DEF Attempts, Reserved
    <3>2. IsFiniteSet(Attempts(d)) /\ Cardinality(Attempts(d)) \in Nat
      BY AttemptsFinite
    <3>3. Cardinality(Attempts(d)) # 0
      BY <3>1, <3>2, FS_EmptySet
    <3>4. clients[d].inFlight = Cardinality(Attempts(d))
      BY <2>1 DEF ReservationsExact
    <3>5. QED
      BY <3>2, <3>3, <3>4
  <2>3. /\ Len(clients[d].failures) + clients[d].inFlight <= FailureLimit
        /\ Len(clients[d].failures) \in Nat /\ clients[d].inFlight \in Nat
        /\ clients[d].failures \in Seq(Time) /\ now[r] \in Time
    BY <1>0, <2>1 DEF FailuresWithinLimit, State, TypeOK
  <2>4. clients' =
          [clients EXCEPT ![d] =
             [Landed(clients[d]) EXCEPT
                !.failures = IF valid[r] THEN <<>> ELSE Append(@, now[r])]]
    BY <1>3, <2>1, <2>2 DEF Finish, Fresh
  <2>5. /\ Landed(clients[d]).inFlight = clients[d].inFlight - 1
        /\ Landed(clients[d]).failures = clients[d].failures
        /\ Landed(clients[d]) \in State
    BY <2>1, <2>2 DEF Landed, State
  <2>6. /\ clients'[d].inFlight = clients[d].inFlight - 1
        /\ clients'[d].failures \in {<<>>, Append(clients[d].failures, now[r])}
        /\ \A e \in Client \ {d} : clients'[e] = clients[e]
    BY <1>0, <2>1, <2>4, <2>5 DEF TypeOK, State
  <2>7. Len(clients'[d].failures) <= Len(clients[d].failures) + 1
    <3>1. Len(<<>>) = 0
      OBVIOUS
    <3>2. Len(Append(clients[d].failures, now[r]))
            = Len(clients[d].failures) + 1
      BY <2>3
    <3>3. QED
      BY <2>3, <2>6, <3>1, <3>2
  <2>8. Len(clients'[d].failures) \in Nat
    BY <2>3, <2>6
  <2>9. Len(clients'[d].failures) + clients'[d].inFlight <= FailureLimit
    <3> DEFINE length == Len(clients[d].failures)
               length1 == Len(clients'[d].failures)
               flight == clients[d].inFlight
               flight1 == clients'[d].inFlight
    <3>1. /\ length + flight <= FailureLimit /\ length \in Nat
          /\ flight \in Nat /\ length1 \in Nat /\ length1 <= length + 1
          /\ flight1 = flight - 1 /\ FailureLimit \in Nat
      BY <2>3, <2>6, <2>7, <2>8, LimiterAssumption
    <3> HIDE DEF length, length1, flight, flight1
    <3>2. length1 + flight1 <= FailureLimit
      BY <3>1
    <3>3. QED
      BY <3>2 DEF length1, flight1
  <2>10. QED
    BY <2>6, <2>9 DEF FailuresWithinLimit
<1>4. QED
  BY <1>1, <1>2, <1>3
  DEF Next, TakeSlot, ReadClock, Verify, Release, Tick, vars

-----------------------------------------------------------------------------
(* The global budget: tokens spent and tokens left are covered by the burst *)
(* and by the time that lastRefill has gone through, some of it twice.      *)

BudgetInv ==
  IF Counting THEN tokens + admitted <= Burst + (lastRefill - since) + rewound
  ELSE admitted = 0

LEMMA BudgetStep == TypeInv /\ BudgetInv /\ [Next]_vars => BudgetInv'
<1> SUFFICES ASSUME TypeInv, BudgetInv, [Next]_vars PROVE BudgetInv'
  OBVIOUS
<1> USE DEF requestvars, limitervars, historyvars
<1>0. TypeOK
  BY DEF TypeInv
<1>1. CASE UNCHANGED <<tokens, lastRefill, since, admitted, rewound>>
  BY <1>1 DEF BudgetInv, Counting
<1>2. ASSUME NEW r \in Request, Begin(r) PROVE BudgetInv'
  <2> DEFINE t == now[r]
             c == client[r]
  <2>1. t \in Time
    BY <1>0 DEF TypeOK
  <2>2. /\ Refilled(t) \in 0..Burst
        /\ Refilled(t) <= tokens + (IF t > lastRefill THEN t - lastRefill
                                    ELSE 0)
    BY <1>0, <2>1, RefillBounds
  <2> HIDE DEF t, c
  <2>3. /\ tokens' = IF Passes(c, t) THEN Refilled(t) - 1 ELSE Refilled(t)
        /\ lastRefill' = t
        /\ admitted' = IF Passes(c, t) /\ (Counting \/ t >= since)
                       THEN admitted + 1 ELSE admitted
        /\ rewound' = IF Counting /\ t < lastRefill
                      THEN rewound + (lastRefill - t) ELSE rewound
        /\ since' = since
    BY <1>2 DEF Begin, t, c
  <2>4. /\ tokens \in Int /\ lastRefill \in Int /\ since \in Int
        /\ admitted \in Nat /\ rewound \in Nat /\ t \in Int /\ Burst \in Int
        /\ Refilled(t) \in Int /\ Refilled(t) <= Burst
    BY <1>0, <2>1, <2>2, LimiterAssumption DEF TypeOK, Time
  <2>5. tokens' + admitted' <= Refilled(t) + admitted
    BY <2>3, <2>4
  <2>6. CASE Counting
    BY <2>2, <2>3, <2>4, <2>5, <2>6 DEF BudgetInv, Counting
  <2>7. CASE ~Counting
    BY <2>2, <2>3, <2>4, <2>5, <2>7 DEF BudgetInv, Counting
  <2>8. QED
    BY <2>6, <2>7
<1>3. QED
  BY <1>1, <1>2
  DEF Next, TakeSlot, ReadClock, Verify, Finish, Release, Tick, vars

-----------------------------------------------------------------------------
(* What the limiter remembers of a client: the end of the failures that     *)
(* were recorded, without some that are older than the window.              *)

Remembers(kept, all, cutoff) ==
  LET past == Len(all) - Len(kept)
  IN  /\ past >= 0
      /\ \A i \in 1..Len(kept) : kept[i] = all[past + i]
      /\ \A i \in 1..past : all[i] < cutoff

Ordered(s) == \A i, j \in 1..Len(s) : i <= j => s[i] <= s[j]

(* The oldest entries that popleft drops are below the cutoff: if one at or *)
(* before the count of those it drops were not, all it drops came before    *)
(* that one, and they were fewer.                                           *)
LEMMA ExpireRemembers ==
  ASSUME NEW failures \in Seq(Time), NEW cutoff \in Int
  PROVE  Remembers(Expire(failures, cutoff), failures, cutoff)
<1> DEFINE gone == {i \in 1..Len(failures) :
                      \A j \in 1..i : failures[j] < cutoff}
           n == Len(failures)
           g == Cardinality(gone)
<1>1. n \in Nat /\ \A i \in 1..n : failures[i] \in Time
  OBVIOUS
<1>2. \A m \in Nat : IsFiniteSet(1..m) /\ Cardinality(1..m) = m
  <2> TAKE m \in Nat
  <2>1. IsFiniteSet(1..m) /\ Cardinality(1..m) = IF 1 > m THEN 0 ELSE m - 1 + 1
    BY FS_Interval
  <2>2. QED
    BY <2>1
<1>3. IsFiniteSet(gone) /\ g \in Nat /\ g <= n
  <2>1. IsFiniteSet(gone) /\ Cardinality(gone) <= Cardinality(1..n)
    BY <1>1, <1>2, FS_Subset
  <2>2. QED
    BY <1>1, <1>2, <2>1, FS_CardinalityType
<1>4. \A i \in 1..g : i \in gone
  <2> SUFFICES ASSUME NEW i \in 1..g, i \notin gone PROVE FALSE
    OBVIOUS
  <2>1. i \in 1..n /\ i - 1 \in Nat
    BY <1>1, <1>3
  <2>2. PICK j \in 1..i : ~(failures[j] < cutoff)
    BY <2>1
  <2>3. \A k \in gone : k \in 1..(i - 1)
    BY <1>1, <2>1, <2>2
  <2>4. gone \in SUBSET (1..(i - 1))
    BY <2>3
  <2> HIDE DEF gone
  <2>5. IsFiniteSet(1..(i - 1)) /\ Cardinality(1..(i - 1)) = i - 1
    BY <1>2, <2>1
  <2>6. Cardinality(gone) <= Cardinality(1..(i - 1))
    BY <2>4, <2>5, FS_Subset
  <2>7. QED
    BY <1>3, <2>1, <2>5, <2>6
<1>5. \A i \in 1..g : failures[i] < cutoff
  BY <1>3, <1>4
<1> HIDE DEF gone, g, n
<1> DEFINE kept == SubSeq(failures, g + 1, n)
<1>6. \A i \in g + 1 .. n : failures[i] \in Time
  BY <1>1, <1>3
<1>7. /\ Len(kept) = IF g + 1 <= n THEN n - (g + 1) + 1 ELSE 0
      /\ \A i \in 1 .. n - (g + 1) + 1 : kept[i] = failures[g + 1 + i - 1]
  BY <1>1, <1>3, <1>6, SubSeqProperties
<1>8. Len(kept) = n - g /\ \A i \in 1..(n - g) : kept[i] = failures[g + i]
  BY <1>1, <1>3, <1>7
<1>9. Expire(failures, cutoff) = kept
  BY DEF Expire, gone, g, n
<1> HIDE DEF kept
<1>10. n - Len(kept) = g /\ Len(kept) = n - g
  BY <1>1, <1>3, <1>8
<1>11. Remembers(kept, failures, cutoff)
  BY <1>3, <1>5, <1>8, <1>10 DEF Remembers, n
<1>12. QED
  BY <1>9, <1>11

(* Forgetting in two steps, up to the later of two cutoffs.                 *)
LEMMA RemembersLess ==
  ASSUME NEW all \in Seq(Time), NEW some \in Seq(Time), NEW few \in Seq(Time),
         NEW early \in Int, NEW late \in Int, NEW cutoff \in Int,
         Remembers(some, all, early), Remembers(few, some, late),
         early <= cutoff, late <= cutoff
  PROVE  Remembers(few, all, cutoff)
<1> DEFINE a == Len(all)
           b == Len(some)
           c == Len(few)
<1>1. a \in Nat /\ b \in Nat /\ c \in Nat
  OBVIOUS
<1>2. /\ \A i \in 1..a : all[i] \in Int
      /\ \A i \in 1..b : some[i] \in Int
  BY LimiterAssumption DEF Time
<1>3. /\ a - b >= 0
      /\ \A i \in 1..b : some[i] = all[(a - b) + i]
      /\ \A i \in 1..(a - b) : all[i] < early
  BY DEF Remembers
<1>4. /\ b - c >= 0
      /\ \A i \in 1..c : few[i] = some[(b - c) + i]
      /\ \A i \in 1..(b - c) : some[i] < late
  BY DEF Remembers
<1> HIDE DEF a, b, c
<1>5. a - c >= 0
  BY <1>1, <1>3, <1>4
<1>6. ASSUME NEW i \in 1..c PROVE few[i] = all[(a - c) + i]
  <2>1. (b - c) + i \in 1..b /\ (a - b) + ((b - c) + i) = (a - c) + i
    BY <1>1, <1>4
  <2>2. QED
    BY <1>3, <1>4, <2>1
<1>7. ASSUME NEW i \in 1..(a - c) PROVE all[i] < cutoff
  <2>1. i \in 1..a
    BY <1>1, <1>5
  <2>2. CASE i <= a - b
    BY <1>1, <1>2, <1>3, <2>1, <2>2
  <2>3. CASE i > a - b
    <3>1. i - (a - b) \in 1..(b - c) /\ i - (a - b) \in 1..b /\ (a - b) + (i - (a - b)) = i
      BY <1>1, <1>3, <1>4, <2>1, <2>3
    <3>2. some[i - (a - b)] = all[i] /\ some[i - (a - b)] < late
      BY <1>3, <1>4, <3>1
    <3>3. QED
      BY <1>2, <2>1, <3>2
  <2>4. QED
    BY <1>1, <2>1, <2>2, <2>3
<1>8. QED
  BY <1>5, <1>6, <1>7 DEF Remembers, a, b, c

(* As the clock moves on, more may be forgotten.                            *)
LEMMA RemembersLonger ==
  ASSUME NEW all \in Seq(Time), NEW kept \in Seq(Time),
         NEW cutoff \in Int, NEW later \in Int, cutoff <= later,
         Remembers(kept, all, cutoff)
  PROVE  Remembers(kept, all, later)
<1>1. \A i \in 1..Len(all) : all[i] \in Int
  BY LimiterAssumption DEF Time
<1>2. Len(all) \in Nat /\ Len(kept) \in Nat
  OBVIOUS
<1>3. QED
  BY <1>1, <1>2 DEF Remembers

(* Failures in order, the last of them old: all may be forgotten.           *)
LEMMA RemembersNothing ==
  ASSUME NEW all \in Seq(Time), NEW kept \in Seq(Time), NEW cutoff \in Int,
         Remembers(kept, all, cutoff), Ordered(all),
         kept # <<>> => kept[Len(kept)] < cutoff
  PROVE  Remembers(<<>>, all, cutoff)
<1> DEFINE a == Len(all)
           b == Len(kept)
<1>1. a \in Nat /\ b \in Nat /\ (kept # <<>> <=> b # 0)
  BY EmptySeq
<1>2. \A i \in 1..a : all[i] \in Int
  BY LimiterAssumption DEF Time
<1>3. /\ a - b >= 0
      /\ \A i \in 1..b : kept[i] = all[(a - b) + i]
      /\ \A i \in 1..(a - b) : all[i] < cutoff
  BY DEF Remembers
<1>4. \A i, j \in 1..a : i <= j => all[i] <= all[j]
  BY DEF Ordered
<1>5. b # 0 => kept[b] < cutoff
  BY <1>1
<1>6. Len(<<>>) = 0
  OBVIOUS
<1> HIDE DEF a, b
<1>7. ASSUME NEW i \in 1..a PROVE all[i] < cutoff
  <2>1. CASE b = 0
    BY <1>1, <1>3, <2>1
  <2>2. CASE b # 0
    <3>1. b \in 1..b /\ (a - b) + b = a /\ a \in 1..a
      BY <1>1, <2>2
    <3>2. kept[b] = all[a] /\ all[i] <= all[a]
      BY <1>1, <1>3, <1>4, <3>1
    <3>3. QED
      BY <1>2, <1>5, <2>2, <3>1, <3>2
  <2>3. QED
    BY <2>1, <2>2
<1>8. QED
  BY <1>1, <1>6, <1>7 DEF Remembers, a

(* A failure that both record.                                              *)
LEMMA RemembersMore ==
  ASSUME NEW all \in Seq(Time), NEW kept \in Seq(Time), NEW t \in Time,
         NEW cutoff \in Int, Remembers(kept, all, cutoff)
  PROVE  Remembers(Append(kept, t), Append(all, t), cutoff)
<1> DEFINE a == Len(all)
           b == Len(kept)
           all1 == Append(all, t)
           kept1 == Append(kept, t)
<1>1. a \in Nat /\ b \in Nat /\ Len(all1) = a + 1 /\ Len(kept1) = b + 1
  OBVIOUS
<1>2. /\ \A i \in 1..a : all1[i] = all[i]
      /\ \A i \in 1..b : kept1[i] = kept[i]
      /\ all1[a + 1] = t /\ kept1[b + 1] = t
  OBVIOUS
<1>3. /\ a - b >= 0
      /\ \A i \in 1..b : kept[i] = all[(a - b) + i]
      /\ \A i \in 1..(a - b) : all[i] < cutoff
  BY DEF Remembers
<1> HIDE DEF a, b, all1, kept1
<1>4. Len(all1) - Len(kept1) = a - b
  BY <1>1
<1>5. ASSUME NEW i \in 1..(b + 1) PROVE kept1[i] = all1[(a - b) + i]
  <2>1. CASE i = b + 1
    BY <1>1, <1>2, <2>1
  <2>2. CASE i # b + 1
    BY <1>1, <1>2, <1>3, <2>2
  <2>3. QED
    BY <2>1, <2>2
<1>6. ASSUME NEW i \in 1..(a - b) PROVE all1[i] < cutoff
  BY <1>1, <1>2, <1>3
<1>7. QED
  BY <1>1, <1>3, <1>4, <1>5, <1>6 DEF Remembers, all1, kept1

(* A failure recorded in order keeps the order.                             *)
LEMMA StaysOrdered ==
  ASSUME NEW all \in Seq(Time), NEW t \in Time, Ordered(all),
         ~ \E i \in 1..Len(all) : all[i] > t
  PROVE  Ordered(Append(all, t))
<1> DEFINE a == Len(all)
           all1 == Append(all, t)
<1>1. /\ a \in Nat /\ Len(all1) = a + 1 /\ all1[a + 1] = t /\ t \in Int
      /\ \A i \in 1..a : all1[i] = all[i] /\ all[i] \in Int
  BY LimiterAssumption DEF Time
<1>2. /\ \A i \in 1..a : ~(all[i] > t)
      /\ \A i, j \in 1..a : i <= j => all[i] <= all[j]
  BY DEF Ordered
<1> HIDE DEF a, all1
<1>3. ASSUME NEW i \in 1..(a + 1), NEW j \in 1..(a + 1), i <= j
      PROVE  all1[i] <= all1[j]
  <2>1. CASE j = a + 1 /\ i = a + 1
    BY <1>1, <2>1
  <2>2. CASE j = a + 1 /\ i # a + 1
    BY <1>1, <1>2, <2>2
  <2>3. CASE j # a + 1
    BY <1>1, <1>2, <1>3, <2>3
  <2>4. QED
    BY <2>1, <2>2, <2>3
<1>4. QED
  BY <1>1, <1>3 DEF Ordered, all1

(* What is recent is among what is remembered.                              *)
LEMMA RecentRemembered ==
  ASSUME NEW all \in Seq(Time), NEW kept \in Seq(Time), NEW cutoff \in Int,
         Remembers(kept, all, cutoff)
  PROVE  Cardinality({i \in 1..Len(all) : all[i] >= cutoff}) <= Len(kept)
<1> DEFINE a == Len(all)
           b == Len(kept)
           recent == {i \in 1..Len(all) : all[i] >= cutoff}
<1>1. a \in Nat /\ b \in Nat /\ \A i \in 1..a : all[i] \in Int
  BY LimiterAssumption DEF Time
<1>2. a - b >= 0 /\ \A i \in 1..(a - b) : all[i] < cutoff
  BY DEF Remembers
<1>3. \A i \in recent : i \in (a - b) + 1 .. a
  BY <1>1, <1>2
<1>4. recent \in SUBSET ((a - b) + 1 .. a)
  BY <1>3
<1> HIDE DEF recent, a, b
<1>5. /\ IsFiniteSet((a - b) + 1 .. a)
      /\ Cardinality((a - b) + 1 .. a)
           = IF (a - b) + 1 > a THEN 0 ELSE a - ((a - b) + 1) + 1
  BY <1>1, FS_Interval
<1>6. Cardinality((a - b) + 1 .. a) = b
  BY <1>1, <1>2, <1>5
<1>7. Cardinality(recent) <= b
  BY <1>4, <1>5, <1>6, FS_Subset
<1>8. QED
  BY <1>7 DEF recent, b

-----------------------------------------------------------------------------
(* The memory of a client whose failures were recorded in order.            *)

MemoryInv ==
  \A c \in sorted :
    /\ Ordered(recorded[c])
    /\ Remembers(clients[c].failures, recorded[c], clock - Window)

(* begin forgets only what is older than the window at a time that is not   *)
(* later than the clock.                                                    *)
LEMMA BeginRemembers ==
  ASSUME TypeOK, MemoryInv, NEW t \in Time, t <= clock,
         NEW c \in Client \union {Shared}, NEW d \in sorted
  PROVE  Remembers(Expired(c, t)[d].failures, recorded[d], clock - Window)
<1> DEFINE all == recorded[d]
           old == CleanedUp(t)
           cutoff == clock - Window
<1>1. /\ d \in Client /\ all \in Seq(Time) /\ clients[d] \in State
      /\ clients[d].failures \in Seq(Time)
  BY DEF TypeOK, State
<1>2. t - Window \in Int /\ cutoff \in Int /\ t - Window <= cutoff
  BY LimiterAssumption DEF TypeOK, Time
<1>3. Ordered(all) /\ Remembers(clients[d].failures, all, cutoff)
  BY DEF MemoryInv
<1>4. old \in [Client -> State]
  BY CleanupKeeps
<1>5. Remembers(old[d].failures, all, cutoff)
  <2>1. CASE old[d] = clients[d]
    BY <1>3, <2>1
  <2>2. CASE old[d] # clients[d]
    <3>1. old[d] = Fresh /\ ~Kept(clients[d], t - Window)
      BY <1>1, <2>2 DEF CleanedUp
    <3>2. clients[d].failures # <<>> =>
            ~(clients[d].failures[Len(clients[d].failures)] >= t - Window)
      BY <3>1 DEF Kept
    <3>3. ASSUME clients[d].failures # <<>>
          PROVE  clients[d].failures[Len(clients[d].failures)] < cutoff
      <4>1. clients[d].failures[Len(clients[d].failures)] \in Time
        BY <1>1, <3>3, EmptySeq
      <4>2. QED
        BY <1>2, <3>2, <3>3, <4>1, LimiterAssumption DEF Time
    <3> HIDE DEF all, cutoff
    <3>4. Remembers(<<>>, all, cutoff)
      BY <1>1, <1>2, <1>3, <3>3, RemembersNothing
    <3>5. QED
      BY <3>1, <3>4 DEF Fresh
  <2>3. QED
    BY <2>1, <2>2
<1>6. CASE c # d
  <2>1. Expired(c, t)[d] = old[d]
    BY <1>1, <1>4, <1>6 DEF Expired, State
  <2>2. QED
    BY <1>5, <2>1
<1>7. CASE c = d
  <2> DEFINE few == Expire(old[d].failures, t - Window)
  <2>1. old[d].failures \in Seq(Time)
    BY <1>1, <1>4 DEF State
  <2>2. few \in Seq(Time) /\ Remembers(few, old[d].failures, t - Window)
    BY <1>2, <2>1, ExpireShortens, ExpireRemembers
  <2>3. c # Shared
    BY <1>1, <1>7, LimiterAssumption
  <2>4. Expired(c, t)[d].failures = few
    BY <1>1, <1>4, <1>7, <2>3 DEF Expired, State
  <2> HIDE DEF few, old, all, cutoff
  <2>5. Remembers(few, all, cutoff)
    BY <1>1, <1>2, <1>5, <2>1, <2>2, RemembersLess
  <2>6. QED
    BY <2>4, <2>5 DEF all, cutoff
<1>8. QED
  BY <1>6, <1>7

(* Every step keeps the memory of the clients recorded in order.            *)
LEMMA MemoryStep ==
  TypeInv /\ ReservationsExact /\ MemoryInv /\ [Next]_vars => MemoryInv'
<1> SUFFICES ASSUME TypeInv, ReservationsExact, MemoryInv, [Next]_vars
             PROVE  MemoryInv'
  OBVIOUS
<1> USE DEF requestvars, limitervars, historyvars
<1>0. TypeOK /\ Readings
  BY DEF TypeInv
<1>t. /\ clock \in Int /\ Window \in Int /\ clock - Window \in Int
      /\ \A c \in sorted : /\ c \in Client /\ recorded[c] \in Seq(Time)
                           /\ clients[c].failures \in Seq(Time)
  BY <1>0, LimiterAssumption DEF TypeOK, State, Time
<1>1. CASE UNCHANGED <<clients, recorded, sorted, clock>>
  BY <1>1 DEF MemoryInv
<1>2. ASSUME NEW r \in Request, Begin(r) PROVE MemoryInv'
  <2> DEFINE t == now[r]
             c == client[r]
  <2>1. t \in Time /\ t <= clock /\ c \in Client \union {Shared}
    BY <1>0 DEF TypeOK, Readings
  <2>2. \A d \in sorted :
          Remembers(Expired(c, t)[d].failures, recorded[d], clock - Window)
    BY <1>0, <2>1, BeginRemembers
  <2>3. Expired(c, t) \in [Client -> State]
    BY <1>0, <2>1, ExpiredKeeps
  <2> HIDE DEF t, c
  <2>4. /\ clients' \in {[Expired(c, t) EXCEPT ![c].inFlight = @ + 1], Expired(c, t)}
        /\ UNCHANGED <<clock, recorded, sorted>>
    BY <1>2 DEF Begin, t, c
  <2>5. \A d \in sorted : clients'[d].failures = Expired(c, t)[d].failures
    BY <1>t, <2>3, <2>4 DEF State
  <2>6. QED
    BY <2>2, <2>4, <2>5 DEF MemoryInv
<1>3. ASSUME NEW r \in Request, Finish(r) PROVE MemoryInv'
  <2> DEFINE c == client[r]
  <2>1. /\ pc[r] = "finishing" /\ c \in Client /\ now[r] \in Time
        /\ clients[c] \in State /\ clients \in [Client -> State]
        /\ recorded \in [Client -> Seq(Time)]
    BY <1>0, <1>3 DEF TypeOK, Readings, Finish, Goto
  <2>2. clients[c].inFlight > 0
    <3>1. r \in Attempts(c)
      BY <2>1 DEF Attempts, Reserved
    <3>2. IsFiniteSet(Attempts(c)) /\ Cardinality(Attempts(c)) \in Nat
      BY AttemptsFinite
    <3>3. Cardinality(Attempts(c)) # 0
      BY <3>1, <3>2, FS_EmptySet
    <3>4. clients[c].inFlight = Cardinality(Attempts(c))
      BY <2>1 DEF ReservationsExact
    <3>5. QED
      BY <3>2, <3>3, <3>4
  <2>3. /\ clients' =
             [clients EXCEPT ![c] =
                [Landed(clients[c]) EXCEPT
                   !.failures = IF valid[r] THEN <<>> ELSE Append(@, now[r])]]
        /\ recorded' = [recorded EXCEPT ![c] =
                          IF valid[r] THEN <<>> ELSE Append(@, now[r])]
        /\ clock' = clock
    BY <1>3, <2>1, <2>2 DEF Finish, Fresh
  <2>4. Landed(clients[c]).failures = clients[c].failures /\ Landed(clients[c]) \in State
    <3> DEFINE state == clients[c]
    <3>1. state \in State
      BY <2>1
    <3> HIDE DEF state
    <3>2. Landed(state).failures = state.failures /\ Landed(state) \in State
      BY <3>1 DEF Landed, State
    <3>3. QED
      BY <3>2 DEF state
  <2>5. /\ clients'[c].failures =
             IF valid[r] THEN <<>> ELSE Append(clients[c].failures, now[r])
        /\ recorded'[c] = IF valid[r] THEN <<>> ELSE Append(recorded[c], now[r])
        /\ \A d \in Client \ {c} : clients'[d] = clients[d] /\ recorded'[d] = recorded[d]
    BY <2>1, <2>3, <2>4 DEF State
  <2>6. /\ sorted' \subseteq sorted
        /\ c \in sorted' /\ ~valid[r] =>
             ~ \E i \in 1..Len(recorded[c]) : recorded[c][i] > now[r]
    BY <1>3 DEF Finish
  <2> SUFFICES ASSUME NEW d \in sorted'
               PROVE  /\ Ordered(recorded[d])'
                      /\ Remembers(clients[d].failures, recorded[d], clock - Window)'
    BY DEF MemoryInv
  <2>7. d \in sorted /\ d \in Client
    BY <1>t, <2>6
  <2>8. Ordered(recorded[d]) /\ Remembers(clients[d].failures, recorded[d], clock - Window)
    BY <2>7 DEF MemoryInv
  <2>9. CASE d # c
    BY <2>3, <2>5, <2>7, <2>8, <2>9
  <2>10. CASE d = c /\ valid[r]
    <3>1. Len(<<>>) = 0
      OBVIOUS
    <3>2. Ordered(<<>>) /\ Remembers(<<>>, <<>>, clock' - Window)
      BY <3>1 DEF Ordered, Remembers
    <3>3. QED
      BY <2>5, <2>10, <3>2
  <2>11. CASE d = c /\ ~valid[r]
    <3> HIDE DEF c
    <3>1. Ordered(Append(recorded[c], now[r]))
      BY <1>t, <2>1, <2>6, <2>7, <2>8, <2>11, StaysOrdered
    <3>2. Remembers(Append(clients[c].failures, now[r]), Append(recorded[c], now[r]),
                    clock - Window)
      BY <1>t, <2>1, <2>7, <2>8, <2>11, RemembersMore
    <3>3. QED
      BY <2>3, <2>5, <2>11, <3>1, <3>2
  <2>12. QED
    BY <2>9, <2>10, <2>11
<1>4. CASE Tick
  <2> SUFFICES ASSUME NEW c \in sorted
               PROVE  Remembers(clients[c].failures, recorded[c], clock' - Window)
    BY <1>4 DEF Tick, MemoryInv
  <2>1. /\ Remembers(clients[c].failures, recorded[c], clock - Window)
        /\ recorded[c] \in Seq(Time) /\ clock' = clock + 1
    BY <1>4, <1>t DEF MemoryInv, Tick
  <2>2. clock' - Window \in Int /\ clock - Window <= clock' - Window
    BY <1>t, <2>1
  <2>3. QED
    BY <1>t, <2>1, <2>2, RemembersLonger
<1>5. QED
  BY <1>1, <1>2, <1>3, <1>4
  DEF Next, TakeSlot, ReadClock, Verify, Release, vars

(* With that memory the limit on what is kept is the limit on what was.     *)
LEMMA NothingRecentForgotten ==
  ASSUME TypeOK, FailuresWithinLimit, MemoryInv
  PROVE  NoRecentFailureForgotten
<1> SUFFICES ASSUME NEW c \in sorted
             PROVE  Cardinality(RecentFailures(c)) + clients[c].inFlight <= FailureLimit
  BY DEF NoRecentFailureForgotten
<1>1. /\ c \in Client /\ recorded[c] \in Seq(Time)
      /\ clients[c].failures \in Seq(Time) /\ clients[c].inFlight \in Nat
  BY DEF TypeOK, State
<1>2. clock - Window \in Int
  BY LimiterAssumption DEF TypeOK, Time
<1>3. Cardinality(RecentFailures(c)) <= Len(clients[c].failures)
  BY <1>1, <1>2, RecentRemembered DEF MemoryInv, RecentFailures
<1>4. Len(clients[c].failures) + clients[c].inFlight <= FailureLimit
  BY <1>1 DEF FailuresWithinLimit
<1>5. Cardinality(RecentFailures(c)) \in Nat
  <2> DEFINE n == Len(recorded[c])
  <2>0. n \in Int
    BY <1>1
  <2> HIDE DEF n
  <2>1. IsFiniteSet(1..n)
    BY <2>0, FS_Interval
  <2>2. IsFiniteSet(RecentFailures(c))
    BY <2>1, FS_Subset DEF RecentFailures, n
  <2>3. QED
    BY <2>2, FS_CardinalityType
<1>6. QED
  BY <1>1, <1>3, <1>4, <1>5, LimiterAssumption

-----------------------------------------------------------------------------
IInv ==
  TypeInv /\ ReservationsExact /\ FailuresWithinLimit /\ BudgetInv /\ MemoryInv

LEMMA InitInv == Init => IInv
<1> SUFFICES ASSUME Init PROVE IInv
  OBVIOUS
<1>1. TypeInv
  BY InitTypeInv
<1>2. \A c \in Client : Attempts(c) = {}
  BY DEF Init, Attempts, Reserved
<1>3. ReservationsExact
  BY <1>2, FS_EmptySet DEF Init, ReservationsExact, Fresh
<1>4. FailuresWithinLimit
  BY LimiterAssumption DEF Init, FailuresWithinLimit, Fresh
<1>5. BudgetInv
  BY LimiterAssumption DEF Init, BudgetInv, Counting, Time
<1>6. MemoryInv
  <2>1. Len(<<>>) = 0
    OBVIOUS
  <2>2. \A cutoff : Ordered(<<>>) /\ Remembers(<<>>, <<>>, cutoff)
    BY <2>1 DEF Ordered, Remembers
  <2>3. \A c \in sorted : recorded[c] = <<>> /\ clients[c].failures = <<>>
    BY DEF Init, Fresh
  <2>4. QED
    BY <2>2, <2>3 DEF MemoryInv
<1>7. QED
  BY <1>1, <1>3, <1>4, <1>5, <1>6 DEF IInv

LEMMA Inductive == Spec => []IInv
<1>1. IInv /\ [Next]_vars => IInv'
  BY TypeStep, ReservationsStep, FailuresStep, BudgetStep, MemoryStep DEF IInv
<1>2. QED
  BY InitInv, <1>1, PTL DEF Spec

(* The variables keep their types: no token count below zero or above the   *)
(* burst, no slot count above the semaphore's bound.                        *)
THEOREM TypeCorrect == Spec => []TypeOK
<1>1. IInv => TypeOK
  BY DEF IInv, TypeInv
<1>2. QED
  BY <1>1, Inductive, PTL

(* Every path through _login gives its slot back (the semaphore and its     *)
(* finally).                                                                *)
THEOREM NothingLeaks == Spec => []SlotsConserved
<1>1. IInv => SlotsConserved
  BY DEF IInv, TypeInv
<1>2. QED
  BY <1>1, Inductive, PTL

(* in_flight of every client counts its attempts exactly, across the        *)
(* periodic cleanup too (begin and finish, lines 98-149).                   *)
THEOREM ReservationsKept == Spec => []ReservationsExact
<1>1. IInv => ReservationsExact
  BY DEF IInv
<1>2. QED
  BY <1>1, Inductive, PTL

(* No interleaving takes a client over the limit of begin, line 124.        *)
THEOREM WithinLimit == Spec => []FailuresWithinLimit
<1>1. IInv => FailuresWithinLimit
  BY DEF IInv
<1>2. QED
  BY <1>1, Inductive, PTL

(* The attempts admitted since any moment are within the global budget,     *)
(* up to what stale clock readings earn twice (lines 109-114).              *)
THEOREM WithinBudget == Spec => []AdmissionsWithinBudget
<1>1. IInv => AdmissionsWithinBudget
  BY LimiterAssumption
  DEF IInv, TypeInv, TypeOK, BudgetInv, Counting, AdmissionsWithinBudget, Time
<1>2. QED
  BY <1>1, Inductive, PTL

(* No cleanup or popleft loses a failure of the last Window seconds of a    *)
(* client whose failures were recorded in order: those that count and those *)
(* under way stay within the limit together (begin, lines 100-124).         *)
THEOREM NothingForgotten == Spec => []NoRecentFailureForgotten
<1>1. IInv => NoRecentFailureForgotten
  BY NothingRecentForgotten DEF IInv, TypeInv
<1>2. QED
  BY <1>1, Inductive, PTL
=============================================================================

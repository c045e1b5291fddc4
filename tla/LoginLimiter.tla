---------------------------- MODULE LoginLimiter ----------------------------
(***************************************************************************)
(* Admission of logins in the portal (portal/app/main.py): request threads  *)
(* take a password slot, reserve an attempt in _LoginLimiter, verify the    *)
(* password and record the result.  The limiter holds its lock for the body *)
(* of begin and of finish, but reads the clock before it takes the lock, so *)
(* a thread may work with a time that is older than the state it finds.     *)
(*                                                                         *)
(* The abstraction.  Time is counted in ticks; a tick earns one token of    *)
(* the global budget.  Fresh stands for a client without an entry.  A local *)
(* variable that is not read again is reset, so that fewer states differ.   *)
(***************************************************************************)
EXTENDS Integers, Sequences, FiniteSets

CONSTANTS
  Request,       \* the request threads
  Client,        \* addresses failures are attributed to
  Shared,        \* the client of a loopback peer: only the budget applies
  FailureLimit,  \* LOGIN_FAILURE_LIMIT
  Window,        \* LOGIN_FAILURE_WINDOW_SECONDS
  CleanupEvery,  \* min(60, failure_window)
  Burst,         \* GLOBAL_LOGIN_BURST
  Concurrency,   \* PASSWORD_VERIFY_CONCURRENCY
  MaxTime        \* bound on the clock

ASSUME LimiterAssumption ==
  /\ IsFiniteSet(Request)
  /\ Shared \notin Client
  /\ FailureLimit \in Nat \ {0}
  /\ Window \in Nat
  /\ CleanupEvery \in Nat /\ CleanupEvery <= Window
  /\ Burst \in Nat
  /\ Concurrency \in Nat
  /\ MaxTime \in Nat

VARIABLES
  clock,        \* time.monotonic
  slots,        \* free password_slots
  pc,           \* where each thread stands in _login
  client,       \* the client key of its request
  now,          \* the clock value it read
  valid,        \* what verify_password said
  clients,      \* _LoginLimiter.clients
  tokens,       \* _LoginLimiter.global_tokens
  lastRefill,   \* _LoginLimiter.last_refill
  lastCleanup,  \* _LoginLimiter.last_client_cleanup
  since,        \* history: a moment from which admissions are counted
  admitted,     \* history: attempts admitted since then
  rewound,      \* history: how far lastRefill was set back since then
  recorded,     \* history: every failure since the last success
  sorted        \* history: clients whose failures were recorded in order

requestvars == <<slots, pc, client, now, valid>>
limitervars == <<clients, tokens, lastRefill, lastCleanup>>
historyvars == <<admitted, rewound, recorded, sorted>>
vars == <<clock, slots, pc, client, now, valid, clients, tokens, lastRefill,
          lastCleanup, since, admitted, rewound, recorded, sorted>>

Time  == 0..MaxTime
State == [failures : Seq(Time), inFlight : Nat]
Fresh == [failures |-> <<>>, inFlight |-> 0]

(* A thread that has a slot, and one whose attempt is reserved.             *)
Reserved == {"verifying", "verified", "finishing"}
Admitted == {"asked", "beginning", "releasing"} \union Reserved
Place    == {"idle"} \union Admitted

TypeOK ==
  /\ clock \in Time
  /\ slots \in 0..Concurrency
  /\ pc \in [Request -> Place]
  /\ client \in [Request -> Client \union {Shared}]
  /\ now \in [Request -> Time]
  /\ valid \in [Request -> BOOLEAN]
  /\ clients \in [Client -> State]
  /\ tokens \in 0..Burst
  /\ lastRefill \in 0..clock
  /\ lastCleanup \in 0..clock
  /\ since \in Time
  /\ admitted \in Nat
  /\ rewound \in Nat
  /\ recorded \in [Client -> Seq(Time)]
  /\ sorted \subseteq Client

Init ==
  /\ clock = 0
  /\ slots = Concurrency
  /\ pc = [r \in Request |-> "idle"]
  /\ client = [r \in Request |-> Shared]
  /\ now = [r \in Request |-> 0]
  /\ valid = [r \in Request |-> FALSE]
  /\ clients = [c \in Client |-> Fresh]
  /\ tokens = Burst
  /\ lastRefill = 0
  /\ lastCleanup = 0
  /\ since \in Time
  /\ admitted = 0
  /\ rewound = 0
  /\ recorded = [c \in Client |-> <<>>]
  /\ sorted = Client

-----------------------------------------------------------------------------
(***************************************************************************)
(* The limiter's own computations                                          *)
(***************************************************************************)

(* popleft while the oldest entry is below the cutoff.                      *)
Expire(failures, cutoff) ==
  LET gone == {i \in 1..Len(failures) : \A j \in 1..i : failures[j] < cutoff}
  IN  SubSeq(failures, Cardinality(gone) + 1, Len(failures))

(* An entry the periodic cleanup keeps; a cleanup that forgets the attempts *)
(* in flight, and one that looks at the oldest failure.                     *)
KeptIdle(state, cutoff) ==
  state.failures # <<>> /\ state.failures[Len(state.failures)] >= cutoff
KeptByOldest(state, cutoff) ==
  \/ state.inFlight > 0
  \/ state.failures # <<>> /\ state.failures[1] >= cutoff
Kept(state, cutoff) ==
  \/ state.inFlight > 0
  \/ state.failures # <<>> /\ state.failures[Len(state.failures)] >= cutoff

CleanupDue(t) == t - lastCleanup >= CleanupEvery

CleanedUp(t) ==
  IF CleanupDue(t)
  THEN [c \in Client |->
          IF Kept(clients[c], t - Window) THEN clients[c] ELSE Fresh]
  ELSE clients

(* The time that earned tokens; a reading that is not clamped at zero.      *)
ElapsedSigned(t) == t - lastRefill
Elapsed(t) == IF t > lastRefill THEN t - lastRefill ELSE 0

(* The bucket holds at most Burst; a bucket without a brim.                 *)
RefilledUncapped(t) == tokens + Elapsed(t)
Refilled(t) ==
  IF tokens + Elapsed(t) > Burst THEN Burst ELSE tokens + Elapsed(t)

(* Attempts in flight count as failures; a check that counts only failures. *)
CrowdedRecorded(state) == Len(state.failures) >= FailureLimit
Crowded(state) == Len(state.failures) + state.inFlight >= FailureLimit

-----------------------------------------------------------------------------
(***************************************************************************)
(* Steps of one request                                                    *)
(***************************************************************************)

Goto(r, from, to) ==
  /\ pc[r] = from
  /\ pc' = [pc EXCEPT ![r] = to]

(* A request without a free slot is answered 429 and changes nothing.       *)
TakeSlot(r) ==
  /\ slots > 0
  /\ Goto(r, "idle", "asked")
  /\ slots' = slots - 1
  /\ \E c \in Client \union {Shared} : client' = [client EXCEPT ![r] = c]
  /\ UNCHANGED <<clock, now, valid, limitervars, since, historyvars>>

ReadClock(r) ==
  /\ \/ Goto(r, "asked", "beginning")
     \/ client[r] # Shared /\ Goto(r, "verified", "finishing")
  /\ now' = [now EXCEPT ![r] = clock]
  /\ UNCHANGED <<clock, slots, client, valid, limitervars, since, historyvars>>

(* Admissions are counted from the first begin whose clock reading is since *)
(* or later.                                                                *)
Counting == lastRefill >= since \/ rewound > 0

(* The clients after the cleanup and the expiry of c's own failures.        *)
Expired(c, t) ==
  IF c = Shared THEN CleanedUp(t)
  ELSE [CleanedUp(t) EXCEPT ![c].failures = Expire(@, t - Window)]

Passes(c, t) ==
  /\ c # Shared => ~Crowded(Expired(c, t)[c])
  /\ Refilled(t) >= 1

(* begin, under the lock.  The cleanup, the refill and the expiry happen    *)
(* whether or not the attempt is admitted.                                  *)
Begin(r) ==
  LET t == now[r]
      c == client[r]
      passes == Passes(c, t)
  IN  /\ Goto(r, "beginning", IF passes THEN "verifying" ELSE "releasing")
      /\ lastCleanup' = IF CleanupDue(t) THEN t ELSE lastCleanup
      /\ tokens' = IF passes THEN Refilled(t) - 1 ELSE Refilled(t)
      /\ lastRefill' = t
      /\ clients' = IF passes /\ c # Shared
                    THEN [Expired(c, t) EXCEPT ![c].inFlight = @ + 1]
                    ELSE Expired(c, t)
      /\ admitted' = IF passes /\ (Counting \/ t >= since)
                     THEN admitted + 1 ELSE admitted
      /\ rewound' = IF Counting /\ t < lastRefill
                    THEN rewound + (lastRefill - t) ELSE rewound
      /\ now' = [now EXCEPT ![r] = 0]
      /\ UNCHANGED <<clock, slots, client, valid, since, recorded, sorted>>

(* verify_password; an exception in it counts as an invalid password.       *)
Verify(r) ==
  /\ Goto(r, "verifying", "verified")
  /\ \E ok \in BOOLEAN : valid' = [valid EXCEPT ![r] = ok]
  /\ UNCHANGED <<clock, slots, client, now, limitervars, since, historyvars>>

(* The attempt leaves in_flight.                                            *)
Landed(state) == [state EXCEPT !.inFlight = IF @ > 0 THEN @ - 1 ELSE 0]

(* finish, under the lock; an entry that is gone is left alone.             *)
Finish(r) ==
  LET c     == client[r]
      state == Landed(clients[c])
  IN  /\ Goto(r, "finishing", "releasing")
      /\ clients' =
           IF clients[c] = Fresh THEN clients
           ELSE [clients EXCEPT ![c] =
                   [state EXCEPT !.failures = IF valid[r] THEN <<>>
                                              ELSE Append(@, now[r])]]
      /\ recorded' = [recorded EXCEPT ![c] = IF valid[r] THEN <<>>
                                             ELSE Append(@, now[r])]
      /\ sorted' =
           IF /\ ~valid[r]
              /\ \E i \in 1..Len(recorded[c]) : recorded[c][i] > now[r]
           THEN sorted \ {c} ELSE sorted
      /\ now' = [now EXCEPT ![r] = 0]
      /\ UNCHANGED <<clock, slots, client, valid, tokens, lastRefill,
                     lastCleanup, since, admitted, rewound>>

(* The finally clause of _login gives the slot back on every path, also of  *)
(* a refused attempt; a release that only an admitted attempt reaches.      *)
ReturnedIfReserved(r) == IF pc[r] = "verified" THEN slots + 1 ELSE slots
Returned(r) == slots + 1

Release(r) ==
  /\ \/ Goto(r, "releasing", "idle")
     \/ client[r] = Shared /\ Goto(r, "verified", "idle")
  /\ slots' = Returned(r)
  /\ client' = [client EXCEPT ![r] = Shared]
  /\ valid' = [valid EXCEPT ![r] = FALSE]
  /\ UNCHANGED <<clock, now, limitervars, since, historyvars>>

Tick ==
  /\ clock < MaxTime
  /\ clock' = clock + 1
  /\ UNCHANGED <<requestvars, limitervars, since, historyvars>>

Next ==
  \/ \E r \in Request :
       TakeSlot(r) \/ ReadClock(r) \/ Begin(r) \/ Verify(r) \/ Finish(r)
         \/ Release(r)
  \/ Tick

Spec == Init /\ [][Next]_vars

-----------------------------------------------------------------------------
(***************************************************************************)
(* Properties                                                              *)
(***************************************************************************)

(* Every slot taken by a request thread is given back on every path of      *)
(* _login (early 429, invalid password, exception), never twice.            *)
SlotsTaken == {r \in Request : pc[r] \in Admitted}

SlotsConserved == slots + Cardinality(SlotsTaken) = Concurrency

(* in_flight of a client is the number of its attempts between begin and    *)
(* finish: the cleanup and the other attempts' results lose none of them,   *)
(* so a client is never locked out by an attempt that ended.                *)
Attempts(c) == {r \in Request : pc[r] \in Reserved /\ client[r] = c}

ReservationsExact ==
  \A c \in Client : clients[c].inFlight = Cardinality(Attempts(c))

(* However the attempts of a client overlap, the failures it has and those  *)
(* it may still get stay within the limit (the comment in begin).           *)
FailuresWithinLimit ==
  \A c \in Client :
    Len(clients[c].failures) + clients[c].inFlight <= FailureLimit

(* From any moment on, the attempts admitted for everybody together are at  *)
(* most the burst plus what the time since then earns, plus the time that   *)
(* is earned twice when a thread with an older reading of the clock sets    *)
(* last_refill back (lines 99 and 119).                                     *)
AdmissionsWithinBudget ==
  clock >= since => admitted <= Burst + (clock - since) + rewound

(* The limiter forgets no failure that is younger than the window: while a  *)
(* client's failures were recorded in order, those of the last Window ticks *)
(* since its last success, and its attempts in flight, are within the limit.*)
RecentFailures(c) ==
  {i \in 1..Len(recorded[c]) : recorded[c][i] >= clock - Window}

NoRecentFailureForgotten ==
  \A c \in sorted :
    Cardinality(RecentFailures(c)) + clients[c].inFlight <= FailureLimit
=============================================================================

---------------------------- MODULE PortalAccess ----------------------------
(***************************************************************************)
(* Who may do what in the portal (app/main.py, app/security.py): login,     *)
(* logout and the sessions they make and end, restarts with another         *)
(* password hash, and short links that are made, deleted and followed.      *)
(*                                                                         *)
(* The abstraction.  A request thread takes one step per SQLite statement   *)
(* that others can come between, and one for its answer.  A login is one    *)
(* whose password was right (LoginLimiter has the rest); a request carries  *)
(* the Origin and the CSRF token that the portal's own page sends.          *)
(***************************************************************************)
EXTENDS Naturals, FiniteSets

CONSTANTS
  Thread,       \* request threads
  Browser,      \* who sends requests
  Token,        \* session tokens that may be drawn
  Legacy,       \* the token of a row from before migration 002
  Hash,         \* password hashes an operator configures
  Code,         \* codes of short links
  Target,       \* where a link may lead
  None,         \* no row, no cookie, no request
  Ttl,          \* PORTAL_SESSION_TTL
  Attempts,     \* random codes that a create draws at most: 8
  Kinds,        \* the kinds of requests an instance looks at
  MaxTime,      \* bound on the clock
  MaxRequests,  \* bound on requests
  MaxRestarts,  \* bound on restarts of the process
  MaxErrors     \* bound on failed transactions and lost answers

AnyToken == Token \union {Legacy}
Row  == [binding : Hash \union {None}, expires : Nat]
Link == [target : Target, clicks : Nat]
Authorised == {"logout", "create", "delete"}    \* _require_session
Kind == Authorised \union {"login", "get", "head"}

(* A request with its token, the session get_session found, the link it is  *)
(* about as it was read; stray and old are history: that link was deleted   *)
(* since, and what had been revoked, and the time, when the request came.   *)
Request ==
  [kind : Kind, browser : Browser, token : AnyToken \union {None},
   session : AnyToken \union {None}, code : Code \union {None},
   target : Target \union {None}, tries : 0..(Attempts - 1),
   seen : Link \union {None}, stray : BOOLEAN,
   old : [revoked : SUBSET AnyToken, now : Nat]]

ASSUME AccessAssumption ==
  /\ IsFiniteSet(Thread)
  /\ Legacy \notin Token
  /\ None \notin AnyToken \union Hash \union Code \union Target
              \union Row \union Link \union Request
  /\ Ttl \in Nat \ {0}
  /\ Attempts \in Nat \ {0}
  /\ Kinds \subseteq Kind
  /\ MaxTime \in Nat /\ MaxRequests \in Nat /\ MaxRestarts \in Nat /\ MaxErrors \in Nat

VARIABLES
  hash,       \* config.password_hash of the running process
  now,        \* time.time()
  sessions,   \* the table sessions
  cookie,     \* portal_session in each browser
  links,      \* the table short_links
  pc,         \* where each thread stands
  req,        \* its request and its locals
  used,       \* the tokens drawn so far
  revoked,    \* history: the tokens whose row a request deleted
  issued,     \* history: a token's row as it was made
  visits,     \* history: for a link there, GETs answered with its target
  strays,     \* history: and its clicks that no such answer stands for
  lapses,     \* history: what may leave a session that no browser has
  spent       \* how much of each bound was used

sessionvars == <<sessions, used, revoked, issued>>
linkvars    == <<links, visits, strays>>
vars == <<hash, now, sessions, cookie, links, pc, req, used, revoked, issued,
          visits, strays, lapses, spent>>

Bound == [requests |-> MaxRequests, restarts |-> MaxRestarts, errors |-> MaxErrors]
Spend(b) ==
  /\ spent[b] < Bound[b]
  /\ spent' = [spent EXCEPT ![b] = @ + 1]

(* The type invariant; a token that was never drawn is nowhere.             *)
TypeOK ==
  /\ hash \in Hash
  /\ now \in 0..MaxTime
  /\ sessions \in [AnyToken -> Row \union {None}]
  /\ cookie \in [Browser -> AnyToken \union {None}]
  /\ links \in [Code -> Link \union {None}]
  /\ pc \in [Thread -> {"idle", "look", "drop", "issue", "act", "count", "answer"}]
  /\ \A t \in Thread : IF pc[t] = "idle" THEN req[t] = None ELSE req[t] \in Request
  /\ used \subseteq Token
  /\ \A k \in Token \ used : sessions[k] = None /\ \A b \in Browser : cookie[b] # k
  /\ revoked \subseteq AnyToken
  /\ issued \in [AnyToken -> Row]
  /\ visits \in [Code -> Nat]
  /\ strays \in [Code -> Nat]
  /\ lapses \subseteq {"overlap", "lost", "rehashed"}
  /\ spent \in [DOMAIN Bound -> Nat]
  /\ \A b \in DOMAIN Bound : spent[b] <= Bound[b]

(* An upgraded database: the legacy row has the empty binding that          *)
(* migration 002 gives it, and a browser may still have its cookie.         *)
Init ==
  /\ hash \in Hash
  /\ now = 0
  /\ issued = [k \in AnyToken |-> [binding |-> None, expires |-> Ttl]]
  /\ sessions = [k \in AnyToken |-> IF k = Legacy THEN issued[k] ELSE None]
  /\ cookie \in [Browser -> {Legacy, None}]
  /\ links = [c \in Code |-> None]
  /\ pc = [t \in Thread |-> "idle"]
  /\ req = [t \in Thread |-> None]
  /\ used = {} /\ revoked = {} /\ lapses = {}
  /\ visits = [c \in Code |-> 0]
  /\ strays = [c \in Code |-> 0]
  /\ spent = [b \in DOMAIN Bound |-> 0]

-----------------------------------------------------------------------------
Goto(t, place) == pc' = [pc EXCEPT ![t] = place]
Set(t, r)      == req' = [req EXCEPT ![t] = r]
Leave(t)       == Goto(t, "idle") /\ Set(t, None)

Changing(t) == req[t] # None /\ req[t].kind \in {"login", "logout"}

(* A browser sends a request with the cookie it has.  Two requests at once  *)
(* that set its cookie are a lapse: the later answer decides.               *)
Arrive(t) ==
  /\ pc[t] = "idle"
  /\ Spend("requests")
  /\ \E k \in Kinds, b \in Browser :
     \E c \in IF k \in {"login", "logout"} THEN {None}
              ELSE IF k = "create" THEN Code \union {None} ELSE Code :
     \E g \in IF k = "create" THEN Target ELSE {None} :
       /\ Set(t, [kind |-> k, browser |-> b, token |-> cookie[b], session |-> None,
                  code |-> c, target |-> g, tries |-> 0, seen |-> None,
                  stray |-> FALSE, old |-> [revoked |-> revoked, now |-> now]])
       /\ Goto(t, IF k \in {"get", "head"} THEN "act" ELSE "look")
       /\ lapses' = IF k \in {"login", "logout"} /\ \E u \in Thread : Changing(u) /\ req[u].browser = b
                    THEN lapses \union {"overlap"} ELSE lapses
  /\ UNCHANGED <<hash, now, sessionvars, linkvars, cookie>>

(* get_session: a row of this token, bound to the password in force, that   *)
(* has not expired.                                                         *)
UnboundRow(k) == TRUE
BoundRow(k) == sessions[k].binding = hash
Valid(k) ==
  /\ k # None /\ sessions[k] # None
  /\ BoundRow(k)
  /\ sessions[k].expires > now

(* _require_session for what needs a session, and the look for an existing  *)
(* one in _login.                                                           *)
Look(t) ==
  /\ pc[t] = "look"
  /\ LET k == req[t].token IN
     \/ /\ Valid(k)
        /\ Set(t, [req[t] EXCEPT !.session = k])
        /\ Goto(t, IF req[t].kind = "login" THEN "drop" ELSE "act")
     \/ /\ ~Valid(k) /\ req[t].kind = "login"
        /\ Goto(t, "issue")
        /\ UNCHANGED req
     \/ /\ ~Valid(k) /\ req[t].kind # "login"
        /\ Leave(t)
  /\ UNCHANGED <<hash, now, sessionvars, linkvars, cookie, lapses, spent>>

(* delete_session *)
Deleted(k) ==
  /\ sessions' = [sessions EXCEPT ![k] = None]
  /\ revoked' = revoked \union {k}
  /\ UNCHANGED <<used, issued>>

Kept(k) == UNCHANGED sessionvars

(* _login replaces the session the browser came with.                       *)
Replaced(k) == Deleted(k)
Drop(t) ==
  /\ pc[t] = "drop"
  /\ Replaced(req[t].session)
  /\ Goto(t, "issue")
  /\ UNCHANGED <<hash, now, linkvars, cookie, req, lapses, spent>>

(* create_session *)
Issue(t) ==
  /\ pc[t] = "issue"
  /\ \E k \in Token \ used :
       LET row == [binding |-> hash, expires |-> now + Ttl] IN
       /\ sessions' = [sessions EXCEPT ![k] = row]
       /\ issued' = [issued EXCEPT ![k] = row]
       /\ used' = used \union {k}
       /\ Set(t, [req[t] EXCEPT !.session = k])
  /\ Goto(t, "answer")
  /\ UNCHANGED <<hash, now, linkvars, cookie, revoked, lapses, spent>>

Logout(t) ==
  /\ pc[t] = "act" /\ req[t].kind = "logout"
  /\ Deleted(req[t].session)
  /\ Goto(t, "answer")
  /\ UNCHANGED <<hash, now, linkvars, cookie, req, lapses, spent>>

(* _create_link: the code asked for, or random ones until one is free.      *)
Exhausted(t) == req[t].tries + 1 = Attempts
Taken(c) == links[c] # None
Create(t) ==
  /\ pc[t] = "act" /\ req[t].kind = "create"
  /\ \E c \in IF req[t].code # None THEN {req[t].code} ELSE Code :
       \/ /\ ~Taken(c)
          /\ links' = [links EXCEPT ![c] = [target |-> req[t].target, clicks |-> 0]]
          /\ visits' = [visits EXCEPT ![c] = 0]
          /\ strays' = [strays EXCEPT ![c] = 0]
          /\ Leave(t)
       \/ /\ Taken(c) /\ (req[t].code # None \/ Exhausted(t))
          /\ Leave(t)
          /\ UNCHANGED linkvars
       \/ /\ Taken(c) /\ req[t].code = None /\ ~Exhausted(t)
          /\ Set(t, [req[t] EXCEPT !.tries = @ + 1])
          /\ UNCHANGED <<linkvars, pc>>
  /\ UNCHANGED <<hash, now, sessionvars, cookie, lapses, spent>>

(* Requests that read the link earlier and now outlive it.                  *)
Outlives(u, c) == req[u] # None /\ req[u].code = c /\ req[u].seen # None

Delete(t) ==
  /\ pc[t] = "act" /\ req[t].kind = "delete"
  /\ links' = [links EXCEPT ![req[t].code] = None]
  /\ req' = [u \in Thread |->
               IF u = t THEN None
               ELSE IF Outlives(u, req[t].code) THEN [req[u] EXCEPT !.stray = TRUE]
               ELSE req[u]]
  /\ Goto(t, "idle")
  /\ UNCHANGED <<hash, now, sessionvars, cookie, visits, strays, lapses, spent>>

(* _redirect_short_link reads the link, and counts a GET, but no HEAD, in a *)
(* statement of its own.                                                    *)
Follow(t) ==
  /\ pc[t] = "act" /\ req[t].kind \in {"get", "head"}
  /\ LET row == links[req[t].code] IN
     \/ /\ row # None
        /\ Set(t, [req[t] EXCEPT !.seen = row])
        /\ Goto(t, IF req[t].kind = "get" THEN "count" ELSE "answer")
     \/ row = None /\ Leave(t)
  /\ UNCHANGED <<hash, now, sessionvars, linkvars, cookie, lapses, spent>>

ClicksAsRead(t) == req[t].seen.clicks + 1
ClicksAfter(t) == links[req[t].code].clicks + 1
Count(t) ==
  /\ pc[t] = "count"
  /\ LET c == req[t].code IN
     \/ /\ links[c] # None
        /\ links' = [links EXCEPT ![c].clicks = ClicksAfter(t)]
        /\ strays' = [strays EXCEPT ![c] = @ + (IF req[t].stray THEN 1 ELSE 0)]
     \/ /\ links[c] = None
        /\ UNCHANGED <<links, strays>>
  /\ Goto(t, "answer")
  /\ UNCHANGED <<hash, now, sessionvars, cookie, req, visits, lapses, spent>>

(* A counted GET of a link that is still there, not answered yet.           *)
Counted(t, c) ==
  pc[t] = "answer" /\ req[t].kind = "get" /\ req[t].code = c /\ ~req[t].stray

(* The answer arrives, with its cookie, or the redirect of its link.        *)
Answer(t) ==
  /\ pc[t] = "answer"
  /\ cookie' = CASE req[t].kind = "login"  -> [cookie EXCEPT ![req[t].browser] = req[t].session]
                 [] req[t].kind = "logout" -> [cookie EXCEPT ![req[t].browser] = None]
                 [] OTHER -> cookie
  /\ visits' = [c \in Code |-> visits[c] + (IF Counted(t, c) THEN 1 ELSE 0)]
  /\ Leave(t)
  /\ UNCHANGED <<hash, now, sessionvars, links, strays, lapses, spent>>

(* A transaction fails and is rolled back, or an answer is lost.            *)
Fails(t) ==
  /\ pc[t] # "idle"
  /\ Spend("errors")
  /\ lapses' = IF pc[t] = "answer" /\ Changing(t) THEN lapses \union {"lost"} ELSE lapses
  /\ strays' = [c \in Code |-> strays[c] + (IF Counted(t, c) THEN 1 ELSE 0)]
  /\ Leave(t)
  /\ UNCHANGED <<hash, now, sessionvars, cookie, links, visits>>

(* The process ends, and starts with the hash that is configured now.       *)
Restart ==
  /\ Spend("restarts")
  /\ hash' \in Hash
  /\ lapses' = lapses \union (IF hash' # hash THEN {"rehashed"} ELSE {})
       \union (IF \E t \in Thread : pc[t] = "answer" /\ Changing(t) THEN {"lost"} ELSE {})
  /\ strays' = [c \in Code |-> strays[c] + Cardinality({t \in Thread : Counted(t, c)})]
  /\ pc' = [t \in Thread |-> "idle"]
  /\ req' = [t \in Thread |-> None]
  /\ UNCHANGED <<now, sessionvars, cookie, links, visits>>

Tick ==
  /\ now < MaxTime
  /\ now' = now + 1
  /\ UNCHANGED <<hash, sessionvars, linkvars, cookie, pc, req, lapses, spent>>

Serve(t) ==
  \/ Look(t) \/ Drop(t) \/ Issue(t) \/ Logout(t)
  \/ Create(t) \/ Delete(t) \/ Follow(t) \/ Count(t) \/ Answer(t)

Next ==
  \/ \E t \in Thread : Arrive(t) \/ Serve(t) \/ Fails(t)
  \/ Restart \/ Tick

Spec == Init /\ [][Next]_vars

-----------------------------------------------------------------------------
(* A request is let in only with a session that was made under the password *)
(* in force, was not yet ended by a logout or a login of its browser when   *)
(* the request arrived, and had not expired then (get_session, and          *)
(* session_password_binding: it changes whenever credentials rotate).  So   *)
(* says portal/README.md, 72-73; RUNBOOK.md, 160-164, says that replacing   *)
(* the hash leaves the sessions that were issued.                           *)
AcceptedStillValid ==
  \A t \in Thread :
    (req[t] # None /\ req[t].session # None) =>
      LET k == req[t].session IN
      /\ issued[k].binding = hash
      /\ k \notin req[t].old.revoked
      /\ issued[k].expires > req[t].old.now

(* A session that is still good is one that a browser has, or is about to   *)
(* get: a login ends the session it replaces (_login).  The exceptions are  *)
(* overlapping requests of one browser, lost answers, and a hash that came  *)
(* back.                                                                    *)
Live(k) == sessions[k] # None /\ sessions[k].binding = hash /\ sessions[k].expires > now

NoOrphan ==
  lapses = {} =>
    \A k \in AnyToken : Live(k) =>
      \/ \E b \in Browser : cookie[b] = k
      \/ \E t \in Thread : pc[t] = "answer" /\ req[t].kind = "login" /\ req[t].session = k

(* The clicks of a link are the GETs that were answered with its target,    *)
(* with those whose answer is under way and the strays: lost answers, and   *)
(* visits to a link that was deleted and made again (_redirect_short_link). *)
ClicksExact ==
  \A c \in Code : links[c] # None =>
    links[c].clicks = visits[c] + strays[c] + Cardinality({t \in Thread : Counted(t, c)})
=============================================================================

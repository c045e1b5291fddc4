----------------------------- MODULE PortalJobs -----------------------------
(***************************************************************************)
(* The portal process: its start with the migrations (app/database.py), the *)
(* two background loops and the requests that check services and refresh    *)
(* feeds beside them (app/services/monitor.py, rss_reader.py, app/main.py), *)
(* and the sessions that the loops clean up.                                *)
(*                                                                         *)
(* The abstraction.  Services and feeds are two tables of rows with a       *)
(* unique URL; what was fetched is the URL it was fetched from.  A step is  *)
(* one SQLite transaction: what a worker read in one may have changed       *)
(* before the next.  Sites are external.                                    *)
(***************************************************************************)
EXTENDS Naturals

CONSTANTS
  Request,      \* request threads that check or refresh
  Url,          \* URLs that somebody adds
  Raising,      \* URLs whose answer raises what no job catches
  Session,      \* session tokens
  Nothing,      \* no row
  Repeatable,   \* migrations that may be executed twice
  Migrations,   \* the number of migration files
  MaxServices,  \* bound on the services ever added
  MaxFeeds,     \* bound on the feeds ever added
  MaxRuns,      \* bound on checks and refreshes by request
  MaxErrors,    \* bound on failed transactions
  MaxKills      \* bound on kills of the process

(* A row: its URL, and the URL its stored result is of, if there is one.    *)
Row == [url : Url, result : Url \union {Nothing}]

ASSUME PortalAssumption ==
  /\ {"status-monitor", "feed-refresh"} \intersect Request = {}
  /\ Raising \subseteq Url
  /\ Nothing \notin Url /\ Nothing \notin Row
  /\ Migrations \in Nat
  /\ MaxServices \in Nat \ {0}
  /\ MaxFeeds \in Nat \ {0}
  /\ MaxRuns \in Nat
  /\ MaxErrors \in Nat
  /\ MaxKills \in Nat

Id         == 1..MaxServices \union 1..MaxFeeds
Version    == 1..Migrations
Kind       == {"service", "feed"}
Background == {"status-monitor", "feed-refresh"}
Worker     == Background \union Request

(* The ids of a table.                                                      *)
IdsOf(k) == 1..(IF k = "feed" THEN MaxFeeds ELSE MaxServices)

VARIABLES
  phase,     \* the process: down, in initialize, or serving
  schema,    \* the migrations whose script took effect
  applied,   \* schema_migrations, as committed
  pending,   \* rows of schema_migrations that are not committed
  rows,      \* the tables services and feeds
  items,     \* feed_items: for a feed, what its items were fetched from
  nextId,    \* AUTOINCREMENT: the next id of each table
  sessions,  \* what became of each token
  pc,        \* where each worker stands
  job,       \* which table it works on
  todo,      \* the ids it has left
  current,   \* the id it fetches
  fetched,   \* the URL it read for it
  torn,      \* history: killed between a script and its record
  spent      \* how much of each bound was used

startvars == <<phase, schema, applied, pending, torn>>
tablevars == <<rows, items, nextId>>
workvars  == <<pc, job, todo, current, fetched>>
vars == <<phase, schema, applied, pending, rows, items, nextId, sessions,
          pc, job, todo, current, fetched, torn, spent>>

Budget == {"runs", "errors", "kills"}
Bound == [runs |-> MaxRuns, errors |-> MaxErrors, kills |-> MaxKills]
Spend(b) ==
  /\ spent[b] < Bound[b]
  /\ spent' = [spent EXCEPT ![b] = @ + 1]

Present(k) == {i \in Id : rows[k][i] # Nothing}

(* The type invariant; the URLs of a table differ, which its UNIQUE says.   *)
TypeOK ==
  /\ phase \in {"down", "starting", "executed", "up"}
  /\ schema \subseteq Version
  /\ applied \subseteq Version
  /\ pending \subseteq Version
  /\ rows \in [Kind -> [Id -> Row \union {Nothing}]]
  /\ \A k \in Kind : \A i, j \in Present(k) :
       rows[k][i].url = rows[k][j].url => i = j
  /\ items \in [Id -> SUBSET Url]
  /\ nextId \in [Kind -> Nat \ {0}]
  /\ sessions \in [Session -> {"none", "live", "expired", "deleted"}]
  /\ pc \in [Worker -> {"idle", "listed", "fetching"}]
  /\ job \in [Worker -> Kind]
  /\ todo \in [Worker -> SUBSET Id]
  /\ current \in [Worker -> Id]
  /\ fetched \in [Worker -> Url \union {Nothing}]
  /\ torn \in BOOLEAN
  /\ spent \in [Budget -> Nat]

(* The table a worker works on unless a request says otherwise.             *)
Own(w) == IF w = "feed-refresh" THEN "feed" ELSE "service"

Init ==
  /\ phase = "down"
  /\ schema = {}
  /\ applied = {}
  /\ pending = {}
  /\ rows = [k \in Kind |-> [i \in Id |-> Nothing]]
  /\ items = [i \in Id |-> {}]
  /\ nextId = [k \in Kind |-> 1]
  /\ sessions = [s \in Session |-> "none"]
  /\ pc = [w \in Worker |-> "idle"]
  /\ job = [w \in Worker |-> Own(w)]
  /\ todo = [w \in Worker |-> {}]
  /\ current = [w \in Worker |-> 1]
  /\ fetched = [w \in Worker |-> Nothing]
  /\ torn = FALSE
  /\ spent = [b \in Budget |-> 0]

-----------------------------------------------------------------------------
(***************************************************************************)
(* Database.initialize                                                     *)
(***************************************************************************)

Start ==
  /\ phase = "down"
  /\ phase' = "starting"
  /\ UNCHANGED <<schema, applied, pending, torn, tablevars, sessions, workvars,
                 spent>>

(* The first file that schema_migrations, pending rows included, lacks.     *)
Missing == Version \ (applied \union pending)
NextMigration(m) == m \in Missing /\ \A n \in Missing : m <= n

(* executescript commits what is pending and then runs the script, each     *)
(* statement a transaction of its own.  An ALTER TABLE that has been done   *)
(* raises; the process exits.                                               *)
Execute ==
  /\ phase = "starting"
  /\ \E m \in Version :
       /\ NextMigration(m)
       /\ applied' = applied \union pending
       /\ pending' = {}
       /\ schema' = schema \union {m}
       /\ phase' = IF m \in schema \ Repeatable THEN "down" ELSE "executed"
  /\ UNCHANGED <<torn, tablevars, sessions, workvars, spent>>

(* The row that records a migration; and a run that records none.           *)
RecordedNever(m) == {}
Recorded(m) == {m}

Record ==
  /\ phase = "executed"
  /\ phase' = "starting"
  /\ \E m \in Version : NextMigration(m) /\ pending' = Recorded(m)
  /\ UNCHANGED <<schema, applied, torn, tablevars, sessions, workvars, spent>>

(* The connection is committed and the threads are started.                 *)
Serve ==
  /\ phase = "starting"
  /\ Missing = {}
  /\ applied' = applied \union pending
  /\ pending' = {}
  /\ phase' = "up"
  /\ UNCHANGED <<schema, torn, tablevars, sessions, workvars, spent>>

(* SIGKILL, or a SIGTERM that meets daemon threads at work: what is not     *)
(* committed is lost.                                                       *)
Kill ==
  /\ phase # "down"
  /\ Spend("kills")
  /\ phase' = "down"
  /\ torn' = (torn \/ phase = "executed" \/ pending # {})
  /\ pending' = {}
  /\ pc' = [w \in Worker |-> "idle"]
  /\ job' = [w \in Worker |-> Own(w)]
  /\ todo' = [w \in Worker |-> {}]
  /\ current' = [w \in Worker |-> 1]
  /\ fetched' = [w \in Worker |-> Nothing]
  /\ UNCHANGED <<schema, applied, tablevars, sessions>>

-----------------------------------------------------------------------------
(***************************************************************************)
(* check_service and refresh_feed, alone or for every row of the table      *)
(***************************************************************************)

(* The worker is done, with or without an exception: a request is answered, *)
(* a background loop waits for its next round.                              *)
Ends(w) ==
  /\ pc' = [pc EXCEPT ![w] = "idle"]
  /\ job' = [job EXCEPT ![w] = Own(w)]
  /\ todo' = [todo EXCEPT ![w] = {}]
  /\ current' = [current EXCEPT ![w] = 1]
  /\ fetched' = [fetched EXCEPT ![w] = Nothing]

(* _background_loop catches every exception, and the round is over; a loop  *)
(* that would try the same row again.                                       *)
RaisedRetried(w) ==
  /\ pc' = [pc EXCEPT ![w] = "listed"]
  /\ current' = [current EXCEPT ![w] = 1]
  /\ fetched' = [fetched EXCEPT ![w] = Nothing]
  /\ UNCHANGED <<job, todo>>
Raised(w) == Ends(w)

(* check_all and refresh_all list the ids; a request may name one, there or *)
(* not.                                                                     *)
List(w) ==
  /\ phase = "up"
  /\ pc[w] = "idle"
  /\ pc' = [pc EXCEPT ![w] = "listed"]
  /\ IF w \in Background
     THEN /\ todo' = [todo EXCEPT ![w] = Present(Own(w))]
          /\ UNCHANGED <<job, spent>>
     ELSE /\ Spend("runs")
          /\ \E k \in Kind : \E ids \in {Present(k)} \union {{i} : i \in Id} :
               /\ job' = [job EXCEPT ![w] = k]
               /\ todo' = [todo EXCEPT ![w] = ids]
  /\ UNCHANGED <<startvars, tablevars, sessions, current, fetched>>

(* Services are listed by id, feeds in no order the query states.           *)
Turn(w, i) ==
  /\ i \in todo[w]
  /\ job[w] = "service" => \A j \in todo[w] : i <= j

Read(w) ==
  /\ pc[w] = "listed"
  /\ \E i \in Present(job[w]) :
       /\ Turn(w, i)
       /\ current' = [current EXCEPT ![w] = i]
       /\ fetched' = [fetched EXCEPT ![w] = rows[job[w]][i].url]
  /\ pc' = [pc EXCEPT ![w] = "fetching"]
  /\ UNCHANGED <<startvars, tablevars, sessions, job, todo, spent>>

(* KeyError: the row was deleted since the listing.                         *)
ReadRaises(w) ==
  /\ pc[w] = "listed"
  /\ \E i \in Id \ Present(job[w]) : Turn(w, i)
  /\ Raised(w)
  /\ UNCHANGED <<startvars, tablevars, sessions, spent>>

There(w) == current[w] \in Present(job[w])

(* The next row; and a round that is over after its first.                  *)
AdvanceOnce(w) == Ends(w)
Advance(w) ==
  /\ pc' = [pc EXCEPT ![w] = "listed"]
  /\ todo' = [todo EXCEPT ![w] = @ \ {current[w]}]
  /\ current' = [current EXCEPT ![w] = 1]
  /\ fetched' = [fetched EXCEPT ![w] = Nothing]
  /\ UNCHANGED job

(* UPDATE ... WHERE id: a row that is gone stays gone.                      *)
StoreResult(w) ==
  rows' = IF There(w)
          THEN [rows EXCEPT ![job[w]][current[w]].result = fetched[w]]
          ELSE rows

(* An answer or a caught error is the result of a service; a deleted one    *)
(* raises a TypeError afterwards.                                           *)
StoreCheck(w) ==
  /\ pc[w] = "fetching"
  /\ job[w] = "service"
  /\ There(w)
  /\ StoreResult(w)
  /\ Advance(w)
  /\ UNCHANGED <<startvars, items, nextId, sessions, spent>>

(* The foreign key of feed_items, which every connection turns on; and a    *)
(* connection that does not.                                                *)
ForeignKeyOff(w) == TRUE
ForeignKey(w) == There(w)

(* The items of an answer, if it has any, and the result of the feed.       *)
StoreFeed(w) ==
  /\ pc[w] = "fetching"
  /\ job[w] = "feed"
  /\ \/ UNCHANGED items
     \/ /\ ForeignKey(w)
        /\ items' = [items EXCEPT ![current[w]] = @ \union {fetched[w]}]
  /\ StoreResult(w)
  /\ Advance(w)
  /\ UNCHANGED <<startvars, nextId, sessions, spent>>

(* TypeError, the broken foreign key, or an exception of fetch_url or       *)
(* parse_feed that is none of those caught.                                 *)
StoreRaises(w) ==
  /\ pc[w] = "fetching"
  /\ ~There(w) \/ fetched[w] \in Raising
  /\ Raised(w)
  /\ UNCHANGED <<startvars, tablevars, sessions, spent>>

(* SQLite stays locked for ten seconds, or the disk is full.                *)
TransactionFails(w) ==
  /\ pc[w] # "idle"
  /\ Spend("errors")
  /\ Raised(w)
  /\ UNCHANGED <<startvars, tablevars, sessions>>

(* cleanup_sessions after a round of a background loop that did not raise.  *)
Cleanup(w) ==
  /\ pc[w] = "listed"
  /\ todo[w] = {}
  /\ w \in Background
  /\ sessions' = [s \in Session |-> IF sessions[s] = "expired" THEN "deleted"
                                    ELSE sessions[s]]
  /\ Ends(w)
  /\ UNCHANGED <<startvars, tablevars, spent>>

Answer(w) ==
  /\ pc[w] = "listed"
  /\ todo[w] = {}
  /\ w \in Request
  /\ Ends(w)
  /\ UNCHANGED <<startvars, tablevars, sessions, spent>>

Work(w) ==
  \/ Read(w) \/ ReadRaises(w) \/ StoreCheck(w) \/ StoreFeed(w)
  \/ StoreRaises(w) \/ Cleanup(w) \/ Answer(w)

-----------------------------------------------------------------------------
(***************************************************************************)
(* The other requests, and time                                            *)
(***************************************************************************)

(* UNIQUE(url); and a table without it.                                     *)
InsertableAlways(k, u) == TRUE
Insertable(k, u) == \A i \in Present(k) : rows[k][i].url # u

(* AUTOINCREMENT never gives an id twice; a plain rowid is one more than    *)
(* the largest there is.                                                    *)
RowidFor(k) == {i \in Id : /\ i \notin Present(k)
                           /\ \A j \in Present(k) : j < i
                           /\ i = 1 \/ i - 1 \in Present(k)}
IdFor(k) == {i \in Id : i = nextId[k]}

AddRow(k) ==
  /\ phase = "up"
  /\ nextId[k] \in IdsOf(k)
  /\ \E u \in Url, i \in IdFor(k) :
       /\ Insertable(k, u)
       /\ rows' = [rows EXCEPT ![k][i] = [url |-> u, result |-> Nothing]]
  /\ nextId' = [nextId EXCEPT ![k] = @ + 1]
  /\ UNCHANGED <<startvars, items, sessions, workvars, spent>>

(* delete_service, and delete_feed with the cascade to its items.           *)
DeleteRow(k) ==
  /\ phase = "up"
  /\ \E i \in Present(k) :
       /\ rows' = [rows EXCEPT ![k][i] = Nothing]
       /\ items' = IF k = "feed" THEN [items EXCEPT ![i] = {}] ELSE items
  /\ UNCHANGED <<startvars, nextId, sessions, workvars, spent>>

Becomes(s, from, to) ==
  /\ sessions[s] = from
  /\ sessions' = [sessions EXCEPT ![s] = to]
  /\ UNCHANGED <<startvars, tablevars, workvars, spent>>

(* create_session; delete_session, by a logout or the next login; time.     *)
Login(s)  == phase = "up" /\ Becomes(s, "none", "live")
Logout(s) == phase = "up" /\ Becomes(s, "live", "deleted")
Expire(s) == Becomes(s, "live", "expired")

Initialize == Start \/ Execute \/ Record \/ Serve

Next ==
  \/ Initialize \/ Kill
  \/ \E w \in Worker : List(w) \/ Work(w) \/ TransactionFails(w)
  \/ \E k \in Kind : AddRow(k) \/ DeleteRow(k)
  \/ \E s \in Session : Login(s) \/ Logout(s) \/ Expire(s)

Spec == Init /\ [][Next]_vars

(* systemd restarts the process, the loops run again and again, and every   *)
(* fetch and transaction has a timeout.  Nothing is assumed about requests, *)
(* sites or time.                                                           *)
Fairness ==
  /\ WF_vars(Initialize)
  /\ \A w \in Background : WF_vars(List(w))
  /\ \A w \in Worker : WF_vars(Work(w))

FairSpec == Spec /\ Fairness

-----------------------------------------------------------------------------
(***************************************************************************)
(* Properties                                                              *)
(***************************************************************************)

(* What is stored for a service or a feed was fetched from its own URL, and *)
(* no item is left of a feed that was deleted, although a row can be        *)
(* deleted, and its URL added again, between the read of a row, the fetch   *)
(* and the store (monitor.py 64-106, rss_reader.py 178-231).                *)
ResultsBelong ==
  \A k \in Kind : \A i \in Present(k) :
    rows[k][i].result \in {rows[k][i].url, Nothing}

ItemsBelong ==
  \A i \in Id : items[i] # {} =>
    i \in Present("feed") /\ items[i] = {rows["feed"][i].url}

(* Nothing in the table raises what the job does not catch.                 *)
Clear(k) == \A i \in Present(k) : rows[k][i].url \notin Raising

(* An expired session is deleted in the end, although a row deleted under a *)
(* round ends it without a cleanup, if one of the two loops has no row that *)
(* raises and the process is not killed for good (main.py 265-271).         *)
SessionsCleaned ==
  (\E k \in Kind : <>[]Clear(k)) /\ []<>(phase = "up") =>
    \A s \in Session : sessions[s] = "expired" ~> sessions[s] = "deleted"

(* A row that stays is checked or refreshed again and again, if no row of   *)
(* its table raises: a failed fetch of one row does not end the round, and  *)
(* a row deleted under it ends only that one.                               *)
Stores(k, i) ==
  \E w \in Worker :
    /\ job[w] = k /\ current[w] = i
    /\ StoreCheck(w) \/ StoreFeed(w)

CheckedUnlessRaising ==
  \A k \in Kind : \A i \in Id :
    <>[](phase = "up" /\ i \in Present(k) /\ Clear(k))
      => []<><<Stores(k, i)>>_vars

(* The process serves in the end, unless it was killed between a migration  *)
(* and the commit of its record.                                            *)
ComesUpUnlessTorn == <>[](phase = "up") \/ <>torn
=============================================================================

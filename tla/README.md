# CascadeVPN: formal model

TLA+ modules that model the parts of CascadeVPN where several actors share
state, TLC configurations that check them on small instances, and theorems
about them that TLAPS proves for every value of the constants. Paths below are
relative to the repository's root; every definition's source lines are in
`PROJECT.json` under `map`.

1. [The system](#1-the-system)
2. [The modules](#2-the-modules)
3. [The runs](#3-the-runs)
4. [What is proved](#4-what-is-proved)
5. [Where the code and its documents disagree](#5-where-the-code-and-its-documents-disagree)
6. [Assumptions and abstractions](#6-assumptions-and-abstractions)
7. [Not modelled](#7-not-modelled)

## 1. The system

CascadeVPN puts two VPN products on one server and joins them.

```
 TrustTunnel endpoint :8443 --SOCKS5 10800--> Xray inbound "ingress" -> routing
      ^ vpn.toml                                   ^ inbounds of 3x-ui
      |                                            |
      +----------------- ttx-bridge ---------------+
                     (bridge/ttx_bridge.py)

 public :443 --> Nginx SNI router --+--> portal   (TLS 9443 -> 127.0.0.1:8080)
   (after the cutover)              +--> Xray Reality 127.0.0.1:10443
```

| Component | State it keeps | Operations | Talks to |
|---|---|---|---|
| `bridge/ttx_bridge.py`, apply half | `vpn.toml`, its backup `.ttx-bak`, the flock on `.ttx-bridge.lock` | render, validate, lock, snapshot, write, restart, health check, roll back | `vpn.base.toml` (operator), systemd, TrustTunnel |
| `bridge/ttx_bridge.py`, panel half | none: the panel's table of inbounds is the state | login, list, add, update | the 3x-ui HTTP API, which the operator and the panel's traffic counters change too |
| `portal/app/main.py`, login | password slots, failures and attempts in flight per client, global token bucket | begin, verify, finish | request threads of the threading HTTP server |
| `portal/app/main.py`, sessions and links | SQLite tables sessions and short_links, the cookie in each browser | login, logout, create, delete, follow | request threads, restarts with another password hash |
| `portal/app/outbound.py` | none: a fetch keeps its hop and its checked address | validate, resolve, connect, redirect, read | DNS, sites |
| `portal/app/main.py`, the rest, with `services/` | SQLite tables: services, feeds, items, sessions | the HTTP API, one thread per request; two background loops, for checks and for feeds, that also clean up sessions | SQLite, outbound HTTP |
| `portal/app/database.py` | schema version | migrations at start | SQLite |
| `portal/app/static/js` | the encrypted notebook in `localStorage` and in memory; view state | edit, save, lock, unlock, remove; load views | Web Crypto, the portal's API |
| `deploy/xui_portal_cutover.py` | `state.json`, the inbound in the panel, its Host group | audit, dry-run, apply, rollback | 3x-ui, Xray |
| `deploy/live_portal_cutover.sh` | stream files of Nginx | preflight, apply, install, reload, probe, trap | the helper above, Nginx |
| `deploy/xui_subscription_recovery.py`, `deploy/xui_outbound_client_recovery.py` | `state.json` of their own | prepare, apply, rollback | the panel's API, its database, Xray |
| installers, Nginx, Compose, sysctl, units | files | run once by an operator | the host |

What is hard in it, and what makes each part correct:

* **Apply transaction.** The watch daemon, the systemd timer and manual runs
  are separate processes. A run renders before it holds the lock, replaces a
  file, asks systemd for a restart with a timeout, looks once whether the
  service is active, and rolls back. Correct means: a rollback undoes the run's
  own write and no other; the service runs what the file holds, or somebody was
  told that it does not; the file converges to what the operator wrote.
* **Panel reconcile.** Requests are not under the lock, the answer to one may
  be lost, and the operator edits the same table. Correct means: only the
  inbound that carries the bridge's remark is ever written, and in the end the
  ingress is what `bridge.json` says.
* **Login admission.** Threads read the clock before they take the limiter's
  lock, and failures are recorded long after the attempt was admitted. Correct
  means: no interleaving gets a client more guesses, or everybody together more
  admissions, than the limits say, and no slot or reservation is lost.
* **Cutover.** Two programs contend for port 443 while a script with an `ERR`,
  `INT`, `TERM` trap moves it from one to the other, an operator may roll back
  by hand, and every step may fail, those of the trap too, or be done with its
  answer lost. Correct means: the port has one owner at a time, and when the
  script is over it has one; what the operator changed meanwhile is not
  overwritten.
* **Portal jobs.** A job reads a row, fetches for seconds, and stores; requests
  delete and add rows meanwhile, an exception ends a round, a start may be
  killed inside a migration. Correct means: a result lands only in the row it
  was fetched for, every row is checked again and again, expired sessions go,
  and the process comes up.
* **Sessions and links.** A login looks, deletes and inserts in three
  transactions, the answer with the cookie may be lost, the process may start
  with another password hash; a link is read, and its click counted, in two
  statements. Correct means: only a session in force lets anybody in, a login
  leaves no session behind that no browser has, and clicks count the visits.
* **Fetches.** A name may resolve to something else a moment later, and every
  redirect starts over. Correct means: no connection to an address that was not
  checked for this very hop, and an end to every fetch.
* **Recovery tools.** A command is many requests, each of which may stop
  halfway; between them the operator edits, and one tool restarts the panel that
  the other talks to. Correct means: what the operator saved survives, and the
  `state.json` that a later command trusts tells what the panel has.
* **Notebook.** Saves are chained promises; a lock waits for one while edits,
  failures, further locks and the end of the page go on. Correct means: the page
  throws an edit away only where its code says so, and a lock ends.

## 2. The modules

| Module | Models | Used by |
|---|---|---|
| `ConfigTransaction` | what the bridge promises: the abstract specification | `BridgeApply` (refinement) |
| `BridgeApply` | the apply half of `cmd_reconcile` for any set of processes | `MCBridgeApply`, `BridgeApplyProofs` |
| `IngressReconcile` | `reconcile_ingress` against a shared panel | `IngressReconcileProofs` |
| `LoginLimiter` | `_LoginLimiter` and its use in `_login` | `MCLoginLimiter`, `LoginLimiterProofs` |
| `Cutover` | script, helper and rollback by hand | `CutoverProofs` |
| `PortalJobs` | start with migrations, both background loops, and the requests beside them | `PortalJobsProofs` |
| `PortalAccess` | sessions from login to logout, restarts, short links | `MCPortalAccess`, `PortalAccessProofs` |
| `OutboundFetch` | `fetch_url` with its validation | `MCOutboundFetch`, `PortalJobsProofs` |
| `XuiPanel` | the panel, its operator and Xray as the recovery tools use them (external) | both tools |
| `SubscriptionRecovery`, `OutboundRecovery` | one recovery tool each | `ClientRecovery` |
| `ClientRecovery` | both tools over one panel | `ClientRecoveryProofs` |
| `NotesVault` | the notebook of the page | `NotesVaultProofs` |
| `MCBridgeApply`, `MCLoginLimiter`, `MCPortalAccess`, `MCOutboundFetch` | symmetry sets, constraints and instances for TLC | the `.cfg` files |

### BridgeApply

A process's `pc` is the place in `cmd_reconcile`, `stage_config_if_changed`,
`apply_staged_config` and `recover_previous_config` between two effects that
others can see: `queued` (rendered, polling the flock), `locked`, `captured`,
`backed` (`.ttx-bak` written), `staged` (`vpn.toml` written), `restarting`,
`checking`, `recovering`, `restored`, `rerestarting`, `rechecking`. `rendered`
and `previous` are the locals of the same names, `outcome` is what the run
reports. A configuration text is its body and the upstream its
`[forward_protocol]` names; bodies differ only in what the code tells apart:
not TOML, listening on the ingress port, one that the endpoint dies of, or
good.

systemd is a pending `job`. `RunJob` starts the service with what `vpn.toml`
holds at that moment, which is why a `systemctl` killed by its timeout matters:
the job is still there and may run after the rollback. A body in `Failing` may
look active right after its start and die later.

`lapses` is a history variable: the ways the code itself leaves a written file
without a checked restart (killed half-way, `--no-restart`, a restore or its
restart that failed). Properties that hold "unless lapses" name these, no more.

`ConfigTransaction` is the promise seen from outside, in three variables: the
settled configuration changes only to one that the service was started with and
that was active at the check, except where a lapse is counted. `BridgeApply`
implements it with `settled` mapped to the snapshot while a run can still undo
its write, and to `vpn.toml` otherwise, and `sound` to `lapses = {}`.

### IngressReconcile

`List` is the listing with its login and `find_ingress`; between it and `Add`
or `Update` everybody else may act. An inbound is its remark, its port, whether
the other owned fields are right, and a traffic counter. `Answered` makes every
write either answered or done with the answer lost; `AddRefused` and
`UpdateRefused` are a panel that refuses or a request that never arrived.

### LoginLimiter

`TakeSlot`, `ReadClock`, `Begin`, `Verify`, `ReadClock` again, `Finish`,
`Release` are the steps of `_login`; `Begin` and `Finish` are atomic because
both hold `self.lock`, and the clock is read outside of it because the code
does (main.py 98-99). `clients`, `tokens`, `lastRefill`, `lastCleanup` are the
limiter's fields. `since`, `admitted`, `rewound`, `recorded`, `sorted` are
history: they count admissions from an arbitrary moment on and remember all
failures, so that the properties can speak of what the limiter has forgotten.

### Cutover

`helper` is the place in `command_apply` or `command_rollback`, `script` the
place in `live_portal_cutover.sh`; those in `TrapPlace` are its trap. `router`
and `conf` are the two files it installs, `started` is `APPLY_STARTED`.
`CommandFails` is a command of the main part that fails, which starts the trap.
The trap has removed itself, with `set -e` still on: `TrapFails` is a log line,
an `install` or a `mv` that fails there (59-67) and ends the script, while
stopping and starting Nginx may fail without ending it (`|| true`). `inbound` is
what the panel's database holds, `xray` where Xray listens: a changed inbound
takes effect with the next restart. `Signal(TRUE)` runs the trap,
`Signal(FALSE)` ends both processes. `raced` and `lapses` are history.

### PortalJobs

A step is one `with database.connect()` block, since SQLite makes it atomic and
nothing protects what was read in one until the next. A worker (one of the two
loops, or a request thread) lists ids, then for each of them reads the row
(`current`, `fetched`), and stores what the fetch gave. `Raised` is an exception
that leaves `check_all` or `refresh_all`: a missing row, a row deleted under the
fetch (the `TypeError` of `service_row(None)`, the foreign key of
`feed_items`), a failed transaction, or an answer in `Raising` (say, a redirect
that `urljoin` rejects). Stored results are abstracted to the URL they are of.
`phase`, `schema`, `applied`, `pending` are `Database.initialize`:
`executescript` commits what is pending and takes effect at once, the record of
a migration is committed by the next script or at the end. `torn` is history.

### PortalAccess

A request thread's `pc` says what it does next: `look` (`get_session`, in
`_require_session` or `_login`), `drop` and `issue` (the rest of `_login` once
the password was right), `act` (logout, create, delete, or the `SELECT` of
`_redirect_short_link`), `count` (its `UPDATE`, a step of its own because Python's
`sqlite3` begins a transaction only there), `answer`. `cookie` changes when the
answer arrives, so an answer can be lost. `Restart` ends all requests and takes a
hash, the old one or another; `Init` is an upgraded database with a row that
migration 002 gave the empty binding. `revoked`, `issued`, `visits`, `strays`,
`lapses` are history. `PortalJobs` has the cleanup of expired rows, which nobody
can see here: `Valid` rejects them.

### OutboundFetch

`Validate` is `validate_outbound_url` with its one resolution, `Connect` the
pinned connection, `Redirect` and `Respond` the two ways an answer goes on.
`ChangeDns` may change what the name resolves to between any two of them. An
address is the class that Python's `ipaddress` puts it in, as far as
`_permitted_address` tells classes apart, and whether it is in the list of
metadata services; the classes were read from the library's behaviour, multicast
and unassigned reserved ranges being "global" to it.

### XuiPanel, SubscriptionRecovery, OutboundRecovery, ClientRecovery

The panel keeps a client in its own record and as a copy in the settings of every
inbound (`Place`), an Xray template in its database, and Xray runs with the
credentials that `config.json` was made with (`active`). Each edit gives what it
touches a revision never seen before, so a lost edit shows. `Post` may stop
between two places and may lose its answer.

`SubscriptionRecovery` goes request by request through `prepare`, `apply`, the
restore in its `except` branch and `rollback`: `mode` says which, `held` is what
the command read, `subState` what `state.json` holds. `OutboundRecovery` does
the same for the other tool: `Replace` is the compare-and-swap of
`replace_value`, which also raises an `sqlite3.Error` (a database locked for 30
seconds, a full disk), `Restart` and `OutVerify` are `restart_and_verify`.
`KillSub` and `KillOut` end a command between any two steps; `ArchiveSub`,
`ArchiveOut` are what the error message asks of the operator. `ClientRecovery`
composes them: `up = FALSE` after the outbound tool's restart makes the
subscription tool's calls fail, and the client that one writes is the one the
other reads.

### NotesVault

The unit of a step is what JavaScript runs between two awaits. `saves` is
`saveChain` with the snapshots its links captured, `locks` the calls of
`lockNotes` that wait, each for the link it awaits, `opening` an `unlockVault` or
`createVault` that derives its key. `SaveEnds` is the end of the link under way
with the microtasks that follow: `dirty` after a failure, the locks that waited,
and, when there is no context any more, all the links behind it, which return at
line 72. `lost` is history: what the code throws away, see `EditsSafe`.

## 3. The runs

Eleven runs must pass; one must find a violation (section 5).

| Run | Question | Instance |
|---|---|---|
| `bridge_safety` | What can two racing reconcilers, errors, kills and service events break? | 2 processes that run for ever, 3 bodies (good, fatal, looping), 1 edit, 1 error, 1 kill, 1 event |
| `bridge_liveness` | Does every run end, and does the file converge? | daemon, a dry run and a `--no-restart` run, bodies good, fatal and malformed, 1 edit, 1 kill |
| `ingress` | What does a reconciler write while others edit, and is the ingress repaired whatever came before? | daemon, manual run, dry run, 2 ports, 4 ids, 2 edits, 1 error |
| `login_safety` | Do the limits hold for overlapping attempts with stale clocks? | 3 threads, 1 client and the shared one, limit 2, window 2, burst 2, 2 slots, 3 ticks |
| `cutover_safety` | Who owns 443, and whose edits survive? | 1 edit, 2 errors, 1 signal, 2 script starts or manual rollbacks, 1 foreign restart |
| `portal_safety` | Whose result is stored where? | both loops and 1 request, 2 services and 1 feed ever added, 2 URLs (one raising), 2 migrations, 1 error, 1 kill |
| `portal_liveness` | Are rows checked and sessions cleaned up again and again, and does the process come up? | both loops, 2 services and 1 feed, 3 URLs (one raising), 1 session, 2 migrations, 1 kill |
| `access` | Who gets in, which sessions stay, and what do clicks count? | 2 threads, 1 browser, 2 tokens and a legacy row, 2 hashes, 1 code, 2 targets, 2 ticks, 5 requests, 2 restarts, 1 error |
| `fetch` | Where does a fetch connect to, and does it end? | 5 kinds of addresses, a name that resolves to any of them, 2 redirects, bodies of up to 1 byte |
| `recovery` | Do edits survive, and can `state.json` be trusted? | both tools, 1 inbound, 1 edit, 1 error, 1 kill |
| `notes` | Which edits does the page lose, and does a lock end? | 4 edits, 3 failures, 2 ends of the page, any number of locks and unlocks |

Why these bounds are enough to meet the hazards:

* Two reconcilers are the least at which one holds the lock while another
  waits with an older render; a third adds only another waiter. They run for
  ever, so any number of applies follow one another. One error at any step, plus
  one kill at any step, plus a fatal body covers a failed apply whose rollback
  fails too. The processes are interchangeable in that run (no dry run, no
  `--no-restart`), so `Symmetry` is sound; liveness runs use none. `OwnBase`
  fixes the upstream that the base names, because `Render` overwrites it.
* In the panel two edits are needed to take the port away and give it back; the
  ids allow every reconciler to add one inbound next to them.
* With failure limit 2 and 2 slots, two overlapping attempts of a client fill
  both; a third thread is refused a slot until one of them ends, and then meets
  a client with one failure and one attempt in flight.
  `Window` 2 in 3 ticks lets failures expire, `CleanupEvery` 1 makes the cleanup
  happen between a `begin` and its `finish`, burst 2 is exhausted and refilled.
* In the cutover two errors are one in the run and one in its trap or rollback; a
  signal, a foreign restart of Xray and a second, manual rollback come on top.
* In the portal two services suffice to delete one under a fetch and add its URL,
  or another, afterwards, and to have a row after one that ends the round; one
  feed suffices to delete it under a refresh. The liveness run has no request
  worker: it could only help, and requests that add and delete are there. Two
  migrations are what the repository has, the first of which may be repeated.
* Two request threads are two overlapping requests of a browser: two logins, a
  login and a logout, or two visits with a delete and a create around them (five
  requests). Two hashes and two restarts bring the first hash back. One
  browser suffices for the properties about overlaps; that several do not
  disturb each other is in the proofs.
* A fetch meets each kind of address at each hop; two redirects are one that
  follows another and one too many. One byte is allowed, two are too long.
* In the recovery run commands follow one another without bound; the record and
  one copy are two places that an error leaves different, one edit may fall
  anywhere, and a kill may come on top. That more inbounds, edits and failures
  change nothing is proved. For two inbounds the copies may differ when the next
  command reads them, which then ends (`Agree`).
* Three saves in the chain, with two locks waiting for different ones and an edit
  that none of them has, need four edits; two ends of the page let it start over.

What each property says, and how code could break it:

| Property | Says |
|---|---|
| `ServedUnlessLapse` | No apply in progress, no job pending, no lapse: TrustTunnel was started with exactly what `vpn.toml` holds. |
| `OnlyOwnWriteUndone` | While a run can roll back, `vpn.toml` is its own write over its own snapshot: no other run's apply is lost. Breaks without the flock. |
| `BackupIsPrevious` | While an apply is unsettled, `.ttx-bak` is the file it replaced, not an older one. |
| `Implements` | The refinement to `ConfigTransaction`. Breaks if the health check is left out. |
| `EveryRunEnds` | A run ends whoever holds the lock. Breaks if the lock has no deadline. |
| `Converges` | Once the base stays usable, `vpn.toml` becomes the rendered base, whatever stale render was in the queue. |
| `RestartsCease` | Then the bridge stops restarting the service. Breaks if an unchanged file is written again. |
| `OnlyOwnedWritten` | An inbound that did not carry the remark when the reconciler listed it is never written. (One renamed between the list and the update is overwritten.) |
| `Repaired` | Once no other inbound has the port, the ingress becomes and stays right. |
| `SlotsConserved`, `ReservationsExact` | Slots and `in_flight` are what the threads in progress took, on every path and across the cleanup. |
| `FailuresWithinLimit` | Failures plus attempts in flight of a client stay within the limit. |
| `AdmissionsWithinBudget` | From any moment on, admissions are at most burst plus the time since, plus the time that a stale reading let count twice. |
| `NoRecentFailureForgotten` | While a client's failures were recorded in order, the limiter has forgotten none inside the window. |
| `RouterMeansLoopback` | Nginx holds 443 only while the database sends Xray to the loopback and Xray is off the port. |
| `Served443` | Script and helper over, no kill, no reported rollback failure, no trap that failed before it called the rollback: the port has an owner. Breaks if the trap rolls back only what `state.json` calls applied. |
| `EditsKept` | The helper overwrites no edit of the operator outside the three gaps that its comment names. |
| `ResultsBelong`, `ItemsBelong` | A result is of the URL of its row, and a deleted feed leaves no items. Break if ids are reused, or without the foreign key. |
| `SessionsCleaned` | Expired sessions are deleted, if one loop has no row that raises. Breaks if an exception does not end the round. |
| `AcceptedStillValid` | Whoever was let in has a session of the password in force, not ended when the request came, not expired then. Breaks if the binding is not looked at. |
| `NoOrphan` | A session in force is one a browser has or is about to get, but for overlapping requests, lost answers and a hash that came back. Breaks if a login does not replace. |
| `ClicksExact` | Clicks are answered visits plus those under way plus lost answers and visits to an earlier link of that code. Breaks if the count read is written back. |
| `ConnectionsChecked` | A connection goes to an address that was checked for its hop, to no metadata service, to private ranges only where allowed. Breaks if the name is resolved again. |
| `FetchEnds` | A fetch ends, wherever sites redirect. |
| `SubEditsKept` | No command overwrites an edit of the client made while none ran. Breaks if rollback does not look first. |
| `SubStageTells` | After a command the stage tells which subId every place has, but for kills and failed restores or rollbacks. Breaks if a failed check does not restore. |
| `TemplateKept` | The template is always the operator's last one but for the credentials. Breaks without the comparison in the `UPDATE`. |
| `OutStageTells` | After a command the stage tells the template, and after a successful one Xray runs with it, but for commands killed or unable to write `state.json` after their replacement, rollbacks that fail after it, and a way back whose replacement raises. Breaks if a failed restart is not undone. |
| `EditsSafe` | An edit is stored, being saved, or open and marked unsaved, unless one of the events it names threw it away. Breaks if a failed save is forgotten. |
| `LocksEnd` | A notebook being locked gets locked, also when the save it waits for fails. |
| `CheckedUnlessRaising` | A row that stays is checked again and again, if none of its table raises. |
| `ComesUpUnlessTorn` | The process serves in the end, unless a kill fell between a migration and the commit of its record. |

Each of them is violated in its own run by a mutated form of a mapped
definition (`PROJECT.json`, `mutants`).

**Fairness.** `BridgeApply!Fairness` and `IngressReconcile!Fairness` are weak:
the daemons begin a run again and again (the `watch` loop, or the systemd
timer), and a run in progress takes its next step, since each wait in it ends:
the flock poll has a deadline, `systemctl` and every panel request a timeout.
systemd runs a pending job. Nothing is assumed about errors, kills, edits,
manual runs, or who gets the lock. `LockTimeout` is under the same fairness as
`Lock`, so a waiter may lose every race for the lock and still ends. The
convergence properties are conditional on the environment settling (`<>[]Usable`,
`<>[]Repairable`); the bounds make the errors finite. In `PortalJobs` systemd
starts the process again (`Restart=on-failure`, three seconds apart), a loop
runs again after its interval, and every fetch and every transaction has a
timeout; nothing is assumed about requests, sites or time. In `OutboundFetch`
every step of a fetch has its timeout, `Fetch` as a whole is fair: a site may
redirect, answer or fail, but not talk for ever without ending its headers, which
the timeout of a single read does not exclude. In `NotesVault` the save under way
ends, well or not: the browser finishes every encryption. `PortalAccess` and
`ClientRecovery` state no fairness; all they promise is safety.

**Deadlock** is checked in every run but two. `Cutover` has a stuttering `Done`
for the state in which the script and the helper are over. `access` stops when
its bounded requests, restarts and ticks are used up, `fetch` when the fetch is
done: both say `CHECK_DEADLOCK FALSE`. The others never stop.

## 4. What is proved

All specifications have proofs that hold for any number of processes,
clients, inbounds and any bound, from the named assumptions on the constants
(`ReconcilerAssumption`, `ContentAssumption`, `BoundAssumption`,
`LimiterAssumption`, `IngressAssumption`, `CutoverAssumption`,
`AbsentAssumption`, `PortalAssumption`, `PanelAssumption`,
`AccessAssumption`, `NotesAssumption`, `FetchAssumption`), which TLC evaluates
in the runs. Every safety invariant and action property that a passing run
checks is stated by a theorem.

* **BridgeApplyProofs.** `TypeCorrect`, then `RollbackSafe`
  (`OnlyOwnWriteUndone`), `BackupKept` (`BackupIsPrevious`), `Served`
  (`ServedUnlessLapse`) and `Refinement` (`Implements`). The inductive invariant
  adds: the lock is held exactly by the process in a `Holding` place
  (`HoldInv`), which makes the other conjuncts about one process at a time; a
  process past the render has a text and one that does not hold the lock has no
  snapshot (`TextInv`); a configuration that is on trial is the one the service
  loaded, at the places where the health check is about to read it (`TrialInv`,
  needed for the refinement's `Commit`); and `ServedInv`, which is
  `ServedUnlessLapse` for the places inside an apply too. For the refinement
  every action is mapped to a step of `ConfigTransaction` or a stutter.
  `RunBounded` is the half of `EveryRunEnds` that needs no fairness: each step
  of a run lowers the number of steps left (`StepsAt`, at most eleven), and no
  other process, edit or systemd job moves the run or sends it back to wait
  again.
* **LoginLimiterProofs.** `TypeCorrect`; `NothingLeaks` (`SlotsConserved`) and
  `ReservationsKept` (`ReservationsExact`), by counting the set of threads in
  progress before and after each step; `WithinLimit`, from the fact that expiry
  and cleanup only shorten a client's failures; `WithinBudget`, whose
  strengthening `BudgetInv` bounds `admitted + tokens` by the burst and the
  refills so far. `NothingForgotten` (`NoRecentFailureForgotten`) from
  `MemoryInv`: for a client whose failures were recorded in order, what is kept
  is the end of the recorded history, in order, and what is missing is older
  than the window (`Remembers`, `Ordered`). The property only counts; what makes
  it inductive is that expiry takes from the old end of an ordered list
  (`ExpireRemembers`), so that no later expiry or cleanup can have dropped a
  recent one (`RecentRemembered`). `SlotsConserved` belongs to the type
  invariant because `slots + 1` in `Release` is in bounds only with it.
* **IngressReconcileProofs.** `TypeCorrect` and `Ownership`
  (`OnlyOwnedWritten`), from `ListedOwned` (what a reconciler remembers carried
  the remark when it was listed) and `IdsInOrder` (ids from `nextId` on are
  free, so an add overwrites nothing).
* **CutoverProofs.** `TypeCorrect` and `OneOwner` (`RouterMeansLoopback`). The
  invariant says where the helper can be for each place of the script (`Places`),
  what `state.json` and `seen` hold there (`Stored`), and strengthens the
  property to the steps in between (`Order`): while the helper is at an update
  that gives the port back to Xray, Nginx does not hold it and cannot take it.
  `PortServed` (`Served443`) speaks of the end of a run only; `Attended` says
  what leads there: Xray is on the port while the database gives it the port,
  but between the write of a rollback and its restart (`XrayAnswers`); a run
  that has moved the inbound is one whose trap, if it gets that far, rolls back
  (`TrapKnows`); Nginx
  runs, and after the reload has the router and the port (`NginxAnswers`).
  `NoEditLost` (`EditsKept`) from `Checked`: from the helper's comparison to its
  write, the inbound is what was compared, or an edit has raced it.
* **PortalJobsProofs.** `TypeCorrect`, `ResultsOwn` (`ResultsBelong`) and
  `ItemsOwn` (`ItemsBelong`). Neither property is inductive: a store is right
  only if the row it meets is the row that was read. `Reading` says so of every
  worker that fetches, and needs its id to have been given out; `Fresh` says that
  an id that was not given out has no row, so an added row is never one that
  somebody fetches. The module holds the proofs of `OutboundFetch` too, the
  fetch of these jobs: `FetchTypeCorrect`, and `PinnedToChecked`
  (`ConnectionsChecked`), whose invariant `HopChecked` says that from the check
  of a hop to the end of its connection, the address chosen and all those
  checked with it are what that check saw, whatever the name resolves to since.
  `FetchBounded` is the half of `FetchEnds` that needs no fairness: each step of
  a fetch lowers the number of steps left (`StepsLeft`, at most
  `3 * (MaxRedirects + 1)`), and DNS adds none.

* **ClientRecoveryProofs.** `TypeCorrect` (its part that a command which changes
  the panel has `state.json` written is what a crash relies on), then each
  tool by an invariant of its own, the other tool and the operator being steps
  that leave the tool's variables alone. `OutInv`: a template that the command
  remembers, with the revision the template has now, is the template (`Knows`),
  and revisions never exceed the edits made (`Bounded`); so the compare-and-swap
  can succeed only where no edit is lost. `SubInv`: outside a lapse all places
  have one subId, and where the command stands tells which (`IdsAgree`); what it
  is about to write is not older than the last quiet edit (`NotOlder`), which
  the two checks of rollback establish.
* **PortalAccessProofs.** `TypeCorrect`; `Accepted` (`AcceptedStillValid`) from
  `SessionInv`: a row is as it was issued and not revoked, so the token that
  `get_session` finds is entitled at that moment, and what was revoked before the
  request came only grows; tokens are drawn once. `EveryClick` (`ClicksExact`)
  from `NoStray` (a request that has read a link and was not made a stray finds
  it there), by counting the set of visits under way before and after each step.
  `NoSessionOrphaned` (`NoOrphan`) from `OrphanInv`: as long as nothing that the
  property excepts has happened, a browser has one login or logout under way at
  a time (`Alone`); what that request is about to revoke is the session its
  browser holds, and once it is past that, the browser's old session is no
  longer in force (`Replaces`); and every live session is carried by a cookie or
  by an answer on its way (`Carried`). The property is the last of the three.
* **NotesVaultProofs.** `TypeCorrect` and `NoEditLost` (`EditsSafe`). The
  strengthening orders the copies: each snapshot has what the one before it has,
  the open notebook has all of it, and while a notebook is being opened no save
  with a retained edit is under way (`Ordered`); so no save that ends overwrites
  an edit. `LockNeverForgotten` is the half of `LocksEnd` that needs no fairness:
  a lock that waits has a save under way to wait for, no step forgets it, and
  every save that ends, well or not, takes one off what it waits for.

Only model-checked: the liveness properties, since fairness and `ENABLED` are out
of the prover's reach. `EveryRunEnds`, `FetchEnds` and `LocksEnd` have their
safety halves proved (`RunBounded`, `FetchBounded`, `LockNeverForgotten`): what
is left to TLC is that the next step is possible and is taken. `bridge_killed`
(section 5) is a counterexample, for its own instance.

## 5. Where the code and its documents disagree

`bridge_killed` checks what a log line says and finds the behaviour that
contradicts it (`findings`): a bridge killed between writing `vpn.toml` and
restarting the service leaves a file nobody loaded, and the next cycle reports
"no changes, the state is consistent".

The models also contain, and the properties that hold name as exceptions, what a
reader of the documents might not expect:

* Two bridge runs that list before either adds leave two ingress inbounds; only
  the first is looked at, and it cannot be repaired while the second has the
  port (`Repaired` is about the port being free).
* An update of the ingress writes back the counters of the listing; traffic
  counted in between is lost (`Traffic` between `List` and `Update`), while a
  comment (ttx_bridge.py 329) says that they are not reset.
* A site whose `Location` cannot be parsed makes `urljoin` raise a `ValueError`
  that nobody catches before the loop: rounds end there, and services after it
  are not checked (`CheckedUnlessRaising`).
* `SPEC.md` 582-585 promises that any error of the cutover ends in its emergency
  rollback. The trap's first commands (live_portal_cutover.sh 59-67) run without a
  trap of their own and with `set -e`: a `mv` that fails there ends the script
  before Nginx is stopped and the helper called. After apply and before the
  reload, 443 is then without an owner (`TrapFails`, the third exception of
  `Served443`); after the reload Nginx still has it.
* `RUNBOOK.md` 160-164 says that replacing `PORTAL_PASSWORD_HASH` and restarting
  does not revoke the sessions already issued, and tells the operator to delete
  them. It does: `get_session` (main.py 212-219) finds only sessions bound to the
  hash in force, as `portal/README.md` 72-73 says and `AcceptedStillValid` checks.
  (They come back with the hash they were made under, if they have not expired.)
* An apply of the outbound tool whose way back cannot write the database (201)
  reports its error only and leaves stage `prepared`, from which neither `apply`
  nor `rollback` goes on (an exception of `OutStageTells`).
* A cutover rollback that failed after the update of the inbound, run again,
  restarts nothing and reports success (the state that `Served443` excludes).
* A recovery command killed after its first write cannot be continued: `apply`
  refuses to go over `state.json`, `rollback` because it is not applied. What
  brings the panel back then is the backup, or the operator.
* A lock of the notebook discards what was edited while it waited, and what a
  failed save left (notes.js 273); a save queued behind the one that a lock
  waited for is skipped (72).

## 6. Assumptions and abstractions

* **3x-ui (external).** Ids ascend, the listing is in the order of ids, a port is
  used once. An update of an inbound takes effect at the next restart of Xray.
* **systemd, TrustTunnel (external).** A start job is either pending or done;
  the service reads `vpn.toml` when the job runs. The file it reads is whole,
  since `os.replace` is atomic.
* **Files.** A write either happened or raised before `os.replace`. A loss of
  power that loses a replaced file is not modelled; `fsync` before the
  replace is what the code does against it.
* **Locks.** The flock and `threading.Lock` exclude; a killed process drops its
  flock.
* **Clock.** `time.monotonic` never goes back; a tick is the time that
  earns one token, and the windows are whole ticks. Fractions of a token, and
  the rounding of the float that holds them, are not modelled.
* **Cutover.** Nobody restarts Nginx by hand with the router installed after a
  manual rollback, and nobody rolls back by hand while the script runs.
  `EditsKept` is about the inbound; edits of Host groups happen (`EditHost`) but
  no property says what becomes of them. A TERM to the script alone is handled
  when the command it waits for ends, and looks like that command's failure. The
  fields of the inbound that the cutover changes together are one endpoint;
  changes of Reality settings that the helper's own checks reject are not among
  the operator's edits. The stages between `prepared` and `applied` are written
  and never read. `status.json`, backups of files and firewall rules are left
  out.
* **Portal.** SQLite transactions are atomic; `AUTOINCREMENT` never gives an id
  twice, which is the schema's, not SQLite's default. Nobody sets `enabled` to 0.
  The order in which a site answers overlapping checks is not modelled. Both
  loops are switched on.
* **Access.** Random tokens and codes: a token is never drawn twice, a code may
  be. Requests carry the CSRF token and origin of the portal's page. A deleted
  link's visits are counted to nobody. A browser that throws its cookies away
  leaves a session that expires; it is not modelled.
* **Fetch.** The form of a URL is one bit, the scheme and the host name do not
  matter to where the connection goes. Bodies are lengths.
* **Recovery (external panel).** 3x-ui writes an updated client to its record
  and to all inbounds, or stops in between; an edit by the operator is never the
  value something had before. Update times, the reset weekday and the spelling
  of an empty flow are what the tools' comparisons ignore. The operator's edits
  leave the subId as it is. A `replace_value` that raises has changed nothing:
  SQLite rolls back what was not committed. One command of each tool runs at a
  time: they are run by hand, and nothing in the code excludes two.
* **Notebook.** One tab; one unlocking at a time, since the form is disabled
  meanwhile; `localStorage` either stores or throws.
* **Bridge.** `status`, `doctor` and logging change nothing and are left out.
  The panel half is a success or a refusal in `BridgeApply`: the apply half uses
  nothing else of it.
* History variables (`lapses`, `raced`, `recorded`, `since`, ...) occur in no
  guard of a mapped action.

## 7. Not modelled

* `status` and `doctor` of the bridge and the `status` commands of the helpers:
  they read and print.
* `portal/configure_reverse_proxy.py`: one edit of a text file, run by hand; what
  could be wrong in it is where text is inserted, which the repository's tests
  compare byte by byte.
* The pages of the portal other than the notebook. They show what the API
  answers. One thing in them is worth knowing: `status.js` applies the answers of
  overlapping loads in the order they arrive, so the answer to a load begun before
  a logout brings back fields that line 238 wants gone. It needs no model to see.
* Parsing of feeds, and the cap on a feed's items; comparison of CSRF tokens and
  origins, static files, request bodies: functions of one request.
* Several tabs with one notebook, and two invocations of one recovery tool at
  once: nothing in the code coordinates them, so there is nothing to check beyond
  that.
* Installers, bootstrap and deploy scripts, unit, Nginx, Compose and sysctl
  files, presentation code and the vendored QR encoder: no state that two actors
  share. What they mean for the modelled parts (restart policies, the timer, the
  Nginx stream router) is in those parts.

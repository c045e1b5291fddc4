-------------------------- MODULE PortalJobsProofs --------------------------
(***************************************************************************)
(* Proofs about PortalJobs, for any set of request threads, URLs and        *)
(* sessions, any number of migrations and any bounds; and about the fetch   *)
(* that each of its jobs makes (OutboundFetch, a specification of its own), *)
(* for any addresses and any limits.                                        *)
(***************************************************************************)
EXTENDS PortalJobs, OutboundFetch, TLAPS

(* The type invariant in the parts that different actions disturb.          *)
StartOK ==
  /\ phase \in {"down", "starting", "executed", "up"}
  /\ schema \subseteq Version
  /\ applied \subseteq Version
  /\ pending \subseteq Version
  /\ torn \in BOOLEAN

RowsOK ==
  /\ rows \in [Kind -> [Id -> Row \union {Nothing}]]
  /\ \A k \in Kind : \A i, j \in Present(k) :
       rows[k][i].url = rows[k][j].url => i = j

ItemsOK == items \in [Id -> SUBSET Url] /\ nextId \in [Kind -> Nat \ {0}]

WorkOK ==
  /\ pc \in [Worker -> {"idle", "listed", "fetching"}]
  /\ job \in [Worker -> Kind]
  /\ todo \in [Worker -> SUBSET Id]
  /\ current \in [Worker -> Id]
  /\ fetched \in [Worker -> Url \union {Nothing}]

RestOK ==
  /\ sessions \in [Session -> {"none", "live", "expired", "deleted"}]
  /\ spent \in [Budget -> Nat]

LEMMA TypeParts == TypeOK <=> StartOK /\ RowsOK /\ ItemsOK /\ WorkOK /\ RestOK
BY DEF TypeOK, StartOK, RowsOK, ItemsOK, WorkOK, RestOK

-----------------------------------------------------------------------------
(* Ids: 1 is one, and the ids of a table are ids.                           *)
LEMMA Ids == 1 \in Id /\ Id \subseteq Nat /\ \A k \in Kind : IdsOf(k) \subseteq Id
BY PortalAssumption DEF Id, IdsOf, Kind

LEMMA Owns == \A w \in Worker : Own(w) \in Kind
BY DEF Own, Kind

LEMMA Versions == Version \subseteq Nat
BY PortalAssumption DEF Version

(* What is spent stays a number.                                            *)
LEMMA SpendNat ==
  ASSUME NEW b \in Budget, spent \in [Budget -> Nat], Spend(b)
  PROVE  spent' \in [Budget -> Nat]
BY DEF Spend, Budget

(* The ways a worker moves on keep its state well-formed.                   *)
LEMMA EndsOK ==
  ASSUME WorkOK, NEW w \in Worker, Ends(w)
  PROVE  WorkOK'
BY Ids, Owns DEF WorkOK, Ends

LEMMA AdvanceOK ==
  ASSUME WorkOK, NEW w \in Worker, Advance(w)
  PROVE  WorkOK'
BY Ids DEF WorkOK, Advance

(* Rows that stay, or change their result only, stay well-formed.           *)
LEMMA StoreOK ==
  ASSUME RowsOK, WorkOK, NEW w \in Worker, pc[w] = "fetching",
         fetched[w] \in Url, StoreResult(w)
  PROVE  RowsOK'
<1>1. CASE ~There(w)
  BY <1>1 DEF StoreResult, RowsOK, Present
<1>2. CASE There(w)
  <2> DEFINE k == job[w]
             c == current[w]
  <2>1. /\ k \in Kind
        /\ c \in Id
        /\ rows[k][c] \in Row
    BY <1>2 DEF WorkOK, RowsOK, There, Present
  <2>2. rows' = [rows EXCEPT ![k][c].result = fetched[w]]
    BY <1>2 DEF StoreResult
  <2>3. /\ rows' \in [Kind -> [Id -> Row \union {Nothing}]]
        /\ rows'[k][c] \in Row
        /\ rows'[k][c].url = rows[k][c].url
        /\ \A l \in Kind, i \in Id : l # k \/ i # c => rows'[l][i] = rows[l][i]
    BY <2>1, <2>2 DEF RowsOK, Row
  <2>4. \A l \in Kind : /\ Present(l)' = Present(l)
                        /\ \A i \in Present(l) : rows'[l][i].url = rows[l][i].url
    BY <2>1, <2>3, PortalAssumption DEF Present
  <2>5. QED
    BY <2>3, <2>4 DEF RowsOK
<1>3. QED
  BY <1>1, <1>2

-----------------------------------------------------------------------------
(* Ids from nextId on were never given out.                                 *)
Fresh == \A k \in Kind : \A i \in Id : i >= nextId[k] => rows[k][i] = Nothing

(* A worker fetches an id that was given out, and if its row is still there *)
(* it is the row the worker read: an id is never given out again.           *)
Reading ==
  \A w \in Worker : pc[w] = "fetching" =>
    /\ fetched[w] \in Url
    /\ current[w] < nextId[job[w]]
    /\ There(w) => rows[job[w]][current[w]].url = fetched[w]

IInv == TypeOK /\ Fresh /\ Reading /\ ResultsBelong /\ ItemsBelong

LEMMA InitInv == Init => IInv
<1> SUFFICES ASSUME Init PROVE IInv
  OBVIOUS
<1>1. Present("service") = {} /\ Present("feed") = {}
  BY DEF Init, Present, Kind
<1>2. \A k \in Kind : Present(k) = {}
  BY <1>1 DEF Kind
<1>3. StartOK /\ RestOK
  BY DEF Init, StartOK, RestOK, Budget
<1>4. RowsOK /\ ItemsOK
  BY <1>2 DEF Init, RowsOK, ItemsOK
<1>5. WorkOK
  BY Ids, Owns DEF Init, WorkOK
<1>6. Fresh /\ Reading
  BY DEF Init, Fresh, Reading
<1>7. ResultsBelong /\ ItemsBelong
  BY <1>2 DEF Init, ResultsBelong, ItemsBelong
<1>8. QED
  BY <1>3, <1>4, <1>5, <1>6, <1>7, TypeParts DEF IInv

-----------------------------------------------------------------------------
(* Steps that leave the tables alone, by what they do to the workers.       *)
LEMMA TablesKept ==
  ASSUME IInv, UNCHANGED tablevars, StartOK', RestOK', WorkOK',
         \A w \in Worker :
           \/ pc'[w] # "fetching"
           \/ /\ pc[w] = "fetching"
              /\ job'[w] = job[w]
              /\ current'[w] = current[w]
              /\ fetched'[w] = fetched[w]
           \/ /\ current'[w] \in Present(job'[w])
              /\ fetched'[w] = rows[job'[w]][current'[w]].url
  PROVE  IInv'
<1> USE DEF tablevars
<1>1. RowsOK' /\ ItemsOK'
  BY TypeParts DEF IInv, RowsOK, ItemsOK, Present
<1>2. TypeOK'
  BY <1>1, TypeParts DEF StartOK, RowsOK, ItemsOK, WorkOK, RestOK, TypeOK
<1>3. Fresh' /\ ResultsBelong' /\ ItemsBelong'
  BY DEF IInv, Fresh, ResultsBelong, ItemsBelong, Present
<1>4. ASSUME NEW w \in Worker, pc'[w] = "fetching"
      PROVE  /\ fetched'[w] \in Url
             /\ current'[w] < nextId'[job'[w]]
             /\ There(w)' => rows'[job'[w]][current'[w]].url = fetched'[w]
  <2>1. CASE /\ pc[w] = "fetching"
             /\ job'[w] = job[w]
             /\ current'[w] = current[w]
             /\ fetched'[w] = fetched[w]
    BY <2>1 DEF IInv, Reading, There, Present
  <2>2. CASE /\ current'[w] \in Present(job'[w])
             /\ fetched'[w] = rows[job'[w]][current'[w]].url
    <3>1. job'[w] \in Kind /\ current'[w] \in Id
      BY DEF WorkOK
    <3>2. rows[job'[w]][current'[w]] \in Row
      BY <2>2, <3>1, TypeParts DEF IInv, RowsOK, Present
    <3>3. current'[w] < nextId[job'[w]]
      BY <2>2, <3>1, Ids, TypeParts DEF IInv, ItemsOK, Fresh, Present
    <3>4. QED
      BY <2>2, <3>2, <3>3 DEF Row
  <2>3. QED
    BY <1>4, <2>1, <2>2
<1>5. QED
  BY <1>2, <1>3, <1>4 DEF IInv, Reading

(* A start or a kill.                                                       *)
LEMMA StartStep ==
  ASSUME IInv, Initialize \/ Kill
  PROVE  IInv'
<1>1. StartOK /\ WorkOK /\ RestOK
  BY TypeParts DEF IInv
<1>2. CASE Initialize
  <2>1. StartOK'
    BY <1>1, <1>2 DEF StartOK, Initialize, Start, Execute, Record, Serve, Recorded
  <2>2. UNCHANGED <<tablevars, workvars, sessions, spent>>
    BY <1>2 DEF Initialize, Start, Execute, Record, Serve
  <2>3. WorkOK' /\ RestOK'
    BY <1>1, <2>2 DEF WorkOK, RestOK, workvars
  <2>4. QED
    BY <2>1, <2>2, <2>3, TablesKept DEF workvars
<1>3. CASE Kill
  <2>1. StartOK'
    BY <1>1, <1>3 DEF StartOK, Kill
  <2>2. WorkOK'
    BY <1>3, Ids, Owns DEF WorkOK, Kill
  <2>3. RestOK'
    BY <1>1, <1>3, SpendNat DEF RestOK, Kill, Budget
  <2>4. UNCHANGED tablevars /\ \A w \in Worker : pc'[w] # "fetching"
    BY <1>3 DEF Kill, tablevars
  <2>5. QED
    BY <2>1, <2>2, <2>3, <2>4, TablesKept
<1>4. QED
  BY <1>2, <1>3

-----------------------------------------------------------------------------
(* A worker that stands at no fetch afterwards.                             *)
LEMMA QuietStep ==
  ASSUME IInv, NEW w \in Worker, UNCHANGED <<startvars, tablevars>>,
         WorkOK', RestOK', pc'[w] # "fetching",
         \A v \in Worker \ {w} : /\ pc'[v] = pc[v]
                                 /\ job'[v] = job[v]
                                 /\ current'[v] = current[v]
                                 /\ fetched'[v] = fetched[v]
  PROVE  IInv'
<1>1. StartOK'
  BY TypeParts DEF IInv, StartOK, startvars
<1>2. QED
  BY <1>1, TablesKept

LEMMA EndsStep ==
  ASSUME IInv, NEW w \in Worker, Ends(w), UNCHANGED <<startvars, tablevars>>,
         RestOK'
  PROVE  IInv'
<1>1. WorkOK /\ WorkOK'
  BY EndsOK, TypeParts DEF IInv
<1>2. /\ pc'[w] = "idle"
      /\ \A v \in Worker \ {w} : /\ pc'[v] = pc[v]
                                 /\ job'[v] = job[v]
                                 /\ current'[v] = current[v]
                                 /\ fetched'[v] = fetched[v]
  BY <1>1 DEF Ends, WorkOK
<1>3. QED
  BY <1>1, <1>2, QuietStep

LEMMA ListStep ==
  ASSUME IInv, NEW w \in Worker, List(w)
  PROVE  IInv'
<1>1. WorkOK /\ RestOK
  BY TypeParts DEF IInv
<1>2. RestOK'
  BY <1>1, SpendNat DEF RestOK, List, Budget
<1>3. \A k \in Kind : Present(k) \subseteq Id
  BY DEF Present
<1>4. WorkOK'
  BY <1>1, <1>3, Owns DEF WorkOK, List
<1>5. /\ pc'[w] = "listed"
      /\ \A v \in Worker \ {w} : /\ pc'[v] = pc[v]
                                 /\ job'[v] = job[v]
                                 /\ current'[v] = current[v]
                                 /\ fetched'[v] = fetched[v]
  BY <1>1 DEF List, WorkOK
<1>6. QED
  BY <1>2, <1>4, <1>5, QuietStep DEF List

LEMMA ReadStep ==
  ASSUME IInv, NEW w \in Worker, Read(w)
  PROVE  IInv'
<1>1. StartOK /\ WorkOK /\ RestOK /\ RowsOK
  BY TypeParts DEF IInv
<1>2. PICK i \in Present(job[w]) :
        /\ current' = [current EXCEPT ![w] = i]
        /\ fetched' = [fetched EXCEPT ![w] = rows[job[w]][i].url]
  BY DEF Read
<1>3. job[w] \in Kind /\ i \in Id /\ rows[job[w]][i] \in Row
  BY <1>1 DEF WorkOK, RowsOK, Present
<1>4. rows[job[w]][i].url \in Url
  BY <1>3 DEF Row
<1>5. StartOK' /\ RestOK' /\ UNCHANGED tablevars
  BY <1>1 DEF StartOK, RestOK, Read, startvars
<1>6. WorkOK'
  BY <1>1, <1>2, <1>3, <1>4 DEF WorkOK, Read
<1>7. ASSUME NEW v \in Worker
      PROVE  \/ /\ pc'[v] = pc[v]
                /\ job'[v] = job[v]
                /\ current'[v] = current[v]
                /\ fetched'[v] = fetched[v]
             \/ /\ current'[v] \in Present(job'[v])
                /\ fetched'[v] = rows[job'[v]][current'[v]].url
  BY <1>1, <1>2 DEF WorkOK, Read
<1>8. QED
  BY <1>5, <1>6, <1>7, TablesKept

-----------------------------------------------------------------------------
(* A result is stored: in the row it was fetched for, or nowhere.           *)
LEMMA ResultStored ==
  ASSUME IInv, NEW w \in Worker, pc[w] = "fetching", StoreResult(w)
  PROVE  /\ RowsOK'
         /\ ResultsBelong'
         /\ \A k \in Kind : \A i \in Id :
              /\ rows'[k][i] = Nothing <=> rows[k][i] = Nothing
              /\ i \in Present(k) => rows'[k][i].url = rows[k][i].url
<1>1. WorkOK /\ RowsOK /\ fetched[w] \in Url
  BY TypeParts DEF IInv, Reading
<1>2. RowsOK'
  BY <1>1, StoreOK
<1>3. CASE ~There(w)
  BY <1>2, <1>3 DEF StoreResult, IInv, ResultsBelong, Present
<1>4. CASE There(w)
  <2> DEFINE k == job[w]
             c == current[w]
  <2>1. /\ k \in Kind
        /\ c \in Id
        /\ rows[k][c] \in Row
        /\ rows[k][c].url = fetched[w]
    BY <1>1, <1>4 DEF WorkOK, RowsOK, There, Present, IInv, Reading
  <2>2. rows' = [rows EXCEPT ![k][c].result = fetched[w]]
    BY <1>4 DEF StoreResult
  <2>3. /\ rows'[k][c] = [rows[k][c] EXCEPT !.result = fetched[w]]
        /\ \A l \in Kind, i \in Id : l # k \/ i # c => rows'[l][i] = rows[l][i]
    BY <1>1, <2>1, <2>2 DEF RowsOK
  <2>4. /\ rows'[k][c] \in Row
        /\ rows'[k][c].url = rows[k][c].url
        /\ rows'[k][c].result = fetched[w]
    BY <1>1, <2>1, <2>3 DEF Row
  <2>5. \A l \in Kind : \A i \in Id :
          /\ rows'[l][i] = Nothing <=> rows[l][i] = Nothing
          /\ i \in Present(l) => rows'[l][i].url = rows[l][i].url
    BY <2>1, <2>3, <2>4, PortalAssumption
  <2>6. ASSUME NEW l \in Kind, NEW i \in Id, rows'[l][i] # Nothing
        PROVE  rows'[l][i].result \in {rows'[l][i].url, Nothing}
    <3>1. CASE l = k /\ i = c
      BY <2>1, <2>4, <3>1
    <3>2. CASE l # k \/ i # c
      BY <2>3, <2>6, <3>2 DEF IInv, ResultsBelong, Present
    <3>3. QED
      BY <3>1, <3>2
  <2>7. ResultsBelong'
    BY <2>6 DEF ResultsBelong, Present
  <2>8. QED
    BY <1>2, <2>5, <2>7
<1>5. QED
  BY <1>3, <1>4

(* The worker goes on after it stored; nobody else's row or id changed.     *)
LEMMA StoreStep ==
  ASSUME IInv, NEW w \in Worker, pc[w] = "fetching", StoreResult(w),
         Advance(w), UNCHANGED <<startvars, nextId, sessions, spent>>,
         items' \in [Id -> SUBSET Url], ItemsBelong'
  PROVE  IInv'
<1>1. StartOK /\ ItemsOK /\ WorkOK /\ RestOK
  BY TypeParts DEF IInv
<1>2. StartOK' /\ ItemsOK' /\ RestOK'
  BY <1>1 DEF StartOK, ItemsOK, RestOK, startvars
<1>3. WorkOK'
  BY <1>1, AdvanceOK
<1>4. RowsOK' /\ ResultsBelong'
  BY ResultStored
<1>5. TypeOK'
  BY <1>2, <1>3, <1>4, TypeParts
       DEF TypeOK, StartOK, RowsOK, ItemsOK, WorkOK, RestOK
<1>6. Fresh'
  BY ResultStored DEF IInv, Fresh
<1>7. ASSUME NEW v \in Worker, pc'[v] = "fetching"
      PROVE  /\ fetched'[v] \in Url
             /\ current'[v] < nextId'[job'[v]]
             /\ There(v)' => rows'[job'[v]][current'[v]].url = fetched'[v]
  <2>1. v # w
    BY <1>1, <1>7 DEF Advance, WorkOK
  <2>2. /\ pc[v] = "fetching"
        /\ job'[v] = job[v]
        /\ current'[v] = current[v]
        /\ fetched'[v] = fetched[v]
    BY <1>1, <1>7, <2>1 DEF Advance, WorkOK
  <2>3. job[v] \in Kind /\ current[v] \in Id
    BY <1>1 DEF WorkOK
  <2>4. There(v)' => There(v) /\ rows'[job[v]][current[v]].url = rows[job[v]][current[v]].url
    BY <2>2, <2>3, ResultStored DEF There, Present
  <2>5. QED
    BY <2>2, <2>4 DEF IInv, Reading
<1>8. QED
  BY <1>4, <1>5, <1>6, <1>7 DEF IInv, Reading

LEMMA CheckStep ==
  ASSUME IInv, NEW w \in Worker, StoreCheck(w)
  PROVE  IInv'
<1>1. items' \in [Id -> SUBSET Url]
  BY TypeParts DEF IInv, ItemsOK, StoreCheck
<1>2. ItemsBelong'
  <2>1. pc[w] = "fetching" /\ StoreResult(w) /\ UNCHANGED items
    BY DEF StoreCheck
  <2>2. "feed" \in Kind
    BY DEF Kind
  <2>3. QED
    BY <2>1, <2>2, ResultStored DEF IInv, ItemsBelong, Present
<1>3. QED
  BY <1>1, <1>2, StoreStep DEF StoreCheck

LEMMA FeedStep ==
  ASSUME IInv, NEW w \in Worker, StoreFeed(w)
  PROVE  IInv'
<1>1. /\ pc[w] = "fetching" /\ job[w] = "feed" /\ StoreResult(w)
      /\ "feed" \in Kind
  BY DEF StoreFeed, Kind
<1>2. WorkOK /\ ItemsOK /\ fetched[w] \in Url
  BY <1>1, TypeParts DEF IInv, Reading
<1>3. \A i \in Id : /\ rows'["feed"][i] = Nothing <=> rows["feed"][i] = Nothing
                    /\ i \in Present("feed") => rows'["feed"][i].url = rows["feed"][i].url
  BY <1>1, ResultStored
<1>4. CASE UNCHANGED items
  <2>1. ItemsBelong'
    BY <1>3, <1>4 DEF IInv, ItemsBelong, Present
  <2>2. QED
    BY <1>2, <1>4, <2>1, StoreStep DEF ItemsOK, StoreFeed
<1>5. CASE /\ ForeignKey(w)
           /\ items' = [items EXCEPT ![current[w]] = @ \union {fetched[w]}]
  <2>1. current[w] \in Id /\ current[w] \in Present("feed")
        /\ rows["feed"][current[w]].url = fetched[w]
    BY <1>1, <1>2, <1>5 DEF WorkOK, ForeignKey, There, IInv, Reading
  <2>2. items' \in [Id -> SUBSET Url]
    BY <1>2, <1>5, <2>1 DEF ItemsOK
  <2>3. items[current[w]] \subseteq {fetched[w]}
    BY <2>1 DEF IInv, ItemsBelong
  <2>4. ASSUME NEW i \in Id, items'[i] # {}
        PROVE  i \in Present("feed")' /\ items'[i] = {rows'["feed"][i].url}
    <3>1. CASE i = current[w]
      BY <1>2, <1>3, <1>5, <2>1, <2>3, <3>1 DEF ItemsOK, Present
    <3>2. CASE i # current[w]
      BY <1>2, <1>3, <1>5, <2>4, <3>2 DEF IInv, ItemsBelong, ItemsOK, Present
    <3>3. QED
      BY <3>1, <3>2
  <2>5. ItemsBelong'
    BY <2>4 DEF ItemsBelong
  <2>6. QED
    BY <2>2, <2>5, StoreStep DEF StoreFeed
<1>6. QED
  BY <1>4, <1>5 DEF StoreFeed

(* Everything a worker does.                                                *)
LEMMA WorkerStep ==
  ASSUME IInv, NEW w \in Worker, List(w) \/ Work(w) \/ TransactionFails(w)
  PROVE  IInv'
<1>1. RestOK
  BY TypeParts DEF IInv
<1>2. CASE List(w)
  BY <1>2, ListStep
<1>3. CASE Read(w)
  BY <1>3, ReadStep
<1>4. CASE ReadRaises(w)
  BY <1>1, <1>4, EndsStep DEF ReadRaises, Raised, RestOK
<1>5. CASE StoreCheck(w)
  BY <1>5, CheckStep
<1>6. CASE StoreFeed(w)
  BY <1>6, FeedStep
<1>7. CASE StoreRaises(w)
  BY <1>1, <1>7, EndsStep DEF StoreRaises, Raised, RestOK
<1>8. CASE TransactionFails(w)
  <2>1. RestOK'
    BY <1>1, <1>8, SpendNat DEF TransactionFails, RestOK, Budget
  <2>2. QED
    BY <1>8, <2>1, EndsStep DEF TransactionFails, Raised
<1>9. CASE Cleanup(w)
  <2>1. RestOK'
    BY <1>1, <1>9 DEF Cleanup, RestOK
  <2>2. QED
    BY <1>9, <2>1, EndsStep DEF Cleanup
<1>10. CASE Answer(w)
  BY <1>1, <1>10, EndsStep DEF Answer, RestOK
<1>11. QED
  BY <1>2, <1>3, <1>4, <1>5, <1>6, <1>7, <1>8, <1>9, <1>10 DEF Work

-----------------------------------------------------------------------------
(* Requests that add or delete a row leave the workers where they are.      *)
LEMMA AddStep ==
  ASSUME IInv, NEW k \in Kind, AddRow(k)
  PROVE  IInv'
<1> DEFINE c == nextId[k]
<1>1. StartOK /\ RowsOK /\ ItemsOK /\ WorkOK /\ RestOK
  BY TypeParts DEF IInv
<1>2. PICK u \in Url :
        /\ Insertable(k, u)
        /\ rows' = [rows EXCEPT ![k][c] = [url |-> u, result |-> Nothing]]
  BY DEF AddRow, IdFor
<1>3. c \in Id /\ c \in Nat /\ nextId' = [nextId EXCEPT ![k] = c + 1]
  BY Ids DEF AddRow
<1>4. rows[k][c] = Nothing
  BY <1>3 DEF IInv, Fresh
<1>5. /\ rows'[k][c] = [url |-> u, result |-> Nothing]
      /\ rows'[k][c] \in Row
      /\ \A l \in Kind, i \in Id : l # k \/ i # c => rows'[l][i] = rows[l][i]
      /\ rows' \in [Kind -> [Id -> Row \union {Nothing}]]
  BY <1>1, <1>2, <1>3 DEF RowsOK, Row
<1>6. \A l \in Kind : \A i \in Present(l)' : l # k \/ i # c => i \in Present(l)
  BY <1>5 DEF Present
<1>7. StartOK' /\ WorkOK' /\ RestOK' /\ UNCHANGED <<items, workvars>>
  BY <1>1 DEF AddRow, StartOK, WorkOK, RestOK, startvars, workvars
<1>8. RowsOK'
  <2>1. ASSUME NEW l \in Kind, NEW i \in Present(l)', NEW j \in Present(l)',
               rows'[l][i].url = rows'[l][j].url
        PROVE  i = j
    <3>1. i \in Id /\ j \in Id
      BY DEF Present
    <3>2. CASE l # k \/ (i # c /\ j # c)
      BY <1>1, <1>5, <1>6, <2>1, <3>1, <3>2 DEF RowsOK
    <3>3. CASE l = k /\ i = c /\ j # c
      BY <1>2, <1>5, <1>6, <2>1, <3>1, <3>3 DEF Insertable
    <3>4. CASE l = k /\ i # c /\ j = c
      BY <1>2, <1>5, <1>6, <2>1, <3>1, <3>4 DEF Insertable
    <3>5. QED
      BY <3>2, <3>3, <3>4
  <2>2. QED
    BY <1>5, <2>1 DEF RowsOK
<1>9. ItemsOK' /\ Fresh'
  <2>1. ItemsOK'
    BY <1>1, <1>3, <1>7 DEF ItemsOK
  <2>2. \A l \in Kind : nextId'[l] >= nextId[l] /\ (l = k => nextId'[l] = c + 1)
    BY <1>1, <1>3 DEF ItemsOK
  <2>3. ASSUME NEW l \in Kind, NEW i \in Id, i >= nextId'[l]
        PROVE  rows'[l][i] = Nothing
    <3>1. l # k \/ i # c
      BY <1>3, <2>2, <2>3
    <3>2. i >= nextId[l]
      BY <1>1, <2>1, <2>2, <2>3, Ids DEF ItemsOK
    <3>3. QED
      BY <1>5, <3>1, <3>2 DEF IInv, Fresh
  <2>4. QED
    BY <2>1, <2>3 DEF Fresh
<1>10. TypeOK'
  BY <1>7, <1>8, <1>9, TypeParts
       DEF TypeOK, StartOK, RowsOK, ItemsOK, WorkOK, RestOK
<1>11. ASSUME NEW w \in Worker, pc'[w] = "fetching"
       PROVE  /\ fetched'[w] \in Url
              /\ current'[w] < nextId'[job'[w]]
              /\ There(w)' => rows'[job'[w]][current'[w]].url = fetched'[w]
  <2>1. job[w] \in Kind /\ current[w] \in Id /\ current[w] \in Nat
    BY <1>1, Ids DEF WorkOK
  <2>2. pc[w] = "fetching" /\ current[w] < nextId[job[w]]
    BY <1>7, <1>11 DEF workvars, IInv, Reading
  <2>3. nextId[job[w]] \in Nat /\ nextId'[job[w]] \in Nat
        /\ nextId'[job[w]] >= nextId[job[w]]
    BY <1>1, <1>3, <2>1 DEF ItemsOK
  <2>4. current[w] < nextId'[job[w]]
    BY <2>1, <2>2, <2>3
  <2>5. job[w] # k \/ current[w] # c
    BY <1>3, <2>2
  <2>6. QED
    BY <1>5, <1>7, <2>1, <2>2, <2>4, <2>5
       DEF workvars, There, Present, IInv, Reading
<1>12. ResultsBelong'
  <2>1. ASSUME NEW l \in Kind, NEW i \in Present(l)'
        PROVE  rows'[l][i].result \in {rows'[l][i].url, Nothing}
    <3>1. i \in Id
      BY DEF Present
    <3>2. CASE l = k /\ i = c
      BY <1>5, <3>2
    <3>3. CASE l # k \/ i # c
      BY <1>5, <1>6, <3>1, <3>3 DEF IInv, ResultsBelong
    <3>4. QED
      BY <3>2, <3>3
  <2>2. QED
    BY <2>1 DEF ResultsBelong
<1>13. ItemsBelong'
  <2>1. ASSUME NEW i \in Id, items'[i] # {}
        PROVE  i \in Present("feed")' /\ items'[i] = {rows'["feed"][i].url}
    <3>1. "feed" \in Kind
      BY DEF Kind
    <3>2. i \in Present("feed") /\ items[i] = {rows["feed"][i].url}
      BY <1>7, <2>1 DEF IInv, ItemsBelong
    <3>3. "feed" # k \/ i # c
      BY <1>4, <3>2 DEF Present
    <3>4. QED
      BY <1>5, <1>7, <3>1, <3>2, <3>3 DEF Present
  <2>2. QED
    BY <2>1 DEF ItemsBelong
<1>14. QED
  BY <1>9, <1>10, <1>11, <1>12, <1>13 DEF IInv, Reading

LEMMA DeleteStep ==
  ASSUME IInv, NEW k \in Kind, DeleteRow(k)
  PROVE  IInv'
<1>1. StartOK /\ RowsOK /\ ItemsOK /\ WorkOK /\ RestOK
  BY TypeParts DEF IInv
<1>2. PICK c \in Present(k) :
        /\ rows' = [rows EXCEPT ![k][c] = Nothing]
        /\ items' = IF k = "feed" THEN [items EXCEPT ![c] = {}] ELSE items
  BY DEF DeleteRow
<1>3. c \in Id
  BY DEF Present
<1>4. /\ rows'[k][c] = Nothing
      /\ \A l \in Kind, i \in Id : l # k \/ i # c => rows'[l][i] = rows[l][i]
      /\ rows' \in [Kind -> [Id -> Row \union {Nothing}]]
  BY <1>1, <1>2, <1>3 DEF RowsOK
<1>5. \A l \in Kind : \A i \in Present(l)' :
        i \in Present(l) /\ rows'[l][i] = rows[l][i]
  BY <1>4 DEF Present
<1>6. /\ StartOK' /\ WorkOK' /\ RestOK'
      /\ UNCHANGED <<nextId, workvars>>
  BY <1>1 DEF DeleteRow, StartOK, WorkOK, RestOK, startvars, workvars
<1>7. RowsOK'
  BY <1>1, <1>4, <1>5 DEF RowsOK
<1>8. ItemsOK'
  BY <1>1, <1>2, <1>3, <1>6 DEF ItemsOK
<1>9. TypeOK'
  BY <1>6, <1>7, <1>8, TypeParts
       DEF TypeOK, StartOK, RowsOK, ItemsOK, WorkOK, RestOK
<1>10. Fresh' /\ ResultsBelong'
  <2>1. Fresh'
    BY <1>4, <1>6 DEF IInv, Fresh
  <2>2. ResultsBelong'
    BY <1>5 DEF IInv, ResultsBelong
  <2>3. QED
    BY <2>1, <2>2
<1>11. Reading'
  <2>1. \A w \in Worker : job[w] \in Kind
    BY <1>1 DEF WorkOK
  <2>2. QED
    BY <1>5, <1>6, <2>1 DEF workvars, There, IInv, Reading
<1>12. ItemsBelong'
  <2>1. ASSUME NEW i \in Id, items'[i] # {}
        PROVE  i \in Present("feed")' /\ items'[i] = {rows'["feed"][i].url}
    <3>1. "feed" \in Kind
      BY DEF Kind
    <3>2. items'[i] = items[i] /\ ("feed" # k \/ i # c)
      BY <1>1, <1>2, <1>3, <2>1 DEF ItemsOK
    <3>3. QED
      BY <1>4, <2>1, <3>1, <3>2 DEF IInv, ItemsBelong, Present
  <2>2. QED
    BY <2>1 DEF ItemsBelong
<1>13. QED
  BY <1>9, <1>10, <1>11, <1>12 DEF IInv

LEMMA SessionStep ==
  ASSUME IInv, NEW s \in Session, Login(s) \/ Logout(s) \/ Expire(s)
  PROVE  IInv'
<1>1. StartOK /\ WorkOK /\ RestOK
  BY TypeParts DEF IInv
<1>2. UNCHANGED <<startvars, tablevars, workvars, spent>>
  BY DEF Login, Logout, Expire, Becomes
<1>3. RestOK'
  BY <1>1 DEF RestOK, Login, Logout, Expire, Becomes
<1>4. StartOK' /\ WorkOK'
  BY <1>1, <1>2 DEF StartOK, WorkOK, startvars, workvars
<1>5. QED
  BY <1>2, <1>3, <1>4, TablesKept DEF workvars

LEMMA StutterStep ==
  ASSUME IInv, UNCHANGED vars
  PROVE  IInv'
<1>1. StartOK /\ WorkOK /\ RestOK
  BY TypeParts DEF IInv
<1>2. StartOK' /\ WorkOK' /\ RestOK'
  BY <1>1 DEF vars, StartOK, WorkOK, RestOK
<1>3. UNCHANGED <<tablevars, workvars>>
  BY DEF vars, tablevars, workvars
<1>4. QED
  BY <1>2, <1>3, TablesKept DEF workvars

LEMMA Inductive == Spec => []IInv
<1>1. IInv /\ [Next]_vars => IInv'
  <2> SUFFICES ASSUME IInv, [Next]_vars PROVE IInv'
    OBVIOUS
  <2>1. CASE Initialize \/ Kill
    BY <2>1, StartStep
  <2>2. ASSUME NEW w \in Worker, List(w) \/ Work(w) \/ TransactionFails(w)
        PROVE  IInv'
    BY <2>2, WorkerStep
  <2>3. ASSUME NEW k \in Kind, AddRow(k) \/ DeleteRow(k) PROVE IInv'
    BY <2>3, AddStep, DeleteStep
  <2>4. ASSUME NEW s \in Session, Login(s) \/ Logout(s) \/ Expire(s) PROVE IInv'
    BY <2>4, SessionStep
  <2>5. CASE UNCHANGED vars
    BY <2>5, StutterStep
  <2>6. QED
    BY <2>1, <2>2, <2>3, <2>4, <2>5 DEF Next
<1>2. QED
  BY InitInv, <1>1, PTL DEF Spec

-----------------------------------------------------------------------------
(* Tables, sessions and what the workers remember keep their types, and the *)
(* URLs of a table stay distinct.                                           *)
THEOREM TypeCorrect == Spec => []TypeOK
<1>1. IInv => TypeOK
  BY DEF IInv
<1>2. QED
  BY Inductive, <1>1, PTL

(* However fetches, deletes and additions interleave, a stored result was   *)
(* fetched from the URL of its row, because no id is given out twice        *)
(* (monitor.py 64-106, rss_reader.py 178-231).                              *)
THEOREM ResultsOwn == Spec => []ResultsBelong
<1>1. IInv => ResultsBelong
  BY DEF IInv
<1>2. QED
  BY Inductive, <1>1, PTL

(* A deleted feed leaves no items, not even those of a fetch that was under *)
(* way (rss_reader.py 172-231, foreign key and cascade).                    *)
THEOREM ItemsOwn == Spec => []ItemsBelong
<1>1. IInv => ItemsBelong
  BY DEF IInv
<1>2. QED
  BY Inductive, <1>1, PTL

-----------------------------------------------------------------------------
(* The fetches of the jobs (OutboundFetch).  Between its check and its      *)
(* connection a hop keeps the addresses that were checked, and a connection *)
(* is open only while the answer is read.                                   *)

HopChecked ==
  stage \in {"connect", "connected"} =>
    url.port /\ target \in answers /\ AllPermitted(answers)

Connected == wire # None => stage = "connected" /\ wire = target

FetchInv == FetchTypeOK /\ HopChecked /\ Connected

(* What a host resolves to is a set of addresses.                           *)
LEMMA ResolvedAddresses ==
  ASSUME FetchTypeOK, NEW u \in FetchUrl
  PROVE  Resolved(u.host) \subseteq Address
<1>1. u.host \in Address \union {Name, Localhost}
  BY DEF FetchUrl
<1>2. QED
  BY <1>1, FetchAssumption DEF FetchTypeOK, Resolved, Loopback

(* A readable answer has a body within the limit.                           *)
LEMMA BodyBounded ==
  ASSUME NEW r \in Response, Readable(r)
  PROVE  BodyLength(r) \in 0..MaxBytes
BY FetchAssumption DEF Response, Length, Readable, Decoded, BodyLength

(* Every step of a fetch, and of DNS, keeps this.                         *)
LEMMA FetchStep == FetchInv /\ [FetchNext]_fetchvars => FetchInv'
<1> SUFFICES ASSUME FetchInv, [FetchNext]_fetchvars PROVE FetchInv'
  OBVIOUS
<1> USE DEF FetchInv, FetchTypeOK, HopChecked, Connected
<1>1. CASE Validate
  <2>1. CASE Passes(url) /\ target' \in Resolved(url.host)
             /\ answers' = Resolved(url.host) /\ stage' = "connect"
             /\ UNCHANGED <<outcome, wire>>
    <3>1. Resolved(url.host) \subseteq Address
      BY ResolvedAddresses
    <3>2. url.port /\ \A a \in answers' : Permitted(a)
      BY <2>1 DEF Passes, AllPermitted
    <3>3. wire' = None
      BY <1>1, <2>1 DEF Validate
    <3>4. QED
      BY <1>1, <2>1, <3>1, <3>2, <3>3 DEF Validate, AllPermitted, Permitted
  <2>2. CASE End("UnsafeURLError") /\ UNCHANGED <<target, answers>>
    BY <1>1, <2>2 DEF Validate, End
  <2>3. QED
    BY <1>1, <2>1, <2>2 DEF Validate
<1>2. CASE Connect
  BY <1>2 DEF Connect, Pinned, End, AllPermitted, Permitted
<1>3. CASE Redirect
  BY <1>3, FetchAssumption DEF Redirect, MayFollow, End
<1>4. CASE Respond
  <2>1. body' \in 0..MaxBytes
    BY <1>4, BodyBounded DEF Respond
  <2>2. End("FetchResult") \/ End("FetchError")
    BY <1>4 DEF Respond
  <2>3. QED
    BY <1>4, <2>1, <2>2 DEF Respond, End
<1>5. CASE ChangeDns
  BY <1>5 DEF ChangeDns, AllPermitted, Permitted
<1>6. CASE UNCHANGED fetchvars
  BY <1>6 DEF fetchvars, AllPermitted, Permitted
<1>7. QED
  BY <1>1, <1>2, <1>3, <1>4, <1>5, <1>6 DEF FetchNext, Fetch

LEMMA FetchInvariance == FetchSpec => []FetchInv
<1>1. FetchInit => FetchInv
  BY FetchAssumption
     DEF FetchInit, FetchInv, FetchTypeOK, HopChecked, Connected
<1>2. QED
  BY <1>1, FetchStep, PTL DEF FetchSpec

(* The types of a fetch, and that no body is longer than max_bytes, however *)
(* it was compressed (_read_limited).                                       *)
THEOREM FetchTypeCorrect == FetchSpec => []FetchTypeOK
<1>1. FetchInv => FetchTypeOK
  BY DEF FetchInv
<1>2. QED
  BY <1>1, FetchInvariance, PTL

(* Every connection goes to an address that was checked for its hop, for    *)
(* any addresses, any DNS answers and any number of redirects (fetch_url    *)
(* and its pinned connections).                                             *)
THEOREM PinnedToChecked == FetchSpec => []ConnectionsChecked
<1>1. FetchInv => ConnectionsChecked
  BY DEF FetchInv, HopChecked, Connected, ConnectionsChecked, AllPermitted,
         Permitted
<1>2. QED
  BY <1>1, FetchInvariance, PTL

(* How much of a fetch is left: three steps of each hop.                    *)
StepsOfHop ==
  CASE stage = "validate" -> 3 [] stage = "connect" -> 2 [] OTHER -> 1

StepsLeft ==
  IF stage = "done" THEN 0 ELSE 3 * (MaxRedirects - hops) + StepsOfHop

(* A fetch takes at most 3 * (MaxRedirects + 1) steps: each takes one off,  *)
(* DNS puts none on (the loop of fetch_url, lines 219-259).                 *)
THEOREM FetchBounded ==
  FetchSpec => /\ [](StepsLeft \in 0..(3 * (MaxRedirects + 1)))
               /\ [][/\ Fetch => StepsLeft' < StepsLeft
                     /\ ChangeDns => StepsLeft' = StepsLeft]_fetchvars
<1> DEFINE Counts == /\ Fetch => StepsLeft' < StepsLeft
                     /\ ChangeDns => StepsLeft' = StepsLeft
<1>1. FetchInv => StepsLeft \in 0..(3 * (MaxRedirects + 1))
  BY FetchAssumption DEF FetchInv, FetchTypeOK, StepsLeft, StepsOfHop
<1>2. FetchInv /\ [FetchNext]_fetchvars => [Counts]_fetchvars
  <2> SUFFICES ASSUME FetchInv, FetchNext PROVE Counts
    OBVIOUS
  <2> USE FetchAssumption DEF FetchInv, FetchTypeOK, StepsLeft, StepsOfHop
  <2>1. Validate => StepsLeft' < StepsLeft
    BY DEF Validate, End
  <2>2. Connect => StepsLeft' < StepsLeft
    BY DEF Connect, End
  <2>3. Redirect => StepsLeft' < StepsLeft
    BY DEF Redirect, MayFollow, End
  <2>4. Respond => StepsLeft' < StepsLeft
    BY DEF Respond, End
  <2>5. ChangeDns => StepsLeft' = StepsLeft
    BY DEF ChangeDns
  <2>6. QED
    BY <2>1, <2>2, <2>3, <2>4, <2>5 DEF Fetch
<1> HIDE DEF Counts
<1>3. FetchSpec => [][Counts]_fetchvars
  BY <1>2, FetchInvariance, PTL DEF FetchSpec
<1>4. FetchSpec => [](StepsLeft \in 0..(3 * (MaxRedirects + 1)))
  BY <1>1, FetchInvariance, PTL
<1>5. QED
  BY <1>3, <1>4 DEF Counts
=============================================================================

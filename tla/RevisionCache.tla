--------------------------- MODULE RevisionCache ---------------------------
(***************************************************************************)
(* The invalidation cache in front of the database: CacheManager with its  *)
(* revision counter, the cache sessions (RealmCacheSession and             *)
(* UserCacheSession) that read through it and register invalidations in a  *)
(* transaction, and the invalidation events that reach the other nodes.    *)
(*                                                                         *)
(* Every node keeps an object cache, a local cache of revision numbers and *)
(* one counter.  A session remembers the counter when it is opened,        *)
(* remembers the revision of a key before it loads the key from the        *)
(* database, and adds the loaded object only when neither has been         *)
(* overtaken.  After the database commit the written keys are invalidated: *)
(* removed from the object cache, and their revision bumped to the next    *)
(* value of the counter.                                                   *)
(*                                                                         *)
(* A key is a cached object or a cached query; its content is abstracted   *)
(* to the number of committed writes it reflects.                          *)
(***************************************************************************)
EXTENDS Integers

CONSTANTS
  Nodes,            \* cluster nodes
  Keys,             \* cache keys
  Txs,              \* sessions, each running one transaction
  RepeatableRead,   \* the database serves a transaction from one snapshot
  EarlierReads,     \* other tables may be read before the session is opened
  Rowless,          \* versions of a key at which its row does not exist
  MaxGets,          \* bound: lookups per session
  MaxClears         \* bound: cache clears per node

ASSUME ConstantsAssumption ==
  /\ Keys # {}
  /\ RepeatableRead \in BOOLEAN
  /\ EarlierReads \in BOOLEAN
  /\ Rowless \subseteq Nat
  /\ MaxGets \in Nat
  /\ MaxClears \in Nat

NoRevision == -1                      \* revisions.get(id) == null
NoEntry == [ver |-> -1, rev |-> -1]   \* cache.get(id) == null
Dirty == -2                           \* content with uncommitted writes

VARIABLES
  db,         \* committed version of every key
  counter,    \* UpdateCounter of every node
  revisions,  \* the local revisions cache
  cache,      \* the object cache: version held and revision it carries
  node,       \* the node a session runs on
  pc,         \* where the session's thread is
  startup,    \* startupRevision
  snap,       \* database snapshot of the transaction
  snapped,    \* the snapshot has been taken
  inval,      \* the session's invalidations (= the keys it has written)
  key,        \* key being looked up
  obj,        \* entry returned by cache.get
  loaded,     \* revision read before the database read
  val,        \* version the database returned
  cur,        \* counter value addRevisioned is about to record
  gets,       \* lookups made so far
  clears,     \* cache clears so far
  clearing,   \* between cache.clear() and revisions.clear()
  todo,       \* keys a node has still to invalidate for a transaction
  stage,      \* progress of the thread invalidating one of them
  ikey,       \* the key it is working on
  inext,      \* counter value drawn by bumpVersion
  wver,       \* history: version a transaction committed for a key, or 0
  top,        \* history: highest revision ever recorded for a key
  gap         \* history: last bump did not raise the key's revision for good

sessionVars == <<node, pc, startup, snap, snapped, inval, gets>>
lookupVars == <<key, obj, loaded, val, cur>>
workerVars == <<todo, stage, ikey, inext>>
historyVars == <<wver, top, gap>>
nodeVars == <<counter, revisions, cache, clears, clearing>>
vars == <<db, nodeVars, sessionVars, lookupVars, workerVars, historyVars>>

---------------------------------------------------------------------------
Entry == [ver : Int, rev : Int]

Phases == {"idle", "open", "got", "miss", "current", "loaded", "add", "count",
           "record", "lock", "closing", "done"}

Stages == {"idle", "removed", "bumped"}

TypeOK ==
  /\ db \in [Keys -> Nat]
  /\ counter \in [Nodes -> Nat]
  /\ revisions \in [Nodes -> [Keys -> Nat \cup {NoRevision}]]
  /\ cache \in [Nodes -> [Keys -> Entry]]
  /\ node \in [Txs -> Nodes]
  /\ pc \in [Txs -> Phases]
  /\ startup \in [Txs -> Nat]
  /\ snap \in [Txs -> [Keys -> Nat]]
  /\ snapped \in [Txs -> BOOLEAN]
  /\ inval \in [Txs -> SUBSET Keys]
  /\ key \in [Txs -> Keys]
  /\ obj \in [Txs -> Entry]
  /\ loaded \in [Txs -> Nat]
  /\ val \in [Txs -> Int]
  /\ cur \in [Txs -> Nat]
  /\ gets \in [Txs -> Nat]
  /\ clears \in [Nodes -> Nat]
  /\ clearing \in [Nodes -> BOOLEAN]
  /\ todo \in [Txs -> [Nodes -> SUBSET Keys]]
  /\ stage \in [Txs -> [Nodes -> Stages]]
  /\ ikey \in [Txs -> [Nodes -> Keys]]
  /\ inext \in [Txs -> [Nodes -> Nat]]
  /\ wver \in [Txs -> [Keys -> Nat]]
  /\ top \in [Nodes -> [Keys -> Nat]]
  /\ gap \in [Nodes -> [Keys -> BOOLEAN]]

AnyKey == CHOOSE k \in Keys : TRUE

Init ==
  /\ db = [k \in Keys |-> 1]
  /\ counter = [n \in Nodes |-> 0]
  /\ revisions = [n \in Nodes |-> [k \in Keys |-> NoRevision]]
  /\ cache = [n \in Nodes |-> [k \in Keys |-> NoEntry]]
  /\ node \in [Txs -> Nodes]
  /\ pc = [t \in Txs |-> "idle"]
  /\ startup = [t \in Txs |-> 0]
  /\ snap = [t \in Txs |-> [k \in Keys |-> 0]]
  /\ snapped = [t \in Txs |-> FALSE]
  /\ inval = [t \in Txs |-> {}]
  /\ key = [t \in Txs |-> AnyKey]
  /\ obj = [t \in Txs |-> NoEntry]
  /\ loaded = [t \in Txs |-> 0]
  /\ val = [t \in Txs |-> 0]
  /\ cur = [t \in Txs |-> 0]
  /\ gets = [t \in Txs |-> 0]
  /\ clears = [n \in Nodes |-> 0]
  /\ clearing = [n \in Nodes |-> FALSE]
  /\ todo = [t \in Txs |-> [n \in Nodes |-> {}]]
  /\ stage = [t \in Txs |-> [n \in Nodes |-> "idle"]]
  /\ ikey = [t \in Txs |-> [n \in Nodes |-> AnyKey]]
  /\ inext = [t \in Txs |-> [n \in Nodes |-> 0]]
  /\ wver = [t \in Txs |-> [k \in Keys |-> 0]]
  /\ top = [n \in Nodes |-> [k \in Keys |-> 0]]
  /\ gap = [n \in Nodes |-> [k \in Keys |-> FALSE]]

---------------------------------------------------------------------------
(* The database as a transaction sees it. *)

View(t, k) ==
  IF k \in inval[t] THEN Dirty
  ELSE IF snapped[t] THEN snap[t][k] ELSE db[k]

\* Under repeatable read the first read fixes the snapshot.
TakeSnapshot(t) ==
  IF RepeatableRead /\ ~snapped[t]
  THEN /\ snap' = [snap EXCEPT ![t] = db]
       /\ snapped' = [snapped EXCEPT ![t] = TRUE]
  ELSE UNCHANGED <<snap, snapped>>

\* The transaction reads other tables before this cache session is opened.
PriorRead(t) ==
  /\ EarlierReads
  /\ pc[t] = "idle"
  /\ ~snapped[t]
  /\ RepeatableRead
  /\ TakeSnapshot(t)
  /\ UNCHANGED <<db, nodeVars, node, pc, startup, inval, gets, lookupVars,
                 workerVars, historyVars>>

---------------------------------------------------------------------------
(* The session: opening it and looking a key up. *)

\* The constructor of the cache session.
Open(t) ==
  /\ pc[t] = "idle"
  /\ startup' = [startup EXCEPT ![t] = counter[node[t]]]
  /\ pc' = [pc EXCEPT ![t] = "open"]
  /\ UNCHANGED <<db, nodeVars, node, snap, snapped, inval, gets, lookupVars,
                 workerVars, historyVars>>

\* CacheManager.get, first half: read the object cache.
GetEntry(t, k) ==
  /\ pc[t] = "open"
  /\ gets[t] < MaxGets
  /\ gets' = [gets EXCEPT ![t] = @ + 1]
  /\ key' = [key EXCEPT ![t] = k]
  /\ obj' = [obj EXCEPT ![t] = cache[node[t]][k]]
  /\ pc' = [pc EXCEPT ![t] =
              IF cache[node[t]][k] = NoEntry THEN "miss" ELSE "got"]
  /\ UNCHANGED <<db, nodeVars, node, startup, snap, snapped, inval, loaded,
                 val, cur, workerVars, historyVars>>

\* The lookup returns; its local variables are gone.
ReturnFromLookup(t) ==
  /\ pc' = [pc EXCEPT ![t] = "open"]
  /\ key' = [key EXCEPT ![t] = AnyKey]
  /\ obj' = [obj EXCEPT ![t] = NoEntry]
  /\ loaded' = [loaded EXCEPT ![t] = 0]
  /\ val' = [val EXCEPT ![t] = 0]
  /\ cur' = [cur EXCEPT ![t] = 0]

Usable(rev, entry) == rev # NoRevision /\ rev <= entry.rev

\* CacheManager.get, second half: compare with the revisions cache.  A key
\* the session has written is answered by the database all the same.
GetCheck(t) ==
  /\ pc[t] = "got"
  /\ \/ /\ ~Usable(revisions[node[t]][key[t]], obj[t])
        /\ pc' = [pc EXCEPT ![t] = "miss"]
        /\ obj' = [obj EXCEPT ![t] = NoEntry]
        /\ UNCHANGED <<snap, snapped, key, loaded, val, cur>>
     \/ /\ Usable(revisions[node[t]][key[t]], obj[t])
        /\ IF key[t] \in inval[t] THEN TakeSnapshot(t)
                                  ELSE UNCHANGED <<snap, snapped>>
        /\ ReturnFromLookup(t)
  /\ UNCHANGED <<db, nodeVars, node, startup, inval, gets, workerVars,
                 historyVars>>

\* Mutant: a missing revision is not replaced by the counter.
GetCurrentRevisionNoFallback(t) ==
  /\ pc[t] = "miss"
  /\ loaded' = [loaded EXCEPT ![t] = revisions[node[t]][key[t]]]
  /\ pc' = [pc EXCEPT ![t] = "loaded"]
  /\ UNCHANGED <<db, nodeVars, node, startup, snap, snapped, inval, gets, key,
                 obj, val, cur, workerVars, historyVars>>

\* CacheManager.getCurrentRevision: the revision of the key, ...
GetCurrentRevision(t) ==
  LET rev == revisions[node[t]][key[t]]
  IN  /\ pc[t] = "miss"
      /\ IF rev = NoRevision
         THEN /\ pc' = [pc EXCEPT ![t] = "current"]
              /\ UNCHANGED loaded
         ELSE /\ pc' = [pc EXCEPT ![t] = "loaded"]
              /\ loaded' = [loaded EXCEPT ![t] = rev]
      /\ UNCHANGED <<db, nodeVars, node, startup, snap, snapped, inval, gets,
                     key, obj, val, cur, workerVars, historyVars>>

\* ... or the counter, read after the revision was found missing.
GetCurrentCounter(t) ==
  /\ pc[t] = "current"
  /\ loaded' = [loaded EXCEPT ![t] = counter[node[t]]]
  /\ pc' = [pc EXCEPT ![t] = "loaded"]
  /\ UNCHANGED <<db, nodeVars, node, startup, snap, snapped, inval, gets, key,
                 obj, val, cur, workerVars, historyVars>>

\* Mutant: objects the session has changed itself are cached too.
CacheableThoughWritten(t) == View(t, key[t]) \notin Rowless

Cacheable(t) == key[t] \notin inval[t] /\ View(t, key[t]) \notin Rowless

\* The delegate reads the database; only a row this session has not written
\* goes on to be cached.
LoadFromDelegate(t) ==
  /\ pc[t] = "loaded"
  /\ TakeSnapshot(t)
  /\ IF Cacheable(t)
     THEN /\ val' = [val EXCEPT ![t] = View(t, key[t])]
          /\ pc' = [pc EXCEPT ![t] = "add"]
          /\ UNCHANGED <<key, obj, loaded, cur>>
     ELSE ReturnFromLookup(t)
  /\ UNCHANGED <<db, nodeVars, node, startup, inval, gets, workerVars,
                 historyVars>>

---------------------------------------------------------------------------
(* CacheManager.addRevisioned *)

Larger(a, b) == IF a > b THEN a ELSE b

\* A revision enters the revisions cache; the history variables remember
\* the highest one and whether a bump has been undone.
PutRevision(n, k, rev) ==
  /\ revisions' = [revisions EXCEPT ![n][k] = rev]
  /\ top' = [top EXCEPT ![n][k] = Larger(@, rev)]

\* Is there a revision?
AddCheck(t) ==
  /\ pc[t] = "add"
  /\ pc' = [pc EXCEPT ![t] =
              IF revisions[node[t]][key[t]] = NoRevision THEN "count" ELSE "lock"]
  /\ UNCHANGED <<db, nodeVars, node, startup, snap, snapped, inval, gets,
                 lookupVars, workerVars, historyVars>>

\* Without one the current counter is read, to be recorded.
AddCounter(t) ==
  /\ pc[t] = "count"
  /\ cur' = [cur EXCEPT ![t] = counter[node[t]]]
  /\ pc' = [pc EXCEPT ![t] = "record"]
  /\ UNCHANGED <<db, nodeVars, node, startup, snap, snapped, inval, gets, key,
                 obj, loaded, val, workerVars, historyVars>>

\* revisions.put(id, rev), made before the lock is taken.
AddRecord(t) ==
  LET n == node[t]
      k == key[t]
  IN  /\ pc[t] = "record"
      /\ PutRevision(n, k, cur[t])
      /\ gap' = [gap EXCEPT ![n][k] = @ \/ cur[t] < top[n][k]]
      /\ pc' = [pc EXCEPT ![t] = "lock"]
      /\ UNCHANGED <<db, counter, cache, clears, clearing, node, startup, snap,
                     snapped, inval, gets, lookupVars, workerVars, wver>>

\* Mutant: the revision is not compared with the start of the transaction.
OvertakenSinceLoad(rev, t) == rev = NoRevision \/ rev > loaded[t]

Overtaken(rev, t) ==
  \/ rev = NoRevision
  \/ rev > startup[t]
  \/ rev > loaded[t]

\* The batch that holds the lock of the revision: the checks, the new
\* revision and the put are one step for everybody else, since the object is
\* only visible together with its revision.  putForExternalRead does nothing
\* when the key is already in the cache.  The lock may not be obtained.
AddUnderLock(t) ==
  LET n == node[t]
      k == key[t]
      rev == revisions[n][k]
  IN  /\ pc[t] = "lock"
      /\ \/ UNCHANGED <<revisions, cache, top>>
         \/ /\ ~Overtaken(rev, t)
            /\ PutRevision(n, k, loaded[t])
            /\ cache' = [cache EXCEPT ![n][k] =
                           IF @ = NoEntry
                           THEN [ver |-> val[t], rev |-> loaded[t]] ELSE @]
      /\ ReturnFromLookup(t)
      /\ UNCHANGED <<db, counter, clears, clearing, node, startup, snap,
                     snapped, inval, gets, workerVars, wver, gap>>

---------------------------------------------------------------------------
(* Writing, and the end of the transaction. *)

\* getDelegateForUpdate and the register...Invalidation methods: the key is
\* marked, and changed in the uncommitted transaction.
Write(t, k) ==
  /\ pc[t] = "open"
  /\ k \notin inval[t]
  /\ inval' = [inval EXCEPT ![t] = @ \cup {k}]
  /\ TakeSnapshot(t)
  /\ UNCHANGED <<db, nodeVars, node, pc, startup, gets, lookupVars,
                 workerVars, historyVars>>

\* Mutant: no event tells the other nodes.
StartInvalidationsLocally(t) ==
  /\ pc' = [pc EXCEPT ![t] = "closing"]
  /\ todo' = [todo EXCEPT ![t][node[t]] = inval[t]]
  /\ UNCHANGED <<nodeVars, node, startup, snap, snapped, inval, gets,
                 lookupVars, stage, ikey, inext, top, gap>>

\* The database transaction ends; runInvalidations follows either way, here
\* and, through the events, on every other node.
StartInvalidations(t) ==
  /\ pc' = [pc EXCEPT ![t] = "closing"]
  /\ todo' = [todo EXCEPT ![t] = [n \in Nodes |-> inval[t]]]
  /\ UNCHANGED <<nodeVars, node, startup, snap, snapped, inval, gets,
                 lookupVars, stage, ikey, inext, top, gap>>

Commit(t) ==
  /\ pc[t] = "open"
  /\ db' = [k \in Keys |-> IF k \in inval[t] THEN db[k] + 1 ELSE db[k]]
  /\ wver' = [wver EXCEPT ![t] =
                [k \in Keys |-> IF k \in inval[t] THEN db[k] + 1 ELSE 0]]
  /\ StartInvalidations(t)

Rollback(t) ==
  /\ pc[t] = "open"
  /\ StartInvalidations(t)
  /\ UNCHANGED <<db, wver>>

\* sendInvalidationEvents, once the local invalidations are through.
SendInvalidationEvents(t) ==
  /\ pc[t] = "closing"
  /\ todo[t][node[t]] = {}
  /\ pc' = [pc EXCEPT ![t] = "done"]
  /\ UNCHANGED <<db, nodeVars, node, startup, snap, snapped, inval, gets,
                 lookupVars, workerVars, historyVars>>

---------------------------------------------------------------------------
(* CacheManager.invalidateObject, run by the session's own thread on its   *)
(* node and by the event listener on the others.                           *)

\* The local thread works while the session closes, the listeners once the
\* events have been sent.
MayInvalidate(t, n) ==
  IF n = node[t] THEN pc[t] = "closing" ELSE pc[t] = "done"

\* cache.remove(id)
RemoveObject(t, n) ==
  /\ MayInvalidate(t, n)
  /\ stage[t][n] = "idle"
  /\ \E k \in todo[t][n] :
       /\ cache' = [cache EXCEPT ![n][k] = NoEntry]
       /\ ikey' = [ikey EXCEPT ![t][n] = k]
  /\ stage' = [stage EXCEPT ![t][n] = "removed"]
  /\ UNCHANGED <<db, counter, revisions, clears, clearing, sessionVars,
                 lookupVars, todo, inext, historyVars>>

\* bumpVersion, counter.next()
NextCounter(t, n) ==
  /\ stage[t][n] = "removed"
  /\ counter' = [counter EXCEPT ![n] = @ + 1]
  /\ inext' = [inext EXCEPT ![t][n] = counter[n] + 1]
  /\ stage' = [stage EXCEPT ![t][n] = "bumped"]
  /\ UNCHANGED <<db, revisions, cache, clears, clearing, sessionVars,
                 lookupVars, todo, ikey, historyVars>>

\* bumpVersion, revisions.put(id, next)
PutBump(t, n) ==
  LET k == ikey[t][n]
  IN  /\ stage[t][n] = "bumped"
      /\ PutRevision(n, k, inext[t][n])
      /\ gap' = [gap EXCEPT ![n][k] = inext[t][n] <= top[n][k]]
      /\ todo' = [todo EXCEPT ![t][n] = @ \ {k}]
      /\ stage' = [stage EXCEPT ![t][n] = "idle"]
      /\ ikey' = [ikey EXCEPT ![t][n] = AnyKey]
      /\ inext' = [inext EXCEPT ![t][n] = 0]
      /\ UNCHANGED <<db, counter, cache, clears, clearing, sessionVars,
                     lookupVars, wver>>

---------------------------------------------------------------------------
(* The caches may evict, and an administrator may clear them. *)

EvictObject(n, k) ==
  /\ cache[n][k] # NoEntry
  /\ cache' = [cache EXCEPT ![n][k] = NoEntry]
  /\ UNCHANGED <<db, counter, revisions, clears, clearing, sessionVars,
                 lookupVars, workerVars, historyVars>>

EvictRevision(n, k) ==
  /\ revisions[n][k] # NoRevision
  /\ revisions' = [revisions EXCEPT ![n][k] = NoRevision]
  /\ UNCHANGED <<db, counter, cache, clears, clearing, sessionVars,
                 lookupVars, workerVars, historyVars>>

\* CacheManager.clear, on receipt of a ClearCacheEvent: cache.clear() ...
ClearObjects(n) ==
  /\ clears[n] < MaxClears
  /\ ~clearing[n]
  /\ clears' = [clears EXCEPT ![n] = @ + 1]
  /\ clearing' = [clearing EXCEPT ![n] = TRUE]
  /\ cache' = [cache EXCEPT ![n] = [k \in Keys |-> NoEntry]]
  /\ UNCHANGED <<db, counter, revisions, sessionVars, lookupVars, workerVars,
                 historyVars>>

\* ... and then revisions.clear().
ClearRevisions(n) ==
  /\ clearing[n]
  /\ clearing' = [clearing EXCEPT ![n] = FALSE]
  /\ revisions' = [revisions EXCEPT ![n] = [k \in Keys |-> NoRevision]]
  /\ UNCHANGED <<db, counter, cache, clears, sessionVars, lookupVars,
                 workerVars, historyVars>>

---------------------------------------------------------------------------
Lookup(t) ==
  \/ \E k \in Keys : GetEntry(t, k)
  \/ GetCheck(t)
  \/ GetCurrentRevision(t)
  \/ GetCurrentCounter(t)
  \/ LoadFromDelegate(t)
  \/ AddCheck(t)
  \/ AddCounter(t)
  \/ AddRecord(t)
  \/ AddUnderLock(t)

Session(t) ==
  \/ PriorRead(t)
  \/ Open(t)
  \/ Lookup(t)
  \/ \E k \in Keys : Write(t, k)
  \/ Commit(t)
  \/ Rollback(t)
  \/ SendInvalidationEvents(t)

Invalidation(t, n) ==
  \/ RemoveObject(t, n)
  \/ NextCounter(t, n)
  \/ PutBump(t, n)

Housekeeping(n) ==
  \/ \E k \in Keys : EvictObject(n, k) \/ EvictRevision(n, k)
  \/ ClearObjects(n)
  \/ ClearRevisions(n)

Next ==
  \/ \E t \in Txs : Session(t)
  \/ \E t \in Txs, n \in Nodes : Invalidation(t, n)
  \/ \E n \in Nodes : Housekeeping(n)

Spec == Init /\ [][Next]_vars

\* A thread that has begun to invalidate goes on: the request thread runs
\* runInvalidations to its end, and a sent event reaches every node.
Fairness ==
  \A t \in Txs :
    /\ WF_vars(SendInvalidationEvents(t))
    /\ \A n \in Nodes : WF_vars(Invalidation(t, n))

FairSpec == Spec /\ Fairness

---------------------------------------------------------------------------
(* What the cache promises. *)

\* CacheManager.get would return the entry of key k on node n.
Visible(n, k) ==
  /\ cache[n][k] # NoEntry
  /\ Usable(revisions[n][k], cache[n][k])

\* Node n has still to invalidate k for a write later than version v.
Pending(n, k, v) ==
  \E t \in Txs : wver[t][k] > v /\ k \in todo[t][n]

Stale(n, k) == Visible(n, k) /\ cache[n][k].ver < db[k]

\* A cache hit is never older than the last write whose invalidation has
\* completed on that node, however loads, commits, invalidations, evictions
\* and clears interleave - except after a bump that failed to raise the
\* key's revision for good.
StaleOnlyWhilePending ==
  \A n \in Nodes, k \in Keys :
    Stale(n, k) => Pending(n, k, cache[n][k].ver) \/ gap[n][k]

\* The same promise without the exception: what the notes on CacheManager
\* and RealmCacheSession say the revision check achieves.
NoStaleObjectCached ==
  \A n \in Nodes, k \in Keys :
    Stale(n, k) => Pending(n, k, cache[n][k].ver)

\* Nothing a transaction has not committed, and nothing that is not a row,
\* is ever found in the cache.
OnlyCommittedRowsCached ==
  \A n \in Nodes, k \in Keys :
    cache[n][k] # NoEntry =>
      cache[n][k].ver \in (1 .. db[k]) \ Rowless

\* A stale hit does not last: once the invalidations have run the key is no
\* longer served in the old version (or its bump was lost).
StaleEventuallyGone ==
  \A n \in Nodes, k \in Keys :
    Stale(n, k) ~> (~Stale(n, k) \/ gap[n][k])

=============================================================================

------------------------ MODULE RevisionCacheProofs ------------------------
(***************************************************************************)
(* Proofs about RevisionCache: type correctness, and that a cache hit is   *)
(* stale only while the invalidation of a later write is under way, for    *)
(* every number of nodes, keys and sessions.                               *)
(***************************************************************************)
EXTENDS RevisionCache, TLAPS

\* The key that stands for an unused local variable is a key.
LEMMA AnyKeyInKeys == AnyKey \in Keys
  BY ConstantsAssumption DEF AnyKey

\* The caches, the counter and the sessions start well typed.
LEMMA InitTypeOK == Init => TypeOK
  BY AnyKeyInKeys
  DEF Init, TypeOK, NoEntry, NoRevision, Entry, Phases, Stages

\* What a transaction reads is a version, or Dirty.
LEMMA ViewInt ==
  ASSUME TypeOK, NEW t \in Txs, NEW k \in Keys
  PROVE  View(t, k) \in Int
  BY DEF TypeOK, View, Dirty

\* A snapshot is a version for every key.
LEMMA TakeSnapshotType ==
  ASSUME TypeOK, NEW t \in Txs, TakeSnapshot(t)
  PROVE  /\ snap' \in [Txs -> [Keys -> Nat]]
         /\ snapped' \in [Txs -> BOOLEAN]
  BY DEF TypeOK, TakeSnapshot

\* A lookup that returns leaves its local variables well typed.
LEMMA ReturnType ==
  ASSUME TypeOK, NEW t \in Txs, ReturnFromLookup(t)
  PROVE  /\ pc' \in [Txs -> Phases]
         /\ key' \in [Txs -> Keys]
         /\ obj' \in [Txs -> Entry]
         /\ loaded' \in [Txs -> Nat]
         /\ val' \in [Txs -> Int]
         /\ cur' \in [Txs -> Nat]
  BY AnyKeyInKeys DEF TypeOK, ReturnFromLookup, Phases, Entry, NoEntry

\* Revisions that are recorded are natural numbers.
LEMMA PutRevisionType ==
  ASSUME TypeOK, NEW n \in Nodes, NEW k \in Keys, NEW r \in Nat,
         PutRevision(n, k, r)
  PROVE  /\ revisions' \in [Nodes -> [Keys -> Nat \cup {NoRevision}]]
         /\ top' \in [Nodes -> [Keys -> Nat]]
  BY DEF TypeOK, PutRevision, Larger

\* Every step of a cache session preserves the types.
LEMMA SessionTypeOK ==
  ASSUME TypeOK, NEW t \in Txs, Session(t)
  PROVE  TypeOK'
<1>1. CASE PriorRead(t)
  BY <1>1, TakeSnapshotType
  DEF TypeOK, PriorRead, nodeVars, lookupVars, workerVars, historyVars
<1>2. CASE Open(t)
  BY <1>2
  DEF TypeOK, Open, nodeVars, lookupVars, workerVars, historyVars, Phases
<1>3. ASSUME NEW k \in Keys, GetEntry(t, k) PROVE TypeOK'
  BY <1>3
  DEF TypeOK, GetEntry, nodeVars, workerVars, historyVars, Phases
<1>4. CASE GetCheck(t)
  <2>1. snap' \in [Txs -> [Keys -> Nat]] /\ snapped' \in [Txs -> BOOLEAN]
    BY <1>4, TakeSnapshotType DEF GetCheck, TypeOK
  <2>2. /\ pc' \in [Txs -> Phases]
        /\ key' \in [Txs -> Keys]
        /\ obj' \in [Txs -> Entry]
        /\ loaded' \in [Txs -> Nat]
        /\ val' \in [Txs -> Int]
        /\ cur' \in [Txs -> Nat]
    <3>1. CASE ReturnFromLookup(t)
      BY <3>1, ReturnType
    <3>2. CASE /\ pc' = [pc EXCEPT ![t] = "miss"]
               /\ obj' = [obj EXCEPT ![t] = NoEntry]
               /\ UNCHANGED <<snap, snapped, key, loaded, val, cur>>
      BY <3>2 DEF TypeOK, Phases, Entry, NoEntry
    <3>. QED
      BY <1>4, <3>1, <3>2 DEF GetCheck
  <2>. QED
    BY <1>4, <2>1, <2>2 DEF TypeOK, GetCheck, nodeVars, workerVars, historyVars
<1>5. CASE GetCurrentRevision(t)
  <2>1. loaded' \in [Txs -> Nat] /\ pc' \in [Txs -> Phases]
    <3>1. revisions[node[t]][key[t]] \in Nat \cup {NoRevision}
      BY DEF TypeOK
    <3>2. \/ pc' = [pc EXCEPT ![t] = "current"] /\ loaded' = loaded
          \/ /\ revisions[node[t]][key[t]] # NoRevision
             /\ pc' = [pc EXCEPT ![t] = "loaded"]
             /\ loaded' = [loaded EXCEPT ![t] = revisions[node[t]][key[t]]]
      BY <1>5 DEF GetCurrentRevision
    <3>. QED
      BY <3>1, <3>2 DEF TypeOK, Phases
  <2>. QED
    BY <1>5, <2>1 DEF TypeOK, GetCurrentRevision, nodeVars, workerVars, historyVars
<1>14. CASE GetCurrentCounter(t)
  BY <1>14
  DEF TypeOK, GetCurrentCounter, nodeVars, workerVars, historyVars, Phases
<1>6. CASE LoadFromDelegate(t)
  <2>1. snap' \in [Txs -> [Keys -> Nat]] /\ snapped' \in [Txs -> BOOLEAN]
    BY <1>6, TakeSnapshotType DEF LoadFromDelegate
  <2>2. View(t, key[t]) \in Int
    BY ViewInt DEF TypeOK
  <2>3. /\ pc' \in [Txs -> Phases]
        /\ key' \in [Txs -> Keys]
        /\ obj' \in [Txs -> Entry]
        /\ loaded' \in [Txs -> Nat]
        /\ val' \in [Txs -> Int]
        /\ cur' \in [Txs -> Nat]
    <3>1. CASE ReturnFromLookup(t)
      BY <3>1, ReturnType
    <3>2. CASE /\ val' = [val EXCEPT ![t] = View(t, key[t])]
               /\ pc' = [pc EXCEPT ![t] = "add"]
               /\ UNCHANGED <<key, obj, loaded, cur>>
      BY <2>2, <3>2 DEF TypeOK, Phases
    <3>. QED
      BY <1>6, <3>1, <3>2 DEF LoadFromDelegate
  <2>. QED
    BY <1>6, <2>1, <2>3
    DEF TypeOK, LoadFromDelegate, nodeVars, workerVars, historyVars
<1>7. CASE AddCheck(t)
  BY <1>7
  DEF TypeOK, AddCheck, nodeVars, lookupVars, workerVars, historyVars, Phases
<1>15. CASE AddCounter(t)
  BY <1>15
  DEF TypeOK, AddCounter, nodeVars, workerVars, historyVars, Phases
<1>8. CASE AddRecord(t)
  <2>1. node[t] \in Nodes /\ key[t] \in Keys /\ cur[t] \in Nat
    BY DEF TypeOK
  <2>2. /\ revisions' \in [Nodes -> [Keys -> Nat \cup {NoRevision}]]
        /\ top' \in [Nodes -> [Keys -> Nat]]
    BY <1>8, <2>1, PutRevisionType DEF AddRecord
  <2>3. gap' \in [Nodes -> [Keys -> BOOLEAN]]
    BY <1>8, <2>1 DEF AddRecord, TypeOK
  <2>. QED
    BY <1>8, <2>2, <2>3
    DEF TypeOK, AddRecord, lookupVars, workerVars, Phases
<1>9. CASE AddUnderLock(t)
  <2>1. node[t] \in Nodes /\ key[t] \in Keys /\ loaded[t] \in Nat
        /\ val[t] \in Int
    BY DEF TypeOK
  <2>2. /\ revisions' \in [Nodes -> [Keys -> Nat \cup {NoRevision}]]
        /\ top' \in [Nodes -> [Keys -> Nat]]
    <3>1. CASE PutRevision(node[t], key[t], loaded[t])
      BY <2>1, <3>1, PutRevisionType
    <3>2. CASE UNCHANGED <<revisions, cache, top>>
      BY <3>2 DEF TypeOK
    <3>. QED
      BY <1>9, <3>1, <3>2 DEF AddUnderLock
  <2>3. cache' \in [Nodes -> [Keys -> Entry]]
    <3>1. CASE UNCHANGED <<revisions, cache, top>>
      BY <3>1 DEF TypeOK
    <3>2. CASE cache' = [cache EXCEPT ![node[t]][key[t]] =
                           IF @ = NoEntry
                           THEN [ver |-> val[t], rev |-> loaded[t]] ELSE @]
      BY <2>1, <3>2 DEF TypeOK, Entry
    <3>. QED
      BY <1>9, <3>1, <3>2 DEF AddUnderLock
  <2>. QED
    BY <1>9, <2>2, <2>3, ReturnType
    DEF TypeOK, AddUnderLock, workerVars
<1>10. ASSUME NEW k \in Keys, Write(t, k) PROVE TypeOK'
  BY <1>10, TakeSnapshotType
  DEF TypeOK, Write, nodeVars, lookupVars, workerVars, historyVars
<1>11. CASE Commit(t)
  BY <1>11
  DEF TypeOK, Commit, StartInvalidations, nodeVars, lookupVars, Phases
<1>12. CASE Rollback(t)
  BY <1>12
  DEF TypeOK, Rollback, StartInvalidations, nodeVars, lookupVars, Phases
<1>13. CASE SendInvalidationEvents(t)
  BY <1>13
  DEF TypeOK, SendInvalidationEvents, nodeVars, lookupVars, workerVars,
      historyVars, Phases
<1>. QED
  BY <1>1, <1>2, <1>3, <1>4, <1>5, <1>6, <1>7, <1>8, <1>9, <1>10, <1>11,
     <1>12, <1>13, <1>14, <1>15
  DEF Session, Lookup

\* So does every step of invalidateObject.
LEMMA InvalidationTypeOK ==
  ASSUME TypeOK, NEW t \in Txs, NEW n \in Nodes, Invalidation(t, n)
  PROVE  TypeOK'
<1>1. CASE RemoveObject(t, n)
  BY <1>1
  DEF TypeOK, RemoveObject, sessionVars, lookupVars, historyVars, Stages,
      Entry, NoEntry
<1>2. CASE NextCounter(t, n)
  BY <1>2
  DEF TypeOK, NextCounter, sessionVars, lookupVars, historyVars, Stages
<1>3. CASE PutBump(t, n)
  <2>1. ikey[t][n] \in Keys /\ inext[t][n] \in Nat
    BY DEF TypeOK
  <2>2. /\ revisions' \in [Nodes -> [Keys -> Nat \cup {NoRevision}]]
        /\ top' \in [Nodes -> [Keys -> Nat]]
    BY <1>3, <2>1, PutRevisionType DEF PutBump
  <2>3. gap' \in [Nodes -> [Keys -> BOOLEAN]]
    BY <1>3, <2>1 DEF PutBump, TypeOK
  <2>. QED
    BY <1>3, <2>2, <2>3, AnyKeyInKeys
    DEF TypeOK, PutBump, sessionVars, lookupVars, Stages
<1>. QED
  BY <1>1, <1>2, <1>3 DEF Invalidation

\* So do eviction and clear().
LEMMA HousekeepingTypeOK ==
  ASSUME TypeOK, NEW n \in Nodes, Housekeeping(n)
  PROVE  TypeOK'
<1>1. ASSUME NEW k \in Keys, EvictObject(n, k) PROVE TypeOK'
  BY <1>1
  DEF TypeOK, EvictObject, sessionVars, lookupVars, workerVars, historyVars,
      Entry, NoEntry
<1>2. ASSUME NEW k \in Keys, EvictRevision(n, k) PROVE TypeOK'
  BY <1>2
  DEF TypeOK, EvictRevision, sessionVars, lookupVars, workerVars, historyVars
<1>3. CASE ClearObjects(n)
  BY <1>3
  DEF TypeOK, ClearObjects, sessionVars, lookupVars, workerVars, historyVars,
      Entry, NoEntry
<1>4. CASE ClearRevisions(n)
  BY <1>4
  DEF TypeOK, ClearRevisions, sessionVars, lookupVars, workerVars, historyVars
<1>. QED
  BY <1>1, <1>2, <1>3, <1>4 DEF Housekeeping

\* Every variable keeps its type: no lookup works with an absent revision
\* (CacheManager.getCurrentRevision falls back to the counter).
THEOREM TypeCorrect == Spec => []TypeOK
<1>1. TypeOK /\ [Next]_vars => TypeOK'
  <2>. SUFFICES ASSUME TypeOK, [Next]_vars PROVE TypeOK'
    OBVIOUS
  <2>1. CASE Next
    BY <2>1, SessionTypeOK, InvalidationTypeOK, HousekeepingTypeOK DEF Next
  <2>2. CASE UNCHANGED vars
    BY <2>2
    DEF TypeOK, vars, nodeVars, sessionVars, lookupVars, workerVars,
        historyVars
  <2>. QED
    BY <2>1, <2>2
<1>. QED
  BY <1>1, InitTypeOK, PTL DEF Spec

---------------------------------------------------------------------------
(* The inductive invariant behind StaleOnlyWhilePending. *)

\* A session that has not ended its transaction has nothing to invalidate.
NothingPendingYet ==
  \A t \in Txs :
    pc[t] \notin {"closing", "done"} =>
      /\ \A n \in Nodes : todo[t][n] = {} /\ stage[t][n] = "idle"
      /\ \A k \in Keys : wver[t][k] = 0

\* Numbers that never run ahead of the counter or the database they are
\* read from.
Bounds ==
  /\ \A t \in Txs : startup[t] <= counter[node[t]]
  /\ \A t \in Txs, k \in Keys : wver[t][k] <= db[k]
  /\ \A n \in Nodes, k \in Keys :
       /\ cache[n][k].rev <= top[n][k]
       /\ cache[n][k].ver <= db[k]

\* Unless a bump was lost, the revision on record is the highest one ever.
RevisionIsTop ==
  \A n \in Nodes, k \in Keys :
    ~gap[n][k] /\ revisions[n][k] # NoRevision =>
      revisions[n][k] >= top[n][k]

\* A session may still add version v of key k: if v is outdated, then its
\* invalidation is pending, or has already recorded a revision above the
\* session's startupRevision, which addRevisioned will see.  A bump that
\* has drawn its counter value will record one above it, too.
Safe(t, k, v) ==
  LET n == node[t]
  IN  /\ v <= db[k]
      /\ v < db[k] => Pending(n, k, v) \/ startup[t] < top[n][k]
      /\ \A u \in Txs :
           stage[u][n] = "bumped" /\ ikey[u][n] = k /\ wver[u][k] > v =>
             startup[t] < inext[u][n]

Adding == {"add", "count", "record", "lock"}

ReadersSafe ==
  /\ \A t \in Txs : snapped[t] => pc[t] # "idle"
  /\ \A t \in Txs : snapped[t] => \A k \in Keys : Safe(t, k, snap[t][k])
  /\ \A t \in Txs : pc[t] \in Adding => Safe(t, key[t], val[t])

\* An outdated entry is about to be removed, or carries a revision that has
\* been overtaken (or a bump was lost).
EntriesSafe ==
  \A n \in Nodes, k \in Keys :
    cache[n][k] # NoEntry /\ cache[n][k].ver < db[k] =>
      \/ Pending(n, k, cache[n][k].ver)
      \/ gap[n][k]
      \/ cache[n][k].rev < top[n][k]

IInv ==
  /\ TypeOK
  /\ NothingPendingYet
  /\ Bounds
  /\ RevisionIsTop
  /\ ReadersSafe
  /\ EntriesSafe

\* An entry whose revision is below the one on record is not returned by
\* CacheManager.get, so an outdated hit is pending or falls under gap.
LEMMA IInvImpliesStaleOnlyWhilePending == IInv => StaleOnlyWhilePending
<1>. SUFFICES ASSUME IInv, NEW n \in Nodes, NEW k \in Keys, Stale(n, k),
                     ~gap[n][k]
              PROVE  Pending(n, k, cache[n][k].ver)
  BY DEF StaleOnlyWhilePending
<1>1. revisions[n][k] # NoRevision /\ revisions[n][k] <= cache[n][k].rev
  BY DEF Stale, Visible, Usable
<1>2. revisions[n][k] >= top[n][k]
  BY <1>1 DEF IInv, RevisionIsTop
<1>3. /\ revisions[n][k] \in Nat \cup {NoRevision}
      /\ cache[n][k].rev \in Int
      /\ top[n][k] \in Nat
  BY DEF IInv, TypeOK, Entry
<1>4. ~(cache[n][k].rev < top[n][k])
  BY <1>1, <1>2, <1>3 DEF NoRevision
<1>. QED
  BY <1>4 DEF IInv, EntriesSafe, Stale, Visible

\* With empty caches and no transaction there is nothing to be stale.
LEMMA InitIInv == Init => IInv
<1>. SUFFICES ASSUME Init PROVE IInv
  OBVIOUS
<1>1. TypeOK
  BY InitTypeOK
<1>2. NothingPendingYet
  BY DEF Init, NothingPendingYet
<1>3. Bounds
  BY DEF Init, Bounds, NoEntry
<1>4. RevisionIsTop
  BY DEF Init, RevisionIsTop
<1>5. ReadersSafe
  BY DEF Init, ReadersSafe, Adding
<1>6. EntriesSafe
  BY DEF Init, EntriesSafe
<1>. QED
  BY <1>1, <1>2, <1>3, <1>4, <1>5, <1>6 DEF IInv

\* Recording a revision never lowers the highest one seen.
LEMMA TopGrows ==
  ASSUME TypeOK, NEW n \in Nodes, NEW k \in Keys, NEW r \in Nat,
         PutRevision(n, k, r)
  PROVE  /\ \A m \in Nodes, j \in Keys : top'[m][j] >= top[m][j]
         /\ top'[n][k] >= r
         /\ revisions'[n][k] = r
         /\ \A m \in Nodes, j \in Keys :
              m # n \/ j # k => /\ top'[m][j] = top[m][j]
                                /\ revisions'[m][j] = revisions[m][j]
         /\ top'[n][k] = top[n][k] \/ top'[n][k] = r
  BY DEF TypeOK, PutRevision, Larger

\* Steps that touch neither the database, the counters, the workers nor the
\* revisions' history.
Quiet ==
  UNCHANGED <<db, counter, node, todo, stage, ikey, inext, wver, top, gap>>

\* Steps that only add a revision and leave the workers alone.
Adds(t) == AddRecord(t) \/ AddUnderLock(t)

\* The steps by what they do to the caches and to what is pending.
LEMMA StepKinds ==
  ASSUME Next
  PROVE  \/ Quiet
         \/ \E t \in Txs : Adds(t) \/ Commit(t) \/ Rollback(t)
         \/ \E t \in Txs, n \in Nodes : Invalidation(t, n)
<1>1. ASSUME NEW t \in Txs, Session(t)
      PROVE  Quiet \/ Adds(t) \/ Commit(t) \/ Rollback(t)
  BY <1>1
  DEF Session, Lookup, Adds, Quiet, PriorRead, Open, GetEntry, GetCheck,
      GetCurrentRevision, GetCurrentCounter, LoadFromDelegate, AddCheck, AddCounter, Write,
      SendInvalidationEvents, nodeVars, workerVars, historyVars
<1>2. ASSUME NEW n \in Nodes, Housekeeping(n) PROVE Quiet
  BY <1>2
  DEF Housekeeping, EvictObject, EvictRevision, ClearObjects, ClearRevisions,
      Quiet, sessionVars, workerVars, historyVars
<1>. QED
  BY <1>1, <1>2 DEF Next

\* What AddRecord and AddUnderLock leave alone; the history only grows.
LEMMA AddsFrame ==
  ASSUME TypeOK, NEW t \in Txs, Adds(t)
  PROVE  /\ UNCHANGED <<db, counter, node, todo, stage, ikey, inext, wver>>
         /\ UNCHANGED startup
         /\ \A m \in Nodes, j \in Keys : top'[m][j] >= top[m][j]
         /\ \A m \in Nodes, j \in Keys : gap[m][j] => gap'[m][j]
<1>1. /\ node[t] \in Nodes /\ key[t] \in Keys
      /\ cur[t] \in Nat /\ loaded[t] \in Nat
  BY DEF TypeOK
<1>2. CASE AddRecord(t)
  <2>1. \A m \in Nodes, j \in Keys : top'[m][j] >= top[m][j]
    BY <1>1, <1>2, TopGrows DEF AddRecord
  <2>2. \A m \in Nodes, j \in Keys : gap[m][j] => gap'[m][j]
    BY <1>1, <1>2 DEF AddRecord, TypeOK
  <2>. QED
    BY <1>2, <2>1, <2>2 DEF AddRecord, workerVars
<1>3. CASE AddUnderLock(t)
  <2>1. \A m \in Nodes, j \in Keys : top'[m][j] >= top[m][j]
    <3>1. CASE UNCHANGED <<revisions, cache, top>>
      BY <3>1 DEF TypeOK
    <3>2. CASE PutRevision(node[t], key[t], loaded[t])
      BY <1>1, <3>2, TopGrows
    <3>. QED
      BY <1>3, <3>1, <3>2 DEF AddUnderLock
  <2>. QED
    BY <1>3, <2>1 DEF AddUnderLock, workerVars
<1>. QED
  BY <1>2, <1>3 DEF Adds

\* A transaction that ends keeps what is pending, and makes the write of a
\* key pending on every node.
LEMMA EndFrame ==
  ASSUME IInv, NEW t \in Txs, Commit(t) \/ Rollback(t)
  PROVE  /\ UNCHANGED <<counter, node, startup, stage, ikey, inext, top, gap,
                        revisions, cache>>
         /\ \A n \in Nodes : stage[t][n] = "idle"
         /\ \A n \in Nodes, k \in Keys, v \in Int :
              Pending(n, k, v) =>
                \E u \in Txs : wver'[u][k] > v /\ k \in todo'[u][n]
         /\ \A k \in Keys :
              \/ db'[k] = db[k]
              \/ /\ db'[k] = db[k] + 1
                 /\ wver'[t][k] = db[k] + 1
                 /\ \A n \in Nodes : k \in todo'[t][n]
         /\ \A u \in Txs, k \in Keys :
              wver'[u][k] = wver[u][k] \/ (u = t /\ wver'[u][k] = db'[k])
<1>. USE DEF IInv, TypeOK
<1>1. pc[t] = "open" /\ StartInvalidations(t)
  BY DEF Commit, Rollback
<1>2. /\ UNCHANGED <<counter, node, startup, stage, ikey, inext, top, gap,
                     revisions, cache>>
      /\ todo' = [todo EXCEPT ![t] = [n \in Nodes |-> inval[t]]]
  BY <1>1 DEF StartInvalidations, nodeVars
<1>3. /\ \A n \in Nodes : todo[t][n] = {} /\ stage[t][n] = "idle"
      /\ \A k \in Keys : wver[t][k] = 0
  BY <1>1 DEF NothingPendingYet
<1>4. \A u \in Txs : u # t => wver'[u] = wver[u] /\ todo'[u] = todo[u]
  BY <1>2 DEF Commit, Rollback
<1>5. ASSUME NEW n \in Nodes, NEW k \in Keys, NEW v \in Int, Pending(n, k, v)
      PROVE  \E u \in Txs : wver'[u][k] > v /\ k \in todo'[u][n]
  <2>1. PICK u \in Txs : wver[u][k] > v /\ k \in todo[u][n]
    BY <1>5 DEF Pending
  <2>2. u # t
    BY <1>3, <2>1
  <2>. QED
    BY <1>4, <2>1, <2>2
<1>6. ASSUME NEW k \in Keys
      PROVE  /\ \/ db'[k] = db[k]
                \/ /\ db'[k] = db[k] + 1
                   /\ wver'[t][k] = db[k] + 1
                   /\ \A n \in Nodes : k \in todo'[t][n]
             /\ wver'[t][k] = wver[t][k] \/ wver'[t][k] = db'[k]
  <2>1. \A n \in Nodes : todo'[t][n] = inval[t]
    BY <1>2
  <2>2. CASE Rollback(t)
    BY <2>2 DEF Rollback
  <2>3. CASE Commit(t)
    <3>1. /\ db'[k] = IF k \in inval[t] THEN db[k] + 1 ELSE db[k]
          /\ wver'[t][k] = IF k \in inval[t] THEN db[k] + 1 ELSE 0
      BY <2>3 DEF Commit
    <3>. QED
      BY <1>3, <2>1, <3>1
  <2>. QED
    BY <2>2, <2>3
<1>7. \A u \in Txs, k \in Keys :
        wver'[u][k] = wver[u][k] \/ (u = t /\ wver'[u][k] = db'[k])
  <2>1. \A u \in Txs, k \in Keys : u # t => wver'[u][k] = wver[u][k]
    BY <1>4
  <2>2. \A k \in Keys : wver'[t][k] = wver[t][k] \/ wver'[t][k] = db'[k]
    BY <1>6
  <2>. HIDE DEF IInv, TypeOK
  <2>. QED
    BY <2>1, <2>2
<1>. HIDE DEF IInv, TypeOK
<1>. QED
  BY <1>2, <1>3, <1>5, <1>6, <1>7

\* What a session may add stays safe to add, whatever step is taken, as long
\* as its startupRevision stays.
LEMMA SafeStays ==
  ASSUME IInv, Next, NEW t \in Txs, NEW k \in Keys, NEW v \in Int,
         Safe(t, k, v), startup'[t] = startup[t]
  PROVE  Safe(t, k, v)'
<1>. DEFINE n == node[t]
<1>. USE DEF IInv
<1>0. /\ n \in Nodes /\ startup[t] \in Nat /\ db[k] \in Nat
      /\ top[n][k] \in Nat
  BY DEF TypeOK
<1>1. CASE Quiet
  BY <1>1 DEF Quiet, Safe, Pending
<1>2. ASSUME NEW u \in Txs, Adds(u) PROVE Safe(t, k, v)'
  <2>1. /\ UNCHANGED <<db, node, todo, stage, ikey, inext, wver>>
        /\ top'[n][k] >= top[n][k]
    BY <1>0, <1>2, AddsFrame
  <2>2. top'[n][k] \in Nat
    BY <1>0, <1>2, SessionTypeOK DEF TypeOK, Adds, Session, Lookup
  <2>. QED
    BY <1>0, <2>1, <2>2 DEF Safe, Pending
<1>3. ASSUME NEW u \in Txs, Commit(u) \/ Rollback(u) PROVE Safe(t, k, v)'
  <2>1. /\ UNCHANGED <<node, stage, ikey, inext, top>>
        /\ stage[u][n] = "idle"
        /\ Pending(n, k, v) =>
             \E w \in Txs : wver'[w][k] > v /\ k \in todo'[w][n]
    BY <1>0, <1>3, EndFrame
  <2>2. \/ db'[k] = db[k]
        \/ /\ db'[k] = db[k] + 1
           /\ wver'[u][k] = db[k] + 1
           /\ k \in todo'[u][n]
    BY <1>0, <1>3, EndFrame
  <2>3. \A w \in Txs : w # u => wver'[w][k] = wver[w][k]
    BY <1>3, EndFrame
  <2>4. v <= db'[k]
    BY <1>0, <2>2 DEF Safe
  <2>5. v < db'[k] =>
          \/ \E w \in Txs : wver'[w][k] > v /\ k \in todo'[w][n]
          \/ startup[t] < top[n][k]
    BY <1>0, <2>1, <2>2 DEF Safe
  <2>6. \A w \in Txs :
          stage'[w][n] = "bumped" /\ ikey'[w][n] = k /\ wver'[w][k] > v =>
            startup[t] < inext'[w][n]
    BY <2>1, <2>3 DEF Safe
  <2>. QED
    BY <2>1, <2>4, <2>5, <2>6 DEF Safe, Pending
<1>4. ASSUME NEW u \in Txs, NEW m \in Nodes, RemoveObject(u, m)
      PROVE  Safe(t, k, v)'
  <2>1. /\ UNCHANGED <<db, node, todo, inext, wver, top>>
        /\ \A w \in Txs : stage'[w][n] = "bumped" =>
             stage[w][n] = "bumped" /\ ikey'[w][n] = ikey[w][n]
    BY <1>0, <1>4 DEF RemoveObject, sessionVars, historyVars, TypeOK
  <2>. QED
    BY <2>1 DEF Safe, Pending
<1>5. ASSUME NEW u \in Txs, NEW m \in Nodes, NextCounter(u, m)
      PROVE  Safe(t, k, v)'
  <2>1. /\ UNCHANGED <<db, node, todo, ikey, wver, top>>
        /\ \A w \in Txs : stage'[w][n] = "bumped" =>
             \/ stage[w][n] = "bumped" /\ inext'[w][n] = inext[w][n]
             \/ inext'[w][n] = counter[n] + 1
    BY <1>0, <1>5 DEF NextCounter, sessionVars, historyVars, TypeOK
  <2>2. startup[t] < counter[n] + 1
    BY <1>0 DEF Bounds, TypeOK
  <2>. QED
    BY <2>1, <2>2 DEF Safe, Pending
<1>6. ASSUME NEW u \in Txs, NEW m \in Nodes, PutBump(u, m)
      PROVE  Safe(t, k, v)'
  <2>0. ikey[u][m] \in Keys /\ inext[u][m] \in Nat
    BY DEF TypeOK
  <2>1. /\ UNCHANGED <<db, node, wver>>
        /\ \A w \in Txs : stage'[w][n] = "bumped" =>
             /\ stage[w][n] = "bumped"
             /\ inext'[w][n] = inext[w][n]
             /\ ikey'[w][n] = ikey[w][n]
        /\ \A w \in Txs : k \in todo[w][n] =>
             k \in todo'[w][n] \/ (w = u /\ n = m /\ k = ikey[u][n])
    <3>1. UNCHANGED <<db, node, wver>>
      BY <1>6 DEF PutBump, sessionVars
    <3>2. /\ todo' = [todo EXCEPT ![u][m] = @ \ {ikey[u][m]}]
          /\ stage' = [stage EXCEPT ![u][m] = "idle"]
          /\ ikey' = [ikey EXCEPT ![u][m] = AnyKey]
          /\ inext' = [inext EXCEPT ![u][m] = 0]
      BY <1>6 DEF PutBump
    <3>3. \A w \in Txs : stage'[w][n] = "bumped" =>
            /\ stage[w][n] = "bumped"
            /\ w # u \/ n # m
      BY <1>0, <3>2 DEF TypeOK
    <3>4. \A w \in Txs : w # u \/ n # m =>
            /\ inext'[w][n] = inext[w][n]
            /\ ikey'[w][n] = ikey[w][n]
            /\ todo'[w][n] = todo[w][n]
      BY <1>0, <3>2 DEF TypeOK
    <3>5. todo'[u][m] = todo[u][m] \ {ikey[u][m]}
      BY <3>2 DEF TypeOK
    <3>. QED
      BY <1>0, <3>1, <3>3, <3>4, <3>5
  <2>2. /\ top'[n][k] >= top[n][k]
        /\ n = m /\ k = ikey[u][m] => top'[n][k] >= inext[u][m]
    BY <1>0, <1>6, <2>0, TopGrows DEF PutBump
  <2>3. top'[n][k] \in Nat
    BY <1>0, <1>6, InvalidationTypeOK DEF TypeOK, Invalidation
  <2>4. stage[u][m] = "bumped"
    BY <1>6 DEF PutBump
  <2>5. v < db[k] =>
          \/ \E w \in Txs : wver[w][k] > v /\ k \in todo'[w][n]
          \/ startup[t] < top'[n][k]
    BY <1>0, <2>0, <2>1, <2>2, <2>3, <2>4 DEF Safe, Pending
  <2>. QED
    BY <1>0, <2>1, <2>5 DEF Safe, Pending
<1>. QED
  BY <1>1, <1>2, <1>3, <1>4, <1>5, <1>6, StepKinds DEF Invalidation

\* What one step does to a session's snapshot: nothing, or it is taken from
\* the database as it is.
LEMMA SnapshotStep ==
  ASSUME IInv, Next, NEW t \in Txs, ~(EarlierReads /\ RepeatableRead)
  PROVE  /\ snapped'[t] =>
              \/ snapped[t] /\ snap'[t] = snap[t]
              \/ snap'[t] = db /\ db' = db
         /\ snapped'[t] => pc'[t] # "idle"
         /\ startup'[t] = startup[t] \/ ~snapped'[t]
<1>. USE DEF IInv, TypeOK
<1>1. ASSUME NEW u \in Txs, TakeSnapshot(u)
      PROVE  snapped'[t] => \/ snapped[t] /\ snap'[t] = snap[t]
                            \/ snap'[t] = db
  BY <1>1 DEF TakeSnapshot
<1>2. snapped[t] => pc[t] # "idle"
  BY DEF ReadersSafe
<1>3. ASSUME NEW u \in Txs, Open(u)
      PROVE  /\ UNCHANGED <<db, snap, snapped>>
             /\ pc'[t] # "idle" \/ pc'[t] = pc[t]
             /\ startup'[t] = startup[t] \/ pc[t] = "idle"
  BY <1>3 DEF Open
<1>4. ASSUME NEW u \in Txs, PriorRead(u) PROVE FALSE
  BY <1>4 DEF PriorRead
<1>5. ASSUME NEW u \in Txs, Session(u), ~Open(u), ~PriorRead(u)
      PROVE  /\ UNCHANGED startup
             /\ pc'[t] # "idle" \/ (pc'[t] = pc[t] /\ u # t)
  BY <1>5
  DEF Session, Lookup, GetEntry, GetCheck, GetCurrentRevision, GetCurrentCounter,
      LoadFromDelegate, AddCheck, AddCounter, AddRecord, AddUnderLock, Write, Commit,
      Rollback, StartInvalidations, SendInvalidationEvents, ReturnFromLookup
<1>6. ASSUME NEW u \in Txs, Session(u), ~Open(u), ~PriorRead(u)
      PROVE  \/ UNCHANGED <<snap, snapped>>
             \/ TakeSnapshot(u) /\ UNCHANGED db
  BY <1>6
  DEF Session, Lookup, GetEntry, GetCheck, GetCurrentRevision, GetCurrentCounter,
      LoadFromDelegate, AddCheck, AddCounter, AddRecord, AddUnderLock, Write, Commit,
      Rollback, StartInvalidations, SendInvalidationEvents
<1>7. ASSUME NEW u \in Txs, TakeSnapshot(u), u # t
      PROVE  snapped'[t] = snapped[t] /\ snap'[t] = snap[t]
  BY <1>7 DEF TakeSnapshot
<1>8. ASSUME \/ \E u \in Txs, n \in Nodes : Invalidation(u, n)
             \/ \E n \in Nodes : Housekeeping(n)
      PROVE  UNCHANGED <<pc, startup, snap, snapped>>
  BY <1>8
  DEF Invalidation, RemoveObject, NextCounter, PutBump, Housekeeping,
      EvictObject, EvictRevision, ClearObjects, ClearRevisions, sessionVars
<1>. HIDE DEF IInv, TypeOK
<1>9. ASSUME NEW u \in Txs, Session(u), ~Open(u)
      PROVE  /\ snapped'[t] =>
                  \/ snapped[t] /\ snap'[t] = snap[t]
                  \/ snap'[t] = db /\ db' = db
             /\ snapped'[t] => pc'[t] # "idle"
             /\ startup'[t] = startup[t] \/ ~snapped'[t]
  BY <1>1, <1>2, <1>4, <1>5, <1>6, <1>7, <1>9
<1>. QED
  BY <1>2, <1>3, <1>8, <1>9 DEF Next

\* What one step does to the version a session is about to add: nothing, or
\* it comes from the database or the session's snapshot.
LEMMA AddingStep ==
  ASSUME IInv, Next, NEW t \in Txs, pc'[t] \in Adding
  PROVE  /\ startup'[t] = startup[t]
         /\ \/ /\ pc[t] \in Adding
               /\ key'[t] = key[t] /\ val'[t] = val[t]
            \/ /\ key'[t] = key[t] /\ db' = db
               /\ \/ val'[t] = db[key[t]]
                  \/ snapped[t] /\ val'[t] = snap[t][key[t]]
<1>. USE DEF IInv, TypeOK, Adding
<1>1. ASSUME NEW u \in Txs, Session(u), u # t
      PROVE  /\ startup'[t] = startup[t]
             /\ pc'[t] = pc[t] /\ key'[t] = key[t] /\ val'[t] = val[t]
  BY <1>1
  DEF Session, Lookup, PriorRead, Open, GetEntry, GetCheck,
      GetCurrentRevision, GetCurrentCounter, LoadFromDelegate, AddCheck, AddCounter, AddRecord,
      AddUnderLock, Write, Commit, Rollback, StartInvalidations,
      SendInvalidationEvents, ReturnFromLookup, lookupVars
<1>2. CASE LoadFromDelegate(t)
  <2>1. pc'[t] = "open" \/ Cacheable(t)
    BY <1>2 DEF LoadFromDelegate, ReturnFromLookup
  <2>2. Cacheable(t) => /\ val' = [val EXCEPT ![t] = View(t, key[t])]
                        /\ key' = key
    BY <1>2 DEF LoadFromDelegate
  <2>3. key[t] \notin inval[t] /\ val'[t] = View(t, key[t]) /\ key' = key
    BY <2>1, <2>2 DEF Cacheable
  <2>4. db' = db /\ startup' = startup
    BY <1>2 DEF LoadFromDelegate
  <2>. QED
    BY <2>3, <2>4 DEF View
<1>3. CASE AddCheck(t) \/ AddCounter(t) \/ AddRecord(t)
  BY <1>3 DEF AddCheck, AddCounter, AddRecord, lookupVars
<1>4. CASE Session(t) /\ ~LoadFromDelegate(t) /\ ~AddCheck(t) /\ ~AddCounter(t) /\ ~AddRecord(t)
  BY <1>4
  DEF Session, Lookup, PriorRead, Open, GetEntry, GetCheck,
      GetCurrentRevision, GetCurrentCounter, AddUnderLock, Write, Commit, Rollback,
      StartInvalidations, SendInvalidationEvents, ReturnFromLookup
<1>5. ASSUME \/ \E u \in Txs, n \in Nodes : Invalidation(u, n)
             \/ \E n \in Nodes : Housekeeping(n)
      PROVE  UNCHANGED <<pc, startup, key, val>>
  BY <1>5
  DEF Invalidation, RemoveObject, NextCounter, PutBump, Housekeeping,
      EvictObject, EvictRevision, ClearObjects, ClearRevisions, sessionVars,
      lookupVars
<1>. HIDE DEF IInv, TypeOK, Adding
<1>. QED
  BY <1>1, <1>2, <1>3, <1>4, <1>5 DEF Next

\* Every step preserves the types.
LEMMA NextTypeOK == ASSUME TypeOK, Next PROVE TypeOK'
  BY SessionTypeOK, InvalidationTypeOK, HousekeepingTypeOK DEF Next

\* Invalidations are started by the end of a transaction only.
LEMMA NothingPendingYetStays ==
  ASSUME IInv, Next
  PROVE  NothingPendingYet'
<1>. USE DEF IInv, TypeOK
<1>. SUFFICES ASSUME NEW t \in Txs, pc'[t] \notin {"closing", "done"}
              PROVE  /\ \A n \in Nodes : todo'[t][n] = {}
                                         /\ stage'[t][n] = "idle"
                     /\ \A k \in Keys : wver'[t][k] = 0
  BY DEF NothingPendingYet
<1>1. ASSUME NEW u \in Txs, Session(u)
      PROVE  /\ pc[t] \notin {"closing", "done"}
             /\ todo'[t] = todo[t] /\ stage'[t] = stage[t]
             /\ wver'[t] = wver[t]
  <2>1. CASE u # t
    BY <1>1, <2>1
    DEF Session, Lookup, PriorRead, Open, GetEntry, GetCheck,
        GetCurrentRevision, GetCurrentCounter, LoadFromDelegate, AddCheck, AddCounter, AddRecord,
        AddUnderLock, Write, Commit, Rollback, StartInvalidations,
        SendInvalidationEvents, ReturnFromLookup, workerVars, historyVars
  <2>2. CASE u = t
    BY <1>1, <2>2
    DEF Session, Lookup, PriorRead, Open, GetEntry, GetCheck,
        GetCurrentRevision, GetCurrentCounter, LoadFromDelegate, AddCheck, AddCounter, AddRecord,
        AddUnderLock, Write, Commit, Rollback, StartInvalidations,
        SendInvalidationEvents, ReturnFromLookup, workerVars, historyVars
  <2>. QED
    BY <2>1, <2>2
<1>2. ASSUME NEW u \in Txs, NEW m \in Nodes, Invalidation(u, m)
      PROVE  /\ pc' = pc /\ wver' = wver
             /\ u # t => todo'[t] = todo[t] /\ stage'[t] = stage[t]
             /\ stage[u][m] # "idle" \/ pc[u] \in {"closing", "done"}
  BY <1>2
  DEF Invalidation, RemoveObject, NextCounter, PutBump, MayInvalidate,
      sessionVars, historyVars
<1>3. ASSUME NEW n \in Nodes, Housekeeping(n)
      PROVE  UNCHANGED <<pc, todo, stage, wver>>
  BY <1>3
  DEF Housekeeping, EvictObject, EvictRevision, ClearObjects, ClearRevisions,
      sessionVars, workerVars, historyVars
<1>. HIDE DEF TypeOK
<1>. QED
  BY <1>1, <1>2, <1>3 DEF Next, NothingPendingYet

\* What one step does to an entry: nothing, removal, or the entry of a
\* session that passed the checks of addRevisioned.
LEMMA EntryStep ==
  ASSUME IInv, Next, NEW n \in Nodes, NEW k \in Keys,
         cache'[n][k] # cache[n][k], cache'[n][k] # NoEntry
  PROVE  \E t \in Txs : /\ AddUnderLock(t)
                        /\ n = node[t] /\ k = key[t]
                        /\ ~Overtaken(revisions[n][k], t)
                        /\ PutRevision(n, k, loaded[t])
                        /\ cache'[n][k] = [ver |-> val[t], rev |-> loaded[t]]
<1>. USE DEF IInv, TypeOK
<1>1. ASSUME NEW t \in Txs, Session(t), ~AddUnderLock(t) PROVE cache' = cache
  BY <1>1
  DEF Session, Lookup, PriorRead, Open, GetEntry, GetCheck,
      GetCurrentRevision, GetCurrentCounter, LoadFromDelegate, AddCheck, AddCounter, AddRecord, Write,
      Commit, Rollback, StartInvalidations, SendInvalidationEvents, nodeVars
<1>2. ASSUME NEW t \in Txs, NEW m \in Nodes, Invalidation(t, m)
      PROVE  cache'[n][k] \in {cache[n][k], NoEntry}
  BY <1>2 DEF Invalidation, RemoveObject, NextCounter, PutBump
<1>3. ASSUME NEW m \in Nodes, Housekeeping(m)
      PROVE  cache'[n][k] \in {cache[n][k], NoEntry}
  BY <1>3
  DEF Housekeeping, EvictObject, EvictRevision, ClearObjects, ClearRevisions
<1>4. PICK t \in Txs : AddUnderLock(t)
  BY <1>1, <1>2, <1>3 DEF Next
<1>5. /\ ~Overtaken(revisions[node[t]][key[t]], t)
      /\ PutRevision(node[t], key[t], loaded[t])
      /\ cache' = [cache EXCEPT ![node[t]][key[t]] =
                     IF @ = NoEntry
                     THEN [ver |-> val[t], rev |-> loaded[t]] ELSE @]
  BY <1>4 DEF AddUnderLock
<1>6. n = node[t] /\ k = key[t]
  BY <1>5
<1>7. cache'[n][k] = [ver |-> val[t], rev |-> loaded[t]]
  BY <1>5, <1>6
<1>. QED
  BY <1>4, <1>5, <1>6, <1>7

\* Counters, versions and the highest revision only grow; a step that raises
\* a version makes its invalidation pending.
LEMMA Growth ==
  ASSUME IInv, Next, NEW n \in Nodes, NEW k \in Keys
  PROVE  /\ counter'[n] >= counter[n]
         /\ top'[n][k] >= top[n][k]
         /\ db'[k] >= db[k]
         /\ UNCHANGED node
         /\ \A t \in Txs : wver'[t][k] = wver[t][k] \/ wver'[t][k] = db'[k]
<1>. USE DEF IInv
<1>0. counter[n] \in Nat /\ top[n][k] \in Nat /\ db[k] \in Nat
  BY DEF TypeOK
<1>1. CASE Quiet
  BY <1>0, <1>1 DEF Quiet
<1>2. ASSUME NEW t \in Txs, Adds(t)
      PROVE  /\ UNCHANGED <<db, counter, node, wver>>
             /\ top'[n][k] >= top[n][k]
  BY <1>2, AddsFrame
<1>3. ASSUME NEW t \in Txs, Commit(t) \/ Rollback(t)
      PROVE  /\ UNCHANGED <<counter, node, top>>
             /\ db'[k] >= db[k]
             /\ \A u \in Txs :
                  wver'[u][k] = wver[u][k] \/ wver'[u][k] = db'[k]
  <2>1. \/ db'[k] = db[k]
        \/ db'[k] = db[k] + 1
    BY <1>3, EndFrame
  <2>2. db'[k] >= db[k]
    BY <1>0, <2>1
  <2>. QED
    BY <1>3, <2>2, EndFrame
<1>4. ASSUME NEW t \in Txs, NEW m \in Nodes, Invalidation(t, m)
      PROVE  /\ UNCHANGED <<db, node, wver>>
             /\ counter'[n] >= counter[n]
             /\ top'[n][k] >= top[n][k]
  <2>1. CASE RemoveObject(t, m)
    BY <1>0, <2>1 DEF RemoveObject, sessionVars, historyVars
  <2>2. CASE NextCounter(t, m)
    BY <1>0, <2>2 DEF NextCounter, sessionVars, historyVars, TypeOK
  <2>3. CASE PutBump(t, m)
    <3>1. ikey[t][m] \in Keys /\ inext[t][m] \in Nat
      BY DEF TypeOK
    <3>2. top'[n][k] >= top[n][k]
      BY <2>3, <3>1, TopGrows DEF PutBump
    <3>. QED
      BY <1>0, <2>3, <3>2 DEF PutBump, sessionVars
  <2>. QED
    BY <1>4, <2>1, <2>2, <2>3 DEF Invalidation
<1>. QED
  BY <1>0, <1>1, <1>2, <1>3, <1>4, StepKinds

\* Nothing is read from the future of a counter or of the database.
LEMMA BoundsStay ==
  ASSUME IInv, Next
  PROVE  Bounds'
<1>0. TypeOK'
  BY NextTypeOK DEF IInv
<1>1. ASSUME NEW t \in Txs PROVE startup'[t] <= counter'[node'[t]]
  <2>1. startup'[t] = startup[t] \/ startup'[t] = counter[node[t]]
    <3>1. ASSUME NEW u \in Txs, Session(u)
          PROVE  startup' = startup \/ Open(u)
      BY <3>1
      DEF Session, Lookup, PriorRead, GetEntry, GetCheck,
          GetCurrentRevision, GetCurrentCounter, LoadFromDelegate, AddCheck, AddCounter, AddRecord,
          AddUnderLock, Write, Commit, Rollback, StartInvalidations,
          SendInvalidationEvents
    <3>2. ASSUME NEW u \in Txs, Open(u)
          PROVE  startup'[t] = startup[t] \/ startup'[t] = counter[node[t]]
      BY <3>2 DEF Open, IInv, TypeOK
    <3>3. ASSUME \/ \E u \in Txs, n \in Nodes : Invalidation(u, n)
                 \/ \E n \in Nodes : Housekeeping(n)
          PROVE  startup' = startup
      BY <3>3
      DEF Invalidation, RemoveObject, NextCounter, PutBump, Housekeeping,
          EvictObject, EvictRevision, ClearObjects, ClearRevisions,
          sessionVars
    <3>. QED
      BY <3>1, <3>2, <3>3 DEF Next
  <2>2. /\ startup[t] <= counter[node[t]]
        /\ startup[t] \in Nat /\ counter[node[t]] \in Nat
        /\ node[t] \in Nodes
    BY DEF IInv, Bounds, TypeOK
  <2>3. counter'[node[t]] >= counter[node[t]] /\ node' = node
    <3>1. AnyKey \in Keys
      BY AnyKeyInKeys
    <3>. QED
      BY <2>2, <3>1, Growth
  <2>4. counter'[node[t]] \in Nat
    BY <1>0, <2>2 DEF TypeOK
  <2>. QED
    BY <2>1, <2>2, <2>3, <2>4
<1>2. ASSUME NEW t \in Txs, NEW k \in Keys PROVE wver'[t][k] <= db'[k]
  <2>1. db'[k] >= db[k] /\ (wver'[t][k] = wver[t][k] \/ wver'[t][k] = db'[k])
    <3>1. node[t] \in Nodes
      BY DEF IInv, TypeOK
    <3>. QED
      BY <3>1, Growth
  <2>2. wver[t][k] <= db[k] /\ wver[t][k] \in Nat /\ db[k] \in Nat
    BY DEF IInv, Bounds, TypeOK
  <2>3. db'[k] \in Nat
    BY <1>0 DEF TypeOK
  <2>. QED
    BY <2>1, <2>2, <2>3
<1>3. ASSUME NEW n \in Nodes, NEW k \in Keys
      PROVE  cache'[n][k].rev <= top'[n][k] /\ cache'[n][k].ver <= db'[k]
  <2>1. /\ top'[n][k] >= top[n][k] /\ db'[k] >= db[k]
        /\ top'[n][k] \in Nat /\ db'[k] \in Nat
        /\ top[n][k] \in Nat /\ db[k] \in Nat
    BY <1>0, Growth DEF IInv, TypeOK
  <2>2. /\ cache[n][k].rev <= top[n][k] /\ cache[n][k].ver <= db[k]
        /\ cache[n][k].rev \in Int /\ cache[n][k].ver \in Int
    BY DEF IInv, Bounds, TypeOK, Entry
  <2>3. CASE cache'[n][k] = cache[n][k]
    BY <2>1, <2>2, <2>3
  <2>4. CASE cache'[n][k] = NoEntry
    BY <2>1, <2>4 DEF NoEntry
  <2>5. CASE cache'[n][k] # cache[n][k] /\ cache'[n][k] # NoEntry
    <3>1. PICK t \in Txs :
            /\ AddUnderLock(t)
            /\ k = key[t]
            /\ PutRevision(n, k, loaded[t])
            /\ cache'[n][k] = [ver |-> val[t], rev |-> loaded[t]]
      BY <2>5, EntryStep
    <3>2. loaded[t] \in Nat /\ val[t] \in Int
      BY DEF IInv, TypeOK
    <3>3. top'[n][k] >= loaded[t]
      BY <3>1, <3>2, TopGrows DEF IInv
    <3>4. val[t] <= db[k]
      BY <3>1 DEF IInv, ReadersSafe, Safe, Adding, AddUnderLock
    <3>. QED
      BY <2>1, <3>1, <3>2, <3>3, <3>4
  <2>. QED
    BY <2>3, <2>4, <2>5
<1>. QED
  BY <1>1, <1>2, <1>3 DEF Bounds

\* addRevisioned and bumpVersion lower a key's revision only where gap says so.
LEMMA RevisionIsTopStays ==
  ASSUME IInv, Next
  PROVE  RevisionIsTop'
<1>. SUFFICES ASSUME NEW n \in Nodes, NEW k \in Keys,
                     ~gap'[n][k], revisions'[n][k] # NoRevision
              PROVE  revisions'[n][k] >= top'[n][k]
  BY DEF RevisionIsTop
<1>0. /\ TypeOK
      /\ ~gap[n][k] /\ revisions[n][k] # NoRevision =>
           revisions[n][k] >= top[n][k]
  BY DEF IInv, RevisionIsTop
<1>1. ASSUME NEW t \in Txs, AddRecord(t)
      PROVE  revisions'[n][k] >= top'[n][k]
  <2>1. node[t] \in Nodes /\ key[t] \in Keys /\ cur[t] \in Nat
    BY <1>0 DEF TypeOK
  <2>2. CASE n = node[t] /\ k = key[t]
    <3>1. ~(cur[t] < top[n][k]) /\ top[n][k] \in Nat
      BY <1>0, <1>1, <2>1, <2>2 DEF AddRecord, TypeOK
    <3>2. /\ revisions'[n][k] = cur[t]
          /\ top'[n][k] = top[n][k] \/ top'[n][k] = cur[t]
      BY <1>0, <1>1, <2>1, <2>2, TopGrows DEF AddRecord
    <3>. QED
      BY <2>1, <3>1, <3>2
  <2>3. CASE n # node[t] \/ k # key[t]
    <3>1. gap'[n][k] = gap[n][k]
      BY <1>0, <1>1, <2>1, <2>3 DEF AddRecord, TypeOK
    <3>. QED
      BY <1>0, <1>1, <2>1, <2>3, <3>1, TopGrows DEF AddRecord
  <2>. QED
    BY <2>2, <2>3
<1>2. ASSUME NEW t \in Txs, AddUnderLock(t)
      PROVE  revisions'[n][k] >= top'[n][k]
  <2>1. node[t] \in Nodes /\ key[t] \in Keys /\ loaded[t] \in Nat
    BY <1>0 DEF TypeOK
  <2>2. gap' = gap
    BY <1>2 DEF AddUnderLock
  <2>3. CASE UNCHANGED <<revisions, cache, top>>
    BY <1>0, <2>2, <2>3
  <2>4. CASE /\ ~Overtaken(revisions[node[t]][key[t]], t)
             /\ PutRevision(node[t], key[t], loaded[t])
    <3>1. CASE n = node[t] /\ k = key[t]
      <4>1. revisions[n][k] # NoRevision /\ ~(revisions[n][k] > loaded[t])
        BY <2>4, <3>1 DEF Overtaken
      <4>2. revisions[n][k] \in Nat /\ top[n][k] \in Nat
        BY <1>0, <4>1 DEF TypeOK
      <4>3. loaded[t] >= top[n][k]
        BY <1>0, <2>1, <2>2, <4>1, <4>2
      <4>4. /\ revisions'[n][k] = loaded[t]
            /\ top'[n][k] = top[n][k] \/ top'[n][k] = loaded[t]
        BY <1>0, <2>1, <2>4, <3>1, TopGrows
      <4>. QED
        BY <2>1, <4>2, <4>3, <4>4
    <3>2. CASE n # node[t] \/ k # key[t]
      BY <1>0, <2>1, <2>2, <2>4, <3>2, TopGrows
    <3>. QED
      BY <3>1, <3>2
  <2>. QED
    BY <1>2, <2>3, <2>4 DEF AddUnderLock
<1>3. ASSUME NEW t \in Txs, NEW m \in Nodes, PutBump(t, m)
      PROVE  revisions'[n][k] >= top'[n][k]
  <2>1. ikey[t][m] \in Keys /\ inext[t][m] \in Nat
    BY <1>0 DEF TypeOK
  <2>2. CASE n = m /\ k = ikey[t][m]
    <3>1. ~(inext[t][m] <= top[n][k]) /\ top[n][k] \in Nat
      BY <1>0, <1>3, <2>1, <2>2 DEF PutBump, TypeOK
    <3>2. /\ revisions'[n][k] = inext[t][m]
          /\ top'[n][k] = top[n][k] \/ top'[n][k] = inext[t][m]
      BY <1>0, <1>3, <2>1, <2>2, TopGrows DEF PutBump
    <3>. QED
      BY <2>1, <3>1, <3>2
  <2>3. CASE n # m \/ k # ikey[t][m]
    <3>1. gap'[n][k] = gap[n][k]
      BY <1>0, <1>3, <2>1, <2>3 DEF PutBump, TypeOK
    <3>. QED
      BY <1>0, <1>3, <2>1, <2>3, <3>1, TopGrows DEF PutBump
  <2>. QED
    BY <2>2, <2>3
<1>4. ASSUME NEW t \in Txs, Session(t), ~AddRecord(t), ~AddUnderLock(t)
      PROVE  UNCHANGED <<revisions, top, gap>>
  BY <1>4
  DEF Session, Lookup, PriorRead, Open, GetEntry, GetCheck,
      GetCurrentRevision, GetCurrentCounter, LoadFromDelegate, AddCheck, AddCounter, Write, Commit,
      Rollback, StartInvalidations, SendInvalidationEvents, nodeVars,
      historyVars
<1>5. ASSUME NEW t \in Txs, NEW m \in Nodes,
             RemoveObject(t, m) \/ NextCounter(t, m)
      PROVE  UNCHANGED <<revisions, top, gap>>
  BY <1>5 DEF RemoveObject, NextCounter, historyVars
<1>6. ASSUME NEW m \in Nodes, Housekeeping(m)
      PROVE  /\ UNCHANGED <<top, gap>>
             /\ revisions'[n][k] \in {revisions[n][k], NoRevision}
  BY <1>0, <1>6
  DEF Housekeeping, EvictObject, EvictRevision, ClearObjects, ClearRevisions,
      historyVars, TypeOK
<1>. QED
  BY <1>0, <1>1, <1>2, <1>3, <1>4, <1>5, <1>6 DEF Next, Invalidation

\* A version read after startupRevision was taken stays safe to add, or is
\* rejected by addRevisioned.
LEMMA ReadersSafeStay ==
  ASSUME IInv, Next, ~(EarlierReads /\ RepeatableRead)
  PROVE  ReadersSafe'
<1>0. TypeOK /\ TypeOK' /\ Bounds'
  BY NextTypeOK, BoundsStay DEF IInv
<1>1. ASSUME NEW t \in Txs, NEW k \in Keys, db' = db
      PROVE  /\ db[k] <= db'[k]
             /\ ~(db[k] < db'[k])
             /\ \A u \in Txs : ~(wver'[u][k] > db[k])
  BY <1>0, <1>1 DEF Bounds, TypeOK
<1>2. ASSUME NEW t \in Txs, NEW k \in Keys, snapped'[t]
      PROVE  Safe(t, k, snap[t][k])'
  <2>1. startup'[t] = startup[t]
    BY <1>2, SnapshotStep
  <2>2. CASE snapped[t] /\ snap'[t] = snap[t]
    <3>1. Safe(t, k, snap[t][k]) /\ snap[t][k] \in Int
      BY <1>0, <2>2 DEF IInv, ReadersSafe, TypeOK
    <3>. QED
      BY <2>1, <2>2, <3>1, SafeStays DEF Safe, Pending
  <2>3. CASE snap'[t] = db /\ db' = db
    BY <1>1, <2>3 DEF Safe
  <2>. QED
    BY <1>2, <2>2, <2>3, SnapshotStep
<1>3. ASSUME NEW t \in Txs, pc'[t] \in Adding
      PROVE  Safe(t, key[t], val[t])'
  <2>0. key[t] \in Keys /\ val[t] \in Int
    BY <1>0 DEF TypeOK
  <2>1. startup'[t] = startup[t] /\ key'[t] = key[t]
    BY <1>3, AddingStep
  <2>2. CASE pc[t] \in Adding /\ val'[t] = val[t]
    <3>1. Safe(t, key[t], val[t])
      BY <2>2 DEF IInv, ReadersSafe
    <3>. QED
      BY <2>0, <2>1, <2>2, <3>1, SafeStays DEF Safe, Pending
  <2>3. CASE val'[t] = db[key[t]] /\ db' = db
    BY <1>1, <2>0, <2>1, <2>3 DEF Safe
  <2>4. CASE snapped[t] /\ val'[t] = snap[t][key[t]]
    <3>1. Safe(t, key[t], snap[t][key[t]]) /\ snap[t][key[t]] \in Int
      BY <1>0, <2>0, <2>4 DEF IInv, ReadersSafe, TypeOK
    <3>. QED
      BY <2>0, <2>1, <2>4, <3>1, SafeStays DEF Safe, Pending
  <2>. QED
    BY <1>3, <2>2, <2>3, <2>4, AddingStep
<1>. QED
  BY <1>2, <1>3, SnapshotStep DEF ReadersSafe

\* An outdated entry that stays in the cache stays safe.
LEMMA OldEntrySafe ==
  ASSUME IInv, Next, NEW n \in Nodes, NEW k \in Keys,
         cache'[n][k] = cache[n][k], cache[n][k] # NoEntry,
         cache[n][k].ver < db'[k]
  PROVE  \/ \E u \in Txs : /\ wver'[u][k] > cache[n][k].ver
                           /\ k \in todo'[u][n]
         \/ gap'[n][k]
         \/ cache[n][k].rev < top'[n][k]
<1>. DEFINE ver == cache[n][k].ver
            rev == cache[n][k].rev
            Safe1 == \/ \E u \in Txs : wver'[u][k] > ver /\ k \in todo'[u][n]
                     \/ gap'[n][k]
                     \/ rev < top'[n][k]
<1>0. /\ TypeOK
      /\ ver \in Int /\ rev \in Int /\ db[k] \in Nat /\ top[n][k] \in Nat
      /\ ver <= db[k] /\ rev <= top[n][k]
  BY DEF IInv, TypeOK, Entry, Bounds
<1>1. ver < db[k] => Pending(n, k, ver) \/ gap[n][k] \/ rev < top[n][k]
  BY DEF IInv, EntriesSafe
<1>. HIDE DEF ver, rev
<1>2. ASSUME Quiet PROVE Safe1
  BY <1>1, <1>2 DEF Quiet, Pending, ver
<1>3. ASSUME NEW t \in Txs, Adds(t) PROVE Safe1
  <2>1. /\ UNCHANGED <<db, todo, wver>>
        /\ top'[n][k] >= top[n][k]
        /\ gap[n][k] => gap'[n][k]
    BY <1>0, <1>3, AddsFrame
  <2>2. top'[n][k] \in Nat
    BY NextTypeOK DEF IInv, TypeOK
  <2>. QED
    BY <1>0, <1>1, <2>1, <2>2 DEF Pending, ver
<1>4. ASSUME NEW t \in Txs, Commit(t) \/ Rollback(t) PROVE Safe1
  <2>1. CASE ver < db[k]
    <3>1. /\ UNCHANGED <<top, gap>>
          /\ Pending(n, k, ver) =>
               \E u \in Txs : wver'[u][k] > ver /\ k \in todo'[u][n]
      BY <1>0, <1>4, EndFrame
    <3>. QED
      BY <1>1, <2>1, <3>1
  <2>2. CASE ~(ver < db[k])
    <3>1. \/ db'[k] = db[k]
          \/ /\ db'[k] = db[k] + 1
             /\ wver'[t][k] = db[k] + 1
             /\ k \in todo'[t][n]
      BY <1>4, EndFrame
    <3>. QED
      BY <1>0, <2>2, <3>1 DEF ver
  <2>. QED
    BY <2>1, <2>2
<1>5. ASSUME NEW t \in Txs, NEW m \in Nodes,
             RemoveObject(t, m) \/ NextCounter(t, m)
      PROVE  Safe1
  <2>1. UNCHANGED <<db, todo, wver, top, gap>>
    BY <1>5 DEF RemoveObject, NextCounter, historyVars
  <2>. QED
    BY <1>1, <2>1 DEF Pending, ver
<1>6. ASSUME NEW t \in Txs, NEW m \in Nodes, PutBump(t, m) PROVE Safe1
  <2>1. ikey[t][m] \in Keys /\ inext[t][m] \in Nat
    BY <1>0 DEF TypeOK
  <2>2. CASE n = m /\ k = ikey[t][m]
    <3>1. top'[n][k] >= inext[t][m] /\ top'[n][k] \in Nat
      BY <1>0, <1>6, <2>1, <2>2, TopGrows, PutRevisionType DEF PutBump
    <3>2. gap'[n][k] \/ ~(inext[t][m] <= top[n][k])
      BY <1>0, <1>6, <2>1, <2>2 DEF PutBump, TypeOK
    <3>. QED
      BY <1>0, <2>1, <3>1, <3>2
  <2>3. CASE n # m \/ k # ikey[t][m]
    <3>1. /\ UNCHANGED <<db, wver>>
          /\ gap'[n][k] = gap[n][k]
          /\ \A u \in Txs : k \in todo[u][n] => k \in todo'[u][n]
      BY <1>0, <1>6, <2>1, <2>3 DEF PutBump, TypeOK
    <3>2. top'[n][k] = top[n][k]
      BY <1>0, <1>6, <2>1, <2>3, TopGrows DEF PutBump
    <3>. QED
      BY <1>1, <3>1, <3>2 DEF Pending, ver
  <2>. QED
    BY <2>2, <2>3
<1>. QED
  BY <1>2, <1>3, <1>4, <1>5, <1>6, StepKinds DEF Invalidation, ver, rev

\* An entry is added only when its version is safe, and an entry that becomes
\* outdated has its invalidation pending.
LEMMA EntriesSafeStay ==
  ASSUME IInv, Next
  PROVE  EntriesSafe'
<1>. SUFFICES ASSUME NEW n \in Nodes, NEW k \in Keys,
                     cache'[n][k] # NoEntry, cache'[n][k].ver < db'[k]
              PROVE  \/ \E u \in Txs : /\ wver'[u][k] > cache'[n][k].ver
                                       /\ k \in todo'[u][n]
                     \/ gap'[n][k]
                     \/ cache'[n][k].rev < top'[n][k]
  BY DEF EntriesSafe, Pending
<1>1. CASE cache'[n][k] = cache[n][k]
  BY <1>1, OldEntrySafe
<1>2. CASE cache'[n][k] # cache[n][k]
  <2>1. PICK t \in Txs :
          /\ AddUnderLock(t)
          /\ n = node[t] /\ k = key[t]
          /\ ~Overtaken(revisions[n][k], t)
          /\ cache'[n][k] = [ver |-> val[t], rev |-> loaded[t]]
    BY <1>2, EntryStep
  <2>2. UNCHANGED <<db, todo, wver, gap>>
    BY <2>1 DEF AddUnderLock, workerVars
  <2>3. val[t] < db[k] => Pending(n, k, val[t]) \/ startup[t] < top[n][k]
    BY <2>1 DEF IInv, ReadersSafe, Safe, Adding, AddUnderLock
  <2>4. /\ revisions[n][k] # NoRevision
        /\ ~(revisions[n][k] > startup[t])
    BY <2>1 DEF Overtaken
  <2>5. gap[n][k] \/ revisions[n][k] >= top[n][k]
    BY <2>4 DEF IInv, RevisionIsTop
  <2>6. revisions[n][k] \in Nat /\ startup[t] \in Nat /\ top[n][k] \in Nat
    BY <2>4 DEF IInv, TypeOK
  <2>7. Pending(n, k, val[t]) \/ gap[n][k]
    BY <2>1, <2>2, <2>3, <2>4, <2>5, <2>6
  <2>. QED
    BY <2>1, <2>2, <2>7 DEF Pending
<1>. QED
  BY <1>1, <1>2

\* A cache hit is never older than the last write whose invalidation has
\* completed on that node (CacheManager.addRevisioned and invalidateObject),
\* except after a lost bump - for every number of nodes, keys and sessions,
\* provided the cache session is opened before the transaction's snapshot.
THEOREM StaleHitsArePending ==
  ASSUME ~(EarlierReads /\ RepeatableRead)
  PROVE  Spec => []StaleOnlyWhilePending
<1>1. IInv /\ [Next]_vars => IInv'
  <2>. SUFFICES ASSUME IInv, [Next]_vars PROVE IInv'
    OBVIOUS
  <2>1. CASE Next
    BY <2>1, NextTypeOK, NothingPendingYetStays, BoundsStay,
       RevisionIsTopStays, ReadersSafeStay, EntriesSafeStay DEF IInv
  <2>2. CASE UNCHANGED vars
    BY <2>2
    DEF IInv, TypeOK, NothingPendingYet, Bounds, RevisionIsTop, ReadersSafe,
        Safe, EntriesSafe, Pending, vars, nodeVars, sessionVars, lookupVars,
        workerVars, historyVars
  <2>. QED
    BY <2>1, <2>2
<1>. QED
  BY <1>1, InitIInv, IInvImpliesStaleOnlyWhilePending, PTL DEF Spec

---------------------------------------------------------------------------
(* Only committed rows are cached, whatever the isolation of the database. *)

Committed(k, v) == v \in (1 .. db[k]) \ Rowless

\* What has been read, by way of a snapshot or not, has been committed.
RowsInv ==
  /\ \A k \in Keys : db[k] >= 1
  /\ \A t \in Txs, k \in Keys : snapped[t] => snap[t][k] \in 1 .. db[k]
  /\ \A t \in Txs : pc[t] \in Adding => Committed(key[t], val[t])
  /\ \A n \in Nodes, k \in Keys : cache[n][k] # NoEntry => Committed(k, cache[n][k].ver)

\* Versions only grow, so what was committed stays committed.
LEMMA VersionsGrow ==
  ASSUME TypeOK, Next
  PROVE  \A k \in Keys : db[k] \in Nat /\ db'[k] \in Nat /\ db'[k] >= db[k]
<1>1. db' = db \/ \E t \in Txs : Commit(t)
  BY DEF Next, Session, Lookup, PriorRead, Open, GetEntry, GetCheck, GetCurrentRevision, GetCurrentCounter,
         LoadFromDelegate, AddCheck, AddCounter, AddRecord, AddUnderLock, Write, Rollback,
         SendInvalidationEvents, Invalidation, RemoveObject, NextCounter, PutBump,
         Housekeeping, EvictObject, EvictRevision, ClearObjects, ClearRevisions
<1>2. ASSUME NEW t \in Txs, Commit(t), NEW k \in Keys
      PROVE  db'[k] = db[k] \/ db'[k] = db[k] + 1
  BY <1>2 DEF Commit
<1>3. \A k \in Keys : db[k] \in Nat
  BY DEF TypeOK
<1>. QED
  BY <1>1, <1>2, <1>3

\* A snapshot holds the versions of the moment it is taken.
LEMMA SnapshotsCommitted ==
  ASSUME TypeOK, RowsInv, Next, NEW t \in Txs, snapped'[t]
  PROVE  \A k \in Keys : snap'[t][k] \in 1 .. db'[k]
<1>1. \/ snapped'[t] = snapped[t] /\ snap'[t] = snap[t]
      \/ snap'[t] = db
  <2>1. ASSUME NEW u \in Txs, Session(u)
        PROVE  UNCHANGED <<snap, snapped>> \/ TakeSnapshot(u)
    BY <2>1
    DEF Session, Lookup, PriorRead, Open, GetEntry, GetCheck, GetCurrentRevision, GetCurrentCounter,
        LoadFromDelegate, AddCheck, AddCounter, AddRecord, AddUnderLock, Write, Commit, Rollback,
        StartInvalidations, SendInvalidationEvents
  <2>2. ASSUME \/ \E u \in Txs, n \in Nodes : Invalidation(u, n)
               \/ \E n \in Nodes : Housekeeping(n)
        PROVE  UNCHANGED <<snap, snapped>>
    BY <2>2
    DEF Invalidation, RemoveObject, NextCounter, PutBump, Housekeeping,
        EvictObject, EvictRevision, ClearObjects, ClearRevisions, sessionVars
  <2>3. ASSUME NEW u \in Txs, TakeSnapshot(u)
        PROVE  (snapped'[t] = snapped[t] /\ snap'[t] = snap[t]) \/ snap'[t] = db
    BY <2>3 DEF TakeSnapshot, TypeOK
  <2>. QED
    BY <2>1, <2>2, <2>3 DEF Next
<1>2. \A k \in Keys : /\ db[k] \in Nat /\ db'[k] \in Nat /\ db'[k] >= db[k] /\ db[k] >= 1
                      /\ snap[t][k] \in Nat
  BY VersionsGrow DEF RowsInv, TypeOK
<1>3. CASE snapped'[t] = snapped[t] /\ snap'[t] = snap[t]
  BY <1>2, <1>3 DEF RowsInv
<1>4. CASE snap'[t] = db
  BY <1>2, <1>4
<1>. QED
  BY <1>1, <1>3, <1>4

\* What a session goes on to cache is a committed row: not what it has written.
LEMMA ReadsCommitted ==
  ASSUME TypeOK, RowsInv, Next, NEW t \in Txs, pc'[t] \in Adding
  PROVE  Committed(key[t], val'[t]) /\ key'[t] = key[t]
<1>. USE DEF TypeOK, Adding
<1>1. ASSUME NEW u \in Txs, Session(u), u # t
      PROVE  pc'[t] = pc[t] /\ key'[t] = key[t] /\ val'[t] = val[t]
  BY <1>1
  DEF Session, Lookup, PriorRead, Open, GetEntry, GetCheck,
      GetCurrentRevision, GetCurrentCounter, LoadFromDelegate, AddCheck, AddCounter, AddRecord,
      AddUnderLock, Write, Commit, Rollback, StartInvalidations,
      SendInvalidationEvents, ReturnFromLookup, lookupVars
<1>2. CASE LoadFromDelegate(t)
  <2>1. Cacheable(t) /\ val' = [val EXCEPT ![t] = View(t, key[t])] /\ key' = key
    BY <1>2 DEF LoadFromDelegate, ReturnFromLookup
  <2>2. /\ View(t, key[t]) \notin Rowless /\ val'[t] = View(t, key[t])
        /\ View(t, key[t]) = IF snapped[t] THEN snap[t][key[t]] ELSE db[key[t]]
    BY <2>1 DEF Cacheable, View
  <2>3. View(t, key[t]) \in 1 .. db[key[t]]
    <3>1. key[t] \in Keys /\ db[key[t]] \in Nat /\ db[key[t]] >= 1
      BY DEF RowsInv
    <3>2. db[key[t]] \in 1 .. db[key[t]]
      BY <3>1
    <3>3. snapped[t] => snap[t][key[t]] \in 1 .. db[key[t]]
      BY <3>1 DEF RowsInv
    <3>. QED
      BY <2>2, <3>2, <3>3
  <2>. QED
    BY <2>1, <2>2, <2>3 DEF Committed
<1>3. CASE \/ AddCheck(t) \/ AddCounter(t) \/ AddRecord(t)
           \/ pc'[t] = pc[t] /\ key'[t] = key[t] /\ val'[t] = val[t]
  BY <1>3 DEF AddCheck, AddCounter, AddRecord, lookupVars, RowsInv
<1>4. CASE Session(t) /\ ~LoadFromDelegate(t) /\ ~AddCheck(t) /\ ~AddCounter(t) /\ ~AddRecord(t)
  BY <1>4, <1>3
  DEF Session, Lookup, PriorRead, Open, GetEntry, GetCheck,
      GetCurrentRevision, GetCurrentCounter, AddUnderLock, Write, Commit, Rollback,
      StartInvalidations, SendInvalidationEvents, ReturnFromLookup, lookupVars
<1>5. ASSUME \/ \E u \in Txs, n \in Nodes : Invalidation(u, n)
             \/ \E n \in Nodes : Housekeeping(n)
      PROVE  UNCHANGED <<pc, key, val>>
  BY <1>5
  DEF Invalidation, RemoveObject, NextCounter, PutBump, Housekeeping,
      EvictObject, EvictRevision, ClearObjects, ClearRevisions, sessionVars,
      lookupVars
<1>. HIDE DEF TypeOK, Adding
<1>. QED
  BY <1>1, <1>2, <1>3, <1>4, <1>5 DEF Next

\* An entry is new only when putForExternalRead has put what a session read.
LEMMA EntriesCommitted ==
  ASSUME TypeOK, RowsInv, Next, NEW n \in Nodes, NEW k \in Keys, cache'[n][k] # NoEntry
  PROVE  cache'[n][k].ver \in Int /\ Committed(k, cache'[n][k].ver)
<1>1. \/ cache'[n][k] \in {NoEntry, cache[n][k]}
      \/ \E t \in Txs : AddUnderLock(t)
  <2>1. ASSUME NEW t \in Txs, Session(t), ~AddUnderLock(t) PROVE cache' = cache
    BY <2>1
    DEF Session, Lookup, PriorRead, Open, GetEntry, GetCheck, GetCurrentRevision, GetCurrentCounter,
        LoadFromDelegate, AddCheck, AddCounter, AddRecord, Write, Commit, Rollback,
        StartInvalidations, SendInvalidationEvents, nodeVars
  <2>2. ASSUME \/ \E u \in Txs, m \in Nodes : Invalidation(u, m)
               \/ \E m \in Nodes : Housekeeping(m)
        PROVE  cache'[n][k] \in {NoEntry, cache[n][k]}
    <3>1. ASSUME NEW m \in Nodes, NEW j \in Keys, cache' = [cache EXCEPT ![m][j] = NoEntry]
          PROVE  cache'[n][k] \in {NoEntry, cache[n][k]}
      BY <3>1 DEF TypeOK
    <3>2. ASSUME NEW u \in Txs, NEW m \in Nodes, Invalidation(u, m)
          PROVE  \/ cache' = cache
                 \/ \E j \in Keys : cache' = [cache EXCEPT ![m][j] = NoEntry]
      <4>1. todo[u][m] \subseteq Keys
        BY DEF TypeOK
      <4>2. RemoveObject(u, m) => \E j \in todo[u][m] : cache' = [cache EXCEPT ![m][j] = NoEntry]
        BY DEF RemoveObject
      <4>3. NextCounter(u, m) \/ PutBump(u, m) => cache' = cache
        BY DEF NextCounter, PutBump
      <4>. QED
        BY <3>2, <4>1, <4>2, <4>3 DEF Invalidation
    <3>3. ASSUME NEW m \in Nodes, Housekeeping(m)
          PROVE  \/ cache' = cache
                 \/ \E j \in Keys : cache' = [cache EXCEPT ![m][j] = NoEntry]
                 \/ cache' = [cache EXCEPT ![m] = [j \in Keys |-> NoEntry]]
      BY <3>3 DEF Housekeeping, EvictObject, EvictRevision, ClearObjects, ClearRevisions
    <3>4. ASSUME NEW m \in Nodes, cache' = [cache EXCEPT ![m] = [j \in Keys |-> NoEntry]]
          PROVE  cache'[n][k] \in {NoEntry, cache[n][k]}
      BY <3>4 DEF TypeOK
    <3>. QED
      BY <2>2, <3>1, <3>2, <3>3, <3>4
  <2>. QED
    BY <2>1, <2>2 DEF Next
<1>2. CASE cache'[n][k] \in {NoEntry, cache[n][k]}
  BY <1>2 DEF RowsInv, TypeOK, Entry
<1>3. ASSUME NEW t \in Txs, AddUnderLock(t)
      PROVE  cache'[n][k].ver \in Int /\ Committed(k, cache'[n][k].ver)
  <2>1. Committed(key[t], val[t]) /\ val[t] \in Int
    BY <1>3 DEF AddUnderLock, RowsInv, Adding, TypeOK
  <2>2. \/ cache' = cache
        \/ cache' = [cache EXCEPT ![node[t]][key[t]] =
                       IF @ = NoEntry THEN [ver |-> val[t], rev |-> loaded[t]] ELSE @]
    BY <1>3 DEF AddUnderLock
  <2>3. \/ cache'[n][k] = cache[n][k]
        \/ k = key[t] /\ cache'[n][k].ver = val[t]
    <3>1. node[t] \in Nodes /\ key[t] \in Keys /\ cache \in [Nodes -> [Keys -> Entry]]
      BY DEF TypeOK
    <3>. DEFINE e == IF cache[node[t]][key[t]] = NoEntry
                     THEN [ver |-> val[t], rev |-> loaded[t]] ELSE cache[node[t]][key[t]]
    <3>2. cache' = cache \/ cache' = [cache EXCEPT ![node[t]][key[t]] = e]
      BY <2>2
    <3>3. e = cache[node[t]][key[t]] \/ e.ver = val[t]
      OBVIOUS
    <3>. HIDE DEF e
    <3>. QED
      BY <3>1, <3>2, <3>3
  <2>. QED
    BY <1>2, <2>1, <2>3
<1>. QED
  BY <1>1, <1>2, <1>3

\* Nothing a transaction has not committed, and nothing that is not a row, is
\* found in the cache, even after an earlier read under repeatable read.
THEOREM CachedRowsAreCommitted == Spec => []OnlyCommittedRowsCached
<1>1. Init => TypeOK /\ RowsInv
  <2>. SUFFICES ASSUME Init PROVE RowsInv
    BY InitTypeOK
  <2>. QED
    BY DEF Init, RowsInv, Adding
<1>2. TypeOK /\ RowsInv /\ [Next]_vars => (TypeOK /\ RowsInv)'
  <2>. SUFFICES ASSUME TypeOK, RowsInv, [Next]_vars PROVE (TypeOK /\ RowsInv)'
    OBVIOUS
  <2>1. CASE Next
    <3>0. TypeOK'
      BY <2>1, NextTypeOK
    <3>1. \A k \in Keys : db'[k] >= 1
      BY <2>1, VersionsGrow DEF RowsInv
    <3>2. \A t \in Txs, k \in Keys : snapped'[t] => snap'[t][k] \in 1 .. db'[k]
      BY <2>1, SnapshotsCommitted
    <3>3. ASSUME NEW t \in Txs, pc'[t] \in Adding
          PROVE  Committed(key[t], val[t])'
      <4>1. Committed(key[t], val'[t]) /\ key'[t] = key[t]
        BY <2>1, <3>3, ReadsCommitted
      <4>2. key[t] \in Keys /\ val'[t] \in Int
        BY <3>0 DEF TypeOK
      <4>3. /\ db[key[t]] \in Nat /\ db'[key[t]] \in Nat /\ db'[key[t]] >= db[key[t]]
        BY <2>1, <4>2, VersionsGrow
      <4>. QED
        BY <4>1, <4>2, <4>3 DEF Committed
    <3>4. ASSUME NEW n \in Nodes, NEW k \in Keys, cache'[n][k] # NoEntry
          PROVE  Committed(k, cache[n][k].ver)'
      <4>1. cache'[n][k].ver \in Int /\ Committed(k, cache'[n][k].ver)
        BY <2>1, <3>4, EntriesCommitted
      <4>2. /\ db[k] \in Nat /\ db'[k] \in Nat /\ db'[k] >= db[k]
        BY <2>1, VersionsGrow
      <4>. QED
        BY <4>1, <4>2 DEF Committed
    <3>5. RowsInv'
      BY <3>1, <3>2, <3>3, <3>4 DEF RowsInv
    <3>. QED
      BY <3>0, <3>5
  <2>2. CASE UNCHANGED vars
    BY <2>2
    DEF TypeOK, RowsInv, Committed, vars, nodeVars, sessionVars, lookupVars, workerVars,
        historyVars
  <2>. QED
    BY <2>1, <2>2
<1>3. RowsInv => OnlyCommittedRowsCached
  BY DEF RowsInv, OnlyCommittedRowsCached, Committed
<1>. QED
  BY <1>1, <1>2, <1>3, PTL DEF Spec

=============================================================================

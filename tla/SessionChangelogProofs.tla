------------------------ MODULE SessionChangelogProofs ------------------------
(***************************************************************************)
(* SessionChangelog implements SessionStore, for any transactions on any    *)
(* node and any number of retries; an update is dropped only after it has   *)
(* lost that many races, and run again only after it has lost one.          *)
(***************************************************************************)
EXTENDS SessionChangelog, FiniteSetTheorems, TLAPS

Changed == {u \in Txs : pc[u] = "changed"}

\* The committed changes that the entity n shows.
Seen(n) == {u \in Changed : Shows(n, u)}

\* The name of an entity or a version that has been published.
Settled(n) == n = First \/ (n \in Txs /\ pc[n] \in {"changed", "touched"})

Working(t) == pc[t] \in {"active", "replace"}

Creating(t) == pc[t] = "active" /\ \E k \in DOMAIN tasks[t] : tasks[t][k] = "ADD_IF_ABSENT"

\* The tasks that have been run on the entity at hand.
Replaces(s) == {k \in DOMAIN s : s[k] = "REPLACE"}
Due(t) == IF pc[t] = "active" THEN Replaces(tasks[t]) ELSE ChildUpdates(tasks[t])

\* The entry is not one of a running transaction.
CacheSettled == cache # Absent => Settled(cache.version) /\ Settled(cache.entity)

\* A transaction works on an entity of its own or on a published one.
OwnOrSettled ==
    \A t \in Txs : Working(t) =>
        /\ entity[t] = t \/ Settled(entity[t])
        /\ version[t] = t \/ Settled(version[t])

\* If the version read is still the current one, no committed change is missing.
SameCommitted ==
    \A t \in Txs : Working(t) /\ cache # Absent /\ cache.version = version[t] =>
        Seen(entity[t]) = Seen(cache.entity)

\* The updates have been run on the entity that is to be published.
UpdatesRun ==
    \A t \in Txs : Working(t) => \A k \in Due(t) : heap[entity[t]][t][k] > 0

\* A new entity has seen no updates but those of its transaction.
NewEntity ==
    \A t \in Txs : Creating(t) =>
        /\ entity[t] = t /\ version[t] = t
        /\ \A u \in Txs \ {t} : \A k \in 1..MaxTasks : heap[t][u][k] = 0

TasksInv ==
    \A t \in Txs :
        /\ Len(tasks[t]) <= MaxTasks
        /\ pc[t] = "open" => tasks[t] = <<>>
        /\ pc[t] = "changed" => Changes(t)

Inv ==
    /\ TypeOK /\ CacheSettled /\ OwnOrSettled /\ SameCommitted
    /\ UpdatesRun /\ NewEntity /\ TasksInv

-----------------------------------------------------------------------------
\* The merged update keeps some of the REPLACE tasks.
LEMMA ChildUpdatesReplace ==
  ASSUME NEW s \in Seq(Operation), Len(s) <= MaxTasks
  PROVE  /\ ChildUpdates(s) \subseteq Replaces(s)
         /\ Replaces(s) \subseteq 1..MaxTasks
<1>1. DOMAIN s = 1..Len(s) /\ Len(s) \in Nat /\ MaxTasks \in Nat
  BY BoundsAssumption
<1>. QED
  BY <1>1 DEF ChildUpdates, Replaces

\* What runUpdate does to the runs of an entity.
LEMMA RunEffect ==
  ASSUME NEW t \in Txs, NEW e \in [Txs -> [1..MaxTasks -> Nat]], NEW ks
  PROVE  /\ Run(t, e, ks) \in [Txs -> [1..MaxTasks -> Nat]]
         /\ \A u \in Txs : u # t => Run(t, e, ks)[u] = e[u]
         /\ \A k \in 1..MaxTasks :
              Run(t, e, ks)[t][k] = e[t][k] + (IF k \in ks THEN 1 ELSE 0)
<1>. DEFINE r == [k \in 1..MaxTasks |-> e[t][k] + (IF k \in ks THEN 1 ELSE 0)]
<1>1. e[t] \in [1..MaxTasks -> Nat]
  OBVIOUS
<1>2. ASSUME NEW k \in 1..MaxTasks PROVE e[t][k] + (IF k \in ks THEN 1 ELSE 0) \in Nat
  <2>1. e[t][k] \in Nat
    BY <1>1
  <2>. QED
    BY <2>1
<1>3. r \in [1..MaxTasks -> Nat]
  BY <1>2
<1>4. \A k \in 1..MaxTasks : r[k] = e[t][k] + (IF k \in ks THEN 1 ELSE 0)
  OBVIOUS
<1>5. Run(t, e, ks) = [e EXCEPT ![t] = r]
  BY DEF Run
<1>. HIDE DEF r
<1>. QED
  BY <1>3, <1>4, <1>5

\* A task has been run a number of times.
LEMMA HeapNat ==
  ASSUME TypeOK, NEW n \in Names, NEW t \in Txs, NEW k \in 1..MaxTasks
  PROVE  heap[n][t][k] \in Nat
<1>1. heap[n] \in [Txs -> [1..MaxTasks -> Nat]]
  BY DEF TypeOK
<1>. QED
  BY <1>1

\* The entity d gets the runs of e and then those of the tasks ks of t.
RunStep(t, d, e, ks) == heap' = [heap EXCEPT ![d] = Run(t, heap[e], ks)]

\* What such a step changes.
LEMMA RunOnEntity ==
  ASSUME TypeOK, NEW t \in Txs, NEW d \in Names, NEW e \in Names, NEW ks, RunStep(t, d, e, ks)
  PROVE  /\ heap' \in [Names -> [Txs -> [1..MaxTasks -> Nat]]]
         /\ \A n \in Names : n # d => heap'[n] = heap[n]
         /\ \A u \in Txs : u # t => heap'[d][u] = heap[e][u]
         /\ \A k \in 1..MaxTasks : heap'[d][t][k] = heap[e][t][k] + (IF k \in ks THEN 1 ELSE 0)
<1>1. heap[e] \in [Txs -> [1..MaxTasks -> Nat]]
  BY DEF TypeOK
<1>2. /\ Run(t, heap[e], ks) \in [Txs -> [1..MaxTasks -> Nat]]
      /\ \A u \in Txs : u # t => Run(t, heap[e], ks)[u] = heap[e][u]
      /\ \A k \in 1..MaxTasks :
            Run(t, heap[e], ks)[t][k] = heap[e][t][k] + (IF k \in ks THEN 1 ELSE 0)
  BY <1>1, RunEffect
<1>3. heap'[d] = Run(t, heap[e], ks) /\ \A n \in Names : n # d => heap'[n] = heap[n]
  BY DEF TypeOK, RunStep
<1>4. heap' \in [Names -> [Txs -> [1..MaxTasks -> Nat]]]
  BY <1>2 DEF TypeOK, RunStep
<1>. QED
  BY <1>2, <1>3, <1>4

\* The first state has an entry without changes, or none.
LEMMA InvInit == Init => Inv
<1>. SUFFICES ASSUME Init PROVE Inv
  OBVIOUS
<1>. USE DEF Init
<1>1. TypeOK
  BY BoundsAssumption DEF TypeOK, Names, Operation, Fresh
<1>2. \A t \in Txs : ~Working(t) /\ pc[t] = "open" /\ tasks[t] = <<>>
  BY DEF Working
<1>3. CacheSettled
  BY DEF CacheSettled, Settled
<1>4. TasksInv
  BY <1>2, BoundsAssumption DEF TasksInv
<1>. QED
  BY <1>1, <1>2, <1>3, <1>4 DEF Inv, OwnOrSettled, SameCommitted, UpdatesRun, NewEntity, Creating

\* Which committed changes an entity shows depends on the runs of those
\* transactions only.
LEMMA SeenSame ==
  ASSUME NEW n, NEW m, Changed' = Changed,
         \A u \in Changed : tasks'[u] = tasks[u] /\ heap'[n][u] = heap[m][u]
  PROVE  Seen(n)' = Seen(m)
BY DEF Seen, Shows

\* cache.get and runUpdate: the entity read shows all committed changes, and no
\* other transaction's entity is touched unless it is the published one.
LEMMA LoadKeepsInv ==
  ASSUME Inv, NEW t \in Txs, NEW new \in {"active", "replace"}, NEW ts \in Seq(Operation),
         NEW ks \in SUBSET (1..MaxTasks), Len(ts) <= MaxTasks,
         pc[t] \in {"open", "active", "reload"}, cache # Absent, LoadAndRun(t, ks),
         ks = IF new = "active" THEN Replaces(ts) ELSE ChildUpdates(ts),
         new = "active" => \A k \in DOMAIN ts : ts[k] # "ADD_IF_ABSENT",
         tasks' = [tasks EXCEPT ![t] = ts], pc' = [pc EXCEPT ![t] = new],
         UNCHANGED <<cache, iteration>>
  PROVE  Inv' /\ Changed' = Changed /\ Committed' = Committed
<1>0. TypeOK
  BY DEF Inv
<1>e. PICK e \in Names : e = cache.entity
  BY <1>0 DEF TypeOK
<1>d. PICK d \in Names : d = IF t \in Local THEN e ELSE t
  BY <1>e DEF Names
<1>1. /\ e \in Names /\ cache.version \in Names /\ t \in Names /\ d \in Names
      /\ Settled(e) /\ Settled(cache.version) /\ e # t /\ cache.version # t
      /\ d = e \/ d = t
  BY <1>0, <1>e, <1>d, TxsAssumption DEF Inv, CacheSettled, Settled, TypeOK, Names
<1>2. Changed' = Changed /\ t \notin Changed
  BY <1>0 DEF Changed, TypeOK
<1>3. ASSUME NEW n \in Names PROVE Settled(n) => Settled(n)'
  BY <1>0, <1>3 DEF Settled, TypeOK
<1>b. /\ version' = [version EXCEPT ![t] = cache.version]
      /\ entity' = [entity EXCEPT ![t] = d]
      /\ RunStep(t, d, e, ks)
  BY <1>e, <1>d DEF LoadAndRun, RunStep
<1>4. /\ heap' \in [Names -> [Txs -> [1..MaxTasks -> Nat]]]
      /\ \A n \in Names : n # d => heap'[n] = heap[n]
      /\ \A u \in Txs : u # t => heap'[d][u] = heap[e][u]
      /\ \A k \in ks : heap'[d][t][k] > 0
  <2>1. /\ heap' \in [Names -> [Txs -> [1..MaxTasks -> Nat]]]
        /\ \A n \in Names : n # d => heap'[n] = heap[n]
        /\ \A u \in Txs : u # t => heap'[d][u] = heap[e][u]
        /\ \A k \in 1..MaxTasks : heap'[d][t][k] = heap[e][t][k] + (IF k \in ks THEN 1 ELSE 0)
    BY <1>0, <1>b, RunOnEntity
  <2>4. ASSUME NEW k \in ks PROVE heap'[d][t][k] > 0
    <3>1. k \in 1..MaxTasks /\ heap[e][t][k] \in Nat
      BY <1>0, HeapNat
    <3>. QED
      BY <2>1, <3>1
  <2>. QED
    BY <2>1, <2>4
<1>5. /\ entity' \in [Txs -> Names] /\ version' \in [Txs -> Names]
      /\ \A u \in Txs : u # t => entity'[u] = entity[u] /\ version'[u] = version[u]
      /\ version'[t] = cache.version /\ entity'[t] = d
  BY <1>0, <1>1, <1>b DEF TypeOK
<1>6. \A u \in Txs : u # t => pc'[u] = pc[u] /\ tasks'[u] = tasks[u]
  BY <1>0 DEF TypeOK
<1>7. pc'[t] = new /\ tasks'[t] = ts
  BY <1>0 DEF TypeOK
<1>8. TypeOK'
  BY <1>0, <1>4, <1>5 DEF TypeOK
<1>9. CacheSettled'
  BY <1>1, <1>3, <1>e DEF CacheSettled
<1>s. /\ Seen(e)' = Seen(e) /\ Seen(d)' = Seen(e)
      /\ \A n \in Names : n # t => Seen(n)' = Seen(n)
  <2>1. \A u \in Changed : u \in Txs /\ u # t /\ tasks'[u] = tasks[u]
    BY <1>2, <1>6 DEF Changed
  <2>2. \A u \in Changed : heap'[d][u] = heap[e][u]
    BY <2>1, <1>4
  <2>3. Seen(d)' = Seen(e)
    BY <2>1, <2>2, <1>2, SeenSame
  <2>4. ASSUME NEW n \in Names, n # d PROVE Seen(n)' = Seen(n)
    <3>1. \A u \in Changed : heap'[n][u] = heap[n][u]
      BY <2>4, <1>4
    <3>. QED
      BY <2>1, <3>1, <1>2, SeenSame
  <2>5. ASSUME NEW n \in Names, n # t PROVE Seen(n)' = Seen(n)
    BY <2>3, <2>4, <2>5, <1>1
  <2>. QED
    BY <2>3, <2>5, <1>1
<1>10. ASSUME NEW u \in Txs, u # t, Working(u)'
       PROVE  /\ Working(u) /\ entity'[u] = entity[u] /\ version'[u] = version[u]
              /\ entity[u] # t /\ entity[u] \in Names /\ version[u] \in Names
              /\ entity[u] = u \/ Settled(entity[u])
              /\ version[u] = u \/ Settled(version[u])
  <2>1. Working(u)
    BY <1>6, <1>10 DEF Working
  <2>. QED
    BY <2>1, <1>0, <1>5, <1>10, TxsAssumption DEF Inv, OwnOrSettled, Settled, TypeOK
<1>11. OwnOrSettled'
  <2>. SUFFICES ASSUME NEW u \in Txs, Working(u)'
                PROVE  (entity[u] = u \/ Settled(entity[u]))' /\ (version[u] = u \/ Settled(version[u]))'
    BY DEF OwnOrSettled
  <2>1. CASE u = t
    BY <2>1, <1>1, <1>3, <1>5
  <2>2. CASE u # t
    BY <2>2, <1>3, <1>10
  <2>. QED
    BY <2>1, <2>2
<1>12. SameCommitted'
  <2>. SUFFICES ASSUME NEW u \in Txs, Working(u)', cache.version = version'[u]
                PROVE  Seen(entity[u])' = Seen(e)'
    <3>1. Seen(cache.entity)' = Seen(e)'
      BY <1>e DEF Seen, Shows
    <3>. QED
      BY <3>1 DEF SameCommitted
  <2>1. CASE u = t
    <3>1. Seen(entity[u])' = Seen(d)'
      BY <2>1, <1>5 DEF Seen, Shows
    <3>. QED
      BY <3>1, <1>s
  <2>2. CASE u # t
    <3>1. Seen(entity[u]) = Seen(e)
      <4>1. Seen(entity[u]) = Seen(cache.entity)
        BY <2>2, <1>10 DEF Inv, SameCommitted
      <4>. QED
        BY <4>1, <1>e
    <3>3. \A n \in Names : n # t /\ entity'[u] = n => Seen(entity[u])' = Seen(n)'
      BY DEF Seen, Shows
    <3>. QED
      BY <3>1, <3>3, <2>2, <1>s, <1>10
  <2>. QED
    BY <2>1, <2>2
<1>13. UpdatesRun'
  <2>. SUFFICES ASSUME NEW u \in Txs, Working(u)', NEW k \in Due(u)'
                PROVE  heap'[entity'[u]][u][k] > 0
    BY DEF UpdatesRun
  <2>1. CASE u = t
    <3>1. k \in ks
      BY <2>1, <1>7 DEF Due
    <3>. QED
      BY <2>1, <3>1, <1>4, <1>5
  <2>2. CASE u # t
    <3>1. k \in Due(u) /\ Working(u)
      BY <2>2, <1>6, <1>10 DEF Due
    <3>2. heap[entity[u]][u][k] > 0
      BY <3>1 DEF Inv, UpdatesRun
    <3>3. heap'[entity[u]][u] = heap[entity[u]][u]
      BY <2>2, <1>1, <1>4, <1>10
    <3>. QED
      BY <3>2, <3>3, <2>2, <1>10
  <2>. QED
    BY <2>1, <2>2
<1>14. NewEntity'
  <2>. SUFFICES ASSUME NEW u \in Txs, Creating(u)'
                PROVE  /\ entity'[u] = u /\ version'[u] = u
                       /\ \A v \in Txs \ {u} : \A k \in 1..MaxTasks : heap'[u][v][k] = 0
    BY DEF NewEntity
  <2>1. u # t
    BY <1>7 DEF Creating
  <2>2. Creating(u) /\ pc[u] = "active"
    BY <2>1, <1>6 DEF Creating
  <2>3. u \in Names /\ u # e /\ u # d
    BY <2>1, <2>2, <1>1, TxsAssumption DEF Settled, Names
  <2>4. heap'[u] = heap[u]
    BY <2>3, <1>4
  <2>. QED
    BY <2>1, <2>2, <2>4, <1>5 DEF Inv, NewEntity
<1>15. TasksInv'
  <2>1. \A u \in Txs : u # t => Changes(u)' = Changes(u)
    BY <1>6 DEF Changes
  <2>. QED
    BY <2>1, <1>6, <1>7 DEF Inv, TasksInv
<1>16. Committed' = Committed
  <2>1. Committed = Seen(e) /\ Committed' = Seen(e)'
    BY <1>e DEF Committed, Seen, Changed
  <2>. QED
    BY <2>1, <1>s
<1>. QED
  BY <1>2, <1>8, <1>9, <1>11, <1>12, <1>13, <1>14, <1>15, <1>16 DEF Inv

\* runUpdate on the entity at hand.
LEMMA AddTaskKeepsInv ==
  ASSUME Inv, NEW t \in Txs, NEW op \in Operation, AddTask(t, op)
  PROVE  Inv' /\ Changed' = Changed /\ Committed' = Committed
<1>. DEFINE ks == IF op = "REPLACE" THEN {Len(tasks[t]) + 1} ELSE {}
<1>0. TypeOK
  BY DEF Inv
<1>e. PICK e \in Names : e = entity[t]
  BY <1>0 DEF TypeOK
<1>1. /\ pc[t] = "active" /\ op # "ADD_IF_ABSENT" /\ Working(t)
      /\ UNCHANGED <<cache, pc, entity, version, iteration>>
      /\ e = t \/ Settled(e)
      /\ Len(tasks[t]) < MaxTasks
  BY <1>0, <1>e DEF AddTask, Working, Inv, OwnOrSettled, TypeOK
<1>2. Changed' = Changed /\ t \notin Changed
  BY <1>1 DEF Changed
<1>3. \A u \in Txs : Working(u)' <=> Working(u)
  BY <1>1 DEF Working
<1>4. \A n \in Names : Settled(n)' <=> Settled(n)
  BY <1>1 DEF Settled
<1>a. heap[e] \in [Txs -> [1..MaxTasks -> Nat]]
  BY <1>0 DEF TypeOK
<1>5. /\ heap' \in [Names -> [Txs -> [1..MaxTasks -> Nat]]]
      /\ \A n \in Names : n # e => heap'[n] = heap[n]
      /\ \A n \in Names, u \in Txs : u # t => heap'[n][u] = heap[n][u]
      /\ \A k \in 1..MaxTasks : heap'[e][t][k] = heap[e][t][k] + (IF k \in ks THEN 1 ELSE 0)
  <2>0. heap' = [heap EXCEPT ![entity[t]] = Run(t, heap[entity[t]], ks)]
    BY Zenon DEF AddTask
  <2>1. RunStep(t, e, e, ks)
    BY <2>0, <1>e, Zenon DEF RunStep
  <2>. HIDE DEF ks
  <2>2. /\ heap' \in [Names -> [Txs -> [1..MaxTasks -> Nat]]]
        /\ \A n \in Names : n # e => heap'[n] = heap[n]
        /\ \A u \in Txs : u # t => heap'[e][u] = heap[e][u]
        /\ \A k \in 1..MaxTasks : heap'[e][t][k] = heap[e][t][k] + (IF k \in ks THEN 1 ELSE 0)
    BY <2>1, <1>0, RunOnEntity
  <2>. QED
    BY <2>2
<1>6. /\ tasks' \in [Txs -> Seq(Operation)]
      /\ \A u \in Txs : u # t => tasks'[u] = tasks[u]
      /\ tasks'[t] = Append(tasks[t], op) /\ tasks[t] \in Seq(Operation)
  BY <1>0 DEF AddTask, TypeOK
<1>7. /\ DOMAIN tasks'[t] = DOMAIN tasks[t] \cup {Len(tasks[t]) + 1}
      /\ \A k \in DOMAIN tasks[t] : tasks'[t][k] = tasks[t][k]
      /\ tasks'[t][Len(tasks[t]) + 1] = op
      /\ Len(tasks'[t]) = Len(tasks[t]) + 1 /\ Len(tasks[t]) \in Nat
  BY <1>6
<1>8. TypeOK'
  BY <1>0, <1>1, <1>5, <1>6 DEF TypeOK
<1>9. CacheSettled'
  BY <1>0, <1>1, <1>4 DEF Inv, CacheSettled, TypeOK
<1>10. OwnOrSettled'
  BY <1>0, <1>1, <1>3, <1>4 DEF Inv, OwnOrSettled, TypeOK
<1>s. ASSUME NEW n \in Names PROVE Seen(n)' = Seen(n)
  <2>1. \A u \in Changed : tasks'[u] = tasks[u] /\ heap'[n][u] = heap[n][u]
    BY <1>2, <1>5, <1>6 DEF Changed
  <2>. QED
    BY <2>1, <1>2, SeenSame
<1>11. SameCommitted'
  <2>. SUFFICES ASSUME NEW u \in Txs, Working(u), cache # Absent, cache.version = version[u]
                PROVE  Seen(entity[u])' = Seen(cache.entity)'
    BY <1>1, <1>3 DEF SameCommitted
  <2>1. Seen(entity[u]) = Seen(cache.entity)
    BY DEF Inv, SameCommitted
  <2>2. PICK n \in Names, m \in Names : n = entity[u] /\ m = cache.entity
    BY <1>0 DEF TypeOK
  <2>4. entity'[u] = n /\ cache'.entity = m
    BY <2>2, <1>1
  <2>3. Seen(entity[u])' = Seen(n)' /\ Seen(cache.entity)' = Seen(m)'
    BY <2>4 DEF Seen, Shows
  <2>. QED
    BY <2>1, <2>2, <2>3, <1>s
<1>12. UpdatesRun'
  <2>. SUFFICES ASSUME NEW u \in Txs, Working(u), NEW k \in Due(u)'
                PROVE  heap'[entity[u]][u][k] > 0
    BY <1>1, <1>3 DEF UpdatesRun
  <2>1. entity[u] \in Names
    BY <1>0 DEF TypeOK
  <2>2. CASE u # t
    <3>1. k \in Due(u)
      BY <2>2, <1>1, <1>6 DEF Due
    <3>2. heap[entity[u]][u][k] > 0
      BY <3>1 DEF Inv, UpdatesRun
    <3>. QED
      BY <2>1, <2>2, <3>2, <1>5
  <2>3. CASE u = t
    <3>1. k \in DOMAIN tasks'[t] /\ tasks'[t][k] = "REPLACE"
      BY <2>3, <1>1 DEF Due, Replaces
    <3>2. k \in 1..MaxTasks /\ heap[e][t][k] \in Nat
      <4>1. DOMAIN tasks[t] = 1..Len(tasks[t]) /\ MaxTasks \in Nat
        BY <1>6, BoundsAssumption
      <4>2. k \in 1..MaxTasks
        BY <4>1, <3>1, <1>1, <1>7
      <4>. QED
        BY <4>2, <1>a
    <3>3. CASE k \in DOMAIN tasks[t]
      <4>1. k \in Due(t)
        BY <3>1, <3>3, <1>1, <1>7 DEF Due, Replaces
      <4>2. heap[e][t][k] > 0
        BY <4>1, <1>1, <1>e DEF Inv, UpdatesRun
      <4>. QED
        BY <2>3, <3>2, <4>2, <1>5, <1>e
    <3>4. CASE k \notin DOMAIN tasks[t]
      <4>1. k \in ks
        BY <3>1, <3>4, <1>7
      <4>. QED
        BY <2>3, <3>2, <4>1, <1>5, <1>e
    <3>. QED
      BY <3>3, <3>4
  <2>. QED
    BY <2>2, <2>3
<1>13. NewEntity'
  <2>. SUFFICES ASSUME NEW u \in Txs, Creating(u)'
                PROVE  /\ entity[u] = u /\ version[u] = u
                       /\ \A v \in Txs \ {u} : \A k \in 1..MaxTasks : heap'[u][v][k] = 0
    BY <1>1 DEF NewEntity
  <2>1. Creating(u)
    BY <1>1, <1>6, <1>7 DEF Creating
  <2>2. entity[u] = u /\ version[u] = u /\ u \in Names
        /\ \A v \in Txs \ {u} : \A k \in 1..MaxTasks : heap[u][v][k] = 0
    BY <2>1 DEF Inv, NewEntity, Names
  <2>3. CASE u = t
    <3>1. \A v \in Txs \ {u} : heap'[u][v] = heap[u][v]
      BY <2>2, <2>3, <1>5
    <3>. QED
      BY <2>2, <3>1
  <2>4. CASE u # t
    <3>1. u # e
      BY <2>1, <2>4, <1>1, TxsAssumption DEF Settled, Creating
    <3>. QED
      BY <2>2, <3>1, <1>5
  <2>. QED
    BY <2>3, <2>4
<1>14. TasksInv'
  <2>1. \A u \in Txs : u # t => Changes(u)' = Changes(u)
    BY <1>6 DEF Changes
  <2>2. Len(tasks'[t]) <= MaxTasks
    BY <1>1, <1>7, BoundsAssumption
  <2>. QED
    BY <2>1, <2>2, <1>1, <1>6 DEF Inv, TasksInv
<1>15. Committed' = Committed
  <2>1. CASE cache = Absent
    BY <2>1, <1>1 DEF Committed
  <2>2. CASE cache # Absent
    <3>1. PICK m \in Names : m = cache.entity
      BY <2>2, <1>0 DEF TypeOK
    <3>2. Committed = Seen(m) /\ Committed' = Seen(m)'
      BY <2>2, <3>1, <1>1 DEF Committed, Changed, Seen
    <3>. QED
      BY <3>2, <1>s
  <2>. QED
    BY <2>1, <2>2
<1>. QED
  BY <1>2, <1>8, <1>9, <1>10, <1>11, <1>12, <1>13, <1>14, <1>15 DEF Inv

\* A new entity is nobody else's.
LEMMA AddNewEntityKeepsInv ==
  ASSUME Inv, NEW t \in Txs, AddNewEntity(t)
  PROVE  Inv' /\ Changed' = Changed /\ Committed' = Committed
<1>0. TypeOK
  BY DEF Inv
<1>1. /\ pc[t] = "open" /\ pc' = [pc EXCEPT ![t] = "active"]
      /\ UNCHANGED <<cache, iteration>>
      /\ heap' = [heap EXCEPT ![t] = Fresh] /\ entity' = [entity EXCEPT ![t] = t]
      /\ version' = [version EXCEPT ![t] = t]
      /\ tasks' = [tasks EXCEPT ![t] = <<"ADD_IF_ABSENT">>]
  BY DEF AddNewEntity
<1>2. Changed' = Changed /\ t \notin Changed
  BY <1>0, <1>1 DEF Changed, TypeOK
<1>3. ASSUME NEW n \in Names PROVE (Settled(n) => Settled(n)') /\ (Settled(n) => n # t)
  BY <1>0, <1>1, <1>3, TxsAssumption DEF Settled, TypeOK
<1>4. \A u \in Txs : u # t => /\ pc'[u] = pc[u] /\ tasks'[u] = tasks[u]
                              /\ entity'[u] = entity[u] /\ version'[u] = version[u]
  BY <1>0, <1>1 DEF TypeOK
<1>5. t \in Names /\ heap'[t] = Fresh /\ \A n \in Names : n # t => heap'[n] = heap[n]
  BY <1>0, <1>1 DEF TypeOK, Names
<1>6. pc'[t] = "active" /\ tasks'[t] = <<"ADD_IF_ABSENT">> /\ entity'[t] = t /\ version'[t] = t
  BY <1>0, <1>1 DEF TypeOK
<1>7. TypeOK'
  <2>1. Fresh \in [Txs -> [1..MaxTasks -> Nat]]
    BY DEF Fresh
  <2>. QED
    BY <2>1, <1>0, <1>1, <1>5 DEF TypeOK, Operation
<1>8. cache # Absent => /\ cache.entity \in Names /\ cache.version \in Names
                        /\ Settled(cache.entity) /\ Settled(cache.version)
  BY <1>0 DEF Inv, CacheSettled, TypeOK
<1>9. CacheSettled'
  BY <1>1, <1>3, <1>8 DEF CacheSettled
<1>10. \A u \in Txs : u # t /\ Working(u)' =>
          /\ Working(u) /\ entity[u] # t /\ entity[u] \in Names /\ version[u] \in Names
          /\ entity[u] = u \/ Settled(entity[u])
          /\ version[u] = u \/ Settled(version[u])
  BY <1>0, <1>3, <1>4 DEF Inv, OwnOrSettled, Working, TypeOK
<1>11. OwnOrSettled'
  BY <1>3, <1>4, <1>6, <1>10 DEF OwnOrSettled
<1>s. ASSUME NEW n \in Names, n # t PROVE Seen(n)' = Seen(n)
  <2>1. \A u \in Changed : tasks'[u] = tasks[u] /\ heap'[n][u] = heap[n][u]
    BY <1>2, <1>4, <1>5, <1>s DEF Changed
  <2>. QED
    BY <2>1, <1>2, SeenSame
<1>12. SameCommitted'
  <2>. SUFFICES ASSUME NEW u \in Txs, Working(u)', cache # Absent, cache.version = version'[u]
                PROVE  Seen(entity[u])' = Seen(cache.entity)'
    BY <1>1 DEF SameCommitted
  <2>1. u # t
    BY <1>3, <1>6, <1>8
  <2>2. Seen(entity[u]) = Seen(cache.entity)
    BY <2>1, <1>4, <1>10 DEF Inv, SameCommitted
  <2>3. PICK n \in Names, m \in Names : n = entity[u] /\ m = cache.entity /\ n # t /\ m # t
    BY <2>1, <1>3, <1>8, <1>10
  <2>5. entity'[u] = n /\ cache'.entity = m
    BY <2>1, <2>3, <1>1, <1>4
  <2>4. Seen(entity[u])' = Seen(n)' /\ Seen(cache.entity)' = Seen(m)'
    BY <2>5 DEF Seen, Shows
  <2>. QED
    BY <2>2, <2>3, <2>4, <1>s
<1>13. UpdatesRun'
  <2>. SUFFICES ASSUME NEW u \in Txs, Working(u)', NEW k \in Due(u)'
                PROVE  heap'[entity'[u]][u][k] > 0
    BY DEF UpdatesRun
  <2>1. u # t
    BY <1>6 DEF Due, Replaces
  <2>2. k \in Due(u)
    BY <2>1, <1>4 DEF Due
  <2>3. heap[entity[u]][u][k] > 0
    BY <2>1, <2>2, <1>10 DEF Inv, UpdatesRun
  <2>. QED
    BY <2>1, <2>3, <1>4, <1>5, <1>10
<1>14. NewEntity'
  <2>. SUFFICES ASSUME NEW u \in Txs, Creating(u)'
                PROVE  /\ entity'[u] = u /\ version'[u] = u
                       /\ \A v \in Txs \ {u} : \A k \in 1..MaxTasks : heap'[u][v][k] = 0
    BY DEF NewEntity
  <2>1. CASE u = t
    BY <2>1, <1>5, <1>6 DEF Fresh
  <2>2. CASE u # t
    <3>1. Creating(u) /\ u \in Names
      BY <2>2, <1>4 DEF Creating, Names
    <3>. QED
      BY <2>2, <3>1, <1>4, <1>5 DEF Inv, NewEntity
  <2>. QED
    BY <2>1, <2>2
<1>15. TasksInv'
  <2>1. \A u \in Txs : u # t => Changes(u)' = Changes(u)
    BY <1>4 DEF Changes
  <2>2. Len(tasks'[t]) <= MaxTasks
    BY <1>6, BoundsAssumption
  <2>. QED
    BY <2>1, <2>2, <1>4, <1>6 DEF Inv, TasksInv
<1>16. Committed' = Committed
  <2>1. CASE cache = Absent
    BY <2>1, <1>1 DEF Committed
  <2>2. CASE cache # Absent
    <3>1. PICK m \in Names : m = cache.entity /\ m # t
      BY <2>2, <1>3, <1>8
    <3>2. Committed = Seen(m) /\ Committed' = Seen(m)'
      BY <2>2, <3>1, <1>1 DEF Committed, Changed, Seen
    <3>. QED
      BY <3>1, <3>2, <1>s
  <2>. QED
    BY <2>1, <2>2
<1>. QED
  BY <1>2, <1>7, <1>9, <1>11, <1>12, <1>13, <1>14, <1>15, <1>16 DEF Inv

\* A transaction goes on, or ends without putting an entry; the entry stays or is
\* removed.
LEMMA QuietKeepsInv ==
  ASSUME Inv, NEW t \in Txs,
         NEW new \in {"replace", "reload", "removed", "ignored", "dropped", "rolledBack"},
         pc[t] \notin Ended, new = "replace" => pc[t] = "active",
         pc' = [pc EXCEPT ![t] = new], cache' = cache \/ cache' = Absent,
         UNCHANGED <<heap, tasks, entity, version>>, iteration' \in [Txs -> 0..Retries]
  PROVE  Inv' /\ Changed' = Changed /\ (cache' = cache => Committed' = Committed)
<1>0. TypeOK
  BY DEF Inv
<1>1. Changed' = Changed /\ t \notin Changed
  BY <1>0 DEF Changed, TypeOK, Ended
<1>2. ASSUME NEW n \in Names PROVE Settled(n) => Settled(n)'
  BY <1>0, <1>2 DEF Settled, TypeOK, Ended
<1>3. \A u \in Txs : Working(u)' => Working(u)
  BY <1>0 DEF Working, TypeOK
<1>4. TypeOK'
  BY <1>0 DEF TypeOK, Ended
<1>5. cache # Absent => cache.entity \in Names /\ cache.version \in Names
  BY <1>0 DEF TypeOK
<1>6. CacheSettled'
  BY <1>2, <1>5 DEF Inv, CacheSettled
<1>7. OwnOrSettled'
  BY <1>0, <1>2, <1>3 DEF Inv, OwnOrSettled, TypeOK
<1>s. \A n \in Names : Seen(n)' = Seen(n)
  BY <1>1 DEF Seen, Shows
<1>8. SameCommitted'
  <2>. SUFFICES ASSUME NEW u \in Txs, Working(u)', cache' # Absent, cache'.version = version'[u]
                PROVE  Seen(entity[u])' = Seen(cache.entity)'
    BY DEF SameCommitted
  <2>1. PICK n \in Names, m \in Names : n = entity[u] /\ m = cache.entity
    BY <1>0 DEF TypeOK
  <2>2. Seen(n) = Seen(m)
    BY <2>1, <1>3 DEF Inv, SameCommitted
  <2>3. Seen(entity[u])' = Seen(n)' /\ Seen(cache.entity)' = Seen(m)'
    BY <2>1 DEF Seen, Shows
  <2>. QED
    BY <2>2, <2>3, <1>s
<1>9. UpdatesRun'
  <2>. SUFFICES ASSUME NEW u \in Txs, Working(u)', NEW k \in Due(u)'
                PROVE  heap[entity[u]][u][k] > 0
    BY DEF UpdatesRun
  <2>1. tasks[u] \in Seq(Operation) /\ Len(tasks[u]) <= MaxTasks
    BY <1>0 DEF Inv, TasksInv, TypeOK
  <2>2. ChildUpdates(tasks[u]) \subseteq Replaces(tasks[u])
    BY <2>1, ChildUpdatesReplace
  <2>3. k \in Due(u)
    BY <2>2, <1>0 DEF Due, TypeOK
  <2>. QED
    BY <2>3, <1>3 DEF Inv, UpdatesRun
<1>10. NewEntity' /\ TasksInv'
  <2>1. \A u \in Txs : (Creating(u)' => Creating(u)) /\ (pc'[u] \in {"open", "changed"} => pc'[u] = pc[u])
    BY <1>0 DEF Creating, TypeOK
  <2>2. \A u \in Txs : Changes(u)' = Changes(u)
    BY DEF Changes
  <2>. QED
    BY <2>1, <2>2 DEF Inv, NewEntity, TasksInv
<1>11. cache' = cache => Committed' = Committed
  <2>1. CASE cache = Absent
    BY <2>1 DEF Committed
  <2>2. CASE cache # Absent /\ cache' = cache
    <3>1. PICK m \in Names : m = cache.entity
      BY <2>2, <1>5
    <3>2. Committed = Seen(m) /\ Committed' = Seen(m)'
      BY <2>2, <3>1 DEF Committed, Changed, Seen
    <3>. QED
      BY <3>2, <1>s
  <2>. QED
    BY <2>1, <2>2
<1>. QED
  BY <1>1, <1>4, <1>6, <1>7, <1>8, <1>9, <1>10, <1>11 DEF Inv

\* A commit that puts the entity of t: nobody else has read its version.
LEMMA PublishKeepsInv ==
  ASSUME Inv, NEW t \in Txs, Working(t),
         cache' = [version |-> t, entity |-> entity[t]],
         pc' = [pc EXCEPT ![t] = IF Changes(t) THEN "changed" ELSE "touched"],
         UNCHANGED <<heap, tasks, entity, version>>, iteration' \in [Txs -> 0..Retries]
  PROVE  /\ Inv'
         /\ Changed' = Changed \cup (IF Changes(t) THEN {t} ELSE {})
         /\ Committed' = Seen(entity[t]) \cup (IF Changes(t) THEN {t} ELSE {})
<1>0. TypeOK
  BY DEF Inv
<1>1. Changed' = Changed \cup (IF Changes(t) THEN {t} ELSE {})
  BY <1>0 DEF Changed, TypeOK, Working
<1>2. /\ \A n \in Names : Settled(n) => Settled(n)' /\ n # t
      /\ t \in Names /\ Settled(t)'
  BY <1>0, TxsAssumption DEF Settled, TypeOK, Working, Names
<1>3. \A u \in Txs : Working(u)' => Working(u) /\ u # t /\ pc'[u] = pc[u]
  BY <1>0 DEF Working, TypeOK
<1>4. entity[t] \in Names /\ (entity[t] = t \/ Settled(entity[t]))
  BY <1>0 DEF Inv, OwnOrSettled, TypeOK
<1>5. TypeOK'
  BY <1>0, <1>2, <1>4 DEF TypeOK, Ended
<1>6. cache' # Absent /\ cache'.version = t /\ cache'.entity = entity[t]
  BY <1>2, <1>4, AbsentAssumption DEF Names
<1>7. CacheSettled'
  BY <1>2, <1>4, <1>6 DEF CacheSettled
<1>8. \A u \in Txs : Working(u)' => /\ entity[u] = u \/ Settled(entity[u])
                                    /\ version[u] = u \/ Settled(version[u])
                                    /\ entity[u] \in Names /\ version[u] \in Names
  BY <1>0, <1>3 DEF Inv, OwnOrSettled, TypeOK
<1>9. OwnOrSettled'
  BY <1>2, <1>8 DEF OwnOrSettled
<1>10. SameCommitted'
  <2>1. \A u \in Txs : Working(u)' => cache'.version # version'[u]
    BY <1>2, <1>3, <1>6, <1>8
  <2>. QED
    BY <2>1 DEF SameCommitted
<1>11. UpdatesRun'
  BY <1>3 DEF Inv, UpdatesRun, Due
<1>12. NewEntity' /\ TasksInv'
  <2>1. \A u \in Txs : (Creating(u)' => Creating(u)) /\ (u # t => pc'[u] = pc[u])
    BY <1>0 DEF Creating, TypeOK
  <2>2. \A u \in Txs : Changes(u)' = Changes(u)
    BY DEF Changes
  <2>3. pc'[t] = IF Changes(t) THEN "changed" ELSE "touched"
    BY <1>0 DEF TypeOK
  <2>. QED
    BY <2>1, <2>2, <2>3 DEF Inv, NewEntity, TasksInv
<1>13. Committed' = Seen(entity[t]) \cup (IF Changes(t) THEN {t} ELSE {})
  <2>1. PICK n \in Names : n = entity[t]
    BY <1>4
  <2>2. Committed' = {u \in Changed' : Shows(n, u)}
    BY <2>1, <1>6 DEF Committed, Changed, Shows
  <2>3. Shows(n, t)
    <3>1. tasks[t] \in Seq(Operation) /\ Len(tasks[t]) <= MaxTasks
      BY <1>0 DEF Inv, TasksInv, TypeOK
    <3>2. ChildUpdates(tasks[t]) \subseteq Due(t)
      BY <3>1, ChildUpdatesReplace DEF Due
    <3>. QED
      BY <3>2, <2>1 DEF Inv, UpdatesRun, Shows
  <2>. QED
    BY <2>1, <2>2, <2>3, <1>1 DEF Seen
<1>. QED
  BY <1>1, <1>5, <1>7, <1>9, <1>10, <1>11, <1>12, <1>13 DEF Inv

-----------------------------------------------------------------------------
(* The refinement *)

outcomes == [t \in Txs |-> IF pc[t] \in Ended THEN pc[t] ELSE "running"]

\* The session is absent exactly when the entry is.
LEMMA CommittedAbsent ==
  ASSUME TypeOK
  PROVE  /\ Committed = Absent <=> cache = Absent
         /\ cache # Absent => Committed = Seen(cache.entity)
<1>1. CASE cache = Absent
  BY <1>1 DEF Committed
<1>2. CASE cache # Absent
  <2>1. Committed = Seen(cache.entity)
    BY <1>2 DEF Committed, Changed, Seen
  <2>2. Committed \in SUBSET Txs
    BY <2>1 DEF Seen, Changed
  <2>. QED
    BY <1>2, <2>1, <2>2, AbsentAssumption
<1>. QED
  BY <1>1, <1>2

\* A step that ends t with the result new.
LEMMA EndsTransaction ==
  ASSUME TypeOK, NEW t \in Txs, NEW new \in Ended, pc[t] \notin Ended,
         pc' = [pc EXCEPT ![t] = new]
  PROVE  outcomes[t] = "running" /\ outcomes' = [outcomes EXCEPT ![t] = new]
BY DEF outcomes, TypeOK

\* A step that leaves t running.
LEMMA KeepsRunning ==
  ASSUME TypeOK, NEW t \in Txs, NEW new \in {"active", "replace", "reload"},
         pc[t] \notin Ended, pc' = [pc EXCEPT ![t] = new]
  PROVE  outcomes' = outcomes
BY DEF outcomes, TypeOK, Ended

\* MergedUpdate yields ADD_IF_ABSENT only for a transaction that has that task.
LEMMA MergedIsATask ==
  ASSUME NEW s \in Seq(Operation), s # <<>>, MergedOperation(s) = "ADD_IF_ABSENT"
  PROVE  \E k \in DOMAIN s : s[k] = "ADD_IF_ABSENT"
<1>1. Len(s) \in Nat /\ Len(s) >= 1 /\ DOMAIN s = 1..Len(s)
  OBVIOUS
<1>2. CASE Len(s) = 1
  BY <1>1, <1>2 DEF MergedOperation
<1>3. CASE Len(s) # 1
  <2>1. 1 \in DOMAIN s /\ 2 \in DOMAIN s
    BY <1>1, <1>3
  <2>. QED
    BY <1>3, <2>1 DEF MergedOperation
<1>. QED
  BY <1>2, <1>3

StoreStep == Store!StoreNext \/ UNCHANGED <<Committed, outcomes>>

\* get and the three forms of addTask change nothing in the store, except that
\* a change is ignored when there is no session.
LEMMA CollectSimulates ==
  ASSUME Inv, NEW t \in Txs, NEW op \in Operation,
         Get(t) \/ AddFirstTask(t, op) \/ AddNewEntity(t) \/ AddTask(t, op)
  PROVE  Inv' /\ StoreStep
<1>0. TypeOK
  BY DEF Inv
<1>1. CASE Get(t)
  <2>1. /\ pc[t] = "open" /\ cache # Absent /\ LoadAndRun(t, {})
        /\ pc' = [pc EXCEPT ![t] = "active"] /\ UNCHANGED <<cache, tasks, iteration>>
    BY <1>1 DEF Get
  <2>. DEFINE ts == tasks[t]
  <2>2. /\ ts \in Seq(Operation) /\ tasks' = [tasks EXCEPT ![t] = ts]
        /\ {} = Replaces(ts) /\ Len(ts) <= MaxTasks
        /\ \A k \in DOMAIN ts : ts[k] # "ADD_IF_ABSENT"
    BY <2>1, <1>0 DEF Inv, TasksInv, TypeOK, Replaces
  <2>. HIDE DEF ts
  <2>3. Inv' /\ Committed' = Committed
    BY <2>1, <2>2, LoadKeepsInv
  <2>4. outcomes' = outcomes
    BY <2>1, <1>0, KeepsRunning DEF Ended
  <2>. QED
    BY <2>3, <2>4 DEF StoreStep
<1>2. CASE AddFirstTask(t, op) /\ cache # Absent
  <2>1. /\ pc[t] = "open" /\ op # "ADD_IF_ABSENT"
        /\ LoadAndRun(t, IF op = "REPLACE" THEN {1} ELSE {})
        /\ tasks' = [tasks EXCEPT ![t] = <<op>>]
        /\ pc' = [pc EXCEPT ![t] = "active"] /\ UNCHANGED <<cache, iteration>>
    BY <1>2 DEF AddFirstTask
  <2>. DEFINE ts == <<op>>
              ks == IF op = "REPLACE" THEN {1} ELSE {}
  <2>2. /\ ts \in Seq(Operation) /\ Len(ts) <= MaxTasks
        /\ \A k \in DOMAIN ts : ts[k] # "ADD_IF_ABSENT"
    BY <2>1, BoundsAssumption
  <2>5. ks = Replaces(ts) /\ ks \in SUBSET (1..MaxTasks)
    BY BoundsAssumption DEF Replaces
  <2>6. LoadAndRun(t, ks) /\ tasks' = [tasks EXCEPT ![t] = ts]
    BY <2>1
  <2>. HIDE DEF ts, ks
  <2>3. Inv' /\ Committed' = Committed
    BY <1>2, <2>1, <2>2, <2>5, <2>6, LoadKeepsInv
  <2>4. outcomes' = outcomes
    BY <2>1, <1>0, KeepsRunning DEF Ended
  <2>. QED
    BY <2>3, <2>4 DEF StoreStep
<1>3. CASE AddFirstTask(t, op) /\ cache = Absent
  <2>1. /\ pc[t] = "open" /\ pc' = [pc EXCEPT ![t] = "ignored"]
        /\ UNCHANGED <<cache, heap, tasks, entity, version, iteration>>
    BY <1>3 DEF AddFirstTask, End
  <2>2. Inv' /\ Committed' = Committed
    BY <2>1, <1>0, QuietKeepsInv DEF Ended, TypeOK
  <2>3. outcomes[t] = "running" /\ outcomes' = [outcomes EXCEPT ![t] = "ignored"]
    BY <2>1, <1>0, EndsTransaction DEF Ended
  <2>4. Committed = Absent
    BY <1>0, <1>3, CommittedAbsent
  <2>5. Store!Ignore(t)
    BY <2>2, <2>3, <2>4 DEF Store!Ignore, Store!End, outcomes
  <2>. QED
    BY <2>2, <2>5 DEF StoreStep, Store!StoreNext
<1>4. CASE AddNewEntity(t)
  <2>1. outcomes' = outcomes
    BY <1>0, <1>4, KeepsRunning DEF AddNewEntity, Ended
  <2>. QED
    BY <2>1, <1>4, AddNewEntityKeepsInv DEF StoreStep
<1>5. CASE AddTask(t, op)
  <2>1. outcomes' = outcomes
    BY <1>5 DEF AddTask, outcomes
  <2>. QED
    BY <2>1, <1>5, AddTaskKeepsInv DEF StoreStep
<1>. QED
  BY <1>1, <1>2, <1>3, <1>4, <1>5

\* commitImpl: a removal, an addition and the start of a replacement.
LEMMA CommitSimulates ==
  ASSUME Inv, NEW t \in Txs,
         Rollback(t) \/ CommitRemove(t) \/ CommitAddIfAbsent(t) \/ CommitReplace(t)
  PROVE  Inv' /\ StoreStep
<1>0. TypeOK
  BY DEF Inv
<1>1. CASE Rollback(t)
  <2>1. /\ pc[t] \in {"open", "active"} /\ pc' = [pc EXCEPT ![t] = "rolledBack"]
        /\ UNCHANGED <<cache, heap, tasks, entity, version, iteration>>
    BY <1>1 DEF Rollback, End
  <2>2. Inv' /\ Committed' = Committed
    BY <2>1, <1>0, QuietKeepsInv DEF Ended, TypeOK
  <2>3. outcomes[t] = "running" /\ outcomes' = [outcomes EXCEPT ![t] = "rolledBack"]
    BY <2>1, <1>0, EndsTransaction DEF Ended
  <2>4. Store!GiveUp(t)
    BY <2>2, <2>3 DEF Store!GiveUp, Store!End, outcomes
  <2>. QED
    BY <2>2, <2>4 DEF StoreStep, Store!StoreNext
<1>2. CASE CommitRemove(t)
  <2>1. /\ pc[t] = "active" /\ pc' = [pc EXCEPT ![t] = "removed"] /\ cache' = Absent
        /\ UNCHANGED <<heap, tasks, entity, version, iteration>>
    BY <1>2 DEF CommitRemove, End
  <2>2. Inv'
    BY <2>1, <1>0, QuietKeepsInv DEF Ended, TypeOK
  <2>3. Committed' = Absent
    BY <2>1 DEF Committed
  <2>4. outcomes[t] = "running" /\ outcomes' = [outcomes EXCEPT ![t] = "removed"]
    BY <2>1, <1>0, EndsTransaction DEF Ended
  <2>5. Store!Remove(t)
    BY <2>3, <2>4 DEF Store!Remove, Store!End, outcomes
  <2>. QED
    BY <2>2, <2>5 DEF StoreStep, Store!StoreNext
<1>3. CASE CommitAddIfAbsent(t) /\ cache # Absent
  <2>1. /\ pc[t] = "active" /\ LoadAndRun(t, ChildUpdates(tasks[t]))
        /\ pc' = [pc EXCEPT ![t] = "replace"] /\ UNCHANGED <<cache, tasks, iteration>>
    BY <1>3 DEF CommitAddIfAbsent, End
  <2>2. /\ tasks[t] \in Seq(Operation) /\ tasks' = [tasks EXCEPT ![t] = tasks[t]]
        /\ Len(tasks[t]) <= MaxTasks
    BY <2>1, <1>0 DEF TypeOK, Inv, TasksInv
  <2>3. ChildUpdates(tasks[t]) \in SUBSET (1..MaxTasks)
    BY <2>2, ChildUpdatesReplace
  <2>5. Inv' /\ Committed' = Committed
    BY <1>3, <2>1, <2>2, <2>3, LoadKeepsInv
  <2>6. outcomes' = outcomes
    BY <2>1, <1>0, KeepsRunning DEF Ended
  <2>. QED
    BY <2>5, <2>6 DEF StoreStep
<1>4. CASE CommitAddIfAbsent(t) /\ cache = Absent
  <2>1. /\ pc[t] = "active" /\ tasks[t] # <<>> /\ MergedOperation(tasks[t]) = "ADD_IF_ABSENT"
        /\ cache' = [version |-> t, entity |-> t]
        /\ pc' = [pc EXCEPT ![t] = IF Changes(t) THEN "changed" ELSE "touched"]
        /\ UNCHANGED <<heap, tasks, entity, version, iteration>>
    BY <1>4 DEF CommitAddIfAbsent, End
  <2>2. Working(t) /\ pc[t] \notin Ended
    BY <2>1 DEF Working, Ended
  <2>3. \E k \in DOMAIN tasks[t] : tasks[t][k] = "ADD_IF_ABSENT"
    BY <2>1, <1>0, MergedIsATask DEF TypeOK
  <2>4. entity[t] = t /\ \A u \in Txs \ {t} : \A k \in 1..MaxTasks : heap[t][u][k] = 0
    BY <2>1, <2>3 DEF Inv, NewEntity, Creating
  <2>5. Inv' /\ Committed' = Seen(entity[t]) \cup (IF Changes(t) THEN {t} ELSE {})
    BY <2>1, <2>2, <2>4, <1>0, PublishKeepsInv DEF TypeOK
  <2>9. Seen(t) = {}
    <3>. SUFFICES ASSUME NEW u \in Changed, Shows(t, u) PROVE FALSE
      BY DEF Seen
    <3>1. u \in Txs \ {t} /\ Changes(u)
      BY <2>1 DEF Changed, Inv, TasksInv
    <3>2. ChildUpdates(tasks[u]) \subseteq 1..MaxTasks
      BY <3>1, <1>0, ChildUpdatesReplace DEF Inv, TasksInv, TypeOK
    <3>. QED
      BY <3>1, <3>2, <2>4 DEF Shows, Changes
  <2>6. Committed = Absent
    BY <1>0, <1>4, CommittedAbsent
  <2>7. CASE Changes(t)
    <3>2. Committed' = {t}
      BY <2>4, <2>5, <2>7, <2>9
    <3>3. outcomes[t] = "running" /\ outcomes' = [outcomes EXCEPT ![t] = "changed"]
      BY <2>1, <2>2, <2>7, <1>0, EndsTransaction DEF Ended
    <3>4. Store!Create(t)
      BY <2>6, <3>2, <3>3 DEF Store!Create, Store!End, outcomes
    <3>. QED
      BY <2>5, <3>4 DEF StoreStep, Store!StoreNext
  <2>8. CASE ~Changes(t)
    <3>2. Committed' = {}
      BY <2>4, <2>5, <2>8, <2>9
    <3>3. outcomes[t] = "running" /\ outcomes' = [outcomes EXCEPT ![t] = "touched"]
      BY <2>1, <2>2, <2>8, <1>0, EndsTransaction DEF Ended
    <3>4. Store!Create(t)
      BY <2>6, <3>2, <3>3 DEF Store!Create, Store!End, outcomes
    <3>. QED
      BY <2>5, <3>4 DEF StoreStep, Store!StoreNext
  <2>. QED
    BY <2>7, <2>8
<1>5. CASE CommitReplace(t)
  <2>1. /\ pc[t] = "active" /\ pc' = [pc EXCEPT ![t] = "replace"]
        /\ UNCHANGED <<cache, heap, tasks, entity, version, iteration>>
    BY <1>5 DEF CommitReplace, End
  <2>2. Inv' /\ Committed' = Committed
    BY <2>1, <1>0, QuietKeepsInv DEF Ended, TypeOK
  <2>3. outcomes' = outcomes
    BY <2>1, <1>0, KeepsRunning DEF Ended
  <2>. QED
    BY <2>2, <2>3 DEF StoreStep
<1>. QED
  BY <1>1, <1>2, <1>3, <1>4, <1>5

\* replace(): the entry is replaced only by an entity that shows every committed
\* change.
LEMMA ReplaceSimulates ==
  ASSUME Inv, NEW t \in Txs, Replace(t) \/ Reload(t) \/ Drop(t)
  PROVE  Inv' /\ StoreStep
<1>0. TypeOK
  BY DEF Inv
<1>1. CASE Replace(t)
  <2>0. /\ pc[t] = "replace" /\ iteration' = [iteration EXCEPT ![t] = @ + 1]
        /\ iteration[t] < Retries /\ UNCHANGED <<heap, tasks, entity, version>>
    BY <1>1 DEF Replace
  <2>1. iteration' \in [Txs -> 0..Retries]
    BY <2>0, <1>0, BoundsAssumption DEF TypeOK
  <2>2. Working(t) /\ pc[t] \notin Ended
    BY <2>0 DEF Working, Ended
  <2>3. CASE cache # Absent /\ cache.version = version[t]
    <3>1. /\ cache' = [version |-> t, entity |-> entity[t]]
          /\ pc' = [pc EXCEPT ![t] = IF Changes(t) THEN "changed" ELSE "touched"]
      BY <1>1, <2>3 DEF Replace, End
    <3>2. Inv' /\ Committed' = Seen(entity[t]) \cup (IF Changes(t) THEN {t} ELSE {})
      BY <2>0, <2>1, <2>2, <3>1, PublishKeepsInv
    <3>3. Seen(entity[t]) = Seen(cache.entity)
      BY <2>2, <2>3 DEF Inv, SameCommitted
    <3>4. Committed # Absent /\ Committed = Seen(cache.entity)
      BY <1>0, <2>3, CommittedAbsent
    <3>5. CASE Changes(t)
      <4>2. Committed' = Committed \cup {t}
        BY <3>2, <3>3, <3>4, <3>5
      <4>3. outcomes[t] = "running" /\ outcomes' = [outcomes EXCEPT ![t] = "changed"]
        BY <2>2, <3>1, <3>5, <1>0, EndsTransaction DEF Ended
      <4>4. Store!Change(t)
        BY <3>4, <4>2, <4>3 DEF Store!Change, Store!End, outcomes
      <4>. QED
        BY <3>2, <4>4 DEF StoreStep, Store!StoreNext
    <3>6. CASE ~Changes(t)
      <4>1. Committed' = Committed
        BY <3>2, <3>3, <3>4, <3>6
      <4>2. outcomes[t] = "running" /\ outcomes' = [outcomes EXCEPT ![t] = "touched"]
        BY <2>2, <3>1, <3>6, <1>0, EndsTransaction DEF Ended
      <4>3. Store!Touch(t)
        BY <3>4, <4>1, <4>2 DEF Store!Touch, Store!End, outcomes
      <4>. QED
        BY <3>2, <4>3 DEF StoreStep, Store!StoreNext
    <3>. QED
      BY <3>5, <3>6
  <2>4. CASE ~(cache # Absent /\ cache.version = version[t])
    <3>1. pc' = [pc EXCEPT ![t] = "reload"] /\ UNCHANGED cache
      BY <1>1, <2>4 DEF Replace, End
    <3>2. Inv' /\ Committed' = Committed
      BY <2>0, <2>1, <2>2, <3>1, QuietKeepsInv
    <3>3. outcomes' = outcomes
      BY <2>2, <3>1, <1>0, KeepsRunning
    <3>. QED
      BY <3>2, <3>3 DEF StoreStep
  <2>. QED
    BY <2>3, <2>4
<1>2. CASE Reload(t) /\ cache # Absent
  <2>1. /\ pc[t] = "reload" /\ LoadAndRun(t, ChildUpdates(tasks[t]))
        /\ pc' = [pc EXCEPT ![t] = "replace"] /\ UNCHANGED <<cache, tasks, iteration>>
    BY <1>2 DEF Reload, End
  <2>2. /\ tasks[t] \in Seq(Operation) /\ tasks' = [tasks EXCEPT ![t] = tasks[t]]
        /\ Len(tasks[t]) <= MaxTasks
    BY <2>1, <1>0 DEF TypeOK, Inv, TasksInv
  <2>3. ChildUpdates(tasks[t]) \in SUBSET (1..MaxTasks)
    BY <2>2, ChildUpdatesReplace
  <2>5. Inv' /\ Committed' = Committed
    BY <1>2, <2>1, <2>2, <2>3, LoadKeepsInv
  <2>6. outcomes' = outcomes
    BY <2>1, <1>0, KeepsRunning DEF Ended
  <2>. QED
    BY <2>5, <2>6 DEF StoreStep
<1>3. CASE Reload(t) /\ cache = Absent
  <2>1. /\ pc[t] = "reload" /\ pc' = [pc EXCEPT ![t] = "ignored"]
        /\ UNCHANGED <<cache, heap, tasks, entity, version, iteration>>
    BY <1>3 DEF Reload, End
  <2>2. Inv' /\ Committed' = Committed
    BY <2>1, <1>0, QuietKeepsInv DEF Ended, TypeOK
  <2>3. outcomes[t] = "running" /\ outcomes' = [outcomes EXCEPT ![t] = "ignored"]
    BY <2>1, <1>0, EndsTransaction DEF Ended
  <2>4. Committed = Absent
    BY <1>0, <1>3, CommittedAbsent
  <2>5. Store!Ignore(t)
    BY <2>2, <2>3, <2>4 DEF Store!Ignore, Store!End, outcomes
  <2>. QED
    BY <2>2, <2>5 DEF StoreStep, Store!StoreNext
<1>4. CASE Drop(t)
  <2>1. /\ pc[t] = "replace" /\ pc' = [pc EXCEPT ![t] = "dropped"]
        /\ UNCHANGED <<cache, heap, tasks, entity, version, iteration>>
    BY <1>4 DEF Drop, End
  <2>2. Inv' /\ Committed' = Committed
    BY <2>1, <1>0, QuietKeepsInv DEF Ended, TypeOK
  <2>3. outcomes[t] = "running" /\ outcomes' = [outcomes EXCEPT ![t] = "dropped"]
    BY <2>1, <1>0, EndsTransaction DEF Ended
  <2>4. Store!GiveUp(t)
    BY <2>2, <2>3 DEF Store!GiveUp, Store!End, outcomes
  <2>. QED
    BY <2>2, <2>4 DEF StoreStep, Store!StoreNext
<1>. QED
  BY <1>1, <1>2, <1>3, <1>4

\* The entry expires, or nothing happens.
LEMMA ExpirySimulates ==
  ASSUME Inv, Expire \/ UNCHANGED vars
  PROVE  Inv' /\ StoreStep
<1>0. TypeOK
  BY DEF Inv
<1>1. CASE Expire
  <2>1. cache' = Absent /\ UNCHANGED <<heap, pc, tasks, entity, version, iteration>>
    BY <1>1 DEF Expire
  <2>2. TypeOK'
    BY <2>1, <1>0 DEF TypeOK
  <2>3. CacheSettled' /\ SameCommitted'
    BY <2>1 DEF CacheSettled, SameCommitted
  <2>4. OwnOrSettled' /\ UpdatesRun'
    BY <2>1 DEF Inv, OwnOrSettled, UpdatesRun, Working, Settled, Due
  <2>5. NewEntity' /\ TasksInv'
    BY <2>1 DEF Inv, NewEntity, Creating, TasksInv, Changes
  <2>6. Committed' = Absent /\ outcomes' = outcomes
    BY <2>1 DEF Committed, outcomes
  <2>7. Store!Expire
    BY <2>6 DEF Store!Expire, outcomes
  <2>. QED
    BY <2>2, <2>3, <2>4, <2>5, <2>7 DEF Inv, StoreStep, Store!StoreNext
<1>2. CASE UNCHANGED vars
  <2>1. UNCHANGED <<cache, heap, pc, tasks, entity, version, iteration>>
    BY <1>2 DEF vars
  <2>2. TypeOK' /\ CacheSettled' /\ NewEntity' /\ TasksInv'
    BY <2>1 DEF Inv, TypeOK, CacheSettled, Settled, NewEntity, Creating, TasksInv, Changes
  <2>3. OwnOrSettled' /\ UpdatesRun'
    BY <2>1 DEF Inv, OwnOrSettled, UpdatesRun, Working, Settled, Due
  <2>5. SameCommitted'
    BY <2>1 DEF Inv, SameCommitted, Working, Seen, Shows, Changed
  <2>4. UNCHANGED <<Committed, outcomes>>
    BY <2>1 DEF Committed, Shows, outcomes
  <2>. QED
    BY <2>2, <2>3, <2>4, <2>5 DEF Inv, StoreStep
<1>. QED
  BY <1>1, <1>2

\* Every step of the transactions is a step of the store, or changes nothing there.
LEMMA StepSimulates ==
  ASSUME Inv, [Next]_vars
  PROVE  Inv' /\ StoreStep
<1>1. CASE Expire \/ UNCHANGED vars
  BY <1>1, ExpirySimulates
<1>2. ASSUME NEW t \in Txs, TxStep(t)
      PROVE  Inv' /\ StoreStep
  <2>0. "REPLACE" \in Operation
    BY DEF Operation
  <2>1. CASE Get(t) \/ AddNewEntity(t)
    BY <2>0, <2>1, CollectSimulates
  <2>2. CASE \E op \in Operation : AddFirstTask(t, op) \/ AddTask(t, op)
    BY <2>2, CollectSimulates
  <2>3. CASE Rollback(t) \/ CommitRemove(t) \/ CommitAddIfAbsent(t) \/ CommitReplace(t)
    BY <2>3, CommitSimulates
  <2>4. CASE Replace(t) \/ Reload(t) \/ Drop(t)
    BY <2>4, ReplaceSimulates
  <2>. QED
    BY <1>2, <2>1, <2>2, <2>3, <2>4 DEF TxStep
<1>. QED
  BY <1>1, <1>2 DEF Next

\* The caches start as a store in which nobody has done anything.
LEMMA InitSimulates == Init => Store!StoreInit
<1>. SUFFICES ASSUME Init PROVE Store!StoreInit
  OBVIOUS
<1>1. pc = [t \in Txs |-> "open"]
  BY DEF Init
<1>2. outcomes = [t \in Txs |-> "running"]
  BY <1>1 DEF outcomes, Ended
<1>3. Committed \in {Absent, {}}
  <2>1. TypeOK
    BY InvInit DEF Inv
  <2>2. CASE cache = Absent
    BY <2>2 DEF Committed
  <2>3. CASE cache # Absent
    <3>1. Changed = {} /\ Seen(cache.entity) = {}
      BY <1>1 DEF Changed, Seen
    <3>. QED
      BY <2>1, <2>3, <3>1, CommittedAbsent
  <2>. QED
    BY <2>2, <2>3
<1>. QED
  BY <1>2, <1>3 DEF Store!StoreInit, outcomes

-----------------------------------------------------------------------------
(* Lost races *)

Published == {u \in Txs : pc[u] \in {"changed", "touched"}}
Races == Cardinality(Published)

\* A transaction whose version is one it has read.
Attempting(t) ==
    \/ pc[t] = "replace"
    \/ pc[t] = "active" /\ \A k \in DOMAIN tasks[t] : tasks[t][k] # "ADD_IF_ABSENT"

\* Every attempt of t that has failed, and the next one if the version it has read
\* is no longer the current one, is paid for by an entry that somebody has put.
Paid(t) ==
    /\ pc[t] \in {"open", "active"} => iteration[t] = 0
    /\ Attempting(t) =>
         /\ Races >= iteration[t]
         /\ cache # Absent /\ cache.version # version[t] => Races >= iteration[t] + 1
    /\ pc[t] = "reload" =>
         /\ Races + 1 >= iteration[t]
         /\ cache # Absent => Races >= iteration[t]
    /\ pc[t] = "dropped" => Races >= Retries

AllPaid == IsFiniteSet(Published) /\ \A t \in Txs : Paid(t)

\* Nobody has put an entry and nobody has tried.
LEMMA AllPaidInit == Init => AllPaid
<1>. SUFFICES ASSUME Init PROVE AllPaid
  OBVIOUS
<1>1. Published = {}
  BY DEF Init, Published
<1>2. IsFiniteSet(Published) /\ Races = 0
  BY <1>1, FS_EmptySet DEF Races
<1>3. ASSUME NEW t \in Txs PROVE Paid(t)
  BY <1>2 DEF Init, Paid, Attempting
<1>. QED
  BY <1>2, <1>3 DEF AllPaid

\* A step of t that puts no entry, and leaves the entry or removes it, costs the
\* others nothing.
LEMMA QuietKeepsPaid ==
  ASSUME Inv, AllPaid, NEW t \in Txs, pc[t] \notin Ended,
         NEW new \in {"active", "replace", "reload", "removed", "ignored", "dropped", "rolledBack"},
         pc' = [pc EXCEPT ![t] = new], cache' = cache \/ cache' = Absent,
         \A u \in Txs \ {t} : tasks'[u] = tasks[u] /\ version'[u] = version[u] /\ iteration'[u] = iteration[u],
         Paid(t)'
  PROVE  AllPaid'
<1>0. TypeOK
  BY DEF Inv
<1>1. Published' = Published
  BY <1>0 DEF Published, TypeOK, Ended
<1>2. Races' = Races
  BY <1>1 DEF Races
<1>3. ASSUME NEW u \in Txs, u # t PROVE Paid(u)'
  <2>1. pc'[u] = pc[u] /\ tasks'[u] = tasks[u] /\ version'[u] = version[u] /\ iteration'[u] = iteration[u]
    BY <1>0, <1>3 DEF TypeOK
  <2>2. Paid(u)
    BY DEF AllPaid
  <2>. QED
    BY <2>1, <2>2, <1>2 DEF Paid, Attempting
<1>. QED
  BY <1>1, <1>3 DEF AllPaid

\* An entry that t puts pays for one attempt of every other transaction.
LEMMA PublishKeepsPaid ==
  ASSUME Inv, AllPaid, NEW t \in Txs, pc[t] \notin Ended,
         NEW new \in {"changed", "touched"}, pc' = [pc EXCEPT ![t] = new],
         UNCHANGED <<tasks, version>>,
         \A u \in Txs \ {t} : iteration'[u] = iteration[u]
  PROVE  AllPaid'
<1>0. TypeOK
  BY DEF Inv
<1>1. Published' = Published \cup {t} /\ t \notin Published
  BY <1>0 DEF Published, TypeOK, Ended
<1>2. IsFiniteSet(Published') /\ Races' = Races + 1 /\ Races \in Nat
  BY <1>1, FS_AddElement, FS_CardinalityType DEF AllPaid, Races
<1>3. ASSUME NEW u \in Txs, u # t PROVE Paid(u)'
  <2>1. pc'[u] = pc[u] /\ tasks'[u] = tasks[u] /\ version'[u] = version[u] /\ iteration'[u] = iteration[u]
    BY <1>0, <1>3 DEF TypeOK
  <2>2. Paid(u) /\ iteration[u] \in Nat
    BY <1>0, BoundsAssumption DEF AllPaid, TypeOK
  <2>3. Attempting(u)' => Attempting(u)
    BY <2>1 DEF Attempting
  <2>. QED
    BY <2>1, <2>2, <2>3, <1>2, BoundsAssumption DEF Paid
<1>4. Paid(t)'
  BY <1>0 DEF Paid, Attempting, TypeOK
<1>. QED
  BY <1>2, <1>3, <1>4 DEF AllPaid

\* get and addTask: the version read is the current one.
LEMMA CollectPaid ==
  ASSUME Inv, AllPaid, NEW t \in Txs, NEW op \in Operation,
         Get(t) \/ AddFirstTask(t, op) \/ AddNewEntity(t) \/ AddTask(t, op)
  PROVE  AllPaid'
<1>0. TypeOK
  BY DEF Inv
<1>1. Paid(t) /\ Races \in Nat
  BY FS_CardinalityType DEF AllPaid, Races
<1>2. CASE Get(t) \/ (AddFirstTask(t, op) /\ cache # Absent)
  <2>1. /\ pc[t] = "open" /\ pc' = [pc EXCEPT ![t] = "active"] /\ UNCHANGED <<cache, iteration>>
        /\ version' = [version EXCEPT ![t] = cache.version]
        /\ \A u \in Txs \ {t} : tasks'[u] = tasks[u]
    BY <1>0, <1>2 DEF Get, AddFirstTask, LoadAndRun, TypeOK
  <2>2. pc'[t] = "active" /\ version'[t] = cache.version /\ iteration'[t] = 0
        /\ \A u \in Txs \ {t} : version'[u] = version[u]
    BY <2>1, <1>0, <1>1 DEF TypeOK, Paid
  <2>3. Published' = Published
    BY <2>1, <1>0 DEF Published, TypeOK
  <2>4. Paid(t)'
    BY <2>1, <2>2, <2>3, <1>1 DEF Paid, Attempting, Races
  <2>. QED
    BY <2>1, <2>2, <2>4, QuietKeepsPaid DEF Ended
<1>3. CASE AddFirstTask(t, op) /\ cache = Absent
  <2>1. /\ pc[t] = "open" /\ pc' = [pc EXCEPT ![t] = "ignored"]
        /\ UNCHANGED <<cache, iteration, tasks, version>>
    BY <1>3 DEF AddFirstTask, End
  <2>2. Paid(t)'
    BY <2>1, <1>0 DEF Paid, Attempting, TypeOK
  <2>. QED
    BY <2>1, <2>2, QuietKeepsPaid DEF Ended
<1>4. CASE AddNewEntity(t)
  <2>1. /\ pc[t] = "open" /\ pc' = [pc EXCEPT ![t] = "active"] /\ UNCHANGED <<cache, iteration>>
        /\ \A u \in Txs \ {t} : tasks'[u] = tasks[u] /\ version'[u] = version[u]
    BY <1>0, <1>4 DEF AddNewEntity, TypeOK
  <2>2. tasks'[t] = <<"ADD_IF_ABSENT">> /\ pc'[t] = "active"
    BY <1>0, <1>4 DEF AddNewEntity, TypeOK
  <2>3. ~Attempting(t)'
    BY <2>2 DEF Attempting
  <2>4. Paid(t)'
    BY <2>1, <2>2, <2>3, <1>1 DEF Paid
  <2>. QED
    BY <2>1, <2>4, QuietKeepsPaid DEF Ended
<1>5. CASE AddTask(t, op)
  <2>1. /\ pc[t] = "active" /\ UNCHANGED <<cache, pc, version, iteration>>
        /\ tasks' = [tasks EXCEPT ![t] = Append(@, op)]
    BY <1>5 DEF AddTask
  <2>2. tasks'[t] = Append(tasks[t], op) /\ tasks[t] \in Seq(Operation)
        /\ \A u \in Txs \ {t} : tasks'[u] = tasks[u]
    BY <2>1, <1>0 DEF TypeOK
  <2>3. \A k \in DOMAIN tasks[t] : k \in DOMAIN tasks'[t] /\ tasks'[t][k] = tasks[t][k]
    BY <2>2
  <2>4. Attempting(t)' => Attempting(t)
    BY <2>1, <2>3 DEF Attempting
  <2>5. Races' = Races
    BY <2>1 DEF Races, Published
  <2>6. Paid(t)'
    BY <2>1, <2>4, <2>5, <1>1 DEF Paid
  <2>7. pc' = [pc EXCEPT ![t] = "active"]
    BY <2>1, <1>0 DEF TypeOK
  <2>. QED
    BY <2>1, <2>2, <2>6, <2>7, QuietKeepsPaid DEF Ended
<1>. QED
  BY <1>2, <1>3, <1>4, <1>5

\* A task list without ADD_IF_ABSENT is what a merged REPLACE comes from: the task
\* of a new entity comes first.
FirstIsNew ==
    \A t \in Txs : pc[t] = "active" =>
        \A k \in DOMAIN tasks[t] : tasks[t][k] = "ADD_IF_ABSENT" => k = 1

\* ADD_IF_ABSENT is only ever the first task.
LEMMA FirstIsNewStep ==
  ASSUME Inv, FirstIsNew, [Next]_vars
  PROVE  FirstIsNew'
<1>0. TypeOK
  BY DEF Inv
<1>1. CASE Expire \/ UNCHANGED vars
  BY <1>1 DEF Expire, vars, FirstIsNew
<1>2. ASSUME NEW t \in Txs, TxStep(t) PROVE FirstIsNew'
  <2>. SUFFICES ASSUME NEW u \in Txs, pc'[u] = "active", NEW k \in DOMAIN tasks'[u],
                       tasks'[u][k] = "ADD_IF_ABSENT"
                PROVE  k = 1
    BY DEF FirstIsNew
  <2>1. CASE Get(t)
    BY <2>1, <1>0 DEF Get, Inv, TasksInv, FirstIsNew, TypeOK
  <2>2. ASSUME NEW op \in Operation, AddFirstTask(t, op) PROVE k = 1
    <3>1. CASE u = t
      <4>1. pc' = [pc EXCEPT ![t] = "active"] /\ tasks' = [tasks EXCEPT ![t] = <<op>>]
        BY <2>2, <3>1, <1>0 DEF AddFirstTask, End, TypeOK
      <4>. QED
        BY <4>1, <3>1, <1>0 DEF TypeOK
    <3>2. CASE u # t
      <4>1. pc'[u] = pc[u] /\ tasks'[u] = tasks[u]
        BY <2>2, <3>2, <1>0 DEF AddFirstTask, End, TypeOK
      <4>. QED
        BY <4>1 DEF FirstIsNew
    <3>. QED
      BY <3>1, <3>2
  <2>3. ASSUME NEW op \in Operation, AddTask(t, op) PROVE k = 1
    <3>1. CASE u # t
      BY <2>3, <3>1, <1>0 DEF AddTask, FirstIsNew, TypeOK
    <3>2. CASE u = t
      <4>1. /\ tasks[t] \in Seq(Operation) /\ tasks'[t] = Append(tasks[t], op)
            /\ op # "ADD_IF_ABSENT" /\ pc[t] = "active"
        BY <2>3, <1>0 DEF AddTask, TypeOK
      <4>2. k \in DOMAIN tasks[t] /\ tasks[t][k] = "ADD_IF_ABSENT"
        BY <3>2, <4>1
      <4>. QED
        BY <4>1, <4>2 DEF FirstIsNew
    <3>. QED
      BY <3>1, <3>2
  <2>4. CASE AddNewEntity(t)
    BY <2>4, <1>0 DEF AddNewEntity, FirstIsNew, TypeOK
  <2>5. CASE UNCHANGED tasks /\ pc' = [pc EXCEPT ![t] = pc'[t]] /\ pc'[t] # "active"
    BY <2>5, <1>0 DEF FirstIsNew, TypeOK
  <2>6. CASE Rollback(t) \/ CommitRemove(t) \/ CommitAddIfAbsent(t) \/ CommitReplace(t)
    BY <2>5, <2>6, <1>0 DEF Rollback, CommitRemove, CommitAddIfAbsent, CommitReplace, End, TypeOK
  <2>7. CASE Replace(t) \/ Reload(t) \/ Drop(t)
    BY <2>5, <2>7, <1>0 DEF Replace, Reload, Drop, End, TypeOK
  <2>. QED
    BY <1>2, <2>1, <2>2, <2>3, <2>4, <2>6, <2>7 DEF TxStep
<1>. QED
  BY <1>1, <1>2 DEF Next

\* commitImpl: only a transaction that has read its version starts to replace.
LEMMA CommitPaid ==
  ASSUME Inv, FirstIsNew, AllPaid, NEW t \in Txs,
         Rollback(t) \/ CommitRemove(t) \/ CommitAddIfAbsent(t) \/ CommitReplace(t)
  PROVE  AllPaid'
<1>0. TypeOK
  BY DEF Inv
<1>1. Paid(t) /\ Races \in Nat
  BY FS_CardinalityType DEF AllPaid, Races
<1>2. CASE Rollback(t) \/ CommitRemove(t)
  <2>1. PICK new \in {"rolledBack", "removed"} : pc' = [pc EXCEPT ![t] = new]
    BY <1>2 DEF Rollback, CommitRemove, End
  <2>2. pc[t] \in {"open", "active"} /\ UNCHANGED <<tasks, version, iteration>>
        /\ (cache' = cache \/ cache' = Absent)
    BY <1>2 DEF Rollback, CommitRemove
  <2>3. Paid(t)'
    BY <2>1, <1>0 DEF Paid, Attempting, TypeOK
  <2>. QED
    BY <2>1, <2>2, <2>3, QuietKeepsPaid DEF Ended
<1>3. CASE CommitAddIfAbsent(t) /\ cache # Absent
  <2>1. /\ pc[t] = "active" /\ pc' = [pc EXCEPT ![t] = "replace"]
        /\ UNCHANGED <<cache, tasks, iteration>>
        /\ version' = [version EXCEPT ![t] = cache.version]
    BY <1>3 DEF CommitAddIfAbsent, LoadAndRun, End
  <2>2. pc'[t] = "replace" /\ version'[t] = cache.version /\ iteration'[t] = 0
        /\ \A u \in Txs \ {t} : version'[u] = version[u]
    BY <2>1, <1>0, <1>1 DEF TypeOK, Paid
  <2>3. Published' = Published
    BY <2>1, <1>0 DEF Published, TypeOK
  <2>4. Paid(t)'
    BY <2>1, <2>2, <2>3, <1>1 DEF Paid, Attempting, Races
  <2>. QED
    BY <2>1, <2>2, <2>4, QuietKeepsPaid DEF Ended
<1>4. CASE CommitAddIfAbsent(t) /\ cache = Absent
  <2>1. PICK new \in {"changed", "touched"} : pc' = [pc EXCEPT ![t] = new]
    BY <1>4 DEF CommitAddIfAbsent, End
  <2>2. pc[t] = "active" /\ UNCHANGED <<tasks, version, iteration>>
    BY <1>4 DEF CommitAddIfAbsent
  <2>. QED
    BY <2>1, <2>2, PublishKeepsPaid DEF Ended
<1>5. CASE CommitReplace(t)
  <2>1. /\ pc[t] = "active" /\ pc' = [pc EXCEPT ![t] = "replace"]
        /\ UNCHANGED <<cache, tasks, version, iteration>>
        /\ tasks[t] # <<>> /\ MergedOperation(tasks[t]) = "REPLACE"
    BY <1>5 DEF CommitReplace, End
  <2>2. \A k \in DOMAIN tasks[t] : tasks[t][k] # "ADD_IF_ABSENT"
    <3>1. tasks[t] \in Seq(Operation) /\ Len(tasks[t]) >= 1 /\ DOMAIN tasks[t] = 1..Len(tasks[t])
      BY <2>1, <1>0 DEF TypeOK
    <3>2. tasks[t][1] # "ADD_IF_ABSENT"
      BY <2>1, <3>1 DEF MergedOperation
    <3>. QED
      BY <2>1, <3>2 DEF FirstIsNew
  <2>3. Attempting(t) /\ pc'[t] = "replace"
    BY <2>1, <2>2, <1>0 DEF Attempting, TypeOK
  <2>4. Races' = Races
    BY <2>1, <1>0 DEF Published, Races, TypeOK
  <2>5. Paid(t)'
    BY <2>1, <2>3, <2>4, <1>1 DEF Paid
  <2>. QED
    BY <2>1, <2>5, QuietKeepsPaid DEF Ended
<1>. QED
  BY <1>2, <1>3, <1>4, <1>5

\* replace(): a failed attempt has lost to an entry that was put after the version
\* was read, and the reload that follows finds an entry.
LEMMA ReplacePaid ==
  ASSUME Inv, AllPaid, NEW t \in Txs, Replace(t) \/ Reload(t) \/ Drop(t)
  PROVE  AllPaid'
<1>0. TypeOK
  BY DEF Inv
<1>1. Paid(t) /\ Races \in Nat /\ iteration[t] \in Nat
  BY <1>0, FS_CardinalityType, BoundsAssumption DEF AllPaid, Races, TypeOK
<1>2. CASE Replace(t)
  <2>1. /\ pc[t] = "replace" /\ iteration'[t] = iteration[t] + 1
        /\ \A u \in Txs \ {t} : iteration'[u] = iteration[u]
        /\ UNCHANGED <<tasks, version>>
    BY <1>0, <1>2 DEF Replace, TypeOK
  <2>2. CASE cache # Absent /\ cache.version = version[t]
    <3>1. PICK new \in {"changed", "touched"} : pc' = [pc EXCEPT ![t] = new]
      BY <1>2, <2>2 DEF Replace, End
    <3>. QED
      BY <2>1, <3>1, PublishKeepsPaid DEF Ended
  <2>3. CASE ~(cache # Absent /\ cache.version = version[t])
    <3>1. pc' = [pc EXCEPT ![t] = "reload"] /\ cache' = cache
      BY <1>2, <2>3 DEF Replace, End
    <3>2. Races >= iteration[t] /\ (cache # Absent => Races >= iteration[t] + 1)
      BY <2>1, <2>3, <1>1 DEF Paid, Attempting
    <3>3. Races' = Races /\ pc'[t] = "reload"
      BY <2>1, <3>1, <1>0 DEF Races, Published, TypeOK
    <3>4. Paid(t)'
      BY <2>1, <3>1, <3>2, <3>3, <1>1 DEF Paid, Attempting
    <3>. QED
      BY <2>1, <3>1, <3>4, QuietKeepsPaid DEF Ended
  <2>. QED
    BY <2>2, <2>3
<1>3. CASE Reload(t) /\ cache # Absent
  <2>1. /\ pc[t] = "reload" /\ pc' = [pc EXCEPT ![t] = "replace"]
        /\ UNCHANGED <<cache, tasks, iteration>>
        /\ version' = [version EXCEPT ![t] = cache.version]
    BY <1>3 DEF Reload, LoadAndRun, End
  <2>2. pc'[t] = "replace" /\ version'[t] = cache.version
        /\ \A u \in Txs \ {t} : version'[u] = version[u]
    BY <2>1, <1>0 DEF TypeOK
  <2>3. Races' = Races
    BY <2>1, <1>0 DEF Races, Published, TypeOK
  <2>4. Paid(t)'
    BY <1>3, <2>1, <2>2, <2>3, <1>1 DEF Paid, Attempting
  <2>. QED
    BY <2>1, <2>2, <2>4, QuietKeepsPaid DEF Ended
<1>4. CASE Reload(t) /\ cache = Absent
  <2>1. /\ pc[t] = "reload" /\ pc' = [pc EXCEPT ![t] = "ignored"]
        /\ UNCHANGED <<cache, tasks, version, iteration>>
    BY <1>4 DEF Reload, End
  <2>2. Paid(t)'
    BY <2>1, <1>0 DEF Paid, Attempting, TypeOK
  <2>. QED
    BY <2>1, <2>2, QuietKeepsPaid DEF Ended
<1>5. CASE Drop(t)
  <2>1. /\ pc[t] = "replace" /\ pc' = [pc EXCEPT ![t] = "dropped"] /\ iteration[t] = Retries
        /\ UNCHANGED <<cache, tasks, version, iteration>>
    BY <1>5 DEF Drop, End
  <2>2. Races' = Races /\ pc'[t] = "dropped"
    BY <2>1, <1>0 DEF Races, Published, TypeOK
  <2>3. Paid(t)'
    BY <2>1, <2>2, <1>1 DEF Paid, Attempting
  <2>. QED
    BY <2>1, <2>3, QuietKeepsPaid DEF Ended
<1>. QED
  BY <1>2, <1>3, <1>4, <1>5

\* Every step leaves every failed attempt paid for.
LEMMA StepPaid ==
  ASSUME Inv, FirstIsNew, AllPaid, [Next]_vars
  PROVE  AllPaid'
<1>1. CASE Expire \/ UNCHANGED vars
  <2>1. UNCHANGED <<pc, tasks, version, iteration>> /\ (cache' = cache \/ cache' = Absent)
    BY <1>1 DEF Expire, vars
  <2>2. Published' = Published /\ Races' = Races
    BY <2>1 DEF Published, Races
  <2>. QED
    BY <2>1, <2>2 DEF AllPaid, Paid, Attempting
<1>2. ASSUME NEW t \in Txs, TxStep(t) PROVE AllPaid'
  <2>0. "REPLACE" \in Operation
    BY DEF Operation
  <2>1. CASE Get(t) \/ AddNewEntity(t)
    BY <2>0, <2>1, CollectPaid
  <2>2. CASE \E op \in Operation : AddFirstTask(t, op) \/ AddTask(t, op)
    BY <2>2, CollectPaid
  <2>3. CASE Rollback(t) \/ CommitRemove(t) \/ CommitAddIfAbsent(t) \/ CommitReplace(t)
    BY <2>3, CommitPaid
  <2>4. CASE Replace(t) \/ Reload(t) \/ Drop(t)
    BY <2>4, ReplacePaid
  <2>. QED
    BY <1>2, <2>1, <2>2, <2>3, <2>4 DEF TxStep
<1>. QED
  BY <1>1, <1>2 DEF Next

-----------------------------------------------------------------------------
(* Repeated updates *)

\* How often an update of t may have been run on one entity.
Bound(t) ==
    IF t \notin Local THEN 1
    ELSE IF pc[t] = "reload" THEN iteration[t]
    ELSE 1 + Lost(t)

\* The entity at hand is one that nobody else works on yet.
Private(t) == Creating(t) \/ (t \notin Local /\ pc[t] \notin Ended)

\* No run beyond the bound; none of a task that is still to come, and none outside
\* a private entity.
RunsOf(t) ==
    /\ \A n \in Names : \A k \in 1..MaxTasks : heap[n][t][k] <= Bound(t)
    /\ pc[t] \in {"open", "active"} =>
         /\ iteration[t] = 0
         /\ \A n \in Names : \A k \in 1..MaxTasks : k > Len(tasks[t]) => heap[n][t][k] = 0
    /\ Private(t) => \A n \in Names \ {t} : \A k \in 1..MaxTasks : heap[n][t][k] = 0
    /\ t \notin Local /\ Working(t) => entity[t] = t

AllRuns == \A t \in Txs : RunsOf(t)

\* A step of another transaction leaves the runs of u, or copies those of an entity
\* that has been published.
LEMMA OthersKeepRuns ==
  ASSUME Inv, NEW u \in Txs, RunsOf(u), pc'[u] = pc[u], tasks'[u] = tasks[u],
         iteration'[u] = iteration[u], entity'[u] = entity[u],
         \A n \in Names : \E m \in Names : (m = n \/ Settled(m)) /\ heap'[n][u] = heap[m][u]
  PROVE  RunsOf(u)'
<1>0. TypeOK
  BY DEF Inv
<1>1. Bound(u)' = Bound(u) /\ (Private(u)' <=> Private(u)) /\ (Working(u)' <=> Working(u))
  BY DEF Bound, Lost, Private, Creating, Working
<1>2. ASSUME NEW n \in Names, NEW k \in 1..MaxTasks PROVE heap'[n][u][k] <= Bound(u)
  BY DEF RunsOf
<1>3. ASSUME NEW n \in Names, NEW k \in 1..MaxTasks, k > Len(tasks[u]), pc[u] \in {"open", "active"}
      PROVE  heap'[n][u][k] = 0
  BY <1>3 DEF RunsOf
<1>4. ASSUME NEW n \in Names \ {u}, NEW k \in 1..MaxTasks, Private(u)
      PROVE  heap'[n][u][k] = 0
  <2>1. ~Settled(u)
    BY <1>4, TxsAssumption DEF Private, Creating, Ended, Settled
  <2>2. PICK m \in Names : (m = n \/ Settled(m)) /\ heap'[n][u] = heap[m][u]
    OBVIOUS
  <2>3. m # u
    BY <2>1, <2>2, <1>4
  <2>. QED
    BY <2>2, <2>3, <1>4 DEF RunsOf
<1>. QED
  BY <1>1, <1>2, <1>3, <1>4 DEF RunsOf

\* A step that runs nothing and does not change the tasks.
LEMMA QuietKeepsRuns ==
  ASSUME Inv, AllRuns, NEW t \in Txs, pc[t] \notin Ended, pc' = [pc EXCEPT ![t] = pc'[t]],
         pc'[t] \in Ended \cup {"replace", "reload"}, UNCHANGED <<heap, tasks, entity>>,
         \/ pc[t] = "active" /\ pc'[t] = "replace"
         \/ pc'[t] \in Ended
         \/ pc[t] = "replace" /\ pc'[t] = "reload",
         \A u \in Txs \ {t} : iteration'[u] = iteration[u],
         iteration'[t] = IF pc[t] = "replace" /\ pc'[t] # "dropped" THEN iteration[t] + 1 ELSE iteration[t]
  PROVE  AllRuns'
<1>0. TypeOK
  BY DEF Inv
<1>1. ASSUME NEW u \in Txs, u # t PROVE RunsOf(u)'
  <2>1. pc'[u] = pc[u] /\ iteration'[u] = iteration[u]
    BY <1>0, <1>1 DEF TypeOK
  <2>. QED
    BY <2>1, OthersKeepRuns DEF AllRuns
<1>2. RunsOf(t)'
  <2>1. RunsOf(t) /\ iteration[t] \in Nat
    BY <1>0, BoundsAssumption DEF AllRuns, TypeOK
  <2>2. Bound(t) \in Int /\ Bound(t)' \in Int /\ Bound(t) <= Bound(t)'
    <3>1. pc[t] \in {"open", "active", "replace", "reload"}
      BY <1>0 DEF TypeOK
    <3>2. CASE t \notin Local
      BY <3>2 DEF Bound
    <3>3. CASE t \in Local /\ pc[t] \in {"open", "active"}
      <4>1. iteration[t] = 0 /\ iteration'[t] = 0 /\ pc'[t] # "reload"
        BY <3>3, <2>1 DEF RunsOf, Ended
      <4>. QED
        BY <3>3, <4>1 DEF Bound, Lost
    <3>4. CASE t \in Local /\ pc[t] = "reload"
      <4>1. iteration'[t] = iteration[t] /\ pc'[t] # "reload"
        BY <3>4 DEF Ended
      <4>. QED
        BY <3>4, <4>1, <2>1 DEF Bound, Lost
    <3>5. CASE t \in Local /\ pc[t] = "replace"
      <4>1. Bound(t) = 1 + iteration[t]
        BY <3>5 DEF Bound, Lost
      <4>2. CASE pc'[t] = "dropped"
        BY <3>5, <4>1, <4>2, <2>1 DEF Bound, Lost
      <4>3. CASE pc'[t] # "dropped"
        BY <3>5, <4>1, <4>3, <2>1 DEF Bound, Lost
      <4>. QED
        BY <4>2, <4>3
    <3>. QED
      BY <3>1, <3>2, <3>3, <3>4, <3>5
  <2>3. ASSUME NEW n \in Names, NEW k \in 1..MaxTasks PROVE heap[n][t][k] <= Bound(t)'
    <3>1. heap[n][t][k] \in Nat
      BY <1>0, HeapNat
    <3>. QED
      BY <3>1, <2>1, <2>2 DEF RunsOf
  <2>4. Private(t)' => Private(t)
    BY DEF Private, Creating, Ended
  <2>5. Working(t)' => Working(t)
    BY DEF Working, Ended
  <2>6. pc'[t] \notin {"open", "active"}
    BY DEF Ended
  <2>. QED
    BY <2>1, <2>3, <2>4, <2>5, <2>6 DEF RunsOf
<1>. QED
  BY <1>1, <1>2 DEF AllRuns

\* cache.get and runUpdate: nothing of t had been run on the entity read, unless it
\* is shared and a race has been lost.
LEMMA LoadKeepsRuns ==
  ASSUME Inv, AllRuns, NEW t \in Txs, NEW new \in {"active", "replace"},
         NEW ts \in Seq(Operation), NEW ks \in SUBSET (1..MaxTasks), ks \subseteq 1..Len(ts),
         cache # Absent, LoadAndRun(t, ks),
         \/ pc[t] = "open" /\ new = "active"
         \/ Creating(t) /\ new = "replace"
         \/ pc[t] = "reload" /\ new = "replace",
         new = "active" => \A k \in DOMAIN ts : ts[k] # "ADD_IF_ABSENT",
         pc[t] = "open" => tasks[t] = <<>>,
         tasks' = [tasks EXCEPT ![t] = ts], pc' = [pc EXCEPT ![t] = new],
         UNCHANGED <<cache, iteration>>
  PROVE  AllRuns'
<1>0. TypeOK
  BY DEF Inv
<1>e. PICK e \in Names : e = cache.entity
  BY <1>0 DEF TypeOK
<1>d. PICK d \in Names : d = IF t \in Local THEN e ELSE t
  BY <1>e DEF Names
<1>1. Settled(e) /\ e # t /\ t \in Names
  BY <1>0, <1>e, TxsAssumption DEF Inv, CacheSettled, Settled, TypeOK, Names, Creating
<1>2. /\ entity' = [entity EXCEPT ![t] = d]
      /\ RunStep(t, d, e, ks)
  BY <1>e, <1>d DEF LoadAndRun, RunStep
<1>5. /\ \A n \in Names : n # d => heap'[n] = heap[n]
      /\ \A u \in Txs : u # t => heap'[d][u] = heap[e][u]
      /\ \A k \in 1..MaxTasks : heap'[d][t][k] = heap[e][t][k] + (IF k \in ks THEN 1 ELSE 0)
  BY <1>0, <1>2, RunOnEntity
<1>6. /\ pc'[t] = new /\ tasks'[t] = ts /\ entity'[t] = d
      /\ \A u \in Txs : u # t => pc'[u] = pc[u] /\ tasks'[u] = tasks[u] /\ entity'[u] = entity[u]
  BY <1>0, <1>2 DEF TypeOK
<1>7. ASSUME NEW u \in Txs, u # t PROVE RunsOf(u)'
  <2>1. ASSUME NEW n \in Names
        PROVE  \E m \in Names : (m = n \/ Settled(m)) /\ heap'[n][u] = heap[m][u]
    <3>1. CASE n = d
      BY <3>1, <1>1, <1>5, <1>7
    <3>2. CASE n # d
      BY <3>2, <1>5
    <3>. QED
      BY <3>1, <3>2
  <2>2. RunsOf(u) /\ pc'[u] = pc[u] /\ tasks'[u] = tasks[u] /\ entity'[u] = entity[u]
    BY <1>6, <1>7 DEF AllRuns
  <2>. QED
    BY <2>1, <2>2, OthersKeepRuns
<1>8. RunsOf(t) /\ iteration[t] \in Nat /\ iteration'[t] = iteration[t]
  BY <1>0, BoundsAssumption DEF AllRuns, TypeOK
<1>9. ASSUME NEW n \in Names, NEW k \in 1..MaxTasks PROVE heap[n][t][k] \in Nat
  BY <1>0, HeapNat
<1>10. pc[t] = "open" => iteration[t] = 0 /\ \A n \in Names : \A k \in 1..MaxTasks : heap[n][t][k] = 0
  BY <1>8 DEF RunsOf
<1>11. /\ ~Creating(t)' /\ ~(t \in Local /\ Private(t)')
       /\ Bound(t)' = IF t \in Local THEN 1 + iteration[t] ELSE 1
  BY <1>6, <1>8 DEF Creating, Private, Bound, Lost
<1>12. ASSUME NEW k \in 1..MaxTasks PROVE heap[e][t][k] + 1 <= Bound(t)'
  <2>1. CASE t \in Local /\ pc[t] = "reload"
    BY <2>1, <1>8, <1>9, <1>11 DEF RunsOf, Bound
  <2>2. CASE ~(t \in Local /\ pc[t] = "reload")
    <3>1. pc[t] = "open" \/ Private(t)
      BY <2>2 DEF Private, Creating, Ended
    <3>2. heap[e][t][k] = 0
      BY <3>1, <1>1, <1>8, <1>10 DEF RunsOf
    <3>. QED
      BY <3>2, <1>8, <1>11
  <2>. QED
    BY <2>1, <2>2
<1>13. ASSUME NEW n \in Names, NEW k \in 1..MaxTasks, n # d PROVE heap'[n][t][k] <= Bound(t)'
  <2>1. heap'[n][t][k] = heap[n][t][k] /\ heap[n][t][k] <= Bound(t)
    BY <1>5, <1>8, <1>13 DEF RunsOf
  <2>2. CASE t \in Local /\ pc[t] = "reload"
    BY <2>1, <2>2, <1>8, <1>9, <1>11 DEF Bound
  <2>3. CASE ~(t \in Local /\ pc[t] = "reload")
    <3>1. Bound(t) <= Bound(t)' /\ Bound(t) \in Nat
      BY <2>3, <1>8, <1>11 DEF Bound, Lost, Creating
    <3>. QED
      BY <2>1, <3>1, <1>9, <1>8, <1>11
  <2>. QED
    BY <2>2, <2>3
<1>14. ASSUME NEW n \in Names, NEW k \in 1..MaxTasks PROVE heap'[n][t][k] <= Bound(t)'
  <2>1. CASE n = d
    <3>1. heap'[n][t][k] = heap[e][t][k] + (IF k \in ks THEN 1 ELSE 0)
      BY <2>1, <1>5
    <3>. QED
      BY <3>1, <1>8, <1>9, <1>11, <1>12
  <2>2. CASE n # d
    BY <2>2, <1>13
  <2>. QED
    BY <2>1, <2>2
<1>15. ASSUME pc'[t] \in {"open", "active"}
       PROVE  /\ iteration'[t] = 0
              /\ \A n \in Names : \A k \in 1..MaxTasks : k > Len(tasks'[t]) => heap'[n][t][k] = 0
  <2>1. pc[t] = "open"
    BY <1>6, <1>15
  <2>2. ASSUME NEW n \in Names, NEW k \in 1..MaxTasks, k > Len(ts) PROVE heap'[n][t][k] = 0
    <3>1. k \notin ks
      BY <2>2
    <3>2. CASE n = d
      BY <3>1, <3>2, <2>1, <1>5, <1>10
    <3>3. CASE n # d
      BY <3>3, <2>1, <1>5, <1>10
    <3>. QED
      BY <3>2, <3>3
  <2>. QED
    BY <2>1, <2>2, <1>6, <1>8, <1>10
<1>16. Private(t)' => \A n \in Names \ {t} : \A k \in 1..MaxTasks : heap'[n][t][k] = 0
  <2>. SUFFICES ASSUME Private(t)', NEW n \in Names \ {t}, NEW k \in 1..MaxTasks
                PROVE  heap'[n][t][k] = 0
    OBVIOUS
  <2>1. t \notin Local /\ d = t
    BY <1>11, <1>d
  <2>2. pc[t] = "open" \/ Private(t)
    BY <2>1 DEF Private, Creating, Ended
  <2>3. heap[n][t][k] = 0
    BY <2>2, <1>8, <1>10 DEF RunsOf
  <2>. QED
    BY <2>1, <2>3, <1>5
<1>17. RunsOf(t)'
  BY <1>14, <1>15, <1>16, <1>6, <1>d DEF RunsOf
<1>. QED
  BY <1>7, <1>17 DEF AllRuns

\* addTask for a new entity and for the entity at hand.
LEMMA AddKeepsRuns ==
  ASSUME Inv, AllRuns, NEW t \in Txs, NEW op \in Operation, AddNewEntity(t) \/ AddTask(t, op)
  PROVE  AllRuns'
<1>0. TypeOK
  BY DEF Inv
<1>8. /\ RunsOf(t) /\ iteration[t] = 0 /\ iteration' = iteration
      /\ pc[t] \in {"open", "active"} /\ pc'[t] = "active" /\ t \in Names
  BY <1>0 DEF AllRuns, RunsOf, AddNewEntity, AddTask, TypeOK, Names
<1>9. ASSUME NEW n \in Names, NEW k \in 1..MaxTasks PROVE heap[n][t][k] \in Nat
  BY <1>0, HeapNat
<1>10. Bound(t) = 1 /\ Bound(t)' = 1
  BY <1>8 DEF Bound, Lost
<1>1. CASE AddNewEntity(t)
  <2>1. /\ pc[t] = "open" /\ pc' = [pc EXCEPT ![t] = "active"]
        /\ heap' = [heap EXCEPT ![t] = Fresh] /\ entity' = [entity EXCEPT ![t] = t]
        /\ tasks' = [tasks EXCEPT ![t] = <<"ADD_IF_ABSENT">>]
    BY <1>1 DEF AddNewEntity
  <2>2. /\ heap'[t] = Fresh /\ \A n \in Names : n # t => heap'[n] = heap[n]
        /\ entity'[t] = t
        /\ \A u \in Txs : u # t => pc'[u] = pc[u] /\ tasks'[u] = tasks[u] /\ entity'[u] = entity[u]
    BY <2>1, <1>0, <1>8 DEF TypeOK
  <2>3. \A n \in Names : \A k \in 1..MaxTasks : heap[n][t][k] = 0
    <3>1. Len(tasks[t]) = 0
      BY <2>1 DEF Inv, TasksInv
    <3>. QED
      BY <2>1, <3>1, <1>8 DEF RunsOf
  <2>7. \A u \in Txs : \A k \in 1..MaxTasks : heap'[t][u][k] = 0
    BY <2>2 DEF Fresh
  <2>4. \A n \in Names : \A k \in 1..MaxTasks : heap'[n][t][k] = 0
    BY <2>2, <2>3, <2>7
  <2>5. RunsOf(t)'
    BY <2>2, <2>4, <1>8, <1>10 DEF RunsOf
  <2>6. ASSUME NEW u \in Txs, u # t PROVE RunsOf(u)'
    <3>1. \A n \in Names : n # t => heap'[n][u] = heap[n][u]
      BY <2>2
    <3>2. \A n \in Names : \A k \in 1..MaxTasks : heap'[n][u][k] = heap[n][u][k] \/ heap'[n][u][k] = 0
      BY <3>1, <2>7
    <3>3. Bound(u)' = Bound(u) /\ (Private(u)' <=> Private(u)) /\ (Working(u)' <=> Working(u))
      BY <2>2, <2>6, <1>8 DEF Bound, Lost, Private, Creating, Working
    <3>4. RunsOf(u) /\ Bound(u) \in Nat
      <4>1. iteration[u] \in Nat
        BY <1>0, BoundsAssumption DEF TypeOK
      <4>. QED
        BY <4>1 DEF AllRuns, Bound, Lost
    <3>. QED
      BY <2>2, <2>6, <3>2, <3>3, <3>4, <1>8 DEF RunsOf
  <2>. QED
    BY <2>5, <2>6 DEF AllRuns
<1>2. CASE AddTask(t, op)
  <2>. DEFINE ks == IF op = "REPLACE" THEN {Len(tasks[t]) + 1} ELSE {}
  <2>e. PICK e \in Names : e = entity[t]
    BY <1>0 DEF TypeOK
  <2>1. /\ pc[t] = "active" /\ UNCHANGED <<cache, pc, entity, version>> /\ op # "ADD_IF_ABSENT"
        /\ tasks' = [tasks EXCEPT ![t] = Append(@, op)]
        /\ RunStep(t, e, e, ks)
        /\ Len(tasks[t]) < MaxTasks /\ tasks[t] \in Seq(Operation)
    BY <1>0, <1>2, <2>e DEF AddTask, TypeOK, RunStep
  <2>2. /\ tasks'[t] = Append(tasks[t], op) /\ Len(tasks'[t]) = Len(tasks[t]) + 1
        /\ Len(tasks[t]) \in Nat
        /\ \A u \in Txs : u # t => tasks'[u] = tasks[u]
    BY <2>1, <1>0 DEF TypeOK
  <2>3. \A k \in ks : k = Len(tasks[t]) + 1
    OBVIOUS
  <2>. HIDE DEF ks
  <2>6. /\ \A n \in Names : n # e => heap'[n] = heap[n]
        /\ \A u \in Txs : u # t => heap'[e][u] = heap[e][u]
        /\ \A k \in 1..MaxTasks : heap'[e][t][k] = heap[e][t][k] + (IF k \in ks THEN 1 ELSE 0)
    BY <2>1, <1>0, RunOnEntity
  <2>7. ASSUME NEW u \in Txs, u # t PROVE RunsOf(u)'
    <3>1. \A n \in Names : heap'[n][u] = heap[n][u]
      BY <2>6, <2>7
    <3>2. RunsOf(u) /\ pc'[u] = pc[u] /\ tasks'[u] = tasks[u] /\ entity'[u] = entity[u] /\ iteration'[u] = iteration[u]
      BY <2>1, <2>2, <2>7, <1>8 DEF AllRuns
    <3>. QED
      BY <3>1, <3>2, OthersKeepRuns
  <2>8. ASSUME NEW n \in Names, NEW k \in 1..MaxTasks
        PROVE  /\ heap'[n][t][k] <= 1
               /\ k > Len(tasks'[t]) => heap'[n][t][k] = 0
    <3>1. heap[n][t][k] <= 1 /\ heap[n][t][k] \in Nat /\ (k > Len(tasks[t]) => heap[n][t][k] = 0)
      BY <2>1, <1>8, <1>9, <1>10 DEF RunsOf
    <3>2. heap'[n][t][k] = heap[n][t][k] \/ (k \in ks /\ heap'[n][t][k] = heap[n][t][k] + 1)
      BY <2>6, <3>1
    <3>. QED
      BY <3>1, <3>2, <2>2, <2>3
  <2>9. Private(t)' => Private(t)
    <3>1. \A k \in DOMAIN tasks'[t] : tasks'[t][k] = "ADD_IF_ABSENT" => k \in DOMAIN tasks[t] /\ tasks[t][k] = "ADD_IF_ABSENT"
      BY <2>1, <2>2
    <3>. QED
      BY <2>1, <3>1 DEF Private, Creating
  <2>10. Private(t) => e = t
    BY <2>1, <2>e, <1>8 DEF Private, Inv, NewEntity, RunsOf, Working
  <2>11. Private(t)' => \A n \in Names \ {t} : \A k \in 1..MaxTasks : heap'[n][t][k] = 0
    BY <2>6, <2>9, <2>10, <1>8 DEF RunsOf
  <2>12. t \notin Local /\ Working(t)' => entity'[t] = t
    BY <2>1, <1>8 DEF RunsOf, Working
  <2>13. RunsOf(t)'
    BY <2>8, <2>11, <2>12, <1>8, <1>10 DEF RunsOf
  <2>. QED
    BY <2>7, <2>13 DEF AllRuns
<1>. QED
  BY <1>1, <1>2

\* Nothing has been run.
LEMMA AllRunsInit == Init => AllRuns
<1>. SUFFICES ASSUME Init, NEW t \in Txs PROVE RunsOf(t)
  BY DEF AllRuns
<1>1. pc[t] = "open" /\ iteration[t] = 0
  BY DEF Init
<1>2. \A n \in Names : \A k \in 1..MaxTasks : heap[n][t][k] = 0
  BY DEF Init, Fresh
<1>3. Bound(t) = 1 /\ ~Working(t)
  BY <1>1 DEF Bound, Lost, Working
<1>. QED
  BY <1>1, <1>2, <1>3 DEF RunsOf

\* The steps of commitImpl and replace().
LEMMA CommitKeepsRuns ==
  ASSUME Inv, AllRuns, NEW t \in Txs,
         \/ Rollback(t) \/ CommitRemove(t) \/ CommitAddIfAbsent(t) \/ CommitReplace(t)
         \/ Replace(t) \/ Reload(t) \/ Drop(t)
  PROVE  AllRuns'
<1>0. TypeOK
  BY DEF Inv
<1>1. CASE \/ Rollback(t) \/ CommitRemove(t) \/ CommitReplace(t) \/ Drop(t)
           \/ (cache = Absent /\ (CommitAddIfAbsent(t) \/ Reload(t)))
  <2>1. /\ UNCHANGED <<heap, tasks, entity, iteration>> /\ pc' = [pc EXCEPT ![t] = pc'[t]]
        /\ pc[t] \in {"open", "active", "replace", "reload"}
        /\ pc[t] = "replace" => pc'[t] = "dropped"
        /\ pc'[t] \in Ended \/ (pc[t] = "active" /\ pc'[t] = "replace")
    BY <1>0, <1>1 DEF Rollback, CommitRemove, CommitReplace, Drop, CommitAddIfAbsent, Reload, End, Ended, TypeOK
  <2>2. pc[t] \notin Ended
    BY <2>1 DEF Ended
  <2>3. iteration'[t] = IF pc[t] = "replace" /\ pc'[t] # "dropped" THEN iteration[t] + 1 ELSE iteration[t]
    BY <2>1
  <2>4. \A u \in Txs \ {t} : iteration'[u] = iteration[u]
    BY <2>1
  <2>. QED
    BY <2>1, <2>2, <2>3, <2>4, QuietKeepsRuns
<1>2. CASE Replace(t)
  <2>1. /\ UNCHANGED <<heap, tasks, entity>> /\ pc' = [pc EXCEPT ![t] = pc'[t]]
        /\ pc[t] = "replace" /\ pc'[t] # "dropped"
        /\ pc'[t] \in {"changed", "touched", "reload"}
    BY <1>0, <1>2 DEF Replace, End, TypeOK
  <2>2. iteration'[t] = iteration[t] + 1 /\ \A u \in Txs \ {t} : iteration'[u] = iteration[u]
    BY <1>0, <1>2 DEF Replace, TypeOK
  <2>3. pc[t] \notin Ended /\ pc'[t] \in Ended \cup {"replace", "reload"}
        /\ (pc'[t] = "reload" \/ pc'[t] \in Ended)
    BY <2>1 DEF Ended
  <2>. QED
    BY <2>1, <2>2, <2>3, QuietKeepsRuns
<1>3. CASE cache # Absent /\ (CommitAddIfAbsent(t) \/ Reload(t))
  <2>1. /\ LoadAndRun(t, ChildUpdates(tasks[t])) /\ pc' = [pc EXCEPT ![t] = "replace"]
        /\ UNCHANGED <<cache, tasks, iteration>>
        /\ pc[t] = "reload" \/ (pc[t] = "active" /\ CommitAddIfAbsent(t))
    BY <1>3 DEF CommitAddIfAbsent, Reload, End
  <2>. DEFINE ts == tasks[t]
              ks == ChildUpdates(tasks[t])
  <2>2. ts \in Seq(Operation) /\ Len(ts) <= MaxTasks /\ tasks' = [tasks EXCEPT ![t] = ts]
    BY <2>1, <1>0 DEF TypeOK, Inv, TasksInv
  <2>3. ks \in SUBSET (1..MaxTasks) /\ ks \subseteq 1..Len(ts)
    <3>1. ks \subseteq Replaces(ts) /\ ks \in SUBSET (1..MaxTasks)
      BY <2>2, ChildUpdatesReplace
    <3>2. Replaces(ts) \subseteq 1..Len(ts)
      BY <2>2 DEF Replaces
    <3>. QED
      BY <3>1, <3>2
  <2>4. pc[t] = "reload" \/ Creating(t)
    <3>1. CASE pc[t] = "active" /\ CommitAddIfAbsent(t)
      <4>1. tasks[t] # <<>> /\ MergedOperation(tasks[t]) = "ADD_IF_ABSENT"
        BY <3>1 DEF CommitAddIfAbsent
      <4>. QED
        BY <3>1, <4>1, <2>2, MergedIsATask DEF Creating
    <3>. QED
      BY <3>1, <2>1
  <2>5. pc[t] = "open" => tasks[t] = <<>>
    BY DEF Inv, TasksInv
  <2>6. LoadAndRun(t, ks)
    BY <2>1
  <2>. HIDE DEF ts, ks
  <2>. QED
    BY <1>3, <2>1, <2>2, <2>3, <2>4, <2>5, <2>6, LoadKeepsRuns
<1>. QED
  BY <1>1, <1>2, <1>3

\* Every step keeps the runs within the bound.
LEMMA StepRuns ==
  ASSUME Inv, AllRuns, [Next]_vars
  PROVE  AllRuns'
<1>0. TypeOK
  BY DEF Inv
<1>1. CASE Expire \/ UNCHANGED vars
  <2>1. UNCHANGED <<heap, pc, tasks, entity, iteration>>
    BY <1>1 DEF Expire, vars
  <2>2. ASSUME NEW u \in Txs PROVE RunsOf(u)'
    BY <2>1, OthersKeepRuns DEF AllRuns
  <2>. QED
    BY <2>2 DEF AllRuns
<1>2. ASSUME NEW t \in Txs, TxStep(t) PROVE AllRuns'
  <2>0. "REPLACE" \in Operation /\ (pc[t] = "open" => tasks[t] = <<>>)
    BY DEF Operation, Inv, TasksInv
  <2>1. CASE Get(t)
    <3>1. /\ pc[t] = "open" /\ cache # Absent /\ LoadAndRun(t, {})
          /\ pc' = [pc EXCEPT ![t] = "active"] /\ UNCHANGED <<cache, tasks, iteration>>
      BY <2>1 DEF Get
    <3>. DEFINE ts == tasks[t]
    <3>2. /\ ts \in Seq(Operation) /\ tasks' = [tasks EXCEPT ![t] = ts]
          /\ \A k \in DOMAIN ts : ts[k] # "ADD_IF_ABSENT"
      BY <2>0, <3>1, <1>0 DEF TypeOK
    <3>. HIDE DEF ts
    <3>. QED
      BY <2>0, <3>1, <3>2, LoadKeepsRuns
  <2>2. ASSUME NEW op \in Operation, AddFirstTask(t, op), cache # Absent PROVE AllRuns'
    <3>. DEFINE ts == <<op>>
                ks == IF op = "REPLACE" THEN {1} ELSE {}
    <3>1. /\ pc[t] = "open" /\ LoadAndRun(t, ks) /\ tasks' = [tasks EXCEPT ![t] = ts]
          /\ pc' = [pc EXCEPT ![t] = "active"] /\ UNCHANGED <<cache, iteration>>
          /\ op # "ADD_IF_ABSENT"
      BY <2>2 DEF AddFirstTask
    <3>2. /\ ts \in Seq(Operation) /\ \A k \in DOMAIN ts : ts[k] # "ADD_IF_ABSENT"
          /\ Len(ts) = 1
      BY <3>1
    <3>3. ks \in SUBSET (1..MaxTasks) /\ ks \subseteq 1..Len(ts)
      BY <3>2, BoundsAssumption
    <3>. HIDE DEF ts, ks
    <3>. QED
      BY <2>0, <2>2, <3>1, <3>2, <3>3, LoadKeepsRuns
  <2>3. ASSUME NEW op \in Operation, AddFirstTask(t, op), cache = Absent PROVE AllRuns'
    <3>1. /\ pc[t] = "open" /\ pc' = [pc EXCEPT ![t] = "ignored"]
          /\ UNCHANGED <<heap, tasks, entity, iteration>>
      BY <2>3 DEF AddFirstTask, End
    <3>2. pc'[t] = "ignored" /\ pc' = [pc EXCEPT ![t] = pc'[t]]
      BY <3>1, <1>0 DEF TypeOK
    <3>3. pc[t] \notin Ended /\ pc'[t] \in Ended
      BY <3>1, <3>2 DEF Ended
    <3>4. iteration'[t] = IF pc[t] = "replace" /\ pc'[t] # "dropped" THEN iteration[t] + 1 ELSE iteration[t]
      BY <3>1
    <3>. QED
      BY <3>1, <3>2, <3>3, <3>4, QuietKeepsRuns
  <2>4. ASSUME NEW op \in Operation, AddTask(t, op) PROVE AllRuns'
    BY <2>4, AddKeepsRuns
  <2>5. CASE AddNewEntity(t)
    BY <2>0, <2>5, AddKeepsRuns
  <2>6. CASE \/ Rollback(t) \/ CommitRemove(t) \/ CommitAddIfAbsent(t) \/ CommitReplace(t)
             \/ Replace(t) \/ Reload(t) \/ Drop(t)
    BY <2>6, CommitKeepsRuns
  <2>. QED
    BY <1>2, <2>1, <2>2, <2>3, <2>4, <2>5, <2>6 DEF TxStep
<1>. QED
  BY <1>1, <1>2 DEF Next

\* The bound is the one the property states.
LEMMA BoundMeansOnce == Inv /\ AllRuns => RunOncePerRace
<1>. SUFFICES ASSUME Inv, AllRuns, NEW n \in Names, NEW t \in Txs, NEW k \in 1..MaxTasks
              PROVE  heap[n][t][k] <= IF t \in Local THEN 1 + Lost(t) ELSE 1
  BY DEF RunOncePerRace
<1>1. heap[n][t][k] \in Nat /\ iteration[t] \in Nat
  BY BoundsAssumption DEF Inv, TypeOK
<1>2. heap[n][t][k] <= Bound(t)
  BY DEF AllRuns, RunsOf
<1>. QED
  BY <1>1, <1>2 DEF Bound, Lost

-----------------------------------------------------------------------------
\* Every reachable state of the session transactions is well typed.
THEOREM TypeCorrect == Spec => []TypeOK
<1>1. Init => Inv
  BY InvInit
<1>2. Inv /\ [Next]_vars => Inv'
  BY StepSimulates
<1>3. Inv => TypeOK
  BY DEF Inv
<1>. QED
  BY <1>1, <1>2, <1>3, PTL DEF Spec

\* The optimistic replacement of InfinispanChangelogBasedTransaction implements
\* atomic changes of the session: no committed change is lost while the session
\* exists, however transactions on all nodes interleave.
THEOREM Refinement == Spec => ImplementsStore
<1>1. Init => Inv /\ Store!StoreInit
  BY InvInit, InitSimulates
<1>2. Inv /\ [Next]_vars => Inv' /\ [Store!StoreNext]_(Store!storeVars)
  BY StepSimulates DEF StoreStep, Store!storeVars, outcomes
<1>. QED
  BY <1>1, <1>2, PTL DEF Spec, ImplementsStore, Store!StoreSpec

\* "Failed to replace entity" is logged, and the update lost, only after at least
\* MAXIMUM_REPLACE_RETRIES entries were put by others, for any number of
\* transactions and of retries: no attempt fails without a competitor.
THEOREM DropNeedsRaces == Spec => []DroppedOnlyAfterRaces
<1>1. Init => Inv /\ FirstIsNew /\ AllPaid
  <2>1. Init => FirstIsNew
    BY DEF Init, FirstIsNew
  <2>. QED
    BY <2>1, InvInit, AllPaidInit
<1>2. Inv /\ FirstIsNew /\ AllPaid /\ [Next]_vars => (Inv /\ FirstIsNew /\ AllPaid)'
  BY StepSimulates, FirstIsNewStep, StepPaid
<1>3. AllPaid => DroppedOnlyAfterRaces
  BY DEF AllPaid, Paid, Races, Published, DroppedOnlyAfterRaces
<1>. QED
  BY <1>1, <1>2, <1>3, PTL DEF Spec

\* An update is run again only after a lost race, and only where the entity is
\* shared: task.runUpdate at commit adds nothing to what addTask has done, for any
\* transactions, retries and tasks.
THEOREM RepeatedOnlyAfterRaces == Spec => []RunOncePerRace
<1>1. Init => Inv /\ AllRuns
  BY InvInit, AllRunsInit
<1>2. Inv /\ AllRuns /\ [Next]_vars => (Inv /\ AllRuns)'
  BY StepSimulates, StepRuns
<1>3. Inv /\ AllRuns => RunOncePerRace
  BY BoundMeansOnce
<1>. QED
  BY <1>1, <1>2, <1>3, PTL DEF Spec

=============================================================================

------------------------- MODULE ClusterTaskProofs -------------------------
(***************************************************************************)
(* Mutual exclusion and types of ClusterTask for any number of nodes,      *)
(* callers, attempts, failing cache operations and nodes that leave, with  *)
(* a replicated and with a remote work cache.                              *)
(***************************************************************************)
EXTENDS ClusterTask, FiniteSetTheorems, TLAPS

\* Those who go on although the lock entry is not theirs: calls that run the
\* task or have yet to remove an entry, and (as NoCaller) the coordinator
\* about to remove an entry that no longer is the one of a node that left.
Debtors ==
  {x \in Callers \cup {NoCaller} :
     IF x = NoCaller
     THEN cleaning /\ (lock = NoCaller \/ at[lock] \in alive)
     ELSE pc[x] \in {"running", "removing"} /\ lock # x}

\* What makes MutualExclusion inductive: every debtor is accounted for by a
\* removal that was repeated although it had taken effect; the calls of a
\* node that has left do not go on.
Inv ==
  /\ pc \in [Callers -> Phases]
  /\ alive \subseteq Nodes
  /\ cleaning \in BOOLEAN
  /\ lock \in Callers \cup {NoCaller}
  /\ repeated \in Nat
  /\ \A c \in Callers :
       at[c] \notin alive => pc[c] \in {"done", "dead"}
  /\ Cardinality(Debtors) <= repeated

\* The debtors are finitely many.
LEMMA DebtorsFinite == IsFiniteSet(Debtors)
<1>1. IsFiniteSet(Callers \cup {NoCaller})
  BY ClusterTaskAssumption, FS_AddElement
<1>2. Debtors \subseteq Callers \cup {NoCaller}
  BY DEF Debtors
<1>. QED
  BY <1>1, <1>2, FS_Subset

\* A smaller set of debtors is covered by what covered the larger one.
LEMMA CoveredSubset ==
  ASSUME NEW D, IsFiniteSet(D), NEW E, E \subseteq D,
         NEW n \in Nat, NEW k \in Nat, n <= k, Cardinality(D) <= n
  PROVE  Cardinality(E) <= k
<1>1. Cardinality(E) <= Cardinality(D) /\ IsFiniteSet(E)
  BY FS_Subset
<1>2. Cardinality(E) \in Nat /\ Cardinality(D) \in Nat
  BY <1>1, FS_CardinalityType
<1>. QED
  BY <1>1, <1>2

\* One more debtor needs one more repeated removal.
LEMMA CoveredAdd ==
  ASSUME NEW D, IsFiniteSet(D), NEW E, NEW y, E \subseteq D \cup {y},
         NEW n \in Nat, Cardinality(D) <= n
  PROVE  Cardinality(E) <= n + 1
<1>1. IsFiniteSet(D \cup {y}) /\ Cardinality(D) \in Nat
  BY FS_AddElement, FS_CardinalityType
<1>2. Cardinality(D \cup {y}) <= n + 1
  <2>1. Cardinality(D \cup {y}) = Cardinality(D) \/ Cardinality(D \cup {y}) = Cardinality(D) + 1
    BY FS_AddElement
  <2>. QED
    BY <1>1, <2>1
<1>3. n + 1 \in Nat
  OBVIOUS
<1>. QED
  BY <1>1, <1>2, <1>3, CoveredSubset

\* A debtor that stops makes room for another one.
LEMMA CoveredSwap ==
  ASSUME NEW D, IsFiniteSet(D), NEW E, NEW x \in D, NEW y,
         E \subseteq (D \ {x}) \cup {y},
         NEW n \in Nat, Cardinality(D) <= n
  PROVE  Cardinality(E) <= n
<1>1. IsFiniteSet(D \ {x}) /\ Cardinality(D \ {x}) = Cardinality(D) - 1
  BY FS_RemoveElement
<1>2. Cardinality(D) \in Nat /\ Cardinality(D \ {x}) \in Nat
  BY <1>1, FS_CardinalityType
<1>3. n - 1 \in Nat /\ Cardinality(D \ {x}) <= n - 1
  BY <1>1, <1>2
<1>4. Cardinality(E) <= (n - 1) + 1
  BY <1>1, <1>3, CoveredAdd
<1>. QED
  BY <1>4

\* No call has begun and no lock is held.
LEMMA InvInit == Init => Inv
<1>. SUFFICES ASSUME Init PROVE Inv
  OBVIOUS
<1>1. Debtors = {}
  BY DEF Init, Debtors
<1>2. Cardinality(Debtors) = 0
  BY <1>1, FS_EmptySet
<1>3. repeated = 0 /\ Cardinality(Debtors) <= repeated
  BY <1>2 DEF Init
<1>4. \A c \in Callers : at[c] \in alive
  BY DEF Init
<1>5. cleaning \in BOOLEAN /\ alive \subseteq Nodes
  BY DEF Init
<1>6. pc \in [Callers -> Phases] /\ lock \in Callers \cup {NoCaller}
  BY DEF Init, Phases
<1>. QED
  BY <1>3, <1>4, <1>5, <1>6 DEF Inv

\* At most one of the calls that run the task owns the lock; the others are
\* debtors.
LEMMA InvImpliesExclusion == Inv => MutualExclusion
<1>. SUFFICES ASSUME Inv PROVE MutualExclusion
  OBVIOUS
<1>1. {c \in Callers : pc[c] = "running"} \subseteq Debtors \cup {lock}
  BY ClusterTaskAssumption DEF Debtors
<1>2. Cardinality({c \in Callers : pc[c] = "running"}) <= repeated + 1
  BY <1>1, DebtorsFinite, CoveredAdd DEF Inv
<1>. QED
  BY <1>2 DEF MutualExclusion, Inv

\* A step after which nobody new is a debtor.
LEMMA NoNewDebtor ==
  ASSUME Inv, Debtors' \subseteq Debtors, repeated' \in Nat, repeated <= repeated'
  PROVE  Cardinality(Debtors') <= repeated'
<1>1. repeated \in Nat /\ Cardinality(Debtors) <= repeated
  BY DEF Inv
<1>. QED
  BY <1>1, DebtorsFinite, CoveredSubset

\* Removing the lock entry makes one new debtor at most: the owner of the
\* entry, or the coordinator that was about to remove it.
LEMMA RemovalDebtor ==
  ASSUME Inv, RemoveLock, UNCHANGED <<at, alive>>, cleaning' = cleaning \/ ~cleaning',
         \A c \in Callers : pc'[c] \in {"running", "removing"} => pc[c] = pc'[c]
  PROVE  \E y : Debtors' \subseteq Debtors \cup {y}
<1>. USE ClusterTaskAssumption DEF Inv
<1>1. lock' = NoCaller
  BY DEF RemoveLock
<1>2. CASE lock = NoCaller
  <2>1. Debtors' \subseteq Debtors \cup {NoCaller}
    BY <1>1, <1>2 DEF Debtors
  <2>. QED
    BY <2>1
<1>3. CASE lock # NoCaller /\ at[lock] \in alive
  <2>1. Debtors' \subseteq Debtors \cup {lock}
    BY <1>1, <1>3 DEF Debtors
  <2>. QED
    BY <2>1
<1>4. CASE lock # NoCaller /\ at[lock] \notin alive
  <2>1. pc[lock] \notin {"running", "removing"}
    BY <1>4
  <2>2. Debtors' \subseteq Debtors \cup {NoCaller}
    BY <1>1, <1>4, <2>1 DEF Debtors
  <2>. QED
    BY <2>2
<1>. QED
  BY <1>2, <1>3, <1>4

\* Registering a callback or submitting the job leaves the lock alone.
LEMMA InvCall ==
  ASSUME Inv, NEW c \in Callers, Call(c)
  PROVE  Inv'
<1>. USE ClusterTaskAssumption DEF viewVars
<1>1. /\ UNCHANGED <<at, alive, cleaning, lock, repeated>>
      /\ pc' \in [Callers -> Phases]
      /\ pc[c] = "idle"
      /\ \A d \in Callers : d # c => pc'[d] = pc[d]
      /\ pc'[c] \in {"trylock", "done"}
  BY DEF Call, CallSync, CallAsync, Inv, Phases
<1>2. Debtors' \subseteq Debtors
  BY <1>1 DEF Debtors, Inv
<1>3. Cardinality(Debtors') <= repeated'
  BY <1>1, <1>2, NoNewDebtor DEF Inv
<1>. QED
  BY <1>1, <1>3 DEF Inv

\* putIfAbsent makes a call the owner only of a lock nobody held.
LEMMA InvTryLock ==
  ASSUME Inv, NEW c \in Callers, TryLock(c)
  PROVE  Inv'
<1>. USE ClusterTaskAssumption DEF viewVars
<1>1. /\ UNCHANGED <<at, alive, cleaning, repeated>>
      /\ pc' \in [Callers -> Phases]
      /\ pc[c] = "trylock" /\ pc'[c] # "trylock"
      /\ \A d \in Callers : d # c => pc'[d] = pc[d]
      /\ \/ lock = NoCaller /\ lock' = c
         \/ lock' = lock /\ pc'[c] \in {"waiting", "done"}
  BY DEF TryLock, Inv, Phases
<1>2. at[c] \in alive
  BY <1>1 DEF Inv
<1>3. Debtors' \subseteq Debtors
  BY <1>1, <1>2 DEF Debtors, Inv
<1>4. Cardinality(Debtors') <= repeated'
  BY <1>1, <1>3, NoNewDebtor DEF Inv
<1>. QED
  BY <1>1, <1>2, <1>4 DEF Inv

\* A putIfAbsent that throws may have put the entry, but runs no task.
LEMMA InvTryLockFails ==
  ASSUME Inv, NEW c \in Callers, TryLockFails(c)
  PROVE  Inv'
<1>. USE ClusterTaskAssumption DEF viewVars
<1>1. /\ UNCHANGED <<at, alive, cleaning, repeated>>
      /\ pc' \in [Callers -> Phases]
      /\ pc[c] = "trylock" /\ pc'[c] \in {"trylock", "done"}
      /\ \A d \in Callers : d # c => pc'[d] = pc[d]
      /\ lock' = lock \/ (lock = NoCaller /\ lock' = c)
  BY DEF TryLockFails, Retry, Inv, Phases
<1>2. at[c] \in alive
  BY <1>1 DEF Inv
<1>3. Debtors' \subseteq Debtors
  BY <1>1, <1>2 DEF Debtors, Inv
<1>4. Cardinality(Debtors') <= repeated'
  BY <1>1, <1>3, NoNewDebtor DEF Inv
<1>. QED
  BY <1>1, <1>2, <1>4 DEF Inv

\* The call that ran the task owns the lock as before when it ends.
LEMMA InvTaskEnds ==
  ASSUME Inv, NEW c \in Callers, TaskEnds(c)
  PROVE  Inv'
<1>. USE ClusterTaskAssumption DEF viewVars
<1>1. /\ UNCHANGED <<at, alive, cleaning, lock, repeated>>
      /\ pc' \in [Callers -> Phases]
      /\ pc[c] = "running" /\ pc'[c] = "removing"
      /\ \A d \in Callers : d # c => pc'[d] = pc[d]
  BY DEF TaskEnds, Inv, Phases
<1>2. Debtors' \subseteq Debtors
  BY <1>1 DEF Debtors, Inv
<1>3. Cardinality(Debtors') <= repeated'
  BY <1>1, <1>2, NoNewDebtor DEF Inv
<1>. QED
  BY <1>1, <1>3 DEF Inv

\* A call that removes an entry and ends with it: it removes its own one, or
\* stops being a debtor.
LEMMA CoveredLastRemoval ==
  ASSUME Inv, NEW c \in Callers, RemoveLock, UNCHANGED <<at, alive, cleaning, repeated>>,
         pc[c] = "removing", pc'[c] \notin {"running", "removing"},
         \A d \in Callers : d # c => pc'[d] = pc[d]
  PROVE  Cardinality(Debtors') <= repeated'
<1>. USE ClusterTaskAssumption
<1>1. lock' = NoCaller /\ at[c] \in alive
  BY DEF RemoveLock, Inv
<1>2. CASE lock = c
  <2>1. Debtors' \subseteq Debtors
    BY <1>1, <1>2 DEF Debtors
  <2>. QED
    BY <2>1, NoNewDebtor DEF Inv
<1>3. CASE lock # c
  <2>1. c \in Debtors /\ c \notin Debtors'
    BY <1>3 DEF Debtors
  <2>2. \A d \in Callers : pc'[d] \in {"running", "removing"} => pc[d] = pc'[d]
    OBVIOUS
  <2>3. PICK y : Debtors' \subseteq Debtors \cup {y}
    BY <2>2, RemovalDebtor
  <2>4. Debtors' \subseteq (Debtors \ {c}) \cup {y}
    BY <2>1, <2>3
  <2>5. Cardinality(Debtors') <= repeated
    BY <2>1, <2>4, DebtorsFinite, CoveredSwap DEF Inv
  <2>. QED
    BY <2>5
<1>. QED
  BY <1>2, <1>3

\* removeFromCache removes one entry.
LEMMA InvRemove ==
  ASSUME Inv, NEW c \in Callers, RemoveFromCache(c)
  PROVE  Inv'
<1>. USE ClusterTaskAssumption DEF viewVars
<1>1. /\ UNCHANGED <<at, alive, cleaning, repeated>>
      /\ RemoveLock /\ lock' = NoCaller
      /\ pc' \in [Callers -> Phases]
      /\ pc[c] = "removing" /\ pc'[c] \in {"waiting", "done"}
      /\ \A d \in Callers : d # c => pc'[d] = pc[d]
  BY DEF RemoveFromCache, RemoveLock, Inv, Phases
<1>2. Cardinality(Debtors') <= repeated'
  BY <1>1, CoveredLastRemoval
<1>3. at[c] \in alive
  BY <1>1 DEF Inv
<1>. QED
  BY <1>1, <1>2, <1>3 DEF Inv

\* A removal that throws removes an entry or not, and is repeated or not: if
\* both, it is counted.
LEMMA InvRemoveFails ==
  ASSUME Inv, NEW c \in Callers, RemoveFromCacheFails(c)
  PROVE  Inv'
<1>. USE ClusterTaskAssumption DEF viewVars
<1>1. /\ UNCHANGED <<at, alive, cleaning>>
      /\ pc' \in [Callers -> Phases]
      /\ pc[c] = "removing" /\ pc'[c] \in {"removing", "done"}
      /\ \A d \in Callers : d # c => pc'[d] = pc[d]
      /\ tries[c] + 1 < Attempts <=> pc'[c] = "removing"
  BY DEF RemoveFromCacheFails, Retry, Inv, Phases
<1>2. at[c] \in alive
  BY <1>1 DEF Inv
<1>3. CASE UNCHANGED <<lock, repeated, callbackVars>>
  <2>1. Debtors' \subseteq Debtors
    BY <1>1, <1>3 DEF Debtors
  <2>2. Cardinality(Debtors') <= repeated'
    BY <1>3, <2>1, NoNewDebtor DEF Inv
  <2>. QED
    BY <1>1, <1>2, <1>3, <2>2 DEF Inv
<1>4. CASE /\ RemoveLock
           /\ repeated' = IF lock # NoCaller /\ tries[c] + 1 < Attempts
                          THEN repeated + 1 ELSE repeated
  <2>0. lock' = NoCaller /\ repeated' \in Nat
    BY <1>4 DEF RemoveLock, Inv
  <2>1. CASE pc'[c] = "done"
    <3>1. repeated' = repeated
      BY <1>1, <1>4, <2>1
    <3>2. Cardinality(Debtors') <= repeated'
      BY <1>1, <1>4, <2>1, <3>1, CoveredLastRemoval
    <3>. QED
      BY <1>1, <1>2, <2>0, <3>2 DEF Inv
  <2>2. CASE pc'[c] = "removing" /\ lock = NoCaller
    <3>1. repeated' = repeated /\ lock' = lock
      BY <1>4, <2>0, <2>2
    <3>2. Debtors' \subseteq Debtors
      BY <1>1, <2>2, <3>1 DEF Debtors
    <3>3. Cardinality(Debtors') <= repeated'
      BY <3>1, <3>2, NoNewDebtor DEF Inv
    <3>. QED
      BY <1>1, <1>2, <2>0, <3>3 DEF Inv
  <2>3. CASE pc'[c] = "removing" /\ lock # NoCaller
    <3>1. repeated' = repeated + 1
      BY <1>1, <1>4, <2>3
    <3>2. \A d \in Callers : pc'[d] \in {"running", "removing"} => pc[d] = pc'[d]
      BY <1>1, <2>3
    <3>3. PICK y : Debtors' \subseteq Debtors \cup {y}
      BY <1>1, <1>4, <3>2, RemovalDebtor
    <3>4. Cardinality(Debtors') <= repeated + 1
      BY <3>3, DebtorsFinite, CoveredAdd DEF Inv
    <3>. QED
      BY <1>1, <1>2, <2>0, <3>1, <3>4 DEF Inv
  <2>. QED
    BY <1>1, <2>1, <2>2, <2>3
<1>. QED
  BY <1>3, <1>4 DEF RemoveFromCacheFails

\* A job that stops waiting does not touch the lock.
LEMMA InvReturn ==
  ASSUME Inv, NEW c \in Callers, Await(c) \/ AwaitTimeout(c)
  PROVE  Inv'
<1>. USE ClusterTaskAssumption DEF viewVars
<1>1. /\ UNCHANGED <<at, alive, cleaning, lock, repeated>>
      /\ pc' \in [Callers -> Phases]
      /\ pc'[c] = "done"
      /\ \A d \in Callers : d # c => pc'[d] = pc[d]
  BY DEF Await, AwaitTimeout, Return, Inv, Phases
<1>2. Debtors' \subseteq Debtors
  BY <1>1 DEF Debtors, Inv
<1>3. Cardinality(Debtors') <= repeated'
  BY <1>1, <1>2, NoNewDebtor DEF Inv
<1>. QED
  BY <1>1, <1>3 DEF Inv

\* The calls of a node that leaves end with it; its lock stays behind.
LEMMA InvCrash ==
  ASSUME Inv, NEW n \in Nodes, Crash(n)
  PROVE  Inv'
<1>1. /\ alive' = alive \ {n}
      /\ UNCHANGED <<at, lock, repeated>>
      /\ pc' = [c \in Callers |->
                  IF at[c] = n /\ pc[c] # "done" THEN "dead" ELSE pc[c]]
      /\ cleaning' => cleaning
      /\ cleaning' \in BOOLEAN
  BY DEF Crash
<1>2. Debtors' \subseteq Debtors
  BY <1>1, ClusterTaskAssumption DEF Debtors, Inv
<1>3. Cardinality(Debtors') <= repeated'
  BY <1>1, <1>2, NoNewDebtor DEF Inv
<1>4. pc' \in [Callers -> Phases] /\ \A c \in Callers : at[c] \notin alive' => pc'[c] \in {"done", "dead"}
  BY <1>1 DEF Inv, Phases
<1>. QED
  BY <1>1, <1>3, <1>4 DEF Inv

\* The coordinator's clean-up takes the lock of a living node away only if
\* a debtor has removed the one of the node that left before it.
LEMMA InvView ==
  ASSUME Inv, View
  PROVE  Inv'
<1>. USE ClusterTaskAssumption DEF callVars
<1>1. CASE ViewChanged
  <2>1. UNCHANGED <<at, pc, lock, alive, repeated>> /\ cleaning' \in BOOLEAN
    BY <1>1 DEF ViewChanged, Inv
  <2>2. Debtors' \subseteq Debtors
    <3>1. CASE lock # NoCaller /\ at[lock] \in members \ alive
      BY <2>1, <3>1 DEF Debtors
    <3>2. CASE ~(lock # NoCaller /\ at[lock] \in members \ alive)
      <4>1. cleaning' = cleaning
        BY <1>1, <3>2 DEF ViewChanged
      <4>. QED
        BY <2>1, <4>1 DEF Debtors
    <3>. QED
      BY <3>1, <3>2
  <2>3. Cardinality(Debtors') <= repeated'
    BY <2>1, <2>2, NoNewDebtor DEF Inv
  <2>. QED
    BY <2>1, <2>3 DEF Inv
<1>2. CASE RemoveLockOfLeftNode
  <2>1. UNCHANGED <<at, pc, alive, repeated>> /\ ~cleaning' /\ cleaning' \in BOOLEAN /\ cleaning
    BY <1>2 DEF RemoveLockOfLeftNode
  <2>2. NoCaller \notin Debtors'
    BY <2>1 DEF Debtors
  <2>3. CASE UNCHANGED <<lock, callbackVars>>
    <3>1. Debtors' \subseteq Debtors
      BY <2>1, <2>3 DEF Debtors
    <3>2. Cardinality(Debtors') <= repeated'
      BY <2>1, <3>1, NoNewDebtor DEF Inv
    <3>. QED
      BY <2>1, <2>3, <3>2 DEF Inv
  <2>4. CASE RemoveLock
    <3>1. lock' = NoCaller
      BY <2>4 DEF RemoveLock
    <3>2. CASE NoCaller \in Debtors
      <4>1. \A d \in Callers : pc'[d] \in {"running", "removing"} => pc[d] = pc'[d]
        BY <2>1
      <4>2. PICK y : Debtors' \subseteq Debtors \cup {y}
        BY <2>1, <2>4, <4>1, RemovalDebtor
      <4>3. Debtors' \subseteq (Debtors \ {NoCaller}) \cup {y}
        BY <2>2, <4>2
      <4>4. Cardinality(Debtors') <= repeated
        BY <3>2, <4>3, DebtorsFinite, CoveredSwap DEF Inv
      <4>. QED
        BY <2>1, <3>1, <4>4 DEF Inv
    <3>3. CASE NoCaller \notin Debtors
      <4>1. lock # NoCaller /\ at[lock] \notin alive
        BY <2>1, <3>3 DEF Debtors
      <4>2. pc[lock] \in {"done", "dead"}
        BY <4>1 DEF Inv
      <4>3. Debtors' \subseteq Debtors
        BY <2>1, <2>2, <3>1, <4>2 DEF Debtors
      <4>4. Cardinality(Debtors') <= repeated'
        BY <2>1, <4>3, NoNewDebtor DEF Inv
      <4>. QED
        BY <2>1, <3>1, <4>4 DEF Inv
    <3>. QED
      BY <3>2, <3>3
  <2>. QED
    BY <1>2, <2>3, <2>4 DEF RemoveLockOfLeftNode
<1>. QED
  BY <1>1, <1>2 DEF View

\* executeIfNotExecuted runs a task in one call at a time, and in one more for
\* every removal that took effect, threw and was repeated, whatever cache
\* operations fail, whatever nodes leave and however the coordinator's
\* clean-up (ViewChangeListener) interleaves with new calls.
THEOREM TaskExclusion == Spec => []MutualExclusion
<1>1. Inv /\ [Next]_vars => Inv'
  <2>. SUFFICES ASSUME Inv, [Next]_vars PROVE Inv'
    OBVIOUS
  <2>1. CASE \E n \in Nodes : DeliverRemoval(n)
    <3>1. UNCHANGED <<at, pc, lock, alive, cleaning, repeated>>
      BY <2>1 DEF DeliverRemoval, callVars, viewVars
    <3>. QED
      BY <3>1 DEF Inv, Debtors
  <2>2. CASE UNCHANGED vars
    <3>1. UNCHANGED <<at, pc, lock, alive, cleaning, repeated>>
      BY <2>2 DEF vars, callVars, viewVars
    <3>. QED
      BY <3>1 DEF Inv, Debtors
  <2>. QED
    BY <2>1, <2>2, InvCall, InvTryLock, InvTryLockFails, InvTaskEnds, InvRemove,
       InvRemoveFails, InvReturn, InvCrash, InvView
    DEF Next, Acquire, Release
<1>. QED
  BY <1>1, InvInit, InvImpliesExclusion, PTL DEF Spec

---------------------------------------------------------------------------
(* Types *)

\* Releasing callbacks keeps their types.
LEMMA FinishedTypes ==
  ASSUME TypeOK, NEW nodes \in SUBSET Nodes, NEW ok \in BOOLEAN, TaskFinished(nodes, ok)
  PROVE  /\ callbacks' \in [Nodes -> Callers \cup {NoCaller}]
         /\ latch' \in [Callers -> BOOLEAN] /\ success' \in [Callers -> BOOLEAN]
  BY DEF TypeOK, TaskFinished

\* So does the removal of the lock entry.
LEMMA RemoveLockTypes ==
  ASSUME TypeOK, RemoveLock
  PROVE  /\ lock' \in Callers \cup {NoCaller}
         /\ callbacks' \in [Nodes -> Callers \cup {NoCaller}]
         /\ latch' \in [Callers -> BOOLEAN] /\ success' \in [Callers -> BOOLEAN]
         /\ events' \in [Nodes -> Nat]
<1>1. CASE UNCHANGED callbackVars
  BY <1>1 DEF RemoveLock, TypeOK, callbackVars
<1>2. CASE events' = [n \in Nodes |-> IF n \in alive THEN events[n] + 1 ELSE 0]
           /\ UNCHANGED <<callbacks, latch, success>>
  BY <1>2 DEF RemoveLock, TypeOK
<1>3. CASE TaskFinished(alive, TRUE) /\ UNCHANGED events
  <2>1. alive \in SUBSET Nodes
    BY DEF TypeOK
  <2>. QED
    BY <1>3, <2>1, FinishedTypes DEF RemoveLock, TypeOK
<1>. QED
  BY <1>1, <1>2, <1>3 DEF RemoveLock

\* The attempts of Retry.executeWithBackoff are counted up to the limit.
LEMMA RetryTypes ==
  ASSUME TypeOK, NEW c \in Callers, Retry(c)
  PROVE  /\ tries' \in [Callers -> 0 .. Attempts - 1]
         /\ pc' \in [Callers -> Phases]
         /\ result' \in [Callers -> {"none", "executed", "notExecuted", "exception",
                                     "joined", "true", "false"}]
  BY ClusterTaskAssumption DEF TypeOK, Retry, Phases

\* Every step of a call keeps the types.
LEMMA CallTypes ==
  ASSUME TypeOK, NEW c \in Callers,
         \/ Call(c) \/ Acquire(c) \/ TaskEnds(c) \/ Release(c) \/ Await(c) \/ AwaitTimeout(c)
  PROVE  TypeOK'
<1>. USE ClusterTaskAssumption
<1>1. CASE Call(c)
  BY <1>1 DEF Call, CallSync, CallAsync, TypeOK, Phases, callbackVars, viewVars
<1>2. CASE TryLock(c)
  BY <1>2 DEF TryLock, TypeOK, Phases, callbackVars, viewVars
<1>3. CASE TryLockFails(c)
  <2>1. lock' \in Callers \cup {NoCaller}
    BY <1>3 DEF TryLockFails, TypeOK
  <2>. QED
    BY <1>3, <2>1, RetryTypes DEF TryLockFails, TypeOK, callbackVars, viewVars
<1>4. CASE TaskEnds(c)
  BY <1>4 DEF TaskEnds, TypeOK, Phases, callbackVars, viewVars
<1>5. CASE RemoveFromCache(c)
  BY <1>5, RemoveLockTypes DEF RemoveFromCache, TypeOK, Phases, viewVars
<1>6. CASE RemoveFromCacheFails(c)
  <2>1. /\ lock' \in Callers \cup {NoCaller}
        /\ callbacks' \in [Nodes -> Callers \cup {NoCaller}]
        /\ latch' \in [Callers -> BOOLEAN] /\ success' \in [Callers -> BOOLEAN]
        /\ events' \in [Nodes -> Nat]
    <3>1. CASE RemoveLock
      BY <3>1, RemoveLockTypes
    <3>2. CASE UNCHANGED <<lock, callbackVars>>
      BY <3>2 DEF TypeOK, callbackVars
    <3>. QED
      BY <1>6, <3>1, <3>2 DEF RemoveFromCacheFails
  <2>. QED
    BY <1>6, <2>1, RetryTypes DEF RemoveFromCacheFails, TypeOK, viewVars
<1>7. CASE Await(c) \/ AwaitTimeout(c)
  BY <1>7 DEF Await, AwaitTimeout, Return, TypeOK, Phases, callbackVars, viewVars
<1>. QED
  BY <1>1, <1>2, <1>3, <1>4, <1>5, <1>6, <1>7 DEF Acquire, Release

\* Removal events, nodes that leave and the clean-up keep the types.
LEMMA NodeTypes ==
  ASSUME TypeOK, (\E n \in Nodes : DeliverRemoval(n) \/ Crash(n)) \/ View
  PROVE  TypeOK'
<1>1. ASSUME NEW n \in Nodes, DeliverRemoval(n) PROVE TypeOK'
  <2>1. events' \in [Nodes -> Nat]
    BY <1>1 DEF DeliverRemoval, TypeOK
  <2>2. {n} \in SUBSET Nodes
    OBVIOUS
  <2>3. /\ callbacks' \in [Nodes -> Callers \cup {NoCaller}]
        /\ latch' \in [Callers -> BOOLEAN] /\ success' \in [Callers -> BOOLEAN]
    BY <1>1, <2>2, FinishedTypes DEF DeliverRemoval
  <2>. QED
    BY <1>1, <2>1, <2>3 DEF DeliverRemoval, TypeOK, callVars, viewVars
<1>2. ASSUME NEW n \in Nodes, Crash(n) PROVE TypeOK'
  BY <1>2 DEF Crash, TypeOK, Phases
<1>3. CASE ViewChanged
  <2>1. {coordinator} \in SUBSET Nodes
    BY DEF TypeOK
  <2>2. /\ callbacks' \in [Nodes -> Callers \cup {NoCaller}]
        /\ latch' \in [Callers -> BOOLEAN] /\ success' \in [Callers -> BOOLEAN]
        /\ cleaning' \in BOOLEAN
    <3>1. CASE TaskFinished({coordinator}, FALSE) /\ cleaning' = TRUE
      BY <3>1, <2>1, FinishedTypes
    <3>2. CASE UNCHANGED <<callbacks, latch, success, cleaning>>
      BY <3>2 DEF TypeOK
    <3>. QED
      BY <1>3, <3>1, <3>2 DEF ViewChanged
  <2>. QED
    BY <1>3, <2>2 DEF ViewChanged, TypeOK, callVars
<1>4. CASE RemoveLockOfLeftNode
  <2>1. CASE RemoveLock
    BY <1>4, <2>1, RemoveLockTypes DEF RemoveLockOfLeftNode, TypeOK, callVars
  <2>2. CASE UNCHANGED <<lock, callbackVars>>
    BY <1>4, <2>2 DEF RemoveLockOfLeftNode, TypeOK, callVars, callbackVars
  <2>. QED
    BY <1>4, <2>1, <2>2 DEF RemoveLockOfLeftNode
<1>. QED
  BY <1>1, <1>2, <1>3, <1>4 DEF View

\* Every reachable state is well typed, with a replicated and with a remote cache:
\* no cache operation is attempted more often than Retry allows.
THEOREM TaskTypeCorrect == Spec => []TypeOK
<1>1. Init => TypeOK
  <2>1. 0 \in 0 .. Attempts - 1
    BY ClusterTaskAssumption
  <2>2. Init => /\ pc \in [Callers -> Phases] /\ tries \in [Callers -> 0 .. Attempts - 1]
                 /\ outcome \in [Callers -> {"none", "ok", "thrown"}]
                 /\ result \in [Callers -> {"none", "executed", "notExecuted", "exception",
                                            "joined", "true", "false"}]
    BY <2>1 DEF Init, Phases
  <2>3. Init => /\ lock \in Callers \cup {NoCaller} /\ callbacks \in [Nodes -> Callers \cup {NoCaller}]
                 /\ latch \in [Callers -> BOOLEAN] /\ success \in [Callers -> BOOLEAN]
                 /\ events \in [Nodes -> Nat] /\ repeated \in Nat
    BY DEF Init
  <2>4. Init => crossDC \in BOOLEAN /\ async \in [Callers -> BOOLEAN] /\ coordinator \in Nodes
    BY ClusterTaskAssumption DEF Init
  <2>. QED
    BY <2>2, <2>3, <2>4 DEF Init, TypeOK
<1>2. TypeOK /\ [Next]_vars => TypeOK'
  <2>1. TypeOK /\ UNCHANGED vars => TypeOK'
    BY DEF TypeOK, vars, callVars, callbackVars, viewVars
  <2>. QED
    BY <2>1, CallTypes, NodeTypes DEF Next
<1>. QED
  BY <1>1, <1>2, PTL DEF Spec

=============================================================================

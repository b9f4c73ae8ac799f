---------------------------- MODULE SessionChangelog ----------------------------
(***************************************************************************)
(* InfinispanChangelogBasedTransaction: concurrent transactions change one  *)
(* session in a cache that is shared by the nodes.                          *)
(*                                                                          *)
(* A transaction collects update tasks and runs them at once on the entity  *)
(* it found in the cache.  On the node that owns the entry that entity is   *)
(* the cached object itself, so other transactions see changes that are not *)
(* committed; on other nodes it is a copy.  At commit the entry is replaced *)
(* if its version is still the one read; otherwise the entity is read       *)
(* again, the updates are run again and the replace is repeated, a bounded  *)
(* number of times.                                                         *)
(***************************************************************************)
EXTENDS Naturals, Sequences, FiniteSets

CONSTANTS
    Txs,        \* transactions
    Local,      \* those that run on the node that owns the entry
    First,      \* name of the first entity and of its version
    Absent,     \* no entry
    Retries,    \* MAXIMUM_REPLACE_RETRIES
    MaxTasks,   \* bound: update tasks of a transaction
    Brief       \* bound: transactions with at most two of them

ASSUME TxsAssumption == Local \subseteq Txs /\ First \notin Txs
ASSUME AbsentAssumption ==
    /\ \A S \in SUBSET Txs : S # Absent
    /\ \A v, e \in Txs \cup {First} : [version |-> v, entity |-> e] # Absent
ASSUME BoundsAssumption == Retries \in Nat \ {0} /\ MaxTasks \in Nat \ {0}

\* An entity is named by the transaction that created or copied it, and a
\* version (a random UUID) by the transaction that generated it.
Names == Txs \cup {First}
Operation == {"ADD_IF_ABSENT", "REPLACE", "REMOVE"}
Ended == {"changed", "touched", "removed", "ignored", "dropped", "rolledBack"}

\* An entity on which nobody has run anything.
Fresh == [t \in Txs |-> [k \in 1..MaxTasks |-> 0]]

VARIABLES
    cache,      \* the entry: version and entity, or Absent
    heap,       \* how often each task of a transaction has been run on an entity
    pc,
    tasks,      \* operations of the update tasks of a transaction
    entity,     \* the entity a transaction works on
    version,    \* the version it has read
    iteration   \* attempts to replace

vars == <<cache, heap, pc, tasks, entity, version, iteration>>

TypeOK ==
    /\ cache \in [version : Names, entity : Names] \cup {Absent}
    /\ heap \in [Names -> [Txs -> [1..MaxTasks -> Nat]]]
    /\ pc \in [Txs -> {"open", "active", "replace", "reload"} \cup Ended]
    /\ tasks \in [Txs -> Seq(Operation)]
    /\ entity \in [Txs -> Names]
    /\ version \in [Txs -> Names]
    /\ iteration \in [Txs -> 0..Retries]

Init ==
    /\ cache \in {Absent, [version |-> First, entity |-> First]}
    /\ heap = [n \in Names |-> Fresh]
    /\ pc = [t \in Txs |-> "open"]
    /\ tasks = [t \in Txs |-> <<>>]
    /\ entity = [t \in Txs |-> First]
    /\ version = [t \in Txs |-> First]
    /\ iteration = [t \in Txs |-> 0]

-----------------------------------------------------------------------------
\* MergedUpdate.computeUpdate: the first REMOVE after the first task ends it; a
\* REMOVE that comes first gives way to the task that follows, and to that one
\* alone.
MergedOperation(s) ==
    IF Len(s) = 1 THEN s[1]
    ELSE IF s[1] = "REMOVE" THEN s[2]
    ELSE IF \E k \in DOMAIN s : s[k] = "REMOVE" THEN "REMOVE"
    ELSE s[1]

\* childUpdates of a merged update that does not remove the session; only a REPLACE
\* task changes the entity.
ChildUpdates(s) ==
    {k \in DOMAIN s : s[k] = "REPLACE" /\ (s[1] = "REMOVE" => k = 2)}

Changes(t) == ChildUpdates(tasks[t]) # {}

\* runUpdate of the tasks ks of t on an entity with the runs e
Run(t, e, ks) ==
    [e EXCEPT ![t] = [k \in 1..MaxTasks |-> e[t][k] + (IF k \in ks THEN 1 ELSE 0)]]

\* cache.get: the cached object on the owner, a copy elsewhere; then runUpdate.
LoadAndRun(t, ks) ==
    LET e == IF t \in Local THEN cache.entity ELSE t
    IN  /\ version' = [version EXCEPT ![t] = cache.version]
        /\ entity' = [entity EXCEPT ![t] = e]
        /\ heap' = [heap EXCEPT ![e] = Run(t, heap[cache.entity], ks)]

End(t, result) == pc' = [pc EXCEPT ![t] = result]

-----------------------------------------------------------------------------
(* get and addTask *)

\* get: an entity that was found is kept for the rest of the transaction.
Get(t) ==
    /\ pc[t] = "open" /\ cache # Absent
    /\ LoadAndRun(t, {})
    /\ pc' = [pc EXCEPT ![t] = "active"]
    /\ UNCHANGED <<cache, tasks, iteration>>

\* addTask without a get before: the entity is looked up and the update is run on
\* it.  "Not present cache item": the task is ignored; this is a step for the last
\* such task, one that is followed by others changes nothing.
AddFirstTask(t, op) ==
    /\ pc[t] = "open" /\ op # "ADD_IF_ABSENT"
    /\ \/ /\ cache = Absent
          /\ End(t, "ignored")
          /\ UNCHANGED <<heap, tasks, entity, version>>
       \/ /\ cache # Absent
          /\ tasks' = [tasks EXCEPT ![t] = <<op>>]
          /\ LoadAndRun(t, IF op = "REPLACE" THEN {1} ELSE {})
          /\ pc' = [pc EXCEPT ![t] = "active"]
    /\ UNCHANGED <<cache, iteration>>

\* addTask with a new entity and a version of its own
AddNewEntity(t) ==
    /\ pc[t] = "open"
    /\ tasks' = [tasks EXCEPT ![t] = <<"ADD_IF_ABSENT">>]
    /\ entity' = [entity EXCEPT ![t] = t]
    /\ version' = [version EXCEPT ![t] = t]
    /\ heap' = [heap EXCEPT ![t] = Fresh]
    /\ pc' = [pc EXCEPT ![t] = "active"]
    /\ UNCHANGED <<cache, iteration>>

\* addTask for the entity at hand.  get hides a session that is scheduled for
\* removal, but an adapter obtained before may still change or remove it.
AddTask(t, op) ==
    /\ pc[t] = "active" /\ Len(tasks[t]) < MaxTasks
    /\ t \in Brief => Len(tasks[t]) < 2
    /\ op # "ADD_IF_ABSENT"
    /\ tasks' = [tasks EXCEPT ![t] = Append(@, op)]
    /\ heap' = [heap EXCEPT ![entity[t]] =
                  Run(t, @, IF op = "REPLACE" THEN {Len(tasks[t]) + 1} ELSE {})]
    /\ UNCHANGED <<cache, pc, entity, version, iteration>>

-----------------------------------------------------------------------------
(* commitImpl and rollbackImpl *)

\* rollbackImpl does nothing, the updates stay where they were run.
Rollback(t) ==
    /\ pc[t] \in {"open", "active"}
    /\ End(t, "rolledBack")
    /\ UNCHANGED <<cache, heap, tasks, entity, version, iteration>>

CommitRemove(t) ==
    /\ pc[t] = "active" /\ tasks[t] # <<>> /\ MergedOperation(tasks[t]) = "REMOVE"
    /\ cache' = Absent
    /\ End(t, "removed")
    /\ UNCHANGED <<heap, tasks, entity, version, iteration>>

\* putIfAbsent; an existing entity gets the updates and is replaced.
CommitAddIfAbsent(t) ==
    /\ pc[t] = "active" /\ tasks[t] # <<>> /\ MergedOperation(tasks[t]) = "ADD_IF_ABSENT"
    /\ \/ /\ cache = Absent
          /\ cache' = [version |-> t, entity |-> t]
          /\ End(t, IF Changes(t) THEN "changed" ELSE "touched")
          /\ UNCHANGED <<heap, entity, version>>
       \/ /\ cache # Absent
          /\ LoadAndRun(t, ChildUpdates(tasks[t]))
          /\ End(t, "replace")
          /\ UNCHANGED cache
    /\ UNCHANGED <<tasks, iteration>>

\* Mutant: commitImpl runs the updates once more, the line that is commented out.
CommitReplaceRunsAgain(t) ==
    /\ pc[t] = "active" /\ tasks[t] # <<>> /\ MergedOperation(tasks[t]) = "REPLACE"
    /\ heap' = [heap EXCEPT ![entity[t]] = Run(t, @, ChildUpdates(tasks[t]))]
    /\ End(t, "replace")
    /\ UNCHANGED <<cache, tasks, entity, version, iteration>>

CommitReplace(t) ==
    /\ pc[t] = "active" /\ tasks[t] # <<>> /\ MergedOperation(tasks[t]) = "REPLACE"
    /\ End(t, "replace")
    /\ UNCHANGED <<cache, heap, tasks, entity, version, iteration>>

\* Mutant: the entry is replaced whatever its version.
ReplaceAnyVersion(t) ==
    /\ pc[t] = "replace" /\ iteration[t] < Retries
    /\ iteration' = [iteration EXCEPT ![t] = @ + 1]
    /\ \/ /\ cache # Absent
          /\ cache' = [version |-> t, entity |-> entity[t]]
          /\ End(t, IF Changes(t) THEN "changed" ELSE "touched")
       \/ cache = Absent /\ End(t, "reload") /\ UNCHANGED cache
    /\ UNCHANGED <<heap, tasks, entity, version>>

\* Mutant: one attempt too many.
ReplaceOnceMore(t) ==
    /\ pc[t] = "replace" /\ iteration[t] <= Retries
    /\ iteration' = [iteration EXCEPT ![t] = @ + 1]
    /\ End(t, "reload")
    /\ UNCHANGED <<cache, heap, tasks, entity, version>>

\* replace(): the atomic replace of the version read by a new one
Replace(t) ==
    /\ pc[t] = "replace" /\ iteration[t] < Retries
    /\ iteration' = [iteration EXCEPT ![t] = @ + 1]
    /\ \/ /\ cache # Absent /\ cache.version = version[t]
          /\ cache' = [version |-> t, entity |-> entity[t]]
          /\ End(t, IF Changes(t) THEN "changed" ELSE "touched")
       \/ /\ ~(cache # Absent /\ cache.version = version[t])
          /\ End(t, "reload")
          /\ UNCHANGED cache
    /\ UNCHANGED <<heap, tasks, entity, version>>

\* Mutant: the latest entity is read, but the version stays the one read first.
ReloadKeepsVersion(t) ==
    /\ pc[t] = "reload"
    /\ \/ cache = Absent /\ End(t, "ignored") /\ UNCHANGED <<heap, entity>>
       \/ LET e == IF t \in Local THEN cache.entity ELSE t
          IN  /\ cache # Absent
              /\ entity' = [entity EXCEPT ![t] = e]
              /\ heap' = [heap EXCEPT ![e] =
                            Run(t, heap[cache.entity], ChildUpdates(tasks[t]))]
              /\ End(t, "replace")
    /\ UNCHANGED <<cache, tasks, version, iteration>>

\* The latest entity is read and the updates are run on it.
Reload(t) ==
    /\ pc[t] = "reload"
    /\ \/ /\ cache = Absent
          /\ End(t, "ignored")
          /\ UNCHANGED <<heap, entity, version>>
       \/ /\ cache # Absent
          /\ LoadAndRun(t, ChildUpdates(tasks[t]))
          /\ End(t, "replace")
    /\ UNCHANGED <<cache, tasks, iteration>>

\* "Failed to replace entity"
Drop(t) ==
    /\ pc[t] = "replace" /\ iteration[t] = Retries
    /\ End(t, "dropped")
    /\ UNCHANGED <<cache, heap, tasks, entity, version, iteration>>

\* The entry expires or is evicted.
Expire ==
    /\ cache # Absent
    /\ cache' = Absent
    /\ UNCHANGED <<heap, pc, tasks, entity, version, iteration>>

-----------------------------------------------------------------------------
TxStep(t) ==
    \/ Get(t)
    \/ \E op \in Operation : AddFirstTask(t, op) \/ AddTask(t, op)
    \/ AddNewEntity(t)
    \/ Rollback(t)
    \/ CommitRemove(t) \/ CommitAddIfAbsent(t) \/ CommitReplace(t)
    \/ Replace(t) \/ Reload(t) \/ Drop(t)

Next == Expire \/ \E t \in Txs : TxStep(t)

Spec == Init /\ [][Next]_vars

-----------------------------------------------------------------------------
(* Properties *)

\* All updates that the commit of t stands for have been run on the entity n.
Shows(n, t) == \A k \in ChildUpdates(tasks[t]) : heap[n][t][k] > 0

\* The session as the store shows it: the committed changes run on the cached
\* entity.
Committed ==
    IF cache = Absent THEN Absent
    ELSE {t \in Txs : pc[t] = "changed" /\ Shows(cache.entity, t)}

Store == INSTANCE SessionStore WITH
    sess <- Committed,
    outcome <- [t \in Txs |-> IF pc[t] \in Ended THEN pc[t] ELSE "running"]

\* Optimistic replacement implements atomic changes: whatever is shared on the
\* owner and copied elsewhere, a commit adds its changes to all those committed
\* before, and a change is ignored only if there is no session.
ImplementsStore == Store!StoreSpec

\* An update is dropped only after it has lost that many races: at least Retries
\* other transactions have put an entry in the meantime.
DroppedOnlyAfterRaces ==
    \A t \in Txs : pc[t] = "dropped" =>
        Cardinality({u \in Txs : pc[u] \in {"changed", "touched"}}) >= Retries

\* Attempts of t to replace the entry that have failed.
Lost(t) ==
    IF pc[t] \in {"changed", "touched"} /\ iteration[t] > 0 THEN iteration[t] - 1
    ELSE iteration[t]

\* An update counts once on an entity that was copied from another node, and on the
\* owner, where entities are shared, once and once more for every race lost: what
\* incrementFailures adds is never more than that.
RunOncePerRace ==
    \A n \in Names, t \in Txs : \A k \in 1..MaxTasks :
        heap[n][t][k] <= IF t \in Local THEN 1 + Lost(t) ELSE 1

=============================================================================

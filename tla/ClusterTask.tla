---------------------------- MODULE ClusterTask ----------------------------
(***************************************************************************)
(* A task that must run on one cluster node at a time:                     *)
(* InfinispanClusterProvider.executeIfNotExecuted and its asynchronous     *)
(* variant, the lock entry they keep in the work cache, the callbacks of   *)
(* InfinispanNotificationsManager that tell waiting nodes the task has     *)
(* finished, and the coordinator's clean-up after a node has left.         *)
(*                                                                         *)
(* One task key is modelled: keys share nothing.  A caller is one call of  *)
(* executeIfNotExecuted or executeIfNotExecutedAsync; registering the      *)
(* callback and submitting the job to the local executor are one step.     *)
(*                                                                         *)
(* With crossDC the work cache is a remote cache, whose removal events     *)
(* arrive later; without it the cache is replicated synchronously.  With   *)
(* MayFail its operations may throw, with or without having taken effect:  *)
(* a node fails meanwhile, or a site is not available.  The calls repeat   *)
(* them, in either mode; the coordinator's clean-up does not.              *)
(***************************************************************************)
EXTENDS Naturals, FiniteSets

CONSTANTS
  Nodes,       \* cluster nodes
  Callers,     \* calls, each on some node
  AsyncSets,   \* which callers may be the ones that want a future
  FirstNode,   \* the coordinator of the first view
  NoCaller,    \* no lock entry, no callback
  CacheModes,  \* may the work cache be a remote cache, must it be one
  MayFail,     \* operations of the work cache may throw
  Attempts,    \* attempts of Retry.executeWithBackoff (10 in the code)
  MayThrow,    \* the task may throw
  MaxCrashes   \* bound: nodes that leave

ASSUME ClusterTaskAssumption ==
  /\ FirstNode \in Nodes
  /\ AsyncSets \subseteq SUBSET Callers
  /\ IsFiniteSet(Callers)
  /\ NoCaller \notin Callers
  /\ CacheModes \subseteq BOOLEAN
  /\ MayFail \in BOOLEAN
  /\ Attempts \in Nat \ {0}
  /\ MayThrow \in BOOLEAN
  /\ MaxCrashes \in Nat

VARIABLES
  crossDC,     \* the work cache is a remote cache
  at,          \* node of a caller
  async,       \* the caller wants a future
  pc,          \* progress of the call
  tries,       \* failed attempts of the current cache operation
  outcome,     \* how the task ended, where the caller ran it
  result,      \* what the call, or its future, returned
  lock,        \* the lock entry: the caller that put it
  repeated,    \* history: removals repeated although they had taken effect
  callbacks,   \* taskCallbacks of every node: the caller that registered
  latch,       \* taskCompletedLatch of a caller's callback has been released
  success,     \* TaskCallback.success
  events,      \* removal events on their way to a node
  alive,       \* nodes that run
  members,     \* the installed view
  coordinator, \* the node that cleans up
  cleaning     \* it has found the lock of a node that left

callVars == <<crossDC, at, async, pc, tries, outcome, result>>
callbackVars == <<callbacks, latch, success, events>>
viewVars == <<alive, members, coordinator, cleaning>>
vars == <<callVars, lock, repeated, callbackVars, viewVars>>

---------------------------------------------------------------------------
Phases == {"idle", "trylock", "running", "removing", "waiting", "done",
           "dead"}

TypeOK ==
  /\ crossDC \in BOOLEAN
  /\ at \in [Callers -> Nodes]
  /\ async \in [Callers -> BOOLEAN]
  /\ pc \in [Callers -> Phases]
  /\ tries \in [Callers -> 0 .. Attempts - 1]
  /\ outcome \in [Callers -> {"none", "ok", "thrown"}]
  /\ result \in [Callers -> {"none", "executed", "notExecuted", "exception",
                             "joined", "true", "false"}]
  /\ lock \in Callers \cup {NoCaller}
  /\ repeated \in Nat
  /\ callbacks \in [Nodes -> Callers \cup {NoCaller}]
  /\ latch \in [Callers -> BOOLEAN]
  /\ success \in [Callers -> BOOLEAN]
  /\ events \in [Nodes -> Nat]
  /\ alive \subseteq Nodes
  /\ members \subseteq Nodes
  /\ coordinator \in Nodes
  /\ cleaning \in BOOLEAN

Init ==
  /\ crossDC \in CacheModes
  /\ at \in [Callers -> Nodes]
  /\ \E futures \in AsyncSets : async = [c \in Callers |-> c \in futures]
  /\ pc = [c \in Callers |-> "idle"]
  /\ tries = [c \in Callers |-> 0]
  /\ outcome = [c \in Callers |-> "none"]
  /\ result = [c \in Callers |-> "none"]
  /\ lock = NoCaller
  /\ repeated = 0
  /\ callbacks = [n \in Nodes |-> NoCaller]
  /\ latch = [c \in Callers |-> FALSE]
  /\ success = [c \in Callers |-> FALSE]
  /\ events = [n \in Nodes |-> 0]
  /\ alive = Nodes
  /\ members = Nodes
  /\ coordinator = FirstNode
  /\ cleaning = FALSE

---------------------------------------------------------------------------
(* InfinispanNotificationsManager.taskFinished *)

\* The callbacks of a set of nodes are taken out and released.
TaskFinished(nodes, ok) ==
  LET released == {callbacks[n] : n \in nodes}
  IN  /\ callbacks' = [n \in Nodes |->
                         IF n \in nodes THEN NoCaller ELSE callbacks[n]]
      /\ latch' = [c \in Callers |-> latch[c] \/ c \in released]
      /\ success' = [c \in Callers |->
                       IF c \in released THEN ok ELSE success[c]]

\* The lock entry is removed, whoever put it.  Removing an entry tells every
\* node, which takes the task to have been successful.
RemoveLock ==
  /\ lock' = NoCaller
  /\ IF lock = NoCaller
     THEN UNCHANGED callbackVars
     ELSE IF crossDC
     THEN /\ events' = [n \in Nodes |->
                          IF n \in alive THEN events[n] + 1 ELSE 0]
          /\ UNCHANGED <<callbacks, latch, success>>
     ELSE /\ TaskFinished(alive, TRUE)
          /\ UNCHANGED events

\* HotRodListener.removed
DeliverRemoval(n) ==
  /\ events[n] > 0
  /\ events' = [events EXCEPT ![n] = @ - 1]
  /\ TaskFinished({n}, TRUE)
  /\ UNCHANGED <<callVars, lock, repeated, viewVars>>

---------------------------------------------------------------------------
(* The calls *)

\* executeIfNotExecuted is called directly ...
CallSync(c) ==
  /\ pc[c] = "idle"
  /\ ~async[c]
  /\ pc' = [pc EXCEPT ![c] = "trylock"]
  /\ UNCHANGED <<crossDC, at, async, tries, outcome, result, lock, repeated,
                 callbackVars, viewVars>>

\* Mutant: the callback of a later call replaces the first one.
CallAsyncReplaces(c) ==
  /\ pc[c] = "idle"
  /\ async[c]
  /\ callbacks' = [callbacks EXCEPT ![at[c]] = c]
  /\ pc' = [pc EXCEPT ![c] = "trylock"]
  /\ UNCHANGED <<crossDC, at, async, tries, outcome, result, lock, repeated,
                 latch, success, events, viewVars>>

\* ... or executeIfNotExecutedAsync, which registers a callback first and
\* submits a job; a later call on the node shares the first one's future.
CallAsync(c) ==
  /\ pc[c] = "idle"
  /\ async[c]
  /\ \/ /\ callbacks[at[c]] = NoCaller
        /\ callbacks' = [callbacks EXCEPT ![at[c]] = c]
        /\ pc' = [pc EXCEPT ![c] = "trylock"]
        /\ UNCHANGED result
     \/ /\ callbacks[at[c]] # NoCaller
        /\ pc' = [pc EXCEPT ![c] = "done"]
        /\ result' = [result EXCEPT ![c] = "joined"]
        /\ UNCHANGED callbacks
  /\ UNCHANGED <<crossDC, at, async, tries, outcome, lock, repeated, latch,
                 success, events, viewVars>>

\* tryLock: putIfAbsent returns the existing entry, or puts ours.  The entry
\* is put without a lifespan: its age is not looked at.
TryLock(c) ==
  /\ pc[c] = "trylock"
  /\ tries' = [tries EXCEPT ![c] = 0]
  /\ \/ /\ lock = NoCaller
        /\ lock' = c
        /\ pc' = [pc EXCEPT ![c] = "running"]
        /\ UNCHANGED result
     \/ /\ lock # NoCaller
        /\ pc' = [pc EXCEPT ![c] = IF async[c] THEN "waiting" ELSE "done"]
        /\ result' = [result EXCEPT ![c] =
                        IF async[c] THEN @ ELSE "notExecuted"]
        /\ UNCHANGED lock
  /\ UNCHANGED <<crossDC, at, async, outcome, repeated, callbackVars, viewVars>>

\* Mutant: attempts start again when their number is used up.
RetryForever(c) ==
  /\ MayFail
  /\ tries' = [tries EXCEPT ![c] = (@ + 1) % Attempts]
  /\ UNCHANGED <<pc, result>>

\* Mutant: one attempt too many.
RetryOnceMore(c) ==
  /\ MayFail
  /\ tries' = [tries EXCEPT ![c] = IF @ + 1 <= Attempts THEN @ + 1 ELSE 0]
  /\ IF tries[c] + 1 <= Attempts
     THEN UNCHANGED <<pc, result>>
     ELSE /\ pc' = [pc EXCEPT ![c] = "done"]
          /\ result' = [result EXCEPT ![c] = "exception"]

\* An attempt has failed: the next one, or the exception is passed on.
Retry(c) ==
  /\ MayFail
  /\ tries' = [tries EXCEPT ![c] = IF @ + 1 < Attempts THEN @ + 1 ELSE 0]
  /\ IF tries[c] + 1 < Attempts
     THEN UNCHANGED <<pc, result>>
     ELSE /\ pc' = [pc EXCEPT ![c] = "done"]
          /\ result' = [result EXCEPT ![c] = "exception"]

\* putIfAbsent fails, with or without having put the entry.
TryLockFails(c) ==
  /\ pc[c] = "trylock"
  /\ Retry(c)
  /\ lock' \in {lock, IF lock = NoCaller THEN c ELSE lock}
  /\ UNCHANGED <<crossDC, at, async, outcome, repeated, callbackVars, viewVars>>

\* task.call()
TaskEnds(c) ==
  /\ pc[c] = "running"
  /\ \E o \in {"ok"} \cup (IF MayThrow THEN {"thrown"} ELSE {}) :
       outcome' = [outcome EXCEPT ![c] = o]
  /\ pc' = [pc EXCEPT ![c] = "removing"]
  /\ UNCHANGED <<crossDC, at, async, tries, result, lock, repeated, callbackVars,
                 viewVars>>

\* removeFromCache in the finally block; then the call returns, its
\* exception is passed on, or the job waits for the callback.
RemoveFromCache(c) ==
  /\ pc[c] = "removing"
  /\ RemoveLock
  /\ pc' = [pc EXCEPT ![c] =
              IF async[c] /\ outcome[c] = "ok" THEN "waiting" ELSE "done"]
  /\ result' = [result EXCEPT ![c] =
                  IF outcome[c] = "thrown" THEN "exception"
                  ELSE IF async[c] THEN @ ELSE "executed"]
  /\ tries' = [tries EXCEPT ![c] = 0]
  /\ UNCHANGED <<crossDC, at, async, outcome, repeated, viewVars>>

\* remove fails, with or without having removed the entry.
RemoveFromCacheFails(c) ==
  /\ pc[c] = "removing"
  /\ Retry(c)
  /\ \/ /\ RemoveLock
        /\ repeated' = IF lock # NoCaller /\ tries[c] + 1 < Attempts
                       THEN repeated + 1 ELSE repeated
     \/ UNCHANGED <<lock, repeated, callbackVars>>
  /\ UNCHANGED <<crossDC, at, async, outcome, viewVars>>

\* The job returns when the latch is released, or when the wait times out.
Return(c) ==
  /\ pc' = [pc EXCEPT ![c] = "done"]
  /\ result' = [result EXCEPT ![c] =
                  IF success[c] THEN "true" ELSE "false"]
  /\ UNCHANGED <<crossDC, at, async, tries, outcome, lock, repeated, callbackVars,
                 viewVars>>

Await(c) ==
  /\ pc[c] = "waiting"
  /\ latch[c]
  /\ Return(c)

AwaitTimeout(c) ==
  /\ pc[c] = "waiting"
  /\ ~latch[c]
  /\ Return(c)

---------------------------------------------------------------------------
(* Nodes leave, and the coordinator cleans up. *)

Crash(n) ==
  /\ n \in alive
  /\ alive # {n}
  /\ Cardinality(Nodes \ alive) < MaxCrashes
  /\ \E m \in alive \ {n} :
       coordinator' = IF coordinator = n THEN m ELSE coordinator
  /\ alive' = alive \ {n}
  /\ pc' = [c \in Callers |->
              IF at[c] = n /\ pc[c] # "done" THEN "dead" ELSE pc[c]]
  /\ callbacks' = [callbacks EXCEPT ![n] = NoCaller]
  /\ events' = [events EXCEPT ![n] = 0]
  /\ cleaning' = (cleaning /\ coordinator # n)
  /\ UNCHANGED <<crossDC, at, async, tries, outcome, result, lock, repeated, latch,
                 success, members>>

\* Mutant: every lock is removed when a node leaves.
ViewChangedAnyLock ==
  /\ members # alive
  /\ ~cleaning
  /\ members' = alive
  /\ IF lock # NoCaller
     THEN /\ TaskFinished({coordinator}, FALSE)
          /\ cleaning' = TRUE
     ELSE UNCHANGED <<callbacks, latch, success, cleaning>>
  /\ UNCHANGED <<callVars, lock, repeated, events, alive, coordinator>>

\* Mutant: only the waiting callbacks are told.
ViewChangedKeepsLock ==
  /\ members # alive
  /\ ~cleaning
  /\ members' = alive
  /\ TaskFinished({coordinator}, FALSE)
  /\ UNCHANGED <<callVars, lock, repeated, events, alive, coordinator,
                 cleaning>>

\* ViewChangeListener.viewChanged, on the coordinator: the lock of a node
\* that left is looked for, and waiting callbacks of the coordinator learn
\* that the task failed ...
ViewChanged ==
  /\ members # alive
  /\ ~cleaning
  /\ members' = alive
  /\ IF lock # NoCaller /\ at[lock] \in members \ alive
     THEN /\ TaskFinished({coordinator}, FALSE)
          /\ cleaning' = TRUE
     ELSE UNCHANGED <<callbacks, latch, success, cleaning>>
  /\ UNCHANGED <<callVars, lock, repeated, events, alive, coordinator>>

\* ... before the entry is removed, whoever it belongs to by now.  An
\* exception ends the clean-up: nobody repeats it.
RemoveLockOfLeftNode ==
  /\ cleaning
  /\ cleaning' = FALSE
  /\ \/ RemoveLock
     \/ MayFail /\ UNCHANGED <<lock, callbackVars>>
  /\ UNCHANGED <<callVars, repeated, alive, members, coordinator>>

---------------------------------------------------------------------------
Call(c) ==
  \/ CallSync(c)
  \/ CallAsync(c)

Acquire(c) ==
  \/ TryLock(c)
  \/ TryLockFails(c)

Release(c) ==
  \/ RemoveFromCache(c)
  \/ RemoveFromCacheFails(c)

View ==
  \/ ViewChanged
  \/ RemoveLockOfLeftNode

Next ==
  \/ \E c \in Callers :
       \/ Call(c)
       \/ Acquire(c)
       \/ TaskEnds(c)
       \/ Release(c)
       \/ Await(c)
       \/ AwaitTimeout(c)
  \/ \E n \in Nodes : DeliverRemoval(n) \/ Crash(n)
  \/ View

Spec == Init /\ [][Next]_vars

\* Started threads run on, tasks end, events are delivered, and a view change
\* is handled.  That a wait times out is not assumed.
Fairness ==
  /\ \A c \in Callers :
       /\ WF_vars(Acquire(c))
       /\ WF_vars(TaskEnds(c))
       /\ WF_vars(Release(c))
       /\ WF_vars(Await(c))
  /\ \A n \in Nodes : WF_vars(DeliverRemoval(n))
  /\ WF_vars(View)

FairSpec == Spec /\ Fairness

\* As before, and the wait on the latch is bounded by the task's timeout.
TimedSpec == FairSpec /\ \A c \in Callers : WF_vars(AwaitTimeout(c))

---------------------------------------------------------------------------
(* What callers are promised. *)

\* The task is in progress in one call at most, plus one for every removal
\* of a lock entry that took effect, was reported as failed and repeated:
\* the repetition takes the entry of the next caller away.  Nothing else
\* makes calls overlap: no failing putIfAbsent, no node that leaves, and not
\* the coordinator's clean-up, however they interleave.
MutualExclusion ==
  Cardinality({c \in Callers : pc[c] = "running"}) <= 1 + repeated

\* No wake-up is lost: a job that waits for the node running the task is
\* released when the task ends, or when that node leaves - even if its wait
\* never times out.
WaitersReleased ==
  \A c \in Callers : pc[c] = "waiting" ~> pc[c] \in {"done", "dead"}

\* The lock does not outlive the call that put it, nor its node.
LockEventuallyReleased == lock # NoCaller ~> lock = NoCaller

\* With the timeout, every call returns, whatever the remote cache does.
CallsReturn ==
  \A c \in Callers : pc[c] = "trylock" ~> pc[c] \in {"done", "dead"}

\* A future is true only if the task was finished successfully.
FutureTrueOnlyIfFinished ==
  \A c \in Callers :
    result[c] = "true" => \E d \in Callers : outcome[d] = "ok"

=============================================================================

-------------------------- MODULE BruteForceProtector --------------------------
(***************************************************************************)
(* DefaultBruteForceProtector: login threads put events in a queue and wait *)
(* on a latch; one worker takes them in batches, sorts a batch by user and  *)
(* applies it, one by one, to the users' failure records in a transaction.  *)
(*                                                                          *)
(* A failure record in the cache is changed in place, so a rollback keeps   *)
(* what a batch has done to it; it takes back the records the batch has     *)
(* created and what it has done to the users.  One node is modelled: the    *)
(* record of another owner is a copy, which is what SessionChangelog has.   *)
(***************************************************************************)
EXTENDS Naturals, Sequences, FiniteSets, Functions

CONSTANTS
    NumLogins,      \* bound: events offered; the n-th one is called n
    NumUsers,       \* users, in the order of their ids
    TransactionSize,    \* TRANSACTION_SIZE, events drained after the first
    Factors,        \* failures before a user is locked out, as an administrator sets it
    MaxChanges,     \* bound: changes of the realm's settings
    MaxFaults       \* bound: sessions that cannot be created, transactions that fail

ASSUME BoundsAssumption ==
    /\ {NumLogins, NumUsers, TransactionSize} \subseteq Nat \ {0}
    /\ Factors \subseteq Nat \ {0}
    /\ {MaxChanges, MaxFaults} \subseteq Nat

Logins == 1..NumLogins
Users == 1..NumUsers
ShutdownEvent == 0
Events == Logins \cup {ShutdownEvent}

VARIABLES
    permanent,      \* realm.isPermanentLockout
    factor,         \* realm.getFailureFactor
    changes,        \* changes of the settings
    offered,        \* events offered so far
    login,          \* kind and user of each event
    latch,          \* events whose latch has been counted down
    queue,
    events,         \* the worker's list
    worker,
    run,
    stopper,        \* the thread that calls shutdown
    faults,         \* sessions not created and transactions that have failed
    failure,        \* UserLoginFailureModel by user: the cached one, or the transaction's
    stored,         \* users whose failure record is in the cache
    created,        \* users whose failure record the transaction has created
    enabled,        \* users that are enabled in the database
    txEnabled,      \* users that are enabled as the transaction sees them
    pos,            \* position of the loop over the list, 1 outside of it
    outcome,        \* history: how the transaction of an event has ended
    applied         \* history: events that are in effect on the failure records

settingVars == <<permanent, factor, changes>>
loginVars == <<offered, login>>
workVars == <<latch, queue, events, worker, faults>>
userVars == <<stored, created, enabled, txEnabled>>
endVars == <<pos, outcome, applied>>
recordVars == <<failure, userVars, endVars>>
vars == <<settingVars, loginVars, workVars, run, stopper, recordVars>>

\* The time since the last failure: none (0), less than quickLoginCheck, more, or
\* more than maxDeltaTime.
Age == {"none", "quick", "recent", "old"}
\* Two histories: since is the failure with which older ones were cleared, if any;
\* missed says that a lockout was undone, or that the factor was set to a number
\* the failures had already reached.
Record == [numFailures : Nat, age : Age, wait : BOOLEAN, since : 0..NumLogins, missed : BOOLEAN]
NoFailures ==
    [numFailures |-> 0, age |-> "none", wait |-> FALSE, since |-> 0, missed |-> FALSE]

TypeOK ==
    /\ permanent \in BOOLEAN /\ factor \in Factors /\ changes \in 0..MaxChanges
    /\ offered \in 0..NumLogins
    /\ login \in [Logins -> [failed : BOOLEAN, user : Users]]
    /\ latch \subseteq Logins
    /\ queue \in Seq(Events) /\ events \in Seq(Events)
    /\ worker \in {"loop", "poll", "drain", "sort", "create", "update", "release", "stopped"}
    /\ run \in BOOLEAN
    /\ stopper \in {"idle", "offer", "await", "returned"}
    /\ faults \in 0..MaxFaults
    /\ failure \in [Users -> Record]
    /\ stored \subseteq Users /\ created \subseteq Users \ stored
    /\ enabled \subseteq Users /\ txEnabled \subseteq Users
    /\ pos \in 1..Len(events) + 1
    /\ outcome \in [Logins -> {"none", "committed", "rolledBack"}]
    /\ applied \subseteq Logins

Init ==
    /\ permanent = FALSE /\ factor \in Factors /\ changes = 0
    /\ offered = 0
    /\ login = [l \in Logins |-> [failed |-> TRUE, user |-> 1]]
    /\ latch = {} /\ queue = <<>> /\ events = <<>>
    /\ worker = "loop" /\ run = TRUE /\ stopper = "idle" /\ faults = 0
    /\ failure = [u \in Users |-> NoFailures] /\ stored = {} /\ created = {}
    /\ enabled = Users /\ txEnabled = Users /\ pos = 1
    /\ outcome = [l \in Logins |-> "none"] /\ applied = {}

-----------------------------------------------------------------------------
(* The login threads: failedLogin and successfulLogin *)

\* The thread offers its event.  It then waits for the latch, five seconds at most,
\* and changes nothing any more.
Offer(failed, user) ==
    /\ offered < NumLogins
    /\ offered' = offered + 1
    /\ login' = [login EXCEPT ![offered'] = [failed |-> failed, user |-> user]]
    /\ queue' = Append(queue, offered')
    /\ UNCHANGED <<settingVars, latch, events, worker, faults, run, stopper, recordVars>>

-----------------------------------------------------------------------------
(* shutdown *)

ShutdownFlag ==
    /\ stopper = "idle"
    /\ run' = FALSE
    /\ stopper' = "offer"
    /\ UNCHANGED <<settingVars, loginVars, workVars, recordVars>>

ShutdownOffer ==
    /\ stopper = "offer"
    /\ queue' = Append(queue, ShutdownEvent)
    /\ stopper' = "await"
    /\ UNCHANGED <<settingVars, loginVars, latch, events, worker, faults, run, recordVars>>

\* shutdownLatch has been counted down.
ShutdownReturns ==
    /\ stopper = "await" /\ worker = "stopped"
    /\ stopper' = "returned"
    /\ UNCHANGED <<settingVars, loginVars, workVars, run, recordVars>>

-----------------------------------------------------------------------------
(* The worker *)

Worker(from, to) == worker = from /\ worker' = to

\* while (run)
Enter ==
    /\ Worker("loop", "poll") /\ run
    /\ UNCHANGED <<settingVars, loginVars, latch, queue, events, faults, run, stopper, recordVars>>

\* poll returns an event, or nothing after two seconds.
Poll ==
    /\ Worker("poll", "drain")
    /\ queue # <<>>
    /\ events' = Append(events, Head(queue))
    /\ queue' = Tail(queue)
    /\ UNCHANGED <<settingVars, loginVars, latch, faults, run, stopper, recordVars>>

PollTimeout ==
    /\ Worker("poll", "loop")
    /\ queue = <<>>
    /\ UNCHANGED <<settingVars, loginVars, latch, queue, events, faults, run, stopper, recordVars>>

\* Mutant: the worker stops when the queue is empty.
ExitWhenDrained ==
    /\ Worker("loop", "stopped") /\ ~run /\ queue = <<>>
    /\ UNCHANGED <<settingVars, loginVars, latch, queue, events, faults, run, stopper, recordVars>>

Exit ==
    /\ Worker("loop", "stopped") /\ ~run
    /\ UNCHANGED <<settingVars, loginVars, latch, queue, events, faults, run, stopper, recordVars>>

\* drainTo
Drain ==
    /\ Worker("drain", "sort")
    /\ LET n == IF Len(queue) < TransactionSize THEN Len(queue) ELSE TransactionSize
       IN  /\ events' = events \o SubSeq(queue, 1, n)
           /\ queue' = SubSeq(queue, n + 1, Len(queue))
    /\ UNCHANGED <<settingVars, loginVars, latch, faults, run, stopper, recordVars>>

\* Mutant: the last event of a user comes first.
SortsLastFirst(f, s) ==
    \A i, j \in DOMAIN s :
        i < j => LET a == login[s[f[i]]].user
                     b == login[s[f[j]]].user
                 IN  a < b \/ (a = b /\ f[i] > f[j])

\* Collections.sort takes the events from the positions f: by user, and those of a
\* user in the order they are in.
Sorts(f, s) ==
    \A i, j \in DOMAIN s :
        i < j => LET a == login[s[f[i]]].user
                     b == login[s[f[j]]].user
                 IN  a < b \/ (a = b /\ f[i] < f[j])

\* A ShutdownEvent has no user to compare: with other events the sort throws an
\* exception, and the events stay in the list.
Sort ==
    /\ \/ /\ ShutdownEvent \notin Range(events)
          /\ Worker("sort", "create")
          /\ \E f \in Bijection(DOMAIN events, DOMAIN events) :
                /\ Sorts(f, events)
                /\ events' = [i \in DOMAIN events |-> events[f[i]]]
       \/ /\ events = <<ShutdownEvent>>
          /\ Worker("sort", "create")
          /\ UNCHANGED events
       \/ /\ ShutdownEvent \in Range(events) /\ Len(events) > 1
          /\ Worker("sort", "loop")
          /\ UNCHANGED events
    /\ UNCHANGED <<settingVars, loginVars, latch, queue, faults, run, stopper, recordVars>>

Create ==
    /\ Worker("create", "update")
    /\ UNCHANGED <<settingVars, loginVars, latch, queue, events, faults, run, stopper, recordVars>>

\* Mutant: the list is cleared when no session can be created.
CreateFailsAndClears ==
    /\ Worker("create", "loop") /\ faults < MaxFaults
    /\ faults' = faults + 1
    /\ events' = <<>>
    /\ UNCHANGED <<settingVars, loginVars, latch, queue, run, stopper, recordVars>>

\* factory.create or begin throws an exception before the inner try: the events
\* stay in the list and are part of the next batch.
CreateFails ==
    /\ Worker("create", "loop") /\ faults < MaxFaults
    /\ faults' = faults + 1
    /\ UNCHANGED <<settingVars, loginVars, latch, queue, events, run, stopper, recordVars>>

\* Mutant: the number is compared before the failure is counted.
ReachesFactorLate(r) == permanent /\ r.numFailures = factor

\* The failure after r is the one that locks the user permanently.
ReachesFactor(r) == permanent /\ r.numFailures + 1 = factor

\* failure() with a permanent lockout
LockPermanently(r) ==
    [r EXCEPT !.numFailures = @ + 1, !.age = "quick",
              !.wait = @ \/ (~ReachesFactor(r) /\ r.age = "quick")]

\* failure() otherwise, for event e.  clearFailures takes back the lastFailure just
\* set, too.
WaitLonger(r, e) ==
    IF r.age = "old"
    THEN [NoFailures EXCEPT !.numFailures = 1, !.wait = factor = 1, !.since = e]
    ELSE LET n == r.numFailures + 1
         IN  [r EXCEPT !.numFailures = n, !.age = "quick",
                       !.wait = @ \/ n >= factor \/ r.age = "quick"]

\* failure and success for event e of the user with record r; a success of a user
\* without a record changes nothing, which is clearing no failures.
Apply(r, e) ==
    IF ~login[e].failed THEN NoFailures
    ELSE IF permanent THEN LockPermanently(r) ELSE WaitLonger(r, e)

\* One turn of the loop over the events
UpdateEvent ==
    /\ worker = "update" /\ pos <= Len(events)
    /\ pos' = pos + 1
    /\ \/ /\ events[pos] = ShutdownEvent
          /\ run' = FALSE
          /\ UNCHANGED <<failure, created, txEnabled, applied>>
       \/ /\ events[pos] # ShutdownEvent
          /\ LET e == events[pos]
                 u == login[e].user
             IN  /\ failure' = [failure EXCEPT ![u] = Apply(@, e)]
                 /\ created' = created \cup {v \in {u} \ stored : login[e].failed}
                 /\ txEnabled' = txEnabled \
                        {v \in {u} : login[e].failed /\ ReachesFactor(failure[u])}
                 /\ applied' = applied \cup {e}
          /\ UNCHANGED run
    /\ UNCHANGED <<settingVars, loginVars, workVars, stopper, stored, enabled, outcome>>

\* The transaction ends.  Of the records it has created those of the users in kept go
\* to the cache, and the lockouts of the users in undone are taken back.
Finish(result, kept, undone) ==
    /\ stored' = stored \cup kept
    /\ created' = {}
    /\ failure' = [u \in Users |->
            IF u \in created \ kept THEN NoFailures
            ELSE IF u \in undone THEN [failure[u] EXCEPT !.missed = TRUE] ELSE failure[u]]
    /\ applied' = {l \in applied : login[l].user \notin created \ kept}
    /\ outcome' = [l \in Logins |-> IF l \in Range(events) THEN result ELSE outcome[l]]
    /\ pos' = 1
    /\ UNCHANGED <<settingVars, loginVars, latch, queue, events, run, stopper>>

UpdateCommits ==
    /\ Worker("update", "release")
    /\ pos > Len(events)
    /\ Finish("committed", created, {})
    /\ enabled' = txEnabled
    /\ UNCHANGED <<txEnabled, faults>>

\* An exception in the loop or in the commit of the database: the transaction is
\* rolled back.
UpdateFails ==
    /\ Worker("update", "release") /\ faults < MaxFaults
    /\ faults' = faults + 1
    /\ Finish("rolledBack", {}, enabled \ txEnabled)
    /\ txEnabled' = enabled
    /\ UNCHANGED enabled

\* An exception after the commit of the database, while the records created go to
\* the cache one by one
PublishFails ==
    /\ Worker("update", "release") /\ faults < MaxFaults
    /\ faults' = faults + 1
    /\ pos > Len(events)
    /\ \E kept \in SUBSET created : Finish("rolledBack", kept, {})
    /\ enabled' = txEnabled
    /\ UNCHANGED txEnabled

\* Mutant: the list is not cleared.
ReleaseKeepsEvents ==
    /\ Worker("release", "loop")
    /\ latch' = latch \cup (Range(events) \ {ShutdownEvent})
    /\ UNCHANGED <<settingVars, loginVars, queue, events, faults, run, stopper, recordVars>>

\* Mutant: the latch of every event is counted down.
ReleaseAny ==
    /\ Worker("release", "loop")
    /\ latch' = latch \cup Range(events)
    /\ events' = <<>>
    /\ UNCHANGED <<settingVars, loginVars, queue, faults, run, stopper, recordVars>>

\* finally: the latches are counted down and the list is cleared.
Release ==
    /\ Worker("release", "loop")
    /\ latch' = latch \cup (Range(events) \ {ShutdownEvent})
    /\ events' = <<>>
    /\ UNCHANGED <<settingVars, loginVars, queue, faults, run, stopper, recordVars>>

-----------------------------------------------------------------------------
\* Time passes since the last failure of u, or until notBefore.
TimePasses(u) ==
    /\ \/ failure[u].age = "quick" /\ failure' = [failure EXCEPT ![u].age = "recent"]
       \/ failure[u].age = "recent" /\ failure' = [failure EXCEPT ![u].age = "old"]
       \/ failure[u].wait /\ failure' = [failure EXCEPT ![u].wait = FALSE]
    /\ UNCHANGED <<settingVars, loginVars, workVars, run, stopper, userVars, endVars>>

\* An administrator changes the realm.  The worker's session keeps the realm it has
\* loaded, so a batch sees the settings of one moment.
ChangeSettings(p, n) ==
    /\ changes < MaxChanges /\ worker # "update"
    /\ <<p, n>> # <<permanent, factor>>
    /\ changes' = changes + 1
    /\ permanent' = p /\ factor' = n
    /\ failure' = [u \in Users |->
            IF p /\ failure[u].numFailures >= n /\ u \in txEnabled
            THEN [failure[u] EXCEPT !.missed = TRUE] ELSE failure[u]]
    /\ UNCHANGED <<loginVars, workVars, run, stopper, userVars, endVars>>

WorkerStep ==
    \/ Enter \/ Poll \/ PollTimeout \/ Exit \/ Drain \/ Sort \/ Create \/ CreateFails
    \/ UpdateEvent \/ UpdateCommits \/ UpdateFails \/ PublishFails \/ Release

Next ==
    \/ \E failed \in BOOLEAN, u \in Users : Offer(failed, u)
    \/ ShutdownFlag \/ ShutdownOffer \/ ShutdownReturns
    \/ WorkerStep
    \/ \E u \in Users : TimePasses(u)
    \/ \E p \in BOOLEAN, n \in Factors : ChangeSettings(p, n)

\* The threads run.
Fairness == WF_vars(WorkerStep) /\ WF_vars(ShutdownOffer) /\ WF_vars(ShutdownReturns)

Spec == Init /\ [][Next]_vars /\ Fairness

-----------------------------------------------------------------------------
(* Properties *)

\* Failures of u among the events done that no success and no clearing has followed
Counted(u, done, since) ==
    {l \in done : /\ login[l].user = u /\ login[l].failed /\ l >= since
                  /\ \A s \in done : login[s].user = u /\ s > l => login[s].failed}

\* "we want an accurate failure count": the number of failures of a user is that of
\* the failed logins in effect since the last successful one, in the order in which
\* they were offered, whatever batches they came in and were left over from.  Each
\* one whose transaction has committed is in effect, once; one whose transaction has
\* failed may be.
CountAccurate ==
    /\ \A l \in Logins : outcome[l] = "committed" /\ login[l].failed => l \in applied
    /\ \A u \in Users :
        failure[u].numFailures = Cardinality(Counted(u, applied, failure[u].since))

\* An event is in the queue, in the worker's list or done with, exactly one of these
\* and once: none is lost or applied twice, whatever exception the worker meets.
EachEventOnce ==
    LET left == events \o queue
        ended == {l \in Logins : outcome[l] # "none"}
    IN  /\ \A i, j \in DOMAIN left : left[i] = left[j] => i = j
        /\ (Range(left) \cap Logins) \cup latch = 1..offered
        /\ Range(left) \cap latch = {}
        /\ ended = latch \cup (IF worker = "release" THEN Range(events) \cap Logins ELSE {})

\* With a permanent lockout a user whose failures have reached the factor is
\* disabled: the test for equality is stepped over only by a rollback that keeps the
\* failures and by a change of the settings.
LockedAtFactor ==
    permanent => \A u \in Users :
        failure[u].numFailures >= factor => u \notin txEnabled \/ failure[u].missed

\* Unless the server shuts down, every login thread is released by the worker, and
\* events left over from a batch without a session are released with the next ones:
\* they wait only as long as no other event arrives.
LoginsReleased ==
    \A l \in Logins :
        l <= offered ~> \/ l \in latch
                        \/ ~run
                        \/ worker = "poll" /\ queue = <<>> /\ l \in Range(events)

\* shutdown returns, even if the worker meets an exception in its last batch.
ShutdownEnds == stopper = "offer" ~> stopper = "returned"

=============================================================================

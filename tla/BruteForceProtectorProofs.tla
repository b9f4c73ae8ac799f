----------------------- MODULE BruteForceProtectorProofs -----------------------
(***************************************************************************)
(* Proofs about BruteForceProtector: its type invariant, that no event is   *)
(* lost or applied twice, that the failure counts are exact and that only a *)
(* rollback or a change of the settings steps over the permanent lockout.   *)
(***************************************************************************)
EXTENDS BruteForceProtector, FiniteSetTheorems, TLAPS

-----------------------------------------------------------------------------
(* The inductive invariant *)

In(e, s) == \E i \in DOMAIN s : s[i] = e

Injective(s) == \A i, j \in DOMAIN s : s[i] = s[j] => i = j

\* The two sequences have no event in common and each event in them once.  There is
\* one ShutdownEvent, and none before it is offered.
Once ==
    /\ Injective(queue) /\ Injective(events)
    /\ \A i \in DOMAIN events, j \in DOMAIN queue : events[i] # queue[j]
    /\ stopper \in {"idle", "offer"} =>
            ~In(ShutdownEvent, queue) /\ ~In(ShutdownEvent, events)

\* A login that was offered is in one of the sequences or released, and its
\* transaction has ended when it is released or about to be.
Placed ==
    \A l \in Logins :
        /\ l <= offered <=> In(l, queue) \/ In(l, events) \/ l \in latch
        /\ l \in latch => ~In(l, queue) /\ ~In(l, events)
        /\ outcome[l] # "none" <=> l \in latch \/ (worker = "release" /\ In(l, events))

\* The logins in the queue are in the order of their numbers, come after those in the
\* list and after those whose transaction has ended.
QueueOrder ==
    /\ \A i, j \in DOMAIN queue :
            i < j /\ queue[i] # ShutdownEvent /\ queue[j] # ShutdownEvent => queue[i] < queue[j]
    /\ \A i \in DOMAIN events, j \in DOMAIN queue :
            events[i] # ShutdownEvent /\ queue[j] # ShutdownEvent => events[i] < queue[j]
    /\ \A l \in Logins, j \in DOMAIN queue :
            outcome[l] # "none" /\ queue[j] # ShutdownEvent => l < queue[j]

\* The logins of a user are in the list in the order of their numbers, and come after
\* those whose transaction has ended.
ListOrder ==
    /\ \A i, j \in DOMAIN events :
            /\ i < j /\ events[i] # ShutdownEvent /\ events[j] # ShutdownEvent
            /\ login[events[i]].user = login[events[j]].user
            => events[i] < events[j]
    /\ worker # "release" =>
            \A l \in Logins, i \in DOMAIN events :
                outcome[l] # "none" /\ events[i] # ShutdownEvent => l < events[i]

\* Outside of the loop there is no transaction.
TxInv == worker # "update" => pos = 1 /\ created = {} /\ txEnabled = enabled

\* Events the worker's transaction has been through
Passed(l) == worker = "update" /\ \E i \in DOMAIN events : i < pos /\ events[i] = l

\* Events in effect have an outcome, or the loop has passed them.  Failures that were
\* committed are in effect and have their record in the cache; those that the loop has
\* passed are in effect, too, and have a record there or in the transaction.
DoneInv ==
    /\ \A l \in applied : outcome[l] # "none" \/ Passed(l)
    /\ \A l \in Logins : outcome[l] = "committed" /\ login[l].failed =>
                            l \in applied /\ login[l].user \in stored
    /\ \A l \in Logins : Passed(l) /\ login[l].failed =>
                            l \in applied /\ login[l].user \in stored \cup created

\* Counted, with the logins lg
CountedBy(lg, u, done, since) ==
    {l \in done : /\ lg[l].user = u /\ lg[l].failed /\ l >= since
                  /\ \A s \in done : lg[s].user = u /\ s > l => lg[s].failed}

\* The records r count the events of the set done.
Counts(lg, r, done) ==
    \A u \in Users :
        /\ r[u].numFailures = Cardinality(CountedBy(lg, u, done, r[u].since))
        /\ r[u].since = 0 \/ (r[u].since \in done /\ lg[r[u].since].user = u)

CountInv == Counts(login, failure, applied)

\* The users with the records r that have reached the factor n are not enabled in
\* the set on.
Locked(r, n, on) == \A u \in Users : r[u].numFailures >= n => u \notin on \/ r[u].missed

LockInv == permanent => Locked(failure, factor, txEnabled)

IInv ==
    /\ TypeOK /\ Once /\ Placed /\ QueueOrder /\ ListOrder
    /\ TxInv /\ DoneInv /\ CountInv /\ LockInv

-----------------------------------------------------------------------------
(* Type correctness *)

\* The constants: counts are naturals and the sets of logins and users are intervals.
LEMMA ConstantsOK ==
    /\ NumLogins \in Nat \ {0} /\ NumUsers \in Nat \ {0}
    /\ TransactionSize \in Nat \ {0} /\ Factors \subseteq Nat \ {0}
    /\ MaxFaults \in Nat /\ MaxChanges \in Nat
    /\ Logins \subseteq Nat \ {0}
    /\ Events = Logins \cup {0} /\ ShutdownEvent = 0
  BY BoundsAssumption DEF Logins, Events, ShutdownEvent

\* failure() and success() make a record from a record.
LEMMA ApplyType ==
    ASSUME permanent \in BOOLEAN, factor \in Factors, login \in [Logins -> [failed : BOOLEAN, user : Users]],
           NEW r \in Record, NEW e \in Logins
    PROVE  Apply(r, e) \in Record
  <1>1. NoFailures \in Record
    BY ConstantsOK DEF NoFailures, Record, Age
  <1>2. r.numFailures + 1 \in Nat /\ e \in 0..NumLogins
    BY ConstantsOK DEF Record, Logins
  <1>4. LockPermanently(r) \in Record
    BY <1>2, ConstantsOK DEF LockPermanently, ReachesFactor, Record, Age
  <1>5. WaitLonger(r, e) \in Record
    <2>1. CASE r.age = "old"
      BY <1>2, <2>1, ConstantsOK DEF WaitLonger, NoFailures, Record, Age
    <2>2. CASE r.age # "old"
      BY <1>2, <2>2, ConstantsOK DEF WaitLonger, Record, Age
    <2>3. QED  BY <2>1, <2>2
  <1>6. QED  BY <1>1, <1>4, <1>5 DEF Apply

\* What time, a rollback and an administrator do to a record leaves it a record.
LEMMA AgedType ==
    ASSUME NEW r \in Record
    PROVE  /\ [r EXCEPT !.age = "recent"] \in Record
           /\ [r EXCEPT !.age = "old"] \in Record
           /\ [r EXCEPT !.wait = FALSE] \in Record
           /\ [r EXCEPT !.missed = TRUE] \in Record
  BY DEF Record, Age

\* Time changes the age and the wait of a record, not its count, nor whether a
\* lockout was missed.
LEMMA TimeKeeps ==
    ASSUME TypeOK, NEW u \in Users, TimePasses(u)
    PROVE  \A v \in Users : /\ failure'[v].numFailures = failure[v].numFailures
                           /\ failure'[v].since = failure[v].since
                           /\ failure'[v].missed = failure[v].missed
  <1>1. failure \in [Users -> Record]
    BY DEF TypeOK
  <1>2. ASSUME NEW r \in Record
        PROVE  /\ \A a : LET r2 == [r EXCEPT !.age = a]
                        IN  /\ r2.numFailures = r.numFailures /\ r2.since = r.since
                            /\ r2.missed = r.missed
               /\ LET r2 == [r EXCEPT !.wait = FALSE]
                  IN  /\ r2.numFailures = r.numFailures /\ r2.since = r.since
                      /\ r2.missed = r.missed
    BY DEF Record
  <1>3. PICK r2 : /\ failure' = [failure EXCEPT ![u] = r2]
                  /\ r2.numFailures = failure[u].numFailures /\ r2.since = failure[u].since
                  /\ r2.missed = failure[u].missed
    <2>1. CASE failure' = [failure EXCEPT ![u].age = "recent"]
      BY <1>1, <1>2, <2>1
    <2>2. CASE failure' = [failure EXCEPT ![u].age = "old"]
      BY <1>1, <1>2, <2>2
    <2>3. CASE failure' = [failure EXCEPT ![u].wait = FALSE]
      BY <1>1, <1>2, <2>3
    <2>4. QED  BY <2>1, <2>2, <2>3 DEF TimePasses
  <1>4. QED  BY <1>1, <1>3

\* Sequences after drainTo: the first n events of the queue are behind those of the list.
Moved(n) ==
    /\ n \in 0..Len(queue)
    /\ events' \in Seq(Events) /\ Len(events') = Len(events) + n
    /\ \A i \in 1..Len(events) : events'[i] = events[i]
    /\ \A i \in 1..n : events'[Len(events) + i] = queue[i]
    /\ queue' \in Seq(Events) /\ Len(queue') = Len(queue) - n
    /\ \A i \in 1..(Len(queue) - n) : queue'[i] = queue[n + i]

\* poll moves one event to the list.
LEMMA PollMoves ==
    ASSUME TypeOK, Poll
    PROVE  Moved(1)
  <1>1. queue \in Seq(Events) /\ events \in Seq(Events) /\ queue # <<>>
    BY DEF TypeOK, Poll
  <1>2. Len(queue) \in Nat \ {0} /\ Len(events) \in Nat /\ Head(queue) = queue[1]
        /\ queue[1] \in Events
    BY <1>1
  <1>3. /\ events' = Append(events, Head(queue)) /\ queue' = Tail(queue)
    BY DEF Poll
  <1>4. /\ events' \in Seq(Events) /\ Len(events') = Len(events) + 1
        /\ \A i \in 1..Len(events) : events'[i] = events[i]
        /\ events'[Len(events) + 1] = queue[1]
    BY <1>1, <1>2, <1>3
  <1>5. /\ queue' \in Seq(Events) /\ Len(queue') = Len(queue) - 1
        /\ \A i \in 1..(Len(queue) - 1) : queue'[i] = queue[1 + i]
    BY <1>1, <1>2, <1>3
  <1>6. QED  BY <1>2, <1>4, <1>5 DEF Moved

\* drainTo moves what the queue has, TRANSACTION_SIZE events at most.
LEMMA DrainMoves ==
    ASSUME TypeOK, Drain
    PROVE  \E n \in Nat : Moved(n)
  <1> DEFINE n == IF Len(queue) < TransactionSize THEN Len(queue) ELSE TransactionSize
  <1>1. queue \in Seq(Events) /\ events \in Seq(Events)
    BY DEF TypeOK
  <1>2. Len(queue) \in Nat /\ Len(events) \in Nat /\ n \in 0..Len(queue)
    BY <1>1, ConstantsOK
  <1>3. /\ events' = events \o SubSeq(queue, 1, n)
        /\ queue' = SubSeq(queue, n + 1, Len(queue))
    BY DEF Drain
  <1> HIDE DEF n
  <1>4. /\ SubSeq(queue, 1, n) \in Seq(Events) /\ Len(SubSeq(queue, 1, n)) = n
        /\ \A i \in 1..n : SubSeq(queue, 1, n)[i] = queue[i]
    BY <1>1, <1>2
  <1>5. /\ events' \in Seq(Events) /\ Len(events') = Len(events) + n
        /\ \A i \in 1..Len(events) : events'[i] = events[i]
        /\ \A i \in 1..n : events'[Len(events) + i] = queue[i]
    BY <1>1, <1>2, <1>3, <1>4
  <1>6. /\ queue' \in Seq(Events) /\ Len(queue') = Len(queue) - n
        /\ \A i \in 1..(Len(queue) - n) : queue'[i] = queue[n + i]
    BY <1>1, <1>2, <1>3
  <1>7. Moved(n)
    BY <1>2, <1>5, <1>6 DEF Moved
  <1>8. n \in Nat
    BY <1>2
  <1>9. QED  BY <1>7, <1>8

\* The steps that touch the sequences keep them typed.
LEMMA TypeSequences ==
    ASSUME TypeOK, TxInv, Next
    PROVE  /\ queue' \in Seq(Events) /\ events' \in Seq(Events)
           /\ pos' \in 1..Len(events') + 1
  <1>0. /\ queue \in Seq(Events) /\ events \in Seq(Events) /\ pos \in 1..Len(events) + 1
        /\ Len(events) \in Nat
    BY DEF TypeOK
  <1>1. ASSUME NEW failed \in BOOLEAN, NEW u \in Users, Offer(failed, u)
        PROVE  queue' \in Seq(Events) /\ UNCHANGED <<events, pos>>
    <2>1. offered' \in Events
      BY <1>1, ConstantsOK DEF Offer, TypeOK, Logins
    <2>2. QED  BY <1>0, <1>1, <2>1 DEF Offer, recordVars, endVars
  <1>2. CASE ShutdownOffer
    BY <1>0, <1>2, ConstantsOK DEF ShutdownOffer, recordVars, endVars
  <1>3. CASE Poll
    <2>1. Moved(1) /\ pos' = 1
      BY <1>3, PollMoves DEF Poll, Worker, TxInv, recordVars, endVars
    <2>2. QED  BY <1>0, <2>1 DEF Moved
  <1>4. CASE Drain
    <2>1. PICK n \in Nat : Moved(n)
      BY <1>4, DrainMoves
    <2>2. pos' = 1
      BY <1>4 DEF Drain, Worker, TxInv, recordVars, endVars
    <2>3. QED  BY <1>0, <2>1, <2>2 DEF Moved
  <1>5. CASE Sort
    <2>1. UNCHANGED <<queue, pos>>
      BY <1>5 DEF Sort, recordVars, endVars
    <2>2. CASE events' = events
      BY <1>0, <2>1, <2>2
    <2>3. ASSUME NEW f \in Bijection(DOMAIN events, DOMAIN events),
                 events' = [i \in DOMAIN events |-> events[f[i]]]
          PROVE  events' \in Seq(Events) /\ Len(events') = Len(events)
      <3>1. DOMAIN events = 1..Len(events)
        BY <1>0
      <3>2. \A i \in DOMAIN events : f[i] \in DOMAIN events
        BY <2>3 DEF Bijection, Injection
      <3>3. \A i \in DOMAIN events : events[f[i]] \in Events
        BY <1>0, <3>2
      <3>4. QED  BY <1>0, <2>3, <3>1, <3>3
    <2>4. QED  BY <1>0, <1>5, <2>1, <2>2, <2>3 DEF Sort
  <1>6. CASE UpdateEvent
    BY <1>0, <1>6 DEF UpdateEvent, workVars
  <1>7. CASE UpdateCommits \/ UpdateFails \/ PublishFails
    BY <1>0, <1>7 DEF UpdateCommits, UpdateFails, PublishFails, Finish
  <1>8. CASE Release
    <2>1. pos' = 1 /\ events' = <<>> /\ queue' = queue
      BY <1>8 DEF Release, Worker, TxInv, recordVars, endVars
    <2>2. QED  BY <1>0, <2>1
  <1>9. ASSUME \/ \E u \in Users : TimePasses(u)
               \/ \E p \in BOOLEAN, n \in Factors : ChangeSettings(p, n)
        PROVE  UNCHANGED <<queue, events, pos>>
    BY <1>9 DEF TimePasses, ChangeSettings, workVars, endVars
  <1>10. CASE ShutdownFlag \/ ShutdownReturns \/ Enter \/ PollTimeout \/ Exit \/ Create \/ CreateFails
    <2>1. UNCHANGED <<queue, events, pos>>
      BY <1>10 DEF ShutdownFlag, ShutdownReturns, Enter, PollTimeout, Exit, Create, CreateFails,
                   workVars, recordVars, endVars
    <2>2. QED  BY <1>0, <2>1
  <1>11. QED
    BY <1>0, <1>1, <1>2, <1>3, <1>4, <1>5, <1>6, <1>7, <1>8, <1>9, <1>10 DEF Next, WorkerStep

\* The three ways in which a transaction ends
LEMMA Ends ==
    ASSUME TypeOK, UpdateCommits \/ UpdateFails \/ PublishFails
    PROVE  /\ worker = "update" /\ worker' = "release"
           /\ \E result \in {"committed", "rolledBack"}, kept \in SUBSET created,
                 undone \in SUBSET Users :
                    /\ Finish(result, kept, undone)
                    /\ txEnabled' \subseteq txEnabled \cup undone
                    /\ result = "committed" => pos > Len(events) /\ kept = created
  <1>1. worker = "update" /\ worker' = "release"
    BY DEF UpdateCommits, UpdateFails, PublishFails, Worker
  <1>2. CASE UpdateCommits
    BY <1>1, <1>2 DEF UpdateCommits
  <1>3. CASE UpdateFails
    <2>1. enabled \ txEnabled \in SUBSET Users
      BY DEF TypeOK
    <2>2. QED  BY <1>1, <1>3, <2>1 DEF UpdateFails
  <1>4. CASE PublishFails
    BY <1>1, <1>4 DEF PublishFails
  <1>5. QED  BY <1>2, <1>3, <1>4

\* The records stay typed.
LEMMA TypeRecords ==
    ASSUME TypeOK, Next
    PROVE  failure' \in [Users -> Record]
  <1>0. failure \in [Users -> Record]
    BY DEF TypeOK
  <1>1. CASE UpdateEvent
    <2>2. CASE events[pos] = ShutdownEvent
      BY <1>0, <1>1, <2>2 DEF UpdateEvent
    <2>3. CASE events[pos] # ShutdownEvent
      <3> DEFINE e == events[pos]
                 u == login[e].user
      <3>1. e \in Logins
        BY <1>1, <2>3, ConstantsOK DEF UpdateEvent, TypeOK
      <3>2. u \in Users
        BY <3>1 DEF TypeOK
      <3>3. Apply(failure[u], e) \in Record
        BY <1>0, <3>1, <3>2, ApplyType DEF TypeOK
      <3>4. failure' = [failure EXCEPT ![u] = Apply(failure[u], e)]
        BY <1>1, <2>3 DEF UpdateEvent
      <3>5. QED  BY <1>0, <3>2, <3>3, <3>4
    <2>4. QED  BY <2>2, <2>3
  <1>2. CASE UpdateCommits \/ UpdateFails \/ PublishFails
    <2>0. PICK result \in {"committed", "rolledBack"}, kept \in SUBSET created,
               undone \in SUBSET Users : Finish(result, kept, undone)
      BY <1>2, Ends
    <2>1. failure' = [u \in Users |->
              IF u \in created \ kept THEN NoFailures
              ELSE IF u \in undone THEN [failure[u] EXCEPT !.missed = TRUE] ELSE failure[u]]
      BY <2>0 DEF Finish
    <2>2. NoFailures \in Record
      BY ConstantsOK DEF NoFailures, Record, Age
    <2>3. \A u \in Users : [failure[u] EXCEPT !.missed = TRUE] \in Record
      BY <1>0, AgedType
    <2>4. QED  BY <1>0, <2>1, <2>2, <2>3
  <1>3. ASSUME NEW u \in Users, TimePasses(u)
        PROVE  failure' \in [Users -> Record]
    <2>1. PICK r \in Record : failure' = [failure EXCEPT ![u] = r]
      BY <1>0, <1>3, AgedType DEF TimePasses
    <2>2. QED  BY <1>0, <2>1
  <1>4. ASSUME NEW p \in BOOLEAN, NEW n \in Factors, ChangeSettings(p, n)
        PROVE  failure' \in [Users -> Record]
    <2>1. \A u \in Users : [failure[u] EXCEPT !.missed = TRUE] \in Record
      BY <1>0, AgedType
    <2>2. QED  BY <1>0, <1>4, <2>1 DEF ChangeSettings
  <1>5. ASSUME NEW failed \in BOOLEAN, NEW u \in Users, Offer(failed, u)
        PROVE  UNCHANGED failure
    BY <1>5 DEF Offer, recordVars
  <1>6. CASE \/ ShutdownFlag \/ ShutdownOffer \/ ShutdownReturns
             \/ Enter \/ Poll \/ PollTimeout \/ Exit \/ Drain \/ Sort \/ Create \/ CreateFails \/ Release
    <2>1. UNCHANGED failure
      BY <1>6 DEF ShutdownFlag, ShutdownOffer, ShutdownReturns, Enter, Poll, PollTimeout, Exit,
                  Drain, Sort, Create, CreateFails, Release, recordVars
    <2>2. QED  BY <1>0, <2>1
  <1>7. QED
    BY <1>0, <1>1, <1>2, <1>3, <1>4, <1>5, <1>6 DEF Next, WorkerStep

\* The sets of users and events stay typed.
LEMMA TypeUsers ==
    ASSUME TypeOK, Next
    PROVE  /\ stored' \subseteq Users /\ created' \subseteq Users \ stored'
           /\ enabled' \subseteq Users /\ txEnabled' \subseteq Users
           /\ applied' \subseteq Logins
  <1>0. /\ stored \subseteq Users /\ created \subseteq Users \ stored
        /\ enabled \subseteq Users /\ txEnabled \subseteq Users /\ applied \subseteq Logins
    BY DEF TypeOK
  <1>1. CASE UpdateEvent
    <2>1. UNCHANGED <<stored, enabled>> /\ txEnabled' \subseteq txEnabled
      BY <1>1 DEF UpdateEvent
    <2>2. CASE events[pos] = ShutdownEvent
      BY <1>0, <1>1, <2>1, <2>2 DEF UpdateEvent
    <2>3. CASE events[pos] # ShutdownEvent
      <3>1. events[pos] \in Logins
        BY <1>1, <2>3, ConstantsOK DEF UpdateEvent, TypeOK
      <3>2. login[events[pos]].user \in Users
        BY <3>1 DEF TypeOK
      <3>3. created' \subseteq created \cup ({login[events[pos]].user} \ stored)
            /\ applied' = applied \cup {events[pos]}
        BY <1>1, <2>3 DEF UpdateEvent
      <3>4. QED  BY <1>0, <2>1, <3>1, <3>2, <3>3
    <2>4. QED  BY <2>2, <2>3
  <1>2. CASE UpdateCommits \/ UpdateFails \/ PublishFails
    BY <1>0, <1>2 DEF UpdateCommits, UpdateFails, PublishFails, Finish
  <1>3. CASE UNCHANGED <<stored, created, enabled, txEnabled, applied>>
    BY <1>0, <1>3
  <1>4. QED
    BY <1>1, <1>2, <1>3 DEF Next, WorkerStep, Offer, ShutdownFlag, ShutdownOffer, ShutdownReturns, Enter,
            Poll, PollTimeout, Exit, Drain, Sort, Create, CreateFails, Release, TimePasses,
            ChangeSettings, userVars, endVars, recordVars

\* Every step keeps the state well typed.
LEMMA TypeStep ==
    ASSUME TypeOK, TxInv, Next
    PROVE  TypeOK'
  <1>1. /\ queue' \in Seq(Events) /\ events' \in Seq(Events) /\ pos' \in 1..Len(events') + 1
        /\ failure' \in [Users -> Record]
    BY TypeSequences, TypeRecords
  <1>2. /\ permanent' \in BOOLEAN /\ factor' \in Factors /\ changes' \in 0..MaxChanges
    <2>1. ASSUME NEW p \in BOOLEAN, NEW n \in Factors, ChangeSettings(p, n)
          PROVE  permanent' \in BOOLEAN /\ factor' \in Factors /\ changes' \in 0..MaxChanges
      <3>1. permanent' = p /\ factor' = n
        BY <2>1 DEF ChangeSettings
      <3>2. changes' \in 0..MaxChanges
        BY <2>1, ConstantsOK DEF ChangeSettings, TypeOK
      <3>3. QED  BY <3>1, <3>2
    <2>2. CASE UNCHANGED settingVars
      BY <2>2 DEF settingVars, TypeOK
    <2>3. QED
      BY <2>1, <2>2 DEF Next, WorkerStep, Offer, ShutdownFlag, ShutdownOffer, ShutdownReturns, Enter, Poll,
            PollTimeout, Exit, Drain, Sort, Create, CreateFails, UpdateEvent, UpdateCommits,
            UpdateFails, PublishFails, Finish, Release, TimePasses
  <1>8. offered' \in 0..NumLogins /\ login' \in [Logins -> [failed : BOOLEAN, user : Users]]
    <2>1. ASSUME NEW failed \in BOOLEAN, NEW u \in Users, Offer(failed, u)
          PROVE  offered' \in 0..NumLogins
                 /\ login' \in [Logins -> [failed : BOOLEAN, user : Users]]
      <3>1. offered' \in 1..NumLogins
        BY <2>1, ConstantsOK DEF Offer, TypeOK
      <3>2. [failed |-> failed, user |-> u] \in [failed : BOOLEAN, user : Users]
        OBVIOUS
      <3>3. login' = [login EXCEPT ![offered'] = [failed |-> failed, user |-> u]]
        BY <2>1 DEF Offer
      <3>4. login' \in [Logins -> [failed : BOOLEAN, user : Users]]
        BY <3>2, <3>3 DEF TypeOK
      <3>5. QED  BY <3>1, <3>4, ConstantsOK
    <2>2. CASE UNCHANGED loginVars
      BY <2>2 DEF loginVars, TypeOK
    <2>3. QED
      BY <2>1, <2>2 DEF Next, WorkerStep, ShutdownFlag, ShutdownOffer, ShutdownReturns, Enter, Poll,
            PollTimeout, Exit, Drain, Sort, Create, CreateFails, UpdateEvent, UpdateCommits,
            UpdateFails, PublishFails, Finish, Release, TimePasses, ChangeSettings
  <1>3. outcome' \in [Logins -> {"none", "committed", "rolledBack"}]
    <2>1. CASE UpdateCommits \/ UpdateFails \/ PublishFails
      BY <2>1 DEF UpdateCommits, UpdateFails, PublishFails, Finish, TypeOK
    <2>2. CASE outcome' = outcome
      BY <2>2 DEF TypeOK
    <2>3. QED
      BY <2>1, <2>2 DEF Next, WorkerStep, Offer, ShutdownFlag, ShutdownOffer, ShutdownReturns, Enter,
            Poll, PollTimeout, Exit, Drain, Sort, Create, CreateFails, UpdateEvent, Release,
            TimePasses, ChangeSettings, endVars, recordVars
  <1>4. latch' \subseteq Logins
    <2>1. CASE Release
      <3>1. Range(events) \ {ShutdownEvent} \subseteq Logins
        BY ConstantsOK DEF Range, TypeOK
      <3>2. QED  BY <2>1, <3>1 DEF Release, TypeOK
    <2>2. CASE latch' = latch
      BY <2>2 DEF TypeOK
    <2>3. QED
      BY <2>1, <2>2 DEF Next, WorkerStep, Offer, ShutdownFlag, ShutdownOffer, ShutdownReturns, Enter,
            Poll, PollTimeout, Exit, Drain, Sort, Create, CreateFails, UpdateEvent, UpdateCommits,
            UpdateFails, PublishFails, Finish, TimePasses, ChangeSettings, workVars
  <1>5. worker' \in {"loop", "poll", "drain", "sort", "create", "update", "release", "stopped"}
    BY DEF TypeOK, Next, WorkerStep, Offer, ShutdownFlag, ShutdownOffer, ShutdownReturns, Enter, Poll,
            PollTimeout, Exit, Drain, Sort, Create, CreateFails, UpdateEvent, UpdateCommits,
            UpdateFails, PublishFails, Finish, Release, TimePasses, ChangeSettings, workVars, Worker
  <1>6. run' \in BOOLEAN /\ stopper' \in {"idle", "offer", "await", "returned"}
    BY DEF TypeOK, Next, WorkerStep, Offer, ShutdownFlag, ShutdownOffer, ShutdownReturns, Enter, Poll,
            PollTimeout, Exit, Drain, Sort, Create, CreateFails, UpdateEvent, UpdateCommits,
            UpdateFails, PublishFails, Finish, Release, TimePasses, ChangeSettings, workVars
  <1>7. faults' \in 0..MaxFaults
    <2>1. CASE CreateFails \/ UpdateFails \/ PublishFails
      <3>1. faults < MaxFaults /\ faults' = faults + 1
        BY <2>1 DEF CreateFails, UpdateFails, PublishFails
      <3>2. QED  BY <3>1, ConstantsOK DEF TypeOK
    <2>2. CASE faults' = faults
      BY <2>2 DEF TypeOK
    <2>3. QED
      BY <2>1, <2>2 DEF Next, WorkerStep, Offer, ShutdownFlag, ShutdownOffer, ShutdownReturns, Enter,
            Poll, PollTimeout, Exit, Drain, Sort, Create, UpdateEvent, UpdateCommits,
            Release, TimePasses, ChangeSettings, workVars
  <1>10. QED  BY <1>1, <1>2, <1>3, <1>4, <1>5, <1>6, <1>7, <1>8, TypeUsers DEF TypeOK

\* Outside of the loop there is no transaction.
LEMMA TxStep ==
    ASSUME TypeOK, TxInv, Next
    PROVE  TxInv'
  <1>1. CASE UpdateEvent
    BY <1>1 DEF UpdateEvent, TxInv, workVars
  <1>2. CASE UpdateCommits \/ UpdateFails \/ PublishFails
    BY <1>2 DEF UpdateCommits, UpdateFails, PublishFails, Finish, TxInv, Worker
  <1>3. ASSUME \/ \E u \in Users : TimePasses(u)
               \/ \E p \in BOOLEAN, n \in Factors : ChangeSettings(p, n)
        PROVE  TxInv'
    BY <1>3 DEF TimePasses, ChangeSettings, TxInv, workVars, userVars, endVars
  <1>4. ASSUME NEW failed \in BOOLEAN, NEW u \in Users, Offer(failed, u)
        PROVE  TxInv'
    BY <1>4 DEF Offer, recordVars, userVars, endVars, TxInv
  <1>5. CASE ShutdownFlag \/ ShutdownOffer \/ ShutdownReturns
    BY <1>5 DEF ShutdownFlag, ShutdownOffer, ShutdownReturns, TxInv, workVars, recordVars, userVars, endVars
  <1>6. CASE Enter \/ Poll \/ PollTimeout \/ Exit \/ Drain \/ Sort \/ Create \/ CreateFails \/ Release
    BY <1>6 DEF Enter, Poll, PollTimeout, Exit, Drain, Sort, Create, CreateFails, Release, Worker,
                TxInv, recordVars, userVars, endVars
  <1>7. QED
    BY <1>1, <1>2, <1>3, <1>4, <1>5, <1>6 DEF Next, WorkerStep

-----------------------------------------------------------------------------
(* The places and the order of the events *)

OrderInv == Once /\ Placed /\ QueueOrder /\ ListOrder

\* Steps that leave the sequences, the latches and the outcomes alone
LEMMA OrderFrame ==
    ASSUME OrderInv, UNCHANGED <<queue, events, latch, outcome, offered, login>>,
           worker' = "release" <=> worker = "release",
           stopper' \in {"idle", "offer"} => stopper \in {"idle", "offer"}
    PROVE  OrderInv'
  <1>1. Once'
    BY DEF OrderInv, Once, In, Injective
  <1>2. Placed'
    BY DEF OrderInv, Placed, In
  <1>3. QueueOrder'
    BY DEF OrderInv, QueueOrder
  <1>4. ListOrder'
    BY DEF OrderInv, ListOrder
  <1>5. QED  BY <1>1, <1>2, <1>3, <1>4 DEF OrderInv

\* Moving events from the queue to the list loses none and keeps the order.
LEMMA OrderMoved ==
    ASSUME TypeOK, OrderInv, NEW n \in Nat, Moved(n),
           UNCHANGED <<latch, outcome, offered, login, stopper>>,
           worker # "release", worker' # "release"
    PROVE  OrderInv'
  <1> DEFINE m == Len(events)
             q == Len(queue)
  <1>0. /\ m \in Nat /\ q \in Nat /\ n <= q
        /\ DOMAIN events = 1..m /\ DOMAIN queue = 1..q
        /\ DOMAIN events' = 1..(m + n) /\ DOMAIN queue' = 1..(q - n)
    BY DEF TypeOK, Moved
  <1>1. \A i \in DOMAIN events' :
            \/ i \in DOMAIN events /\ events'[i] = events[i]
            \/ i > m /\ i - m \in DOMAIN queue /\ i - m <= n /\ events'[i] = queue[i - m]
    <2>1. SUFFICES ASSUME NEW i \in 1..(m + n), i > m
                   PROVE  i - m \in 1..n /\ events'[i] = queue[i - m]
      BY <1>0 DEF Moved
    <2>2. i - m \in 1..n /\ i = m + (i - m)
      BY <1>0, <2>1
    <2>3. events'[m + (i - m)] = queue[i - m]
      BY <2>2 DEF Moved
    <2>4. QED  BY <2>2, <2>3
  <1>2. \A j \in DOMAIN queue' : j + n \in DOMAIN queue /\ queue'[j] = queue[j + n]
    BY <1>0 DEF Moved
  <1>3. \A e : (In(e, queue) \/ In(e, events)) <=> (In(e, queue') \/ In(e, events'))
    <2>1. ASSUME NEW e, In(e, events)
          PROVE  In(e, events')
      BY <1>0, <2>1 DEF In, Moved
    <2>2. ASSUME NEW e, In(e, queue)
          PROVE  In(e, queue') \/ In(e, events')
      <3>1. PICK i \in 1..q : queue[i] = e
        BY <1>0, <2>2 DEF In
      <3>2. CASE i <= n
        <4>1. i \in 1..n /\ m + i \in DOMAIN events'
          BY <1>0, <3>2
        <4>2. events'[m + i] = e
          BY <3>1, <4>1 DEF Moved
        <4>3. QED  BY <4>1, <4>2 DEF In
      <3>3. CASE i > n
        <4>1. i - n \in 1..(q - n) /\ n + (i - n) = i
          BY <1>0, <3>3
        <4>2. queue'[i - n] = queue[n + (i - n)]
          BY <4>1 DEF Moved
        <4>3. QED  BY <1>0, <3>1, <4>1, <4>2 DEF In
      <3>4. QED  BY <1>0, <3>2, <3>3
    <2>3. ASSUME NEW e, In(e, queue') \/ In(e, events')
          PROVE  In(e, queue) \/ In(e, events)
      BY <1>1, <1>2, <2>3 DEF In
    <2>4. QED  BY <2>1, <2>2, <2>3
  <1>4. Once'
    <2>1. Injective(queue')
      BY <1>0, <1>2 DEF OrderInv, Once, Injective
    <2>2. Injective(events')
      BY <1>0, <1>1 DEF OrderInv, Once, Injective
    <2>3. ASSUME NEW i \in DOMAIN events', NEW j \in DOMAIN queue'
          PROVE  events'[i] # queue'[j]
      <3>1. j + n \in DOMAIN queue /\ queue'[j] = queue[j + n]
        BY <1>2
      <3>2. CASE i \in DOMAIN events /\ events'[i] = events[i]
        BY <3>1, <3>2 DEF OrderInv, Once
      <3>3. CASE i > m /\ i - m \in DOMAIN queue /\ i - m <= n /\ events'[i] = queue[i - m]
        <4>1. i - m # j + n
          BY <1>0, <3>3
        <4>2. QED  BY <3>1, <3>3, <4>1 DEF OrderInv, Once, Injective
      <3>4. QED  BY <1>1, <3>2, <3>3
    <2>4. stopper' \in {"idle", "offer"} =>
                ~In(ShutdownEvent, queue') /\ ~In(ShutdownEvent, events')
      BY <1>3 DEF OrderInv, Once
    <2>5. QED  BY <2>1, <2>2, <2>3, <2>4 DEF Once
  <1>5. Placed'
    BY <1>3 DEF OrderInv, Placed
  <1>6. QueueOrder'
    <2>1. ASSUME NEW i \in DOMAIN queue', NEW j \in DOMAIN queue', i < j,
                 queue'[i] # ShutdownEvent, queue'[j] # ShutdownEvent
          PROVE  queue'[i] < queue'[j]
      <3>1. i + n < j + n
        BY <1>0, <2>1
      <3>2. QED  BY <1>2, <2>1, <3>1 DEF OrderInv, QueueOrder
    <2>2. ASSUME NEW i \in DOMAIN events', NEW j \in DOMAIN queue',
                 events'[i] # ShutdownEvent, queue'[j] # ShutdownEvent
          PROVE  events'[i] < queue'[j]
      <3>1. j + n \in DOMAIN queue /\ queue'[j] = queue[j + n]
        BY <1>2
      <3>2. CASE i \in DOMAIN events /\ events'[i] = events[i]
        BY <2>2, <3>1, <3>2 DEF OrderInv, QueueOrder
      <3>3. CASE i > m /\ i - m \in DOMAIN queue /\ i - m <= n /\ events'[i] = queue[i - m]
        <4>1. i - m < j + n
          BY <1>0, <3>3
        <4>2. QED  BY <2>2, <3>1, <3>3, <4>1 DEF OrderInv, QueueOrder
      <3>4. QED  BY <1>1, <3>2, <3>3
    <2>3. \A l \in Logins, j \in DOMAIN queue' :
              outcome'[l] # "none" /\ queue'[j] # ShutdownEvent => l < queue'[j]
      BY <1>2 DEF OrderInv, QueueOrder
    <2>4. QED  BY <2>1, <2>2, <2>3 DEF QueueOrder
  <1>7. ListOrder'
    <2>1. ASSUME NEW i \in DOMAIN events', NEW j \in DOMAIN events', i < j,
                 events'[i] # ShutdownEvent, events'[j] # ShutdownEvent,
                 login[events'[i]].user = login[events'[j]].user
          PROVE  events'[i] < events'[j]
      <3>1. CASE j \in DOMAIN events /\ events'[j] = events[j]
        <4>1. i \in DOMAIN events /\ events'[i] = events[i]
          BY <1>0, <1>1, <2>1, <3>1
        <4>2. QED  BY <2>1, <3>1, <4>1 DEF OrderInv, ListOrder
      <3>2. CASE j > m /\ j - m \in DOMAIN queue /\ events'[j] = queue[j - m]
        <4>1. CASE i \in DOMAIN events /\ events'[i] = events[i]
          BY <2>1, <3>2, <4>1 DEF OrderInv, QueueOrder
        <4>2. CASE i > m /\ i - m \in DOMAIN queue /\ events'[i] = queue[i - m]
          <5>1. i - m < j - m
            BY <1>0, <2>1
          <5>2. QED  BY <2>1, <3>2, <4>2, <5>1 DEF OrderInv, QueueOrder
        <4>3. QED  BY <1>1, <4>1, <4>2
      <3>3. QED  BY <1>1, <3>1, <3>2
    <2>2. ASSUME NEW l \in Logins, NEW i \in DOMAIN events', outcome'[l] # "none",
                 events'[i] # ShutdownEvent
          PROVE  l < events'[i]
      BY <1>1, <2>2 DEF OrderInv, QueueOrder, ListOrder
    <2>3. QED  BY <2>1, <2>2 DEF ListOrder
  <1>8. QED  BY <1>4, <1>5, <1>6, <1>7 DEF OrderInv

\* An event is put at the end of the queue.
Added(e) ==
    /\ queue' \in Seq(Events) /\ Len(queue') = Len(queue) + 1
    /\ \A i \in 1..Len(queue) : queue'[i] = queue[i]
    /\ queue'[Len(queue) + 1] = e
    /\ UNCHANGED <<events, latch, outcome, worker>>

\* What is in the queue then
LEMMA AddedIn ==
    ASSUME TypeOK, NEW e, Added(e)
    PROVE  /\ DOMAIN queue = 1..Len(queue) /\ Len(queue) \in Nat
           /\ DOMAIN queue' = 1..(Len(queue) + 1)
           /\ \A x : In(x, queue') <=> In(x, queue) \/ x = e
           /\ \A i \in DOMAIN queue' : \/ queue'[i] = e /\ i = Len(queue) + 1
                                       \/ i \in DOMAIN queue /\ queue'[i] = queue[i]
  <1>1. /\ DOMAIN queue = 1..Len(queue) /\ Len(queue) \in Nat
        /\ DOMAIN queue' = 1..(Len(queue) + 1)
    BY DEF TypeOK, Added
  <1>2. ASSUME NEW x, In(x, queue')
        PROVE  In(x, queue) \/ x = e
    BY <1>1, <1>2 DEF In, Added
  <1>3. ASSUME NEW x, In(x, queue)
        PROVE  In(x, queue')
    BY <1>1, <1>3 DEF In, Added
  <1>4. In(e, queue')
    BY <1>1 DEF In, Added
  <1>5. ASSUME NEW i \in DOMAIN queue', i # Len(queue) + 1
        PROVE  i \in DOMAIN queue /\ queue'[i] = queue[i]
    BY <1>1, <1>5 DEF Added
  <1>6. queue'[Len(queue) + 1] = e
    BY DEF Added
  <1>7. QED  BY <1>1, <1>2, <1>3, <1>4, <1>5, <1>6

\* A login thread offers the next login.
LEMMA OrderOffer ==
    ASSUME TypeOK, OrderInv, NEW failed \in BOOLEAN, NEW u \in Users, Offer(failed, u)
    PROVE  OrderInv'
  <1> DEFINE e == offered + 1
  <1>1. /\ e \in Logins /\ e # ShutdownEvent /\ offered' = e /\ offered \in Nat
        /\ login' = [login EXCEPT ![e] = [failed |-> failed, user |-> u]]
        /\ stopper' = stopper
    BY ConstantsOK DEF Offer, TypeOK, Logins
  <1>2. Added(e)
    <2>1. queue \in Seq(Events) /\ e \in Events /\ queue' = Append(queue, e)
      BY <1>1, ConstantsOK DEF TypeOK, Offer
    <2>2. QED  BY <2>1 DEF Added, Offer, recordVars, endVars
  <1>3. /\ DOMAIN queue = 1..Len(queue) /\ Len(queue) \in Nat
        /\ DOMAIN queue' = 1..(Len(queue) + 1)
        /\ \A x : In(x, queue') <=> In(x, queue) \/ x = e
    BY <1>2, AddedIn
  <1>4. \A l \in Logins : In(l, queue) \/ In(l, events) \/ l \in latch => l < e
    BY <1>1, ConstantsOK DEF OrderInv, Placed
  <1>5. \A i \in DOMAIN queue' : \/ queue'[i] = e /\ i = Len(queue) + 1
                                 \/ i \in DOMAIN queue /\ queue'[i] = queue[i]
    BY <1>2, AddedIn
  <1>6. \A i \in DOMAIN queue : queue[i] # e /\ (queue[i] # ShutdownEvent => queue[i] \in Logins /\ queue[i] < e)
    <2>1. SUFFICES ASSUME NEW i \in DOMAIN queue
                   PROVE  queue[i] # e /\ (queue[i] # ShutdownEvent => queue[i] \in Logins /\ queue[i] < e)
      OBVIOUS
    <2>2. queue[i] \in Events /\ In(queue[i], queue)
      BY DEF In, TypeOK
    <2>3. queue[i] \in Logins => queue[i] < e
      BY <1>4, <2>2
    <2>4. queue[i] = ShutdownEvent \/ queue[i] \in Logins
      BY <2>2, ConstantsOK
    <2>5. e \in Nat
      BY <1>1
    <2>6. QED  BY <1>1, <2>3, <2>4, <2>5
  <1>7. \A i \in DOMAIN events : events[i] # e /\ (events[i] # ShutdownEvent => events[i] \in Logins /\ events[i] < e)
    <2>1. SUFFICES ASSUME NEW i \in DOMAIN events
                   PROVE  events[i] # e /\ (events[i] # ShutdownEvent => events[i] \in Logins /\ events[i] < e)
      OBVIOUS
    <2>2. events[i] \in Events /\ In(events[i], events)
      BY DEF In, TypeOK
    <2>3. events[i] \in Logins => events[i] < e
      BY <1>4, <2>2
    <2>4. events[i] = ShutdownEvent \/ events[i] \in Logins
      BY <2>2, ConstantsOK
    <2>5. e \in Nat
      BY <1>1
    <2>6. QED  BY <1>1, <2>3, <2>4, <2>5
  <1>8. Once'
    <2>1. Injective(queue')
      BY <1>3, <1>5, <1>6 DEF OrderInv, Once, Injective
    <2>2. Injective(events') /\ events' = events
      BY <1>2 DEF Added, OrderInv, Once
    <2>3. \A i \in DOMAIN events', j \in DOMAIN queue' : events'[i] # queue'[j]
      BY <1>5, <1>7, <2>2 DEF OrderInv, Once
    <2>4. stopper' \in {"idle", "offer"} =>
                ~In(ShutdownEvent, queue') /\ ~In(ShutdownEvent, events')
      BY <1>1, <1>3, <2>2 DEF OrderInv, Once
    <2>5. QED  BY <2>1, <2>2, <2>3, <2>4 DEF Once
  <1>9. Placed'
    <2>1. SUFFICES ASSUME NEW l \in Logins
                   PROVE  /\ l <= offered' <=> In(l, queue') \/ In(l, events') \/ l \in latch'
                          /\ l \in latch' => ~In(l, queue') /\ ~In(l, events')
                          /\ outcome'[l] # "none" <=> l \in latch' \/ (worker' = "release" /\ In(l, events'))
      BY DEF Placed
    <2>2. /\ l <= offered <=> In(l, queue) \/ In(l, events) \/ l \in latch
          /\ l \in latch => ~In(l, queue) /\ ~In(l, events)
          /\ outcome[l] # "none" <=> l \in latch \/ (worker = "release" /\ In(l, events))
      BY DEF OrderInv, Placed
    <2>3. UNCHANGED <<events, latch, outcome, worker>>
      BY <1>2 DEF Added
    <2>4. l <= offered' <=> l <= offered \/ l = e
      BY <1>1, ConstantsOK
    <2>5. l \in latch => l # e
      BY <1>1, <1>4
    <2>6. QED  BY <1>3, <2>2, <2>3, <2>4, <2>5
  <1>10. \A l \in Logins : outcome[l] # "none" => l < e
    BY <1>4 DEF OrderInv, Placed
  <1>11. QueueOrder'
    <2>1. UNCHANGED <<events, outcome>>
      BY <1>2 DEF Added
    <2>2. ASSUME NEW i \in DOMAIN queue', NEW j \in DOMAIN queue', i < j,
                 queue'[i] # ShutdownEvent, queue'[j] # ShutdownEvent
          PROVE  queue'[i] < queue'[j]
      BY <1>3, <1>5, <1>6, <2>2 DEF OrderInv, QueueOrder
    <2>3. ASSUME NEW i \in DOMAIN events', NEW j \in DOMAIN queue',
                 events'[i] # ShutdownEvent, queue'[j] # ShutdownEvent
          PROVE  events'[i] < queue'[j]
      BY <1>5, <1>7, <2>1, <2>3 DEF OrderInv, QueueOrder
    <2>4. \A l \in Logins, j \in DOMAIN queue' :
              outcome'[l] # "none" /\ queue'[j] # ShutdownEvent => l < queue'[j]
      BY <1>5, <1>10, <2>1 DEF OrderInv, QueueOrder
    <2>5. QED  BY <2>2, <2>3, <2>4 DEF QueueOrder
  <1>12. ListOrder'
    <2>1. UNCHANGED <<events, outcome, worker>>
      BY <1>2 DEF Added
    <2>2. \A i \in DOMAIN events : events[i] # ShutdownEvent => login'[events[i]] = login[events[i]]
      BY <1>1, <1>7 DEF TypeOK
    <2>3. QED  BY <2>1, <2>2 DEF OrderInv, ListOrder
  <1>13. QED  BY <1>8, <1>9, <1>11, <1>12 DEF OrderInv

\* shutdown() offers the one ShutdownEvent.
LEMMA OrderShutdownOffer ==
    ASSUME TypeOK, OrderInv, ShutdownOffer
    PROVE  OrderInv'
  <1>1. Added(ShutdownEvent) /\ UNCHANGED <<offered, login>>
    <2>1. queue \in Seq(Events) /\ ShutdownEvent \in Events /\ queue' = Append(queue, ShutdownEvent)
      BY ConstantsOK DEF TypeOK, ShutdownOffer
    <2>2. QED  BY <2>1 DEF Added, ShutdownOffer, recordVars, endVars, loginVars
  <1>2. /\ DOMAIN queue = 1..Len(queue) /\ Len(queue) \in Nat
        /\ DOMAIN queue' = 1..(Len(queue) + 1)
        /\ \A x : In(x, queue') <=> In(x, queue) \/ x = ShutdownEvent
    BY <1>1, AddedIn
  <1>3. \A i \in DOMAIN queue' : \/ queue'[i] = ShutdownEvent /\ i = Len(queue) + 1
                                 \/ i \in DOMAIN queue /\ queue'[i] = queue[i]
    BY <1>1, AddedIn
  <1>4. ~In(ShutdownEvent, queue) /\ ~In(ShutdownEvent, events) /\ stopper' = "await"
    BY DEF ShutdownOffer, OrderInv, Once
  <1>5. UNCHANGED <<events, latch, outcome, worker, offered, login>>
    BY <1>1 DEF Added
  <1>6. Once'
    <2>1. Injective(queue')
      BY <1>2, <1>3, <1>4 DEF OrderInv, Once, Injective, In
    <2>2. \A i \in DOMAIN events, j \in DOMAIN queue' : events[i] # queue'[j]
      BY <1>3, <1>4 DEF OrderInv, Once, In
    <2>3. QED  BY <1>4, <1>5, <2>1, <2>2 DEF OrderInv, Once
  <1>7. Placed'
    <2>1. \A l \in Logins : In(l, queue') <=> In(l, queue)
      BY <1>2, ConstantsOK
    <2>2. QED  BY <1>5, <2>1 DEF OrderInv, Placed
  <1>8. QueueOrder'
    BY <1>3, <1>5 DEF OrderInv, QueueOrder
  <1>9. ListOrder'
    BY <1>5 DEF OrderInv, ListOrder
  <1>10. QED  BY <1>6, <1>7, <1>8, <1>9 DEF OrderInv

\* The sort loses no event and keeps those of a user in order.
LEMMA OrderSort ==
    ASSUME TypeOK, OrderInv, Sort
    PROVE  OrderInv'
  <1>1. /\ UNCHANGED <<queue, latch, outcome, offered, login, stopper>>
        /\ worker = "sort" /\ worker' # "release"
    BY DEF Sort, Worker, loginVars, recordVars, endVars
  <1>2. CASE events' = events
    <2>1. worker' = "release" <=> worker = "release"
      BY <1>1
    <2>2. QED  BY <1>1, <1>2, <2>1, OrderFrame
  <1>3. ASSUME NEW f \in Bijection(DOMAIN events, DOMAIN events), Sorts(f, events),
               ShutdownEvent \notin Range(events),
               events' = [i \in DOMAIN events |-> events[f[i]]]
        PROVE  OrderInv'
    <2>1. /\ f \in [DOMAIN events -> DOMAIN events]
          /\ \A i, j \in DOMAIN events : f[i] = f[j] => i = j
          /\ \A j \in DOMAIN events : \E i \in DOMAIN events : f[i] = j
      BY DEF Bijection, Injection, Surjection, IsInjective
    <2>2. /\ DOMAIN events' = DOMAIN events
          /\ \A i \in DOMAIN events : f[i] \in DOMAIN events /\ events'[i] = events[f[i]]
      BY <1>3, <2>1
    <2>3. \A x : In(x, events') <=> In(x, events)
      <3>1. ASSUME NEW x, In(x, events)
            PROVE  In(x, events')
        <4>1. PICK j \in DOMAIN events : events[j] = x
          BY <3>1 DEF In
        <4>2. PICK i \in DOMAIN events : f[i] = j
          BY <2>1
        <4>3. QED  BY <2>2, <4>1, <4>2 DEF In
      <3>2. ASSUME NEW x, In(x, events')
            PROVE  In(x, events)
        BY <2>2, <3>2 DEF In
      <3>3. QED  BY <3>1, <3>2
    <2>4. Once'
      <3>1. Injective(events')
        BY <2>1, <2>2 DEF OrderInv, Once, Injective
      <3>2. \A i \in DOMAIN events', j \in DOMAIN queue : events'[i] # queue[j]
        BY <2>2 DEF OrderInv, Once
      <3>3. QED  BY <1>1, <2>3, <3>1, <3>2 DEF OrderInv, Once
    <2>5. Placed'
      BY <1>1, <2>3 DEF OrderInv, Placed
    <2>6. QueueOrder'
      BY <1>1, <2>2 DEF OrderInv, QueueOrder
    <2>7. ListOrder'
      <3>1. ASSUME NEW i \in DOMAIN events', NEW j \in DOMAIN events', i < j,
                   events'[i] # ShutdownEvent, events'[j] # ShutdownEvent,
                   login[events'[i]].user = login[events'[j]].user
            PROVE  events'[i] < events'[j]
        <4>0. \A k \in DOMAIN events : events[k] \in Logins \/ events[k] = ShutdownEvent
          BY ConstantsOK DEF TypeOK
        <4>1. events[f[i]] \in Logins /\ events[f[j]] \in Logins
          BY <2>2, <3>1, <4>0
        <4>2. login[events[f[i]]].user \in Nat
          BY <4>1 DEF TypeOK, Users
        <4>3. \/ login[events[f[i]]].user < login[events[f[j]]].user
              \/ login[events[f[i]]].user = login[events[f[j]]].user /\ f[i] < f[j]
          BY <1>3, <2>2, <3>1 DEF Sorts
        <4>4. f[i] < f[j]
          BY <2>2, <3>1, <4>2, <4>3
        <4>5. QED  BY <2>2, <3>1, <4>4 DEF OrderInv, ListOrder
      <3>2. \A l \in Logins, i \in DOMAIN events' :
                outcome[l] # "none" /\ events'[i] # ShutdownEvent => l < events'[i]
        BY <1>1, <2>2 DEF OrderInv, ListOrder
      <3>3. QED  BY <1>1, <3>1, <3>2 DEF ListOrder
    <2>8. QED  BY <2>4, <2>5, <2>6, <2>7 DEF OrderInv
  <1>4. QED  BY <1>2, <1>3 DEF Sort

\* The transaction ends: all events in the list, and no others, have an outcome then.
LEMMA OrderFinish ==
    ASSUME TypeOK, OrderInv, NEW result \in {"committed", "rolledBack"},
           NEW kept, NEW undone, Finish(result, kept, undone),
           worker = "update", worker' = "release"
    PROVE  OrderInv'
  <1>0. UNCHANGED <<queue, events, latch, offered, login, stopper>>
    BY DEF Finish, loginVars
  <1>1. \A l \in Logins : outcome'[l] # "none" <=> outcome[l] # "none" \/ In(l, events)
    BY DEF Finish, Range, In, TypeOK
  <1>2. Once'
    BY <1>0 DEF OrderInv, Once, In, Injective
  <1>3. Placed'
    <2>1. SUFFICES ASSUME NEW l \in Logins
                   PROVE  /\ l <= offered' <=> In(l, queue') \/ In(l, events') \/ l \in latch'
                          /\ l \in latch' => ~In(l, queue') /\ ~In(l, events')
                          /\ outcome'[l] # "none" <=> l \in latch' \/ (worker' = "release" /\ In(l, events'))
      BY DEF Placed
    <2>2. /\ l <= offered <=> In(l, queue) \/ In(l, events) \/ l \in latch
          /\ l \in latch => ~In(l, queue) /\ ~In(l, events)
          /\ outcome[l] # "none" <=> l \in latch
      BY DEF OrderInv, Placed
    <2>3. outcome'[l] # "none" <=> outcome[l] # "none" \/ In(l, events)
      BY <1>1
    <2>4. In(l, events') = In(l, events) /\ In(l, queue') = In(l, queue)
      BY <1>0 DEF In
    <2>5. QED  BY <1>0, <2>2, <2>3, <2>4
  <1>4. QueueOrder'
    <2>1. ASSUME NEW l \in Logins, NEW j \in DOMAIN queue, outcome'[l] # "none", queue[j] # ShutdownEvent
          PROVE  l < queue[j]
      <3>1. CASE outcome[l] # "none"
        BY <2>1, <3>1 DEF OrderInv, QueueOrder
      <3>2. CASE In(l, events)
        BY <2>1, <3>2, ConstantsOK DEF In, OrderInv, QueueOrder
      <3>3. QED  BY <1>1, <2>1, <3>1, <3>2
    <2>2. QED  BY <1>0, <2>1 DEF OrderInv, QueueOrder
  <1>5. ListOrder'
    BY <1>0 DEF OrderInv, ListOrder
  <1>6. QED  BY <1>2, <1>3, <1>4, <1>5 DEF OrderInv

\* The latches are counted down and the list is emptied.
LEMMA OrderRelease ==
    ASSUME TypeOK, OrderInv, Release
    PROVE  OrderInv'
  <1>1. /\ UNCHANGED <<queue, outcome, offered, login, stopper>>
        /\ worker = "release" /\ worker' = "loop"
        /\ events' = <<>>
        /\ latch' = latch \cup (Range(events) \ {ShutdownEvent})
    BY DEF Release, Worker, loginVars, recordVars, endVars
  <1>2. DOMAIN events' = {} /\ \A x : ~In(x, events')
    BY <1>1 DEF In
  <1>3. \A l \in Logins : l \in latch' <=> l \in latch \/ In(l, events)
    BY <1>1, ConstantsOK DEF Range, In
  <1>4. Once'
    BY <1>1, <1>2 DEF OrderInv, Once, Injective
  <1>5. Placed'
    <2>1. SUFFICES ASSUME NEW l \in Logins
                   PROVE  /\ l <= offered' <=> In(l, queue') \/ In(l, events') \/ l \in latch'
                          /\ l \in latch' => ~In(l, queue') /\ ~In(l, events')
                          /\ outcome'[l] # "none" <=> l \in latch' \/ (worker' = "release" /\ In(l, events'))
      BY DEF Placed
    <2>2. /\ l <= offered <=> In(l, queue) \/ In(l, events) \/ l \in latch
          /\ l \in latch => ~In(l, queue) /\ ~In(l, events)
          /\ outcome[l] # "none" <=> l \in latch \/ (worker = "release" /\ In(l, events))
      BY DEF OrderInv, Placed
    <2>3. ~(In(l, events) /\ In(l, queue))
      BY DEF OrderInv, Once, In
    <2>4. QED  BY <1>1, <1>2, <1>3, <2>2, <2>3
  <1>6. QueueOrder'
    BY <1>1, <1>2 DEF OrderInv, QueueOrder
  <1>7. ListOrder'
    BY <1>2 DEF ListOrder
  <1>8. QED  BY <1>4, <1>5, <1>6, <1>7 DEF OrderInv

\* Every step keeps the events in place and in order.
LEMMA OrderStep ==
    ASSUME TypeOK, OrderInv, Next
    PROVE  OrderInv'
  <1>1. ASSUME NEW failed \in BOOLEAN, NEW u \in Users, Offer(failed, u)
        PROVE  OrderInv'
    BY <1>1, OrderOffer
  <1>2. CASE ShutdownFlag \/ ShutdownReturns
    <2>1. UNCHANGED <<queue, events, latch, outcome, offered, login, worker>>
      BY <1>2 DEF ShutdownFlag, ShutdownReturns, loginVars, workVars, recordVars, endVars
    <2>2. stopper' \in {"idle", "offer"} => stopper \in {"idle", "offer"}
      BY <1>2 DEF ShutdownFlag, ShutdownReturns
    <2>3. worker' = "release" <=> worker = "release"
      BY <2>1
    <2>4. QED  BY <2>1, <2>2, <2>3, OrderFrame
  <1>3. CASE ShutdownOffer
    BY <1>3, OrderShutdownOffer
  <1>4. CASE Poll
    <2>1. Moved(1)
      BY <1>4, PollMoves
    <2>2. /\ UNCHANGED <<latch, outcome, offered, login, stopper>>
          /\ worker # "release" /\ worker' # "release"
      BY <1>4 DEF Poll, Worker, loginVars, recordVars, endVars
    <2>3. QED  BY <2>1, <2>2, OrderMoved
  <1>5. CASE Drain
    <2>1. PICK n \in Nat : Moved(n)
      BY <1>5, DrainMoves
    <2>2. /\ UNCHANGED <<latch, outcome, offered, login, stopper>>
          /\ worker # "release" /\ worker' # "release"
      BY <1>5 DEF Drain, Worker, loginVars, recordVars, endVars
    <2>3. QED  BY <2>1, <2>2, OrderMoved
  <1>6. CASE Sort
    BY <1>6, OrderSort
  <1>7. CASE Enter \/ PollTimeout \/ Exit \/ Create \/ CreateFails
    <2>1. /\ UNCHANGED <<queue, events, latch, outcome, offered, login, stopper>>
          /\ worker # "release" /\ worker' # "release"
      BY <1>7 DEF Enter, PollTimeout, Exit, Create, CreateFails, Worker, loginVars, recordVars, endVars
    <2>2. worker' = "release" <=> worker = "release"
      BY <2>1
    <2>3. QED  BY <2>1, <2>2, OrderFrame
  <1>8. CASE UpdateEvent
    <2>1. UNCHANGED <<queue, events, latch, outcome, offered, login, stopper, worker>>
      BY <1>8 DEF UpdateEvent, loginVars, workVars
    <2>2. worker' = "release" <=> worker = "release"
      BY <2>1
    <2>3. QED  BY <2>1, <2>2, OrderFrame
  <1>9. CASE UpdateCommits \/ UpdateFails \/ PublishFails
    <2>1. PICK result \in {"committed", "rolledBack"},
                kept \in SUBSET created, undone \in SUBSET Users : Finish(result, kept, undone)
      BY <1>9, Ends
    <2>2. worker = "update" /\ worker' = "release"
      BY <1>9, Ends
    <2>3. QED  BY <2>1, <2>2, OrderFinish
  <1>11. CASE Release
    BY <1>11, OrderRelease
  <1>12. ASSUME \/ \E u \in Users : TimePasses(u)
                \/ \E p \in BOOLEAN, n \in Factors : ChangeSettings(p, n)
         PROVE  OrderInv'
    <2>1. UNCHANGED <<queue, events, latch, outcome, offered, login, stopper, worker>>
      BY <1>12 DEF TimePasses, ChangeSettings, loginVars, workVars, endVars
    <2>2. worker' = "release" <=> worker = "release"
      BY <2>1
    <2>3. QED  BY <2>1, <2>2, OrderFrame
  <1>13. QED
    BY <1>1, <1>2, <1>3, <1>4, <1>5, <1>6, <1>7, <1>8, <1>9, <1>11, <1>12
       DEF Next, WorkerStep

-----------------------------------------------------------------------------
(* The failure counts *)

LoginRecord == [failed : BOOLEAN, user : Users]

\* The failures counted are finitely many.
LEMMA CountedFinite ==
    ASSUME NEW lg, NEW u, NEW done \in SUBSET Logins, NEW since
    PROVE  IsFiniteSet(CountedBy(lg, u, done, since))
  <1>1. IsFiniteSet(Logins)
    BY FS_Interval, ConstantsOK DEF Logins
  <1>2. CountedBy(lg, u, done, since) \in SUBSET Logins
    BY DEF CountedBy
  <1>3. QED  BY <1>1, <1>2, FS_Subset

\* A login of another user does not change the count.
LEMMA CountOther ==
    ASSUME NEW lg, NEW u, NEW done \in SUBSET Logins, NEW since, NEW e \in Logins,
           lg[e].user # u
    PROVE  CountedBy(lg, u, done \cup {e}, since) = CountedBy(lg, u, done, since)
  BY DEF CountedBy

\* A failure after all others of the user adds one.
LEMMA CountFailure ==
    ASSUME NEW lg \in [Logins -> LoginRecord], NEW u \in Users, NEW done \in SUBSET Logins,
           NEW since \in 0..NumLogins,
           since = 0 \/ (since \in done /\ lg[since].user = u),
           NEW e \in Logins, lg[e].user = u, lg[e].failed,
           \A l \in done : lg[l].user = u => l < e
    PROVE  Cardinality(CountedBy(lg, u, done \cup {e}, since)) =
               Cardinality(CountedBy(lg, u, done, since)) + 1
  <1> DEFINE C == CountedBy(lg, u, done, since)
  <1>1. e \in Nat /\ e > 0 /\ Logins \subseteq Nat
    BY ConstantsOK
  <1>2. e >= since
    BY <1>1, ConstantsOK
  <1>3. e \notin done
    BY <1>1
  <1>4. ASSUME NEW l \in CountedBy(lg, u, done \cup {e}, since)
        PROVE  l \in C \cup {e}
    BY <1>4 DEF CountedBy
  <1>5. ASSUME NEW l \in C
        PROVE  l \in CountedBy(lg, u, done \cup {e}, since)
    BY <1>5 DEF CountedBy
  <1>6. e \in CountedBy(lg, u, done \cup {e}, since)
    <2>1. \A s \in done \cup {e} : lg[s].user = u /\ s > e => lg[s].failed
      BY <1>1
    <2>2. QED  BY <1>2, <2>1 DEF CountedBy
  <1>7. CountedBy(lg, u, done \cup {e}, since) = C \cup {e}
    BY <1>4, <1>5, <1>6
  <1>8. e \notin C
    BY <1>3 DEF CountedBy
  <1>9. IsFiniteSet(C)
    BY CountedFinite
  <1> HIDE DEF C
  <1>10. Cardinality(C \cup {e}) = Cardinality(C) + 1
    BY <1>8, <1>9, FS_AddElement
  <1>11. QED  BY <1>7, <1>10 DEF C

\* After a success nothing is counted.
LEMMA CountSuccess ==
    ASSUME NEW lg \in [Logins -> LoginRecord], NEW u \in Users, NEW done \in SUBSET Logins,
           NEW since,
           NEW e \in Logins, lg[e].user = u, ~lg[e].failed,
           \A l \in done : lg[l].user = u => l < e
    PROVE  Cardinality(CountedBy(lg, u, done \cup {e}, since)) = 0
  <1>1. Logins \subseteq Nat
    BY ConstantsOK
  <1>2. ASSUME NEW l \in CountedBy(lg, u, done \cup {e}, since)
        PROVE  FALSE
    <2>1. /\ l \in done \cup {e} /\ lg[l].user = u /\ lg[l].failed
          /\ \A s \in done \cup {e} : lg[s].user = u /\ s > l => lg[s].failed
      BY <1>2 DEF CountedBy
    <2>2. l \in done
      BY <2>1
    <2>3. e > l
      BY <1>1, <2>1, <2>2
    <2>4. QED  BY <2>1, <2>3
  <1>3. CountedBy(lg, u, done \cup {e}, since) = {}
    BY <1>2
  <1>4. QED  BY <1>3, FS_EmptySet

\* When a failure clears those before it, it is the only one.
LEMMA CountCleared ==
    ASSUME NEW lg \in [Logins -> LoginRecord], NEW u \in Users, NEW done \in SUBSET Logins,
           NEW e \in Logins, lg[e].user = u, lg[e].failed,
           \A l \in done : lg[l].user = u => l < e
    PROVE  Cardinality(CountedBy(lg, u, done \cup {e}, e)) = 1
  <1>1. e \in Nat /\ Logins \subseteq Nat
    BY ConstantsOK
  <1>2. ASSUME NEW l \in CountedBy(lg, u, done \cup {e}, e)
        PROVE  l = e
    <2>1. l \in done \cup {e} /\ lg[l].user = u /\ l >= e
      BY <1>2 DEF CountedBy
    <2>2. l \in done => l < e
      BY <2>1
    <2>3. QED  BY <1>1, <2>1, <2>2
  <1>3. e \in CountedBy(lg, u, done \cup {e}, e)
    <2>1. \A s \in done \cup {e} : lg[s].user = u /\ s > e => lg[s].failed
      BY <1>1
    <2>2. e >= e
      BY <1>1
    <2>3. QED  BY <2>1, <2>2 DEF CountedBy
  <1>4. CountedBy(lg, u, done \cup {e}, e) = {e}
    BY <1>2, <1>3
  <1>5. QED  BY <1>4, FS_Singleton

\* Records that differ in age and wait only, and logins that differ elsewhere, count
\* the same.
LEMMA CountsFrame ==
    ASSUME NEW lg, NEW lg2, NEW r, NEW r2, NEW done,
           Counts(lg, r, done),
           \A l \in done : lg2[l] = lg[l],
           \A u \in Users : /\ r2[u].numFailures = r[u].numFailures
                            /\ r2[u].since = r[u].since
    PROVE  Counts(lg2, r2, done)
  <1>1. SUFFICES ASSUME NEW u \in Users
                 PROVE  /\ r2[u].numFailures = Cardinality(CountedBy(lg2, u, done, r2[u].since))
                        /\ r2[u].since = 0 \/ (r2[u].since \in done /\ lg2[r2[u].since].user = u)
    BY DEF Counts
  <1>2. CountedBy(lg2, u, done, r2[u].since) = CountedBy(lg, u, done, r[u].since)
    BY DEF CountedBy
  <1>3. QED  BY <1>2 DEF Counts

\* One event applied to the record of its user
LEMMA CountsApply ==
    ASSUME TypeOK, NEW r \in [Users -> Record], NEW done \in SUBSET Logins,
           Counts(login, r, done),
           NEW e \in Logins,
           \A l \in done : login[l].user = login[e].user => l < e
    PROVE  Counts(login, [r EXCEPT ![login[e].user] = Apply(@, e)], done \cup {e})
  <1> DEFINE u == login[e].user
             r2 == [r EXCEPT ![u] = Apply(r[u], e)]
  <1>0. login \in [Logins -> LoginRecord] /\ u \in Users
    BY DEF TypeOK, LoginRecord
  <1>1. SUFFICES ASSUME NEW v \in Users
                 PROVE  /\ r2[v].numFailures = Cardinality(CountedBy(login, v, done \cup {e}, r2[v].since))
                        /\ \/ r2[v].since = 0
                           \/ r2[v].since \in done \cup {e} /\ login[r2[v].since].user = v
    BY DEF Counts
  <1>2. /\ r[v].numFailures = Cardinality(CountedBy(login, v, done, r[v].since))
        /\ r[v].since = 0 \/ (r[v].since \in done /\ login[r[v].since].user = v)
    BY DEF Counts
  <1>3. CASE v # u
    <2>1. r2[v] = r[v]
      BY <1>0, <1>3
    <2>2. CountedBy(login, v, done \cup {e}, r[v].since) = CountedBy(login, v, done, r[v].since)
      BY <1>3, CountOther
    <2>3. QED  BY <1>2, <2>1, <2>2
  <1>4. CASE v = u
    <2>1. r2[v] = Apply(r[v], e) /\ r[v] \in Record
      BY <1>0, <1>4
    <2>2. CASE ~login[e].failed
      <3>1. Apply(r[v], e).numFailures = 0 /\ Apply(r[v], e).since = 0
        BY <2>2 DEF Apply, NoFailures
      <3>2. QED  BY <1>0, <1>4, <2>1, <2>2, <3>1, CountSuccess
    <2>3. ASSUME login[e].failed, Apply(r[v], e).numFailures = r[v].numFailures + 1,
                 Apply(r[v], e).since = r[v].since
          PROVE  /\ r2[v].numFailures = Cardinality(CountedBy(login, v, done \cup {e}, r2[v].since))
                 /\ \/ r2[v].since = 0
                    \/ r2[v].since \in done \cup {e} /\ login[r2[v].since].user = v
      <3>1. r[v].since \in 0..NumLogins
        BY <2>1 DEF Record
      <3>2. Cardinality(CountedBy(login, v, done \cup {e}, r[v].since)) =
                Cardinality(CountedBy(login, v, done, r[v].since)) + 1
        <4> DEFINE since == r[v].since
        <4>1. /\ since \in 0..NumLogins
              /\ since = 0 \/ (since \in done /\ login[since].user = v)
          BY <1>2, <3>1
        <4>2. /\ login[e].user = v /\ login[e].failed
              /\ \A l \in done : login[l].user = v => l < e
          BY <1>4, <2>3
        <4> HIDE DEF since
        <4>3. Cardinality(CountedBy(login, v, done \cup {e}, since)) =
                  Cardinality(CountedBy(login, v, done, since)) + 1
          BY <1>0, <4>1, <4>2, CountFailure
        <4>4. QED  BY <4>3 DEF since
      <3>3. QED  BY <1>2, <2>1, <2>3, <3>2
    <2>4. CASE login[e].failed /\ permanent
      <3>1. Apply(r[v], e) = LockPermanently(r[v])
        BY <2>4 DEF Apply
      <3>2. LockPermanently(r[v]).numFailures = r[v].numFailures + 1
            /\ LockPermanently(r[v]).since = r[v].since
        BY <2>1 DEF LockPermanently, Record
      <3>3. QED  BY <2>3, <2>4, <3>1, <3>2
    <2>5. CASE login[e].failed /\ ~permanent /\ r[v].age # "old"
      <3>1. Apply(r[v], e) = WaitLonger(r[v], e)
        BY <2>5 DEF Apply
      <3>2. WaitLonger(r[v], e).numFailures = r[v].numFailures + 1
            /\ WaitLonger(r[v], e).since = r[v].since
        BY <2>1, <2>5 DEF WaitLonger, Record
      <3>3. QED  BY <2>3, <2>5, <3>1, <3>2
    <2>6. CASE login[e].failed /\ ~permanent /\ r[v].age = "old"
      <3>1. Apply(r[v], e) = WaitLonger(r[v], e)
        BY <2>6 DEF Apply
      <3>2. WaitLonger(r[v], e).numFailures = 1 /\ WaitLonger(r[v], e).since = e
        BY <2>1, <2>6 DEF WaitLonger, NoFailures, Record
      <3>3. Cardinality(CountedBy(login, v, done \cup {e}, e)) = 1
        BY <1>0, <1>4, <2>6, CountCleared
      <3>4. QED  BY <1>4, <2>1, <3>1, <3>2, <3>3
    <2>7. QED  BY <2>2, <2>4, <2>5, <2>6
  <1>5. QED  BY <1>3, <1>4

\* The logins in effect are those that were offered, and those of the user whose event
\* is next come before that event.
LEMMA AppliedFacts ==
    ASSUME TypeOK, OrderInv, DoneInv
    PROVE  /\ \A l \in applied : l \in Logins /\ l <= offered
           /\ worker = "update" /\ pos \in DOMAIN events /\ events[pos] # ShutdownEvent =>
                  \A l \in applied : login[l].user = login[events[pos]].user => l < events[pos]
  <1>1. ASSUME NEW l \in applied
        PROVE  l \in Logins /\ l <= offered
    <2>1. l \in Logins
      BY DEF TypeOK
    <2>2. CASE outcome[l] # "none"
      BY <2>1, <2>2 DEF OrderInv, Placed
    <2>3. CASE Passed(l)
      BY <2>1, <2>3 DEF Passed, In, OrderInv, Placed
    <2>4. QED  BY <2>1, <2>2, <2>3 DEF DoneInv
  <1>2. ASSUME worker = "update", pos \in DOMAIN events, events[pos] # ShutdownEvent,
               NEW l \in applied, login[l].user = login[events[pos]].user
        PROVE  l < events[pos]
    <2>1. l \in Logins
      BY DEF TypeOK
    <2>2. CASE outcome[l] # "none"
      BY <1>2, <2>1, <2>2 DEF OrderInv, ListOrder
    <2>3. CASE Passed(l)
      <3>1. PICK i \in DOMAIN events : i < pos /\ events[i] = l
        BY <2>3 DEF Passed
      <3>2. l # ShutdownEvent
        BY <2>1, ConstantsOK
      <3>3. QED  BY <1>2, <3>1, <3>2 DEF OrderInv, ListOrder
    <2>4. QED  BY <2>2, <2>3 DEF DoneInv
  <1>3. QED  BY <1>1, <1>2

\* Which events the loop has passed after a turn
LEMMA PassedUpdate ==
    ASSUME TypeOK, UpdateEvent
    PROVE  /\ UNCHANGED <<login, outcome, events, worker, stored>>
           /\ pos \in DOMAIN events /\ worker = "update"
           /\ \A l : Passed(l)' <=> Passed(l) \/ l = events[pos]
  <1>1. /\ UNCHANGED <<login, outcome, events, worker, stored>>
        /\ worker = "update" /\ pos' = pos + 1
    BY DEF UpdateEvent, loginVars, workVars
  <1>2. pos \in DOMAIN events /\ DOMAIN events = 1..Len(events) /\ pos \in Nat
    BY DEF UpdateEvent, TypeOK
  <1>3. \A i \in DOMAIN events : i < pos + 1 <=> i < pos \/ i = pos
    BY <1>2
  <1>4. QED  BY <1>1, <1>2, <1>3 DEF Passed

\* One turn of the loop
LEMMA CountUpdateEvent ==
    ASSUME TypeOK, OrderInv, DoneInv, CountInv, UpdateEvent
    PROVE  DoneInv' /\ CountInv'
  <1>1. /\ UNCHANGED <<login, outcome, events, worker, stored>>
        /\ pos \in DOMAIN events /\ worker = "update"
        /\ \A l : Passed(l)' <=> Passed(l) \/ l = events[pos]
    BY PassedUpdate
  <1>2. CASE events[pos] = ShutdownEvent
    <2>1. UNCHANGED <<failure, created, applied>>
      BY <1>2 DEF UpdateEvent
    <2>2. \A l \in Logins : Passed(l)' <=> Passed(l)
      BY <1>1, <1>2, ConstantsOK
    <2>3. applied \subseteq Logins
      BY DEF TypeOK
    <2>4. DoneInv'
      BY <1>1, <2>1, <2>2, <2>3 DEF DoneInv
    <2>5. CountInv'
      BY <1>1, <2>1 DEF CountInv
    <2>6. QED  BY <2>4, <2>5
  <1>3. CASE events[pos] # ShutdownEvent
    <2> DEFINE e == events[pos]
    <2>1. e \in Logins
      BY <1>1, <1>3, ConstantsOK DEF TypeOK
    <2>2. /\ applied' = applied \cup {e}
          /\ created' = created \cup {v \in {login[e].user} \ stored : login[e].failed}
          /\ failure' = [failure EXCEPT ![login[e].user] = Apply(@, e)]
      BY <1>3 DEF UpdateEvent
    <2>3. /\ applied \in SUBSET Logins
          /\ \A l \in applied : login[l].user = login[e].user => l < e
      BY <1>1, <1>3, AppliedFacts DEF TypeOK
    <2>4. Counts(login, failure, applied) /\ failure \in [Users -> Record]
      BY DEF CountInv, TypeOK
    <2> HIDE DEF e
    <2>5. Counts(login, [failure EXCEPT ![login[e].user] = Apply(@, e)], applied \cup {e})
      BY <2>1, <2>3, <2>4, CountsApply
    <2>6. CountInv'
      BY <1>1, <2>2, <2>5 DEF CountInv
    <2>7. DoneInv'
      <3>1. \A l : Passed(l)' <=> Passed(l) \/ l = e
        BY <1>1 DEF e
      <3>2. created \subseteq created'
        BY <2>2
      <3>3. login[e].failed => login[e].user \in stored \cup created'
        BY <2>2
      <3>4. QED  BY <1>1, <2>2, <3>1, <3>2, <3>3 DEF DoneInv
    <2>8. QED  BY <2>6, <2>7
  <1>4. QED  BY <1>2, <1>3

\* The end of a transaction keeps the counts: a record that is lost takes with it the
\* events that were in effect on it.
LEMMA CountFinish ==
    ASSUME TypeOK, CountInv, NEW result, NEW kept, NEW undone, Finish(result, kept, undone)
    PROVE  CountInv'
  <1> DEFINE lost == created \ kept
             done2 == {l \in applied : login[l].user \notin lost}
  <1>1. applied' = done2 /\ login' = login
    BY DEF Finish, loginVars
  <1>2. ASSUME NEW u \in Users
        PROVE  failure'[u] = IF u \in lost THEN NoFailures
                             ELSE IF u \in undone THEN [failure[u] EXCEPT !.missed = TRUE]
                             ELSE failure[u]
    BY DEF Finish
  <1> HIDE DEF lost
  <1>3. SUFFICES ASSUME NEW u \in Users
                 PROVE  /\ failure'[u].numFailures =
                              Cardinality(CountedBy(login, u, done2, failure'[u].since))
                        /\ \/ failure'[u].since = 0
                           \/ failure'[u].since \in done2 /\ login[failure'[u].since].user = u
    BY <1>1 DEF CountInv, Counts
  <1>4. CASE u \in lost
    <2>1. failure'[u].numFailures = 0 /\ failure'[u].since = 0
      <3>1. NoFailures.numFailures = 0 /\ NoFailures.since = 0
        BY DEF NoFailures
      <3>2. failure'[u] = NoFailures
        BY <1>2, <1>4
      <3>3. QED  BY <3>1, <3>2
    <2>2. CountedBy(login, u, done2, 0) = {}
      BY <1>4 DEF CountedBy
    <2>3. QED  BY <2>1, <2>2, FS_EmptySet
  <1>5. CASE u \notin lost
    <2>1. /\ failure'[u].numFailures = failure[u].numFailures
          /\ failure'[u].since = failure[u].since
      <3>1. failure[u] \in Record
        BY DEF TypeOK
      <3>2. QED  BY <1>2, <1>5, <3>1 DEF Record
    <2>2. \A since : CountedBy(login, u, done2, since) = CountedBy(login, u, applied, since)
      BY <1>5 DEF CountedBy
    <2>3. /\ failure[u].numFailures = Cardinality(CountedBy(login, u, applied, failure[u].since))
          /\ \/ failure[u].since = 0
             \/ failure[u].since \in applied /\ login[failure[u].since].user = u
      BY DEF CountInv, Counts
    <2>4. QED  BY <1>5, <2>1, <2>2, <2>3
  <1>6. QED  BY <1>4, <1>5

\* After the end of a transaction the events that it has committed are in effect.
LEMMA DoneFinish ==
    ASSUME TypeOK, OrderInv, DoneInv, NEW result \in {"committed", "rolledBack"},
           NEW kept \in SUBSET created, NEW undone,
           Finish(result, kept, undone), worker = "update", worker' = "release",
           result = "committed" => pos > Len(events) /\ kept = created
    PROVE  DoneInv'
  <1>1. /\ UNCHANGED <<login, events>> /\ stored' = stored \cup kept
        /\ applied' = {l \in applied : login[l].user \notin created \ kept}
        /\ \A l \in Logins : outcome'[l] = IF l \in Range(events) THEN result ELSE outcome[l]
        /\ applied \subseteq Logins /\ created \cap stored = {}
    BY DEF Finish, loginVars, TypeOK
  <1>2. \A l : ~Passed(l)'
    BY DEF Passed
  <1>3. ASSUME NEW l \in applied'
        PROVE  outcome'[l] # "none"
    <2>1. l \in applied /\ l \in Logins
      BY <1>1
    <2>2. CASE l \in Range(events)
      <3>1. outcome'[l] = result
        BY <1>1, <2>1, <2>2
      <3>2. QED  BY <3>1
    <2>3. CASE l \notin Range(events)
      <3>1. ~Passed(l)
        BY <2>3 DEF Passed, Range
      <3>2. QED  BY <1>1, <2>1, <2>3, <3>1 DEF DoneInv
    <2>4. QED  BY <2>2, <2>3
  <1>4. ASSUME NEW l \in Logins, outcome'[l] = "committed", login[l].failed
        PROVE  l \in applied' /\ login[l].user \in stored'
    <2>1. CASE l \in Range(events)
      <3>1. result = "committed"
        BY <1>1, <1>4, <2>1
      <3>2. Passed(l)
        <4>1. PICK i \in DOMAIN events : events[i] = l
          BY <2>1 DEF Range
        <4>2. i < pos
          BY <3>1 DEF TypeOK
        <4>3. QED  BY <4>1, <4>2 DEF Passed
      <3>3. l \in applied /\ login[l].user \in stored \cup created
        BY <1>4, <3>2 DEF DoneInv
      <3>4. QED  BY <1>1, <3>1, <3>3
    <2>2. CASE l \notin Range(events)
      <3>1. l \in applied /\ login[l].user \in stored
        BY <1>1, <1>4, <2>2 DEF DoneInv
      <3>2. QED  BY <1>1, <3>1
    <2>3. QED  BY <2>1, <2>2
  <1>5. QED  BY <1>1, <1>2, <1>3, <1>4 DEF DoneInv

\* Steps that leave the events in effect alone
LEMMA DoneFrame ==
    ASSUME DoneInv, TypeOK, UNCHANGED <<login, outcome, applied, stored, created>>,
           \A l \in Logins : Passed(l)' <=> Passed(l)
    PROVE  DoneInv'
  <1>1. applied \subseteq Logins
    BY DEF TypeOK
  <1>2. QED  BY <1>1 DEF DoneInv

\* Every step keeps the counts exact.
LEMMA CountStep ==
    ASSUME TypeOK, OrderInv, TxInv, DoneInv, CountInv, Next
    PROVE  DoneInv' /\ CountInv'
  <1>1. CASE UpdateEvent
    BY <1>1, CountUpdateEvent
  <1>2. CASE UpdateCommits \/ UpdateFails \/ PublishFails
    <2>1. PICK result \in {"committed", "rolledBack"},
                kept \in SUBSET created, undone \in SUBSET Users :
              /\ Finish(result, kept, undone)
              /\ result = "committed" => pos > Len(events) /\ kept = created
      BY <1>2, Ends
    <2>2. worker = "update" /\ worker' = "release"
      BY <1>2, Ends
    <2>3. QED  BY <2>1, <2>2, CountFinish, DoneFinish
  <1>3. ASSUME NEW failed \in BOOLEAN, NEW u \in Users, Offer(failed, u)
        PROVE  DoneInv' /\ CountInv'
    <2>1. UNCHANGED <<failure, stored, created, applied, outcome, events, worker, pos>>
      BY <1>3 DEF Offer, recordVars, userVars, endVars
    <2>2. \A l : Passed(l)' <=> Passed(l)
      BY <2>1 DEF Passed
    <2>3. \A l \in Logins : l <= offered => login'[l] = login[l]
      <3>1. login' = [login EXCEPT ![offered + 1] = [failed |-> failed, user |-> u]]
        BY <1>3 DEF Offer
      <3>2. \A l \in Logins : l <= offered => l # offered + 1
        BY ConstantsOK DEF TypeOK
      <3>3. QED  BY <3>1, <3>2 DEF TypeOK
    <2>4. \A l \in applied : login'[l] = login[l]
      BY <2>3, AppliedFacts
    <2>5. \A l \in Logins : outcome[l] # "none" \/ Passed(l) => l <= offered
      BY DEF OrderInv, Placed, Passed, In
    <2>6. DoneInv'
      <3>1. \A l \in applied' : outcome'[l] # "none" \/ Passed(l)'
        BY <2>1, <2>2 DEF DoneInv
      <3>2. ASSUME NEW l \in Logins, outcome'[l] = "committed" /\ login'[l].failed
            PROVE  l \in applied' /\ login'[l].user \in stored'
        <4>1. outcome[l] = "committed" /\ login'[l] = login[l]
          BY <2>1, <2>3, <2>5, <3>2
        <4>2. QED  BY <2>1, <3>2, <4>1 DEF DoneInv
      <3>3. ASSUME NEW l \in Logins, Passed(l)' /\ login'[l].failed
            PROVE  l \in applied' /\ login'[l].user \in (stored \cup created)'
        <4>1. Passed(l)
          BY <2>2, <3>3
        <4>2. login'[l] = login[l]
          BY <2>3, <2>5, <4>1
        <4>3. QED  BY <2>1, <3>3, <4>1, <4>2 DEF DoneInv
      <3>4. QED  BY <3>1, <3>2, <3>3 DEF DoneInv
    <2>7. CountInv'
      BY <2>1, <2>4, CountsFrame DEF CountInv
    <2>8. QED  BY <2>6, <2>7
  <1>4. ASSUME NEW u \in Users, TimePasses(u)
        PROVE  DoneInv' /\ CountInv'
    <2>1. UNCHANGED <<login, stored, created, applied, outcome, events, worker, pos>>
      BY <1>4 DEF TimePasses, loginVars, workVars, userVars, endVars
    <2>2. \A l : Passed(l)' <=> Passed(l)
      BY <2>1 DEF Passed
    <2>3. \A v \in Users : /\ failure'[v].numFailures = failure[v].numFailures
                           /\ failure'[v].since = failure[v].since
      BY <1>4, TimeKeeps
    <2>4. CountInv'
      BY <2>1, <2>3, CountsFrame DEF CountInv
    <2>5. QED  BY <2>1, <2>2, <2>4, DoneFrame
  <1>5. ASSUME NEW p \in BOOLEAN, NEW n \in Factors, ChangeSettings(p, n)
        PROVE  DoneInv' /\ CountInv'
    <2>1. UNCHANGED <<login, stored, created, applied, outcome, events, worker, pos>>
      BY <1>5 DEF ChangeSettings, loginVars, workVars, userVars, endVars
    <2>2. \A l : Passed(l)' <=> Passed(l)
      BY <2>1 DEF Passed
    <2>3. \A v \in Users : /\ failure'[v].numFailures = failure[v].numFailures
                           /\ failure'[v].since = failure[v].since
      <3>1. \A v \in Users : failure'[v] = failure[v] \/ failure'[v] = [failure[v] EXCEPT !.missed = TRUE]
        BY <1>5 DEF ChangeSettings
      <3>2. \A v \in Users : failure[v] \in Record
        BY DEF TypeOK
      <3>3. QED  BY <3>1, <3>2 DEF Record
    <2>4. CountInv'
      BY <2>1, <2>3, CountsFrame DEF CountInv
    <2>5. QED  BY <2>1, <2>2, <2>4, DoneFrame
  <1>6. CASE \/ ShutdownFlag \/ ShutdownOffer \/ ShutdownReturns
             \/ Enter \/ Poll \/ PollTimeout \/ Exit \/ Drain \/ Sort \/ Create \/ CreateFails \/ Release
    <2>1. UNCHANGED <<failure, stored, created, applied, pos, outcome, login>>
      BY <1>6 DEF ShutdownFlag, ShutdownOffer, ShutdownReturns, Enter, Poll, PollTimeout, Exit,
                  Drain, Sort, Create, CreateFails, Release, recordVars, userVars, endVars, loginVars
    <2>2. \A l : Passed(l)' <=> Passed(l)
      <3>1. CASE ShutdownFlag \/ ShutdownOffer \/ ShutdownReturns
        <4>1. UNCHANGED <<events, worker>>
          BY <3>1 DEF ShutdownFlag, ShutdownOffer, ShutdownReturns, workVars
        <4>2. QED  BY <2>1, <4>1 DEF Passed
      <3>2. CASE \/ Enter \/ Poll \/ PollTimeout \/ Exit \/ Drain \/ Sort
                 \/ CreateFails \/ Release
        <4>1. worker # "update" /\ worker' # "update"
          BY <3>2 DEF Enter, Poll, PollTimeout, Exit, Drain, Sort, CreateFails, Release, Worker
        <4>2. QED  BY <4>1 DEF Passed
      <3>3. CASE Create
        <4>1. worker # "update" /\ pos' = 1 /\ events' = events
          BY <3>3, <2>1 DEF Create, Worker, TxInv
        <4>2. \A i \in DOMAIN events : ~(i < 1)
          BY DEF TypeOK
        <4>3. QED  BY <4>1, <4>2 DEF Passed
      <3>4. QED  BY <1>6, <3>1, <3>2, <3>3
    <2>3. CountInv'
      BY <2>1 DEF CountInv
    <2>4. QED  BY <2>1, <2>2, <2>3, DoneFrame
  <1>7. QED
    BY <1>1, <1>2, <1>3, <1>4, <1>5, <1>6 DEF Next, WorkerStep

-----------------------------------------------------------------------------
(* The permanent lockout *)

\* The failure that reaches the factor disables the user, and none passes it by.
LEMMA LockedApply ==
    ASSUME TypeOK, permanent, NEW r \in Record, NEW e \in Logins, NEW on \in BOOLEAN,
           r.numFailures >= factor => ~on \/ r.missed,
           Apply(r, e).numFailures >= factor
    PROVE  ~on \/ (login[e].failed /\ ReachesFactor(r)) \/ Apply(r, e).missed
  <1>1. r.numFailures \in Nat /\ factor \in Nat /\ factor > 0
    BY ConstantsOK DEF Record, TypeOK
  <1>2. CASE ~login[e].failed
    <2>1. Apply(r, e).numFailures = 0
      BY <1>2 DEF Apply, NoFailures
    <2>2. QED  BY <1>1, <2>1
  <1>3. CASE login[e].failed
    <2>1. Apply(r, e) = LockPermanently(r)
      BY <1>3 DEF Apply
    <2>2. LockPermanently(r).numFailures = r.numFailures + 1
          /\ LockPermanently(r).missed = r.missed
      BY DEF LockPermanently, Record
    <2>3. r.numFailures + 1 = factor \/ r.numFailures >= factor
      BY <1>1, <2>1, <2>2
    <2>4. QED  BY <1>3, <2>1, <2>2, <2>3 DEF ReachesFactor
  <1>4. QED  BY <1>2, <1>3

\* Every step keeps users at the factor disabled.
LEMMA LockStep ==
    ASSUME TypeOK, TxInv, LockInv, Next
    PROVE  LockInv'
  <1>0. failure \in [Users -> Record] /\ factor \in Nat /\ factor > 0
    BY ConstantsOK DEF TypeOK
  <1>1. ASSUME NEW p \in BOOLEAN, NEW n \in Factors, ChangeSettings(p, n)
        PROVE  LockInv'
    <2>1. /\ permanent' = p /\ factor' = n /\ txEnabled' = txEnabled
          /\ \A u \in Users : failure'[u] =
                  IF p /\ failure[u].numFailures >= n /\ u \in txEnabled
                  THEN [failure[u] EXCEPT !.missed = TRUE] ELSE failure[u]
      BY <1>1 DEF ChangeSettings, userVars
    <2>2. SUFFICES ASSUME p, NEW u \in Users, failure'[u].numFailures >= n, u \in txEnabled
                   PROVE  failure'[u].missed
      BY <2>1 DEF LockInv, Locked
    <2>3. failure[u] \in Record
      BY <1>0
    <2>4. failure'[u] = [failure[u] EXCEPT !.missed = TRUE]
      BY <2>1, <2>2
    <2>5. QED  BY <2>3, <2>4 DEF Record
  <1>2. SUFFICES ASSUME permanent, Locked(failure, factor, txEnabled),
                        UNCHANGED settingVars
                 PROVE  Locked(failure', factor, txEnabled')
    BY <1>1 DEF LockInv, Next, WorkerStep, Offer, ShutdownFlag, ShutdownOffer, ShutdownReturns, Enter,
            Poll, PollTimeout, Exit, Drain, Sort, Create, CreateFails, UpdateEvent, UpdateCommits,
            UpdateFails, PublishFails, Finish, Release, TimePasses, settingVars
  <1>3. CASE UpdateEvent
    <2>1. CASE events[pos] = ShutdownEvent
      BY <1>2, <1>3, <2>1 DEF UpdateEvent
    <2>2. CASE events[pos] # ShutdownEvent
      <3> DEFINE e == events[pos]
                 u == login[e].user
      <3>1. e \in Logins
        BY <1>3, <2>2, ConstantsOK DEF UpdateEvent, TypeOK
      <3>2. u \in Users
        BY <3>1 DEF TypeOK
      <3>3. /\ failure' = [failure EXCEPT ![u] = Apply(failure[u], e)]
            /\ txEnabled' = txEnabled \ {v \in {u} : login[e].failed /\ ReachesFactor(failure[u])}
        BY <1>3, <2>2 DEF UpdateEvent
      <3> HIDE DEF e
      <3>4. Apply(failure[u], e).numFailures >= factor =>
                u \notin txEnabled' \/ Apply(failure[u], e).missed
        <4>1. failure[u] \in Record /\ (u \in txEnabled) \in BOOLEAN
          BY <1>0, <3>2
        <4>2. failure[u].numFailures >= factor => ~(u \in txEnabled) \/ failure[u].missed
          BY <1>2, <3>2 DEF Locked
        <4>3. ASSUME Apply(failure[u], e).numFailures >= factor
              PROVE  \/ ~(u \in txEnabled) \/ (login[e].failed /\ ReachesFactor(failure[u]))
                     \/ Apply(failure[u], e).missed
          BY <1>2, <3>1, <4>1, <4>2, <4>3, LockedApply
        <4>4. QED  BY <3>3, <4>3
      <3> HIDE DEF u
      <3>5. QED  BY <1>0, <1>2, <3>2, <3>3, <3>4 DEF Locked
    <2>3. QED  BY <2>1, <2>2
  <1>4. CASE UpdateCommits \/ UpdateFails \/ PublishFails
    <2>0. PICK result \in {"committed", "rolledBack"}, kept \in SUBSET created,
               undone \in SUBSET Users :
              Finish(result, kept, undone) /\ txEnabled' \subseteq txEnabled \cup undone
      BY <1>4, Ends
    <2>1. \A u \in Users : failure'[u] =
              IF u \in created \ kept THEN NoFailures
              ELSE IF u \in undone THEN [failure[u] EXCEPT !.missed = TRUE] ELSE failure[u]
      BY <2>0 DEF Finish
    <2>2. SUFFICES ASSUME NEW u \in Users, failure'[u].numFailures >= factor, u \in txEnabled'
                   PROVE  failure'[u].missed
      BY DEF Locked
    <2>3. u \notin created \ kept
      <3>1. NoFailures.numFailures = 0
        BY DEF NoFailures
      <3>2. u \in created \ kept => failure'[u].numFailures = 0
        BY <2>1, <2>2, <3>1
      <3>3. QED  BY <1>0, <2>2, <3>2
    <2>4. failure[u] \in Record
      BY <1>0
    <2>5. CASE u \in undone
      BY <2>1, <2>3, <2>4, <2>5 DEF Record
    <2>6. CASE u \notin undone
      BY <1>2, <2>0, <2>1, <2>2, <2>3, <2>6 DEF Locked
    <2>7. QED  BY <2>5, <2>6
  <1>5. ASSUME NEW u \in Users, TimePasses(u)
        PROVE  Locked(failure', factor, txEnabled')
    <2>1. txEnabled' = txEnabled
      BY <1>5 DEF TimePasses, userVars
    <2>2. \A v \in Users : /\ failure'[v].numFailures = failure[v].numFailures
                           /\ failure'[v].missed = failure[v].missed
      BY <1>5, TimeKeeps
    <2>3. QED  BY <1>2, <2>1, <2>2 DEF Locked
  <1>6. ASSUME NEW failed \in BOOLEAN, NEW u \in Users, Offer(failed, u)
        PROVE  UNCHANGED <<failure, txEnabled>>
    BY <1>6 DEF Offer, recordVars, userVars
  <1>7. CASE \/ ShutdownFlag \/ ShutdownOffer \/ ShutdownReturns
             \/ Enter \/ Poll \/ PollTimeout \/ Exit \/ Drain \/ Sort \/ Create \/ CreateFails \/ Release
    <2>1. UNCHANGED <<failure, txEnabled>>
      BY <1>7 DEF ShutdownFlag, ShutdownOffer, ShutdownReturns, Enter, Poll, PollTimeout, Exit,
                  Drain, Sort, Create, CreateFails, Release, recordVars, userVars
    <2>2. QED  BY <1>2, <2>1
  <1>8. ASSUME NEW p \in BOOLEAN, NEW n \in Factors, ChangeSettings(p, n)
        PROVE  FALSE
    BY <1>2, <1>8 DEF ChangeSettings, settingVars
  <1>9. QED
    BY <1>2, <1>3, <1>4, <1>5, <1>6, <1>7, <1>8 DEF Next, WorkerStep

-----------------------------------------------------------------------------
(* The theorems *)

\* The invariant holds initially.
LEMMA InitInv == Init => IInv
  <1> SUFFICES ASSUME Init PROVE IInv
    OBVIOUS
  <1>1. NoFailures \in Record
    BY ConstantsOK DEF NoFailures, Record, Age
  <1>2. failure = [u \in Users |-> NoFailures] /\ applied = {}
    BY DEF Init
  <1>3. 1 \in Users
    BY ConstantsOK DEF Users
  <1>4. queue = <<>> /\ events = <<>> /\ DOMAIN queue = {} /\ DOMAIN events = {}
    BY DEF Init
  <1>5. TypeOK
    <2>1. permanent \in BOOLEAN /\ run \in BOOLEAN /\ factor \in Factors
      BY DEF Init
    <2>7. changes \in 0..MaxChanges
      BY ConstantsOK DEF Init
    <2>2. login \in [Logins -> [failed : BOOLEAN, user : Users]]
      BY <1>3 DEF Init
    <2>3. queue \in Seq(Events) /\ events \in Seq(Events) /\ pos \in 1..Len(events) + 1
      BY <1>4 DEF Init
    <2>4. offered \in 0..NumLogins /\ faults \in 0..MaxFaults
      BY ConstantsOK DEF Init
    <2>5. /\ failure \in [Users -> Record] /\ applied \subseteq Logins
          /\ stored \subseteq Users /\ created \subseteq Users \ stored
          /\ enabled \subseteq Users /\ txEnabled \subseteq Users
      BY <1>1, <1>2 DEF Init
    <2>6. /\ latch \subseteq Logins /\ outcome \in [Logins -> {"none", "committed", "rolledBack"}]
          /\ worker \in {"loop", "poll", "drain", "sort", "create", "update", "release", "stopped"}
          /\ stopper \in {"idle", "offer", "await", "returned"}
      BY DEF Init
    <2>8. QED  BY <2>1, <2>2, <2>3, <2>4, <2>5, <2>6, <2>7 DEF TypeOK
  <1>6. \A x : ~In(x, queue) /\ ~In(x, events)
    BY <1>4 DEF In
  <1>7. Once
    BY <1>4, <1>6 DEF Once, Injective
  <1>8. Placed
    <2>1. SUFFICES ASSUME NEW l \in Logins
                   PROVE  /\ l <= offered <=> In(l, queue) \/ In(l, events) \/ l \in latch
                          /\ l \in latch => ~In(l, queue) /\ ~In(l, events)
                          /\ outcome[l] # "none" <=> l \in latch \/ (worker = "release" /\ In(l, events))
      BY DEF Placed
    <2>2. ~(l <= offered)
      BY ConstantsOK DEF Init
    <2>3. outcome[l] = "none" /\ latch = {}
      BY DEF Init
    <2>4. QED  BY <1>6, <2>2, <2>3
  <1>9. QueueOrder /\ ListOrder
    BY <1>4 DEF QueueOrder, ListOrder
  <1>10. TxInv
    BY DEF TxInv, Init
  <1>11. DoneInv
    <2>1. \A l \in Logins : ~Passed(l) /\ outcome[l] = "none"
      BY DEF Init, Passed
    <2>2. QED  BY <1>2, <2>1 DEF DoneInv
  <1>12. CountInv
    <2>1. \A u \in Users : NoFailures.numFailures = 0 /\ NoFailures.since = 0
                           /\ failure[u] = NoFailures
      BY <1>2 DEF NoFailures
    <2>2. \A u, since : CountedBy(login, u, {}, since) = {}
      BY DEF CountedBy
    <2>3. QED  BY <1>2, <2>1, <2>2, FS_EmptySet DEF CountInv, Counts
  <1>13. LockInv
    BY DEF LockInv, Init
  <1>14. QED  BY <1>5, <1>7, <1>8, <1>9, <1>10, <1>11, <1>12, <1>13 DEF IInv

\* Steps that change nothing keep it.
LEMMA StutterInv == IInv /\ UNCHANGED vars => IInv'
  <1> SUFFICES ASSUME IInv, UNCHANGED vars PROVE IInv'
    OBVIOUS
  <1>1. UNCHANGED <<permanent, factor, changes, offered, login, latch, queue, events, worker, run,
                    stopper, faults, failure, stored, created, enabled, txEnabled, pos, outcome,
                    applied>>
    BY DEF vars, settingVars, loginVars, workVars, recordVars, userVars, endVars
  <1>2. TypeOK'
    BY <1>1 DEF IInv, TypeOK
  <1>3. (Once /\ Placed /\ QueueOrder /\ ListOrder)'
    BY <1>1 DEF IInv, Once, Placed, QueueOrder, ListOrder, In, Injective
  <1>4. TxInv'
    BY <1>1 DEF IInv, TxInv
  <1>5. CountInv'
    BY <1>1 DEF IInv, CountInv
  <1>6. LockInv'
    BY <1>1 DEF IInv, LockInv
  <1>7. DoneInv'
    BY <1>1 DEF IInv, DoneInv, Passed
  <1>8. QED  BY <1>2, <1>3, <1>4, <1>5, <1>6, <1>7 DEF IInv

\* The invariant is inductive.
LEMMA NextInv == IInv /\ [Next]_vars => IInv'
  <1>1. ASSUME IInv, Next
        PROVE  IInv'
    <2>1. TypeOK /\ OrderInv /\ TxInv /\ DoneInv /\ CountInv /\ LockInv
      BY <1>1 DEF IInv, OrderInv
    <2>2. TypeOK' /\ OrderInv' /\ TxInv' /\ DoneInv' /\ CountInv' /\ LockInv'
      BY <1>1, <2>1, TypeStep, OrderStep, TxStep, CountStep, LockStep
    <2>3. QED  BY <2>2 DEF IInv, OrderInv
  <1>2. QED  BY <1>1, StutterInv

\* The invariant holds in every reachable state of the protector.
LEMMA Invariance == Spec => []IInv
  BY InitInv, NextInv, PTL DEF Spec

\* Every reachable state is well typed, for any number of logins and users, any batch
\* size and any number of sessions that cannot be created.
THEOREM ProtectorTypeCorrect == Spec => []TypeOK
  <1>1. IInv => TypeOK
    BY DEF IInv
  <1>2. QED  BY <1>1, Invariance, PTL

\* No event is lost or applied twice: an event is in the queue, in the worker's list or
\* done with, whatever exceptions the worker meets and whenever the server shuts down.
THEOREM NoEventLost == Spec => []EachEventOnce
  <1>1. IInv => EachEventOnce
    <2> SUFFICES ASSUME IInv PROVE EachEventOnce
      OBVIOUS
    <2> DEFINE left == events \o queue
               m == Len(events)
    <2>1. /\ events \in Seq(Events) /\ queue \in Seq(Events)
          /\ m \in Nat /\ Len(queue) \in Nat
          /\ DOMAIN events = 1..m /\ DOMAIN queue = 1..Len(queue)
          /\ latch \subseteq Logins /\ offered \in 0..NumLogins
      BY DEF IInv, TypeOK
    <2>2. /\ DOMAIN left = 1..(m + Len(queue))
          /\ \A i \in DOMAIN events : i \in DOMAIN left /\ left[i] = events[i]
          /\ \A i \in DOMAIN queue : m + i \in DOMAIN left /\ left[m + i] = queue[i]
      BY <2>1
    <2>3. \A i \in DOMAIN left :
              \/ i \in DOMAIN events /\ left[i] = events[i]
              \/ i > m /\ i - m \in DOMAIN queue /\ left[i] = queue[i - m]
      BY <2>1
    <2> HIDE DEF left
    <2>4. \A i, j \in DOMAIN left : left[i] = left[j] => i = j
      <3>1. SUFFICES ASSUME NEW i \in DOMAIN left, NEW j \in DOMAIN left, left[i] = left[j]
                     PROVE  i = j
        OBVIOUS
      <3>2. Injective(queue) /\ Injective(events)
            /\ \A a \in DOMAIN events, b \in DOMAIN queue : events[a] # queue[b]
        BY DEF IInv, Once
      <3>3. CASE i \in DOMAIN events /\ left[i] = events[i]
        <4>1. j \in DOMAIN events /\ left[j] = events[j]
          BY <2>3, <3>1, <3>2, <3>3
        <4>2. QED  BY <3>1, <3>2, <3>3, <4>1 DEF Injective
      <3>4. CASE i > m /\ i - m \in DOMAIN queue /\ left[i] = queue[i - m]
        <4>1. j > m /\ j - m \in DOMAIN queue /\ left[j] = queue[j - m]
          BY <2>3, <3>1, <3>2, <3>4
        <4>2. i - m = j - m
          BY <3>1, <3>2, <3>4, <4>1 DEF Injective
        <4>3. i \in Nat /\ j \in Nat
          BY <2>1, <2>2
        <4>4. QED  BY <2>1, <4>2, <4>3
      <3>5. QED  BY <2>3, <3>3, <3>4
    <2>5. \A l : l \in Range(left) <=> In(l, queue) \/ In(l, events)
      <3>1. ASSUME NEW l, l \in Range(left)
            PROVE  In(l, queue) \/ In(l, events)
        BY <2>3, <3>1 DEF Range, In
      <3>2. ASSUME NEW l, In(l, queue) \/ In(l, events)
            PROVE  l \in Range(left)
        BY <2>2, <3>2 DEF Range, In
      <3>3. QED  BY <3>1, <3>2
    <2>6. (Range(left) \cap Logins) \cup latch = 1..offered
      <3>1. \A l : l \in 1..offered <=> l \in Logins /\ l <= offered
        BY <2>1, ConstantsOK DEF Logins
      <3>2. \A l \in Logins : l <= offered <=> l \in Range(left) \/ l \in latch
        BY <2>5 DEF IInv, Placed
      <3>3. QED  BY <2>1, <3>1, <3>2
    <2>7. Range(left) \cap latch = {}
      BY <2>1, <2>5 DEF IInv, Placed
    <2>8. {l \in Logins : outcome[l] # "none"} =
              latch \cup (IF worker = "release" THEN Range(events) \cap Logins ELSE {})
      <3>1. \A l : In(l, events) <=> l \in Range(events)
        BY DEF In, Range
      <3>2. \A l \in Logins : outcome[l] # "none" <=> l \in latch \/ (worker = "release" /\ In(l, events))
        BY DEF IInv, Placed
      <3>3. CASE worker = "release"
        BY <2>1, <3>1, <3>2, <3>3
      <3>4. CASE worker # "release"
        BY <2>1, <3>2, <3>4
      <3>5. QED  BY <3>3, <3>4
    <2>9. QED  BY <2>4, <2>6, <2>7, <2>8 DEF EachEventOnce, left
  <1>2. QED  BY <1>1, Invariance, PTL

\* The number of failures of a user is exact: that of the failed logins in effect since
\* the last successful one, or since failures long past were cleared, in the order in
\* which they were offered, whatever batches they came in, and each failed login whose
\* transaction has committed is in effect.
THEOREM CountsAreExact == Spec => []CountAccurate
  <1>1. IInv => CountAccurate
    <2>1. \A u, done, since : Counted(u, done, since) = CountedBy(login, u, done, since)
      BY DEF Counted, CountedBy
    <2>2. QED  BY <2>1 DEF IInv, DoneInv, CountInv, Counts, CountAccurate
  <1>2. QED  BY <1>1, Invariance, PTL

\* With a permanent lockout, a user whose failures have reached the factor is disabled,
\* unless a rollback has kept the failures and undone the lockout or the settings were
\* changed: nothing else steps over the test for equality in failure().
THEOREM LockoutNotSteppedOver == Spec => []LockedAtFactor
  <1>1. IInv => LockedAtFactor
    BY DEF IInv, LockInv, Locked, LockedAtFactor
  <1>2. QED  BY <1>1, Invariance, PTL

=============================================================================

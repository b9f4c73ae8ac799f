# TLA+ specifications of the Keycloak core

TLA+ models of the parts of Keycloak that keep shared, mutable state: in the
server, the caches and services that concurrent requests and several cluster nodes
reach; in the browser, the JavaScript adapter and the shell of the admin console,
where responses, messages and timers come in any order. TLC configurations check
them on small instances, and TLAPS proofs establish their safety properties
for every instance. File names below are relative to
the repository; `CacheManager:144` means line 144 of `CacheManager.java`.

- [Inventory](#inventory) – the system's parts, their state and what makes them correct
- [Modules](#modules) – how each module corresponds to the code
- [Runs](#runs) – what is model-checked, with which bounds
- [Fairness](#fairness)
- [Proofs](#proofs)
- [What the checks show about the code](#what-the-checks-show-about-the-code)
- [Not modelled](#not-modelled)
- [Plan](#plan)

To repeat a check: `tlc -config RevisionCacheCluster.cfg MCRevisionCache`, and
`tlapm RevisionCacheProofs.tla`.

## Inventory

A request enters through `KeycloakSessionServletFilter`, which creates a
`KeycloakSession` and begins its transaction. The session hands out providers:
realms and users come from cache sessions in front of JPA, user sessions from
Infinispan caches. Every provider enlists a participant with the session's
transaction manager. When the response is written the transaction ends, the
database commits, and only then are caches invalidated, session caches updated
and other nodes told. Background jobs and scheduled tasks go the same way without
the filters. In the browser an application holds a `Keycloak` object, which obtains
tokens from the token endpoint, renews them, and watches the SSO session through a
hidden iframe; the admin console sends every REST request through it.

| Part | State | Operations | Interacts with |
|---|---|---|---|
| Invalidation cache (`CacheManager`, `RealmCacheSession`, `UserCacheSession`, `UpdateCounter`) | per node: object cache, revisions cache, counter; per session: start-up revision, registered invalidations | get, getCurrentRevision, addRevisioned, invalidateObject, clear, runInvalidations, sendInvalidationEvents | database (delegate), transaction manager (afterCompletion), cluster provider (events) |
| Cluster provider (`InfinispanClusterProvider`, its factory, `InfinispanNotificationsManager`, `TaskCallback`, `Retry`) | work cache with lock entries; per node: task callbacks with latch and flag; view and coordinator | executeIfNotExecuted, executeIfNotExecutedAsync, removal listeners, viewChanged, notify | Infinispan / Hot Rod, JGroups |
| Transaction manager (`DefaultKeycloakTransactionManager`, `AbstractKeycloakTransaction`) and its drivers (`KeycloakSessionServletFilter`, `KeycloakTransactionCommitter`, `KeycloakErrorHandler`, `KeycloakModelUtils.runJobInTransaction`, `ScheduledTaskRunner`) | three lists of participants, active, completed, rollback; a state per participant | begin, enlist…, commit, rollback, setRollbackOnly | every provider |
| User and client session caches (changelog transactions) | versioned session entities; per transaction a list of update tasks | addTask, merge, optimistic replace with retries, remove | transaction manager, remote caches |
| Cross-datacenter replication | local and remote caches, sequence of remote events | RemoteCacheInvoker.runTask, RemoteCacheSessionListener | session caches |
| Session initializer, database lock | progress of segments, a row lock | startLoading, waitForLock, releaseLock | cluster provider, work cache |
| Single-use codes and action tokens | remote or local cache entries | putCode, remove if present | session caches |
| Refresh token rotation | use count and last refresh in the client session | refresh | session caches |
| Brute force protector (`DefaultBruteForceProtector`) | queue, the worker's list, latches of waiting callers, failures per user | failedLogin, successfulLogin, run, shutdown | session caches (login failures) |
| JavaScript adapter (`keycloak.js`, `login-status-iframe.html`) | tokens, `refreshQueue`, `callbackList`, init's promise, timers; the iframe's `init` | init, updateToken, clearToken, login…, message callback, periodic check | token endpoint, SSO cookie, application callbacks |
| Admin console shell (`app.js`, `Notifications`) | start-up, `resourceRequests`, `loadingTimer`, notification and its timer | interceptors of `$http`, spinner, message, reload | adapter, REST API |
| Authentication flows and sessions | executions with a status per authentication session | authenticate, action, reset flow | session caches |
| Public key storage | cache of key sets, tasks in progress, last request time | getPublicKey, clear | cluster events |
| Authorization services | policies, cached store entities | evaluate, cache operations as above | invalidation cache |

The remaining parts of the repository (protocol endpoints, persistence mapping,
federation, Java and Node adapters, account console, themes, tests, packaging) keep no protocol state of
their own; `PROJECT.json` lists them with the reason they are left out.

What is hard, and what makes the modelled parts correct:

- **Invalidation cache.** Lookups, database reads, commits, invalidations by other
  threads and by events of other nodes, eviction and clears interleave between any
  two lines of `addRevisioned` and `get`. Correct means: an object older than the
  last completed invalidation is never served, nothing uncommitted is cached, and
  every node stops serving an old object eventually.
- **Cluster provider.** Nodes leave while they hold the lock, waiters register while
  the task ends, cache operations take effect, are reported as failed and repeated.
  Correct means: one task at a time, no waiter forgotten, no lock that
  outlives its holder, and a result that says what happened.
- **Transaction manager.** Any participant may fail at any place in any of the three
  lists; the handler may have committed already, have marked the transaction, have
  begun it anew, or have thrown. Correct means: nobody outside is told of what the
  database has not committed, success is reported only when all committed, each
  participant is ended exactly once, and rollback-only is honoured.
- **Session caches.** Transactions on several nodes change a session at once. On the
  owner of the entry they even work on the same Java object, elsewhere on copies. Correct
  means: the changes of a transaction appear together at its commit, none that was
  committed is lost while the session exists, and a removed session does not come back.
- **Brute force protector.** One worker takes events in batches; sessions cannot be
  created, transactions fail and leave the counts of cached records behind, settings
  change, a shutdown arrives in the middle. Correct means: each
  event is applied at most once, counts are exact, callers are released.
- **JavaScript adapter.** Between two tasks of the event loop anything may arrive: a
  late response, the iframe's verdict on an old question, a timer, a call made from a
  callback. Correct means: every promise is settled, a good token is kept, the token of
  an ended session is not.
- **Admin console.** Its interceptors hang on the adapter's promises. Correct means:
  the spinner agrees with the requests it has counted, no request goes out without a token
  and none hangs on a page that stays.

## Modules

| Module | Content |
|---|---|
| `RevisionCache` | invalidation cache on several nodes |
| `RevisionCacheProofs` | its type invariant and safety properties, proved |
| `MCRevisionCache` | instance for TLC (symmetry of nodes and transactions) |
| `ClusterTask` | tasks that run on one node at a time |
| `ClusterTaskProofs` | type invariant and mutual exclusion, proved |
| `MCClusterTask` | instance for TLC |
| `TransactionManager` | a session's transaction and its drivers |
| `TransactionManagerProofs` | order and completeness of completion, proved |
| `MCTransactionManager` | instance for TLC |
| `SessionStore` | abstract specification: one session with atomic changes |
| `SessionChangelog` | changelog transactions on that session; refines `SessionStore` |
| `SessionChangelogProofs` | type invariant, refinement, and what lost races cost, proved |
| `MCSessionChangelog` | instance for TLC (symmetry of transactions) |
| `BruteForceProtector`, `MCBruteForceProtector` | queue, worker, records; its instance |
| `BruteForceProtectorProofs` | places of events, exact counts, lockout, proved |
| `KeycloakJs`, `MCKeycloakJs` | the JavaScript adapter on a page; its instance |
| `KeycloakJsProofs` | its safety properties, proved |
| `AdminConsole`, `MCAdminConsole` | the console's shell, composed with `KeycloakJs`; its instance |
| `AdminConsoleProofs` | its safety properties, on top of `KeycloakJsProofs` |

Definitions whose comment begins with *Mutant:* are faulty variants of the definition
that follows them. They are not part of a specification;
they show that a property can fail.

### RevisionCache

An object's content is abstracted to a version: the number of committed writes it
reflects. `db` is the committed version of every key, `cache` and `revisions` the two
caches of a node, `counter` its `UpdateCounter`. A session (`Txs`) has a phase `pc`, a
node, its `startup` revision, its snapshot and its invalidations `inval`; the local
variables of the lookup it is making are `key`, `obj`, `loaded`, `val`, `cur`.

Each step is one access to shared state. A lookup is `GetEntry` (read the object
cache), `GetCheck` (compare with the revisions cache), `GetCurrentRevision` and, when
there is none, `GetCurrentCounter` (lines 78 and 80),
`LoadFromDelegate` (the database read), `AddCheck` and `AddCounter` (lines 141 and 143),
`AddRecord` (the put of line 144, before the lock) and `AddUnderLock` (the batch of lines
146-179).
The check and the two puts of the batch are one step because the revision's lock is
held and an object can only be hit through its revision; `putForExternalRead` does
nothing when the key is present, and the lock or the put may fail.

`Write` stands for `getDelegateForUpdate` and the `register…Invalidation` methods,
each of which marks keys. `Commit` and `Rollback` both start `runInvalidations`, as the
code does. Invalidating one key takes three steps, `RemoveObject`, `NextCounter`,
`PutBump`, of the session's own thread on its node and, once
`SendInvalidationEvents` is through, of the event listeners on the others. Caches
may evict at any time, and `ClearObjects`/`ClearRevisions` are the two halves of
`clear()`.

The database is external. With `RepeatableRead` a transaction reads from a snapshot
taken at its first read, otherwise every read sees the last commit. With
`EarlierReads` the first read may precede the opening of the cache session, which
is what happens to `UserCacheSession`. `Rowless` are versions at which the row does not
exist, so that nothing is cached.

Three history variables serve the properties: `wver` (the version a transaction
committed), `top` (highest revision ever recorded) and `gap`. `gap[n][k]` is true after
a bump that did not raise the key's revision for good: the put of line 144 has
overwritten it, or two bumps were put in the opposite order (lines 128-129).

### ClusterTask

One task key; keys share nothing. A caller is one call of `executeIfNotExecuted`
or of the asynchronous variant, on some node. `lock` is the entry in the work cache (who
put it), `callbacks` the registered `TaskCallback` of each node, `latch` and
`success` its fields.

`CallSync`, `CallAsync`, `TryLock`, `TaskEnds`, `RemoveFromCache`, `Await` and `AwaitTimeout`
follow a call. Removing the entry tells every node (`TaskFinished`): at once when the cache
is replicated synchronously, through `DeliverRemoval` when it is remote; `crossDC` is chosen
at the start. `TryLockFails` and `RemoveFromCacheFails` are attempts that throw, with or
without having taken effect, and `Retry` is `Retry.executeWithBackoff`. With `MayFail` they
happen in both modes: `InfinispanClusterProvider:160` expects failures with a replicated cache
when a node fails. The coordinator's clean-up may then throw, too, and is not repeated.

`repeated` is a history variable: how often a removal took effect, was reported as failed and
was tried again.

`Crash` removes a node; JGroups agrees on the next coordinator, which handles
`ViewChanged` (lines 182-233 of the factory) and then removes the entry
(`RemoveLockOfLeftNode`).

### TransactionManager

`prepare`, `transactions` and `afterCompletion` are the lists; `active`, `completed`,
`rollbackOnly` the flags; `state` is `AbstractKeycloakTransaction`'s state. `pc` is the loop
of `commit()` or `rollback()` that is being executed and `i` the position in it, so a
participant can answer each call with success, a `RuntimeException` or an `Error`. `back`
says who called, `driver` which of the three drivers runs the session.

`Handler…` actions are what application code does: enlist, mark rollback-only,
commit itself (the admin resources do), begin again
(`IdentityBrokerService.fireErrorEvent`), return, throw, or throw something that
`KeycloakErrorHandler` maps to a response. `HandlerReturns` and `Close` are the
response filter and `closeSession`, or the corresponding ends of `runJobInTransaction` and
`ScheduledTaskRunner`.

Main participants follow `JpaKeycloakTransaction`: a failed commit ends them and they
can be begun again. The others follow `AbstractKeycloakTransaction`. The two participants
of `RealmCacheSession` do not extend that class and share one flag; that difference is
not modelled. `fate` (the answer in the current transaction) and `refused` are history
variables.

### SessionStore and SessionChangelog

`SessionStore` has two variables: the committed changes the session shows, by transaction
(or `Absent`), and how each transaction has ended. A step changes, creates or removes the
session at once, ignores a change because there is no session, or gives it up.

`SessionChangelog` has one session key; keys share nothing but the transaction. `cache` is
the entry, a version and a reference to an entity; `heap` counts how often each update task of
each transaction has been run on an entity, so that an increment that is run twice is not the
same as one that is run once. `Local` transactions run on the owner of the entry, where `cache.get`
returns the cached object itself; the others work on a copy. `LoadAndRun` is that
difference. A version is a random UUID in the code, here it is named by the transaction
that generated it (each publishes at most once).

`Get`, `AddFirstTask`, `AddNewEntity` and `AddTask` collect update tasks and run them at once, as
the code does. `MergedOperation` and `ChildUpdates` are `MergedUpdate.computeUpdate`: a REMOVE that
comes first gives way to the second task, and to that one alone, because line 76 returns. So what
a retry runs again (`ChildUpdates`) may be less than what was run before. `CommitRemove`,
`CommitAddIfAbsent` and `CommitReplace` are the branches of `runOperationInCluster`; `Replace`
and `Reload` alternate in the loop of `replace()` and `Drop` is its end without success.
`Rollback` changes nothing, because `rollbackImpl` is empty. The operation `ADD` is in
the switch but no task in the repository returns it.

The refinement mapping shows the *committed* transactions all of whose updates have been run on
the cached entity. Updates of others may be there, too (see below), and the mapping does not
tell how often an update was run: that is RunOncePerRace.

### BruteForceProtector

Events are numbered in the order they are offered. A login thread only offers and waits,
so it is one action, `Offer`. The worker's steps are `Enter`/`Exit` (the loop condition),
`Poll`, `Drain`, `Sort`, `Create`, `UpdateEvent` (one turn of the loop over the batch),
`UpdateCommits` and `Release`, with `PollTimeout`, `CreateFails`, `UpdateFails` (at any turn) and
`PublishFails` (after the database has committed) for
the other outcomes. `Sort` is stated by what a stable sort does: it permutes the list, and `Sorts` says
which permutations it may use. It throws when the shutdown event, which has no
user, is in a batch with others. `shutdown()` is `ShutdownFlag`, `ShutdownOffer`,
`ShutdownReturns`.

A record has the number of failures, whether the wait is running, and the age of the last failure in the classes the code compares (none, within
the quick-login time, later, older than the maximum). `TimePasses` moves a record to the
next class.

Login failures are kept by a changelog transaction, users by the database, and a rollback
treats them differently. `failure` has the counts everybody sees: the tasks of the worker's
transaction change the cached record at once and `rollbackImpl` is empty, so a failed batch
keeps them. Only a record that the transaction itself made (`created`) waits for the commit
and is gone after a rollback, which `stored` and `Finish` express. `enabled` is the committed
state of the users and `txEnabled` the worker's view; a rollback takes a lockout back. `permanent`
and `factor` are the realm's settings: `ChangeSettings` changes them between batches, since
a session keeps the realm it has loaded. `applied` (events in effect), `outcome` and the
fields `since` and `missed` of a record are history; `missed` says that a rollback or a change of
the settings has let a user pass the factor.

One node is modelled. `Factors` excludes 0, with which the code divides by zero (line 153).

### KeycloakJs

An action is a task of the browser's event loop with the promise callbacks that run before
the next one (`createNativePromise`). `cont` says what `init` waits for, `token` and
`sid` which SSO session the token and `kc.sessionId` belong to, `fresh` and `skew` what
`isTokenExpired` decides on. `refreshQueue` and `callbackList` are the code's; `refreshes`,
`exchange`, `asked` and `answers` are the requests and messages on their way. `opt` is the
page's configuration: flow, `onLoad`, iframe or not, and what the URL or `initOptions` carry.

`UpdateToken` either fails, asks the iframe first, or executes `Exec`; `MessageReceived` runs `Exec`
for the calls that waited for the iframe. `RefreshAnswered(i, cs)` includes the calls `cs` of
`updateToken` that the application makes from `onTokenExpired`, `onAuthRefreshSuccess` or
`onAuthRefreshError`, which run before the queue is emptied. `ExchangeAnswered(cs)` has those that
`onTokenExpired` makes when the tokens of the login are expired on arrival: `setToken` calls it
before the nonce is compared (lines 603-605). `Check` is the periodic check.
`IframeReceives` and `IframeInitAnswered` are the script in `login-status-iframe.html`.
`ExchangeHandled`, `RefreshAccessToken` and `RefreshHandled` are the token endpoint (`TokenEndpoint`, `TokenManager`): a
refresh is granted for a live session only, and may be refused for a live one, too (a token
used before, not-before policies, a disabled user, consent). Logins and logouts in other
tabs are external. `location.href` does not
stop the page at once: it is `leaving` and runs on until `Unload`.

### AdminConsole

Extends `KeycloakJs`; `$http` requests are named by the `updateToken` call they make.
`AdapterStep` is a task of the adapter together with the console's callbacks that run in it:
`Intercepted` (success of `updateToken`), `Started` (success of `init`), `Reload` (their errors,
and `onAuthLogout`). `Http`, `Send`, `Response`, `Unauthorized` follow a request through
`authInterceptor`, `spinnerFunction`, `spinnerInterceptor` and `errorInterceptor`;
`HttpWithoutToken` is the request whose promise is never resolved. `SendQuiet` sends a request
with a `transformRequest` of its own (`services.js:359`, `:1870`, `:1881`): it takes the place of the
default one, so `spinnerFunction` does not count the request, but `spinnerInterceptor` counts its
answer. `uncounted` is the number of these answers.

## Runs

| Run | Configuration | Properties | States |
|---|---|---|---|
| `rc_cluster` | `RevisionCacheCluster` | TypeOK, StaleOnlyWhilePending, StaleEventuallyGone | 400 000 |
| `rc_lazy` | `RevisionCacheLazy` | OnlyCommittedRowsCached | 1 295 000 |
| `rc_record_race` | `RevisionCacheRecordRace` | NoStaleObjectCached – violated | |
| `ct_live` | `ClusterTaskLive` | WaitersReleased, LockEventuallyReleased | 255 000 |
| `ct_failing` | `ClusterTaskFailing` | TypeOK, MutualExclusion, CallsReturn | 615 000 |
| `ct_node_left` | `ClusterTaskNodeLeft` | FutureTrueOnlyIfFinished – violated | |
| `tm_drivers` | `TransactionManagerDrivers` | NoneLeftOpen, NeverRefused, RollbackOnlyHonoured | 57 000 |
| `tm_restart` | `TransactionManagerRestart` | TypeOK, AfterOnlyIfMainCommitted, SuccessMeansCommitted | 235 000 |
| `sc_changelog` | `SessionChangelog` | TypeOK, DroppedOnlyAfterRaces, RunOncePerRace, ImplementsStore | 1 969 000 |
| `bf_protector` | `BruteForceProtector` | TypeOK, CountAccurate, EachEventOnce, LockedAtFactor, LoginsReleased, ShutdownEnds | 491 000 |
| `kj_page` | `KeycloakJsPage` | TypeOK, QueuesMatchRequests, RejectedMeansNoToken, GoodTokenKept, CallsSettle, InitSettles, SessionEndNoticed | 212 000 |
| `ac_console` | `AdminConsole` | ConsoleTypeOK, SpinnerMatchesRequests, TimeoutOfShown, HeaderHasToken, RequestsEnd | 516 000 |

Deadlock is not checked: sessions, calls, jobs and pages end, and then nothing is
left to do. Symmetry is used only in runs without liveness properties
(`ImplementsStore` is a safety property: `SessionStore` states no fairness).

**Bounds.** `rc_cluster`: two nodes, two transactions, one key, two lookups each. A
stale hit needs a reader, a writer and a node that learns of the write late; a second
lookup lets a session load, be evicted and load again. Keys meet in the counter only,
so one key shows the protocol; `rc_lazy` has two, written together, with one
lookup, a cache clear, snapshots taken before the session is opened and a version
without a row. `ct_live` has three callers on two nodes, so that on one node a
second call finds a callback, one departure, and both kinds of cache; `ct_failing` three
callers (the third meets the lock that a repeated removal takes from the second) and two
attempts per operation with a replicated cache, a departure and a task that may throw. `tm_drivers` and `tm_restart` have four
participants, in any order on any of the three lists, so that one fails with
others before it, after it and on the lists that follow. `sc_changelog` has two
transactions on the owner, which share an entity, with three tasks each (a
removal followed by two updates is the shortest list of which a retry runs a part), one elsewhere with two
(`Brief`), and two attempts, so that a transaction can lose two races and be dropped. `bf_protector`: two users and three events in batches of at most two
let a batch mix users, a user's events be split over batches and left over, and two
failures reach the factor; one exception, of any of the three kinds, and one change of the lockout mode.
Safety is proved for any number of them. A change of the
factor itself is covered by the theorems only: with two factors the run is too large. `kj_page` has every kind of page; one call of the application next to
the one init makes, two sessions so that another tab can be in a different one.
`ac_console`: two requests share the adapter's queues, the spinner and the notifications, and two may go
uncounted: afterwards the count is 0 although both are under way.

**What the passing runs show.**

- *StaleOnlyWhilePending*: when a hit is older than the database, some transaction
  that wrote later has still to invalidate the key on that node, or a bump has been
  lost (`gap`).
- *StaleEventuallyGone*: a stale hit ends, on every node.
- *OnlyCommittedRowsCached*: neither a session's own uncommitted writes nor a
  missing row reach the cache.
- *MutualExclusion*: the task runs in one call at a time, plus one for every removal that was
  repeated although it had taken effect. The exact bound matters: a repeated removal
  takes the next caller's lock away (see below), and nothing else does, neither a
  `putIfAbsent` that fails, nor a departure, nor the clean-up after it.
- *WaitersReleased*, *LockEventuallyReleased*: with a replicated and a remote work cache, one node
  leaving at any point. They are claimed without failing operations: a `putIfAbsent` that took
  effect and threw, or a clean-up that throws, leaves the lock for good.
- *CallsReturn*: whatever the work cache does, every call returns, within the
  timeout of its wait.
- *AfterOnlyIfMainCommitted*, *SuccessMeansCommitted*: see the theorems.
- *NoneLeftOpen*, *NeverRefused*: without Errors and without a second `begin()`, every
  main and afterCompletion participant is told the outcome, and nobody is asked to end
  twice. Prepare participants are told of a commit only: `rollback()` does not
  call them.
- *RollbackOnlyHonoured*: by requests and jobs. A handler that calls `commit()` itself
  is not stopped, and `ScheduledTaskRunner:62` does not ask.
- *ImplementsStore*, *DroppedOnlyAfterRaces*: see the theorem; an update is given up only after
  as many lost races as there are attempts, each lost to a transaction that did publish.
- *RunOncePerRace*: an update counts once on a copy, and on the owner's shared entity once and at
  most once more for every race its transaction has lost. For updates that set a value this
  is no matter; `incrementFailures` (`UserLoginFailureAdapter:75`) may count too much.
- *EachEventOnce*, *CountAccurate*: whatever fails, an event is in exactly one
  place, and a user's count is that of the failures in effect since the last success, in the
  order they were offered. Every committed one is in effect; of a failed batch those on
  records that were in the cache are.
- *LockedAtFactor*: the `==` of the permanent lockout is stepped over only by a rollback, which
  keeps the count and takes the lockout back, and by a change of the settings.
- *LoginsReleased*, *ShutdownEnds*: callers are released by the worker, not by their time-out,
  while the server runs. A batch left over because no session could be created waits for
  the next event.
- *QueuesMatchRequests*: the `length == 1` tests keep exactly one request under way while
  anybody waits, and nobody waits twice. *CallsSettle*, *InitSettles* follow from it and from
  answers that come or fail.
- *GoodTokenKept*: the iframe's verdict is never about an older session than the token it
  clears. It depends on the periodic check ending when there is no token. A refused refresh
  clears the token even if its session lives on.
- *RejectedMeansNoToken*: in the implicit flow, and in the standard flow with the iframe, a login
  whose tokens are rejected leaves no token, although `onTokenExpired` runs before the nonce is
  compared. Without the iframe, and in the hybrid flow, it may (see below).
- *SessionEndNoticed*: as named, with the exception listed below.
- *SpinnerMatchesRequests*: the count is that of the counted requests under way less the answers
  to uncounted ones; the spinner shows exactly while it is positive.
- *HeaderHasToken*: for requests of `$http`. `whoAmI` sets its header itself (`app.js:18`), and is
  not covered.
- *RequestsEnd*: a request made without a token never gets an answer, but then the token was
  cleared and `onAuthLogout` reloads the page.

## Fairness

- `RevisionCache`: a thread that has begun `runInvalidations` goes on, and an event that
  was sent is handled on every node. Nothing is assumed of sessions before that, of
  eviction or of clears: a request may stay open for ever.
- `ClusterTask`: a submitted job runs, a task ends, a removal event is delivered, the
  coordinator handles a view change. `FairSpec` does not assume that a wait times out,
  so *WaitersReleased* says that the wake-up itself is never lost. `TimedSpec` adds the
  time-out, which `CountDownLatch.await(timeout)` guarantees, and is used where cache
  operations may fail for good.
- `SessionChangelog`: none; it has no liveness property.
- `BruteForceProtector`: the worker and the thread that calls `shutdown()` run. Callers'
  time-outs are not used.
- `KeycloakJs`, `AdminConsole`: responses come or fail, messages between page and iframe are
  delivered, scheduled checks run, `location.reload()` takes effect. Nothing is assumed of
  the application, of other tabs, or of tokens expiring.

All of it is weak fairness: no step relies on winning a race again and again.

## Proofs

The provers establish these for all values of the constants that satisfy the
modules' `ASSUME`s.

| Theorem | Statement | Further assumption |
|---|---|---|
| `TypeCorrect` (RevisionCacheProofs) | Spec ⇒ □TypeOK | |
| `StaleHitsArePending` (RevisionCacheProofs) | Spec ⇒ □StaleOnlyWhilePending | not both `EarlierReads` and `RepeatableRead` |
| `TaskExclusion` (ClusterTaskProofs) | Spec ⇒ □MutualExclusion | |
| `AfterCompletionIsSafe` (TransactionManagerProofs) | Spec ⇒ □AfterOnlyIfMainCommitted | |
| `SuccessIsComplete` (TransactionManagerProofs) | Spec ⇒ □SuccessMeansCommitted | |
| `NobodyRefuses` (TransactionManagerProofs) | Spec ⇒ □NeverRefused | not `HandlerRestarts` |
| `NobodyIsLeftOpen` (TransactionManagerProofs) | Spec ⇒ □NoneLeftOpen | neither `MayError` nor `HandlerRestarts` |
| `RollbackOnlyIsSafe` (TransactionManagerProofs) | Spec ⇒ □RollbackOnlyHonoured | not `MayError` |
| `ManagerTypeCorrect` (TransactionManagerProofs) | Spec ⇒ □TypeOK | |
| `TaskTypeCorrect` (ClusterTaskProofs) | Spec ⇒ □TypeOK | |
| `CachedRowsAreCommitted` (RevisionCacheProofs) | Spec ⇒ □OnlyCommittedRowsCached | |
| `TypeCorrect` (SessionChangelogProofs) | Spec ⇒ □TypeOK | |
| `Refinement` (SessionChangelogProofs) | Spec ⇒ ImplementsStore | |
| `DropNeedsRaces` (SessionChangelogProofs) | Spec ⇒ □DroppedOnlyAfterRaces | |
| `RepeatedOnlyAfterRaces` (SessionChangelogProofs) | Spec ⇒ □RunOncePerRace | |
| `ProtectorTypeCorrect` (BruteForceProtectorProofs) | Spec ⇒ □TypeOK | |
| `NoEventLost` (BruteForceProtectorProofs) | Spec ⇒ □EachEventOnce | |
| `CountsAreExact` (BruteForceProtectorProofs) | Spec ⇒ □CountAccurate | |
| `LockoutNotSteppedOver` (BruteForceProtectorProofs) | Spec ⇒ □LockedAtFactor | |
| `JsTypeCorrect` (KeycloakJsProofs) | Spec ⇒ □TypeOK | |
| `QueuesInStep` (KeycloakJsProofs) | Spec ⇒ □QueuesMatchRequests | |
| `RejectedHoldsNoToken` (KeycloakJsProofs) | Spec ⇒ □RejectedMeansNoToken | |
| `GoodTokenSafe` (KeycloakJsProofs) | Spec ⇒ GoodTokenKept | |
| `ConsoleTypeCorrect` (AdminConsoleProofs) | ConsoleSpec ⇒ □ConsoleTypeOK | |
| `SpinnerCounts` (AdminConsoleProofs) | ConsoleSpec ⇒ □SpinnerMatchesRequests | |
| `NotificationKept` (AdminConsoleProofs) | ConsoleSpec ⇒ □TimeoutOfShown | |
| `HeaderSafe` (AdminConsoleProofs) | ConsoleSpec ⇒ HeaderHasToken | |
| `AdapterSafeInConsole` (AdminConsoleProofs) | ConsoleSpec ⇒ □(QueuesMatchRequests ∧ RejectedMeansNoToken) | |

The further assumptions are needed: TLC finds counterexamples without them (with
`EarlierReads` and `RepeatableRead`; with `MayError`, because
an Error skips the rest of the loop and `completed` is already set; with `HandlerRestarts`,
because only main participants are begun again). `NobodyRefuses` holds with Errors.
Each inductive invariant was checked with TLC before it was proved.

**StaleHitsArePending.** The property is not inductive: it says nothing of the
versions sessions hold and have yet to add. The invariant `IInv` has these parts:

- `NothingPendingYet`: a transaction that has not ended has committed nothing and has
  nothing to invalidate;
- `Bounds`: revisions, start-up revisions and versions do not exceed the counters and
  the database they come from;
- `RevisionIsTop`: without a `gap`, a revision that is recorded is at least the highest one ever
  recorded – eviction may forget it, nothing may lower it;
- `ReadersSafe`: if a version that a session may still add is outdated, then its
  invalidation is pending, or a revision above the session's start-up revision
  is, or will be, recorded for the key, so that the check under the lock rejects it;
- `EntriesSafe`: an outdated entry in the cache is pending invalidation, falls under
  `gap`, or carries a revision below `top`, so that `get` does not return it.

`ReadersSafe` is where the start-up revision is needed: an evicted revision is replaced
by the counter in `getCurrentRevision`, which alone would accept an old
snapshot. The proof goes through the steps that change what is pending (`EndFrame`,
`SafeStays`), what a session holds (`AddingStep`, `SnapshotStep`) and what is cached
(`EntryStep`, `OldEntrySafe`).

**TaskExclusion.** With failing operations it is not true that a call that runs the task
owns the lock. `Inv` counts those for whom it is not (`Debtors`: calls that run or have yet to
remove an entry that is not theirs, and the coordinator about to remove an entry that is no
longer that of a node that left) and says that there are at most `repeated` of them. A removal
that is repeated adds its call to them and one to `repeated`; a debtor that takes somebody else's
entry away makes that one a debtor and stops being one (`CoveredSwap`). All callers that
run, but one, are debtors.

**AfterCompletionIsSafe, SuccessIsComplete.** `Progress` describes each loop: the
participants before position `i` have committed unless an exception was collected,
later lists have not been called, and before `completed` is set nobody has. `ListsOK`
(participants are enlisted once) makes the positions meaningful. The lemmas
`CommitNextStep` and `RollbackNextStep` say what one call of a participant changes; the
others take the loops, their exits, the entry points and the handler one by one.

**Refinement.** A transaction publishes an entity; the store's change is atomic only if that
entity shows every committed change. The invariant `Inv` has these parts:

- `SameCommitted`: as long as the version a transaction has read is the current one, its entity
  and the cached one show the same committed changes (`Seen`). This is what the versioned replace
  relies on, and it is not obvious on the owner, where the two are often one object, and
  for a copy, which is made with the version;
- `CacheSettled`, `OwnOrSettled`: the entry's entity and version were published by a transaction
  that has ended, and a running one works on its own entity or on a published one. So no
  running transaction changes another one's copy, and no version is seen twice;
- `UpdatesRun`: the updates (`Due`: before the commit all, then those of the merged update) have been
  run on the entity that is going to be published;
- `NewEntity`: an entity made for `putIfAbsent` has seen no updates but its creator's, so creating
  the session shows nothing else.

`LoadKeepsInv`, `AddTaskKeepsInv`, `AddNewEntityKeepsInv`, `QuietKeepsInv` and `PublishKeepsInv` take
the kinds of steps; `CollectSimulates`, `CommitSimulates`, `ReplaceSimulates` and
`ExpirySimulates` name the step of the store each of them is, or show that it is a stutter.

**DropNeedsRaces.** `AllPaid` keeps accounts: every attempt of a transaction that has failed, and
its next one if the version it has read is no longer the current one, is paid for by an entry
that another transaction has put (`Races`, the size of the finite set `Published`).
`FirstIsNew` (the task of a new entity comes first) shows that a transaction whose merged operation is
`REPLACE` works with a version it has read.

**RepeatedOnlyAfterRaces.** The bound alone is not inductive: between a failed replace and the next
read the race is lost and nothing has been run again, so `Bound` is stricter there. `RunsOf` adds that a task
that is still to come has been run nowhere, and that the updates of a transaction which works on a new entity or on
a copy (`Private`) are on that entity only; otherwise a retry could find them again on the
entity that it reads. `Inv` provides that nobody publishes another one's copy.

**CachedRowsAreCommitted.** `RowsInv` says of every place a version passes through on its way to the
cache (what a session has loaded, its snapshot, the entry) that it does not exceed the database
and, where it may be cached, that it is that of a row. Nothing is assumed of the isolation level.

**NobodyRefuses, NobodyIsLeftOpen, RollbackOnlyIsSafe.** On top of `IInv`:

- `OpenInv`: the participants at and behind position `i` of the loop at hand, and those of the loops
  to come, are begun and not ended; before `completed` is set all are;
- `ToldInv`: those before `i`, and those of the loops that are over, know the outcome, and a session
  is closed only when `completed` is set or `closeSession` has rolled back;
- `HonourInv`: a commit that the filter or a job starts finds `rollbackOnly` false, and nobody
  can set it while the loops run.

**NoEventLost, CountsAreExact, LockoutNotSteppedOver.** EachEventOnce is not inductive and
CountAccurate says nothing of a transaction under way. The invariant `IInv` has these parts:

- `Once`, `Placed`: the queue and the list have no event in common and none twice, a login that was
  offered is in one of them or released, and its transaction has ended exactly when it is
  released or about to be;
- `QueueOrder`, `ListOrder`: logins whose transaction has ended come before those in the list, these
  before those in the queue, and a user's logins are in the list in the order of their
  numbers. The sort and the left-over batches must keep this; it is what makes "since the last
  success" mean the same to the loop and to the property;
- `TxInv`, `DoneInv`: outside of the loop there is no transaction; the events in effect are among those that have
  ended or that the loop has passed (`Passed`), and a failure that was committed or passed
  is in effect and has a record, in the cache or made by the transaction. So a rollback, which
  forgets the records it has made, forgets no event that was committed;
- `CountInv`: the records count the events in effect. `CountsApply` takes one event: it adds one (`CountFailure`), empties
  (`CountSuccess`) or starts anew (`CountCleared`), and leaves other users alone (`CountOther`);
- `LockInv`: a user at or above the factor is disabled in the worker's view, or `missed`. It is inductive since
  failures grow by one and a success, which sets them to zero, does not enable the user.

For these proofs the sort is a permutation and the loop takes one event per step: what a
recursive sort or a fold over the batch computes for every batch could not be proved.

**QueuesInStep, RejectedHoldsNoToken, GoodTokenSafe.** `JsInv` has these parts:

- `QueueInv`: QueuesMatchRequests, init's own call never waits for the iframe, and the iframe keeps the
  message it asks the server about;
- `PhaseInv`: the order in which `init` goes through configuration, iframe and code exchange;
- `TokenInv`, `RefreshInv`: tokens and `kc.sessionId` are of the session the page was opened with, and a
  refresh request is for the token at hand, or was sent when there was none and is not granted;
- `AnswerInv`: a question about no session is asked once, before the iframe knows one, and the
  answer `changed` means that the browser has left the session for good. GoodTokenKept rests on
  this;
- `RejectInv`: until `init` has succeeded, a page with a login in the flows that RejectedMeansNoToken is about
  (`Checked`) has no token and no refresh request with one: in the implicit flow there is no refresh
  token, and with the iframe `updateToken` asks it first.

**SpinnerCounts, HeaderSafe.** The count is an integer: it is negative after uncounted requests. A step of the console is a step of the adapter or changes the page only
(`ConsoleStepOfAdapter`), so `JsInv` carries over. `AskingInv` (a request waits only for an `updateToken` that has
not succeeded) makes the interceptor's callback run once per request, with a token.

**Model-checked only.** Liveness under fairness (StaleEventuallyGone, WaitersReleased,
LockEventuallyReleased, CallsReturn, LoginsReleased, ShutdownEnds, CallsSettle, InitSettles,
SessionEndNoticed, RequestsEnd) is out of the prover's reach. Every invariant and every action
property that a passing run checks is stated by a theorem.

## What the checks show about the code

Two runs find a behaviour that contradicts a document or comment of the repository
(quoted in `PROJECT.json`):

- `rc_record_race`: `addRevisioned` reads a missing revision and the counter and
  puts the result (`CacheManager:141-145`) before it takes the lock. A bump between
  the two is overwritten and an old object stays in the cache.
- `ct_node_left`: every removal of the lock is taken for success
  (`InfinispanNotificationsManager:192`), also when the node that ran the task has left.

More show up when a constant of a passing run, or the property, is changed:

- `UserCacheSession` takes its start-up revision when `users()` is first called, which under
  repeatable read may be after the snapshot: StaleOnlyWhilePending fails with
  `EarlierReads = TRUE` and `RepeatableRead = TRUE`.
- A retried `remove` removes the next caller's lock (`InfinispanClusterProvider:163`), and the
  task runs twice at a time, with a replicated cache, too: MutualExclusion without `+ repeated`
  fails with `MayFail = TRUE` and `Attempts = 2`.
- `DefaultKeycloakTransactionManager:119` sets `completed` first and catches
  `RuntimeException` only; after an `Error` the roll-back of `closeSession` returns at once:
  NoneLeftOpen fails with `MayError = TRUE`.
- In the hybrid flow the code is exchanged although the fragment's tokens had a wrong nonce
  (`keycloak.js:562-566`): RejectedMeansNoToken without its exception for that flow fails, init
  has failed and a token is set later.
- In the standard flow without the iframe, tokens that are expired on arrival call `onTokenExpired`
  before their nonce is compared (`keycloak.js:603-605`, `:821`). If it calls `updateToken`, the refresh token
  is sent, and its answer stores tokens after `init` has failed for a wrong nonce (`:476`).
- A failed batch of the brute force protector that has reached the factor keeps the count on a
  cached record and takes `setEnabled(false)` back; the next failure is counted past the `==`
  (`DefaultBruteForceProtector:128`) and the user is never locked, though the console's tooltip says
  "Lock the user permanently when the user exceeds the maximum login failures.": LockedAtFactor
  without `missed` fails. So does lowering the factor, or turning the permanent lockout on, below
  a count that has been reached. Nobody tries a failed batch again.
- The admin console's spinner misses a request for every request with a `transformRequest` of its own that
  was answered before on the page (`services.js:359`, `:1870`, `:1881`), and for good:
  SpinnerMatchesRequests without `uncounted` fails with `MaxQuiet` above 0.

Seen while modelling:

- `InfinispanClusterProviderFactory:141-145` gives the lock a lifespan only when there is no
  timeout, so that an outdated task is never superseded, as `ClusterProvider:43` says it is.
- On the owner of an entry, updates are run on the cached object before commit and stay there
  after a rollback (the TODO at `InfinispanChangelogBasedTransaction:73` says so); the next
  transaction that publishes the entity publishes them, too.
- When an adapter obtained before the removal changes a session after it, `MergedUpdate:73-76`
  takes the operation of the later task and the removal is lost.
- On the owner a retry runs the updates again on the shared entity that may show them already: an increment
  counts twice (RunOncePerRace says how often).
- A `REMOVE` that is followed by several updates keeps only the first of them for a retry (`MergedUpdate:76`).
- With workers on several nodes two failures of a user may be counted before either is compared with the
  factor, and an administrator who enables a user (`UserResource:163`) or clears the failures
  (`AttackDetectionResource:134`) in between adds more cases. A factor of 0 makes the worker divide by zero
  (`DefaultBruteForceProtector:153`) in every batch.
- With a provider that has no session iframe `checkSessionIframe()` throws (`keycloak.js:1087`, from `:673`), and
  `init` stays pending: InitSettles is about configurations that have one, or do not use it.
- `getUserByUsername` caches the user with the revision it has read for the key of the query
  (`UserCacheSession:252-287`), not for the user's own.
- A `check` that finds no token is the last one (`keycloak.js:1123`). If a code exchange takes
  longer than the interval, the page has a token afterwards and does not notice a logout until
  something calls `updateToken`.
- A refresh that is granted after `clearToken` sets the tokens again (`keycloak.js:476`).
- A response with status 200 that is not JSON throws before `refreshQueue` is emptied
  (`keycloak.js:474`), and every later call waits for ever. The model assumes well-formed
  responses.
- `refreshPermissions` is called without an error callback (`app.js:83`): if `whoami` fails, the
  console stays blank.
- Two bumps of a key may be put in the opposite order (`CacheManager:128-129`). This is
  the second case of `gap`.
- A wait that times out leaves its callback registered; a later asynchronous call on the
  node is given the completed future (`InfinispanClusterProvider:108`).
- The coordinator's `taskFinished(key, false)` also releases a callback of a call that has not
  yet tried the lock (factory, line 233): it may run the task and report failure.
- If the coordinator leaves between the view change and the removal, the next one looks
  only for the nodes of the later change, and the lock stays (factory, line 191).
- A `putIfAbsent` that took effect and threw is retried, meets its own lock, and gives up
  without removing it.
- `begin()` resets neither the lists nor `rollback`; after a second `begin()` finished prepare and
  afterCompletion participants are asked again. NeverRefused is therefore claimed for
  sessions without a second `begin()` only.
- The conditionals of `DefaultKeycloakTransactionManager:184` and `:191` keep a later exception
  only when there was one before: an exception in a plain rollback is dropped.
- `begin()` in the servlet filter (line 87) is outside its `try`.

## Not modelled

- Of the invalidation cache: the search for dependent keys (`addInvalidations` with a
  predicate), a query answered from the entities it names, an entity cached with the revision of
  a query's key (`getUserByUsername`), the invalidation
  before commit in `evictRealmOnRemoval`, an exception in the middle of `runInvalidations`, a
  node that stops between commit and event.
- Of the cluster provider: `notify()` and the filters of events by sender and
  site, the cluster start-up time. Detection of failures and agreement on views are
  JGroups', replication and locking of cache entries are Infinispan's; they are
  modelled from how the code uses them.
- Of the transaction manager: `JtaTransactionWrapper` (one more main participant, enlisted
  again by every `begin()`), suspended JTA transactions, asynchronous requests.
- Of the session caches: `reloadEntityInCurrentTransaction` and the message to another site
  (`RemoteCacheInvoker`), and transactions over several sessions, which commit one by one.
- Of the brute force protector: several nodes, administrators who enable users or clear failures, an `Error`
  that ends the worker (it catches `Exception` only), a factor of 0.
- Of the adapter: Cordova, legacy promises, callback parsing and storage, user profile and
  user info, `initOptions.timeSkew`, a provider without a session iframe. Of the console: routes, controllers, loaders and directives, which
  are forms over REST resources; requests for templates, which `authInterceptor` lets pass without a token.
- Hazards known but without a property, next to those in `PROJECT.json`: an exception in the
  middle of `runInvalidations` (`RealmCacheSession:274`); related keys that are being loaded while
  they are searched (`CacheManager:187`); a transaction over several sessions that fails
  half-way (`InfinispanChangelogBasedTransaction:148`).
- Vendored libraries. The repository carries many copies of Angular and other JavaScript
  libraries in examples, themes and test applications (about half a million lines). They
  are not Keycloak's code; the share of *all* JavaScript lines that the models cover
  is small for that reason. Keycloak's own logic in JavaScript is the adapter, the iframe and the
  console; its server is written in Java.
- Everything listed as `not_modelled` in `PROJECT.json`, with the reason.

## Plan

In order of what matters most next:

1. `SessionReplication`: two sites composed of SessionChangelog instances, remote cache and
   listeners; convergence once updates stop.
2. `SingleUse` and `RefreshToken`: a code or token is redeemed at most once (or at
   most as often as configured) under concurrent requests; on top of SessionStore.
3. `CacheInitializer`: segments handed out by the coordinator, workers that fail, the
   coordinator leaving; the database lock.
4. `AuthenticationFlow` and decision strategies of policies as pure operators, checked
   against reference definitions.
5. Extensions of the present modules: dependent keys and failing invalidations in
   RevisionCache; notification events in ClusterTask, so that RevisionCache's events
   can be composed with them.

Theorems worth proving next: GoodTokenKept in the console; abstract specifications of the cluster task (a lock with an
owner) and of the brute force protector (one counter per user, changed at once), with the refinement
proved; the safety properties of the modules above as they are written.

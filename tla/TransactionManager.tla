------------------------- MODULE TransactionManager -------------------------
(***************************************************************************)
(* The transaction of a KeycloakSession: DefaultKeycloakTransactionManager *)
(* with its three lists of participants, and the code that drives it - the *)
(* servlet filter and response filter of a request, runJobInTransaction,   *)
(* or the runner of scheduled tasks.                                       *)
(*                                                                         *)
(* Main participants (the database) are committed one after the other, and *)
(* participants on the afterCompletion list (cache invalidations, session  *)
(* caches, cluster events) only when all of them have been.  A participant *)
(* may answer a call with a RuntimeException, which the manager collects,  *)
(* or with an Error, which it does not catch.                              *)
(*                                                                         *)
(* Prepare and afterCompletion participants follow the state machine of    *)
(* AbstractKeycloakTransaction, main ones that of a JPA transaction, which *)
(* can be begun again.  One session is modelled, run by one thread.        *)
(***************************************************************************)
EXTENDS Naturals, Sequences

CONSTANTS
  Participants,     \* participants that may be enlisted
  Drivers,          \* who may run the session
  MayError,         \* the handler or a participant may throw an Error
  HandlerCommits,   \* the handler may commit itself, as the admin resources do
  HandlerRestarts   \* it may begin anew, as IdentityBrokerService does

ASSUME TransactionManagerAssumption ==
  /\ Drivers \subseteq {"request", "job", "scheduled"}
  /\ MayError \in BOOLEAN
  /\ HandlerCommits \in BOOLEAN
  /\ HandlerRestarts \in BOOLEAN

VARIABLES
  driver,           \* who runs the session: the filters of a request,
                    \* runJobInTransaction or the scheduled task runner
  prepare,          \* the three lists
  transactions,
  afterCompletion,
  active,
  completed,
  rollbackOnly,     \* the field rollback
  state,            \* state of a participant
  fate,             \* history: its answer in the current transaction
  refused,          \* history: one was asked to end when it had not begun
  pc,
  i,                \* position in the list being worked on
  exception,        \* an exception has been collected
  result,           \* how the last commit, rollback or handler ended
  back              \* who has called commit or rollback

setup == <<driver, prepare, transactions, afterCompletion>>
flags == <<active, completed, rollbackOnly>>
parties == <<state, fate, refused>>
control == <<pc, i, exception, result, back>>
vars == <<setup, flags, parties, control>>

Elements(s) == {s[k] : k \in 1 .. Len(s)}

Enlisted ==
  Elements(prepare) \cup Elements(transactions) \cup Elements(afterCompletion)

---------------------------------------------------------------------------
Phases == {"new", "handler", "prepare", "commit", "complete", "abort", "undo",
           "undoAfter", "closing", "closed"}

\* While participants are asked, completed keeps a further commit() or
\* rollback() from asking them again; the handler runs in a transaction that
\* is active, or in none that could still be ended.
FlagsOK ==
  /\ pc \in {"prepare", "commit", "complete", "abort", "undo", "undoAfter"} =>
       completed
  /\ pc = "handler" => ~(active /\ completed)

TypeOK ==
  /\ driver \in Drivers
  /\ prepare \in Seq(Participants)
  /\ transactions \in Seq(Participants)
  /\ afterCompletion \in Seq(Participants)
  /\ active \in BOOLEAN
  /\ completed \in BOOLEAN
  /\ rollbackOnly \in BOOLEAN
  /\ state \in [Participants ->
                  {"NOT_STARTED", "STARTED", "ROLLBACK_ONLY", "FINISHED"}]
  /\ fate \in [Participants -> {"none", "committed", "rolledBack", "failed"}]
  /\ refused \in BOOLEAN
  /\ pc \in Phases
  /\ i \in Nat \ {0}
  /\ FlagsOK
  /\ exception \in BOOLEAN
  /\ result \in {"none", "committed", "rolledBack", "exception", "error"}
  /\ back \in {"handler", "filter", "close"}

Init ==
  /\ driver \in Drivers
  /\ prepare = <<>>
  /\ transactions = <<>>
  /\ afterCompletion = <<>>
  /\ active = FALSE
  /\ completed = FALSE
  /\ rollbackOnly = FALSE
  /\ state = [p \in Participants |-> "NOT_STARTED"]
  /\ fate = [p \in Participants |-> "none"]
  /\ refused = FALSE
  /\ pc = "new"
  /\ i = 1
  /\ exception = FALSE
  /\ result = "none"
  /\ back = "handler"

---------------------------------------------------------------------------
(* Calls of a participant. *)

Open(p) == state[p] \in {"STARTED", "ROLLBACK_ONLY"}

Answers(accepted) ==
  (IF accepted THEN {"ok"} ELSE {}) \cup {"exception"}
    \cup (IF MayError THEN {"error"} ELSE {})

\* A failed commit ends a database transaction; other participants are left
\* as they were.
CommitOne(p, answer) ==
  /\ state' = [state EXCEPT ![p] =
                 IF answer = "ok" THEN "FINISHED"
                 ELSE IF p \in Elements(transactions) /\ Open(p)
                 THEN "FINISHED" ELSE @]
  /\ fate' = [fate EXCEPT ![p] =
                IF answer = "ok" THEN "committed" ELSE "failed"]
  /\ refused' = (refused \/ ~Open(p))

RollbackOne(p, answer) ==
  /\ state' = [state EXCEPT ![p] = IF answer = "ok" THEN "FINISHED" ELSE @]
  /\ fate' = [fate EXCEPT ![p] =
                IF answer = "ok" THEN "rolledBack" ELSE "failed"]
  /\ refused' = (refused \/ ~Open(p))

\* commit() or rollback() of the manager ends and its caller goes on.  A
\* handler deals with an exception or throws it on, but not with an Error.
Return(r) ==
  /\ result' = r
  /\ i' = 1
  /\ pc' = CASE back = "handler" /\ r # "error" -> "handler"
             [] back = "close" -> "closed"
             [] OTHER -> "closing"
  /\ UNCHANGED back

\* The next participant of a list; an Error leaves the manager at once.
Advance(answer) ==
  IF answer = "error"
  THEN Return("error")
  ELSE /\ i' = i + 1
       /\ UNCHANGED <<pc, result, back>>

CommitNext(phase, list) ==
  /\ pc = phase
  /\ i <= Len(list)
  /\ \E answer \in Answers(state[list[i]] = "STARTED") :
       /\ CommitOne(list[i], answer)
       /\ Advance(answer)
       /\ exception' = (exception \/ answer = "exception")
  /\ UNCHANGED <<setup, flags>>

\* While participants are rolled back, a collected exception may be replaced
\* by a later one, but none is collected.
RollbackNext(phase, list) ==
  /\ pc = phase
  /\ i <= Len(list)
  /\ \E answer \in Answers(Open(list[i])) :
       /\ RollbackOne(list[i], answer)
       /\ Advance(answer)
  /\ UNCHANGED <<setup, flags, exception>>

GoTo(phase) ==
  /\ pc' = phase
  /\ i' = 1
  /\ UNCHANGED <<result, back>>

---------------------------------------------------------------------------
(* commit() *)

CommitPrepare == CommitNext("prepare", prepare)

PrepareDone ==
  /\ pc = "prepare"
  /\ i > Len(prepare)
  /\ GoTo(IF exception THEN "undo" ELSE "commit")
  /\ UNCHANGED <<setup, flags, parties, exception>>

CommitTransactions == CommitNext("commit", transactions)

\* Mutant: the afterCompletion participants are committed in any case.
CommitDoneRegardless ==
  /\ pc = "commit"
  /\ i > Len(transactions)
  /\ GoTo("complete")
  /\ UNCHANGED <<setup, flags, parties, exception>>

\* "Don't commit afterCompletion if commit of some main transaction failed"
CommitDone ==
  /\ pc = "commit"
  /\ i > Len(transactions)
  /\ GoTo(IF exception THEN "abort" ELSE "complete")
  /\ UNCHANGED <<setup, flags, parties, exception>>

CommitAfterCompletion == CommitNext("complete", afterCompletion)

RollbackAfterFailedCommit == RollbackNext("abort", afterCompletion)

\* Mutant: the exception is forgotten.
CommitReturnsNormally ==
  /\ pc \in {"complete", "abort"}
  /\ i > Len(afterCompletion)
  /\ active' = FALSE
  /\ Return(IF pc = "complete" THEN "committed" ELSE "exception")
  /\ UNCHANGED <<setup, completed, rollbackOnly, parties, exception>>

CommitReturns ==
  /\ pc \in {"complete", "abort"}
  /\ i > Len(afterCompletion)
  /\ active' = FALSE
  /\ Return(IF exception THEN "exception" ELSE "committed")
  /\ UNCHANGED <<setup, completed, rollbackOnly, parties, exception>>

---------------------------------------------------------------------------
(* rollback(exception) *)

RollbackTransactions == RollbackNext("undo", transactions)

\* Mutant: only the main participants are rolled back.
UndoDoneAtOnce ==
  /\ pc = "undo"
  /\ i > Len(transactions)
  /\ active' = FALSE
  /\ Return("rolledBack")
  /\ UNCHANGED <<setup, completed, rollbackOnly, parties, exception>>

UndoDone ==
  /\ pc = "undo"
  /\ i > Len(transactions)
  /\ GoTo("undoAfter")
  /\ UNCHANGED <<setup, flags, parties, exception>>

RollbackAfterCompletion == RollbackNext("undoAfter", afterCompletion)

\* An exception of rollback() itself is not passed on; the one that made
\* commit() roll back is, or the one that has replaced it.
RollbackReturns ==
  /\ pc = "undoAfter"
  /\ i > Len(afterCompletion)
  /\ active' = FALSE
  /\ Return(IF exception THEN "exception" ELSE "rolledBack")
  /\ UNCHANGED <<setup, completed, rollbackOnly, parties, exception>>

---------------------------------------------------------------------------
(* The two entry points. *)

\* Mutant: nothing prevents a second commit or rollback.
StartUnguarded(phase, caller) ==
  /\ back' = caller
  /\ i' = 1
  /\ exception' = FALSE
  /\ completed' = TRUE
  /\ pc' = phase
  /\ UNCHANGED result

Start(phase, caller) ==
  /\ back' = caller
  /\ i' = 1
  /\ exception' = FALSE
  /\ IF completed
     THEN /\ pc' = CASE caller = "handler" -> "handler"
                     [] caller = "close" -> "closed"
                     [] OTHER -> "closing"
          /\ UNCHANGED <<completed, result>>
     ELSE /\ completed' = TRUE
          /\ pc' = phase
          /\ UNCHANGED result

Commit(caller) == Start("prepare", caller)

Rollback(caller) == Start("undo", caller)

\* getRollbackOnly()
GetRollbackOnly ==
  \/ rollbackOnly
  \/ \E p \in Elements(transactions) : state[p] = "ROLLBACK_ONLY"

---------------------------------------------------------------------------
(* The handler: begin(), enlist...(), setRollbackOnly(). *)

Begin ==
  /\ pc = "new"
  /\ active' = TRUE
  /\ completed' = FALSE
  /\ pc' = "handler"
  /\ UNCHANGED <<setup, rollbackOnly, parties, i, exception, result, back>>

\* A participant is begun only when the manager is active.
Enlist(p) ==
  /\ pc = "handler"
  /\ p \notin Enlisted
  /\ \/ /\ prepare' = Append(prepare, p)
        /\ UNCHANGED <<transactions, afterCompletion>>
     \/ /\ transactions' = Append(transactions, p)
        /\ UNCHANGED <<prepare, afterCompletion>>
     \/ /\ afterCompletion' = Append(afterCompletion, p)
        /\ UNCHANGED <<prepare, transactions>>
  /\ state' = [state EXCEPT ![p] = IF active THEN "STARTED" ELSE @]
  /\ UNCHANGED <<driver, flags, fate, refused, control>>

\* The database marks its own transaction after a failed statement.
MarkRollbackOnly(p) ==
  /\ pc = "handler"
  /\ p \in Elements(transactions)
  /\ state[p] = "STARTED"
  /\ state' = [state EXCEPT ![p] = "ROLLBACK_ONLY"]
  /\ UNCHANGED <<setup, flags, fate, refused, control>>

SetRollbackOnly ==
  /\ pc = "handler"
  /\ rollbackOnly' = TRUE
  /\ UNCHANGED <<setup, active, completed, parties, control>>

HandlerCommit ==
  /\ HandlerCommits
  /\ pc = "handler"
  /\ active
  /\ Commit("handler")
  /\ UNCHANGED <<setup, active, rollbackOnly, parties>>

\* Mutant: a second begin() does not reset completed.
BeginAgainCompleted(k) ==
  /\ state' = [p \in Participants |->
                 IF \E j \in 1 .. k : transactions[j] = p
                 THEN "STARTED" ELSE state[p]]
  /\ fate' = [p \in Participants |-> "none"]
  /\ UNCHANGED <<setup, completed, rollbackOnly, refused, pc, i, exception, back>>

\* A second begin(): the participants are still enlisted, and only the main
\* ones, up to position k, are begun again.
BeginAgain(k) ==
  /\ completed' = FALSE
  /\ state' = [p \in Participants |->
                 IF \E j \in 1 .. k : transactions[j] = p
                 THEN "STARTED" ELSE state[p]]
  /\ fate' = [p \in Participants |-> "none"]
  /\ UNCHANGED <<setup, rollbackOnly, refused, pc, i, exception, back>>

HandlerRestart ==
  /\ HandlerRestarts
  /\ pc = "handler"
  /\ ~active
  /\ \A p \in Elements(transactions) : ~Open(p)
  /\ BeginAgain(Len(transactions))
  /\ active' = TRUE
  /\ result' = "none"

\* begin() throws at a main participant whose rollback had failed; those
\* before it have been begun.
HandlerRestartFails ==
  /\ HandlerRestarts
  /\ pc = "handler"
  /\ ~active
  /\ \E k \in 1 .. Len(transactions) :
       /\ Open(transactions[k])
       /\ \A j \in 1 .. k - 1 : ~Open(transactions[j])
       /\ BeginAgain(k - 1)
  /\ result' = "exception"
  /\ UNCHANGED active

\* Mutant: the filter does not look for rollback-only.
HandlerReturnsCommitting ==
  /\ pc = "handler"
  /\ Commit("filter")
  /\ UNCHANGED <<setup, active, rollbackOnly, parties>>

\* The handler returns: KeycloakTransactionCommitter, the end of
\* runJobInTransaction, or of ScheduledTaskRunner.runTask.
HandlerReturns ==
  /\ pc = "handler"
  /\ IF driver = "scheduled" \/ (active /\ ~GetRollbackOnly)
     THEN Commit("filter")
     ELSE IF active
     THEN Rollback("filter")
     ELSE /\ GoTo("closing")
          /\ UNCHANGED <<completed, exception>>
  /\ UNCHANGED <<setup, active, rollbackOnly, parties>>

HandlerThrows(r) ==
  /\ pc = "handler"
  /\ pc' = "closing"
  /\ result' = r
  /\ UNCHANGED <<setup, flags, parties, i, exception, back>>

\* KeycloakErrorHandler turns the exception into a response, which passes
\* KeycloakTransactionCommitter.
HandlerThrowsMapped ==
  /\ driver = "request"
  /\ pc = "handler"
  /\ rollbackOnly' = TRUE
  /\ IF active
     THEN Rollback("filter")
     ELSE /\ GoTo("closing")
          /\ UNCHANGED <<completed, exception>>
  /\ UNCHANGED <<setup, active, parties>>

\* closeSession() of the servlet filter, or the catch and finally clauses of
\* the others.
MustRollback ==
  \/ driver = "request" /\ active
  \/ driver = "job" /\ active /\ result = "exception"
  \/ driver = "scheduled" /\ result \in {"exception", "error"}

Close ==
  /\ pc = "closing"
  /\ IF MustRollback
     THEN Rollback("close")
     ELSE /\ GoTo("closed")
          /\ UNCHANGED <<completed, exception>>
  /\ UNCHANGED <<setup, active, rollbackOnly, parties>>

---------------------------------------------------------------------------
Handler ==
  \/ Begin
  \/ \E p \in Participants : Enlist(p) \/ MarkRollbackOnly(p)
  \/ SetRollbackOnly
  \/ HandlerCommit
  \/ HandlerRestart
  \/ HandlerRestartFails
  \/ HandlerReturns
  \/ \E r \in {"exception"} \cup (IF MayError THEN {"error"} ELSE {}) :
       HandlerThrows(r)
  \/ HandlerThrowsMapped

Manager ==
  \/ CommitPrepare
  \/ PrepareDone
  \/ CommitTransactions
  \/ CommitDone
  \/ CommitAfterCompletion
  \/ RollbackAfterFailedCommit
  \/ CommitReturns
  \/ RollbackTransactions
  \/ UndoDone
  \/ RollbackAfterCompletion
  \/ RollbackReturns

Next ==
  \/ Handler
  \/ Manager
  \/ Close

Spec == Init /\ [][Next]_vars

---------------------------------------------------------------------------
(* What the session promises. *)

\* Nobody outside is told of a transaction the database has not committed:
\* while a participant on the afterCompletion list has committed, or tried
\* to, every prepare and every main participant has committed.
AfterOnlyIfMainCommitted ==
  pc = "complete" \/ (\E p \in Elements(afterCompletion) : fate[p] = "committed")
    => \A p \in Elements(prepare) \cup Elements(transactions) :
         state[p] # "NOT_STARTED" => fate[p] = "committed"

\* No participant is asked to commit or to roll back unless it has been begun
\* and not ended, whatever calls of commit and rollback an exception or an
\* Error leads to.
NeverRefused == ~refused

\* A session is not closed before every participant that has begun knows the
\* outcome (prepare participants are told only of a commit).
NoneLeftOpen ==
  pc = "closed" =>
    \A p \in Elements(transactions) \cup Elements(afterCompletion) :
      state[p] # "NOT_STARTED" => fate[p] # "none"

\* commit() returns normally only if every participant has committed.
SuccessMeansCommitted ==
  result = "committed" =>
    \A p \in Enlisted : state[p] # "NOT_STARTED" => fate[p] = "committed"

\* A transaction marked for rollback commits no main participant, unless the
\* handler itself has called commit() - and except for a scheduled task,
\* whose runner does not ask.
RollbackOnlyHonoured ==
  rollbackOnly /\ back # "handler" /\ driver # "scheduled" =>
    \A p \in Elements(transactions) : fate[p] # "committed"

=============================================================================

---------------------- MODULE TransactionManagerProofs ----------------------
(***************************************************************************)
(* The order of completion of a KeycloakSession's transaction, for any     *)
(* number of participants and any driver.                                  *)
(***************************************************************************)
EXTENDS TransactionManager, TLAPS

\* A participant is enlisted once.
Distinct(s) == \A j, k \in 1 .. Len(s) : s[j] = s[k] => j = k

ListsOK ==
  /\ prepare \in Seq(Participants)
  /\ transactions \in Seq(Participants)
  /\ afterCompletion \in Seq(Participants)
  /\ Distinct(prepare) /\ Distinct(transactions) /\ Distinct(afterCompletion)
  /\ Elements(prepare) \cap Elements(transactions) = {}
  /\ Elements(prepare) \cap Elements(afterCompletion) = {}
  /\ Elements(transactions) \cap Elements(afterCompletion) = {}

PartiesOK ==
  /\ state \in [Participants ->
                  {"NOT_STARTED", "STARTED", "ROLLBACK_ONLY", "FINISHED"}]
  /\ fate \in [Participants -> {"none", "committed", "rolledBack", "failed"}]
  /\ i \in Nat \ {0}
  /\ \A p \in Participants :
       p \notin Enlisted => state[p] = "NOT_STARTED" /\ fate[p] = "none"

AllCommitted(s) == \A p \in Elements(s) : fate[p] = "committed"

Untold(s) == \A p \in Elements(s) : fate[p] = "none"

\* The participants before position i have committed, or an exception has
\* been collected.
CommittedSoFar(s) ==
  exception \/ \A k \in 1 .. Len(s) : k < i => fate[s[k]] = "committed"

\* What is known in every phase of commit() and rollback().
Progress ==
  /\ pc \in Phases
  /\ ~completed => /\ pc \in {"new", "handler", "closing", "closed"}
                   /\ \A p \in Participants : fate[p] = "none"
  /\ pc = "new" => ~completed
  /\ pc = "handler" /\ completed => ~active
  /\ pc = "prepare" => /\ CommittedSoFar(prepare)
                       /\ Untold(transactions)
                       /\ Untold(afterCompletion)
  /\ pc = "commit" => /\ AllCommitted(prepare)
                      /\ CommittedSoFar(transactions)
                      /\ Untold(afterCompletion)
  /\ pc = "complete" => /\ AllCommitted(prepare)
                        /\ AllCommitted(transactions)
                        /\ CommittedSoFar(afterCompletion)
  /\ pc = "abort" => exception
  /\ pc \in {"abort", "undo", "undoAfter"} =>
       \A p \in Elements(afterCompletion) : fate[p] # "committed"
  /\ result = "committed" =>
       completed /\ pc \in {"handler", "closing", "closed"}

IInv ==
  /\ ListsOK
  /\ PartiesOK
  /\ Progress
  /\ AfterOnlyIfMainCommitted
  /\ SuccessMeansCommitted

\* The elements of a list of participants are participants.
LEMMA ElementsIn ==
  ASSUME NEW S, NEW s \in Seq(S)
  PROVE  /\ Elements(s) \subseteq S
         /\ \A k \in 1 .. Len(s) : s[k] \in Elements(s) /\ s[k] \in S
  BY DEF Elements

\* Enlisting adds one element.
LEMMA ElementsAppend ==
  ASSUME NEW S, NEW s \in Seq(S), NEW e \in S
  PROVE  Elements(Append(s, e)) = Elements(s) \cup {e}
<1>1. Len(Append(s, e)) = Len(s) + 1 /\ Len(s) \in Nat
  OBVIOUS
<1>2. \A k \in 1 .. Len(s) : Append(s, e)[k] = s[k]
  OBVIOUS
<1>3. Append(s, e)[Len(s) + 1] = e
  OBVIOUS
<1>4. 1 .. Len(s) + 1 = (1 .. Len(s)) \cup {Len(s) + 1}
  BY <1>1
<1>. QED
  BY <1>1, <1>2, <1>3, <1>4 DEF Elements

\* Enlisting a participant not yet on the list keeps its elements distinct.
LEMMA DistinctAppend ==
  ASSUME NEW S, NEW s \in Seq(S), NEW e \in S, Distinct(s), e \notin Elements(s)
  PROVE  Distinct(Append(s, e))
<1>1. Len(Append(s, e)) = Len(s) + 1 /\ Len(s) \in Nat
  OBVIOUS
<1>2. \A k \in 1 .. Len(s) : Append(s, e)[k] = s[k] /\ s[k] # e
  BY DEF Elements
<1>3. Append(s, e)[Len(s) + 1] = e
  OBVIOUS
<1>. SUFFICES ASSUME NEW j \in 1 .. Len(s) + 1, NEW k \in 1 .. Len(s) + 1,
                     Append(s, e)[j] = Append(s, e)[k]
              PROVE  j = k
  BY <1>1 DEF Distinct
<1>4. CASE j \in 1 .. Len(s) /\ k \in 1 .. Len(s)
  BY <1>2, <1>4 DEF Distinct
<1>5. CASE j = Len(s) + 1 \/ k = Len(s) + 1
  BY <1>1, <1>2, <1>3, <1>5
<1>. QED
  BY <1>1, <1>4, <1>5

\* A new session has no participants and has ended nothing.
LEMMA IInvInit == Init => IInv
<1>. SUFFICES ASSUME Init PROVE IInv
  OBVIOUS
<1>1. Elements(<<>>) = {}
  BY DEF Elements
<1>2. ListsOK
  BY <1>1 DEF Init, ListsOK, Distinct
<1>3. PartiesOK
  BY DEF Init, PartiesOK
<1>4. Progress
  BY <1>1 DEF Init, Progress, Phases
<1>5. AfterOnlyIfMainCommitted /\ SuccessMeansCommitted
  BY <1>1 DEF Init, AfterOnlyIfMainCommitted, SuccessMeansCommitted
<1>. QED
  BY <1>2, <1>3, <1>4, <1>5 DEF IInv

\* The lists do not change while they are worked on.
LEMMA ListsSame ==
  ASSUME ListsOK, UNCHANGED setup
  PROVE  /\ ListsOK'
         /\ Elements(prepare)' = Elements(prepare)
         /\ Elements(transactions)' = Elements(transactions)
         /\ Elements(afterCompletion)' = Elements(afterCompletion)
<1>1. prepare' = prepare /\ transactions' = transactions
      /\ afterCompletion' = afterCompletion
  BY DEF setup
<1>2. /\ Elements(prepare)' = Elements(prepare)
      /\ Elements(transactions)' = Elements(transactions)
      /\ Elements(afterCompletion)' = Elements(afterCompletion)
  BY <1>1 DEF Elements
<1>3. Distinct(prepare)' /\ Distinct(transactions)' /\ Distinct(afterCompletion)'
  BY <1>1 DEF Distinct, ListsOK
<1>. QED
  BY <1>1, <1>2, <1>3 DEF ListsOK

\* Every position of a list holds a participant of that list.
LEMMA ListsIn ==
  ASSUME ListsOK
  PROVE  /\ Elements(prepare) \subseteq Participants
         /\ Elements(transactions) \subseteq Participants
         /\ Elements(afterCompletion) \subseteq Participants
         /\ \A k \in 1 .. Len(prepare) : prepare[k] \in Elements(prepare)
         /\ \A k \in 1 .. Len(transactions) :
              transactions[k] \in Elements(transactions)
         /\ \A k \in 1 .. Len(afterCompletion) :
              afterCompletion[k] \in Elements(afterCompletion)
  BY ElementsIn DEF ListsOK

\* Calling the participant at position i of a list changes the fate of that
\* participant only, and the phase only when an Error is thrown.
LEMMA CommitNextStep ==
  ASSUME IInv, NEW phase \in Phases, NEW list \in {prepare, transactions, afterCompletion},
         CommitNext(phase, list)
  PROVE  /\ i \in 1 .. Len(list)
         /\ list[i] \in Participants
         /\ UNCHANGED <<setup, flags>>
         /\ PartiesOK'
         /\ \A q \in Participants : q # list[i] => fate'[q] = fate[q]
         /\ \A q \in Participants : (state'[q] = "NOT_STARTED") = (state[q] = "NOT_STARTED")
         /\ \/ /\ pc' = pc /\ i' = i + 1 /\ result' = result
               /\ exception => exception'
               /\ exception' \/ fate'[list[i]] = "committed"
            \/ /\ pc' \in {"closing", "closed"} /\ result' = "error"
               /\ fate'[list[i]] = "failed"
<1>1. /\ i \in 1 .. Len(list) /\ list[i] \in Participants
      /\ list[i] \in Enlisted
  <2>1. i \in 1 .. Len(list) /\ ListsOK
    BY DEF CommitNext, IInv, PartiesOK, ListsOK
  <2>. QED
    BY <2>1, ListsIn DEF Enlisted
<1>2. PICK answer \in Answers(state[list[i]] = "STARTED") :
        /\ CommitOne(list[i], answer)
        /\ Advance(answer)
        /\ exception' = (exception \/ answer = "exception")
  BY DEF CommitNext
<1>3. answer \in {"ok", "exception", "error"}
      /\ (answer = "ok" => state[list[i]] = "STARTED")
  BY DEF Answers
<1>4. UNCHANGED <<setup, flags>>
  BY DEF CommitNext
<1>5. /\ state' \in [Participants ->
                  {"NOT_STARTED", "STARTED", "ROLLBACK_ONLY", "FINISHED"}]
      /\ fate' \in [Participants -> {"none", "committed", "rolledBack", "failed"}]
      /\ \A q \in Participants : q # list[i] => fate'[q] = fate[q]
      /\ \A q \in Participants : (state'[q] = "NOT_STARTED") = (state[q] = "NOT_STARTED")
      /\ fate'[list[i]] = IF answer = "ok" THEN "committed" ELSE "failed"
  BY <1>1, <1>2, <1>3 DEF CommitOne, IInv, PartiesOK, Open
<1>6. i' \in Nat \ {0}
  BY <1>1, <1>2 DEF Advance, Return
<1>7. Enlisted' = Enlisted
  BY <1>4 DEF Enlisted, setup, Elements
<1>8. PartiesOK'
  BY <1>1, <1>5, <1>6, <1>7 DEF PartiesOK, IInv
<1>9. CASE answer = "error"
  <2>1. pc' \in {"closing", "closed"} /\ result' = "error"
    BY <1>2, <1>9 DEF Advance, Return
  <2>. QED
    BY <1>1, <1>4, <1>5, <1>8, <1>9, <2>1
<1>10. CASE answer # "error"
  <2>1. pc' = pc /\ i' = i + 1 /\ result' = result
    BY <1>2, <1>10 DEF Advance
  <2>2. (exception => exception') /\ (exception' \/ fate'[list[i]] = "committed")
    BY <1>2, <1>3, <1>5, <1>10
  <2>. QED
    BY <1>1, <1>4, <1>5, <1>8, <2>1, <2>2
<1>. QED
  BY <1>9, <1>10

\* The same for rollback, which never counts as a commit.
LEMMA RollbackNextStep ==
  ASSUME IInv, NEW phase \in Phases, NEW list \in {prepare, transactions, afterCompletion},
         RollbackNext(phase, list)
  PROVE  /\ i \in 1 .. Len(list)
         /\ list[i] \in Participants
         /\ UNCHANGED <<setup, flags, exception>>
         /\ PartiesOK'
         /\ \A q \in Participants : q # list[i] => fate'[q] = fate[q]
         /\ \A q \in Participants : (state'[q] = "NOT_STARTED") = (state[q] = "NOT_STARTED")
         /\ fate'[list[i]] \in {"rolledBack", "failed"}
         /\ \/ /\ pc' = pc /\ i' = i + 1 /\ result' = result
            \/ /\ pc' \in {"closing", "closed"} /\ result' = "error"
<1>1. /\ i \in 1 .. Len(list) /\ list[i] \in Participants
      /\ list[i] \in Enlisted
  <2>1. i \in 1 .. Len(list) /\ ListsOK
    BY DEF RollbackNext, IInv, PartiesOK, ListsOK
  <2>. QED
    BY <2>1, ListsIn DEF Enlisted
<1>2. PICK answer \in Answers(Open(list[i])) :
        /\ RollbackOne(list[i], answer)
        /\ Advance(answer)
  BY DEF RollbackNext
<1>3. answer = "ok" => Open(list[i])
  BY DEF Answers
<1>4. UNCHANGED <<setup, flags, exception>>
  BY DEF RollbackNext
<1>5. /\ state' \in [Participants ->
                  {"NOT_STARTED", "STARTED", "ROLLBACK_ONLY", "FINISHED"}]
      /\ fate' \in [Participants -> {"none", "committed", "rolledBack", "failed"}]
      /\ \A q \in Participants : q # list[i] => fate'[q] = fate[q]
      /\ \A q \in Participants : (state'[q] = "NOT_STARTED") = (state[q] = "NOT_STARTED")
      /\ fate'[list[i]] \in {"rolledBack", "failed"}
  BY <1>1, <1>2, <1>3 DEF RollbackOne, IInv, PartiesOK, Open
<1>6. i' \in Nat \ {0}
  BY <1>1, <1>2 DEF Advance, Return
<1>7. Enlisted' = Enlisted
  BY <1>4 DEF Enlisted, setup, Elements
<1>8. PartiesOK'
  BY <1>1, <1>5, <1>6, <1>7 DEF PartiesOK, IInv
<1>9. \/ /\ pc' = pc /\ i' = i + 1 /\ result' = result
      \/ /\ pc' \in {"closing", "closed"} /\ result' = "error"
  BY <1>2 DEF Advance, Return
<1>. QED
  BY <1>1, <1>4, <1>5, <1>8, <1>9

\* The loops of commit() over the three lists.
LEMMA CommitLoops ==
  ASSUME IInv, CommitPrepare \/ CommitTransactions \/ CommitAfterCompletion
  PROVE  IInv'
<1>1. CASE CommitPrepare
  <2>1. CommitNext("prepare", prepare) /\ pc = "prepare"
    BY <1>1 DEF CommitPrepare, CommitNext
  <2>. DEFINE p == prepare[i]
  <2>2. /\ i \in 1 .. Len(prepare) /\ p \in Participants
        /\ UNCHANGED <<setup, flags>>
        /\ PartiesOK'
        /\ \A q \in Participants : q # p => fate'[q] = fate[q]
        /\ \/ /\ pc' = pc /\ i' = i + 1 /\ result' = result
              /\ exception => exception'
              /\ exception' \/ fate'[p] = "committed"
           \/ /\ pc' \in {"closing", "closed"} /\ result' = "error"
    BY <2>1, CommitNextStep DEF IInv, ListsOK, Phases
  <2>3. /\ ListsOK'
        /\ Elements(prepare)' = Elements(prepare)
        /\ Elements(transactions)' = Elements(transactions)
        /\ Elements(afterCompletion)' = Elements(afterCompletion)
    BY <2>2, ListsSame DEF IInv
  <2>4. Untold(transactions) /\ Untold(afterCompletion)
        /\ CommittedSoFar(prepare) /\ completed /\ result # "committed"
    BY <2>1 DEF IInv, Progress
  <2>4a. /\ prepare[i] \notin Elements(transactions)
        /\ prepare[i] \notin Elements(afterCompletion)
        /\ Elements(transactions) \subseteq Participants
        /\ Elements(afterCompletion) \subseteq Participants
    <3>1. ListsOK
      BY DEF IInv
    <3>2. prepare[i] \in Elements(prepare)
      BY <2>2, <3>1, ListsIn
    <3>. QED
      BY <3>1, <3>2, ListsIn DEF ListsOK
  <2>5. Untold(transactions)' /\ Untold(afterCompletion)'
    BY <2>2, <2>3, <2>4, <2>4a DEF Untold
  <2>6. pc' = "prepare" => CommittedSoFar(prepare)'
    <3>. SUFFICES ASSUME pc' = "prepare", ~exception',
                         NEW k \in 1 .. Len(prepare), k < i + 1
                  PROVE  fate'[prepare[k]] = "committed"
      BY <2>2 DEF CommittedSoFar, setup
    <3>1. fate'[p] = "committed" /\ ~exception
      BY <2>2
    <3>2. CASE k < i
      BY <2>2, <2>4, <3>1, <3>2, ListsIn
      DEF CommittedSoFar, Distinct, IInv, ListsOK
    <3>. QED
      BY <2>2, <3>1, <3>2
  <2>7. Progress'
    BY <2>1, <2>2, <2>4, <2>5, <2>6 DEF Progress, Phases, flags
  <2>8. AfterOnlyIfMainCommitted' /\ SuccessMeansCommitted'
    BY <2>1, <2>2, <2>3, <2>4, <2>5 DEF AfterOnlyIfMainCommitted, SuccessMeansCommitted, Untold
  <2>. QED
    BY <2>2, <2>3, <2>7, <2>8 DEF IInv
<1>2. CASE CommitTransactions
  <2>1. CommitNext("commit", transactions) /\ pc = "commit"
    BY <1>2 DEF CommitTransactions, CommitNext
  <2>. DEFINE p == transactions[i]
  <2>2. /\ i \in 1 .. Len(transactions) /\ p \in Participants
        /\ UNCHANGED <<setup, flags>>
        /\ PartiesOK'
        /\ \A q \in Participants : q # p => fate'[q] = fate[q]
        /\ \/ /\ pc' = pc /\ i' = i + 1 /\ result' = result
              /\ exception => exception'
              /\ exception' \/ fate'[p] = "committed"
           \/ /\ pc' \in {"closing", "closed"} /\ result' = "error"
    BY <2>1, CommitNextStep DEF IInv, ListsOK, Phases
  <2>3. /\ ListsOK'
        /\ Elements(prepare)' = Elements(prepare)
        /\ Elements(transactions)' = Elements(transactions)
        /\ Elements(afterCompletion)' = Elements(afterCompletion)
    BY <2>2, ListsSame DEF IInv
  <2>4. AllCommitted(prepare) /\ Untold(afterCompletion)
        /\ CommittedSoFar(transactions) /\ completed /\ result # "committed"
    BY <2>1 DEF IInv, Progress
  <2>4a. /\ transactions[i] \notin Elements(prepare)
        /\ transactions[i] \notin Elements(afterCompletion)
        /\ Elements(prepare) \subseteq Participants
        /\ Elements(afterCompletion) \subseteq Participants
    <3>1. ListsOK
      BY DEF IInv
    <3>2. transactions[i] \in Elements(transactions)
      BY <2>2, <3>1, ListsIn
    <3>. QED
      BY <3>1, <3>2, ListsIn DEF ListsOK
  <2>5. AllCommitted(prepare)' /\ Untold(afterCompletion)'
    BY <2>2, <2>3, <2>4, <2>4a DEF Untold, AllCommitted
  <2>6. pc' = "commit" => CommittedSoFar(transactions)'
    <3>. SUFFICES ASSUME pc' = "commit", ~exception',
                         NEW k \in 1 .. Len(transactions), k < i + 1
                  PROVE  fate'[transactions[k]] = "committed"
      BY <2>2 DEF CommittedSoFar, setup
    <3>1. fate'[p] = "committed" /\ ~exception
      BY <2>2
    <3>2. CASE k < i
      BY <2>2, <2>4, <3>1, <3>2, ListsIn
      DEF CommittedSoFar, Distinct, IInv, ListsOK
    <3>. QED
      BY <2>2, <3>1, <3>2
  <2>7. Progress'
    BY <2>1, <2>2, <2>4, <2>5, <2>6 DEF Progress, Phases, flags
  <2>8. AfterOnlyIfMainCommitted' /\ SuccessMeansCommitted'
    BY <2>1, <2>2, <2>3, <2>4, <2>5 DEF AfterOnlyIfMainCommitted, SuccessMeansCommitted, Untold
  <2>. QED
    BY <2>2, <2>3, <2>7, <2>8 DEF IInv
<1>3. CASE CommitAfterCompletion
  <2>1. CommitNext("complete", afterCompletion) /\ pc = "complete"
    BY <1>3 DEF CommitAfterCompletion, CommitNext
  <2>. DEFINE p == afterCompletion[i]
  <2>2. /\ i \in 1 .. Len(afterCompletion) /\ p \in Participants
        /\ UNCHANGED <<setup, flags>>
        /\ PartiesOK'
        /\ \A q \in Participants : q # p => fate'[q] = fate[q]
        /\ \/ /\ pc' = pc /\ i' = i + 1 /\ result' = result
              /\ exception => exception'
              /\ exception' \/ fate'[p] = "committed"
           \/ /\ pc' \in {"closing", "closed"} /\ result' = "error"
    BY <2>1, CommitNextStep DEF IInv, ListsOK, Phases
  <2>3. /\ ListsOK'
        /\ Elements(prepare)' = Elements(prepare)
        /\ Elements(transactions)' = Elements(transactions)
        /\ Elements(afterCompletion)' = Elements(afterCompletion)
    BY <2>2, ListsSame DEF IInv
  <2>4. AllCommitted(prepare) /\ AllCommitted(transactions)
        /\ CommittedSoFar(afterCompletion) /\ completed /\ result # "committed"
    BY <2>1 DEF IInv, Progress
  <2>4a. /\ afterCompletion[i] \notin Elements(prepare)
        /\ afterCompletion[i] \notin Elements(transactions)
        /\ Elements(prepare) \subseteq Participants
        /\ Elements(transactions) \subseteq Participants
    <3>1. ListsOK
      BY DEF IInv
    <3>2. afterCompletion[i] \in Elements(afterCompletion)
      BY <2>2, <3>1, ListsIn
    <3>. QED
      BY <3>1, <3>2, ListsIn DEF ListsOK
  <2>5. AllCommitted(prepare)' /\ AllCommitted(transactions)'
    BY <2>2, <2>3, <2>4, <2>4a DEF AllCommitted
  <2>6. pc' = "complete" => CommittedSoFar(afterCompletion)'
    <3>. SUFFICES ASSUME pc' = "complete", ~exception',
                         NEW k \in 1 .. Len(afterCompletion), k < i + 1
                  PROVE  fate'[afterCompletion[k]] = "committed"
      BY <2>2 DEF CommittedSoFar, setup
    <3>1. fate'[p] = "committed" /\ ~exception
      BY <2>2
    <3>2. CASE k < i
      BY <2>2, <2>4, <3>1, <3>2, ListsIn
      DEF CommittedSoFar, Distinct, IInv, ListsOK
    <3>. QED
      BY <2>2, <3>1, <3>2
  <2>7. Progress'
    BY <2>1, <2>2, <2>4, <2>5, <2>6 DEF Progress, Phases, flags
  <2>8. AfterOnlyIfMainCommitted' /\ SuccessMeansCommitted'
    BY <2>1, <2>2, <2>3, <2>4, <2>5 DEF AfterOnlyIfMainCommitted, SuccessMeansCommitted, AllCommitted
  <2>. QED
    BY <2>2, <2>3, <2>7, <2>8 DEF IInv
<1>. QED
  BY <1>1, <1>2, <1>3

\* The loops that roll participants back.
LEMMA RollbackLoops ==
  ASSUME IInv,
         \/ RollbackAfterFailedCommit
         \/ RollbackTransactions
         \/ RollbackAfterCompletion
  PROVE  IInv'
<1>1. ASSUME NEW list \in {transactions, afterCompletion},
             NEW phase \in {"abort", "undo", "undoAfter"},
             RollbackNext(phase, list)
      PROVE  IInv'
  <2>1. pc = phase
    BY <1>1 DEF RollbackNext
  <2>2. /\ i \in 1 .. Len(list) /\ list[i] \in Participants
        /\ UNCHANGED <<setup, flags, exception>>
        /\ PartiesOK'
        /\ \A q \in Participants : q # list[i] => fate'[q] = fate[q]
        /\ fate'[list[i]] \in {"rolledBack", "failed"}
        /\ \/ /\ pc' = pc /\ i' = i + 1 /\ result' = result
           \/ /\ pc' \in {"closing", "closed"} /\ result' = "error"
    BY <1>1, RollbackNextStep DEF IInv, ListsOK, Phases
  <2>3. /\ ListsOK'
        /\ Elements(prepare)' = Elements(prepare)
        /\ Elements(transactions)' = Elements(transactions)
        /\ Elements(afterCompletion)' = Elements(afterCompletion)
    BY <2>2, ListsSame DEF IInv
  <2>4. /\ \A q \in Elements(afterCompletion) : fate[q] # "committed"
        /\ completed /\ result # "committed"
        /\ pc = "abort" => exception
    BY <2>1 DEF IInv, Progress
  <2>5. \A q \in Elements(afterCompletion)' : fate'[q] # "committed"
    BY <2>2, <2>3, <2>4, ListsIn DEF IInv, ListsOK
  <2>6. Progress'
    BY <2>1, <2>2, <2>4, <2>5 DEF Progress, Phases, flags
  <2>7. AfterOnlyIfMainCommitted' /\ SuccessMeansCommitted'
    BY <2>1, <2>2, <2>3, <2>4, <2>5 DEF AfterOnlyIfMainCommitted, SuccessMeansCommitted
  <2>. QED
    BY <2>2, <2>3, <2>6, <2>7 DEF IInv
<1>. QED
  BY <1>1 DEF RollbackAfterFailedCommit, RollbackTransactions,
              RollbackAfterCompletion

\* Leaving a loop, and returning from commit() or rollback().
LEMMA LoopExits ==
  ASSUME IInv,
         \/ PrepareDone \/ CommitDone \/ CommitReturns
         \/ UndoDone \/ RollbackReturns
  PROVE  IInv'
<1>1. /\ UNCHANGED <<setup, state, fate, exception, completed>>
      /\ i' = 1
      /\ ListsOK /\ PartiesOK /\ Progress
      /\ AfterOnlyIfMainCommitted /\ SuccessMeansCommitted
  BY DEF PrepareDone, CommitDone, CommitReturns, UndoDone, RollbackReturns,
         GoTo, Return, flags, parties, IInv
<1>2. /\ ListsOK'
      /\ Elements(prepare)' = Elements(prepare)
      /\ Elements(transactions)' = Elements(transactions)
      /\ Elements(afterCompletion)' = Elements(afterCompletion)
  BY <1>1, ListsSame
<1>3. Enlisted' = Enlisted
  BY <1>2 DEF Enlisted
<1>4. PartiesOK'
  BY <1>1, <1>3 DEF PartiesOK
<1>5. ASSUME NEW s \in {prepare, transactions, afterCompletion},
             CommittedSoFar(s), ~exception, i > Len(s)
      PROVE  AllCommitted(s)
  BY <1>1, <1>5 DEF CommittedSoFar, AllCommitted, Elements, ListsOK, PartiesOK
<1>6. CommittedSoFar(prepare)' /\ CommittedSoFar(transactions)'
      /\ CommittedSoFar(afterCompletion)'
  <2>1. ASSUME NEW s \in Seq(Participants)
        PROVE  \A k \in 1 .. Len(s) : ~(k < 1)
    OBVIOUS
  <2>. QED
    BY <1>1, <2>1 DEF CommittedSoFar, setup, ListsOK
<1>7. /\ AllCommitted(prepare)' = AllCommitted(prepare)
      /\ AllCommitted(transactions)' = AllCommitted(transactions)
      /\ Untold(afterCompletion)' = Untold(afterCompletion)
      /\ Untold(afterCompletion) =>
           \A p \in Elements(afterCompletion) : fate[p] # "committed"
  BY <1>1, <1>2 DEF AllCommitted, Untold
<1>8. CASE PrepareDone
  <2>1. /\ pc = "prepare" /\ i > Len(prepare)
        /\ pc' = (IF exception THEN "undo" ELSE "commit")
        /\ result' = result
    BY <1>8 DEF PrepareDone, GoTo
  <2>2. ~exception => AllCommitted(prepare)
    BY <1>1, <1>5, <2>1 DEF Progress
  <2>3. Progress'
    BY <1>1, <1>2, <1>6, <1>7, <2>1, <2>2 DEF Progress, Phases
  <2>4. AfterOnlyIfMainCommitted' /\ SuccessMeansCommitted'
    BY <1>1, <1>2, <1>7, <2>1
    DEF AfterOnlyIfMainCommitted, SuccessMeansCommitted, Progress
  <2>. QED
    BY <1>2, <1>4, <2>3, <2>4 DEF IInv
<1>9. CASE CommitDone
  <2>1. /\ pc = "commit" /\ i > Len(transactions)
        /\ pc' = (IF exception THEN "abort" ELSE "complete")
        /\ result' = result
    BY <1>9 DEF CommitDone, GoTo
  <2>2. ~exception => AllCommitted(transactions)
    BY <1>1, <1>5, <2>1 DEF Progress
  <2>3. Progress'
    BY <1>1, <1>2, <1>6, <1>7, <2>1, <2>2 DEF Progress, Phases
  <2>4. SuccessMeansCommitted'
    BY <1>1, <2>1 DEF SuccessMeansCommitted, Progress
  <2>5. \A p \in Elements(afterCompletion) : fate[p] # "committed"
    BY <1>1, <1>7, <2>1 DEF Progress
  <2>6. AfterOnlyIfMainCommitted'
    BY <1>1, <1>2, <2>1, <2>2, <2>5
    DEF AfterOnlyIfMainCommitted, Progress, AllCommitted
  <2>. QED
    BY <1>2, <1>4, <2>3, <2>4, <2>6 DEF IInv
<1>10. CASE CommitReturns
  <2>1. /\ pc \in {"complete", "abort"} /\ i > Len(afterCompletion)
        /\ pc' \in {"handler", "closing", "closed"}
        /\ ~active'
        /\ result' = (IF exception THEN "exception" ELSE "committed")
    BY <1>10 DEF CommitReturns, Return
  <2>2. completed /\ (pc = "abort" => exception)
    BY <1>1, <2>1 DEF Progress
  <2>3. ~exception => /\ AllCommitted(prepare)
                      /\ AllCommitted(transactions)
                      /\ AllCommitted(afterCompletion)
    BY <1>1, <1>5, <2>1, <2>2 DEF Progress
  <2>4. Progress'
    BY <1>1, <2>1, <2>2 DEF Progress, Phases
  <2>5. AfterOnlyIfMainCommitted'
    BY <1>1, <1>2, <2>1 DEF AfterOnlyIfMainCommitted
  <2>6. SuccessMeansCommitted'
    BY <1>1, <1>2, <1>3, <2>1, <2>3
    DEF SuccessMeansCommitted, Enlisted, AllCommitted
  <2>. QED
    BY <1>2, <1>4, <2>4, <2>5, <2>6 DEF IInv
<1>11. CASE UndoDone
  <2>1. pc = "undo" /\ pc' = "undoAfter" /\ result' = result
    BY <1>11 DEF UndoDone, GoTo
  <2>2. Progress'
    BY <1>1, <1>2, <2>1 DEF Progress, Phases
  <2>3. AfterOnlyIfMainCommitted' /\ SuccessMeansCommitted'
    BY <1>1, <1>2, <1>3, <2>1 DEF AfterOnlyIfMainCommitted, SuccessMeansCommitted
  <2>. QED
    BY <1>2, <1>4, <2>2, <2>3 DEF IInv
<1>12. CASE RollbackReturns
  <2>1. /\ pc = "undoAfter"
        /\ pc' \in {"handler", "closing", "closed"}
        /\ ~active'
        /\ result' \in {"exception", "rolledBack"}
    BY <1>12 DEF RollbackReturns, Return
  <2>2. completed
    BY <1>1, <2>1 DEF Progress
  <2>3. Progress'
    BY <1>1, <2>1, <2>2 DEF Progress, Phases
  <2>4. AfterOnlyIfMainCommitted' /\ SuccessMeansCommitted'
    BY <1>1, <1>2, <2>1 DEF AfterOnlyIfMainCommitted, SuccessMeansCommitted
  <2>. QED
    BY <1>2, <1>4, <2>3, <2>4 DEF IInv
<1>. QED
  BY <1>8, <1>9, <1>10, <1>11, <1>12

\* commit() and rollback() are entered from the handler or when the session
\* is closed; a second call finds completed set and returns.
LEMMA EntryPoints ==
  ASSUME IInv, HandlerCommit \/ HandlerReturns \/ HandlerThrowsMapped \/ Close
  PROVE  IInv'
<1>1. /\ pc \in {"handler", "closing"}
      /\ UNCHANGED <<setup, active, state, fate, result>>
      /\ i' = 1
      /\ \/ /\ ~completed /\ completed'
            /\ pc' \in {"prepare", "undo"} /\ ~exception'
         \/ /\ completed' = completed
            /\ pc' \in {"handler", "closing", "closed"}
            /\ pc' = "handler" => active /\ pc = "handler"
  BY DEF HandlerCommit, HandlerReturns, HandlerThrowsMapped, Close, Commit,
         Rollback, Start, GoTo, parties
<1>2. ListsOK /\ PartiesOK /\ Progress /\ AfterOnlyIfMainCommitted
      /\ SuccessMeansCommitted
  BY DEF IInv
<1>3. /\ ListsOK'
      /\ Elements(prepare)' = Elements(prepare)
      /\ Elements(transactions)' = Elements(transactions)
      /\ Elements(afterCompletion)' = Elements(afterCompletion)
  BY <1>1, <1>2, ListsSame
<1>4. Enlisted' = Enlisted
  BY <1>3 DEF Enlisted
<1>5. PartiesOK'
  BY <1>1, <1>2, <1>4 DEF PartiesOK
<1>6. CommittedSoFar(prepare)'
  <2>1. \A k \in 1 .. Len(prepare) : ~(k < 1)
    BY <1>2 DEF ListsOK
  <2>. QED
    BY <1>1, <2>1 DEF CommittedSoFar, setup
<1>7. ~completed => /\ \A p \in Elements(transactions) : fate[p] = "none"
                    /\ \A p \in Elements(afterCompletion) : fate[p] = "none"
                    /\ result # "committed"
  BY <1>2, ListsIn DEF Progress
<1>8. Progress'
  BY <1>1, <1>2, <1>3, <1>6, <1>7 DEF Progress, Phases, Untold
<1>9. AfterOnlyIfMainCommitted' /\ SuccessMeansCommitted'
  BY <1>1, <1>2, <1>3, <1>4 DEF AfterOnlyIfMainCommitted, SuccessMeansCommitted
<1>. QED
  BY <1>3, <1>5, <1>8, <1>9 DEF IInv

\* enlist(), enlistPrepare() and enlistAfterCompletion() of a new participant.
LEMMA EnlistStep ==
  ASSUME IInv, NEW p \in Participants, Enlist(p)
  PROVE  IInv'
<1>1. ListsOK /\ PartiesOK /\ Progress /\ AfterOnlyIfMainCommitted
      /\ SuccessMeansCommitted
  BY DEF IInv
<1>2. /\ pc = "handler" /\ p \notin Enlisted
      /\ UNCHANGED <<active, completed, fate, pc, i, exception, result>>
      /\ state' = [state EXCEPT ![p] = IF active THEN "STARTED" ELSE @]
  BY DEF Enlist, flags, control
<1>3. /\ p \notin Elements(prepare) /\ p \notin Elements(transactions)
      /\ p \notin Elements(afterCompletion)
  BY <1>2 DEF Enlisted
<1>4. /\ ListsOK'
      /\ Elements(prepare)' \subseteq Elements(prepare) \cup {p}
      /\ Elements(transactions)' \subseteq Elements(transactions) \cup {p}
      /\ Elements(afterCompletion)' \subseteq Elements(afterCompletion) \cup {p}
      /\ Enlisted' = Enlisted \cup {p}
  <2>1. CASE /\ prepare' = Append(prepare, p)
             /\ UNCHANGED <<transactions, afterCompletion>>
    <3>1. /\ Elements(prepare)' = Elements(prepare) \cup {p}
          /\ Distinct(prepare)' /\ prepare' \in Seq(Participants)
      BY <1>1, <1>3, <2>1, ElementsAppend, DistinctAppend DEF ListsOK
    <3>2. /\ Elements(transactions)' = Elements(transactions)
          /\ Elements(afterCompletion)' = Elements(afterCompletion)
          /\ Distinct(transactions)' = Distinct(transactions)
          /\ Distinct(afterCompletion)' = Distinct(afterCompletion)
      BY <2>1 DEF Elements, Distinct
    <3>. QED
      BY <1>1, <1>3, <2>1, <3>1, <3>2 DEF ListsOK, Enlisted
  <2>2. CASE /\ transactions' = Append(transactions, p)
             /\ UNCHANGED <<prepare, afterCompletion>>
    <3>1. /\ Elements(transactions)' = Elements(transactions) \cup {p}
          /\ Distinct(transactions)' /\ transactions' \in Seq(Participants)
      BY <1>1, <1>3, <2>2, ElementsAppend, DistinctAppend DEF ListsOK
    <3>2. /\ Elements(prepare)' = Elements(prepare)
          /\ Elements(afterCompletion)' = Elements(afterCompletion)
          /\ Distinct(prepare)' = Distinct(prepare)
          /\ Distinct(afterCompletion)' = Distinct(afterCompletion)
      BY <2>2 DEF Elements, Distinct
    <3>. QED
      BY <1>1, <1>3, <2>2, <3>1, <3>2 DEF ListsOK, Enlisted
  <2>3. CASE /\ afterCompletion' = Append(afterCompletion, p)
             /\ UNCHANGED <<prepare, transactions>>
    <3>1. /\ Elements(afterCompletion)' = Elements(afterCompletion) \cup {p}
          /\ Distinct(afterCompletion)' /\ afterCompletion' \in Seq(Participants)
      BY <1>1, <1>3, <2>3, ElementsAppend, DistinctAppend DEF ListsOK
    <3>2. /\ Elements(prepare)' = Elements(prepare)
          /\ Elements(transactions)' = Elements(transactions)
          /\ Distinct(prepare)' = Distinct(prepare)
          /\ Distinct(transactions)' = Distinct(transactions)
      BY <2>3 DEF Elements, Distinct
    <3>. QED
      BY <1>1, <1>3, <2>3, <3>1, <3>2 DEF ListsOK, Enlisted
  <2>. QED
    BY <2>1, <2>2, <2>3 DEF Enlist
<1>5. PartiesOK'
  BY <1>1, <1>2, <1>4 DEF PartiesOK
<1>6. Progress'
  BY <1>1, <1>2 DEF Progress, Phases
<1>7. completed => state'[p] = "NOT_STARTED"
  BY <1>1, <1>2 DEF Progress, PartiesOK
<1>8. \A q \in Participants : q # p => state'[q] = state[q]
  BY <1>1, <1>2 DEF PartiesOK
<1>9. ~completed => /\ \A q \in Participants : fate[q] = "none"
                    /\ result # "committed"
  BY <1>1 DEF Progress
<1>10. /\ Elements(prepare)' \subseteq Participants
       /\ Elements(transactions)' \subseteq Participants
       /\ Elements(afterCompletion)' \subseteq Participants
       /\ Enlisted \subseteq Participants
  BY <1>1, <1>4, ListsIn DEF Enlisted
<1>11. fate[p] = "none"
  BY <1>1, <1>2 DEF PartiesOK
<1>12. AfterOnlyIfMainCommitted'
  <2>1. CASE ~completed
    BY <1>2, <1>9, <1>10, <2>1 DEF AfterOnlyIfMainCommitted
  <2>2. CASE completed
    BY <1>1, <1>2, <1>4, <1>7, <1>8, <1>10, <1>11, <2>2 DEF AfterOnlyIfMainCommitted
  <2>. QED
    BY <2>1, <2>2
<1>13. SuccessMeansCommitted'
  BY <1>1, <1>2, <1>4, <1>7, <1>8, <1>9, <1>10 DEF SuccessMeansCommitted
<1>. QED
  BY <1>4, <1>5, <1>6, <1>12, <1>13 DEF IInv

\* Everything else a handler does: begin, mark, commit, restart, end.
LEMMA HandlerSteps ==
  ASSUME IInv,
         \/ Begin \/ SetRollbackOnly \/ HandlerRestart \/ HandlerRestartFails
         \/ \E p \in Participants : MarkRollbackOnly(p)
         \/ \E r \in {"exception", "error"} : HandlerThrows(r)
  PROVE  IInv'
<1>1. /\ UNCHANGED <<setup, i, exception>>
      /\ ListsOK /\ PartiesOK /\ Progress
      /\ AfterOnlyIfMainCommitted /\ SuccessMeansCommitted
  BY DEF Begin, SetRollbackOnly, HandlerRestart, HandlerRestartFails,
         BeginAgain, MarkRollbackOnly, HandlerThrows, control, IInv
<1>2. /\ ListsOK'
      /\ Elements(prepare)' = Elements(prepare)
      /\ Elements(transactions)' = Elements(transactions)
      /\ Elements(afterCompletion)' = Elements(afterCompletion)
      /\ Elements(transactions) \subseteq Enlisted
      /\ Enlisted \subseteq Participants
  BY <1>1, ListsSame, ListsIn DEF Enlisted
<1>3. Enlisted' = Enlisted
  BY <1>2 DEF Enlisted
<1>4. CASE Begin
  <2>1. /\ UNCHANGED <<state, fate, result>> /\ ~completed' /\ pc = "new"
        /\ pc' = "handler"
    BY <1>4 DEF Begin, parties
  <2>2. PartiesOK' /\ Progress'
    BY <1>1, <1>2, <1>3, <2>1 DEF PartiesOK, Progress, Phases
  <2>3. AfterOnlyIfMainCommitted' /\ SuccessMeansCommitted'
    BY <1>1, <1>2, <1>3, <2>1 DEF AfterOnlyIfMainCommitted, SuccessMeansCommitted
  <2>. QED
    BY <1>2, <2>2, <2>3 DEF IInv
<1>5. CASE SetRollbackOnly
  <2>1. UNCHANGED <<state, fate, result, active, completed, pc>> /\ pc = "handler"
    BY <1>5 DEF SetRollbackOnly, parties, control
  <2>2. PartiesOK' /\ Progress'
    BY <1>1, <1>2, <1>3, <2>1 DEF PartiesOK, Progress, Phases
  <2>3. AfterOnlyIfMainCommitted' /\ SuccessMeansCommitted'
    BY <1>1, <1>2, <1>3, <2>1 DEF AfterOnlyIfMainCommitted, SuccessMeansCommitted
  <2>. QED
    BY <1>2, <2>2, <2>3 DEF IInv
<1>6. ASSUME NEW k \in 0 .. Len(transactions), BeginAgain(k), pc = "handler",
             result' # "committed"
      PROVE  IInv'
  <2>1. /\ pc' = pc /\ ~completed'
        /\ state' = [p \in Participants |->
             IF \E j \in 1 .. k : transactions[j] = p
             THEN "STARTED" ELSE state[p]]
        /\ fate' = [p \in Participants |-> "none"]
    BY <1>6 DEF BeginAgain
  <2>2. \A p : (\E j \in 1 .. k : transactions[j] = p) => p \in Enlisted
    <3>1. \A j \in 1 .. k : transactions[j] \in Elements(transactions)
      <4>. Len(transactions) \in Nat
        BY <1>1 DEF ListsOK
      <4>. QED
        BY DEF Elements
    <3>. QED
      BY <1>2, <3>1
  <2>3. PartiesOK'
    BY <1>1, <1>2, <1>3, <2>1, <2>2 DEF PartiesOK
  <2>4. Progress'
    BY <1>6, <2>1 DEF Progress, Phases
  <2>5. AfterOnlyIfMainCommitted' /\ SuccessMeansCommitted'
    BY <1>2, <1>6, <2>1, ListsIn, <1>1
    DEF AfterOnlyIfMainCommitted, SuccessMeansCommitted
  <2>. QED
    BY <1>2, <2>3, <2>4, <2>5 DEF IInv
<1>7. CASE HandlerRestart
  <2>1. Len(transactions) \in 0 .. Len(transactions)
    BY <1>1 DEF ListsOK
  <2>. QED
    BY <1>6, <1>7, <2>1 DEF HandlerRestart
<1>8. CASE HandlerRestartFails
  <2>1. PICK k \in 1 .. Len(transactions) : BeginAgain(k - 1)
    BY <1>8 DEF HandlerRestartFails
  <2>2. k - 1 \in 0 .. Len(transactions)
    BY <1>1 DEF ListsOK
  <2>. QED
    BY <1>6, <1>8, <2>1, <2>2 DEF HandlerRestartFails
<1>9. ASSUME NEW p \in Participants, MarkRollbackOnly(p)
      PROVE  IInv'
  <2>1. /\ UNCHANGED <<fate, result, active, completed, pc>> /\ pc = "handler"
        /\ p \in Elements(transactions) /\ state[p] = "STARTED"
        /\ state' = [state EXCEPT ![p] = "ROLLBACK_ONLY"]
    BY <1>9 DEF MarkRollbackOnly, flags, control
  <2>2. PartiesOK'
    BY <1>1, <1>2, <1>3, <2>1 DEF PartiesOK
  <2>3. Progress'
    BY <1>1, <2>1 DEF Progress, Phases
  <2>4. \A q \in Participants :
          (state'[q] = "NOT_STARTED") = (state[q] = "NOT_STARTED")
    BY <1>1, <2>1 DEF PartiesOK
  <2>5. AfterOnlyIfMainCommitted' /\ SuccessMeansCommitted'
    BY <1>1, <1>2, <1>3, <2>1, <2>4, ListsIn
    DEF AfterOnlyIfMainCommitted, SuccessMeansCommitted
  <2>. QED
    BY <1>2, <2>2, <2>3, <2>5 DEF IInv
<1>10. ASSUME NEW r \in {"exception", "error"}, HandlerThrows(r)
      PROVE  IInv'
  <2>1. /\ UNCHANGED <<state, fate, active, completed>> /\ pc = "handler"
        /\ pc' = "closing" /\ result' = r
    BY <1>10 DEF HandlerThrows, parties, flags
  <2>2. PartiesOK' /\ Progress'
    BY <1>1, <1>2, <1>3, <2>1 DEF PartiesOK, Progress, Phases
  <2>3. AfterOnlyIfMainCommitted' /\ SuccessMeansCommitted'
    BY <1>1, <1>2, <1>3, <2>1 DEF AfterOnlyIfMainCommitted, SuccessMeansCommitted
  <2>. QED
    BY <1>2, <2>2, <2>3 DEF IInv
<1>. QED
  BY <1>4, <1>5, <1>9, <1>10, <1>7, <1>8

\* Every step preserves the invariant.
LEMMA IInvNext == IInv /\ [Next]_vars => IInv'
<1>. SUFFICES ASSUME IInv, [Next]_vars PROVE IInv'
  OBVIOUS
<1>1. CASE Handler
  BY <1>1, EntryPoints, EnlistStep, HandlerSteps DEF Handler
<1>2. CASE Manager
  BY <1>2, CommitLoops, RollbackLoops, LoopExits DEF Manager
<1>3. CASE Close
  BY <1>3, EntryPoints
<1>4. CASE UNCHANGED vars
  <2>1. UNCHANGED <<setup, flags, state, fate, pc, i, exception, result>>
    BY <1>4 DEF vars, parties, control
  <2>2. /\ ListsOK'
        /\ Elements(prepare)' = Elements(prepare)
        /\ Elements(transactions)' = Elements(transactions)
        /\ Elements(afterCompletion)' = Elements(afterCompletion)
    BY <2>1, ListsSame DEF IInv
  <2>3. Enlisted' = Enlisted
    BY <2>2 DEF Enlisted
  <2>4. PartiesOK'
    BY <2>1, <2>3 DEF IInv, PartiesOK
  <2>5. Progress'
    BY <2>1, <2>2 DEF IInv, Progress, Untold, AllCommitted, CommittedSoFar,
                      flags, setup
  <2>6. AfterOnlyIfMainCommitted' /\ SuccessMeansCommitted'
    BY <2>1, <2>2, <2>3 DEF IInv, AfterOnlyIfMainCommitted, SuccessMeansCommitted
  <2>. QED
    BY <2>2, <2>4, <2>5, <2>6 DEF IInv
<1>. QED
  BY <1>1, <1>2, <1>3, <1>4 DEF Next

---------------------------------------------------------------------------
(* Types, and what one call of a participant does to the rest. *)

ListOf(phase) ==
  IF phase = "prepare" THEN prepare
  ELSE IF phase \in {"commit", "undo"} THEN transactions
  ELSE afterCompletion

Loops == {"prepare", "commit", "complete", "abort", "undo", "undoAfter"}

\* A participant is asked to commit or to roll back.
Call ==
  \/ CommitPrepare \/ CommitTransactions \/ CommitAfterCompletion
  \/ RollbackAfterFailedCommit \/ RollbackTransactions \/ RollbackAfterCompletion

\* The end of one of the loops.
LoopExit == PrepareDone \/ CommitDone \/ CommitReturns \/ UndoDone \/ RollbackReturns

\* The list at hand is one of the three.
LEMMA ListOfIn ==
  ASSUME ListsOK
  PROVE  /\ ListOf(pc) \in {prepare, transactions, afterCompletion}
         /\ ListOf(pc) \in Seq(Participants)
         /\ \A k \in 1 .. Len(ListOf(pc)) : ListOf(pc)[k] \in Participants
  BY DEF ListOf, ListsOK

\* A call touches the participant at position i and nobody else; only an Error
\* leaves the loop.
LEMMA CallStep ==
  ASSUME IInv, Call
  PROVE  /\ pc \in Loops
         /\ i \in 1 .. Len(ListOf(pc))
         /\ UNCHANGED <<setup, flags, back>>
         /\ fate' \in [Participants -> {"none", "committed", "rolledBack", "failed"}]
         /\ \A q \in Participants :
              q # ListOf(pc)[i] => state'[q] = state[q] /\ fate'[q] = fate[q]
         /\ fate'[ListOf(pc)[i]] # "none"
         /\ fate'[ListOf(pc)[i]] = "committed" => pc \in {"prepare", "commit", "complete"}
         /\ refused' = (refused \/ ~Open(ListOf(pc)[i]))
         /\ \/ pc' = pc /\ i' = i + 1 /\ result' = result
            \/ MayError /\ i' = 1 /\ result' = "error" /\ pc' \in {"closing", "closed"}
         /\ exception \in BOOLEAN => exception' \in BOOLEAN
<1>. DEFINE list == ListOf(pc)
            p == list[i]
<1>1. /\ pc \in Loops
      /\ \/ pc \in {"prepare", "commit", "complete"} /\ CommitNext(pc, list)
         \/ RollbackNext(pc, list)
  BY DEF Call, CommitPrepare, CommitTransactions, CommitAfterCompletion,
         RollbackAfterFailedCommit, RollbackTransactions, RollbackAfterCompletion,
         CommitNext, RollbackNext, ListOf, Loops
<1>2. list \in Seq(Participants) /\ i \in 1 .. Len(list) /\ p \in Participants
  <2>1. ListsOK /\ i \in Nat \ {0}
    BY DEF IInv, PartiesOK
  <2>2. i <= Len(list)
    BY <1>1 DEF CommitNext, RollbackNext
  <2>3. list \in Seq(Participants)
        /\ \A k \in 1 .. Len(list) : list[k] \in Participants
    BY <2>1, ListOfIn
  <2>. HIDE DEF list
  <2>. QED
    BY <2>1, <2>2, <2>3
<1>3. UNCHANGED <<setup, flags>>
  BY <1>1 DEF CommitNext, RollbackNext
<1>. HIDE DEF list
<1>4. PICK answer \in {"ok", "exception", "error"} :
        /\ answer = "error" => MayError
        /\ \/ CommitOne(p, answer) /\ pc \in {"prepare", "commit", "complete"}
           \/ RollbackOne(p, answer)
        /\ Advance(answer)
        /\ exception' = exception \/ exception' = (exception \/ answer = "exception")
  <2>1. CASE pc \in {"prepare", "commit", "complete"} /\ CommitNext(pc, list)
    <3>1. PICK answer \in Answers(state[p] = "STARTED") :
            CommitOne(p, answer) /\ Advance(answer)
            /\ exception' = (exception \/ answer = "exception")
      BY <2>1 DEF CommitNext
    <3>2. answer \in {"ok", "exception", "error"} /\ (answer = "error" => MayError)
      BY DEF Answers
    <3>. QED
      BY <2>1, <3>1, <3>2
  <2>2. CASE RollbackNext(pc, list)
    <3>1. PICK answer \in Answers(Open(p)) : RollbackOne(p, answer) /\ Advance(answer)
      BY <2>2 DEF RollbackNext
    <3>2. answer \in {"ok", "exception", "error"} /\ (answer = "error" => MayError)
      BY DEF Answers
    <3>. QED
      BY <2>2, <3>1, <3>2 DEF RollbackNext
  <2>. QED
    BY <1>1, <2>1, <2>2
<1>5. /\ \A q \in Participants : q # p => state'[q] = state[q] /\ fate'[q] = fate[q]
      /\ fate'[p] # "none"
      /\ fate' \in [Participants -> {"none", "committed", "rolledBack", "failed"}]
      /\ fate'[p] = "committed" => pc \in {"prepare", "commit", "complete"}
      /\ refused' = (refused \/ ~Open(p))
  BY <1>2, <1>4 DEF CommitOne, RollbackOne, IInv, PartiesOK
<1>6. /\ back' = back
      /\ \/ pc' = pc /\ i' = i + 1 /\ result' = result
         \/ MayError /\ i' = 1 /\ result' = "error" /\ pc' \in {"closing", "closed"}
  BY <1>4 DEF Advance, Return
<1>7. exception \in BOOLEAN => exception' \in BOOLEAN
  BY <1>4
<1>. QED
  BY <1>1, <1>2, <1>3, <1>5, <1>6, <1>7 DEF list

\* What IInv does not say of the types.
RestOK ==
  /\ driver \in Drivers
  /\ active \in BOOLEAN /\ completed \in BOOLEAN /\ rollbackOnly \in BOOLEAN
  /\ refused \in BOOLEAN /\ exception \in BOOLEAN
  /\ result \in {"none", "committed", "rolledBack", "exception", "error"}
  /\ back \in {"handler", "filter", "close"}

\* The type invariant follows.
LEMMA TypeFromParts == IInv /\ RestOK => TypeOK
<1>1. IInv /\ RestOK => FlagsOK
  BY DEF IInv, Progress, RestOK, FlagsOK
<1>. QED
  BY <1>1 DEF IInv, ListsOK, PartiesOK, Progress, RestOK, TypeOK

\* Every step keeps the types.
LEMMA RestStep ==
  ASSUME IInv, RestOK, [Next]_vars
  PROVE  RestOK'
<1>0. IInv' /\ ListsOK' /\ ListsOK
  BY IInvNext DEF IInv
<1>1. CASE Call
  <2>1. /\ pc \in Loops /\ i \in 1 .. Len(ListOf(pc))
        /\ UNCHANGED <<setup, flags, back>>
        /\ refused' = (refused \/ ~Open(ListOf(pc)[i]))
        /\ \/ pc' = pc /\ i' = i + 1 /\ result' = result
           \/ MayError /\ i' = 1 /\ result' = "error" /\ pc' \in {"closing", "closed"}
        /\ exception \in BOOLEAN => exception' \in BOOLEAN
    BY <1>1, CallStep
  <2>. QED
    BY <2>1 DEF RestOK, setup, flags
<1>2. CASE LoopExit
  <2>1. /\ i' = 1 /\ UNCHANGED <<setup, completed, rollbackOnly, parties, exception, back>>
        /\ active' \in {active, FALSE}
        /\ result' \in {result, "exception", "committed", "rolledBack"}
    BY <1>2 DEF LoopExit, PrepareDone, CommitDone, CommitReturns, UndoDone, RollbackReturns, GoTo, Return, flags
  <2>. QED
    BY <2>1 DEF RestOK, setup, parties
<1>3. CASE HandlerCommit \/ HandlerReturns \/ HandlerThrowsMapped \/ Close
  <2>1. /\ i' = 1 /\ UNCHANGED <<setup, active, parties, result>>
        /\ completed' \in {completed, TRUE} /\ rollbackOnly' \in {rollbackOnly, TRUE}
        /\ exception' \in {exception, FALSE} /\ back' \in {back, "handler", "filter", "close"}
    BY <1>3 DEF HandlerCommit, HandlerReturns, HandlerThrowsMapped, Close, Commit, Rollback, Start, GoTo, flags
  <2>. QED
    BY <2>1 DEF RestOK, setup, parties
<1>4. CASE \/ Begin \/ SetRollbackOnly \/ HandlerRestart \/ HandlerRestartFails
           \/ \E p \in Participants : Enlist(p) \/ MarkRollbackOnly(p)
           \/ \E r \in {"exception", "error"} : HandlerThrows(r)
  <2>1. /\ UNCHANGED <<driver, refused, exception, back>> /\ pc' \in {"handler", "closing"}
        /\ active' \in BOOLEAN /\ completed' \in BOOLEAN /\ rollbackOnly' \in BOOLEAN
        /\ result' \in {result, "none", "exception", "error"}
    BY <1>4 DEF Begin, SetRollbackOnly, HandlerRestart, HandlerRestartFails, BeginAgain, Enlist,
                MarkRollbackOnly, HandlerThrows, RestOK, setup, flags, parties, control
  <2>. QED
    BY <2>1 DEF RestOK
<1>5. CASE UNCHANGED vars
  BY <1>5 DEF vars, setup, flags, parties, control, RestOK
<1>. QED
  BY <1>1, <1>2, <1>3, <1>4, <1>5 DEF Next, Handler, Manager, Call, LoopExit

\* A new session has the types.
LEMMA RestInit == Init => RestOK
  BY DEF Init, RestOK

---------------------------------------------------------------------------
(* Nobody is asked twice, or without having begun: as long as nothing is
   begun anew, the participants that are still to be asked are open. *)

AllOpen(s) == \A p \in Elements(s) : Open(p)

OpenFrom(s) == \A k \in 1 .. Len(s) : k >= i => Open(s[k])

OpenInv ==
  /\ ~refused
  /\ pc = "handler" /\ ~completed => active
  /\ ~completed => AllOpen(prepare) /\ AllOpen(transactions) /\ AllOpen(afterCompletion)
  /\ pc = "prepare" => OpenFrom(prepare) /\ AllOpen(transactions) /\ AllOpen(afterCompletion)
  /\ pc \in {"commit", "undo"} => OpenFrom(transactions) /\ AllOpen(afterCompletion)
  /\ pc \in {"complete", "abort", "undoAfter"} => OpenFrom(afterCompletion)

\* Whoever is asked leaves the others as they are.
LEMMA CallKeepsOpen ==
  ASSUME IInv, RestOK, OpenInv, Call
  PROVE  OpenInv'
<1>. DEFINE p == ListOf(pc)[i]
<1>1. /\ pc \in Loops /\ i \in 1 .. Len(ListOf(pc))
      /\ UNCHANGED <<setup, flags>>
      /\ \A q \in Participants : q # p => state'[q] = state[q]
      /\ refused' = (refused \/ ~Open(p))
      /\ \/ pc' = pc /\ i' = i + 1
         \/ pc' \in {"closing", "closed"}
  BY CallStep
<1>2. ListsOK /\ completed
  BY <1>1 DEF IInv, Progress, Loops
<1>3. /\ UNCHANGED <<prepare, transactions, afterCompletion, completed, active>>
      /\ Elements(transactions)' = Elements(transactions)
      /\ Elements(afterCompletion)' = Elements(afterCompletion)
  BY <1>1, <1>2, ListsSame DEF setup, flags
<1>4. Open(p)
  BY <1>1 DEF OpenInv, OpenFrom, ListOf, Loops
<1>5. ~refused'
  BY <1>1, <1>4 DEF OpenInv
<1>6. CASE pc' \in {"closing", "closed"}
  BY <1>2, <1>3, <1>5, <1>6 DEF OpenInv
<1>7. ASSUME pc' = "prepare", pc = "prepare", i' = i + 1
      PROVE  (OpenFrom(prepare) /\ AllOpen(transactions) /\ AllOpen(afterCompletion))'
  <2>1. p = prepare[i] /\ i \in 1 .. Len(prepare) /\ p \in Elements(prepare)
    BY <1>1, <1>2, <1>7, ListsIn DEF ListOf
  <2>2. \A q \in Elements(transactions) \cup Elements(afterCompletion) : q # p /\ q \in Participants
    BY <1>2, <2>1, ListsIn DEF ListsOK
  <2>3. \A k \in 1 .. Len(prepare) : k >= i + 1 => k >= i /\ prepare[k] # p /\ prepare[k] \in Participants
    BY <1>2, <2>1 DEF ListsOK, Distinct
  <2>4. /\ AllOpen(transactions) /\ AllOpen(afterCompletion)
        /\ \A k \in 1 .. Len(prepare) : k >= i => Open(prepare[k])
    BY <1>7 DEF OpenInv, OpenFrom
  <2>5. (AllOpen(transactions) /\ AllOpen(afterCompletion))'
    BY <1>1, <1>3, <2>2, <2>4 DEF AllOpen, Open
  <2>6. OpenFrom(prepare)'
    BY <1>1, <1>3, <1>7, <2>3, <2>4 DEF OpenFrom, Open
  <2>. QED
    BY <2>5, <2>6
<1>8. ASSUME pc' \in {"commit", "undo"}, pc = pc', i' = i + 1
      PROVE  (OpenFrom(transactions) /\ AllOpen(afterCompletion))'
  <2>1. p = transactions[i] /\ i \in 1 .. Len(transactions) /\ p \in Elements(transactions)
    BY <1>1, <1>2, <1>8, ListsIn DEF ListOf
  <2>2. \A q \in Elements(afterCompletion) : q # p /\ q \in Participants
    BY <1>2, <2>1, ListsIn DEF ListsOK
  <2>3. \A k \in 1 .. Len(transactions) :
          k >= i + 1 => k >= i /\ transactions[k] # p /\ transactions[k] \in Participants
    BY <1>2, <2>1 DEF ListsOK, Distinct
  <2>4. /\ AllOpen(afterCompletion)
        /\ \A k \in 1 .. Len(transactions) : k >= i => Open(transactions[k])
    BY <1>8 DEF OpenInv, OpenFrom
  <2>5. AllOpen(afterCompletion)'
    BY <1>1, <1>3, <2>2, <2>4 DEF AllOpen, Open
  <2>6. OpenFrom(transactions)'
    BY <1>1, <1>3, <1>8, <2>3, <2>4 DEF OpenFrom, Open
  <2>. QED
    BY <2>5, <2>6
<1>9. ASSUME pc' \in {"complete", "abort", "undoAfter"}, pc = pc', i' = i + 1
      PROVE  OpenFrom(afterCompletion)'
  <2>1. p = afterCompletion[i] /\ i \in 1 .. Len(afterCompletion)
    BY <1>1, <1>9 DEF ListOf
  <2>3. \A k \in 1 .. Len(afterCompletion) :
          k >= i + 1 => k >= i /\ afterCompletion[k] # p /\ afterCompletion[k] \in Participants
    BY <1>2, <2>1 DEF ListsOK, Distinct
  <2>4. \A k \in 1 .. Len(afterCompletion) : k >= i => Open(afterCompletion[k])
    BY <1>9 DEF OpenInv, OpenFrom
  <2>. QED
    BY <1>1, <1>3, <1>9, <2>3, <2>4 DEF OpenFrom, Open
<1>. HIDE DEF p
<1>10. CASE pc' = pc /\ i' = i + 1
  BY <1>2, <1>3, <1>5, <1>7, <1>8, <1>9, <1>10 DEF OpenInv
<1>. QED
  BY <1>1, <1>6, <1>10

\* A list whose participants are all open is open from any position.
LEMMA OpenList ==
  ASSUME ListsOK
  PROVE  /\ AllOpen(prepare) => OpenFrom(prepare)
         /\ AllOpen(transactions) => OpenFrom(transactions)
         /\ AllOpen(afterCompletion) => OpenFrom(afterCompletion)
  BY ListsIn DEF AllOpen, OpenFrom

\* The parties and the lists have not changed.
LEMMA OpenSame ==
  ASSUME UNCHANGED <<setup, parties>>
  PROVE  /\ AllOpen(prepare)' = AllOpen(prepare)
         /\ AllOpen(transactions)' = AllOpen(transactions)
         /\ AllOpen(afterCompletion)' = AllOpen(afterCompletion)
         /\ refused' = refused
  BY DEF AllOpen, Open, Elements, setup, parties

\* Every step keeps the participants to come open.
LEMMA OpenStep ==
  ASSUME ~HandlerRestarts, IInv, RestOK, OpenInv, [Next]_vars
  PROVE  OpenInv'
<1>0. ListsOK /\ ListsOK' /\ Progress
  BY IInvNext DEF IInv
<1>00. /\ AllOpen(prepare)' => OpenFrom(prepare)'
       /\ AllOpen(transactions)' => OpenFrom(transactions)'
       /\ AllOpen(afterCompletion)' => OpenFrom(afterCompletion)'
  BY <1>0, OpenList, PTL
<1>1. CASE Call
  BY <1>1, CallKeepsOpen
<1>2. CASE LoopExit
  <2>1. UNCHANGED <<setup, parties, completed>> /\ pc \in Loops
    BY <1>2 DEF LoopExit, PrepareDone, CommitDone, CommitReturns, UndoDone, RollbackReturns, flags, Loops
  <2>2. completed
    BY <1>0, <2>1 DEF Progress, Loops
  <2>3. \/ pc = "prepare" /\ pc' \in {"undo", "commit"}
        \/ pc \in {"commit", "undo"} /\ pc' \in {"complete", "abort", "undoAfter"}
        \/ pc' \in {"handler", "closing", "closed"}
    BY <1>2 DEF LoopExit, PrepareDone, CommitDone, CommitReturns, UndoDone, RollbackReturns, GoTo, Return
  <2>. QED
    BY <1>00, <2>1, <2>2, <2>3, OpenSame DEF OpenInv
<1>3. CASE HandlerCommit \/ HandlerReturns \/ HandlerThrowsMapped \/ Close
  <2>1. /\ UNCHANGED <<setup, parties, active>> /\ pc \in {"handler", "closing"}
        /\ \/ /\ ~completed /\ completed' /\ pc' \in {"prepare", "undo"}
           \/ /\ completed' = completed /\ pc' \in {"handler", "closing", "closed"}
              /\ pc' = "handler" => pc = "handler"
    BY <1>3 DEF HandlerCommit, HandlerReturns, HandlerThrowsMapped, Close, Commit, Rollback, Start, GoTo
  <2>. QED
    BY <1>00, <2>1, OpenSame DEF OpenInv
<1>4. CASE Begin \/ SetRollbackOnly \/ \E r \in {"exception", "error"} : HandlerThrows(r)
  <2>1. /\ UNCHANGED <<setup, parties>>
        /\ \/ pc = "new" /\ pc' = "handler" /\ active' /\ ~completed'
           \/ UNCHANGED <<pc, completed, active>> /\ pc = "handler"
           \/ UNCHANGED <<completed, active>> /\ pc' = "closing"
    BY <1>4 DEF Begin, SetRollbackOnly, HandlerThrows, flags, control
  <2>2. pc = "new" => ~completed
    BY <1>0 DEF Progress
  <2>. QED
    BY <2>1, <2>2, OpenSame DEF OpenInv
<1>5. ASSUME NEW p \in Participants, Enlist(p) PROVE OpenInv'
  <2>1. /\ pc = "handler" /\ p \notin Enlisted
        /\ UNCHANGED <<active, completed, refused, pc>>
        /\ state' = [state EXCEPT ![p] = IF active THEN "STARTED" ELSE @]
    BY <1>5 DEF Enlist, flags, control
  <2>2. /\ Elements(prepare)' \subseteq Elements(prepare) \cup {p}
        /\ Elements(transactions)' \subseteq Elements(transactions) \cup {p}
        /\ Elements(afterCompletion)' \subseteq Elements(afterCompletion) \cup {p}
    <3>1. /\ Elements(Append(prepare, p)) = Elements(prepare) \cup {p}
          /\ Elements(Append(transactions, p)) = Elements(transactions) \cup {p}
          /\ Elements(Append(afterCompletion, p)) = Elements(afterCompletion) \cup {p}
      BY <1>0, ElementsAppend DEF ListsOK
    <3>2. /\ prepare' \in {prepare, Append(prepare, p)}
          /\ transactions' \in {transactions, Append(transactions, p)}
          /\ afterCompletion' \in {afterCompletion, Append(afterCompletion, p)}
      BY <1>5 DEF Enlist
    <3>3. /\ Elements(prepare)' = Elements(prepare')
          /\ Elements(transactions)' = Elements(transactions')
          /\ Elements(afterCompletion)' = Elements(afterCompletion')
      OBVIOUS
    <3>. QED
      BY <3>1, <3>2, <3>3
  <2>3. ~completed =>
          /\ state'[p] = "STARTED"
          /\ \A q \in Participants : q # p => state'[q] = state[q]
    BY <2>1 DEF OpenInv, IInv, PartiesOK
  <2>4. ~completed => (AllOpen(prepare) /\ AllOpen(transactions) /\ AllOpen(afterCompletion))'
    BY <1>0, <2>2, <2>3, ListsIn DEF OpenInv, AllOpen, Open
  <2>. QED
    BY <2>1, <2>4 DEF OpenInv
<1>6. ASSUME NEW p \in Participants, MarkRollbackOnly(p) PROVE OpenInv'
  <2>1. /\ pc = "handler" /\ UNCHANGED <<setup, active, completed, refused, pc>>
        /\ state' = [state EXCEPT ![p] = "ROLLBACK_ONLY"]
    BY <1>6 DEF MarkRollbackOnly, flags, control
  <2>2. \A q \in Participants : Open(q) => Open(q)'
    BY <2>1 DEF Open, IInv, PartiesOK
  <2>3. ~completed => (AllOpen(prepare) /\ AllOpen(transactions) /\ AllOpen(afterCompletion))'
    BY <1>0, <2>1, <2>2, ListsIn, ListsSame DEF OpenInv, AllOpen
  <2>. QED
    BY <2>1, <2>3 DEF OpenInv
<1>7. CASE UNCHANGED vars
  BY <1>7, OpenSame DEF vars, setup, flags, parties, control, OpenInv, OpenFrom, Open
<1>. QED
  BY <1>1, <1>2, <1>3, <1>4, <1>5, <1>6, <1>7
     DEF Next, Handler, Manager, Call, LoopExit, HandlerRestart, HandlerRestartFails

---------------------------------------------------------------------------
(* Nobody is left open: without Errors, and begun once, commit and rollback
   go through all of the main and afterCompletion participants. *)

Told(p) == state[p] # "NOT_STARTED" => fate[p] # "none"

AllTold(s) == \A p \in Elements(s) : Told(p)

ToldBefore(s) == \A k \in 1 .. Len(s) : k < i => Told(s[k])

ToldInv ==
  /\ pc \in {"handler", "closing", "closed"} /\ completed =>
       AllTold(transactions) /\ AllTold(afterCompletion)
  /\ pc \in {"commit", "undo"} => ToldBefore(transactions)
  /\ pc \in {"complete", "abort", "undoAfter"} =>
       AllTold(transactions) /\ ToldBefore(afterCompletion)
  /\ pc = "closing" /\ ~completed => active /\ result = "exception"
  /\ pc = "closed" => completed

\* A participant that has been asked knows the outcome.
LEMMA CallTells ==
  ASSUME ~MayError, IInv, RestOK, ToldInv, Call
  PROVE  ToldInv'
<1>. DEFINE p == ListOf(pc)[i]
<1>1. /\ pc \in Loops /\ i \in 1 .. Len(ListOf(pc))
      /\ UNCHANGED <<setup, flags>>
      /\ \A q \in Participants : q # p => state'[q] = state[q] /\ fate'[q] = fate[q]
      /\ fate'[p] # "none"
      /\ pc' = pc /\ i' = i + 1
  BY CallStep
<1>2. ListsOK
  BY DEF IInv
<1>3. /\ UNCHANGED <<prepare, transactions, afterCompletion>>
      /\ Elements(transactions)' = Elements(transactions)
  BY <1>1, <1>2, ListsSame DEF setup
<1>4. \A q \in Participants : q = p \/ Told(q) => Told(q)'
  BY <1>1 DEF Told
<1>5. AllTold(transactions) => AllTold(transactions)'
  BY <1>2, <1>3, <1>4, ListsIn DEF AllTold
<1>6. ASSUME pc \in {"commit", "undo"}, ToldBefore(transactions)
      PROVE  ToldBefore(transactions)'
  <2>1. p = transactions[i] /\ i \in 1 .. Len(transactions)
    BY <1>1, <1>6 DEF ListOf
  <2>2. \A k \in 1 .. Len(transactions) :
          k < i + 1 => (k < i \/ transactions[k] = p) /\ transactions[k] \in Participants
    BY <1>2, <2>1, ListsIn
  <2>. HIDE DEF p
  <2>. QED
    BY <1>1, <1>3, <1>4, <1>6, <2>2 DEF ToldBefore
<1>7. ASSUME pc \in {"complete", "abort", "undoAfter"}, ToldBefore(afterCompletion)
      PROVE  ToldBefore(afterCompletion)'
  <2>1. p = afterCompletion[i] /\ i \in 1 .. Len(afterCompletion)
    BY <1>1, <1>7 DEF ListOf
  <2>2. \A k \in 1 .. Len(afterCompletion) :
          k < i + 1 => (k < i \/ afterCompletion[k] = p) /\ afterCompletion[k] \in Participants
    BY <1>2, <2>1, ListsIn
  <2>. HIDE DEF p
  <2>. QED
    BY <1>1, <1>3, <1>4, <1>7, <2>2 DEF ToldBefore
<1>. QED
  BY <1>1, <1>5, <1>6, <1>7 DEF ToldInv, Loops

\* At the end of a list all of it has been told.
LEMMA ToldToTheEnd ==
  ASSUME ListsOK, i \in Nat
  PROVE  /\ ToldBefore(transactions) /\ i > Len(transactions) => AllTold(transactions)
         /\ ToldBefore(afterCompletion) /\ i > Len(afterCompletion) => AllTold(afterCompletion)
<1>1. Len(transactions) \in Nat /\ Len(afterCompletion) \in Nat
  BY DEF ListsOK
<1>2. ASSUME ToldBefore(transactions), i > Len(transactions), NEW p \in Elements(transactions)
      PROVE  Told(p)
  <2>1. PICK k \in 1 .. Len(transactions) : transactions[k] = p
    BY DEF Elements
  <2>. QED
    BY <1>1, <1>2, <2>1 DEF ToldBefore
<1>3. ASSUME ToldBefore(afterCompletion), i > Len(afterCompletion), NEW p \in Elements(afterCompletion)
      PROVE  Told(p)
  <2>1. PICK k \in 1 .. Len(afterCompletion) : afterCompletion[k] = p
    BY DEF Elements
  <2>. QED
    BY <1>1, <1>3, <2>1 DEF ToldBefore
<1>. QED
  BY <1>2, <1>3 DEF AllTold

\* The parties and the lists have not changed, or the position is the first.
LEMMA ToldSame ==
  ASSUME ListsOK, UNCHANGED <<setup, parties>>
  PROVE  /\ AllTold(transactions)' = AllTold(transactions)
         /\ AllTold(afterCompletion)' = AllTold(afterCompletion)
         /\ i' = 1 => ToldBefore(transactions)' /\ ToldBefore(afterCompletion)'
<1>1. UNCHANGED <<transactions, afterCompletion, state, fate>>
  BY DEF setup, parties
<1>2. /\ AllTold(transactions)' = AllTold(transactions)
      /\ AllTold(afterCompletion)' = AllTold(afterCompletion)
  BY <1>1 DEF AllTold, Told, Elements
<1>3. /\ \A k \in 1 .. Len(transactions) : ~(k < 1)
      /\ \A k \in 1 .. Len(afterCompletion) : ~(k < 1)
  BY DEF ListsOK
<1>4. i' = 1 => ToldBefore(transactions)' /\ ToldBefore(afterCompletion)'
  BY <1>1, <1>3 DEF ToldBefore
<1>. QED
  BY <1>2, <1>4

\* Every step keeps the outcome known to those who have been asked.
LEMMA ToldStep ==
  ASSUME ~MayError, ~HandlerRestarts, IInv, RestOK, OpenInv, ToldInv, [Next]_vars
  PROVE  ToldInv'
<1>0. ListsOK /\ ListsOK' /\ Progress /\ i \in Nat
  BY IInvNext DEF IInv, PartiesOK
<1>1. CASE Call
  BY <1>1, CallTells
<1>2. CASE LoopExit
  <2>1. UNCHANGED <<setup, parties, completed>> /\ i' = 1 /\ pc \in Loops
    BY <1>2 DEF LoopExit, PrepareDone, CommitDone, CommitReturns, UndoDone, RollbackReturns, GoTo, Return,
                flags, Loops
  <2>2. completed
    BY <1>0, <2>1 DEF Progress, Loops
  <2>3. \/ pc' \in {"undo", "commit"}
        \/ /\ pc \in {"commit", "undo"} /\ i > Len(transactions)
           /\ pc' \in {"complete", "abort", "undoAfter"}
        \/ /\ pc \in {"complete", "abort", "undoAfter"} /\ i > Len(afterCompletion)
           /\ pc' \in {"handler", "closing", "closed"}
    BY <1>2 DEF LoopExit, PrepareDone, CommitDone, CommitReturns, UndoDone, RollbackReturns, GoTo, Return
  <2>4. /\ AllTold(transactions)' = AllTold(transactions)
        /\ AllTold(afterCompletion)' = AllTold(afterCompletion)
        /\ ToldBefore(transactions)' /\ ToldBefore(afterCompletion)'
    BY <1>0, <2>1, ToldSame
  <2>. QED
    BY <1>0, <2>1, <2>2, <2>3, <2>4, ToldToTheEnd DEF ToldInv
<1>3. CASE HandlerCommit \/ HandlerReturns \/ HandlerThrowsMapped \/ Close
  <2>1. /\ UNCHANGED <<setup, parties, active, result>> /\ i' = 1
        /\ \/ /\ ~completed /\ completed' /\ pc' \in {"prepare", "undo"}
           \/ /\ completed' = completed /\ pc \in {"handler", "closing"}
              /\ pc' \in {"handler", "closing", "closed"}
              /\ completed
    <3>1. CASE HandlerCommit \/ HandlerReturns \/ HandlerThrowsMapped
      BY <3>1 DEF HandlerCommit, HandlerReturns, HandlerThrowsMapped, Commit, Rollback, Start, GoTo, OpenInv
    <3>2. CASE Close
      <4>1. ~completed => MustRollback
        BY <3>2, TransactionManagerAssumption DEF Close, ToldInv, MustRollback, RestOK
      <4>. QED
        BY <3>2, <4>1 DEF Close, Rollback, Start, GoTo
    <3>. QED
      BY <1>3, <3>1, <3>2
  <2>2. /\ AllTold(transactions)' = AllTold(transactions)
        /\ AllTold(afterCompletion)' = AllTold(afterCompletion)
        /\ ToldBefore(transactions)' /\ ToldBefore(afterCompletion)'
    BY <1>0, <2>1, ToldSame
  <2>. QED
    BY <2>1, <2>2 DEF ToldInv
<1>4. CASE Begin \/ SetRollbackOnly \/ \E r \in {"exception"} : HandlerThrows(r)
  <2>1. /\ UNCHANGED <<setup, parties>>
        /\ \/ pc = "new" /\ pc' = "handler" /\ ~completed'
           \/ UNCHANGED <<pc, completed>> /\ pc = "handler"
           \/ UNCHANGED <<completed, active>> /\ pc = "handler" /\ pc' = "closing" /\ result' = "exception"
    BY <1>4 DEF Begin, SetRollbackOnly, HandlerThrows, flags, control
  <2>2. /\ AllTold(transactions)' = AllTold(transactions)
        /\ AllTold(afterCompletion)' = AllTold(afterCompletion)
    BY <1>0, <2>1, ToldSame
  <2>. QED
    BY <2>1, <2>2 DEF ToldInv, OpenInv
<1>5. ASSUME NEW p \in Participants, Enlist(p) PROVE ToldInv'
  <2>1. /\ pc = "handler" /\ p \notin Enlisted
        /\ UNCHANGED <<active, completed, fate, pc>>
        /\ state' = [state EXCEPT ![p] = IF active THEN "STARTED" ELSE @]
    BY <1>5 DEF Enlist, flags, control
  <2>2. /\ Elements(transactions)' \subseteq Elements(transactions) \cup {p}
        /\ Elements(afterCompletion)' \subseteq Elements(afterCompletion) \cup {p}
    <3>1. /\ Elements(Append(transactions, p)) = Elements(transactions) \cup {p}
          /\ Elements(Append(afterCompletion, p)) = Elements(afterCompletion) \cup {p}
      BY <1>0, ElementsAppend DEF ListsOK
    <3>2. /\ transactions' \in {transactions, Append(transactions, p)}
          /\ afterCompletion' \in {afterCompletion, Append(afterCompletion, p)}
      BY <1>5 DEF Enlist
    <3>3. /\ Elements(transactions)' = Elements(transactions')
          /\ Elements(afterCompletion)' = Elements(afterCompletion')
      OBVIOUS
    <3>. QED
      BY <3>1, <3>2, <3>3
  <2>3. completed =>
          /\ state'[p] = "NOT_STARTED"
          /\ \A q \in Participants : q # p => state'[q] = state[q]
    BY <1>0, <2>1 DEF IInv, PartiesOK, Progress
  <2>4. completed => (AllTold(transactions) /\ AllTold(afterCompletion))'
    BY <1>0, <2>1, <2>2, <2>3, ListsIn DEF ToldInv, AllTold, Told
  <2>. QED
    BY <2>1, <2>4 DEF ToldInv
<1>6. ASSUME NEW p \in Participants, MarkRollbackOnly(p) PROVE ToldInv'
  <2>1. /\ pc = "handler" /\ UNCHANGED <<setup, fate, completed, pc>> /\ state[p] = "STARTED"
        /\ state' = [state EXCEPT ![p] = "ROLLBACK_ONLY"]
    BY <1>6 DEF MarkRollbackOnly, flags, control
  <2>2. \A q \in Participants : Told(q) => Told(q)'
    BY <2>1 DEF Told, IInv, PartiesOK
  <2>3. completed => (AllTold(transactions) /\ AllTold(afterCompletion))'
    BY <1>0, <2>1, <2>2, ListsIn, ListsSame DEF ToldInv, AllTold
  <2>. QED
    BY <2>1, <2>3 DEF ToldInv
<1>7. CASE UNCHANGED vars
  <2>1. UNCHANGED <<setup, parties, pc, i, completed, active, result>>
    BY <1>7 DEF vars, flags, control
  <2>2. /\ AllTold(transactions)' = AllTold(transactions)
        /\ AllTold(afterCompletion)' = AllTold(afterCompletion)
        /\ ToldBefore(transactions)' = ToldBefore(transactions)
        /\ ToldBefore(afterCompletion)' = ToldBefore(afterCompletion)
    BY <1>0, <2>1, ToldSame DEF ToldBefore, Told, setup, parties
  <2>. QED
    BY <2>1, <2>2 DEF ToldInv
<1>. QED
  BY <1>1, <1>2, <1>3, <1>4, <1>5, <1>6, <1>7
     DEF Next, Handler, Manager, Call, LoopExit, HandlerRestart, HandlerRestartFails

---------------------------------------------------------------------------
(* Rollback-only: the filter looks at it before it commits, and without Errors
   nobody comes back to a transaction that the handler has committed. *)

HonourInv ==
  /\ RollbackOnlyHonoured
  /\ pc \in {"new", "handler"} => back = "handler"
  /\ pc \in {"prepare", "commit"} /\ back # "handler" /\ driver # "scheduled" => ~rollbackOnly
  /\ pc = "closing" /\ completed => ~active

\* Main participants commit only where nobody has asked for a rollback.
LEMMA CallHonours ==
  ASSUME ~MayError, IInv, RestOK, HonourInv, Call
  PROVE  HonourInv'
<1>. DEFINE p == ListOf(pc)[i]
<1>1. /\ pc \in Loops /\ i \in 1 .. Len(ListOf(pc))
      /\ UNCHANGED <<setup, flags, back>>
      /\ \A q \in Participants : q # p => fate'[q] = fate[q]
      /\ fate'[p] = "committed" => pc \in {"prepare", "commit", "complete"}
      /\ pc' = pc
  BY CallStep
<1>2. ListsOK
  BY DEF IInv
<1>3. /\ UNCHANGED <<driver, rollbackOnly, active, completed>>
      /\ Elements(transactions)' = Elements(transactions)
      /\ Elements(transactions) \subseteq Participants
  BY <1>1, <1>2, ListsSame, ListsIn DEF setup, flags
<1>4. p \in Elements(transactions) => pc \in {"commit", "undo"}
  BY <1>1, <1>2, ListsIn DEF ListOf, ListsOK, Loops
<1>. HIDE DEF p
<1>5. RollbackOnlyHonoured'
  BY <1>1, <1>3, <1>4 DEF HonourInv, RollbackOnlyHonoured
<1>. QED
  BY <1>1, <1>3, <1>5 DEF HonourInv

\* Every step honours a request to roll back.
LEMMA HonourStep ==
  ASSUME ~MayError, IInv, RestOK, HonourInv, [Next]_vars
  PROVE  HonourInv'
<1>0. ListsOK /\ Progress
  BY DEF IInv
<1>1. CASE Call
  BY <1>1, CallHonours
<1>2. CASE LoopExit
  <2>1. /\ UNCHANGED <<setup, parties, completed, rollbackOnly, back>>
        /\ \/ pc = "prepare" /\ pc' \in {"undo", "commit"}
           \/ pc' \in {"complete", "abort", "undoAfter"}
           \/ pc' \in {"handler", "closing", "closed"} /\ ~active'
        /\ pc' = "handler" => back = "handler"
    BY <1>2 DEF LoopExit, PrepareDone, CommitDone, CommitReturns, UndoDone, RollbackReturns, GoTo, Return,
                flags
  <2>2. UNCHANGED <<driver, fate>> /\ Elements(transactions)' = Elements(transactions)
    BY <1>0, <2>1, ListsSame DEF setup, parties
  <2>. QED
    BY <2>1, <2>2 DEF HonourInv, RollbackOnlyHonoured
<1>3. CASE HandlerCommit \/ HandlerReturns \/ HandlerThrowsMapped \/ Close
  <2>1. /\ UNCHANGED <<setup, parties, active>>
        /\ UNCHANGED <<driver, fate>> /\ Elements(transactions)' = Elements(transactions)
    BY <1>0, <1>3, ListsSame DEF HandlerCommit, HandlerReturns, HandlerThrowsMapped, Close, setup, parties
  <2>2. ~completed => \A p \in Elements(transactions) : fate[p] # "committed"
    BY <1>0, ListsIn DEF Progress
  <2>3. CASE HandlerCommit
    <3>1. /\ pc = "handler" /\ active /\ back' = "handler"
          /\ pc' \in {"handler", "prepare"}
      BY <2>3 DEF HandlerCommit, Commit, Start
    <3>. QED
      BY <3>1 DEF HonourInv, RollbackOnlyHonoured
  <2>4. CASE HandlerReturns
    <3>1. /\ pc = "handler" /\ UNCHANGED rollbackOnly
          /\ \/ driver = "scheduled" /\ pc' \in {"prepare", "closing"}
                /\ (pc' = "closing" => completed /\ completed')
             \/ active /\ back' = "filter" /\ (pc' = "prepare" => ~rollbackOnly)
                /\ pc' \in {"prepare", "undo", "closing"} /\ (pc' = "closing" => completed /\ completed')
             \/ ~active /\ pc' = "closing" /\ UNCHANGED <<back, completed>>
      BY <2>4 DEF HandlerReturns, GetRollbackOnly, Commit, Rollback, Start, GoTo
    <3>2. active => ~completed
      BY <1>0, <3>1 DEF Progress
    <3>. QED
      BY <2>1, <2>2, <3>1, <3>2 DEF HonourInv, RollbackOnlyHonoured
  <2>5. CASE HandlerThrowsMapped
    <3>1. /\ pc = "handler"
          /\ \/ active /\ back' = "filter" /\ (pc' = "undo" \/ completed)
                /\ pc' \in {"undo", "closing"}
             \/ ~active /\ pc' = "closing" /\ UNCHANGED <<back, completed>>
      BY <2>5 DEF HandlerThrowsMapped, Rollback, Start, GoTo
    <3>2. active => ~completed
      BY <1>0, <3>1 DEF Progress
    <3>. QED
      BY <2>1, <2>2, <3>1, <3>2 DEF HonourInv, RollbackOnlyHonoured
  <2>6. CASE Close
    <3>1. /\ pc = "closing" /\ pc' \in {"undo", "closed"} /\ UNCHANGED rollbackOnly
          /\ \/ MustRollback
             \/ UNCHANGED back
      BY <2>6 DEF Close, Rollback, Start, GoTo
    <3>2. MustRollback /\ completed => driver = "scheduled"
      BY <3>1 DEF MustRollback, HonourInv
    <3>. QED
      BY <2>1, <2>2, <3>1, <3>2 DEF HonourInv, RollbackOnlyHonoured
  <2>. QED
    BY <1>3, <2>3, <2>4, <2>5, <2>6
<1>4. CASE \/ Begin \/ SetRollbackOnly \/ \E p \in Participants : MarkRollbackOnly(p)
           \/ \E r \in {"exception"} : HandlerThrows(r)
  <2>1. /\ pc \in {"new", "handler"} /\ pc' \in {"handler", "closing"}
        /\ UNCHANGED <<setup, fate, back>>
        /\ pc' = "closing" => UNCHANGED <<active, completed>> /\ pc = "handler"
    BY <1>4 DEF Begin, SetRollbackOnly, MarkRollbackOnly, HandlerThrows, flags, parties, control
  <2>2. completed /\ pc = "handler" => ~active
    BY <1>0 DEF Progress
  <2>. QED
    BY <2>1, <2>2 DEF HonourInv, RollbackOnlyHonoured
<1>5. CASE HandlerRestart \/ HandlerRestartFails \/ \E p \in Participants : Enlist(p)
  <2>1. /\ pc = "handler" /\ pc' = "handler" /\ UNCHANGED back
    BY <1>5 DEF HandlerRestart, HandlerRestartFails, BeginAgain, Enlist, control
  <2>. QED
    BY <2>1 DEF HonourInv, RollbackOnlyHonoured
<1>6. CASE UNCHANGED vars
  BY <1>6 DEF vars, setup, flags, parties, control, HonourInv, RollbackOnlyHonoured, Elements
<1>. QED
  BY <1>1, <1>2, <1>3, <1>4, <1>5, <1>6 DEF Next, Handler, Manager, Call, LoopExit

\* A new session has asked nobody and committed nothing.
LEMMA CompletionInit == Init => OpenInv /\ ToldInv /\ HonourInv
<1>1. Elements(<<>>) = {}
  BY DEF Elements
<1>. QED
  BY <1>1 DEF Init, OpenInv, ToldInv, HonourInv, RollbackOnlyHonoured, AllOpen

---------------------------------------------------------------------------
\* DefaultKeycloakTransactionManager.commit never lets an afterCompletion
\* participant (a cache invalidation, a session cache, a cluster event)
\* commit before every prepare and main participant has, whatever exceptions
\* and Errors are thrown and however often the handler begins anew.
THEOREM AfterCompletionIsSafe == Spec => []AfterOnlyIfMainCommitted
<1>1. IInv => AfterOnlyIfMainCommitted
  BY DEF IInv
<1>. QED
  BY <1>1, IInvInit, IInvNext, PTL DEF Spec

\* commit() returns normally only when every participant has committed: no
\* exception a participant has thrown is lost.
THEOREM SuccessIsComplete == Spec => []SuccessMeansCommitted
<1>1. IInv => SuccessMeansCommitted
  BY DEF IInv
<1>. QED
  BY <1>1, IInvInit, IInvNext, PTL DEF Spec

\* Every reachable state of a session is well typed; in particular the position
\* never runs past the end of the list that commit() or rollback() works on.
THEOREM ManagerTypeCorrect == Spec => []TypeOK
<1>1. Init => IInv /\ RestOK
  BY IInvInit, RestInit
<1>2. IInv /\ RestOK /\ [Next]_vars => (IInv /\ RestOK)'
  BY IInvNext, RestStep
<1>. QED
  BY <1>1, <1>2, TypeFromParts, PTL DEF Spec

\* Whatever calls of commit() and rollback() exceptions and Errors lead to, no
\* participant is asked to end twice, or without having begun - unless a handler
\* begins the transaction anew, which begins only the main participants again.
THEOREM NobodyRefuses ==
  ASSUME ~HandlerRestarts
  PROVE  Spec => []NeverRefused
<1>1. Init => IInv /\ RestOK /\ OpenInv
  BY IInvInit, RestInit, CompletionInit
<1>2. IInv /\ RestOK /\ OpenInv /\ [Next]_vars => (IInv /\ RestOK /\ OpenInv)'
  BY IInvNext, RestStep, OpenStep
<1>3. OpenInv => NeverRefused
  BY DEF OpenInv, NeverRefused
<1>. QED
  BY <1>1, <1>2, <1>3, PTL DEF Spec

\* When no Error is thrown and the transaction is begun once, the session is
\* closed only after every main and afterCompletion participant that has begun
\* has been told to commit or to roll back, whoever drives it.
THEOREM NobodyIsLeftOpen ==
  ASSUME ~MayError, ~HandlerRestarts
  PROVE  Spec => []NoneLeftOpen
<1>1. Init => IInv /\ RestOK /\ OpenInv /\ ToldInv
  BY IInvInit, RestInit, CompletionInit
<1>2. IInv /\ RestOK /\ OpenInv /\ ToldInv /\ [Next]_vars => (IInv /\ RestOK /\ OpenInv /\ ToldInv)'
  BY IInvNext, RestStep, OpenStep, ToldStep
<1>3. ToldInv => NoneLeftOpen
  BY DEF ToldInv, NoneLeftOpen, AllTold, Told
<1>. QED
  BY <1>1, <1>2, <1>3, PTL DEF Spec

\* When no Error is thrown, setRollbackOnly() is honoured by the filter and by
\* runJobInTransaction, even when a handler begins the transaction anew.
THEOREM RollbackOnlyIsSafe ==
  ASSUME ~MayError
  PROVE  Spec => []RollbackOnlyHonoured
<1>1. Init => IInv /\ RestOK /\ HonourInv
  BY IInvInit, RestInit, CompletionInit
<1>2. IInv /\ RestOK /\ HonourInv /\ [Next]_vars => (IInv /\ RestOK /\ HonourInv)'
  BY IInvNext, RestStep, HonourStep
<1>3. HonourInv => RollbackOnlyHonoured
  BY DEF HonourInv
<1>. QED
  BY <1>1, <1>2, <1>3, PTL DEF Spec

=============================================================================

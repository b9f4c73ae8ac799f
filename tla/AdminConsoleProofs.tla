-------------------------- MODULE AdminConsoleProofs --------------------------
(***************************************************************************)
(* Safety of the admin console's shell on top of the adapter, for any       *)
(* number of requests: the spinner counts them, a notification is not taken *)
(* away by another one's timeout, and no request is sent without a token.   *)
(***************************************************************************)
EXTENDS AdminConsole, KeycloakJsProofs, FiniteSetTheorems

Sent == {r \in Calls : req[r] = "sent"}

\* A request waits only for an updateToken that has not succeeded.
AskingInv == \A r \in Calls : req[r] = "token" => call[r] # "ok"

SpinnerInv == IsFiniteSet(Sent) /\ SpinnerMatchesRequests

ConsoleInv == JsInv /\ ConsoleTypeOK /\ AskingInv /\ SpinnerInv /\ TimeoutOfShown

-----------------------------------------------------------------------------
(* The adapter below the console *)

\* errorInterceptor's logout and location.reload() change nothing but the page.
PageOnly ==
    /\ page' \in {"open", "leaving", "gone"}
    /\ UNCHANGED <<initVars, tokenVars, callVars, exchange, frame, loop, callbackList, iframeVars,
                   ssoVars>>

\* A step of the console is one of the adapter, or changes the page only.
LEMMA ConsoleStepOfAdapter ==
  ASSUME ConsoleTypeOK, TypeOK, [ConsoleNext]_allVars
  PROVE  [Next]_vars \/ PageOnly
<1>1. CASE AdapterStep
  <2>1. PageStep({{}}) => PageStep(SUBSET Calls)
    BY DEF PageStep
  <2>. QED
    BY <1>1, <2>1 DEF AdapterStep, Next, AppStep
<1>2. ASSUME NEW r \in Calls, Http(r) PROVE [Next]_vars
  BY <1>2 DEF Http, Next, AppStep, Pending
<1>3. ASSUME NEW r \in Calls, Unauthorized(r) PROVE PageOnly
  BY <1>3 DEF Unauthorized, PageOnly, LeaveIf, TypeOK
<1>4. CASE Reloaded
  BY <1>4 DEF Reloaded, PageOnly
<1>5. CASE UNCHANGED vars
  BY <1>5
<1>. QED
  BY <1>1, <1>2, <1>3, <1>4, <1>5
     DEF ConsoleNext, LoadResourceBundle, WhoAmI, HttpWithoutToken, Send, SendQuiet, Response, SpinnerTimeout,
         NoteClosed, NoteTimeout, Remove, allVars

\* The adapter's invariant holds below the console.
LEMMA AdapterInvKept ==
  ASSUME ConsoleTypeOK, JsInv, [ConsoleNext]_allVars
  PROVE  JsInv'
<1>1. CASE [Next]_vars
  BY <1>1, JsInvStep
<1>2. CASE PageOnly
  <2>1. /\ UNCHANGED <<opt, cont, initP, token, refreshable, sid, skew, fresh, timer, call, refreshQueue,
                       refreshes, exchange, frame, loop, callbackList, asked, answers, iframe, cookie, alive>>
        /\ page' \in {"open", "leaving", "gone"}
    BY <1>2 DEF PageOnly, initVars, tokenVars, callVars, iframeVars, ssoVars
  <2>2. TypeOK'
    BY <2>1 DEF JsInv, TypeOK
  <2>3. QueueInv'
    BY <2>1, QueuesUnchanged DEF JsInv
  <2>4. (PhaseInv /\ TokenInv /\ RefreshInv /\ AnswerInv /\ RejectInv)'
    BY <2>1, EnvironmentKeeps
  <2>. QED
    BY <2>2, <2>3, <2>4 DEF JsInv
<1>. QED
  BY <1>1, <1>2, ConsoleStepOfAdapter DEF JsInv

-----------------------------------------------------------------------------
(* The spinner *)

\* The state of the requests that are sent has not changed.
LEMMA SpinnerUnchanged ==
  ASSUME SpinnerInv, Sent' = Sent, UNCHANGED spinnerVars
  PROVE  SpinnerInv'
  BY DEF SpinnerInv, SpinnerMatchesRequests, Sent, spinnerVars

\* A request is counted when it is sent.
LEMMA SendKeepsSpinner ==
  ASSUME ConsoleTypeOK, SpinnerInv, NEW r \in Calls, Send(r)
  PROVE  SpinnerInv'
<1>1. Sent' = Sent \cup {r} /\ r \notin Sent
  BY DEF Send, Sent, ConsoleTypeOK
<1>2. /\ IsFiniteSet(Sent \cup {r})
      /\ Cardinality(Sent \cup {r}) = Cardinality(Sent) + 1
      /\ Cardinality(Sent) \in Nat
  BY <1>1, FS_AddElement, FS_CardinalityType DEF SpinnerInv
<1>3. /\ resourceRequests = Cardinality(Sent) - uncounted
      /\ resourceRequests \in Int /\ uncounted \in Nat
  BY DEF SpinnerInv, SpinnerMatchesRequests, Sent, ConsoleTypeOK
<1>4. /\ resourceRequests' = Cardinality(Sent') - uncounted' /\ IsFiniteSet(Sent')
      /\ resourceRequests' > 0 <=> (resourceRequests > 0 \/ resourceRequests = 0)
      /\ resourceRequests > 0 => resourceRequests # 0
  BY <1>1, <1>2, <1>3 DEF Send
<1>5. /\ (loadingTimer' \/ loading') <=> resourceRequests' > 0
      /\ ~(loadingTimer' /\ loading')
  <2>. DEFINE some == resourceRequests > 0
              none == resourceRequests = 0
              more == resourceRequests' > 0
  <2>1. /\ (loadingTimer \/ loading) <=> some
        /\ ~(loadingTimer /\ loading)
    BY DEF SpinnerInv, SpinnerMatchesRequests
  <2>2. loadingTimer' = (loadingTimer \/ none) /\ loading' = loading
    BY DEF Send
  <2>3. (more <=> some \/ none) /\ (some => ~none)
    BY <1>4
  <2>. HIDE DEF some, none, more
  <2>4. loadingTimer' <=> (loadingTimer \/ none)
    BY <2>2, Zenon
  <2>5. ((loadingTimer' \/ loading') <=> more) /\ ~(loadingTimer' /\ loading')
    BY <2>1, <2>2, <2>3, <2>4, Zenon
  <2>. QED
    BY <2>5 DEF more
<1>. QED
  BY <1>4, <1>5 DEF SpinnerInv, SpinnerMatchesRequests, Sent

\* spinnerInterceptor: a step down from one puts the spinner away, any other leaves it.
LEMMA StepDown ==
  ASSUME ConsoleTypeOK, SpinnerMatchesRequests, SpinnerInterceptor
  PROVE  /\ (loadingTimer' \/ loading') <=> resourceRequests' > 0
         /\ ~(loadingTimer' /\ loading')
         /\ loadingTimer' \in BOOLEAN /\ loading' \in BOOLEAN
<1>. DEFINE some == resourceRequests > 0
            none == resourceRequests' = 0
            more == resourceRequests' > 0
<1>1. (more <=> some /\ ~none)
  BY DEF ConsoleTypeOK, SpinnerInterceptor
<1>2. /\ (loadingTimer \/ loading) <=> some
      /\ ~(loadingTimer /\ loading)
      /\ loadingTimer' = (loadingTimer /\ ~none) /\ loading' = (loading /\ ~none)
  BY DEF SpinnerMatchesRequests, SpinnerInterceptor
<1>. HIDE DEF some, none, more
<1>3. /\ loadingTimer' <=> (loadingTimer /\ ~none)
      /\ loading' <=> (loading /\ ~none)
      /\ loadingTimer' \in BOOLEAN /\ loading' \in BOOLEAN
  BY <1>2, Zenon
<1>4. ((loadingTimer' \/ loading') <=> more) /\ ~(loadingTimer' /\ loading')
  BY <1>1, <1>2, <1>3, Zenon
<1>. QED
  BY <1>3, <1>4 DEF more

\* A response or an error takes one off the count, whether it was counted or not.
LEMMA AnswerKeepsSpinner ==
  ASSUME ConsoleTypeOK, SpinnerInv, NEW r \in Calls, Answered(r)
  PROVE  /\ SpinnerInv' /\ resourceRequests' \in Int /\ uncounted' \in Nat
         /\ resourceRequests' + uncounted' >= 0
         /\ loadingTimer' \in BOOLEAN /\ loading' \in BOOLEAN
<1>0. /\ (loadingTimer' \/ loading') <=> resourceRequests' > 0
      /\ ~(loadingTimer' /\ loading')
      /\ loadingTimer' \in BOOLEAN /\ loading' \in BOOLEAN
  BY StepDown DEF Answered, SpinnerInv
<1>1. /\ resourceRequests = Cardinality(Sent) - uncounted /\ IsFiniteSet(Sent)
      /\ resourceRequests \in Int /\ uncounted \in Nat /\ Cardinality(Sent) \in Nat
      /\ resourceRequests' = resourceRequests - 1
  BY FS_CardinalityType DEF SpinnerInv, SpinnerMatchesRequests, Sent, ConsoleTypeOK, Answered, SpinnerInterceptor
<1>2. CASE req[r] = "sent"
  <2>1. Sent' = Sent \ {r} /\ r \in Sent /\ uncounted' = uncounted
    BY <1>2 DEF Sent, ConsoleTypeOK, Answered
  <2>2. /\ IsFiniteSet(Sent \ {r}) /\ Cardinality(Sent \ {r}) = Cardinality(Sent) - 1
        /\ Cardinality(Sent \ {r}) \in Nat
    BY <1>1, <2>1, FS_RemoveElement, FS_CardinalityType
  <2>3. /\ resourceRequests' = Cardinality(Sent') - uncounted' /\ IsFiniteSet(Sent')
        /\ resourceRequests' \in Int /\ uncounted' \in Nat /\ resourceRequests' + uncounted' >= 0
    BY <1>1, <2>1, <2>2
  <2>. QED
    BY <1>0, <2>3 DEF SpinnerInv, SpinnerMatchesRequests, Sent
<1>3. CASE req[r] = "quiet"
  <2>1. Sent' = Sent /\ uncounted' = uncounted + 1
    BY <1>3 DEF Sent, ConsoleTypeOK, Answered
  <2>2. /\ resourceRequests' = Cardinality(Sent') - uncounted' /\ IsFiniteSet(Sent')
        /\ resourceRequests' \in Int /\ uncounted' \in Nat /\ resourceRequests' + uncounted' >= 0
    BY <1>1, <2>1
  <2>. QED
    BY <1>0, <2>2 DEF SpinnerInv, SpinnerMatchesRequests, Sent
<1>. QED
  BY <1>2, <1>3 DEF Answered

-----------------------------------------------------------------------------
(* The invariant *)

\* The console starts without requests and notifications.
LEMMA ConsoleInvInit == ConsoleInit => ConsoleInv
<1>. SUFFICES ASSUME ConsoleInit PROVE ConsoleInv
  OBVIOUS
<1>1. Sent = {}
  BY DEF ConsoleInit, Sent
<1>2. SpinnerInv
  BY <1>1, FS_EmptySet DEF ConsoleInit, SpinnerInv, SpinnerMatchesRequests, Sent
<1>3. resourceRequests \in Int /\ uncounted \in Nat /\ resourceRequests + uncounted >= 0
  BY DEF ConsoleInit
<1>4. ConsoleTypeOK /\ AskingInv /\ TimeoutOfShown
  BY <1>3 DEF ConsoleInit, ConsoleTypeOK, AskingInv, TimeoutOfShown
<1>. QED
  BY <1>2, <1>4, JsInvInit DEF ConsoleInit, ConsoleInv

ConsoleParts == ConsoleTypeOK /\ AskingInv /\ SpinnerInv /\ TimeoutOfShown

\* A task of the adapter lets the requests go on whose updateToken succeeded.
LEMMA AdapterStepKeeps ==
  ASSUME ConsoleInv, AdapterStep
  PROVE  ConsoleParts'
<1>1. ConsoleTypeOK'
  BY DEF ConsoleInv, AdapterStep, Intercepted, Started, Reload, ConsoleTypeOK, spinnerVars, noteVars
<1>2. AskingInv'
  BY DEF ConsoleInv, AdapterStep, Intercepted, AskingInv
<1>3. Sent' = Sent
  BY DEF ConsoleInv, AdapterStep, Intercepted, Sent, ConsoleTypeOK
<1>4. SpinnerInv'
  BY <1>3, SpinnerUnchanged DEF ConsoleInv, AdapterStep
<1>5. TimeoutOfShown'
  BY DEF ConsoleInv, AdapterStep, TimeoutOfShown, noteVars
<1>. QED
  BY <1>1, <1>2, <1>4, <1>5 DEF ConsoleParts

\* Start up and a request that is made.
LEMMA RequestKeeps ==
  ASSUME ConsoleInv, LoadResourceBundle \/ WhoAmI \/ \E r \in Calls : HttpWithoutToken(r) \/ Http(r)
  PROVE  ConsoleParts'
<1>0. /\ call \in [Callers -> {"idle", "force", "min", "ok", "error"}]
      /\ Calls \subseteq Callers
      /\ UNCHANGED <<spinnerVars, noteVars>>
  BY DEF ConsoleInv, JsInv, TypeOK, Callers, LoadResourceBundle, WhoAmI, HttpWithoutToken, Http
<1>1. ConsoleTypeOK'
  BY <1>0 DEF ConsoleInv, ConsoleTypeOK, LoadResourceBundle, WhoAmI, HttpWithoutToken, Http, spinnerVars, noteVars
<1>2. AskingInv'
  <2>1. ASSUME NEW r \in Calls, Http(r) PROVE AskingInv'
    <3>1. \A c \in Callers : c # r => call'[c] = call[c]
      BY <2>1, <1>0 DEF Http, UpdateToken, CallUpdateToken, Exec
    <3>. QED
      BY <2>1, <3>1, <1>0 DEF Http, ConsoleInv, AskingInv, ConsoleTypeOK
  <2>. QED
    BY <2>1 DEF LoadResourceBundle, WhoAmI, HttpWithoutToken, ConsoleInv, AskingInv, ConsoleTypeOK, vars, callVars
<1>3. Sent' = Sent
  BY DEF LoadResourceBundle, WhoAmI, HttpWithoutToken, Http, ConsoleInv, Sent, ConsoleTypeOK
<1>4. SpinnerInv' /\ TimeoutOfShown'
  BY <1>0, <1>3, SpinnerUnchanged DEF ConsoleInv, TimeoutOfShown, noteVars
<1>. QED
  BY <1>1, <1>2, <1>4 DEF ConsoleParts

\* A request is sent.
LEMMA SendKeeps ==
  ASSUME ConsoleInv, NEW r \in Calls, Send(r) \/ SendQuiet(r)
  PROVE  ConsoleParts'
<1>1. CASE Send(r)
  <2>1. SpinnerInv'
    BY <1>1, SendKeepsSpinner DEF ConsoleInv
  <2>2. ConsoleTypeOK' /\ AskingInv' /\ TimeoutOfShown'
    BY <1>1 DEF ConsoleInv, Send, ConsoleTypeOK, AskingInv, TimeoutOfShown, noteVars, vars, callVars
  <2>. QED
    BY <2>1, <2>2 DEF ConsoleParts
<1>2. CASE SendQuiet(r)
  <2>1. Sent' = Sent
    BY <1>2 DEF SendQuiet, Sent, ConsoleInv, ConsoleTypeOK
  <2>2. SpinnerInv'
    BY <1>2, <2>1, SpinnerUnchanged DEF SendQuiet, ConsoleInv
  <2>3. ConsoleTypeOK' /\ AskingInv' /\ TimeoutOfShown'
    BY <1>2 DEF ConsoleInv, SendQuiet, ConsoleTypeOK, AskingInv, TimeoutOfShown, spinnerVars, noteVars, vars, callVars
  <2>. QED
    BY <2>2, <2>3 DEF ConsoleParts
<1>. QED
  BY <1>1, <1>2

\* A request is answered, and a notification may take the place of another one.
LEMMA AnswerKeeps ==
  ASSUME ConsoleInv, NEW r \in Calls, Response(r) \/ Unauthorized(r)
  PROVE  ConsoleParts'
<1>1. /\ Answered(r) /\ req' = [req EXCEPT ![r] = "idle"]
      /\ UNCHANGED <<call, up, reloading>> /\ (Message \/ UNCHANGED noteVars)
  BY DEF Response, Unauthorized, Answered, vars, callVars
<1>2. /\ SpinnerInv' /\ resourceRequests' \in Int /\ uncounted' \in Nat
      /\ resourceRequests' + uncounted' >= 0
      /\ loadingTimer' \in BOOLEAN /\ loading' \in BOOLEAN
  BY <1>1, AnswerKeepsSpinner DEF ConsoleInv
<1>3. shown' \in Note \cup {0} /\ scheduled' \subseteq Note /\ TimeoutOfShown'
  BY <1>1 DEF Message, ConsoleInv, ConsoleTypeOK, TimeoutOfShown, Note, noteVars
<1>4. ConsoleTypeOK' /\ AskingInv'
  BY <1>1, <1>2, <1>3 DEF ConsoleInv, ConsoleTypeOK, AskingInv
<1>. QED
  BY <1>2, <1>3, <1>4 DEF ConsoleParts

\* The timers of the spinner and of the notifications, and the reload.
LEMMA TimerKeeps ==
  ASSUME ConsoleInv,
         \/ SpinnerTimeout \/ NoteClosed \/ \E n \in Note : NoteTimeout(n)
         \/ Reloaded \/ UNCHANGED allVars
  PROVE  ConsoleParts'
<1>1. UNCHANGED <<req, call, up, reloading, resourceRequests, uncounted>>
  BY DEF SpinnerTimeout, NoteClosed, NoteTimeout, Remove, Reloaded, consoleVars, spinnerVars, allVars, vars, callVars
<1>2. AskingInv' /\ Sent' = Sent
  BY <1>1 DEF ConsoleInv, AskingInv, Sent
<1>3. CASE SpinnerTimeout
  <2>1. SpinnerInv'
    BY <1>1, <1>2, <1>3 DEF SpinnerTimeout, ConsoleInv, ConsoleTypeOK, SpinnerInv, SpinnerMatchesRequests, Sent
  <2>2. ConsoleTypeOK' /\ TimeoutOfShown'
    BY <1>1, <1>3 DEF SpinnerTimeout, ConsoleInv, ConsoleTypeOK, TimeoutOfShown, noteVars
  <2>. QED
    BY <1>2, <2>1, <2>2 DEF ConsoleParts
<1>4. CASE UNCHANGED spinnerVars
  <2>1. SpinnerInv'
    BY <1>2, <1>4, SpinnerUnchanged DEF ConsoleInv
  <2>2. shown' \in Note \cup {0} /\ scheduled' \subseteq Note /\ TimeoutOfShown'
    <3>1. CASE NoteClosed \/ \E n \in Note : NoteTimeout(n)
      BY <3>1 DEF NoteClosed, NoteTimeout, Remove, ConsoleInv, ConsoleTypeOK, TimeoutOfShown
    <3>2. CASE UNCHANGED noteVars
      BY <3>2 DEF ConsoleInv, ConsoleTypeOK, TimeoutOfShown, noteVars
    <3>. QED
      BY <3>1, <3>2 DEF SpinnerTimeout, Reloaded, consoleVars, allVars
  <2>3. ConsoleTypeOK'
    BY <1>1, <1>4, <2>2 DEF ConsoleInv, ConsoleTypeOK, spinnerVars
  <2>. QED
    BY <1>2, <2>1, <2>2, <2>3 DEF ConsoleParts
<1>. QED
  BY <1>3, <1>4 DEF NoteClosed, NoteTimeout, Remove, Reloaded, consoleVars, allVars

\* Every step of the console keeps the invariant.
LEMMA ConsoleInvStep ==
  ASSUME ConsoleInv, [ConsoleNext]_allVars
  PROVE  ConsoleInv'
<1>1. JsInv'
  BY AdapterInvKept DEF ConsoleInv
<1>2. ConsoleParts'
  BY AdapterStepKeeps, RequestKeeps, SendKeeps, AnswerKeeps, TimerKeeps DEF ConsoleNext
<1>. QED
  BY <1>1, <1>2 DEF ConsoleInv, ConsoleParts

\* A request becomes ready only when the adapter has a token.
LEMMA ReadyHasToken ==
  ASSUME ConsoleInv, [ConsoleNext]_allVars, NEW r \in Calls, req[r] # "ready", req'[r] = "ready"
  PROVE  token' # NoSession
<1>0. r \in Callers /\ req \in [Calls -> {"idle", "token", "hung", "ready", "sent", "quiet"}]
  BY DEF Callers, ConsoleInv, ConsoleTypeOK
<1>1. CASE AdapterStep
  <2>1. call[r] # "ok" /\ call'[r] = "ok"
    BY <1>0, <1>1 DEF AdapterStep, Intercepted, ConsoleInv, AskingInv
  <2>2. Next
    BY <1>1 DEF AdapterStep, Next, AppStep, PageStep
  <2>. QED
    BY <2>1, <2>2, <1>0, SuccessHasToken DEF ConsoleInv
<1>2. ASSUME NEW q \in Calls, Http(q) PROVE token' # NoSession
  BY <1>2 DEF Http, UpdateToken, tokenVars
<1>3. ASSUME NEW q \in Calls, HttpWithoutToken(q) \/ Send(q) \/ SendQuiet(q) \/ Response(q) \/ Unauthorized(q)
      PROVE  FALSE
  BY <1>0, <1>3 DEF HttpWithoutToken, Send, SendQuiet, Response, Unauthorized, Answered
<1>4. CASE UNCHANGED req
  BY <1>4
<1>. QED
  BY <1>1, <1>2, <1>3, <1>4
     DEF ConsoleNext, LoadResourceBundle, WhoAmI, SpinnerTimeout, NoteClosed, NoteTimeout, Remove, Reloaded,
         consoleVars, allVars

-----------------------------------------------------------------------------
\* Every reachable state of the console is well typed; the spinner's counter falls
\* below zero by no more than the uncounted requests that were answered.
THEOREM ConsoleTypeCorrect == ConsoleSpec => []ConsoleTypeOK
<1>1. ConsoleInv => ConsoleTypeOK
  BY DEF ConsoleInv
<1>. QED
  BY <1>1, ConsoleInvInit, ConsoleInvStep, PTL DEF ConsoleSpec

\* resourceRequests in app.js is the number of counted requests under way less the
\* uncounted ones answered so far (those with a transformRequest of their own, which
\* spinnerInterceptor subtracts all the same), and the spinner or its timer is there
\* exactly while it is positive.
THEOREM SpinnerCounts == ConsoleSpec => []SpinnerMatchesRequests
<1>1. ConsoleInv => SpinnerMatchesRequests
  BY DEF ConsoleInv, SpinnerInv
<1>. QED
  BY <1>1, ConsoleInvInit, ConsoleInvStep, PTL DEF ConsoleSpec

\* The Notifications service leaves no $timeout behind but that of the notification
\* on display.
THEOREM NotificationKept == ConsoleSpec => []TimeoutOfShown
<1>1. ConsoleInv => TimeoutOfShown
  BY DEF ConsoleInv
<1>. QED
  BY <1>1, ConsoleInvInit, ConsoleInvStep, PTL DEF ConsoleSpec

\* When authInterceptor resolves a request, the adapter has a token to put in its
\* Authorization header.
THEOREM HeaderSafe == ConsoleSpec => HeaderHasToken
<1>1. ConsoleInv /\ [ConsoleNext]_allVars =>
        [\A r \in Calls : req[r] # "ready" /\ req'[r] = "ready" => token' # NoSession]_allVars
  BY ReadyHasToken
<1>. QED
  BY <1>1, ConsoleInvInit, ConsoleInvStep, PTL DEF ConsoleSpec, HeaderHasToken

\* The guarantees of the adapter hold in the console too, which calls it from its
\* interceptors and may unload the page at any moment.
THEOREM AdapterSafeInConsole == ConsoleSpec => [](QueuesMatchRequests /\ RejectedMeansNoToken)
<1>1. ConsoleInv => QueuesMatchRequests /\ RejectedMeansNoToken
  BY DEF ConsoleInv, JsInv, QueueInv, RejectInv, RejectedMeansNoToken, Checked
<1>. QED
  BY <1>1, ConsoleInvInit, ConsoleInvStep, PTL DEF ConsoleSpec

=============================================================================

--------------------------- MODULE KeycloakJsProofs ---------------------------
(***************************************************************************)
(* Safety of the JavaScript adapter, for any options, any sessions and any  *)
(* number of updateToken calls: its queues match the requests on their way, *)
(* a rejected login leaves no token, and a good token is not cleared.       *)
(***************************************************************************)
EXTENDS KeycloakJs, TLAPS

\* The login or the tokens of initOptions are still to be processed.
Unprocessed == cont = "config" \/ (frame = "loading" /\ opt.boot = "code")

\* Somebody has, or may get, a new token by way of the refresh token.
Renewing == refreshable \/ refreshQueue # {} \/ callbackList \cap Calls # {}

NoLogin == opt.boot \in {"none", "error", "errorNone"}

\* What the queues need besides: init's call never waits for the iframe, and
\* the iframe keeps the message it asks the server about.
QueueInv ==
    /\ QueuesMatchRequests
    /\ InitCall \notin callbackList
    /\ iframe = "init" => asked # <<>>

\* The order in which init goes: configuration, iframe, code exchange.
PhaseInv ==
    /\ cont = "config" => frame = "none"
    /\ frame # "ready" => ~loop /\ callbackList = {}
    /\ exchange # "none" =>
         opt.boot = "code" /\ cont # "config" /\ frame # "loading" /\ (opt.iframe => frame = "ready")
    /\ Renewing => exchange = "none" /\ ~Unprocessed

\* Every token, and the session kc knows, is of the login this page was opened with.
TokenInv ==
    /\ token \in {opt.session, NoSession}
    /\ sid \in {opt.session, NoSession}
    /\ refreshable => token # NoSession
    /\ token # NoSession \/ Renewing => sid # NoSession
    /\ Unprocessed \/ NoLogin => token = NoSession /\ sid = NoSession
    /\ NoLogin => ~Renewing
    /\ opt.boot = "tokens" /\ frame # "none" => sid # NoSession

\* A refresh request is one for the token at hand.
RefreshInv ==
    \A i \in DOMAIN refreshes :
        /\ refreshes[i].session \in {opt.session, NoSession}
        /\ token # NoSession => refreshes[i].session = token
        /\ refreshes[i].st = "granted" => refreshes[i].session # NoSession

\* The browser has left the session for good.
Left == cookie # opt.session \/ opt.session \notin alive

\* A question about no session is asked once, before the iframe knows a session,
\* and the answer "changed" means that the browser has left the session.
AnswerInv ==
    /\ opt.boot = "code" /\ sid = NoSession /\ (loop \/ frame # "ready") =>
         callbackList = {} /\ iframe = "new"
    /\ asked # <<>> =>
         \/ Head(asked) = opt.session
         \/ NoLogin
         \/ Head(asked) = NoSession /\ iframe # "ready"
    /\ answers # <<>> /\ Head(answers) = "changed" => NoLogin \/ Left

\* The flows in which a wrong nonce cannot be followed by a refresh: there is no
\* refresh token, or updateToken asks the iframe first.
Checked == opt.boot = "code" /\ (opt.flow = "implicit" \/ (opt.flow = "standard" /\ opt.iframe))

\* Until init has succeeded such a page has no token and only refresh requests
\* without one, and a failure comes last.
RejectInv ==
    Checked =>
        /\ InitCall \notin refreshQueue
        /\ initP # "ok" => /\ token = NoSession /\ ~refreshable
                           /\ \A i \in DOMAIN refreshes : refreshes[i].session = NoSession
        /\ initP = "failed" => exchange = "none" /\ ~Unprocessed
        /\ opt.flow = "implicit" => exchange = "none"

JsInv ==
    /\ TypeOK /\ QueueInv
    /\ PhaseInv /\ TokenInv /\ RefreshInv /\ AnswerInv /\ RejectInv

-----------------------------------------------------------------------------
(* Types *)

\* The options of this page are options.
LEMMA OptTypes ==
  ASSUME TypeOK
  PROVE  /\ opt.session \in Sessions /\ opt.boot \in Boot /\ opt.flow \in Flow
         /\ opt.onLoad \in OnLoad /\ opt.iframe \in BOOLEAN
<1>1. opt \in Option
  BY OptionsAssumption DEF TypeOK
<1>. QED
  BY <1>1 DEF Option

\* The page starts without a token and without requests.
LEMMA InitTypes == Init => TypeOK
<1>. SUFFICES ASSUME Init PROVE TypeOK
  OBVIOUS
<1>1. opt \in Option /\ opt.session \in Sessions
  BY OptionsAssumption DEF Init, Option
<1>2. cookie \in Sessions \cup {NoSession} /\ alive \subseteq Sessions
  BY <1>1 DEF Init
<1>3. call \in [Callers -> {"idle", "force", "min", "ok", "error"}]
  BY DEF Init
<1>4. /\ refreshes \in Seq(Refresh) /\ asked \in Seq(Sessions \cup {NoSession})
      /\ answers \in Seq(Answer)
  BY DEF Init
<1>. QED
  BY <1>2, <1>3, <1>4 DEF Init, TypeOK

\* exec keeps the types of the calls, the queue and the requests.
LEMMA ExecTypes ==
  ASSUME TypeOK, NEW cs \in SUBSET Callers, NEW kinds \in [Callers -> {"idle", "force", "min", "ok", "error"}],
         NEW t \in Sessions \cup {NoSession}, NEW k, NEW f,
         Exec(cs, kinds, t, k, f)
  PROVE  /\ call' \in [Callers -> {"idle", "force", "min", "ok", "error"}]
         /\ refreshQueue' \subseteq Callers /\ refreshes' \in Seq(Refresh)
<1>1. [session |-> t, st |-> "sent"] \in Refresh
  BY DEF Refresh
<1>. QED
  BY <1>1 DEF Exec, TypeOK

\* setToken keeps the types of the token's variables.
LEMMA SetTokenTypes ==
  ASSUME TypeOK, NEW s \in Sessions \cup {NoSession}, NEW r \in BOOLEAN, NEW timed \in BOOLEAN,
         SetToken(s, r, timed)
  PROVE  /\ token' \in Sessions \cup {NoSession} /\ sid' \in Sessions \cup {NoSession}
         /\ refreshable' \in BOOLEAN /\ skew' \in BOOLEAN /\ fresh' \in BOOLEAN /\ timer' \in BOOLEAN
  BY DEF SetToken, TypeOK

\* updateToken keeps the types of the calls, the queues and the requests.
LEMMA CallTypes ==
  ASSUME TypeOK, NEW cs \in SUBSET Calls, NEW kind \in Pending, NEW r,
         NEW t \in Sessions \cup {NoSession}, NEW k, NEW f,
         NEW s \in Sessions \cup {NoSession},
         CallUpdateToken(cs, kind, r, t, k, f, s)
  PROVE  /\ call' \in [Callers -> {"idle", "force", "min", "ok", "error"}]
         /\ refreshQueue' \subseteq Callers /\ refreshes' \in Seq(Refresh)
         /\ callbackList' \subseteq Waiting /\ asked' \in Seq(Sessions \cup {NoSession})
<1>0. cs \in SUBSET Callers /\ cs \subseteq Waiting
  BY DEF Callers, Waiting
<1>1. CASE /\ call' = [c \in Callers |-> IF c \in cs THEN "error" ELSE call[c]]
           /\ UNCHANGED <<refreshQueue, refreshes, callbackList, asked>>
  BY <1>1 DEF TypeOK
<1>2. CASE /\ call' = [c \in Callers |-> IF c \in cs THEN kind ELSE call[c]] /\ CheckLoginIframe(cs, s)
           /\ UNCHANGED <<refreshQueue, refreshes>>
  BY <1>0, <1>2 DEF TypeOK, CheckLoginIframe, Pending
<1>3. CASE /\ Exec(cs, [c \in Callers |-> IF c \in cs THEN kind ELSE call[c]], t, k, f)
           /\ UNCHANGED <<callbackList, asked>>
  <2>. DEFINE kinds == [c \in Callers |-> IF c \in cs THEN kind ELSE call[c]]
  <2>1. /\ kinds \in [Callers -> {"idle", "force", "min", "ok", "error"}]
        /\ Exec(cs, kinds, t, k, f)
    BY <1>3 DEF TypeOK, Pending
  <2>. HIDE DEF kinds
  <2>2. /\ call' \in [Callers -> {"idle", "force", "min", "ok", "error"}]
        /\ refreshQueue' \subseteq Callers /\ refreshes' \in Seq(Refresh)
    BY <1>0, <2>1, ExecTypes
  <2>. QED
    BY <1>3, <2>2 DEF TypeOK
<1>. QED
  BY <1>1, <1>2, <1>3 DEF CallUpdateToken

\* authSuccess keeps the types of what it sets.
LEMMA AuthSuccessTypes ==
  ASSUME TypeOK, NEW r \in BOOLEAN, NEW fulfill \in BOOLEAN,
         AuthSuccess(opt.session, r, fulfill)
  PROVE  /\ token' \in Sessions \cup {NoSession} /\ sid' \in Sessions \cup {NoSession}
         /\ refreshable' \in BOOLEAN /\ skew' \in BOOLEAN /\ fresh' \in BOOLEAN /\ timer' \in BOOLEAN
         /\ initP' \in {"pending", "ok", "failed"} /\ page' \in {"open", "leaving", "gone"}
<1>1. opt.session \in Sessions
  BY OptTypes
<1>2. CASE SetToken(opt.session, r, TRUE) /\ initP' \in {initP, "ok"} /\ UNCHANGED page
  BY <1>1, <1>2, SetTokenTypes DEF TypeOK
<1>3. CASE /\ token' = NoSession /\ refreshable' = FALSE
           /\ fresh' = FALSE /\ timer' = FALSE
           /\ sid' = opt.session /\ skew' = TRUE
           /\ SettleInit("failed")
           /\ LeaveIf(opt.onLoad = "login-required")
  BY <1>1, <1>3 DEF TypeOK, SettleInit, LeaveIf
<1>. QED
  BY <1>2, <1>3 DEF AuthSuccess, SettleInit

\* processCallback keeps the types of what it sets.
LEMMA ProcessCallbackTypes ==
  ASSUME TypeOK, ProcessCallback
  PROVE  /\ token' \in Sessions \cup {NoSession} /\ sid' \in Sessions \cup {NoSession}
         /\ refreshable' \in BOOLEAN /\ skew' \in BOOLEAN /\ fresh' \in BOOLEAN /\ timer' \in BOOLEAN
         /\ initP' \in {"pending", "ok", "failed"} /\ page' \in {"open", "leaving", "gone"}
         /\ exchange' \in {"none", "sent", "granted", "refused"}
         /\ cont' = "none" /\ UNCHANGED callVars
<1>1. CASE opt.boot = "code" /\ opt.flow # "standard"
  BY <1>1, AuthSuccessTypes DEF ProcessCallback, TypeOK
<1>2. CASE ~(opt.boot = "code" /\ opt.flow # "standard")
  BY <1>2 DEF ProcessCallback, TypeOK, SettleInit, tokenVars
<1>. QED
  BY <1>1, <1>2

\* The settled calls, and those that wait for the iframe, keep their types.
LEMMA SettleQueueTypes ==
  ASSUME TypeOK, NEW cs \in SUBSET Calls, NEW result \in {"ok", "error"}, SettleQueue(cs, result),
         sid' \in Sessions \cup {NoSession}
  PROVE  /\ call' \in [Callers -> {"idle", "force", "min", "ok", "error"}]
         /\ refreshQueue' \subseteq Callers /\ callbackList' \subseteq Waiting
         /\ asked' \in Seq(Sessions \cup {NoSession})
<1>1. cs \subseteq Waiting
  BY DEF Waiting, Callers
<1>. QED
  BY <1>1 DEF SettleQueue, CheckLoginIframe, TypeOK

\* What init becomes when its own calls are settled.
LEMMA InitSettledTypes ==
  ASSUME TypeOK, NEW result \in {"ok", "error"}, NEW b \in BOOLEAN,
         InitCallSettled(result) \/ InitSessionChecked(b)
  PROVE  cont' \in {cont, "none"} /\ initP' \in {"pending", "ok", "failed"}
  BY DEF InitCallSettled, InitSessionChecked, SettleInit, TypeOK

\* init: every way it can go on keeps the types.
LEMMA InitStepTypes ==
  ASSUME TypeOK,
         \/ ConfigLoaded \/ ConfigFailed \/ IframeLoaded
         \/ \E cs \in SUBSET Calls : ExchangeAnswered(cs)
  PROVE  TypeOK'
<1>0. opt.session \in Sessions
  BY OptTypes
<1>1. CASE ConfigLoaded
  <2>. USE <1>1 DEF ConfigLoaded
  <2>0. UNCHANGED <<opt, loop, callbackList, asked, answers, iframe, cookie, alive>>
    BY DEF iframeVars, ssoVars
  <2>1. CASE InitFromCallback
    <3>1. CASE ProcessCallback /\ UNCHANGED frame
      BY <2>0, <3>1, ProcessCallbackTypes DEF TypeOK, callVars
    <3>2. CASE /\ cont' = "onload" /\ frame' = "loading"
               /\ UNCHANGED <<initP, page, tokenVars, callVars, exchange>>
      BY <2>0, <3>2 DEF TypeOK, tokenVars, callVars
    <3>. QED
      BY <2>1, <3>1, <3>2 DEF InitFromCallback
  <2>2. CASE InitFromTokens
    <3>1. /\ token' \in Sessions \cup {NoSession} /\ sid' \in Sessions \cup {NoSession}
          /\ refreshable' \in BOOLEAN /\ skew' \in BOOLEAN /\ fresh' \in BOOLEAN /\ timer' \in BOOLEAN
      BY <2>2, <1>0, SetTokenTypes DEF InitFromTokens
    <3>2. /\ call' \in [Callers -> {"idle", "force", "min", "ok", "error"}]
          /\ refreshQueue' \subseteq Callers /\ refreshes' \in Seq(Refresh)
      <4>1. CASE UNCHANGED callVars
        BY <4>1 DEF callVars, TypeOK
      <4>2. CASE Exec({InitCall}, [call EXCEPT ![InitCall] = "force"], token', skew', fresh')
        <5>. DEFINE kinds == [call EXCEPT ![InitCall] = "force"]
        <5>1. kinds \in [Callers -> {"idle", "force", "min", "ok", "error"}]
          BY DEF TypeOK
        <5>2. {InitCall} \in SUBSET Callers
          BY DEF Callers
        <5>3. Exec({InitCall}, kinds, token', skew', fresh')
          BY <4>2
        <5>. HIDE DEF kinds
        <5>. QED
          BY <3>1, <5>1, <5>2, <5>3, ExecTypes
      <4>. QED
        BY <2>2, <4>1, <4>2 DEF InitFromTokens
    <3>. QED
      BY <2>0, <2>2, <3>1, <3>2 DEF InitFromTokens, TypeOK
  <2>3. CASE InitFromNothing
    BY <2>0, <2>3 DEF InitFromNothing, DoOnLoad, LeaveIf, SettleInit, TypeOK, tokenVars, callVars
  <2>. QED
    BY <2>1, <2>2, <2>3
<1>2. CASE ConfigFailed
  BY <1>2 DEF ConfigFailed, SettleInit, TypeOK, tokenVars, callVars, iframeVars, ssoVars
<1>3. CASE IframeLoaded
  <2>0. /\ UNCHANGED <<opt, answers, iframe, cookie, alive>>
        /\ frame' = "ready" /\ loop' = TRUE
    BY <1>3 DEF IframeLoaded, ssoVars
  <2>1. CASE ProcessCallback /\ UNCHANGED <<callbackList, asked>>
    BY <2>0, <2>1, ProcessCallbackTypes DEF TypeOK, callVars
  <2>2. CASE /\ CheckLoginIframe({"session"}, sid) /\ cont' = "session"
             /\ UNCHANGED <<initP, page, tokenVars, callVars, exchange>>
    BY <2>0, <2>2 DEF TypeOK, callVars, tokenVars, CheckLoginIframe, Waiting
  <2>. QED
    BY <1>3, <2>1, <2>2 DEF IframeLoaded
<1>4. ASSUME NEW cs \in SUBSET Calls, ExchangeAnswered(cs) PROVE TypeOK'
  <2>0. /\ exchange' = "none"
        /\ UNCHANGED <<opt, cont, frame, loop, answers, iframe, cookie, alive>>
    BY <1>4 DEF ExchangeAnswered, ssoVars
  <2>1. CASE /\ AuthSuccess(opt.session, TRUE, opt.flow = "standard")
             /\ CallUpdateToken(cs, "min", TRUE, opt.session, TRUE, FALSE, opt.session)
    <3>1. "min" \in Pending
      BY DEF Pending
    <3>2. /\ call' \in [Callers -> {"idle", "force", "min", "ok", "error"}]
          /\ refreshQueue' \subseteq Callers /\ refreshes' \in Seq(Refresh)
          /\ callbackList' \subseteq Waiting /\ asked' \in Seq(Sessions \cup {NoSession})
      BY <1>0, <2>1, <3>1, CallTypes, Zenon
    <3>3. /\ token' \in Sessions \cup {NoSession} /\ sid' \in Sessions \cup {NoSession}
          /\ refreshable' \in BOOLEAN /\ skew' \in BOOLEAN /\ fresh' \in BOOLEAN /\ timer' \in BOOLEAN
          /\ initP' \in {"pending", "ok", "failed"} /\ page' \in {"open", "leaving", "gone"}
      BY <2>1, AuthSuccessTypes
    <3>. QED
      BY <2>0, <3>2, <3>3 DEF TypeOK
  <2>2. CASE SettleInit("failed") /\ UNCHANGED <<tokenVars, page, callVars, callbackList, asked>>
    BY <2>0, <2>2 DEF SettleInit, TypeOK, tokenVars, callVars
  <2>. QED
    BY <1>4, <2>1, <2>2 DEF ExchangeAnswered
<1>. QED
  BY <1>1, <1>2, <1>3, <1>4

\* The response to a refresh request leaves the others.
LEMMA RemoveTypes ==
  ASSUME NEW S, NEW s \in Seq(S), NEW i \in DOMAIN s
  PROVE  [j \in 1..(Len(s) - 1) |-> IF j < i THEN s[j] ELSE s[j + 1]] \in Seq(S)
<1>. DEFINE r == [j \in 1..(Len(s) - 1) |-> IF j < i THEN s[j] ELSE s[j + 1]]
<1>1. Len(s) \in Nat /\ i \in 1..Len(s) /\ \A j \in 1..Len(s) : s[j] \in S
  OBVIOUS
<1>2. Len(s) - 1 \in Nat /\ r \in [1..(Len(s) - 1) -> S]
  BY <1>1
<1>. QED
  BY <1>2

\* Calls of the application, responses and messages keep the types.
LEMMA CallStepTypes ==
  ASSUME TypeOK,
         \/ \E c \in Calls, kind \in Pending : UpdateToken(c, kind)
         \/ \E i \in DOMAIN refreshes, cs \in SUBSET Calls : RefreshAnswered(i, cs)
         \/ MessageReceived
  PROVE  TypeOK'
<1>1. ASSUME NEW c \in Calls, NEW kind \in Pending, UpdateToken(c, kind)
      PROVE  TypeOK'
  <2>0. UNCHANGED <<opt, cont, initP, page, token, refreshable, sid, skew, fresh, timer, exchange,
                    frame, loop, answers, iframe, cookie, alive>>
    BY <1>1 DEF UpdateToken, initVars, tokenVars, ssoVars
  <2>c. PICK cs \in SUBSET Calls : cs = {c}
    OBVIOUS
  <2>u. CallUpdateToken(cs, kind, refreshable, token, skew, fresh, sid)
    BY <1>1, <2>c DEF UpdateToken
  <2>1. token \in Sessions \cup {NoSession} /\ sid \in Sessions \cup {NoSession}
    BY DEF TypeOK
  <2>2. /\ call' \in [Callers -> {"idle", "force", "min", "ok", "error"}]
        /\ refreshQueue' \subseteq Callers /\ refreshes' \in Seq(Refresh)
        /\ callbackList' \subseteq Waiting /\ asked' \in Seq(Sessions \cup {NoSession})
    BY <2>u, <2>1, CallTypes, Zenon
  <2>. QED
    BY <2>0, <2>2 DEF TypeOK
<1>2. ASSUME NEW i \in DOMAIN refreshes, NEW cs \in SUBSET Calls, RefreshAnswered(i, cs)
      PROVE  TypeOK'
  <2>0. UNCHANGED <<opt, exchange, frame, loop, answers, iframe, cookie, alive>>
    BY <1>2 DEF RefreshAnswered, ssoVars
  <2>1. refreshes \in Seq(Refresh) /\ refreshes[i].session \in Sessions \cup {NoSession}
    <3>1. refreshes \in Seq(Refresh) /\ refreshes[i] \in Refresh
      BY DEF TypeOK
    <3>. QED
      BY <3>1 DEF Refresh
  <2>2. refreshes' \in Seq(Refresh)
    BY <1>2, <2>1, RemoveTypes DEF RefreshAnswered
  <2>4. /\ token' \in Sessions \cup {NoSession} /\ sid' \in Sessions \cup {NoSession}
        /\ refreshable' \in BOOLEAN /\ skew' \in BOOLEAN /\ fresh' \in BOOLEAN /\ timer' \in BOOLEAN
    <3>1. CASE SetToken(refreshes[i].session, TRUE, TRUE)
      BY <2>1, <3>1, SetTokenTypes
    <3>2. CASE DeleteToken \/ UNCHANGED tokenVars
      BY <3>2 DEF DeleteToken, tokenVars, TypeOK
    <3>. QED
      BY <1>2, <3>1, <3>2 DEF RefreshAnswered
  <2>3. /\ call' \in [Callers -> {"idle", "force", "min", "ok", "error"}]
        /\ refreshQueue' \subseteq Callers /\ callbackList' \subseteq Waiting
        /\ asked' \in Seq(Sessions \cup {NoSession})
    BY <1>2, <2>4, SettleQueueTypes DEF RefreshAnswered
  <2>5. cont' \in {cont, "none"} /\ initP' \in {"pending", "ok", "failed"}
    BY <1>2, InitSettledTypes DEF RefreshAnswered
  <2>6. page' \in {"open", "leaving", "gone"}
    BY <1>2 DEF RefreshAnswered, LeaveIf, TypeOK
  <2>. QED
    BY <2>0, <2>2, <2>3, <2>4, <2>5, <2>6 DEF TypeOK
<1>3. CASE MessageReceived
  <2>0. /\ UNCHANGED <<opt, exchange, frame, loop, asked, iframe, cookie, alive>>
        /\ answers' = Tail(answers) /\ answers # <<>> /\ callbackList' = {}
    BY <1>3 DEF MessageReceived, ssoVars
  <2>1. /\ call' \in [Callers -> {"idle", "force", "min", "ok", "error"}]
        /\ refreshQueue' \subseteq Callers /\ refreshes' \in Seq(Refresh)
    <3>1. CASE Exec(callbackList \cap Calls, call, token, skew, fresh)
      <4>1. /\ callbackList \cap Calls \in SUBSET Callers /\ token \in Sessions \cup {NoSession}
            /\ skew \in BOOLEAN /\ fresh \in BOOLEAN
            /\ call \in [Callers -> {"idle", "force", "min", "ok", "error"}]
        BY DEF TypeOK, Callers
      <4>. QED
        BY <3>1, <4>1, ExecTypes
    <3>2. CASE /\ call' = [c \in Callers |-> IF c \in callbackList THEN "error" ELSE call[c]]
               /\ UNCHANGED <<refreshQueue, refreshes>>
      BY <3>2 DEF TypeOK
    <3>. QED
      BY <1>3, <3>1, <3>2 DEF MessageReceived
  <2>2. /\ token' \in Sessions \cup {NoSession} /\ sid' \in Sessions \cup {NoSession}
        /\ refreshable' \in BOOLEAN /\ skew' \in BOOLEAN /\ fresh' \in BOOLEAN /\ timer' \in BOOLEAN
    BY <1>3 DEF MessageReceived, DeleteToken, tokenVars, TypeOK
  <2>3. cont' \in {cont, "none"} /\ initP' \in {"pending", "ok", "failed"}
    BY <1>3, InitSettledTypes DEF MessageReceived
  <2>4. page' \in {"open", "leaving", "gone"}
    BY <1>3 DEF MessageReceived, LeaveIf, TypeOK
  <2>5. answers' \in Seq(Answer)
    BY <2>0 DEF TypeOK
  <2>. QED
    BY <2>0, <2>1, <2>2, <2>3, <2>4, <2>5 DEF TypeOK
<1>. QED
  BY <1>1, <1>2, <1>3

\* Timers, the iframe, the server and the other tabs keep the types.
LEMMA OtherStepTypes ==
  ASSUME TypeOK, iframe = "init" => asked # <<>>,
         \/ Check \/ TokenTimeout \/ Unload \/ AppClearToken \/ AppLeaves
         \/ IframeReceives \/ IframeInitAnswered
         \/ ExchangeHandled \/ \E i \in DOMAIN refreshes : RefreshHandled(i)
         \/ Environment
  PROVE  TypeOK'
<1>1. CASE Check
  BY <1>1 DEF Check, CheckLoginIframe, TypeOK, Waiting, initVars, tokenVars, callVars, ssoVars
<1>2. CASE TokenTimeout \/ TokenExpires
  <2>1. /\ timer' \in BOOLEAN /\ fresh' \in BOOLEAN
        /\ UNCHANGED <<initVars, page, token, refreshable, sid, skew, callVars, exchange, frame,
                       loop, callbackList, iframeVars, ssoVars>>
    BY <1>2 DEF TokenTimeout, TokenExpires, TypeOK
  <2>. QED
    BY <2>1 DEF TypeOK, initVars, callVars, iframeVars, ssoVars
<1>3. CASE Unload \/ AppLeaves
  <2>1. /\ page' \in {"open", "leaving", "gone"}
        /\ UNCHANGED <<initVars, tokenVars, callVars, exchange, frame, loop, callbackList, iframeVars, ssoVars>>
    BY <1>3 DEF Unload, AppLeaves, LeaveIf, TypeOK
  <2>. QED
    BY <2>1 DEF TypeOK, initVars, tokenVars, callVars, iframeVars, ssoVars
<1>4. CASE AppClearToken
  <2>1. /\ page' \in {"open", "leaving", "gone"}
        /\ UNCHANGED <<initVars, callVars, exchange, frame, loop, callbackList, iframeVars, ssoVars>>
    BY <1>4 DEF AppClearToken, LeaveIf, TypeOK
  <2>2. /\ token' \in Sessions \cup {NoSession} /\ refreshable' \in BOOLEAN
        /\ fresh' \in BOOLEAN /\ timer' \in BOOLEAN /\ UNCHANGED <<sid, skew>>
    BY <1>4 DEF AppClearToken, DeleteToken
  <2>. QED
    BY <2>1, <2>2 DEF TypeOK, initVars, callVars, iframeVars, ssoVars
<1>5. CASE IframeReceives \/ IframeInitAnswered
  <2>1. "changed" \in Answer /\ "unchanged" \in Answer /\ "error" \in Answer
    BY DEF Answer
  <2>2. /\ asked \in Seq(Sessions \cup {NoSession}) /\ answers \in Seq(Answer)
        /\ asked # <<>>
    BY <1>5 DEF TypeOK, IframeReceives, IframeInitAnswered
  <2>3. \A a \in Answer : Append(answers, a) \in Seq(Answer)
    BY <2>2
  <2>4. Tail(asked) \in Seq(Sessions \cup {NoSession})
    BY <2>2
  <2>5. answers' = answers \/ \E a \in Answer : answers' = Append(answers, a)
    BY <1>5, <2>1 DEF IframeReceives, IframeInitAnswered
  <2>6. /\ asked' = asked \/ asked' = Tail(asked)
        /\ iframe' \in {"new", "init", "ready"}
        /\ UNCHANGED <<initVars, page, tokenVars, callVars, exchange, frame, loop, callbackList, ssoVars>>
    BY <1>5 DEF IframeReceives, IframeInitAnswered, TypeOK
  <2>7. asked' \in Seq(Sessions \cup {NoSession}) /\ answers' \in Seq(Answer)
    BY <2>2, <2>3, <2>4, <2>5, <2>6
  <2>. QED
    BY <2>6, <2>7 DEF TypeOK, initVars, tokenVars, callVars, ssoVars
<1>6. CASE ExchangeHandled
  BY <1>6 DEF ExchangeHandled, TypeOK, initVars, tokenVars, callVars, iframeVars, ssoVars
<1>7. ASSUME NEW i \in DOMAIN refreshes, RefreshHandled(i) PROVE TypeOK'
  <2>1. PICK st \in {"granted", "denied", "failed"} : refreshes' = [refreshes EXCEPT ![i].st = st]
    BY <1>7 DEF RefreshHandled, RefreshAccessToken
  <2>2. refreshes \in Seq(Refresh) /\ i \in 1..Len(refreshes) /\ refreshes[i] \in Refresh
    BY DEF TypeOK
  <2>3. ASSUME NEW r \in Refresh PROVE [r EXCEPT !.st = st] \in Refresh
    BY DEF Refresh
  <2>4. refreshes' \in Seq(Refresh)
    BY <2>1, <2>2, <2>3
  <2>. QED
    BY <1>7, <2>4 DEF RefreshHandled, TypeOK, initVars, tokenVars, iframeVars, ssoVars
<1>8. CASE Environment
  <2>1. CASE TokenExpires
    BY <2>1, <1>2
  <2>2. CASE ~TokenExpires
    <3>1. /\ UNCHANGED <<initVars, page, tokenVars, callVars, exchange, frame, loop, callbackList, iframeVars>>
          /\ cookie' \in Sessions \cup {NoSession} /\ alive' \subseteq Sessions
      BY <1>8, <2>2 DEF Environment, LogoutElsewhere, LoginElsewhere, SessionExpires, TypeOK
    <3>. QED
      BY <3>1 DEF TypeOK, initVars, tokenVars, callVars, iframeVars
  <2>. QED
    BY <2>1, <2>2
<1>. QED
  BY <1>1, <1>2, <1>3, <1>4, <1>5, <1>6, <1>7, <1>8

-----------------------------------------------------------------------------
(* Queues *)

\* Append makes a sequence one longer.
LEMMA AppendOne ==
  ASSUME NEW S, NEW s \in Seq(S), NEW e \in S
  PROVE  Append(s, e) \in Seq(S) /\ Len(Append(s, e)) = Len(s) + 1 /\ Append(s, e) # <<>>
<1>1. Append(s, e) \in Seq(S) /\ Len(Append(s, e)) = Len(s) + 1 /\ Len(s) \in Nat
  OBVIOUS
<1>. QED
  BY <1>1

\* The calls cs, in the states kinds, have succeeded or joined the queue.
Joined(cs, kinds) ==
    /\ refreshQueue \subseteq refreshQueue' /\ refreshQueue' \subseteq refreshQueue \cup cs
    /\ \A c \in Callers \ cs : call'[c] = kinds[c]
    /\ \A c \in cs : \/ call'[c] = "ok" /\ (c \in refreshQueue' => c \in refreshQueue)
                     \/ call'[c] = kinds[c] /\ c \in refreshQueue'

OneRequest == Len(refreshes) = IF refreshQueue = {} THEN 0 ELSE 1

\* exec: the calls that need a refresh, and no others, join the queue, and there
\* is a request whenever there is a queue.
LEMMA ExecQueues ==
  ASSUME TypeOK, NEW cs \in SUBSET Callers, NEW kinds \in [Callers -> {"idle", "force", "min", "ok", "error"}],
         NEW t \in Sessions \cup {NoSession}, NEW k \in BOOLEAN, NEW f \in BOOLEAN,
         OneRequest,
         Exec(cs, kinds, t, k, f)
  PROVE  OneRequest' /\ Joined(cs, kinds)
<1>. DEFINE need == {c \in cs : NeedsRefresh(kinds[c], t, k, f)}
<1>1. /\ call' = [c \in Callers |-> IF c \in cs \ need THEN "ok" ELSE kinds[c]]
      /\ refreshQueue' = refreshQueue \cup need
      /\ refreshes' = IF refreshQueue = {} /\ need # {}
                      THEN Append(refreshes, [session |-> t, st |-> "sent"])
                      ELSE refreshes
  BY DEF Exec
<1>2. need \in SUBSET cs
  OBVIOUS
<1>. HIDE DEF need
<1>3. Len(Append(refreshes, [session |-> t, st |-> "sent"])) = Len(refreshes) + 1
  <2>1. \A s, e : s \in Seq(Refresh) => Len(Append(s, e)) = Len(s) + 1
    OBVIOUS
  <2>. QED
    BY <2>1 DEF TypeOK
<1>. QED
  BY <1>1, <1>2, <1>3 DEF OneRequest, Joined

\* checkLoginIframe: there is a message on its way whenever somebody waits.
LEMMA CheckQueues ==
  ASSUME TypeOK, NEW ps \in SUBSET Waiting, NEW s \in Sessions \cup {NoSession}, CheckLoginIframe(ps, s),
         Len(asked) + Len(answers) = IF callbackList = {} THEN 0 ELSE 1
  PROVE  /\ callbackList' = callbackList \cup ps
         /\ Len(asked') + Len(answers) = IF callbackList' = {} THEN 0 ELSE 1
         /\ asked # <<>> => asked' # <<>>
<1>1. /\ asked \in Seq(Sessions \cup {NoSession}) /\ Len(answers) \in Nat
  BY DEF TypeOK
<1>2. /\ Len(Append(asked, s)) = Len(asked) + 1
      /\ Append(asked, s) # <<>>
  BY <1>1, AppendOne
<1>. QED
  BY <1>1, <1>2 DEF CheckLoginIframe

\* A step that neither settles nor starts a call.
LEMMA QueuesUnchanged ==
  ASSUME QueueInv, UNCHANGED <<call, refreshQueue, callbackList, asked, answers, iframe>>,
         Len(refreshes') = Len(refreshes)
  PROVE  QueueInv'
  BY DEF QueueInv, QueuesMatchRequests

\* updateToken puts every call in one queue.
LEMMA CallQueues ==
  ASSUME TypeOK, QueueInv, NEW cs \in SUBSET Calls, NEW kind \in Pending, NEW r \in BOOLEAN,
         NEW t \in Sessions \cup {NoSession}, NEW k \in BOOLEAN, NEW f \in BOOLEAN,
         NEW s \in Sessions \cup {NoSession},
         CallUpdateToken(cs, kind, r, t, k, f, s), UNCHANGED <<answers, iframe>>
  PROVE  QueueInv'
<1>0. /\ Len(refreshes) = IF refreshQueue = {} THEN 0 ELSE 1
      /\ Len(asked) + Len(answers) = IF callbackList = {} THEN 0 ELSE 1
      /\ refreshQueue \cap callbackList = {}
      /\ \A d \in Callers : call[d] \in Pending <=> d \in refreshQueue \cup callbackList
      /\ InitCall \notin callbackList
      /\ iframe = "init" => asked # <<>>
      /\ OneRequest
  BY DEF QueueInv, QueuesMatchRequests, OneRequest
<1>1. /\ cs \in SUBSET Callers /\ InitCall \notin cs /\ cs \in SUBSET Waiting
      /\ \A c \in cs : call[c] \notin Pending
  BY NamesAssumption DEF CallUpdateToken, Callers, Waiting
<1>2. CASE /\ call' = [c \in Callers |-> IF c \in cs THEN "error" ELSE call[c]]
           /\ UNCHANGED <<refreshQueue, refreshes, callbackList, asked>>
  <2>1. \A d \in Callers : call'[d] \in Pending <=> d \in refreshQueue \cup callbackList
    BY <1>0, <1>1, <1>2 DEF Pending
  <2>. QED
    BY <1>0, <1>2, <2>1 DEF QueueInv, QueuesMatchRequests
<1>3. CASE /\ call' = [c \in Callers |-> IF c \in cs THEN kind ELSE call[c]] /\ CheckLoginIframe(cs, s)
           /\ UNCHANGED <<refreshQueue, refreshes>>
  <2>1. /\ callbackList' = callbackList \cup cs
        /\ Len(asked') + Len(answers) = IF callbackList' = {} THEN 0 ELSE 1
        /\ asked # <<>> => asked' # <<>>
    BY <1>0, <1>1, <1>3, CheckQueues
  <2>2. \A c \in cs : c \notin refreshQueue
    BY <1>0, <1>1
  <2>3. \A d \in Callers : call'[d] = IF d \in cs THEN kind ELSE call[d]
    BY <1>1, <1>3
  <2>4. refreshQueue \cap callbackList' = {} /\ InitCall \notin callbackList'
    BY <1>0, <1>1, <2>1, <2>2
  <2>5. \A d \in Callers : call'[d] \in Pending <=> d \in refreshQueue \cup callbackList'
    BY <1>0, <2>1, <2>3
  <2>. QED
    BY <1>0, <1>3, <2>1, <2>4, <2>5 DEF QueueInv, QueuesMatchRequests
<1>4. CASE /\ Exec(cs, [c \in Callers |-> IF c \in cs THEN kind ELSE call[c]], t, k, f)
           /\ UNCHANGED <<callbackList, asked>>
  <2>. DEFINE kinds == [c \in Callers |-> IF c \in cs THEN kind ELSE call[c]]
  <2>1. /\ Exec(cs, kinds, t, k, f)
        /\ kinds \in [Callers -> {"idle", "force", "min", "ok", "error"}]
        /\ \A d \in Callers : kinds[d] = IF d \in cs THEN kind ELSE call[d]
    BY <1>1, <1>4 DEF TypeOK, Pending
  <2>. HIDE DEF kinds
  <2>2. OneRequest' /\ Joined(cs, kinds)
    BY <2>1, <1>0, <1>1, ExecQueues
  <2>3. \A c \in cs : c \notin callbackList /\ c \notin refreshQueue
    BY <1>0, <1>1
  <2>4. refreshQueue' \cap callbackList = {}
    BY <1>0, <2>2, <2>3 DEF Joined
  <2>5. \A d \in Callers : call'[d] \in Pending <=> d \in refreshQueue' \cup callbackList
    BY <1>0, <1>1, <2>1, <2>2, <2>3 DEF Pending, Joined
  <2>. QED
    BY <1>0, <1>4, <2>2, <2>4, <2>5 DEF QueueInv, QueuesMatchRequests, OneRequest
<1>. QED
  BY <1>2, <1>3, <1>4 DEF CallUpdateToken

\* updateToken called by the application
LEMMA UpdateTokenQueues ==
  ASSUME TypeOK, QueueInv, NEW c \in Calls, NEW kind \in Pending, UpdateToken(c, kind)
  PROVE  QueueInv'
<1>1. /\ {c} \in SUBSET Calls /\ UNCHANGED <<answers, iframe>>
      /\ CallUpdateToken({c}, kind, refreshable, token, skew, fresh, sid)
  BY DEF UpdateToken
<1>2. /\ token \in Sessions \cup {NoSession} /\ sid \in Sessions \cup {NoSession}
      /\ refreshable \in BOOLEAN /\ skew \in BOOLEAN /\ fresh \in BOOLEAN
  BY DEF TypeOK
<1>. QED
  BY <1>1, <1>2, CallQueues

\* The response to the code exchange: onTokenExpired may start calls.
LEMMA ExchangeQueues ==
  ASSUME TypeOK, QueueInv, NEW cs \in SUBSET Calls, ExchangeAnswered(cs)
  PROVE  QueueInv'
<1>1. CASE CallUpdateToken(cs, "min", TRUE, opt.session, TRUE, FALSE, opt.session)
  <2>1. opt.session \in Sessions /\ "min" \in Pending /\ UNCHANGED <<answers, iframe>>
    BY OptTypes DEF ExchangeAnswered, Pending
  <2>. QED
    BY <1>1, <2>1, CallQueues
<1>2. CASE UNCHANGED <<callVars, callbackList, asked>>
  BY <1>2, QueuesUnchanged DEF ExchangeAnswered, callVars
<1>. QED
  BY <1>1, <1>2 DEF ExchangeAnswered

\* The response settles the whole queue; the calls made meanwhile wait for the
\* iframe or are settled with the queue.
LEMMA RefreshAnsweredQueues ==
  ASSUME TypeOK, QueueInv, NEW i \in DOMAIN refreshes, NEW cs \in SUBSET Calls, RefreshAnswered(i, cs),
         sid' \in Sessions \cup {NoSession}
  PROVE  QueueInv' /\ refreshes' = <<>> /\ refreshQueue' = {} /\ i = 1 /\ refreshQueue # {}
<1>0. /\ Len(refreshes) = IF refreshQueue = {} THEN 0 ELSE 1
      /\ Len(asked) + Len(answers) = IF callbackList = {} THEN 0 ELSE 1
      /\ refreshQueue \cap callbackList = {}
      /\ \A d \in Callers : call[d] \in Pending <=> d \in refreshQueue \cup callbackList
      /\ InitCall \notin callbackList
      /\ iframe = "init" => asked # <<>>
  BY DEF QueueInv, QueuesMatchRequests
<1>1. PICK result \in {"ok", "error"} : SettleQueue(cs, result)
  BY DEF RefreshAnswered
<1>2. /\ UNCHANGED <<answers, iframe>>
      /\ \A c \in cs : c \in Callers /\ c # InitCall /\ call[c] \notin Pending
      /\ cs \in SUBSET Waiting
  BY NamesAssumption DEF RefreshAnswered, Callers, Waiting
<1>3. i = 1 /\ Len(refreshes) = 1 /\ refreshQueue # {}
  BY <1>0 DEF TypeOK
<1>4. refreshes' = <<>>
  <2>1. refreshes' = [j \in 1..(Len(refreshes) - 1) |->
                        IF j < i THEN refreshes[j] ELSE refreshes[j + 1]]
    BY DEF RefreshAnswered
  <2>2. DOMAIN refreshes' = {} /\ refreshes' \in Seq(Refresh)
    BY <2>1, <1>3, RemoveTypes DEF TypeOK
  <2>. QED
    BY <2>2
<1>. DEFINE wait == IF refreshable' /\ frame = "ready" THEN cs ELSE {}
            join == {c \in cs \ wait : NeedsRefresh("min", token', skew', fresh')}
<1>5. /\ call' = [c \in Callers |->
                      IF c \in wait THEN "min"
                      ELSE IF c \in cs /\ ~refreshable' THEN "error"
                      ELSE IF c \in refreshQueue \cup join THEN result
                      ELSE IF c \in cs THEN "ok"
                      ELSE call[c]]
      /\ CheckLoginIframe(wait, sid') /\ refreshQueue' = {}
  BY <1>1 DEF SettleQueue
<1>6. wait \subseteq cs /\ join \subseteq cs \ wait /\ (wait # {} => wait = cs /\ refreshable')
  OBVIOUS
<1>. HIDE DEF wait, join
<1>7. \A c \in Callers :
         /\ c \in wait => call'[c] = "min"
         /\ c \in refreshQueue \cup cs /\ c \notin wait => call'[c] \in {"ok", "error"}
         /\ c \notin refreshQueue \cup cs => call'[c] = call[c]
  <2>. SUFFICES ASSUME NEW c \in Callers
                PROVE  /\ c \in wait => call'[c] = "min"
                       /\ c \in refreshQueue \cup cs /\ c \notin wait => call'[c] \in {"ok", "error"}
                       /\ c \notin refreshQueue \cup cs => call'[c] = call[c]
    OBVIOUS
  <2>1. call'[c] = IF c \in wait THEN "min"
                   ELSE IF c \in cs /\ ~refreshable' THEN "error"
                   ELSE IF c \in refreshQueue \cup join THEN result
                   ELSE IF c \in cs THEN "ok"
                   ELSE call[c]
    BY <1>5
  <2>2. c \in cs => c \notin refreshQueue
    BY <1>0, <1>2
  <2>. QED
    BY <2>1, <2>2, <1>6
<1>8. /\ callbackList' = callbackList \cup wait
      /\ Len(asked') + Len(answers) = IF callbackList' = {} THEN 0 ELSE 1
      /\ asked # <<>> => asked' # <<>>
  BY <1>0, <1>2, <1>5, <1>6, CheckQueues
<1>9. \A c \in Callers : call'[c] \in Pending <=> c \in callbackList'
  BY <1>0, <1>2, <1>6, <1>7, <1>8 DEF Pending
<1>10. InitCall \notin callbackList'
  BY <1>0, <1>2, <1>6, <1>8
<1>. QED
  BY <1>0, <1>2, <1>3, <1>4, <1>5, <1>8, <1>9, <1>10 DEF QueueInv, QueuesMatchRequests

\* A message settles everybody who waits for the iframe, or passes the calls on
\* to the queue of the refresh.
LEMMA MessageQueues ==
  ASSUME TypeOK, QueueInv, MessageReceived
  PROVE  QueueInv' /\ asked = <<>> /\ answers' = <<>> /\ callbackList # {} /\ iframe # "init"
<1>0. /\ Len(refreshes) = IF refreshQueue = {} THEN 0 ELSE 1
      /\ Len(asked) + Len(answers) = IF callbackList = {} THEN 0 ELSE 1
      /\ refreshQueue \cap callbackList = {}
      /\ \A d \in Callers : call[d] \in Pending <=> d \in refreshQueue \cup callbackList
      /\ InitCall \notin callbackList
      /\ iframe = "init" => asked # <<>>
      /\ OneRequest
  BY DEF QueueInv, QueuesMatchRequests, OneRequest
<1>1. /\ answers # <<>> /\ answers' = Tail(answers) /\ callbackList' = {}
      /\ UNCHANGED <<asked, iframe>>
  BY DEF MessageReceived
<1>2. /\ asked = <<>> /\ answers' = <<>> /\ callbackList # {}
  <2>1. asked \in Seq(Sessions \cup {NoSession}) /\ answers \in Seq(Answer)
    BY DEF TypeOK
  <2>2. Len(answers) \in Nat /\ Len(answers) > 0 /\ Len(asked) \in Nat
    BY <2>1, <1>1
  <2>3. Len(asked) = 0 /\ Len(answers) = 1 /\ callbackList # {}
    <3>1. CASE callbackList = {}
      BY <3>1, <2>2, <1>0
    <3>2. CASE callbackList # {}
      <4>1. Len(asked) + Len(answers) = 1
        BY <3>2, <1>0
      <4>2. \A m, n \in Nat : n > 0 /\ m + n = 1 => m = 0 /\ n = 1
        OBVIOUS
      <4>. QED
        BY <3>2, <4>1, <4>2, <2>2
    <3>. QED
      BY <3>1, <3>2
  <2>4. asked = <<>>
    BY <2>1, <2>3
  <2>5. Tail(answers) \in Seq(Answer) /\ Len(Tail(answers)) = 0
    BY <2>1, <2>3, <1>1
  <2>6. \A x \in Seq(Answer) : Len(x) = 0 => x = <<>>
    OBVIOUS
  <2>. QED
    BY <1>1, <2>3, <2>4, <2>5, <2>6
<1>3. CASE Exec(callbackList \cap Calls, call, token, skew, fresh)
  <2>. DEFINE cs == callbackList \cap Calls
  <2>1. /\ Exec(cs, call, token, skew, fresh) /\ cs \in SUBSET Callers
        /\ call \in [Callers -> {"idle", "force", "min", "ok", "error"}]
        /\ token \in Sessions \cup {NoSession} /\ skew \in BOOLEAN /\ fresh \in BOOLEAN
    BY <1>3 DEF TypeOK, Callers
  <2>2. \A d \in Callers : d \in cs <=> d \in callbackList
    BY <1>0 DEF Callers
  <2>. HIDE DEF cs
  <2>3. OneRequest' /\ Joined(cs, call)
    BY <2>1, <1>0, ExecQueues
  <2>4. \A d \in Callers : call'[d] \in Pending <=> d \in refreshQueue'
    BY <2>2, <2>3, <1>0 DEF Joined, Pending
  <2>. QED
    BY <2>3, <2>4, <1>0, <1>1, <1>2 DEF QueueInv, QueuesMatchRequests, OneRequest
<1>4. CASE /\ call' = [c \in Callers |-> IF c \in callbackList THEN "error" ELSE call[c]]
           /\ UNCHANGED <<refreshQueue, refreshes>>
  <2>1. \A d \in Callers : call'[d] \in Pending <=> d \in refreshQueue
    BY <1>0, <1>4 DEF Pending
  <2>. QED
    BY <2>1, <1>0, <1>1, <1>2, <1>4 DEF QueueInv, QueuesMatchRequests
<1>. QED
  BY <1>0, <1>2, <1>3, <1>4 DEF MessageReceived

\* The check of init and the periodic check wait in callbackList, but are no calls.
LEMMA CheckKeepsQueues ==
  ASSUME TypeOK, QueueInv, NEW p \in {"session", "check"}, CheckLoginIframe({p}, sid),
         UNCHANGED <<call, refreshQueue, refreshes, answers, iframe>>
  PROVE  QueueInv'
<1>0. /\ Len(asked) + Len(answers) = IF callbackList = {} THEN 0 ELSE 1
      /\ refreshQueue \cap callbackList = {} /\ refreshQueue \subseteq Callers
      /\ sid \in Sessions \cup {NoSession}
      /\ \A d \in Callers : call[d] \in Pending <=> d \in refreshQueue \cup callbackList
      /\ InitCall \notin callbackList
  BY DEF QueueInv, QueuesMatchRequests, TypeOK
<1>1. p \notin Callers /\ InitCall \in Callers /\ {p} \in SUBSET Waiting
  BY NamesAssumption DEF Callers, Waiting
<1>2. /\ callbackList' = callbackList \cup {p}
      /\ Len(asked') + Len(answers) = IF callbackList' = {} THEN 0 ELSE 1
      /\ asked # <<>> => asked' # <<>>
  BY <1>0, <1>1, CheckQueues
<1>3. /\ refreshQueue \cap callbackList' = {} /\ InitCall \notin callbackList'
      /\ \A d \in Callers : call[d] \in Pending <=> d \in refreshQueue \cup callbackList'
  BY <1>0, <1>1, <1>2
<1>. QED
  BY <1>2, <1>3 DEF QueueInv, QueuesMatchRequests

\* The iframe answers the message it takes.
LEMMA IframeQueues ==
  ASSUME TypeOK, QueueInv, IframeReceives \/ IframeInitAnswered
  PROVE  QueueInv'
<1>0. /\ asked \in Seq(Sessions \cup {NoSession}) /\ answers \in Seq(Answer)
      /\ Len(asked) + Len(answers) = IF callbackList = {} THEN 0 ELSE 1
      /\ asked # <<>>
  BY DEF QueueInv, QueuesMatchRequests, TypeOK, IframeReceives, IframeInitAnswered
<1>1. UNCHANGED <<call, refreshQueue, refreshes, callbackList>>
  BY DEF IframeReceives, IframeInitAnswered, callVars
<1>2. CASE asked' = Tail(asked) /\ iframe' # "init" /\ \E a \in Answer : answers' = Append(answers, a)
  <2>1. Len(answers') = Len(answers) + 1 /\ Len(answers) \in Nat
    BY <1>0, <1>2
  <2>2. Len(asked') = Len(asked) - 1
    BY <1>0, <1>2
  <2>3. Len(asked') + Len(answers') = Len(asked) + Len(answers)
    BY <2>1, <2>2, <1>0
  <2>. QED
    BY <1>0, <1>1, <1>2, <2>3 DEF QueueInv, QueuesMatchRequests
<1>3. CASE UNCHANGED <<asked, answers>>
  BY <1>0, <1>1, <1>3 DEF QueueInv, QueuesMatchRequests
<1>. QED
  BY <1>2, <1>3 DEF IframeReceives, IframeInitAnswered, Answer

\* The forced updateToken of init joins the queue of the refresh.
LEMMA InitFromTokensQueues ==
  ASSUME TypeOK, QueueInv, InitFromTokens, UNCHANGED <<callbackList, asked, answers, iframe>>
  PROVE  QueueInv'
<1>0. /\ refreshQueue \cap callbackList = {}
      /\ \A d \in Callers : call[d] \in Pending <=> d \in refreshQueue \cup callbackList
      /\ InitCall \notin callbackList
      /\ OneRequest
  BY DEF QueueInv, QueuesMatchRequests, OneRequest
<1>1. CASE UNCHANGED callVars
  BY <1>1, QueuesUnchanged DEF callVars
<1>2. CASE Exec({InitCall}, [call EXCEPT ![InitCall] = "force"], token', skew', fresh')
  <2>. DEFINE kinds == [call EXCEPT ![InitCall] = "force"]
              cs == {InitCall}
  <2>0. /\ token' \in Sessions \cup {NoSession} /\ skew' \in BOOLEAN /\ fresh' \in BOOLEAN
    BY OptTypes, SetTokenTypes DEF InitFromTokens
  <2>1. /\ Exec(cs, kinds, token', skew', fresh') /\ cs \in SUBSET Callers /\ cs = {InitCall}
        /\ kinds \in [Callers -> {"idle", "force", "min", "ok", "error"}]
        /\ \A d \in Callers : kinds[d] = IF d = InitCall THEN "force" ELSE call[d]
    BY <1>2 DEF TypeOK, Callers
  <2>. HIDE DEF kinds, cs
  <2>2. OneRequest' /\ Joined(cs, kinds)
    BY <2>0, <2>1, <1>0, ExecQueues
  <2>3. Joined({InitCall}, kinds) /\ kinds[InitCall] = "force"
    BY <2>1, <2>2 DEF Callers
  <2>4. call'[InitCall] # "ok"
    <3>1. NeedsRefresh(kinds[InitCall], token', skew', fresh')
      BY <2>3 DEF NeedsRefresh
    <3>. QED
      BY <3>1, <2>1, <2>3 DEF Exec
  <2>5. refreshQueue' \cap callbackList = {}
    BY <1>0, <2>3 DEF Joined
  <2>6. \A d \in Callers : call'[d] \in Pending <=> d \in refreshQueue' \cup callbackList
    BY <1>0, <2>1, <2>3, <2>4 DEF Pending, Joined
  <2>. QED
    BY <1>0, <2>2, <2>5, <2>6 DEF QueueInv, QueuesMatchRequests, OneRequest
<1>. QED
  BY <1>1, <1>2 DEF InitFromTokens

\* Every step keeps the types.
LEMMA TypeStep ==
  ASSUME TypeOK, QueueInv, [Next]_vars
  PROVE  TypeOK'
<1>1. iframe = "init" => asked # <<>>
  BY DEF QueueInv
<1>2. CASE UNCHANGED vars
  BY <1>2 DEF vars, TypeOK, initVars, tokenVars, callVars, iframeVars, ssoVars
<1>3. CASE Next
  BY <1>1, <1>3, InitStepTypes, CallStepTypes, OtherStepTypes DEF Next, PageStep, AppStep
<1>. QED
  BY <1>2, <1>3

\* "length == 1" is enough: every step of the adapter keeps the queues and the
\* requests in step.
LEMMA QueueStep ==
  ASSUME TypeOK, QueueInv, [Next]_vars
  PROVE  QueueInv'
<1>1. CASE ConfigLoaded \/ ConfigFailed
  <2>1. CASE InitFromTokens /\ ConfigLoaded
    BY <2>1, InitFromTokensQueues DEF ConfigLoaded, iframeVars
  <2>2. CASE ~(InitFromTokens /\ ConfigLoaded)
    <3>1. UNCHANGED <<callVars, callbackList, iframeVars>>
      BY <1>1, <2>2 DEF ConfigLoaded, ConfigFailed, InitFromCallback, InitFromNothing,
                        ProcessCallback, DoOnLoad
    <3>. QED
      BY <3>1, QueuesUnchanged DEF callVars, iframeVars
  <2>. QED
    BY <2>1, <2>2
<1>2. CASE IframeLoaded
  <2>1. CASE CheckLoginIframe({"session"}, sid) /\ UNCHANGED callVars
    BY <1>2, <2>1, CheckKeepsQueues DEF IframeLoaded, callVars
  <2>2. CASE ~(CheckLoginIframe({"session"}, sid) /\ UNCHANGED callVars)
    BY <1>2, <2>2, QueuesUnchanged DEF IframeLoaded, ProcessCallback, callVars
  <2>. QED
    BY <2>1, <2>2
<1>3. CASE Check
  BY <1>3, CheckKeepsQueues DEF Check, callVars
<1>4. ASSUME NEW i \in DOMAIN refreshes, RefreshHandled(i) PROVE QueueInv'
  <2>1. Len(refreshes') = Len(refreshes)
    BY <1>4 DEF RefreshHandled, TypeOK
  <2>. QED
    BY <1>4, <2>1, QueuesUnchanged DEF RefreshHandled, iframeVars
<1>5. CASE TokenTimeout \/ Unload \/ ExchangeHandled \/ AppClearToken \/ AppLeaves \/ Environment \/ UNCHANGED vars
  <2>1. UNCHANGED <<callVars, callbackList, iframeVars>>
    BY <1>5 DEF TokenTimeout, Unload, ExchangeHandled, AppClearToken, AppLeaves, Environment,
                TokenExpires, LogoutElsewhere, LoginElsewhere, SessionExpires, vars
  <2>. QED
    BY <2>1, QueuesUnchanged DEF callVars, iframeVars
<1>6. sid' \in Sessions \cup {NoSession}
  BY TypeStep DEF TypeOK
<1>. QED
  BY <1>1, <1>2, <1>3, <1>4, <1>5, <1>6, UpdateTokenQueues, ExchangeQueues, RefreshAnsweredQueues,
     MessageQueues, IframeQueues
     DEF Next, PageStep, AppStep

-----------------------------------------------------------------------------
(* Tokens, requests and answers *)

\* The page starts before any login is processed.
LEMMA JsInvInit == Init => JsInv
<1>. SUFFICES ASSUME Init PROVE JsInv
  OBVIOUS
<1>1. TypeOK
  BY InitTypes
<1>2. QueueInv
  BY DEF Init, QueueInv, QueuesMatchRequests, Pending
<1>3. PhaseInv /\ TokenInv
  BY DEF Init, PhaseInv, TokenInv, Renewing, Unprocessed
<1>4. RefreshInv /\ AnswerInv
  BY DEF Init, RefreshInv, AnswerInv
<1>5. RejectInv
  BY DEF Init, RejectInv, Renewing
<1>. QED
  BY <1>1, <1>2, <1>3, <1>4, <1>5 DEF JsInv

\* authSuccess, by what it does to the token and to init.
AuthEffect(r, fulfill) ==
    /\ sid' = opt.session
    /\ \/ /\ token' = opt.session /\ refreshable' = r
          /\ initP' = IF fulfill /\ initP = "pending" THEN "ok" ELSE initP
       \/ /\ token' = NoSession /\ refreshable' = FALSE
          /\ initP' = IF initP = "pending" THEN "failed" ELSE initP

\* authSuccess stores the tokens, or stores none and lets init fail.
LEMMA AuthSuccessEffect ==
  ASSUME NEW r \in BOOLEAN, NEW fulfill \in BOOLEAN, AuthSuccess(opt.session, r, fulfill)
  PROVE  AuthEffect(r, fulfill)
  BY DEF AuthSuccess, SetToken, SettleInit, AuthEffect

\* processCallback, by what it does to the token, to init and to the exchange.
CallbackEffect ==
    /\ cont' = "none" /\ UNCHANGED callVars
    /\ \/ /\ opt.boot \in {"error", "errorNone"}
          /\ UNCHANGED <<token, sid, refreshable, exchange>>
       \/ /\ opt.boot = "code" /\ opt.flow = "standard" /\ exchange' = "sent"
          /\ UNCHANGED <<token, sid, refreshable, initP>>
       \/ /\ opt.boot = "code" /\ opt.flow # "standard" /\ AuthEffect(FALSE, TRUE)
          /\ exchange' = IF opt.flow = "hybrid" THEN "sent" ELSE exchange

\* processCallback does one of three things.
LEMMA ProcessCallbackEffect ==
  ASSUME ProcessCallback
  PROVE  CallbackEffect
<1>1. CASE opt.boot = "code" /\ opt.flow # "standard"
  BY <1>1, AuthSuccessEffect DEF ProcessCallback, CallbackEffect
<1>2. CASE ~(opt.boot = "code" /\ opt.flow # "standard")
  BY <1>2 DEF ProcessCallback, CallbackEffect, tokenVars
<1>. QED
  BY <1>1, <1>2

\* A login is processed once, when there is no token and nothing to renew.
LEMMA CallbackKeeps ==
  ASSUME JsInv, Unprocessed \/ NoLogin, CallbackEffect,
         frame # "ready", frame' \in {"none", "ready"}, loop' = (frame' = "ready"),
         opt.iframe => frame' = "ready",
         UNCHANGED <<opt, callbackList, asked, answers, iframe, cookie, alive>>,
         opt.boot \in {"code", "error", "errorNone"}
  PROVE  (PhaseInv /\ TokenInv /\ RefreshInv /\ AnswerInv /\ RejectInv)'
<1>1. /\ callbackList = {} /\ exchange = "none" /\ ~Renewing
      /\ token = NoSession /\ sid = NoSession /\ refreshable = FALSE /\ refreshQueue = {}
  BY DEF JsInv, PhaseInv, TokenInv, TypeOK, Unprocessed, NoLogin, Renewing
<1>2. /\ refreshes = <<>> /\ UNCHANGED <<refreshes, refreshQueue>>
  <2>1. Len(refreshes) = 0 /\ refreshes \in Seq(Refresh)
    BY <1>1 DEF JsInv, QueueInv, QueuesMatchRequests, TypeOK
  <2>. QED
    BY <2>1 DEF CallbackEffect, callVars
<1>3. opt.session # NoSession
  BY OptTypes, NamesAssumption DEF JsInv
<1>4. /\ cont' = "none" /\ ~Unprocessed' /\ refreshable' = FALSE /\ ~Renewing'
      /\ sid' \in {opt.session, NoSession} /\ token' \in {sid', NoSession}
      /\ NoLogin => token' = NoSession /\ sid' = NoSession /\ exchange' = "none"
      /\ exchange' # "none" => opt.boot = "code"
  BY <1>1, <1>2 DEF CallbackEffect, AuthEffect, Unprocessed, Renewing, NoLogin
<1>5. PhaseInv'
  BY <1>1, <1>4 DEF PhaseInv
<1>6. TokenInv'
  BY <1>3, <1>4 DEF TokenInv, NoLogin
<1>7. RefreshInv'
  BY <1>2 DEF RefreshInv
<1>8. AnswerInv'
  <2>1. opt.boot = "code" => callbackList = {} /\ iframe = "new"
    BY <1>1 DEF JsInv, AnswerInv
  <2>2. asked = <<>> /\ answers = <<>>
    BY <1>1 DEF JsInv, QueueInv, QueuesMatchRequests, TypeOK
  <2>. QED
    BY <2>1, <2>2 DEF AnswerInv
<1>9. RejectInv'
  <2>. SUFFICES ASSUME Checked
                PROVE  /\ InitCall \notin refreshQueue'
                       /\ initP' # "ok" => token' = NoSession
                       /\ initP' = "failed" => exchange' = "none"
                       /\ opt.flow = "implicit" => exchange' = "none"
    BY <1>2, <1>4 DEF RejectInv, Checked
  <2>1. initP = "pending" \/ initP = "ok"
    BY DEF JsInv, RejectInv, TypeOK, NoLogin, Checked
  <2>. QED
    BY <2>1, <1>1, <1>2 DEF CallbackEffect, AuthEffect, Checked
<1>. QED
  BY <1>5, <1>6, <1>7, <1>8, <1>9

\* The configuration: a login or tokens are processed, or the iframe is awaited.
LEMMA ConfigKeeps ==
  ASSUME JsInv, ConfigLoaded \/ ConfigFailed
  PROVE  (PhaseInv /\ TokenInv /\ RefreshInv /\ AnswerInv /\ RejectInv)'
<1>0. /\ cont = "config" /\ Unprocessed /\ frame = "none" /\ loop = FALSE /\ callbackList = {}
      /\ exchange = "none" /\ ~Renewing /\ refreshQueue = {}
      /\ token = NoSession /\ sid = NoSession /\ refreshable = FALSE
      /\ UNCHANGED <<opt, loop, callbackList, asked, answers, iframe, cookie, alive>>
  BY DEF ConfigLoaded, ConfigFailed, iframeVars, ssoVars, JsInv, PhaseInv, TokenInv, TypeOK, Unprocessed, Renewing
<1>1. refreshes = <<>> /\ asked = <<>> /\ answers = <<>>
  <2>1. /\ Len(refreshes) = 0 /\ Len(asked) + Len(answers) = 0
        /\ refreshes \in Seq(Refresh) /\ asked \in Seq(Sessions \cup {NoSession}) /\ answers \in Seq(Answer)
    BY <1>0 DEF JsInv, QueueInv, QueuesMatchRequests, TypeOK
  <2>. QED
    BY <2>1
<1>2. opt.session # NoSession /\ opt.boot \in Boot
  BY OptTypes, NamesAssumption DEF JsInv
<1>3. opt.boot = "code" => iframe = "new"
  BY <1>0 DEF JsInv, AnswerInv
<1>4. CASE InitFromCallback /\ ~opt.iframe /\ ProcessCallback /\ UNCHANGED frame
  <2>1. opt.boot \in {"code", "error", "errorNone"} /\ ~opt.iframe
    BY <1>0, <1>4 DEF InitFromCallback
  <2>. QED
    BY <1>0, <1>4, <2>1, ProcessCallbackEffect, CallbackKeeps
<1>5. CASE /\ UNCHANGED <<token, sid, refreshable, refreshQueue, refreshes, exchange, initP>>
           /\ \/ opt.boot # "tokens" /\ cont' = "onload" /\ frame' = "loading"
              \/ cont' = "none" /\ frame' = frame
  <2>1. ~Renewing' /\ cont' # "config"
    BY <1>0, <1>5 DEF Renewing
  <2>2. PhaseInv'
    BY <1>0, <1>5, <2>1 DEF PhaseInv
  <2>3. TokenInv' /\ RefreshInv'
    BY <1>0, <1>1, <1>2, <1>5, <2>1 DEF TokenInv, RefreshInv, NoLogin, Boot
  <2>4. AnswerInv'
    BY <1>0, <1>1, <1>3, <1>5 DEF AnswerInv
  <2>5. RejectInv'
    BY <1>0, <1>1, <1>5, <2>1 DEF RejectInv, JsInv, Checked, Unprocessed
  <2>. QED
    BY <2>2, <2>3, <2>4, <2>5
<1>6. CASE /\ UNCHANGED <<token, sid, refreshable, refreshQueue, refreshes, exchange, frame>>
           /\ cont' = "none"
  <2>1. ~Renewing' /\ ~Unprocessed'
    BY <1>0, <1>6 DEF Renewing, Unprocessed
  <2>2. PhaseInv'
    BY <1>0, <1>6, <2>1 DEF PhaseInv
  <2>3. TokenInv' /\ RefreshInv'
    BY <1>0, <1>1, <1>2, <1>6, <2>1 DEF TokenInv, RefreshInv, NoLogin, Boot
  <2>4. AnswerInv'
    BY <1>0, <1>1, <1>3, <1>6 DEF AnswerInv
  <2>5. RejectInv'
    BY <1>0, <1>1, <1>6, <2>1 DEF RejectInv, JsInv, Checked
  <2>. QED
    BY <2>2, <2>3, <2>4, <2>5
<1>7. CASE ConfigLoaded /\ InitFromTokens
  <2>1. /\ opt.boot = "tokens" /\ token' = opt.session /\ sid' = opt.session
        /\ UNCHANGED <<exchange, initP>> /\ cont' \in {"onload", "refresh"}
        /\ frame' \in {"none", "loading"}
    BY <1>0, <1>7 DEF InitFromTokens, SetToken
  <2>2. ~Unprocessed' /\ ~NoLogin
    BY <1>0, <2>1 DEF Unprocessed, NoLogin
  <2>3. PhaseInv'
    BY <1>0, <2>1, <2>2 DEF PhaseInv
  <2>4. TokenInv'
    BY <1>0, <1>2, <2>1, <2>2 DEF TokenInv, NoLogin
  <2>5. RefreshInv'
    <3>1. \/ refreshes' = refreshes
          \/ refreshes' = Append(<<>>, [session |-> opt.session, st |-> "sent"])
      BY <1>1, <1>7, <2>1 DEF InitFromTokens, Exec, callVars
    <3>. QED
      BY <1>0, <1>1, <1>2, <2>1, <3>1 DEF RefreshInv
  <2>6. AnswerInv' /\ RejectInv'
    BY <1>0, <1>1, <2>1 DEF AnswerInv, RejectInv, Checked
  <2>. QED
    BY <2>3, <2>4, <2>5, <2>6
<1>. QED
  <2>1. CASE ConfigFailed
    BY <2>1, <1>6 DEF ConfigFailed, tokenVars, callVars
  <2>2. CASE ConfigLoaded /\ InitFromCallback
    BY <2>2, <1>4, <1>5 DEF InitFromCallback, tokenVars, callVars
  <2>3. CASE ConfigLoaded /\ InitFromNothing
    BY <2>3, <1>5, <1>6 DEF InitFromNothing, DoOnLoad, tokenVars, callVars
  <2>. QED
    BY <2>1, <2>2, <2>3, <1>7 DEF ConfigLoaded

\* The iframe has loaded: a login is processed, or the session is checked.
LEMMA IframeLoadedKeeps ==
  ASSUME JsInv, IframeLoaded
  PROVE  (PhaseInv /\ TokenInv /\ RefreshInv /\ AnswerInv /\ RejectInv)'
<1>0. /\ frame = "loading" /\ frame' = "ready" /\ loop' = TRUE
      /\ UNCHANGED <<opt, answers, iframe, cookie, alive>>
      /\ callbackList = {} /\ cont # "config"
  BY DEF IframeLoaded, ssoVars, JsInv, PhaseInv
<1>1. CASE opt.boot \in {"code", "error", "errorNone"} /\ ProcessCallback /\ UNCHANGED <<callbackList, asked>>
  <2>1. Unprocessed \/ NoLogin
    BY <1>0, <1>1 DEF Unprocessed, NoLogin
  <2>. QED
    BY <1>0, <1>1, <2>1, ProcessCallbackEffect, CallbackKeeps
<1>2. CASE /\ opt.boot \in {"tokens", "none"}
           /\ CheckLoginIframe({"session"}, sid) /\ cont' = "session"
           /\ UNCHANGED <<initP, page, tokenVars, callVars, exchange>>
  <2>1. /\ asked = <<>> /\ answers = <<>>
        /\ UNCHANGED <<initP, token, sid, refreshable, refreshQueue, refreshes, exchange>>
        /\ callbackList' = {"session"} /\ asked' = Append(<<>>, sid)
    <3>1. /\ Len(asked) + Len(answers) = 0
          /\ asked \in Seq(Sessions \cup {NoSession}) /\ answers \in Seq(Answer)
      BY <1>0 DEF JsInv, QueueInv, QueuesMatchRequests, TypeOK
    <3>2. asked = <<>> /\ answers = <<>>
      BY <3>1
    <3>. QED
      BY <1>0, <1>2, <3>2 DEF CheckLoginIframe, tokenVars, callVars
  <2>2. callbackList' \cap Calls = {} /\ callbackList \cap Calls = {}
    BY <2>1, <1>0, NamesAssumption DEF Callers
  <2>3. Renewing' = Renewing /\ ~Unprocessed' /\ NoLogin' = NoLogin
    BY <1>0, <1>2, <2>1, <2>2 DEF Renewing, Unprocessed, NoLogin
  <2>4. PhaseInv'
    BY <1>0, <1>2, <2>1, <2>3 DEF JsInv, PhaseInv
  <2>5. TokenInv' /\ RefreshInv'
    BY <1>0, <2>1, <2>3 DEF JsInv, TokenInv, RefreshInv
  <2>6. opt.boot = "tokens" => sid = opt.session
    BY <1>0 DEF JsInv, TokenInv
  <2>7. AnswerInv'
    BY <1>0, <1>2, <2>1, <2>3, <2>6 DEF AnswerInv, NoLogin
  <2>8. RejectInv'
    BY <1>0, <1>2 DEF RejectInv, Checked
  <2>. QED
    BY <2>4, <2>5, <2>7, <2>8
<1>. QED
  BY <1>1, <1>2 DEF IframeLoaded

\* updateToken while nobody waits for a refresh: the calls wait for the iframe, or
\* one request is sent for the session t.
LEMMA CallEffect ==
  ASSUME NEW cs, NEW kind, NEW r, NEW t, NEW k, NEW f, NEW s, CallUpdateToken(cs, kind, r, t, k, f, s),
         refreshQueue = {}, refreshes = <<>>
  PROVE  /\ refreshQueue' \subseteq cs /\ callbackList' \subseteq callbackList \cup cs
         /\ refreshes' \in {<<>>, Append(<<>>, [session |-> t, st |-> "sent"])}
         /\ frame = "ready" => refreshes' = <<>>
         /\ frame # "ready" => callbackList' = callbackList
         /\ asked' = asked \/ CheckLoginIframe(cs, s)
  BY DEF CallUpdateToken, Exec, CheckLoginIframe

\* checkLoginIframe asks about the session of the token.
LEMMA CheckAsks ==
  ASSUME TypeOK, QueueInv, AnswerInv, NEW ps, NEW s, CheckLoginIframe(ps, s),
         s = opt.session \/ NoLogin \/ (s = NoSession /\ iframe # "ready"),
         UNCHANGED <<opt, iframe>>
  PROVE  asked' # <<>> => \/ Head(asked') = opt.session
                          \/ NoLogin
                          \/ Head(asked') = NoSession /\ iframe # "ready"
<1>1. CASE callbackList # {} \/ ps = {}
  BY <1>1 DEF CheckLoginIframe, AnswerInv
<1>2. CASE callbackList = {} /\ ps # {}
  <2>1. Len(asked) + Len(answers) = 0 /\ asked \in Seq(Sessions \cup {NoSession}) /\ answers \in Seq(Answer)
    BY <1>2 DEF QueueInv, QueuesMatchRequests, TypeOK
  <2>2. asked = <<>>
    BY <2>1
  <2>3. asked' = Append(<<>>, s)
    BY <1>2, <2>2 DEF CheckLoginIframe
  <2>. QED
    BY <2>3
<1>. QED
  BY <1>1, <1>2

\* The code exchange: it is answered once, and while it runs nothing is renewed.
LEMMA ExchangeKeeps ==
  ASSUME JsInv, NEW cs \in SUBSET Calls, ExchangeAnswered(cs) \/ ExchangeHandled
  PROVE  (PhaseInv /\ TokenInv /\ RefreshInv /\ AnswerInv /\ RejectInv)'
<1>0. /\ exchange # "none" /\ opt.boot = "code" /\ ~Unprocessed /\ ~NoLogin /\ ~Renewing
      /\ refreshQueue = {} /\ refreshable = FALSE /\ callbackList \cap Calls = {} /\ cont # "config" /\ frame # "loading"
      /\ opt.iframe => frame = "ready"
      /\ UNCHANGED <<opt, cont, frame, loop, answers, iframe, cookie, alive>>
  BY DEF ExchangeAnswered, ExchangeHandled, JsInv, PhaseInv, Unprocessed, NoLogin, Renewing, TypeOK,
         initVars, callVars, iframeVars, ssoVars
<1>1. refreshes = <<>>
  <2>1. Len(refreshes) = 0 /\ refreshes \in Seq(Refresh)
    BY <1>0 DEF JsInv, QueueInv, QueuesMatchRequests, TypeOK
  <2>. QED
    BY <2>1
<1>2. opt.session # NoSession
  BY OptTypes, NamesAssumption DEF JsInv
<1>3. CASE exchange' # "none" /\ UNCHANGED <<initP, token, sid, refreshable, refreshQueue, refreshes, callbackList, asked>>
  <2>1. ~Unprocessed' /\ ~NoLogin' /\ ~Renewing'
    BY <1>0, <1>3 DEF Unprocessed, NoLogin, Renewing
  <2>. QED
    BY <1>0, <1>1, <1>3, <2>1 DEF JsInv, PhaseInv, TokenInv, RefreshInv, AnswerInv, RejectInv, Left, Checked
<1>4. CASE /\ exchange' = "none"
           /\ initP' = IF initP = "pending" THEN "failed" ELSE initP
           /\ UNCHANGED <<token, sid, refreshable, refreshQueue, refreshes, callbackList, asked>>
  <2>1. ~Unprocessed' /\ ~NoLogin' /\ ~Renewing'
    BY <1>0, <1>4 DEF Unprocessed, NoLogin, Renewing
  <2>2. PhaseInv' /\ TokenInv' /\ RefreshInv' /\ AnswerInv'
    BY <1>0, <1>1, <1>4, <2>1 DEF JsInv, PhaseInv, TokenInv, RefreshInv, AnswerInv, Left
  <2>3. RejectInv'
    BY <1>0, <1>1, <1>4, <2>1 DEF JsInv, RejectInv, Checked
  <2>. QED
    BY <2>2, <2>3
<1>5. CASE /\ exchange' = "none" /\ AuthEffect(TRUE, opt.flow = "standard")
           /\ CallUpdateToken(cs, "min", TRUE, opt.session, TRUE, FALSE, opt.session)
  <2>0. /\ refreshQueue' \subseteq cs /\ callbackList' \subseteq callbackList \cup cs
        /\ refreshes' \in {<<>>, Append(<<>>, [session |-> opt.session, st |-> "sent"])}
        /\ frame = "ready" => refreshes' = <<>>
        /\ frame # "ready" => callbackList' = callbackList
        /\ asked' = asked \/ CheckLoginIframe(cs, opt.session)
    BY <1>0, <1>1, <1>5, CallEffect
  <2>1. ~Unprocessed' /\ ~NoLogin' /\ Left' = Left
    BY <1>0 DEF Unprocessed, NoLogin, Left
  <2>2. PhaseInv'
    BY <1>0, <1>5, <2>0, <2>1 DEF JsInv, PhaseInv
  <2>3. /\ sid' = opt.session /\ token' \in {opt.session, NoSession}
        /\ refreshable' => token' = opt.session
    BY <1>5 DEF AuthEffect
  <2>4. TokenInv'
    BY <1>0, <1>2, <2>1, <2>3 DEF TokenInv
  <2>5. RefreshInv'
    <3>1. CASE refreshes' = <<>>
      BY <3>1 DEF RefreshInv
    <3>2. CASE refreshes' = Append(<<>>, [session |-> opt.session, st |-> "sent"])
      BY <1>0, <2>3, <3>2 DEF RefreshInv
    <3>. QED
      BY <2>0, <3>1, <3>2
  <2>6. AnswerInv'
    <3>1. asked' # <<>> => \/ Head(asked') = opt.session \/ NoLogin
                           \/ Head(asked') = NoSession /\ iframe # "ready"
      <4>1. CASE CheckLoginIframe(cs, opt.session)
        BY <4>1, <1>0, CheckAsks DEF JsInv
      <4>2. CASE UNCHANGED asked
        BY <4>2 DEF JsInv, AnswerInv
      <4>. QED
        BY <2>0, <4>1, <4>2
    <3>. QED
      BY <1>0, <1>2, <2>1, <2>3, <3>1 DEF JsInv, AnswerInv
  <2>7. RejectInv'
    <3>. SUFFICES ASSUME Checked
                  PROVE  /\ InitCall \notin refreshQueue'
                         /\ initP' # "ok" => /\ token' = NoSession /\ ~refreshable'
                                             /\ \A i \in DOMAIN refreshes' : refreshes'[i].session = NoSession
      BY <1>0, <1>5, <2>1 DEF RejectInv, Checked
    <3>1. opt.flow = "standard" /\ initP \in {"pending", "ok"} /\ frame = "ready"
      BY <1>0 DEF JsInv, RejectInv, TypeOK, Checked
    <3>2. InitCall \notin refreshQueue' /\ refreshes' = <<>>
      BY <2>0, <3>1, NamesAssumption
    <3>. QED
      BY <1>5, <3>1, <3>2 DEF AuthEffect
  <2>. QED
    BY <2>2, <2>4, <2>5, <2>6, <2>7
<1>. QED
  <2>1. CASE ExchangeHandled
    BY <2>1, <1>0, <1>3 DEF ExchangeHandled, initVars, tokenVars, callVars, iframeVars
  <2>2. CASE ExchangeAnswered(cs) /\ exchange = "granted"
    BY <2>2, <1>5, AuthSuccessEffect DEF ExchangeAnswered
  <2>3. CASE ExchangeAnswered(cs) /\ exchange = "refused"
    BY <2>3, <1>4 DEF ExchangeAnswered, SettleInit, tokenVars, callVars
  <2>. QED
    BY <2>1, <2>2, <2>3 DEF ExchangeAnswered

\* exec sends at most one request, for the token at hand.
LEMMA ExecRequests ==
  ASSUME RefreshInv, NEW cs, NEW kinds, Exec(cs, kinds, token, skew, fresh), TypeOK,
         token \in {opt.session, NoSession}, refreshQueue = {} => refreshes = <<>>,
         UNCHANGED <<opt, token, alive>>
  PROVE  RefreshInv'
<1>1. \/ refreshes' = refreshes
      \/ refreshes' = Append(<<>>, [session |-> token, st |-> "sent"])
  BY DEF Exec
<1>. QED
  BY <1>1 DEF RefreshInv

\* While nobody waits for a refresh there is no request.
LEMMA NoQueueNoRequest ==
  ASSUME TypeOK, QueueInv, refreshQueue = {}
  PROVE  refreshes = <<>>
<1>1. Len(refreshes) = 0 /\ refreshes \in Seq(Refresh)
  BY DEF QueueInv, QueuesMatchRequests, TypeOK
<1>. QED
  BY <1>1

\* updateToken is refused without a refresh token.
LEMMA UpdateTokenKeeps ==
  ASSUME JsInv, NEW c \in Calls, NEW kind \in Pending, UpdateToken(c, kind)
  PROVE  (PhaseInv /\ TokenInv /\ RefreshInv /\ AnswerInv /\ RejectInv)'
<1>0. UNCHANGED <<opt, cont, initP, token, refreshable, sid, exchange, frame, loop, answers, iframe, cookie, alive>>
  BY DEF UpdateToken, initVars, tokenVars, ssoVars
<1>1. CASE UNCHANGED <<refreshQueue, refreshes, callbackList, asked>>
  BY <1>0, <1>1 DEF JsInv, PhaseInv, TokenInv, RefreshInv, AnswerInv, RejectInv, Renewing, Unprocessed, NoLogin,
                    Left, Checked
<1>2. CASE refreshable
  <2>0. /\ Renewing /\ Renewing' /\ exchange = "none" /\ ~Unprocessed /\ ~NoLogin
        /\ token = opt.session /\ sid = opt.session /\ opt.session # NoSession
    BY <1>0, <1>2, OptTypes, NamesAssumption DEF JsInv, PhaseInv, TokenInv, Renewing
  <2>1. ~Unprocessed' /\ ~NoLogin' /\ Left' = Left
    BY <1>0, <2>0 DEF Unprocessed, NoLogin, Left
  <2>2. frame # "ready" => callbackList' = {}
    BY <1>2 DEF UpdateToken, CallUpdateToken, JsInv, PhaseInv
  <2>3. PhaseInv'
    BY <1>0, <2>0, <2>1, <2>2 DEF JsInv, PhaseInv
  <2>4. TokenInv'
    BY <1>0, <2>0, <2>1 DEF JsInv, TokenInv
  <2>5. RefreshInv'
    <3>1. CASE Exec({c}, [d \in Callers |-> IF d \in {c} THEN kind ELSE call[d]], token, skew, fresh)
      BY <1>0, <2>0, <3>1, ExecRequests, NoQueueNoRequest DEF JsInv
    <3>2. CASE UNCHANGED refreshes
      BY <1>0, <3>2 DEF JsInv, RefreshInv
    <3>. QED
      BY <3>1, <3>2 DEF UpdateToken, CallUpdateToken
  <2>6. AnswerInv'
    <3>1. asked' # <<>> => \/ Head(asked') = opt.session \/ NoLogin
                           \/ Head(asked') = NoSession /\ iframe # "ready"
      <4>1. CASE CheckLoginIframe({c}, sid)
        BY <4>1, <1>0, <2>0, CheckAsks DEF JsInv
      <4>2. CASE UNCHANGED asked
        BY <4>2 DEF JsInv, AnswerInv
      <4>. QED
        BY <4>1, <4>2 DEF UpdateToken, CallUpdateToken
    <3>. QED
      BY <1>0, <2>0, <2>1, <3>1 DEF JsInv, AnswerInv
  <2>7. RejectInv'
    <3>1. Checked => initP = "ok" /\ InitCall \notin refreshQueue
      BY <1>2 DEF JsInv, RejectInv
    <3>2. InitCall \in refreshQueue' => InitCall \in refreshQueue
      BY <1>2, NamesAssumption DEF UpdateToken, CallUpdateToken, Exec
    <3>. QED
      BY <1>0, <2>0, <3>1, <3>2 DEF RejectInv, Checked
  <2>. QED
    BY <2>3, <2>4, <2>5, <2>6, <2>7
<1>. QED
  BY <1>1, <1>2 DEF UpdateToken, CallUpdateToken

\* A token is renewed for the session it was of, or all that could renew it is gone.
LEMMA RefreshAnsweredKeeps ==
  ASSUME JsInv, NEW i \in DOMAIN refreshes, NEW cs \in SUBSET Calls, RefreshAnswered(i, cs)
  PROVE  (PhaseInv /\ TokenInv /\ RefreshInv /\ AnswerInv /\ RejectInv)'
<1>0. /\ UNCHANGED <<opt, exchange, frame, loop, answers, iframe, cookie, alive>>
      /\ refreshes' = <<>> /\ refreshQueue' = {} /\ refreshQueue # {}
  <2>1. sid' \in Sessions \cup {NoSession}
    BY CallStepTypes DEF JsInv, TypeOK
  <2>. QED
    BY <2>1, RefreshAnsweredQueues DEF RefreshAnswered, ssoVars, JsInv
<1>1. /\ Renewing /\ exchange = "none" /\ ~Unprocessed /\ ~NoLogin /\ cont # "config"
      /\ sid = opt.session /\ opt.session # NoSession
  BY <1>0, OptTypes, NamesAssumption DEF JsInv, PhaseInv, TokenInv, Renewing, Unprocessed
<1>2. /\ sid' = opt.session /\ token' \in {opt.session, NoSession}
      /\ refreshable' => token' = opt.session
  <2>1. CASE refreshes[i].st = "granted" /\ SetToken(refreshes[i].session, TRUE, TRUE)
    BY <2>1 DEF SetToken, JsInv, RefreshInv
  <2>2. CASE DeleteToken \/ UNCHANGED tokenVars
    BY <2>2, <1>1 DEF DeleteToken, tokenVars, JsInv, TokenInv
  <2>. QED
    BY <2>1, <2>2 DEF RefreshAnswered
<1>3. cont' \in {cont, "none"} /\ (InitCall \notin refreshQueue => initP' = initP)
  BY DEF RefreshAnswered, InitCallSettled
<1>4. ~Unprocessed' /\ ~NoLogin' /\ Left' = Left /\ cont' # "config"
  BY <1>0, <1>1, <1>3 DEF Unprocessed, NoLogin, Left
<1>5. PICK ps \in {cs, {}} : CheckLoginIframe(ps, sid') /\ (frame # "ready" => ps = {})
  BY DEF RefreshAnswered, SettleQueue
<1>6. frame # "ready" => callbackList' = {}
  BY <1>5 DEF JsInv, PhaseInv, CheckLoginIframe
<1>7. PhaseInv' /\ TokenInv'
  <2>1. PhaseInv'
    BY <1>0, <1>1, <1>4, <1>6 DEF JsInv, PhaseInv
  <2>2. TokenInv'
    BY <1>1, <1>2, <1>0, <1>4 DEF TokenInv
  <2>. QED
    BY <2>1, <2>2
<1>8. RefreshInv'
  BY <1>0 DEF RefreshInv
<1>9. AnswerInv'
  <2>1. asked' # <<>> => \/ Head(asked') = opt.session \/ NoLogin
                         \/ Head(asked') = NoSession /\ iframe # "ready"
    BY <1>0, <1>2, <1>5, CheckAsks DEF JsInv
  <2>. QED
    BY <2>1, <1>0, <1>1, <1>2, <1>4 DEF JsInv, AnswerInv
<1>10. RejectInv'
  <2>. SUFFICES ASSUME Checked, initP' # "ok"
                PROVE  token' = NoSession /\ ~refreshable'
    BY <1>0, <1>1, <1>4 DEF RejectInv, Checked
  <2>1. initP # "ok" /\ token = NoSession /\ ~refreshable /\ refreshes[i].session = NoSession
    BY <1>3 DEF JsInv, RejectInv
  <2>2. refreshes[i].st # "granted"
    BY <2>1 DEF JsInv, RefreshInv
  <2>3. DeleteToken \/ UNCHANGED tokenVars
    BY <2>2 DEF RefreshAnswered
  <2>. QED
    BY <2>1, <2>3 DEF DeleteToken, tokenVars
<1>. QED
  BY <1>7, <1>8, <1>9, <1>10

\* An answer of the iframe: the calls that waited go on to a refresh or fail.
LEMMA MessageKeeps ==
  ASSUME JsInv, MessageReceived
  PROVE  (PhaseInv /\ TokenInv /\ RefreshInv /\ AnswerInv /\ RejectInv)'
<1>0. /\ UNCHANGED <<opt, exchange, frame, loop, asked, iframe, cookie, alive>>
      /\ callbackList' = {} /\ answers' = <<>> /\ asked = <<>> /\ callbackList # {}
  BY MessageQueues DEF MessageReceived, ssoVars, JsInv
<1>1. frame = "ready" /\ cont # "config" /\ ~Unprocessed
  BY <1>0 DEF JsInv, PhaseInv, Unprocessed
<1>2. /\ sid' = sid /\ token' \in {token, NoSession} /\ (refreshable' => refreshable /\ token' = token)
  <2>1. CASE DeleteToken
    BY <2>1 DEF DeleteToken
  <2>2. CASE UNCHANGED tokenVars
    BY <2>2 DEF tokenVars
  <2>. QED
    BY <2>1, <2>2 DEF MessageReceived
<1>3. /\ cont' \in {cont, "none"} /\ (initP' = initP \/ initP' = "ok")
  BY DEF MessageReceived, InitSessionChecked, SettleInit
<1>4. /\ refreshQueue' \subseteq refreshQueue \cup (callbackList \cap Calls)
  BY DEF MessageReceived, Exec
<1>5. ~Unprocessed' /\ NoLogin' = NoLogin /\ cont' # "config" /\ (Renewing' => Renewing)
  BY <1>0, <1>1, <1>2, <1>3, <1>4 DEF Unprocessed, NoLogin, Renewing
<1>6. PhaseInv'
  BY <1>0, <1>1, <1>5 DEF JsInv, PhaseInv
<1>7. TokenInv'
  BY <1>0, <1>1, <1>2, <1>5 DEF JsInv, TokenInv
<1>8. RefreshInv'
  <2>1. CASE Exec(callbackList \cap Calls, call, token, skew, fresh) /\ UNCHANGED tokenVars
    BY <2>1, <1>0, ExecRequests, NoQueueNoRequest DEF JsInv, TokenInv, tokenVars
  <2>2. CASE DeleteToken /\ UNCHANGED refreshes
    BY <2>2, <1>0 DEF DeleteToken, JsInv, RefreshInv
  <2>. QED
    BY <2>1, <2>2 DEF MessageReceived
<1>9. AnswerInv'
  BY <1>0, <1>1, <1>2 DEF JsInv, AnswerInv
<1>10. RejectInv'
  <2>1. InitCall \in refreshQueue' => InitCall \in refreshQueue
    BY <1>4, NamesAssumption
  <2>. QED
    <3>. SUFFICES ASSUME Checked, initP # "ok"
                  PROVE  \A i \in DOMAIN refreshes' : refreshes'[i].session = NoSession
      BY <2>1, <1>0, <1>1, <1>2, <1>3, <1>5 DEF JsInv, RejectInv, Checked
    <3>1. token = NoSession /\ \A i \in DOMAIN refreshes : refreshes[i].session = NoSession
      BY DEF JsInv, RejectInv
    <3>2. \/ refreshes' = refreshes
          \/ refreshQueue = {} /\ refreshes' = Append(refreshes, [session |-> NoSession, st |-> "sent"])
      BY <3>1 DEF MessageReceived, Exec
    <3>3. refreshQueue = {} => refreshes = <<>>
      BY NoQueueNoRequest DEF JsInv
    <3>. QED
      BY <3>1, <3>2, <3>3
<1>. QED
  BY <1>6, <1>7, <1>8, <1>9, <1>10

\* The periodic check: without a token it is the last one.
LEMMA CheckKeeps ==
  ASSUME JsInv, Check
  PROVE  (PhaseInv /\ TokenInv /\ RefreshInv /\ AnswerInv /\ RejectInv)'
<1>0. /\ UNCHANGED <<opt, cont, initP, token, sid, refreshable, refreshQueue, refreshes, exchange, frame,
                     answers, iframe, cookie, alive>>
      /\ loop /\ CheckLoginIframe({"check"}, sid) /\ loop' = (token # NoSession)
  BY DEF Check, initVars, tokenVars, callVars, ssoVars
<1>1. callbackList' \cap Calls = callbackList \cap Calls
  BY <1>0, NamesAssumption DEF CheckLoginIframe, Callers
<1>2. UNCHANGED <<Renewing, Unprocessed, NoLogin, Left>>
  BY <1>0, <1>1 DEF Renewing, Unprocessed, NoLogin, Left
<1>3. frame = "ready"
  BY <1>0 DEF JsInv, PhaseInv
<1>4. PhaseInv'
  BY <1>0, <1>2, <1>3 DEF JsInv, PhaseInv
<1>5. TokenInv' /\ RefreshInv' /\ RejectInv'
  BY <1>0, <1>2 DEF JsInv, TokenInv, RefreshInv, RejectInv, Checked
<1>6. AnswerInv'
  <2>1. sid = opt.session \/ NoLogin \/ (sid = NoSession /\ iframe # "ready")
    BY <1>0, <1>3, OptTypes DEF JsInv, AnswerInv, TokenInv, NoLogin, Boot
  <2>2. asked' # <<>> => \/ Head(asked') = opt.session \/ NoLogin
                         \/ Head(asked') = NoSession /\ iframe # "ready"
    BY <2>1, <1>0, CheckAsks DEF JsInv
  <2>3. token # NoSession => sid # NoSession
    BY DEF JsInv, TokenInv
  <2>. QED
    BY <2>2, <2>3, <1>0, <1>2, <1>3 DEF JsInv, AnswerInv
<1>. QED
  BY <1>4, <1>5, <1>6

\* The iframe says "changed" only when the browser has left the session.
LEMMA IframeKeeps ==
  ASSUME JsInv, IframeReceives \/ IframeInitAnswered
  PROVE  (PhaseInv /\ TokenInv /\ RefreshInv /\ AnswerInv /\ RejectInv)'
<1>0. /\ UNCHANGED <<opt, cont, initP, token, sid, refreshable, refreshQueue, refreshes, exchange, frame,
                     loop, callbackList, cookie, alive>>
      /\ asked # <<>>
  BY DEF IframeReceives, IframeInitAnswered, initVars, tokenVars, callVars, ssoVars, JsInv, QueueInv
<1>1. UNCHANGED <<Renewing, Unprocessed, NoLogin, Left>>
  BY <1>0 DEF Renewing, Unprocessed, NoLogin, Left
<1>2. PhaseInv' /\ TokenInv' /\ RefreshInv' /\ RejectInv'
  BY <1>0, <1>1 DEF JsInv, PhaseInv, TokenInv, RefreshInv, RejectInv, Checked
<1>3. /\ callbackList # {} /\ answers = <<>> /\ Tail(asked) = <<>>
      /\ asked \in Seq(Sessions \cup {NoSession})
  <2>1. /\ asked \in Seq(Sessions \cup {NoSession}) /\ answers \in Seq(Answer)
        /\ Len(asked) + Len(answers) = IF callbackList = {} THEN 0 ELSE 1
    BY DEF JsInv, QueueInv, QueuesMatchRequests, TypeOK
  <2>2. Len(asked) \in Nat /\ Len(asked) > 0 /\ Len(answers) \in Nat
    BY <2>1, <1>0
  <2>3. callbackList # {}
    <3>1. \A m, n \in Nat : m > 0 => m + n # 0
      OBVIOUS
    <3>. QED
      BY <2>1, <2>2, <3>1
  <2>4. Len(asked) = 1 /\ Len(answers) = 0
    <3>1. \A m, n \in Nat : m > 0 /\ m + n = 1 => m = 1 /\ n = 0
      OBVIOUS
    <3>. QED
      BY <2>1, <2>2, <2>3, <3>1
  <2>5. Tail(asked) \in Seq(Sessions \cup {NoSession}) /\ Len(Tail(asked)) = 0
    BY <2>1, <2>4, <1>0
  <2>6. ASSUME NEW S, NEW s \in Seq(S), Len(s) = 0 PROVE s = <<>>
    BY <2>6
  <2>. QED
    BY <2>1, <2>3, <2>4, <2>5, <2>6
<1>4. CASE UNCHANGED <<asked, answers>> /\ iframe' = "init"
  BY <1>0, <1>1, <1>2, <1>3, <1>4 DEF JsInv, AnswerInv
<1>5. CASE asked' = Tail(asked) /\ \E a \in Answer : answers' = Append(answers, a) /\ (a = "changed" => NoLogin \/ Left)
  <2>1. PICK a \in Answer : answers' = Append(<<>>, a) /\ (a = "changed" => NoLogin \/ Left)
    BY <1>3, <1>5
  <2>2. Head(answers') = a /\ asked' = <<>>
    BY <2>1, <1>3, <1>5
  <2>. QED
    BY <2>1, <2>2, <1>0, <1>1, <1>2, <1>3 DEF JsInv, AnswerInv
<1>6. CASE IframeReceives /\ ~(UNCHANGED <<asked, answers>> /\ iframe' = "init")
  <2>1. /\ asked' = Tail(asked)
        /\ \/ cookie = NoSession /\ answers' = Append(answers, "changed")
           \/ /\ iframe = "ready"
              /\ answers' = Append(answers, IF Head(asked) = cookie THEN "unchanged" ELSE "changed")
    BY <1>6 DEF IframeReceives
  <2>2. cookie = NoSession => Left
    BY OptTypes, NamesAssumption DEF Left, JsInv
  <2>3. iframe = "ready" /\ Head(asked) # cookie => NoLogin \/ Left
    BY <1>0 DEF JsInv, AnswerInv, Left
  <2>. QED
    BY <2>1, <2>2, <2>3, <1>2, <1>5 DEF Answer
<1>7. CASE IframeInitAnswered
  <2>1. /\ asked' = Tail(asked)
        /\ \/ answers' = Append(answers, "unchanged")
           \/ alive = {} /\ answers' = Append(answers, "changed")
           \/ answers' = Append(answers, "error")
    BY <1>7 DEF IframeInitAnswered
  <2>2. alive = {} => Left
    BY DEF Left
  <2>. QED
    BY <2>1, <2>2, <1>2, <1>5 DEF Answer
<1>. QED
  BY <1>2, <1>4, <1>6, <1>7

\* The server: a granted refresh is one of a session.
LEMMA RefreshHandledKeeps ==
  ASSUME JsInv, NEW i \in DOMAIN refreshes, RefreshHandled(i)
  PROVE  (PhaseInv /\ TokenInv /\ RefreshInv /\ AnswerInv /\ RejectInv)'
<1>0. UNCHANGED <<opt, cont, initP, token, sid, refreshable, refreshQueue, exchange, frame,
                  loop, callbackList, asked, answers, iframe, cookie, alive>>
  BY DEF RefreshHandled, initVars, tokenVars, iframeVars, ssoVars
<1>1. UNCHANGED <<Renewing, Unprocessed, NoLogin, Left>>
  BY <1>0 DEF Renewing, Unprocessed, NoLogin, Left
<1>2. PhaseInv' /\ TokenInv' /\ AnswerInv'
  BY <1>0, <1>1 DEF JsInv, PhaseInv, TokenInv, AnswerInv
<1>3. PICK st \in {"granted", "denied", "failed"} :
         /\ refreshes' = [refreshes EXCEPT ![i].st = st]
         /\ st = "granted" => refreshes[i].session \in alive
  BY DEF RefreshHandled, RefreshAccessToken
<1>4. /\ refreshes \in Seq(Refresh) /\ alive \subseteq Sessions
  BY DEF JsInv, TypeOK
<1>5. /\ DOMAIN refreshes' = DOMAIN refreshes
      /\ refreshes'[i].session = refreshes[i].session /\ refreshes'[i].st = st
      /\ \A j \in DOMAIN refreshes : j # i => refreshes'[j] = refreshes[j]
  <2>1. refreshes[i] \in Refresh
    BY <1>4
  <2>. QED
    BY <1>3, <1>4, <2>1 DEF Refresh
<1>6. RefreshInv'
  BY <1>0, <1>3, <1>4, <1>5, NamesAssumption DEF JsInv, RefreshInv
<1>7. RejectInv'
  BY <1>0, <1>1, <1>5 DEF JsInv, RejectInv, Checked
<1>. QED
  BY <1>2, <1>6, <1>7

\* The application clears the token; what was under way goes on.
LEMMA ClearKeeps ==
  ASSUME JsInv, AppClearToken
  PROVE  (PhaseInv /\ TokenInv /\ RefreshInv /\ AnswerInv /\ RejectInv)'
<1>0. /\ UNCHANGED <<opt, cont, initP, sid, refreshQueue, refreshes, exchange, frame,
                     loop, callbackList, asked, answers, iframe, cookie, alive>>
      /\ token' = NoSession /\ refreshable' = FALSE
  BY DEF AppClearToken, DeleteToken, initVars, callVars, iframeVars, ssoVars
<1>1. UNCHANGED <<Unprocessed, NoLogin, Left>> /\ (Renewing' => Renewing)
  BY <1>0 DEF Renewing, Unprocessed, NoLogin, Left
<1>. QED
  BY <1>0, <1>1 DEF JsInv, PhaseInv, TokenInv, RefreshInv, AnswerInv, RejectInv, Checked

\* Other tabs: a session that was left is not entered again, and one that is over
\* does not come back.
LEMMA EnvironmentKeeps ==
  ASSUME JsInv,
         \/ TokenTimeout \/ TokenExpires \/ Unload \/ AppLeaves \/ LogoutElsewhere
         \/ \E s \in Sessions : LoginElsewhere(s) \/ SessionExpires(s)
         \/ UNCHANGED <<opt, cont, initP, token, sid, refreshable, refreshQueue, refreshes, exchange, frame,
                        loop, callbackList, asked, answers, iframe, cookie, alive>>
  PROVE  (PhaseInv /\ TokenInv /\ RefreshInv /\ AnswerInv /\ RejectInv)'
<1>0. UNCHANGED <<opt, cont, initP, token, sid, refreshable, refreshQueue, refreshes, exchange, frame,
                  loop, callbackList, asked, answers, iframe>>
  BY DEF TokenTimeout, TokenExpires, Unload, AppLeaves, LogoutElsewhere, LoginElsewhere, SessionExpires,
         initVars, tokenVars, callVars, iframeVars
<1>1. /\ cookie' = opt.session => cookie = opt.session
      /\ opt.session \in alive' => opt.session \in alive
  BY OptTypes, NamesAssumption
     DEF TokenTimeout, TokenExpires, Unload, AppLeaves, LogoutElsewhere, LoginElsewhere, SessionExpires,
         ssoVars, JsInv
<1>2. UNCHANGED <<Renewing, Unprocessed, NoLogin>> /\ (Left => Left')
  BY <1>0, <1>1 DEF Renewing, Unprocessed, NoLogin, Left
<1>3. PhaseInv' /\ TokenInv' /\ RejectInv'
  BY <1>0, <1>2 DEF JsInv, PhaseInv, TokenInv, RejectInv, Checked
<1>4. RefreshInv' /\ AnswerInv'
  BY <1>0, <1>1, <1>2 DEF JsInv, RefreshInv, AnswerInv
<1>. QED
  BY <1>3, <1>4

\* Every step of the page keeps the invariant.
LEMMA JsInvStep ==
  ASSUME JsInv, [Next]_vars
  PROVE  JsInv'
<1>1. TypeOK' /\ QueueInv'
  BY TypeStep, QueueStep DEF JsInv
<1>2. CASE UNCHANGED vars
  BY <1>1, <1>2, EnvironmentKeeps DEF vars, initVars, tokenVars, callVars, iframeVars, ssoVars, JsInv
<1>3. CASE Next
  BY <1>1, <1>3, ConfigKeeps, IframeLoadedKeeps, ExchangeKeeps, UpdateTokenKeeps, RefreshAnsweredKeeps,
     MessageKeeps, CheckKeeps, IframeKeeps, RefreshHandledKeeps, ClearKeeps, EnvironmentKeeps
     DEF Next, PageStep, AppStep, Environment, JsInv
<1>. QED
  BY <1>2, <1>3

-----------------------------------------------------------------------------
(* What follows from the invariant *)

\* A token of a session the browser is in and which is alive is cleared by nothing
\* but the application, an error of the iframe, a refused refresh and a login.
LEMMA GoodTokenStep ==
  ASSUME JsInv, [Next]_vars, token # NoSession, token' = NoSession, token = cookie, token \in alive
  PROVE  \/ AppClearToken
         \/ answers # <<>> /\ Head(answers) = "error" /\ answers' = Tail(answers)
         \/ Len(refreshes') < Len(refreshes) /\ \E i \in DOMAIN refreshes : refreshes[i].st = "denied"
         \/ exchange' # exchange
<1>0. token = opt.session /\ ~Unprocessed /\ ~NoLogin /\ ~Left
  BY DEF JsInv, TokenInv, Left
<1>1. CASE ConfigLoaded \/ ConfigFailed
  BY <1>0, <1>1 DEF ConfigLoaded, ConfigFailed, Unprocessed
<1>2. CASE IframeLoaded
  BY <1>0, <1>2 DEF IframeLoaded, Unprocessed, NoLogin, tokenVars
<1>3. ASSUME NEW cs \in SUBSET Calls, ExchangeAnswered(cs) PROVE exchange' # exchange
  BY <1>3 DEF ExchangeAnswered
<1>4. ASSUME NEW i \in DOMAIN refreshes, NEW cs \in SUBSET Calls, RefreshAnswered(i, cs)
      PROVE  Len(refreshes') < Len(refreshes) /\ refreshes[i].st = "denied"
  <2>1. CASE refreshes[i].st = "granted" /\ token' = refreshes[i].session
    BY <2>1 DEF JsInv, RefreshInv
  <2>2. CASE refreshes[i].st = "denied"
    <3>1. refreshes' = [j \in 1..(Len(refreshes) - 1) |->
                          IF j < i THEN refreshes[j] ELSE refreshes[j + 1]]
      BY <1>4 DEF RefreshAnswered
    <3>2. refreshes \in Seq(Refresh) /\ refreshes' \in Seq(Refresh)
      BY <3>1, RemoveTypes DEF JsInv, TypeOK
    <3>3. Len(refreshes') = Len(refreshes) - 1 /\ Len(refreshes) \in Nat
      BY <3>1, <3>2
    <3>. QED
      BY <2>2, <3>3
  <2>3. CASE UNCHANGED tokenVars
    BY <2>3 DEF tokenVars
  <2>. QED
    BY <1>4, <2>1, <2>2, <2>3 DEF RefreshAnswered, SetToken
<1>5. CASE MessageReceived
  <2>1. answers # <<>> /\ answers' = Tail(answers) /\ Head(answers) # "unchanged"
    BY <1>5 DEF MessageReceived, tokenVars
  <2>2. Head(answers) # "changed"
    BY <2>1, <1>0 DEF JsInv, AnswerInv
  <2>3. Head(answers) \in Answer
    BY <2>1 DEF JsInv, TypeOK
  <2>. QED
    BY <2>1, <2>2, <2>3 DEF Answer
<1>6. CASE AppClearToken
  BY <1>6
<1>7. CASE token' = token
  BY <1>7
<1>. QED
  BY <1>1, <1>2, <1>3, <1>4, <1>5, <1>6, <1>7
     DEF Next, PageStep, AppStep, Environment, Check, TokenTimeout, Unload, IframeReceives, IframeInitAnswered,
         ExchangeHandled, RefreshHandled, UpdateToken, AppLeaves, TokenExpires, LogoutElsewhere,
         LoginElsewhere, SessionExpires, vars, tokenVars

\* exec lets a call succeed only when there is a token.
LEMMA ExecNeedsToken ==
  ASSUME NEW cs, NEW kinds, NEW t, NEW k \in BOOLEAN, NEW f \in BOOLEAN, Exec(cs, kinds, t, k, f),
         NEW c \in Callers, kinds[c] # "ok", call'[c] = "ok"
  PROVE  t # NoSession
  BY DEF Exec, NeedsRefresh

\* updateToken succeeds only when there is a token.
LEMMA SuccessHasToken ==
  ASSUME JsInv, [Next]_vars, NEW c \in Callers, call[c] # "ok", call'[c] = "ok"
  PROVE  token' # NoSession
<1>0. /\ skew \in BOOLEAN /\ fresh \in BOOLEAN /\ TypeOK'
      /\ call \in [Callers -> {"idle", "force", "min", "ok", "error"}]
  BY JsInvStep DEF JsInv, TypeOK
<1>1. CASE ConfigLoaded
  <2>1. InitFromTokens
    BY <1>1 DEF ConfigLoaded, InitFromCallback, InitFromNothing, ProcessCallback, DoOnLoad, callVars
  <2>2. token' = opt.session
    BY <2>1 DEF InitFromTokens, SetToken
  <2>. QED
    BY <2>2, OptTypes, NamesAssumption DEF JsInv
<1>2. ASSUME NEW d \in Calls, NEW kind \in Pending, UpdateToken(d, kind) PROVE token' # NoSession
  <2>1. UNCHANGED token
    BY <1>2 DEF UpdateToken, tokenVars
  <2>2. d \in Callers /\ kind # "ok"
    BY DEF Callers, Pending
  <2>3. CASE Exec({d}, [e \in Callers |-> IF e \in {d} THEN kind ELSE call[e]], token, skew, fresh)
    <3>. DEFINE kinds == [e \in Callers |-> IF e \in {d} THEN kind ELSE call[e]]
    <3>1. kinds[c] # "ok" /\ Exec({d}, kinds, token, skew, fresh)
      BY <1>0, <2>2, <2>3
    <3>. HIDE DEF kinds
    <3>. QED
      BY <3>1, <1>0, <2>1, ExecNeedsToken
  <2>4. CASE \E v \in {"error", kind} : call' = [e \in Callers |-> IF e \in {d} THEN v ELSE call[e]]
    BY <2>4, <2>2, <1>0
  <2>. QED
    BY <1>2, <2>3, <2>4 DEF UpdateToken, CallUpdateToken
<1>3. ASSUME NEW i \in DOMAIN refreshes, NEW cs \in SUBSET Calls, RefreshAnswered(i, cs)
      PROVE  token' # NoSession
  <2>1. CASE refreshes[i].st = "granted" /\ token' = refreshes[i].session
    BY <2>1 DEF JsInv, RefreshInv
  <2>2. CASE SettleQueue(cs, "error")
    <3>1. c \in cs /\ ~NeedsRefresh("min", token', skew', fresh')
      BY <2>2, <1>0 DEF SettleQueue
    <3>. QED
      BY <3>1 DEF NeedsRefresh
  <2>. QED
    BY <1>3, <2>1, <2>2 DEF RefreshAnswered, SetToken
<1>4. CASE MessageReceived
  <2>1. CASE Exec(callbackList \cap Calls, call, token, skew, fresh) /\ UNCHANGED tokenVars
    BY <2>1, <1>0, ExecNeedsToken DEF tokenVars
  <2>2. CASE call' = [d \in Callers |-> IF d \in callbackList THEN "error" ELSE call[d]]
    BY <2>2, <1>0
  <2>. QED
    BY <1>4, <2>1, <2>2 DEF MessageReceived
<1>5. CASE UNCHANGED call
  BY <1>5
<1>6. ASSUME NEW cs \in SUBSET Calls, ExchangeAnswered(cs) PROVE call'[c] # "ok"
  <2>1. CASE CallUpdateToken(cs, "min", TRUE, opt.session, TRUE, FALSE, opt.session)
    <3>. DEFINE kinds == [e \in Callers |-> IF e \in cs THEN "min" ELSE call[e]]
    <3>1. kinds[c] # "ok"
      OBVIOUS
    <3>2. \A e \in cs : NeedsRefresh(kinds[e], opt.session, TRUE, FALSE)
      BY DEF NeedsRefresh
    <3>3. call' = kinds
      BY <2>1, <3>2 DEF CallUpdateToken, Exec
    <3>. QED
      BY <3>1, <3>3
  <2>2. CASE UNCHANGED callVars
    BY <2>2 DEF callVars
  <2>. QED
    BY <1>6, <2>1, <2>2 DEF ExchangeAnswered
<1>. QED
  BY <1>1, <1>2, <1>3, <1>4, <1>5, <1>6
     DEF Next, PageStep, AppStep, Environment, ConfigFailed, IframeLoaded, ProcessCallback,
         Check, TokenTimeout, Unload, IframeReceives, IframeInitAnswered,
         ExchangeHandled, RefreshHandled, AppClearToken, AppLeaves, TokenExpires, LogoutElsewhere,
         LoginElsewhere, SessionExpires, vars, callVars

-----------------------------------------------------------------------------
\* Every reachable state of the page is well typed.
THEOREM JsTypeCorrect == Spec => []TypeOK
<1>1. JsInv => TypeOK
  BY DEF JsInv
<1>. QED
  BY <1>1, JsInvInit, JsInvStep, PTL DEF Spec

\* keycloak.js decides by "length == 1" whether to send: for any number of calls
\* there is one refresh request, respectively one message to the iframe, exactly
\* while somebody waits for it, and every pending updateToken waits in one queue.
THEOREM QueuesInStep == Spec => []QueuesMatchRequests
<1>1. JsInv => QueuesMatchRequests
  BY DEF JsInv, QueueInv
<1>. QED
  BY <1>1, JsInvInit, JsInvStep, PTL DEF Spec

\* When the callback of a login makes init fail (a wrong nonce, a refused code, an
\* error) in the implicit flow, or in the standard flow with the iframe, the page
\* holds no token, then or later, although onTokenExpired may have called
\* updateToken with the refused tokens.
THEOREM RejectedHoldsNoToken == Spec => []RejectedMeansNoToken
<1>1. JsInv => RejectedMeansNoToken
  BY DEF JsInv, RejectInv, RejectedMeansNoToken, Checked
<1>. QED
  BY <1>1, JsInvInit, JsInvStep, PTL DEF Spec

\* The adapter does not clear a token of the session the browser is in, whatever
\* the order of refresh responses, iframe answers and logins in other tabs, unless
\* the server refuses a refresh, the iframe fails or new tokens are refused.
THEOREM GoodTokenSafe == Spec => GoodTokenKept
<1>1. JsInv /\ [Next]_vars =>
        [/\ token # NoSession /\ token' = NoSession
         /\ token = cookie /\ token \in alive
         => \/ AppClearToken
            \/ answers # <<>> /\ Head(answers) = "error" /\ answers' = Tail(answers)
            \/ Len(refreshes') < Len(refreshes) /\ \E i \in DOMAIN refreshes : refreshes[i].st = "denied"
            \/ exchange' # exchange]_vars
  BY GoodTokenStep
<1>. QED
  BY <1>1, JsInvInit, JsInvStep, PTL DEF Spec, GoodTokenKept

=============================================================================

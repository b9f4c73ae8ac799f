------------------------------- MODULE KeycloakJs -------------------------------
(***************************************************************************)
(* The JavaScript adapter (keycloak.js) on one page, with the login status  *)
(* iframe it talks to, the token endpoint and the browser's SSO session.    *)
(*                                                                          *)
(* The page is an event loop: an action is one task (a response, a message, *)
(* a timer, a call of the application) with the promise callbacks that run  *)
(* before the next task.  What is pending between two tasks is state: the   *)
(* promises of updateToken in callbackList and refreshQueue, the messages   *)
(* to and from the iframe, the requests to the token endpoint.              *)
(***************************************************************************)
EXTENDS Integers, Sequences, FiniteSets

CONSTANTS
    Calls,      \* the calls of updateToken the application makes
    InitCall,   \* the call of updateToken that init makes
    Sessions,   \* SSO sessions at the server
    NoSession,  \* no session: an undefined token, a missing cookie
    Options     \* the init options and page URLs considered

Flow == {"standard", "implicit", "hybrid"}
OnLoad == {"none", "check-sso", "login-required"}
\* What the page was opened with: nothing, a redirect of the login that carries
\* a code (or tokens), an error, an error of a login with prompt=none, or tokens
\* in initOptions.
Boot == {"none", "code", "error", "errorNone", "tokens"}
Option == [flow : Flow, onLoad : OnLoad, iframe : BOOLEAN, boot : Boot, session : Sessions]

ASSUME OptionsAssumption == Options \subseteq Option

Callers == Calls \cup {InitCall}

ASSUME NamesAssumption ==
    /\ InitCall \notin Calls
    /\ NoSession \notin Sessions
    /\ "session" \notin Callers /\ "check" \notin Callers

\* What waits in callbackList: calls of updateToken, the check made by init and
\* the periodic check (its promise has no callback, so one entry stands for all).
Waiting == Callers \cup {"session", "check"}

VARIABLES
    opt,            \* the initOptions and the URL of this page
    page,           \* "open", "leaving" after location.href was set, "gone" when unloaded
    cont,           \* what init waits for
    initP,          \* the promise init returned
    token,          \* session of kc.token and kc.refreshToken, NoSession if deleted
    refreshable,    \* kc.refreshToken is set
    sid,            \* kc.sessionId, which clearToken leaves alone
    skew,           \* kc.timeSkew is known
    fresh,          \* the token is valid for longer than minValidity
    timer,          \* kc.tokenTimeoutHandle is armed
    call,           \* promise of each updateToken; "force" and "min" are pending, with
                    \* minValidity -1 and any other
    refreshQueue,   \* promises waiting for the refresh request
    refreshes,      \* refresh requests on their way
    exchange,       \* the code exchange request
    frame,          \* loginIframe.iframe and iframeOrigin
    loop,           \* a check is scheduled
    callbackList,   \* promises waiting for the iframe
    asked,          \* messages posted to the iframe
    answers,        \* messages posted by the iframe
    iframe,         \* the iframe: "new", "init" during its request, "ready"
    cookie,         \* KEYCLOAK_SESSION in the browser
    alive           \* sessions alive at the server

tokenVars == <<token, refreshable, sid, skew, fresh, timer>>
initVars == <<opt, cont, initP>>
callVars == <<call, refreshQueue, refreshes>>
iframeVars == <<asked, answers, iframe>>
ssoVars == <<cookie, alive>>
vars == <<initVars, page, tokenVars, callVars, exchange, frame, loop, callbackList,
          iframeVars, ssoVars>>

Refresh == [session : Sessions \cup {NoSession}, st : {"sent", "granted", "denied", "failed"}]
Answer == {"unchanged", "changed", "error"}

TypeOK ==
    /\ opt \in Options
    /\ page \in {"open", "leaving", "gone"}
    /\ cont \in {"config", "onload", "session", "refresh", "none"}
    /\ initP \in {"pending", "ok", "failed"}
    /\ token \in Sessions \cup {NoSession} /\ sid \in Sessions \cup {NoSession}
    /\ refreshable \in BOOLEAN /\ skew \in BOOLEAN /\ fresh \in BOOLEAN
    /\ timer \in BOOLEAN /\ loop \in BOOLEAN
    /\ call \in [Callers -> {"idle", "force", "min", "ok", "error"}]
    /\ refreshQueue \subseteq Callers
    /\ refreshes \in Seq(Refresh)
    /\ exchange \in {"none", "sent", "granted", "refused"}
    /\ frame \in {"none", "loading", "ready"}
    /\ callbackList \subseteq Waiting
    /\ asked \in Seq(Sessions \cup {NoSession})
    /\ answers \in Seq(Answer)
    /\ iframe \in {"new", "init", "ready"}
    /\ cookie \in Sessions \cup {NoSession}
    /\ alive \subseteq Sessions

-----------------------------------------------------------------------------
(* Tokens *)

\* setToken with a token: what was scheduled for the old one is cancelled.  A
\* token that is expired already calls onTokenExpired at once, no timer is set.
SetToken(s, r, timed) ==
    /\ token' = s
    /\ refreshable' = r
    /\ sid' = s
    /\ skew' = (skew \/ timed)
    /\ fresh' \in BOOLEAN
    /\ timer' = (skew' /\ fresh')

\* setToken(null, null, null); clearToken does it only when there is a token,
\* which changes nothing otherwise.
DeleteToken ==
    /\ token' = NoSession
    /\ refreshable' = FALSE
    /\ fresh' = FALSE
    /\ timer' = FALSE
    /\ UNCHANGED <<sid, skew>>

\* The default adapter's login, logout, register and accountManagement set
\* location.href: the page runs on until it is unloaded.
LeaveIf(b) == page' = IF b /\ page = "open" THEN "leaving" ELSE page

\* clearToken starts a login when one is required and there was a token.
LoginAfterClear == token # NoSession /\ opt.onLoad = "login-required"

\* A promise is settled once: a later setSuccess or setError has no effect.
SettleInit(result) == initP' = IF initP = "pending" THEN result ELSE initP

-----------------------------------------------------------------------------
(* The login status iframe, as the page sees it *)

\* checkLoginIframe for the promises ps, with s as the session id: only the first
\* one posts a message.
CheckLoginIframe(ps, s) ==
    /\ callbackList' = callbackList \cup ps
    /\ asked' = IF callbackList = {} /\ ps # {} THEN Append(asked, s) ELSE asked

-----------------------------------------------------------------------------
(* updateToken *)

Pending == {"force", "min"}

\* exec's decision: a forced call, no token, or isTokenExpired(minValidity)
NeedsRefresh(kind, t, k, f) == kind = "force" \/ t = NoSession \/ ~k \/ ~f

\* Mutant: every call that needs a refresh sends a request of its own.
ExecWithoutQueue(cs, kinds, t, k, f) ==
    LET need == {c \in cs : NeedsRefresh(kinds[c], t, k, f)}
    IN  /\ call' = [c \in Callers |-> IF c \in cs \ need THEN "ok" ELSE kinds[c]]
        /\ refreshQueue' = refreshQueue \cup need
        /\ refreshes' = IF need # {} THEN Append(refreshes, [session |-> t, st |-> "sent"])
                        ELSE refreshes

\* exec for the calls cs, which are in the states kinds: those that need no refresh
\* succeed, the others enter refreshQueue, and only the first one there sends a
\* request.
Exec(cs, kinds, t, k, f) ==
    LET need == {c \in cs : NeedsRefresh(kinds[c], t, k, f)}
    IN  /\ call' = [c \in Callers |-> IF c \in cs \ need THEN "ok" ELSE kinds[c]]
        /\ refreshQueue' = refreshQueue \cup need
        /\ refreshes' = IF refreshQueue = {} /\ need # {}
                        THEN Append(refreshes, [session |-> t, st |-> "sent"])
                        ELSE refreshes

\* updateToken(-1) ("force") or updateToken(minValidity) ("min") for the calls cs,
\* when the page holds tokens of session t (r: with a refresh token; k: timeSkew is
\* known; f: they are fresh) and the session id s.
CallUpdateToken(cs, kind, r, t, k, f, s) ==
    /\ \A c \in cs : call[c] \notin Pending
    /\ \/ /\ ~r
          /\ call' = [c \in Callers |-> IF c \in cs THEN "error" ELSE call[c]]
          /\ UNCHANGED <<refreshQueue, refreshes, callbackList, asked>>
       \/ /\ r /\ frame = "ready"
          /\ call' = [c \in Callers |-> IF c \in cs THEN kind ELSE call[c]]
          /\ CheckLoginIframe(cs, s)
          /\ UNCHANGED <<refreshQueue, refreshes>>
       \/ /\ r /\ frame # "ready"
          /\ Exec(cs, [c \in Callers |-> IF c \in cs THEN kind ELSE call[c]], t, k, f)
          /\ UNCHANGED <<callbackList, asked>>

\* The application calls updateToken.
UpdateToken(c, kind) ==
    /\ page # "gone"
    /\ CallUpdateToken({c}, kind, refreshable, token, skew, fresh, sid)
    /\ UNCHANGED <<initVars, page, tokenVars, exchange, frame, loop, answers, iframe, ssoVars>>

\* Mutant: the promises are settled only when the refresh succeeded.
SettleQueueOnSuccess(cs, result) ==
    /\ call' = [c \in Callers |-> IF c \in refreshQueue /\ result = "ok" THEN "ok" ELSE call[c]]
    /\ CheckLoginIframe({}, sid')
    /\ refreshQueue' = IF result = "ok" THEN {} ELSE refreshQueue

\* updateToken(minValidity) called for cs by onTokenExpired, onAuthRefreshSuccess or
\* onAuthRefreshError, which run before refreshQueue is emptied.  With the iframe
\* the calls wait for its answer; without it those that need a refresh join
\* the queue.  Then the queue is emptied and its promises are settled.
SettleQueue(cs, result) ==
    LET wait == IF refreshable' /\ frame = "ready" THEN cs ELSE {}
        join == {c \in cs \ wait : NeedsRefresh("min", token', skew', fresh')}
    IN  /\ call' = [c \in Callers |->
                      IF c \in wait THEN "min"
                      ELSE IF c \in cs /\ ~refreshable' THEN "error"
                      ELSE IF c \in refreshQueue \cup join THEN result
                      ELSE IF c \in cs THEN "ok"
                      ELSE call[c]]
        /\ CheckLoginIframe(wait, sid')
        /\ refreshQueue' = {}

-----------------------------------------------------------------------------
(* init *)

\* Mutant: a wrong nonce makes init fail, but the tokens stay.
AuthSuccessKeepsToken(s, r, fulfillPromise) ==
    /\ SetToken(s, r, TRUE)
    /\ \/ IF fulfillPromise THEN SettleInit("ok") ELSE UNCHANGED initP
       \/ SettleInit("failed")
    /\ UNCHANGED page

\* authSuccess in processCallback: tokens of session s are stored; if their nonce
\* is not the stored one they are cleared again and init fails.  (The tokens of a
\* fragment come without a refresh token: an updateToken that onTokenExpired makes
\* for them fails at once, as one made before.)
AuthSuccess(s, r, fulfillPromise) ==
    \/ /\ SetToken(s, r, TRUE)
       /\ IF fulfillPromise THEN SettleInit("ok") ELSE UNCHANGED initP
       /\ UNCHANGED page
    \/ /\ token' = NoSession /\ refreshable' = FALSE
       /\ fresh' = FALSE /\ timer' = FALSE
       /\ sid' = s /\ skew' = TRUE
       /\ SettleInit("failed")
       /\ LeaveIf(opt.onLoad = "login-required")

\* processCallback: an error ends init; the tokens of the fragment are stored;
\* a code is exchanged, whatever became of those tokens.
ProcessCallback ==
    /\ \/ /\ opt.boot = "error"
          /\ SettleInit("failed")
          /\ UNCHANGED <<tokenVars, page, exchange>>
       \/ /\ opt.boot = "errorNone"
          /\ SettleInit("ok")
          /\ UNCHANGED <<tokenVars, page, exchange>>
       \/ /\ opt.boot = "code" /\ opt.flow = "standard"
          /\ exchange' = "sent"
          /\ UNCHANGED <<tokenVars, page, initP>>
       \/ /\ opt.boot = "code" /\ opt.flow # "standard"
          /\ AuthSuccess(opt.session, FALSE, TRUE)
          /\ exchange' = IF opt.flow = "hybrid" THEN "sent" ELSE exchange
    /\ cont' = "none"
    /\ UNCHANGED callVars

\* onLoad: 'check-sso' with the iframe waits for it, the others log in.
DoOnLoad ==
    /\ \/ /\ opt.onLoad = "check-sso" /\ opt.iframe
          /\ cont' = "onload" /\ frame' = "loading"
          /\ UNCHANGED page
       \/ /\ opt.onLoad = "login-required" \/ (opt.onLoad = "check-sso" /\ ~opt.iframe)
          /\ LeaveIf(TRUE)
          /\ cont' = "none"
          /\ UNCHANGED frame
    /\ UNCHANGED <<initP, tokenVars, callVars, exchange>>

\* processInit with a callback in the URL
InitFromCallback ==
    /\ opt.boot \in {"code", "error", "errorNone"}
    /\ \/ ~opt.iframe /\ ProcessCallback /\ UNCHANGED frame
       \/ /\ opt.iframe
          /\ cont' = "onload" /\ frame' = "loading"
          /\ UNCHANGED <<initP, page, tokenVars, callVars, exchange>>

\* processInit with tokens in initOptions: they are stored without a time, and
\* checked with the iframe or by a forced updateToken.
InitFromTokens ==
    /\ opt.boot = "tokens"
    /\ SetToken(opt.session, TRUE, FALSE)
    /\ \/ /\ opt.iframe
          /\ cont' = "onload" /\ frame' = "loading"
          /\ UNCHANGED callVars
       \/ /\ ~opt.iframe
          /\ cont' = "refresh"
          /\ Exec({InitCall}, [call EXCEPT ![InitCall] = "force"], token', skew', fresh')
          /\ UNCHANGED frame
    /\ UNCHANGED <<initP, page, exchange>>

\* processInit with neither
InitFromNothing ==
    /\ opt.boot = "none"
    /\ \/ opt.onLoad # "none" /\ DoOnLoad
       \/ /\ opt.onLoad = "none"
          /\ cont' = "none" /\ SettleInit("ok")
          /\ UNCHANGED <<page, tokenVars, callVars, exchange, frame>>

\* The configuration has arrived.
ConfigLoaded ==
    /\ page # "gone" /\ cont = "config"
    /\ InitFromCallback \/ InitFromTokens \/ InitFromNothing
    /\ UNCHANGED <<opt, loop, callbackList, iframeVars, ssoVars>>

\* The configuration could not be loaded.
ConfigFailed ==
    /\ page # "gone" /\ cont = "config"
    /\ cont' = "none" /\ SettleInit("failed")
    /\ UNCHANGED <<opt, page, tokenVars, callVars, exchange, frame, loop, callbackList,
                   iframeVars, ssoVars>>

\* iframe.onload: the first check is scheduled and init goes on, with the callback
\* or with a check of the session.
IframeLoaded ==
    /\ page # "gone" /\ frame = "loading"
    /\ frame' = "ready" /\ loop' = TRUE
    /\ \/ /\ opt.boot \in {"code", "error", "errorNone"}
          /\ ProcessCallback
          /\ UNCHANGED <<callbackList, asked>>
       \/ /\ opt.boot \in {"tokens", "none"}
          /\ CheckLoginIframe({"session"}, sid)
          /\ cont' = "session"
          /\ UNCHANGED <<initP, page, tokenVars, callVars, exchange>>
    /\ UNCHANGED <<opt, answers, iframe, ssoVars>>

\* Mutant: a refused code leaves init's promise alone.
ExchangeAnsweredQuietly(cs) ==
    /\ page # "gone" /\ exchange \in {"granted", "refused"}
    /\ exchange' = "none"
    /\ \/ /\ exchange = "granted"
          /\ AuthSuccess(opt.session, TRUE, opt.flow = "standard")
          /\ fresh' => cs = {}
          /\ CallUpdateToken(cs, "min", TRUE, opt.session, TRUE, FALSE, opt.session)
       \/ /\ exchange = "refused" /\ cs = {}
          /\ UNCHANGED <<initP, tokenVars, page, callVars, callbackList, asked>>
    /\ UNCHANGED <<opt, cont, frame, loop, answers, iframe, ssoVars>>

\* The response to the code exchange.  Tokens that are expired on arrival make
\* setToken call onTokenExpired, which calls updateToken for cs with the tokens
\* whose nonce has not been compared yet, whatever becomes of them.
ExchangeAnswered(cs) ==
    /\ page # "gone" /\ exchange \in {"granted", "refused"}
    /\ exchange' = "none"
    /\ \/ /\ exchange = "granted"
          /\ AuthSuccess(opt.session, TRUE, opt.flow = "standard")
          /\ fresh' => cs = {}
          /\ CallUpdateToken(cs, "min", TRUE, opt.session, TRUE, FALSE, opt.session)
       \/ /\ exchange = "refused" /\ cs = {}
          /\ SettleInit("failed")
          /\ UNCHANGED <<tokenVars, page, callVars, callbackList, asked>>
    /\ UNCHANGED <<opt, cont, frame, loop, answers, iframe, ssoVars>>

-----------------------------------------------------------------------------
(* Responses, messages and timers *)

\* What init does when its own updateToken is settled.
InitCallSettled(result) ==
    IF InitCall \notin refreshQueue THEN UNCHANGED <<cont, initP>>
    ELSE /\ cont' = "none"
         /\ IF result = "ok" THEN SettleInit("ok")
            ELSE IF opt.onLoad = "none" THEN SettleInit("failed")
            ELSE UNCHANGED initP

\* The response to refresh request i; the callbacks of the application make the
\* calls cs.  Then all promises in refreshQueue are settled.
RefreshAnswered(i, cs) ==
    /\ page # "gone"
    /\ i \in DOMAIN refreshes /\ refreshes[i].st # "sent"
    /\ \A c \in cs : call[c] \notin Pending
    /\ refreshes' = [j \in 1..(Len(refreshes) - 1) |->
                        IF j < i THEN refreshes[j] ELSE refreshes[j + 1]]
    /\ \/ /\ refreshes[i].st = "granted"
          /\ SetToken(refreshes[i].session, TRUE, TRUE)
          /\ SettleQueue(cs, "ok")
          /\ InitCallSettled("ok")
          /\ UNCHANGED page
       \/ /\ refreshes[i].st = "denied"
          /\ DeleteToken
          /\ SettleQueue(cs, "error")
          /\ InitCallSettled("error")
          /\ LeaveIf(LoginAfterClear \/ (InitCall \in refreshQueue /\ opt.onLoad # "none"))
       \/ /\ refreshes[i].st = "failed"
          /\ UNCHANGED tokenVars
          /\ SettleQueue(cs, "error")
          /\ InitCallSettled("error")
          /\ LeaveIf(InitCall \in refreshQueue /\ opt.onLoad # "none")
    /\ UNCHANGED <<opt, exchange, frame, loop, answers, iframe, ssoVars>>

\* What init does with the answer to its check of the session.
InitSessionChecked(unchanged) ==
    IF "session" \notin callbackList THEN UNCHANGED <<cont, initP>>
    ELSE /\ cont' = "none"
         /\ IF opt.boot = "tokens" \/ ~unchanged THEN SettleInit("ok") ELSE UNCHANGED initP

\* messageCallback: an answer other than 'unchanged' clears the token; all
\* promises in callbackList are settled, and the updateToken calls go on.
MessageReceived ==
    /\ page # "gone" /\ answers # <<>>
    /\ answers' = Tail(answers)
    /\ callbackList' = {}
    /\ \/ /\ Head(answers) = "unchanged"
          /\ UNCHANGED tokenVars
          /\ Exec(callbackList \cap Calls, call, token, skew, fresh)
          /\ InitSessionChecked(TRUE)
          /\ LeaveIf("session" \in callbackList /\ opt.boot = "none")
       \/ /\ Head(answers) # "unchanged"
          /\ DeleteToken
          /\ call' = [c \in Callers |-> IF c \in callbackList THEN "error" ELSE call[c]]
          /\ InitSessionChecked(FALSE)
          /\ LeaveIf(LoginAfterClear)
          /\ UNCHANGED <<refreshQueue, refreshes>>
    /\ UNCHANGED <<opt, exchange, frame, loop, asked, iframe, ssoVars>>

\* Mutant: the check is always scheduled again, with a token or without.
CheckForEver ==
    /\ page # "gone" /\ loop
    /\ CheckLoginIframe({"check"}, sid)
    /\ UNCHANGED <<initVars, page, tokenVars, callVars, exchange, frame, loop, answers, iframe, ssoVars>>

\* Mutant: one check only.
CheckOnce ==
    /\ page # "gone" /\ loop
    /\ CheckLoginIframe({"check"}, sid)
    /\ loop' = FALSE
    /\ UNCHANGED <<initVars, page, tokenVars, callVars, exchange, frame, answers, iframe, ssoVars>>

\* check: asks the iframe, and is scheduled again only if there is a token.
Check ==
    /\ page # "gone" /\ loop
    /\ CheckLoginIframe({"check"}, sid)
    /\ loop' = (token # NoSession)
    /\ UNCHANGED <<initVars, page, tokenVars, callVars, exchange, frame, answers, iframe, ssoVars>>

\* Time passes: the token is about to expire.
TokenExpires ==
    /\ fresh
    /\ fresh' = FALSE
    /\ UNCHANGED <<initVars, page, token, refreshable, sid, skew, timer, callVars, exchange, frame,
                   loop, callbackList, iframeVars, ssoVars>>

\* The timer armed by setToken calls onTokenExpired.
TokenTimeout ==
    /\ page # "gone" /\ timer /\ ~fresh
    /\ timer' = FALSE
    /\ UNCHANGED <<initVars, page, token, refreshable, sid, skew, fresh, callVars, exchange, frame,
                   loop, callbackList, iframeVars, ssoVars>>

\* The application calls clearToken.
AppClearToken ==
    /\ page # "gone" /\ token # NoSession
    /\ DeleteToken
    /\ LeaveIf(LoginAfterClear)
    /\ UNCHANGED <<initVars, callVars, exchange, frame, loop, callbackList, iframeVars, ssoVars>>

\* The application calls login, logout, register or accountManagement.
AppLeaves ==
    /\ page = "open" /\ cont # "config"
    /\ LeaveIf(TRUE)
    /\ UNCHANGED <<initVars, tokenVars, callVars, exchange, frame, loop, callbackList, iframeVars,
                   ssoVars>>

\* The browser unloads the page: nothing runs in it any more.
Unload ==
    /\ page = "leaving"
    /\ page' = "gone"
    /\ UNCHANGED <<initVars, tokenVars, callVars, exchange, frame, loop, callbackList, iframeVars,
                   ssoVars>>

-----------------------------------------------------------------------------
(* The iframe's own script (login-status-iframe.html) *)

\* receiveMessage: without a cookie the session has changed; the first time the
\* server is asked, afterwards the session is compared with the cookie.
IframeReceives ==
    /\ page # "gone" /\ asked # <<>> /\ iframe # "init"
    /\ \/ /\ cookie = NoSession
          /\ answers' = Append(answers, "changed") /\ asked' = Tail(asked)
          /\ UNCHANGED iframe
       \/ /\ cookie # NoSession /\ iframe = "new"
          /\ iframe' = "init"
          /\ UNCHANGED <<asked, answers>>
       \/ /\ cookie # NoSession /\ iframe = "ready"
          /\ answers' = Append(answers, IF Head(asked) = cookie THEN "unchanged" ELSE "changed")
          /\ asked' = Tail(asked)
          /\ UNCHANGED iframe
    /\ UNCHANGED <<initVars, page, tokenVars, callVars, exchange, frame, loop, callbackList, ssoVars>>

\* Mutant: the status of the response is passed on.
IframeInitAnsweredRaw ==
    /\ page # "gone" /\ iframe = "init"
    /\ asked' = Tail(asked)
    /\ \/ answers' = Append(answers, "unchanged") /\ iframe' = "ready"
       \/ answers' = Append(answers, "500") /\ iframe' = "new"
    /\ UNCHANGED <<initVars, page, tokenVars, callVars, exchange, frame, loop, callbackList, ssoVars>>

\* The response to the iframe's request: 204, 404 (the realm is gone, and its
\* sessions with it) or anything else.
IframeInitAnswered ==
    /\ page # "gone" /\ iframe = "init"
    /\ asked' = Tail(asked)
    /\ \/ answers' = Append(answers, "unchanged") /\ iframe' = "ready"
       \/ alive = {} /\ answers' = Append(answers, "changed") /\ iframe' = "new"
       \/ answers' = Append(answers, "error") /\ iframe' = "new"
    /\ UNCHANGED <<initVars, page, tokenVars, callVars, exchange, frame, loop, callbackList, ssoVars>>

-----------------------------------------------------------------------------
(* The token endpoint, and the browser's SSO session in other tabs *)

\* codeToToken: a code is exchanged for tokens of a session that is alive, unless
\* the code is expired, used already or does not fit the request.
ExchangeHandled ==
    /\ exchange = "sent"
    /\ exchange' \in IF opt.session \in alive THEN {"granted", "refused"} ELSE {"refused"}
    /\ UNCHANGED <<initVars, page, tokenVars, callVars, frame, loop, callbackList, iframeVars, ssoVars>>

\* refreshAccessToken: a refresh token of a session that is alive may be exchanged; it
\* is refused if the session is over, but also if the token was used before or is
\* older than a not-before policy, or the user is disabled or withdrew the consent.
RefreshAccessToken(s) == {"denied"} \cup IF s \in alive THEN {"granted"} ELSE {}

\* refreshTokenGrant: a refusal has status 400; the request may fail on the way, too.
RefreshHandled(i) ==
    /\ i \in DOMAIN refreshes /\ refreshes[i].st = "sent"
    /\ \E st \in RefreshAccessToken(refreshes[i].session) \cup {"failed"} :
          refreshes' = [refreshes EXCEPT ![i].st = st]
    /\ UNCHANGED <<initVars, page, tokenVars, call, refreshQueue, exchange, frame, loop,
                   callbackList, iframeVars, ssoVars>>

\* A logout in another tab ends the session and removes the cookie.
LogoutElsewhere ==
    /\ cookie # NoSession
    /\ alive' = alive \ {cookie} /\ cookie' = NoSession
    /\ UNCHANGED <<initVars, page, tokenVars, callVars, exchange, frame, loop, callbackList, iframeVars>>

\* A login in another tab creates a session that has not been used before.
LoginElsewhere(s) ==
    /\ cookie # s /\ s # opt.session /\ s \in Sessions \ alive /\ sid # s
    /\ alive' = alive \cup {s} /\ cookie' = s
    /\ UNCHANGED <<initVars, page, tokenVars, callVars, exchange, frame, loop, callbackList, iframeVars>>

\* The session times out or is ended by an administrator; the cookie stays.
SessionExpires(s) ==
    /\ s \in alive
    /\ alive' = alive \ {s}
    /\ UNCHANGED <<initVars, page, tokenVars, callVars, exchange, frame, loop, callbackList, iframeVars,
                   cookie>>

-----------------------------------------------------------------------------
Init ==
    /\ opt \in Options
    /\ page = "open" /\ cont = "config" /\ initP = "pending"
    /\ token = NoSession /\ sid = NoSession
    /\ refreshable = FALSE /\ skew = FALSE /\ fresh = FALSE /\ timer = FALSE
    /\ call = [c \in Callers |-> "idle"]
    /\ refreshQueue = {} /\ refreshes = <<>> /\ exchange = "none"
    /\ frame = "none" /\ loop = FALSE
    /\ callbackList = {} /\ asked = <<>> /\ answers = <<>> /\ iframe = "new"
    /\ cookie \in {opt.session, NoSession}
    /\ alive = {opt.session}

\* What the page, the iframe and the network do by themselves; the application's
\* callbacks make one of the sets of calls in callbacks.
PageStep(callbacks) ==
    \/ ConfigLoaded \/ ConfigFailed \/ IframeLoaded
    \/ \E cs \in callbacks : ExchangeAnswered(cs)
    \/ \E i \in DOMAIN refreshes, cs \in callbacks : RefreshAnswered(i, cs)
    \/ MessageReceived \/ Check \/ TokenTimeout \/ Unload
    \/ IframeReceives \/ IframeInitAnswered
    \/ ExchangeHandled \/ \E i \in DOMAIN refreshes : RefreshHandled(i)

AppStep ==
    \/ \E c \in Calls, kind \in Pending : UpdateToken(c, kind)
    \/ AppClearToken \/ AppLeaves

Environment ==
    \/ TokenExpires \/ LogoutElsewhere
    \/ \E s \in Sessions : LoginElsewhere(s) \/ SessionExpires(s)

Next == PageStep(SUBSET Calls) \/ AppStep \/ Environment

\* Requests are answered or fail, messages are delivered, timers fire.
Fairness ==
    /\ WF_vars(ConfigLoaded \/ ConfigFailed)
    /\ WF_vars(IframeLoaded)
    /\ WF_vars(ExchangeHandled)
    /\ WF_vars(\E cs \in SUBSET Calls : ExchangeAnswered(cs))
    /\ WF_vars(\E i \in DOMAIN refreshes : RefreshHandled(i))
    /\ WF_vars(\E i \in DOMAIN refreshes, cs \in SUBSET Calls : RefreshAnswered(i, cs))
    /\ WF_vars(IframeReceives) /\ WF_vars(IframeInitAnswered)
    /\ WF_vars(MessageReceived)
    /\ WF_vars(Check)

Spec == Init /\ [][Next]_vars /\ Fairness

-----------------------------------------------------------------------------
(* Properties *)

\* "length == 1" is enough to have one request: the queues are non-empty exactly
\* while one refresh request, respectively one message, is on its way, and every
\* pending updateToken is in exactly one of them, so the answer settles it.
QueuesMatchRequests ==
    /\ Len(refreshes) = IF refreshQueue = {} THEN 0 ELSE 1
    /\ Len(asked) + Len(answers) = IF callbackList = {} THEN 0 ELSE 1
    /\ refreshQueue \cap callbackList = {}
    /\ \A c \in Callers : call[c] \in Pending <=> c \in refreshQueue \cup callbackList

\* If the callback of a login makes init fail, in the implicit flow or in the standard
\* flow with the iframe, the page holds no token then or later.  (The hybrid flow
\* goes on with its code exchange after a failure.  In the standard flow without
\* the iframe onTokenExpired may send a refresh with tokens of a wrong nonce,
\* and its answer stores new ones after init has failed.)
RejectedMeansNoToken ==
    /\ opt.boot = "code"
    /\ opt.flow = "implicit" \/ (opt.flow = "standard" /\ opt.iframe)
    /\ initP = "failed"
    => token = NoSession

\* A token of the session the browser is still in, and which is alive, is not
\* cleared by the adapter, except when the iframe reports an error, the server
\* refuses a refresh or the nonce of new tokens is wrong; in particular not by an
\* answer of the iframe to an old question.
GoodTokenKept ==
    [][/\ token # NoSession /\ token' = NoSession
       /\ token = cookie /\ token \in alive
       => \/ AppClearToken
          \/ answers # <<>> /\ Head(answers) = "error" /\ answers' = Tail(answers)
          \/ Len(refreshes') < Len(refreshes) /\ \E i \in DOMAIN refreshes : refreshes[i].st = "denied"
          \/ exchange' # exchange]_vars

\* Every updateToken is settled, unless the page goes away.
CallsSettle == \A c \in Callers : call[c] \in Pending ~> (call[c] \notin Pending \/ page = "gone")

\* init is settled, unless the page goes away.
InitSettles == initP = "pending" ~> (initP # "pending" \/ page # "open")

\* A token of a session that is no longer the browser's does not stay while the
\* check is scheduled.  (A check that finds no token is the last one: a token that
\* a slow code exchange brings afterwards is not watched.)
SessionEndNoticed ==
    (loop /\ token # NoSession /\ cookie # token) ~> (token = NoSession \/ page # "open")

=============================================================================

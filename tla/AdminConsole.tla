------------------------------ MODULE AdminConsole ------------------------------
(***************************************************************************)
(* The admin console's shell (app.js and the Notifications service): start  *)
(* up, the interceptors every $http request passes through, the spinner and *)
(* the notifications, composed with the adapter of KeycloakJs.  A request   *)
(* is named by the updateToken call it makes.                               *)
(***************************************************************************)
EXTENDS KeycloakJs

CONSTANT MaxQuiet   \* requests with a transformRequest of their own on one page

ASSUME QuietAssumption == MaxQuiet \in Nat

VARIABLES
    up,                 \* start up: "auth", "bundle", "whoami", "running" or "blank"
    req,                \* state of each $http request
    reloading,          \* location.reload() was called
    resourceRequests,   \* the count of the spinner
    uncounted,          \* history: answered requests the spinner had not counted
    loadingTimer,       \* the spinner's timer is armed
    loading,            \* the spinner is shown
    shown,              \* the notification on display, 0 if none
    scheduled           \* notifications whose $timeout is pending

spinnerVars == <<resourceRequests, uncounted, loadingTimer, loading>>
noteVars == <<shown, scheduled>>
consoleVars == <<up, req, reloading, spinnerVars, noteVars>>
allVars == <<vars, consoleVars>>

Note == {1, 2}

ConsoleTypeOK ==
    /\ up \in {"auth", "bundle", "whoami", "running", "blank"}
    /\ req \in [Calls -> {"idle", "token", "hung", "ready", "sent", "quiet"}]
    /\ reloading \in BOOLEAN
    /\ resourceRequests \in Int /\ uncounted \in Nat
    /\ resourceRequests + uncounted >= 0
    /\ loadingTimer \in BOOLEAN /\ loading \in BOOLEAN
    /\ shown \in Note \cup {0}
    /\ scheduled \subseteq Note

-----------------------------------------------------------------------------
(* Promise callbacks of the console that run in the adapter's tasks *)

\* Mutant: the request goes on when updateToken has failed, too.
InterceptedAlways ==
    req' = [r \in Calls |-> IF req[r] = "token" /\ call'[r] \in {"ok", "error"} THEN "ready" ELSE req[r]]

\* authInterceptor: success puts the token in the header and resolves, error
\* reloads the page.
Intercepted ==
    req' = [r \in Calls |-> IF req[r] = "token" /\ call'[r] = "ok" THEN "ready" ELSE req[r]]

\* init's success starts the console.
Started == up' = IF up = "auth" /\ initP' = "ok" THEN "bundle" ELSE up

\* Mutant: an error of updateToken is ignored.
ReloadAfterInit == reloading' = (reloading \/ (up = "auth" /\ initP' = "failed"))

\* The page is reloaded when init or updateToken fails, and by onAuthLogout when
\* the token has been cleared.
Reload ==
    reloading' = (\/ reloading
                  \/ up = "auth" /\ initP' = "failed"
                  \/ token # NoSession /\ token' = NoSession
                  \/ \E r \in Calls : req[r] = "token" /\ call'[r] = "error")

\* A task of the adapter, of the iframe or of the network.
AdapterStep ==
    /\ PageStep({{}}) \/ AppLeaves \/ Environment
    /\ Intercepted /\ Started /\ Reload
    /\ UNCHANGED <<spinnerVars, noteVars>>

-----------------------------------------------------------------------------
(* Start up *)

\* loadResourceBundle: without the messages the console stays blank.
LoadResourceBundle ==
    /\ page # "gone" /\ up = "bundle"
    /\ up' \in {"whoami", "blank"}
    /\ UNCHANGED <<vars, req, reloading, spinnerVars, noteVars>>

\* whoAmI, called by refreshPermissions without an error callback, then bootstrap
WhoAmI ==
    /\ page # "gone" /\ up = "whoami"
    /\ up' \in {"running", "blank"}
    /\ UNCHANGED <<vars, req, reloading, spinnerVars, noteVars>>

-----------------------------------------------------------------------------
(* $http *)

\* authInterceptor.request without a token: the deferred is never resolved.
HttpWithoutToken(r) ==
    /\ page # "gone" /\ up = "running" /\ req[r] = "idle"
    /\ token = NoSession
    /\ req' = [req EXCEPT ![r] = "hung"]
    /\ UNCHANGED <<vars, up, reloading, spinnerVars, noteVars>>

\* authInterceptor.request with a token: updateToken(5) first; if it fails the page
\* is reloaded and the deferred is never resolved.
Http(r) ==
    /\ up = "running" /\ req[r] = "idle"
    /\ token # NoSession
    /\ UpdateToken(r, "min")
    /\ req' = [req EXCEPT ![r] = IF call'[r] = "ok" THEN "ready"
                                  ELSE IF call'[r] = "error" THEN "hung"
                                  ELSE "token"]
    /\ reloading' = (reloading \/ call'[r] = "error")
    /\ UNCHANGED <<up, spinnerVars, noteVars>>

\* transformRequest runs spinnerFunction, then the request is sent.
Send(r) ==
    /\ page # "gone" /\ req[r] = "ready"
    /\ req' = [req EXCEPT ![r] = "sent"]
    /\ loadingTimer' = (loadingTimer \/ resourceRequests = 0)
    /\ resourceRequests' = resourceRequests + 1
    /\ UNCHANGED <<vars, up, reloading, uncounted, loading, noteVars>>

\* A request with a transformRequest of its own (Components.save and update,
\* RealmLDAPConnectionTester.save), which replaces the default one: spinnerFunction
\* is not called.
SendQuiet(r) ==
    /\ page # "gone" /\ req[r] = "ready"
    /\ uncounted + Cardinality({q \in Calls : req[q] = "quiet"}) < MaxQuiet
    /\ req' = [req EXCEPT ![r] = "quiet"]
    /\ UNCHANGED <<vars, up, reloading, spinnerVars, noteVars>>

\* Mutant: an error is counted by the error callback and by errorInterceptor.
SpinnerInterceptorTwice ==
    /\ resourceRequests' \in {resourceRequests - 1, resourceRequests - 2}
    /\ loadingTimer' = (loadingTimer /\ resourceRequests' # 0)
    /\ loading' = (loading /\ resourceRequests' # 0)

\* Mutant: the timer is not cancelled.
SpinnerInterceptorKeepsTimer ==
    /\ resourceRequests' = resourceRequests - 1
    /\ loading' = (loading /\ resourceRequests' # 0)
    /\ UNCHANGED loadingTimer

\* spinnerInterceptor, for responses and errors of all requests, counted or not
SpinnerInterceptor ==
    /\ resourceRequests' = resourceRequests - 1
    /\ loadingTimer' = (loadingTimer /\ resourceRequests' # 0)
    /\ loading' = (loading /\ resourceRequests' # 0)

\* Mutant: the $timeout of the message on display stays.
MessageKeepsTimeout ==
    LET n == IF shown = 1 THEN 2 ELSE 1
    IN  /\ shown' = n
        /\ scheduled' = scheduled \cup {n}

\* Notifications.message: the message on display and its $timeout are removed.
Message ==
    LET n == IF shown = 1 THEN 2 ELSE 1
    IN  /\ shown' = n
        /\ scheduled' = (scheduled \ {shown}) \cup {n}

Answered(r) ==
    /\ req[r] \in {"sent", "quiet"}
    /\ req' = [req EXCEPT ![r] = "idle"]
    /\ uncounted' = uncounted + (IF req[r] = "quiet" THEN 1 ELSE 0)
    /\ SpinnerInterceptor

\* A response, or an error that errorInterceptor reports with a notification or
\* with a page of its own (403, 404); controllers show notifications too.
Response(r) ==
    /\ page # "gone"
    /\ Answered(r)
    /\ Message \/ UNCHANGED noteVars
    /\ UNCHANGED <<vars, up, reloading>>

\* errorInterceptor for 401: the adapter logs out.
Unauthorized(r) ==
    /\ page # "gone"
    /\ Answered(r)
    /\ LeaveIf(TRUE)
    /\ UNCHANGED <<initVars, tokenVars, callVars, exchange, frame, loop, callbackList, iframeVars,
                   ssoVars, up, reloading, noteVars>>

\* The spinner's timer: the spinner appears.
SpinnerTimeout ==
    /\ page # "gone" /\ loadingTimer
    /\ loading' = TRUE /\ loadingTimer' = FALSE
    /\ UNCHANGED <<vars, up, req, reloading, resourceRequests, uncounted, noteVars>>

\* notifications.current.remove, which cancels the last $timeout
Remove(n) ==
    /\ shown' = 0
    /\ scheduled' = scheduled \ {n, shown}
    /\ UNCHANGED <<vars, up, req, reloading, spinnerVars>>

\* The $timeout of notification n.
NoteTimeout(n) == page # "gone" /\ n \in scheduled /\ Remove(n)

\* The user closes the notification.
NoteClosed == page # "gone" /\ shown # 0 /\ Remove(shown)

\* The browser reloads the page.
Reloaded ==
    /\ reloading /\ page # "gone"
    /\ page' = "gone"
    /\ UNCHANGED <<initVars, tokenVars, callVars, exchange, frame, loop, callbackList, iframeVars,
                   ssoVars, consoleVars>>

-----------------------------------------------------------------------------
ConsoleInit ==
    /\ Init
    /\ up = "auth"
    /\ req = [r \in Calls |-> "idle"]
    /\ reloading = FALSE
    /\ resourceRequests = 0 /\ uncounted = 0 /\ loadingTimer = FALSE /\ loading = FALSE
    /\ shown = 0 /\ scheduled = {}

ConsoleNext ==
    \/ AdapterStep
    \/ LoadResourceBundle \/ WhoAmI
    \/ \E r \in Calls : \/ HttpWithoutToken(r) \/ Http(r) \/ Send(r) \/ SendQuiet(r)
                         \/ Response(r) \/ Unauthorized(r)
    \/ SpinnerTimeout \/ NoteClosed \/ \E n \in Note : NoteTimeout(n)
    \/ Reloaded

\* Requests are sent and answered; location.reload() and location.href take effect.
ConsoleFairness ==
    /\ Fairness
    /\ \A r \in Calls : /\ WF_allVars(Send(r) \/ SendQuiet(r))
                        /\ WF_allVars(Response(r) \/ Unauthorized(r))
    /\ WF_allVars(Reloaded)
    /\ WF_vars(Unload)

ConsoleSpec == ConsoleInit /\ [][ConsoleNext]_allVars /\ ConsoleFairness

-----------------------------------------------------------------------------
(* Properties *)

\* The spinner's count is the number of counted requests under way less the
\* uncounted ones answered so far, and the spinner is shown or about to be shown
\* exactly while it is positive: without requests of the second kind exactly while
\* requests are under way; every one of them makes it miss one more request.
SpinnerMatchesRequests ==
    /\ resourceRequests = Cardinality({r \in Calls : req[r] = "sent"}) - uncounted
    /\ (loadingTimer \/ loading) <=> resourceRequests > 0
    /\ ~(loadingTimer /\ loading)

\* Only the $timeout of the notification on display is pending: a notification is
\* not taken away by the $timeout of an earlier one.
TimeoutOfShown == scheduled \subseteq {shown}

\* The Authorization header that authInterceptor gives a request of $http carries a
\* token: it was there when the request was made and is there again when updateToken
\* has succeeded.  (whoAmI, before the start, sets its header by itself.)
HeaderHasToken ==
    [][\A r \in Calls : req[r] # "ready" /\ req'[r] = "ready" => token' # NoSession]_allVars

\* Every request is answered, even one made without a token, unless the page is
\* unloaded or reloaded.
RequestsEnd == \A r \in Calls : req[r] # "idle" ~> (req[r] = "idle" \/ page = "gone")

=============================================================================

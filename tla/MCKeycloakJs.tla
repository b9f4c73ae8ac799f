------------------------------ MODULE MCKeycloakJs ------------------------------
(***************************************************************************)
(* Small instances of KeycloakJs.                                           *)
(***************************************************************************)
EXTENDS KeycloakJs

CONSTANTS c1, s1, s2

\* onLoad 'check-sso' is looked at only when there is no callback in the URL, and
\* the flow only when there is a code.
MCOptions ==
    {o \in Option : /\ o.session = s1
                    /\ o.boot \in {"error", "errorNone"} => o.onLoad = "none"
                    /\ o.boot = "code" => o.onLoad # "check-sso"
                    /\ o.flow # "standard" => o.boot = "code" /\ o.onLoad = "none"}

=============================================================================

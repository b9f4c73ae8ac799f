----------------------------- MODULE MCAdminConsole -----------------------------
(***************************************************************************)
(* Small instances of AdminConsole: the console calls init with             *)
(* onLoad 'login-required' and nothing else.                                *)
(***************************************************************************)
EXTENDS AdminConsole

CONSTANTS r1, r2, s1, s2

MCOptions ==
    [flow : {"standard"}, onLoad : {"login-required"}, iframe : {TRUE},
     boot : {"none", "code", "error"}, session : {s1}]

=============================================================================

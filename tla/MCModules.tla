----------------------------- MODULE MCModules -----------------------------
(***************************************************************************)
(* modules_exec with any modules enabled, against every peer.                *)
(***************************************************************************)
EXTENDS Modules

AllModules == SUBSET {"cookie", "print", "rfb", "x11"}

\* modules_exec returns, so that the worker gets to the next result, unless the
\* process dies of the is_ssl that ts_socket left unset.
ResultsEnd == pc # "idle" ~> pc = "idle" \/ ~Running
=============================================================================

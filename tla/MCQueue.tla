------------------------------ MODULE MCQueue ------------------------------
(***************************************************************************)
(* Queue on small instances.                                               *)
(***************************************************************************)
EXTENDS Queue

=============================================================================

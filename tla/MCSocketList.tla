---------------------------- MODULE MCSocketList ----------------------------
(* SocketList on a small array. *)
EXTENDS SocketList

=============================================================================

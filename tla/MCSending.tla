----------------------------- MODULE MCSending -----------------------------
(***************************************************************************)
(* Five packets, a report for every second, two sockets, two ports.        *)
(***************************************************************************)
EXTENDS Sending
=============================================================================

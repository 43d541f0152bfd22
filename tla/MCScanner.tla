----------------------------- MODULE MCScanner -----------------------------
(* Scanner on small instances. *)
EXTENDS Scanner

=============================================================================

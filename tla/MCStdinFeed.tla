---------------------------- MODULE MCStdinFeed ----------------------------
(* StdinFeed on all inputs of a few lines. *)
EXTENDS StdinFeed

=============================================================================

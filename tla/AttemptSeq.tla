----------------------------- MODULE AttemptSeq -----------------------------
(***************************************************************************)
(* Sequences of pending connection attempts, oldest first.  An attempt is  *)
(* a record with a field fd; no descriptor occurs twice in a sequence.     *)
(***************************************************************************)
EXTENDS Integers, Sequences

FdsOf(list) == {list[i].fd : i \in DOMAIN list}

IndexOf(list, fd) == CHOOSE i \in DOMAIN list : list[i].fd = fd

Without(list, fd) ==
    LET i == IndexOf(list, fd) IN
    [j \in 1 .. Len(list) - 1 |-> list[IF j < i THEN j ELSE j + 1]]

(* the descriptor that follows fd's entry, -1 if it is the last one *)
FdAfter(list, fd) ==
    LET i == IndexOf(list, fd) IN
    IF i = Len(list) THEN -1 ELSE list[i + 1].fd

=============================================================================

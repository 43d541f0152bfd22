---------------------------- MODULE PendingList ----------------------------
(***************************************************************************)
(* What socket_list.h promises: the connection attempts in progress, in    *)
(* the order they were started, each found by its file descriptor.         *)
(* SocketList (socket_list.c) implements this specification; Scanner keeps *)
(* its pending attempts in such a sequence.                                *)
(***************************************************************************)
EXTENDS AttemptSeq

CONSTANTS Fds,      \* file descriptors that have an entry
          Targets,  \* (ip, port) pairs
          Times     \* values of an entry's timeout

VARIABLES list,  \* the pending attempts, oldest first
          ret    \* what the last del_from_socket_list returned

vars == <<list, ret>>

Init == list = <<>> /\ ret = -1

Add(fd, target, timeout) ==
    /\ fd \notin FdsOf(list)
    /\ list' = Append(list, [fd |-> fd, target |-> target, timeout |-> timeout])
    /\ UNCHANGED ret

Del(fd) ==
    /\ fd \in FdsOf(list)
    /\ list' = Without(list, fd)
    /\ ret' = FdAfter(list, fd)

Next ==
    \/ \E fd \in Fds, target \in Targets, timeout \in Times : Add(fd, target, timeout)
    \/ \E fd \in Fds : Del(fd)

Spec == Init /\ [][Next]_vars
=============================================================================

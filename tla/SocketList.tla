----------------------------- MODULE SocketList -----------------------------
(***************************************************************************)
(* socket_list.c: a doubly linked list threaded through an array indexed   *)
(* by file descriptor.  conn_thread is its only user: it adds a descriptor *)
(* it has just got from socket(), and deletes one it has just closed,      *)
(* either from the middle (an event) or from the front (a timeout).        *)
(***************************************************************************)
EXTENDS Integers, Sequences

CONSTANTS Size,            \* list->size
          Targets,         \* (ip, port) pairs
          Garbage,         \* content of malloc'ed memory never written
          connect_timeout,
          MaxTime          \* bound on the clock

ASSUME SocketListAssumption ==
    /\ Size \in Nat
    /\ connect_timeout \in Nat
    /\ MaxTime \in Nat
    /\ Garbage \notin Int

Fds == 0 .. Size - 1

VARIABLES prev_fd, next_fd, timeout, target,  \* the fields of entries[fd]
          first_fd, last_fd, num_sockets,
          open,   \* sockets of conn_thread with a connect() in progress
          now,    \* get_ms()
          ret     \* what the last del_from_socket_list returned

entries == <<prev_fd, next_fd, timeout, target>>
vars == <<prev_fd, next_fd, timeout, target, first_fd, last_fd, num_sockets, open, now, ret>>

Links == Fds \cup {-1}
Times == 0 .. MaxTime + connect_timeout

TypeOK ==
    /\ prev_fd \in [Fds -> Links \cup {Garbage}]
    /\ next_fd \in [Fds -> Links \cup {Garbage}]
    /\ timeout \in [Fds -> Times \cup {Garbage}]
    /\ target \in [Fds -> Targets \cup {Garbage}]
    /\ first_fd \in Links
    /\ last_fd \in Links
    /\ num_sockets \in Nat
    /\ open \in SUBSET Fds
    /\ now \in 0 .. MaxTime
    /\ ret \in Links

(* init_socket_list *)
Init ==
    /\ prev_fd = [fd \in Fds |-> Garbage]
    /\ next_fd = [fd \in Fds |-> Garbage]
    /\ timeout = [fd \in Fds |-> Garbage]
    /\ target = [fd \in Fds |-> Garbage]
    /\ first_fd = -1
    /\ last_fd = -1
    /\ num_sockets = 0
    /\ open = {}
    /\ now \in 0 .. MaxTime
    /\ ret = -1

-----------------------------------------------------------------------------
(* Mutant of Add: the new entry goes to the front *)
AddAtFront(fd, tgt) ==
    /\ fd \notin open
    /\ open' = open \cup {fd}
    /\ target' = [target EXCEPT ![fd] = tgt]
    /\ timeout' = [timeout EXCEPT ![fd] = now + connect_timeout]
    /\ next_fd' = [next_fd EXCEPT ![fd] = first_fd]
    /\ prev_fd' = IF first_fd = -1
                  THEN [prev_fd EXCEPT ![fd] = -1]
                  ELSE [prev_fd EXCEPT ![fd] = -1, ![first_fd] = fd]
    /\ last_fd' = IF first_fd = -1 THEN fd ELSE last_fd
    /\ first_fd' = fd
    /\ num_sockets' = num_sockets + 1
    /\ UNCHANGED <<now, ret>>

(***************************************************************************)
(* try_connect: the kernel hands out a descriptor that is not open; one    *)
(* that is too big for the array ends the program before the list is       *)
(* touched, so the `fd == list->size' test of add_to_socket_list never     *)
(* succeeds.                                                               *)
(***************************************************************************)
Add(fd, tgt) ==
    /\ fd \notin open
    /\ open' = open \cup {fd}
    /\ target' = [target EXCEPT ![fd] = tgt]
    /\ timeout' = [timeout EXCEPT ![fd] = now + connect_timeout]
    /\ prev_fd' = [prev_fd EXCEPT ![fd] = last_fd]
    /\ next_fd' = IF first_fd = -1
                  THEN [next_fd EXCEPT ![fd] = -1]
                  ELSE [next_fd EXCEPT ![fd] = -1, ![last_fd] = fd]
    /\ first_fd' = IF first_fd = -1 THEN fd ELSE first_fd
    /\ last_fd' = fd
    /\ num_sockets' = num_sockets + 1
    /\ UNCHANGED <<now, ret>>

(* Mutant of Unlink: the successor keeps pointing back at the deleted entry *)
UnlinkForwardOnly(fd) ==
    LET prev == prev_fd[fd]
        next == next_fd[fd]
    IN
    /\ next_fd' = IF prev # -1 THEN [next_fd EXCEPT ![prev] = next] ELSE next_fd
    /\ first_fd' = IF prev # -1 THEN first_fd ELSE next
    /\ last_fd' = IF next # -1 THEN last_fd ELSE prev
    /\ num_sockets' = num_sockets - 1
    /\ ret' = next
    /\ UNCHANGED prev_fd

(* Mutant of Unlink: it returns the entry before the deleted one *)
UnlinkReturnsPrev(fd) ==
    LET prev == prev_fd[fd]
        next == next_fd[fd]
    IN
    /\ next_fd' = IF prev # -1 THEN [next_fd EXCEPT ![prev] = next] ELSE next_fd
    /\ first_fd' = IF prev # -1 THEN first_fd ELSE next
    /\ prev_fd' = IF next # -1 THEN [prev_fd EXCEPT ![next] = prev] ELSE prev_fd
    /\ last_fd' = IF next # -1 THEN last_fd ELSE prev
    /\ num_sockets' = num_sockets - 1
    /\ ret' = prev

(* del_from_socket_list past its early return *)
Unlink(fd) ==
    LET prev == prev_fd[fd]
        next == next_fd[fd]
    IN
    /\ next_fd' = IF prev # -1 THEN [next_fd EXCEPT ![prev] = next] ELSE next_fd
    /\ first_fd' = IF prev # -1 THEN first_fd ELSE next
    /\ prev_fd' = IF next # -1 THEN [prev_fd EXCEPT ![next] = prev] ELSE prev_fd
    /\ last_fd' = IF next # -1 THEN last_fd ELSE prev
    /\ num_sockets' = num_sockets - 1
    /\ ret' = next

(* close(fd) and del_from_socket_list(fd) *)
Del(fd) ==
    /\ fd \in open
    /\ open' = open \ {fd}
    /\ IF num_sockets = 0
       THEN ret' = -1 /\ UNCHANGED <<prev_fd, next_fd, first_fd, last_fd, num_sockets>>
       ELSE Unlink(fd)
    /\ UNCHANGED <<timeout, target, now>>

(* CLOCK_MONOTONIC *)
Tick ==
    /\ now < MaxTime
    /\ now' = now + 1
    /\ UNCHANGED <<entries, first_fd, last_fd, num_sockets, open, ret>>

Next ==
    \/ \E fd \in Fds, tgt \in Targets : Add(fd, tgt)
    \/ \E fd \in Fds : Del(fd)
    \/ Tick

Spec == Init /\ [][Next]_vars

-----------------------------------------------------------------------------
(* s lists the open sockets, oldest first, and the links agree with it *)
Represents(s) ==
    /\ first_fd = IF num_sockets = 0 THEN -1 ELSE s[1]
    /\ last_fd = IF num_sockets = 0 THEN -1 ELSE s[num_sockets]
    /\ \A i, j \in 1 .. num_sockets : s[i] = s[j] => i = j
    /\ \A i \in 1 .. num_sockets :
        /\ prev_fd[s[i]] = IF i = 1 THEN -1 ELSE s[i - 1]
        /\ next_fd[s[i]] = IF i = num_sockets THEN -1 ELSE s[i + 1]
    /\ \A fd \in Fds : fd \in open <=> \E i \in 1 .. num_sockets : s[i] = fd

(***************************************************************************)
(* After any sequence of additions and of deletions anywhere in the list,  *)
(* the links form one chain, the same in both directions, through exactly  *)
(* the open sockets, although descriptors are reused and entries of closed *)
(* ones keep stale links.                                                  *)
(***************************************************************************)
WellLinked == \E s \in [1 .. num_sockets -> Fds] : Represents(s)

(***************************************************************************)
(* socket_list.h: "of course we assume that timeouts are increasing".  The *)
(* epoll timeout and the sweep of conn_thread look at the first entry      *)
(* only: no open socket may be due before it.                              *)
(***************************************************************************)
FirstIsDueFirst ==
    open # {} => /\ first_fd \in open
                 /\ \A fd \in open : timeout[first_fd] <= timeout[fd]

(* the descriptors met by following n links from first *)
Chain(n, first, next) ==
    CHOOSE s \in [1 .. n -> Fds] :
        \A i \in 1 .. n : s[i] = IF i = 1 THEN first ELSE next[s[i - 1]]

(* the list as conn_thread would read it *)
Order ==
    LET node == Chain(num_sockets, first_fd, next_fd)
    IN  [i \in 1 .. num_sockets |->
            [fd |-> node[i], target |-> target[node[i]], timeout |-> timeout[node[i]]]]

Abstract == INSTANCE PendingList WITH list <- Order

(***************************************************************************)
(* The linked array behaves like the sequence of pending attempts: an      *)
(* attempt is appended with its target and deadline, one is removed from   *)
(* any place leaving the others in order, and del_from_socket_list returns *)
(* the attempt that followed it.                                           *)
(***************************************************************************)
ImplementsPendingList == Abstract!Spec

=============================================================================

------------------------------ MODULE Scanner ------------------------------
(***************************************************************************)
(* The scan: conn_thread, run by main, against the kernel, the clock, the  *)
(* worker and SIGINT.                                                      *)
(*                                                                         *)
(* pc says where conn_thread is:                                           *)
(*   "top"     at the test of done                                         *)
(*   "fill"    in the loop that starts connection attempts                 *)
(*   "report"  in try_connect, queueing a connection made at once          *)
(*   "wait"    in epoll_wait                                               *)
(*   "events"  handling the events it returned; when none is left, sweep   *)
(***************************************************************************)
EXTENDS Pipeline, AttemptSeq, FiniteSetsExt

CONSTANTS Targets,              \* what random_ip and random_port can yield
          Canary, NoCanary,     \* canary_ip:canary_port; NoCanary if not set
          canary_after,
          max_pending_sockets,
          socket_list_excess,
          connect_timeout,      \* in ticks of the model's clock
          BaseFds,              \* descriptors in use before the scan: stdio,
                                \* the epoll instance, the .cba file, ...
          MaxFd,                \* bound on descriptors
          NoFd

ASSUME ScannerAssumption ==
    /\ max_pending_sockets \in Nat \ {0}
    /\ socket_list_excess \in Nat
    /\ max_pending_results \in Nat \ {0}
    /\ connect_timeout \in Nat
    /\ canary_after \in Nat
    /\ MaxFd \in Nat /\ BaseFds \subseteq 0 .. MaxFd
    /\ Pill \notin Targets \cup {Canary}

AllFds == 0 .. MaxFd

(* the bound on descriptors leaves room for a full list and the worker's *)
ASSUME FdAssumption ==
    /\ NoFd \notin AllFds
    /\ Cardinality(BaseFds) + max_pending_sockets <= MaxFd

(* Mutant of Size: no room for descriptors other than the scan's *)
SizeWithoutExcess == max_pending_sockets

Size == max_pending_sockets + socket_list_excess

AllTargets == Targets \cup ({Canary} \ {NoCanary})

VARIABLES pending,      \* the socket list; left: ms until the deadline, 0 if past
          socks,        \* the kernel's view of each socket of conn_thread
          pc,
          batch,        \* events of epoll_wait not handled yet
          made,         \* socket and target of a connection made at once
          packets_sent, \* saturates just above canary_after
          done,
          mod_fd,       \* descriptor a module of the worker has open
          canary,       \* fate of the canary attempt
          canary_log    \* what log_canary_fail reported

scan == <<pending, socks, pc, batch, made, packets_sent, done, mod_fd, canary, canary_log>>
vars == <<pipeline, scan>>

(* "open" and "late": established before and after the attempt's deadline *)
SockStates == {"closed", "connecting", "open", "late", "error"}

TypeOK ==
    /\ PipelineTypeOK(AllTargets)
    /\ pending \in Seq([fd : AllFds, target : AllTargets, left : 0 .. connect_timeout])
    /\ Len(pending) <= max_pending_sockets
    /\ socks \in [AllFds -> SockStates]
    /\ pc \in {"top", "fill", "report", "wait", "events"}
    /\ batch \in SUBSET [fd : AllFds, ok : BOOLEAN]
    /\ made \in [fd : AllFds \cup {NoFd}, target : AllTargets \cup {NoResult}]
    /\ packets_sent \in 0 .. canary_after + 1
    /\ done \in BOOLEAN
    /\ mod_fd \in AllFds \cup {NoFd}
    /\ canary \in {"unsent", "pending", "answered", "failed"}
    /\ canary_log \in {"none", "invalid response", "timed out"}

NothingMade == [fd |-> NoFd, target |-> NoResult]

Init ==
    /\ PipelineInit
    /\ pending = <<>>
    /\ socks = [fd \in AllFds |-> "closed"]
    /\ pc = "top"
    /\ batch = {}
    /\ made = NothingMade
    /\ packets_sent = 0
    /\ done = FALSE
    /\ mod_fd = NoFd
    /\ canary = "unsent"
    /\ canary_log = "none"

-----------------------------------------------------------------------------
OpenSocks == {fd \in AllFds : socks[fd] # "closed"}

(* POSIX: the lowest descriptor not in use *)
FreeFd == Min(AllFds \ (BaseFds \cup OpenSocks \cup {mod_fd}))

At(where) == main = "feed" /\ pc = where

CanaryTurn == Canary # NoCanary /\ packets_sent = canary_after

(* Mutant of IsCanary: the canary is not told from the targets *)
IsCanaryNever(target) == FALSE

IsCanary(target) == Canary # NoCanary /\ target = Canary

Filling == At("fill") /\ Len(pending) < max_pending_sockets

(* the target of this try_connect *)
Chosen(target) == target \in IF CanaryTurn THEN {Canary} ELSE Targets

CountPacket ==
    packets_sent' = IF packets_sent <= canary_after THEN packets_sent + 1 ELSE packets_sent

Die == main' = "dead" /\ UNCHANGED <<fifo, worker, result>>

(* while (!done) *)
LoopTop ==
    /\ At("top")
    /\ IF done
       THEN /\ main' = "pill"
            /\ UNCHANGED <<fifo, worker, result, pc>>
       ELSE pc' = "fill" /\ UNCHANGED pipeline
    /\ UNCHANGED <<pending, socks, batch, made, packets_sent, done, mod_fd, canary, canary_log>>

(* Mutant of ConnectStarts: the entry is put at the front of the list *)
ConnectStartsAtFront(target) ==
    /\ Filling /\ Chosen(target)
    /\ CountPacket
    /\ socks' = [socks EXCEPT ![FreeFd] = "connecting"]
    /\ canary' = IF CanaryTurn THEN "pending" ELSE canary
    /\ pending' = <<[fd |-> FreeFd, target |-> target, left |-> connect_timeout]>> \o pending
    /\ UNCHANGED <<pipeline, pc, batch, made, done, mod_fd, canary_log>>

(* try_connect: connect() is in progress; the socket is listed and watched *)
ConnectStarts(target) ==
    /\ Filling /\ Chosen(target)
    /\ CountPacket
    /\ socks' = [socks EXCEPT ![FreeFd] = "connecting"]
    /\ canary' = IF CanaryTurn THEN "pending" ELSE canary
    /\ IF FreeFd >= Size
       THEN Die /\ UNCHANGED pending
       ELSE /\ pending' = Append(pending,
                    [fd |-> FreeFd, target |-> target, left |-> connect_timeout])
            /\ UNCHANGED pipeline
    /\ UNCHANGED <<pc, batch, made, done, mod_fd, canary_log>>

(* try_connect: connect() succeeds at once *)
ConnectSucceeds(target) ==
    /\ Filling /\ Chosen(target)
    /\ CountPacket
    /\ socks' = [socks EXCEPT ![FreeFd] = "open"]
    /\ made' = [fd |-> FreeFd, target |-> target]
    /\ pc' = "report"
    /\ canary' = IF CanaryTurn THEN "answered" ELSE canary
    /\ UNCHANGED <<pipeline, pending, batch, done, mod_fd, canary_log>>

(* Mutant of ReportMade: the socket is not closed *)
ReportMadeNoClose ==
    /\ At("report")
    /\ QueueResult(made.target)
    /\ made' = NothingMade
    /\ pc' = "fill"
    /\ UNCHANGED <<worker, result, main, socks, pending, batch, packets_sent, done, mod_fd,
                   canary, canary_log>>

ReportMade ==
    /\ At("report")
    /\ QueueResult(made.target)
    /\ socks' = [socks EXCEPT ![made.fd] = "closed"]
    /\ made' = NothingMade
    /\ pc' = "fill"
    /\ UNCHANGED <<worker, result, main, pending, batch, packets_sent, done, mod_fd,
                   canary, canary_log>>

(* try_connect: refused, unreachable or a port clash; the socket is closed *)
ConnectFails(target) ==
    /\ Filling /\ Chosen(target)
    /\ CountPacket
    /\ canary' = IF CanaryTurn THEN "failed" ELSE canary
    /\ UNCHANGED <<pipeline, pending, socks, pc, batch, made, done, mod_fd, canary_log>>

(* socket, bind, connect or epoll_ctl fails in a way that ends the program *)
ConnectAborts ==
    /\ Filling
    /\ Die
    /\ UNCHANGED scan

FillStep ==
    \/ \E t \in AllTargets : ConnectStarts(t) \/ ConnectSucceeds(t) \/ ConnectFails(t)
    \/ ConnectAborts

FillEnds ==
    /\ At("fill")
    /\ Len(pending) >= max_pending_sockets
    /\ pc' = "wait"
    /\ UNCHANGED <<pipeline, pending, socks, batch, made, packets_sent, done, mod_fd,
                   canary, canary_log>>

-----------------------------------------------------------------------------
Ready == {fd \in FdsOf(pending) : socks[fd] \in {"open", "late", "error"}}

EventOf(fd) == [fd |-> fd, ok |-> socks[fd] \in {"open", "late"}]

(* Mutant of EpollWait: no timeout *)
EpollWaitForEver ==
    /\ At("wait")
    /\ Ready # {}
    /\ batch' = {EventOf(fd) : fd \in Ready}
    /\ pc' = "events"
    /\ UNCHANGED <<pipeline, pending, socks, made, packets_sent, done, mod_fd, canary, canary_log>>

(* epoll_wait: something is ready, or the first deadline has passed *)
EpollWait ==
    /\ At("wait")
    /\ Ready # {} \/ Head(pending).left = 0
    /\ batch' = {EventOf(fd) : fd \in Ready}
    /\ pc' = "events"
    /\ UNCHANGED <<pipeline, pending, socks, made, packets_sent, done, mod_fd, canary, canary_log>>

(* close and del_from_socket_list *)
Drop(fd) ==
    /\ socks' = [socks EXCEPT ![fd] = "closed"]
    /\ pending' = Without(pending, fd)

(* one event; which comes first is the kernel's choice *)
HandleEvent(e) ==
    LET target == pending[IndexOf(pending, e.fd)].target IN
    /\ At("events")
    /\ e \in batch
    /\ \/ /\ IsCanary(target)
          /\ canary' = IF e.ok THEN "answered" ELSE "failed"
          /\ canary_log' = IF e.ok THEN canary_log ELSE "invalid response"
          /\ UNCHANGED fifo
       \/ /\ ~IsCanary(target)
          /\ IF e.ok THEN QueueResult(target) ELSE UNCHANGED fifo
          /\ UNCHANGED <<canary, canary_log>>
    /\ Drop(e.fd)
    /\ batch' = batch \ {e}
    /\ UNCHANGED <<worker, result, main, pc, made, packets_sent, done, mod_fd>>

(* how many entries the loop over expired ones passes *)
Expired ==
    CHOOSE n \in 0 .. Len(pending) :
        /\ \A i \in 1 .. n : pending[i].left = 0
        /\ n < Len(pending) => pending[n + 1].left > 0

(* they are closed and deleted, one after the other *)
DropExpired ==
    /\ socks' = [fd \in AllFds |->
                    IF \E i \in 1 .. Expired : pending[i].fd = fd THEN "closed" ELSE socks[fd]]
    /\ pending' = SubSeq(pending, Expired + 1, Len(pending))

(* the canary is among them *)
CanaryExpires == \E i \in 1 .. Expired : IsCanary(pending[i].target)

(* Mutant of Sweep: it does not wait for the events to be handled *)
SweepTooEarly ==
    /\ At("events")
    /\ DropExpired
    /\ IF CanaryExpires
       THEN canary' = "failed" /\ canary_log' = "timed out"
       ELSE UNCHANGED <<canary, canary_log>>
    /\ pc' = IF batch = {} THEN "top" ELSE "events"
    /\ UNCHANGED <<pipeline, batch, made, packets_sent, done, mod_fd>>

(* the loop over expired entries; it reads the clock once *)
Sweep ==
    /\ At("events")
    /\ batch = {}
    /\ DropExpired
    /\ IF CanaryExpires
       THEN canary' = "failed" /\ canary_log' = "timed out"
       ELSE UNCHANGED <<canary, canary_log>>
    /\ pc' = "top"
    /\ UNCHANGED <<pipeline, batch, made, packets_sent, done, mod_fd>>

ConnThread ==
    \/ LoopTop \/ FillStep \/ ReportMade \/ FillEnds \/ EpollWait
    \/ (\E e \in batch : HandleEvent(e))
    \/ Sweep

-----------------------------------------------------------------------------
(* The surroundings of conn_thread.                                        *)

(* the network completes, refuses or resets a connection *)
Reply(fd) ==
    /\ Running
    /\ socks[fd] = "connecting"
    /\ \E i \in DOMAIN pending :
        /\ pending[i].fd = fd
        /\ socks' = [socks EXCEPT ![fd] = IF pending[i].left > 0 THEN "open" ELSE "late"]
    /\ UNCHANGED <<pipeline, pending, pc, batch, made, packets_sent, done, mod_fd, canary, canary_log>>

Refuse(fd) ==
    /\ Running
    /\ fd \in FdsOf(pending)
    /\ socks[fd] \in {"connecting", "open", "late"}
    /\ socks' = [socks EXCEPT ![fd] = "error"]
    /\ UNCHANGED <<pipeline, pending, pc, batch, made, packets_sent, done, mod_fd, canary, canary_log>>

Tick ==
    /\ Running
    /\ \E i \in DOMAIN pending : pending[i].left > 0
    /\ pending' = [i \in DOMAIN pending |->
                      [pending[i] EXCEPT !.left = IF @ > 0 THEN @ - 1 ELSE 0]]
    /\ UNCHANGED <<pipeline, socks, pc, batch, made, packets_sent, done, mod_fd, canary, canary_log>>

(* a module opens and closes a socket or a file; one at a time *)
ModuleOpens ==
    /\ Running
    /\ worker = "exec" /\ mod_fd = NoFd
    /\ mod_fd' = FreeFd
    /\ UNCHANGED <<pipeline, pending, socks, pc, batch, made, packets_sent, done, canary, canary_log>>

ModuleCloses ==
    /\ Running
    /\ mod_fd # NoFd
    /\ mod_fd' = NoFd
    /\ UNCHANGED <<pipeline, pending, socks, pc, batch, made, packets_sent, done, canary, canary_log>>

WorkerGets == GetResult /\ UNCHANGED scan
WorkerReturns == ModulesDone /\ mod_fd = NoFd /\ UNCHANGED scan

(* sigint_handler; thread_block_sigint leaves open which thread runs it, so *)
(* epoll_wait, with nothing to return, may or may not be interrupted        *)
Sigint ==
    /\ Running
    /\ ~done
    /\ done' = TRUE
    /\ \/ UNCHANGED <<pc, batch>>
       \/ At("wait") /\ Ready = {} /\ pc' = "events" /\ batch' = {}
    /\ UNCHANGED <<pipeline, pending, socks, made, packets_sent, mod_fd, canary, canary_log>>

(* SA_RESETHAND: a second SIGINT ends the process *)
SecondSigint ==
    /\ Running
    /\ done
    /\ Die
    /\ UNCHANGED scan

Stopped == ~Running /\ UNCHANGED vars

Next ==
    \/ ConnThread
    \/ WorkerGets \/ ModuleOpens \/ ModuleCloses \/ WorkerReturns
    \/ MainStep /\ UNCHANGED scan
    \/ \E fd \in AllFds : Reply(fd) \/ Refuse(fd)
    \/ Tick
    \/ Sigint
    \/ SecondSigint
    \/ Stopped

Spec == Init /\ [][Next]_vars

(***************************************************************************)
(* Both threads keep running and the clock advances.  modules_exec calls   *)
(* each module once and the modules bound their own waits, so it does not  *)
(* open descriptors for ever.  Nothing is assumed of the network.          *)
(***************************************************************************)
Fairness ==
    /\ WF_vars(ConnThread)
    /\ WF_vars(WorkerGets)
    /\ WF_vars(ModuleCloses)
    /\ SF_vars(WorkerReturns)
    /\ WF_vars(MainStep /\ UNCHANGED scan)
    /\ WF_vars(Tick)

FairSpec == Spec /\ Fairness

-----------------------------------------------------------------------------
(***************************************************************************)
(* No descriptor leaks and no entry dangles: the open sockets of           *)
(* conn_thread are the listed ones and the one it is just reporting.       *)
(***************************************************************************)
SocketsAreListed ==
    main # "dead" => OpenSocks = FdsOf(pending) \cup ({made.fd} \ {NoFd})

(***************************************************************************)
(* An event is handled while its socket is still listed, never after the   *)
(* descriptor was closed (and perhaps reused by a module): conn_thread     *)
(* looks entries[fd] up and closes fd without checking.                    *)
(***************************************************************************)
EventsAreCurrent ==
    /\ {e.fd : e \in batch} \subseteq FdsOf(pending)
    /\ \A e, f \in batch : e.fd = f.fd => e = f

(***************************************************************************)
(* "WTF! Socket fd too big" cannot happen: as long as socket_list_excess   *)
(* covers the descriptors in use outside the scan, the next socket has an  *)
(* entry.                                                                  *)
(***************************************************************************)
FdFits == Filling => FreeFd < Size

(***************************************************************************)
(* The sweep stops at the first entry that is not due; no entry behind it  *)
(* may be due.  So every pass of conn_thread closes all the expired        *)
(* attempts.                                                               *)
(***************************************************************************)
SweepIsComplete ==
    [][At("events") /\ pc' = "top" => \A i \in DOMAIN pending' : pending'[i].left > 0]_vars

(***************************************************************************)
(* The fill loop does not look at done, at deadlines or at events, and     *)
(* counts attempts in progress only: if every connect() fails or succeeds  *)
(* at once it never ends.  This formula says that the network is not like  *)
(* that.                                                                   *)
(***************************************************************************)
FillLoopEnds == []<>(pc \notin {"fill", "report"})

(***************************************************************************)
(* One SIGINT ends the scan wherever it hits, also just before epoll_wait  *)
(* or while conn_thread is blocked on a full queue, and then the program.  *)
(***************************************************************************)
StopsOnSigint == FillLoopEnds => (done ~> ~Running)

(***************************************************************************)
(* Every connection attempt ends: it is reported, fails or times out, or   *)
(* the scan is over.                                                       *)
(***************************************************************************)
AttemptsEnd ==
    FillLoopEnds =>
        \A fd \in AllFds : fd \in FdsOf(pending) ~> fd \notin FdsOf(pending) \/ main # "feed"

(***************************************************************************)
(* A canary on its way is not lost sight of: until the event loop or the   *)
(* sweep has settled its fate it is in the list, known as the canary; and  *)
(* what log_canary_fail reported is a canary that really failed.           *)
(***************************************************************************)
CanaryIsWatched ==
    /\ canary = "pending" => \E i \in DOMAIN pending : pending[i].target = Canary
    /\ canary_log # "none" => canary = "failed"

(***************************************************************************)
(* README: "for each packet we send, we expect a reply from that exact     *)
(* host to arrive within a specified time range."  A connection that was   *)
(* established within that range is not thrown away as timed out while the *)
(* scan goes on.                                                           *)
(***************************************************************************)
TimelyReplyIsKept ==
    [][At("events") /\ batch = {} /\ ~done =>
        \A fd \in AllFds : socks[fd] = "open" => socks'[fd] # "closed"]_vars

=============================================================================

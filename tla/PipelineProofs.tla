-------------------------- MODULE PipelineProofs ---------------------------
(***************************************************************************)
(* Proofs about the two ways of feeding the results queue.  First the      *)
(* scan: Scanner and Pipeline, for any number of sockets, results, targets *)
(* and descriptors and any timeout, whatever the network does.  Then       *)
(* cscan -x: StdinFeed, for inputs of any length and queues of any         *)
(* capacity.                                                               *)
(***************************************************************************)
EXTENDS Scanner, StdinFeed, FiniteSetTheorems, WellFoundedInduction, TLAPS

Attempt == [fd : AllFds, target : AllTargets, left : 0 .. connect_timeout]

\* No descriptor is listed twice; deadlines come in the order of the list.
ListInv ==
    /\ \A i, j \in 1 .. Len(pending) : pending[i].fd = pending[j].fd => i = j
    /\ \A i, j \in 1 .. Len(pending) : i <= j => pending[i].left <= pending[j].left

\* A connection made at once is not listed, and has its room in the list.
MadeInv ==
    /\ pc # "report" => made = NothingMade
    /\ pc = "report" => /\ made.fd \in AllFds \ FdsOf(pending)
                        /\ made.target \in AllTargets
                        /\ Len(pending) < max_pending_sockets

BatchInv == (pc # "events" => batch = {}) /\ EventsAreCurrent

ScanInv == TypeOK /\ ListInv /\ MadeInv /\ BatchInv /\ SocketsAreListed

-----------------------------------------------------------------------------
(* Numbers, descriptors and sequences.                                     *)

\* A set of natural numbers has a least element.
LEMMA LeastNumber ==
    ASSUME NEW T, T \subseteq Nat, T # {}
    PROVE  \E m \in T : \A x \in T : m <= x
  <1>1. IsWellFoundedOn(OpToRel(<, Nat), Nat)
    BY NatLessThanWellFounded
  <1>2. PICK m \in T : \A y \in T : ~(<<y, m>> \in OpToRel(<, Nat))
    BY <1>1, WFMin
  <1>3. \A y \in T : ~(y < m)
    BY <1>2 DEF OpToRel
  <1> QED
    BY <1>3

\* A list names no more descriptors than it has entries.
LEMMA FdsCount ==
    ASSUME NEW S, NEW list \in Seq(S)
    PROVE  /\ IsFiniteSet(FdsOf(list)) /\ Cardinality(FdsOf(list)) \in Nat
           /\ Cardinality(FdsOf(list)) <= Len(list)
  <1>1. IsFiniteSet(1 .. Len(list)) /\ Cardinality(1 .. Len(list)) = Len(list)
    <2>1. Len(list) \in Nat
      OBVIOUS
    <2>2. /\ IsFiniteSet(1 .. Len(list))
          /\ Cardinality(1 .. Len(list)) = IF 1 > Len(list) THEN 0 ELSE Len(list) - 1 + 1
      BY <2>1, FS_Interval
    <2> QED
      BY <2>1, <2>2
  <1> DEFINE f == [i \in 1 .. Len(list) |-> list[i].fd]
  <1>2. f \in Surjection(1 .. Len(list), FdsOf(list))
    BY DEF Surjection, FdsOf
  <1>3. IsFiniteSet(FdsOf(list)) /\ Cardinality(FdsOf(list)) <= Cardinality(1 .. Len(list))
    BY <1>1, <1>2, FS_Surjection
  <1> QED
    BY <1>1, <1>3, FS_CardinalityType

\* What is left of a list without the entry of a descriptor.
LEMMA WithoutOne ==
    ASSUME NEW S, NEW list \in Seq(S), NEW fd \in FdsOf(list)
    PROVE  /\ IndexOf(list, fd) \in 1 .. Len(list) /\ list[IndexOf(list, fd)].fd = fd
           /\ Without(list, fd) \in Seq(S)
           /\ Len(Without(list, fd)) = Len(list) - 1
           /\ \A j \in 1 .. Len(list) - 1 :
                 Without(list, fd)[j] = list[IF j < IndexOf(list, fd) THEN j ELSE j + 1]
  <1> DEFINE i == IndexOf(list, fd)
  <1>1. i \in 1 .. Len(list) /\ list[i].fd = fd
    BY DEF IndexOf, FdsOf
  <1>2. Without(list, fd) = [j \in 1 .. Len(list) - 1 |-> list[IF j < i THEN j ELSE j + 1]]
    BY DEF Without
  <1>3. \A j \in 1 .. Len(list) - 1 : list[IF j < i THEN j ELSE j + 1] \in S
    BY <1>1
  <1>4. Len(list) - 1 \in Nat
    BY <1>1
  <1>5. Without(list, fd) \in [1 .. Len(list) - 1 -> S]
    BY <1>2, <1>3
  <1>6. Without(list, fd) \in Seq(S) /\ Len(Without(list, fd)) = Len(list) - 1
    BY <1>4, <1>5
  <1> QED
    BY <1>1, <1>2, <1>6

\* The loop over expired entries passes those at the front that are due.
LEMMA ExpiredFront ==
    ASSUME TypeOK
    PROVE  /\ Expired \in 0 .. Len(pending)
           /\ \A i \in 1 .. Expired : pending[i].left = 0
           /\ Expired < Len(pending) => pending[Expired + 1].left > 0
  <1>1. pending \in Seq(Attempt)
    BY DEF TypeOK, Attempt
  <1>2. \A i \in 1 .. Len(pending) : pending[i].left \in Nat
    <2>1. \A i \in 1 .. Len(pending) : pending[i] \in Attempt
      BY <1>1
    <2>2. connect_timeout \in Nat
      BY ScannerAssumption
    <2> QED
      BY <2>1, <2>2 DEF Attempt
  <1> DEFINE T == {n \in 0 .. Len(pending) : n < Len(pending) => pending[n + 1].left > 0}
  <1>3. T \subseteq Nat /\ Len(pending) \in T
    BY <1>1
  <1>4. PICK n \in T : \A x \in T : n <= x
    BY <1>3, LeastNumber
  <1>5. \A i \in 1 .. n : pending[i].left = 0
    <2> SUFFICES ASSUME NEW i \in 1 .. n, pending[i].left # 0
                 PROVE  FALSE
      OBVIOUS
    <2>1. i - 1 \in 0 .. Len(pending) /\ (i - 1) + 1 = i /\ i \in 1 .. Len(pending)
      BY <1>1, <1>4
    <2>2. i - 1 \in T /\ n \in Nat
      BY <1>2, <1>3, <2>1
    <2> HIDE DEF T
    <2>3. n <= i - 1
      BY <1>4, <2>2
    <2> QED
      BY <2>2, <2>3
  <1> QED
    BY <1>4, <1>5 DEF Expired

\* What is left of a list without its first entries.
LEMMA WithoutFront ==
    ASSUME NEW S, NEW list \in Seq(S), NEW n \in 0 .. Len(list)
    PROVE  /\ SubSeq(list, n + 1, Len(list)) \in Seq(S)
           /\ Len(SubSeq(list, n + 1, Len(list))) = Len(list) - n
           /\ \A j \in 1 .. Len(list) - n : SubSeq(list, n + 1, Len(list))[j] = list[j + n]
  OBVIOUS

\* The kernel has a descriptor for a socket or a module: the lowest that is free.
LEMMA FreeFdIsFree ==
    ASSUME ScanInv, main # "dead", Filling \/ mod_fd = NoFd
    PROVE  /\ FreeFd \in AllFds \ (BaseFds \cup OpenSocks \cup {mod_fd})
           /\ \A fd \in AllFds \ (BaseFds \cup OpenSocks \cup {mod_fd}) : FreeFd <= fd
           /\ Cardinality(BaseFds) < socket_list_excess => FreeFd < Size
  <1> USE DEF ScanInv
  <1>1. pending \in Seq(Attempt) /\ Len(pending) <= max_pending_sockets
    BY DEF TypeOK, Attempt
  <1>2. /\ IsFiniteSet(FdsOf(pending)) /\ Cardinality(FdsOf(pending)) \in Nat
        /\ Cardinality(FdsOf(pending)) <= Len(pending)
    BY <1>1, FdsCount
  <1>3. /\ MaxFd \in Nat /\ BaseFds \subseteq 0 .. MaxFd
        /\ max_pending_sockets \in Nat /\ socket_list_excess \in Nat
    BY ScannerAssumption
  <1>4. IsFiniteSet(BaseFds) /\ Cardinality(BaseFds) \in Nat
    <2>1. IsFiniteSet(0 .. MaxFd)
      BY <1>3, FS_Interval
    <2>2. IsFiniteSet(BaseFds)
      BY <1>3, <2>1, FS_Subset
    <2> QED
      BY <2>2, FS_CardinalityType
  \* What the scan and the worker hold besides the listed sockets is one at most.
  <1>5. PICK x : /\ OpenSocks \cup ({mod_fd} \cap AllFds) \subseteq FdsOf(pending) \cup {x}
                 /\ (x \notin AllFds) \/ Len(pending) < max_pending_sockets
    <2>1. OpenSocks = FdsOf(pending) \cup ({made.fd} \ {NoFd})
      BY DEF SocketsAreListed
    <2>2. CASE Filling
      <3>1. made.fd = NoFd /\ Len(pending) < max_pending_sockets
        BY <2>2 DEF Filling, At, MadeInv, NothingMade
      <3> QED
        BY <2>1, <3>1
    <2>3. CASE mod_fd = NoFd /\ pc = "report"
      <3>1. Len(pending) < max_pending_sockets
        BY <2>3 DEF MadeInv
      <3> QED
        BY <2>1, <2>3, <3>1, FdAssumption
    <2>4. CASE mod_fd = NoFd /\ pc # "report"
      <3>1. made.fd = NoFd
        BY <2>4 DEF MadeInv, NothingMade
      <3> QED
        BY <2>1, <2>4, <3>1, FdAssumption
    <2> QED
      BY <2>2, <2>3, <2>4
  <1> DEFINE used == BaseFds \cup OpenSocks \cup ({mod_fd} \cap AllFds)
  <1>6. /\ IsFiniteSet(used)
        /\ Cardinality(used) \in Nat
        /\ Cardinality(used) <= Cardinality(BaseFds) + max_pending_sockets
    <2> DEFINE more == OpenSocks \cup ({mod_fd} \cap AllFds)
    <2>1. IsFiniteSet(more) /\ Cardinality(more) \in Nat /\ Cardinality(more) <= max_pending_sockets
      <3>1. CASE x \in AllFds
        <4>1. /\ IsFiniteSet(FdsOf(pending) \cup {x})
              /\ Cardinality(FdsOf(pending) \cup {x}) \in {Cardinality(FdsOf(pending)), Cardinality(FdsOf(pending)) + 1}
          BY <1>2, FS_AddElement
        <4>2. Len(pending) + 1 <= max_pending_sockets /\ Len(pending) \in Nat
          BY <1>1, <1>3, <1>5, <3>1
        <4>3. IsFiniteSet(more) /\ Cardinality(more) <= Cardinality(FdsOf(pending) \cup {x})
          BY <1>5, <4>1, FS_Subset
        <4> QED
          BY <1>2, <1>3, <4>1, <4>2, <4>3, FS_CardinalityType
      <3>2. CASE x \notin AllFds
        <4>1. more \subseteq FdsOf(pending)
          BY <1>5, <3>2 DEF OpenSocks
        <4>2. IsFiniteSet(more) /\ Cardinality(more) <= Cardinality(FdsOf(pending))
          BY <1>2, <4>1, FS_Subset
        <4>3. Cardinality(more) \in Nat
          BY <4>2, FS_CardinalityType
        <4> QED
          BY <1>1, <1>2, <1>3, <4>2, <4>3
      <3> QED
        BY <3>1, <3>2
    <2>2. used = BaseFds \cup more
      OBVIOUS
    <2> HIDE DEF more, used
    <2>3. IsFiniteSet(BaseFds \cap more) /\ Cardinality(BaseFds \cap more) \in Nat
      BY <1>4, FS_Subset, FS_CardinalityType
    <2>4. /\ IsFiniteSet(BaseFds \cup more)
          /\ Cardinality(BaseFds \cup more)
                = Cardinality(BaseFds) + Cardinality(more) - Cardinality(BaseFds \cap more)
      BY <1>4, <2>1, FS_Union
    <2>5. Cardinality(BaseFds \cup more) \in Nat
      BY <2>4, FS_CardinalityType
    <2> QED
      BY <1>3, <1>4, <2>1, <2>2, <2>3, <2>4, <2>5
  <1> DEFINE free == AllFds \ (BaseFds \cup OpenSocks \cup {mod_fd})
  \* Fewer than n are in use: one below n is free.
  <1>7. ASSUME NEW n \in Nat, Cardinality(used) < n, n <= MaxFd + 1
        PROVE  \E fd \in free : fd < n
    <2>1. IsFiniteSet(0 .. n - 1) /\ Cardinality(0 .. n - 1) = n
      BY FS_Interval
    <2>2. ~(0 .. n - 1 \subseteq used)
      <3>1. 0 .. n - 1 \subseteq used => Cardinality(0 .. n - 1) <= Cardinality(used)
        BY <1>6, FS_Subset
      <3> HIDE DEF used
      <3> QED
        BY <1>6, <1>7, <2>1, <3>1
    <2>3. PICK fd \in 0 .. n - 1 : fd \notin used
      BY <2>2
    <2>4. fd \in AllFds /\ fd < n
      BY <1>3, <1>7, <2>3 DEF AllFds
    <2> QED
      BY <2>3, <2>4
  <1>8. free # {} /\ free \subseteq Nat
    <2>1. MaxFd + 1 \in Nat /\ Cardinality(used) < MaxFd + 1 /\ MaxFd + 1 <= MaxFd + 1
      <3> HIDE DEF used
      <3> QED
        BY <1>3, <1>4, <1>6, FdAssumption
    <2>2. \E fd \in free : fd < MaxFd + 1
      BY <1>7, <2>1
    <2> QED
      BY <2>2 DEF AllFds
  <1>9. \E m \in free : \A y \in free : m <= y
    BY <1>8, LeastNumber
  <1>10. FreeFd = CHOOSE m \in free : \A y \in free : m <= y
    BY DEF FreeFd, Min
  <1>11. FreeFd \in free /\ \A y \in free : FreeFd <= y
    <2> HIDE DEF free
    <2> QED
      BY <1>9, <1>10
  <1>12. ASSUME Cardinality(BaseFds) < socket_list_excess
         PROVE  FreeFd < Size
    <2>1. Size \in Nat /\ Cardinality(used) < Size
      <3> HIDE DEF used
      <3> QED
        BY <1>3, <1>4, <1>6, <1>12 DEF Size
    <2>2. CASE Size <= MaxFd + 1
      <3>1. PICK fd \in free : fd < Size
        BY <1>7, <2>1, <2>2
      <3>2. FreeFd <= fd /\ FreeFd \in Nat /\ fd \in Nat
        BY <1>8, <1>11
      <3> QED
        BY <2>1, <3>1, <3>2
    <2>3. CASE Size > MaxFd + 1
      BY <1>3, <1>11, <2>1, <2>3 DEF AllFds
    <2> QED
      BY <1>3, <2>1, <2>2, <2>3
  <1> QED
    BY <1>11, <1>12

-----------------------------------------------------------------------------
(* The queue.                                                              *)

LEMMA QueueTypes ==
    ASSUME PipelineTypeOK(AllTargets), NEW r \in AllTargets \cup {Pill}, QueueResult(r),
           UNCHANGED <<worker, result>>,
           main' \in {"feed", "pill", "join", "close", "exited", "dead"}
    PROVE  PipelineTypeOK(AllTargets)'
  BY ScannerAssumption DEF PipelineTypeOK, QueueResult

LEMMA WorkerTypes ==
    ASSUME PipelineTypeOK(AllTargets), GetResult \/ ModulesDone
    PROVE  PipelineTypeOK(AllTargets)'
  <1>1. CASE GetResult
    <2>1. fifo # << >> /\ fifo \in Seq(AllTargets \cup {Pill})
      BY <1>1 DEF GetResult, PipelineTypeOK
    <2>2. /\ Head(fifo) \in AllTargets \cup {Pill}
          /\ Tail(fifo) \in Seq(AllTargets \cup {Pill}) /\ Len(Tail(fifo)) = Len(fifo) - 1
      BY <2>1
    <2> QED
      BY <1>1, <2>1, <2>2, ScannerAssumption DEF GetResult, PipelineTypeOK
  <1>2. CASE ModulesDone
    BY <1>2 DEF ModulesDone, PipelineTypeOK
  <1> QED
    BY <1>1, <1>2

LEMMA CountTypes ==
    ASSUME TypeOK, CountPacket
    PROVE  packets_sent' \in 0 .. canary_after + 1
  <1>1. packets_sent \in 0 .. canary_after + 1 /\ canary_after \in Nat
    BY ScannerAssumption DEF TypeOK
  <1> QED
    BY <1>1 DEF CountPacket

-----------------------------------------------------------------------------
(* ScanInv is inductive: the steps that leave the sockets alone.           *)

LEMMA Quiet ==
    ASSUME ScanInv, TypeOK', BatchInv', UNCHANGED <<pending, socks, made>>,
           main = "dead" => main' = "dead",
           pc' = pc \/ (pc # "report" /\ pc' # "report")
    PROVE  ScanInv'
  <1>1. ListInv' /\ MadeInv'
    BY DEF ScanInv, ListInv, MadeInv, FdsOf
  <1>2. SocketsAreListed'
    BY DEF ScanInv, SocketsAreListed, OpenSocks, FdsOf
  <1> QED
    BY <1>1, <1>2 DEF ScanInv

\* Neither the list nor the batch: the threads, SIGINT, and attempts that fail at once.
LEMMA OtherSteps ==
    ASSUME ScanInv,
           \/ LoopTop \/ (\E t \in AllTargets : ConnectFails(t)) \/ ConnectAborts \/ FillEnds
           \/ WorkerGets \/ WorkerReturns \/ ModuleOpens \/ ModuleCloses
           \/ (MainStep /\ UNCHANGED scan)
           \/ SecondSigint \/ Stopped \/ UNCHANGED vars
    PROVE  ScanInv'
  <1> USE DEF ScanInv
  <1>1. UNCHANGED <<pending, socks, made, batch, canary_log, done>>
    BY DEF LoopTop, ConnectFails, ConnectAborts, FillEnds, WorkerGets, WorkerReturns, ModuleOpens,
       ModuleCloses, MainStep, SecondSigint, Stopped, vars, scan
  <1>2. /\ main = "dead" => main' = "dead"
        /\ pc' = pc \/ (pc \in {"top", "fill"} /\ pc' \in {"fill", "wait"})
    BY DEF LoopTop, ConnectFails, ConnectAborts, FillEnds, WorkerGets, WorkerReturns, ModuleOpens,
       ModuleCloses, MainStep, SecondSigint, Stopped, vars, scan, pipeline, At, Filling, Running,
       GetResult, ModulesDone, DeliverPill, Join, CloseFile, Die
  <1>3. PipelineTypeOK(AllTargets)'
    <2>1. PipelineTypeOK(AllTargets)
      BY DEF TypeOK
    <2>2. CASE WorkerGets \/ WorkerReturns
      BY <2>1, <2>2, WorkerTypes DEF WorkerGets, WorkerReturns
    <2>3. CASE DeliverPill
      BY <2>1, <2>3, QueueTypes DEF DeliverPill
    <2>4. CASE ~(WorkerGets \/ WorkerReturns \/ DeliverPill)
      <3>1. UNCHANGED <<fifo, worker, result>> /\ main' \in {main, "pill", "close", "exited", "dead"}
        BY <2>4 DEF LoopTop, ConnectFails, ConnectAborts, FillEnds, WorkerGets, WorkerReturns,
           ModuleOpens, ModuleCloses, MainStep, SecondSigint, Stopped, vars, scan, pipeline, Join,
           CloseFile, Die
      <3> QED
        BY <2>1, <3>1 DEF PipelineTypeOK
    <2> QED
      BY <2>2, <2>3, <2>4
  <1>4. packets_sent' \in 0 .. canary_after + 1
    <2>1. packets_sent \in 0 .. canary_after + 1
      BY DEF TypeOK
    <2>2. packets_sent' = packets_sent \/ CountPacket
      BY DEF LoopTop, ConnectFails, ConnectAborts, FillEnds, WorkerGets, WorkerReturns,
         ModuleOpens, ModuleCloses, MainStep, SecondSigint, Stopped, vars, scan
    <2> QED
      BY <2>1, <2>2, CountTypes
  <1>5. canary' \in {canary, "failed"}
    BY DEF LoopTop, ConnectFails, ConnectAborts, FillEnds, WorkerGets, WorkerReturns,
       ModuleOpens, ModuleCloses, MainStep, SecondSigint, Stopped, vars, scan
  <1>6. mod_fd' \in AllFds \cup {NoFd}
    <2>1. mod_fd \in AllFds \cup {NoFd}
      BY DEF TypeOK
    <2>2. CASE ModuleOpens
      <3>1. main # "dead" /\ mod_fd = NoFd /\ mod_fd' = FreeFd
        BY <2>2 DEF ModuleOpens, Running
      <3>2. FreeFd \in AllFds
        BY <3>1, FreeFdIsFree
      <3> QED
        BY <3>1, <3>2
    <2>3. CASE ~ModuleOpens
      BY <2>1, <2>3 DEF LoopTop, ConnectFails, ConnectAborts, FillEnds, WorkerGets, WorkerReturns,
         ModuleCloses, MainStep, SecondSigint, Stopped, vars, scan
    <2> QED
      BY <2>2, <2>3
  <1>7. TypeOK'
    BY <1>1, <1>2, <1>3, <1>4, <1>5, <1>6 DEF TypeOK
  <1>8. BatchInv'
    BY <1>1, <1>2 DEF BatchInv, EventsAreCurrent, FdsOf
  <1> QED
    BY <1>1, <1>2, <1>7, <1>8, Quiet

\* epoll_wait returns events of listed sockets, each once.
LEMMA WaitSteps ==
    ASSUME ScanInv, EpollWait \/ Sigint
    PROVE  ScanInv'
  <1> USE DEF ScanInv
  <1>1. /\ UNCHANGED <<pending, socks, made, packets_sent, mod_fd, canary, canary_log, pipeline>>
        /\ pc' = pc \/ (pc = "wait" /\ pc' = "events")
    BY DEF EpollWait, Sigint, At
  <1>2. done' \in BOOLEAN
    BY Zenon DEF EpollWait, Sigint, TypeOK
  <1>3. /\ batch' \in SUBSET [fd : AllFds, ok : BOOLEAN]
        /\ pc' # "events" => batch' = {}
        /\ {e.fd : e \in batch'} \subseteq FdsOf(pending)
        /\ \A e, f \in batch' : e.fd = f.fd => e = f
    <2>1. CASE EpollWait
      <3>1. pc' = "events" /\ batch' = {EventOf(fd) : fd \in Ready}
        BY <2>1 DEF EpollWait
      <3>2. FdsOf(pending) \subseteq AllFds /\ Ready \subseteq FdsOf(pending)
        <4>1. \A i \in DOMAIN pending : pending[i].fd \in AllFds
          <5>1. pending \in Seq(Attempt)
            BY DEF TypeOK, Attempt
          <5>2. \A i \in DOMAIN pending : pending[i] \in Attempt
            BY <5>1
          <5> QED
            BY <5>2 DEF Attempt
        <4> QED
          BY <4>1 DEF Ready, FdsOf
      <3>3. \A fd \in Ready : EventOf(fd).fd = fd
        BY DEF EventOf
      <3>4. \A fd \in Ready : EventOf(fd) \in [fd : AllFds, ok : BOOLEAN]
        <4> SUFFICES ASSUME NEW fd \in Ready
                     PROVE  EventOf(fd) \in [fd : AllFds, ok : BOOLEAN]
          OBVIOUS
        <4>1. (socks[fd] \in {"open", "late"}) \in BOOLEAN
          OBVIOUS
        <4>2. fd \in AllFds
          BY <3>2
        <4> QED
          BY <4>1, <4>2 DEF EventOf
      <3> QED
        BY <3>1, <3>2, <3>3, <3>4
    <2>2. CASE Sigint /\ UNCHANGED <<pc, batch>>
      BY <2>2 DEF TypeOK, BatchInv, EventsAreCurrent
    <2>3. CASE batch' = {} /\ pc' = "events"
      BY <2>3
    <2> QED
      BY <2>1, <2>2, <2>3 DEF Sigint
  <1>4. TypeOK'
    <2>1. PipelineTypeOK(AllTargets)'
      BY <1>1 DEF TypeOK, PipelineTypeOK, pipeline
    <2> QED
      BY <1>1, <1>2, <1>3, <2>1 DEF TypeOK
  <1>5. BatchInv'
    BY <1>1, <1>3 DEF BatchInv, EventsAreCurrent
  <1> QED
    BY <1>1, <1>4, <1>5, Quiet DEF pipeline

-----------------------------------------------------------------------------
(* ScanInv is inductive: the steps that change the sockets.                *)

LEMMA PendingTypes ==
    ASSUME TypeOK
    PROVE  /\ pending \in Seq(Attempt) /\ Len(pending) \in Nat
           /\ \A i \in 1 .. Len(pending) :
                 /\ pending[i] \in Attempt /\ pending[i].fd \in AllFds
                 /\ pending[i].target \in AllTargets
                 /\ pending[i].left \in Nat /\ pending[i].left <= connect_timeout
           /\ FdsOf(pending) \subseteq AllFds
           /\ connect_timeout \in Nat
  <1>1. pending \in Seq(Attempt) /\ connect_timeout \in Nat
    BY ScannerAssumption DEF TypeOK, Attempt
  <1>2. \A i \in 1 .. Len(pending) : pending[i] \in Attempt
    BY <1>1
  <1>3. \A a \in Attempt : /\ a.fd \in AllFds /\ a.target \in AllTargets
                           /\ a.left \in Nat /\ a.left <= connect_timeout
    BY <1>1 DEF Attempt
  <1>4. FdsOf(pending) \subseteq AllFds
    BY <1>1, <1>2, <1>3 DEF FdsOf
  <1> QED
    BY <1>1, <1>2, <1>3, <1>4

\* A socket changes its state: which sockets are open.
LEMMA OneSocket ==
    ASSUME TypeOK, NEW fd \in AllFds, NEW st \in SockStates, socks' = [socks EXCEPT ![fd] = st]
    PROVE  /\ socks' \in [AllFds -> SockStates]
           /\ OpenSocks' = IF st = "closed" THEN OpenSocks \ {fd} ELSE OpenSocks \cup {fd}
  BY DEF TypeOK, OpenSocks

\* connect() in progress: the new entry is behind all others.
LEMMA StartStep ==
    ASSUME ScanInv, NEW t \in AllTargets, ConnectStarts(t)
    PROVE  ScanInv'
  <1> USE DEF ScanInv
  <1>1. /\ main = "feed" /\ pc = "fill" /\ Len(pending) < max_pending_sockets /\ Filling
        /\ made.fd = NoFd
    BY DEF ConnectStarts, Filling, At, MadeInv, NothingMade
  <1>2. FreeFd \in AllFds /\ FreeFd \notin OpenSocks
    BY <1>1, FreeFdIsFree
  <1>3. OpenSocks = FdsOf(pending)
    BY <1>1 DEF SocketsAreListed
  <1>4. /\ socks' \in [AllFds -> SockStates]
        /\ OpenSocks' = OpenSocks \cup {FreeFd}
    BY <1>2, OneSocket DEF ConnectStarts, SockStates
  <1>5. /\ UNCHANGED <<pc, batch, made, done, mod_fd, canary_log, fifo, worker, result>>
        /\ packets_sent' \in 0 .. canary_after + 1
        /\ canary' \in {canary, "pending"}
    BY CountTypes DEF ConnectStarts, Die, pipeline
  <1>6. CASE FreeFd >= Size
    <2>1. main' = "dead" /\ pending' = pending
      BY <1>6 DEF ConnectStarts, Die
    <2>2. TypeOK'
      <3>1. PipelineTypeOK(AllTargets)'
        BY <1>5, <2>1 DEF TypeOK, PipelineTypeOK
      <3> QED
        BY <1>4, <1>5, <2>1, <3>1 DEF TypeOK
    <2>3. ListInv' /\ MadeInv'
      BY <1>5, <2>1 DEF ListInv, MadeInv, FdsOf
    <2>4. BatchInv'
      BY <1>5, <2>1 DEF BatchInv, EventsAreCurrent, FdsOf
    <2>5. SocketsAreListed'
      BY <2>1 DEF SocketsAreListed
    <2> QED
      BY <2>2, <2>3, <2>4, <2>5
  <1>7. CASE ~(FreeFd >= Size)
    <2> DEFINE a == [fd |-> FreeFd, target |-> t, left |-> connect_timeout]
    <2>1. pending' = Append(pending, a) /\ UNCHANGED pipeline
      BY <1>7 DEF ConnectStarts
    <2>2. a \in Attempt /\ a.fd = FreeFd /\ a.left = connect_timeout
      BY <1>2, PendingTypes DEF Attempt
    <2> HIDE DEF a
    <2>3. /\ pending' \in Seq(Attempt) /\ Len(pending') = Len(pending) + 1
          /\ \A i \in 1 .. Len(pending) : pending'[i] = pending[i]
          /\ pending'[Len(pending) + 1] = a
      BY <2>1, <2>2, PendingTypes
    <2>4. FdsOf(pending)' = FdsOf(pending) \cup {FreeFd}
      BY <2>2, <2>3, PendingTypes DEF FdsOf
    <2>5. \A i \in 1 .. Len(pending) : pending[i].fd # FreeFd
      BY <1>2, <1>3, PendingTypes DEF FdsOf
    <2>6. ListInv'
      <3>1. \A i, j \in 1 .. Len(pending') : pending'[i].fd = pending'[j].fd => i = j
        BY <2>2, <2>3, <2>5, PendingTypes DEF ListInv
      <3>2. \A i, j \in 1 .. Len(pending') : i <= j => pending'[i].left <= pending'[j].left
        BY <2>2, <2>3, PendingTypes DEF ListInv
      <3> QED
        BY <3>1, <3>2 DEF ListInv
    <2>7. TypeOK'
      <3>1. PipelineTypeOK(AllTargets)'
        BY <2>1 DEF TypeOK, PipelineTypeOK, pipeline
      <3>2. Len(pending') <= max_pending_sockets
        BY <1>1, <2>3, PendingTypes, ScannerAssumption
      <3> QED
        BY <1>4, <1>5, <2>3, <3>1, <3>2 DEF TypeOK, Attempt
    <2>8. MadeInv'
      BY <1>1, <1>5 DEF MadeInv
    <2>9. BatchInv'
      BY <1>5, <2>4 DEF BatchInv, EventsAreCurrent
    <2>10. SocketsAreListed'
      BY <1>1, <1>3, <1>4, <1>5, <2>4 DEF SocketsAreListed
    <2> QED
      BY <2>6, <2>7, <2>8, <2>9, <2>10
  <1> QED
    BY <1>6, <1>7

\* connect() succeeds at once.
LEMMA SucceedStep ==
    ASSUME ScanInv, NEW t \in AllTargets, ConnectSucceeds(t)
    PROVE  ScanInv'
  <1> USE DEF ScanInv
  <1>1. /\ main = "feed" /\ pc = "fill" /\ Len(pending) < max_pending_sockets /\ Filling
        /\ made.fd = NoFd
    BY DEF ConnectSucceeds, Filling, At, MadeInv, NothingMade
  <1>2. FreeFd \in AllFds /\ FreeFd \notin OpenSocks /\ FreeFd # NoFd
    BY <1>1, FreeFdIsFree, FdAssumption
  <1>3. OpenSocks = FdsOf(pending)
    BY <1>1 DEF SocketsAreListed
  <1>4. /\ socks' \in [AllFds -> SockStates]
        /\ OpenSocks' = OpenSocks \cup {FreeFd}
    BY <1>2, OneSocket DEF ConnectSucceeds, SockStates
  <1>5. /\ UNCHANGED <<batch, pending, done, mod_fd, canary_log, pipeline>>
        /\ packets_sent' \in 0 .. canary_after + 1
        /\ canary' \in {canary, "answered"}
        /\ pc' = "report" /\ made' = [fd |-> FreeFd, target |-> t]
    BY CountTypes DEF ConnectSucceeds
  <1>6. TypeOK'
    <2>1. PipelineTypeOK(AllTargets)'
      BY <1>5 DEF TypeOK, PipelineTypeOK, pipeline
    <2> QED
      BY <1>2, <1>4, <1>5, <2>1 DEF TypeOK
  <1>7. ListInv' /\ MadeInv'
    BY <1>1, <1>2, <1>3, <1>5 DEF ListInv, MadeInv, FdsOf
  <1>8. BatchInv'
    BY <1>1, <1>5 DEF BatchInv, EventsAreCurrent
  <1>9. SocketsAreListed'
    BY <1>2, <1>3, <1>4, <1>5 DEF SocketsAreListed, FdsOf
  <1> QED
    BY <1>6, <1>7, <1>8, <1>9

\* It is reported and closed.
LEMMA ReportStep ==
    ASSUME ScanInv, ReportMade
    PROVE  ScanInv'
  <1> USE DEF ScanInv
  <1>1. /\ main = "feed" /\ pc = "report" /\ pc' = "fill" /\ made' = NothingMade
        /\ made.fd \in AllFds /\ made.fd \notin FdsOf(pending) /\ made.target \in AllTargets
        /\ UNCHANGED <<worker, result, main, pending, batch, packets_sent, done, mod_fd,
                       canary, canary_log>>
        /\ QueueResult(made.target)
    BY DEF ReportMade, At, MadeInv
  <1>2. /\ socks' \in [AllFds -> SockStates]
        /\ OpenSocks' = OpenSocks \ {made.fd}
    BY <1>1, OneSocket DEF ReportMade, SockStates
  <1>3. OpenSocks = FdsOf(pending) \cup {made.fd}
    BY <1>1, FdAssumption DEF SocketsAreListed
  <1>4. TypeOK'
    <2>1. PipelineTypeOK(AllTargets)'
      BY <1>1, QueueTypes DEF TypeOK
    <2> QED
      BY <1>1, <1>2, <2>1 DEF TypeOK, NothingMade
  <1>5. ListInv' /\ MadeInv'
    BY <1>1 DEF ListInv, MadeInv
  <1>6. BatchInv'
    BY <1>1 DEF BatchInv, EventsAreCurrent
  <1>7. SocketsAreListed'
    BY <1>1, <1>2, <1>3 DEF SocketsAreListed, FdsOf, NothingMade
  <1> QED
    BY <1>4, <1>5, <1>6, <1>7

\* The network answers or refuses.
LEMMA NetworkStep ==
    ASSUME ScanInv, NEW fd \in AllFds, Reply(fd) \/ Refuse(fd)
    PROVE  ScanInv'
  <1> USE DEF ScanInv
  <1>1. /\ UNCHANGED <<pipeline, pending, pc, batch, made, packets_sent, done, mod_fd, canary,
                       canary_log>>
        /\ socks[fd] # "closed"
    BY DEF Reply, Refuse
  <1>2. PICK st \in {"open", "late", "error"} : socks' = [socks EXCEPT ![fd] = st]
    BY DEF Reply, Refuse
  <1>3. /\ socks' \in [AllFds -> SockStates]
        /\ OpenSocks' = OpenSocks \cup {fd}
    BY <1>2, OneSocket DEF SockStates
  <1>4. OpenSocks' = OpenSocks
    BY <1>1, <1>3 DEF OpenSocks
  <1>5. TypeOK'
    <2>1. PipelineTypeOK(AllTargets)'
      BY <1>1 DEF TypeOK, PipelineTypeOK, pipeline
    <2> QED
      BY <1>1, <1>3, <2>1 DEF TypeOK
  <1>6. ListInv' /\ MadeInv' /\ BatchInv'
    <2>1. ListInv'
      BY <1>1 DEF ListInv
    <2>2. MadeInv'
      BY <1>1 DEF MadeInv, FdsOf
    <2>3. BatchInv'
      BY <1>1 DEF BatchInv, EventsAreCurrent, FdsOf
    <2> QED
      BY <2>1, <2>2, <2>3
  <1>7. SocketsAreListed'
    BY <1>1, <1>4 DEF SocketsAreListed, FdsOf, pipeline
  <1> QED
    BY <1>5, <1>6, <1>7

\* The clock: all entries that are not due come closer, none overtakes another.
LEMMA TickStep ==
    ASSUME ScanInv, Tick
    PROVE  ScanInv'
  <1> USE DEF ScanInv
  <1>1. UNCHANGED <<pipeline, socks, pc, batch, made, packets_sent, done, mod_fd, canary, canary_log>>
    BY DEF Tick
  <1> DEFINE Later(n) == IF n > 0 THEN n - 1 ELSE 0
  <1>2. /\ DOMAIN pending' = 1 .. Len(pending)
        /\ \A i \in 1 .. Len(pending) :
              /\ pending'[i] \in Attempt
              /\ pending'[i].fd = pending[i].fd /\ pending'[i].target = pending[i].target
              /\ pending'[i].left = Later(pending[i].left)
    <2>1. pending' = [i \in 1 .. Len(pending) |->
                        [pending[i] EXCEPT !.left = IF @ > 0 THEN @ - 1 ELSE 0]]
      BY PendingTypes DEF Tick
    <2>2. ASSUME NEW i \in 1 .. Len(pending)
          PROVE  /\ pending'[i] \in Attempt
                 /\ pending'[i].fd = pending[i].fd /\ pending'[i].target = pending[i].target
                 /\ pending'[i].left = Later(pending[i].left)
      <3>1. pending'[i] = [pending[i] EXCEPT !.left = Later(pending[i].left)]
        BY <2>1
      <3>2. pending[i] \in Attempt /\ Later(pending[i].left) \in 0 .. connect_timeout
        BY PendingTypes
      <3> HIDE DEF Later
      <3> QED
        BY <3>1, <3>2 DEF Attempt
    <2> QED
      BY <2>1, <2>2
  <1>3. pending' \in Seq(Attempt) /\ Len(pending') = Len(pending)
    <2>1. pending' \in [1 .. Len(pending) -> Attempt]
      <3>1. pending' = [i \in 1 .. Len(pending) |-> pending'[i]]
        BY PendingTypes DEF Tick
      <3> QED
        BY <1>2, <3>1
    <2> QED
      BY <2>1, PendingTypes
  <1>4. FdsOf(pending)' = FdsOf(pending)
    BY <1>2, PendingTypes DEF FdsOf
  <1>5. TypeOK'
    <2>1. PipelineTypeOK(AllTargets)'
      BY <1>1 DEF TypeOK, PipelineTypeOK, pipeline
    <2> QED
      BY <1>1, <1>3, <2>1 DEF TypeOK, Attempt
  <1>6. ListInv'
    <2>1. \A i, j \in 1 .. Len(pending') : pending'[i].fd = pending'[j].fd => i = j
      BY <1>2, <1>3 DEF ListInv
    <2>2. \A i, j \in 1 .. Len(pending') : i <= j => pending'[i].left <= pending'[j].left
      BY <1>2, <1>3, PendingTypes DEF ListInv
    <2> QED
      BY <2>1, <2>2 DEF ListInv
  <1>7. MadeInv' /\ BatchInv'
    BY <1>1, <1>3, <1>4 DEF MadeInv, BatchInv, EventsAreCurrent
  <1>8. SocketsAreListed'
    BY <1>1, <1>4 DEF SocketsAreListed, OpenSocks, pipeline
  <1> QED
    BY <1>5, <1>6, <1>7, <1>8

\* What is left of the list: entry j was entry m[j]; the entries in out are gone.
Keeps(m, out) ==
    /\ pending' \in Seq(Attempt) /\ Len(pending') <= Len(pending)
    /\ m \in [1 .. Len(pending') -> 1 .. Len(pending)]
    /\ \A j, k \in 1 .. Len(pending') : j < k => m[j] < m[k]
    /\ \A j \in 1 .. Len(pending') : pending'[j] = pending[m[j]]
    /\ out \subseteq 1 .. Len(pending)
    /\ \A k \in 1 .. Len(pending) : k \in out <=> ~\E j \in 1 .. Len(pending') : m[j] = k

LEMMA Subsequence ==
    ASSUME TypeOK, ListInv, NEW m, NEW out, Keeps(m, out)
    PROVE  ListInv' /\ FdsOf(pending)' = FdsOf(pending) \ {pending[k].fd : k \in out}
  <1> USE DEF Keeps
  <1>1. \A j, k \in 1 .. Len(pending') : (m[j] = m[k] => j = k) /\ (j <= k => m[j] <= m[k])
    <2> SUFFICES ASSUME NEW j \in 1 .. Len(pending'), NEW k \in 1 .. Len(pending')
                 PROVE  (m[j] = m[k] => j = k) /\ (j <= k => m[j] <= m[k])
      OBVIOUS
    <2>1. j \in Nat /\ k \in Nat /\ m[j] \in Nat /\ m[k] \in Nat
      <3>1. m[j] \in 1 .. Len(pending) /\ m[k] \in 1 .. Len(pending)
        OBVIOUS
      <3>2. Len(pending) \in Nat
        BY PendingTypes
      <3>3. Len(pending') \in Nat
        OBVIOUS
      <3> QED
        BY <3>1, <3>2, <3>3
    <2>2. (j < k => m[j] < m[k]) /\ (k < j => m[k] < m[j])
      OBVIOUS
    <2> QED
      BY <2>1, <2>2
  <1>2. ListInv'
    <2>1. ASSUME NEW j \in 1 .. Len(pending'), NEW k \in 1 .. Len(pending')
          PROVE  /\ pending'[j].fd = pending'[k].fd => j = k
                 /\ j <= k => pending'[j].left <= pending'[k].left
      <3>1. m[j] \in 1 .. Len(pending) /\ m[k] \in 1 .. Len(pending)
        OBVIOUS
      <3>2. pending'[j] = pending[m[j]] /\ pending'[k] = pending[m[k]]
        OBVIOUS
      <3>3. /\ pending[m[j]].fd = pending[m[k]].fd => m[j] = m[k]
            /\ m[j] <= m[k] => pending[m[j]].left <= pending[m[k]].left
        BY <3>1 DEF ListInv
      <3> QED
        BY <1>1, <3>2, <3>3
    <2> QED
      BY <2>1 DEF ListInv
  <1>3. FdsOf(pending) = {pending[k].fd : k \in 1 .. Len(pending)}
    BY PendingTypes DEF FdsOf
  <1>4. FdsOf(pending)' = {pending[m[j]].fd : j \in 1 .. Len(pending')}
    <2>1. DOMAIN pending' = 1 .. Len(pending')
      OBVIOUS
    <2> QED
      BY <2>1 DEF FdsOf
  <1>5. \A j \in 1 .. Len(pending') : /\ m[j] \in 1 .. Len(pending) /\ m[j] \notin out
                                       /\ \A k \in out : pending[k].fd # pending[m[j]].fd
    BY DEF ListInv
  <1>6. \A k \in 1 .. Len(pending) : k \in out \/ \E j \in 1 .. Len(pending') : m[j] = k
    OBVIOUS
  <1> QED
    BY <1>2, <1>3, <1>4, <1>5, <1>6

\* A step that removes entries and closes their sockets, keeping the order.
LEMMA DropStep ==
    ASSUME ScanInv, NEW gone \in SUBSET FdsOf(pending),
           pending' \in Seq(Attempt), Len(pending') <= max_pending_sockets,
           FdsOf(pending)' = FdsOf(pending) \ gone,
           ListInv',
           socks' \in [AllFds -> SockStates], OpenSocks' = OpenSocks \ gone,
           PipelineTypeOK(AllTargets)', main' = main,
           batch' \subseteq batch, \A e \in batch' : e.fd \notin gone,
           pc = "events", pc' = "events" \/ (pc' = "top" /\ batch' = {}),
           UNCHANGED <<made, packets_sent, done, mod_fd>>,
           canary' \in {canary, "answered", "failed"},
           canary_log' \in {canary_log, "invalid response", "timed out"}
    PROVE  ScanInv'
  <1> USE DEF ScanInv
  <1>1. TypeOK'
    BY DEF TypeOK, Attempt
  <1>2. MadeInv'
    BY DEF MadeInv
  <1>3. BatchInv'
    BY DEF BatchInv, EventsAreCurrent
  <1>4. SocketsAreListed'
    <2>1. made.fd = NoFd /\ made' = made
      <3>1. made = NothingMade
        BY DEF MadeInv
      <3> QED
        BY <3>1 DEF NothingMade
    <2>2. main # "dead" => OpenSocks = FdsOf(pending)
      BY <2>1 DEF SocketsAreListed
    <2> QED
      BY <2>1, <2>2 DEF SocketsAreListed
  <1> QED
    BY <1>1, <1>2, <1>3, <1>4

\* One event handled: its entry goes, wherever in the list it is.
LEMMA EventKeeps ==
    ASSUME ScanInv, NEW e \in batch, HandleEvent(e)
    PROVE  /\ e.fd \in FdsOf(pending) /\ e.fd \in AllFds
           /\ IndexOf(pending, e.fd) \in 1 .. Len(pending)
           /\ pending[IndexOf(pending, e.fd)].fd = e.fd
           /\ \E m : Keeps(m, {IndexOf(pending, e.fd)})
  <1> USE DEF ScanInv
  <1> DEFINE i == IndexOf(pending, e.fd)
  <1>1. e.fd \in FdsOf(pending) /\ e.fd \in AllFds
    BY PendingTypes DEF BatchInv, EventsAreCurrent
  <1>2. /\ i \in 1 .. Len(pending) /\ pending[i].fd = e.fd
        /\ Without(pending, e.fd) \in Seq(Attempt)
        /\ Len(Without(pending, e.fd)) = Len(pending) - 1
        /\ \A j \in 1 .. Len(pending) - 1 :
              Without(pending, e.fd)[j] = pending[IF j < i THEN j ELSE j + 1]
    BY <1>1, PendingTypes, WithoutOne
  <1> HIDE DEF i
  <1>3. pending' = Without(pending, e.fd)
    BY DEF HandleEvent, Drop
  <1>4. /\ pending' \in Seq(Attempt) /\ Len(pending') = Len(pending) - 1 /\ Len(pending) \in Nat
        /\ \A j \in 1 .. Len(pending') : pending'[j] = pending[IF j < i THEN j ELSE j + 1]
    BY <1>2, <1>3, PendingTypes
  <1> DEFINE m == [j \in 1 .. Len(pending') |-> IF j < i THEN j ELSE j + 1]
  <1>5. m \in [1 .. Len(pending') -> 1 .. Len(pending)]
    BY <1>2, <1>4
  <1>6. /\ \A j, k \in 1 .. Len(pending') : j < k => m[j] < m[k]
        /\ \A j \in 1 .. Len(pending') : pending'[j] = pending[m[j]]
    BY <1>2, <1>4
  <1>7. \A k \in 1 .. Len(pending) : k \in {i} <=> ~\E j \in 1 .. Len(pending') : m[j] = k
    <2>1. \A k \in 1 .. Len(pending) : k < i => k \in 1 .. Len(pending') /\ m[k] = k
      BY <1>2, <1>4
    <2>2. \A k \in 1 .. Len(pending) : k > i => k - 1 \in 1 .. Len(pending') /\ m[k - 1] = k
      BY <1>2, <1>4
    <2>3. \A j \in 1 .. Len(pending') : m[j] # i
      BY <1>2, <1>4
    <2> HIDE DEF m
    <2> QED
      BY <1>2, <2>1, <2>2, <2>3
  <1>8. {i} \subseteq 1 .. Len(pending) /\ Len(pending') <= Len(pending)
    BY <1>2, <1>4
  <1> HIDE DEF m
  <1>9. Keeps(m, {i})
    BY <1>4, <1>5, <1>6, <1>7, <1>8 DEF Keeps
  <1> QED
    BY <1>1, <1>2, <1>9 DEF i

LEMMA EventStep ==
    ASSUME ScanInv, NEW e \in batch, HandleEvent(e)
    PROVE  ScanInv'
  <1> USE DEF ScanInv
  <1> DEFINE i == IndexOf(pending, e.fd)
  <1>1. pc = "events" /\ e.fd \in FdsOf(pending) /\ e.fd \in AllFds
    BY EventKeeps DEF HandleEvent, At
  <1>2. i \in 1 .. Len(pending) /\ pending[i].fd = e.fd
    BY EventKeeps
  <1>3. /\ pending' = Without(pending, e.fd) /\ socks' = [socks EXCEPT ![e.fd] = "closed"]
        /\ batch' = batch \ {e}
        /\ UNCHANGED <<worker, result, main, pc, made, packets_sent, done, mod_fd>>
    BY DEF HandleEvent, Drop
  <1> HIDE DEF i
  <1>4. PICK m : Keeps(m, {i})
    BY EventKeeps DEF i
  <1>5. ListInv' /\ FdsOf(pending)' = FdsOf(pending) \ {e.fd} /\ pending' \in Seq(Attempt)
    <2>1. ListInv' /\ FdsOf(pending)' = FdsOf(pending) \ {pending[k].fd : k \in {i}}
      BY <1>4, Subsequence
    <2>2. {pending[k].fd : k \in {i}} = {e.fd}
      BY <1>2
    <2> QED
      BY <1>4, <2>1, <2>2 DEF Keeps
  <1>6. {e.fd} \in SUBSET FdsOf(pending) /\ Len(pending') <= max_pending_sockets
    <2>1. Len(pending) <= max_pending_sockets /\ max_pending_sockets \in Nat
      BY ScannerAssumption DEF TypeOK
    <2>2. Len(pending') \in Nat /\ Len(pending) \in Nat /\ Len(pending') <= Len(pending)
      BY <1>4, PendingTypes DEF Keeps
    <2> QED
      BY <1>1, <2>1, <2>2
  <1>7. socks' \in [AllFds -> SockStates] /\ OpenSocks' = OpenSocks \ {e.fd}
    BY <1>1, <1>3, OneSocket DEF SockStates
  <1>8. PipelineTypeOK(AllTargets)'
    <2>1. PipelineTypeOK(AllTargets)
      BY DEF TypeOK
    <2>2. CASE fifo' = fifo
      BY <1>3, <2>1, <2>2 DEF PipelineTypeOK
    <2>3. CASE QueueResult(pending[i].target)
      <3>1. pending[i].target \in AllTargets
        BY <1>2, PendingTypes
      <3>2. main' \in {"feed", "pill", "join", "close", "exited", "dead"}
        BY <1>3, <2>1 DEF PipelineTypeOK
      <3> QED
        BY <1>3, <2>1, <2>3, <3>1, <3>2, QueueTypes
    <2> QED
      BY <2>2, <2>3 DEF HandleEvent, i
  <1>9. /\ canary' \in {canary, "answered", "failed"}
        /\ canary_log' \in {canary_log, "invalid response", "timed out"}
    BY DEF HandleEvent
  <1>10. batch' \subseteq batch /\ \A f \in batch' : f.fd \notin {e.fd}
    BY <1>3 DEF BatchInv, EventsAreCurrent
  <1> QED
    BY <1>1, <1>3, <1>4, <1>5, <1>6, <1>7, <1>8, <1>9, <1>10, DropStep

\* The sweep: entries go from the front.
LEMMA SweepKeeps ==
    ASSUME ScanInv, Sweep
    PROVE  Expired \in 0 .. Len(pending) /\ \E m : Keeps(m, 1 .. Expired)
  <1> USE DEF ScanInv
  <1>1. Expired \in 0 .. Len(pending)
    BY ExpiredFront
  <1>2. pending' = SubSeq(pending, Expired + 1, Len(pending))
    BY DEF Sweep, DropExpired
  <1>3. /\ pending' \in Seq(Attempt) /\ Len(pending') = Len(pending) - Expired
        /\ Len(pending) \in Nat
        /\ \A j \in 1 .. Len(pending') : pending'[j] = pending[j + Expired]
    BY <1>1, <1>2, PendingTypes, WithoutFront
  <1> DEFINE m == [j \in 1 .. Len(pending') |-> j + Expired]
  <1>4. m \in [1 .. Len(pending') -> 1 .. Len(pending)]
    BY <1>1, <1>3
  <1>5. /\ \A j, k \in 1 .. Len(pending') : j < k => m[j] < m[k]
        /\ \A j \in 1 .. Len(pending') : pending'[j] = pending[m[j]]
    BY <1>1, <1>3
  <1>6. \A k \in 1 .. Len(pending) :
           k \in 1 .. Expired <=> ~\E j \in 1 .. Len(pending') : m[j] = k
    <2>1. \A k \in 1 .. Len(pending) :
             k \notin 1 .. Expired => k - Expired \in 1 .. Len(pending') /\ m[k - Expired] = k
      BY <1>1, <1>3
    <2>2. \A j \in 1 .. Len(pending') : m[j] \notin 1 .. Expired
      BY <1>1, <1>3
    <2> HIDE DEF m
    <2> QED
      BY <2>1, <2>2
  <1>7. 1 .. Expired \subseteq 1 .. Len(pending) /\ Len(pending') <= Len(pending)
    BY <1>1, <1>3
  <1> HIDE DEF m
  <1>8. Keeps(m, 1 .. Expired)
    BY <1>3, <1>4, <1>5, <1>6, <1>7 DEF Keeps
  <1> QED
    BY <1>1, <1>8

LEMMA SweepStep ==
    ASSUME ScanInv, Sweep
    PROVE  ScanInv'
  <1> USE DEF ScanInv
  <1>1. Expired \in 0 .. Len(pending)
    BY SweepKeeps
  <1> DEFINE gone == {pending[k].fd : k \in 1 .. Expired}
  <1>2. /\ pc = "events" /\ pc' = "top" /\ batch = {}
        /\ socks' = [fd \in AllFds |-> IF fd \in gone THEN "closed" ELSE socks[fd]]
        /\ UNCHANGED <<pipeline, batch, made, packets_sent, done, mod_fd>>
        /\ canary' \in {canary, "answered", "failed"}
        /\ canary_log' \in {canary_log, "invalid response", "timed out"}
    <2>1. \A fd \in AllFds : (\E k \in 1 .. Expired : pending[k].fd = fd) <=> fd \in gone
      OBVIOUS
    <2> HIDE DEF gone
    <2> QED
      BY <2>1 DEF Sweep, DropExpired, At
  <1>3. PICK m : Keeps(m, 1 .. Expired)
    BY SweepKeeps
  <1>4. ListInv' /\ FdsOf(pending)' = FdsOf(pending) \ gone /\ pending' \in Seq(Attempt)
    <2>1. ListInv' /\ FdsOf(pending)' = FdsOf(pending) \ gone
      BY <1>3, Subsequence
    <2> QED
      BY <1>3, <2>1 DEF Keeps
  <1>5. gone \in SUBSET FdsOf(pending)
    BY <1>1, PendingTypes DEF FdsOf
  <1>6. socks' \in [AllFds -> SockStates] /\ OpenSocks' = OpenSocks \ gone
    <2> HIDE DEF gone
    <2> QED
      BY <1>2 DEF TypeOK, SockStates, OpenSocks
  <1>7. PipelineTypeOK(AllTargets)' /\ main' = main
    BY <1>2 DEF TypeOK, PipelineTypeOK, pipeline
  <1>8. Len(pending') <= max_pending_sockets
    <2>1. Len(pending) <= max_pending_sockets /\ max_pending_sockets \in Nat
      BY ScannerAssumption DEF TypeOK
    <2>2. Len(pending') \in Nat /\ Len(pending) \in Nat /\ Len(pending') <= Len(pending)
      BY <1>3, PendingTypes DEF Keeps
    <2> QED
      BY <2>1, <2>2
  <1> HIDE DEF gone
  <1> QED
    BY <1>2, <1>3, <1>4, <1>5, <1>6, <1>7, <1>8, DropStep

LEMMA ScanInvInit == Init => ScanInv
  <1> SUFFICES ASSUME Init
               PROVE  ScanInv
    OBVIOUS
  <1>1. /\ pending = << >> /\ Len(pending) = 0 /\ FdsOf(pending) = {}
        /\ OpenSocks = {} /\ batch = {} /\ pc = "top" /\ made = NothingMade /\ made.fd = NoFd
    BY DEF Init, FdsOf, OpenSocks, NothingMade
  <1>2. TypeOK
    <2>1. PipelineTypeOK(AllTargets)
      BY ScannerAssumption DEF Init, PipelineInit, PipelineTypeOK
    <2>2. done \in BOOLEAN
      BY Zenon DEF Init
    <2>3. packets_sent \in 0 .. canary_after + 1
      BY ScannerAssumption DEF Init
    <2>4. socks \in [AllFds -> SockStates]
      BY DEF Init, SockStates
    <2>5. pending \in Seq([fd : AllFds, target : AllTargets, left : 0 .. connect_timeout])
      BY <1>1
    <2>6. Len(pending) <= max_pending_sockets
      BY <1>1, ScannerAssumption
    <2> QED
      BY <1>1, <2>1, <2>2, <2>3, <2>4, <2>5, <2>6 DEF TypeOK, Init, NothingMade
  <1>3. ListInv /\ MadeInv
    BY <1>1 DEF ListInv, MadeInv
  <1>4. BatchInv /\ SocketsAreListed
    BY <1>1 DEF BatchInv, EventsAreCurrent, SocketsAreListed
  <1> QED
    BY <1>2, <1>3, <1>4 DEF ScanInv

LEMMA ScanInvariant == Spec => []ScanInv
  <1>1. ScanInv /\ [Next]_vars => ScanInv'
    <2> SUFFICES ASSUME ScanInv, [Next]_vars
                 PROVE  ScanInv'
      OBVIOUS
    <2>1. CASE FillStep
      BY <2>1, StartStep, SucceedStep, OtherSteps DEF FillStep
    <2>2. CASE \E fd \in AllFds : Reply(fd) \/ Refuse(fd)
      BY <2>2, NetworkStep
    <2>3. CASE \E e \in batch : HandleEvent(e)
      BY <2>3, EventStep
    <2>4. CASE ReportMade \/ Sweep \/ Tick \/ EpollWait \/ Sigint
      BY <2>4, ReportStep, SweepStep, TickStep, WaitSteps
    <2>5. CASE \/ LoopTop \/ FillEnds \/ WorkerGets \/ WorkerReturns \/ ModuleOpens \/ ModuleCloses
               \/ (MainStep /\ UNCHANGED scan)
               \/ SecondSigint \/ Stopped \/ UNCHANGED vars
      BY <2>5, OtherSteps
    <2> QED
      BY <2>1, <2>2, <2>3, <2>4, <2>5 DEF Next, ConnThread
  <1> QED
    BY <1>1, ScanInvInit, PTL DEF Spec

(* conn_thread closes every socket it opened exactly once: its open        *)
(* descriptors are the listed ones and the one it is reporting.            *)
THEOREM SocketsAlwaysListed == Spec => []SocketsAreListed
  <1>1. ScanInv => SocketsAreListed
    BY DEF ScanInv
  <1> QED
    BY <1>1, ScanInvariant, PTL

(* An event of epoll_wait is handled while its socket is still listed,     *)
(* whatever was closed, opened and reused between.                         *)
THEOREM EventsAlwaysCurrent == Spec => []EventsAreCurrent
  <1>1. ScanInv => EventsAreCurrent
    BY DEF ScanInv, BatchInv
  <1> QED
    BY <1>1, ScanInvariant, PTL

(* "WTF! Socket fd too big" is never reached, if socket_list_excess is     *)
(* larger than the number of descriptors in use before the scan: one is    *)
(* left for the worker.                                                    *)
THEOREM FdAlwaysFits ==
    ASSUME Cardinality(BaseFds) < socket_list_excess
    PROVE  Spec => []FdFits
  <1>1. ScanInv => FdFits
    <2> SUFFICES ASSUME ScanInv, Filling
                 PROVE  FreeFd < Size
      BY DEF FdFits
    <2>1. main # "dead"
      BY DEF Filling, At
    <2> QED
      BY <2>1, FreeFdIsFree
  <1> QED
    BY <1>1, ScanInvariant, PTL

(* The sweep of conn_thread stops at the first entry that is not due, and  *)
(* leaves none that is: deadlines are in the order of the list.            *)
THEOREM SweepAlwaysComplete == Spec => SweepIsComplete
  <1>1. ScanInv /\ [Next]_vars =>
           [At("events") /\ pc' = "top" => \A i \in DOMAIN pending' : pending'[i].left > 0]_vars
    <2> SUFFICES ASSUME ScanInv, Next, At("events"), pc' = "top"
                 PROVE  \A i \in DOMAIN pending' : pending'[i].left > 0
      OBVIOUS
    <2> USE DEF ScanInv
    <2>1. Sweep
      BY DEF Next, ConnThread, LoopTop, FillStep, ConnectStarts, ConnectSucceeds, ConnectFails,
         ConnectAborts, ReportMade, FillEnds, EpollWait, HandleEvent, WorkerGets, WorkerReturns,
         ModuleOpens, ModuleCloses, Reply, Refuse, Tick, Sigint, SecondSigint, Stopped, At,
         Filling, scan, vars
    <2>2. /\ Expired \in 0 .. Len(pending)
          /\ Expired < Len(pending) => pending[Expired + 1].left > 0
      BY ExpiredFront
    <2>3. pending' = SubSeq(pending, Expired + 1, Len(pending))
      BY <2>1 DEF Sweep, DropExpired
    <2>4. /\ DOMAIN pending' = 1 .. Len(pending) - Expired /\ Len(pending) \in Nat
          /\ \A j \in 1 .. Len(pending) - Expired : pending'[j] = pending[j + Expired]
      BY <2>2, <2>3, PendingTypes, WithoutFront
    <2> SUFFICES ASSUME NEW j \in 1 .. Len(pending) - Expired
                 PROVE  pending'[j].left > 0
      BY <2>4
    <2>5. /\ Expired < Len(pending) /\ Expired + 1 \in 1 .. Len(pending)
          /\ j + Expired \in 1 .. Len(pending) /\ Expired + 1 <= j + Expired
      BY <2>2, <2>4
    <2>6. pending[Expired + 1].left <= pending[j + Expired].left
      BY <2>5 DEF ListInv
    <2>7. pending[Expired + 1].left \in Nat /\ pending[j + Expired].left \in Nat
      BY <2>5, PendingTypes
    <2> QED
      BY <2>2, <2>4, <2>5, <2>6, <2>7
  <1> QED
    BY <1>1, ScanInvariant, PTL DEF Spec, SweepIsComplete

-----------------------------------------------------------------------------
(* The end of the program.                                                 *)

\* There is one poison pill, and it is the last thing queued.
PillInv ==
    /\ main \in {"feed", "pill"} => /\ worker # "done"
                                    /\ \A i \in 1 .. Len(fifo) : fifo[i] # Pill
    /\ main \in {"join", "close", "exited"} =>
          IF worker = "done"
          THEN fifo = << >>
          ELSE /\ fifo # << >> /\ fifo[Len(fifo)] = Pill
               /\ \A i \in 1 .. Len(fifo) - 1 : fifo[i] # Pill
    /\ main \in {"close", "exited"} => worker = "done"

LEMMA PillStep ==
    ASSUME ScanInv, PillInv, [Next]_vars
    PROVE  PillInv'
  <1>1. /\ fifo \in Seq(AllTargets \cup {Pill}) /\ Len(fifo) \in Nat
        /\ worker \in {"get", "exec", "done"}
        /\ main \in {"feed", "pill", "join", "close", "exited", "dead"}
    <2>1. fifo \in Seq(AllTargets \cup {Pill})
      BY DEF ScanInv, TypeOK, PipelineTypeOK
    <2>2. Len(fifo) \in Nat
      BY <2>1
    <2> QED
      BY <2>1, <2>2 DEF ScanInv, TypeOK, PipelineTypeOK
  <1>2. CASE main' = "dead"
    BY <1>2 DEF PillInv
  <1>3. CASE WorkerGets
    <2>1. /\ fifo # << >> /\ fifo' = Tail(fifo) /\ worker = "get" /\ main' = main
          /\ worker' = IF Head(fifo) = Pill THEN "done" ELSE "exec"
      BY <1>3 DEF WorkerGets, GetResult
    <2>2. /\ Head(fifo) = fifo[1] /\ Len(fifo') = Len(fifo) - 1 /\ Len(fifo) >= 1
          /\ \A i \in 1 .. Len(fifo) - 1 : fifo'[i] = fifo[i + 1]
          /\ Len(fifo) = 1 => fifo' = << >>
          /\ Len(fifo) > 1 => fifo' # << >>
      <3>1. Len(fifo) >= 1
        BY <1>1, <2>1
      <3>2. /\ Head(fifo) = fifo[1] /\ fifo' \in Seq(AllTargets \cup {Pill})
            /\ Len(fifo') = Len(fifo) - 1
            /\ \A i \in 1 .. Len(fifo) - 1 : fifo'[i] = fifo[i + 1]
        BY <1>1, <2>1, <3>1
      <3>3. Len(fifo) = 1 => fifo' = << >>
        BY <3>2
      <3>4. Len(fifo) > 1 => fifo' # << >>
        BY <1>1, <3>2
      <3> QED
        BY <3>1, <3>2, <3>3, <3>4
    <2>3. CASE main \in {"feed", "pill"}
      BY <1>1, <2>1, <2>2, <2>3 DEF PillInv
    <2>4. CASE main \in {"join", "close", "exited"}
      <3>1. /\ fifo[Len(fifo)] = Pill /\ main = "join"
            /\ \A i \in 1 .. Len(fifo) - 1 : fifo[i] # Pill
        BY <2>1, <2>4 DEF PillInv
      <3>2. CASE Len(fifo) = 1
        BY <1>1, <2>1, <2>2, <3>1, <3>2 DEF PillInv
      <3>3. CASE Len(fifo) > 1
        <4>1. worker' = "exec" /\ fifo' # << >>
          BY <1>1, <2>1, <2>2, <3>1, <3>3
        <4>2. fifo'[Len(fifo')] = Pill
          BY <1>1, <2>2, <3>1, <3>3
        <4>3. \A i \in 1 .. Len(fifo') - 1 : fifo'[i] # Pill
          BY <1>1, <2>2, <3>1, <3>3
        <4> QED
          BY <2>1, <3>1, <4>1, <4>2, <4>3 DEF PillInv
      <3> QED
        BY <1>1, <2>2, <3>2, <3>3
    <2>5. CASE main = "dead"
      BY <2>1, <2>5 DEF PillInv
    <2> QED
      BY <1>1, <2>3, <2>4, <2>5
  <1>4. ASSUME NEW r \in AllTargets, main = "feed", QueueResult(r), UNCHANGED <<worker, main>>
        PROVE  PillInv'
    <2>1. r # Pill
      BY ScannerAssumption DEF AllTargets
    <2>2. fifo' = Append(fifo, r)
      BY <1>4 DEF QueueResult
    <2>3. \A i \in 1 .. Len(fifo') : fifo'[i] # Pill
      BY <1>1, <1>4, <2>1, <2>2 DEF PillInv
    <2> QED
      BY <1>4, <2>3 DEF PillInv
  <1>5. CASE ReportMade
    <2>1. main = "feed" /\ made.target \in AllTargets
      BY <1>5 DEF ReportMade, At, ScanInv, MadeInv
    <2> QED
      BY <1>4, <1>5, <2>1 DEF ReportMade
  <1>6. CASE \E e \in batch : HandleEvent(e)
    <2>1. PICK e \in batch : HandleEvent(e)
      BY <1>6
    <2>2. main = "feed" /\ UNCHANGED <<worker, main>>
      BY <2>1 DEF HandleEvent, At
    <2>3. CASE fifo' = fifo
      BY <2>2, <2>3 DEF PillInv
    <2>4. CASE QueueResult(pending[IndexOf(pending, e.fd)].target)
      <3>1. e.fd \in FdsOf(pending) /\ TypeOK
        BY DEF ScanInv, BatchInv, EventsAreCurrent
      <3>2. pending[IndexOf(pending, e.fd)].target \in AllTargets
        BY <3>1, PendingTypes, WithoutOne
      <3> QED
        BY <1>4, <2>2, <2>4, <3>2
    <2> QED
      BY <2>1, <2>3, <2>4 DEF HandleEvent
  <1>7. CASE DeliverPill
    <2>1. main = "pill" /\ main' = "join" /\ fifo' = Append(fifo, Pill) /\ worker' = worker
      BY <1>7 DEF DeliverPill, QueueResult
    <2>2. worker # "done" /\ \A i \in 1 .. Len(fifo) : fifo[i] # Pill
      BY <2>1 DEF PillInv
    <2>3. /\ fifo' # << >> /\ fifo'[Len(fifo')] = Pill
          /\ \A i \in 1 .. Len(fifo') - 1 : fifo'[i] # Pill
      BY <1>1, <2>1, <2>2
    <2> QED
      BY <2>1, <2>2, <2>3 DEF PillInv
  <1>8. CASE WorkerReturns
    <2>1. worker = "exec" /\ worker' = "get" /\ fifo' = fifo /\ main' = main
      BY <1>8 DEF WorkerReturns, ModulesDone
    <2> QED
      BY <2>1 DEF PillInv
  <1>9. CASE /\ UNCHANGED <<fifo, worker>>
             /\ \/ main' = main
                \/ main = "feed" /\ main' = "pill"
                \/ main = "join" /\ worker = "done" /\ main' = "close"
                \/ main = "close" /\ main' = "exited"
    BY <1>9 DEF PillInv
  <1>10. \/ main' = "dead" \/ WorkerGets \/ ReportMade \/ (\E e \in batch : HandleEvent(e))
         \/ DeliverPill \/ WorkerReturns
         \/ /\ UNCHANGED <<fifo, worker>>
            /\ \/ main' = main
               \/ main = "feed" /\ main' = "pill"
               \/ main = "join" /\ worker = "done" /\ main' = "close"
               \/ main = "close" /\ main' = "exited"
    BY DEF Next, ConnThread, LoopTop, FillStep, ConnectStarts, ConnectSucceeds, ConnectFails,
       ConnectAborts, FillEnds, EpollWait, Sweep, ModuleOpens, ModuleCloses, MainStep, Join,
       CloseFile, Reply, Refuse, Tick, Sigint, SecondSigint, Stopped, At, Die, pipeline, vars
  <1> QED
    BY <1>2, <1>3, <1>5, <1>6, <1>7, <1>8, <1>9, <1>10

(* main closes the .cba file and returns only when the modules are done    *)
(* with every result that was ever queued: the pill is behind them all.    *)
THEOREM AlwaysDrainedBeforeClose == Spec => []DrainedBeforeClose
  <1>1. Init => PillInv
    BY DEF Init, PipelineInit, PillInv
  <1>2. ScanInv /\ PillInv /\ [Next]_vars => PillInv'
    BY PillStep
  <1>3. PillInv => DrainedBeforeClose
    BY DEF PillInv, DrainedBeforeClose
  <1> QED
    BY <1>1, <1>2, <1>3, ScanInvariant, PTL DEF Spec

-----------------------------------------------------------------------------
(* The canary.                                                             *)

\* It is sent once; while it is on its way one entry is its own, and no other is.
CanaryInv ==
    /\ canary = "unsent" <=> Canary = NoCanary \/ packets_sent <= canary_after
    /\ canary = "pending" <=> \E i \in 1 .. Len(pending) : pending[i].target = Canary
    /\ \A i, j \in 1 .. Len(pending) :
          pending[i].target = Canary /\ pending[j].target = Canary => i = j
    /\ canary_log # "none" => canary = "failed"

\* Entries are dropped: if the canary's is among them its fate is settled.
LEMMA CanaryDropped ==
    ASSUME ScanInv, CanaryInv, NEW m, NEW out, Keeps(m, out), packets_sent' = packets_sent,
           \/ /\ \A k \in out : pending[k].target # Canary
              /\ UNCHANGED <<canary, canary_log>>
           \/ /\ \E k \in out : pending[k].target = Canary
              /\ canary' \in {"answered", "failed"}
              /\ canary_log' \in {canary_log} \/ canary' = "failed"
    PROVE  CanaryInv'
  <1> USE DEF Keeps
  <1>1. \A j \in 1 .. Len(pending') : m[j] \in 1 .. Len(pending) /\ m[j] \notin out
    OBVIOUS
  <1>2. \A j, k \in 1 .. Len(pending') : m[j] = m[k] => j = k
    <2> SUFFICES ASSUME NEW j \in 1 .. Len(pending'), NEW k \in 1 .. Len(pending'), m[j] = m[k]
                 PROVE  j = k
      OBVIOUS
    <2>1. j \in Nat /\ k \in Nat /\ m[j] \in Nat /\ m[k] \in Nat
      BY PendingTypes DEF ScanInv
    <2>2. (j < k => m[j] < m[k]) /\ (k < j => m[k] < m[j])
      OBVIOUS
    <2> QED
      BY <2>1, <2>2
  <1>3. \A j, k \in 1 .. Len(pending') :
           pending'[j].target = Canary /\ pending'[k].target = Canary => j = k
    <2> SUFFICES ASSUME NEW j \in 1 .. Len(pending'), NEW k \in 1 .. Len(pending'),
                        pending'[j].target = Canary, pending'[k].target = Canary
                 PROVE  j = k
      OBVIOUS
    <2>1. pending'[j] = pending[m[j]] /\ pending'[k] = pending[m[k]]
      OBVIOUS
    <2>2. m[j] = m[k]
      <3>1. m[j] \in 1 .. Len(pending) /\ m[k] \in 1 .. Len(pending)
        BY <1>1
      <3>2. pending[m[j]].target = Canary /\ pending[m[k]].target = Canary
        BY <2>1
      <3> QED
        BY <3>1, <3>2 DEF CanaryInv
    <2> QED
      BY <1>2, <2>2
  <1>4. CASE /\ \A k \in out : pending[k].target # Canary
             /\ UNCHANGED <<canary, canary_log>>
    <2>1. (\E i \in 1 .. Len(pending) : pending[i].target = Canary)
             <=> \E j \in 1 .. Len(pending') : pending'[j].target = Canary
      <3>1. ASSUME NEW i \in 1 .. Len(pending), pending[i].target = Canary
            PROVE  \E j \in 1 .. Len(pending') : pending'[j].target = Canary
        <4>1. PICK j \in 1 .. Len(pending') : m[j] = i
          BY <1>4, <3>1
        <4>2. pending'[j] = pending[m[j]]
          OBVIOUS
        <4> QED
          BY <3>1, <4>1, <4>2
      <3>2. ASSUME NEW j \in 1 .. Len(pending'), pending'[j].target = Canary
            PROVE  \E i \in 1 .. Len(pending) : pending[i].target = Canary
        <4>1. m[j] \in 1 .. Len(pending)
          BY <1>1
        <4>2. pending'[j] = pending[m[j]]
          OBVIOUS
        <4> QED
          BY <3>2, <4>1, <4>2
      <3> QED
        BY <3>1, <3>2
    <2> QED
      BY <1>3, <1>4, <2>1 DEF CanaryInv
  <1>5. CASE /\ \E k \in out : pending[k].target = Canary
             /\ canary' \in {"answered", "failed"}
             /\ canary_log' \in {canary_log} \/ canary' = "failed"
    <2>1. PICK k \in out : pending[k].target = Canary
      BY <1>5
    <2>2. canary = "pending"
      BY <2>1 DEF CanaryInv
    <2>3. \A j \in 1 .. Len(pending') : pending'[j].target # Canary
      BY <1>1, <2>1 DEF CanaryInv
    <2> QED
      BY <1>3, <1>5, <2>2, <2>3 DEF CanaryInv
  <1> QED
    BY <1>4, <1>5

\* A packet is counted; the canary's turn comes once.
LEMMA CanaryCount ==
    ASSUME TypeOK, CountPacket
    PROVE  /\ CanaryTurn => Canary # NoCanary /\ packets_sent <= canary_after /\ ~(packets_sent' <= canary_after)
           /\ ~CanaryTurn => \/ Canary = NoCanary
                             \/ packets_sent' <= canary_after <=> packets_sent <= canary_after
  <1>1. packets_sent \in Nat /\ canary_after \in Nat
    <2>1. packets_sent \in 0 .. canary_after + 1
      BY DEF TypeOK
    <2>2. canary_after \in Nat
      BY ScannerAssumption
    <2> QED
      BY <2>1, <2>2
  <1> QED
    BY <1>1 DEF CountPacket, CanaryTurn

LEMMA CanaryStep ==
    ASSUME Cardinality(BaseFds) < socket_list_excess, Canary \notin Targets,
           ScanInv, CanaryInv, [Next]_vars
    PROVE  CanaryInv'
  <1>0. TypeOK
    BY DEF ScanInv
  <1>1. \A i \in 1 .. Len(pending) : IsCanary(pending[i].target) <=> pending[i].target = Canary
    <2>1. \A i \in 1 .. Len(pending) : pending[i].target \in AllTargets
      BY <1>0, PendingTypes
    <2> QED
      BY <2>1 DEF IsCanary, AllTargets
  <1>2. ASSUME NEW t \in AllTargets, Chosen(t)
        PROVE  /\ CanaryTurn => t = Canary
               /\ ~CanaryTurn => t # Canary
    BY <1>2 DEF Chosen
  <1>3. CASE \E t \in AllTargets : ConnectStarts(t)
    <2>1. PICK t \in AllTargets : ConnectStarts(t)
      BY <1>3
    <2>2. Filling /\ Chosen(t) /\ CountPacket /\ main # "dead"
      BY <2>1 DEF ConnectStarts, Filling, At
    <2>3. FreeFd < Size /\ FreeFd \in Nat /\ Size \in Nat
      <3>1. FreeFd < Size /\ FreeFd \in AllFds
        BY <2>2, FreeFdIsFree
      <3> QED
        BY <3>1, ScannerAssumption DEF AllFds, Size
    <2> DEFINE a == [fd |-> FreeFd, target |-> t, left |-> connect_timeout]
    <2>4. /\ pending' = Append(pending, a) /\ canary_log' = canary_log
          /\ canary' = IF CanaryTurn THEN "pending" ELSE canary
      BY <2>1, <2>3 DEF ConnectStarts
    <2>5. a.target = t
      OBVIOUS
    <2> HIDE DEF a
    <2>6. /\ Len(pending') = Len(pending) + 1 /\ Len(pending) \in Nat
          /\ \A i \in 1 .. Len(pending) : pending'[i] = pending[i]
          /\ pending'[Len(pending) + 1] = a
      BY <1>0, <2>4, PendingTypes
    <2>7. CASE CanaryTurn
      <3>1. canary = "unsent" /\ t = Canary /\ canary' = "pending" /\ canary_log = "none"
        BY <1>0, <1>2, <2>2, <2>4, <2>7, CanaryCount DEF CanaryInv
      <3>2. \A i \in 1 .. Len(pending) : pending[i].target # Canary
        BY <3>1 DEF CanaryInv
      <3>3. \A i \in 1 .. Len(pending') : pending'[i].target = Canary <=> i = Len(pending) + 1
        BY <2>5, <2>6, <3>1, <3>2
      <3>4. Len(pending) + 1 \in 1 .. Len(pending')
        BY <2>6
      <3>5. Canary # NoCanary /\ ~(packets_sent' <= canary_after)
        BY <1>0, <2>2, <2>7, CanaryCount
      <3> QED
        BY <2>4, <3>1, <3>3, <3>4, <3>5 DEF CanaryInv
    <2>8. CASE ~CanaryTurn
      <3>1. t # Canary /\ canary' = canary
        BY <1>2, <2>2, <2>4, <2>8
      <3>2. \A i \in 1 .. Len(pending') :
               pending'[i].target = Canary => i \in 1 .. Len(pending) /\ pending[i].target = Canary
        BY <2>5, <2>6, <3>1
      <3>3. \A i \in 1 .. Len(pending) : i \in 1 .. Len(pending') /\ pending'[i] = pending[i]
        BY <2>6
      <3>4. Canary = NoCanary \/ (packets_sent' <= canary_after <=> packets_sent <= canary_after)
        BY <1>0, <2>2, <2>8, CanaryCount
      <3>5. canary' = "pending" <=> \E i \in 1 .. Len(pending') : pending'[i].target = Canary
        BY <3>1, <3>2, <3>3 DEF CanaryInv
      <3>6. \A i, j \in 1 .. Len(pending') :
               pending'[i].target = Canary /\ pending'[j].target = Canary => i = j
        BY <3>2 DEF CanaryInv
      <3> QED
        BY <2>4, <3>1, <3>4, <3>5, <3>6 DEF CanaryInv
    <2> QED
      BY <2>7, <2>8
  <1>4. CASE \E t \in AllTargets : ConnectSucceeds(t) \/ ConnectFails(t)
    <2>1. PICK t \in AllTargets : ConnectSucceeds(t) \/ ConnectFails(t)
      BY <1>4
    <2>2. /\ CountPacket /\ UNCHANGED <<pending, canary_log>>
          /\ CanaryTurn => canary' \in {"answered", "failed"}
          /\ ~CanaryTurn => canary' = canary
      BY <2>1 DEF ConnectSucceeds, ConnectFails
    <2>3. CASE CanaryTurn
      <3>1. canary = "unsent" /\ canary_log = "none" /\ Canary # NoCanary /\ ~(packets_sent' <= canary_after)
        BY <1>0, <2>2, <2>3, CanaryCount DEF CanaryInv
      <3> QED
        BY <2>2, <2>3, <3>1 DEF CanaryInv
    <2>4. CASE ~CanaryTurn
      <3>1. Canary = NoCanary \/ (packets_sent' <= canary_after <=> packets_sent <= canary_after)
        BY <1>0, <2>2, <2>4, CanaryCount
      <3> QED
        BY <2>2, <2>4, <3>1 DEF CanaryInv
    <2> QED
      BY <2>3, <2>4
  <1>5. CASE \E e \in batch : HandleEvent(e)
    <2>1. PICK e \in batch : HandleEvent(e)
      BY <1>5
    <2> DEFINE i == IndexOf(pending, e.fd)
    <2>2. i \in 1 .. Len(pending)
      BY <2>1, EventKeeps
    <2>3. PICK m : Keeps(m, {i})
      BY <2>1, EventKeeps
    <2>4. /\ packets_sent' = packets_sent
          /\ IsCanary(pending[i].target) =>
                /\ canary' \in {"answered", "failed"}
                /\ canary_log' \in {canary_log} \/ canary' = "failed"
          /\ ~IsCanary(pending[i].target) => UNCHANGED <<canary, canary_log>>
      BY <2>1 DEF HandleEvent
    <2> HIDE DEF i
    <2>5. \/ /\ \A k \in {i} : pending[k].target # Canary
             /\ UNCHANGED <<canary, canary_log>>
          \/ /\ \E k \in {i} : pending[k].target = Canary
             /\ canary' \in {"answered", "failed"}
             /\ canary_log' \in {canary_log} \/ canary' = "failed"
      BY <1>1, <2>2, <2>4
    <2> QED
      BY <2>3, <2>4, <2>5, CanaryDropped
  <1>6. CASE Sweep
    <2>1. Expired \in 0 .. Len(pending) /\ 1 .. Expired \subseteq 1 .. Len(pending)
      BY <1>0, <1>6, SweepKeeps, PendingTypes
    <2>2. PICK m : Keeps(m, 1 .. Expired)
      BY <1>6, SweepKeeps
    <2>3. CanaryExpires <=> \E k \in 1 .. Expired : pending[k].target = Canary
      BY <1>1, <2>1 DEF CanaryExpires
    <2>4. /\ packets_sent' = packets_sent
          /\ CanaryExpires => canary' = "failed"
          /\ ~CanaryExpires => UNCHANGED <<canary, canary_log>>
      BY <1>6 DEF Sweep
    <2> QED
      BY <2>2, <2>3, <2>4, CanaryDropped
  <1>7. CASE Tick
    <2>1. /\ Len(pending') = Len(pending)
          /\ \A i \in 1 .. Len(pending) : pending'[i].target = pending[i].target
      <3>1. /\ pending' = [i \in 1 .. Len(pending) |->
                             [pending[i] EXCEPT !.left = IF @ > 0 THEN @ - 1 ELSE 0]]
            /\ Len(pending) \in Nat
        BY <1>0, <1>7, PendingTypes DEF Tick
      <3>2. \A i \in 1 .. Len(pending) : pending[i] \in Attempt
        BY <1>0, PendingTypes
      <3>3. \A i \in 1 .. Len(pending) : pending'[i].target = pending[i].target
        BY <3>1, <3>2 DEF Attempt
      <3>4. Len(pending') = Len(pending)
        BY <3>1
      <3> QED
        BY <3>3, <3>4
    <2>2. UNCHANGED <<canary, canary_log, packets_sent>>
      BY <1>7 DEF Tick
    <2> QED
      BY <2>1, <2>2 DEF CanaryInv
  <1>8. CASE UNCHANGED <<pending, canary, canary_log, packets_sent>>
    BY <1>8 DEF CanaryInv
  <1>9. \/ \E t \in AllTargets : ConnectStarts(t) \/ ConnectSucceeds(t) \/ ConnectFails(t)
        \/ \E e \in batch : HandleEvent(e)
        \/ Sweep \/ Tick
        \/ UNCHANGED <<pending, canary, canary_log, packets_sent>>
    BY DEF Next, ConnThread, LoopTop, FillStep, ConnectAborts, ReportMade, FillEnds, EpollWait,
       WorkerGets, WorkerReturns, ModuleOpens, ModuleCloses, Reply, Refuse, Sigint, SecondSigint,
       Stopped, vars, scan
  <1> QED
    BY <1>3, <1>4, <1>5, <1>6, <1>7, <1>8, <1>9

(* Until the event loop or the sweep has settled the fate of the canary it *)
(* is listed, and log_canary_fail reports only a canary that failed: as    *)
(* long as no ordinary target is the canary, and descriptors fit.          *)
THEOREM CanaryAlwaysWatched ==
    ASSUME Cardinality(BaseFds) < socket_list_excess, Canary \notin Targets
    PROVE  Spec => []CanaryIsWatched
  <1>1. Init => CanaryInv
    <2> SUFFICES ASSUME Init
                 PROVE  CanaryInv
      OBVIOUS
    <2>1. /\ pending = << >> /\ Len(pending) = 0 /\ packets_sent <= canary_after
          /\ canary = "unsent" /\ canary_log = "none"
      BY ScannerAssumption DEF Init
    <2> QED
      BY <2>1 DEF CanaryInv
  <1>2. ScanInv /\ CanaryInv /\ [Next]_vars => CanaryInv'
    BY CanaryStep
  <1>3. ScanInv /\ CanaryInv => CanaryIsWatched
    <2> SUFFICES ASSUME ScanInv, CanaryInv
                 PROVE  CanaryIsWatched
      OBVIOUS
    <2>1. DOMAIN pending = 1 .. Len(pending)
      BY PendingTypes DEF ScanInv
    <2> QED
      BY <2>1 DEF CanaryInv, CanaryIsWatched
  <1> QED
    BY <1>1, <1>2, <1>3, ScanInvariant, PTL DEF Spec

-----------------------------------------------------------------------------
(* cscan -x.                                                               *)

\* How many lines were read, how many results are with the modules, and how
\* many wait in the queue, the pill not counted.
Read == Len(lines) - Len(input)
Busy == IF worker = "exec" THEN 1 ELSE 0
PillQueued == main = "join" /\ worker # "done"
Queued == IF PillQueued THEN Len(fifo) - 1 ELSE Len(fifo)

FeedTypes ==
    /\ lines \in Seq(Lines) /\ input \in Seq(Lines)
    /\ processed \in Seq(Addresses) /\ fifo \in Seq(Addresses \cup {Pill})
    /\ worker \in {"get", "exec", "done"}
    /\ main \in {"feed", "pill", "join", "close", "exited"}

(***************************************************************************)
(* The inductive invariant.  The lines read so far, all of them addresses, *)
(* are in this order: processed, with the modules, in the queue.  main has *)
(* left the loop where it should; the pill is last in the queue, and the   *)
(* worker stops on it and on nothing else.                                 *)
(***************************************************************************)
ReadInv ==
    /\ Len(input) <= Len(lines)
    /\ \A i \in 1 .. Len(input) : input[i] = lines[Read + i]
    /\ \A i \in 1 .. Read : lines[i] \in Addresses /\ lines[i] \notin NoMatches
    /\ main # "feed" => Read = Len(lines) \/ lines[Read + 1] \in NoMatches

FlowInv ==
    /\ \A i \in 1 .. Len(processed) : processed[i] = lines[i]
    /\ worker = "exec" => result = lines[Len(processed) + 1]
    /\ \A i \in 1 .. Queued : fifo[i] = lines[Len(processed) + Busy + i]
    /\ Len(processed) + Busy + Queued = Read

EndInv ==
    /\ PillQueued => fifo # <<>> /\ fifo[Len(fifo)] = Pill
    /\ worker = "done" => main \in {"join", "close", "exited"} /\ fifo = <<>>
    /\ main \in {"close", "exited"} => worker = "done"

FeedInv == FeedTypes /\ ReadInv /\ FlowInv /\ EndInv

LEMMA FeedInit == StdinInit => FeedInv
  <1> SUFFICES ASSUME StdinInit PROVE FeedInv
    OBVIOUS
  <1>1. PICK n \in 0 .. MaxLines : lines \in [1 .. n -> Lines]
    BY DEF StdinInit, Inputs
  <1>2. n \in Nat
    BY StdinAssumption
  <1>3. lines \in Seq(Lines) /\ Len(lines) = n
    BY <1>1, <1>2
  <1>4. FeedTypes
    BY <1>3 DEF StdinInit, PipelineInit, FeedTypes
  <1>5. Read = 0 /\ Len(input) \in Nat /\ Len(lines) = Len(input)
    BY <1>2, <1>3 DEF Read, StdinInit
  <1>6. ReadInv
    BY <1>5 DEF StdinInit, PipelineInit, ReadInv
  <1>7. FlowInv /\ EndInv
    BY <1>5 DEF StdinInit, PipelineInit, FlowInv, EndInv, Queued, Busy, PillQueued
  <1> QED
    BY <1>4, <1>6, <1>7 DEF FeedInv

\* What the invariant says of the lengths.
LEMMA Lengths ==
    ASSUME FeedInv
    PROVE  /\ Len(lines) \in Nat /\ Len(input) \in Nat /\ Len(processed) \in Nat /\ Len(fifo) \in Nat
           /\ Read \in 0 .. Len(lines) /\ Busy \in {0, 1} /\ Queued \in Nat
           /\ Len(processed) + Busy + Queued = Read
  <1>1. /\ Len(lines) \in Nat /\ Len(input) \in Nat /\ Len(processed) \in Nat /\ Len(fifo) \in Nat
    BY DEF FeedInv, FeedTypes
  <1>2. Read \in 0 .. Len(lines)
    BY <1>1 DEF FeedInv, ReadInv, Read
  <1>3. Queued \in Nat
    <2>1. PillQueued => Len(fifo) # 0
      BY DEF FeedInv, FeedTypes, EndInv
    <2> QED
      BY <1>1, <2>1 DEF Queued
  <1> QED
    BY <1>1, <1>2, <1>3 DEF Busy, FeedInv, FlowInv

LEMMA AddLineKeeps ==
    ASSUME BadIps = {}, FeedInv, AddLine
    PROVE  FeedInv'
  <1>1. /\ main = "feed" /\ main' = "feed" /\ worker' = worker /\ result' = result
        /\ lines' = lines /\ processed' = processed
        /\ input # <<>> /\ input' = Tail(input)
    BY DEF AddLine
  <1>2. /\ Len(input') = Len(input) - 1 /\ Len(input) # 0 /\ input' \in Seq(Lines)
        /\ \A i \in 1 .. Len(input) - 1 : input'[i] = input[i + 1]
    BY <1>1 DEF FeedInv, FeedTypes
  <1>3. Read' = Read + 1
    BY <1>1, <1>2, Lengths DEF Read
  <1>4. Head(input) = lines[Read + 1] /\ Head(input) \in Addresses /\ Head(input) \notin NoMatches
    <2>1. Head(input) = input[1] /\ input[1] \in Lines /\ Head(input) \notin NoMatches
      BY <1>1 DEF FeedInv, FeedTypes, AddLine
    <2>2. input[1] = lines[Read + 1]
      BY <1>2, Lengths DEF FeedInv, ReadInv
    <2> QED
      BY <2>1, <2>2 DEF Lines
  <1>5. fifo' = Append(fifo, Head(input))
    BY <1>4 DEF AddLine, QueueResult, Parsed
  <1>6. /\ fifo' \in Seq(Addresses \cup {Pill}) /\ Len(fifo') = Len(fifo) + 1
        /\ \A i \in 1 .. Len(fifo) : fifo'[i] = fifo[i]
        /\ fifo'[Len(fifo) + 1] = Head(input)
    BY <1>4, <1>5 DEF FeedInv, FeedTypes
  <1>7. FeedTypes'
    BY <1>1, <1>2, <1>6 DEF FeedInv, FeedTypes
  <1>8. ReadInv'
    <2>1. \A i \in 1 .. Len(input) - 1 : input'[i] = lines[Read + 1 + i]
      <3> SUFFICES ASSUME NEW i \in 1 .. Len(input) - 1
                   PROVE  input'[i] = lines[Read + 1 + i]
        OBVIOUS
      <3>1. i + 1 \in 1 .. Len(input) /\ Read + (i + 1) = Read + 1 + i
        BY Lengths
      <3>2. input[i + 1] = lines[Read + (i + 1)]
        BY <3>1 DEF FeedInv, ReadInv
      <3> QED
        BY <1>2, <3>1, <3>2
    <2>2. \A i \in 1 .. Read + 1 : lines[i] \in Addresses /\ lines[i] \notin NoMatches
      <3>1. \A i \in 1 .. Read + 1 : i = Read + 1 \/ i \in 1 .. Read
        BY Lengths
      <3> QED
        BY <1>4, <3>1 DEF FeedInv, ReadInv
    <2>3. Len(input) - 1 <= Len(lines)
      BY Lengths DEF FeedInv, ReadInv
    <2> QED
      BY <1>1, <1>2, <1>3, <2>1, <2>2, <2>3 DEF ReadInv
  <1>9. FlowInv'
    <2>1. Queued = Len(fifo) /\ Queued' = Len(fifo) + 1 /\ Busy' = Busy
      BY <1>1, <1>6 DEF Queued, PillQueued, Busy
    <2>2. Len(processed) + Busy + (Len(fifo) + 1) = Read + 1
      BY <2>1, Lengths
    <2>3. \A i \in 1 .. Len(fifo) + 1 : fifo'[i] = lines[Len(processed) + Busy + i]
      <3>1. \A i \in 1 .. Len(fifo) + 1 : i = Len(fifo) + 1 \/ i \in 1 .. Len(fifo)
        BY Lengths
      <3>2. \A i \in 1 .. Len(fifo) : fifo'[i] = lines[Len(processed) + Busy + i]
        BY <1>6, <2>1 DEF FeedInv, FlowInv
      <3> QED
        BY <1>4, <1>6, <2>2, <3>1, <3>2
    <2> QED
      BY <1>1, <1>3, <2>1, <2>2, <2>3 DEF FeedInv, FlowInv
  <1>10. EndInv'
    BY <1>1 DEF FeedInv, EndInv, PillQueued
  <1> QED
    BY <1>7, <1>8, <1>9, <1>10 DEF FeedInv
LEMMA EndOfInputKeeps ==
    ASSUME FeedInv, EndOfInput
    PROVE  FeedInv'
  <1>1. /\ main = "feed" /\ main' = "pill"
        /\ UNCHANGED <<fifo, worker, result, lines, input, processed>>
    BY DEF EndOfInput, feed
  <1>2. Read = Len(lines) \/ lines[Read + 1] \in NoMatches
    <2>1. CASE input = <<>>
      BY <2>1, Lengths DEF Read
    <2>2. CASE input # <<>>
      <3>1. Head(input) = input[1] /\ 1 \in 1 .. Len(input)
        BY <2>2 DEF FeedInv, FeedTypes
      <3>2. input[1] = lines[Read + 1]
        BY <3>1 DEF FeedInv, ReadInv
      <3> QED
        BY <2>2, <3>1, <3>2 DEF EndOfInput
    <2> QED
      BY <2>1, <2>2
  <1>3. FeedTypes'
    BY <1>1 DEF FeedInv, FeedTypes
  <1>4. ReadInv'
    BY <1>1, <1>2 DEF FeedInv, ReadInv, Read
  <1>5. FlowInv'
    BY <1>1 DEF FeedInv, FlowInv, Queued, PillQueued, Busy, Read
  <1>6. EndInv'
    BY <1>1 DEF FeedInv, EndInv, PillQueued
  <1> QED
    BY <1>3, <1>4, <1>5, <1>6 DEF FeedInv

\* The reading side is out of the worker's and of main's reach.
LEMMA ReadStays ==
    ASSUME FeedInv, UNCHANGED <<lines, input>>, main' = "feed" => main = "feed",
           main # "feed" \/ main' = "feed"
    PROVE  ReadInv' /\ Read' = Read
  BY DEF FeedInv, ReadInv, Read

LEMMA WorkerGetsKeeps ==
    ASSUME FeedInv, StdinGets
    PROVE  FeedInv'
  <1>1. /\ worker = "get" /\ fifo # <<>> /\ fifo' = Tail(fifo) /\ result' = Head(fifo)
        /\ worker' = IF Head(fifo) = Pill THEN "done" ELSE "exec"
        /\ UNCHANGED <<main, lines, input, processed>>
    BY DEF StdinGets, GetResult, feed
  <1>2. /\ Len(fifo) # 0 /\ Head(fifo) = fifo[1] /\ Len(fifo') = Len(fifo) - 1
        /\ fifo' \in Seq(Addresses \cup {Pill})
        /\ \A i \in 1 .. Len(fifo) - 1 : fifo'[i] = fifo[i + 1]
    BY <1>1 DEF FeedInv, FeedTypes
  <1>3. FeedTypes'
    BY <1>1, <1>2 DEF FeedInv, FeedTypes
  <1>4. ReadInv' /\ Read' = Read
    BY <1>1, ReadStays
  <1>5. CASE Queued = 0
    <2>1. PillQueued /\ Len(fifo) = 1
      BY <1>2, <1>5, Lengths DEF Queued
    <2>2. fifo[1] = Pill
      BY <2>1 DEF FeedInv, EndInv
    <2>3. worker' = "done" /\ main = "join" /\ main' = "join"
      BY <1>1, <1>2, <2>1, <2>2 DEF PillQueued
    <2>4. Len(fifo') = 0 /\ fifo' = <<>>
      BY <1>2, <2>1
    <2>5. Queued' = 0 /\ Busy = 0 /\ Busy' = 0
      BY <1>1, <2>3, <2>4 DEF Queued, PillQueued, Busy
    <2>6. FlowInv'
      <3>1. Len(processed) + 0 + 0 = Read
        BY <1>5, <2>5, Lengths
      <3> QED
        BY <1>1, <1>4, <2>3, <2>5, <3>1 DEF FeedInv, FlowInv
    <2>7. EndInv'
      BY <2>3, <2>4 DEF EndInv, PillQueued
    <2> QED
      BY <1>3, <1>4, <2>6, <2>7 DEF FeedInv
  <1>6. CASE Queued # 0
    <2>1. 1 \in 1 .. Queued /\ Busy = 0
      BY <1>1, <1>6, Lengths DEF Busy
    <2>2. fifo[1] = lines[Len(processed) + 1] /\ Len(processed) + 1 \in 1 .. Read
      <3>1. fifo[1] = lines[Len(processed) + Busy + 1]
        BY <2>1 DEF FeedInv, FlowInv
      <3> QED
        BY <2>1, <3>1, Lengths
    <2>3. fifo[1] \in Addresses /\ fifo[1] # Pill
      BY <2>2, StdinAssumption DEF FeedInv, ReadInv
    <2>4. worker' = "exec" /\ result' = lines[Len(processed) + 1]
      BY <1>1, <1>2, <2>2, <2>3
    <2>5. Busy' = 1 /\ Queued' = Queued - 1 /\ (PillQueued' <=> PillQueued)
      <3>1. Busy' = 1 /\ (PillQueued' <=> PillQueued)
        BY <1>1, <2>4 DEF Busy, PillQueued
      <3> QED
        BY <1>2, <3>1, Lengths DEF Queued
    <2>6. FlowInv'
      <3>1. \A i \in 1 .. Queued - 1 : fifo'[i] = lines[Len(processed) + 1 + i]
        <4> SUFFICES ASSUME NEW i \in 1 .. Queued - 1
                     PROVE  fifo'[i] = lines[Len(processed) + 1 + i]
          OBVIOUS
        <4>1. Queued <= Len(fifo)
          BY Lengths DEF Queued
        <4>2. i \in 1 .. Len(fifo) - 1 /\ i + 1 \in 1 .. Queued
          BY <4>1, Lengths
        <4>3. fifo'[i] = lines[Len(processed) + Busy + (i + 1)]
          BY <1>2, <4>2 DEF FeedInv, FlowInv
        <4>4. Len(processed) + Busy + (i + 1) = Len(processed) + 1 + i
          BY <2>1, Lengths
        <4> QED
          BY <4>3, <4>4
      <3>2. Len(processed) + 1 + (Queued - 1) = Read
        BY <2>1, Lengths
      <3> QED
        BY <1>1, <1>4, <2>4, <2>5, <3>1, <3>2 DEF FeedInv, FlowInv
    <2>7. EndInv'
      <3>1. ASSUME PillQueued PROVE fifo' # <<>> /\ fifo'[Len(fifo')] = Pill
        <4>1. Len(fifo) - 1 \in 1 .. Len(fifo) - 1 /\ Len(fifo) - 1 # 0
          <5>1. Queued = Len(fifo) - 1 /\ Queued \in Nat
            BY <3>1, Lengths DEF Queued
          <5> QED
            BY <1>6, <5>1
        <4>2. fifo'[Len(fifo) - 1] = fifo[Len(fifo)]
          <5>1. (Len(fifo) - 1) + 1 = Len(fifo)
            BY Lengths
          <5> QED
            BY <1>2, <4>1, <5>1
        <4> QED
          BY <1>2, <3>1, <4>1, <4>2 DEF FeedInv, EndInv
      <3>2. main \notin {"close", "exited"}
        BY <1>1 DEF FeedInv, EndInv
      <3> QED
        BY <1>1, <2>4, <2>5, <3>1, <3>2 DEF EndInv
    <2> QED
      BY <1>3, <1>4, <2>6, <2>7 DEF FeedInv
  <1> QED
    BY <1>5, <1>6

LEMMA WorkerReturnsKeeps ==
    ASSUME FeedInv, StdinReturns
    PROVE  FeedInv'
  <1>1. /\ worker = "exec" /\ worker' = "get" /\ processed' = Append(processed, result)
        /\ UNCHANGED <<fifo, result, main, lines, input>>
    BY DEF StdinReturns, ModulesDone
  <1>2. Busy = 1 /\ Busy' = 0 /\ Queued' = Queued /\ (PillQueued' <=> PillQueued)
    BY <1>1 DEF Busy, Queued, PillQueued
  <1>3. result = lines[Len(processed) + 1] /\ result \in Addresses
    <2>1. result = lines[Len(processed) + 1]
      BY <1>1 DEF FeedInv, FlowInv
    <2>2. Len(processed) + 1 \in 1 .. Read
      BY <1>2, Lengths
    <2> QED
      BY <2>1, <2>2 DEF FeedInv, ReadInv
  <1>4. /\ processed' \in Seq(Addresses) /\ Len(processed') = Len(processed) + 1
        /\ \A i \in 1 .. Len(processed) : processed'[i] = processed[i]
        /\ processed'[Len(processed) + 1] = result
    BY <1>1, <1>3 DEF FeedInv, FeedTypes
  <1>5. FeedTypes'
    BY <1>1, <1>4 DEF FeedInv, FeedTypes
  <1>6. ReadInv' /\ Read' = Read
    BY <1>1, ReadStays
  <1>7. FlowInv'
    <2>1. \A i \in 1 .. Len(processed) + 1 : processed'[i] = lines[i]
      <3>1. \A i \in 1 .. Len(processed) + 1 : i = Len(processed) + 1 \/ i \in 1 .. Len(processed)
        BY Lengths
      <3>2. \A i \in 1 .. Len(processed) : processed[i] = lines[i]
        BY DEF FeedInv, FlowInv
      <3> QED
        BY <1>3, <1>4, <3>1, <3>2
    <2>2. Len(processed) + 1 + 0 + Queued = Read
      BY <1>2, Lengths
    <2>3. \A i \in 1 .. Queued : fifo[i] = lines[Len(processed) + 1 + 0 + i]
      <3>1. \A i \in 1 .. Queued : Len(processed) + 1 + 0 + i = Len(processed) + Busy + i
        BY <1>2, Lengths
      <3> QED
        BY <3>1 DEF FeedInv, FlowInv
    <2> QED
      BY <1>1, <1>2, <1>4, <1>6, <2>1, <2>2, <2>3 DEF FlowInv
  <1>8. EndInv'
    BY <1>1, <1>2 DEF FeedInv, EndInv
  <1> QED
    BY <1>5, <1>6, <1>7, <1>8 DEF FeedInv

LEMMA MainKeeps ==
    ASSUME FeedInv, MainStep, UNCHANGED feed
    PROVE  FeedInv'
  <1>1. UNCHANGED <<worker, result, lines, input, processed>> /\ main # "feed" /\ main' # "feed"
    BY DEF MainStep, DeliverPill, Join, CloseFile, feed
  <1>2. ReadInv' /\ Read' = Read /\ Busy' = Busy
    BY <1>1, ReadStays DEF Busy
  <1>3. CASE DeliverPill
    <2>1. main = "pill" /\ main' = "join" /\ fifo' = Append(fifo, Pill)
      BY <1>3 DEF DeliverPill, QueueResult
    <2>2. /\ fifo' \in Seq(Addresses \cup {Pill}) /\ Len(fifo') = Len(fifo) + 1
          /\ \A i \in 1 .. Len(fifo) : fifo'[i] = fifo[i]
          /\ fifo'[Len(fifo) + 1] = Pill
      BY <2>1 DEF FeedInv, FeedTypes
    <2>3. worker # "done" /\ PillQueued' /\ ~PillQueued
      BY <1>1, <2>1 DEF FeedInv, EndInv, PillQueued
    <2>4. Queued' = Queued /\ Queued = Len(fifo)
      BY <2>2, <2>3, Lengths DEF Queued
    <2>5. FeedTypes'
      BY <1>1, <2>1, <2>2 DEF FeedInv, FeedTypes
    <2>6. FlowInv'
      BY <1>1, <1>2, <2>2, <2>4 DEF FeedInv, FlowInv
    <2>7. EndInv'
      <3>1. fifo' # <<>>
        BY <2>2, Lengths
      <3> QED
        BY <1>1, <2>1, <2>2, <2>3, <3>1 DEF EndInv
    <2> QED
      BY <1>2, <2>5, <2>6, <2>7 DEF FeedInv
  <1>4. CASE Join \/ CloseFile
    <2>1. /\ fifo' = fifo /\ main \in {"join", "close"} /\ main' \in {"close", "exited"}
          /\ worker = "done"
      BY <1>4 DEF Join, CloseFile, FeedInv, EndInv
    <2>2. Queued' = Queued /\ ~PillQueued /\ ~PillQueued'
      BY <1>1, <2>1 DEF Queued, PillQueued
    <2>3. FeedTypes'
      BY <1>1, <2>1 DEF FeedInv, FeedTypes
    <2>4. FlowInv'
      BY <1>1, <1>2, <2>1, <2>2 DEF FeedInv, FlowInv
    <2>5. EndInv'
      BY <1>1, <2>1, <2>2 DEF FeedInv, EndInv
    <2> QED
      BY <1>2, <2>3, <2>4, <2>5 DEF FeedInv
  <1> QED
    BY <1>3, <1>4 DEF MainStep

LEMMA FeedStepKeeps ==
    ASSUME BadIps = {}, FeedInv, [StdinNext]_stdin
    PROVE  FeedInv'
  <1>1. CASE UNCHANGED stdin
    BY <1>1 DEF stdin, pipeline, feed, FeedInv, FeedTypes, ReadInv, FlowInv, EndInv, Read, Busy,
                Queued, PillQueued
  <1> QED
    BY <1>1, AddLineKeeps, EndOfInputKeeps, WorkerGetsKeeps, WorkerReturnsKeeps, MainKeeps
       DEF StdinNext, FeedStep, StdinStopped

\* At the end all that was read is processed, and what was read is Matched.
LEMMA EndOfRun ==
    ASSUME FeedInv, main = "exited"
    PROVE  Matched = SubSeq(lines, 1, Len(processed)) /\ Len(processed) \in 0 .. Len(lines)
  <1>1. Len(processed) = Read
    <2>1. worker = "done" /\ fifo = <<>> /\ Busy = 0
      BY DEF FeedInv, EndInv, Busy
    <2>2. Queued = 0
      BY <2>1 DEF Queued, PillQueued
    <2> QED
      BY <2>1, <2>2, Lengths
  <1> DEFINE Ends(n) == /\ \A i \in 1 .. n : lines[i] \notin NoMatches
                        /\ n = Len(lines) \/ lines[n + 1] \in NoMatches
  <1>2. Ends(Read) /\ Read \in 0 .. Len(lines)
    BY Lengths DEF FeedInv, ReadInv
  <1>3. \A n \in 0 .. Len(lines) : Ends(n) => n = Read
    <2> SUFFICES ASSUME NEW n \in 0 .. Len(lines), Ends(n) PROVE n = Read
      OBVIOUS
    <2>1. CASE n < Read
      <3>1. n + 1 \in 1 .. Read /\ n # Len(lines)
        BY <2>1, Lengths
      <3> QED
        BY <1>2, <3>1
    <2>2. CASE Read < n
      <3>1. Read + 1 \in 1 .. n /\ Read # Len(lines)
        BY <2>2, Lengths
      <3> QED
        BY <1>2, <3>1
    <2> QED
      BY <2>1, <2>2, Lengths
  <1>4. Read = CHOOSE n \in 0 .. Len(lines) : Ends(n)
    BY <1>2, <1>3
  <1> QED
    BY <1>1, <1>2, <1>4 DEF Matched

(* cscan -x: when the input holds no address that fails to parse, the      *)
(* modules have been run, by the time the program ends, on every address   *)
(* read, once each and in the order of the input, however long the input   *)
(* and however short the queue between the two threads.                    *)
THEOREM StdinAlwaysProcessed ==
    ASSUME BadIps = {}
    PROVE  StdinSpec => []StdinResultsAreProcessed
  <1>1. FeedInv => StdinResultsAreProcessed
    <2> SUFFICES ASSUME FeedInv, main = "exited"
                 PROVE  \E at \in [1 .. Len(processed) -> 1 .. Len(Matched)] :
                           /\ \A i, j \in 1 .. Len(processed) : i < j => at[i] < at[j]
                           /\ \A i \in 1 .. Len(processed) : processed[i] = Matched[at[i]]
                           /\ \A k \in 1 .. Len(Matched) :
                                 Matched[k] \in Addresses
                                    <=> \E i \in 1 .. Len(processed) : at[i] = k
      BY DEF StdinResultsAreProcessed
    <2>1. /\ Len(Matched) = Len(processed)
          /\ \A i \in 1 .. Len(processed) : Matched[i] = lines[i]
      <3>1. Matched = SubSeq(lines, 1, Len(processed)) /\ Len(processed) \in 0 .. Len(lines)
        BY EndOfRun
      <3>2. lines \in Seq(Lines)
        BY DEF FeedInv, FeedTypes
      <3>3. ASSUME NEW n \in 0 .. Len(lines)
            PROVE  /\ Len(SubSeq(lines, 1, n)) = n
                   /\ \A i \in 1 .. n : SubSeq(lines, 1, n)[i] = lines[i]
        BY <3>2
      <3> QED
        BY <3>1, <3>3
    <2>2. \A i \in 1 .. Len(processed) : processed[i] = lines[i] /\ processed[i] \in Addresses
      BY DEF FeedInv, FlowInv, FeedTypes
    <2> DEFINE at == [i \in 1 .. Len(processed) |-> i]
    <2>3. at \in [1 .. Len(processed) -> 1 .. Len(Matched)]
      BY <2>1
    <2> QED
      BY <2>1, <2>2, <2>3
  <1>2. FeedInv /\ [StdinNext]_stdin => FeedInv'
    BY FeedStepKeeps
  <1> QED
    BY <1>1, <1>2, FeedInit, PTL DEF StdinSpec

=============================================================================

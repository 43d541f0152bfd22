--------------------------- MODULE SendingProofs ---------------------------
(***************************************************************************)
(* Proofs about Sending, for any interval, array size, report interval and *)
(* ports, and whatever usleep, binding, connecting and epoll do.           *)
(***************************************************************************)
EXTENDS Sending, TLAPS

-----------------------------------------------------------------------------
(* The inductive invariants.                                               *)

\* Inside the loop that sends there is room for one more socket, what this pass
\* has sent is pending, and events are only left behind epoll_wait.
Trying == {"sleep", "bind", "connect", "stats", "metrics", "result"}

RoomInv == /\ pc \in Trying => pending < max_pending_sockets
           /\ pc \in Trying \cup {"fill"} => send_count <= pending
           /\ pc # "events" => nev <= 0

\* A slot is taken before its packet is sent.
Slot == IF pc \in {"bind", "connect"} THEN 1 ELSE 0
Slots == window.sent + Slot

\* last_packet is never ahead of the clock, but for the one sleep SIGINT cut.
\* From the second slot taken in a window on, slots lie an interval apart and
\* behind the window's start, and a sleep that began in the window ends so.
PaceInv ==
    /\ window.from <= now
    /\ early => done
    /\ last_packet <= now + (IF early THEN connect_interval ELSE 0)
    /\ Slots >= 2 => window.from + (Slots - 2) * connect_interval <= last_packet
    /\ pc = "sleep" /\ window.sent > 0 => window.from <= last_packet + connect_interval

\* The reports have told what was kept as last; a connection made at once has had
\* its event and not yet its result.
MadeAtOnce == IF pc \in {"stats", "metrics", "result"} /\ got = "made" THEN 1 ELSE 0

StatsInv ==
    /\ told.events = last.events /\ told.results = last.results
    /\ last.results <= last.events
    /\ counts.results + MadeAtOnce <= counts.events
    /\ pc = "stats" => told.calls + 1 = counts.packets \div stats_every

\* errno is only lost to a write that failed.
ErrnoInv == errno = "lost" => output = "failed"

-----------------------------------------------------------------------------
(* Lemmas about the helpers.                                               *)

\* What a record of metrics.c adds to one of the counts.
Adds(added, r) == IF r \in DOMAIN added THEN added[r] ELSE 0

\* A record changes every count by what it adds to it, and nothing else.
LEMMA MevFields ==
    ASSUME TypeOK, NEW added, mev(added)
    PROVE  metrics' = [packet   |-> metrics.packet   + Adds(added, "packet"),
                       ret      |-> metrics.ret      + Adds(added, "ret"),
                       delta    |-> metrics.delta    + Adds(added, "delta"),
                       epoll    |-> metrics.epoll    + Adds(added, "epoll"),
                       sendinfo |-> metrics.sendinfo + Adds(added, "sendinfo"),
                       delinfo  |-> metrics.delinfo  + Adds(added, "delinfo")]
  <1>1. DOMAIN metrics = {"packet", "ret", "delta", "epoll", "sendinfo", "delinfo"}
    BY DEF TypeOK
  <1> QED
    BY <1>1 DEF mev, Adds

\* mev_packet and mev_ret, for a packet.
LEMMA MevPacket ==
    ASSUME TypeOK, NEW n \in Nat, mev([packet |-> 1, ret |-> n])
    PROVE  metrics' = [packet |-> metrics.packet + 1, ret |-> metrics.ret + n,
                       delta |-> metrics.delta, epoll |-> metrics.epoll,
                       sendinfo |-> metrics.sendinfo, delinfo |-> metrics.delinfo]
  <1> DEFINE a == [packet |-> 1, ret |-> n]
  <1>1. /\ Adds(a, "packet") = 1
        /\ Adds(a, "ret") = n
        /\ Adds(a, "delta") = 0
        /\ Adds(a, "epoll") = 0
        /\ Adds(a, "sendinfo") = 0
        /\ Adds(a, "delinfo") = 0
    BY DEF Adds
  <1> HIDE DEF a
  <1>2. mev(a)
    BY DEF a
  <1> QED
    BY <1>1, <1>2, MevFields DEF TypeOK

\* mev_ret, for an event.
LEMMA MevRet ==
    ASSUME TypeOK, mev([ret |-> 1])
    PROVE  metrics' = [packet |-> metrics.packet, ret |-> metrics.ret + 1,
                       delta |-> metrics.delta, epoll |-> metrics.epoll,
                       sendinfo |-> metrics.sendinfo, delinfo |-> metrics.delinfo]
  <1> DEFINE a == [ret |-> 1]
  <1>1. /\ Adds(a, "packet") = 0
        /\ Adds(a, "ret") = 1
        /\ Adds(a, "delta") = 0
        /\ Adds(a, "epoll") = 0
        /\ Adds(a, "sendinfo") = 0
        /\ Adds(a, "delinfo") = 0
    BY DEF Adds
  <1> HIDE DEF a
  <1>2. mev(a)
    BY DEF a
  <1> QED
    BY <1>1, <1>2, MevFields DEF TypeOK

\* mev_sendinfo and mev_epoll.
LEMMA MevEpoll ==
    ASSUME TypeOK, NEW s \in Nat, NEW n \in Int, mev([sendinfo |-> s, epoll |-> n])
    PROVE  metrics' = [packet |-> metrics.packet, ret |-> metrics.ret,
                       delta |-> metrics.delta, epoll |-> metrics.epoll + n,
                       sendinfo |-> metrics.sendinfo + s, delinfo |-> metrics.delinfo]
  <1> DEFINE a == [sendinfo |-> s, epoll |-> n]
  <1>1. /\ Adds(a, "packet") = 0
        /\ Adds(a, "ret") = 0
        /\ Adds(a, "delta") = 0
        /\ Adds(a, "epoll") = n
        /\ Adds(a, "sendinfo") = s
        /\ Adds(a, "delinfo") = 0
    BY DEF Adds
  <1> HIDE DEF a
  <1>2. mev(a)
    BY DEF a
  <1> QED
    BY <1>1, <1>2, MevFields DEF TypeOK

\* mev_delta and mev_delinfo, for a sweep.
LEMMA MevSweep ==
    ASSUME TypeOK, NEW n \in Nat, mev([delta |-> n, delinfo |-> n])
    PROVE  metrics' = [packet |-> metrics.packet, ret |-> metrics.ret,
                       delta |-> metrics.delta + n, epoll |-> metrics.epoll,
                       sendinfo |-> metrics.sendinfo, delinfo |-> metrics.delinfo + n]
  <1> DEFINE a == [delta |-> n, delinfo |-> n]
  <1>1. /\ Adds(a, "packet") = 0
        /\ Adds(a, "ret") = 0
        /\ Adds(a, "delta") = n
        /\ Adds(a, "epoll") = 0
        /\ Adds(a, "sendinfo") = 0
        /\ Adds(a, "delinfo") = n
    BY DEF Adds
  <1> HIDE DEF a
  <1>2. mev(a)
    BY DEF a
  <1> QED
    BY <1>1, <1>2, MevFields DEF TypeOK

\* connect() counts one packet, and an event if it is over at once.
LEMMA ConnectCounts ==
    ASSUME TypeOK, Connect
    PROVE  /\ got' \in Outcomes
           /\ counts' = [packets |-> counts.packets + 1,
                         events  |-> counts.events + (IF got' = "progress" THEN 0 ELSE 1),
                         results |-> counts.results]
  <1>1. PICK o \in Outcomes :
          /\ got' = o
          /\ counts' = [counts EXCEPT !.packets = @ + 1,
                                      !.events = IF AtOnce(o) THEN @ + 1 ELSE @]
    BY DEF Connect
  <1>2. CASE o = "progress"
    <2>1. counts' = [counts EXCEPT !.packets = counts.packets + 1, !.events = counts.events]
      BY <1>1, <1>2 DEF AtOnce
    <2>2. counts.events + 0 = counts.events
      BY DEF TypeOK
    <2> QED
      BY <1>1, <1>2, <2>1, <2>2 DEF TypeOK
  <1>3. CASE o # "progress"
    BY <1>1, <1>3 DEF AtOnce, TypeOK
  <1> QED
    BY <1>2, <1>3

\* An event counts once, and is one result at most.
LEMMA EventCounts ==
    ASSUME TypeOK, Event
    PROVE  \E n \in {0, 1} : counts' = [packets |-> counts.packets,
                                       events  |-> counts.events + 1,
                                       results |-> counts.results + n]
  BY DEF Event, TypeOK

\* One more packet completes a report's share exactly when the remainder is 0.
LEMMA NextReport ==
    ASSUME NEW n \in Nat
    PROVE  (n + 1) \div stats_every =
              n \div stats_every + (IF (n + 1) % stats_every = 0 THEN 1 ELSE 0)
  <1> DEFINE q == n \div stats_every
             p == (n + 1) \div stats_every
             r == n % stats_every
             s == (n + 1) % stats_every
  <1>1. /\ q \in Nat /\ p \in Nat /\ r \in 0 .. stats_every - 1 /\ s \in 0 .. stats_every - 1
        /\ n = stats_every * q + r /\ n + 1 = stats_every * p + s
    BY SendingAssumption
  <1> HIDE DEF q, p, r, s
  <1>2. stats_every \in Nat \ {0}
    BY SendingAssumption
  <1>3. stats_every * (p - q) = r + 1 - s
    BY <1>1, <1>2
  <1>4. p - q \in {0, 1}
    BY <1>1, <1>2, <1>3
  <1>5. CASE p - q = 0
    BY <1>1, <1>2, <1>3, <1>5
  <1>6. CASE p - q = 1
    BY <1>1, <1>2, <1>3, <1>6
  <1> QED
    BY <1>1, <1>4, <1>5, <1>6 DEF q, p, s

-----------------------------------------------------------------------------
(* Type correctness and room for the socket.                               *)

\* No step takes a variable out of its type: the number of sockets stays within the
\* array and the ports within the retries.
LEMMA TypeStep ==
    ASSUME TypeOK, RoomInv, [Next]_vars
    PROVE  TypeOK' /\ RoomInv'
  <1> USE SendingAssumption DEF TypeOK, RoomInv, Trying, Goto, clock, tally, tries, Outcomes
  <1>1. CASE Top
    BY <1>1 DEF Top
  <1>2. CASE Check
    BY <1>2 DEF Check
  <1>3. CASE Wake
    BY <1>3 DEF Wake
  <1>4. CASE SetupFails
    BY <1>4 DEF SetupFails
  <1>5. CASE Bound
    BY <1>5 DEF Bound
  <1>6. CASE PortInUse
    BY <1>6 DEF PortInUse, BindsMore
  <1>7. CASE Unbound
    BY <1>7 DEF Unbound
  <1>8. CASE Connect
    <2>1. /\ got' \in Outcomes
          /\ counts' \in [packets : Nat, events : Nat, results : Nat]
      BY <1>8, ConnectCounts
    <2>2. window' \in [from : Nat, sent : Nat]
      BY <1>8 DEF Connect
    <2> QED
      BY <1>8, <2>1, <2>2 DEF Connect
  <1>9. CASE print_stats
    BY <1>9 DEF print_stats, Report, Prints
  <1>10. CASE RecordPacket
    <2>1. mev([packet |-> 1, ret |-> IF AtOnce(got) THEN 1 ELSE 0])
      BY <1>10 DEF RecordPacket
    <2>2. (IF AtOnce(got) THEN 1 ELSE 0) \in Nat
      OBVIOUS
    <2>3. metrics' \in [packet : Nat, ret : Nat, delta : Nat,
                        epoll : Int, sendinfo : Nat, delinfo : Nat]
      BY <2>1, <2>2, MevPacket
    <2> QED
      BY <1>10, <2>3 DEF RecordPacket, Prints
  <1>11. CASE Failed
    BY <1>11 DEF Failed
  <1>12. CASE SocketError
    BY <1>12 DEF SocketError
  <1>13. CASE Made
    BY <1>13 DEF Made
  <1>14. CASE Started
    BY <1>14 DEF Started
  <1>15. CASE EpollWait
    <2>1. nev' \in Nat /\ send_count \in Nat /\ mev([sendinfo |-> send_count, epoll |-> nev'])
      BY <1>15 DEF EpollWait
    <2>2. metrics' \in [packet : Nat, ret : Nat, delta : Nat,
                        epoll : Int, sendinfo : Nat, delinfo : Nat]
      BY <2>1, MevEpoll
    <2> QED
      BY <1>15, <2>2 DEF EpollWait
  <1>16. CASE Event
    <2>1. metrics' \in [packet : Nat, ret : Nat, delta : Nat,
                        epoll : Int, sendinfo : Nat, delinfo : Nat]
      BY <1>16, MevRet DEF Event
    <2>2. counts' \in [packets : Nat, events : Nat, results : Nat]
      BY <1>16, EventCounts
    <2> QED
      BY <1>16, <2>1, <2>2 DEF Event
  <1>17. CASE Sweep
    <2>1. PICK n \in 0 .. pending : /\ pending' = pending - n /\ swept' = swept + n
                                    /\ mev([delta |-> n, delinfo |-> n])
      BY <1>17 DEF Sweep
    <2>2. metrics' \in [packet : Nat, ret : Nat, delta : Nat,
                        epoll : Int, sendinfo : Nat, delinfo : Nat]
      BY <2>1, MevSweep
    <2> QED
      BY <1>17, <2>1, <2>2 DEF Sweep
  <1>18. CASE LastStats
    BY <1>18 DEF LastStats, Report, Prints
  <1>19. CASE Sigint
    <2>1. done' \in BOOLEAN /\ early' \in BOOLEAN /\ last_packet' \in Nat
      <3>1. done' = TRUE /\ (early' = TRUE \/ early' = early)
        BY <1>19 DEF Sigint
      <3>2. last_packet' \in Nat
        BY <1>19 DEF Sigint
      <3> QED
        BY <3>1, <3>2, Zenon
    <2>2. pc' = pc \/ (pc = "sleep" /\ pc' = "bind")
      BY <1>19 DEF Sigint
    <2>3. UNCHANGED <<now, window, tally, tries>>
      BY <1>19 DEF Sigint
    <2> QED
      BY <2>1, <2>2, <2>3
  <1>20. CASE Tick
    BY <1>20 DEF Tick
  <1>21. CASE Watch
    BY <1>21 DEF Watch
  <1>22. CASE UNCHANGED vars
    BY <1>22 DEF vars
  <1>23. CASE EpollInterrupted
    <2>1. /\ -1 \in Int /\ send_count \in Nat
          /\ mev([sendinfo |-> send_count, epoll |-> -1])
      BY <1>23 DEF EpollInterrupted
    <2>2. metrics' \in [packet : Nat, ret : Nat, delta : Nat,
                        epoll : Int, sendinfo : Nat, delinfo : Nat]
      BY <2>1, MevEpoll
    <2>3. done' \in BOOLEAN
      BY <1>23, Zenon DEF EpollInterrupted
    <2> QED
      BY <1>23, <2>2, <2>3 DEF EpollInterrupted
  <1> QED
    BY <1>1, <1>2, <1>3, <1>4, <1>5, <1>6, <1>7, <1>8, <1>9, <1>10, <1>11, <1>12, <1>13, <1>14,
       <1>15, <1>16, <1>17, <1>18, <1>19, <1>20, <1>21, <1>22, <1>23 DEF Next, ConnThread

-----------------------------------------------------------------------------
(* Pace.                                                                   *)

\* One more slot is one more interval.
LEMMA SlotApart ==
    ASSUME NEW k \in Int
    PROVE  /\ k * connect_interval \in Int
           /\ (k + 1) * connect_interval = k * connect_interval + connect_interval
  BY SendingAssumption

\* A step that neither touches the clock nor takes a slot keeps the pace; it may give
\* one up.
LEMMA PaceKept ==
    ASSUME TypeOK, TypeOK', PaceInv,
           UNCHANGED clock, done => done', Slot' <= Slot, pc' = "sleep" => pc = "sleep"
    PROVE  PaceInv'
  <1> USE DEF TypeOK, PaceInv, clock
  <1>1. Slots \in Nat /\ Slots' \in Nat /\ (Slots' = Slots \/ Slots' = Slots - 1)
    BY DEF Slots, Slot
  <1>2. ASSUME Slots' >= 2
        PROVE  window'.from + (Slots' - 2) * connect_interval <= last_packet'
    <2>1. CASE Slots' = Slots
      BY <1>1, <1>2, <2>1
    <2>2. CASE Slots' = Slots - 1
      <3> DEFINE m == Slots' - 2
      <3>1. m \in Int /\ Slots - 2 = m + 1
        BY <1>1, <2>2
      <3>2. (m + 1) * connect_interval = m * connect_interval + connect_interval
            /\ m * connect_interval \in Int
        BY <3>1, SlotApart
      <3>3. window.from + (m + 1) * connect_interval <= last_packet
        BY <1>1, <1>2, <2>2, <3>1
      <3> HIDE DEF m
      <3>4. window.from + m * connect_interval <= last_packet
        BY <3>2, <3>3, SendingAssumption
      <3> QED
        BY <3>4 DEF m
    <2> QED
      BY <1>1, <2>1, <2>2
  <1>3. early' => done'
    BY Zenon
  <1> QED
    BY <1>2, <1>3

\* A slot taken an interval behind the last one, or now, and behind the start of the
\* window if a packet has been sent in it.
LEMMA SlotTaken ==
    ASSUME TypeOK, TypeOK', PaceInv,
           UNCHANGED <<now, window>>, pc \in {"fill", "sleep"}, pc' = "bind",
           early' => done',
           last_packet' <= now + (IF early' THEN connect_interval ELSE 0),
           last_packet + connect_interval <= last_packet',
           window.sent > 0 => window.from <= last_packet'
    PROVE  PaceInv'
  <1> USE DEF TypeOK, PaceInv
  <1> DEFINE m == window.sent - 2
  <1>1. m \in Int /\ Slots = m + 2 /\ Slots' = (m + 1) + 2
    BY DEF Slots, Slot
  <1>2. (m + 1) * connect_interval = m * connect_interval + connect_interval
        /\ m * connect_interval \in Int
    BY <1>1, SlotApart
  <1>3. ASSUME Slots' >= 2
        PROVE  window'.from + (Slots' - 2) * connect_interval <= last_packet'
    <2>1. CASE m >= 0
      <3>1. window.from + m * connect_interval <= last_packet
        BY <1>1, <2>1
      <3> QED
        BY <1>1, <1>2, <3>1, SendingAssumption
    <2>2. CASE m = -1
      <3>1. (m + 1) * connect_interval = 0
        BY <2>2, SendingAssumption
      <3>2. window.from <= last_packet'
        BY <2>2
      <3> QED
        BY <1>1, <3>1, <3>2
    <2> QED
      BY <1>1, <1>3, <2>1, <2>2
  <1> QED
    BY <1>3

\* Every step keeps the pace: check_connect_interval and the end of its sleep take
\* slots, connect() turns one into a packet, and the observer starts anew.
LEMMA PaceStep ==
    ASSUME TypeOK, TypeOK', PaceInv, [Next]_vars
    PROVE  PaceInv'
  <1> USE SendingAssumption DEF Goto
  <1>1. CASE Check /\ pc' = "sleep"
    <2>1. Paces /\ UNCHANGED <<clock, done>> /\ pc = "fill"
      BY <1>1 DEF Check, clock
    <2>2. Slots' = Slots
      BY <1>1, <2>1 DEF Slots, Slot, clock
    <2>3. window'.from <= last_packet' + connect_interval
      BY <2>1 DEF Paces, PaceInv, clock, TypeOK
    <2> QED
      BY <2>1, <2>2, <2>3 DEF PaceInv, clock
  <1>2. CASE Check /\ pc' # "sleep"
    <2>1. /\ ~Paces /\ last_packet' = now /\ pc = "fill" /\ pc' = "bind"
          /\ UNCHANGED <<now, window, early, done>>
      BY <1>2 DEF Check
    <2>2. last_packet + connect_interval <= now
      BY <2>1 DEF Paces, PaceInv, TypeOK
    <2>3. early' => done'
      BY <2>1 DEF PaceInv
    <2>4. /\ last_packet' <= now + (IF early' THEN connect_interval ELSE 0)
          /\ last_packet + connect_interval <= last_packet'
          /\ window.sent > 0 => window.from <= last_packet'
      BY <2>1, <2>2 DEF PaceInv, TypeOK
    <2> QED
      BY <2>1, <2>3, <2>4, SlotTaken
  <1>3. CASE Wake
    <2>1. /\ last_packet' = last_packet + connect_interval /\ last_packet' <= now
          /\ pc = "sleep" /\ pc' = "bind" /\ UNCHANGED <<now, window, early, done>>
      BY <1>3 DEF Wake
    <2>2. early' => done'
      BY <2>1 DEF PaceInv
    <2>3. /\ last_packet' <= now + (IF early' THEN connect_interval ELSE 0)
          /\ last_packet + connect_interval <= last_packet'
          /\ window.sent > 0 => window.from <= last_packet'
      BY <2>1 DEF PaceInv, TypeOK
    <2> QED
      BY <2>1, <2>2, <2>3, SlotTaken
  <1>4. CASE Sigint /\ pc' = pc
    <2>1. UNCHANGED clock /\ done'
      BY <1>4 DEF Sigint, clock
    <2>2. Slot' = Slot
      BY <1>4 DEF Slot
    <2> QED
      BY <1>4, <2>1, <2>2, PaceKept DEF Slot
  <1>5. CASE Sigint /\ pc' # pc
    <2>1. /\ last_packet' = last_packet + connect_interval /\ early'
          /\ ~done /\ done' /\ pc = "sleep" /\ pc' = "bind" /\ UNCHANGED <<now, window>>
      BY <1>5 DEF Sigint
    <2>2. ~early
      BY <2>1 DEF PaceInv
    <2>3. last_packet <= now /\ (window.sent > 0 => window.from <= last_packet')
      BY <2>1, <2>2 DEF PaceInv, TypeOK
    <2>4. last_packet' <= now + (IF early' THEN connect_interval ELSE 0)
      BY <2>1, <2>3 DEF TypeOK
    <2>5. last_packet + connect_interval <= last_packet'
      BY <2>1 DEF TypeOK
    <2> QED
      BY <2>1, <2>3, <2>4, <2>5, SlotTaken
  <1>6. CASE Connect
    <2>1. /\ UNCHANGED <<now, last_packet, early, done>> /\ window'.from = window.from
          /\ pc' # "sleep"
      BY <1>6 DEF Connect, TypeOK
    <2>2. Slots' = Slots
      BY <1>6 DEF Connect, TypeOK, Slots, Slot
    <2> QED
      BY <2>1, <2>2 DEF PaceInv
  <1>7. CASE Tick
    <2>1. UNCHANGED <<last_packet, early, done, window, pc>> /\ now' = now + 1
      BY <1>7 DEF Tick
    <2>2. Slots' = Slots
      BY <2>1 DEF Slots, Slot
    <2> QED
      BY <2>1, <2>2 DEF PaceInv, TypeOK
  <1>8. CASE Watch
    <2>1. /\ UNCHANGED <<now, last_packet, early, done, pc>>
          /\ window'.from = now /\ window'.sent = 0
      BY <1>8 DEF Watch
    <2>2. Slots' < 2
      BY <2>1 DEF Slots, Slot
    <2>3. window'.from <= now' /\ window'.from <= now /\ ~(window'.sent > 0) /\ ~(Slots' >= 2)
      BY <2>1, <2>2 DEF TypeOK, Slots, Slot
    <2> QED
      BY <2>1, <2>3 DEF PaceInv
  <1>9. CASE Bound \/ PortInUse \/ Unbound \/ SetupFails
    <2>1. UNCHANGED <<clock, done>> /\ pc = "bind" /\ pc' \in {"bind", "connect", "dead"}
      BY <1>9 DEF Bound, PortInUse, Unbound, SetupFails
    <2> QED
      BY <2>1, PaceKept DEF Slot
  <1>10. CASE \/ Top \/ print_stats \/ RecordPacket \/ Failed \/ SocketError \/ Made
              \/ Started \/ EpollWait \/ Event \/ Sweep \/ LastStats
    <2>1. /\ UNCHANGED <<clock, done>>
          /\ pc' \notin {"sleep", "bind", "connect"}
      BY <1>10 DEF Top, print_stats, RecordPacket, Failed, SocketError, Made, Started,
                   EpollWait, Event, Sweep, LastStats
    <2> QED
      BY <2>1, PaceKept DEF Slot
  <1>11. CASE UNCHANGED vars
    <2>1. UNCHANGED <<clock, done, pc>>
      BY <1>11 DEF vars
    <2> QED
      BY <2>1, PaceKept DEF Slot
  <1>12. CASE EpollInterrupted
    <2>1. UNCHANGED clock /\ pc = "fill" /\ pc' = "events"
      BY <1>12 DEF EpollInterrupted
    <2>2. done => done'
      BY <1>12, Zenon DEF EpollInterrupted
    <2> QED
      BY <2>1, <2>2, PaceKept DEF Slot
  <1> QED
    BY <1>1, <1>2, <1>3, <1>4, <1>5, <1>6, <1>7, <1>8, <1>9, <1>10, <1>11, <1>12
       DEF Next, ConnThread

-----------------------------------------------------------------------------
(* Counting.                                                               *)

\* No step loses an attempt or counts it twice.
LEMMA AccountStep ==
    ASSUME TypeOK, RoomInv, AttemptsAreAccounted, [Next]_vars
    PROVE  AttemptsAreAccounted'
  <1> USE SendingAssumption DEF TypeOK, RoomInv, Trying, AttemptsAreAccounted, InFlight,
                               Unhandled, Outcomes, Goto, clock, tally, tries
  <1>1. CASE Top
    BY <1>1 DEF Top
  <1>2. CASE Check \/ Wake \/ Sigint \/ Tick \/ Watch
    BY <1>2 DEF Check, Wake, Sigint, Tick, Watch
  <1>3. CASE SetupFails \/ Bound \/ PortInUse \/ Unbound
    BY <1>3 DEF SetupFails, Bound, PortInUse, Unbound
  <1>4. CASE Connect
    <2>1. /\ pc = "connect" /\ pc' \in {"stats", "metrics"}
          /\ UNCHANGED <<pending, swept, nev, interrupts, send_count, metrics>>
      BY <1>4 DEF Connect
    <2>2. /\ got' \in Outcomes
          /\ counts'.packets = counts.packets + 1
          /\ counts'.events = counts.events + (IF got' = "progress" THEN 0 ELSE 1)
      BY <1>4, ConnectCounts
    <2> QED
      BY <2>1, <2>2
  <1>5. CASE print_stats \/ LastStats
    BY <1>5 DEF print_stats, LastStats, Prints
  <1>6. CASE RecordPacket
    <2>1. mev([packet |-> 1, ret |-> IF got = "progress" THEN 0 ELSE 1])
      BY <1>6 DEF RecordPacket, AtOnce
    <2>2. /\ metrics'.packet = metrics.packet + 1
          /\ metrics'.ret = metrics.ret + (IF got = "progress" THEN 0 ELSE 1)
          /\ metrics'.delta = metrics.delta /\ metrics'.epoll = metrics.epoll
          /\ metrics'.sendinfo = metrics.sendinfo /\ metrics'.delinfo = metrics.delinfo
      BY <2>1, MevPacket
    <2>3. /\ pc = "metrics" /\ pc' = "result"
          /\ UNCHANGED <<counts, pending, swept, nev, interrupts, send_count, got>>
      BY <1>6 DEF RecordPacket
    <2> QED
      BY <2>2, <2>3
  <1>7. CASE Failed \/ SocketError
    BY <1>7 DEF Failed, SocketError
  <1>8. CASE Made
    BY <1>8 DEF Made
  <1>9. CASE Started
    BY <1>9 DEF Started
  <1>10. CASE EpollWait
    <2>1. /\ nev' \in Nat /\ send_count \in Nat
          /\ mev([sendinfo |-> send_count, epoll |-> nev'])
      BY <1>10 DEF EpollWait
    <2>2. /\ metrics'.packet = metrics.packet /\ metrics'.ret = metrics.ret
          /\ metrics'.delta = metrics.delta /\ metrics'.epoll = metrics.epoll + nev'
          /\ metrics'.sendinfo = metrics.sendinfo + send_count
          /\ metrics'.delinfo = metrics.delinfo
      BY <2>1, MevEpoll
    <2>3. /\ pc = "fill" /\ pc' = "events"
          /\ UNCHANGED <<counts, pending, swept, interrupts, send_count, got>>
      BY <1>10 DEF EpollWait
    <2> QED
      BY <2>1, <2>2, <2>3
  <1>11. CASE Event
    <2>1. mev([ret |-> 1])
      BY <1>11 DEF Event
    <2>2. /\ metrics'.packet = metrics.packet /\ metrics'.ret = metrics.ret + 1
          /\ metrics'.delta = metrics.delta /\ metrics'.epoll = metrics.epoll
          /\ metrics'.sendinfo = metrics.sendinfo /\ metrics'.delinfo = metrics.delinfo
      BY <2>1, MevRet
    <2>3. counts'.packets = counts.packets /\ counts'.events = counts.events + 1
      BY <1>11, EventCounts
    <2>4. /\ pc = "events" /\ pc' = "events" /\ pending' = pending - 1 /\ nev' = nev - 1
          /\ nev > 0 /\ UNCHANGED <<swept, interrupts, send_count, got>>
      BY <1>11 DEF Event
    <2> QED
      BY <2>2, <2>3, <2>4
  <1>12. CASE Sweep
    <2>1. PICK n \in 0 .. pending : /\ pending' = pending - n /\ swept' = swept + n
                                    /\ mev([delta |-> n, delinfo |-> n])
      BY <1>12 DEF Sweep
    <2>2. n \in Nat
      BY <2>1
    <2>3. /\ metrics'.packet = metrics.packet /\ metrics'.ret = metrics.ret
          /\ metrics'.delta = metrics.delta + n /\ metrics'.epoll = metrics.epoll
          /\ metrics'.sendinfo = metrics.sendinfo /\ metrics'.delinfo = metrics.delinfo + n
      BY <2>1, <2>2, MevSweep
    <2>4. /\ pc = "events" /\ pc' = "top"
          /\ UNCHANGED <<counts, nev, interrupts, send_count, got>>
      BY <1>12 DEF Sweep
    <2> QED
      BY <2>1, <2>2, <2>3, <2>4
  <1>13. CASE UNCHANGED vars
    BY <1>13 DEF vars
  <1>14. CASE EpollInterrupted
    <2>1. /\ -1 \in Int /\ send_count \in Nat
          /\ mev([sendinfo |-> send_count, epoll |-> -1])
      BY <1>14 DEF EpollInterrupted
    <2>2. /\ metrics'.packet = metrics.packet /\ metrics'.ret = metrics.ret
          /\ metrics'.delta = metrics.delta /\ metrics'.epoll = metrics.epoll - 1
          /\ metrics'.sendinfo = metrics.sendinfo + send_count
          /\ metrics'.delinfo = metrics.delinfo
      BY <2>1, MevEpoll
    <2>3. /\ pc = "fill" /\ pc' = "events" /\ nev' = -1 /\ interrupts' = interrupts + 1
          /\ UNCHANGED <<counts, pending, swept, send_count, got>>
      BY <1>14 DEF EpollInterrupted
    <2> QED
      BY <2>2, <2>3
  <1> QED
    BY <1>1, <1>2, <1>3, <1>4, <1>5, <1>6, <1>7, <1>8, <1>9, <1>10, <1>11, <1>12, <1>13, <1>14
       DEF Next, ConnThread

\* A report tells what is new since the last one.
LEMMA ReportTells ==
    ASSUME TypeOK, StatsInv, Report
    PROVE  /\ told'.calls = told.calls + 1
           /\ told'.events = counts.events /\ told'.results = counts.results
           /\ last'.events = counts.events /\ last'.results = counts.results
  BY DEF TypeOK, StatsInv, Report

\* The reports keep adding up.
LEMMA StatsStep ==
    ASSUME TypeOK, StatsInv, StatsAddUp, [Next]_vars
    PROVE  StatsInv' /\ StatsAddUp'
  <1> USE SendingAssumption DEF TypeOK, Goto, clock, tally, tries
  <1>1. CASE Connect
    <2>1. /\ got' \in Outcomes
          /\ counts'.packets = counts.packets + 1
          /\ counts'.events = counts.events + (IF got' = "progress" THEN 0 ELSE 1)
          /\ counts'.results = counts.results
      BY <1>1, ConnectCounts
    <2>2. /\ pc = "connect" /\ UNCHANGED <<told, last>>
          /\ pc' = IF (counts.packets + 1) % stats_every = 0 THEN "stats" ELSE "metrics"
      BY <1>1 DEF Connect
    <2>3. counts'.packets \div stats_every =
              counts.packets \div stats_every + (IF pc' = "stats" THEN 1 ELSE 0)
      BY <2>1, <2>2, NextReport
    <2>4. counts.packets \div stats_every \in Int
      BY SendingAssumption
    <2> QED
      BY <2>1, <2>2, <2>3, <2>4 DEF StatsInv, StatsAddUp, MadeAtOnce
  <1>2. CASE print_stats
    <2>1. /\ told'.calls = told.calls + 1
          /\ told'.events = counts.events /\ told'.results = counts.results
          /\ last'.events = counts.events /\ last'.results = counts.results
      BY <1>2, ReportTells DEF print_stats
    <2>2. pc = "stats" /\ pc' = "metrics" /\ UNCHANGED <<counts, got>>
      BY <1>2 DEF print_stats
    <2> QED
      BY <2>1, <2>2 DEF StatsInv, StatsAddUp, MadeAtOnce
  <1>3. CASE LastStats
    <2>1. /\ told'.calls = told.calls + 1
          /\ told'.events = counts.events /\ told'.results = counts.results
          /\ last'.events = counts.events /\ last'.results = counts.results
      BY <1>3, ReportTells DEF LastStats
    <2>2. pc = "stop" /\ pc' = "end" /\ UNCHANGED <<counts, got>>
      BY <1>3 DEF LastStats
    <2> QED
      BY <2>1, <2>2 DEF StatsInv, StatsAddUp, MadeAtOnce
  <1>4. CASE Made
    <2>1. /\ counts'.packets = counts.packets /\ counts'.events = counts.events
          /\ counts'.results = counts.results + 1
      BY <1>4 DEF Made
    <2>2. pc = "result" /\ got = "made" /\ pc' = "fill" /\ UNCHANGED <<told, last>>
      BY <1>4 DEF Made
    <2> QED
      BY <2>1, <2>2 DEF StatsInv, StatsAddUp, MadeAtOnce
  <1>5. CASE Event
    <2>1. PICK n \in {0, 1} : counts' = [packets |-> counts.packets,
                                        events  |-> counts.events + 1,
                                        results |-> counts.results + n]
      BY <1>5, EventCounts
    <2>2. pc = "events" /\ pc' = "events" /\ UNCHANGED <<told, last>>
      BY <1>5 DEF Event
    <2> QED
      BY <2>1, <2>2 DEF StatsInv, StatsAddUp, MadeAtOnce
  <1>6. CASE \/ Top \/ Check \/ Wake \/ SetupFails \/ Bound \/ PortInUse \/ Unbound
             \/ RecordPacket \/ Failed \/ SocketError \/ Started \/ EpollWait
             \/ EpollInterrupted \/ Sweep \/ Sigint \/ Tick \/ Watch \/ UNCHANGED vars
    <2>1. UNCHANGED <<counts, told, last, got>>
      BY <1>6 DEF Top, Check, Wake, SetupFails, Bound, PortInUse, Unbound, RecordPacket,
                  Failed, SocketError, Started, EpollWait, EpollInterrupted, Sweep, Sigint,
                  Tick, Watch, vars
    <2>2. /\ pc' = "stats" <=> pc = "stats"
          /\ pc' = "end" <=> pc = "end"
          /\ pc' \in {"metrics", "result"} => pc \in {"metrics", "result"}
      BY <1>6 DEF Top, Check, Wake, SetupFails, Bound, PortInUse, Unbound, RecordPacket,
                  Failed, SocketError, Started, EpollWait, EpollInterrupted, Sweep, Sigint,
                  Tick, Watch, vars
    <2>3. MadeAtOnce' <= MadeAtOnce /\ MadeAtOnce \in Int /\ MadeAtOnce' \in Int
      BY <2>1, <2>2 DEF MadeAtOnce
    <2> QED
      BY <2>1, <2>2, <2>3 DEF StatsInv, StatsAddUp
  <1> QED
    BY <1>1, <1>2, <1>3, <1>4, <1>5, <1>6 DEF Next, ConnThread

\* errno is connect()'s again with every packet, and lost only to a failed write.
LEMMA ErrnoStep ==
    ASSUME ErrnoInv, [Next]_vars
    PROVE  ErrnoInv'
  <1> USE DEF ErrnoInv, tries
  <1>1. CASE Connect
    BY <1>1 DEF Connect
  <1>2. CASE print_stats \/ RecordPacket \/ LastStats
    BY <1>2 DEF print_stats, RecordPacket, LastStats, Prints
  <1>3. CASE \/ Top \/ Check \/ Wake \/ SetupFails \/ Bound \/ PortInUse \/ Unbound
             \/ Failed \/ SocketError \/ Made \/ Started \/ EpollWait
             \/ EpollInterrupted \/ Event \/ Sweep \/ Sigint \/ Tick \/ Watch \/ UNCHANGED vars
    BY <1>3 DEF Top, Check, Wake, SetupFails, Bound, PortInUse, Unbound, Failed, SocketError,
                Made, Started, EpollWait, EpollInterrupted, Event, Sweep, Sigint, Tick, Watch,
                vars
  <1> QED
    BY <1>1, <1>2, <1>3 DEF Next, ConnThread

-----------------------------------------------------------------------------
(* The theorems.                                                           *)

SendingInv == TypeOK /\ RoomInv /\ PaceInv /\ AttemptsAreAccounted
                     /\ StatsInv /\ StatsAddUp /\ ErrnoInv

\* Before the first packet there is nothing to count, and no slot.
LEMMA SendingInvInit == Init => SendingInv
  <1> SUFFICES ASSUME Init
               PROVE  SendingInv
    OBVIOUS
  <1> USE SendingAssumption DEF Init
  <1>1. bind_port \in Nat /\ to_bind_port \in bind_port .. bind_port + bind_max_retries
    OBVIOUS
  <1>2. TypeOK
    <2>1. done \in BOOLEAN /\ early \in BOOLEAN
      BY Zenon
    <2>2. /\ window \in [from : Nat, sent : Nat]
          /\ counts \in [packets : Nat, events : Nat, results : Nat]
      OBVIOUS
    <2>3. /\ last \in [events : Nat, results : Nat]
          /\ told \in [calls : Nat, events : Int, results : Int]
          /\ metrics \in [packet : Nat, ret : Nat, delta : Nat,
                          epoll : Int, sendinfo : Nat, delinfo : Nat]
      OBVIOUS
    <2> QED
      BY <1>1, <2>1, <2>2, <2>3 DEF TypeOK, Outcomes
  <1>3. RoomInv /\ ErrnoInv
    BY DEF RoomInv, ErrnoInv, Trying
  <1>4. Slots = 0
    BY DEF Slots, Slot
  <1>5. PaceInv
    BY <1>4 DEF PaceInv
  <1>6. AttemptsAreAccounted
    BY DEF AttemptsAreAccounted, InFlight, Unhandled
  <1>7. 0 \div stats_every = 0
    OBVIOUS
  <1>8. StatsInv /\ StatsAddUp
    BY <1>7 DEF StatsInv, StatsAddUp, MadeAtOnce
  <1> QED
    BY <1>2, <1>3, <1>5, <1>6, <1>8 DEF SendingInv

\* The conjunction is inductive.
LEMMA SendingInvariant == Spec => []SendingInv
  <1>1. SendingInv /\ [Next]_vars => SendingInv'
    <2> SUFFICES ASSUME SendingInv, [Next]_vars
                 PROVE  SendingInv'
      OBVIOUS
    <2>1. /\ TypeOK /\ RoomInv /\ PaceInv /\ AttemptsAreAccounted
          /\ StatsInv /\ StatsAddUp /\ ErrnoInv
      BY DEF SendingInv
    <2>2. TypeOK' /\ RoomInv'
      BY <2>1, TypeStep
    <2>3. PaceInv' /\ AttemptsAreAccounted' /\ StatsInv' /\ StatsAddUp' /\ ErrnoInv'
      BY <2>1, <2>2, PaceStep, AccountStep, StatsStep, ErrnoStep
    <2> QED
      BY <2>2, <2>3 DEF SendingInv
  <1> QED
    BY <1>1, SendingInvInit, PTL DEF Spec

(* Type correctness: the sockets of a pass never outgrow the array of      *)
(* max_pending_sockets, and try_connect never binds a port beyond the      *)
(* bind_max_retries it is allowed.                                         *)
THEOREM TypeCorrect == Spec => []TypeOK
  <1>1. SendingInv => TypeOK
    BY DEF SendingInv
  <1> QED
    BY <1>1, SendingInvariant, PTL

(* check_connect_interval keeps the rate in every interval of time, for    *)
(* every connect_interval and however long anything takes.                 *)
THEOREM PaceIsKept == Spec => []PacedInEveryWindow
  <1>1. SendingInv => PacedInEveryWindow
    <2> SUFFICES ASSUME SendingInv
                 PROVE  PacedInEveryWindow
      OBVIOUS
    <2> USE SendingAssumption
    <2> DEFINE e == IF early THEN 1 ELSE 0
               m == window.sent - 2
    <2>1. TypeOK /\ PaceInv
      BY DEF SendingInv
    <2>2. e \in {0, 1} /\ m \in Int
      BY <2>1 DEF TypeOK
    <2>3. (m - 1) * connect_interval = m * connect_interval - connect_interval
          /\ m * connect_interval \in Int
      BY <2>2, SlotApart
    <2>4. (m - e) * connect_interval
             = m * connect_interval - (IF early THEN connect_interval ELSE 0)
      BY <2>2, <2>3
    <2>5. m * connect_interval - (IF early THEN connect_interval ELSE 0) <= now - window.from
      <3>1. CASE m < 0
        <4>1. m * connect_interval <= 0
          BY <2>2, <3>1
        <4> QED
          BY <2>1, <2>3, <4>1 DEF PaceInv, TypeOK
      <3>2. CASE m >= 0 /\ Slot = 0
        <4>1. Slots >= 2 /\ Slots - 2 = m
          BY <2>1, <3>2 DEF Slots, TypeOK
        <4>2. window.from + m * connect_interval <= last_packet
          BY <2>1, <4>1 DEF PaceInv
        <4> QED
          BY <2>1, <2>3, <4>2 DEF PaceInv, TypeOK
      <3>3. CASE m >= 0 /\ Slot = 1
        <4>1. Slots >= 2 /\ Slots - 2 = m + 1
          BY <2>1, <3>3 DEF Slots, TypeOK
        <4>2. window.from + (m + 1) * connect_interval <= last_packet
          BY <2>1, <4>1 DEF PaceInv
        <4>3. (m + 1) * connect_interval = m * connect_interval + connect_interval
          BY <2>2, SlotApart
        <4> QED
          BY <2>1, <2>3, <4>2, <4>3 DEF PaceInv, TypeOK
      <3> QED
        BY <2>2, <3>1, <3>2, <3>3 DEF Slot
    <2>6. window.sent - 2 - (IF early THEN 1 ELSE 0) = m - e
      BY <2>1
    <2> QED
      BY <2>4, <2>5, <2>6 DEF PacedInEveryWindow
  <1> QED
    BY <1>1, SendingInvariant, PTL

(* Every packet is accounted for once, by print_stats and by metrics.c     *)
(* alike, however many sockets may be pending.                             *)
THEOREM AttemptsAlwaysAccounted == Spec => []AttemptsAreAccounted
  <1>1. SendingInv => AttemptsAreAccounted
    BY DEF SendingInv
  <1> QED
    BY <1>1, SendingInvariant, PTL

(* The reports of print_stats add up to the counters, for every interval   *)
(* between two of them.                                                    *)
THEOREM StatsAlwaysAddUp == Spec => []StatsAddUp
  <1>1. SendingInv => StatsAddUp
    BY DEF SendingInv
  <1> QED
    BY <1>1, SendingInvariant, PTL

(* While what is printed is written, no step of print_stats, metrics.c or  *)
(* the look at errno behind them ends the scan for a clash of ports.       *)
THEOREM ClashAlwaysTolerated == Spec => ClashIsTolerated
  <1>1. ASSUME SendingInv, [Next]_vars, got = "clash", pc \in {"stats", "metrics", "result"},
               output' = "works"
        PROVE  pc' # "dead"
    <2>1. ErrnoInv
      BY <1>1 DEF SendingInv
    <2>2. CASE SocketError
      BY <1>1, <2>1, <2>2 DEF SocketError, ErrnoInv, tries
    <2>3. CASE ~SocketError
      BY <1>1, <2>3
         DEF Next, ConnThread, Goto, vars, Top, Check, Wake, SetupFails, Bound, PortInUse,
             Unbound, Connect, print_stats, RecordPacket, Failed, Made, Started, EpollWait,
             EpollInterrupted, Event, Sweep, LastStats, Sigint, Tick, Watch
    <2> QED
      BY <2>2, <2>3
  <1>2. SendingInv /\ [Next]_vars
           => [got = "clash" /\ pc \in {"stats", "metrics", "result"} /\ output' = "works"
                 => pc' # "dead"]_vars
    BY <1>1
  <1> QED
    BY <1>2, SendingInvariant, PTL DEF Spec, ClashIsTolerated
=============================================================================

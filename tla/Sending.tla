------------------------------ MODULE Sending ------------------------------
(***************************************************************************)
(* How fast conn_thread sends and what it counts: check_connect_interval,  *)
(* the binding and connecting of try_connect, the counters, print_stats    *)
(* and the records of metrics.c.  Which attempts are answered, and which   *)
(* are due in a sweep, is Scanner's matter and left open here.             *)
(*                                                                         *)
(* pc says where conn_thread is:                                           *)
(*   "top"      before the test of done          "events" behind epoll_wait *)
(*   "fill"     before check_connect_interval    "sleep"  in its usleep    *)
(*   "bind"     in the loop around bind          "connect" before connect  *)
(*   "stats"    before print_stats               "metrics" behind it       *)
(*   "result"   before the tests of sock         "stop"   behind the loop  *)
(*   "end"      behind the last print_stats      "dead"   ended by err()   *)
(***************************************************************************)
EXTENDS Integers

CONSTANTS
    connect_interval,       \* in ticks of the model's clock; 0 for none
    max_pending_sockets,
    stats_every,
    bind_max_retries,
    BindPorts,              \* the values bind_port may have
    BindIp,                 \* whether bind_ip_n is set
    MaxTime, MaxPackets, MaxInterrupts     \* bounds

ASSUME SendingAssumption ==
    /\ connect_interval \in Nat /\ bind_max_retries \in Nat
    /\ max_pending_sockets \in Nat \ {0} /\ stats_every \in Nat \ {0}
    /\ BindPorts \subseteq Nat /\ BindIp \in BOOLEAN
    /\ MaxTime \in Nat /\ MaxPackets \in Nat /\ MaxInterrupts \in Nat

VARIABLES
    now,            \* get_us()
    last_packet,
    done,
    early,          \* whether SIGINT cut a usleep short
    pc,
    bind_port, to_bind_port,
    got,            \* what came of connect(): "progress", "made", "refused";
                    \* "clash" and "error" are both -2, told apart by errno
    errno,          \* whether errno is still connect()'s: "kept" or "lost"
    output,         \* whether a write to stderr or the file has failed
    pending,        \* sockets.num_sockets
    swept,          \* attempts closed as timed out
    counts,         \* packets_sent, event_count, result_count
    last,           \* last_event_count, last_result_count
    told,           \* log_stats: calls, and the sums of the numbers in them
    nev,            \* events of the batch that are not handled yet; -1 when
                    \* epoll_wait was interrupted
    interrupts,     \* how often it was
    send_count,     \* attempts begun in this pass
    metrics,        \* what metrics.c has written: how many mev_packet, mev_ret
                    \* and mev_delta, and the sums of the counts in mev_epoll,
                    \* mev_sendinfo and mev_delinfo
    window          \* an interval of time begun somewhere: its start, and
                    \* the packets sent in it

clock == <<now, last_packet, early, window>>
tally == <<counts, last, told, metrics, pending, swept, nev, interrupts, send_count>>
tries == <<bind_port, to_bind_port, got, errno, output>>
vars == <<clock, tally, tries, done, pc>>

Outcomes == {"progress", "made", "refused", "clash", "error"}

TypeOK ==
    /\ now \in Nat /\ last_packet \in Nat
    /\ done \in BOOLEAN /\ early \in BOOLEAN
    /\ pc \in {"top", "fill", "sleep", "bind", "connect", "stats", "metrics",
               "result", "events", "stop", "end", "dead"}
    /\ bind_port \in BindPorts
    /\ to_bind_port \in bind_port .. bind_port + bind_max_retries
    /\ got \in Outcomes /\ errno \in {"kept", "lost"} /\ output \in {"works", "failed"}
    /\ pending \in 0 .. max_pending_sockets /\ swept \in Nat
    /\ counts \in [packets : Nat, events : Nat, results : Nat]
    /\ last \in [events : Nat, results : Nat]
    /\ told \in [calls : Nat, events : Int, results : Int]
    /\ nev \in -1 .. pending /\ interrupts \in Nat /\ send_count \in 0 .. max_pending_sockets
    /\ metrics \in [packet : Nat, ret : Nat, delta : Nat,
                    epoll : Int, sendinfo : Nat, delinfo : Nat]
    /\ window \in [from : Nat, sent : Nat]

\* The clock counts from the start of the system, last_packet from 0.
Init ==
    /\ now = connect_interval /\ last_packet = 0
    /\ done = FALSE /\ early = FALSE
    /\ pc = "top"
    /\ bind_port \in BindPorts /\ to_bind_port = bind_port
    /\ got = "refused" /\ errno = "kept" /\ output = "works"
    /\ pending = 0 /\ swept = 0
    /\ counts = [packets |-> 0, events |-> 0, results |-> 0]
    /\ last = [events |-> 0, results |-> 0]
    /\ told = [calls |-> 0, events |-> 0, results |-> 0]
    /\ nev = 0 /\ interrupts = 0 /\ send_count = 0
    /\ metrics = [packet |-> 0, ret |-> 0, delta |-> 0,
                  epoll |-> 0, sendinfo |-> 0, delinfo |-> 0]
    /\ window = [from |-> now, sent |-> 0]

Running == pc \notin {"end", "dead"}

Goto(where) == pc' = where

\* metrics.c: records, and counts in records, that are added.
mev(added) ==
    metrics' = [r \in DOMAIN metrics |->
                   metrics[r] + (IF r \in DOMAIN added THEN added[r] ELSE 0)]

Top == /\ pc = "top"
       /\ Goto(IF done THEN "stop" ELSE "fill")
       /\ send_count' = 0
       /\ UNCHANGED <<clock, counts, last, told, metrics, pending, swept, nev, interrupts,
                      tries, done>>

-----------------------------------------------------------------------------
(* check_connect_interval.                                                 *)

Paces == connect_interval > 0 /\ last_packet + connect_interval > now

Check ==
    /\ pc = "fill" /\ pending < max_pending_sockets /\ counts.packets < MaxPackets
    /\ \/ Paces /\ Goto("sleep") /\ UNCHANGED last_packet
       \/ ~Paces /\ Goto("bind") /\ last_packet' = now
    /\ to_bind_port' = bind_port
    /\ UNCHANGED <<now, early, window, tally, bind_port, got, errno, output, done>>

(* Mutant of Wake: the slot it slept for is not noted *)
WakeLosesSlot ==
    /\ pc = "sleep" /\ now >= last_packet + connect_interval
    /\ Goto("bind")
    /\ UNCHANGED <<clock, tally, tries, done>>

\* usleep returns no earlier than asked; the slot counts, not the time.
Wake ==
    /\ pc = "sleep" /\ now >= last_packet + connect_interval
    /\ last_packet' = last_packet + connect_interval
    /\ Goto("bind")
    /\ UNCHANGED <<now, early, window, tally, tries, done>>

-----------------------------------------------------------------------------
(* try_connect.                                                            *)

SetupFails == /\ pc = "bind" /\ to_bind_port = bind_port
              /\ Goto("dead")
              /\ UNCHANGED <<clock, tally, tries, done>>

BindsMore == /\ BindIp \/ bind_port # 0
             /\ to_bind_port < bind_port + bind_max_retries

Bound == /\ pc = "bind" /\ BindsMore
         /\ Goto("connect") \/ Goto("dead")
         /\ UNCHANGED <<clock, tally, tries, done>>

\* EADDRINUSE is logged; the next port, unless the kernel was to choose one.
PortInUse ==
    /\ pc = "bind" /\ BindsMore
    /\ IF to_bind_port # 0
       THEN to_bind_port' = to_bind_port + 1 /\ UNCHANGED pc
       ELSE Goto("connect") /\ UNCHANGED to_bind_port
    /\ UNCHANGED <<clock, tally, bind_port, got, errno, output, done>>

\* Nothing to bind to, or no port left: connect() takes any.
Unbound == /\ pc = "bind" /\ ~BindsMore
           /\ Goto("connect")
           /\ UNCHANGED <<clock, tally, tries, done>>

\* socket4_try_connect returned -2 or more.
AtOnce(o) == o # "progress"

\* connect, and the counting behind it.
Connect ==
    /\ pc = "connect"
    /\ \E o \in Outcomes :
        /\ got' = o
        /\ counts' = [counts EXCEPT !.packets = @ + 1,
                                    !.events = IF AtOnce(o) THEN @ + 1 ELSE @]
    /\ errno' = "kept"
    /\ Goto(IF (counts.packets + 1) % stats_every = 0 THEN "stats" ELSE "metrics")
    /\ window' = [window EXCEPT !.sent = @ + 1]
    /\ UNCHANGED <<now, last_packet, early, pending, swept, nev, interrupts, send_count,
                   last, told, metrics, bind_port, to_bind_port, output, done>>

(* Mutant of Report: the numbers of the last report are not kept *)
ReportTotals ==
    /\ told' = [calls |-> told.calls + 1,
                events |-> told.events + counts.events - last.events,
                results |-> told.results + counts.results - last.results]
    /\ UNCHANGED last

Report ==
    /\ told' = [calls |-> told.calls + 1,
                events |-> told.events + counts.events - last.events,
                results |-> told.results + counts.results - last.results]
    /\ last' = [events |-> counts.events, results |-> counts.results]

\* What is written may fail, for good; then errno is the failure's.
Prints == \/ output = "works" /\ UNCHANGED <<output, errno>>
          \/ output' = "failed" /\ errno' = "lost"

print_stats ==
    /\ pc = "stats"
    /\ Report /\ Prints
    /\ Goto("metrics")
    /\ UNCHANGED <<clock, counts, metrics, pending, swept, nev, interrupts, send_count,
                   bind_port, to_bind_port, got, done>>

\* mev_packet, and mev_ret for what is over already.
RecordPacket ==
    /\ pc = "metrics"
    /\ mev([packet |-> 1, ret |-> IF AtOnce(got) THEN 1 ELSE 0])
    /\ Prints
    /\ Goto("result")
    /\ UNCHANGED <<clock, counts, last, told, pending, swept, nev, interrupts, send_count,
                   bind_port, to_bind_port, got, done>>

\* -1, and a -2 that looks like a clash: nothing more to do.
Failed ==
    /\ pc = "result"
    /\ got = "refused" \/ (got = "clash" /\ errno = "kept")
    /\ Goto("fill")
    /\ UNCHANGED <<clock, tally, tries, done>>

(* Mutant of SocketError: a clash is an error like another *)
SocketErrorAny ==
    /\ pc = "result" /\ got \in {"clash", "error"}
    /\ Goto("dead")
    /\ UNCHANGED <<clock, tally, tries, done>>

SocketError ==
    /\ pc = "result"
    /\ got = "error" \/ (got = "clash" /\ errno = "lost")
    /\ Goto("dead")
    /\ UNCHANGED <<clock, tally, tries, done>>

Made ==
    /\ pc = "result" /\ got = "made"
    /\ counts' = [counts EXCEPT !.results = @ + 1]
    /\ Goto("fill")
    /\ UNCHANGED <<clock, metrics, last, told, pending, swept, nev, interrupts, send_count,
                   tries, done>>

\* The socket is listed and watched; or it is too big, or epoll_ctl fails.
Started ==
    /\ pc = "result" /\ got = "progress"
    /\ \/ pending' = pending + 1 /\ send_count' = send_count + 1 /\ Goto("fill")
       \/ UNCHANGED <<pending, send_count>> /\ Goto("dead")
    /\ UNCHANGED <<clock, metrics, last, told, counts, swept, nev, interrupts, tries, done>>

-----------------------------------------------------------------------------
(* The rest of conn_thread, and main behind it.                            *)

\* mev_sendinfo, epoll_wait and mev_epoll; no events after the timeout.
EpollWait ==
    /\ pc = "fill" /\ pending = max_pending_sockets
    /\ nev' \in 0 .. pending
    /\ mev([sendinfo |-> send_count, epoll |-> nev'])
    /\ Goto("events")
    /\ UNCHANGED <<clock, counts, last, told, pending, swept, interrupts, send_count,
                   tries, done>>

\* The same, with EINTR, which SA_RESTART does not change for epoll_wait: SIGINT
\* came, or the process was stopped and continued.  mev_epoll records the -1.
EpollInterrupted ==
    /\ pc = "fill" /\ pending = max_pending_sockets /\ interrupts < MaxInterrupts
    /\ nev' = -1 /\ interrupts' = interrupts + 1
    /\ done' \in {done, TRUE}
    /\ mev([sendinfo |-> send_count, epoll |-> -1])
    /\ Goto("events")
    /\ UNCHANGED <<clock, counts, last, told, pending, swept, send_count, tries>>

\* An event of a target, or of the canary, which is never a result.
Event ==
    /\ pc = "events" /\ nev > 0
    /\ \E results \in {0, 1} :
          counts' = [counts EXCEPT !.events = @ + 1, !.results = @ + results]
    /\ mev([ret |-> 1])
    /\ pending' = pending - 1 /\ nev' = nev - 1
    /\ UNCHANGED <<clock, last, told, swept, interrupts, send_count, tries, done, pc>>

(* Mutant of Sweep: an attempt that timed out is counted as an event, too *)
SweepCounts ==
    /\ pc = "events" /\ nev <= 0
    /\ \E n \in 0 .. pending :
          /\ pending' = pending - n /\ swept' = swept + n
          /\ mev([delta |-> n, delinfo |-> n])
          /\ counts' = [counts EXCEPT !.events = @ + n]
    /\ Goto("top")
    /\ UNCHANGED <<clock, last, told, nev, interrupts, send_count, tries, done>>

Sweep ==
    /\ pc = "events" /\ nev <= 0
    /\ \E n \in 0 .. pending :
          /\ pending' = pending - n /\ swept' = swept + n
          /\ mev([delta |-> n, delinfo |-> n])
    /\ Goto("top")
    /\ UNCHANGED <<clock, counts, last, told, nev, interrupts, send_count, tries, done>>

LastStats ==
    /\ pc = "stop"
    /\ Report /\ Prints
    /\ Goto("end")
    /\ UNCHANGED <<clock, counts, metrics, pending, swept, nev, interrupts, send_count,
                   bind_port, to_bind_port, got, done>>

\* SIGINT: usleep, which SA_RESTART does not resume, may return early.
Sigint ==
    /\ Running /\ ~done
    /\ done' = TRUE
    /\ \/ UNCHANGED <<pc, last_packet, early>>
       \/ /\ pc = "sleep" /\ now < last_packet + connect_interval
          /\ early' = TRUE
          /\ last_packet' = last_packet + connect_interval
          /\ Goto("bind")
    /\ UNCHANGED <<now, window, tally, tries>>

Tick == /\ Running /\ now < MaxTime
        /\ now' = now + 1
        /\ UNCHANGED <<last_packet, early, window, tally, tries, done, pc>>

\* An observer who counts packets from now on.
Watch == /\ Running /\ window.sent > 0
         /\ window' = [from |-> now, sent |-> 0]
         /\ UNCHANGED <<now, last_packet, early, tally, tries, done, pc>>

ConnThread ==
    \/ Top \/ Check \/ Wake \/ SetupFails \/ Bound \/ PortInUse \/ Unbound \/ Connect
    \/ print_stats \/ RecordPacket \/ Failed \/ SocketError \/ Made \/ Started
    \/ EpollWait \/ EpollInterrupted \/ Event \/ Sweep \/ LastStats

Next == ConnThread \/ Sigint \/ Tick \/ Watch

Spec == Init /\ [][Next]_vars

-----------------------------------------------------------------------------
(***************************************************************************)
(* check_connect_interval keeps the rate in every interval of time,        *)
(* wherever it begins: however long usleep, binding or a full queue take,  *)
(* no more than two packets go out ahead of the interval (one whose slot   *)
(* was missed and the next), and one more if SIGINT cut a sleep short.     *)
(***************************************************************************)
PacedInEveryWindow ==
    (window.sent - 2 - (IF early THEN 1 ELSE 0)) * connect_interval <= now - window.from

\* An attempt that is on its way and not listed yet, where conn_thread is at l.
InFlight(l) == IF pc \in l /\ got = "progress" THEN 1 ELSE 0

\* Events epoll_wait has returned that are not handled yet.
Unhandled == IF nev > 0 THEN nev ELSE 0

(***************************************************************************)
(* Every packet is accounted for once, in the counters of print_stats and  *)
(* in the records of metrics.c alike: it has had an event, at once or from *)
(* epoll, it timed out, or its socket is still pending.  And what the      *)
(* passes say they sent, epoll says it returned or the sweeps deleted, but *)
(* for what is pending; of what epoll says, every wait that a signal       *)
(* interrupted takes one away, because mev_epoll records it as -1.         *)
(***************************************************************************)
AttemptsAreAccounted ==
    pc # "dead" =>
        /\ counts.packets = counts.events + swept + pending
                                + InFlight({"stats", "metrics", "result"})
        /\ metrics.packet = metrics.ret + metrics.delta + pending + InFlight({"result"})
        /\ metrics.sendinfo + (IF pc \in {"events", "top", "stop", "end"} THEN 0 ELSE send_count)
              = metrics.epoll + interrupts - Unhandled + metrics.delinfo + pending

(***************************************************************************)
(* The reports add up: there is one for every stats_every packets and one  *)
(* at the end, by then they have told of every event and every result, and *)
(* up to any of them there were no more results than events.               *)
(***************************************************************************)
StatsAddUp ==
    /\ pc \notin {"stats", "end"} => told.calls = counts.packets \div stats_every
    /\ pc = "end" => /\ told.calls = counts.packets \div stats_every + 1
                     /\ told.events = counts.events /\ told.results = counts.results
    /\ told.results <= told.events

(***************************************************************************)
(* "possible clash" is no reason to stop: while what it prints is written, *)
(* the scan ends for a clash of ports neither at once nor because          *)
(* print_stats or metrics.c came between connect() and the look at errno.  *)
(***************************************************************************)
ClashIsTolerated ==
    [][got = "clash" /\ pc \in {"stats", "metrics", "result"} /\ output' = "works" => pc' # "dead"]_vars

=============================================================================

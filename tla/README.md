# A TLA+ verification of cscan

cscan is a TCP scanner that needs no privileges: it keeps a bounded number of
non-blocking `connect()` calls in flight, watches them with epoll, and hands the
hosts that answer to *modules* run by a second thread. This directory holds TLA+
models of its core, the TLC configurations that check them, and TLAPS proofs.

## 1. The system

| Component | State | Operations | Talks to | What is hard |
|---|---|---|---|---|
| results queue, `queue.c` | ring (`items`, `start_idx`, `next_idx`), mutex, two condition variables | `queue_put`, `queue_get` | conn thread → worker | signals after unlock, only on the empty/full transition; index wrap-around |
| socket list, `socket_list.c` | array of entries by descriptor, doubly linked in order of deadline | `add_to_socket_list`, `del_from_socket_list` | scan loop | deletion anywhere, descriptor reuse, stale links, ordered deadlines |
| scan loop, `cscan.c` (`try_connect`, `conn_thread`), `socket_utils.c`, `utils.c` | the socket list, epoll set, `packets_sent`, `event_count`, `result_count`, `last_packet`, `done` | pacing, bind, connect, `epoll_wait`, events, sweep, `print_stats` | kernel, clock, queue, SIGINT | replies racing deadlines, blocking on a full queue, signals at any point, descriptor limits, sleeps that take too long or end early, a stale `errno` |
| threads and shutdown, `cscan.c` (`process_thread`, `main`) | the two threads, the poison pill | `queue_result`, `get_result`, pill, join, close | everything | shutdown without loss and without deadlock |
| stdin feeder, `cscan.c` (`add_from_stdin`) | stdin | scanf, `parse_ip4`, `queue_result` | queue | results that look like the pill |
| CBA writer, `cba.c`, `log.c`, `modules/print.c` | per-thread buffers, one file, its lock | `cba_head`, `cba_code`, `cba_str`, `cba_flush`, ... | both threads | events of two threads in one file, failing writes, a process killed and started again on the file |
| CBA reader, `cba_reader*.py` | position, per-thread state | `entries`, `reset` | the file | reading back what was written |
| targets, `target.c`, `rand.c`, `compile-targets.py` | cumulative ranges, weights | `random_ip`, `random_port`, `make_port_ranges` | scan loop | binary search at the ends, zero weights, unsigned arithmetic |
| command line and startup, `cscan.c` (`parse_args`, `setup_misc`, `main`) | option variables, open descriptors, session | parsing, derived limits, forks, `/dev/null`, opening the output | all | options that override each other, division by zero, descriptors that were closed at the start |
| modules, `modules/*.c` | one connection at a time: a `tsocket`, its TLS context, a deadline | the protocol exchanges, `ts_read_all`, `ts_write_all`, `ts_go_tls` | worker, CBA | deadlines, answers in pieces, data TLS holds already, error returns, descriptors closed on every path |
| metrics, `metrics.c` | a file of records | `mev_packet`, `mev_ret`, `mev_delta`, `mev_epoll`, `mev_sendinfo`, `mev_delinfo` | scan loop | records that do not add up |
| build, presets, Mbed TLS patch | - | - | - | not modelled |

What makes each part correct is stated by the properties of section 3: a bounded
FIFO without lost wakeups; a list that is the sequence of pending attempts; no
leaked descriptor, no stale event, shutdown without loss; a file of whole events
that reads back as it was written, up to where a crash or a full disk cut it; a
rate that is kept and statistics that add up; a random rank mapped onto the targets one to
one; options that mean what the help text says, and a daemon that is detached;
sessions that release what they open and end in time.

## 2. The modules

| Module | Models |
|---|---|
| `BoundedFifo` | what a bounded blocking queue promises: offer, put, get on a sequence |
| `Queue` | `queue.c`, thread by thread, at the granularity of the pthread calls |
| `AttemptSeq` | operators on sequences of pending attempts |
| `PendingList` | what the socket list promises: append, remove anywhere, successor |
| `SocketList` | `socket_list.c`, link by link |
| `Pipeline` | the two threads around the queue: worker, pill, join, close |
| `Scanner` | `Pipeline` fed by `conn_thread`, with kernel, clock, SIGINT, worker descriptors |
| `Sending` | `try_connect` and `conn_thread` again, for the rate and the numbers: pacing, binding, `errno`, counters, `print_stats`, metrics |
| `StdinFeed` | `Pipeline` fed by `add_from_stdin` |
| `Cba` | `cba.c`, with the calls `log.c` and the modules make, write by write; failing writes, crashes and restarts |
| `CbaReader` | `cba_reader.py` as a recursive function on the file's tokens |
| `CbaFile` | what `CbaReader` makes of the file `Cba` writes |
| `Targets` | `random_ip`, `random_port`, `gen_rand32`, step by step |
| `RangeConfigs` | `compile-targets.py`, `make_port_ranges`, `load_range_cfg` |
| `Options` | `parse_args`, word by word, and the loading of the targets |
| `Startup` | `Options`, then `setup_misc` and `main` up to the scan |
| `Tsocket` | `socket4_connect` and `ts.c`, turn by turn of their loops |
| `Modules` | `modules_exec`: `cookie.c`, `print.c`, `rfb.c`, `x11.c` over `Tsocket` |
| `QueueProofs`, `SocketListProofs`, `TargetsProofs`, `PipelineProofs` (`Scanner` and `StdinFeed`), `SendingProofs`, `StartupProofs`, `ModulesProofs`, `CbaProofs` | theorems |
| `MC*` | the modules TLC is started on |

Operators described as a *mutant* change one definition the way a plausible
mistake in the code would; they are there to show that the properties notice.

**Queue.** A thread's `pc` is the pthread call it is at; the body of a critical
section is one step, because the mutex is held (theorem `MutexHolds`).
`pthread_cond_wait` releases the mutex and sleeps in one step, may wake up
spuriously, and must reacquire the mutex; `pthread_cond_signal` wakes one sleeper
of the other side if there is one. `item[t]` is the argument of `queue_put` or the
out parameter of `queue_get`, `flag[t]` the local `was_empty` or `was_full`.

**SocketList.** The fields of `entries[fd]` are functions on descriptors, holding
`Garbage` until first written. `open` is what the caller guarantees: it adds a
descriptor the kernel has just handed out and deletes one it has just closed. The
clock is monotonic (`CLOCK_MONOTONIC`), and a deadline is `now + connect_timeout`.

**Pipeline, Scanner.** The queue is an atomic FIFO here; `Queue` is proved to
implement one. The list is a sequence; `SocketList` is proved to
implement one. An attempt
carries the time *left* until its deadline, which `Tick` decrements, so the model
needs no unbounded clock. Each outcome of `try_connect` is an action: in
progress, made at once (the report can block, hence its own `pc`), failed
(refused, unreachable, port clash), or an error that ends the program. The kernel
always hands out the lowest free descriptor; `BaseFds` are those in use before
the scan, and a module holds at most one. `epoll_wait` returns all ready sockets,
or nothing when the first deadline has passed or a signal arrives; which event of
a batch is handled first is left open. The sweep is one step (it reads the clock
once and never blocks): `Expired` is how many entries its loop passes,
`DropExpired` closes and deletes them. SIGINT may hit either thread, because the signal mask set
by `thread_block_sigint` starts from an uninitialised set; a second SIGINT kills
the process (`SA_RESETHAND`). `packets_sent` saturates just above `canary_after`,
after which its value no longer matters to the scan. `canary` records what became
of the canary, `canary_log` what was reported of it.

**Sending.** What `Scanner` leaves out, with its own abstraction of the rest: how
many attempts are pending, not which. `now` and `connect_interval` share one unit.
`usleep` returns at any time from the one asked for on, or early, once, when SIGINT
hits it. `got` is what `connect()` led to; `errno` says whether it still is
`connect()`'s when it is looked at, which anything printed in between may change if
it cannot be written. `epoll_wait` may be interrupted (`EpollInterrupted`), by SIGINT or
because the process was stopped and continued; it then returns -1, which `mev_epoll`
records like a number of events, in a signed field (metrics.py:171 reads it so).
`interrupts` counts these waits, and in `AttemptsAreAccounted` stands for what they take
away from the sum of the records. `Scanner` has the interruption by SIGINT in its
`Sigint`; the pass without events that follows is the same there. `metrics` holds the number of records `mev_packet`, `mev_ret`
and `mev_delta` have written and the sums of the counts in the others. `window` is
an observer: an interval of time begun anywhere, and the packets sent in it.

**StdinFeed.** A line is an address that parses, one that does not (but has a
port), or one scanf cannot match, which ends the input like end of file.

**Cba, CbaReader.** The file is a sequence of tokens, one per piece the code
copies into a buffer (header, length, bytes, module name, integer, thread id of a
chunk). A `write()` to an `O_APPEND` file is one step; an event is several, made
under `fd_lock`; `cba_flush` is one, made without it. `script` is what is left of
the calls a thread makes: for main the functions of `log.c`, for the worker what
a module writes for one result. `log` is what the calls promise: entries of
events, a head or a deferred string leaving no trace unless an event follows.
The reader is a function of the tokens at a set of positions of the file (all of
them, or those one thread wrote), one token after the other; a token of another kind than the one it is
about to decode means that it is out of step, and it is *lost* from there on.
A write that fails (`WriteFails`, `FlushFails`) is not noticed by the code, which
goes on with the next. `Restart` kills the process between any two writes, or ends
it, and starts main again on the same file: `O_APPEND`, no second byte-order mark,
fresh thread states. `cut[t]` is the number of entries of thread `t` that were
whole before something of it was lost. Without an output file the calls only print,
and are not modelled.

**Targets, RangeConfigs.** A `struct range_cfg` is a record, with the array of
pairs as two functions. One turn of each loop is one action. Reads after the end
of the array return `Beyond`, `gen_rand32`'s failure value is `MaxUint`. The
constants are the inputs of the program, lists of ranges and portspecs; the
configurations follow from them: `Loaded` is what `load_range_cfg` makes of the words
`Compile` has put in a file, `Made` what `make_port_ranges` makes of a portspec, which
is a sequence of ports with points, of text that is no number, or an empty end. `merge_ranges` belongs to a submodule whose
source is not here; it is taken to yield the sorted maximal ranges.

**Options.** `argv` is one of a set of command lines; the options, by the name of
their variable, hold numbers or words. A division by zero ends in phase
`crashed`, `fail()` in `failed`. A file is empty or holds what was compiled into it
(`FilesAssumption`); nothing is shown of a file that was cut. Values stay small enough for 32 bits.
The code asks for help by what argv[1] begins with: `AsksForHelp` has the words of the
command lines that do. `-mf` exists in a `METRICS` build only; without it the word is
passed over.

**Startup.** `fds` says what each descriptor is. exec left some of 0, 1 and 2 open;
what is opened gets the lowest free number. `read_int_from_file` leaves its file
open when it finds a number. `fork` is followed into the child, which leads no
session; every call may fail. A `METRICS` build opens one file more.

**Tsocket, Modules.** One result after the other. `sock` is what `socket4_connect`
returned: a connected descriptor, or one of its two failure values. `io` is the
call in progress: `at` is where in its loop it is, `left` how many pieces of the
buffer are still to come. `decrypted` counts the pieces TLS has decrypted and
nobody has read; `mbedtls_ssl_read` returns those without asking the socket. On a
socket of -2 `ts_socket` fails before it sets `is_ssl`, which then holds anything:
over a context that was never set up Mbed TLS returns an error or takes the process
with it (`crashed`). What a peer sends is a choice among what the module tells
apart. Time is counted from the start of the result. `told` is what was recorded.

## 3. The runs

| Run | Configuration | Shows |
|---|---|---|
| `queue` | one producer, one consumer, 3 slots, 2 items, fair | `ImplementsFifo`, no lost wakeup on either side, `PutReturns`, `ItemsAreTaken` |
| `socket_list` | 4 descriptors, 2 instants | `WellLinked`, `FirstIsDueFirst`, `ImplementsPendingList` |
| `scan` | 2 pending sockets, queue of 1, a canary, 1 tick of timeout, fair | `SocketsAreListed`, `EventsAreCurrent`, `FdFits`, `SweepIsComplete`, `DrainedBeforeClose`, `CanaryIsWatched`, `StopsOnSigint`, `AttemptsEnd`, no deadlock |
| `sending` | 5 packets 2 instants apart, 8 instants, 2 pending sockets, a report for every 2 packets, 2 ports to bind to, 1 interrupted `epoll_wait` | `PacedInEveryWindow`, `AttemptsAreAccounted`, `StatsAddUp`, `ClashIsTolerated` |
| `stdin_feed` | all inputs of up to 4 lines, queue of 2, fair | `StdinResultsAreProcessed`, `StdinRunEnds` |
| `cba_threads` | main logs once, the worker handles two results, any event kinds, chunks of 2, one failing write or restart anywhere | `LockedEventsAreWhole`, `EntriesComeBack` |
| `targets` | every set of 7 addresses, five portspecs, with and without `/dev/urandom`, fair | `FindsFirst`, `RankedTarget`, `PortOwnsPoint`, `SearchEnds` |
| `options` | all command lines of up to 3 of 23 options, started with 0-2, 1-2 or nothing open | `LastValueWins`, `TargetsAreTheOnesNamed`, `DaemonIsDetached`, `ZeroIsTaken` |
| `modules` | every set of modules, 2 cookie ports, 2 security types, answers in 2 pieces, TLS, fair | `NothingLeaks`, `OneOutcome`, `WorkerIsFreeInTime`, `TlsDataIsTaken`, `ResultsEnd` |
| `cba_flush` | two prints, one statistics record | `EventsAreWhole` is **violated** |
| `scan_timely_reply` | no canary | `TimelyReplyIsKept` is **violated** |
| `stdin_bad_ip` | a line whose address does not parse | `StdinResultsAreProcessed` is **violated** |

A `TypeOK` is in the runs where it says more than the types of the variables: the
indices of the ring, the positions of the search. The others document the state.

*Bounds.* Three slots give the ring a wrap-around with the oldest item in every
slot, full, empty and in between. Four descriptors allow a deletion between two
neighbours with another descriptor free for reuse. Two pending sockets and a
queue of one let the scan block on the queue with another event, reply, deadline
or signal outstanding; `socket_list_excess` is exactly the number of foreign
descriptors, so that one more would be noticed. `MaxFd` bounds the descriptors the
kernel has; `FdAssumption` says that it is not what a scan runs into (running out of
descriptors is `ConnectAborts`), `StartupAssumption` the same of the start. A timeout of one tick lets two
attempts have different deadlines, one due and one not. Five packets and eight
instants let packets be early, in time and late in every order, twice around the
report interval; the bound of `PacedInEveryWindow` is reached, with and without an
early end of a sleep. The one `epoll_wait` that is interrupted may be any of the
scan's, with the scan ended by it or going on; the proof is for any number. One fault in `cba_threads` can hit any write of any event, in
either thread, with everything before and some events after it. Seven addresses
give up to four ranges of different sizes, so that the search takes both turns, meets the case next to `end`, and exits by
each of its ways. Three options on a command line allow an option, the one it
overrides and another one between or behind them. A read timeout of two units lets
a peer answer in time, late, and on the deadline.

*Fairness.* In `Queue`, a thread inside an operation runs on (weak), acquires the
mutex if it is free again and again (strong: pthread mutexes do not starve a
thread for ever in practice, though POSIX does not promise it), and the consumer
comes back, as `process_thread` loops. Producers need not put. In `Scanner` both
threads run on, the clock advances, a module closes its descriptor, and
`modules_exec` returns although it may open and close several (strong; it calls
each module once). Nothing is assumed of the network. The fill loop, however,
counts only attempts in progress and looks at neither `done` nor deadlines: while
every `connect()` fails or succeeds at once, it goes on for ever and SIGINT has no
effect. `StopsOnSigint` and `AttemptsEnd` therefore assume `FillLoopEnds`.
In `Targets` only the turns of the search are fair, not the draws: that a random
number is accepted at last is a matter of probability. In `Modules` the worker
runs on: each of its waits has a timeout. And time passes (strong fairness of a
wait that takes time): wake-ups that bring TLS no further, which a peer may cause by
sending its bytes one by one, do not go on for ever within one instant. If the
process has died, `ResultsEnd` asks for nothing more.

### Disagreements found

* `scan_timely_reply`: README.md:15, a reply is expected "within a specified time
  range". One that arrives in time while `conn_thread` is still busy with earlier
  events (it may be blocked on a full queue) is closed as timed out by the sweep.
* `stdin_bad_ip`: `parse_ip4` turns an address it cannot parse into 0, which is
  the poison pill: the worker stops there, later results are lost, and enough of
  them block `add_from_stdin` for ever.
* `cba_flush`: cba.c:389, "must be called with lock held", and TODO.md:5, "file is
  locked @ event level". `cba_flush` writes the deferred head without the lock,
  into the middle of the other thread's event.

Further ones came up while the code was modelled. The models contain the behaviour;
no run is kept for it.

* README.md:125, "If connection to that address fails, cscan will let you know." A
  `connect()` to the canary that fails at once is not reported (cscan.c:208).
* `cba_reader_cscan.py` (README.md:192) calls `entries()` twice on one reader;
  `reset()` (cba_reader.py:49) keeps the thread states and rereads the byte-order
  mark as a packet, and the last result comes out twice.
* README.md:186: a reader that does not extract leaves the name of a file in the
  stream and decodes it as packets (cba_reader.py:153).
* target.c:37, "can't be <, but > is ok". When `gen_rand32` fails, its -1 is taken
  for a rank, the count is less, and the pair read lies after the array.
* README.md:89, `port:weight` pairs: a first port of weight 0 gets the unsigned
  count -1 (target.c:147) and with it every packet.
* cscan.c:460, `-m` "overrides packets_per_second", and cscan.c:466, `-ct` "overrides
  auto_interval" (README.md:150 and :156 say the same), without a condition. Each clears
  the other variable only where it stands: `-m 50 -r 700` scans with 560 sockets, which
  follow from the rate, and `-ct 700 -a 50` with an interval derived from `-a`.
  `LastValueWins` excludes such lines (`Contested`) and takes neither side.
* cscan.c:465 and README.md:155, "make sending packets take at least this% of timeout".
  The interval is rounded down (cscan.c:618): 416 packets 1730 microseconds apart, the
  default, take 719680 where 90% of the timeout are 720000. Where there are more sockets
  than microseconds (`-a 1 -t 100 -r 20000`) it becomes 0, which `conn_thread` takes for
  no interval at all (cscan.c:252).
* cscan.c:455 documents `-of`; the code compares with `-o` twice (cscan.c:598).
* `fail("Invalid portspec.")` (cscan.c:643) and `fail("Can't read ranges from
  file.")` (cscan.c:629) are not reached by a portspec without a number and by a
  file that ends early (target.c:99).
* socket_utils.c:75, "-2 is socket error". The modules test for -1 only (rfb.c:74)
  and hold a session over nothing, for its whole read timeout.
* README.md:99 writes `-fp` where the code has `-pf`.
* cscan.c:203, "possible clash", is decided by `errno` after `print_stats`
  (cscan.c:190): if what that prints cannot be written, a clash ends the scan
  with "Socket error".
* cscan.c:172, "Can't bind to port", names the port of the target.
* ts.c:124 returns before `is_ssl` is set; over a -2 the modules go on with an
  uninitialised `is_ssl`, and may free a TLS context that was never set up.
* cba.c:393 ignores a failing write. A deferred head that could not be written is
  forgotten, and the event behind it reads back as one of the entry before.
* A `.cba` file that ends in the middle of an event is appended to by the next run
  (cba.c:46); the reader takes what follows for the rest of that event.
* cscan.c:706 makes the standard input of a daemon `/dev/null`: `-d -x` finds
  nothing to process.

## 4. The proofs

All are for arbitrary constants under the named assumptions of the module
(`QueueAssumption`: a positive capacity, disjoint sets of threads;
`SocketListAssumption`: numbers are naturals, `Garbage` is not a number; and so on,
each beside the constants it is about). What a theorem needs beyond them is in its
own `ASSUME`, and explained below.

* `QueueProofs`
  * `TypeCorrect`: the indices stay inside the ring.
  * `MutexHolds`: at most one thread is between lock and unlock. The inductive
    invariant says that whoever is there owns the mutex.
  * `SingleProducerIsWoken`, `SingleConsumerIsWoken`: no lost wakeup, with one
    thread on the sleeping side. The restriction is needed: a second put made
    before the woken consumer runs finds the ring non-empty and signals nobody,
    so a second consumer sleeps on while an item is queued.
  * `QueueIsFifo`: `Queue` implements `BoundedFifo`. `LengthInRange`,
    `PutAppends` and `GetRemovesOldest` say what the index arithmetic does to the
    sequence of queued items; the refinement has one step per action, and needs
    `OfferInv` (a thread inside `queue_put` carries an item).
* `SocketListProofs`
  * `ListInv`, the inductive invariant: there is a sequence of descriptors that
    the links spell in both directions, it contains exactly the open sockets, its
    deadlines do not decrease, and none is later than a deadline set now.
    `WellLinked` alone would be inductive; the order of the deadlines needs the
    rest.
  * `TypeCorrect`, `AlwaysWellLinked`, `FirstAlwaysDueFirst` follow from it.
  * `RefinesPendingList`: `SocketList` implements `PendingList`. The list is what one
    reads following `num_sockets` links from `first_fd` (`Chain`); `OneChain` shows,
    by the least place where two of them would differ, that this is one sequence, so
    it is the one of `ListInv`. `AddKeepsList` and `DelKeepsList` say what an
    addition and a deletion do to it.

* `TargetsProofs`, for every list of ranges (`IsRangeList`: sorted, disjoint, none
  empty, which is what `merge_ranges` leaves) and every portspec
  * `SumSteps`, `SumGrows` and `MaskCovers` say what the sums of the counts and the
    doubling of the mask come to; `LoadsBack` that a file read back is the
    configuration that was written; `LoadedIsWellFormed` that `random_ip` gets counts
    that increase up to `max_idx`, which the mask covers.
  * `SearchInv`, the inductive invariant, joins `TypeOK`, `Bracketed` (what is left
    of `start` counts too few addresses, what is at `end` or beyond enough) and
    `FindsFirst`. `Bracketed` also says what `idx` and `val` are if the loop runs
    dry, without which the exit by `start = end` could not be shown right.
  * `TypeCorrect` holds also when `gen_rand32` fails (`TypeStep`).
  * `SearchIsCorrect`: with random numbers to be had, the loop leaves with the first
    range whose count reaches the rank. `ProbeKeepsInv` has one case per branch of
    the loop.
  * `RankIsTarget`, an action property: the address returned is a target, and exactly
    `r` targets lie below it. `CountRanges` counts the addresses of the first ranges,
    `CountBelow` those below an address, `FromTheEnd` is the arithmetic of the last
    line of `random_ip`.
  * `PointIsOwned`, an action property, with `ScanInv`: the port returned is the one
    among whose points the drawn one is. The hypothesis, that the first port of the
    portspec has points, is needed: see target.c:147 above.

* `PipelineProofs`, about `Scanner`
  * `ScanInv`, the inductive invariant: no descriptor is listed twice and deadlines
    do not decrease along the list (`ListInv`), a connection made at once is not in
    the list and has room there (`MadeInv`), events exist only between `epoll_wait`
    and the sweep, for listed sockets (`BatchInv`), and the open sockets are the
    listed ones and the one made at once (`SocketsAreListed`). None of the parts is
    inductive alone: a sweep that stops at the first entry not due needs the order,
    a deletion by descriptor needs it to be listed once.
  * `SocketsAlwaysListed`, `EventsAlwaysCurrent` follow, and `SweepAlwaysComplete`, an
    action property. `Keeps` says how a step may shorten the list; `EventKeeps` and
    `SweepKeeps` that an event and the sweep do it so.
  * `FdAlwaysFits`, if fewer than `socket_list_excess` descriptors are in use before
    the scan. The user sets that number (cscan.c:42); 1000 by default. By counting
    (`FdsCount`), the lowest free descriptor is then inside the array.
  * `AlwaysDrainedBeforeClose`, with `PillInv`: one pill is ever queued, last, and the
    worker stops on nothing else.
  * `CanaryAlwaysWatched`, with `CanaryInv`: the canary is sent once, and one entry is
    its own while it is on its way. Besides the condition of `FdAlwaysFits` (an
    attempt that does not fit ends the program, unlisted) it needs a canary that is
    not among the targets: the code knows it by address and port (cscan.c:298) and
    would take another attempt at the same host for it.
* `SendingProofs`
  * `PaceIsKept`, with `PaceInv`: from the second packet of an interval of time on,
    `last_packet` is ahead of the start of the interval by `connect_interval` a packet,
    and never ahead of the clock but for a sleep that SIGINT cut short.
  * `AttemptsAlwaysAccounted` and `StatsAlwaysAddUp`, with `RoomInv` (inside the loop
    there is room for one more, what this pass has sent is pending, and no event
    outlives the pass it was returned in) and
    `StatsInv` (the reports add up to the values kept for the next).
  * `ClashAlwaysTolerated`, an action property, with `ErrnoInv`; `TypeCorrect`.
* `PipelineProofs`, about `StdinFeed`: `StdinAlwaysProcessed`. `FeedInv` says that the lines read so far
  are, in order, processed, with the modules and in the queue, whose last element is
  the pill once main has queued it. The hypothesis `BadIps = {}` is the one the run
  `stdin_bad_ip` shows to be needed.
* `StartupProofs`
  * `DaemonAlwaysDetached`, `ZeroAlwaysTaken`, with `StartInv`: descriptors at the top of
    the table are free as long as something is to be opened, and what is `/dev/null`
    when. `LowestIsFree` says what the kernel hands out.
  * `LastValueAlwaysWins`, with `OrderInv`: the words before `arg` have decided what
    the whole line decides at the end. It is about lines as the help text has them
    (`WellFormed`): an option that takes a value has one, and no value spells such an
    option. `OrderInv` also covers the lines `LastValueWins` leaves out. Otherwise the loop takes the option for a value.
  * `TargetsAlwaysTheOnesNamed`, of the same lines, with `LoadInv`: what is in memory
    is what the decided names stand for, and not NULL. `LoadedIsCompiled`: a name from
    which something was loaded is that of a whole file.
* `ModulesProofs`
  * `HoldInv`, the inductive invariant of the first two theorems: which call is in
    progress where (`CallInv`), what the worker holds outside (`OutsideInv`) and inside
    (`SessionInv`) a session: one descriptor, one context while TLS lasts, nothing on
    a socket of -2, whose session fails its first call.
  * `TlsDataAlwaysTaken`, `NothingEverLeaks` follow.
  * `WorkerIsAlwaysFreeInTime`, with `TimeInv`: how much time may have passed, by where
    `modules_exec` is. The products of timeouts and ports are hidden behind operators;
    `StepKinds` sorts the actions by what they do to the clock.
  * `AlwaysOneOutcome`, with `OutcomeInv`: nothing is recorded before a session has an
    end, and from each end it goes to its exit.

* `CbaProofs`, for any number of threads, any scripts, any buffer size and any number
  of faults
  * `ReadMore`, `ReadNoMore` and `ReadTwice` say how what the reader has come to depends
    on the tokens appended to the file: one of another thread changes nothing for this
    one. `ChunksAll` and `StreamReads`: a string cut into chunks is put together again.
    `EventReads` and `HeadReads`: what the reader makes of the tokens of one call.
  * `CbaInv`, the inductive invariant. `ThreadInv(t)` is about the tokens of one thread
    alone: read what is in the file, then what is in `deferred` or is still to be
    written, and the reader is where `log` says. It has a case for a thread between
    two calls (`Between`), one inside an event (`Writing`) and one with a deferred head
    (`Deferring`), whose strings must not show; after a fault, only the entries that
    were over before it remain (`CutAt`). `LockInv` is about the threads together:
    whoever is inside an event owns `fd_lock`, and completing the event leaves the
    reader of all the locked writes between two packets.
  * `LockedEventsDecode` and `EntriesAreReadBack` follow from `CbaIsInductive`.

What recursive definitions compute is shown without induction over data: that
one of several numbers violates a statement gives a least one (`LeastNumber`), and the
step to it from the one before is a contradiction. So are the existence of the
recursive functions (`SumsExist`, `DoublesExist`, `RunExists`), the counting of
descriptors and addresses, and `OneChain`, `LowestIsFree` shown. `LeastNumber` and
`LoadsBack` stand in more than one module, because the modules they are about share
names and cannot be extended together.

Only model-checked: liveness under fairness (`PutReturns`, `ItemsAreTaken`,
`StopsOnSigint`, `AttemptsEnd`, `StdinRunEnds`, `SearchEnds`, `ResultsEnd`), which is out
of the prover's reach. Every invariant and every action property the passing runs
check is also a theorem.

## 5. Plan

1. Done: every module of section 2, and the proofs of section 4.
2. Left: files that were cut (`load_range_cfg` then leaves memory as `malloc` returned
   it), negative numbers on the command line, the queue with several sleepers on a side.

Not modelled, and why:

* build files, presets, the Mbed TLS patch, `ts_tester.c` (a manual test), help texts:
  no behaviour of the program;
* `metrics.py` and what `cba_reader_cscan.py` and `cba_reader_rfb.py` print: output
  only; times and kinds in the metrics records are data nothing depends on;
* output without a `.cba` file: each call prints at once, there is no state;
* `not_supported_resize` of `queue.c`, `read_all` of `socket_utils.c`: nothing calls
  them;
* a `set_socket_blocking` that fails on a connected socket (socket_utils.c:90 and :125),
  which would return -1 and leave the descriptor open: `fcntl` on an open socket does
  not fail;
* the second pass over one reader, which is known to go wrong (section 3);
* products of options beyond 32 bits, and negative lengths sent by a peer
  (rfb.c:222): values are natural numbers here;
* `merge_ranges` and the parsing of CIDR text: in a submodule that is not in the
  repository.

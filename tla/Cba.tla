-------------------------------- MODULE Cba --------------------------------
(***************************************************************************)
(* The CBA writer (cba.c) and its callers: the main thread through log.c,   *)
(* the worker through the modules.  Every thread runs scripts, sequences of *)
(* cba_ calls; a call that writes an event first flushes the thread's       *)
(* deferred buffer, then takes fd_lock, issues one write per piece of the   *)
(* event, and unlocks.  The file is O_APPEND, so a write is atomic and      *)
(* lands at the end; a flush is one write, made without the lock.           *)
(*                                                                         *)
(* The file is a sequence of tokens, one per piece the code copies into a   *)
(* buffer.  "by" and "flush" are no bytes of the file: they record who      *)
(* wrote a token and whether cba_flush did.  Only the branches with an      *)
(* output file are modelled: with fd == -1 the calls print.                 *)
(*                                                                         *)
(* The process may be killed at any point, by a second SIGINT or by err(),  *)
(* and be run again on the file it left; a write may fail (a full disk),    *)
(* which do_write does not notice.                                         *)
(***************************************************************************)
EXTENDS Naturals, Sequences, SequencesExt

CONSTANTS
    Threads,        \* the thread ids: 0 is main, the workers are 1, 2, ...
    MaxBuff,        \* CBA_MAXBUFF, in units of data
    MainScripts,    \* what main may log once the worker runs
    WorkerScripts,  \* what modules_exec may write for one result
    MaxScripts,     \* bound: the scripts each thread runs
    MaxFaults,      \* bound: how often it is killed, or a write fails
    NoOne           \* no owner of fd_lock

\* A sequence of calls: a buffer is bytes, a file has a name and bytes.
IsScript(s) ==
    /\ Len(s) \in Nat /\ s = [i \in 1 .. Len(s) |-> s[i]]
    /\ \A i \in 1 .. Len(s) :
          \/ s[i].op \in {"head", "code", "bit", "str", "defer_str", "int32", "int64"}
          \/ s[i].op = "data" /\ s[i].val \in Seq(Nat)
          \/ s[i].op = "file" /\ s[i].val.data \in Seq(Nat)

\* The worker handles a result under a head of its own.
ASSUME CbaAssumption == /\ Threads \subseteq Nat /\ 0 \in Threads
                        /\ MaxBuff \in Nat \ {0}
                        /\ MaxScripts \in [Threads -> Nat]
                        /\ MaxFaults \in Nat
                        /\ NoOne \notin Threads
                        /\ \A s \in MainScripts \cup WorkerScripts : IsScript(s)
                        /\ \A s \in WorkerScripts : s # << >> /\ s[1].op = "head"

VARIABLES
    file,       \* the tokens in the file, after the byte order mark
    fd_lock,    \* the thread that holds fd_lock, or NoOne
    next_code,  \* per thread: the code of the next header, 0 for none
    deferred,   \* per thread: the tokens in deferred_buffer
    todo,       \* per thread: the writes left of the event in progress
    script,     \* per thread: the calls left of the script
    ran,        \* per thread: the scripts begun
    started,    \* whether main has created the worker
    log,        \* per thread: what the calls made so far should leave behind
    faults,     \* how often that happened
    cut         \* per thread: Whole, or (in a tuple) how many of its entries
                \* were over when one of its events was left incomplete

writer == <<file, fd_lock, next_code, deferred, todo, script, ran, started, log>>
harm == <<faults, cut>>
vars == <<writer, harm>>

Whole == << >>

-----------------------------------------------------------------------------
(* Tokens.                                                                 *)

Token(t, kind, type, val) ==
    [by |-> t, kind |-> kind, type |-> type, val |-> val, flush |-> FALSE]

Header(t, type, code) == Token(t, "hdr", type, code)

Length(t, n) == Token(t, "len", "none", n)

Bytes(t, v) == Token(t, "raw", "none", v)

\* The chunks cba_data and cba_file cut a buffer into.
NumChunks(data) == (Len(data) + MaxBuff - 1) \div MaxBuff

Chunk(data, i) ==
    SubSeq(data, (i - 1) * MaxBuff + 1,
           IF i * MaxBuff < Len(data) THEN i * MaxBuff ELSE Len(data))

\* (thread id, length, bytes) for each chunk, then an empty one to end.
Stream(t, data) ==
    [i \in 1 .. 3 * NumChunks(data) + 2 |->
        LET c == (i + 2) \div 3 IN
        CASE i % 3 = 1 -> Token(t, "tid", "none", t)
          [] i % 3 = 2 -> Length(t, IF c <= NumChunks(data) THEN Len(Chunk(data, c)) ELSE 0)
          [] i % 3 = 0 -> Bytes(t, Chunk(data, c))]

StrBody(t, v) == << Length(t, 1), Bytes(t, v) >>

\* The writes that follow the header of an event.
Body(t, c) ==
    CASE c.op \in {"str", "defer_str"}  -> StrBody(t, c.val)
      [] c.op = "bit"                   -> << >>
      [] c.op \in {"int32", "int64"}    -> << Token(t, "int", c.op, c.val) >>
      [] c.op = "data"                  -> Stream(t, c.val)
      [] c.op = "file"                  -> StrBody(t, c.val.name)
                                               \o Stream(t, c.val.data)

TypeOf(c) == IF c.op = "defer_str" THEN "str" ELSE c.op

\* cba_bit sets the code itself, before it flushes.
CodeOf(t, c) == IF c.op = "bit" THEN c.val ELSE next_code[t]

-----------------------------------------------------------------------------
(* What the calls promise: a head opens an entry, a deferred string stays   *)
(* hidden until an event of the same entry follows, an entry without        *)
(* visible events leaves no trace.                                         *)

NoEntry == [module |-> "", hidden |-> << >>, events |-> << >>]

EventOf(t, c) ==
    [type |-> TypeOf(c), code |-> CodeOf(t, c),
     val |-> CASE c.op = "bit"  -> TRUE
               [] c.op = "file" -> c.val.name
               [] OTHER         -> c.val]

Closed(t, l) == IF l.open.events = << >> THEN l.entries
                ELSE Append(l.entries, [tid |-> t, module |-> l.open.module,
                                        events |-> l.open.events])

Opened(t, l, m) == [entries |-> Closed(t, l), open |-> [NoEntry EXCEPT !.module = m]]

Hidden(l, e) == [l EXCEPT !.open.hidden = Append(@, e)]

Recorded(l, e) ==
    [l EXCEPT !.open.events = @ \o l.open.hidden \o <<e>>,
              !.open.hidden = << >>]

-----------------------------------------------------------------------------

\* main has opened the file and queued its head: cba_thread_init(0),
\* cba_head("cscan"), then log_stats_every.
StatsEvery == << [op |-> "head", val |-> "cscan"],
                 [op |-> "code", val |-> 10], [op |-> "int32", val |-> "every"] >>

\* main starts with log_stats_every to write, the worker is not there yet.
Started == [t \in Threads |-> IF t = 0 THEN StatsEvery ELSE << >>]

Init ==
    /\ file = << >>
    /\ fd_lock = NoOne
    /\ next_code = [t \in Threads |-> 0]
    /\ deferred = [t \in Threads |-> << >>]
    /\ todo = [t \in Threads |-> << >>]
    /\ script = Started
    /\ ran = [t \in Threads |-> 0]
    /\ started = FALSE
    /\ log = [t \in Threads |-> [entries |-> << >>, open |-> NoEntry]]
    /\ faults = 0
    /\ cut = [t \in Threads |-> Whole]

\* Between two calls: nothing left to write, the lock released.
Idle(t) == todo[t] = << >> /\ fd_lock # t

\* pthread_create, once main has logged the interval of its statistics.
StartWorker ==
    /\ ~started /\ Idle(0) /\ script[0] = << >>
    /\ started' = TRUE
    /\ UNCHANGED <<file, fd_lock, next_code, deferred, todo, script, ran, log>>

Begin(t) ==
    /\ started /\ Idle(t) /\ script[t] = << >> /\ ran[t] < MaxScripts[t]
    /\ \E s \in IF t = 0 THEN MainScripts ELSE WorkerScripts :
          script' = [script EXCEPT ![t] = s]
    /\ ran' = [ran EXCEPT ![t] = @ + 1]
    /\ UNCHANGED <<file, fd_lock, next_code, deferred, todo, started, log>>

\* t makes the next call of its script.
Calls(t, ops) ==
    /\ Idle(t) /\ script[t] # << >> /\ Head(script[t]).op \in ops
    /\ script' = [script EXCEPT ![t] = Tail(@)]

cba_code(t) ==
    /\ Calls(t, {"code"})
    /\ next_code' = [next_code EXCEPT ![t] = Head(script[t]).val]
    /\ UNCHANGED <<file, fd_lock, deferred, todo, ran, started, log>>

\* A head is always deferred, over whatever was deferred before.
cba_head(t) ==
    LET m == Head(script[t]).val IN
    /\ Calls(t, {"head"})
    /\ deferred' = [deferred EXCEPT ![t] =
          << Header(t, "head", next_code[t]), Token(t, "name", "none", m) >>]
    /\ next_code' = [next_code EXCEPT ![t] = 0]
    /\ log' = [log EXCEPT ![t] = Opened(t, @, m)]
    /\ UNCHANGED <<file, fd_lock, todo, ran, started>>

cba_defer_str(t) ==
    LET c == Head(script[t]) IN
    /\ Calls(t, {"defer_str"})
    /\ deferred[t] # << >>
    /\ deferred' = [deferred EXCEPT ![t] =
          @ \o << Header(t, "str", next_code[t]) >> \o StrBody(t, c.val)]
    /\ next_code' = [next_code EXCEPT ![t] = 0]
    /\ log' = [log EXCEPT ![t] = Hidden(@, EventOf(t, c))]
    /\ UNCHANGED <<file, fd_lock, todo, ran, started>>

\* What cba_flush leaves in the file: one write, outside the lock.
Flushed(t) == file \o [i \in 1 .. Len(deferred[t]) |->
                          [deferred[t][i] EXCEPT !.flush = TRUE]]

\* cba_bit, cba_str, cba_vstr, cba_data, cba_file, cba_int32, cba_int64, and
\* cba_defer_str with nothing deferred: flush, build the header, take the lock.
EventCall(t) ==
    LET c == Head(script[t]) IN
    /\ Calls(t, {"bit", "str", "data", "file", "int32", "int64", "defer_str"})
    /\ c.op = "defer_str" => deferred[t] = << >>
    /\ deferred' = [deferred EXCEPT ![t] = << >>]
    /\ todo' = [todo EXCEPT ![t] =
          << Header(t, TypeOf(c), CodeOf(t, c)) >> \o Body(t, c)]
    /\ next_code' = [next_code EXCEPT ![t] = 0]
    /\ log' = [log EXCEPT ![t] = Recorded(@, EventOf(t, c))]
    /\ UNCHANGED <<fd_lock, ran, started>>

Event(t) == EventCall(t) /\ file' = Flushed(t)

(* Mutant of Lock: the lock is taken from whoever holds it *)
Lock_Free(t) ==
    /\ todo[t] # << >> /\ fd_lock # t
    /\ fd_lock' = t
    /\ UNCHANGED <<file, next_code, deferred, todo, script, ran, started, log>>

Lock(t) ==
    /\ todo[t] # << >> /\ fd_lock = NoOne
    /\ fd_lock' = t
    /\ UNCHANGED <<file, next_code, deferred, todo, script, ran, started, log>>

do_write(t) ==
    /\ fd_lock = t /\ todo[t] # << >>
    /\ file' = Append(file, Head(todo[t]))
    /\ todo' = [todo EXCEPT ![t] = Tail(@)]
    /\ UNCHANGED <<fd_lock, next_code, deferred, script, ran, started, log>>

Unlock(t) ==
    /\ fd_lock = t /\ todo[t] = << >>
    /\ fd_lock' = NoOne
    /\ UNCHANGED <<file, next_code, deferred, todo, script, ran, started, log>>

-----------------------------------------------------------------------------
\* The event that is being written, and the strings held back, are lost.
Lost(t) == [log[t] EXCEPT !.open.hidden = << >>,
                          !.open.events = IF todo[t] = << >> THEN @ ELSE Front(@)]

Cut(t, n) == [cut EXCEPT ![t] = IF @ = Whole \/ n < @[1] THEN << n >> ELSE @]

\* The writes that are left were not the whole event.
InEvent(t) == todo[t] # << >> /\ Head(todo[t]).kind # "hdr"

Faulty == faults < MaxFaults /\ faults' = faults + 1

\* The other writes of the event go on.
WriteFails(t) ==
    /\ Faulty
    /\ fd_lock = t /\ todo[t] # << >>
    /\ todo' = [todo EXCEPT ![t] = Tail(@)]
    /\ cut' = Cut(t, Len(log[t].entries))
    /\ UNCHANGED <<file, fd_lock, next_code, deferred, script, ran, started, log>>

\* The head is lost: the event falls to the entry before.
FlushFails(t) ==
    /\ Faulty
    /\ EventCall(t) /\ deferred[t] # << >>
    /\ cut' = Cut(t, IF log[t].entries = << >> THEN 0 ELSE Len(log[t].entries) - 1)
    /\ UNCHANGED file

(* Mutant of Restart: the file is begun anew *)
RestartTruncates ==
    /\ Faulty
    /\ cut' = [t \in Threads |-> IF InEvent(t) THEN Cut(t, Len(log[t].entries))[t] ELSE cut[t]]
    /\ log' = [t \in Threads |-> Lost(t)]
    /\ file' = << >>
    /\ fd_lock' = NoOne /\ started' = FALSE
    /\ next_code' = [t \in Threads |-> 0]
    /\ deferred' = [t \in Threads |-> << >>]
    /\ todo' = [t \in Threads |-> << >>]
    /\ script' = Started
    /\ UNCHANGED ran

\* Killed, or ended; then main again: cba_open_file appends to what is there.
Restart ==
    /\ Faulty
    /\ cut' = [t \in Threads |-> IF InEvent(t) THEN Cut(t, Len(log[t].entries))[t] ELSE cut[t]]
    /\ log' = [t \in Threads |-> Lost(t)]
    /\ fd_lock' = NoOne /\ started' = FALSE
    /\ next_code' = [t \in Threads |-> 0]
    /\ deferred' = [t \in Threads |-> << >>]
    /\ todo' = [t \in Threads |-> << >>]
    /\ script' = Started
    /\ UNCHANGED <<file, ran>>

Write ==
    \/ StartWorker
    \/ \E t \in Threads :
          \/ Begin(t) \/ cba_code(t) \/ cba_head(t) \/ cba_defer_str(t)
          \/ Event(t) \/ Lock(t) \/ do_write(t) \/ Unlock(t)

Next == \/ Write /\ UNCHANGED harm
        \/ \E t \in Threads : WriteFails(t) \/ FlushFails(t)
        \/ Restart

Spec == Init /\ [][Next]_vars
=============================================================================

------------------------------ MODULE CbaFile ------------------------------
(***************************************************************************)
(* The file between the CBA writer and the CBA reader: what cba_reader.py   *)
(* makes of what cba.c has written so far.                                  *)
(***************************************************************************)
EXTENDS Cba

R == INSTANCE CbaReader

\* What the reader has come to after the tokens at some positions of the file.
ReadingAt(at) == R!ReadAt(R!Start, file, at, "all", TRUE)

Unflushed == {i \in DOMAIN file : ~file[i].flush}

Mine(t) == {i \in DOMAIN file : file[i].by = t}

\* What an event writes under fd_lock, the header, the lengths, the chunks,
\* is contiguous in the file up to the flushes that cba_flush makes without
\* the lock: leave those out and the reader decodes every packet, and is
\* inside one only while somebody holds the lock.  Only a process killed between
\* two of these writes, or a write that fails, leaves one it cannot decode.
LockedEventsAreWhole ==
    (\A t \in Threads : cut[t] = Whole) =>
    LET r == ReadingAt(Unflushed)
    IN  /\ r.want # "lost"
        /\ fd_lock = NoOne => r.want = "packet"

\* The file loses, repeats and reorders nothing a thread wrote, also when the
\* process is killed and its successor continues the file: between two calls
\* of a thread, reading what it wrote gives the entries its calls describe,
\* the last of them at the end of the file.  A head that was overwritten before
\* any event and the strings deferred after it (a host that never answered)
\* leave no trace, the entries of two runs are not mixed up, and if an event was
\* cut in two the entries before its own remain.  If the head was not written the
\* event goes to the entry before, and the ones before that remain.
EntriesComeBack ==
    \A t \in Threads : Idle(t) =>
        LET r == ReadingAt(Mine(t))  final == R!Final(r, "all")
        IN  IF cut[t] = Whole
            THEN /\ r.out \o final[t] = Closed(t, log[t])
                 /\ \A u \in Threads \ {t} : final[u] = << >>
            ELSE IsPrefix(SubSeq(log[t].entries, 1, cut[t][1]), r.out)

\* "file is locked @ event level" (TODO.md:5), "must be called with lock
\* held" (cba.c:389): no reader of the file ever meets an event broken up by
\* another thread's bytes.
EventsAreWhole == ReadingAt(DOMAIN file).want # "lost"
=============================================================================

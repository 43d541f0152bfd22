------------------------------ MODULE Pipeline ------------------------------
(***************************************************************************)
(* The two threads of cscan.c and the results queue between them.  main    *)
(* feeds results into the queue (the scan loop or add_from_stdin), then    *)
(* queues one poison pill, joins process_thread and closes the .cba file.  *)
(* process_thread takes results and runs the modules on each, until it     *)
(* takes the pill.                                                         *)
(*                                                                         *)
(* The queue is a bounded FIFO with an atomic put and get: what Queue is   *)
(* proved to implement.  The counters of print_stats are left out.         *)
(***************************************************************************)
EXTENDS Integers, Sequences

CONSTANTS Pill,                 \* a result whose ip is 0
          NoResult,             \* process_thread's result before the first get
          max_pending_results   \* capacity of results_queue

VARIABLES fifo,    \* results_queue
          worker,  \* process_thread: "get", "exec" (in modules_exec), "done"
          result,  \* process_thread's local result
          main     \* "feed", "pill", "join", "close", "exited"; or "dead"
                   \* when err(), fail() or a signal ended the process

pipeline == <<fifo, worker, result, main>>

PipelineTypeOK(results) ==
    /\ fifo \in Seq(results \cup {Pill}) /\ Len(fifo) <= max_pending_results
    /\ worker \in {"get", "exec", "done"}
    /\ result \in results \cup {Pill, NoResult}
    /\ main \in {"feed", "pill", "join", "close", "exited", "dead"}

PipelineInit ==
    /\ fifo = <<>>
    /\ worker = "get"
    /\ result = NoResult
    /\ main = "feed"

Running == main \notin {"exited", "dead"}

(* queue_result: blocks while the queue is full *)
QueueResult(r) ==
    /\ Len(fifo) < max_pending_results
    /\ fifo' = Append(fifo, r)

-----------------------------------------------------------------------------
(* process_thread                                                          *)

(* Mutant of GetResult: the worker also stops when it has emptied the queue *)
GetResultStopsEarly ==
    /\ Running
    /\ worker = "get"
    /\ fifo # <<>>
    /\ fifo' = Tail(fifo)
    /\ result' = Head(fifo)
    /\ worker' = IF Head(fifo) = Pill \/ Tail(fifo) = <<>> THEN "done" ELSE "exec"
    /\ UNCHANGED main

GetResult ==
    /\ Running
    /\ worker = "get"
    /\ fifo # <<>>
    /\ fifo' = Tail(fifo)
    /\ result' = Head(fifo)
    /\ worker' = IF Head(fifo) = Pill THEN "done" ELSE "exec"
    /\ UNCHANGED main

(* modules_exec returns *)
ModulesDone ==
    /\ Running
    /\ worker = "exec"
    /\ worker' = "get"
    /\ UNCHANGED <<fifo, result, main>>

-----------------------------------------------------------------------------
(* main, once the feeding function has returned                            *)

DeliverPill ==
    /\ main = "pill"
    /\ QueueResult(Pill)
    /\ main' = "join"
    /\ UNCHANGED <<worker, result>>

(* Mutant of Join: the file is closed without waiting for process_thread *)
NoJoin ==
    /\ main = "join"
    /\ main' = "close"
    /\ UNCHANGED <<fifo, worker, result>>

Join ==
    /\ main = "join"
    /\ worker = "done"
    /\ main' = "close"
    /\ UNCHANGED <<fifo, worker, result>>

(* cba_close_file, and main returns *)
CloseFile ==
    /\ main = "close"
    /\ main' = "exited"
    /\ UNCHANGED <<fifo, worker, result>>

MainStep == DeliverPill \/ Join \/ CloseFile

(***************************************************************************)
(* The .cba file is closed, and the process ends, only after the modules   *)
(* have finished with every result that was queued.                        *)
(***************************************************************************)
DrainedBeforeClose ==
    main \in {"close", "exited"} => worker = "done" /\ fifo = <<>>

=============================================================================

----------------------------- MODULE StdinFeed -----------------------------
(***************************************************************************)
(* cscan -x: add_from_stdin feeds the results queue instead of the scan.   *)
(* SIGINT only sets done, which nothing reads in this mode.                *)
(***************************************************************************)
EXTENDS Pipeline

CONSTANTS Addresses, \* lines "ip:port" with an address inet_aton accepts
          BadIps,    \* lines with a port after something that is no address
          NoMatches, \* lines that scanf cannot match
          MaxLines   \* bound on the length of the input

ASSUME StdinAssumption ==
    /\ max_pending_results \in Nat \ {0}
    /\ MaxLines \in Nat
    /\ Pill \notin Addresses

Lines == Addresses \cup BadIps \cup NoMatches

VARIABLES lines,     \* the whole input
          input,     \* what is still to be read
          processed  \* results modules_exec was called on, in order

feed == <<lines, input, processed>>
stdin == <<pipeline, feed>>

Inputs == UNION {[1 .. n -> Lines] : n \in 0 .. MaxLines}

StdinInit ==
    /\ PipelineInit
    /\ lines \in Inputs
    /\ input = lines
    /\ processed = <<>>

(* parse_ip4 yields 0 when inet_aton fails: the result is a poison pill *)
Parsed(line) == IF line \in Addresses THEN line ELSE Pill

(* Mutant of AddLine: queue_put drops the item when the queue is full *)
AddLineOrDrop ==
    /\ main = "feed"
    /\ input # <<>>
    /\ Head(input) \notin NoMatches
    /\ fifo' = IF Len(fifo) < max_pending_results THEN Append(fifo, Parsed(Head(input))) ELSE fifo
    /\ input' = Tail(input)
    /\ UNCHANGED <<worker, result, main, lines, processed>>

(* scanf matches a line *)
AddLine ==
    /\ main = "feed"
    /\ input # <<>>
    /\ Head(input) \notin NoMatches
    /\ QueueResult(Parsed(Head(input)))
    /\ input' = Tail(input)
    /\ UNCHANGED <<worker, result, main, lines, processed>>

(* scanf fails, at the end of the input or at a line it cannot match *)
EndOfInput ==
    /\ main = "feed"
    /\ input # <<>> => Head(input) \in NoMatches
    /\ main' = "pill"
    /\ UNCHANGED <<fifo, worker, result, feed>>

StdinGets == GetResult /\ UNCHANGED feed

StdinReturns ==
    /\ ModulesDone
    /\ processed' = Append(processed, result)
    /\ UNCHANGED <<lines, input>>

StdinStopped == ~Running /\ UNCHANGED stdin

FeedStep == AddLine \/ EndOfInput

StdinNext ==
    \/ FeedStep
    \/ StdinGets
    \/ StdinReturns
    \/ MainStep /\ UNCHANGED feed
    \/ StdinStopped

StdinSpec == StdinInit /\ [][StdinNext]_stdin

(* both threads keep running and the modules return *)
StdinFairSpec ==
    /\ StdinSpec
    /\ WF_stdin(FeedStep) /\ WF_stdin(MainStep /\ UNCHANGED feed)
    /\ WF_stdin(StdinGets) /\ WF_stdin(StdinReturns)

-----------------------------------------------------------------------------
StdinTypeOK ==
    /\ PipelineTypeOK(Addresses)
    /\ lines \in Inputs
    /\ input \in Inputs
    /\ processed \in Seq(Addresses)

(* the input up to the first line scanf cannot match *)
Matched ==
    SubSeq(lines, 1,
           CHOOSE n \in 0 .. Len(lines) :
               /\ \A i \in 1 .. n : lines[i] \notin NoMatches
               /\ n = Len(lines) \/ lines[n + 1] \in NoMatches)

(***************************************************************************)
(* -h: "-x = don't scan, read results from stdin".  When the program ends, *)
(* the modules have been run on every address read, once each and in the   *)
(* order of the input.                                                     *)
(***************************************************************************)
StdinResultsAreProcessed ==
    main = "exited" =>
        \E at \in [1 .. Len(processed) -> 1 .. Len(Matched)] :
            /\ \A i, j \in 1 .. Len(processed) : i < j => at[i] < at[j]
            /\ \A i \in 1 .. Len(processed) : processed[i] = Matched[at[i]]
            /\ \A k \in 1 .. Len(Matched) :
                  Matched[k] \in Addresses <=> \E i \in 1 .. Len(processed) : at[i] = k

(***************************************************************************)
(* The program ends when its input does, however the two threads wait for  *)
(* each other on the way.                                                  *)
(***************************************************************************)
StdinRunEnds == <>(main = "exited")

=============================================================================

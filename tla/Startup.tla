------------------------------ MODULE Startup ------------------------------
(***************************************************************************)
(* main of cscan.c between parse_args and the scan: the limits and the      *)
(* daemonizing of setup_misc, and the opening of the output file.           *)
(***************************************************************************)
EXTENDS Options

CONSTANTS Inherited,    \* the sets of descriptors cscan may be started with
          MaxFd         \* bound on descriptors

(* the bound leaves room above stdio for the four that main opens *)
ASSUME StartupAssumption ==
    /\ MaxFd \in Nat /\ MaxFd >= 6
    /\ Inherited \subseteq SUBSET (0 .. MaxFd - 4)

VARIABLES fds,          \* what each descriptor is: "none" if it is closed,
                        \* "inherited", "proc", "null", "cba" or "epoll"
          leader        \* whether the process leads a session

start == <<fds, leader>>

StartupInit == Init /\ fds = [fd \in 0 .. MaxFd |-> "none"] /\ leader = FALSE

Step(p) == phase' = p /\ UNCHANGED <<argv, arg, opt, flags, ranges, ports>>

\* POSIX: the lowest descriptor not in use.
Lowest(f) == Min({fd \in DOMAIN f : f[fd] = "none"})

\* exec left these descriptors open; parse_args closed what it opened.
StartedWith(open) == [fd \in 0 .. MaxFd |-> IF fd \in open THEN "inherited" ELSE "none"]

AfterLimits == IF "-d" \in flags THEN "fork" ELSE "main"

\* read_int_from_file without a number to read: -1.
NoLimit(open) ==
    /\ Step(AfterLimits)
    /\ fds' = StartedWith(open)

\* A number: the descriptor it was read from stays open.
Limit(open) ==
    \E enough \in BOOLEAN :
       /\ Step(IF enough THEN AfterLimits ELSE "failed")
       /\ fds' = [StartedWith(open) EXCEPT ![Lowest(StartedWith(open))] = "proc"]

setup_misc ==
    /\ phase = "ready"
    /\ \E open \in Inherited : NoLimit(open) \/ Limit(open)
    /\ leader' \in BOOLEAN

\* The child goes on, and leads nothing; or err().
Fork ==
    /\ phase \in {"fork", "fork2"}
    /\ \/ Step("failed") /\ UNCHANGED leader
       \/ Step(IF phase = "fork" THEN "setsid" ELSE "null") /\ leader' = FALSE
    /\ UNCHANGED fds

setsid == /\ phase = "setsid" /\ ~leader
          /\ leader' = TRUE
          /\ Step("fork2") /\ UNCHANGED fds

(* Mutant of Surplus: the descriptor of /dev/null is always closed *)
SurplusAlways(fd) == {fd}

\* The descriptors to close once /dev/null is on 0, 1 and 2.
Surplus(fd) == IF fd > 2 THEN {fd} ELSE {}

\* /dev/null is opened and put in the place of the three, or err().
ToNull ==
    /\ phase = "null"
    /\ \/ Step("failed") /\ UNCHANGED fds
       \/ /\ Step("main")
          /\ LET null == Lowest(fds) IN
             fds' = [fd \in DOMAIN fds |->
                        IF fd \in Surplus(null) THEN "none"
                        ELSE IF fd \in 0 .. 2 THEN "null" ELSE fds[fd]]
    /\ UNCHANGED leader

List == /\ phase = "main" /\ "-l" \in flags
        /\ Step("list") /\ UNCHANGED start

cba_open_file ==
    /\ phase = "main" /\ "-l" \notin flags /\ opt.output_cba_file # "NULL"
    /\ \/ Step("failed") /\ UNCHANGED fds
       \/ Step("feed") /\ fds' = [fds EXCEPT ![Lowest(fds)] = "cba"]
    /\ UNCHANGED leader

NoFile == /\ phase = "main" /\ "-l" \notin flags /\ opt.output_cba_file = "NULL"
          /\ Step("feed") /\ UNCHANGED start

\* The worker is started, and main reads what to process.
Feed == /\ phase = "feed" /\ "-x" \in flags
        /\ Step("stdin") /\ UNCHANGED start

(* Mutant of Scan: epoll_create1 is left until there is something to watch *)
ScanNoEpoll == /\ phase = "feed" /\ "-x" \notin flags
               /\ Step("scan") /\ UNCHANGED start

\* Or conn_thread is called: epoll_create1, and then the loop.
Scan == /\ phase = "feed" /\ "-x" \notin flags
        /\ \/ Step("failed") /\ UNCHANGED fds
           \/ Step("scan") /\ fds' = [fds EXCEPT ![Lowest(fds)] = "epoll"]
        /\ UNCHANGED leader

StartupNext ==
    \/ Next /\ UNCHANGED start
    \/ setup_misc \/ Fork \/ setsid \/ ToNull \/ List \/ cba_open_file \/ NoFile \/ Feed \/ Scan

StartupSpec == StartupInit /\ [][StartupNext]_<<vars, start>>

-----------------------------------------------------------------------------
(***************************************************************************)
(* Whatever descriptors it was started with, a daemon has /dev/null, and   *)
(* nothing else, on 0, 1 and 2, and nowhere else; what it logs to stderr   *)
(* does not end up in its output file; and it can get no terminal back.    *)
(***************************************************************************)
DaemonIsDetached ==
    "-d" \in flags /\ phase \in {"list", "stdin", "scan"} =>
        /\ {fd \in DOMAIN fds : fds[fd] = "null"} = 0 .. 2
        /\ phase # "list" /\ opt.output_cba_file # "NULL" =>
              \E fd \in DOMAIN fds : fd > 2 /\ fds[fd] = "cba"
        /\ ~leader

(***************************************************************************)
(* However cscan was started, neither the socket of an attempt nor         *)
(* /dev/urandom gets descriptor 0 in a scan.  socket4_try_connect returns  *)
(* -sock-2 for an attempt in progress, which for 0 is its error, -2, and   *)
(* gen_rand32 takes 0 for a file that is not open yet.                     *)
(***************************************************************************)
ZeroIsTaken == phase = "scan" => fds[0] # "none"

=============================================================================

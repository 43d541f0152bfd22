------------------------------ MODULE Options ------------------------------
(***************************************************************************)
(* parse_args of cscan.c: the loop over the words of the command line, the  *)
(* values derived from them, and the loading of the targets.                *)
(***************************************************************************)
EXTENDS RangeConfigs, TLC

CONSTANTS
    ArgVs,          \* the command lines, argv[1] on
    Number,         \* what atoi makes of the words that are numbers
    PortSpecs,      \* the portspecs, by the word that spells them
    Compiled,       \* what compile-targets.py wrote, by the name of the file
    Content,        \* the files that exist, as words, by name
    Builtin         \* builtin_ranges and builtin_ports

\* "NULL" stands for the null pointer, which no word is.
ASSUME ArgvAssumption ==
    \A a \in ArgVs : /\ Len(a) \in Nat /\ DOMAIN a = 1 .. Len(a)
                     /\ \A i \in 1 .. Len(a) : a[i] # "NULL"

ASSUME FilesAssumption ==
    /\ \A f \in DOMAIN Compiled : IsConfig(Compiled[f])
    /\ \A f \in DOMAIN Content :
          \/ Content[f] = << >>
          \/ f \in DOMAIN Compiled /\ Content[f] = Words(Compiled[f])

VARIABLES
    argv,       \* the command line
    arg,        \* arg_offset
    opt,        \* the options, by the name of their variable
    flags,      \* the options without a value that were seen
    phase,      \* "parse", "derive", "ranges", "ports", "ready", and where it
                \* ends otherwise: "help", "failed" (fail()), "crashed" (SIGFPE)
    ranges, ports

vars == <<argv, arg, opt, flags, phase, ranges, ports>>

atoi(w) == IF w \in DOMAIN Number THEN Number[w] ELSE 0

\* The variable each option sets.
IntOption ==
    [w \in {"-t", "-r", "-m", "-pr", "-a", "-ct", "-cp", "-ca", "-b", "-bt", "-e", "-st"} |->
        CASE w = "-t" -> "connect_timeout"       [] w = "-r" -> "packets_per_second"
          [] w = "-m" -> "max_pending_sockets"   [] w = "-pr" -> "max_pending_results"
          [] w = "-a" -> "auto_interval"         [] w = "-ct" -> "connect_interval"
          [] w = "-cp" -> "canary_port"          [] w = "-ca" -> "canary_after"
          [] w = "-b" -> "bind_port"             [] w = "-bt" -> "bind_max_retries"
          [] w = "-e" -> "socket_list_excess"    [] w = "-st" -> "new_stats_every"]

NameOption ==
    [w \in {"-f", "-pf", "-p", "-o", "-bi", "-c", "-mod", "-mcfg", "-mf"} |->
        CASE w = "-f" -> "ranges_file"           [] w = "-pf" -> "ports_file"
          [] w = "-p" -> "portspec"              [] w = "-o" -> "output_cba_file"
          [] w = "-bi" -> "bind_ip_n"            [] w = "-c" -> "canary_ip"
          [] w = "-mod" -> "enabled_modules"     [] w = "-mcfg" -> "modules_config"
          [] w = "-mf" -> "metrics_file"]

(* Mutant of Clears: an option leaves the one it overrides alone *)
ClearsNothing(w) == {}

\* What else an option clears.
Clears(w) == IF w = "-m" THEN {"packets_per_second"}
             ELSE IF w = "-ct" THEN {"auto_interval"} ELSE {}

Defaults ==
    [packets_per_second |-> 520, max_pending_results |-> 50,
     max_pending_sockets |-> 0, connect_timeout |-> 800,
     auto_interval |-> 90, connect_interval |-> 500,
     canary_ip |-> "0.0.0.0", canary_port |-> 80, canary_after |-> 5600,
     bind_ip_n |-> "0.0.0.0", bind_port |-> 32005, bind_max_retries |-> 5,
     socket_list_excess |-> 1000,
     enabled_modules |-> "ENABLED_MODULES", modules_config |-> "MODULES_CFG",
     metrics_file |-> "metrics.dat",
     stats_every |-> 1000, new_stats_every |-> 0,
     ranges_file |-> "NULL", ports_file |-> "NULL", portspec |-> "NULL",
     output_cba_file |-> "NULL", output_files_dir |-> "NULL"]

StatsEveryCba == 10000

\* What begins with -h or --h, among the words of the command lines.
AsksForHelp(w) == w \in {"-h", "-help", "--h", "--help"}

Init ==
    /\ argv \in ArgVs
    /\ arg = 1
    /\ opt = Defaults
    /\ flags = {}
    /\ phase = IF argv # << >> /\ AsksForHelp(argv[1]) THEN "help" ELSE "parse"
    /\ ranges = NULL /\ ports = NULL

-----------------------------------------------------------------------------
\* One turn of the loop: a flag is noted; the last word ends the loop; an
\* option with a value takes the next word; any other word is passed over.
Noted == flags' = flags \cup ({argv[arg]} \cap {"-x", "-d", "-l"})

Set(field, value) ==
    opt' = [f \in DOMAIN opt |->
               IF f = field THEN value
               ELSE IF f \in Clears(argv[arg]) THEN 0 ELSE opt[f]]

TakeNumber ==
    /\ phase = "parse" /\ arg < Len(argv)
    /\ argv[arg] \in DOMAIN IntOption
    /\ Set(IntOption[argv[arg]], atoi(argv[arg + 1]))
    /\ arg' = arg + 2
    /\ Noted
    /\ UNCHANGED <<argv, phase, ranges, ports>>

TakeName ==
    /\ phase = "parse" /\ arg < Len(argv)
    /\ argv[arg] \in DOMAIN NameOption
    /\ Set(NameOption[argv[arg]], argv[arg + 1])
    /\ arg' = arg + 2
    /\ Noted
    /\ UNCHANGED <<argv, phase, ranges, ports>>

PassOver ==
    /\ phase = "parse" /\ arg < Len(argv)
    /\ argv[arg] \notin DOMAIN IntOption \cup DOMAIN NameOption
    /\ arg' = arg + 1
    /\ Noted
    /\ UNCHANGED <<argv, opt, phase, ranges, ports>>

LastWord ==
    /\ phase = "parse" /\ arg >= Len(argv)
    /\ flags' = IF arg = Len(argv)
                THEN flags \cup ({argv[arg]} \cap {"-x", "-d", "-l"}) ELSE flags
    /\ phase' = "derive"
    /\ UNCHANGED <<argv, arg, opt, ranges, ports>>

-----------------------------------------------------------------------------
\* The sockets follow from the rate, or the rate from the sockets.
Sockets == IF opt.packets_per_second # 0
           THEN (opt.packets_per_second * opt.connect_timeout) \div 1000
           ELSE opt.max_pending_sockets

\* auto_interval percent of the timeout, in microseconds, over the packets.
Interval(sockets) == (opt.auto_interval * opt.connect_timeout * 10) \div sockets

DividesByZero == \/ opt.packets_per_second = 0 /\ opt.connect_timeout = 0
                 \/ opt.auto_interval # 0 /\ Sockets = 0

Derive ==
    /\ phase = "derive"
    /\ \/ DividesByZero /\ phase' = "crashed" /\ UNCHANGED opt
       \/ /\ ~DividesByZero
          /\ phase' = "ranges"
          /\ opt' = [opt EXCEPT
                !.max_pending_sockets = Sockets,
                !.packets_per_second =
                    IF @ # 0 THEN @ ELSE (1000 * Sockets) \div opt.connect_timeout,
                !.connect_interval =
                    IF opt.auto_interval # 0 THEN Interval(Sockets) ELSE @,
                !.stats_every =
                    IF opt.new_stats_every # 0 THEN opt.new_stats_every
                    ELSE IF opt.output_cba_file # "NULL" THEN StatsEveryCba ELSE @]
    /\ UNCHANGED <<argv, arg, flags, ranges, ports>>

(* Mutant of Load: a file that holds no ranges is passed over *)
LoadOrBuiltin(name) ==
    IF name \notin DOMAIN Content THEN NULL
    ELSE IF load_range_cfg(Content[name]) = NULL THEN Builtin
    ELSE load_range_cfg(Content[name])

\* load_range_cfg by the name of the file: NULL if it cannot be opened.
Load(name) == IF name \in DOMAIN Content THEN load_range_cfg(Content[name]) ELSE NULL

LoadRanges ==
    /\ phase = "ranges"
    /\ ranges' = IF opt.ranges_file # "NULL" THEN Load(opt.ranges_file) ELSE Builtin
    /\ phase' = IF ranges' = NULL THEN "failed" ELSE "ports"
    /\ UNCHANGED <<argv, arg, opt, flags, ports>>

LoadPorts ==
    /\ phase = "ports"
    /\ \/ /\ opt.ports_file # "NULL"
          /\ ports' = Load(opt.ports_file)
       \/ /\ opt.ports_file = "NULL" /\ opt.portspec # "NULL"
          /\ ports' = make_port_ranges(PortSpecs[opt.portspec])
       \/ /\ opt.ports_file = "NULL" /\ opt.portspec = "NULL"
          /\ ports' = Builtin
    /\ phase' = IF ports' = NULL THEN "failed" ELSE "ready"
    /\ UNCHANGED <<argv, arg, opt, flags, ranges>>

Next == TakeNumber \/ TakeName \/ PassOver \/ LastWord \/ Derive \/ LoadRanges \/ LoadPorts

Spec == Init /\ [][Next]_vars

-----------------------------------------------------------------------------
\* Positions of argv where an option of a set stands.
Given(os) == {i \in DOMAIN argv : argv[i] \in os}

\* The options the help text names for a variable.
By == [packets_per_second |-> {"-r", "-m"}, auto_interval |-> {"-a", "-ct"},
       connect_timeout |-> {"-t"}, max_pending_sockets |-> {"-m"},
       connect_interval |-> {"-ct"}, new_stats_every |-> {"-st"},
       ranges_file |-> {"-f"}, ports_file |-> {"-pf"}, portspec |-> {"-p"}]

\* What it says an option makes of a variable.
Meant(f, w, value) ==
    IF (f = "packets_per_second" /\ w = "-m") \/ (f = "auto_interval" /\ w = "-ct") THEN 0
    ELSE IF f \in {"ranges_file", "ports_file", "portspec"} THEN value ELSE atoi(value)

\* An option that is said to override another is given, and the other behind it.
Contested(f) ==
    \E i, j \in Given(By[f]) :
        /\ i < j
        /\ \A k \in Given(By[f]) : k <= j
        /\ <<f, argv[i], argv[j]>> \in {<<"packets_per_second", "-m", "-r">>,
                                       <<"auto_interval", "-ct", "-a">>}

\* After the loop every number and every choice of targets holds the value given
\* last, or its default, whatever else stands around; an -m behind every -r has
\* cleared packets_per_second and a -ct behind every -a auto_interval.  Nothing is
\* claimed where the overridden option comes last: the code lets it decide, the help
\* text says that -m and -ct override it, without a condition.
LastValueWins ==
    phase = "derive" =>
        \A f \in DOMAIN By :
            \/ Contested(f)
            \/ Given(By[f]) = {} /\ opt[f] = Defaults[f]
            \/ \E last \in Given(By[f]) :
                  /\ \A i \in Given(By[f]) : i <= last
                  /\ opt[f] = Meant(f, argv[last], argv[last + 1])

\* The value of an option, where it is given last.
LastValue(w) == argv[(CHOOSE last \in Given({w}) : \A i \in Given({w}) : i <= last) + 1]

\* c is what compile-targets.py wrote to the file.
IsFrom(name, c) == name \in DOMAIN Compiled /\ c = Compiled[name]

\* cscan starts with the targets the command line names, as compile-targets.py
\* made them: a file that is missing or empty is never passed over for the
\* builtin targets or for another file, and ports in a file go before a portspec.
TargetsAreTheOnesNamed ==
    phase = "ready" =>
        /\ IF Given({"-f"}) # {} THEN IsFrom(LastValue("-f"), ranges) ELSE ranges = Builtin
        /\ IF Given({"-pf"}) # {} THEN IsFrom(LastValue("-pf"), ports)
           ELSE IF Given({"-p"}) # {} THEN ports = make_port_ranges(PortSpecs[LastValue("-p")])
           ELSE ports = Builtin
=============================================================================

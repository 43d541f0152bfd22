--------------------------- MODULE StartupProofs ---------------------------
(***************************************************************************)
(* Proofs about Startup, for every command line, every set of descriptors  *)
(* the program may be started with and every outcome of a system call.     *)
(***************************************************************************)
EXTENDS Startup, WellFoundedInduction, TLAPS

\* A set of naturals has a least element: induction without a predicate.
LEMMA LeastNumber ==
    ASSUME NEW T, T \subseteq Nat, T # {}
    PROVE  \E m \in T : \A x \in T : m <= x
  <1>1. IsWellFoundedOn(OpToRel(<, Nat), Nat)
    BY NatLessThanWellFounded
  <1>2. PICK m \in T : \A y \in T : ~(<<y, m>> \in OpToRel(<, Nat))
    BY <1>1, WFMin
  <1>3. \A y \in T : ~(y < m)
    BY <1>2 DEF OpToRel
  <1> QED
    BY <1>3

\* What Lowest yields while the descriptors from n on are closed.
LEMMA LowestIsFree ==
    ASSUME NEW f, DOMAIN f = 0 .. MaxFd, NEW n \in 0 .. MaxFd,
           \A fd \in n .. MaxFd : f[fd] = "none"
    PROVE  /\ Lowest(f) \in 0 .. n /\ f[Lowest(f)] = "none"
           /\ \A fd \in 0 .. MaxFd : fd < Lowest(f) => f[fd] # "none"
  <1> DEFINE Free == {fd \in DOMAIN f : f[fd] = "none"}
  <1>1. MaxFd \in Nat
    BY StartupAssumption
  <1>2. Free \subseteq Nat /\ n \in Free
    BY <1>1
  <1>3. \E m \in Free : \A x \in Free : m <= x
    BY <1>2, LeastNumber
  <1>4. Lowest(f) = Min(Free)
    BY DEF Lowest
  <1>5. Lowest(f) \in Free /\ \A x \in Free : Lowest(f) <= x
    BY <1>3, <1>4 DEF Min
  <1> QED
    BY <1>1, <1>2, <1>5

-----------------------------------------------------------------------------
(* Descriptors.                                                            *)

Before == {"parse", "derive", "ranges", "ports", "ready", "help", "failed", "crashed"}
Forks == {"fork", "setsid", "fork2", "null"}
Opening == {"main", "list", "feed", "stdin", "scan"}

\* How many descriptors at the top of the table are still closed.
Spare(p) == IF p \in Forks \cup {"main"} THEN 3 ELSE IF p = "feed" THEN 2 ELSE 1

(***************************************************************************)
(* The inductive invariant: the table always has a free descriptor to give *)
(* out; nothing is /dev/null before the daemon opens it, three descriptors *)
(* are after; the last child leads no session; the output file, when there *)
(* is one, is open by the time the worker starts; a scan begins when epoll *)
(* has filled the lowest gap.                                              *)
(***************************************************************************)
StartInv ==
    /\ phase \in Before \cup Forks \cup Opening
    /\ DOMAIN fds = 0 .. MaxFd
    /\ phase \in Forks \cup Opening =>
          \A fd \in MaxFd - Spare(phase) + 1 .. MaxFd : fds[fd] = "none"
    /\ phase \in Forks => \A fd \in 0 .. MaxFd : fds[fd] # "null"
    /\ phase = "null" => ~leader
    /\ phase \in Opening /\ "-d" \in flags =>
          /\ ~leader
          /\ \A fd \in 0 .. MaxFd : fds[fd] = "null" <=> fd \in 0 .. 2
    /\ phase \in {"feed", "stdin", "scan"} /\ "-d" \in flags /\ opt.output_cba_file # "NULL" =>
          \E fd \in 0 .. MaxFd : fd > 2 /\ fds[fd] = "cba"
    /\ phase = "scan" => fds[0] # "none"

LEMMA StartInit == StartupInit => StartInv
  BY DEF StartupInit, Init, StartInv, Before, Forks, Opening

LEMMA StartStep ==
    ASSUME StartInv, [StartupNext]_<<vars, start>>
    PROVE  StartInv'
  <1>0. MaxFd \in Nat /\ MaxFd >= 6
    BY StartupAssumption
  <1>1. CASE Next /\ UNCHANGED start
    <2>1. phase' \in Before
      BY <1>1 DEF Next, TakeNumber, TakeName, PassOver, LastWord, Derive, LoadRanges, LoadPorts,
                  Before
    <2>2. DOMAIN fds' = 0 .. MaxFd
      BY <1>1 DEF start, StartInv
    <2> QED
      BY <2>1, <2>2 DEF StartInv, Before, Forks, Opening
  <1>2. CASE setup_misc
    <2>1. PICK open \in Inherited : NoLimit(open) \/ Limit(open)
      BY <1>2 DEF setup_misc
    <2> DEFINE f == StartedWith(open)
    <2>2. open \subseteq 0 .. MaxFd - 4
      BY StartupAssumption
    <2>3. /\ DOMAIN f = 0 .. MaxFd
          /\ \A fd \in 0 .. MaxFd : f[fd] \in {"inherited", "none"}
          /\ \A fd \in MaxFd - 3 .. MaxFd : f[fd] = "none"
      BY <1>0, <2>2 DEF StartedWith
    <2> HIDE DEF f
    <2>4. AfterLimits \in {"fork", "main"} /\ ("-d" \in flags => AfterLimits = "fork")
      BY DEF AfterLimits
    <2>5. flags' = flags /\ opt' = opt /\ phase' \in {AfterLimits, "failed"}
      BY <2>1 DEF NoLimit, Limit, Step
    <2>6. CASE fds' = f
      <3>1. \A fd \in MaxFd - 3 + 1 .. MaxFd : fds'[fd] = "none"
        BY <1>0, <2>3, <2>6
      <3>2. \A fd \in 0 .. MaxFd : fds'[fd] # "null"
        BY <2>3, <2>6
      <3> QED
        BY <2>3, <2>4, <2>5, <2>6, <3>1, <3>2 DEF StartInv, Before, Forks, Opening, Spare
    <2>7. CASE fds' = [f EXCEPT ![Lowest(f)] = "proc"]
      <3>1. Lowest(f) \in 0 .. MaxFd - 3
        BY <1>0, <2>3, LowestIsFree
      <3>2. DOMAIN fds' = 0 .. MaxFd
        BY <2>3, <2>7
      <3>3. \A fd \in MaxFd - 3 + 1 .. MaxFd : fds'[fd] = "none"
        BY <1>0, <2>3, <2>7, <3>1
      <3>4. \A fd \in 0 .. MaxFd : fds'[fd] # "null"
        BY <2>3, <2>7
      <3> QED
        BY <2>4, <2>5, <3>2, <3>3, <3>4 DEF StartInv, Before, Forks, Opening, Spare
    <2> QED
      BY <2>1, <2>6, <2>7 DEF NoLimit, Limit, f
  <1>3. CASE Fork
    <2>1. phase \in {"fork", "fork2"} /\ fds' = fds
      BY <1>3 DEF Fork
    <2>2. \/ phase' = "failed"
          \/ phase' \in {"setsid", "null"} /\ leader' = FALSE
      BY <1>3 DEF Fork, Step
    <2>3. /\ DOMAIN fds = 0 .. MaxFd
          /\ \A fd \in MaxFd - 3 + 1 .. MaxFd : fds[fd] = "none"
          /\ \A fd \in 0 .. MaxFd : fds[fd] # "null"
      BY <2>1 DEF StartInv, Forks, Spare
    <2> QED
      BY <2>1, <2>2, <2>3 DEF StartInv, Before, Forks, Opening, Spare
  <1>4. CASE setsid
    <2>1. phase = "setsid" /\ fds' = fds /\ phase' = "fork2"
      BY <1>4 DEF setsid, Step
    <2>2. /\ DOMAIN fds = 0 .. MaxFd
          /\ \A fd \in MaxFd - 3 + 1 .. MaxFd : fds[fd] = "none"
          /\ \A fd \in 0 .. MaxFd : fds[fd] # "null"
      BY <2>1 DEF StartInv, Forks, Spare
    <2> QED
      BY <2>1, <2>2 DEF StartInv, Before, Forks, Opening, Spare
  <1>5. CASE ToNull
    <2>1. phase = "null" /\ leader' = leader /\ ~leader
      BY <1>5 DEF ToNull, StartInv
    <2>2. /\ DOMAIN fds = 0 .. MaxFd
          /\ \A fd \in MaxFd - 3 + 1 .. MaxFd : fds[fd] = "none"
          /\ \A fd \in 0 .. MaxFd : fds[fd] # "null"
      BY <2>1 DEF StartInv, Forks, Spare
    <2>3. CASE phase' = "failed" /\ fds' = fds
      BY <2>2, <2>3 DEF StartInv, Before, Forks, Opening
    <2>4. CASE /\ phase' = "main"
               /\ LET null == Lowest(fds) IN
                  fds' = [fd \in DOMAIN fds |->
                             IF fd \in Surplus(null) THEN "none"
                             ELSE IF fd \in 0 .. 2 THEN "null" ELSE fds[fd]]
      <3>1. DOMAIN fds' = 0 .. MaxFd
        BY <2>2, <2>4
      <3>2. \A fd \in 0 .. MaxFd : fds'[fd] = "null" <=> fd \in 0 .. 2
        <4>1. \A fd \in Surplus(Lowest(fds)) : ~(fd \in 0 .. 2)
          BY <1>0, <2>2, LowestIsFree DEF Surplus
        <4> QED
          BY <1>0, <2>2, <2>4, <4>1
      <3>3. \A fd \in MaxFd - 3 + 1 .. MaxFd : fds'[fd] = "none"
        BY <1>0, <2>2, <2>4
      <3> QED
        BY <2>1, <2>4, <3>1, <3>2, <3>3 DEF StartInv, Before, Forks, Opening, Spare
    <2> QED
      BY <1>5, <2>3, <2>4 DEF ToNull, Step
  <1>6. CASE UNCHANGED <<vars, start>>
    BY <1>6 DEF StartInv, vars, start, Spare
  <1>7. CASE List \/ NoFile \/ Feed
    <2>1. /\ fds' = fds /\ leader' = leader /\ flags' = flags /\ opt' = opt
          /\ \/ phase = "main" /\ phase' = "list"
             \/ phase = "main" /\ phase' = "feed" /\ opt.output_cba_file = "NULL"
             \/ phase = "feed" /\ phase' = "stdin"
      BY <1>7 DEF List, NoFile, Feed, Step, start
    <2>2. \A fd \in MaxFd - Spare(phase)' + 1 .. MaxFd : fds[fd] = "none"
      <3>1. Spare(phase) \in {2, 3} /\ Spare(phase)' \in {1, 2} /\ Spare(phase)' <= Spare(phase)
        BY <2>1 DEF Spare, Forks
      <3>2. \A fd \in MaxFd - Spare(phase) + 1 .. MaxFd : fds[fd] = "none"
        BY <2>1 DEF StartInv, Opening
      <3> QED
        BY <1>0, <3>1, <3>2
    <2> QED
      BY <2>1, <2>2 DEF StartInv, Before, Forks, Opening
  <1>8. CASE cba_open_file \/ Scan
    <2>1. /\ phase \in {"main", "feed"}
          /\ leader' = leader /\ flags' = flags /\ opt' = opt
      BY <1>8 DEF cba_open_file, Scan, Step
    <2>2. CASE phase' = "failed" /\ fds' = fds
      BY <2>2 DEF StartInv, Before, Forks, Opening
    <2>3. ASSUME NEW new \in {"cba", "epoll"},
                 \/ phase = "main" /\ phase' = "feed" /\ new = "cba"
                 \/ phase = "feed" /\ phase' = "scan" /\ new = "epoll",
                 fds' = [fds EXCEPT ![Lowest(fds)] = new]
          PROVE  StartInv'
      <3>1. /\ DOMAIN fds = 0 .. MaxFd
            /\ \A fd \in MaxFd - Spare(phase) + 1 .. MaxFd : fds[fd] = "none"
        BY <2>1 DEF StartInv, Opening
      <3>2. Spare(phase) \in {2, 3} /\ Spare(phase)' = Spare(phase) - 1
        BY <2>3 DEF Spare, Forks
      <3>3. /\ Lowest(fds) \in 0 .. MaxFd - Spare(phase) + 1 /\ fds[Lowest(fds)] = "none"
            /\ \A fd \in 0 .. MaxFd : fd < Lowest(fds) => fds[fd] # "none"
        <4>1. MaxFd - Spare(phase) + 1 \in 0 .. MaxFd
          BY <1>0, <3>2
        <4> QED
          BY <3>1, <4>1, LowestIsFree
      <3>4. /\ DOMAIN fds' = 0 .. MaxFd
            /\ fds'[Lowest(fds)] = new
            /\ \A fd \in 0 .. MaxFd : fd # Lowest(fds) => fds'[fd] = fds[fd]
        BY <1>0, <2>3, <3>1, <3>2, <3>3
      <3>5. \A fd \in MaxFd - Spare(phase)' + 1 .. MaxFd : fds'[fd] = "none"
        BY <1>0, <3>1, <3>2, <3>3, <3>4
      <3>6. "-d" \in flags => /\ ~leader /\ Lowest(fds) > 2
                              /\ \A fd \in 0 .. MaxFd : fds'[fd] = "null" <=> fd \in 0 .. 2
        <4>1. "-d" \in flags => /\ ~leader
                                /\ \A fd \in 0 .. MaxFd : fds[fd] = "null" <=> fd \in 0 .. 2
          BY <2>1 DEF StartInv, Opening
        <4>2. Lowest(fds) \in 0 .. MaxFd
          BY <1>0, <3>2, <3>3
        <4>3. "-d" \in flags => Lowest(fds) > 2
          BY <1>0, <3>3, <4>1, <4>2
        <4> QED
          BY <1>0, <3>4, <4>1, <4>2, <4>3
      <3>7. phase' \in {"feed", "scan"} /\ "-d" \in flags /\ opt.output_cba_file # "NULL" =>
               \E fd \in 0 .. MaxFd : fd > 2 /\ fds'[fd] = "cba"
        <4>1. CASE phase = "main"
          <5>1. Lowest(fds) \in 0 .. MaxFd
            BY <1>0, <3>2, <3>3
          <5> QED
            BY <2>3, <3>4, <3>6, <4>1, <5>1
        <4>2. CASE phase = "feed"
          <5>1. "-d" \in flags /\ opt.output_cba_file # "NULL" =>
                   \E fd \in 0 .. MaxFd : fd > 2 /\ fds[fd] = "cba"
            BY <4>2 DEF StartInv
          <5> QED
            BY <3>3, <3>4, <5>1
        <4> QED
          BY <2>1, <4>1, <4>2
      <3>8. fds'[0] # "none"
        BY <1>0, <2>3, <3>2, <3>3, <3>4
      <3> QED
        BY <2>1, <2>3, <3>4, <3>5, <3>6, <3>7, <3>8 DEF StartInv, Before, Forks, Opening
    <2> QED
      BY <1>8, <2>2, <2>3 DEF cba_open_file, Scan, Step
  <1> QED
    BY <1>1, <1>2, <1>3, <1>4, <1>5, <1>6, <1>7, <1>8 DEF StartupNext

LEMMA StartInvariant == StartupSpec => []StartInv
  BY StartInit, StartStep, PTL DEF StartupSpec

(* A daemon has /dev/null on 0, 1 and 2 and nowhere else, its output file  *)
(* is not among them, and it leads no session, whatever descriptors the    *)
(* program was started with.                                               *)
THEOREM DaemonAlwaysDetached == StartupSpec => []DaemonIsDetached
  <1>1. StartInv => DaemonIsDetached
    <2> SUFFICES ASSUME StartInv, "-d" \in flags, phase \in {"list", "stdin", "scan"}
                 PROVE  /\ {fd \in DOMAIN fds : fds[fd] = "null"} = 0 .. 2
                        /\ phase # "list" /\ opt.output_cba_file # "NULL" =>
                              \E fd \in DOMAIN fds : fd > 2 /\ fds[fd] = "cba"
                        /\ ~leader
      BY DEF DaemonIsDetached
    <2>1. DOMAIN fds = 0 .. MaxFd /\ 0 .. 2 \subseteq 0 .. MaxFd
      BY StartupAssumption DEF StartInv
    <2>2. ~leader /\ \A fd \in 0 .. MaxFd : fds[fd] = "null" <=> fd \in 0 .. 2
      BY DEF StartInv, Opening
    <2> QED
      BY <2>1, <2>2 DEF StartInv
  <1> QED
    BY <1>1, StartInvariant, PTL

(* When the scan begins descriptor 0 is in use, so that no socket of an    *)
(* attempt can be mistaken for an error and no open file for a closed one. *)
THEOREM ZeroAlwaysTaken == StartupSpec => []ZeroIsTaken
  <1>1. StartInv => ZeroIsTaken
    BY DEF StartInv, ZeroIsTaken
  <1> QED
    BY <1>1, StartInvariant, PTL

-----------------------------------------------------------------------------
(* The order of the options.                                               *)

ValueOptions == DOMAIN IntOption \cup DOMAIN NameOption

\* The command line as the help text describes it: an option that takes a value
\* has one, and no value spells such an option.
WellFormed(a) ==
    \A i \in 1 .. Len(a) :
        a[i] \in ValueOptions => i < Len(a) /\ a[i + 1] \notin ValueOptions

\* The variables that name targets.
Named == {"ranges_file", "ports_file", "portspec"}

\* What the first n words make of f.
Decided(f, n) ==
    \/ /\ \A i \in 1 .. n : argv[i] \notin By[f]
       /\ opt[f] = Defaults[f]
    \/ \E last \in 1 .. n :
          /\ argv[last] \in By[f]
          /\ \A i \in 1 .. n : argv[i] \in By[f] => i <= last
          /\ opt[f] = Meant(f, argv[last], argv[last + 1])

(***************************************************************************)
(* The inductive invariant: what LastValueWins says of the command line    *)
(* holds of the words before arg, whichever option comes last; what names  *)
(* targets is left as it is until they are loaded.                         *)
(***************************************************************************)
OrderInv ==
    /\ argv \in ArgVs
    /\ arg \in Nat \ {0} /\ arg <= Len(argv) + 1
    /\ DOMAIN By \subseteq DOMAIN opt
    /\ phase = "parse" => \A f \in DOMAIN By : Decided(f, arg - 1)
    /\ phase = "derive" => \A f \in DOMAIN By : Decided(f, Len(argv))
    /\ phase \in {"ranges", "ports", "ready"} => \A f \in Named : Decided(f, Len(argv))

LEMMA OrderInit ==
    ASSUME StartupInit
    PROVE  OrderInv
  <1>1. argv \in ArgVs /\ arg = 1 /\ opt = Defaults /\ phase \in {"help", "parse"}
    BY DEF StartupInit, Init
  <1>2. Len(argv) \in Nat
    BY <1>1, ArgvAssumption
  <1>3. DOMAIN By \subseteq DOMAIN opt
    BY <1>1 DEF By, Defaults
  <1>4. \A f \in DOMAIN By : Decided(f, arg - 1)
    <2>1. 1 .. arg - 1 = {}
      BY <1>1
    <2> QED
      BY <1>1, <2>1 DEF Decided
  <1> QED
    BY <1>1, <1>2, <1>3, <1>4 DEF OrderInv

\* What an option changes is what the help text names it for.
LEMMA OptionSets ==
    ASSUME NEW w \in DOMAIN IntOption, NEW f \in DOMAIN By, NEW value
    PROVE  /\ w \in By[f] => /\ IntOption[w] = f => Meant(f, w, value) = atoi(value)
                             /\ IntOption[w] # f => f \in Clears(w) /\ Meant(f, w, value) = 0
           /\ w \notin By[f] => IntOption[w] # f /\ f \notin Clears(w)
  BY DEF IntOption, By, Clears, Meant

LEMMA NamesSet ==
    ASSUME NEW w \in DOMAIN NameOption, NEW f \in DOMAIN By, NEW value
    PROVE  /\ f \notin Clears(w)
           /\ w \in By[f] => NameOption[w] = f /\ Meant(f, w, value) = value
           /\ w \notin By[f] => NameOption[w] # f
  BY DEF NameOption, By, Clears, Meant

LEMMA ByValueOptions == \A f \in DOMAIN By : By[f] \subseteq ValueOptions
  BY DEF By, ValueOptions, IntOption, NameOption

\* Words that are no option of f's change nothing of what is decided.
LEMMA StillDecided ==
    ASSUME NEW f, NEW n \in Nat, NEW m \in Nat, n <= m, Decided(f, n),
           argv' = argv, opt'[f] = opt[f],
           \A i \in n + 1 .. m : argv[i] \notin By[f]
    PROVE  Decided(f, m)'
  <1>1. \A i \in 1 .. m : i \in 1 .. n \/ argv[i] \notin By[f]
    <2>1. \A i \in 1 .. m : i \in 1 .. n \/ i \in n + 1 .. m
      OBVIOUS
    <2> QED
      BY <2>1
  <1>2. CASE (\A i \in 1 .. n : argv[i] \notin By[f]) /\ opt[f] = Defaults[f]
    BY <1>1, <1>2 DEF Decided
  <1>3. CASE \E last \in 1 .. n :
                /\ argv[last] \in By[f]
                /\ \A i \in 1 .. n : argv[i] \in By[f] => i <= last
                /\ opt[f] = Meant(f, argv[last], argv[last + 1])
    <2>1. PICK last \in 1 .. n :
             /\ argv[last] \in By[f]
             /\ \A i \in 1 .. n : argv[i] \in By[f] => i <= last
             /\ opt[f] = Meant(f, argv[last], argv[last + 1])
      BY <1>3
    <2>2. last \in 1 .. m /\ \A i \in 1 .. m : argv[i] \in By[f] => i <= last
      BY <1>1, <2>1
    <2>3. opt'[f] = Meant(f, argv'[last], argv'[last + 1])
      BY <2>1
    <2> QED
      BY <2>1, <2>2, <2>3 DEF Decided
  <1> QED
    BY <1>2, <1>3 DEF Decided

LEMMA OrderStep ==
    ASSUME \A a \in ArgVs : WellFormed(a), OrderInv, [StartupNext]_<<vars, start>>
    PROVE  OrderInv'
  <1>0. /\ argv \in ArgVs /\ WellFormed(argv) /\ Len(argv) \in Nat
        /\ arg \in Nat \ {0} /\ arg <= Len(argv) + 1 /\ DOMAIN By \subseteq DOMAIN opt
    BY ArgvAssumption DEF OrderInv
  <1>k. PICK k \in Nat : k = arg
    BY <1>0
  <1>1. CASE TakeNumber
    <2>1. /\ phase = "parse" /\ phase' = "parse" /\ arg < Len(argv) /\ arg' = arg + 2
          /\ argv[arg] \in DOMAIN IntOption /\ argv' = argv
          /\ Set(IntOption[argv[arg]], atoi(argv[arg + 1]))
      BY <1>1 DEF TakeNumber
    <2>2. argv[arg + 1] \notin ValueOptions
      BY <1>0, <2>1 DEF WellFormed, ValueOptions
    <2>3. DOMAIN opt' = DOMAIN opt
      BY <2>1 DEF Set
    <2>4. ASSUME NEW f \in DOMAIN By
          PROVE  Decided(f, k + 1)'
      <3>1. opt'[f] = IF IntOption[argv[arg]] = f THEN atoi(argv[arg + 1])
                      ELSE IF f \in Clears(argv[arg]) THEN 0 ELSE opt[f]
        BY <1>0, <2>1 DEF Set
      <3>2. argv[arg + 1] \notin By[f]
        BY <2>2, ByValueOptions
      <3>3. CASE argv[arg] \in By[f]
        <4>1. opt'[f] = Meant(f, argv[arg], argv[arg + 1])
          BY <2>1, <3>1, <3>3, OptionSets
        <4>2. \A i \in 1 .. arg + 1 : argv[i] \in By[f] => i <= arg
          BY <1>0, <3>2
        <4>3. arg \in 1 .. arg + 1
          BY <1>0
        <4> QED
          BY <1>k, <2>1, <3>3, <4>1, <4>2, <4>3 DEF Decided
      <3>4. CASE argv[arg] \notin By[f]
        <4>1. opt'[f] = opt[f]
          BY <2>1, <3>1, <3>4, OptionSets
        <4>2. Decided(f, arg - 1)
          BY <2>1 DEF OrderInv
        <4>3. arg - 1 \in Nat /\ arg + 1 \in Nat /\ arg - 1 <= arg + 1
          BY <1>0
        <4>4. \A i \in (arg - 1) + 1 .. arg + 1 : argv[i] \notin By[f]
          <5>1. \A i \in (arg - 1) + 1 .. arg + 1 : i = arg \/ i = arg + 1
            BY <1>0
          <5> QED
            BY <3>2, <3>4, <5>1
        <4> QED
          BY <1>k, <2>1, <4>1, <4>2, <4>3, <4>4, StillDecided
      <3> QED
        BY <3>3, <3>4
    <2>5. arg' \in Nat \ {0} /\ arg' <= Len(argv) + 1 /\ arg' - 1 = k + 1
      BY <1>0, <1>k, <2>1
    <2> QED
      BY <1>0, <2>1, <2>3, <2>4, <2>5 DEF OrderInv, Decided
  <1>2. CASE TakeName
    <2>1. /\ phase = "parse" /\ phase' = "parse" /\ arg < Len(argv) /\ arg' = arg + 2
          /\ argv[arg] \in DOMAIN NameOption /\ argv' = argv
          /\ Set(NameOption[argv[arg]], argv[arg + 1])
      BY <1>2 DEF TakeName
    <2>2. argv[arg + 1] \notin ValueOptions
      BY <1>0, <2>1 DEF WellFormed, ValueOptions
    <2>3. DOMAIN opt' = DOMAIN opt
      BY <2>1 DEF Set
    <2>4. ASSUME NEW f \in DOMAIN By
          PROVE  Decided(f, k + 1)'
      <3>1. opt'[f] = IF NameOption[argv[arg]] = f THEN argv[arg + 1]
                      ELSE IF f \in Clears(argv[arg]) THEN 0 ELSE opt[f]
        BY <1>0, <2>1 DEF Set
      <3>2. argv[arg + 1] \notin By[f]
        BY <2>2, ByValueOptions
      <3>3. CASE argv[arg] \in By[f]
        <4>1. opt'[f] = Meant(f, argv[arg], argv[arg + 1])
          BY <2>1, <3>1, <3>3, NamesSet
        <4>2. \A i \in 1 .. arg + 1 : argv[i] \in By[f] => i <= arg
          BY <1>0, <3>2
        <4>3. arg \in 1 .. arg + 1
          BY <1>0
        <4> QED
          BY <1>k, <2>1, <3>3, <4>1, <4>2, <4>3 DEF Decided
      <3>4. CASE argv[arg] \notin By[f]
        <4>1. opt'[f] = opt[f]
          BY <2>1, <3>1, <3>4, NamesSet
        <4>2. Decided(f, arg - 1)
          BY <2>1 DEF OrderInv
        <4>3. arg - 1 \in Nat /\ arg + 1 \in Nat /\ arg - 1 <= arg + 1
          BY <1>0
        <4>4. \A i \in (arg - 1) + 1 .. arg + 1 : argv[i] \notin By[f]
          <5>1. \A i \in (arg - 1) + 1 .. arg + 1 : i = arg \/ i = arg + 1
            BY <1>0
          <5> QED
            BY <3>2, <3>4, <5>1
        <4> QED
          BY <1>k, <2>1, <4>1, <4>2, <4>3, <4>4, StillDecided
      <3> QED
        BY <3>3, <3>4
    <2>5. arg' \in Nat \ {0} /\ arg' <= Len(argv) + 1 /\ arg' - 1 = k + 1
      BY <1>0, <1>k, <2>1
    <2> QED
      BY <1>0, <2>1, <2>3, <2>4, <2>5 DEF OrderInv, Decided
  <1>3. CASE PassOver
    <2>1. /\ phase = "parse" /\ phase' = "parse" /\ arg < Len(argv) /\ arg' = arg + 1
          /\ argv[arg] \notin ValueOptions /\ argv' = argv /\ opt' = opt
      BY <1>3 DEF PassOver, ValueOptions
    <2>2. ASSUME NEW f \in DOMAIN By
          PROVE  Decided(f, k)'
      <3>1. Decided(f, arg - 1)
        BY <2>1 DEF OrderInv
      <3>2. arg - 1 \in Nat /\ arg \in Nat /\ arg - 1 <= arg
        BY <1>0
      <3>3. \A i \in (arg - 1) + 1 .. arg : argv[i] \notin By[f]
        <4>1. \A i \in (arg - 1) + 1 .. arg : i = arg
          BY <1>0
        <4> QED
          BY <2>1, <4>1, ByValueOptions
      <3> QED
        BY <1>k, <2>1, <3>1, <3>2, <3>3, StillDecided
    <2>3. arg' \in Nat \ {0} /\ arg' <= Len(argv) + 1 /\ arg' - 1 = k
      BY <1>0, <1>k, <2>1
    <2> QED
      BY <1>0, <2>1, <2>2, <2>3 DEF OrderInv, Decided
  <1>4. CASE LastWord
    <2>1. /\ phase = "parse" /\ phase' = "derive" /\ arg >= Len(argv)
          /\ argv' = argv /\ opt' = opt /\ arg' = arg
      BY <1>4 DEF LastWord
    <2>2. ASSUME NEW f \in DOMAIN By
          PROVE  Decided(f, Len(argv))'
      <3>1. Decided(f, arg - 1)
        BY <2>1 DEF OrderInv
      <3>2. CASE arg = Len(argv) + 1
        <4>1. arg - 1 = Len(argv)
          BY <1>0, <3>2
        <4> QED
          BY <2>1, <3>1, <4>1 DEF Decided
      <3>3. CASE arg = Len(argv)
        <4>1. argv[arg] \notin ValueOptions
          BY <1>0, <3>3 DEF WellFormed
        <4>2. arg - 1 \in Nat /\ arg - 1 <= Len(argv)
          BY <1>0, <3>3
        <4>3. \A i \in (arg - 1) + 1 .. Len(argv) : argv[i] \notin By[f]
          <5>1. \A i \in (arg - 1) + 1 .. Len(argv) : i = arg
            BY <1>0, <3>3
          <5> QED
            BY <4>1, <5>1, ByValueOptions
        <4>4. Decided(f, k)'
          BY <1>0, <1>k, <2>1, <3>1, <3>3, <4>2, <4>3, StillDecided
        <4> QED
          BY <1>k, <2>1, <3>3, <4>4 DEF Decided
      <3> QED
        BY <1>0, <2>1, <3>2, <3>3
    <2> QED
      BY <1>0, <2>1, <2>2 DEF OrderInv, Decided
  <1>5. CASE Derive
    <2>1. /\ phase = "derive" /\ phase' \in {"ranges", "crashed"}
          /\ argv' = argv /\ arg' = arg /\ DOMAIN opt' = DOMAIN opt
      BY <1>5 DEF Derive
    <2>2. \A f \in Named : f \in DOMAIN By /\ opt'[f] = opt[f]
      <3>1. \A f \in Named : f \in DOMAIN By
        BY DEF Named, By
      <3>2. /\ "ranges_file" \in DOMAIN opt /\ "ports_file" \in DOMAIN opt
            /\ "portspec" \in DOMAIN opt
        BY <1>0, <3>1 DEF Named
      <3>3. CASE DividesByZero
        BY <1>5, <3>1, <3>3 DEF Derive
      <3>4. CASE ~DividesByZero
        <4> DEFINE rate == (1000 * Sockets) \div opt.connect_timeout
                   stats == IF opt.new_stats_every # 0 THEN opt.new_stats_every
                            ELSE IF opt.output_cba_file # "NULL" THEN StatsEveryCba
                            ELSE opt.stats_every
        <4>1. opt' = [opt EXCEPT
                 !.max_pending_sockets = Sockets,
                 !.packets_per_second = IF @ # 0 THEN @ ELSE rate,
                 !.connect_interval = IF opt.auto_interval # 0 THEN Interval(Sockets) ELSE @,
                 !.stats_every = stats]
          BY <1>5, <3>4 DEF Derive
        <4> HIDE DEF rate, stats
        <4>2. /\ opt'.ranges_file = opt.ranges_file /\ opt'.ports_file = opt.ports_file
              /\ opt'.portspec = opt.portspec
          BY <3>2, <4>1
        <4> QED
          BY <3>1, <4>2 DEF Named
      <3> QED
        BY <3>3, <3>4
    <2>3. ASSUME NEW f \in Named PROVE Decided(f, Len(argv))'
      <3>1. Decided(f, Len(argv)) /\ opt'[f] = opt[f]
        BY <2>1, <2>2 DEF OrderInv
      <3> QED
        BY <2>1, <3>1 DEF Decided
    <2> QED
      BY <1>0, <2>1, <2>3 DEF OrderInv
  <1>6. CASE LoadRanges \/ LoadPorts
    <2>1. /\ phase \in {"ranges", "ports"} /\ phase' \in {"ports", "ready", "failed"}
          /\ argv' = argv /\ arg' = arg /\ opt' = opt
      BY <1>6 DEF LoadRanges, LoadPorts
    <2>2. \A f \in Named : Decided(f, Len(argv))
      BY <2>1 DEF OrderInv
    <2>3. \A f \in Named : Decided(f, Len(argv))'
      BY <2>1, <2>2 DEF Decided
    <2> QED
      BY <1>0, <2>1, <2>3 DEF OrderInv
  <1>8. CASE setup_misc \/ Fork \/ setsid \/ ToNull \/ List
             \/ cba_open_file \/ NoFile \/ Feed \/ Scan
    <2>1. /\ phase' \notin {"parse", "derive", "ranges", "ports", "ready"}
          /\ argv' = argv /\ arg' = arg /\ opt' = opt
      BY <1>8 DEF setup_misc, NoLimit, Limit, AfterLimits, Fork, setsid,
                  ToNull, List, cba_open_file, NoFile, Feed, Scan, Step
    <2> QED
      BY <1>0, <2>1 DEF OrderInv
  <1>7. CASE UNCHANGED <<vars, start>>
    BY <1>7 DEF vars, OrderInv, Decided
  <1> QED
    BY <1>1, <1>2, <1>3, <1>4, <1>5, <1>6, <1>7, <1>8 DEF StartupNext, Next

(* Of several options for one variable the last one on the command line    *)
(* decides, -m behind -r and -ct behind -a included, however many options  *)
(* there are, if the line is written as the help text describes.  Of an -r *)
(* behind -m and an -a behind -ct nothing is claimed.                      *)
THEOREM LastValueAlwaysWins ==
    ASSUME \A a \in ArgVs : WellFormed(a)
    PROVE  StartupSpec => []LastValueWins
  <1>1. OrderInv => LastValueWins
    <2> SUFFICES ASSUME OrderInv, phase = "derive", NEW f \in DOMAIN By, ~Contested(f)
                 PROVE  \/ Given(By[f]) = {} /\ opt[f] = Defaults[f]
                        \/ \E last \in Given(By[f]) :
                              /\ \A i \in Given(By[f]) : i <= last
                              /\ opt[f] = Meant(f, argv[last], argv[last + 1])
      BY DEF LastValueWins
    <2>1. Decided(f, Len(argv)) /\ DOMAIN argv = 1 .. Len(argv)
      BY ArgvAssumption DEF OrderInv
    <2>2. \A i : i \in Given(By[f]) <=> i \in 1 .. Len(argv) /\ argv[i] \in By[f]
      BY <2>1 DEF Given
    <2> QED
      BY <2>1, <2>2 DEF Decided
  <1>2. OrderInv /\ [StartupNext]_<<vars, start>> => OrderInv'
    BY OrderStep
  <1>3. StartupInit => OrderInv
    BY OrderInit
  <1> QED
    BY <1>1, <1>2, <1>3, PTL DEF StartupSpec

-----------------------------------------------------------------------------
(* The targets.                                                            *)

LEMMA Concatenation ==
    ASSUME NEW a \in Seq(Int), NEW b \in Seq(Int)
    PROVE  /\ a \o b \in Seq(Int) /\ Len(a \o b) = Len(a) + Len(b)
           /\ \A i \in 1 .. Len(a) : (a \o b)[i] = a[i]
           /\ \A i \in 1 .. Len(b) : (a \o b)[Len(a) + i] = b[i]
  OBVIOUS

\* Reading a whole file gives the configuration that was written.
LEMMA LoadsBack ==
    ASSUME NEW c, IsConfig(c)
    PROVE  load_range_cfg(Words(c)) = c
  <1> DEFINE n == c.num
  <1>0. /\ n \in Nat /\ c.max_idx \in Int /\ c.mask \in Int
        /\ c.key \in [0 .. n - 1 -> Int] /\ c.sofar \in [0 .. n - 1 -> Int]
    BY DEF IsConfig
  <1> DEFINE head == <<n, c.max_idx, c.mask>>
             tail == [i \in 1 .. 2 * n |-> IF i % 2 = 1 THEN c.key[(i - 1) \div 2]
                                                        ELSE c.sofar[(i - 1) \div 2]]
             w == head \o tail
             At(i) == IF i <= Len(w) THEN w[i] ELSE Garbage
  <1>1. Words(c) = w
    BY DEF Words
  <1> HIDE DEF n
  <1>2. head \in Seq(Int) /\ Len(head) = 3 /\ head[1] = n /\ head[2] = c.max_idx /\ head[3] = c.mask
    BY <1>0
  <1>3. tail \in Seq(Int) /\ Len(tail) = 2 * n
    <2>1. \A i \in 1 .. 2 * n : (i - 1) \div 2 \in 0 .. n - 1
      BY <1>0
    <2>2. \A i \in 1 .. 2 * n : c.key[(i - 1) \div 2] \in Int /\ c.sofar[(i - 1) \div 2] \in Int
      BY <1>0, <2>1
    <2>3. tail \in [1 .. 2 * n -> Int]
      BY <1>0, <2>2
    <2>4. 2 * n \in Nat
      BY <1>0
    <2> HIDE DEF tail
    <2> QED
      BY <2>3, <2>4
  <1>4. \A i \in 0 .. n - 1 : /\ tail[2 * i + 1] = c.key[i]
                              /\ tail[2 * i + 2] = c.sofar[i]
    <2> SUFFICES ASSUME NEW i \in 0 .. n - 1
                 PROVE  tail[2 * i + 1] = c.key[i] /\ tail[2 * i + 2] = c.sofar[i]
      OBVIOUS
    <2>1. 2 * i + 1 \in 1 .. 2 * n /\ 2 * i + 2 \in 1 .. 2 * n
      BY <1>0
    <2>2. (2 * i + 1) % 2 = 1 /\ (2 * i + 1 - 1) \div 2 = i
      BY <1>0
    <2>3. (2 * i + 2) % 2 # 1 /\ (2 * i + 2 - 1) \div 2 = i
      BY <1>0
    <2> QED
      BY <2>1, <2>2, <2>3, SMTT(15)
  <1> HIDE DEF head, tail
  <1>c. /\ w \in Seq(Int) /\ Len(w) = Len(head) + Len(tail)
        /\ \A i \in 1 .. Len(head) : w[i] = head[i]
        /\ \A i \in 1 .. Len(tail) : w[Len(head) + i] = tail[i]
    BY <1>2, <1>3, Concatenation
  <1> HIDE DEF w
  <1>5. w \in Seq(Int) /\ Len(w) = 3 + 2 * n
    BY <1>2, <1>3, <1>c
  <1>6. w[1] = n /\ w[2] = c.max_idx /\ w[3] = c.mask
    BY <1>2, <1>c
  <1>7. \A j \in 1 .. 2 * n : w[3 + j] = tail[j]
    BY <1>2, <1>3, <1>c
  <1>8. ASSUME NEW i \in 0 .. n - 1
        PROVE  At(4 + 2 * i) = c.key[i] /\ At(5 + 2 * i) = c.sofar[i]
    <2>1. 2 * i + 1 \in 1 .. 2 * n /\ 2 * i + 2 \in 1 .. 2 * n
      BY <1>0
    <2>2. w[3 + (2 * i + 1)] = c.key[i] /\ w[3 + (2 * i + 2)] = c.sofar[i]
      BY <1>4, <1>7, <2>1
    <2>3. 3 + (2 * i + 1) = 4 + 2 * i /\ 3 + (2 * i + 2) = 5 + 2 * i
      BY <1>0
    <2>4. 4 + 2 * i <= Len(w) /\ 5 + 2 * i <= Len(w)
      BY <1>0, <1>5
    <2> HIDE DEF w
    <2> QED
      BY <2>2, <2>3, <2>4
  <1> DEFINE keys == [i \in 0 .. n - 1 |-> At(4 + 2 * i)]
             counts == [i \in 0 .. n - 1 |-> At(5 + 2 * i)]
  <1>9. load_range_cfg(w) = [num |-> n, max_idx |-> At(2), mask |-> At(3),
                             key |-> keys, sofar |-> counts]
    <2>1. w # << >>
      BY <1>0, <1>5
    <2> HIDE DEF w
    <2> QED
      BY <1>6, <2>1 DEF load_range_cfg
  <1>10. At(2) = c.max_idx /\ At(3) = c.mask
    BY <1>0, <1>5, <1>6
  <1>11. c.key = [i \in 0 .. n - 1 |-> c.key[i]] /\ c.sofar = [i \in 0 .. n - 1 |-> c.sofar[i]]
    BY <1>0
  <1> HIDE DEF w, At
  <1>12. keys = c.key
    BY <1>8, <1>11
  <1>13. counts = c.sofar
    BY <1>8, <1>11
  <1> HIDE DEF keys, counts
  <1>14. c = [num |-> n, max_idx |-> c.max_idx, mask |-> c.mask, key |-> c.key, sofar |-> c.sofar]
    BY DEF IsConfig, n
  <1> QED
    BY <1>1, <1>9, <1>10, <1>12, <1>13, <1>14

\* What LoadRanges and LoadPorts make of the options.
RangesOf == IF opt.ranges_file # "NULL" THEN Load(opt.ranges_file) ELSE Builtin
PortsOf == IF opt.ports_file # "NULL" THEN Load(opt.ports_file)
           ELSE IF opt.portspec # "NULL" THEN make_port_ranges(PortSpecs[opt.portspec])
           ELSE Builtin

LoadInv ==
    /\ phase \in {"ports", "ready"} => ranges = RangesOf /\ ranges # NULL
    /\ phase = "ready" => ports = PortsOf /\ ports # NULL

LEMMA LoadStep ==
    ASSUME LoadInv, [StartupNext]_<<vars, start>>
    PROVE  LoadInv'
  <1>1. CASE TakeNumber \/ TakeName \/ PassOver \/ LastWord \/ Derive
    <2>1. phase' \notin {"ports", "ready"}
      BY <1>1 DEF TakeNumber, TakeName, PassOver, LastWord, Derive
    <2> QED
      BY <2>1 DEF LoadInv
  <1>2. CASE LoadRanges
    BY <1>2 DEF LoadRanges, LoadInv, RangesOf, Load
  <1>3. CASE LoadPorts
    <2>1. phase = "ports" /\ opt' = opt /\ ranges' = ranges /\ ports' = PortsOf
      BY <1>3 DEF LoadPorts, PortsOf
    <2>2. phase' = "ready" => ports' # NULL
      BY <1>3 DEF LoadPorts
    <2>3. phase' # "ports"
      BY <1>3 DEF LoadPorts
    <2>4. ranges = RangesOf /\ ranges # NULL
      BY <2>1 DEF LoadInv
    <2> QED
      BY <2>1, <2>2, <2>3, <2>4 DEF LoadInv, RangesOf, PortsOf, Load
  <1>4. CASE setup_misc \/ Fork \/ setsid \/ ToNull \/ List
             \/ cba_open_file \/ NoFile \/ Feed \/ Scan
    <2>1. phase' \notin {"ports", "ready"}
      BY <1>4 DEF setup_misc, NoLimit, Limit, AfterLimits, Fork, setsid,
                  ToNull, List, cba_open_file, NoFile, Feed, Scan, Step
    <2> QED
      BY <2>1 DEF LoadInv
  <1>5. CASE UNCHANGED <<vars, start>>
    BY <1>5 DEF vars, LoadInv, RangesOf, PortsOf, Load
  <1> QED
    BY <1>1, <1>2, <1>3, <1>4, <1>5 DEF StartupNext, Next

\* A name from which anything was loaded is that of a whole file.
LEMMA LoadedIsCompiled ==
    ASSUME NEW name, Load(name) # NULL
    PROVE  IsFrom(name, Load(name))
  <1>1. name \in DOMAIN Content /\ Load(name) = load_range_cfg(Content[name])
    BY DEF Load
  <1>2. Content[name] # << >>
    BY <1>1 DEF load_range_cfg
  <1>3. name \in DOMAIN Compiled /\ Content[name] = Words(Compiled[name])
    BY <1>1, <1>2, FilesAssumption
  <1>4. IsConfig(Compiled[name])
    BY <1>3, FilesAssumption
  <1> QED
    BY <1>1, <1>3, <1>4, LoadsBack DEF IsFrom

\* What is decided about a name is what the last option of it says.
LEMMA DecidedName ==
    ASSUME OrderInv, WellFormed(argv), phase = "ready",
           NEW f \in Named, NEW w \in ValueOptions, By[f] = {w}
    PROVE  /\ Given({w}) = {} => opt[f] = "NULL"
           /\ Given({w}) # {} => opt[f] = LastValue(w) /\ opt[f] # "NULL"
  <1>1. Decided(f, Len(argv)) /\ DOMAIN argv = 1 .. Len(argv) /\ Len(argv) \in Nat
    BY ArgvAssumption DEF OrderInv
  <1>2. \A i : i \in Given({w}) <=> i \in 1 .. Len(argv) /\ argv[i] \in By[f]
    BY <1>1 DEF Given
  <1>3. Defaults[f] = "NULL" /\ \A x, v : Meant(f, x, v) = v
    BY DEF Named, Defaults, Meant
  <1>4. CASE Given({w}) = {}
    BY <1>1, <1>2, <1>3, <1>4 DEF Decided
  <1>5. CASE Given({w}) # {}
    <2>1. PICK last \in 1 .. Len(argv) :
             /\ argv[last] \in By[f]
             /\ \A i \in 1 .. Len(argv) : argv[i] \in By[f] => i <= last
             /\ opt[f] = Meant(f, argv[last], argv[last + 1])
      BY <1>1, <1>2, <1>5 DEF Decided
    <2>2. last \in Given({w}) /\ \A i \in Given({w}) : i <= last
      BY <1>2, <2>1
    <2> DEFINE m == CHOOSE l \in Given({w}) : \A i \in Given({w}) : i <= l
    <2>3. m \in Given({w}) /\ \A i \in Given({w}) : i <= m
      BY <2>2
    <2> HIDE DEF m
    <2>4. m = last
      <3>1. m \in 1 .. Len(argv)
        BY <1>2, <2>3
      <3>2. m <= last /\ last <= m
        BY <2>2, <2>3
      <3> QED
        BY <1>1, <3>1, <3>2
    <2>5. opt[f] = LastValue(w)
      <3>1. LastValue(w) = argv[m + 1]
        BY DEF LastValue, m
      <3> QED
        BY <1>3, <2>1, <2>4, <3>1
    <2>6. opt[f] # "NULL"
      <3>1. last + 1 \in 1 .. Len(argv)
        BY <1>1, <2>1 DEF WellFormed
      <3>2. argv[last + 1] # "NULL"
        BY <3>1, ArgvAssumption DEF OrderInv
      <3> QED
        BY <1>3, <2>1, <3>2
    <2> QED
      BY <1>5, <2>5, <2>6
  <1> QED
    BY <1>4, <1>5

(* cscan starts with the targets that the last -f, -pf or -p names, as      *)
(* they were compiled, and with the builtin ones only where there is no     *)
(* such option, if the line is written as the help text describes and no    *)
(* file was cut short.                                                      *)
THEOREM TargetsAlwaysTheOnesNamed ==
    ASSUME \A a \in ArgVs : WellFormed(a)
    PROVE  StartupSpec => []TargetsAreTheOnesNamed
  <1>1. OrderInv /\ LoadInv => TargetsAreTheOnesNamed
    <2> SUFFICES ASSUME OrderInv, LoadInv, phase = "ready"
                 PROVE  TargetsAreTheOnesNamed
      BY DEF TargetsAreTheOnesNamed
    <2>1. WellFormed(argv)
      BY DEF OrderInv
    <2>2. /\ "-f" \in ValueOptions /\ "-pf" \in ValueOptions /\ "-p" \in ValueOptions
          /\ By["ranges_file"] = {"-f"} /\ By["ports_file"] = {"-pf"} /\ By["portspec"] = {"-p"}
          /\ "ranges_file" \in Named /\ "ports_file" \in Named /\ "portspec" \in Named
      BY DEF ValueOptions, NameOption, By, Named
    <2>3. /\ Given({"-f"}) = {} => opt.ranges_file = "NULL"
          /\ Given({"-f"}) # {} => opt.ranges_file = LastValue("-f") /\ opt.ranges_file # "NULL"
      BY <2>1, <2>2, DecidedName
    <2>4. /\ Given({"-pf"}) = {} => opt.ports_file = "NULL"
          /\ Given({"-pf"}) # {} => opt.ports_file = LastValue("-pf") /\ opt.ports_file # "NULL"
      BY <2>1, <2>2, DecidedName
    <2>5. /\ Given({"-p"}) = {} => opt.portspec = "NULL"
          /\ Given({"-p"}) # {} => opt.portspec = LastValue("-p") /\ opt.portspec # "NULL"
      BY <2>1, <2>2, DecidedName
    <2>6. ranges = RangesOf /\ ranges # NULL /\ ports = PortsOf /\ ports # NULL
      BY DEF LoadInv
    <2>7. IF Given({"-f"}) # {} THEN IsFrom(LastValue("-f"), ranges) ELSE ranges = Builtin
      BY <2>3, <2>6, LoadedIsCompiled DEF RangesOf
    <2>8. IF Given({"-pf"}) # {} THEN IsFrom(LastValue("-pf"), ports)
          ELSE IF Given({"-p"}) # {} THEN ports = make_port_ranges(PortSpecs[LastValue("-p")])
          ELSE ports = Builtin
      BY <2>4, <2>5, <2>6, LoadedIsCompiled DEF PortsOf
    <2> QED
      BY <2>7, <2>8 DEF TargetsAreTheOnesNamed
  <1>2. OrderInv /\ LoadInv /\ [StartupNext]_<<vars, start>> => OrderInv' /\ LoadInv'
    BY OrderStep, LoadStep
  <1>3. StartupInit => OrderInv /\ LoadInv
    <2>1. StartupInit => LoadInv
      BY DEF StartupInit, Init, LoadInv
    <2> QED
      BY <2>1, OrderInit
  <1> QED
    BY <1>1, <1>2, <1>3, PTL DEF StartupSpec

=============================================================================

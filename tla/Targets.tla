------------------------------ MODULE Targets ------------------------------
(***************************************************************************)
(* Choosing a target (target.c, rand.c): random_ip draws a rank by          *)
(* rejection and finds, by binary search, the address of that rank;         *)
(* random_port draws a point and scans for the port that owns it.           *)
(*                                                                         *)
(* A struct range_cfg is a record; its array of pairs is the two functions  *)
(* "key" (the last address of a range, or a port) and "sofar" (the number   *)
(* of addresses, or points, up to and including this pair, less one).       *)
(***************************************************************************)
EXTENDS RangeConfigs

CONSTANTS
    RangeLists,     \* the lists of ranges <<s, e>> that targets are made of
    PortSpecs,      \* the portspecs given
    MaxUint,        \* the int -1, read as unsigned
    Beyond          \* what lies in memory after the ranges

\* What merge_ranges leaves: ranges that are not empty, sorted and disjoint.
IsRangeList(rs) ==
    /\ rs \in Seq(Nat \X Nat) /\ rs # << >>
    /\ \A i \in 1 .. Len(rs) : rs[i][1] <= rs[i][2]
    /\ \A i, j \in 1 .. Len(rs) : i < j => rs[i][2] < rs[j][1]

Weight(s) == [i \in DOMAIN Parsed(s) |-> Parsed(s)[i].points]

ASSUME ConfigAssumption ==
    /\ \A rs \in RangeLists : IsRangeList(rs)
    /\ \A s \in PortSpecs : Weight(s) \in Seq(Nat) /\ Len(Parsed(s)) = Len(Weight(s))
    /\ MaxUint \in Nat /\ Beyond \in Nat

\* compile-targets.py writes a file, cscan -f reads it.
Loaded == [rs \in RangeLists |-> load_range_cfg(Words(Compile(rs)))]

Made == [s \in PortSpecs |-> make_port_ranges(s)]

VARIABLES
    urandom,        \* whether /dev/urandom can be opened
    pc,             \* "idle", then through both functions and back
    ranges, ports,  \* the loaded configurations
    r,              \* the number drawn
    start, end,     \* the part of the ranges still searched
    idx, val,       \* the pair last looked at
    ip, port        \* what was returned

vars == <<urandom, pc, ranges, ports, r, start, end, idx, val, ip, port>>

Init ==
    /\ urandom \in BOOLEAN
    /\ \E rs \in RangeLists : ranges = Loaded[rs]
    /\ \E s \in PortSpecs : ports = Made[s]
    /\ pc = "idle"
    /\ r = 0 /\ start = 0 /\ end = 0 /\ idx = 0 /\ val = 0
    /\ ip = 0 /\ port = 0

\* try_connect and list_thread call random_ip, then random_port.
Call ==
    /\ pc = "idle"
    /\ pc' = "draw"
    /\ UNCHANGED <<urandom, ranges, ports, r, start, end, idx, val, ip, port>>

\* One turn of gen_rand32: 32 random bits under the mask, again while they
\* exceed the maximum (compared as unsigned: a maximum of -1 exceeds all);
\* or -1, which no caller asks about, if there are no random bits to be had.
gen_rand32(c, retry, accepted) ==
    \/ /\ urandom
       /\ r' \in 0 .. c.mask
       /\ pc' = IF c.max_idx >= 0 /\ r' > c.max_idx THEN retry ELSE accepted
    \/ /\ ~urandom
       /\ r' = MaxUint
       /\ pc' = accepted

DrawRank ==
    /\ pc = "draw"
    /\ gen_rand32(ranges, "draw", "search")
    /\ start' = 0 /\ end' = ranges.num
    /\ idx' = 0 /\ val' = 0
    /\ UNCHANGED <<urandom, ranges, ports, ip, port>>

Middle == (end + start) \div 2

\* ranges->ranges[2 * i] and ranges->ranges[2 * i + 1].
Key(i) == IF i < ranges.num THEN ranges.key[i] ELSE Beyond
Sofar(i) == IF i < ranges.num THEN ranges.sofar[i] ELSE Beyond

(* Mutant of Probe: the lower part is searched up to one before the probe *)
ProbeBelow ==
    /\ pc = "search" /\ start # end
    /\ LET v == Sofar(Middle) IN
          \/ /\ v = r
             /\ pc' = "found"
             /\ UNCHANGED <<start, end>>
          \/ /\ v # r
             /\ start' = IF v < r THEN Middle + 1 ELSE start
             /\ end' = IF v > r THEN Middle - 1 ELSE end
             /\ UNCHANGED pc
    /\ idx' = Middle /\ val' = Sofar(Middle)
    /\ UNCHANGED <<urandom, ranges, ports, r, ip, port>>

(* Mutant of Probe: the upper part is searched from the probe itself *)
ProbeStuck ==
    /\ pc = "search" /\ start # end
    /\ LET v == Sofar(Middle) IN
          \/ /\ v >= r
             /\ idx' = Middle /\ val' = v
             /\ end' = IF v = r THEN end ELSE Middle
             /\ pc' = IF v = r THEN "found" ELSE pc
             /\ UNCHANGED start
          \/ /\ v < r
             /\ idx' = Middle /\ val' = v
             /\ start' = Middle
             /\ UNCHANGED <<pc, end>>
    /\ UNCHANGED <<urandom, ranges, ports, r, ip, port>>

(* Mutant of Probe: the case of the last probe before end is left out *)
ProbeNoLast ==
    /\ pc = "search" /\ start # end
    /\ LET v == Sofar(Middle) IN
          /\ idx' = Middle /\ val' = v
          /\ pc' = IF v = r THEN "found" ELSE pc
          /\ start' = IF v < r THEN Middle + 1 ELSE start
          /\ end' = IF v > r THEN Middle ELSE end
    /\ UNCHANGED <<urandom, ranges, ports, r, ip, port>>

\* The body of random_ip's loop.
Probe ==
    /\ pc = "search" /\ start # end
    /\ LET v == Sofar(Middle) IN
          \/ /\ v = r
             /\ idx' = Middle /\ val' = v /\ pc' = "found"
             /\ UNCHANGED <<start, end>>
          \/ /\ v < r /\ Middle = end - 1
             /\ idx' = Middle + 1 /\ val' = Sofar(Middle + 1)
             /\ pc' = "found"
             /\ UNCHANGED <<start, end>>
          \/ /\ v < r /\ Middle # end - 1
             /\ idx' = Middle /\ val' = v
             /\ start' = Middle + 1
             /\ UNCHANGED <<pc, end>>
          \/ /\ v > r
             /\ idx' = Middle /\ val' = v
             /\ end' = Middle
             /\ UNCHANGED <<pc, start>>
    /\ UNCHANGED <<urandom, ranges, ports, r, ip, port>>

LoopEnds ==
    /\ pc = "search" /\ start = end
    /\ pc' = "found"
    /\ UNCHANGED <<urandom, ranges, ports, r, start, end, idx, val, ip, port>>

(* Mutant of ReturnIp: the rank is counted down from the end of the range *)
ReturnIpBackwards ==
    /\ pc = "found"
    /\ ip' = Key(idx) + val - r
    /\ pc' = "ranked"
    /\ UNCHANGED <<urandom, ranges, ports, r, start, end, idx, val, port>>

ReturnIp ==
    /\ pc = "found"
    /\ ip' = Key(idx) - val + r
    /\ pc' = "ranked"
    /\ UNCHANGED <<urandom, ranges, ports, r, start, end, idx, val, port>>

DrawPoint ==
    /\ pc = "ranked"
    /\ gen_rand32(ports, "ranked", "scan")
    /\ idx' = 0
    /\ UNCHANGED <<urandom, ranges, ports, start, end, val, ip, port>>

(* Mutant of Owns: the points of a port stop one short *)
OwnsShort(i) == ports.sofar[i] < 0 \/ r < ports.sofar[i]

\* r <= ranges[2 * i + 1], both unsigned.
Owns(i) == ports.sofar[i] < 0 \/ r <= ports.sofar[i]

ScanPort ==
    /\ pc = "scan"
    /\ \/ /\ idx < ports.num /\ Owns(idx)
          /\ port' = ports.key[idx] /\ pc' = "idle"
          /\ UNCHANGED idx
       \/ /\ idx < ports.num /\ ~Owns(idx)
          /\ idx' = idx + 1
          /\ UNCHANGED <<port, pc>>
       \/ /\ idx >= ports.num
          /\ port' = -1 /\ pc' = "idle"
          /\ UNCHANGED idx
    /\ UNCHANGED <<urandom, ranges, ports, r, start, end, val, ip>>

Next == Call \/ DrawRank \/ Probe \/ LoopEnds \/ ReturnIp \/ DrawPoint \/ ScanPort

Spec == Init /\ [][Next]_vars

\* The loops make no system call and nothing else runs in this thread.
FairSpec == Spec /\ WF_vars(Probe) /\ WF_vars(LoopEnds)

-----------------------------------------------------------------------------
\* What random_ip needs of its configuration: at least one range, none of
\* them empty, the last count being max_idx, and a mask that covers it.
WellFormed(c) ==
    /\ c.num \in Nat \ {0} /\ c.max_idx \in Nat /\ c.mask \in Nat
    /\ c.key \in [0 .. c.num - 1 -> Nat]
    /\ c.sofar \in [0 .. c.num - 1 -> Nat]
    /\ \A i, j \in 0 .. c.num - 1 : i < j => c.sofar[i] < c.sofar[j]
    /\ c.sofar[c.num - 1] = c.max_idx
    /\ c.max_idx <= c.mask

\* Ports may be drawn from a configuration that make_port_ranges left empty.
PortFormed(c) ==
    /\ c.num \in Nat /\ c.max_idx \in Int /\ c.mask \in Nat
    /\ c.sofar \in [0 .. c.num - 1 -> Int]

\* Types: the configurations are well formed as they come from compile-targets.py
\* by way of a file, or from make_port_ranges, and stay so, and the unsigned
\* positions of the search never go below zero.
TypeOK ==
    /\ urandom \in BOOLEAN
    /\ pc \in {"idle", "draw", "search", "found", "ranked", "scan"}
    /\ WellFormed(ranges) /\ PortFormed(ports)
    /\ r \in Nat /\ start \in Nat /\ end \in Nat /\ idx \in Nat /\ val \in Nat

\* While random_ip searches, the pair it looks for lies in [start, end]: what
\* is left of start counts too few addresses, what is at end or beyond enough;
\* and should the loop run dry, idx and val are the pair at that place.
Bracketed ==
    urandom /\ pc = "search" =>
        /\ r <= ranges.max_idx
        /\ start <= end /\ end <= ranges.num
        /\ \A i \in 0 .. start - 1 : ranges.sofar[i] < r
        /\ \A i \in end .. ranges.num - 1 : ranges.sofar[i] > r
        /\ start = end => idx = start /\ val = ranges.sofar[idx]

\* random_ip's loop is left with the first pair whose count reaches r, so the
\* address it returns lies in that range, r addresses after the first target
\* of all, and no read of the array was out of its bounds.
FindsFirst ==
    urandom /\ pc = "found" =>
        /\ idx < ranges.num
        /\ val = ranges.sofar[idx]
        /\ r <= val
        /\ idx > 0 => ranges.sofar[idx - 1] < r

\* The addresses of a list of ranges.
Covered(rs) == UNION {rs[i][1] .. rs[i][2] : i \in 1 .. Len(rs)}

\* random_ip returns the r-th target, counting from 0, of the addresses the
\* file was compiled from: with r uniform, so is the address.
RankedTarget ==
    [][urandom /\ pc = "found" =>
          \A rs \in RangeLists : ranges = Loaded[rs] =>
              /\ ip' \in Covered(rs)
              /\ Cardinality({a \in Covered(rs) : a < ip'}) = r]_vars

\* random_port gives every port of the portspec as many of the points as its
\* weight says: written out, each port repeated, the spec has port at r.
PortOwnsPoint ==
    [][urandom /\ pc = "scan" /\ pc' = "idle" =>
          \A s \in PortSpecs : ports = Made[s] =>
              \E i \in DOMAIN Parsed(s) :
                  /\ port' = Parsed(s)[i].port
                  /\ SumUpTo(Weight(s), i - 1) <= r /\ r < SumUpTo(Weight(s), i)]_vars

\* The search ends for every draw, and also when gen_rand32 fails.
SearchEnds == pc = "search" ~> pc = "found"
=============================================================================

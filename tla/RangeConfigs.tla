---------------------------- MODULE RangeConfigs ----------------------------
(***************************************************************************)
(* Where a struct range_cfg comes from: compile-targets.py, the portspec of *)
(* the command line (make_port_ranges) and a .csw or .csp file              *)
(* (load_range_cfg).                                                        *)
(***************************************************************************)
EXTENDS Integers, Sequences, FiniteSets, SequencesExt, FiniteSetsExt

CONSTANT Garbage    \* the content of memory malloc returned

\* get_binmask, and the loop of make_port_ranges: 1, doubled until it is at
\* least n, less one.
Mask(n) ==
    LET doubled[k \in 0 .. n] == IF k = 0 THEN 1 ELSE 2 * doubled[k - 1]
        turns == CHOOSE k \in 0 .. n :
                    doubled[k] >= n /\ \A j \in 0 .. k - 1 : doubled[j] < n
    IN  doubled[turns] - 1

\* The first i numbers of a sequence, added up.
SumUpTo(s, i) ==
    LET sum[n \in 0 .. Len(s)] == IF n = 0 THEN 0 ELSE sum[n - 1] + s[n]
    IN  sum[i]

\* num, max_idx, mask and the pairs, from the keys and how much each counts.
Config(keys, counts) ==
    LET n == Len(keys)  total == SumUpTo(counts, n)
    IN  [num |-> n, max_idx |-> total - 1, mask |-> Mask(total),
         key |-> [i \in 0 .. n - 1 |-> keys[i + 1]],
         sofar |-> [i \in 0 .. n - 1 |-> SumUpTo(counts, i + 1) - 1]]

\* merge_ranges: the addresses as a sorted sequence of maximal ranges <<s, e>>.
MergedRanges(addrs) ==
    LET Firsts == {a \in addrs : a - 1 \notin addrs}
        LastOf(a) == Min({b \in addrs : b >= a /\ b + 1 \notin addrs})
        starts == SetToSortSeq(Firsts, <)
    IN  [i \in 1 .. Len(starts) |-> <<starts[i], LastOf(starts[i])>>]

\* compile-targets.py, once merge_ranges has sorted the ranges <<s, e>>.
Compile(rs) ==
    Config([i \in 1 .. Len(rs) |-> rs[i][2]],
           [i \in 1 .. Len(rs) |-> rs[i][2] - rs[i][1] + 1])

\* A portspec is a sequence of what stands between the commas: a port with
\* its points (1 when no points are given); text that is not a number, where
\* sscanf matches nothing and the loop stops; or the empty end of the string,
\* where sscanf returns EOF and port keeps the value it had.
Parsed(spec) ==
    LET junk == {i \in DOMAIN spec : spec[i].kind = "junk"}
        s == IF junk = {} THEN spec ELSE SubSeq(spec, 1, Min(junk) - 1)
    IN  [i \in DOMAIN s |->
            IF s[i].kind # "end" THEN s[i]
            ELSE [kind |-> "port", points |-> 1,
                  port |-> IF i > 1 THEN s[i - 1].port ELSE Garbage]]

make_port_ranges(spec) ==
    LET s == Parsed(spec)
    IN  Config([i \in 1 .. Len(s) |-> s[i].port], [i \in 1 .. Len(s) |-> s[i].points])

\* A .csw or .csp file is the sequence of its little-endian words; the file
\* may have been cut.  NULL only if not even the first word can be read.
Words(c) == <<c.num, c.max_idx, c.mask>> \o
            [i \in 1 .. 2 * c.num |-> IF i % 2 = 1 THEN c.key[(i - 1) \div 2]
                                                   ELSE c.sofar[(i - 1) \div 2]]

\* A configuration as it may stand in a file.
IsConfig(c) ==
    /\ c.num \in Nat /\ c.max_idx \in Int /\ c.mask \in Int
    /\ c.key \in [0 .. c.num - 1 -> Int] /\ c.sofar \in [0 .. c.num - 1 -> Int]
    /\ c = [num |-> c.num, max_idx |-> c.max_idx, mask |-> c.mask,
            key |-> c.key, sofar |-> c.sofar]

NULL == [null |-> TRUE]

load_range_cfg(words) ==
    LET At(i) == IF i <= Len(words) THEN words[i] ELSE Garbage
    IN  IF words = << >> THEN NULL
        ELSE [num |-> words[1], max_idx |-> At(2), mask |-> At(3),
              key |-> [i \in 0 .. words[1] - 1 |-> At(4 + 2 * i)],
              sofar |-> [i \in 0 .. words[1] - 1 |-> At(5 + 2 * i)]]
=============================================================================

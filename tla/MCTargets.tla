----------------------------- MODULE MCTargets -----------------------------
(***************************************************************************)
(* Targets over every set of addresses below Addresses, compiled, written   *)
(* to a file and loaded again, and over a few portspecs.                    *)
(***************************************************************************)
EXTENDS Targets

CONSTANT Addresses      \* bound: the addresses are 0 .. Addresses - 1

MCRangeLists == {MergedRanges(s) : s \in SUBSET (0 .. Addresses - 1) \ {{}}}

Port(p, n) == [kind |-> "port", port |-> p, points |-> n]
Junk == [kind |-> "junk"]
End == [kind |-> "end"]

MCPortSpecs == { <<Port(443, 2), Port(80, 1)>>, <<Port(80, 4), Port(8080, 1)>>,
                 <<Port(81, 1), Junk, Port(80, 1)>>,
                 <<Port(80, 1), Port(81, 0), Port(82, 2)>>, <<Port(80, 2), End>> }
=============================================================================

----------------------------- MODULE MCOptions -----------------------------
(***************************************************************************)
(* Command lines of up to MaxItems options, each written as the help text   *)
(* of cscan.c says.                                                         *)
(***************************************************************************)
EXTENDS Startup

CONSTANTS MaxItems, Items    \* bound: the options on a command line

Lines(n) == UNION {[1 .. k -> Items] : k \in 0 .. n}

MCArgVs == {FlattenSeq(l) : l \in Lines(MaxItems)}

MCNumber == ("0" :> 0) @@ ("1" :> 1) @@ ("50" :> 50) @@ ("100" :> 100) @@ ("700" :> 700)

Port(p, n) == [kind |-> "port", port |-> p, points |-> n]
MCPortSpecs == ("443:2,80" :> <<Port(443, 2), Port(80, 1)>>)

MCCompiled == ("t.csw" :> Compile(MergedRanges({1, 2, 5})))
              @@ ("u.csw" :> Compile(MergedRanges({7})))
MCContent == [f \in {"t.csw", "u.csw", "empty.csw"} |->
                 IF f = "empty.csw" THEN << >> ELSE Words(MCCompiled[f])]
MCBuiltin == Compile(MergedRanges({80}))

RateItems == { <<"-m", "50">>, <<"-r", "700">>, <<"-t", "100">>, <<"-t", "0">>,
               <<"-r", "1">>, <<"-a", "50">>, <<"-a", "0">>, <<"-ct", "700">>, <<"-x">>,
               <<"-o", "f.cba">>, <<"-st", "100">> }
FileItems == { <<"-f", "t.csw">>, <<"-f", "u.csw">>, <<"-f", "empty.csw">>,
               <<"-f", "none.csw">>, <<"-l">>,
               <<"-pf", "u.csw">>, <<"-p", "443:2,80">>, <<"-pf", "empty.csw">>, <<"-d">>,
               <<"-h">>, <<"--help">>, <<"-mod", "print">> }
\* Started from a shell, without a terminal, without anything.
MCInherited == { {0, 1, 2}, {1, 2}, {} }
AllItems == RateItems \cup FileItems

=============================================================================

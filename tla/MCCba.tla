------------------------------- MODULE MCCba -------------------------------
(***************************************************************************)
(* The CBA file with the scripts of log.c and of the modules.               *)
(***************************************************************************)
EXTENDS CbaFile

Call(op, val) == [op |-> op, val |-> val]

\* log.c
LogStats == << Call("code", 11), Call("int64", "time"),
               Call("int32", "new_events"), Call("int32", "new_results") >>
LogEvent == << Call("code", 20), Call("str", "clash") >>

\* print_result; rfb_result for a banner that cannot be read (nothing but the
\* deferred url), for a wrong one, and for a server without authentication (log.c's
\* canary event is a bit like it); a module that saves a file.
PrintResult(r) == << Call("head", ""), Call("str", r) >>
RfbSilent == << Call("head", "rfb"), Call("defer_str", "url") >>
RfbBanner == RfbSilent \o << Call("code", 2), Call("data", <<1, 2, 3>>) >>
RfbWin == RfbSilent \o << Call("bit", 6) >>
FileResult == << Call("head", "mymod2"), Call("file", [name |-> "f", data |-> << >>]),
                 Call("defer_str", "saved") >>

AllMain == {LogStats, LogEvent}
AllWorker == {PrintResult("a"), RfbSilent, RfbBanner, RfbWin, FileResult}
Prints == {PrintResult("a")}
\* bound: one thing logged against two results
OneAndTwo == [t \in Threads |-> IF t = 0 THEN 1 ELSE 2]

=============================================================================

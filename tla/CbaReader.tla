----------------------------- MODULE CbaReader -----------------------------
(***************************************************************************)
(* cba_reader.py over the tokens of Cba: class CBA as a function of the     *)
(* file.  The reader keeps a ThreadState per thread id and reads a packet   *)
(* at a time; "want" is what it reads next.  A token of another kind than   *)
(* the one it is about to decode means that the bytes it decodes are not    *)
(* the ones that were written: from there on it is "lost" (it raises, or    *)
(* makes up events, as the bytes happen to fall).                           *)
(***************************************************************************)
EXTENDS Naturals, Sequences

CONSTANT Threads

ThreadState == [module |-> "", events |-> << >>, cur_type |-> "none",
                cur_code |-> 0, cur_stream |-> "none", data |-> << >>]

\* CBA.__init__: the byte order has been read, no thread is known yet.
Start == [want |-> "packet", tid |-> 0, out |-> << >>,
          state |-> [t \in Threads |-> ThreadState]]

AddEvent(s, type, code, val) ==
    [s EXCEPT !.events = Append(@, [type |-> type, code |-> code, val |-> val])]

\* CBA.result: an entry is yielded when it has events and passes the filter.
Result(t, s, filter) ==
    IF s.events # << >> /\ filter \in {"all", s.module}
    THEN << [tid |-> t, module |-> s.module, events |-> s.events] >> ELSE << >>

\* What follows a header of each type; "packet" when nothing does.
After(type) ==
    CASE type = "head"              -> "name"
      [] type = "str"               -> "strlen"
      [] type \in {"int32","int64"} -> "int"
      [] type = "file"              -> "filelen"
      [] OTHER                      -> "packet"

\* The state of the thread after a header.
Entered(s, k) ==
    LET cur == [s EXCEPT !.cur_type = k.type, !.cur_code = k.val] IN
    CASE k.type = "head" -> ThreadState
      [] k.type = "bit"  -> AddEvent(cur, "bit", k.val, TRUE)
      [] k.type = "data" -> [cur EXCEPT !.cur_stream = "memory", !.data = << >>]
      [] k.type = "file" -> [cur EXCEPT !.cur_stream = "ignore"]
      [] OTHER           -> cur

\* The empty chunk that ends a stream: a data event is complete only now.
EndStream(s) ==
    [IF s.cur_type = "data" THEN AddEvent(s, "data", s.cur_code, s.data) ELSE s
        EXCEPT !.cur_stream = "none", !.data = << >>]

\* read_packet, one token at a time.  A thread inside a stream reads chunks,
\* any other reads a header.  The name of a file is read only to extract it.
ReadToken(r, k, filter, extract) ==
    LET s == r.state[r.tid]
        Update(w, new) == [r EXCEPT !.want = w, !.state[r.tid] = new]
        Is(want, kind) == r.want = want /\ k.kind = kind
    IN  CASE Is("packet", "hdr") /\ r.state[k.by].cur_stream = "none" ->
                [r EXCEPT !.tid = k.by, !.want = After(k.type),
                          !.state[k.by] = Entered(@, k),
                          !.out = IF k.type = "head"
                                  THEN @ \o Result(k.by, r.state[k.by], filter)
                                  ELSE @]
          [] Is("packet", "tid") /\ r.state[k.by].cur_stream # "none" ->
                [r EXCEPT !.tid = k.by, !.want = "chunklen"]
          [] Is("name", "name")    -> Update("packet", [s EXCEPT !.module = k.val])
          [] Is("strlen", "len")   -> Update("str", s)
          [] Is("str", "raw")      ->
                Update("packet", AddEvent(s, "str", s.cur_code, k.val))
          [] Is("int", "int")      ->
                Update("packet", AddEvent(s, s.cur_type, s.cur_code, k.val))
          [] Is("chunklen", "len") -> IF k.val = 0 THEN Update("packet", EndStream(s))
                                                   ELSE Update("chunk", s)
          [] Is("chunk", "raw")    ->
                Update("packet", [s EXCEPT !.data =
                          IF s.cur_stream = "ignore" THEN @ ELSE @ \o k.val])
          [] Is("filelen", "len")  -> Update(IF extract THEN "filename" ELSE "packet", s)
          [] Is("filename", "raw") ->
                Update("packet", AddEvent([s EXCEPT !.cur_stream = "disk"],
                                          "file", s.cur_code, k.val))
          [] OTHER                 -> [r EXCEPT !.want = "lost"]

\* The packets at the positions "at" of the file, one after the other.
ReadAt(r, tokens, at, filter, extract) ==
    LET read[n \in 0 .. Len(tokens)] ==
          IF n = 0 THEN r
          ELSE IF n \in at THEN ReadToken(read[n - 1], tokens[n], filter, extract)
          ELSE read[n - 1]
    IN  read[Len(tokens)]

\* read_final: at the end of the file, the entry each thread is still in.
Final(r, filter) == [t \in Threads |-> Result(t, r.state[t], filter)]
=============================================================================

--------------------------- MODULE ModulesProofs ---------------------------
(***************************************************************************)
(* Proofs about Modules and Tsocket, for any timeouts, any number of       *)
(* cookie ports and security types, and whatever the peers do.             *)
(***************************************************************************)
EXTENDS Modules, FiniteSetTheorems, TLAPS

-----------------------------------------------------------------------------
(* The inductive invariants.                                               *)

RfbSession == {"rfb_version", "rfb_reply", "rfb_count", "rfb_types", "rfb_choose", "rfb_tls",
               "rfb_count2", "rfb_types2", "rfb_auth", "rfb_reason", "rfb_text", "rfb_exit"}
X11Session == {"x11_hello", "x11_state", "x11_protocol", "x11_exit"}
Session == RfbSession \cup X11Session
Outside == {"idle", "cookie", "print", "rfb", "x11"}

TypeInv ==
    /\ pc \in Outside \cup Session
    /\ cport \in Nat /\ left \in Nat
    /\ hit \in BOOLEAN /\ has_nontls \in BOOLEAN
    /\ sock \in {"none", "ready", "refused", "error"}
    /\ open \in Int /\ ctxs \in Int /\ decrypted \in Nat
    /\ is_ssl \in BOOLEAN
    /\ now \in Nat /\ deadline \in Nat
    /\ io \in [call : {"none", "connect", "read", "write", "handshake"},
               at : {"none", "setup", "try", "poll", "returned", "loop", "wait", "xfer",
                     "ok", "fail", "crashed"},
               left : Nat]

\* Which call is in progress where, and how far it can have come.
CallInv ==
    /\ io.at = "none" => io = NoIo
    /\ io.call = "none" => io.at \in {"none", "crashed"}
    /\ io.call = "connect" => /\ io.at \in {"setup", "try", "poll", "returned"}
                              /\ pc \in {"cookie", "rfb", "x11"}
                              /\ pc # "cookie" => pc \in on
    /\ io.call = "handshake" => /\ io.at \in {"loop", "wait", "ok", "fail"}
                                /\ pc = "rfb_tls"
    /\ io.call \in Transfers =>
          /\ io.at \in {"loop", "wait", "xfer", "ok", "fail", "crashed"}
          /\ pc \in Session \ {"rfb_tls", "rfb_exit", "x11_exit"}
          /\ pc \in {"rfb_types", "rfb_types2"} => left > 0

\* What the worker holds outside the sessions: socket4_connect's descriptor alone.
OutsideInv ==
    pc \in Outside =>
        /\ ~is_ssl /\ ctxs = 0 /\ decrypted = 0
        /\ io.call = "none" \/ io.at = "setup" => open = 0 /\ sock = "none"
        /\ io.at \in {"try", "poll"} => open = 1 /\ sock = "none"
        /\ io.at = "returned" => /\ sock \in {"ready", "refused", "error"}
                                 /\ open = IF sock = "ready" THEN 1 ELSE 0

\* Where a session may be inside TLS.
InTls == \/ pc \in {"rfb_count2", "rfb_types2", "rfb_reason", "rfb_text", "rfb_exit"}
         \/ pc = "rfb_tls" /\ io.call = "handshake" /\ io.at = "ok"

\* A session holds one descriptor, and one context while it is in TLS or shakes
\* hands.  A session on -2, whose is_ssl is anything, fails its first call.
SessionInv ==
    pc \in Session =>
        /\ sock \in {"ready", "error"}
        /\ open = IF sock = "ready" THEN 1 ELSE 0
        /\ decrypted > 0 => is_ssl
        /\ io.at = "xfer" => ~is_ssl
        /\ sock = "error" => /\ pc \in {"rfb_version", "rfb_exit", "x11_hello", "x11_exit"}
                             /\ ctxs = 0 /\ decrypted = 0
                             /\ io.call \in Transfers => io.left > 0 /\ io.at \notin {"ok", "xfer"}
        /\ sock = "ready" =>
              /\ is_ssl => InTls
              /\ ctxs = IF is_ssl \/ (io.call = "handshake" /\ io.at \in {"loop", "wait"})
                        THEN 1 ELSE 0

HoldInv == TypeInv /\ CallInv /\ OutsideInv /\ SessionInv /\ TlsDataIsTaken

\* How much time may have passed, by where modules_exec is.
CookieTime == (CookiePorts + 1) * ConnTimeout
Ports(k) == (k - 1) * ConnTimeout
RfbTime == CookieTime + ConnTimeout + ReadTimeout + TlsExtra
Connected == IF io.at = "returned" THEN ConnTimeout ELSE 0
Plain == {"rfb_version", "rfb_reply", "rfb_count", "rfb_types", "rfb_auth"}

TimeInv ==
    /\ pc = "cookie" => /\ cport \in 1 .. CookiePorts + 1
                        /\ now <= Ports(cport) + Connected
    /\ pc = "print" => now <= CookieTime
    /\ pc = "rfb" => now <= CookieTime + Connected
    /\ pc \in RfbSession =>
          now <= deadline /\ deadline <= IF pc \in Plain THEN RfbTime - TlsExtra ELSE RfbTime
    /\ pc = "x11" => now <= RfbTime + Connected
    /\ pc \in X11Session => now <= deadline /\ deadline <= RfbTime + ConnTimeout + ReadTimeout
    /\ pc = "idle" => WorkerIsFreeInTime

\* The places in told that say how module m's session ended.
Ends(m) == {i \in DOMAIN told : told[i][1] = m /\ told[i][2] \in Outcomes}

Undecided == [rfb |-> {"cookie", "print", "rfb"} \cup (RfbSession \ {"rfb_exit"}),
              x11 |-> {"cookie", "print", "rfb", "x11"} \cup RfbSession
                          \cup (X11Session \ {"x11_exit"})]

\* What may be recorded.
Codes == Outcomes \cup {"result", "HAS_VENCRYPT", "ONLY_TLS"}
Records == {"print", "rfb", "x11"} \X Codes

OutcomeInv ==
    /\ told \in Seq(Records)
    /\ hit => pc = "idle"
    /\ hit \/ pc \in {"cookie", "print"} => told = << >>
    /\ \A m \in {"rfb", "x11"} :
          /\ pc \in Undecided[m] => Ends(m) = {}
          /\ \A i, j \in Ends(m) : i = j

-----------------------------------------------------------------------------
(* What the calls do to the connection.                                    *)

\* Turn moves the call on, and changes nothing else of it.
LEMMA TurnFields ==
    ASSUME TypeInv, NEW where, Turn(where)
    PROVE  io'.call = io.call /\ io'.at = where /\ io'.left = io.left
  BY DEF TypeInv, Turn

\* What is common to the turns of a call: it stays where it is called from, and its
\* new place is one of those that its kind allows.
Moves(where) ==
    /\ UNCHANGED control
    /\ io'.call = io.call /\ io'.at = where /\ io'.left \in Nat
    /\ io' \in [call : {"none", "connect", "read", "write", "handshake"},
                at : {"none", "setup", "try", "poll", "returned", "loop", "wait", "xfer",
                      "ok", "fail", "crashed"},
                left : Nat]

LEMMA TurnMoves ==
    ASSUME TypeInv, UNCHANGED control,
           NEW where \in {"none", "setup", "try", "poll", "returned", "loop", "wait", "xfer",
                          "ok", "fail", "crashed"},
           Turn(where)
    PROVE  Moves(where) /\ io'.left = io.left
  BY DEF TypeInv, Turn, Moves

\* socket4_connect keeps the count of descriptors.
LEMMA ConnectTurns ==
    ASSUME HoldInv, Setup \/ TryConnect \/ PollConnect, UNCHANGED control
    PROVE  HoldInv'
  <1> USE TsocketAssumption DEF HoldInv
  <1>1. /\ io.call = "connect" /\ pc \in {"cookie", "rfb", "x11"} /\ pc \in Outside /\ pc \notin Session
        /\ UNCHANGED <<is_ssl, ctxs, decrypted, deadline>>
    BY DEF Setup, TryConnect, PollConnect, At, CallInv, Outside, Session, RfbSession, X11Session
  <1>2. PICK w \in {"try", "poll", "returned"} : Turn(w)
    BY DEF Setup, TryConnect, PollConnect
  <1>3. Moves(w)
    BY <1>2, TurnMoves
  <1>4. now' \in Nat
    BY DEF Setup, TryConnect, PollConnect, Waits, TypeInv
  <1>5. /\ open' \in Int /\ sock' \in {"none", "ready", "refused", "error"}
        /\ w \in {"try", "poll"} => open' = 1 /\ sock' = "none"
        /\ w = "returned" => /\ sock' \in {"ready", "refused", "error"}
                             /\ open' = IF sock' = "ready" THEN 1 ELSE 0
    <2>1. \A v : Turn(v) => w = v
      BY <1>3, TurnFields DEF Moves
    <2>2. CASE Setup
      <3>1. open = 0 /\ sock = "none"
        BY <1>1, <2>2 DEF Setup, At, OutsideInv
      <3> QED
        BY <2>1, <2>2, <3>1 DEF Setup
    <2>3. CASE TryConnect
      <3>1. open = 1 /\ sock = "none"
        BY <1>1, <2>3 DEF TryConnect, At, OutsideInv
      <3> QED
        BY <2>1, <2>3, <3>1 DEF TryConnect
    <2>4. CASE PollConnect
      <3>1. open = 1 /\ sock = "none"
        BY <1>1, <2>4 DEF PollConnect, At, OutsideInv
      <3> QED
        BY <2>1, <2>4, <3>1 DEF PollConnect
    <2> QED
      BY <2>2, <2>3, <2>4
  <1>6. TypeInv'
    BY <1>1, <1>3, <1>4, <1>5 DEF TypeInv, Moves, control
  <1>7. CallInv'
    BY <1>1, <1>3, <1>6 DEF CallInv, Moves, control, Transfers
  <1>8. OutsideInv' /\ SessionInv'
    BY <1>1, <1>3, <1>5 DEF OutsideInv, SessionInv, Moves, control
  <1>9. TlsDataIsTaken'
    BY <1>1, <1>3 DEF TlsDataIsTaken, Moves
  <1> QED
    BY <1>6, <1>7, <1>8, <1>9

\* A loop of ts.c turns inside a session, before its exit.
LEMMA InLoop ==
    ASSUME HoldInv, io.at \in {"loop", "wait", "xfer"}
    PROVE  /\ io.call \in Transfers \cup {"handshake"}
           /\ pc \in Session /\ pc \notin Outside
           /\ io.call = "handshake" => pc = "rfb_tls" /\ sock = "ready" /\ ~is_ssl
           /\ ~is_ssl => decrypted = 0
  <1> USE DEF HoldInv
  <1>1. io.call \in Transfers \cup {"handshake"}
    BY DEF CallInv, TypeInv, Transfers
  <1>2. pc \in Session /\ pc \notin Outside
    BY <1>1 DEF CallInv, Session, RfbSession, X11Session, Outside
  <1>3. io.call = "handshake" => pc = "rfb_tls" /\ sock = "ready" /\ ~is_ssl
    BY <1>2 DEF CallInv, SessionInv, InTls, TypeInv
  <1> QED
    BY <1>1, <1>2, <1>3 DEF SessionInv, TypeInv

\* A turn of one of the loops keeps what the session holds, if it takes care of the
\* context of a handshake that failed and of what is decrypted.
LEMMA TurnKept ==
    ASSUME HoldInv, io.at \in {"loop", "wait", "xfer"},
           NEW w \in {"loop", "wait", "xfer", "ok", "fail", "crashed"}, Moves(w),
           UNCHANGED <<sock, open, is_ssl, deadline>>, now' \in Nat, decrypted' \in Nat,
           decrypted' > 0 => is_ssl,
           io.call = "handshake" => w \in {"loop", "wait", "fail"},
           w = "xfer" => ~is_ssl,
           sock = "error" => decrypted' = 0 /\ io'.left > 0 /\ w \notin {"ok", "xfer"},
           ctxs' = IF io.call = "handshake" /\ w = "fail" THEN ctxs - 1 ELSE ctxs,
           io.call = "read" /\ w \in {"wait", "fail"} => decrypted' = 0
    PROVE  HoldInv'
  <1> USE DEF HoldInv
  <1>1. /\ io.call \in Transfers \cup {"handshake"}
        /\ pc \in Session /\ pc \notin Outside
        /\ io.call = "handshake" => pc = "rfb_tls" /\ sock = "ready" /\ ~is_ssl
    BY InLoop
  <1>2. /\ pc' = pc /\ left' = left /\ io'.call = io.call /\ io'.at = w
        /\ UNCHANGED <<cport, hit, has_nontls>>
    BY DEF Moves, control
  <1>3. TypeInv'
    BY <1>2 DEF TypeInv, Moves
  <1>4. CallInv'
    BY <1>1, <1>2, <1>3 DEF CallInv, Transfers
  <1>5. SessionInv'
    <2>1. CASE sock = "error"
      BY <1>1, <1>2, <2>1 DEF SessionInv, InTls, Transfers
    <2>2. CASE io.call = "handshake"
      BY <1>1, <1>2, <2>2 DEF SessionInv, InTls, CallInv, Transfers, TypeInv
    <2>3. CASE io.call # "handshake" /\ sock # "error"
      <3>1. pc # "rfb_tls"
        BY <1>1, <2>3 DEF CallInv
      <3> QED
        BY <1>1, <1>2, <2>3, <3>1 DEF SessionInv, InTls
    <2> QED
      BY <2>1, <2>2, <2>3
  <1>6. OutsideInv'
    BY <1>1, <1>2 DEF OutsideInv
  <1>7. TlsDataIsTaken'
    BY <1>2 DEF TlsDataIsTaken
  <1> QED
    BY <1>3, <1>4, <1>5, <1>6, <1>7

\* The turns of ts_read_all, ts_write_all and ts_go_tls.
LEMMA LoopTurns ==
    ASSUME HoldInv, UNCHANGED control,
           \/ AllDone \/ PlainTurn \/ TlsRead \/ TlsWrite \/ TlsWants \/ TlsDone
           \/ TlsError \/ TlsGarbage \/ Ready \/ NotReady \/ PlainTransfer
    PROVE  HoldInv'
  <1> USE TsocketAssumption
  <1>0. TypeInv /\ SessionInv /\ TlsDataIsTaken /\ decrypted \in Nat /\ now \in Nat
    BY DEF HoldInv, TypeInv
  <1>1. io.at \in {"loop", "wait", "xfer"}
    BY DEF AllDone, PlainTurn, TlsRead, TlsWrite, TlsWants, TlsDone, TlsError, TlsGarbage, Ready,
           NotReady, PlainTransfer, TlsTurn, At
  <1>2. /\ io.call \in Transfers \cup {"handshake"}
        /\ pc \in Session /\ pc \notin Outside
        /\ io.call = "handshake" => pc = "rfb_tls" /\ sock = "ready" /\ ~is_ssl
        /\ ~is_ssl => decrypted = 0
    BY <1>1, InLoop
  <1>3. /\ decrypted > 0 => is_ssl
        /\ sock = "error" => /\ decrypted = 0
                             /\ io.call \in Transfers => io.left > 0 /\ io.at # "xfer"
        /\ io.at = "xfer" => ~is_ssl
    BY <1>0, <1>2 DEF SessionInv
  <1>4. CASE AllDone
    <2>1. Moves("ok") /\ io.call \in Transfers /\ io.left = 0
      BY <1>0, <1>4, TurnMoves DEF AllDone, At
    <2>2. io.call # "handshake" /\ sock # "error"
      BY <1>3, <2>1 DEF Transfers
    <2> QED
      BY <1>0, <1>1, <1>3, <1>4, <2>1, <2>2, TurnKept DEF AllDone
  <1>5. CASE PlainTurn
    <2>1. /\ Moves("wait") /\ io'.left = io.left /\ io.call \in Transfers
          /\ io.left > 0 /\ ~is_ssl
      BY <1>0, <1>5, TurnMoves DEF PlainTurn, At
    <2>2. io.call # "handshake"
      BY <2>1 DEF Transfers
    <2> QED
      BY <1>0, <1>1, <1>2, <1>3, <1>5, <2>1, <2>2, TurnKept DEF PlainTurn
  <1>6. CASE TlsRead
    <2>1. /\ io.call = "read" /\ io.at = "loop" /\ io.left > 0 /\ sock = "ready" /\ is_ssl
          /\ UNCHANGED <<sock, open, is_ssl, ctxs, now, deadline>>
      BY <1>6 DEF TlsRead, TlsTurn
    <2>2. PICK got \in Nat :
            LET n == IF got < io.left THEN got ELSE io.left
            IN  decrypted' = got - n /\ io' = [io EXCEPT !.left = @ - n]
      <3>1. (IF decrypted > 0 THEN {decrypted} ELSE 1 .. MaxPieces) \subseteq Nat
        BY <1>0
      <3> QED
        BY <1>6, <3>1 DEF TlsRead
    <2>3. io.left \in Nat
      BY <1>0 DEF TypeInv
    <2>4. decrypted' \in Nat /\ Moves("loop")
      BY <1>0, <2>1, <2>2, <2>3 DEF Moves, TypeInv
    <2> QED
      BY <1>0, <1>1, <2>1, <2>4, TurnKept
  <1>7. CASE TlsWrite
    <2>1. /\ io.call = "write" /\ io.at = "loop" /\ sock = "ready" /\ is_ssl
          /\ UNCHANGED <<sock, open, is_ssl, ctxs, decrypted, now, deadline>>
      BY <1>7 DEF TlsWrite, TlsTurn
    <2>2. Moves("loop")
      <3>1. PICK n \in 1 .. io.left : io' = [io EXCEPT !.left = @ - n]
        BY <1>7 DEF TlsWrite
      <3>2. io.left \in Nat
        BY <1>0 DEF TypeInv
      <3> QED
        BY <1>0, <2>1, <3>1, <3>2 DEF Moves, TypeInv
    <2> QED
      BY <1>0, <1>1, <2>1, <2>2, TurnKept
  <1>8. CASE TlsWants
    <2>1. /\ sock = "ready" /\ (io.call = "read" => decrypted = 0)
          /\ UNCHANGED <<sock, open, is_ssl, ctxs, decrypted, now, deadline>>
      BY <1>8 DEF TlsWants, TlsTurn
    <2>2. Moves("wait")
      BY <1>0, <1>8, TurnMoves DEF TlsWants
    <2> QED
      BY <1>0, <1>1, <1>3, <2>1, <2>2, TurnKept
  <1>9. CASE TlsDone
    <2>1. /\ io.call = "handshake" /\ io.at = "loop" /\ is_ssl' /\ decrypted' \in Nat
          /\ UNCHANGED <<sock, open, ctxs, now, deadline>>
      BY <1>9 DEF TlsDone, TlsTurn
    <2>2. Moves("ok")
      BY <1>0, <1>9, TurnMoves DEF TlsDone
    <2>3. UNCHANGED <<pc, left, cport, hit, has_nontls>> /\ io'.call = "handshake" /\ io'.at = "ok"
      BY <2>1, <2>2 DEF Moves, control
    <2>4. is_ssl' \in BOOLEAN
      BY <1>9 DEF TlsDone
    <2>5. TypeInv'
      BY <1>0, <2>1, <2>2, <2>3, <2>4 DEF TypeInv, Moves
    <2>6. CallInv' /\ OutsideInv' /\ TlsDataIsTaken'
      BY <1>2, <2>1, <2>3 DEF CallInv, OutsideInv, TlsDataIsTaken, Transfers
    <2>7. SessionInv'
      BY <1>0, <1>2, <2>1, <2>3 DEF SessionInv, InTls, Transfers
    <2> QED
      BY <2>5, <2>6, <2>7 DEF HoldInv
  <1>10. CASE TlsError
    <2>1. /\ sock = "ready" /\ (io.call = "read" => decrypted = 0)
          /\ ctxs' = (IF io.call = "handshake" THEN ctxs - 1 ELSE ctxs)
          /\ UNCHANGED <<sock, open, is_ssl, decrypted, now, deadline>>
      BY <1>10 DEF TlsError, TlsTurn, FailCall
    <2>2. Moves("fail")
      BY <1>0, <1>10, TurnMoves DEF TlsError, FailCall
    <2> QED
      BY <1>0, <1>1, <1>3, <2>1, <2>2, TurnKept
  <1>11. CASE TlsGarbage
    <2>1. /\ sock = "error" /\ io.left > 0
          /\ UNCHANGED <<sock, open, is_ssl, ctxs, decrypted, now, deadline>>
      BY <1>11 DEF TlsGarbage
    <2>2. PICK w \in {"fail", "crashed"} : Turn(w)
      BY <1>11 DEF TlsGarbage
    <2>3. Moves(w) /\ io'.left = io.left
      BY <1>0, <2>2, TurnMoves
    <2>4. io.call # "handshake"
      BY <1>2, <2>1
    <2> QED
      BY <1>0, <1>1, <1>3, <2>1, <2>3, <2>4, TurnKept
  <1>12. CASE Ready
    <2>1. /\ io.at = "wait" /\ sock = "ready" /\ now' \in Nat
          /\ UNCHANGED <<sock, open, is_ssl, ctxs, decrypted, deadline>>
      BY <1>0, <1>12 DEF Ready, Waits, TypeInv
    <2>2. PICK w \in {"loop", "xfer"} :
             Turn(w) /\ (w = "xfer" <=> ~is_ssl /\ io.call # "handshake")
      BY <1>12 DEF Ready
    <2>3. Moves(w)
      BY <1>0, <2>2, TurnMoves
    <2> QED
      BY <1>0, <1>1, <1>3, <2>1, <2>2, <2>3, TurnKept
  <1>13. CASE NotReady
    <2>1. /\ io.at = "wait" /\ now' \in Nat
          /\ ctxs' = (IF io.call = "handshake" THEN ctxs - 1 ELSE ctxs)
          /\ UNCHANGED <<sock, open, is_ssl, decrypted, deadline>>
      BY <1>0, <1>13 DEF NotReady, Waits, TypeInv, FailCall
    <2>2. Moves("fail") /\ io'.left = io.left
      BY <1>0, <1>13, TurnMoves DEF NotReady, FailCall
    <2>3. io.call = "read" => decrypted = 0
      BY <1>0, <2>1 DEF TlsDataIsTaken
    <2>4. sock = "error" => decrypted = 0 /\ io'.left > 0
      BY <1>2, <1>3, <2>2
    <2> QED
      BY <1>0, <1>1, <1>3, <2>1, <2>2, <2>3, <2>4, TurnKept
  <1>14. CASE PlainTransfer
    <2>1. /\ io.at = "xfer" /\ UNCHANGED <<sock, open, is_ssl, ctxs, decrypted, now, deadline>>
      BY <1>14 DEF PlainTransfer
    <2>2. io.call \in Transfers /\ io.call # "handshake" /\ ~is_ssl /\ sock # "error"
      BY <1>2, <1>3, <2>1 DEF HoldInv, CallInv, Transfers
    <2>3. Moves("loop") \/ Moves("fail")
      <3>1. CASE Turn("fail")
        BY <1>0, <3>1, TurnMoves
      <3>2. CASE \E n \in 1 .. io.left : io' = [io EXCEPT !.at = "loop", !.left = @ - n]
        <4>1. PICK n \in 1 .. io.left : io' = [io EXCEPT !.at = "loop", !.left = @ - n]
          BY <3>2
        <4>2. io.left \in Nat /\ io.left - n \in Nat
          BY <1>0 DEF TypeInv
        <4>3. io' = [call |-> io.call, at |-> "loop", left |-> io.left - n]
          BY <1>0, <4>1 DEF TypeInv
        <4> QED
          BY <1>0, <4>2, <4>3 DEF Moves, TypeInv
      <3> QED
        BY <1>14, <3>1, <3>2 DEF PlainTransfer
    <2> QED
      BY <1>0, <1>1, <1>2, <2>1, <2>2, <2>3, TurnKept
  <1> QED
    BY <1>4, <1>5, <1>6, <1>7, <1>8, <1>9, <1>10, <1>11, <1>12, <1>13, <1>14

-----------------------------------------------------------------------------
(* The steps of the modules between the calls.                             *)

\* A call begins where the modules make it: for a descriptor outside the sessions,
\* for a transfer or a handshake inside.
LEMMA CallBegins ==
    ASSUME HoldInv, Call
    PROVE  HoldInv'
  <1> USE TsocketAssumption DEF HoldInv
  <1>1. /\ io = NoIo /\ io.call = "none" /\ UNCHANGED control
        /\ UNCHANGED <<sock, open, is_ssl, decrypted, now, deadline>>
    BY DEF Call, Connect, Transfer, GoTls, NoIo
  <1>2. UNCHANGED <<pc, left, cport, hit, has_nontls>>
    BY <1>1 DEF control
  <1>3. CASE Connects /\ Connect
    <2>1. /\ pc \in {"cookie", "rfb", "x11"} /\ pc \in Outside /\ pc \notin Session
          /\ pc # "cookie" => pc \in on
      BY <1>3 DEF Connects, Outside, Session, RfbSession, X11Session
    <2>2. /\ io' = [call |-> "connect", at |-> "setup", left |-> 0]
          /\ ctxs' = ctxs /\ on' = on
      BY <1>1, <1>3 DEF Connect, control
    <2>3. TypeInv'
      BY <1>1, <1>2, <2>2 DEF TypeInv
    <2>4. CallInv' /\ SessionInv' /\ TlsDataIsTaken'
      BY <1>2, <2>1, <2>2 DEF CallInv, SessionInv, TlsDataIsTaken, Transfers
    <2>5. OutsideInv'
      BY <1>1, <1>2, <2>1, <2>2 DEF OutsideInv
    <2> QED
      BY <2>3, <2>4, <2>5
  <1>4. ASSUME NEW c \in Transfers, NEW n \in Pieces, Reads \/ Writes, Transfer(c, n)
        PROVE  HoldInv'
    <2>1. /\ pc \in Session \ {"rfb_tls", "rfb_exit", "x11_exit"} /\ pc \notin Outside
          /\ pc \in {"rfb_types", "rfb_types2"} => left > 0
      BY <1>4 DEF Reads, Writes, Outside, Session, RfbSession, X11Session
    <2>2. io' = [call |-> c, at |-> "loop", left |-> n] /\ ctxs' = ctxs
      BY <1>4 DEF Transfer
    <2>3. n \in Nat /\ (pc # "rfb_text" => n > 0)
      BY <1>4 DEF Pieces
    <2>4. io'.call = c /\ io'.at = "loop" /\ io'.left = n /\ c \in {"read", "write"}
      BY <2>2 DEF Transfers
    <2>5. TypeInv'
      BY <1>1, <1>2, <2>2, <2>3, <2>4 DEF TypeInv
    <2>6. CallInv' /\ OutsideInv' /\ TlsDataIsTaken'
      BY <1>2, <2>1, <2>4 DEF CallInv, OutsideInv, TlsDataIsTaken, Transfers
    <2>7. SessionInv'
      <3>1. ~(InTls') => ~InTls
        BY <1>1, <1>2 DEF InTls
      <3> QED
        BY <1>1, <1>2, <2>1, <2>2, <2>3, <2>4, <3>1 DEF SessionInv
    <2> QED
      BY <2>5, <2>6, <2>7
  <1>5. CASE pc = "rfb_tls" /\ GoTls
    <2>1. pc \in Session /\ pc \notin Outside
      BY <1>5 DEF Outside, Session, RfbSession
    <2>2. sock = "ready" /\ ~is_ssl /\ ctxs = 0 /\ decrypted = 0
      BY <1>1, <1>5, <2>1 DEF SessionInv, InTls, TypeInv
    <2>3. \/ io' = [call |-> "handshake", at |-> "fail", left |-> 0] /\ ctxs' = 0
          \/ io' = [call |-> "handshake", at |-> "loop", left |-> 1] /\ ctxs' = 1
      BY <1>5, <2>2 DEF GoTls
    <2>4. TypeInv'
      BY <1>1, <1>2, <2>3 DEF TypeInv
    <2>5. CallInv' /\ OutsideInv' /\ TlsDataIsTaken'
      BY <1>2, <1>5, <2>1, <2>3 DEF CallInv, OutsideInv, TlsDataIsTaken, Transfers
    <2>6. SessionInv'
      BY <1>1, <1>2, <1>5, <2>1, <2>2, <2>3 DEF SessionInv, Transfers
    <2> QED
      BY <2>4, <2>5, <2>6
  <1> QED
    BY <1>3, <1>4, <1>5 DEF Call, Transfers

\* A step inside a session: one call is over, the connection is as it was, and the
\* next place depends on how the call ended.
Ahead == {"rfb_count2", "rfb_types2", "rfb_reason", "rfb_text", "rfb_exit"}

\* Only what the module reads changes.
Kept == /\ io' = NoIo
        /\ UNCHANGED <<cport, hit, connection>>
        /\ left' \in Nat /\ has_nontls' \in BOOLEAN

\* Where it goes, and what becomes of the deadline.
Path == /\ pc \in Session \ {"rfb_exit", "x11_exit"} /\ pc' \in Session
        /\ io.at \in {"ok", "fail", "none"}
        /\ io.at = "ok" \/ pc' \in {"rfb_exit", "x11_exit"} \/ pc = "rfb_types"
        /\ pc \in Ahead \cup {"rfb_tls"} => pc' \in Ahead
        /\ pc \in RfbSession <=> pc' \in RfbSession
        /\ pc' \in Plain => pc \in Plain
        /\ \/ deadline' = deadline
           \/ pc = "rfb_types" /\ pc' = "rfb_choose" /\ deadline' = deadline + TlsExtra

Inner == Kept /\ Path

\* Such a step leaves the session with what it held.
LEMMA InnerHolds ==
    ASSUME HoldInv, Inner
    PROVE  HoldInv'
  <1> USE DEF HoldInv
  <1>1. /\ io' = NoIo /\ io'.call = "none" /\ io'.at = "none" /\ io'.left = 0
        /\ UNCHANGED <<sock, open, is_ssl, ctxs, decrypted, now, cport, hit>>
    BY DEF Inner, Kept, NoIo, connection
  <1>2. /\ pc \in Session /\ pc' \in Session /\ pc' \notin Outside
    BY DEF Inner, Path, Session, RfbSession, X11Session, Outside
  <1>3. TypeInv'
    BY <1>1, <1>2, ModulesAssumption DEF TypeInv, NoIo, Inner, Kept, Path
  <1>4. CallInv' /\ OutsideInv' /\ TlsDataIsTaken'
    BY <1>1, <1>2 DEF CallInv, OutsideInv, TlsDataIsTaken, Transfers
  <1>5. SessionInv'
    <2>1. sock = "error" => pc' \in {"rfb_exit", "x11_exit"}
      BY <1>2 DEF Inner, Path, SessionInv, CallInv, TypeInv, Transfers
    <2>2. sock = "ready" /\ is_ssl => InTls'
      BY <1>2 DEF Inner, Path, SessionInv, InTls, Ahead
    <2>3. sock = "ready" => ctxs = IF is_ssl THEN 1 ELSE 0
      BY <1>2 DEF Inner, Path, SessionInv
    <2> QED
      BY <1>1, <1>2, <2>1, <2>2, <2>3 DEF SessionInv, Transfers
  <1> QED
    BY <1>3, <1>4, <1>5

\* An inner step records at most one code; one that ends the session leads to its exit.
Recorded ==
    \/ told' = told
    \/ \E m \in {"rfb", "x11"}, c \in Codes :
          /\ Tell(m, c)
          /\ c \in Outcomes => pc' = IF m = "rfb" THEN "rfb_exit" ELSE "x11_exit"

SessionStep ==
    \/ RfbVersion \/ RfbReply
    \/ RfbCount("rfb_count", "rfb_types") \/ RfbType \/ RfbTypesRead
    \/ RfbChoose \/ RfbGoTls
    \/ RfbCount("rfb_count2", "rfb_types2") \/ RfbType2 \/ RfbTypes2Read
    \/ RfbAuth \/ RfbReason \/ RfbText
    \/ X11Hello \/ X11State \/ X11Protocol

\* When all types are read no call is in progress.
LEMMA TypesAreRead ==
    ASSUME HoldInv, Running, pc \in {"rfb_types", "rfb_types2"}, left = 0
    PROVE  io = NoIo /\ io.at = "none"
  BY DEF HoldInv, CallInv, TypeInv, Transfers, Running, NoIo

\* check_vnc and check_x11 leave the connection to the calls,
LEMMA SessionKeeps ==
    ASSUME HoldInv, Running, SessionStep
    PROVE  Kept
  <1> USE DEF Kept, Fails, Succeeds, Leave, LeaveTelling, Step
  <1>1. left \in Nat /\ has_nontls \in BOOLEAN
    BY DEF HoldInv, TypeInv
  <1>2. CASE RfbVersion
    BY <1>1, <1>2 DEF RfbVersion
  <1>3. CASE RfbReply
    BY <1>1, <1>3 DEF RfbReply
  <1>4. CASE RfbCount("rfb_count", "rfb_types")
    BY <1>1, <1>4 DEF RfbCount
  <1>5. CASE RfbType
    <2>1. has_nontls' \in BOOLEAN
      BY <1>1, <1>5, Zenon DEF RfbType
    <2>2. left' \in Nat
      BY <1>1, <1>5 DEF RfbType
    <2> QED
      BY <1>5, <2>1, <2>2 DEF RfbType
  <1>6. CASE RfbTypesRead
    BY <1>1, <1>6, TypesAreRead DEF RfbTypesRead
  <1>7. CASE RfbChoose
    BY <1>1, <1>7 DEF RfbChoose
  <1>8. CASE RfbGoTls
    BY <1>1, <1>8 DEF RfbGoTls
  <1>9. CASE RfbCount("rfb_count2", "rfb_types2")
    BY <1>1, <1>9 DEF RfbCount
  <1>10. CASE RfbType2
    BY <1>1, <1>10 DEF RfbType2
  <1>11. CASE RfbTypes2Read
    BY <1>1, <1>11, TypesAreRead DEF RfbTypes2Read
  <1>12. CASE RfbAuth
    BY <1>1, <1>12 DEF RfbAuth
  <1>13. CASE RfbReason
    BY <1>1, <1>13 DEF RfbReason
  <1>14. CASE RfbText
    BY <1>1, <1>14 DEF RfbText
  <1>15. CASE X11Hello
    BY <1>1, <1>15 DEF X11Hello
  <1>16. CASE X11State
    BY <1>1, <1>16 DEF X11State
  <1>17. CASE X11Protocol
    BY <1>1, <1>17 DEF X11Protocol
  <1> QED
    BY <1>2, <1>3, <1>4, <1>5, <1>6, <1>7, <1>8, <1>9, <1>10, <1>11, <1>12, <1>13, <1>14, <1>15, <1>16, <1>17
       DEF SessionStep

\* follow these paths,
LEMMA SessionPaths ==
    ASSUME HoldInv, Running, SessionStep
    PROVE  Path
  <1> USE DEF Path, Session, RfbSession, X11Session, Ahead, Plain,
              Fails, Succeeds, Leave, LeaveTelling, Goto
  <1>1. CASE RfbVersion
    BY <1>1 DEF RfbVersion
  <1>2. CASE RfbReply
    BY <1>2 DEF RfbReply
  <1>3. CASE RfbCount("rfb_count", "rfb_types")
    BY <1>3 DEF RfbCount
  <1>4. CASE RfbType
    BY <1>4 DEF RfbType
  <1>5. CASE RfbTypesRead
    BY <1>5, TypesAreRead DEF RfbTypesRead
  <1>6. CASE RfbChoose
    BY <1>6 DEF RfbChoose
  <1>7. CASE RfbGoTls
    BY <1>7 DEF RfbGoTls
  <1>8. CASE RfbCount("rfb_count2", "rfb_types2")
    BY <1>8 DEF RfbCount
  <1>9. CASE RfbType2
    BY <1>9 DEF RfbType2
  <1>10. CASE RfbTypes2Read
    BY <1>10, TypesAreRead DEF RfbTypes2Read
  <1>11. CASE RfbAuth
    BY <1>11 DEF RfbAuth
  <1>12. CASE RfbReason
    BY <1>12 DEF RfbReason
  <1>13. CASE RfbText
    BY <1>13 DEF RfbText
  <1>14. CASE X11Hello
    BY <1>14 DEF X11Hello
  <1>15. CASE X11State
    BY <1>15 DEF X11State
  <1>16. CASE X11Protocol
    BY <1>16 DEF X11Protocol
  <1> QED
    BY <1>1, <1>2, <1>3, <1>4, <1>5, <1>6, <1>7, <1>8, <1>9, <1>10, <1>11, <1>12, <1>13, <1>14, <1>15, <1>16
       DEF SessionStep

\* and record an end of the session only on the way to its exit.
LEMMA RecordsNothing ==
    ASSUME NEW l, Leave(l)
    PROVE  Recorded
  BY DEF Leave, Recorded

LEMMA RecordsEnd ==
    ASSUME NEW c \in Codes,
           LeaveTelling("rfb_exit", "rfb", c) \/ LeaveTelling("x11_exit", "x11", c)
    PROVE  Recorded
  <1>1. \/ Tell("rfb", c) /\ pc' = "rfb_exit"
        \/ Tell("x11", c) /\ pc' = "x11_exit"
    BY DEF LeaveTelling, Goto
  <1> QED
    BY <1>1 DEF Recorded

LEMMA SessionRecords ==
    ASSUME HoldInv, Running, SessionStep
    PROVE  Recorded
  <1> USE DEF Codes, Outcomes
  <1>1. CASE RfbVersion
    BY <1>1, RecordsNothing, RecordsEnd DEF RfbVersion
  <1>2. CASE RfbReply
    BY <1>2, RecordsNothing, RecordsEnd DEF RfbReply
  <1>3. CASE RfbCount("rfb_count", "rfb_types")
    <2>1. told' = told => Recorded
      BY DEF Recorded
    <2> QED
      BY <1>3, <2>1, RecordsNothing, RecordsEnd DEF RfbCount
  <1>4. CASE RfbType
    <2>1. told' = told => Recorded
      BY DEF Recorded
    <2>2. Tell("rfb", "HAS_VENCRYPT") => Recorded
      BY DEF Recorded
    <2> QED
      BY <1>4, <2>1, <2>2, RecordsEnd DEF RfbType
  <1>5. CASE RfbTypesRead
    <2>1. Tell("rfb", "ONLY_TLS") => Recorded
      BY DEF Recorded
    <2> QED
      BY <1>5, <2>1, RecordsNothing DEF RfbTypesRead
  <1>6. CASE RfbChoose
    BY <1>6, RecordsNothing, RecordsEnd DEF RfbChoose
  <1>7. CASE RfbGoTls
    BY <1>7, RecordsNothing, RecordsEnd DEF RfbGoTls
  <1>8. CASE RfbCount("rfb_count2", "rfb_types2")
    <2>1. told' = told => Recorded
      BY DEF Recorded
    <2> QED
      BY <1>8, <2>1, RecordsNothing, RecordsEnd DEF RfbCount
  <1>9. CASE RfbType2
    <2>1. told' = told => Recorded
      BY DEF Recorded
    <2> QED
      BY <1>9, <2>1, RecordsNothing, RecordsEnd DEF RfbType2
  <1>10. CASE RfbTypes2Read
    BY <1>10, RecordsNothing, RecordsEnd DEF RfbTypes2Read
  <1>11. CASE RfbAuth
    BY <1>11, RecordsNothing, RecordsEnd DEF RfbAuth
  <1>12. CASE RfbReason
    BY <1>12, RecordsNothing, RecordsEnd DEF RfbReason
  <1>13. CASE RfbText
    BY <1>13, RecordsNothing, RecordsEnd DEF RfbText
  <1>14. CASE X11Hello
    BY <1>14, RecordsNothing, RecordsEnd DEF X11Hello
  <1>15. CASE X11State
    BY <1>15, RecordsNothing, RecordsEnd DEF X11State
  <1>16. CASE X11Protocol
    BY <1>16, RecordsNothing, RecordsEnd DEF X11Protocol
  <1> QED
    BY <1>1, <1>2, <1>3, <1>4, <1>5, <1>6, <1>7, <1>8, <1>9, <1>10, <1>11, <1>12, <1>13, <1>14, <1>15, <1>16
       DEF SessionStep

\* The steps of modules_exec outside the sessions, with no call in progress.
LEMMA OutsideSteps ==
    ASSUME HoldInv, Running,
           StartResult \/ CookieNoPort \/ PrintResult \/ RfbOff \/ X11Off
    PROVE  HoldInv'
  <1> USE DEF HoldInv, Goto, tsocket
  <1>1. /\ pc \in Outside /\ pc' \in Outside /\ pc' \notin Session
        /\ UNCHANGED <<sock, open, is_ssl, ctxs, decrypted, deadline, io, left, has_nontls>>
    BY DEF StartResult, CookieNoPort, PrintResult, RfbOff, X11Off, Outside,
           Session, RfbSession, X11Session
  <1>2. now' \in Nat /\ cport' \in Nat
    BY DEF StartResult, CookieNoPort, PrintResult, RfbOff, X11Off, TypeInv
  <1>3. hit' \in BOOLEAN
    BY Zenon DEF StartResult, CookieNoPort, PrintResult, RfbOff, X11Off, TypeInv
  <1>4. io.call \notin {"connect", "handshake"} \cup Transfers
    BY <1>1 DEF StartResult, CookieNoPort, PrintResult, RfbOff, X11Off, CallInv, NoIo,
       Transfers, Session, RfbSession, X11Session
  <1>5. TypeInv'
    BY <1>1, <1>2, <1>3 DEF TypeInv
  <1>6. CallInv'
    BY <1>1, <1>4 DEF CallInv, TypeInv, Transfers
  <1>7. OutsideInv' /\ SessionInv' /\ TlsDataIsTaken'
    BY <1>1, <1>4 DEF OutsideInv, SessionInv, TlsDataIsTaken, Transfers
  <1> QED
    BY <1>5, <1>6, <1>7

\* A connect has returned to modules_exec: check_cookie closes what it got, a module
\* begins its session on it, or there is nothing.
LEMMA AfterConnect ==
    ASSUME HoldInv,
           CookieHit \/ CookieMiss \/ CookieVerify \/ RfbConnect \/ X11Connect
    PROVE  HoldInv'
  <1> USE TsocketAssumption, ModulesAssumption DEF HoldInv, Goto
  <1>1. /\ io.at = "returned" /\ io' = NoIo /\ pc \in {"cookie", "rfb", "x11"}
        /\ pc \in Outside
    BY DEF CookieHit, CookieMiss, CookieVerify, RfbConnect, X11Connect, Tried, Begins,
           NotConnected, Returned, Outside
  <1>2. /\ ~is_ssl /\ ctxs = 0 /\ decrypted = 0 /\ sock \in {"ready", "refused", "error"}
        /\ open = IF sock = "ready" THEN 1 ELSE 0
    BY <1>1 DEF OutsideInv
  <1>3. io'.call = "none" /\ io'.at = "none" /\ io'.left = 0
    BY <1>1 DEF NoIo
  <1>4. /\ UNCHANGED <<ctxs, decrypted, now>>
        /\ cport' \in Nat /\ left' \in Nat /\ deadline' \in Nat
    BY DEF CookieHit, CookieMiss, CookieVerify, RfbConnect, X11Connect, Tried, Begins,
           NotConnected, TypeInv
  <1>5. hit' \in BOOLEAN /\ has_nontls' \in BOOLEAN
    BY Zenon DEF CookieHit, CookieMiss, CookieVerify, RfbConnect, X11Connect, Tried, Begins,
                 NotConnected, TypeInv
  <1>6. CASE \/ CookieHit \/ CookieMiss \/ CookieVerify
             \/ NotConnected("x11", "rfb") \/ NotConnected("idle", "x11")
    <2>1. /\ open' = 0 /\ sock' = "none" /\ is_ssl' = is_ssl
          /\ pc' \in Outside /\ pc' \notin Session
      BY <1>1, <1>2, <1>6 DEF CookieHit, CookieMiss, CookieVerify, Tried, NotConnected, Outside,
         Session, RfbSession, X11Session
    <2>2. TypeInv'
      BY <1>1, <1>3, <1>4, <1>5, <2>1 DEF TypeInv, NoIo
    <2>3. CallInv' /\ OutsideInv' /\ SessionInv' /\ TlsDataIsTaken'
      BY <1>1, <1>2, <1>3, <1>4, <2>1
         DEF CallInv, OutsideInv, SessionInv, TlsDataIsTaken, Transfers
    <2> QED
      BY <2>2, <2>3
  <1>7. CASE Begins("rfb_version") \/ Begins("x11_hello")
    <2>1. /\ UNCHANGED <<open, sock>> /\ sock \in {"ready", "error"}
          /\ pc' \in {"rfb_version", "x11_hello"} /\ pc' \in Session /\ pc' \notin Outside
          /\ sock = "ready" => ~is_ssl'
      BY <1>2, <1>7 DEF Begins, ts_socket, Outside, Session, RfbSession, X11Session
    <2>2. is_ssl' \in BOOLEAN
      BY <1>7, Zenon DEF Begins, ts_socket
    <2>3. TypeInv'
      BY <1>1, <1>3, <1>4, <1>5, <2>1, <2>2 DEF TypeInv, NoIo
    <2>4. CallInv' /\ OutsideInv' /\ TlsDataIsTaken'
      BY <1>1, <1>3, <2>1 DEF CallInv, OutsideInv, TlsDataIsTaken, Transfers
    <2>5. SessionInv'
      BY <1>2, <1>3, <1>4, <2>1, <2>2 DEF SessionInv, Transfers
    <2> QED
      BY <2>3, <2>4, <2>5
  <1> QED
    BY <1>6, <1>7 DEF RfbConnect, X11Connect

\* ts_close gives back what the session holds.
LEMMA AfterExit ==
    ASSUME HoldInv, Running, Exit("rfb_exit", "x11") \/ Exit("x11_exit", "idle")
    PROVE  HoldInv'
  <1> USE DEF HoldInv, Goto
  <1>1. /\ pc \in Session /\ pc' \in {"x11", "idle"} /\ pc' \in Outside /\ pc' \notin Session
        /\ io = NoIo /\ io.call = "none"
    BY DEF Exit, ts_close, NoIo, Outside, Session, RfbSession, X11Session
  <1>2. open' = 0 /\ sock' = "none" /\ decrypted' = 0 /\ ctxs' = 0 /\ ~is_ssl'
    BY <1>1 DEF Exit, ts_close, SessionInv
  <1>3. io'.call = "none" /\ io'.left = 0 /\ io'.at \in {"none", "crashed"}
        /\ (io'.at = "none" => io' = NoIo)
    BY <1>1 DEF Exit, ts_close, NoIo, Turn
  <1>4. UNCHANGED <<now, deadline, cport, hit, left, has_nontls>> /\ is_ssl' = FALSE
    BY DEF Exit, ts_close
  <1>5. io' \in [call : {"none"}, at : {"none", "crashed"}, left : {0}]
    BY <1>1 DEF Exit, ts_close, NoIo, Turn
  <1>6. TypeInv'
    <2>1. is_ssl' \in BOOLEAN
      BY <1>4, Zenon
    <2> QED
      BY <1>1, <1>2, <1>4, <1>5, <2>1 DEF TypeInv
  <1>7. CallInv' /\ OutsideInv' /\ SessionInv' /\ TlsDataIsTaken'
    BY <1>1, <1>2, <1>3, <1>4 DEF CallInv, OutsideInv, SessionInv, TlsDataIsTaken, Transfers
  <1> QED
    BY <1>6, <1>7

\* Nobody holds anything before the first result.
LEMMA HoldInvInit == Init => HoldInv
  <1> SUFFICES ASSUME Init
               PROVE  HoldInv
    OBVIOUS
  <1> USE DEF Init, TsocketInit
  <1>1. pc \in Outside /\ pc \notin Session
    BY DEF Outside, Session, RfbSession, X11Session
  <1>2. TypeInv
    <2>1. is_ssl \in BOOLEAN /\ hit \in BOOLEAN /\ has_nontls \in BOOLEAN
      BY Zenon
    <2> QED
      BY <1>1, <2>1 DEF TypeInv, NoIo
  <1>3. CallInv /\ OutsideInv /\ SessionInv /\ TlsDataIsTaken
    BY <1>1 DEF CallInv, OutsideInv, SessionInv, TlsDataIsTaken, NoIo, Transfers
  <1> QED
    BY <1>2, <1>3 DEF HoldInv

OutsideStep == StartResult \/ CookieNoPort \/ PrintResult \/ RfbOff \/ X11Off
ConnectedStep == CookieHit \/ CookieMiss \/ CookieVerify \/ RfbConnect \/ X11Connect
ExitStep == Exit("rfb_exit", "x11") \/ Exit("x11_exit", "idle")
ConnectTurn == Setup \/ TryConnect \/ PollConnect
LoopTurn == \/ AllDone \/ PlainTurn \/ TlsRead \/ TlsWrite \/ TlsWants \/ TlsDone
            \/ TlsError \/ TlsGarbage \/ Ready \/ NotReady \/ PlainTransfer

\* The kinds of steps there are.
LEMMA StepKinds ==
    ASSUME [Next]_vars
    PROVE  \/ Running /\ Call
           \/ Running /\ ConnectTurn /\ UNCHANGED control
           \/ Running /\ LoopTurn /\ UNCHANGED control
           \/ Running /\ OutsideStep
           \/ Running /\ ConnectedStep
           \/ Running /\ SessionStep
           \/ Running /\ ExitStep
           \/ UNCHANGED vars
  BY DEF Next, Exec, IoStep, Dead, OutsideStep, ConnectedStep, SessionStep, ExitStep,
         ConnectTurn, LoopTurn

\* HoldInv is inductive.
LEMMA HoldInvariant == Spec => []HoldInv
  <1>1. HoldInv /\ [Next]_vars => HoldInv'
    <2> SUFFICES ASSUME HoldInv, [Next]_vars
                 PROVE  HoldInv'
      OBVIOUS
    <2>1. CASE Call
      BY <2>1, CallBegins
    <2>2. CASE ConnectTurn /\ UNCHANGED control
      BY <2>2, ConnectTurns DEF ConnectTurn
    <2>3. CASE LoopTurn /\ UNCHANGED control
      BY <2>3, LoopTurns DEF LoopTurn
    <2>4. CASE Running /\ OutsideStep
      BY <2>4, OutsideSteps DEF OutsideStep
    <2>5. CASE ConnectedStep
      BY <2>5, AfterConnect DEF ConnectedStep
    <2>6. CASE Running /\ SessionStep
      BY <2>6, SessionKeeps, SessionPaths, InnerHolds DEF Inner
    <2>7. CASE Running /\ ExitStep
      BY <2>7, AfterExit DEF ExitStep
    <2>8. CASE UNCHANGED vars
      BY <2>8 DEF vars, control, tsocket, HoldInv, TypeInv, CallInv, OutsideInv, SessionInv,
         TlsDataIsTaken, InTls
    <2> QED
      BY <2>1, <2>2, <2>3, <2>4, <2>5, <2>6, <2>7, <2>8, StepKinds
  <1> QED
    BY <1>1, HoldInvInit, PTL DEF Spec

(* ts.c:208: whatever the peer sends and however it is cut into records, a *)
(* read neither waits nor gives up while TLS holds decrypted data.         *)
THEOREM TlsDataAlwaysTaken == Spec => []TlsDataIsTaken
  <1>1. HoldInv => TlsDataIsTaken
    BY DEF HoldInv
  <1> QED
    BY <1>1, HoldInvariant, PTL

(* Whatever way check_vnc or check_x11 takes out of its session, and       *)
(* whatever ts_socket left in is_ssl, descriptors and contexts are gone.   *)
THEOREM NothingEverLeaks == Spec => []NothingLeaks
  <1>1. HoldInv => NothingLeaks
    <2> SUFFICES ASSUME HoldInv
                 PROVE  NothingLeaks
      OBVIOUS
    <2>1. InSession <=> pc \in Session
      BY DEF HoldInv, TypeInv, InSession, Outside, Session, RfbSession, X11Session
    <2>2. ~InSession <=> pc \in Outside
      BY DEF InSession, Outside
    <2>3. io = NoIo => io.call = "none"
      BY DEF NoIo
    <2> QED
      BY <2>1, <2>2, <2>3 DEF HoldInv, OutsideInv, SessionInv, NothingLeaks
  <1> QED
    BY <1>1, HoldInvariant, PTL

-----------------------------------------------------------------------------
(* Time.                                                                   *)

\* One port more is one timeout more, and no port takes check_cookie beyond its time.
LEMMA PortTime ==
    ASSUME NEW k \in 1 .. CookiePorts + 1
    PROVE  /\ CookieTime \in Nat
           /\ Ports(k) \in Nat
           /\ Ports(k) + ConnTimeout = Ports(k + 1)
           /\ Ports(k) + ConnTimeout <= CookieTime
           /\ Ports(1) = 0
  <1>1. CookiePorts \in Nat /\ ConnTimeout \in Nat
    BY TsocketAssumption, ModulesAssumption
  <1>2. CookieTime \in Nat /\ (k - 1) * ConnTimeout \in Nat
    BY <1>1 DEF CookieTime
  <1>3. (k - 1) * ConnTimeout + ConnTimeout = k * ConnTimeout /\ (k + 1) - 1 = k
    BY <1>1
  <1>4. CookieTime = k * ConnTimeout + (CookiePorts + 1 - k) * ConnTimeout
    BY <1>1 DEF CookieTime
  <1>5. (CookiePorts + 1 - k) * ConnTimeout >= 0
    <2>1. CookiePorts + 1 - k \in Nat
      BY <1>1
    <2> QED
      BY <1>1, <2>1
  <1> QED
    BY <1>1, <1>2, <1>3, <1>4, <1>5 DEF Ports

\* The times are numbers, and ordered.
LEMMA Times ==
    /\ CookieTime \in Nat /\ ConnTimeout \in Nat /\ ReadTimeout \in Nat /\ TlsExtra \in Nat
    /\ CookiePorts \in Nat /\ Ports(1) = 0 /\ 1 \in 1 .. CookiePorts + 1
    /\ RfbTime = CookieTime + ConnTimeout + ReadTimeout + TlsExtra
    /\ WorkerIsFreeInTime <=> now <= RfbTime + ConnTimeout + ReadTimeout
    /\ WorkerIsFreeInTime' <=> now' <= RfbTime + ConnTimeout + ReadTimeout
  <1>1. /\ ConnTimeout \in Nat /\ ReadTimeout \in Nat /\ TlsExtra \in Nat /\ CookiePorts \in Nat
    BY TsocketAssumption, ModulesAssumption
  <1>2. 1 \in 1 .. CookiePorts + 1
    BY <1>1
  <1>3. CookieTime \in Nat /\ Ports(1) = 0
    BY <1>2, PortTime
  <1>4. RfbTime = CookieTime + ConnTimeout + ReadTimeout + TlsExtra
    BY DEF RfbTime
  <1>5. CookieTime + (ConnTimeout + ReadTimeout + TlsExtra) + (ConnTimeout + ReadTimeout)
           = RfbTime + ConnTimeout + ReadTimeout
    BY <1>1, <1>3, <1>4
  <1> QED
    BY <1>1, <1>2, <1>3, <1>4, <1>5 DEF WorkerIsFreeInTime, CookieTime

\* A call takes time, and no more than its timeout or the session's deadline.
LEMMA CallTime ==
    ASSUME HoldInv, TimeInv,
           Call \/ (ConnectTurn /\ UNCHANGED control) \/ (LoopTurn /\ UNCHANGED control)
    PROVE  TimeInv'
  <1>1. /\ now \in Nat /\ deadline \in Nat
        /\ UNCHANGED <<pc, cport>>
        /\ deadline' = deadline
    BY DEF HoldInv, TypeInv, Call, control, Connect, Transfer, GoTls, ConnectTurn, Setup,
           TryConnect, PollConnect, LoopTurn, AllDone, PlainTurn, TlsRead, TlsWrite, TlsWants,
           TlsDone, TlsError, TlsGarbage, Ready, NotReady, PlainTransfer
  <1>2. CASE Call
    <2>1. now' = now /\ Connected = 0
      BY <1>2 DEF Call, Connect, Transfer, GoTls, Connected, NoIo
    <2>2. Connected' = 0
      BY <1>2 DEF Call, Connect, Transfer, GoTls, Connected
    <2> QED
      BY <1>1, <2>1, <2>2 DEF TimeInv, WorkerIsFreeInTime
  <1>3. CASE ConnectTurn /\ UNCHANGED control
    <2>1. /\ pc \in {"cookie", "rfb", "x11"} /\ Connected = 0
          /\ pc \notin RfbSession /\ pc \notin X11Session
      BY <1>3 DEF HoldInv, CallInv, ConnectTurn, Setup, TryConnect, PollConnect, At, Connected,
         RfbSession, X11Session
    <2>2. now' \in Nat /\ now' <= now + Connected' /\ Connected' \in Nat
      <3>1. CASE PollConnect
        <4>1. Turn("returned") /\ TypeInv
          BY <3>1 DEF PollConnect, HoldInv
        <4>2. io'.at = "returned"
          BY <4>1, TurnFields
        <4> QED
          BY <1>1, <3>1, <4>2, Times DEF PollConnect, Waits, Connected
      <3>2. CASE Setup \/ TryConnect
        BY <1>1, <3>2, Times DEF Setup, TryConnect, Connected
      <3> QED
        BY <1>3, <3>1, <3>2 DEF ConnectTurn
    <2>3. CASE pc = "cookie"
      <3>1. cport \in 1 .. CookiePorts + 1 /\ now <= Ports(cport) + 0
        BY <2>1, <2>3 DEF TimeInv
      <3>2. Ports(cport) \in Nat
        BY <3>1, PortTime
      <3>3. now' <= Ports(cport) + Connected'
        BY <1>1, <2>2, <3>1, <3>2 DEF Connected
      <3> QED
        BY <1>1, <2>1, <2>3, <3>1, <3>3 DEF TimeInv, RfbSession, X11Session
    <2>4. CASE pc = "rfb"
      <3>1. now' <= CookieTime + Connected'
        BY <1>1, <2>1, <2>2, <2>4, Times DEF TimeInv, Connected
      <3> QED
        BY <1>1, <2>1, <2>4, <3>1 DEF TimeInv
    <2>5. CASE pc = "x11"
      <3>1. now <= RfbTime /\ RfbTime \in Nat
        BY <1>1, <2>1, <2>5, Times DEF TimeInv
      <3>2. now' <= RfbTime + Connected'
        BY <1>1, <2>2, <3>1 DEF Connected
      <3> QED
        BY <1>1, <2>1, <2>5, <3>2 DEF TimeInv
    <2> QED
      BY <2>1, <2>3, <2>4, <2>5
  <1>4. CASE LoopTurn /\ UNCHANGED control
    <2>1. io.at \in {"loop", "wait", "xfer"}
      BY <1>4 DEF LoopTurn, AllDone, PlainTurn, TlsRead, TlsWrite, TlsWants, TlsDone, TlsError,
         TlsGarbage, Ready, NotReady, PlainTransfer, TlsTurn, At
    <2>2. pc \in Session /\ pc \notin Outside
      BY <2>1, InLoop
    <2>3. now <= deadline
      BY <2>2 DEF TimeInv, Session
    <2>4. now' <= deadline
      <3>1. CASE Ready \/ NotReady
        BY <1>1, <2>3, <3>1 DEF Ready, NotReady, Waits
      <3>2. CASE ~(Ready \/ NotReady)
        <4>1. now' = now
          BY <1>4, <3>2 DEF LoopTurn, AllDone, PlainTurn, TlsRead, TlsWrite, TlsWants, TlsDone,
             TlsError, TlsGarbage, PlainTransfer
        <4> QED
          BY <2>3, <4>1
      <3> QED
        BY <3>1, <3>2
    <2> QED
      BY <1>1, <2>2, <2>4 DEF TimeInv, Session, Outside
  <1> QED
    BY <1>2, <1>3, <1>4

\* The modules take no time, and set the deadlines.
LEMMA ExecTime ==
    ASSUME HoldInv, TimeInv, Running,
           OutsideStep \/ ConnectedStep \/ SessionStep \/ ExitStep
    PROVE  TimeInv'
  <1>1. now \in Nat /\ deadline \in Nat /\ RfbTime \in Nat
    BY Times DEF HoldInv, TypeInv
  <1>2. Connected \in 0 .. ConnTimeout /\ Connected' \in Nat
    BY Times DEF Connected
  <1>3. CASE StartResult
    <2>1. now' = 0 /\ cport' = 1 /\ pc' \in {"cookie", "print"}
      BY <1>3 DEF StartResult, Goto
    <2>2. /\ now' <= Ports(cport') + Connected' /\ now' <= CookieTime
          /\ cport' \in 1 .. CookiePorts + 1
      BY <1>2, <2>1, Times
    <2> QED
      BY <2>1, <2>2 DEF TimeInv, RfbSession, X11Session
  <1>4. CASE CookieNoPort \/ CookieHit \/ CookieMiss \/ CookieVerify
    <2>1. /\ pc = "cookie" /\ now' = now
          /\ cport \in 1 .. CookiePorts + 1 /\ now <= Ports(cport) + Connected
      BY <1>4 DEF TimeInv, CookieNoPort, CookieHit, CookieMiss, CookieVerify, Tried, tsocket
    <2>2. now <= CookieTime
      BY <1>1, <1>2, <2>1, PortTime, Times
    <2>3. CASE CookieMiss
      <3>1. /\ pc' = "cookie" /\ cport' = cport + 1 /\ cport' \in 1 .. CookiePorts + 1
            /\ Connected = ConnTimeout
        BY <2>1, <2>3, Times DEF CookieMiss, Tried, Returned, Connected
      <3>2. now' <= Ports(cport') /\ Ports(cport') \in Nat
        BY <2>1, <3>1, PortTime
      <3>3. now' <= Ports(cport') + Connected'
        BY <1>1, <1>2, <2>1, <3>2
      <3> QED
        BY <3>1, <3>3 DEF TimeInv, RfbSession, X11Session
    <2>4. CASE ~CookieMiss
      <3>1. pc' \in {"idle", "print"}
        BY <1>4, <2>4 DEF CookieNoPort, CookieHit, CookieVerify, Goto
      <3>2. now' <= CookieTime /\ WorkerIsFreeInTime'
        BY <1>1, <2>1, <2>2, Times
      <3> QED
        BY <3>1, <3>2 DEF TimeInv, RfbSession, X11Session
    <2> QED
      BY <2>3, <2>4
  <1>5. CASE PrintResult
    <2>1. pc = "print" /\ pc' = "rfb" /\ now' = now
      BY <1>5 DEF PrintResult, Goto, tsocket
    <2>2. now <= CookieTime
      BY <2>1 DEF TimeInv
    <2>3. now' <= CookieTime + Connected'
      BY <1>1, <1>2, <2>1, <2>2, Times DEF Connected
    <2> QED
      BY <2>1, <2>3 DEF TimeInv, RfbSession, X11Session
  <1>6. CASE RfbOff \/ (pc = "rfb" /\ NotConnected("x11", "rfb"))
    <2>1. pc = "rfb" /\ pc' = "x11" /\ now' = now
      BY <1>6 DEF RfbOff, NotConnected, Goto, tsocket
    <2>2. now <= CookieTime + Connected
      BY <2>1 DEF TimeInv
    <2>3. now' <= RfbTime + Connected'
      BY <1>1, <1>2, <2>1, <2>2, Times DEF Connected
    <2> QED
      BY <2>1, <2>3 DEF TimeInv, RfbSession, X11Session
  <1>7. CASE X11Off \/ (pc = "x11" /\ NotConnected("idle", "x11"))
    <2>1. pc = "x11" /\ pc' = "idle" /\ now' = now
      BY <1>7 DEF X11Off, NotConnected, Goto, tsocket
    <2>2. now <= RfbTime + Connected
      BY <2>1 DEF TimeInv
    <2>3. WorkerIsFreeInTime'
      BY <1>1, <1>2, <2>1, <2>2, Times
    <2> QED
      BY <2>1, <2>3 DEF TimeInv, RfbSession, X11Session
  <1>8. CASE pc = "rfb" /\ Begins("rfb_version")
    <2>1. pc' = "rfb_version" /\ now' = now /\ deadline' = now + ReadTimeout
      BY <1>8 DEF Begins, Goto
    <2>2. now <= CookieTime + Connected
      BY <1>8 DEF TimeInv
    <2>3. now' <= deadline' /\ deadline' <= RfbTime - TlsExtra
      BY <1>1, <1>2, <2>1, <2>2, Times
    <2> QED
      BY <2>1, <2>3 DEF TimeInv, RfbSession, X11Session, Plain
  <1>9. CASE pc = "x11" /\ Begins("x11_hello")
    <2>1. pc' = "x11_hello" /\ now' = now /\ deadline' = now + ReadTimeout
      BY <1>9 DEF Begins, Goto
    <2>2. now <= RfbTime + Connected
      BY <1>9 DEF TimeInv
    <2>3. now' <= deadline' /\ deadline' <= RfbTime + ConnTimeout + ReadTimeout
      BY <1>1, <1>2, <2>1, <2>2, Times
    <2> QED
      BY <2>1, <2>3 DEF TimeInv, RfbSession, X11Session
  <1>10. CASE SessionStep
    <2>1. Path /\ now' = now
      BY <1>10, SessionPaths, SessionKeeps DEF Kept, connection
    <2>2. CASE pc \in RfbSession
      <3>1. pc' \in RfbSession /\ pc' \notin X11Session /\ pc' \notin Outside
        BY <2>1, <2>2 DEF Path, RfbSession, X11Session, Outside
      <3> QED
        BY <1>1, <2>1, <2>2, <3>1, Times DEF Path, TimeInv, Plain, Outside
    <2>3. CASE pc \notin RfbSession
      <3>1. /\ pc' \in X11Session /\ pc \in X11Session /\ pc' \notin RfbSession
            /\ pc' \notin Outside /\ pc # "rfb_types"
        BY <2>1, <2>3 DEF Path, Session, RfbSession, X11Session, Outside
      <3> QED
        BY <2>1, <3>1 DEF Path, TimeInv, Outside
    <2> QED
      BY <2>2, <2>3
  <1>11. CASE ExitStep
    <2>1. now' = now
      BY <1>11 DEF ExitStep, Exit, ts_close
    <2>2. CASE pc = "rfb_exit" /\ pc' = "x11"
      <3>1. now <= deadline /\ deadline <= RfbTime
        BY <2>2 DEF TimeInv, RfbSession, Plain
      <3>2. now' <= RfbTime + Connected'
        BY <1>1, <1>2, <2>1, <3>1 DEF Connected
      <3> QED
        BY <2>2, <3>2 DEF TimeInv, RfbSession, X11Session
    <2>3. CASE pc = "x11_exit" /\ pc' = "idle"
      <3>1. now <= deadline /\ deadline <= RfbTime + ConnTimeout + ReadTimeout
        BY <2>3 DEF TimeInv, X11Session
      <3>2. WorkerIsFreeInTime'
        BY <1>1, <2>1, <3>1, Times
      <3> QED
        BY <2>3, <3>2 DEF TimeInv, RfbSession, X11Session
    <2> QED
      BY <1>11, <2>2, <2>3 DEF ExitStep, Exit, Goto
  <1> QED
    BY <1>3, <1>4, <1>5, <1>6, <1>7, <1>8, <1>9, <1>10, <1>11
       DEF OutsideStep, ConnectedStep, RfbConnect, X11Connect

(* One result holds the worker up for no longer than its timeouts add up   *)
(* to, however slowly a peer answers: the deadline of check_vnc and        *)
(* check_x11 is for the session, and ts_wait is given what is left of it.  *)
THEOREM WorkerIsAlwaysFreeInTime == Spec => []WorkerIsFreeInTime
  <1>1. Init => TimeInv
    <2> SUFFICES ASSUME Init
                 PROVE  TimeInv
      OBVIOUS
    <2>1. pc = "idle" /\ now = 0
      BY DEF Init, TsocketInit
    <2>2. WorkerIsFreeInTime
      BY <2>1, Times
    <2> QED
      BY <2>1, <2>2 DEF TimeInv, RfbSession, X11Session
  <1>2. HoldInv /\ TimeInv /\ [Next]_vars => TimeInv'
    <2> SUFFICES ASSUME HoldInv, TimeInv, [Next]_vars
                 PROVE  TimeInv'
      OBVIOUS
    <2>1. CASE UNCHANGED vars
      <3>1. UNCHANGED <<pc, cport, now, deadline, io>>
        BY <2>1 DEF vars, control, tsocket
      <3> QED
        BY <3>1 DEF TimeInv, Connected, WorkerIsFreeInTime
    <2> QED
      BY <2>1, StepKinds, CallTime, ExecTime
  <1>3. HoldInv /\ TimeInv => WorkerIsFreeInTime
    <2> SUFFICES ASSUME HoldInv, TimeInv
                 PROVE  WorkerIsFreeInTime
      OBVIOUS
    <2>1. now \in Nat /\ deadline \in Nat /\ RfbTime \in Nat
      BY Times DEF HoldInv, TypeInv
    <2>2. Connected \in 0 .. ConnTimeout
      BY Times DEF Connected
    <2>3. CASE pc = "cookie"
      <3>1. cport \in 1 .. CookiePorts + 1 /\ now <= Ports(cport) + Connected
        BY <2>3 DEF TimeInv
      <3> QED
        BY <2>1, <2>2, <3>1, PortTime, Times
    <2>4. CASE pc \in {"print", "rfb"}
      <3>1. now <= CookieTime + ConnTimeout
        BY <2>1, <2>2, <2>4, Times DEF TimeInv, Connected
      <3> QED
        BY <2>1, <3>1, Times
    <2>5. CASE pc \in RfbSession
      <3>1. now <= RfbTime
        BY <2>1, <2>5, Times DEF TimeInv
      <3> QED
        BY <2>1, <3>1, Times
    <2>6. CASE pc = "x11"
      <3>1. now <= RfbTime + Connected
        BY <2>6 DEF TimeInv
      <3> QED
        BY <2>1, <2>2, <3>1, Times
    <2>7. CASE pc \in X11Session
      <3>1. now <= deadline /\ deadline <= RfbTime + ConnTimeout + ReadTimeout
        BY <2>7 DEF TimeInv
      <3> QED
        BY <2>1, <3>1, Times
    <2>8. CASE pc = "idle"
      BY <2>8 DEF TimeInv
    <2> QED
      BY <2>3, <2>4, <2>5, <2>6, <2>7, <2>8 DEF HoldInv, TypeInv, Outside, Session
  <1> QED
    BY <1>1, <1>2, <1>3, HoldInvariant, PTL DEF Spec

-----------------------------------------------------------------------------
(* What is recorded.                                                       *)

\* A new record is an end of its own module's session, or of none.
LEMMA EndsGrow ==
    ASSUME told \in Seq(Records), NEW m, NEW c, <<m, c>> \in Records, Tell(m, c), NEW k
    PROVE  /\ told' \in Seq(Records)
           /\ Ends(k)' \subseteq Ends(k) \cup {Len(told) + 1}
           /\ ~(k = m /\ c \in Outcomes) => Ends(k)' = Ends(k)
  <1>1. told' = Append(told, <<m, c>>)
    BY DEF Tell
  <1>2. told' \in Seq(Records)
    BY <1>1
  <1>3. /\ Len(told) \in Nat /\ DOMAIN told = 1 .. Len(told)
        /\ DOMAIN told' = 1 .. Len(told) + 1
        /\ \A i \in 1 .. Len(told) : told'[i] = told[i]
        /\ told'[Len(told) + 1] = <<m, c>>
    BY <1>1
  <1>4. /\ \A i \in Ends(k)' : i \in Ends(k) \/ i = Len(told) + 1
        /\ \A i \in Ends(k) : i \in Ends(k)'
        /\ Len(told) + 1 \in Ends(k)' => k = m /\ c \in Outcomes
    BY <1>3 DEF Ends
  <1> QED
    BY <1>2, <1>4

\* What a step does to the records of one result.
LEMMA OutcomeStep ==
    ASSUME HoldInv, OutcomeInv, [Next]_vars
    PROVE  OutcomeInv'
  <1> DEFINE Same(k) == /\ pc' \in Undecided[k] => pc \in Undecided[k]
                        /\ Ends(k)' = Ends(k)
             Good(k) == /\ pc' \in Undecided[k] => Ends(k)' = {}
                        /\ \A i, j \in Ends(k)' : i = j
  <1>1. \A k \in {"rfb", "x11"} : Same(k) => Good(k)
    BY DEF OutcomeInv
  <1>2. ASSUME told' = << >>
        PROVE  told' \in Seq(Records) /\ \A k : Ends(k)' = {}
    BY <1>2 DEF Ends
  <1>3. told \in Seq(Records)
    BY DEF OutcomeInv
  <1>4. CASE Call \/ ((ConnectTurn \/ LoopTurn) /\ UNCHANGED control) \/ UNCHANGED vars
    <2>1. UNCHANGED <<told, pc, hit>>
      BY <1>4 DEF Call, vars, control
    <2> QED
      BY <2>1 DEF OutcomeInv, Ends
  <1>5. CASE StartResult
    <2>1. told' = << >> /\ hit' = FALSE /\ pc' \in {"cookie", "print"}
      BY <1>5 DEF StartResult, Goto
    <2> QED
      BY <1>2, <2>1 DEF OutcomeInv
  <1>6. CASE CookieHit \/ CookieMiss \/ CookieVerify \/ CookieNoPort
    <2>1. pc = "cookie" /\ told' = told /\ pc' \in {"cookie", "print", "idle"}
      BY <1>6 DEF CookieHit, CookieMiss, CookieVerify, CookieNoPort, Tried, Goto
    <2>2. told' = << >>
      BY <2>1 DEF OutcomeInv
    <2>3. hit' => pc' = "idle"
      BY <1>6, <2>1 DEF CookieHit, CookieMiss, CookieVerify, CookieNoPort, Goto, OutcomeInv
    <2> QED
      BY <1>2, <2>2, <2>3 DEF OutcomeInv
  <1>7. CASE PrintResult
    <2>1. pc = "print" /\ pc' = "rfb" /\ hit' = hit
      BY <1>7 DEF PrintResult, Goto
    <2>2. ~hit' /\ \A k \in {"rfb", "x11"} : pc \in Undecided[k]
      BY <2>1 DEF OutcomeInv, Undecided
    <2>3. /\ told' \in Seq(Records)
          /\ \A k \in {"rfb", "x11"} : Ends(k)' = Ends(k)
      <3>1. CASE Tell("print", "result")
        <4>1. <<"print", "result">> \in Records
          BY DEF Records, Codes
        <4> QED
          BY <1>3, <3>1, <4>1, EndsGrow
      <3>2. CASE told' = told
        BY <1>3, <3>2 DEF Ends
      <3> QED
        BY <1>7, <3>1, <3>2 DEF PrintResult
    <2> QED
      BY <1>1, <2>1, <2>2, <2>3 DEF OutcomeInv
  <1>8. CASE RfbOff \/ X11Off
    <2>1. pc \in {"rfb", "x11"} /\ pc' \in {"x11", "idle"} /\ told' = told /\ hit' = hit
      BY <1>8 DEF RfbOff, X11Off, Goto
    <2>2. ~hit' /\ \A k \in {"rfb", "x11"} : Same(k)
      BY <1>8, <2>1 DEF OutcomeInv, Undecided, Ends, RfbSession, X11Session, RfbOff, X11Off, Goto
    <2> QED
      BY <1>1, <1>3, <2>1, <2>2 DEF OutcomeInv
  <1>9. CASE \/ pc = "rfb" /\ Begins("rfb_version")
             \/ pc = "x11" /\ Begins("x11_hello")
    <2>1. /\ told' = told /\ hit' = hit
          /\ \/ pc = "rfb" /\ pc' = "rfb_version"
             \/ pc = "x11" /\ pc' = "x11_hello"
      BY <1>9 DEF Begins, Goto
    <2>2. ~hit' /\ \A k \in {"rfb", "x11"} : Same(k)
      BY <2>1 DEF OutcomeInv, Undecided, Ends, RfbSession, X11Session
    <2> QED
      BY <1>1, <1>3, <2>1, <2>2 DEF OutcomeInv
  <1>10. ASSUME NEW m \in {"rfb", "x11"}, NEW c \in Codes, Tell(m, c), ~hit', pc \notin {"cookie", "print"},
                pc' \notin {"cookie", "print"},
                c \in Outcomes => pc \in Undecided[m] /\ pc' \notin Undecided[m],
                \A k \in {"rfb", "x11"} : pc' \in Undecided[k] => pc \in Undecided[k]
         PROVE  OutcomeInv'
    <2>1. <<m, c>> \in Records
      BY <1>10 DEF Records
    <2>2. told' \in Seq(Records)
      BY <1>3, <1>10, <2>1, EndsGrow
    <2>3. ASSUME NEW k \in {"rfb", "x11"}
          PROVE  Good(k)
      <3>1. CASE k = m /\ c \in Outcomes
        <4>1. Ends(k) = {} /\ pc' \notin Undecided[k]
          BY <1>10, <3>1 DEF OutcomeInv
        <4>2. Ends(k)' \subseteq {Len(told) + 1}
          BY <1>3, <1>10, <2>1, <4>1, EndsGrow
        <4> QED
          BY <4>1, <4>2
      <3>2. CASE ~(k = m /\ c \in Outcomes)
        <4>1. Ends(k)' = Ends(k)
          BY <1>3, <1>10, <2>1, <3>2, EndsGrow
        <4> QED
          BY <1>1, <1>10, <4>1
      <3> QED
        BY <3>1, <3>2
    <2> QED
      BY <1>10, <2>2, <2>3 DEF OutcomeInv
  <1>11. CASE \/ pc = "rfb" /\ NotConnected("x11", "rfb")
              \/ pc = "x11" /\ NotConnected("idle", "x11")
    <2>1. "CONN_FAIL" \in Codes /\ "CONN_FAIL" \in Outcomes
      BY DEF Codes, Outcomes
    <2>2. /\ \/ pc = "rfb" /\ pc' = "x11" /\ Tell("rfb", "CONN_FAIL")
             \/ pc = "x11" /\ pc' = "idle" /\ Tell("x11", "CONN_FAIL")
          /\ hit' = hit
      BY <1>11 DEF NotConnected, Goto
    <2>3. ~hit'
      BY <2>2 DEF OutcomeInv
    <2>4. \A k \in {"rfb", "x11"} : pc' \in Undecided[k] => pc \in Undecided[k]
      BY <2>2 DEF Undecided, RfbSession, X11Session
    <2>5. CASE pc = "rfb" /\ pc' = "x11" /\ Tell("rfb", "CONN_FAIL")
      <3>1. pc \in Undecided["rfb"] /\ pc' \notin Undecided["rfb"]
        BY <2>5 DEF Undecided, RfbSession
      <3> QED
        BY <1>10, <2>1, <2>3, <2>4, <2>5, <3>1
    <2>6. CASE pc = "x11" /\ pc' = "idle" /\ Tell("x11", "CONN_FAIL")
      <3>1. pc \in Undecided["x11"] /\ pc' \notin Undecided["x11"]
        BY <2>6 DEF Undecided, RfbSession, X11Session
      <3> QED
        BY <1>10, <2>1, <2>3, <2>4, <2>6, <3>1
    <2> QED
      BY <2>2, <2>5, <2>6
  <1>12. CASE Running /\ SessionStep
    <2>1. Path /\ Recorded /\ hit' = hit
      BY <1>12, SessionPaths, SessionRecords, SessionKeeps DEF Kept
    <2>2. /\ pc \in Session \ {"rfb_exit", "x11_exit"}
          /\ pc \in RfbSession <=> pc' \in RfbSession
          /\ pc \in X11Session <=> pc' \in X11Session
          /\ pc' \in Session
      BY <2>1 DEF Path, Session, RfbSession, X11Session
    <2>3. ~hit'
      BY <2>1, <2>2 DEF OutcomeInv, Session, RfbSession, X11Session
    <2>4. /\ pc \notin {"cookie", "print"} /\ pc' \notin {"cookie", "print"}
          /\ \A k \in {"rfb", "x11"} : pc' \in Undecided[k] => pc \in Undecided[k]
      BY <2>2 DEF Undecided, Session, RfbSession, X11Session
    <2>5. CASE told' = told
      BY <1>1, <1>3, <2>3, <2>4, <2>5 DEF OutcomeInv, Ends
    <2>6. CASE told' # told
      <3>1. PICK m \in {"rfb", "x11"}, c \in Codes :
               /\ Tell(m, c)
               /\ c \in Outcomes => pc' = IF m = "rfb" THEN "rfb_exit" ELSE "x11_exit"
        BY <2>1, <2>6 DEF Recorded
      <3>2. c \in Outcomes => pc \in Undecided[m] /\ pc' \notin Undecided[m]
        BY <2>2, <3>1 DEF Undecided, Session, RfbSession, X11Session
      <3> QED
        BY <1>10, <2>3, <2>4, <3>1, <3>2
    <2> QED
      BY <2>5, <2>6
  <1>13. CASE ExitStep
    <2>1. /\ told' = told /\ hit' = hit
          /\ \/ pc = "rfb_exit" /\ pc' = "x11"
             \/ pc = "x11_exit" /\ pc' = "idle"
      BY <1>13 DEF ExitStep, Exit, Goto
    <2>2. ~hit' /\ \A k \in {"rfb", "x11"} : Same(k)
      BY <2>1 DEF OutcomeInv, Undecided, Ends, RfbSession, X11Session
    <2> QED
      BY <1>1, <1>3, <2>1, <2>2 DEF OutcomeInv
  <1> QED
    BY <1>4, <1>5, <1>6, <1>7, <1>8, <1>9, <1>11, <1>12, <1>13, StepKinds
       DEF OutsideStep, ConnectedStep, RfbConnect, X11Connect

(* check_vnc and check_x11 record at most one end of their session, and    *)
(* nothing is recorded of a host that accepted on a cookie port.           *)
THEOREM AlwaysOneOutcome == Spec => []OneOutcome
  <1>1. Init => OutcomeInv
    <2> SUFFICES ASSUME Init
                 PROVE  OutcomeInv
      OBVIOUS
    <2>1. pc = "idle" /\ told = << >> /\ hit = FALSE
      BY DEF Init
    <2> QED
      BY <2>1 DEF OutcomeInv, Ends
  <1>2. HoldInv /\ OutcomeInv /\ [Next]_vars => OutcomeInv'
    BY OutcomeStep
  <1>3. OutcomeInv => OneOutcome
    <2> SUFFICES ASSUME OutcomeInv
                 PROVE  OneOutcome
      OBVIOUS
    <2>1. hit => told = << >> /\ ~InSession
      BY DEF OutcomeInv, InSession
    <2>2. ASSUME NEW m \in {"rfb", "x11"}
          PROVE  Cardinality(Ends(m)) <= 1
      <3>1. CASE Ends(m) = {}
        BY <3>1, FS_EmptySet
      <3>2. CASE Ends(m) # {}
        <4>1. PICK i : Ends(m) = {i}
          BY <2>2, <3>2 DEF OutcomeInv
        <4>2. Cardinality({i}) = 1
          BY FS_Singleton
        <4> QED
          BY <4>1, <4>2
      <3> QED
        BY <3>1, <3>2
    <2> QED
      BY <2>1, <2>2 DEF OneOutcome, Ends
  <1> QED
    BY <1>1, <1>2, <1>3, HoldInvariant, PTL DEF Spec
=============================================================================

------------------------------ MODULE Tsocket ------------------------------
(***************************************************************************)
(* The calls a module makes on a connection: socket4_connect of            *)
(* socket_utils.c, and ts_read_all, ts_write_all, ts_go_tls and ts_close   *)
(* of ts.c, turn by turn of their loops.  The peer decides: it accepts or  *)
(* refuses, sends or takes a piece at a time, says nothing, hangs up.      *)
(*                                                                         *)
(* io is the call in progress:                                             *)
(*   call  "connect", "read", "write", "handshake"; "none" between calls   *)
(*   at    in socket4_connect "setup", "try", "poll" and then "returned";  *)
(*         in the others "loop" (the test of the loop), "wait" (ts_wait),  *)
(*         "xfer" (read or write), and then "ok" or "fail", what the call  *)
(*         returns; "crashed" when the process dies                        *)
(*   left  the pieces of the buffer still to be transferred                *)
(***************************************************************************)
EXTENDS Naturals

CONSTANTS
    HaveTls,        \* compiled with HAVE_TLS
    MaxPieces,      \* bound: the pieces a buffer or a TLS record comes in
    ConnTimeout     \* conn_timeout, and cookie and verify timeouts

ASSUME TsocketAssumption ==
    HaveTls \in BOOLEAN /\ MaxPieces \in Nat \ {0} /\ ConnTimeout \in Nat

VARIABLES
    sock,       \* what socket4_connect returned: "ready" for a descriptor,
                \* "refused" for -1, "error" for -2; "none" without connection
    open,       \* how many descriptors the worker has open
    is_ssl,     \* the field of the tsocket
    ctxs,       \* the TLS contexts that were set up and not freed
    decrypted,  \* pieces TLS has decrypted and nobody has taken
    now,        \* time since modules_exec was called
    deadline,   \* of the session
    io

tsocket == <<sock, open, is_ssl, ctxs, decrypted, now, deadline, io>>

NoIo == [call |-> "none", at |-> "none", left |-> 0]

TsocketInit ==
    /\ sock = "none" /\ open = 0
    /\ is_ssl = FALSE /\ ctxs = 0 /\ decrypted = 0
    /\ now = 0 /\ deadline = 0
    /\ io = NoIo

At(call, where) == io.call \in call /\ io.at = where

Transfers == {"read", "write"}

Turn(where) == io' = [io EXCEPT !.at = where]

Waits(most) == \E d \in 0 .. most : now' = now + d

-----------------------------------------------------------------------------
(* socket4_connect.                                                        *)

Connect == /\ io = NoIo
           /\ io' = [call |-> "connect", at |-> "setup", left |-> 0]
           /\ UNCHANGED <<sock, open, is_ssl, ctxs, decrypted, now, deadline>>

\* socket4_setup: no descriptor, or one.
Setup ==
    /\ At({"connect"}, "setup")
    /\ \/ Turn("returned") /\ sock' = "error" /\ UNCHANGED open
       \/ Turn("try") /\ open' = open + 1 /\ UNCHANGED sock
    /\ UNCHANGED <<is_ssl, ctxs, decrypted, now, deadline>>

\* socket4_try_connect: in progress; made at once; refused or unreachable, or
\* another error, and closed.
TryConnect ==
    /\ At({"connect"}, "try")
    /\ \/ Turn("poll") /\ UNCHANGED <<sock, open>>
       \/ Turn("returned") /\ sock' = "ready" /\ UNCHANGED open
       \/ Turn("returned") /\ sock' \in {"refused", "error"} /\ open' = open - 1
    /\ UNCHANGED <<is_ssl, ctxs, decrypted, now, deadline>>

\* Writable in time and without an error; or failed, late or interrupted.
PollConnect ==
    /\ At({"connect"}, "poll")
    /\ Waits(ConnTimeout)
    /\ Turn("returned")
    /\ \/ sock' = "ready" /\ UNCHANGED open
       \/ sock' = "refused" /\ open' = open - 1
    /\ UNCHANGED <<is_ssl, ctxs, decrypted, deadline>>

-----------------------------------------------------------------------------
(* ts_read_all, ts_write_all, ts_go_tls.                                   *)

Transfer(call, pieces) ==
    /\ io = NoIo
    /\ io' = [call |-> call, at |-> "loop", left |-> pieces]
    /\ UNCHANGED <<sock, open, is_ssl, ctxs, decrypted, now, deadline>>

\* ts_go_tls sets up a context, which may fail; without TLS it returns 0.
GoTls ==
    /\ io = NoIo
    /\ \/ /\ io' = [call |-> "handshake", at |-> "fail", left |-> 0]
          /\ UNCHANGED ctxs
       \/ /\ HaveTls
          /\ io' = [call |-> "handshake", at |-> "loop", left |-> 1]
          /\ ctxs' = ctxs + 1
    /\ UNCHANGED <<sock, open, is_ssl, decrypted, now, deadline>>

\* Leaving the loop early; a handshake frees its context.
FailCall == /\ Turn("fail")
            /\ ctxs' = IF io.call = "handshake" THEN ctxs - 1 ELSE ctxs

AllDone ==
    /\ At(Transfers, "loop") /\ io.left = 0
    /\ Turn("ok")
    /\ UNCHANGED <<sock, open, is_ssl, ctxs, decrypted, now, deadline>>

PlainTurn ==
    /\ At(Transfers, "loop") /\ io.left > 0 /\ ~is_ssl
    /\ Turn("wait")
    /\ UNCHANGED <<sock, open, is_ssl, ctxs, decrypted, now, deadline>>

\* Whether mbed works on the context of this connection.
TlsTurn == /\ io.at = "loop" /\ io.left > 0 /\ sock = "ready"
           /\ is_ssl \/ io.call = "handshake"

(* Mutant of TlsRead: it waits for the socket before it asks mbed *)
TlsReadWaitsFirst ==
    /\ TlsTurn /\ io.call = "read"
    /\ Turn("wait")
    /\ UNCHANGED <<sock, open, is_ssl, ctxs, decrypted, now, deadline>>

\* mbedtls_ssl_read: what is decrypted already, or from a record that is there.
TlsRead ==
    /\ TlsTurn /\ io.call = "read"
    /\ \E got \in IF decrypted > 0 THEN {decrypted} ELSE 1 .. MaxPieces :
          LET n == IF got < io.left THEN got ELSE io.left
          IN  decrypted' = got - n /\ io' = [io EXCEPT !.left = @ - n]
    /\ UNCHANGED <<sock, open, is_ssl, ctxs, now, deadline>>

TlsWrite ==
    /\ TlsTurn /\ io.call = "write"
    /\ \E n \in 1 .. io.left : io' = [io EXCEPT !.left = @ - n]
    /\ UNCHANGED <<sock, open, is_ssl, ctxs, decrypted, now, deadline>>

\* MBEDTLS_ERR_SSL_WANT_READ or _WRITE: nothing decrypted, wait for the socket.
TlsWants ==
    /\ TlsTurn
    /\ io.call = "read" => decrypted = 0
    /\ Turn("wait")
    /\ UNCHANGED <<sock, open, is_ssl, ctxs, decrypted, now, deadline>>

\* The first record may come with the end of the handshake.
TlsDone ==
    /\ TlsTurn /\ io.call = "handshake"
    /\ Turn("ok")
    /\ is_ssl' = TRUE
    /\ decrypted' \in 0 .. MaxPieces
    /\ UNCHANGED <<sock, open, ctxs, now, deadline>>

\* A closed or broken TLS connection.
TlsError ==
    /\ TlsTurn
    /\ io.call = "read" => decrypted = 0
    /\ FailCall
    /\ UNCHANGED <<sock, open, is_ssl, decrypted, now, deadline>>

\* A context that was never set up: BAD_INPUT_DATA, or wild pointers.
TlsGarbage ==
    /\ io.at = "loop" /\ io.left > 0 /\ is_ssl /\ sock = "error"
    /\ Turn("fail") \/ Turn("crashed")
    /\ UNCHANGED <<sock, open, is_ssl, ctxs, decrypted, now, deadline>>

Ready ==
    /\ io.at = "wait" /\ now < deadline /\ sock = "ready"
    /\ Waits(deadline - now)
    /\ Turn(IF is_ssl \/ io.call = "handshake" THEN "loop" ELSE "xfer")
    /\ UNCHANGED <<sock, open, is_ssl, ctxs, decrypted, deadline>>

(* Mutant of NotReady: a peer that stays silent is waited for once more *)
NotReadyLate ==
    /\ io.at = "wait"
    /\ now' = deadline + 1
    /\ FailCall
    /\ UNCHANGED <<sock, open, is_ssl, decrypted, deadline>>

\* ts_wait returns 0: the deadline is over or comes first, the peer hung up,
\* a signal; poll ignores the descriptor -2, and sleeps.
NotReady ==
    /\ io.at = "wait"
    /\ \/ now >= deadline /\ UNCHANGED now
       \/ now < deadline /\ Waits(deadline - now)
    /\ FailCall
    /\ UNCHANGED <<sock, open, is_ssl, decrypted, deadline>>

\* read or write: some pieces; or end of file, or an error.
PlainTransfer ==
    /\ io.at = "xfer"
    /\ \/ \E n \in 1 .. io.left : io' = [io EXCEPT !.at = "loop", !.left = @ - n]
       \/ Turn("fail")
    /\ UNCHANGED <<sock, open, is_ssl, ctxs, decrypted, now, deadline>>

IoStep ==
    \/ Setup \/ TryConnect \/ PollConnect
    \/ AllDone \/ PlainTurn \/ TlsRead \/ TlsWrite \/ TlsWants \/ TlsDone
    \/ TlsError \/ TlsGarbage \/ Ready \/ NotReady \/ PlainTransfer

-----------------------------------------------------------------------------
\* ts_socket fails on -2 before it has set is_ssl, and nobody asks.
ts_socket == is_ssl' \in IF sock = "ready" \/ ~HaveTls THEN {FALSE} ELSE BOOLEAN

(* Mutant of ts_close: the context of a TLS session is not freed *)
ts_close_KeepsContext ==
    /\ io = NoIo
    /\ open' = IF sock = "ready" THEN open - 1 ELSE open
    /\ is_ssl' = FALSE /\ decrypted' = 0
    /\ sock' = "none"
    /\ UNCHANGED <<ctxs, now, deadline, io>>

\* Closes what the tsocket holds, and frees the context if is_ssl says so:
\* one that was never set up may take the process with it.
ts_close ==
    /\ io = NoIo
    /\ open' = IF sock = "ready" THEN open - 1 ELSE open
    /\ is_ssl' = FALSE /\ decrypted' = 0
    /\ ctxs' = IF is_ssl /\ sock = "ready" THEN ctxs - 1 ELSE ctxs
    /\ sock' = "none"
    /\ \/ UNCHANGED io
       \/ is_ssl /\ sock = "error" /\ Turn("crashed")
    /\ UNCHANGED <<now, deadline>>

(***************************************************************************)
(* ts.c:208, "can't simply wait for read here [...] the data may already   *)
(* be there": a read never waits for the socket, nor gives up, while TLS   *)
(* holds decrypted data, for which no event of the socket would come.      *)
(***************************************************************************)
TlsDataIsTaken == io.call = "read" /\ io.at \in {"wait", "fail"} => decrypted = 0

=============================================================================

------------------------------ MODULE Modules ------------------------------
(***************************************************************************)
(* modules_exec, run by the worker on one result after the other: the       *)
(* honeypot check (cookie.c), print, and the sessions of the rfb and x11     *)
(* modules over a tsocket (Tsocket), whose calls they make where pc stands.  *)
(* What is read from a peer is reduced to what the modules tell apart.       *)
(***************************************************************************)
EXTENDS Tsocket, Sequences, FiniteSets

CONSTANTS
    Enabled,        \* the sets of modules a command line may enable
    CookiePorts,    \* how many cookie_ports there are
    MaxTypes,       \* bound: the security types a peer offers
    ReadTimeout,    \* read_timeout
    TlsExtra        \* the second more for TLS

ASSUME ModulesAssumption ==
    /\ Enabled \subseteq SUBSET {"cookie", "print", "rfb", "x11"}
    /\ {CookiePorts, MaxTypes, ReadTimeout, TlsExtra} \subseteq Nat

VARIABLES
    on,         \* the modules that are enabled; fixed by modules_init
    pc,         \* where modules_exec is; "idle" between results
    cport,      \* the cookie port to try
    hit,        \* whether a cookie port accepted
    left,       \* the security types still to read
    has_nontls,
    told        \* what was recorded of this result: <<module, code>> pairs

control == <<on, pc, cport, hit, left, has_nontls, told>>

vars == <<control, tsocket>>

Init ==
    /\ on \in Enabled
    /\ TsocketInit
    /\ pc = "idle"
    /\ cport = 1 /\ hit = FALSE
    /\ left = 0 /\ has_nontls = FALSE
    /\ told = << >>

Goto(l) == pc' = l

Tell(m, c) == told' = Append(told, <<m, c>>)

\* The call that is made at pc: in how many pieces its buffer may come.
Pieces ==
    IF pc \in {"rfb_count", "rfb_types", "rfb_count2", "rfb_types2", "rfb_choose", "x11_state"}
    THEN {1}
    ELSE IF pc = "rfb_text" THEN 0 .. MaxPieces ELSE 1 .. MaxPieces

Reads == \/ pc \in {"rfb_version", "rfb_count", "rfb_count2", "rfb_auth", "rfb_reason",
                    "rfb_text", "x11_state", "x11_protocol"}
         \/ pc \in {"rfb_types", "rfb_types2"} /\ left > 0

Writes == pc \in {"rfb_reply", "rfb_choose", "x11_hello"}

Connects == pc = "cookie" \/ (pc \in {"rfb", "x11"} /\ pc \in on)

Call == /\ \/ Connects /\ Connect
           \/ Reads /\ \E n \in Pieces : Transfer("read", n)
           \/ Writes /\ \E n \in Pieces : Transfer("write", n)
           \/ pc = "rfb_tls" /\ GoTls
        /\ UNCHANGED control

Returned == io.at = "returned" /\ io' = NoIo

Succeeds == io.at = "ok" /\ io' = NoIo

Fails == io.at = "fail" /\ io' = NoIo

connection == <<sock, open, is_ssl, ctxs, decrypted, now>>

\* A step within the session, after a call or between two.
Step == UNCHANGED <<on, cport, hit, connection>>

\* On, without a word; or on, with a code recorded for the module.
Leave(l) == Goto(l) /\ UNCHANGED <<told, deadline, left, has_nontls>> /\ Step

LeaveTelling(l, m, c) ==
    Goto(l) /\ Tell(m, c) /\ UNCHANGED <<deadline, left, has_nontls>> /\ Step

-----------------------------------------------------------------------------
(* modules_exec and the honeypot check.                                    *)

StartResult ==
    /\ pc = "idle"
    /\ Goto(IF "cookie" \in on THEN "cookie" ELSE "print")
    /\ now' = 0 /\ cport' = 1 /\ hit' = FALSE /\ told' = << >>
    /\ UNCHANGED <<on, left, has_nontls, sock, open, is_ssl, ctxs, decrypted, deadline, io>>

\* socket4_connect returned to check_cookie, which closes what it got.
Tried(accepted) ==
    /\ pc = "cookie" /\ Returned
    /\ accepted = (sock = "ready")
    /\ open' = IF accepted THEN open - 1 ELSE open
    /\ sock' = "none"
    /\ UNCHANGED <<on, left, has_nontls, told, is_ssl, ctxs, decrypted, now, deadline>>

\* A cookie port that accepts: the result is dropped.
CookieHit ==
    /\ cport <= CookiePorts /\ Tried(TRUE)
    /\ hit' = TRUE
    /\ Goto("idle")
    /\ UNCHANGED cport

(* Mutant of CookieMiss: the same port is tried for ever *)
CookieMissStuck ==
    /\ cport <= CookiePorts /\ Tried(FALSE)
    /\ UNCHANGED <<pc, cport, hit>>

\* Refused, timed out, or -2: the next port.
CookieMiss ==
    /\ cport <= CookiePorts /\ Tried(FALSE)
    /\ cport' = cport + 1
    /\ UNCHANGED <<pc, hit>>

\* The port of the result is tried again, and must still accept.
CookieVerify ==
    /\ cport > CookiePorts
    /\ \/ Tried(TRUE) /\ Goto("print")
       \/ Tried(FALSE) /\ Goto("idle")
    /\ UNCHANGED <<cport, hit>>

\* A result without a port is not tried again.
CookieNoPort ==
    /\ pc = "cookie" /\ io = NoIo /\ cport > CookiePorts
    /\ Goto("print")
    /\ UNCHANGED <<on, cport, hit, left, has_nontls, told, tsocket>>

PrintResult ==
    /\ pc = "print"
    /\ Goto("rfb")
    /\ IF "print" \in on THEN Tell("print", "result") ELSE UNCHANGED told
    /\ UNCHANGED <<on, cport, hit, left, has_nontls, tsocket>>

-----------------------------------------------------------------------------
(* rfb.c: check_vnc.                                                       *)

RfbOff == /\ pc = "rfb" /\ "rfb" \notin on
          /\ Goto("x11")
          /\ UNCHANGED <<on, cport, hit, left, has_nontls, told, tsocket>>

\* socket4_connect returned something other than -1.
Begins(l) ==
    /\ Returned /\ sock # "refused"
    /\ ts_socket
    /\ deadline' = now + ReadTimeout
    /\ left' = 0 /\ has_nontls' = FALSE
    /\ Goto(l)
    /\ UNCHANGED <<on, cport, hit, told, sock, open, ctxs, decrypted, now>>

NotConnected(l, m) ==
    /\ Returned /\ sock = "refused"
    /\ sock' = "none"
    /\ Tell(m, "CONN_FAIL")
    /\ Goto(l)
    /\ UNCHANGED <<on, cport, hit, left, has_nontls, open, is_ssl, ctxs, decrypted, now, deadline>>

RfbConnect ==
    /\ pc = "rfb"
    /\ Begins("rfb_version") \/ NotConnected("x11", "rfb")

\* No banner is too common to record; a wrong one is recorded.
RfbVersion ==
    /\ pc = "rfb_version"
    /\ \/ Fails /\ Leave("rfb_exit")
       \/ Succeeds /\ LeaveTelling("rfb_exit", "rfb", "BANNER_FAIL")
       \/ Succeeds /\ Leave("rfb_reply")

\* The version is answered; from 3.7 on a list of types follows.
RfbReply ==
    /\ pc = "rfb_reply"
    /\ \/ Fails /\ LeaveTelling("rfb_exit", "rfb", "WRITE_FAIL")
       \/ Succeeds /\ \E l \in {"rfb_count", "rfb_auth"} : Leave(l)

\* The number of types, and again inside TLS ("2").
RfbCount(l, types) ==
    /\ pc = l
    /\ \/ Fails /\ LeaveTelling("rfb_exit", "rfb", "READ_FAIL")
       \/ Succeeds /\ Leave("rfb_reason")
       \/ /\ Succeeds /\ Goto(types)
          /\ left' \in 1 .. MaxTypes
          /\ Step /\ UNCHANGED <<told, deadline, has_nontls>>

(* Mutant of RfbType: the loop goes on after no authentication was offered *)
RfbTypeGoesOn ==
    /\ pc = "rfb_types" /\ left > 0
    /\ \/ Fails /\ LeaveTelling("rfb_exit", "rfb", "READ_FAIL")
       \/ /\ Succeeds /\ left' = left - 1
          /\ \E t \in {"none", "tls", "other"} :
                /\ has_nontls' = (has_nontls \/ t # "tls")
                /\ IF t = "none" THEN Tell("rfb", "WIN") ELSE UNCHANGED told
          /\ Step /\ UNCHANGED <<pc, deadline>>

RfbType ==
    /\ pc = "rfb_types" /\ left > 0
    /\ \/ Fails /\ LeaveTelling("rfb_exit", "rfb", "READ_FAIL")
       \/ Succeeds /\ LeaveTelling("rfb_exit", "rfb", "WIN")
       \/ /\ Succeeds /\ left' = left - 1
          /\ \E t \in {"tls", "vencrypt", "other"} :
                /\ has_nontls' = (has_nontls \/ t # "tls")
                /\ IF t = "vencrypt" THEN Tell("rfb", "HAS_VENCRYPT") ELSE UNCHANGED told
          /\ Step /\ UNCHANGED <<pc, deadline>>

\* All types read: done, unless nothing but TLS is offered.
RfbTypesRead ==
    /\ pc = "rfb_types" /\ left = 0
    /\ \/ has_nontls /\ Leave("rfb_exit")
       \/ /\ ~has_nontls
          /\ Tell("rfb", "ONLY_TLS")
          /\ deadline' = deadline + TlsExtra
          /\ Goto("rfb_choose")
          /\ Step /\ UNCHANGED <<left, has_nontls>>
    /\ UNCHANGED io

RfbChoose ==
    /\ pc = "rfb_choose"
    /\ \/ Fails /\ LeaveTelling("rfb_exit", "rfb", "WRITE_FAIL")
       \/ Succeeds /\ Leave("rfb_tls")

RfbGoTls ==
    /\ pc = "rfb_tls"
    /\ \/ Fails /\ LeaveTelling("rfb_exit", "rfb", "TLS_FAIL")
       \/ Succeeds /\ Leave("rfb_count2")

RfbType2 ==
    /\ pc = "rfb_types2" /\ left > 0
    /\ \/ Fails /\ LeaveTelling("rfb_exit", "rfb", "READ_FAIL")
       \/ Succeeds /\ LeaveTelling("rfb_exit", "rfb", "WIN")
       \/ /\ Succeeds /\ left' = left - 1
          /\ Step /\ UNCHANGED <<pc, deadline, has_nontls, told>>

RfbTypes2Read ==
    /\ pc = "rfb_types2" /\ left = 0
    /\ Leave("rfb_exit")
    /\ UNCHANGED io

\* Before 3.7 the peer chooses: none, a reason to refuse, or something else.
RfbAuth ==
    /\ pc = "rfb_auth"
    /\ \/ Fails /\ LeaveTelling("rfb_exit", "rfb", "READ_FAIL")
       \/ Succeeds /\ LeaveTelling("rfb_exit", "rfb", "WIN")
       \/ Succeeds /\ Leave("rfb_reason")
       \/ Succeeds /\ Leave("rfb_exit")

\* The length of the reason, then its text; none is read if the length is 0.
RfbReason ==
    /\ pc = "rfb_reason"
    /\ \/ Fails /\ LeaveTelling("rfb_exit", "rfb", "READ_FAIL")
       \/ Succeeds /\ Leave("rfb_text")

RfbText ==
    /\ pc = "rfb_text"
    /\ \/ Fails /\ LeaveTelling("rfb_exit", "rfb", "READ_FAIL")
       \/ Succeeds /\ LeaveTelling("rfb_exit", "rfb", "REASON")

Exit(l, next) ==
    /\ pc = l
    /\ ts_close
    /\ Goto(next)
    /\ UNCHANGED <<on, cport, hit, left, has_nontls, told>>

-----------------------------------------------------------------------------
(* x11.c: check_x11.                                                       *)

X11Off == /\ pc = "x11" /\ "x11" \notin on
          /\ Goto("idle")
          /\ UNCHANGED <<on, cport, hit, left, has_nontls, told, tsocket>>

X11Connect ==
    /\ pc = "x11"
    /\ Begins("x11_hello") \/ NotConnected("idle", "x11")

X11Hello ==
    /\ pc = "x11_hello"
    /\ \/ Fails /\ LeaveTelling("x11_exit", "x11", "WRITE_FAIL")
       \/ Succeeds /\ Leave("x11_state")

\* A state other than 1 ends the session without a word.
X11State ==
    /\ pc = "x11_state"
    /\ \/ Fails /\ LeaveTelling("x11_exit", "x11", "READ_FAIL")
       \/ Succeeds /\ \E l \in {"x11_exit", "x11_protocol"} : Leave(l)

X11Protocol ==
    /\ pc = "x11_protocol"
    /\ \/ Fails /\ LeaveTelling("x11_exit", "x11", "KINDA_GOOD")
       \/ Succeeds /\ \E c \in {"GOOD", "KINDA_GOOD"} : LeaveTelling("x11_exit", "x11", c)

Running == io.at # "crashed"

\* A process that died of a context nobody set up.
Dead == ~Running /\ UNCHANGED vars

Exec ==
    \/ StartResult \/ CookieHit \/ CookieMiss \/ CookieVerify \/ CookieNoPort
    \/ PrintResult
    \/ RfbOff \/ RfbConnect \/ RfbVersion \/ RfbReply
    \/ RfbCount("rfb_count", "rfb_types") \/ RfbType \/ RfbTypesRead
    \/ RfbChoose \/ RfbGoTls
    \/ RfbCount("rfb_count2", "rfb_types2") \/ RfbType2 \/ RfbTypes2Read
    \/ RfbAuth
    \/ RfbReason \/ RfbText
    \/ Exit("rfb_exit", "x11")
    \/ X11Off \/ X11Connect \/ X11Hello \/ X11State \/ X11Protocol
    \/ Exit("x11_exit", "idle")

Next == \/ Running /\ Call
        \/ Running /\ IoStep /\ UNCHANGED control
        \/ Running /\ Exec
        \/ Dead

Spec == Init /\ [][Next]_vars

\* The worker runs, and time passes: wake-ups that bring TLS no further do not
\* go on for ever at one instant.
FairSpec == /\ Spec
            /\ WF_vars(Next)
            /\ SF_vars(Ready /\ now' > now /\ UNCHANGED control)

-----------------------------------------------------------------------------
InSession == pc \notin {"idle", "cookie", "print", "rfb", "x11"}

\* The codes that say how a session ended.
Outcomes == {"CONN_FAIL", "BANNER_FAIL", "WRITE_FAIL", "READ_FAIL", "REASON", "WIN",
             "TLS_FAIL", "GOOD", "KINDA_GOOD"}

\* Whatever way a session takes to its exit, every descriptor and every TLS
\* context is gone when it is over: the worker's descriptors count against the
\* ones socket_list_excess leaves to the modules.
NothingLeaks == /\ io = NoIo => open = IF InSession /\ sock = "ready" THEN 1 ELSE 0
                /\ ~InSession => ctxs = 0 /\ ~is_ssl

\* The jumps of check_vnc and check_x11 never record two ends of one session, and
\* a host that accepts on a cookie port is never printed nor connected to by a
\* module: check_cookie stands before all of them.
OneOutcome ==
    /\ hit => told = << >> /\ ~InSession
    /\ \A m \in {"rfb", "x11"} :
          Cardinality({i \in DOMAIN told : told[i][1] = m /\ told[i][2] \in Outcomes}) <= 1

\* One result holds the worker up for no longer than the timeouts add up to,
\* while the queue behind it fills: the ports of the cookie check, a connect
\* and a read timeout for each session, the extra time for TLS once.
WorkerIsFreeInTime ==
    now <= (CookiePorts + 1) * ConnTimeout
           + (ConnTimeout + ReadTimeout + TlsExtra) + (ConnTimeout + ReadTimeout)
=============================================================================

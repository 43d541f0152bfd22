-------------------------- MODULE SocketListProofs --------------------------
(***************************************************************************)
(* Proofs about SocketList, for any array size, any targets and timeouts.  *)
(***************************************************************************)
EXTENDS SocketList, WellFoundedInduction, TLAPS

(* Every open socket has a deadline, no later than one connect_timeout     *)
(* from now: whatever is added next is due no earlier.                     *)
Dated ==
    \A fd \in open : timeout[fd] \in Times /\ timeout[fd] <= now + connect_timeout

(* the deadlines do not decrease along s *)
Ordered(s) ==
    \A i, j \in 1 .. num_sockets : i <= j => timeout[s[i]] <= timeout[s[j]]

(***************************************************************************)
(* The inductive invariant.  WellLinked alone is inductive; the order of   *)
(* the deadlines is not, it needs the list they are ordered along and the  *)
(* bound that makes a new deadline the latest.                             *)
(***************************************************************************)
ListInv ==
    /\ TypeOK
    /\ Dated
    /\ \E s \in [1 .. num_sockets -> Fds] : Represents(s) /\ Ordered(s)

-----------------------------------------------------------------------------
(* What conn_thread reads.                                                 *)

(* a set of naturals has a least element: induction without a predicate *)
LEMMA LeastNumber ==
    ASSUME NEW T, T \subseteq Nat, T # {}
    PROVE  \E m \in T : \A x \in T : m <= x
  <1>1. IsWellFoundedOn(OpToRel(<, Nat), Nat)
    BY NatLessThanWellFounded
  <1>2. PICK m \in T : \A y \in T : ~(<<y, m>> \in OpToRel(<, Nat))
    BY <1>1, WFMin
  <1>3. \A y \in T : ~(y < m)
    BY <1>2 DEF OpToRel
  <1>4. QED BY <1>3

(* The links lead along one sequence only. *)
Leads(n, first, next, s) ==
    \A i \in 1 .. n : s[i] = IF i = 1 THEN first ELSE next[s[i - 1]]

LEMMA OneChain ==
    ASSUME NEW n \in Nat, NEW first, NEW next,
           NEW s \in [1 .. n -> Fds], Leads(n, first, next, s)
    PROVE  Chain(n, first, next) = s
  <1>1. PICK t \in [1 .. n -> Fds] : t = Chain(n, first, next) /\ Leads(n, first, next, t)
    BY DEF Chain, Leads
  <1> DEFINE Differ == {i \in 1 .. n : s[i] # t[i]}
  <1>2. Differ = {}
    <2> SUFFICES ASSUME Differ # {} PROVE FALSE
      OBVIOUS
    <2>1. Differ \subseteq Nat
      OBVIOUS
    <2>2. PICK m \in Differ : \A i \in Differ : m <= i
      BY <2>1, LeastNumber
    <2>3. m \in 1 .. n /\ s[m] # t[m]
      OBVIOUS
    <2>4. CASE m = 1
      BY <1>1, <2>3, <2>4 DEF Leads
    <2>5. CASE m # 1
      <3>1. m - 1 \in 1 .. n /\ ~(m <= m - 1)
        BY <2>3, <2>5
      <3>2. s[m - 1] = t[m - 1]
        BY <2>2, <3>1
      <3>3. s[m] = next[s[m - 1]] /\ t[m] = next[t[m - 1]]
        BY <1>1, <2>3, <2>5 DEF Leads
      <3>4. QED BY <2>3, <3>2, <3>3
    <2>6. QED BY <2>4, <2>5
  <1>3. QED BY <1>1, <1>2

(* A sequence that agrees with the links is the chain. *)
LEMMA ChainRead ==
    ASSUME NEW n \in Nat, NEW first, NEW next, NEW s \in [1 .. n -> Fds],
           first = IF n = 0 THEN -1 ELSE s[1],
           \A i \in 1 .. n : next[s[i]] = IF i = n THEN -1 ELSE s[i + 1]
    PROVE  Chain(n, first, next) = s
  <1>1. Leads(n, first, next, s)
    <2> SUFFICES ASSUME NEW i \in 1 .. n
                 PROVE  s[i] = IF i = 1 THEN first ELSE next[s[i - 1]]
      BY DEF Leads
    <2>1. CASE i = 1
      BY <2>1
    <2>2. CASE i # 1
      <3>1. i - 1 \in 1 .. n /\ i - 1 # n /\ (i - 1) + 1 = i
        BY <2>2
      <3>2. next[s[i - 1]] = IF i - 1 = n THEN -1 ELSE s[(i - 1) + 1]
        BY <3>1
      <3>3. QED BY <2>2, <3>1, <3>2
    <2>3. QED BY <2>1, <2>2
  <1>2. QED BY <1>1, OneChain

(* What is read of the entries along s. *)
Attempts(s) ==
    [i \in 1 .. num_sockets |->
        [fd |-> s[i], target |-> target[s[i]], timeout |-> timeout[s[i]]]]

LEMMA OrderRead ==
    ASSUME num_sockets \in Nat, NEW s \in [1 .. num_sockets -> Fds], Represents(s)
    PROVE  Order = Attempts(s)
  <1>1. /\ first_fd = IF num_sockets = 0 THEN -1 ELSE s[1]
        /\ \A i \in 1 .. num_sockets :
              next_fd[s[i]] = IF i = num_sockets THEN -1 ELSE s[i + 1]
    BY DEF Represents
  <1>2. Chain(num_sockets, first_fd, next_fd) = s
    BY <1>1, ChainRead
  <1>3. QED BY <1>2 DEF Order, Attempts

LEMMA OrderReadNext ==
    ASSUME num_sockets' \in Nat, NEW s \in [1 .. num_sockets' -> Fds], Represents(s)'
    PROVE  Order' = Attempts(s)'
  <1>1. /\ first_fd' = IF num_sockets' = 0 THEN -1 ELSE s[1]
        /\ \A i \in 1 .. num_sockets' :
              next_fd'[s[i]] = IF i = num_sockets' THEN -1 ELSE s[i + 1]
    BY DEF Represents
  <1>2. Chain(num_sockets', first_fd', next_fd') = s
    BY <1>1, ChainRead
  <1>3. QED BY <1>2 DEF Order, Attempts

-----------------------------------------------------------------------------
LEMMA InitList == Init => ListInv
  <1> SUFFICES ASSUME Init PROVE ListInv
    OBVIOUS
  <1>1. TypeOK /\ Dated
    BY SocketListAssumption DEF Init, TypeOK, Dated, Links, Times
  <1>2. /\ <<>> \in [1 .. num_sockets -> Fds]
        /\ Represents(<<>>)
        /\ Ordered(<<>>)
    BY DEF Init, Represents, Ordered
  <1>3. QED BY <1>1, <1>2 DEF ListInv

(* add_to_socket_list appends: the old last entry gains a successor. *)
LEMMA AddKeepsList ==
    ASSUME ListInv, NEW f \in Fds, NEW tgt \in Targets, Add(f, tgt)
    PROVE  /\ ListInv'
           /\ Order' = Append(Order, [fd |-> f, target |-> tgt, timeout |-> now + connect_timeout])
  <1>1. PICK s \in [1 .. num_sockets -> Fds] : Represents(s) /\ Ordered(s)
    BY DEF ListInv
  <1>len. PICK n \in Nat : n = num_sockets
    BY DEF ListInv, TypeOK
  <1> USE <1>len
  <1>seq. PICK t \in [1 .. n + 1 -> Fds] :
            t = [i \in 1 .. n + 1 |-> IF i = n + 1 THEN f ELSE s[i]]
    <2>1. [i \in 1 .. n + 1 |-> IF i = n + 1 THEN f ELSE s[i]] \in [1 .. n + 1 -> Fds]
      OBVIOUS
    <2>2. QED BY <2>1
  <1>2. n \in Nat /\ num_sockets = n /\ num_sockets' = n + 1
    BY DEF Add
  <1>3. \A i \in 1 .. n : s[i] \in open /\ s[i] \in Fds /\ s[i] # f
    BY <1>1 DEF Represents, Add
  <1>4. now + connect_timeout \in Times
    BY SocketListAssumption DEF ListInv, TypeOK, Times
  <1>5. TypeOK'
    <2>1. TypeOK
      BY DEF ListInv
    <2>2. f \in Links /\ -1 \in Links
      BY DEF Links
    <2>3. next_fd' \in [Fds -> Links \cup {Garbage}]
      BY <2>1, <2>2 DEF TypeOK, Add
    <2>4. QED BY <1>2, <1>4, <2>1, <2>2, <2>3 DEF TypeOK, Add
  <1>6. Dated'
    <2>1. ASSUME NEW fd \in open, fd # f
          PROVE  timeout'[fd] \in Times /\ timeout'[fd] <= now + connect_timeout
      BY <2>1 DEF Add, ListInv, TypeOK, Dated
    <2>2. timeout'[f] = now + connect_timeout
      BY DEF Add, ListInv, TypeOK
    <2>3. now + connect_timeout <= now + connect_timeout
      BY <1>4 DEF Times
    <2>4. QED BY <1>4, <2>1, <2>2, <2>3 DEF Add, Dated
  <1>7. Represents(t)'
    <2>1. first_fd' = t[1] /\ last_fd' = t[n + 1]
      <3>1. n = 0 => first_fd = -1
        BY <1>1 DEF Represents
      <3>2. n # 0 => first_fd = s[1] /\ first_fd # -1
        BY <1>1, <1>2 DEF Represents, Fds
      <3>3. QED BY <1>2, <1>seq, <3>1, <3>2 DEF Add
    <2>2. \A i, j \in 1 .. n + 1 : t[i] = t[j] => i = j
      BY <1>1, <1>2, <1>3, <1>seq DEF Represents
    <2>3. \A i \in 1 .. n + 1 : prev_fd'[t[i]] = IF i = 1 THEN -1 ELSE t[i - 1]
      <3>1. prev_fd' = [prev_fd EXCEPT ![f] = last_fd] /\ prev_fd \in [Fds -> Links \cup {Garbage}]
        BY DEF Add, ListInv, TypeOK
      <3>2. prev_fd'[f] = last_fd /\ \A i \in 1 .. n : prev_fd'[s[i]] = prev_fd[s[i]]
        BY <1>3, <3>1
      <3>3. /\ last_fd = IF n = 0 THEN -1 ELSE s[n]
            /\ \A i \in 1 .. n : prev_fd[s[i]] = IF i = 1 THEN -1 ELSE s[i - 1]
        BY <1>1 DEF Represents
      <3>4. QED BY <1>2, <1>seq, <3>2, <3>3
    <2>4. \A i \in 1 .. n + 1 : next_fd'[t[i]] = IF i = n + 1 THEN -1 ELSE t[i + 1]
      <3>1. /\ first_fd = IF n = 0 THEN -1 ELSE s[1]
            /\ last_fd = IF n = 0 THEN -1 ELSE s[n]
            /\ \A i, j \in 1 .. n : s[i] = s[j] => i = j
            /\ \A i \in 1 .. n : next_fd[s[i]] = IF i = n THEN -1 ELSE s[i + 1]
        BY <1>1 DEF Represents
      <3>2. next_fd \in [Fds -> Links \cup {Garbage}]
        BY DEF ListInv, TypeOK
      <3>3. CASE n = 0
        BY <1>seq, <3>1, <3>2, <3>3 DEF Add
      <3>4. CASE n # 0
        <4>1. first_fd # -1 /\ last_fd \in Fds /\ last_fd # f
          BY <1>2, <1>3, <3>1, <3>4 DEF Fds
        <4>2. next_fd' = [next_fd EXCEPT ![f] = -1, ![last_fd] = f]
          BY <4>1 DEF Add
        <4>3. /\ next_fd'[f] = -1
              /\ next_fd'[last_fd] = f
              /\ \A g \in Fds : g # f /\ g # last_fd => next_fd'[g] = next_fd[g]
          BY <3>2, <4>1, <4>2
        <4>4. \A i \in 1 .. n : s[i] = last_fd <=> i = n
          BY <1>2, <3>1, <3>4
        <4>5. QED BY <1>2, <1>3, <1>seq, <3>1, <3>4, <4>3, <4>4
      <3>5. QED BY <3>3, <3>4
    <2>5. \A fd \in Fds : fd \in open' <=> \E i \in 1 .. n + 1 : t[i] = fd
      <3>1. \A fd \in Fds : fd \in open' <=> fd \in open \/ fd = f
        BY DEF Add
      <3>2. \A fd \in Fds : fd \in open <=> \E i \in 1 .. n : s[i] = fd
        BY <1>1 DEF Represents
      <3>3. t[n + 1] = f /\ \A i \in 1 .. n : t[i] = s[i]
        BY <1>2, <1>seq
      <3>4. QED BY <1>2, <3>1, <3>2, <3>3
    <2>6. QED BY <1>2, <2>1, <2>2, <2>3, <2>4, <2>5 DEF Represents
  <1>8. Ordered(t)'
    <2>1. /\ timeout' = [timeout EXCEPT ![f] = now + connect_timeout]
          /\ timeout \in [Fds -> Times \cup {Garbage}]
      BY DEF Add, ListInv, TypeOK
    <2>2. timeout'[f] = now + connect_timeout /\ \A i \in 1 .. n : timeout'[s[i]] = timeout[s[i]]
      BY <1>3, <2>1
    <2>3. \A i \in 1 .. n : timeout[s[i]] <= now + connect_timeout
      BY <1>3 DEF ListInv, Dated
    <2>4. \A i, j \in 1 .. n : i <= j => timeout[s[i]] <= timeout[s[j]]
      BY <1>1 DEF Ordered
    <2>5. now + connect_timeout <= now + connect_timeout
      BY <1>4 DEF Times
    <2>6. \A i, j \in 1 .. n + 1 : i <= j => timeout'[t[i]] <= timeout'[t[j]]
      BY <1>2, <1>seq, <2>2, <2>3, <2>4, <2>5
    <2>7. QED BY <1>2, <2>6 DEF Ordered
  <1>9. Order' = Append(Order, [fd |-> f, target |-> tgt, timeout |-> now + connect_timeout])
    <2> DEFINE a == [fd |-> f, target |-> tgt, timeout |-> now + connect_timeout]
    <2>1. Order = Attempts(s)
      BY <1>1, <1>2, OrderRead
    <2>2. Order' = Attempts(t)'
      BY <1>2, <1>7, OrderReadNext
    <2>3. \A i \in 1 .. n : target'[s[i]] = target[s[i]] /\ timeout'[s[i]] = timeout[s[i]]
      BY <1>3 DEF Add, ListInv, TypeOK
    <2>4. target'[f] = tgt /\ timeout'[f] = now + connect_timeout
      BY DEF Add, ListInv, TypeOK
    <2>5. Order' = [i \in 1 .. n + 1 |-> IF i = n + 1 THEN a ELSE Order[i]]
      <3>1. Order' = [i \in 1 .. n + 1 |->
                        [fd |-> t[i], target |-> target'[t[i]], timeout |-> timeout'[t[i]]]]
        BY <1>2, <2>2 DEF Attempts
      <3>2. ASSUME NEW i \in 1 .. n + 1
            PROVE  [fd |-> t[i], target |-> target'[t[i]], timeout |-> timeout'[t[i]]]
                     = IF i = n + 1 THEN a ELSE Order[i]
        <4>1. CASE i = n + 1
          BY <1>seq, <2>4, <4>1
        <4>2. CASE i # n + 1
          <5>1. i \in 1 .. n /\ t[i] = s[i]
            BY <1>seq, <4>2
          <5>2. Order[i] = [fd |-> s[i], target |-> target[s[i]], timeout |-> timeout[s[i]]]
            BY <2>1, <5>1 DEF Attempts
          <5>3. QED BY <2>3, <4>2, <5>1, <5>2
        <4>3. QED BY <4>1, <4>2
      <3>3. QED BY <3>1, <3>2
    <2>6. Len(Order) = n /\ DOMAIN Order = 1 .. n
      BY <2>1 DEF Attempts
    <2> HIDE DEF a
    <2>7. Order' = Append(Order, a)
      <3> DEFINE S == {Order[i] : i \in 1 .. n} \cup {a}
      <3>1. Order \in [1 .. n -> S]
        BY <2>1 DEF Attempts
      <3> HIDE DEF S
      <3>2. Order \in Seq(S)
        BY <3>1
      <3>3. a \in S
        BY DEF S
      <3>4. /\ Append(Order, a) \in Seq(S) /\ Len(Append(Order, a)) = n + 1
            /\ \A i \in 1 .. n + 1 : Append(Order, a)[i] = IF i = n + 1 THEN a ELSE Order[i]
        BY <2>6, <3>2, <3>3
      <3>5. Append(Order, a) = [i \in 1 .. n + 1 |-> Append(Order, a)[i]]
        <4>1. ASSUME NEW q \in Seq(S), Len(q) = n + 1
              PROVE  q = [i \in 1 .. n + 1 |-> q[i]]
          BY <4>1
        <4>2. QED BY <3>4, <4>1
      <3>6. QED BY <2>5, <3>4, <3>5
    <2>8. QED BY <2>7 DEF a
  <1>10. QED BY <1>2, <1>5, <1>6, <1>7, <1>8, <1>9 DEF ListInv

(* del_from_socket_list removes one entry and joins its neighbours. *)
LEMMA DelKeepsList ==
    ASSUME ListInv, NEW f \in Fds, Del(f)
    PROVE  /\ ListInv'
           /\ \E k \in 1 .. num_sockets :
                 /\ Order[k].fd = f
                 /\ Order' = [j \in 1 .. num_sockets - 1 |-> Order[IF j < k THEN j ELSE j + 1]]
                 /\ ret' = IF k = num_sockets THEN -1 ELSE Order[k + 1].fd
  <1>1. PICK s \in [1 .. num_sockets -> Fds] : Represents(s) /\ Ordered(s)
    BY DEF ListInv
  <1>2. PICK k \in 1 .. num_sockets : s[k] = f
    BY <1>1 DEF Represents, Del
  <1>len. PICK n \in Nat : n = num_sockets
    BY DEF ListInv, TypeOK
  <1> USE <1>len
  <1>seq. PICK t \in [1 .. n - 1 -> Fds] :
            t = [i \in 1 .. n - 1 |-> IF i < k THEN s[i] ELSE s[i + 1]]
    <2>1. [i \in 1 .. n - 1 |-> IF i < k THEN s[i] ELSE s[i + 1]] \in [1 .. n - 1 -> Fds]
      BY <1>2
    <2>2. QED BY <2>1
  <1>3. /\ n \in Nat \ {0} /\ k \in 1 .. n
        /\ Unlink(f)
        /\ num_sockets = n /\ num_sockets' = n - 1
    BY <1>2 DEF Del, Unlink
  <1>4. /\ first_fd = s[1] /\ last_fd = s[n]
        /\ \A i, j \in 1 .. n : s[i] = s[j] => i = j
        /\ \A i \in 1 .. n : prev_fd[s[i]] = IF i = 1 THEN -1 ELSE s[i - 1]
        /\ \A i \in 1 .. n : next_fd[s[i]] = IF i = n THEN -1 ELSE s[i + 1]
        /\ \A i \in 1 .. n : s[i] \in Fds /\ s[i] # -1
    BY <1>1, <1>3 DEF Represents, Fds
  <1>5. /\ prev_fd[f] = IF k = 1 THEN -1 ELSE s[k - 1]
        /\ next_fd[f] = IF k = n THEN -1 ELSE s[k + 1]
    BY <1>2, <1>4
  <1>6. /\ prev_fd \in [Fds -> Links \cup {Garbage}]
        /\ next_fd \in [Fds -> Links \cup {Garbage}]
    BY DEF ListInv, TypeOK
  (* the links of the remaining entries *)
  <1>7. \A i \in 1 .. n : i # k =>
          /\ prev_fd'[s[i]] = IF i = k + 1 THEN prev_fd[f] ELSE prev_fd[s[i]]
          /\ next_fd'[s[i]] = IF i = k - 1 THEN next_fd[f] ELSE next_fd[s[i]]
    <2>1. /\ prev_fd' = IF next_fd[f] # -1
                        THEN [prev_fd EXCEPT ![next_fd[f]] = prev_fd[f]] ELSE prev_fd
          /\ next_fd' = IF prev_fd[f] # -1
                        THEN [next_fd EXCEPT ![prev_fd[f]] = next_fd[f]] ELSE next_fd
      BY <1>3 DEF Unlink
    <2>2. ASSUME NEW i \in 1 .. n, i # k
          PROVE  prev_fd'[s[i]] = IF i = k + 1 THEN prev_fd[f] ELSE prev_fd[s[i]]
      BY <1>3, <1>4, <1>5, <1>6, <2>1, <2>2
    <2>3. ASSUME NEW i \in 1 .. n, i # k
          PROVE  next_fd'[s[i]] = IF i = k - 1 THEN next_fd[f] ELSE next_fd[s[i]]
      BY <1>3, <1>4, <1>5, <1>6, <2>1, <2>3
    <2>4. QED BY <2>2, <2>3
  <1>8. TypeOK'
    <2>1. prev_fd[f] \in Links /\ next_fd[f] \in Links
      BY <1>3, <1>4, <1>5 DEF Links
    <2>2. /\ prev_fd' \in [Fds -> Links \cup {Garbage}]
          /\ next_fd' \in [Fds -> Links \cup {Garbage}]
          /\ first_fd' \in Links /\ last_fd' \in Links /\ ret' \in Links
      BY <1>3, <1>6, <2>1 DEF Unlink, ListInv, TypeOK
    <2>3. n - 1 \in Nat
      BY <1>3
    <2>4. QED BY <1>3, <2>2, <2>3 DEF ListInv, TypeOK, Del
  <1>9. Dated'
    BY DEF Del, ListInv, Dated
  <1>10. Represents(t)'
    <2>1. /\ first_fd' = IF n - 1 = 0 THEN -1 ELSE t[1]
          /\ last_fd' = IF n - 1 = 0 THEN -1 ELSE t[n - 1]
      <3>1. /\ first_fd' = IF prev_fd[f] # -1 THEN first_fd ELSE next_fd[f]
            /\ last_fd' = IF next_fd[f] # -1 THEN last_fd ELSE prev_fd[f]
        BY <1>3 DEF Unlink
      <3>2. QED BY <1>3, <1>4, <1>5, <1>seq, <3>1
    <2>2. \A i, j \in 1 .. n - 1 : t[i] = t[j] => i = j
      BY <1>3, <1>4, <1>seq
    <2>3. \A i \in 1 .. n - 1 : prev_fd'[t[i]] = IF i = 1 THEN -1 ELSE t[i - 1]
      BY <1>3, <1>4, <1>5, <1>7, <1>seq
    <2>4. \A i \in 1 .. n - 1 : next_fd'[t[i]] = IF i = n - 1 THEN -1 ELSE t[i + 1]
      BY <1>3, <1>4, <1>5, <1>7, <1>seq
    <2>5. \A fd \in Fds : fd \in open' <=> \E i \in 1 .. n - 1 : t[i] = fd
      <3>1. \A fd \in Fds : fd \in open' <=> \E i \in 1 .. n : s[i] = fd /\ i # k
        BY <1>1, <1>2, <1>3, <1>4 DEF Represents, Del
      <3>2. ASSUME NEW i \in 1 .. n, i # k
            PROVE  \E j \in 1 .. n - 1 : t[j] = s[i]
        <4>1. CASE i < k
          BY <1>3, <1>seq, <4>1
        <4>2. CASE i > k
          <5>1. i - 1 \in 1 .. n - 1 /\ t[i - 1] = s[i]
            BY <1>3, <1>seq, <4>2
          <5>2. QED BY <5>1
        <4>3. QED BY <1>3, <3>2, <4>1, <4>2
      <3>3. ASSUME NEW j \in 1 .. n - 1
            PROVE  \E i \in 1 .. n : s[i] = t[j] /\ i # k
        <4>1. CASE j < k
          BY <1>3, <1>seq, <4>1
        <4>2. CASE ~(j < k)
          <5>1. j + 1 \in 1 .. n /\ j + 1 # k /\ t[j] = s[j + 1]
            BY <1>3, <1>seq, <4>2
          <5>2. QED BY <5>1
        <4>3. QED BY <4>1, <4>2
      <3>4. QED BY <3>1, <3>2, <3>3
    <2>6. QED BY <1>3, <2>1, <2>2, <2>3, <2>4, <2>5 DEF Represents
  <1>11. Ordered(t)'
    <2>1. \A i, j \in 1 .. n : i <= j => timeout[s[i]] <= timeout[s[j]]
      BY <1>1 DEF Ordered
    <2>2. timeout' = timeout
      BY DEF Del
    <2>3. \A i, j \in 1 .. n - 1 : i <= j => timeout'[t[i]] <= timeout'[t[j]]
      BY <1>3, <1>seq, <2>1, <2>2
    <2>4. QED BY <1>3, <2>3 DEF Ordered
  <1>12. /\ Order[k].fd = f
         /\ Order' = [j \in 1 .. n - 1 |-> Order[IF j < k THEN j ELSE j + 1]]
         /\ ret' = IF k = n THEN -1 ELSE Order[k + 1].fd
    <2>1. \A i \in 1 .. n :
             Order[i] = [fd |-> s[i], target |-> target[s[i]], timeout |-> timeout[s[i]]]
      BY <1>1, <1>3, OrderRead DEF Attempts
    <2>2. n - 1 \in Nat /\ Order' = Attempts(t)'
      BY <1>3, <1>10, OrderReadNext
    <2>3. target' = target /\ timeout' = timeout
      BY DEF Del
    <2>4. Order' = [j \in 1 .. n - 1 |->
                      [fd |-> t[j], target |-> target[t[j]], timeout |-> timeout[t[j]]]]
      BY <1>3, <2>2, <2>3 DEF Attempts
    <2>5. ASSUME NEW j \in 1 .. n - 1
          PROVE  [fd |-> t[j], target |-> target[t[j]], timeout |-> timeout[t[j]]]
                   = Order[IF j < k THEN j ELSE j + 1]
      <3>1. (IF j < k THEN j ELSE j + 1) \in 1 .. n /\ t[j] = s[IF j < k THEN j ELSE j + 1]
        BY <1>3, <1>seq
      <3>2. QED BY <2>1, <3>1
    <2>6. ret' = next_fd[f]
      BY <1>3 DEF Unlink
    <2>7. k # n => k + 1 \in 1 .. n
      BY <1>3
    <2>8. ret' = IF k = n THEN -1 ELSE Order[k + 1].fd
      <3>1. k # n => Order[k + 1].fd = s[k + 1]
        <4>1. k # n => Order[k + 1] = [fd |-> s[k + 1], target |-> target[s[k + 1]],
                                       timeout |-> timeout[s[k + 1]]]
          BY <2>1, <2>7
        <4>2. QED BY <4>1
      <3>2. QED BY <1>5, <2>6, <3>1
    <2>9. Order[k].fd = f
      <3>1. Order[k] = [fd |-> s[k], target |-> target[s[k]], timeout |-> timeout[s[k]]]
        BY <1>3, <2>1
      <3>2. QED BY <1>2, <3>1
    <2>10. QED BY <2>4, <2>5, <2>8, <2>9
  <1>13. QED BY <1>3, <1>8, <1>9, <1>10, <1>11, <1>12 DEF ListInv

LEMMA TickKeepsList ==
    ASSUME ListInv, Tick \/ UNCHANGED vars
    PROVE  ListInv'
  <1>1. PICK s \in [1 .. num_sockets -> Fds] : Represents(s) /\ Ordered(s)
    BY DEF ListInv
  <1>2. TypeOK'
    BY SocketListAssumption DEF ListInv, TypeOK, Tick, vars, entries
  <1>3. Dated'
    BY SocketListAssumption DEF ListInv, TypeOK, Dated, Tick, vars, entries, Times
  <1>4. Represents(s)' /\ Ordered(s)'
    BY <1>1 DEF Represents, Ordered, Tick, vars, entries
  <1>5. num_sockets' = num_sockets
    BY DEF Tick, vars
  <1>6. QED BY <1>2, <1>3, <1>4, <1>5 DEF ListInv

LEMMA ListInvariant == Spec => []ListInv
  <1>1. ListInv /\ [Next]_vars => ListInv'
    BY AddKeepsList, DelKeepsList, TickKeepsList DEF Next
  <1>2. QED BY <1>1, InitList, PTL DEF Spec

(* Type correctness: the links never leave the array. *)
THEOREM TypeCorrect == Spec => []TypeOK
  <1>1. ListInv => TypeOK
    BY DEF ListInv
  <1>2. QED BY <1>1, ListInvariant, PTL

(* The links of socket_list.c form one chain through the open sockets. *)
THEOREM AlwaysWellLinked == Spec => []WellLinked
  <1>1. ListInv => WellLinked
    BY DEF ListInv, WellLinked
  <1>2. QED BY <1>1, ListInvariant, PTL

(* The first entry is the one due first: what the epoll timeout and the    *)
(* sweep of conn_thread rely on.                                           *)
THEOREM FirstAlwaysDueFirst == Spec => []FirstIsDueFirst
  <1>1. ListInv => FirstIsDueFirst
    <2> SUFFICES ASSUME ListInv, open # {}
                 PROVE  first_fd \in open /\ \A fd \in open : timeout[first_fd] <= timeout[fd]
      BY DEF FirstIsDueFirst
    <2>1. PICK s \in [1 .. num_sockets -> Fds] : Represents(s) /\ Ordered(s)
      BY DEF ListInv
    <2>2. num_sockets \in Nat /\ num_sockets # 0 /\ first_fd = s[1]
      BY <2>1 DEF ListInv, TypeOK, Represents
    <2>3. QED BY <2>1, <2>2 DEF ListInv, TypeOK, Represents, Ordered
  <1>2. QED BY <1>1, ListInvariant, PTL

-----------------------------------------------------------------------------
(* What is read is a list of the open sockets, without repetition. *)
LEMMA OrderLists ==
    ASSUME ListInv
    PROVE  /\ num_sockets \in Nat /\ Len(Order) = num_sockets /\ DOMAIN Order = 1 .. num_sockets
           /\ \A fd \in Fds : fd \in open <=> \E i \in 1 .. num_sockets : Order[i].fd = fd
           /\ \A i, j \in 1 .. num_sockets : Order[i].fd = Order[j].fd => i = j
  <1>1. PICK s \in [1 .. num_sockets -> Fds] : Represents(s) /\ Ordered(s)
    BY DEF ListInv
  <1>2. num_sockets \in Nat
    BY DEF ListInv, TypeOK
  <1>3. Order = Attempts(s)
    BY <1>1, <1>2, OrderRead
  <1>4. DOMAIN Order = 1 .. num_sockets /\ Len(Order) = num_sockets
    BY <1>2, <1>3 DEF Attempts
  <1>5. \A i \in 1 .. num_sockets : Order[i].fd = s[i]
    BY <1>3 DEF Attempts
  <1>6. \A fd \in Fds : fd \in open <=> \E i \in 1 .. num_sockets : s[i] = fd
    BY <1>1 DEF Represents
  <1>7. \A i, j \in 1 .. num_sockets : s[i] = s[j] => i = j
    BY <1>1 DEF Represents
  <1>8. \A i, j \in 1 .. num_sockets : Order[i].fd = Order[j].fd => i = j
    BY <1>5, <1>7
  <1>9. QED BY <1>2, <1>4, <1>5, <1>6, <1>8

(* socket_list.c implements PendingList: its array of links, read from     *)
(* first_fd, is a sequence to which try_connect appends and from which     *)
(* conn_thread takes any element, and the descriptor del_from_socket_list  *)
(* returns is the one that came next.                                      *)
THEOREM RefinesPendingList == Spec => ImplementsPendingList
  <1>1. Init => Abstract!Init
    <2> SUFFICES ASSUME Init PROVE Abstract!Init
      OBVIOUS
    <2>1. ListInv
      BY InitList
    <2>2. num_sockets = 0 /\ ret = -1
      BY DEF Init
    <2>3. Order = <<>>
      BY <2>2 DEF Order
    <2>4. QED BY <2>2, <2>3 DEF Abstract!Init
  <1>2. ListInv /\ [Next]_vars => [Abstract!Next]_(Abstract!vars)
    <2> SUFFICES ASSUME ListInv, [Next]_vars
                 PROVE  [Abstract!Next]_(Abstract!vars)
      OBVIOUS
    <2>1. ASSUME NEW f \in Fds, NEW tgt \in Targets, Add(f, tgt)
          PROVE  Abstract!Next
      <3>1. now + connect_timeout \in Times
        BY SocketListAssumption DEF ListInv, TypeOK, Times
      <3>2. Order' = Append(Order, [fd |-> f, target |-> tgt, timeout |-> now + connect_timeout])
        BY <2>1, AddKeepsList
      <3>3. f \notin Abstract!FdsOf(Order)
        <4>1. f \notin open
          BY <2>1 DEF Add
        <4>2. QED BY <4>1, OrderLists DEF Abstract!FdsOf
      <3>4. ret' = ret
        BY <2>1 DEF Add
      <3>5. Abstract!Add(f, tgt, now + connect_timeout)
        BY <3>2, <3>3, <3>4 DEF Abstract!Add
      <3>6. QED BY <3>1, <3>5 DEF Abstract!Next
    <2>2. ASSUME NEW f \in Fds, Del(f)
          PROVE  Abstract!Next
      <3>1. PICK k \in 1 .. num_sockets :
               /\ Order[k].fd = f
               /\ Order' = [j \in 1 .. num_sockets - 1 |-> Order[IF j < k THEN j ELSE j + 1]]
               /\ ret' = IF k = num_sockets THEN -1 ELSE Order[k + 1].fd
        BY <2>2, DelKeepsList
      <3>2. k \in DOMAIN Order /\ Len(Order) = num_sockets
        BY OrderLists
      <3>3. \A i \in DOMAIN Order : Order[i].fd = f => i = k
        BY <3>1, OrderLists
      <3>4. Abstract!IndexOf(Order, f) = k
        BY <3>1, <3>2, <3>3 DEF Abstract!IndexOf
      <3>5. f \in Abstract!FdsOf(Order)
        BY <3>1, <3>2 DEF Abstract!FdsOf
      <3>6. Order' = Abstract!Without(Order, f)
        BY <3>1, <3>2, <3>4 DEF Abstract!Without
      <3>7. ret' = Abstract!FdAfter(Order, f)
        BY <3>1, <3>2, <3>4 DEF Abstract!FdAfter
      <3>8. Abstract!Del(f)
        BY <3>5, <3>6, <3>7 DEF Abstract!Del
      <3>9. QED BY <3>8 DEF Abstract!Next
    <2>3. ASSUME Tick \/ UNCHANGED vars
          PROVE  UNCHANGED Abstract!vars
      <3>1. /\ num_sockets' = num_sockets /\ first_fd' = first_fd /\ next_fd' = next_fd
            /\ target' = target /\ timeout' = timeout /\ ret' = ret
        BY <2>3 DEF Tick, vars, entries
      <3>2. Order' = Order
        BY <3>1 DEF Order
      <3>3. QED BY <3>1, <3>2 DEF Abstract!vars
    <2>4. QED BY <2>1, <2>2, <2>3 DEF Next
  <1>3. QED BY <1>1, <1>2, ListInvariant, PTL DEF Spec, ImplementsPendingList, Abstract!Spec

=============================================================================

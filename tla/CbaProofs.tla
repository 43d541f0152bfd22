----------------------------- MODULE CbaProofs -----------------------------
(***************************************************************************)
(* Proofs about the CBA file, for any number of threads, any scripts, any   *)
(* chunk size and any number of crashes and failing writes.                 *)
(***************************************************************************)
EXTENDS CbaFile, SequenceTheorems, WellFoundedInduction, TLAPS

\* A set of naturals has a least element: induction without a predicate.
LEMMA LeastNumber ==
    ASSUME NEW T, T \subseteq Nat, T # {}
    PROVE  \E m \in T : \A x \in T : m <= x
  <1>1. IsWellFoundedOn(OpToRel(<, Nat), Nat)
    BY NatLessThanWellFounded
  <1>2. PICK m \in T : \A y \in T : ~(<<y, m>> \in OpToRel(<, Nat))
    BY <1>1, WFMin
  <1>3. \A y \in T : ~(y < m)
    BY <1>2 DEF OpToRel
  <1> QED
    BY <1>3

-----------------------------------------------------------------------------
(* Sequences, whatever they are sequences of.                              *)

IsSeq(s) == Len(s) \in Nat /\ s = [i \in 1 .. Len(s) |-> s[i]]

LEMMA SeqIsSeq ==
    ASSUME NEW S, NEW s \in Seq(S)
    PROVE  IsSeq(s)
  BY DEF IsSeq

\* Some set holds the elements of both.
LEMMA SeqOver ==
    ASSUME NEW s, NEW u, IsSeq(s), IsSeq(u)
    PROVE  \E S : s \in Seq(S) /\ u \in Seq(S)
  <1> DEFINE S == {s[i] : i \in 1 .. Len(s)} \cup {u[i] : i \in 1 .. Len(u)}
  <1>1. \A i \in 1 .. Len(s) : s[i] \in S
    OBVIOUS
  <1>2. \A i \in 1 .. Len(u) : u[i] \in S
    OBVIOUS
  <1> HIDE DEF S
  <1>3. [i \in 1 .. Len(s) |-> s[i]] \in Seq(S)
    BY <1>1, IsASeq DEF IsSeq
  <1>4. [i \in 1 .. Len(u) |-> u[i]] \in Seq(S)
    BY <1>2, IsASeq DEF IsSeq
  <1>5. s \in Seq(S) /\ u \in Seq(S)
    BY <1>3, <1>4 DEF IsSeq
  <1> QED
    BY <1>5

LEMMA SeqLen ==
    ASSUME NEW s, IsSeq(s)
    PROVE  Len(s) \in Nat /\ DOMAIN s = 1 .. Len(s) /\ (Len(s) = 0 <=> s = << >>)
  <1>1. PICK S : s \in Seq(S)
    BY SeqOver
  <1> QED
    BY <1>1

LEMMA SeqEq ==
    ASSUME NEW s, NEW u, IsSeq(s), IsSeq(u), Len(s) = Len(u),
           \A i \in 1 .. Len(s) : s[i] = u[i]
    PROVE  s = u
  BY DEF IsSeq

LEMMA SeqOne ==
    ASSUME NEW e
    PROVE  /\ IsSeq(<< >>) /\ Len(<< >>) = 0
           /\ IsSeq(<<e>>) /\ Len(<<e>>) = 1 /\ <<e>>[1] = e /\ <<e>> # << >>
  <1>1. << >> \in Seq({e}) /\ <<e>> \in Seq({e})
    OBVIOUS
  <1> QED
    BY <1>1, SeqIsSeq

LEMMA SeqJoin ==
    ASSUME NEW s, NEW u, IsSeq(s), IsSeq(u)
    PROVE  /\ IsSeq(s \o u) /\ Len(s \o u) = Len(s) + Len(u)
           /\ \A i \in 1 .. Len(s) : (s \o u)[i] = s[i]
           /\ \A i \in 1 .. Len(u) : (s \o u)[Len(s) + i] = u[i]
  <1>1. PICK S : s \in Seq(S) /\ u \in Seq(S)
    BY SeqOver
  <1>2. s \o u \in Seq(S)
    BY <1>1
  <1>3. IsSeq(s \o u)
    BY <1>2, SeqIsSeq
  <1>4. /\ Len(s \o u) = Len(s) + Len(u)
        /\ \A i \in 1 .. Len(s) : (s \o u)[i] = s[i]
        /\ \A i \in 1 .. Len(u) : (s \o u)[Len(s) + i] = u[i]
    BY <1>1
  <1> QED
    BY <1>3, <1>4

LEMMA JoinEmpty ==
    ASSUME NEW s, IsSeq(s)
    PROVE  s \o << >> = s /\ << >> \o s = s
  <1>1. PICK S : s \in Seq(S)
    BY SeqOver
  <1> QED
    BY <1>1, ConcatEmptySeq

LEMMA JoinAssoc ==
    ASSUME NEW s, NEW u, NEW v, IsSeq(s), IsSeq(u), IsSeq(v)
    PROVE  (s \o u) \o v = s \o (u \o v)
  <1>1. IsSeq(u \o v)
    BY SeqJoin
  <1>2. PICK S : s \in Seq(S) /\ u \o v \in Seq(S)
    BY <1>1, SeqOver
  <1>3. PICK T : u \in Seq(T) /\ v \in Seq(T)
    BY SeqOver
  <1>4. s \in Seq(S \cup T) /\ u \in Seq(S \cup T) /\ v \in Seq(S \cup T)
    BY <1>2, <1>3
  <1> QED
    BY <1>4, ConcatAssociative

LEMMA SeqAppend ==
    ASSUME NEW s, NEW e, IsSeq(s)
    PROVE  /\ IsSeq(Append(s, e)) /\ Len(Append(s, e)) = Len(s) + 1
           /\ \A i \in 1 .. Len(s) : Append(s, e)[i] = s[i]
           /\ Append(s, e) = s \o <<e>> /\ Append(s, e) # << >>
           /\ Front(Append(s, e)) = s
  <1>1. PICK S : s \in Seq(S)
    BY SeqOver
  <1> DEFINE T == S \cup {e}
  <1>2. s \in Seq(T) /\ e \in T
    BY <1>1
  <1>3. Append(s, e) \in Seq(T) /\ Append(s, e) = s \o <<e>>
    BY <1>2, AppendIsConcat
  <1>4. Front(Append(s, e)) = s
    BY <1>2 DEF Front
  <1>5. IsSeq(Append(s, e))
    BY <1>3, SeqIsSeq
  <1>6. /\ Len(Append(s, e)) = Len(s) + 1 /\ Append(s, e) # << >>
        /\ \A i \in 1 .. Len(s) : Append(s, e)[i] = s[i]
    <2> HIDE DEF T
    <2> QED
      BY <1>2, AppendProperties
  <1> QED
    BY <1>3, <1>4, <1>5, <1>6

LEMMA SeqTail ==
    ASSUME NEW s, IsSeq(s), s # << >>
    PROVE  /\ IsSeq(Tail(s)) /\ Len(Tail(s)) = Len(s) - 1
           /\ \A i \in 1 .. Len(Tail(s)) : Tail(s)[i] = s[i + 1]
           /\ Len(s) \in Nat \ {0} /\ Head(s) = s[1]
           /\ s = <<Head(s)>> \o Tail(s)
  <1>1. PICK S : s \in Seq(S)
    BY SeqOver
  <1>2. Tail(s) \in Seq(S) /\ <<Head(s)>> \in Seq(S)
    BY <1>1
  <1>3. IsSeq(Tail(s)) /\ IsSeq(<<Head(s)>>)
    BY <1>2, SeqIsSeq
  <1> DEFINE v == <<Head(s)>> \o Tail(s)
  <1>4. v \in Seq(S) /\ Len(v) = Len(s)
    BY <1>1
  <1>5. \A i \in 1 .. Len(s) : v[i] = s[i]
    BY <1>1
  <1>6. v = s
    <2> HIDE DEF v
    <2> QED
      BY <1>1, <1>4, <1>5
  <1> QED
    BY <1>1, <1>3, <1>6

-----------------------------------------------------------------------------
(* Reading, whatever a token does: the recursive function of ReadAt is well *)
(* defined, and reading in two parts is reading it all.                     *)

Decode(r, k) == R!ReadToken(r, k, "all", TRUE)

ReadSome(r, tokens, at) == R!ReadAt(r, tokens, at, "all", TRUE)

ReadAll(r, s) == ReadSome(r, s, DOMAIN s)

\* f holds what the reader has come to after each of the first n tokens.
Run(f, r, tokens, at, n) ==
    f = [m \in 0 .. n |-> IF m = 0 THEN r
                          ELSE IF m \in at THEN Decode(f[m - 1], tokens[m])
                          ELSE f[m - 1]]

LEMMA RunValues ==
    ASSUME NEW f, NEW r, NEW tokens, NEW at, NEW n \in Nat, Run(f, r, tokens, at, n)
    PROVE  /\ f[0] = r
           /\ \A m \in 1 .. n : f[m] = IF m \in at THEN Decode(f[m - 1], tokens[m])
                                       ELSE f[m - 1]
  BY DEF Run

LEMMA RunExists ==
    ASSUME NEW r, NEW tokens, NEW at, NEW n \in Nat
    PROVE  \E f : Run(f, r, tokens, at, n)
  <1> DEFINE T == {m \in 0 .. n : ~\E f : Run(f, r, tokens, at, m)}
  <1> SUFFICES ASSUME T # {} PROVE FALSE
    OBVIOUS
  <1>1. T \subseteq Nat
    OBVIOUS
  <1>2. PICK m \in T : \A x \in T : m <= x
    BY <1>1, LeastNumber
  <1>3. m \in 0 .. n /\ ~\E f : Run(f, r, tokens, at, m)
    OBVIOUS
  <1>4. CASE m = 0
    <2> DEFINE f == [i \in 0 .. 0 |-> r]
    <2>1. Run(f, r, tokens, at, 0)
      BY DEF Run
    <2> QED
      BY <1>3, <1>4, <2>1
  <1>5. CASE m # 0
    <2>1. m - 1 \in 0 .. n /\ m - 1 \notin T
      BY <1>2, <1>3, <1>5
    <2>2. PICK f : Run(f, r, tokens, at, m - 1)
      BY <2>1
    <2> DEFINE g == [i \in 0 .. m |-> IF i = 0 THEN r
                                      ELSE IF i \in at THEN Decode(f[i - 1], tokens[i])
                                      ELSE f[i - 1]]
               h == [i \in 0 .. m |-> IF i = 0 THEN r
                                      ELSE IF i \in at THEN Decode(g[i - 1], tokens[i])
                                      ELSE g[i - 1]]
    <2>3. \A i \in 0 .. m - 1 : g[i] = f[i]
      BY <1>3, <2>2 DEF Run
    <2>4. \A i \in 0 .. m : i # 0 => i - 1 \in 0 .. m - 1
      BY <1>3
    <2>5. g = h
      <3>1. ASSUME NEW i \in 0 .. m PROVE g[i] = h[i]
        <4> HIDE DEF g
        <4>1. CASE i = 0
          BY <4>1 DEF g
        <4>2. CASE i # 0
          <5>1. g[i - 1] = f[i - 1]
            BY <2>3, <2>4, <4>2
          <5>2. g[i] = IF i \in at THEN Decode(f[i - 1], tokens[i]) ELSE f[i - 1]
            BY <4>2 DEF g
          <5>3. h[i] = IF i \in at THEN Decode(g[i - 1], tokens[i]) ELSE g[i - 1]
            BY <4>2
          <5> QED
            BY <5>1, <5>2, <5>3
        <4> QED
          BY <4>1, <4>2
      <3> HIDE DEF h
      <3>2. h = [i \in 0 .. m |-> h[i]] /\ g = [i \in 0 .. m |-> g[i]]
        BY DEF h
      <3> QED
        BY <3>1, <3>2
    <2>6. Run(g, r, tokens, at, m)
      <3> HIDE DEF g
      <3> QED
        BY <2>5 DEF Run
    <2> QED
      BY <1>3, <2>6
  <1> QED
    BY <1>4, <1>5

LEMMA ReadIsRun ==
    ASSUME NEW r, NEW tokens, NEW at, NEW n \in Nat, Len(tokens) = n
    PROVE  \E f : /\ Run(f, r, tokens, at, n)
                  /\ ReadSome(r, tokens, at) = f[n]
  <1> DEFINE f == CHOOSE f : Run(f, r, tokens, at, n)
  <1>1. Run(f, r, tokens, at, n)
    BY RunExists
  <1>2. ReadSome(r, tokens, at) = f[n]
    BY DEF ReadSome, R!ReadAt, Run, Decode
  <1> QED
    BY <1>1, <1>2

\* After position o of s and after position p of u, l tokens read the same.
Alike(s, o, at, u, p, bt, l) ==
    \A i \in 1 .. l : /\ o + i \in at <=> p + i \in bt
                      /\ o + i \in at => \A x : Decode(x, s[o + i]) = Decode(x, u[p + i])

\* Two runs that meet stay together as long as they read the same.
LEMMA RunsAgree ==
    ASSUME NEW q, NEW r, NEW s, NEW u, NEW at, NEW bt, NEW f, NEW g,
           NEW n \in Nat, NEW m \in Nat, NEW o \in Nat, NEW p \in Nat, NEW l \in Nat,
           Run(f, q, s, at, n), Run(g, r, u, bt, m), o + l <= n, p + l <= m,
           f[o] = g[p], Alike(s, o, at, u, p, bt, l)
    PROVE  f[o + l] = g[p + l]
  <1> DEFINE T == {i \in 0 .. l : f[o + i] # g[p + i]}
  <1>0. l \in 0 .. l
    OBVIOUS
  <1> SUFFICES ASSUME T # {} PROVE FALSE
    BY <1>0, Zenon
  <1>1. T \subseteq Nat
    OBVIOUS
  <1>2. PICK k \in T : \A x \in T : k <= x
    BY <1>1, LeastNumber
  <1>3. k \in 0 .. l /\ f[o + k] # g[p + k]
    OBVIOUS
  <1>4. k # 0
    BY <1>3
  <1>5. k \in 1 .. l /\ k - 1 \in 0 .. l /\ k - 1 \notin T
    BY <1>2, <1>3, <1>4
  <1>6. f[o + (k - 1)] = g[p + (k - 1)]
    BY <1>5
  <1>7. /\ o + k \in 1 .. n /\ (o + k) - 1 = o + (k - 1)
        /\ p + k \in 1 .. m /\ (p + k) - 1 = p + (k - 1)
    BY <1>5
  <1>8. f[o + k] = IF o + k \in at THEN Decode(f[o + (k - 1)], s[o + k]) ELSE f[o + (k - 1)]
    BY <1>7, RunValues
  <1>9. g[p + k] = IF p + k \in bt THEN Decode(g[p + (k - 1)], u[p + k]) ELSE g[p + (k - 1)]
    BY <1>7, RunValues
  <1> QED
    BY <1>3, <1>5, <1>6, <1>8, <1>9 DEF Alike

LEMMA ReadNothing ==
    ASSUME NEW r, NEW s, Len(s) = 0
    PROVE  ReadAll(r, s) = r
  <1>0. 0 \in Nat
    OBVIOUS
  <1>1. PICK f : Run(f, r, s, DOMAIN s, 0) /\ ReadSome(r, s, DOMAIN s) = f[0]
    BY <1>0, ReadIsRun
  <1>2. f[0] = r
    BY <1>0, <1>1, RunValues
  <1> QED
    BY <1>1, <1>2 DEF ReadAll

\* Tokens added to a file: all of them read, or none.
LEMMA ReadMore ==
    ASSUME NEW r, NEW s, NEW u, NEW at, NEW bt, IsSeq(s), IsSeq(u),
           \A i \in 1 .. Len(s) : i \in at <=> i \in bt,
           \A i \in 1 .. Len(u) : Len(s) + i \in bt
    PROVE  ReadSome(r, s \o u, bt) = ReadAll(ReadSome(r, s, at), u)
  <1> DEFINE n == Len(s)  m == Len(u)  a == DOMAIN u  w == s \o u
  <1>1. n \in Nat /\ m \in Nat
    OBVIOUS
  <1>2. Len(w) = n + m /\ Len(s) = n /\ Len(u) = m
    OBVIOUS
  <1>3. Alike(w, 0, bt, s, 0, at, n)
    <2>1. \A i \in 1 .. n : w[0 + i] = s[0 + i] /\ (0 + i \in bt <=> 0 + i \in at)
      OBVIOUS
    <2> QED
      BY <2>1 DEF Alike
  <1>4. Alike(w, n, bt, u, 0, a, m)
    <2>1. \A i \in 1 .. m : w[n + i] = u[0 + i] /\ n + i \in bt /\ 0 + i \in a
      OBVIOUS
    <2> QED
      BY <2>1 DEF Alike
  <1> HIDE DEF n, m, a, w
  <1>5. PICK f : Run(f, r, w, bt, n + m) /\ ReadSome(r, w, bt) = f[n + m]
    BY <1>1, <1>2, ReadIsRun
  <1>6. PICK g : Run(g, r, s, at, n) /\ ReadSome(r, s, at) = g[n]
    BY <1>1, <1>2, ReadIsRun
  <1>7. PICK h : Run(h, g[n], u, a, m) /\ ReadSome(g[n], u, a) = h[m]
    BY <1>1, <1>2, ReadIsRun
  <1>8. f[0] = g[0] /\ h[0] = g[n]
    BY <1>1, <1>5, <1>6, <1>7, RunValues
  <1>a. 0 \in Nat /\ 0 + n <= n /\ 0 + n <= n + m /\ 0 + m <= m /\ n + m \in Nat /\ n + m <= n + m
    BY <1>1
  <1>9. f[0 + n] = g[0 + n]
    BY <1>a, <1>1, <1>3, <1>5, <1>6, <1>8, RunsAgree
  <1>10. f[n] = h[0]
    BY <1>1, <1>8, <1>9
  <1>11. f[n + m] = h[0 + m]
    BY <1>a, <1>1, <1>4, <1>5, <1>7, <1>10, RunsAgree
  <1> QED
    BY <1>1, <1>5, <1>6, <1>7, <1>11 DEF ReadAll, a, w

LEMMA ReadNoMore ==
    ASSUME NEW r, NEW s, NEW u, NEW at, NEW bt, IsSeq(s), IsSeq(u),
           \A i \in 1 .. Len(s) : i \in at <=> i \in bt,
           \A i \in 1 .. Len(u) : Len(s) + i \notin bt
    PROVE  ReadSome(r, s \o u, bt) = ReadSome(r, s, at)
  <1> DEFINE n == Len(s)  m == Len(u)  w == s \o u
  <1>1. n \in Nat /\ m \in Nat
    OBVIOUS
  <1>2. Len(w) = n + m /\ Len(s) = n
    OBVIOUS
  <1>3. Alike(w, 0, bt, s, 0, at, n)
    <2>1. \A i \in 1 .. n : w[0 + i] = s[0 + i] /\ (0 + i \in bt <=> 0 + i \in at)
      OBVIOUS
    <2> QED
      BY <2>1 DEF Alike
  <1>4. Alike(w, n, bt, u, 0, {}, m)
    BY DEF Alike
  <1> HIDE DEF n, m, w
  <1>5. PICK f : Run(f, r, w, bt, n + m) /\ ReadSome(r, w, bt) = f[n + m]
    BY <1>1, <1>2, ReadIsRun
  <1>6. PICK g : Run(g, r, s, at, n) /\ ReadSome(r, s, at) = g[n]
    BY <1>1, <1>2, ReadIsRun
  <1> DEFINE h == [i \in 0 .. m |-> g[n]]
  <1>7. Run(h, g[n], u, {}, m)
    <2>1. \A i \in 0 .. m : i # 0 => i - 1 \in 0 .. m
      BY <1>1
    <2> QED
      BY <2>1 DEF Run
  <1>8. f[0] = g[0] /\ h[0] = g[n] /\ h[0 + m] = g[n]
    BY <1>1, <1>5, <1>6, RunValues
  <1> HIDE DEF h
  <1>a. 0 \in Nat /\ 0 + n <= n /\ 0 + n <= n + m /\ 0 + m <= m /\ n + m \in Nat /\ n + m <= n + m
    BY <1>1
  <1>9. f[0 + n] = g[0 + n]
    BY <1>a, <1>1, <1>3, <1>5, <1>6, <1>8, RunsAgree
  <1>10. f[n] = h[0]
    BY <1>1, <1>8, <1>9
  <1>11. f[n + m] = h[0 + m]
    BY <1>a, <1>1, <1>4, <1>5, <1>7, <1>10, RunsAgree
  <1> QED
    BY <1>5, <1>6, <1>8, <1>11 DEF w

LEMMA ReadTwice ==
    ASSUME NEW r, NEW s, NEW u, IsSeq(s), IsSeq(u)
    PROVE  ReadAll(r, s \o u) = ReadAll(ReadAll(r, s), u)
  <1>1. \A i \in 1 .. Len(s) : i \in DOMAIN s <=> i \in DOMAIN (s \o u)
    OBVIOUS
  <1>2. \A i \in 1 .. Len(u) : Len(s) + i \in DOMAIN (s \o u)
    OBVIOUS
  <1> QED
    BY <1>1, <1>2, ReadMore DEF ReadAll

LEMMA ReadOne ==
    ASSUME NEW r, NEW k
    PROVE  ReadAll(r, <<k>>) = Decode(r, k)
  <1> DEFINE s == <<k>>  a == DOMAIN s
  <1>1. Len(s) = 1 /\ 1 \in a /\ s[1] = k /\ 1 \in Nat
    OBVIOUS
  <1> HIDE DEF s, a
  <1>2. PICK f : Run(f, r, s, a, 1) /\ ReadSome(r, s, a) = f[1]
    BY <1>1, ReadIsRun
  <1>3. f[0] = r /\ f[1] = Decode(f[1 - 1], s[1])
    BY <1>1, <1>2, RunValues
  <1> QED
    BY <1>1, <1>2, <1>3 DEF ReadAll, s, a

\* The first token, then the rest.
LEMMA ReadFirst ==
    ASSUME NEW r, NEW s, IsSeq(s), s # << >>
    PROVE  ReadAll(r, s) = ReadAll(Decode(r, Head(s)), Tail(s))
  <1> DEFINE a == <<Head(s)>>  b == Tail(s)
  <1>1. IsSeq(a) /\ IsSeq(b) /\ s = a \o b
    BY SeqTail, SeqOne
  <1>2. ReadAll(r, a) = Decode(r, Head(s))
    BY ReadOne, Zenon
  <1> HIDE DEF a, b
  <1>3. ReadAll(r, a \o b) = ReadAll(ReadAll(r, a), b)
    BY <1>1, ReadTwice
  <1> QED
    BY <1>1, <1>2, <1>3 DEF b

\* Tokens that say the same read the same.
LEMMA ReadSame ==
    ASSUME NEW r, NEW s, NEW u, Len(s) \in Nat, Len(u) = Len(s),
           DOMAIN s = 1 .. Len(s), DOMAIN u = 1 .. Len(s),
           \A i \in 1 .. Len(s) : \A x : Decode(x, s[i]) = Decode(x, u[i])
    PROVE  ReadAll(r, s) = ReadAll(r, u)
  <1> DEFINE n == Len(s)  a == DOMAIN s  b == DOMAIN u
  <1>1. n \in Nat /\ Len(s) = n /\ Len(u) = n
    OBVIOUS
  <1>2. Alike(s, 0, a, u, 0, b, n)
    <2>1. \A i \in 1 .. n : /\ 0 + i \in a <=> 0 + i \in b
                            /\ \A x : Decode(x, s[0 + i]) = Decode(x, u[0 + i])
      OBVIOUS
    <2> QED
      BY <2>1 DEF Alike
  <1> HIDE DEF n, a, b
  <1>3. PICK f : Run(f, r, s, a, n) /\ ReadSome(r, s, a) = f[n]
    BY <1>1, ReadIsRun
  <1>4. PICK g : Run(g, r, u, b, n) /\ ReadSome(r, u, b) = g[n]
    BY <1>1, ReadIsRun
  <1>5. f[0] = g[0]
    BY <1>1, <1>3, <1>4, RunValues
  <1>6. f[0 + n] = g[0 + n]
    BY <1>1, <1>2, <1>3, <1>4, <1>5, RunsAgree
  <1> QED
    BY <1>1, <1>3, <1>4, <1>6 DEF ReadAll, a, b

-----------------------------------------------------------------------------
(* What one token does to the reader.                                      *)

IsToken(k) == DOMAIN k = {"by", "kind", "type", "val", "flush"} /\ k.by \in Threads

IsState(s) ==
    DOMAIN s = {"module", "events", "cur_type", "cur_code", "cur_stream", "data"}

IsReader(r) ==
    /\ DOMAIN r = {"want", "tid", "out", "state"}
    /\ r.tid \in Threads
    /\ DOMAIN r.state = Threads
    /\ \A u \in Threads : IsState(r.state[u])

\* From r to q only the state of t changes, and q wants w.
Reaches(r, q, t, w, s) ==
    /\ IsReader(q)
    /\ q.want = w /\ q.tid = t /\ q.out = r.out /\ q.state[t] = s
    /\ \A u \in Threads \ {t} : q.state[u] = r.state[u]

LEMMA ReachesOn ==
    ASSUME NEW r, NEW q, NEW p, NEW t, NEW w, NEW s, NEW x, NEW y,
           Reaches(r, q, t, w, s), Reaches(q, p, t, x, y)
    PROVE  Reaches(r, p, t, x, y)
  BY DEF Reaches

LEMMA DecodeHeader ==
    ASSUME NEW r, NEW k, IsReader(r), IsToken(k), r.want = "packet", k.kind = "hdr",
           r.state[k.by].cur_stream = "none", k.type # "head",
           IsState(R!Entered(r.state[k.by], k))
    PROVE  Reaches(r, Decode(r, k), k.by, R!After(k.type), R!Entered(r.state[k.by], k))
  <1> DEFINE s == R!Entered(r.state[k.by], k)  w == R!After(k.type)
  <1> HIDE DEF s, w
  <1>1. Decode(r, k) = [r EXCEPT !.tid = k.by, !.want = w, !.state[k.by] = s, !.out = r.out]
    BY DEF Decode, R!ReadToken, s, w
  <1>2. IsState(s)
    BY DEF s
  <1> QED
    BY <1>1, <1>2 DEF Reaches, IsReader, IsToken, s, w

LEMMA AddedIsState ==
    ASSUME NEW s, IsState(s), NEW x, NEW y, NEW z
    PROVE  IsState(R!AddEvent(s, x, y, z))
  BY DEF IsState, R!AddEvent

LEMMA EndedIsState ==
    ASSUME NEW s, IsState(s)
    PROVE  IsState(R!EndStream(s))
  BY AddedIsState DEF IsState, R!EndStream

LEMMA DecodeTid ==
    ASSUME NEW r, NEW k, IsReader(r), IsToken(k), r.want = "packet", k.kind = "tid",
           r.state[k.by].cur_stream # "none"
    PROVE  Reaches(r, Decode(r, k), k.by, "chunklen", r.state[k.by])
  <1>1. Decode(r, k) = [r EXCEPT !.tid = k.by, !.want = "chunklen"]
    BY DEF Decode, R!ReadToken
  <1> QED
    BY <1>1 DEF Reaches, IsReader, IsToken

\* The tokens that follow a header or a thread id; t is the thread of the packet.
LEMMA DecodePiece ==
    ASSUME NEW r, NEW k, NEW t, NEW s, IsReader(r), t = r.tid, s = r.state[t]
    PROVE  /\ r.want = "name" /\ k.kind = "name" =>
                 Reaches(r, Decode(r, k), t, "packet", [s EXCEPT !.module = k.val])
           /\ r.want = "strlen" /\ k.kind = "len" =>
                 Reaches(r, Decode(r, k), t, "str", s)
           /\ r.want = "str" /\ k.kind = "raw" =>
                 Reaches(r, Decode(r, k), t, "packet", R!AddEvent(s, "str", s.cur_code, k.val))
           /\ r.want = "int" /\ k.kind = "int" =>
                 Reaches(r, Decode(r, k), t, "packet", R!AddEvent(s, s.cur_type, s.cur_code, k.val))
           /\ r.want = "chunklen" /\ k.kind = "len" /\ k.val = 0 =>
                 Reaches(r, Decode(r, k), t, "packet", R!EndStream(s))
           /\ r.want = "chunklen" /\ k.kind = "len" /\ k.val # 0 =>
                 Reaches(r, Decode(r, k), t, "chunk", s)
           /\ r.want = "chunk" /\ k.kind = "raw" /\ s.cur_stream # "ignore" =>
                 Reaches(r, Decode(r, k), t, "packet", [s EXCEPT !.data = s.data \o k.val])
           /\ r.want = "filelen" /\ k.kind = "len" =>
                 Reaches(r, Decode(r, k), t, "filename", s)
           /\ r.want = "filename" /\ k.kind = "raw" =>
                 Reaches(r, Decode(r, k), t, "packet", R!AddEvent([s EXCEPT !.cur_stream = "disk"], "file", s.cur_code, k.val))
  <1> DEFINE To(w, x) == [r EXCEPT !.want = w, !.state[t] = x]
  <1>1. t \in Threads /\ IsState(s)
    BY DEF IsReader
  <1>2. ASSUME NEW w, NEW x, IsState(x)
        PROVE  Reaches(r, To(w, x), t, w, x)
    BY <1>1, <1>2 DEF Reaches, IsReader
  <1> HIDE DEF To
  <1>3. ASSUME r.want = "name", k.kind = "name"
        PROVE  Reaches(r, Decode(r, k), t, "packet", [s EXCEPT !.module = k.val])
    <2> DEFINE x == [s EXCEPT !.module = k.val]
    <2>1. IsState(x)
      BY <1>1, AddedIsState, EndedIsState DEF IsState
    <2>2. Decode(r, k) = To("packet", x)
      BY <1>3 DEF Decode, R!ReadToken, To
    <2> HIDE DEF x
    <2>3. Reaches(r, To("packet", x), t, "packet", x)
      BY <1>2, <2>1
    <2> QED
      BY <2>2, <2>3 DEF x
  <1>4. ASSUME r.want = "strlen", k.kind = "len"
        PROVE  Reaches(r, Decode(r, k), t, "str", s)
    <2> DEFINE x == s
    <2>1. IsState(x)
      BY <1>1, AddedIsState, EndedIsState DEF IsState
    <2>2. Decode(r, k) = To("str", x)
      BY <1>4 DEF Decode, R!ReadToken, To
    <2> HIDE DEF x
    <2>3. Reaches(r, To("str", x), t, "str", x)
      BY <1>2, <2>1
    <2> QED
      BY <2>2, <2>3 DEF x
  <1>5. ASSUME r.want = "str", k.kind = "raw"
        PROVE  Reaches(r, Decode(r, k), t, "packet", R!AddEvent(s, "str", s.cur_code, k.val))
    <2> DEFINE x == R!AddEvent(s, "str", s.cur_code, k.val)
    <2>1. IsState(x)
      BY <1>1, AddedIsState, EndedIsState DEF IsState
    <2>2. Decode(r, k) = To("packet", x)
      BY <1>5 DEF Decode, R!ReadToken, To
    <2> HIDE DEF x
    <2>3. Reaches(r, To("packet", x), t, "packet", x)
      BY <1>2, <2>1
    <2> QED
      BY <2>2, <2>3 DEF x
  <1>6. ASSUME r.want = "int", k.kind = "int"
        PROVE  Reaches(r, Decode(r, k), t, "packet", R!AddEvent(s, s.cur_type, s.cur_code, k.val))
    <2> DEFINE x == R!AddEvent(s, s.cur_type, s.cur_code, k.val)
    <2>1. IsState(x)
      BY <1>1, AddedIsState, EndedIsState DEF IsState
    <2>2. Decode(r, k) = To("packet", x)
      BY <1>6 DEF Decode, R!ReadToken, To
    <2> HIDE DEF x
    <2>3. Reaches(r, To("packet", x), t, "packet", x)
      BY <1>2, <2>1
    <2> QED
      BY <2>2, <2>3 DEF x
  <1>7. ASSUME r.want = "chunklen", k.kind = "len", k.val = 0
        PROVE  Reaches(r, Decode(r, k), t, "packet", R!EndStream(s))
    <2> DEFINE x == R!EndStream(s)
    <2>1. IsState(x)
      BY <1>1, AddedIsState, EndedIsState DEF IsState
    <2>2. Decode(r, k) = To("packet", x)
      BY <1>7 DEF Decode, R!ReadToken, To
    <2> HIDE DEF x
    <2>3. Reaches(r, To("packet", x), t, "packet", x)
      BY <1>2, <2>1
    <2> QED
      BY <2>2, <2>3 DEF x
  <1>8. ASSUME r.want = "chunklen", k.kind = "len", k.val # 0
        PROVE  Reaches(r, Decode(r, k), t, "chunk", s)
    <2> DEFINE x == s
    <2>1. IsState(x)
      BY <1>1, AddedIsState, EndedIsState DEF IsState
    <2>2. Decode(r, k) = To("chunk", x)
      BY <1>8 DEF Decode, R!ReadToken, To
    <2> HIDE DEF x
    <2>3. Reaches(r, To("chunk", x), t, "chunk", x)
      BY <1>2, <2>1
    <2> QED
      BY <2>2, <2>3 DEF x
  <1>9. ASSUME r.want = "chunk", k.kind = "raw", s.cur_stream # "ignore"
        PROVE  Reaches(r, Decode(r, k), t, "packet", [s EXCEPT !.data = s.data \o k.val])
    <2> DEFINE x == [s EXCEPT !.data = s.data \o k.val]
    <2>1. IsState(x)
      BY <1>1, AddedIsState, EndedIsState DEF IsState
    <2>2. Decode(r, k) = To("packet", x)
      BY <1>9 DEF Decode, R!ReadToken, To
    <2> HIDE DEF x
    <2>3. Reaches(r, To("packet", x), t, "packet", x)
      BY <1>2, <2>1
    <2> QED
      BY <2>2, <2>3 DEF x
  <1>10. ASSUME r.want = "filelen", k.kind = "len"
        PROVE  Reaches(r, Decode(r, k), t, "filename", s)
    <2> DEFINE x == s
    <2>1. IsState(x)
      BY <1>1, AddedIsState, EndedIsState DEF IsState
    <2>2. Decode(r, k) = To("filename", x)
      BY <1>10 DEF Decode, R!ReadToken, To
    <2> HIDE DEF x
    <2>3. Reaches(r, To("filename", x), t, "filename", x)
      BY <1>2, <2>1
    <2> QED
      BY <2>2, <2>3 DEF x
  <1>11. ASSUME r.want = "filename", k.kind = "raw"
        PROVE  Reaches(r, Decode(r, k), t, "packet", R!AddEvent([s EXCEPT !.cur_stream = "disk"], "file", s.cur_code, k.val))
    <2> DEFINE x == R!AddEvent([s EXCEPT !.cur_stream = "disk"], "file", s.cur_code, k.val)
    <2>1. IsState(x)
      BY <1>1, AddedIsState, EndedIsState DEF IsState
    <2>2. Decode(r, k) = To("packet", x)
      BY <1>11 DEF Decode, R!ReadToken, To
    <2> HIDE DEF x
    <2>3. Reaches(r, To("packet", x), t, "packet", x)
      BY <1>2, <2>1
    <2> QED
      BY <2>2, <2>3 DEF x
  <1> QED
    BY <1>3, <1>4, <1>5, <1>6, <1>7, <1>8, <1>9, <1>10, <1>11

\* A head: the entry before it is yielded, the state begins anew.
HeadBegun(r, q, t) ==
    /\ IsReader(q) /\ q.want = "name" /\ q.tid = t
    /\ q.out = r.out \o R!Result(t, r.state[t], "all")
    /\ q.state[t] = R!ThreadState
    /\ \A u \in Threads \ {t} : q.state[u] = r.state[u]

LEMMA DecodeHead ==
    ASSUME NEW r, NEW k, IsReader(r), IsToken(k), r.want = "packet", k.kind = "hdr",
           r.state[k.by].cur_stream = "none", k.type = "head"
    PROVE  HeadBegun(r, Decode(r, k), k.by)
  <1> DEFINE o == R!Result(k.by, r.state[k.by], "all")
  <1> HIDE DEF o
  <1>1. R!Entered(r.state[k.by], k) = R!ThreadState /\ R!After("head") = "name"
    BY DEF R!Entered, R!After
  <1>2. Decode(r, k) = [r EXCEPT !.tid = k.by, !.want = R!After(k.type),
                                 !.state[k.by] = R!Entered(@, k), !.out = r.out \o o]
    BY DEF Decode, R!ReadToken, o
  <1>3. Decode(r, k) = [r EXCEPT !.tid = k.by, !.want = "name",
                                 !.state[k.by] = R!ThreadState, !.out = r.out \o o]
    BY <1>1, <1>2
  <1>4. IsState(R!ThreadState)
    BY DEF IsState, R!ThreadState
  <1> QED
    BY <1>3, <1>4 DEF HeadBegun, IsReader, IsToken, o

\* Whether cba_flush wrote it makes no difference to the reader.
LEMMA FlushIsNoByte ==
    ASSUME NEW r, NEW k, IsToken(k)
    PROVE  Decode(r, [k EXCEPT !.flush = TRUE]) = Decode(r, k)
  <1> DEFINE l == [k EXCEPT !.flush = TRUE]
  <1>1. l.by = k.by /\ l.kind = k.kind /\ l.type = k.type /\ l.val = k.val
    BY DEF IsToken
  <1> HIDE DEF l
  <1>2. R!Entered(r.state[l.by], l) = R!Entered(r.state[k.by], k)
    BY <1>1 DEF R!Entered
  <1>3. Decode(r, l) = Decode(r, k)
    BY <1>1, <1>2 DEF Decode, R!ReadToken
  <1> QED
    BY <1>3 DEF l

Longer(a, b) ==
    /\ IsSeq(a) /\ IsSeq(b)
    /\ Len(a) <= Len(b) /\ \A i \in 1 .. Len(a) : b[i] = a[i]

\* Whatever is read, nothing that was yielded is taken back, and a reader
\* that is lost stays so.
Later(r, q) ==
    /\ IsReader(q)
    /\ Longer(r.out, q.out)
    /\ r.want = "lost" => q.want = "lost"

LEMMA ResultIsSeq ==
    ASSUME NEW t, NEW s
    PROVE  IsSeq(R!Result(t, s, "all")) /\ Len(R!Result(t, s, "all")) <= 1
  BY SeqOne DEF R!Result

LEMMA DecodeIsLater ==
    ASSUME NEW r, NEW k, IsReader(r), IsSeq(r.out), IsToken(k)
    PROVE  /\ Later(r, Decode(r, k))
           /\ ~(k.kind = "hdr" /\ k.type = "head") => Decode(r, k).out = r.out
  <1> DEFINE q == Decode(r, k)  o == R!Result(k.by, r.state[k.by], "all")  s == r.state[r.tid]
  <1>0. k.by \in Threads /\ IsState(r.state[k.by]) /\ r.tid \in Threads /\ IsState(s)
    BY DEF IsReader, IsToken
  <1>a. Longer(r.out, r.out)
    BY SeqLen DEF Longer
  <1>b. Longer(r.out, r.out \o o)
    <2>1. IsSeq(o)
      BY ResultIsSeq
    <2> HIDE DEF o
    <2>2. Len(r.out) \in Nat /\ Len(o) \in Nat
      BY <2>1, SeqLen
    <2> QED
      BY <2>1, <2>2, SeqJoin DEF Longer
  <1> DEFINE One(w, t, x) == [r EXCEPT !.want = w, !.tid = t, !.state[t] = x]
             Good(p) == IsReader(p) /\ p.out = r.out
  <1>1. CASE r.want = "packet" /\ k.kind = "hdr" /\ r.state[k.by].cur_stream = "none"
    <2> DEFINE x == R!Entered(r.state[k.by], k)
    <2>1. IsState(x)
      <3>1. IsState(R!ThreadState)
        BY DEF IsState, R!ThreadState
      <3> QED
        BY <1>0, <3>1, AddedIsState DEF IsState, R!Entered
    <2>2. q = [r EXCEPT !.tid = k.by, !.want = R!After(k.type), !.state[k.by] = x,
                        !.out = IF k.type = "head" THEN r.out \o o ELSE r.out]
      <3> HIDE DEF o, x
      <3> QED
        BY <1>1 DEF Decode, R!ReadToken, o, x
    <2> HIDE DEF x, q, o
    <2>3. IsReader(q) /\ q.out = IF k.type = "head" THEN r.out \o o ELSE r.out
      BY <1>0, <2>1, <2>2 DEF IsReader
    <2>4. Longer(r.out, q.out)
      BY <1>a, <1>b, <2>3
    <2> QED
      BY <1>1, <2>3, <2>4 DEF Later, q
  <1>2. CASE r.want = "packet" /\ k.kind = "tid" /\ r.state[k.by].cur_stream # "none"
    <2>1. q.out = r.out /\ IsReader(q)
      BY <1>2, DecodeTid DEF Reaches
    <2> HIDE DEF q
    <2> QED
      BY <1>2, <1>a, <2>1 DEF Later, q
  <1>3. CASE r.want = "chunk" /\ k.kind = "raw" /\ s.cur_stream = "ignore"
    <2>1. q = [r EXCEPT !.want = "packet", !.state[r.tid] = [s EXCEPT !.data = @]]
      BY <1>3 DEF Decode, R!ReadToken
    <2>2. q.out = r.out /\ IsReader(q)
      BY <1>0, <2>1 DEF IsReader, IsState
    <2> HIDE DEF q
    <2> QED
      BY <1>3, <1>a, <2>2 DEF Later, q
  <1>4. CASE \/ r.want = "name" /\ k.kind = "name"
             \/ r.want = "strlen" /\ k.kind = "len"
             \/ r.want = "str" /\ k.kind = "raw"
             \/ r.want = "int" /\ k.kind = "int"
             \/ r.want = "chunklen" /\ k.kind = "len"
             \/ r.want = "chunk" /\ k.kind = "raw" /\ s.cur_stream # "ignore"
             \/ r.want = "filelen" /\ k.kind = "len"
             \/ r.want = "filename" /\ k.kind = "raw"
    <2>1. \E w, x : Reaches(r, q, r.tid, w, x)
      <3> HIDE DEF q
      <3> QED
        BY <1>4, DecodePiece, ZenonT(60) DEF q
    <2>2. q.out = r.out /\ IsReader(q)
      BY <2>1 DEF Reaches
    <2> HIDE DEF q
    <2> QED
      BY <1>4, <1>a, <2>2 DEF Later, q
  <1>5. CASE /\ ~(r.want = "packet" /\ k.kind = "hdr" /\ r.state[k.by].cur_stream = "none")
             /\ ~(r.want = "packet" /\ k.kind = "tid" /\ r.state[k.by].cur_stream # "none")
             /\ ~(r.want = "name" /\ k.kind = "name")
             /\ ~(r.want = "strlen" /\ k.kind = "len")
             /\ ~(r.want = "str" /\ k.kind = "raw")
             /\ ~(r.want = "int" /\ k.kind = "int")
             /\ ~(r.want = "chunklen" /\ k.kind = "len")
             /\ ~(r.want = "chunk" /\ k.kind = "raw")
             /\ ~(r.want = "filelen" /\ k.kind = "len")
             /\ ~(r.want = "filename" /\ k.kind = "raw")
    <2>1. q = [r EXCEPT !.want = "lost"]
      BY <1>5 DEF Decode, R!ReadToken
    <2>2. q.out = r.out /\ IsReader(q) /\ q.want = "lost"
      BY <1>0, <2>1 DEF IsReader
    <2> HIDE DEF q
    <2> QED
      BY <1>a, <2>2 DEF Later, q
  <1> HIDE DEF q, o, s
  <1> QED
    BY <1>1, <1>2, <1>3, <1>4, <1>5

LEMMA LaterOn ==
    ASSUME NEW r, NEW q, NEW p, Later(r, q), Later(q, p)
    PROVE  Later(r, p)
  <1>1. Len(r.out) \in Nat /\ Len(q.out) \in Nat /\ Len(p.out) \in Nat
    BY SeqLen DEF Later, Longer
  <1> QED
    BY <1>1 DEF Later, Longer

LEMMA ReadIsLater ==
    ASSUME NEW r, NEW tokens, NEW at, IsReader(r), IsSeq(r.out), IsSeq(tokens),
           \A i \in 1 .. Len(tokens) : IsToken(tokens[i])
    PROVE  Later(r, ReadSome(r, tokens, at))
  <1> DEFINE n == Len(tokens)
  <1>0. n \in Nat /\ n \in 0 .. n
    BY SeqLen
  <1>1. PICK f : Run(f, r, tokens, at, n) /\ ReadSome(r, tokens, at) = f[n]
    BY <1>0, ReadIsRun
  <1> HIDE DEF n
  <1> DEFINE T == {i \in 0 .. n : ~Later(r, f[i])}
  <1> SUFFICES ASSUME T # {} PROVE FALSE
    BY <1>0, <1>1, Zenon
  <1>2. T \subseteq Nat
    BY <1>0
  <1>3. PICK m \in T : \A x \in T : m <= x
    BY <1>2, LeastNumber
  <1>4. m \in 0 .. n /\ ~Later(r, f[m])
    BY <1>3
  <1>5. CASE m = 0
    <2>1. Longer(r.out, r.out)
      BY SeqLen DEF Longer
    <2>2. f[0] = r
      BY <1>0, <1>1, RunValues
    <2> QED
      BY <1>4, <1>5, <2>1, <2>2 DEF Later
  <1>6. CASE m # 0
    <2>1. m - 1 \in 0 .. n /\ m - 1 \notin T /\ m \in 1 .. n
      BY <1>0, <1>3, <1>4, <1>6
    <2>2. Later(r, f[m - 1])
      BY <2>1
    <2> HIDE DEF T
    <2>3. f[m] = IF m \in at THEN Decode(f[m - 1], tokens[m]) ELSE f[m - 1]
      BY <1>0, <1>1, <2>1, RunValues
    <2>4. IsReader(f[m - 1]) /\ IsSeq(f[m - 1].out) /\ IsToken(tokens[m])
      BY <2>1, <2>2 DEF Later, Longer, n
    <2>5. Later(f[m - 1], Decode(f[m - 1], tokens[m]))
      BY <2>4, DecodeIsLater
    <2>6. Later(r, Decode(f[m - 1], tokens[m]))
      BY <2>2, <2>5, LaterOn
    <2> QED
      BY <1>4, <2>2, <2>3, <2>6
  <1> QED
    BY <1>5, <1>6

-----------------------------------------------------------------------------
(* The chunks of a stream.                                                 *)

LEMMA Quotient ==
    ASSUME NEW a \in Nat, NEW b \in Nat \ {0}
    PROVE  a \div b \in Nat /\ b * (a \div b) <= a /\ a - b < b * (a \div b)
  OBVIOUS

\* The data of the first c chunks.
Upto(data, c) ==
    SubSeq(data, 1, IF c * MaxBuff < Len(data) THEN c * MaxBuff ELSE Len(data))

LEMMA ChunkBounds ==
    ASSUME NEW data \in Seq(Nat)
    PROVE  /\ NumChunks(data) \in Nat
           /\ Len(data) <= NumChunks(data) * MaxBuff
           /\ \A c \in 1 .. NumChunks(data) : (c - 1) * MaxBuff < Len(data)
  <1> DEFINE n == NumChunks(data)  b == MaxBuff  a == Len(data) + b - 1
  <1>1. b \in Nat \ {0} /\ Len(data) \in Nat /\ a \in Nat /\ n = a \div b
    BY CbaAssumption DEF NumChunks
  <1> HIDE DEF n, b
  <1>2. n \in Nat /\ b * n <= a /\ a - b < b * n
    BY <1>1, Quotient
  <1>3. b * n = n * b /\ b * n \in Nat
    BY <1>1, <1>2
  <1>4. Len(data) <= n * b
    BY <1>1, <1>2, <1>3
  <1>5. ASSUME NEW c \in 1 .. n
        PROVE  (c - 1) * b < Len(data)
    <2>1. (c - 1) * b + b = c * b /\ c * b <= n * b /\ c * b \in Nat /\ (c - 1) * b \in Nat
      <3>1. c \in Nat /\ n - c \in Nat /\ c - 1 \in Nat
        BY <1>2, <1>5
      <3>2. c * b + (n - c) * b = n * b
        BY <1>1, <1>2, <3>1
      <3>3. (n - c) * b \in Nat /\ c * b \in Nat /\ (c - 1) * b \in Nat
        BY <1>1, <3>1
      <3>4. (c - 1) * b + b = c * b
        BY <1>1, <3>1
      <3> QED
        BY <1>1, <1>2, <1>3, <3>2, <3>3, <3>4
    <2> QED
      BY <1>1, <1>2, <1>3, <2>1
  <1> QED
    BY <1>2, <1>4, <1>5 DEF n, b

LEMMA ChunksJoin ==
    ASSUME NEW data \in Seq(Nat), NEW c \in 1 .. NumChunks(data)
    PROVE  /\ Chunk(data, c) \in Seq(Nat) /\ Len(Chunk(data, c)) # 0
           /\ Upto(data, c - 1) \o Chunk(data, c) = Upto(data, c)
  <1> DEFINE n == NumChunks(data)  b == MaxBuff  k == (c - 1) * b  d == c * b  l == Len(data)
             e == IF d < l THEN d ELSE l
  <1>1. b \in Nat \ {0} /\ l \in Nat /\ n \in Nat /\ c \in 1 .. n /\ k < l
    BY CbaAssumption, ChunkBounds
  <1>2. k + b = d /\ k \in Nat /\ d \in Nat
    BY <1>1
  <1>3. /\ Upto(data, c - 1) = SubSeq(data, 1, k)
        /\ Upto(data, c) = SubSeq(data, 1, e)
        /\ Chunk(data, c) = SubSeq(data, k + 1, e)
    BY <1>1 DEF Upto, Chunk
  <1> HIDE DEF k, d, l, b, n
  <1>4. k < e /\ e \in 0 .. l
    BY <1>1, <1>2
  <1> HIDE DEF e
  <1>5. \A i \in k + 1 .. e : data[i] \in Nat
    BY <1>1, <1>2, <1>4 DEF l
  <1>6. SubSeq(data, k + 1, e) \in Seq(Nat) /\ Len(SubSeq(data, k + 1, e)) # 0
    <2>1. k + 1 \in Int /\ e \in Int /\ k + 1 <= e
      BY <1>1, <1>2, <1>4
    <2> QED
      BY <1>5, <2>1, SubSeqProperties
  <1>7. SubSeq(data, 1, k) \o SubSeq(data, k + 1, e) = SubSeq(data, 1, e)
    <2>1. 1 \in 1 .. Len(data) + 1 /\ k \in 1 - 1 .. Len(data) /\ e \in k .. Len(data)
      BY <1>1, <1>2, <1>4 DEF l
    <2> QED
      BY <2>1, ConcatAdjacentSubSeq
  <1> QED
    BY <1>3, <1>6, <1>7

LEMMA ChunksAll ==
    ASSUME NEW data \in Seq(Nat)
    PROVE  Upto(data, 0) = << >> /\ Upto(data, NumChunks(data)) = data
  <1>1. /\ MaxBuff \in Nat \ {0} /\ Len(data) \in Nat /\ 0 * MaxBuff = 0
        /\ NumChunks(data) * MaxBuff \in Nat /\ Len(data) <= NumChunks(data) * MaxBuff
    BY CbaAssumption, ChunkBounds
  <1>2. Upto(data, NumChunks(data)) = SubSeq(data, 1, Len(data))
    BY <1>1 DEF Upto
  <1>3. Upto(data, 0) = SubSeq(data, 1, 0)
    BY <1>1 DEF Upto
  <1>4. SubSeq(data, 1, 0) = << >>
    BY SubSeqEmpty
  <1> QED
    BY <1>2, <1>3, <1>4, SubSeqFull

\* Where the pieces of a chunk are in the stream.
LEMMA StreamPieces ==
    ASSUME NEW t \in Threads, NEW data \in Seq(Nat), NEW c \in 0 .. NumChunks(data)
    PROVE  /\ Stream(t, data)[3 * c + 1] = Token(t, "tid", "none", t)
           /\ c < NumChunks(data) =>
                /\ Stream(t, data)[3 * c + 2] = Length(t, Len(Chunk(data, c + 1)))
                /\ Stream(t, data)[3 * c + 3] = Bytes(t, Chunk(data, c + 1))
           /\ c = NumChunks(data) => Stream(t, data)[3 * c + 2] = Length(t, 0)
  <1> DEFINE n == NumChunks(data)
  <1>1. n \in Nat
    BY ChunkBounds
  <1>2. c \in 0 .. n
    OBVIOUS
  <1> HIDE DEF n
  <1>3. /\ (3 * c + 1) % 3 = 1 /\ (3 * c + 2) % 3 = 2 /\ (3 * c + 3) % 3 = 0
        /\ (3 * c + 2 + 2) \div 3 = c + 1 /\ (3 * c + 3 + 2) \div 3 = c + 1
    BY <1>1, <1>2
  <1>4. /\ 3 * c + 1 \in 1 .. 3 * n + 2 /\ 3 * c + 2 \in 1 .. 3 * n + 2
        /\ c < n => 3 * c + 3 \in 1 .. 3 * n + 2 /\ c + 1 <= n
        /\ c = n => ~(c + 1 <= n)
    BY <1>1, <1>2
  <1>a. ASSUME NEW i \in 1 .. 3 * n + 2
        PROVE  /\ i % 3 = 1 => Stream(t, data)[i] = Token(t, "tid", "none", t)
               /\ i % 3 = 2 => Stream(t, data)[i] =
                     Length(t, IF (i + 2) \div 3 <= n THEN Len(Chunk(data, (i + 2) \div 3)) ELSE 0)
               /\ i % 3 = 0 => Stream(t, data)[i] = Bytes(t, Chunk(data, (i + 2) \div 3))
    BY <1>a DEF Stream, n
  <1>5. Stream(t, data)[3 * c + 1] = Token(t, "tid", "none", t)
    BY <1>a, <1>3, <1>4
  <1>6. c < n => Stream(t, data)[3 * c + 2] = Length(t, Len(Chunk(data, c + 1)))
    BY <1>a, <1>3, <1>4
  <1>7. c < n => Stream(t, data)[3 * c + 3] = Bytes(t, Chunk(data, c + 1))
    BY <1>a, <1>3, <1>4
  <1>8. c = n => Stream(t, data)[3 * c + 2] = Length(t, 0)
    BY <1>a, <1>3, <1>4
  <1> QED
    BY <1>5, <1>6, <1>7, <1>8 DEF n

LEMMA StreamShape ==
    ASSUME NEW t \in Threads, NEW data \in Seq(Nat)
    PROVE  /\ IsSeq(Stream(t, data)) /\ Len(Stream(t, data)) = 3 * NumChunks(data) + 2
           /\ DOMAIN Stream(t, data) = 1 .. 3 * NumChunks(data) + 2
           /\ Stream(t, data) # << >>
  <1> DEFINE n == 3 * NumChunks(data) + 2
  <1>1. n \in Nat
    BY ChunkBounds
  <1>2. Stream(t, data) = [i \in 1 .. n |-> Stream(t, data)[i]]
    BY DEF Stream
  <1>3. Len(Stream(t, data)) = n
    <2> HIDE DEF n
    <2> QED
      BY <1>1, <1>2
  <1>4. IsSeq(Stream(t, data)) /\ DOMAIN Stream(t, data) = 1 .. n
    BY <1>1, <1>2, <1>3 DEF IsSeq
  <1>5. Stream(t, data) # << >>
    <2>1. Len(<< >>) = 0
      OBVIOUS
    <2>2. n # 0
      BY ChunkBounds
    <2> HIDE DEF n
    <2> QED
      BY <1>3, <2>1, <2>2
  <1> QED
    BY <1>3, <1>4, <1>5


\* From r to q, inside a stream of t, with d read of it.
InStream(r, q, t, d) ==
    /\ IsReader(q) /\ q.want = "packet" /\ q.out = r.out
    /\ \A u \in Threads \ {t} : q.state[u] = r.state[u]
    /\ q.state[t].module = r.state[t].module /\ q.state[t].events = r.state[t].events
    /\ q.state[t].cur_type = r.state[t].cur_type /\ q.state[t].cur_code = r.state[t].cur_code
    /\ q.state[t].cur_stream = r.state[t].cur_stream
    /\ r.state[t].data = << >> => q.state[t].data = d

LEMMA ChunkReads ==
    ASSUME NEW r, NEW q, NEW t \in Threads, NEW d, NEW v, NEW n,
           r.state[t].cur_stream \in {"memory", "disk"}, n # 0,
           InStream(r, q, t, d)
    PROVE  InStream(r, Decode(Decode(Decode(q, Token(t, "tid", "none", t)), Length(t, n)), Bytes(t, v)),
                    t, d \o v)
  <1> DEFINE k1 == Token(t, "tid", "none", t)  k2 == Length(t, n)  k3 == Bytes(t, v)
             q1 == Decode(q, k1)  q2 == Decode(q1, k2)  q3 == Decode(q2, k3)
             s == q.state[t]
  <1>1. /\ IsToken(k1) /\ k1.by = t /\ k1.kind = "tid"
        /\ IsToken(k2) /\ k2.kind = "len" /\ k2.val = n
        /\ IsToken(k3) /\ k3.kind = "raw" /\ k3.val = v
    BY DEF Length, Bytes, Token, IsToken
  <1> HIDE DEF k1, k2, k3
  <1>2. IsReader(q) /\ q.want = "packet" /\ s.cur_stream \in {"memory", "disk"}
    BY DEF InStream
  <1>3. Reaches(q, q1, t, "chunklen", s)
    BY <1>1, <1>2, DecodeTid
  <1> HIDE DEF q1
  <1>4. Reaches(q1, q2, t, "chunk", s)
    <2>1. IsReader(q1) /\ q1.want = "chunklen" /\ q1.tid = t /\ q1.state[t] = s
      BY <1>3 DEF Reaches
    <2> HIDE DEF s
    <2> QED
      BY <1>1, <2>1, DecodePiece
  <1> HIDE DEF q2
  <1>5. Reaches(q2, q3, t, "packet", [s EXCEPT !.data = s.data \o v])
    <2>1. IsReader(q2) /\ q2.want = "chunk" /\ q2.tid = t /\ q2.state[t] = s /\ s.cur_stream # "ignore"
      BY <1>2, <1>4 DEF Reaches
    <2> HIDE DEF s
    <2> QED
      BY <1>1, <2>1, DecodePiece
  <1> HIDE DEF q3
  <1>6. Reaches(q, q3, t, "packet", [s EXCEPT !.data = s.data \o v])
    BY <1>3, <1>4, <1>5, ReachesOn
  <1>7. IsState(s)
    BY <1>2 DEF IsReader
  <1>8. InStream(r, q3, t, d \o v)
    <2>1. /\ q.out = r.out /\ \A u \in Threads \ {t} : q.state[u] = r.state[u]
          /\ s.module = r.state[t].module /\ s.events = r.state[t].events
          /\ s.cur_type = r.state[t].cur_type /\ s.cur_code = r.state[t].cur_code
          /\ s.cur_stream = r.state[t].cur_stream
          /\ r.state[t].data = << >> => s.data = d
      BY DEF InStream
    <2> HIDE DEF s
    <2> DEFINE x == [s EXCEPT !.data = s.data \o v]
    <2>2. /\ x.module = s.module /\ x.events = s.events /\ x.cur_type = s.cur_type
          /\ x.cur_code = s.cur_code /\ x.cur_stream = s.cur_stream /\ x.data = s.data \o v
      BY <1>7 DEF IsState
    <2> HIDE DEF x
    <2>3. /\ IsReader(q3) /\ q3.want = "packet" /\ q3.out = q.out /\ q3.state[t] = x
          /\ \A u \in Threads \ {t} : q3.state[u] = q.state[u]
      BY <1>6 DEF Reaches, x
    <2> QED
      BY <2>1, <2>2, <2>3 DEF InStream
  <1> QED
    BY <1>8 DEF q3, q2, q1, k1, k2, k3

\* From r to p, a stream of t has been read to its end.
Streamed(r, p, t, d) ==
    /\ IsReader(p) /\ p.want = "packet" /\ p.out = r.out
    /\ \A u \in Threads \ {t} : p.state[u] = r.state[u]
    /\ p.state[t].module = r.state[t].module /\ p.state[t].cur_stream = "none"
    /\ p.state[t].events =
          IF r.state[t].cur_type = "data"
          THEN Append(r.state[t].events,
                      [type |-> "data", code |-> r.state[t].cur_code, val |-> d])
          ELSE r.state[t].events

LEMMA EndReads ==
    ASSUME NEW r, NEW q, NEW t \in Threads, NEW d,
           r.state[t].cur_stream \in {"memory", "disk"},
           r.state[t].cur_type = "data" => r.state[t].data = << >>,
           InStream(r, q, t, d)
    PROVE  Streamed(r, Decode(Decode(q, Token(t, "tid", "none", t)), Length(t, 0)), t, d)
  <1> DEFINE k1 == Token(t, "tid", "none", t)  k2 == Length(t, 0)
             q1 == Decode(q, k1)  q2 == Decode(q1, k2)
             s == q.state[t]
  <1>1. /\ IsToken(k1) /\ k1.by = t /\ k1.kind = "tid"
        /\ IsToken(k2) /\ k2.kind = "len" /\ k2.val = 0
    BY DEF Length, Token, IsToken
  <1> HIDE DEF k1, k2
  <1>2. IsReader(q) /\ q.want = "packet" /\ s.cur_stream \in {"memory", "disk"}
    BY DEF InStream
  <1>3. Reaches(q, q1, t, "chunklen", s)
    BY <1>1, <1>2, DecodeTid
  <1> HIDE DEF q1
  <1>4. Reaches(q1, q2, t, "packet", R!EndStream(s))
    <2>1. IsReader(q1) /\ q1.want = "chunklen" /\ q1.tid = t /\ q1.state[t] = s
      BY <1>3 DEF Reaches
    <2> HIDE DEF s
    <2> QED
      BY <1>1, <2>1, DecodePiece
  <1> HIDE DEF q2
  <1>5. Reaches(q, q2, t, "packet", R!EndStream(s))
    BY <1>3, <1>4, ReachesOn
  <1>6. IsState(s)
    BY <1>2 DEF IsReader
  <1> HIDE DEF s
  <1>7. LET e == R!EndStream(s)
        IN  /\ e.module = s.module /\ e.cur_stream = "none"
            /\ e.events = IF s.cur_type = "data"
                          THEN Append(s.events, [type |-> "data", code |-> s.cur_code, val |-> s.data])
                          ELSE s.events
    BY <1>6 DEF R!EndStream, R!AddEvent, IsState
  <1>8. /\ IsReader(q2) /\ q2.want = "packet" /\ q2.out = q.out /\ q2.state[t] = R!EndStream(s)
        /\ \A u \in Threads \ {t} : q2.state[u] = q.state[u]
    BY <1>5 DEF Reaches
  <1>9. /\ q.out = r.out
        /\ \A u \in Threads \ {t} : q.state[u] = r.state[u]
        /\ s.module = r.state[t].module /\ s.events = r.state[t].events
        /\ s.cur_type = r.state[t].cur_type /\ s.cur_code = r.state[t].cur_code
        /\ r.state[t].cur_type = "data" => s.data = d
    BY DEF InStream, s
  <1>10. /\ IsReader(q2) /\ q2.want = "packet" /\ q2.out = r.out
         /\ \A u \in Threads \ {t} : q2.state[u] = r.state[u]
         /\ q2.state[t].module = r.state[t].module /\ q2.state[t].cur_stream = "none"
    BY <1>7, <1>8, <1>9
  <1>11. q2.state[t].events =
            IF r.state[t].cur_type = "data"
            THEN Append(r.state[t].events, [type |-> "data", code |-> r.state[t].cur_code, val |-> d])
            ELSE r.state[t].events
    BY <1>7, <1>8, <1>9
  <1>12. Streamed(r, q2, t, d)
    BY <1>10, <1>11 DEF Streamed
  <1> QED
    BY <1>12 DEF q2, q1, k1, k2

\* A stream is read to its end, and a data event has the bytes it was given.
LEMMA StreamReads ==
    ASSUME NEW r, NEW t \in Threads, NEW data \in Seq(Nat), IsReader(r), r.want = "packet",
           r.state[t].cur_stream \in {"memory", "disk"},
           r.state[t].cur_type = "data" => r.state[t].data = << >>
    PROVE  Streamed(r, ReadAll(r, Stream(t, data)), t, data)
  <1> DEFINE n == NumChunks(data)  w == Stream(t, data)  a == DOMAIN w
  <1>1. n \in Nat /\ 3 * n + 2 \in Nat /\ Len(w) = 3 * n + 2 /\ a = 1 .. 3 * n + 2
    BY ChunkBounds, StreamShape
  <1> HIDE DEF n, a, w
  <1>2. PICK f : Run(f, r, w, a, 3 * n + 2) /\ ReadSome(r, w, a) = f[3 * n + 2]
    BY <1>1, ReadIsRun
  <1>3. f[0] = r /\ \A m \in 1 .. 3 * n + 2 : f[m] = Decode(f[m - 1], w[m])
    BY <1>1, <1>2, RunValues
  <1>4. \A c \in 0 .. n : InStream(r, f[3 * c], t, Upto(data, c))
    <2> DEFINE T == {c \in 0 .. n : ~InStream(r, f[3 * c], t, Upto(data, c))}
    <2> SUFFICES ASSUME T # {} PROVE FALSE
      OBVIOUS
    <2>1. T \subseteq Nat
      BY <1>1
    <2>2. PICK c \in T : \A x \in T : c <= x
      BY <2>1, LeastNumber
    <2>3. c \in 0 .. n /\ ~InStream(r, f[3 * c], t, Upto(data, c))
      OBVIOUS
    <2>4. CASE c = 0
      <3>1. f[3 * 0] = r /\ Upto(data, 0) = << >>
        BY <1>3, ChunksAll
      <3>2. InStream(r, r, t, << >>)
        BY DEF InStream
      <3> QED
        BY <2>3, <2>4, <3>1, <3>2
    <2>5. CASE c # 0
      <3> DEFINE b == c - 1
      <3>1. b \in 0 .. n /\ b \notin T /\ b < n /\ b + 1 = c /\ c \in 1 .. n /\ c - 1 = b
        BY <1>1, <2>2, <2>3, <2>5
      <3>2. InStream(r, f[3 * b], t, Upto(data, b))
        BY <3>1
      <3> HIDE DEF b, T
      <3>3. /\ w[3 * b + 1] = Token(t, "tid", "none", t)
            /\ w[3 * b + 2] = Length(t, Len(Chunk(data, c)))
            /\ w[3 * b + 3] = Bytes(t, Chunk(data, c))
        BY <3>1, StreamPieces DEF n, w
      <3>4. /\ 3 * b + 1 \in 1 .. 3 * n + 2 /\ 3 * b + 2 \in 1 .. 3 * n + 2 /\ 3 * b + 3 \in 1 .. 3 * n + 2
            /\ (3 * b + 1) - 1 = 3 * b /\ (3 * b + 2) - 1 = 3 * b + 1 /\ (3 * b + 3) - 1 = 3 * b + 2
            /\ 3 * c = 3 * b + 3
        BY <1>1, <3>1
      <3>5. /\ f[3 * b + 1] = Decode(f[3 * b], w[3 * b + 1])
            /\ f[3 * b + 2] = Decode(f[3 * b + 1], w[3 * b + 2])
            /\ f[3 * c] = Decode(f[3 * b + 2], w[3 * b + 3])
        BY <1>3, <3>4
      <3>6. Len(Chunk(data, c)) # 0 /\ Upto(data, b) \o Chunk(data, c) = Upto(data, c)
        BY <3>1, ChunksJoin DEF n
      <3>7. InStream(r, f[3 * c], t, Upto(data, b) \o Chunk(data, c))
        <4> DEFINE q == f[3 * b]  d == Upto(data, b)  v == Chunk(data, c)  m == Len(v)  p == f[3 * c]
        <4>1. p = Decode(Decode(Decode(q, Token(t, "tid", "none", t)), Length(t, m)), Bytes(t, v))
          BY <3>3, <3>5
        <4>2. InStream(r, q, t, d) /\ m # 0
          BY <3>2, <3>6
        <4> HIDE DEF q, d, v, m, p
        <4>3. InStream(r, p, t, d \o v)
          BY <4>1, <4>2, ChunkReads
        <4> QED
          BY <4>3 DEF d, v, p
      <3> QED
        BY <2>3, <3>6, <3>7
    <2> QED
      BY <2>4, <2>5
  <1>5. InStream(r, f[3 * n], t, data)
    BY <1>1, <1>4, ChunksAll DEF n
  <1>6. w[3 * n + 1] = Token(t, "tid", "none", t) /\ w[3 * n + 2] = Length(t, 0)
    BY <1>1, StreamPieces DEF n, w
  <1>7. /\ 3 * n + 1 \in 1 .. 3 * n + 2 /\ 3 * n + 2 \in 1 .. 3 * n + 2
        /\ (3 * n + 1) - 1 = 3 * n /\ (3 * n + 2) - 1 = 3 * n + 1
    BY <1>1
  <1>8. f[3 * n + 1] = Decode(f[3 * n], w[3 * n + 1]) /\ f[3 * n + 2] = Decode(f[3 * n + 1], w[3 * n + 2])
    BY <1>3, <1>7
  <1>9. ReadAll(r, w) = Decode(Decode(f[3 * n], Token(t, "tid", "none", t)), Length(t, 0))
    BY <1>2, <1>6, <1>8 DEF ReadAll, a
  <1> DEFINE q == f[3 * n]
  <1>10. InStream(r, q, t, data)
    BY <1>5
  <1>11. ReadAll(r, w) = Decode(Decode(q, Token(t, "tid", "none", t)), Length(t, 0))
    BY <1>9
  <1> HIDE DEF q
  <1>12. Streamed(r, Decode(Decode(q, Token(t, "tid", "none", t)), Length(t, 0)), t, data)
    BY <1>10, EndReads
  <1> QED
    BY <1>11, <1>12, Zenon DEF w

-----------------------------------------------------------------------------
(* The calls: what a thread writes for one is read as what it says.        *)

\* Between two packets, and no thread is inside a stream.
Calm(r) ==
    /\ IsReader(r) /\ r.want = "packet"
    /\ \A u \in Threads : r.state[u].cur_stream = "none"

\* From r to q, t has told the reader of one event.
Told(r, q, t, e) ==
    /\ Calm(q) /\ q.out = r.out
    /\ \A u \in Threads \ {t} : q.state[u] = r.state[u]
    /\ q.state[t].module = r.state[t].module
    /\ q.state[t].events = Append(r.state[t].events, e)

EventOps == {"bit", "str", "data", "file", "int32", "int64", "defer_str"}

IsCall(c) ==
    \/ c.op \in {"head", "code", "bit", "str", "defer_str", "int32", "int64"}
    \/ c.op = "data" /\ c.val \in Seq(Nat)
    \/ c.op = "file" /\ c.val.data \in Seq(Nat)

\* The tokens of an event, and what it says.
Written(t, c, n) == << Header(t, TypeOf(c), n) >> \o Body(t, c)

Meant(c, n) ==
    [type |-> TypeOf(c), code |-> n,
     val |-> CASE c.op = "bit"  -> TRUE
               [] c.op = "file" -> c.val.name
               [] OTHER         -> c.val]

LEMMA PairIsSeq ==
    ASSUME NEW a, NEW b
    PROVE  /\ IsSeq(<<a, b>>) /\ Len(<<a, b>>) = 2 /\ <<a, b>>[1] = a /\ <<a, b>>[2] = b
           /\ <<a, b>> = <<a>> \o <<b>>
  <1> DEFINE s == <<a>>  u == <<b>>  v == <<a, b>>
  <1>1. IsSeq(s) /\ IsSeq(u)
    BY SeqOne
  <1>2. Len(v) = 2 /\ v[1] = a /\ v[2] = b /\ v \in Seq({a, b})
    OBVIOUS
  <1>3. Len(s) = 1 /\ s[1] = a /\ Len(u) = 1 /\ u[1] = b
    OBVIOUS
  <1>4. IsSeq(v)
    BY <1>2, SeqIsSeq
  <1> HIDE DEF s, u, v
  <1>5. /\ IsSeq(s \o u) /\ Len(s \o u) = Len(s) + Len(u)
        /\ \A i \in 1 .. Len(s) : (s \o u)[i] = s[i]
        /\ \A i \in 1 .. Len(u) : (s \o u)[Len(s) + i] = u[i]
    BY <1>1, SeqJoin
  <1>6. Len(s \o u) = 2 /\ (s \o u)[1] = a /\ (s \o u)[1 + 1] = b
    BY <1>3, <1>5
  <1>7. v = s \o u
    BY <1>2, <1>4, <1>5, <1>6, SeqEq
  <1> QED
    BY <1>2, <1>4, <1>7 DEF v, s, u

LEMMA ReadPair ==
    ASSUME NEW r, NEW a, NEW b
    PROVE  ReadAll(r, <<a, b>>) = Decode(Decode(r, a), b)
  <1> DEFINE s == <<a>>  u == <<b>>
  <1>1. IsSeq(s) /\ IsSeq(u) /\ <<a, b>> = s \o u
    BY SeqOne, PairIsSeq
  <1>2. ReadAll(r, s) = Decode(r, a) /\ ReadAll(Decode(r, a), u) = Decode(Decode(r, a), b)
    BY ReadOne, Zenon
  <1> HIDE DEF s, u
  <1>3. ReadAll(r, s \o u) = ReadAll(ReadAll(r, s), u)
    BY <1>1, ReadTwice
  <1> QED
    BY <1>1, <1>2, <1>3

LEMMA BodyIsSeq ==
    ASSUME NEW t \in Threads, NEW c, IsCall(c), c.op \in EventOps
    PROVE  IsSeq(Body(t, c))
  <1>1. CASE c.op \in {"str", "defer_str"}
    BY <1>1, PairIsSeq DEF Body, StrBody
  <1>2. CASE c.op = "bit"
    BY <1>2, SeqOne DEF Body
  <1>3. CASE c.op \in {"int32", "int64"}
    BY <1>3, SeqOne DEF Body
  <1>4. CASE c.op = "data"
    <2>1. IsSeq(Stream(t, c.val))
      BY <1>4, StreamShape DEF IsCall
    <2> QED
      BY <1>4, <2>1 DEF Body
  <1>5. CASE c.op = "file"
    <2>1. IsSeq(Stream(t, c.val.data))
      BY <1>5, StreamShape DEF IsCall
    <2>2. IsSeq(StrBody(t, c.val.name))
      BY PairIsSeq DEF StrBody
    <2>3. Body(t, c) = StrBody(t, c.val.name) \o Stream(t, c.val.data)
      BY <1>5 DEF Body
    <2> QED
      BY <2>1, <2>2, <2>3, SeqJoin
  <1> QED
    BY <1>1, <1>2, <1>3, <1>4, <1>5 DEF EventOps

\* The header first.
LEMMA WrittenReads ==
    ASSUME NEW r, NEW t \in Threads, NEW c, NEW n, IsCall(c), c.op \in EventOps
    PROVE  /\ IsSeq(Written(t, c, n)) /\ Written(t, c, n) # << >>
           /\ Head(Written(t, c, n)) = Header(t, TypeOf(c), n)
           /\ Tail(Written(t, c, n)) = Body(t, c)
           /\ ReadAll(r, Written(t, c, n)) = ReadAll(Decode(r, Header(t, TypeOf(c), n)), Body(t, c))
  <1> DEFINE h == Header(t, TypeOf(c), n)  b == Body(t, c)  a == <<h>>  w == a \o b
  <1>1. IsSeq(b) /\ IsSeq(a) /\ Len(a) = 1 /\ a[1] = h
    BY BodyIsSeq, SeqOne
  <1>2. ReadAll(r, a) = Decode(r, h)
    BY ReadOne, Zenon
  <1> HIDE DEF h, b, a
  <1>3. Len(b) \in Nat
    BY <1>1, SeqLen
  <1>4. /\ IsSeq(w) /\ Len(w) = 1 + Len(b) /\ w[1] = h
        /\ \A i \in 1 .. Len(b) : w[1 + i] = b[i]
    <2>1. /\ IsSeq(w) /\ Len(w) = Len(a) + Len(b)
          /\ \A i \in 1 .. Len(a) : w[i] = a[i]
          /\ \A i \in 1 .. Len(b) : w[Len(a) + i] = b[i]
      <3>1. IsSeq(a) /\ IsSeq(b)
        BY <1>1
      <3> QED
        BY <3>1, SeqJoin
    <2> HIDE DEF w
    <2> QED
      BY <1>1, <2>1
  <1>5. ReadAll(r, w) = ReadAll(Decode(r, h), b)
    BY <1>1, <1>2, ReadTwice
  <1> HIDE DEF w
  <1>6. w # << >>
    BY <1>3, <1>4, SeqOne
  <1>7. Head(w) = h /\ IsSeq(Tail(w)) /\ Len(Tail(w)) = Len(b)
    <2>1. Head(w) = w[1] /\ IsSeq(Tail(w)) /\ Len(Tail(w)) = Len(w) - 1
      BY <1>4, <1>6, SeqTail
    <2> QED
      BY <1>3, <1>4, <2>1
  <1>8. \A i \in 1 .. Len(b) : Tail(w)[i] = b[i]
    <2>1. \A i \in 1 .. Len(b) : Tail(w)[i] = w[i + 1]
      BY <1>4, <1>6, <1>7, SeqTail
    <2> QED
      BY <1>3, <1>4, <2>1
  <1>9. Tail(w) = b
    BY <1>1, <1>7, <1>8, SeqEq
  <1> QED
    BY <1>4, <1>5, <1>6, <1>7, <1>9 DEF w, a, b, h, Written

\* A string, and the name of a file.
LEMMA StrReads ==
    ASSUME NEW r, NEW t \in Threads, NEW v, NEW s, IsReader(r), r.tid = t, r.state[t] = s
    PROVE  /\ r.want = "strlen" =>
                 Reaches(r, ReadAll(r, StrBody(t, v)), t, "packet", R!AddEvent(s, "str", s.cur_code, v))
           /\ r.want = "filelen" =>
                 Reaches(r, ReadAll(r, StrBody(t, v)), t, "packet",
                         R!AddEvent([s EXCEPT !.cur_stream = "disk"], "file", s.cur_code, v))
  <1> DEFINE a == Length(t, 1)  b == Bytes(t, v)  q == Decode(r, a)  p == Decode(q, b)
  <1>1. a.kind = "len" /\ b.kind = "raw" /\ b.val = v
    BY DEF Length, Bytes, Token
  <1>a. StrBody(t, v) = <<a, b>>
    BY DEF StrBody
  <1> HIDE DEF a, b
  <1>2. ReadAll(r, StrBody(t, v)) = p
    <2>1. \A x, y : ReadAll(r, <<x, y>>) = Decode(Decode(r, x), y)
      BY ReadPair, Zenon
    <2>2. ReadAll(r, <<a, b>>) = Decode(Decode(r, a), b)
      BY <2>1, Zenon
    <2> QED
      BY <1>a, <2>2, Zenon
  <1>3. ASSUME r.want = "strlen"
        PROVE  Reaches(r, p, t, "packet", R!AddEvent(s, "str", s.cur_code, v))
    <2>1. Reaches(r, q, t, "str", s)
      BY <1>1, <1>3, DecodePiece
    <2> HIDE DEF q
    <2>2. IsReader(q) /\ q.want = "str" /\ q.tid = t /\ q.state[t] = s
      BY <2>1 DEF Reaches
    <2>3. Reaches(q, p, t, "packet", R!AddEvent(s, "str", s.cur_code, v))
      BY <1>1, <2>2, DecodePiece
    <2> QED
      BY <2>1, <2>3, ReachesOn
  <1>4. ASSUME r.want = "filelen"
        PROVE  Reaches(r, p, t, "packet",
                       R!AddEvent([s EXCEPT !.cur_stream = "disk"], "file", s.cur_code, v))
    <2>1. Reaches(r, q, t, "filename", s)
      BY <1>1, <1>4, DecodePiece
    <2> HIDE DEF q
    <2>2. IsReader(q) /\ q.want = "filename" /\ q.tid = t /\ q.state[t] = s
      BY <2>1 DEF Reaches
    <2>3. Reaches(q, p, t, "packet",
                  R!AddEvent([s EXCEPT !.cur_stream = "disk"], "file", s.cur_code, v))
      BY <1>1, <2>2, DecodePiece
    <2> QED
      BY <2>1, <2>3, ReachesOn
  <1> HIDE DEF p
  <1> QED
    BY <1>2, <1>3, <1>4

\* From r to q, the header of an event of t has been read.
HeaderRead(r, q, t, type, n, s, x) ==
    /\ IsReader(q) /\ q.tid = t /\ q.out = r.out
    /\ q.want = (CASE type = "str" -> "strlen"
                   [] type \in {"int32", "int64"} -> "int"
                   [] type = "file" -> "filelen"
                   [] OTHER -> "packet")
    /\ \A u \in Threads \ {t} : q.state[u] = r.state[u]
    /\ IsState(x) /\ x.module = s.module /\ x.cur_type = type /\ x.cur_code = n
    /\ x.cur_stream = (CASE type = "data" -> "memory"
                         [] type = "file" -> "ignore"
                         [] OTHER -> "none")
    /\ x.events = IF type = "bit"
                  THEN Append(s.events, [type |-> "bit", code |-> n, val |-> TRUE])
                  ELSE s.events
    /\ type = "data" => x.data = << >>

LEMMA HeaderReads ==
    ASSUME NEW r, NEW t \in Threads, NEW type, NEW n, Calm(r),
           type \in {"bit", "str", "int32", "int64", "data", "file"}
    PROVE  LET q == Decode(r, Header(t, type, n))
           IN  HeaderRead(r, q, t, type, n, r.state[t], q.state[t])
  <1> DEFINE k == Header(t, type, n)  s == r.state[t]  x == R!Entered(s, k)  q == Decode(r, k)
  <1>1. IsToken(k) /\ k.by = t /\ k.kind = "hdr" /\ k.type = type /\ k.val = n
    BY DEF Header, Token, IsToken
  <1> HIDE DEF k
  <1>2. IsState(s) /\ s.cur_stream = "none" /\ IsReader(r) /\ r.want = "packet"
    BY DEF Calm, IsReader
  <1> HIDE DEF s
  <1>3. /\ IsState(x) /\ x.module = s.module /\ x.cur_type = type /\ x.cur_code = n
        /\ x.cur_stream = (CASE type = "data" -> "memory"
                             [] type = "file" -> "ignore"
                             [] OTHER -> "none")
        /\ x.events = IF type = "bit"
                      THEN Append(s.events, [type |-> "bit", code |-> n, val |-> TRUE])
                      ELSE s.events
        /\ type = "data" => x.data = << >>
    <2> DEFINE y == [s EXCEPT !.cur_type = k.type, !.cur_code = k.val]
    <2>1. /\ IsState(y) /\ y.module = s.module /\ y.cur_type = type /\ y.cur_code = n
          /\ y.cur_stream = "none" /\ y.events = s.events
      BY <1>1, <1>2 DEF IsState
    <2> HIDE DEF y
    <2>2. /\ type = "bit" => x = R!AddEvent(y, "bit", n, TRUE)
          /\ type = "data" => x = [y EXCEPT !.cur_stream = "memory", !.data = << >>]
          /\ type = "file" => x = [y EXCEPT !.cur_stream = "ignore"]
          /\ type \in {"str", "int32", "int64"} => x = y
      BY <1>1 DEF R!Entered, y
    <2> HIDE DEF x
    <2>3. CASE type = "bit"
      <3>1. x = [y EXCEPT !.events = Append(y.events, [type |-> "bit", code |-> n, val |-> TRUE])]
        BY <2>2, <2>3 DEF R!AddEvent
      <3> QED
        BY <2>1, <2>3, <3>1 DEF IsState
    <2>4. CASE type = "data"
      BY <2>1, <2>2, <2>4 DEF IsState
    <2>5. CASE type = "file"
      BY <2>1, <2>2, <2>5 DEF IsState
    <2>6. CASE type \in {"str", "int32", "int64"}
      BY <2>1, <2>2, <2>6
    <2> QED
      BY <2>3, <2>4, <2>5, <2>6
  <1> HIDE DEF x
  <1>4. Reaches(r, q, t, R!After(type), x)
    <2>1. IsState(R!Entered(r.state[k.by], k)) /\ r.state[k.by].cur_stream = "none"
      BY <1>1, <1>2, <1>3 DEF x, s
    <2>2. Reaches(r, q, k.by, R!After(k.type), R!Entered(r.state[k.by], k))
      BY <1>1, <1>2, <2>1, DecodeHeader
    <2> QED
      BY <1>1, <2>2 DEF x, s
  <1>5. R!After(type) = (CASE type = "str" -> "strlen"
                           [] type \in {"int32", "int64"} -> "int"
                           [] type = "file" -> "filelen"
                           [] OTHER -> "packet")
    BY DEF R!After
  <1> HIDE DEF q
  <1>6. /\ IsReader(q) /\ q.tid = t /\ q.out = r.out /\ q.want = R!After(type)
        /\ \A u \in Threads \ {t} : q.state[u] = r.state[u]
        /\ q.state[t] = x
    BY <1>4 DEF Reaches
  <1>7. HeaderRead(r, q, t, type, n, s, x)
    BY <1>3, <1>5, <1>6 DEF HeaderRead
  <1> QED
    BY <1>6, <1>7 DEF q, k, s

LEMMA EventReads ==
    ASSUME NEW r, NEW t \in Threads, NEW c, NEW n, Calm(r), IsCall(c), c.op \in EventOps
    PROVE  Told(r, ReadAll(r, Written(t, c, n)), t, Meant(c, n))
  <1> DEFINE h == Header(t, TypeOf(c), n)  b == Body(t, c)  q == Decode(r, h)
             p == ReadAll(q, b)  s == r.state[t]  x == q.state[t]
  <1>1. ReadAll(r, Written(t, c, n)) = p
    BY WrittenReads
  <1> SUFFICES Told(r, p, t, Meant(c, n))
    <2> HIDE DEF p
    <2> QED
      BY <1>1
  <1>2. TypeOf(c) \in {"bit", "str", "int32", "int64", "data", "file"}
    BY DEF TypeOf, EventOps
  <1>a. HeaderRead(r, q, t, TypeOf(c), n, s, x)
    BY <1>2, HeaderReads
  <1>3. /\ IsReader(q) /\ q.tid = t /\ q.out = r.out
        /\ \A u \in Threads \ {t} : q.state[u] = r.state[u]
        /\ IsState(x) /\ x.module = s.module /\ x.cur_type = TypeOf(c) /\ x.cur_code = n
    BY <1>a DEF HeaderRead
  <1>4. /\ q.want = (CASE TypeOf(c) = "str" -> "strlen"
                       [] TypeOf(c) \in {"int32", "int64"} -> "int"
                       [] TypeOf(c) = "file" -> "filelen"
                       [] OTHER -> "packet")
        /\ x.cur_stream = (CASE TypeOf(c) = "data" -> "memory"
                             [] TypeOf(c) = "file" -> "ignore"
                             [] OTHER -> "none")
        /\ x.events = IF TypeOf(c) = "bit"
                      THEN Append(s.events, [type |-> "bit", code |-> n, val |-> TRUE])
                      ELSE s.events
        /\ TypeOf(c) = "data" => x.data = << >>
    BY <1>a DEF HeaderRead
  <1>5. \A u \in Threads : r.state[u].cur_stream = "none"
    BY DEF Calm
  <1>6. ASSUME NEW y, Reaches(q, p, t, "packet", y), y.cur_stream = "none", y.module = s.module,
               y.events = Append(s.events, Meant(c, n))
        PROVE  Told(r, p, t, Meant(c, n))
    <2>1. /\ IsReader(p) /\ p.want = "packet" /\ p.out = q.out /\ p.state[t] = y
          /\ \A u \in Threads \ {t} : p.state[u] = q.state[u]
      BY <1>6 DEF Reaches
    <2>2. /\ p.out = r.out /\ \A u \in Threads \ {t} : p.state[u] = r.state[u]
      BY <1>3, <2>1
    <2> HIDE DEF p, q, x
    <2>3. \A u \in Threads : p.state[u].cur_stream = "none"
      BY <1>5, <1>6, <2>1, <2>2
    <2> QED
      BY <1>6, <2>1, <2>2, <2>3 DEF Told, Calm
  <1>7. CASE c.op = "bit"
    <2>1. TypeOf(c) = "bit" /\ b = << >> /\ Meant(c, n) = [type |-> "bit", code |-> n, val |-> TRUE]
      BY <1>7 DEF TypeOf, Body, Meant
    <2>2. p = q
      <3>1. Len(b) = 0
        BY <2>1
      <3> HIDE DEF q, b
      <3> QED
        BY <3>1, ReadNothing
    <2>3. q.want = "packet" /\ x.cur_stream = "none" /\ x.events = Append(s.events, Meant(c, n))
      BY <1>4, <2>1
    <2>4. Reaches(q, p, t, "packet", x)
      <3> HIDE DEF p, q
      <3> QED
        BY <1>3, <2>2, <2>3 DEF Reaches
    <2> HIDE DEF p, q, x, s
    <2> QED
      BY <1>3, <1>6, <2>3, <2>4
  <1>8. CASE c.op \in {"str", "defer_str"}
    <2> DEFINE e == [type |-> "str", code |-> n, val |-> c.val]
               y == R!AddEvent(x, "str", x.cur_code, c.val)
    <2>1. TypeOf(c) = "str" /\ b = StrBody(t, c.val) /\ Meant(c, n) = e
      BY <1>8 DEF TypeOf, Body, Meant
    <2>2. q.want = "strlen" /\ x.cur_stream = "none" /\ x.events = s.events
      BY <1>4, <2>1
    <2>3. Reaches(q, p, t, "packet", y)
      <3> HIDE DEF q
      <3> QED
        BY <1>3, <2>1, <2>2, StrReads
    <2> HIDE DEF p, q, x, s
    <2>4. y.cur_stream = x.cur_stream /\ y.module = x.module
          /\ y.events = Append(x.events, [type |-> "str", code |-> x.cur_code, val |-> c.val])
      BY <1>3 DEF IsState, R!AddEvent
    <2> HIDE DEF y
    <2>5. y.events = Append(s.events, Meant(c, n))
      BY <1>3, <2>1, <2>2, <2>4
    <2> QED
      BY <1>3, <1>6, <2>2, <2>3, <2>4, <2>5
  <1>9. CASE c.op \in {"int32", "int64"}
    <2> DEFINE k == Token(t, "int", c.op, c.val)
               y == R!AddEvent(x, x.cur_type, x.cur_code, c.val)
    <2>1. /\ TypeOf(c) = c.op /\ b = <<k>>
          /\ Meant(c, n) = [type |-> c.op, code |-> n, val |-> c.val]
      BY <1>9 DEF TypeOf, Body, Meant
    <2>2. q.want = "int" /\ x.cur_stream = "none" /\ x.events = s.events
      BY <1>4, <1>9, <2>1
    <2>3. k.kind = "int" /\ k.val = c.val
      BY DEF Token
    <2>4. p = Decode(q, k)
      BY <2>1, ReadOne, Zenon
    <2> HIDE DEF k, q
    <2>5. Reaches(q, p, t, "packet", y)
      <3> HIDE DEF p
      <3> QED
        BY <1>3, <2>2, <2>3, <2>4, DecodePiece
    <2> HIDE DEF p, x, s
    <2>6. y.cur_stream = x.cur_stream /\ y.module = x.module
          /\ y.events = Append(x.events, [type |-> x.cur_type, code |-> x.cur_code, val |-> c.val])
      BY <1>3 DEF IsState, R!AddEvent
    <2> HIDE DEF y
    <2>7. y.events = Append(s.events, Meant(c, n))
      BY <1>3, <2>1, <2>2, <2>6
    <2> QED
      BY <1>3, <1>6, <2>2, <2>5, <2>6, <2>7
  <1>10. CASE c.op = "data"
    <2>1. /\ TypeOf(c) = "data" /\ b = Stream(t, c.val) /\ c.val \in Seq(Nat)
          /\ Meant(c, n) = [type |-> "data", code |-> n, val |-> c.val]
      BY <1>10 DEF TypeOf, Body, Meant, IsCall
    <2>2. /\ q.want = "packet" /\ x.cur_stream = "memory" /\ x.events = s.events /\ x.data = << >>
      BY <1>4, <2>1
    <2> HIDE DEF q
    <2>3. /\ IsReader(p) /\ p.want = "packet" /\ p.out = q.out
          /\ \A u \in Threads \ {t} : p.state[u] = q.state[u]
          /\ p.state[t].module = x.module /\ p.state[t].cur_stream = "none"
          /\ p.state[t].events =
                Append(x.events, [type |-> "data", code |-> x.cur_code, val |-> c.val])
      <3> DEFINE v == c.val
      <3>1. v \in Seq(Nat) /\ b = Stream(t, v)
        BY <2>1
      <3>2. q.state[t].cur_type = "data"
        BY <1>3, <2>1
      <3> HIDE DEF b
      <3>3. p = ReadAll(q, Stream(t, v))
        BY <3>1
      <3> HIDE DEF p, v
      <3> QED
        <4>1. Streamed(q, p, t, v)
          BY <1>3, <2>2, <3>1, <3>3, StreamReads
        <4> QED
          BY <3>2, <4>1 DEF Streamed, v
    <2> HIDE DEF p, x, s
    <2>4. \A u \in Threads : p.state[u].cur_stream = "none"
      BY <1>3, <1>5, <2>3
    <2> QED
      BY <1>3, <2>1, <2>2, <2>3, <2>4 DEF Told, Calm, s
  <1>11. CASE c.op = "file"
    <2> DEFINE d == c.val.data  m == c.val.name  bs == StrBody(t, m)  bd == Stream(t, d)
               y == R!AddEvent([x EXCEPT !.cur_stream = "disk"], "file", x.cur_code, m)
               o == ReadAll(q, bs)
    <2>1. /\ TypeOf(c) = "file" /\ b = bs \o bd /\ d \in Seq(Nat)
          /\ Meant(c, n) = [type |-> "file", code |-> n, val |-> m]
      BY <1>11 DEF TypeOf, Body, Meant, IsCall
    <2>2. q.want = "filelen" /\ x.events = s.events
      BY <1>4, <2>1
    <2> HIDE DEF q
    <2>3. IsSeq(bs) /\ IsSeq(bd)
      BY <2>1, PairIsSeq, StreamShape DEF StrBody
    <2>4. p = ReadAll(o, bd)
      <3> HIDE DEF bs, bd
      <3> QED
        BY <2>1, <2>3, ReadTwice
    <2>5. Reaches(q, o, t, "packet", y)
      BY <1>3, <2>2, StrReads
    <2> HIDE DEF o, p, x, s
    <2>6. /\ y.module = x.module /\ y.cur_stream = "disk" /\ y.cur_type = x.cur_type
          /\ y.events = Append(x.events, [type |-> "file", code |-> x.cur_code, val |-> m])
      BY <1>3 DEF IsState, R!AddEvent
    <2> HIDE DEF y, m, d
    <2>7. /\ IsReader(o) /\ o.want = "packet" /\ o.out = q.out /\ o.state[t] = y
          /\ \A u \in Threads \ {t} : o.state[u] = q.state[u]
      BY <2>5 DEF Reaches
    <2>8. o.state[t].cur_type # "data"
      BY <1>3, <2>1, <2>6, <2>7
    <2>a. o.state[t].cur_stream \in {"memory", "disk"}
      BY <2>6, <2>7
    <2>b. p = ReadAll(o, Stream(t, d))
      BY <2>4
    <2>9. /\ IsReader(p) /\ p.want = "packet" /\ p.out = o.out
          /\ \A u \in Threads \ {t} : p.state[u] = o.state[u]
          /\ p.state[t].module = o.state[t].module /\ p.state[t].cur_stream = "none"
          /\ p.state[t].events = o.state[t].events
      <3>1. Streamed(o, p, t, d)
        BY <2>1, <2>7, <2>8, <2>a, <2>b, StreamReads
      <3> QED
        BY <2>8, <3>1 DEF Streamed
    <2>10. \A u \in Threads : p.state[u].cur_stream = "none"
      BY <1>3, <1>5, <2>7, <2>9
    <2>11. p.state[t].events = Append(s.events, Meant(c, n))
      BY <1>3, <2>1, <2>2, <2>6, <2>7, <2>9
    <2>12. p.state[t].module = s.module /\ p.out = r.out
      BY <1>3, <2>6, <2>7, <2>9
    <2>13. \A u \in Threads \ {t} : p.state[u] = r.state[u]
      BY <1>3, <2>7, <2>9
    <2> QED
      BY <2>9, <2>10, <2>11, <2>12, <2>13 DEF Told, Calm, s
  <1> QED
    BY <1>7, <1>8, <1>9, <1>10, <1>11 DEF EventOps

\* A head closes the entry before it and opens one of its own.
HeadTokens(t, n, m) == << Header(t, "head", n), Token(t, "name", "none", m) >>

HeadRead(r, q, t, m) ==
    /\ Calm(q) /\ q.out = r.out \o R!Result(t, r.state[t], "all")
    /\ \A u \in Threads \ {t} : q.state[u] = r.state[u]
    /\ q.state[t].module = m /\ q.state[t].events = << >>

LEMMA HeadReads ==
    ASSUME NEW r, NEW t \in Threads, NEW n, NEW m, Calm(r)
    PROVE  HeadRead(r, ReadAll(r, HeadTokens(t, n, m)), t, m)
  <1> DEFINE a == Header(t, "head", n)  b == Token(t, "name", "none", m)
             q == Decode(r, a)  p == Decode(q, b)  o == r.out \o R!Result(t, r.state[t], "all")
             x == [R!ThreadState EXCEPT !.module = m]
  <1>1. /\ IsToken(a) /\ a.by = t /\ a.kind = "hdr" /\ a.type = "head"
        /\ b.kind = "name" /\ b.val = m
    BY DEF Header, Token, IsToken
  <1>a. HeadTokens(t, n, m) = <<a, b>>
    BY DEF HeadTokens
  <1> HIDE DEF a, b
  <1>2. ReadAll(r, HeadTokens(t, n, m)) = p
    <2>1. \A y, z : ReadAll(r, <<y, z>>) = Decode(Decode(r, y), z)
      BY ReadPair, Zenon
    <2>2. ReadAll(r, <<a, b>>) = Decode(Decode(r, a), b)
      BY <2>1, Zenon
    <2> QED
      BY <1>a, <2>2, Zenon
  <1>3. IsReader(r) /\ r.want = "packet" /\ \A u \in Threads : r.state[u].cur_stream = "none"
    BY DEF Calm
  <1>4. /\ IsReader(q) /\ q.want = "name" /\ q.tid = t /\ q.out = o
        /\ q.state[t] = R!ThreadState
        /\ \A u \in Threads \ {t} : q.state[u] = r.state[u]
    BY <1>1, <1>3, DecodeHead DEF HeadBegun, o
  <1> HIDE DEF q, o
  <1>5. Reaches(q, p, t, "packet", x)
    BY <1>1, <1>4, DecodePiece
  <1> HIDE DEF p
  <1>6. x.module = m /\ x.events = << >> /\ x.cur_stream = "none"
    BY DEF R!ThreadState
  <1> HIDE DEF x
  <1>7. /\ IsReader(p) /\ p.want = "packet" /\ p.out = o /\ p.state[t] = x
        /\ \A u \in Threads \ {t} : p.state[u] = r.state[u]
    BY <1>4, <1>5 DEF Reaches
  <1>8. Calm(p)
    BY <1>3, <1>6, <1>7 DEF Calm
  <1>9. HeadRead(r, p, t, m)
    BY <1>6, <1>7, <1>8 DEF HeadRead, o
  <1> QED
    BY <1>2, <1>9

\* Tokens t has written itself, outside cba_flush.
TokensOf(t, s) ==
    /\ IsSeq(s)
    /\ \A i \in 1 .. Len(s) : IsToken(s[i]) /\ s[i].by = t /\ s[i].flush = FALSE

\* No header among them.
Inner(s) == \A i \in 1 .. Len(s) : s[i].kind # "hdr"

LEMMA TokensJoin ==
    ASSUME NEW t, NEW s, NEW u, TokensOf(t, s), TokensOf(t, u)
    PROVE  TokensOf(t, s \o u) /\ (Inner(s) /\ Inner(u) => Inner(s \o u))
  <1>1. IsSeq(s) /\ IsSeq(u)
    BY DEF TokensOf
  <1>2. Len(s) \in Nat /\ Len(u) \in Nat
    BY <1>1, SeqLen
  <1>3. /\ IsSeq(s \o u) /\ Len(s \o u) = Len(s) + Len(u)
        /\ \A i \in 1 .. Len(s) : (s \o u)[i] = s[i]
        /\ \A i \in 1 .. Len(u) : (s \o u)[Len(s) + i] = u[i]
    BY <1>1, SeqJoin
  <1> DEFINE v == s \o u
  <1> HIDE DEF v
  <1>4. ASSUME NEW i \in 1 .. Len(v)
        PROVE  \/ i \in 1 .. Len(s) /\ v[i] = s[i]
               \/ i - Len(s) \in 1 .. Len(u) /\ v[i] = u[i - Len(s)]
    <2>1. CASE i <= Len(s)
      BY <1>2, <1>3, <2>1 DEF v
    <2>2. CASE i > Len(s)
      <3>1. i - Len(s) \in 1 .. Len(u) /\ Len(s) + (i - Len(s)) = i
        BY <1>2, <1>3, <2>2 DEF v
      <3>2. v[Len(s) + (i - Len(s))] = u[i - Len(s)]
        BY <1>3, <3>1 DEF v
      <3> QED
        BY <3>1, <3>2
    <2> QED
      BY <1>2, <1>3, <2>1, <2>2 DEF v
  <1>5. TokensOf(t, v)
    <2>1. IsSeq(v)
      BY <1>3 DEF v
    <2> QED
      BY <1>4, <2>1 DEF TokensOf
  <1>6. Inner(s) /\ Inner(u) => Inner(v)
    BY <1>4 DEF Inner
  <1> QED
    BY <1>5, <1>6 DEF v

LEMMA TokensOne ==
    ASSUME NEW t \in Threads, NEW kind, NEW type, NEW val
    PROVE  /\ TokensOf(t, << Token(t, kind, type, val) >>)
           /\ kind # "hdr" => Inner(<< Token(t, kind, type, val) >>)
           /\ TokensOf(t, << >>) /\ Inner(<< >>)
  <1> DEFINE k == Token(t, kind, type, val)
  <1>1. IsToken(k) /\ k.by = t /\ k.kind = kind /\ k.flush = FALSE
    BY DEF Token, IsToken
  <1> HIDE DEF k
  <1> DEFINE s == <<k>>
  <1>2. IsSeq(s) /\ Len(s) = 1 /\ s[1] = k /\ IsSeq(<< >>) /\ Len(<< >>) = 0
    BY SeqOne
  <1> HIDE DEF s
  <1>3. TokensOf(t, s) /\ (kind # "hdr" => Inner(s))
    BY <1>1, <1>2 DEF TokensOf, Inner
  <1>4. TokensOf(t, << >>) /\ Inner(<< >>)
    BY <1>2 DEF TokensOf, Inner
  <1> QED
    BY <1>3, <1>4 DEF s, k

LEMMA StrTokens ==
    ASSUME NEW t \in Threads, NEW v
    PROVE  TokensOf(t, StrBody(t, v)) /\ Inner(StrBody(t, v))
  <1> DEFINE a == <<Length(t, 1)>>  b == <<Bytes(t, v)>>
  <1>1. TokensOf(t, a) /\ Inner(a) /\ TokensOf(t, b) /\ Inner(b)
    BY TokensOne DEF Length, Bytes
  <1>2. StrBody(t, v) = a \o b
    BY PairIsSeq, Zenon DEF StrBody
  <1> HIDE DEF a, b
  <1> QED
    BY <1>1, <1>2, TokensJoin

LEMMA StreamTokens ==
    ASSUME NEW t \in Threads, NEW data \in Seq(Nat)
    PROVE  TokensOf(t, Stream(t, data)) /\ Inner(Stream(t, data))
  <1> DEFINE n == 3 * NumChunks(data) + 2  w == Stream(t, data)
  <1>1. IsSeq(w) /\ Len(w) = n /\ n \in Nat
    BY StreamShape, ChunkBounds
  <1>2. ASSUME NEW i \in 1 .. n
        PROVE  \E kind, val : w[i] = Token(t, kind, "none", val) /\ kind # "hdr"
    <2>1. i \in Nat /\ (i % 3 = 0 \/ i % 3 = 1 \/ i % 3 = 2)
      BY <1>1
    <2>2. CASE i % 3 = 1
      <3>1. w[i] = Token(t, "tid", "none", t)
        BY <2>2 DEF Stream
      <3> QED
        BY <3>1
    <2>3. CASE i % 3 = 2
      <3>1. \E l : w[i] = Length(t, l)
        BY <2>3 DEF Stream
      <3> QED
        BY <3>1 DEF Length
    <2>4. CASE i % 3 = 0
      <3>1. \E l : w[i] = Bytes(t, l)
        BY <2>4 DEF Stream
      <3> QED
        BY <3>1 DEF Bytes
    <2> QED
      BY <2>1, <2>2, <2>3, <2>4
  <1>3. \A i \in 1 .. n : /\ IsToken(w[i]) /\ w[i].by = t /\ w[i].flush = FALSE
                          /\ w[i].kind # "hdr"
    <2> HIDE DEF w, n
    <2> TAKE i \in 1 .. n
    <2>1. PICK kind, val : w[i] = Token(t, kind, "none", val) /\ kind # "hdr"
      BY <1>2
    <2> QED
      BY <2>1 DEF Token, IsToken
  <1> HIDE DEF w, n
  <1>4. TokensOf(t, w) /\ Inner(w)
    BY <1>1, <1>3 DEF TokensOf, Inner
  <1> QED
    BY <1>4 DEF w

LEMMA BodyTokens ==
    ASSUME NEW t \in Threads, NEW c, IsCall(c), c.op \in EventOps
    PROVE  TokensOf(t, Body(t, c)) /\ Inner(Body(t, c))
  <1>1. CASE c.op \in {"str", "defer_str"}
    BY <1>1, StrTokens DEF Body
  <1>2. CASE c.op = "bit"
    BY <1>2, TokensOne DEF Body
  <1>3. CASE c.op \in {"int32", "int64"}
    BY <1>3, TokensOne DEF Body
  <1>4. CASE c.op = "data"
    <2>1. TokensOf(t, Stream(t, c.val)) /\ Inner(Stream(t, c.val))
      BY <1>4, StreamTokens DEF IsCall
    <2> QED
      BY <1>4, <2>1 DEF Body
  <1>5. CASE c.op = "file"
    <2> DEFINE a == StrBody(t, c.val.name)  b == Stream(t, c.val.data)
    <2>1. TokensOf(t, b) /\ Inner(b)
      BY <1>5, StreamTokens DEF IsCall
    <2>2. TokensOf(t, a) /\ Inner(a)
      BY StrTokens
    <2>3. Body(t, c) = a \o b
      BY <1>5 DEF Body
    <2> HIDE DEF a, b
    <2> QED
      BY <2>1, <2>2, <2>3, TokensJoin
  <1> QED
    BY <1>1, <1>2, <1>3, <1>4, <1>5 DEF EventOps

LEMMA WrittenTokens ==
    ASSUME NEW t \in Threads, NEW c, NEW n, IsCall(c), c.op \in EventOps
    PROVE  TokensOf(t, Written(t, c, n))
  <1> DEFINE a == << Header(t, TypeOf(c), n) >>  b == Body(t, c)
  <1>1. TokensOf(t, a)
    BY TokensOne DEF Header
  <1>2. TokensOf(t, b)
    BY BodyTokens
  <1>3. Written(t, c, n) = a \o b
    BY DEF Written
  <1> HIDE DEF a, b
  <1> QED
    BY <1>1, <1>2, <1>3, TokensJoin

-----------------------------------------------------------------------------
(* The inductive invariant of one thread, over its part of the state: what  *)
(* the reader has come to (r), deferred (df), todo (td), log (l), script    *)
(* (sc) and cut (ct).                                                       *)

IsLog(l) ==
    /\ DOMAIN l = {"entries", "open"} /\ DOMAIN l.open = {"module", "hidden", "events"}
    /\ IsSeq(l.entries) /\ IsSeq(l.open.hidden) /\ IsSeq(l.open.events)

Starting(td) == td # << >> /\ Head(td).kind = "hdr"

Inside(td) == td # << >> /\ Head(td).kind # "hdr"

Good(t, r, df, td, l, sc, ct) ==
    /\ IsReader(r) /\ IsSeq(r.out)
    /\ TokensOf(t, df) /\ TokensOf(t, td)
    /\ td # << >> => Inner(Tail(td)) /\ (Head(td).kind = "hdr" => Head(td).type # "head")
    /\ Starting(td) => \A q : Calm(q) => Calm(ReadAll(q, td))
    /\ IsLog(l)
    /\ IsSeq(sc) /\ \A i \in 1 .. Len(sc) : IsCall(sc[i])
    /\ ct = Whole \/ \E n \in Nat : ct = <<n>>

Alone(r, t) == \A u \in Threads \ {t} : r.state[u].events = << >>

\* The reader has yielded es, and t is in an entry of m with the events ev.
At(r, t, es, m, ev) ==
    /\ Calm(r) /\ Alone(r, t)
    /\ r.out = es /\ r.state[t].module = m /\ r.state[t].events = ev

\* The reader has still to yield the last entry of the log, and no event
\* of the one that is open is visible.
Past(r, t, l) ==
    /\ Calm(r) /\ Alone(r, t)
    /\ r.out \o R!Result(t, r.state[t], "all") = l.entries
    /\ l.open.events = << >>

NextIsHead(t, sc) == IF sc = << >> THEN t # 0 ELSE Head(sc).op = "head"

\* Nothing is under way: the reader is where the log is, or a head is to come.
Between(t, r, df, td, l, sc) ==
    /\ df = << >> /\ td = << >> /\ l.open.hidden = << >>
    /\ \/ At(r, t, l.entries, l.open.module, l.open.events)
       \/ Past(r, t, l) /\ NextIsHead(t, sc)

\* An event is being written: what is left of it takes the reader to the log.
Writing(t, r, df, td, l) ==
    /\ df = << >> /\ td # << >> /\ l.open.hidden = << >>
    /\ At(ReadAll(r, td), t, l.entries, l.open.module, l.open.events)
    /\ r.out = l.entries
    /\ Starting(td) => At(r, t, l.entries, l.open.module, Front(l.open.events))

\* A head is deferred: the buffer takes the reader to where the log would be.
Deferring(t, r, df, td, l) ==
    /\ df # << >> /\ td = << >>
    /\ Past(r, t, l)
    /\ At(ReadAll(r, df), t, l.entries, l.open.module, l.open.hidden)

\* After a fault: n entries of the log are with the reader.
CutAt(r, l, n) ==
    /\ n \in 0 .. Len(l.entries) /\ n <= Len(r.out)
    /\ \A i \in 1 .. n : r.out[i] = l.entries[i]

Holds(t, r, df, td, l, sc, ct) ==
    /\ Good(t, r, df, td, l, sc, ct)
    /\ ct = Whole => \/ Between(t, r, df, td, l, sc)
                     \/ Writing(t, r, df, td, l)
                     \/ Deferring(t, r, df, td, l)
    /\ ct # Whole => CutAt(r, l, ct[1])

LEMMA ScriptTail ==
    ASSUME NEW sc, IsSeq(sc), \A i \in 1 .. Len(sc) : IsCall(sc[i]), sc # << >>
    PROVE  /\ IsSeq(Tail(sc)) /\ \A i \in 1 .. Len(Tail(sc)) : IsCall(Tail(sc)[i])
           /\ IsCall(Head(sc))
  <1>1. /\ IsSeq(Tail(sc)) /\ Len(Tail(sc)) = Len(sc) - 1
        /\ \A i \in 1 .. Len(Tail(sc)) : Tail(sc)[i] = sc[i + 1]
        /\ Len(sc) \in Nat \ {0} /\ Head(sc) = sc[1]
    BY SeqTail
  <1>2. ASSUME NEW i \in 1 .. Len(Tail(sc)) PROVE IsCall(Tail(sc)[i])
    <2>1. i + 1 \in 1 .. Len(sc) /\ Tail(sc)[i] = sc[i + 1]
      BY <1>1
    <2> QED
      BY <2>1
  <1>3. 1 \in 1 .. Len(sc)
    BY <1>1
  <1> QED
    BY <1>1, <1>2, <1>3

\* The first token and the rest.
LEMMA TokensTail ==
    ASSUME NEW t, NEW s, TokensOf(t, s), s # << >>
    PROVE  /\ TokensOf(t, Tail(s)) /\ IsToken(Head(s)) /\ Head(s).by = t /\ Head(s).flush = FALSE
           /\ Inner(s) => Inner(Tail(s)) /\ Head(s).kind # "hdr"
           /\ Inner(Tail(s)) /\ Tail(s) # << >> => Head(Tail(s)).kind # "hdr" /\ Inner(Tail(Tail(s)))
  <1>0. IsSeq(s)
    BY DEF TokensOf
  <1>1. /\ IsSeq(Tail(s)) /\ Len(Tail(s)) = Len(s) - 1
        /\ \A i \in 1 .. Len(Tail(s)) : Tail(s)[i] = s[i + 1]
        /\ Len(s) \in Nat \ {0} /\ Head(s) = s[1]
    BY <1>0, SeqTail
  <1>2. 1 \in 1 .. Len(s)
    BY <1>1
  <1>3. \A i \in 1 .. Len(Tail(s)) : i + 1 \in 1 .. Len(s) /\ Tail(s)[i] = s[i + 1]
    BY <1>1
  <1>4. TokensOf(t, Tail(s)) /\ IsToken(Head(s)) /\ Head(s).by = t /\ Head(s).flush = FALSE
    BY <1>1, <1>2, <1>3 DEF TokensOf
  <1>5. Inner(s) => Inner(Tail(s)) /\ Head(s).kind # "hdr"
    BY <1>1, <1>2, <1>3 DEF Inner
  <1>6. ASSUME Inner(Tail(s)), Tail(s) # << >>
        PROVE  Head(Tail(s)).kind # "hdr" /\ Inner(Tail(Tail(s)))
    <2> DEFINE u == Tail(s)
    <2>1. IsSeq(u) /\ Inner(u) /\ u # << >>
      BY <1>1, <1>6
    <2> HIDE DEF u
    <2>2. /\ Len(Tail(u)) = Len(u) - 1
          /\ \A i \in 1 .. Len(Tail(u)) : Tail(u)[i] = u[i + 1]
          /\ Len(u) \in Nat \ {0} /\ Head(u) = u[1]
      BY <2>1, SeqTail
    <2>3. 1 \in 1 .. Len(u) /\ \A i \in 1 .. Len(Tail(u)) : i + 1 \in 1 .. Len(u) /\ Tail(u)[i] = u[i + 1]
      BY <2>2
    <2>4. Head(u).kind # "hdr" /\ Inner(Tail(u))
      BY <2>1, <2>2, <2>3 DEF Inner
    <2> QED
      BY <2>4 DEF u
  <1> QED
    BY <1>4, <1>5, <1>6

\* What the operations on the log leave in it.
LEMMA RecordedLog ==
    ASSUME NEW l, IsLog(l), NEW e
    PROVE  /\ IsLog(Recorded(l, e)) /\ Recorded(l, e).entries = l.entries
           /\ Recorded(l, e).open.module = l.open.module /\ Recorded(l, e).open.hidden = << >>
           /\ Recorded(l, e).open.events = (l.open.events \o l.open.hidden) \o <<e>>
  <1> DEFINE o == Recorded(l, e)
  <1>1. IsSeq(l.entries) /\ IsSeq(l.open.hidden) /\ IsSeq(l.open.events) /\ IsSeq(<<e>>) /\ IsSeq(<< >>)
    BY SeqOne DEF IsLog
  <1>2. IsSeq(l.open.events \o l.open.hidden) /\ IsSeq((l.open.events \o l.open.hidden) \o <<e>>)
    BY <1>1, SeqJoin
  <1>3. /\ o.entries = l.entries /\ DOMAIN o = {"entries", "open"}
        /\ DOMAIN o.open = {"module", "hidden", "events"}
        /\ o.open.module = l.open.module /\ o.open.hidden = << >>
        /\ o.open.events = (l.open.events \o l.open.hidden) \o <<e>>
    BY DEF Recorded, IsLog
  <1> HIDE DEF o
  <1>4. IsLog(o)
    BY <1>1, <1>2, <1>3 DEF IsLog
  <1> QED
    BY <1>3, <1>4 DEF o

LEMMA HiddenLog ==
    ASSUME NEW l, IsLog(l), NEW e
    PROVE  /\ IsLog(Hidden(l, e)) /\ Hidden(l, e).entries = l.entries
           /\ Hidden(l, e).open.module = l.open.module /\ Hidden(l, e).open.events = l.open.events
           /\ Hidden(l, e).open.hidden = Append(l.open.hidden, e)
  <1> DEFINE o == Hidden(l, e)
  <1>1. IsSeq(l.entries) /\ IsSeq(l.open.events) /\ IsSeq(Append(l.open.hidden, e))
    BY SeqAppend DEF IsLog
  <1>2. /\ o.entries = l.entries /\ DOMAIN o = {"entries", "open"}
        /\ DOMAIN o.open = {"module", "hidden", "events"}
        /\ o.open.module = l.open.module /\ o.open.events = l.open.events
        /\ o.open.hidden = Append(l.open.hidden, e)
    BY DEF Hidden, IsLog
  <1> HIDE DEF o
  <1>3. IsLog(o)
    BY <1>1, <1>2 DEF IsLog
  <1> QED
    BY <1>2, <1>3 DEF o

LEMMA OpenedLog ==
    ASSUME NEW l, IsLog(l), NEW t, NEW m
    PROVE  /\ IsLog(Opened(t, l, m)) /\ Opened(t, l, m).entries = Closed(t, l)
           /\ Opened(t, l, m).open.module = m /\ Opened(t, l, m).open.events = << >>
           /\ Opened(t, l, m).open.hidden = << >>
  <1> DEFINE o == Opened(t, l, m)
  <1>1. IsSeq(Closed(t, l)) /\ IsSeq(<< >>)
    BY SeqOne, SeqAppend DEF Closed, IsLog
  <1>2. /\ o.entries = Closed(t, l) /\ DOMAIN o = {"entries", "open"}
        /\ DOMAIN o.open = {"module", "hidden", "events"}
        /\ o.open.module = m /\ o.open.events = << >> /\ o.open.hidden = << >>
    BY DEF Opened, NoEntry
  <1> HIDE DEF o
  <1>3. IsLog(o)
    BY <1>1, <1>2 DEF IsLog
  <1> QED
    BY <1>2, <1>3 DEF o

-----------------------------------------------------------------------------
(* What the actions do to the invariant of the thread that takes them.     *)

LEMMA BeginHolds ==
    ASSUME NEW t, NEW r, NEW df, NEW l, NEW sc, NEW ct,
           Holds(t, r, df, << >>, l, << >>, ct),
           IsSeq(sc), \A i \in 1 .. Len(sc) : IsCall(sc[i]),
           t # 0 => sc # << >> /\ Head(sc).op = "head"
    PROVE  Holds(t, r, df, << >>, l, sc, ct)
  <1>1. Good(t, r, df, << >>, l, sc, ct)
    BY DEF Holds, Good
  <1>2. Between(t, r, df, << >>, l, << >>) => Between(t, r, df, << >>, l, sc)
    BY DEF Between, NextIsHead
  <1> QED
    BY <1>1, <1>2 DEF Holds

LEMMA CodeHolds ==
    ASSUME NEW t, NEW r, NEW df, NEW l, NEW sc, NEW ct,
           Holds(t, r, df, << >>, l, sc, ct), sc # << >>, Head(sc).op = "code"
    PROVE  Holds(t, r, df, << >>, l, Tail(sc), ct)
  <1>1. IsSeq(Tail(sc)) /\ \A i \in 1 .. Len(Tail(sc)) : IsCall(Tail(sc)[i])
    BY ScriptTail DEF Holds, Good
  <1>2. Good(t, r, df, << >>, l, Tail(sc), ct)
    BY <1>1 DEF Holds, Good
  <1>3. Between(t, r, df, << >>, l, sc) => Between(t, r, df, << >>, l, Tail(sc))
    BY DEF Between, NextIsHead
  <1> QED
    BY <1>2, <1>3 DEF Holds

\* An entry without visible events leaves nothing; any other is yielded.
LEMMA ClosedIsYielded ==
    ASSUME NEW t, NEW r, NEW l, IsLog(l),
           \/ At(r, t, l.entries, l.open.module, l.open.events)
           \/ Past(r, t, l)
    PROVE  r.out \o R!Result(t, r.state[t], "all") = Closed(t, l)
  <1>1. CASE Past(r, t, l)
    BY <1>1 DEF Past, Closed
  <1>2. CASE At(r, t, l.entries, l.open.module, l.open.events)
    <2>1. r.out = l.entries /\ r.state[t].module = l.open.module /\ r.state[t].events = l.open.events
      BY <1>2 DEF At
    <2>2. CASE l.open.events = << >>
      <3>1. R!Result(t, r.state[t], "all") = << >>
        BY <2>1, <2>2 DEF R!Result
      <3>2. l.entries \o << >> = l.entries
        BY JoinEmpty DEF IsLog
      <3> QED
        BY <2>1, <2>2, <3>1, <3>2 DEF Closed
    <2>3. CASE l.open.events # << >>
      <3> DEFINE e == [tid |-> t, module |-> l.open.module, events |-> l.open.events]
      <3>1. R!Result(t, r.state[t], "all") = <<e>>
        BY <2>1, <2>3 DEF R!Result
      <3>2. Closed(t, l) = Append(l.entries, e)
        BY <2>3 DEF Closed
      <3> HIDE DEF e
      <3>3. Append(l.entries, e) = l.entries \o <<e>>
        BY SeqAppend DEF IsLog
      <3> QED
        BY <2>1, <3>1, <3>2, <3>3
    <2> QED
      BY <2>2, <2>3
  <1> QED
    BY <1>1, <1>2

LEMMA HeadHolds ==
    ASSUME NEW t \in Threads, NEW r, NEW df, NEW l, NEW sc, NEW ct, NEW n, NEW m,
           Holds(t, r, df, << >>, l, sc, ct), sc # << >>
    PROVE  Holds(t, r, HeadTokens(t, n, m), << >>, Opened(t, l, m), Tail(sc), ct)
  <1> DEFINE h == HeadTokens(t, n, m)  o == Opened(t, l, m)  q == ReadAll(r, h)
  <1>1. IsSeq(Tail(sc)) /\ \A i \in 1 .. Len(Tail(sc)) : IsCall(Tail(sc)[i])
    BY ScriptTail DEF Holds, Good
  <1>2. /\ IsLog(l) /\ IsLog(o) /\ o.entries = Closed(t, l) /\ o.open.module = m
        /\ o.open.events = << >> /\ o.open.hidden = << >>
    <2>1. IsLog(l)
      BY DEF Holds, Good
    <2> QED
      BY <2>1, OpenedLog
  <1>3. TokensOf(t, h) /\ h # << >>
    <2> DEFINE a == <<Header(t, "head", n)>>  b == <<Token(t, "name", "none", m)>>
    <2>1. TokensOf(t, a) /\ TokensOf(t, b)
      BY TokensOne DEF Header
    <2>2. h = a \o b
      BY PairIsSeq, Zenon DEF HeadTokens
    <2>3. h # << >>
      BY DEF HeadTokens
    <2> HIDE DEF a, b, h
    <2> QED
      BY <2>1, <2>2, <2>3, TokensJoin
  <1> HIDE DEF h, o
  <1>4. Good(t, r, h, << >>, o, Tail(sc), ct)
    BY <1>1, <1>2, <1>3 DEF Holds, Good
  <1>5. ASSUME ct = Whole
        PROVE  Deferring(t, r, h, << >>, o)
    <2>1. \/ At(r, t, l.entries, l.open.module, l.open.events)
          \/ Past(r, t, l)
      BY <1>5 DEF Holds, Between, Writing, Deferring
    <2>2. r.out \o R!Result(t, r.state[t], "all") = o.entries
      BY <1>2, <2>1, ClosedIsYielded
    <2>3. Calm(r) /\ Alone(r, t)
      BY <2>1 DEF At, Past
    <2>4. Past(r, t, o)
      BY <1>2, <2>2, <2>3 DEF Past
    <2>5. /\ Calm(q) /\ q.out = r.out \o R!Result(t, r.state[t], "all")
          /\ \A u \in Threads \ {t} : q.state[u] = r.state[u]
          /\ q.state[t].module = m /\ q.state[t].events = << >>
      <3>1. HeadRead(r, q, t, m)
        BY <2>3, HeadReads DEF h
      <3> QED
        BY <3>1 DEF HeadRead
    <2> HIDE DEF q
    <2>6. Alone(q, t)
      BY <2>3, <2>5 DEF Alone
    <2>7. At(q, t, o.entries, o.open.module, o.open.hidden)
      BY <1>2, <2>2, <2>5, <2>6 DEF At
    <2> QED
      BY <1>3, <2>4, <2>7 DEF Deferring, q
  <1>6. ASSUME ct # Whole
        PROVE  CutAt(r, o, ct[1])
    <2>1. CutAt(r, l, ct[1])
      BY <1>6 DEF Holds
    <2>2. Longer(l.entries, Closed(t, l))
      <3>1. IsSeq(l.entries) /\ Len(l.entries) \in Nat
        BY <1>2, SeqLen DEF IsLog
      <3> QED
        <4>1. CASE Closed(t, l) = l.entries
          BY <3>1, <4>1 DEF Longer
        <4>2. ASSUME NEW e, Closed(t, l) = Append(l.entries, e)
              PROVE  Longer(l.entries, Closed(t, l))
          <5>1. /\ IsSeq(Append(l.entries, e)) /\ Len(Append(l.entries, e)) = Len(l.entries) + 1
                /\ \A i \in 1 .. Len(l.entries) : Append(l.entries, e)[i] = l.entries[i]
            BY <3>1, SeqAppend
          <5> QED
            BY <3>1, <4>2, <5>1 DEF Longer
        <4> QED
          BY <4>1, <4>2 DEF Closed
    <2>3. Len(l.entries) \in Nat /\ Len(o.entries) \in Nat
      BY <1>2, SeqLen DEF IsLog
    <2> QED
      BY <1>2, <2>1, <2>2, <2>3 DEF CutAt, Longer
  <1> QED
    BY <1>4, <1>5, <1>6 DEF Holds, h, o

LEMMA DeferHolds ==
    ASSUME NEW t \in Threads, NEW r, NEW df, NEW l, NEW sc, NEW ct, NEW n, NEW c,
           Holds(t, r, df, << >>, l, sc, ct), sc # << >>, df # << >>,
           c = Head(sc), c.op = "defer_str"
    PROVE  Holds(t, r, df \o Written(t, c, n), << >>, Hidden(l, Meant(c, n)), Tail(sc), ct)
  <1> DEFINE w == Written(t, c, n)  e == Meant(c, n)  o == Hidden(l, e)
             q == ReadAll(r, df)  p == ReadAll(q, w)
  <1>1. /\ IsSeq(Tail(sc)) /\ \A i \in 1 .. Len(Tail(sc)) : IsCall(Tail(sc)[i])
        /\ IsCall(c) /\ c.op \in EventOps
    BY ScriptTail DEF Holds, Good, EventOps
  <1>2. /\ IsLog(l) /\ IsLog(o) /\ o.entries = l.entries /\ o.open.module = l.open.module
        /\ o.open.events = l.open.events /\ o.open.hidden = Append(l.open.hidden, e)
    <2>1. IsLog(l)
      BY DEF Holds, Good
    <2> HIDE DEF e
    <2> QED
      BY <2>1, HiddenLog
  <1>3. TokensOf(t, df) /\ TokensOf(t, w) /\ IsSeq(df) /\ IsSeq(w)
    <2>1. TokensOf(t, df)
      BY DEF Holds, Good
    <2>2. TokensOf(t, w)
      BY <1>1, WrittenTokens
    <2> HIDE DEF w
    <2> QED
      BY <2>1, <2>2 DEF TokensOf
  <1> HIDE DEF o, e
  <1>4. Told(q, p, t, e) \/ ~Calm(q)
    BY <1>1, EventReads DEF e
  <1> HIDE DEF w
  <1>5. TokensOf(t, df \o w) /\ IsSeq(df \o w)
    <2>1. TokensOf(t, df \o w)
      BY <1>3, TokensJoin
    <2> QED
      BY <1>3, <2>1, SeqJoin
  <1>6. df \o w # << >>
    <2>1. Len(df \o w) = Len(df) + Len(w) /\ Len(w) \in Nat /\ Len(df) \in Nat /\ Len(df) # 0
      BY <1>3, SeqJoin, SeqLen
    <2>2. Len(df \o w) # 0
      BY <2>1
    <2> QED
      BY <1>5, <2>2, SeqLen
  <1>7. ReadAll(r, df \o w) = p
    BY <1>3, ReadTwice
  <1>8. Good(t, r, df \o w, << >>, o, Tail(sc), ct)
    BY <1>1, <1>2, <1>5 DEF Holds, Good
  <1>9. ASSUME ct = Whole
        PROVE  Deferring(t, r, df \o w, << >>, o)
    <2>1. Past(r, t, l) /\ At(q, t, l.entries, l.open.module, l.open.hidden)
      BY <1>9 DEF Holds, Between, Writing, Deferring
    <2> HIDE DEF p, q
    <2>2. Past(r, t, o)
      BY <1>2, <2>1 DEF Past
    <2>3. Calm(q) /\ Alone(q, t)
      BY <2>1 DEF At
    <2>4. Told(q, p, t, e)
      BY <1>4, <2>3
    <2>5. At(p, t, o.entries, o.open.module, o.open.hidden)
      BY <1>2, <2>1, <2>4 DEF At, Told, Alone
    <2> QED
      BY <1>6, <1>7, <2>2, <2>5 DEF Deferring
  <1>10. ct # Whole => CutAt(r, o, ct[1])
    BY <1>2 DEF Holds, CutAt
  <1> QED
    BY <1>8, <1>9, <1>10 DEF Holds, w, o, e

\* The writes of an event, as todo has them.
LEMMA WrittenIsTodo ==
    ASSUME NEW t \in Threads, NEW c, NEW n, IsCall(c), c.op \in EventOps
    PROVE  LET w == Written(t, c, n)
           IN  /\ TokensOf(t, w) /\ w # << >> /\ Inner(Tail(w))
               /\ Head(w).kind = "hdr" /\ Head(w).type # "head"
               /\ \A q : Calm(q) => Told(q, ReadAll(q, w), t, Meant(c, n))
  <1> DEFINE w == Written(t, c, n)  h == Header(t, TypeOf(c), n)
  <1>1. w # << >> /\ Head(w) = h /\ Tail(w) = Body(t, c)
    BY WrittenReads
  <1>2. Inner(Body(t, c)) /\ TokensOf(t, w)
    BY BodyTokens, WrittenTokens
  <1>3. h.kind = "hdr" /\ h.type # "head"
    BY DEF Header, Token, TypeOf, EventOps
  <1>4. \A q : Calm(q) => Told(q, ReadAll(q, w), t, Meant(c, n))
    BY EventReads
  <1> HIDE DEF w, h
  <1> QED
    BY <1>1, <1>2, <1>3, <1>4 DEF w

LEMMA GoodEvent ==
    ASSUME NEW t \in Threads, NEW r, NEW df, NEW l, NEW sc, NEW ct, NEW n, NEW c, NEW q, NEW k,
           Good(t, r, df, << >>, l, sc, ct), sc # << >>, c = Head(sc), c.op \in EventOps,
           IsReader(q), IsSeq(q.out), k = Whole \/ \E m \in Nat : k = <<m>>
    PROVE  Good(t, q, << >>, Written(t, c, n), Recorded(l, Meant(c, n)), Tail(sc), k)
  <1> DEFINE w == Written(t, c, n)  e == Meant(c, n)
  <1>1. IsSeq(sc) /\ \A i \in 1 .. Len(sc) : IsCall(sc[i])
    BY DEF Good
  <1>2. /\ IsSeq(Tail(sc)) /\ \A i \in 1 .. Len(Tail(sc)) : IsCall(Tail(sc)[i]) /\ IsCall(c)
    BY <1>1, ScriptTail
  <1>a. IsCall(c)
    BY <1>1, ScriptTail
  <1>3. /\ TokensOf(t, w) /\ w # << >> /\ Inner(Tail(w))
        /\ Head(w).kind = "hdr" /\ Head(w).type # "head"
    BY <1>a, WrittenIsTodo
  <1>4. \A x : Calm(x) => Calm(ReadAll(x, w))
    <2>1. \A x : Calm(x) => Told(x, ReadAll(x, w), t, e)
      BY <1>a, WrittenIsTodo
    <2> QED
      BY <2>1 DEF Told
  <1> HIDE DEF w, e
  <1>5. IsLog(Recorded(l, e))
    BY RecordedLog DEF Good
  <1>6. TokensOf(t, << >>)
    BY TokensOne
  <1> QED
    BY <1>2, <1>3, <1>4, <1>5, <1>6 DEF Good, w, e

LEMMA EventHolds ==
    ASSUME NEW t \in Threads, NEW r, NEW df, NEW l, NEW sc, NEW ct, NEW n, NEW c,
           Holds(t, r, df, << >>, l, sc, ct), sc # << >>, c = Head(sc), c.op \in EventOps
    PROVE  Holds(t, ReadAll(r, df), << >>, Written(t, c, n), Recorded(l, Meant(c, n)), Tail(sc), ct)
  <1> DEFINE w == Written(t, c, n)  e == Meant(c, n)  o == Recorded(l, e)  q == ReadAll(r, df)
             p == ReadAll(q, w)
  <1>0. Good(t, r, df, << >>, l, sc, ct)
    BY DEF Holds
  <1>1. IsReader(r) /\ IsSeq(r.out) /\ TokensOf(t, df) /\ IsLog(l) /\ IsSeq(sc)
        /\ \A i \in 1 .. Len(sc) : IsCall(sc[i])
    BY <1>0 DEF Good
  <1>2. Later(r, q)
    BY <1>1, ReadIsLater DEF TokensOf, ReadAll
  <1>3. IsReader(q) /\ IsSeq(q.out) /\ Longer(r.out, q.out)
    BY <1>2 DEF Later, Longer
  <1>4. Good(t, q, << >>, w, o, Tail(sc), ct)
    <2>1. ct = Whole \/ \E m \in Nat : ct = <<m>>
      BY <1>0 DEF Good
    <2> HIDE DEF q
    <2> QED
      BY <1>0, <1>3, <2>1, GoodEvent
  <1>5. IsCall(c)
    BY <1>1, ScriptTail
  <1>6. w # << >> /\ \A x : Calm(x) => Told(x, ReadAll(x, w), t, e)
    BY <1>5, WrittenIsTodo
  <1> HIDE DEF w, e
  <1>7. /\ IsLog(o) /\ o.entries = l.entries /\ o.open.module = l.open.module
        /\ o.open.hidden = << >> /\ o.open.events = (l.open.events \o l.open.hidden) \o <<e>>
    BY <1>1, RecordedLog
  <1> HIDE DEF o
  <1>8. ASSUME ct = Whole
        PROVE  Writing(t, q, << >>, w, o)
    <2> DEFINE ev == l.open.events \o l.open.hidden
    <2>1. IsSeq(l.open.events) /\ IsSeq(l.open.hidden) /\ IsSeq(ev)
      BY <1>1, SeqJoin DEF IsLog
    <2>2. At(q, t, l.entries, l.open.module, ev)
      <3>1. CASE Between(t, r, df, << >>, l, sc)
        <4>1. df = << >> /\ l.open.hidden = << >> /\ At(r, t, l.entries, l.open.module, l.open.events)
          BY <3>1 DEF Between, NextIsHead, EventOps
        <4>2. q = r
          <5>1. Len(df) = 0
            BY <4>1
          <5> QED
            BY <5>1, ReadNothing
        <4>3. ev = l.open.events
          BY <2>1, <4>1, JoinEmpty
        <4> HIDE DEF q, ev
        <4> QED
          BY <4>1, <4>2, <4>3
      <3>2. CASE Deferring(t, r, df, << >>, l)
        <4>1. l.open.events = << >> /\ At(q, t, l.entries, l.open.module, l.open.hidden)
          BY <3>2 DEF Deferring, Past
        <4>2. ev = l.open.hidden
          BY <2>1, <4>1, JoinEmpty
        <4> HIDE DEF q, ev
        <4> QED
          BY <4>1, <4>2
      <3> QED
        BY <1>8, <3>1, <3>2 DEF Holds, Writing
    <2>3. Calm(q) /\ Told(q, p, t, e)
      BY <1>6, <2>2 DEF At
    <2>4. Append(ev, e) = ev \o <<e>> /\ Front(Append(ev, e)) = ev
      BY <2>1, SeqAppend
    <2>a. o.open.events = Append(ev, e)
      BY <1>7, <2>4
    <2> HIDE DEF q, p, ev
    <2>5. At(p, t, o.entries, o.open.module, o.open.events)
      BY <1>7, <2>2, <2>3, <2>a DEF At, Told, Alone
    <2>6. At(q, t, o.entries, o.open.module, Front(o.open.events))
      BY <1>7, <2>2, <2>4, <2>a
    <2>7. q.out = o.entries
      BY <2>6 DEF At
    <2> QED
      BY <1>6, <1>7, <2>5, <2>6, <2>7 DEF Writing, p
  <1>9. ASSUME ct # Whole
        PROVE  CutAt(q, o, ct[1])
    <2>1. CutAt(r, l, ct[1])
      BY <1>9 DEF Holds
    <2>2. Len(r.out) \in Nat /\ Len(q.out) \in Nat /\ Len(l.entries) \in Nat
      BY <1>1, <1>3, SeqLen DEF IsLog
    <2> HIDE DEF q
    <2> QED
      BY <1>3, <1>7, <2>1, <2>2 DEF CutAt, Longer
  <1> HIDE DEF q
  <1> QED
    BY <1>4, <1>8, <1>9 DEF Holds, w, e, o, q

\* What is left of an event once its next write has been made, or has failed.
LEMMA GoodTail ==
    ASSUME NEW t \in Threads, NEW r, NEW df, NEW td, NEW l, NEW sc, NEW ct, NEW q, NEW k,
           Good(t, r, df, td, l, sc, ct), td # << >>,
           IsReader(q), IsSeq(q.out), k = Whole \/ \E m \in Nat : k = <<m>>
    PROVE  Good(t, q, df, Tail(td), l, sc, k) /\ ~Starting(Tail(td))
  <1>1. TokensOf(t, td) /\ Inner(Tail(td))
    BY DEF Good
  <1>2. TokensOf(t, Tail(td))
    BY <1>1, TokensTail
  <1>3. Tail(td) # << >> => Head(Tail(td)).kind # "hdr" /\ Inner(Tail(Tail(td)))
    BY <1>1, TokensTail
  <1> QED
    BY <1>2, <1>3 DEF Good, Starting

LEMMA WriteHolds ==
    ASSUME NEW t \in Threads, NEW r, NEW df, NEW td, NEW l, NEW sc, NEW ct,
           Holds(t, r, df, td, l, sc, ct), td # << >>
    PROVE  Holds(t, Decode(r, Head(td)), df, Tail(td), l, sc, ct)
  <1> DEFINE k == Head(td)  u == Tail(td)  q == Decode(r, k)
  <1>0. Good(t, r, df, td, l, sc, ct)
    BY DEF Holds
  <1>1. /\ IsReader(r) /\ IsSeq(r.out) /\ TokensOf(t, td) /\ IsSeq(td) /\ IsLog(l)
        /\ ~(k.kind = "hdr" /\ k.type = "head")
    BY <1>0 DEF Good, TokensOf
  <1>2. IsToken(k) /\ TokensOf(t, u)
    BY <1>1, TokensTail
  <1>3. Later(r, q) /\ q.out = r.out
    BY <1>1, <1>2, DecodeIsLater
  <1>4. IsReader(q) /\ IsSeq(q.out)
    BY <1>3 DEF Later, Longer
  <1>5. Good(t, q, df, u, l, sc, ct) /\ ~Starting(u)
    <2>1. ct = Whole \/ \E m \in Nat : ct = <<m>>
      BY <1>0 DEF Good
    <2> HIDE DEF q
    <2> QED
      BY <1>0, <1>4, <2>1, GoodTail
  <1>6. ReadAll(r, td) = ReadAll(q, u)
    BY <1>1, ReadFirst
  <1> HIDE DEF q, u, k
  <1>7. ASSUME ct = Whole
        PROVE  Between(t, q, df, u, l, sc) \/ Writing(t, q, df, u, l)
    <2>1. /\ df = << >> /\ l.open.hidden = << >> /\ r.out = l.entries
          /\ At(ReadAll(q, u), t, l.entries, l.open.module, l.open.events)
      BY <1>6, <1>7 DEF Holds, Between, Writing, Deferring
    <2>2. CASE u = << >>
      <3>1. ReadAll(q, u) = q
        <4>1. Len(u) = 0
          BY <2>2
        <4> QED
          BY <4>1, ReadNothing
      <3> QED
        BY <2>1, <2>2, <3>1 DEF Between
    <2>3. CASE u # << >>
      BY <1>3, <1>5, <2>1, <2>3 DEF Writing
    <2> QED
      BY <2>2, <2>3
  <1>8. ct # Whole => CutAt(q, l, ct[1])
    BY <1>3 DEF Holds, CutAt
  <1> QED
    BY <1>5, <1>7, <1>8 DEF Holds, q, u, k

\* Cut(t, n)[t], for the cut of one thread.
CutTo(ct, n) == IF ct = Whole \/ n < ct[1] THEN << n >> ELSE ct

LEMMA CutToShape ==
    ASSUME NEW ct, NEW n \in Nat, ct = Whole \/ \E m \in Nat : ct = <<m>>
    PROVE  /\ \E m \in Nat : CutTo(ct, n) = <<m>>
           /\ CutTo(ct, n) # Whole
           /\ CutTo(ct, n)[1] = IF ct = Whole \/ n < ct[1] THEN n ELSE ct[1]
  <1>1. <<n>>[1] = n /\ \A m \in Nat : <<m>> # << >>
    OBVIOUS
  <1> QED
    BY <1>1 DEF CutTo, Whole

LEMMA WriteFailHolds ==
    ASSUME NEW t \in Threads, NEW r, NEW df, NEW td, NEW l, NEW sc, NEW ct,
           Holds(t, r, df, td, l, sc, ct), td # << >>
    PROVE  Holds(t, r, df, Tail(td), l, sc, CutTo(ct, Len(l.entries)))
  <1> DEFINE n == Len(l.entries)  k == CutTo(ct, n)
  <1>0. Good(t, r, df, td, l, sc, ct)
    BY DEF Holds
  <1>1. IsReader(r) /\ IsSeq(r.out) /\ IsLog(l) /\ (ct = Whole \/ \E m \in Nat : ct = <<m>>)
    BY <1>0 DEF Good
  <1>2. n \in Nat /\ Len(r.out) \in Nat
    BY <1>1, SeqLen DEF IsLog
  <1>3. /\ \E m \in Nat : k = <<m>>
        /\ k # Whole /\ k[1] = IF ct = Whole \/ n < ct[1] THEN n ELSE ct[1]
    BY <1>1, <1>2, CutToShape
  <1> HIDE DEF k
  <1>4. Good(t, r, df, Tail(td), l, sc, k)
    BY <1>0, <1>1, <1>3, GoodTail
  <1>5. CutAt(r, l, k[1])
    <2>1. CASE ct = Whole
      <3>1. r.out = l.entries
        BY <2>1 DEF Holds, Between, Writing, Deferring
      <3> QED
        BY <1>2, <1>3, <2>1, <3>1 DEF CutAt
    <2>2. CASE ct # Whole
      <3>1. CutAt(r, l, ct[1])
        BY <2>2 DEF Holds
      <3>2. k[1] = ct[1]
        BY <1>2, <1>3, <2>2, <3>1 DEF CutAt
      <3> QED
        BY <3>1, <3>2
    <2> QED
      BY <2>1, <2>2
  <1> QED
    BY <1>3, <1>4, <1>5 DEF Holds, k

LEMMA FlushFailHolds ==
    ASSUME NEW t \in Threads, NEW r, NEW df, NEW l, NEW sc, NEW ct, NEW n, NEW c,
           Holds(t, r, df, << >>, l, sc, ct), df # << >>,
           sc # << >>, c = Head(sc), c.op \in EventOps
    PROVE  Holds(t, r, << >>, Written(t, c, n), Recorded(l, Meant(c, n)), Tail(sc),
                 CutTo(ct, IF l.entries = << >> THEN 0 ELSE Len(l.entries) - 1))
  <1> DEFINE m == IF l.entries = << >> THEN 0 ELSE Len(l.entries) - 1
             k == CutTo(ct, m)  e == Meant(c, n)  o == Recorded(l, e)  w == Written(t, c, n)
  <1>0. Good(t, r, df, << >>, l, sc, ct)
    BY DEF Holds
  <1>1. IsReader(r) /\ IsSeq(r.out) /\ IsLog(l) /\ (ct = Whole \/ \E i \in Nat : ct = <<i>>)
    BY <1>0 DEF Good
  <1>2. /\ Len(l.entries) \in Nat /\ Len(r.out) \in Nat
        /\ Len(l.entries) = 0 <=> l.entries = << >>
    BY <1>1, SeqLen DEF IsLog
  <1>3. m \in Nat /\ m <= Len(l.entries) /\ (Len(l.entries) # 0 => m = Len(l.entries) - 1)
    BY <1>2
  <1> HIDE DEF m
  <1>4. /\ \E i \in Nat : k = <<i>>
        /\ k # Whole /\ k[1] = IF ct = Whole \/ m < ct[1] THEN m ELSE ct[1]
    BY <1>1, <1>3, CutToShape
  <1> HIDE DEF k
  <1>5. Good(t, r, << >>, w, o, Tail(sc), k)
    BY <1>0, <1>1, <1>4, GoodEvent
  <1> HIDE DEF e, w
  <1>6. o.entries = l.entries
    BY <1>1, RecordedLog
  <1> HIDE DEF o
  <1>7. CutAt(r, o, k[1])
    <2>1. CASE ct = Whole
      <3> DEFINE y == R!Result(t, r.state[t], "all")
      <3>1. r.out \o y = l.entries
        BY <2>1 DEF Holds, Between, Writing, Deferring, Past
      <3>2. IsSeq(y) /\ Len(y) <= 1 /\ Len(y) \in Nat
        BY ResultIsSeq, SeqLen
      <3> HIDE DEF y
      <3>3. /\ Len(r.out \o y) = Len(r.out) + Len(y)
            /\ \A i \in 1 .. Len(r.out) : (r.out \o y)[i] = r.out[i]
        BY <1>1, <3>2, SeqJoin
      <3>4. /\ Len(l.entries) = Len(r.out) + Len(y)
            /\ \A i \in 1 .. Len(r.out) : l.entries[i] = r.out[i]
        BY <3>1, <3>3
      <3>5. m <= Len(r.out)
        BY <1>2, <1>3, <3>2, <3>4
      <3> QED
        BY <1>2, <1>3, <1>4, <1>6, <2>1, <3>4, <3>5 DEF CutAt
    <2>2. CASE ct # Whole
      <3>1. CutAt(r, l, ct[1])
        BY <2>2 DEF Holds
      <3>2. k[1] \in Nat /\ k[1] <= ct[1] /\ ct[1] \in Nat
        BY <1>2, <1>3, <1>4, <2>2, <3>1 DEF CutAt
      <3> QED
        BY <1>2, <1>6, <3>1, <3>2 DEF CutAt
    <2> QED
      BY <2>1, <2>2
  <1> QED
    BY <1>4, <1>5, <1>7 DEF Holds, k, m, e, w, o

\* Lost(t), for the log and the writes of one thread.
LostOf(l, td) == [l EXCEPT !.open.hidden = << >>,
                           !.open.events = IF td = << >> THEN @ ELSE Front(@)]

LEMMA LostLog ==
    ASSUME NEW l, IsLog(l), NEW td
    PROVE  LET o == LostOf(l, td)
           IN  /\ IsLog(o) /\ o.entries = l.entries
               /\ o.open.module = l.open.module /\ o.open.hidden = << >>
               /\ o.open.events = IF td = << >> THEN l.open.events ELSE Front(l.open.events)
  <1> DEFINE o == LostOf(l, td)
  <1>1. /\ DOMAIN o = {"entries", "open"} /\ DOMAIN o.open = {"module", "hidden", "events"}
        /\ o.entries = l.entries
        /\ o.open.module = l.open.module /\ o.open.hidden = << >>
        /\ o.open.events = IF td = << >> THEN l.open.events ELSE Front(l.open.events)
    BY DEF LostOf, IsLog
  <1>2. IsSeq(l.entries) /\ IsSeq(l.open.events) /\ IsSeq(<< >>)
    BY SeqOne DEF IsLog
  <1>3. IsSeq(Front(l.open.events))
    <2> DEFINE s == l.open.events
    <2>1. PICK S : s \in Seq(S)
      BY <1>2, SeqOver
    <2> HIDE DEF s
    <2>2. s # << >> => Front(s) \in Seq(S)
      BY <2>1 DEF Front
    <2>3. s = << >> => Front(s) = << >>
      <3>1. Len(<< >>) - 1 < 1 /\ Len(<< >>) - 1 \in Int /\ 1 \in Int
        OBVIOUS
      <3>2. SubSeq(<< >>, 1, Len(<< >>) - 1) = << >>
        BY <3>1, SubSeqEmpty
      <3> QED
        BY <3>2 DEF Front
    <2>4. IsSeq(Front(s))
      BY <1>2, <2>2, <2>3, SeqIsSeq
    <2> QED
      BY <2>4 DEF s
  <1> HIDE DEF o
  <1>4. IsLog(o)
    BY <1>1, <1>2, <1>3 DEF IsLog
  <1> QED
    BY <1>1, <1>4 DEF o

LEMMA RestartHolds ==
    ASSUME NEW t \in Threads, NEW r, NEW df, NEW td, NEW l, NEW sc, NEW ct, NEW sd,
           Holds(t, r, df, td, l, sc, ct),
           IsSeq(sd), \A i \in 1 .. Len(sd) : IsCall(sd[i]), NextIsHead(t, sd)
    PROVE  Holds(t, r, << >>, << >>, LostOf(l, td), sd,
                 IF Inside(td) THEN CutTo(ct, Len(l.entries)) ELSE ct)
  <1> DEFINE o == LostOf(l, td)  n == Len(l.entries)
             k == IF Inside(td) THEN CutTo(ct, n) ELSE ct
  <1>0. Good(t, r, df, td, l, sc, ct)
    BY DEF Holds
  <1>1. IsReader(r) /\ IsSeq(r.out) /\ IsLog(l) /\ (ct = Whole \/ \E m \in Nat : ct = <<m>>)
    BY <1>0 DEF Good
  <1>2. /\ IsLog(o) /\ o.entries = l.entries
        /\ o.open.module = l.open.module /\ o.open.hidden = << >>
        /\ o.open.events = IF td = << >> THEN l.open.events ELSE Front(l.open.events)
    BY <1>1, LostLog
  <1> HIDE DEF o
  <1>3. n \in Nat /\ Len(r.out) \in Nat
    BY <1>1, SeqLen DEF IsLog
  <1>4. /\ CutTo(ct, n) # Whole /\ \E m \in Nat : CutTo(ct, n) = <<m>>
        /\ CutTo(ct, n)[1] = IF ct = Whole \/ n < ct[1] THEN n ELSE ct[1]
    BY <1>1, <1>3, CutToShape
  <1>5. Good(t, r, << >>, << >>, o, sd, k)
    <2>1. TokensOf(t, << >>)
      BY TokensOne
    <2>2. k = Whole \/ \E m \in Nat : k = <<m>>
      BY <1>1, <1>4
    <2> HIDE DEF k
    <2> QED
      BY <1>1, <1>2, <2>1, <2>2 DEF Good, Starting
  <1>6. CASE ct = Whole /\ Inside(td)
    <2>1. r.out = l.entries
      BY <1>6 DEF Holds, Between, Writing, Deferring, Inside
    <2>2. k # Whole /\ k[1] = n
      BY <1>4, <1>6
    <2>3. CutAt(r, o, k[1])
      BY <1>2, <1>3, <2>1, <2>2 DEF CutAt
    <2> HIDE DEF k
    <2>4. Holds(t, r, << >>, << >>, o, sd, k)
      BY <1>5, <2>2, <2>3 DEF Holds
    <2> QED
      BY <2>4 DEF k, o
  <1>7. CASE ct = Whole /\ ~Inside(td)
    <2>1. k = Whole
      BY <1>7
    <2>2. \/ At(r, t, o.entries, o.open.module, o.open.events)
          \/ Past(r, t, o)
      <3>1. CASE Between(t, r, df, td, l, sc)
        BY <1>2, <3>1 DEF Between, Past
      <3>2. CASE Writing(t, r, df, td, l)
        <4>1. td # << >> /\ Starting(td)
          BY <1>7, <3>2 DEF Writing, Starting, Inside
        <4> QED
          BY <1>2, <3>2, <4>1 DEF Writing
      <3>3. CASE Deferring(t, r, df, td, l)
        BY <1>2, <3>3 DEF Deferring, Past
      <3> QED
        BY <1>7, <3>1, <3>2, <3>3 DEF Holds
    <2>3. Between(t, r, << >>, << >>, o, sd)
      BY <1>2, <2>2 DEF Between
    <2> HIDE DEF k
    <2>4. Holds(t, r, << >>, << >>, o, sd, k)
      BY <1>5, <2>1, <2>3 DEF Holds
    <2> QED
      BY <2>4 DEF k, o
  <1>8. CASE ct # Whole
    <2>1. CutAt(r, l, ct[1])
      BY <1>8 DEF Holds
    <2>2. k # Whole /\ k[1] = ct[1]
      BY <1>3, <1>4, <1>8, <2>1 DEF CutAt
    <2>3. CutAt(r, o, k[1])
      BY <1>2, <2>1, <2>2 DEF CutAt
    <2> HIDE DEF k
    <2>4. Holds(t, r, << >>, << >>, o, sd, k)
      BY <1>5, <2>2, <2>3 DEF Holds
    <2> QED
      BY <2>4 DEF k, o
  <1> QED
    BY <1>6, <1>7, <1>8

-----------------------------------------------------------------------------
(* The file: a thread reads on in what it wrote, the others stay where they *)
(* were, and the reader that leaves out the flushes does not see one.       *)

ByOf(f, t) == {i \in DOMAIN f : f[i].by = t}

HeldOf(f) == {i \in DOMAIN f : ~f[i].flush}

\* w is f with the tokens s of t added to it.
Grown(r, f, s, w, t) ==
    /\ ReadSome(r, w, ByOf(w, t)) = ReadAll(ReadSome(r, f, ByOf(f, t)), s)
    /\ \A u : u # t => ReadSome(r, w, ByOf(w, u)) = ReadSome(r, f, ByOf(f, u))
    /\ (\A i \in 1 .. Len(s) : s[i].flush = TRUE) =>
          ReadSome(r, w, HeldOf(w)) = ReadSome(r, f, HeldOf(f))
    /\ (\A i \in 1 .. Len(s) : s[i].flush = FALSE) =>
          ReadSome(r, w, HeldOf(w)) = ReadAll(ReadSome(r, f, HeldOf(f)), s)

LEMMA FileGrows ==
    ASSUME NEW r, NEW f, NEW s, NEW w, NEW t, IsSeq(f), IsSeq(s), w = f \o s,
           \A i \in 1 .. Len(s) : s[i].by = t
    PROVE  Grown(r, f, s, w, t)
  <1>1. /\ IsSeq(w) /\ Len(w) = Len(f) + Len(s)
        /\ \A i \in 1 .. Len(f) : w[i] = f[i]
        /\ \A i \in 1 .. Len(s) : w[Len(f) + i] = s[i]
    BY SeqJoin
  <1>2. /\ Len(f) \in Nat /\ Len(s) \in Nat
        /\ DOMAIN f = 1 .. Len(f) /\ DOMAIN w = 1 .. Len(w)
    BY <1>1, SeqLen
  <1>3. /\ \A i \in 1 .. Len(f) : i \in DOMAIN f /\ i \in DOMAIN w
        /\ \A i \in 1 .. Len(s) : Len(f) + i \in DOMAIN w
    BY <1>1, <1>2
  <1>4. ReadSome(r, w, ByOf(w, t)) = ReadAll(ReadSome(r, f, ByOf(f, t)), s)
    <2>1. \A i \in 1 .. Len(f) : i \in ByOf(f, t) <=> i \in ByOf(w, t)
      BY <1>1, <1>3 DEF ByOf
    <2>2. \A i \in 1 .. Len(s) : Len(f) + i \in ByOf(w, t)
      BY <1>1, <1>3 DEF ByOf
    <2> QED
      BY <2>1, <2>2, ReadMore
  <1>5. ASSUME NEW u, u # t
        PROVE  ReadSome(r, w, ByOf(w, u)) = ReadSome(r, f, ByOf(f, u))
    <2>1. \A i \in 1 .. Len(f) : i \in ByOf(f, u) <=> i \in ByOf(w, u)
      BY <1>1, <1>3 DEF ByOf
    <2>2. \A i \in 1 .. Len(s) : Len(f) + i \notin ByOf(w, u)
      BY <1>1, <1>3, <1>5 DEF ByOf
    <2> QED
      BY <2>1, <2>2, ReadNoMore
  <1>6. \A i \in 1 .. Len(f) : i \in HeldOf(f) <=> i \in HeldOf(w)
    BY <1>1, <1>3 DEF HeldOf
  <1>7. ASSUME \A i \in 1 .. Len(s) : s[i].flush = TRUE
        PROVE  ReadSome(r, w, HeldOf(w)) = ReadSome(r, f, HeldOf(f))
    <2>1. \A i \in 1 .. Len(s) : Len(f) + i \notin HeldOf(w)
      BY <1>1, <1>3, <1>7 DEF HeldOf
    <2> QED
      BY <1>6, <2>1, ReadNoMore
  <1>8. ASSUME \A i \in 1 .. Len(s) : s[i].flush = FALSE
        PROVE  ReadSome(r, w, HeldOf(w)) = ReadAll(ReadSome(r, f, HeldOf(f)), s)
    <2>1. \A i \in 1 .. Len(s) : Len(f) + i \in HeldOf(w)
      BY <1>1, <1>3, <1>8 DEF HeldOf
    <2> QED
      BY <1>6, <2>1, ReadMore
  <1> QED
    BY <1>4, <1>5, <1>7, <1>8 DEF Grown

LEMMA TokensOver ==
    ASSUME NEW f, NEW s, IsSeq(f), IsSeq(s),
           \A i \in 1 .. Len(f) : IsToken(f[i]), \A i \in 1 .. Len(s) : IsToken(s[i])
    PROVE  IsSeq(f \o s) /\ \A i \in 1 .. Len(f \o s) : IsToken((f \o s)[i])
  <1> DEFINE w == f \o s
  <1>1. /\ IsSeq(w) /\ Len(w) = Len(f) + Len(s)
        /\ \A i \in 1 .. Len(f) : w[i] = f[i]
        /\ \A i \in 1 .. Len(s) : w[Len(f) + i] = s[i]
        /\ Len(f) \in Nat /\ Len(s) \in Nat
    BY SeqJoin, SeqLen
  <1> HIDE DEF w
  <1>2. ASSUME NEW i \in 1 .. Len(w) PROVE IsToken(w[i])
    <2>1. CASE i <= Len(f)
      BY <1>1, <2>1
    <2>2. CASE i > Len(f)
      <3>1. i - Len(f) \in 1 .. Len(s) /\ Len(f) + (i - Len(f)) = i
        BY <1>1, <2>2
      <3> QED
        BY <1>1, <3>1
    <2> QED
      BY <1>1, <2>1, <2>2
  <1> QED
    BY <1>1, <1>2 DEF w

\* What cba_flush adds to the file.
FlushOf(df) == [i \in 1 .. Len(df) |-> [df[i] EXCEPT !.flush = TRUE]]

LEMMA FlushShape ==
    ASSUME NEW t, NEW df, TokensOf(t, df)
    PROVE  /\ IsSeq(FlushOf(df)) /\ Len(FlushOf(df)) = Len(df)
           /\ \A i \in 1 .. Len(df) : /\ IsToken(FlushOf(df)[i]) /\ FlushOf(df)[i].by = t
                                      /\ FlushOf(df)[i].flush = TRUE
           /\ \A r : ReadAll(r, FlushOf(df)) = ReadAll(r, df)
  <1> DEFINE f == FlushOf(df)  n == Len(df)
  <1>1. IsSeq(df) /\ \A i \in 1 .. n : IsToken(df[i]) /\ df[i].by = t
    BY DEF TokensOf
  <1>2. n \in Nat /\ DOMAIN df = 1 .. n
    BY <1>1, SeqLen
  <1>3. f = [i \in 1 .. n |-> f[i]] /\ \A i \in 1 .. n : f[i] = [df[i] EXCEPT !.flush = TRUE]
    BY DEF FlushOf
  <1> HIDE DEF f, n
  <1>4. Len(f) = n /\ DOMAIN f = 1 .. n
    BY <1>2, <1>3
  <1>5. IsSeq(f)
    BY <1>2, <1>3, <1>4 DEF IsSeq
  <1>6. \A i \in 1 .. n : IsToken(f[i]) /\ f[i].by = t /\ f[i].flush = TRUE
    BY <1>1, <1>3 DEF IsToken
  <1>7. \A i \in 1 .. n : \A x : Decode(x, f[i]) = Decode(x, df[i])
    BY <1>1, <1>3, FlushIsNoByte
  <1>8. ASSUME NEW r
        PROVE  ReadAll(r, f) = ReadAll(r, df)
    <2>1. Len(f) = Len(df) /\ Len(f) \in Nat /\ DOMAIN f = 1 .. Len(f) /\ DOMAIN df = 1 .. Len(f)
      BY <1>2, <1>4 DEF n
    <2>2. \A i \in 1 .. Len(f) : \A x : Decode(x, f[i]) = Decode(x, df[i])
      BY <1>4, <1>7
    <2> QED
      BY <2>1, <2>2, ReadSame
  <1> QED
    BY <1>4, <1>5, <1>6, <1>8 DEF f, n

-----------------------------------------------------------------------------
(* The inductive invariant.                                                *)

\* What the reader makes of what t has written.
Now(t) == ReadSome(R!Start, file, Mine(t))

\* What it makes of what was written under fd_lock.
Held == ReadSome(R!Start, file, Unflushed)

ThreadInv(t) == Holds(t, Now(t), deferred[t], todo[t], log[t], script[t], cut[t])

ShapeInv ==
    /\ IsSeq(file) /\ \A i \in 1 .. Len(file) : IsToken(file[i])
    /\ DOMAIN deferred = Threads /\ DOMAIN todo = Threads /\ DOMAIN log = Threads
    /\ DOMAIN script = Threads /\ DOMAIN cut = Threads

AllWhole == \A t \in Threads : cut[t] = Whole

\* Who is inside an event holds the lock, and ends where a packet may begin.
LockInv ==
    /\ \A t \in Threads : Inside(todo[t]) => fd_lock = t
    /\ AllWhole => /\ \A t \in Threads : Inside(todo[t]) => Calm(ReadAll(Held, todo[t]))
                   /\ (\A t \in Threads : ~Inside(todo[t])) => Calm(Held)

CbaInv == ShapeInv /\ LockInv /\ \A t \in Threads : ThreadInv(t)

LEMMA StartIsReader ==
    Calm(R!Start) /\ IsSeq(R!Start.out) /\ R!Start.out = << >>
    /\ \A t \in Threads : R!Start.state[t].events = << >> /\ R!Start.state[t].module = ""
  <1>1. R!Start.out = << >> /\ IsSeq(<< >>)
    BY SeqOne DEF R!Start
  <1>2. IsReader(R!Start) /\ R!Start.want = "packet"
    BY CbaAssumption DEF R!Start, IsReader, IsState, R!ThreadState
  <1>3. \A t \in Threads : R!Start.state[t] = R!ThreadState
    BY DEF R!Start
  <1>4. R!ThreadState.cur_stream = "none" /\ R!ThreadState.events = << >> /\ R!ThreadState.module = ""
    BY DEF R!ThreadState
  <1> QED
    BY <1>1, <1>2, <1>3, <1>4 DEF Calm

LEMMA ScriptIsCalls ==
    ASSUME NEW s, IsScript(s)
    PROVE  IsSeq(s) /\ \A i \in 1 .. Len(s) : IsCall(s[i])
  BY DEF IsScript, IsSeq, IsCall

LEMMA StartedScripts ==
    ASSUME NEW t \in Threads
    PROVE  /\ IsSeq(Started[t]) /\ \A i \in 1 .. Len(Started[t]) : IsCall(Started[t][i])
           /\ NextIsHead(t, Started[t])
  <1>1. CASE t = 0
    <2>1. Started[t] = StatsEvery
      BY <1>1 DEF Started
    <2>2. /\ StatsEvery \in Seq({StatsEvery[1], StatsEvery[2], StatsEvery[3]}) /\ Len(StatsEvery) = 3
          /\ StatsEvery[1].op = "head" /\ StatsEvery[2].op = "code" /\ StatsEvery[3].op = "int32"
          /\ StatsEvery # << >>
      BY DEF StatsEvery
    <2>3. IsSeq(StatsEvery)
      BY <2>2, SeqIsSeq
    <2>4. \A i \in 1 .. 3 : IsCall(StatsEvery[i])
      <3>1. \A i \in 1 .. 3 : i = 1 \/ i = 2 \/ i = 3
        OBVIOUS
      <3> QED
        BY <2>2, <3>1 DEF IsCall
    <2>5. Head(StatsEvery) = StatsEvery[1]
      BY <2>2, <2>3, SeqTail
    <2> QED
      BY <2>1, <2>2, <2>3, <2>4, <2>5 DEF NextIsHead
  <1>2. CASE t # 0
    <2>1. Started[t] = << >>
      BY <1>2 DEF Started
    <2>2. IsSeq(<< >>) /\ Len(<< >>) = 0
      BY SeqOne
    <2> QED
      BY <1>2, <2>1, <2>2 DEF NextIsHead
  <1> QED
    BY <1>1, <1>2

LEMMA InitInv == Init => CbaInv
  <1> SUFFICES ASSUME Init PROVE CbaInv
    OBVIOUS
  <1> USE DEF Init
  <1>1. IsSeq(<< >>) /\ Len(<< >>) = 0
    BY SeqOne
  <1>2. \A at : ReadSome(R!Start, file, at) = R!Start
    <2> SUFFICES ASSUME NEW at PROVE ReadSome(R!Start, << >>, at) = R!Start
      OBVIOUS
    <2>1. 0 \in Nat
      OBVIOUS
    <2>2. PICK f : Run(f, R!Start, << >>, at, 0) /\ ReadSome(R!Start, << >>, at) = f[0]
      BY <1>1, <2>1, ReadIsRun
    <2> QED
      BY <2>1, <2>2, RunValues
  <1>3. ShapeInv
    BY <1>1 DEF ShapeInv, Started
  <1>4. LockInv
    <2>1. Held = R!Start
      BY <1>2 DEF Held
    <2> QED
      BY <2>1, StartIsReader DEF LockInv, Inside
  <1>5. ASSUME NEW t \in Threads PROVE ThreadInv(t)
    <2> DEFINE l == log[t]
    <2>1. Now(t) = R!Start
      BY <1>2 DEF Now
    <2>2. /\ deferred[t] = << >> /\ todo[t] = << >> /\ script[t] = Started[t] /\ cut[t] = Whole
      OBVIOUS
    <2>3. l.entries = << >> /\ l.open = NoEntry /\ DOMAIN l = {"entries", "open"}
      OBVIOUS
    <2>4. /\ l.open.module = "" /\ l.open.hidden = << >> /\ l.open.events = << >>
          /\ DOMAIN l.open = {"module", "hidden", "events"}
      BY <2>3 DEF NoEntry
    <2> HIDE DEF l, Init
    <2>5. IsLog(l)
      BY <1>1, <2>3, <2>4 DEF IsLog
    <2>6. IsReader(R!Start) /\ IsSeq(R!Start.out) /\ TokensOf(t, << >>)
      BY StartIsReader, TokensOne DEF Calm
    <2>7. Good(t, R!Start, << >>, << >>, l, Started[t], Whole)
      BY <2>5, <2>6, StartedScripts DEF Good, Starting
    <2>8. At(R!Start, t, l.entries, l.open.module, l.open.events)
      BY <2>3, <2>4, StartIsReader DEF At, Alone
    <2>9. Between(t, R!Start, << >>, << >>, l, Started[t])
      BY <2>4, <2>8 DEF Between
    <2> QED
      BY <2>1, <2>2, <2>7, <2>9 DEF ThreadInv, Holds, l
  <1> QED
    BY <1>3, <1>4, <1>5 DEF CbaInv

-----------------------------------------------------------------------------
(* Each action keeps it.                                                   *)

LEMMA NowIs ==
    ASSUME NEW t
    PROVE  Now(t) = ReadSome(R!Start, file, ByOf(file, t)) /\ Held = ReadSome(R!Start, file, HeldOf(file))
  BY DEF Now, Held, Mine, Unflushed, ByOf, HeldOf

LEMMA NowWill ==
    ASSUME NEW t
    PROVE  Now(t)' = ReadSome(R!Start, file', ByOf(file', t)) /\ Held' = ReadSome(R!Start, file', HeldOf(file'))
  BY DEF Now, Held, Mine, Unflushed, ByOf, HeldOf

LEMMA FileStays ==
    ASSUME file' = file
    PROVE  (\A t \in Threads : Now(t)' = Now(t)) /\ Held' = Held
  BY DEF Now, Held, Mine, Unflushed

LEMMA FileStep ==
    ASSUME NEW t, NEW s, IsSeq(file), IsSeq(s), file' = file \o s,
           \A i \in 1 .. Len(s) : s[i].by = t
    PROVE  /\ Now(t)' = ReadAll(Now(t), s)
           /\ \A u \in Threads : u # t => Now(u)' = Now(u)
           /\ (\A i \in 1 .. Len(s) : s[i].flush = TRUE) => Held' = Held
           /\ (\A i \in 1 .. Len(s) : s[i].flush = FALSE) => Held' = ReadAll(Held, s)
  <1>0. Grown(R!Start, file, s, file', t)
    BY FileGrows
  <1>1. Now(t)' = ReadAll(Now(t), s)
    BY <1>0, NowIs, NowWill DEF Grown
  <1>2. ASSUME NEW u \in Threads, u # t PROVE Now(u)' = Now(u)
    BY <1>0, <1>2, NowIs, NowWill DEF Grown
  <1>3. (\A i \in 1 .. Len(s) : s[i].flush = TRUE) => Held' = Held
    BY <1>0, NowIs, NowWill DEF Grown
  <1>4. (\A i \in 1 .. Len(s) : s[i].flush = FALSE) => Held' = ReadAll(Held, s)
    BY <1>0, NowIs, NowWill DEF Grown
  <1> QED
    BY <1>1, <1>2, <1>3, <1>4

\* The threads that do not take the step.
LEMMA OthersHold ==
    ASSUME NEW t \in Threads, \A u \in Threads : ThreadInv(u),
           \A u \in Threads : u # t =>
               /\ deferred'[u] = deferred[u] /\ todo'[u] = todo[u] /\ log'[u] = log[u]
               /\ script'[u] = script[u] /\ cut'[u] = cut[u] /\ Now(u)' = Now(u),
           ThreadInv(t)'
    PROVE  (\A u \in Threads : ThreadInv(u))'
  <1>1. ASSUME NEW u \in Threads, u # t PROVE ThreadInv(u)'
    <2>1. Holds(u, Now(u), deferred[u], todo[u], log[u], script[u], cut[u])
      BY DEF ThreadInv
    <2>2. Holds(u, Now(u)', deferred'[u], todo'[u], log'[u], script'[u], cut'[u])
      BY <1>1, <2>1
    <2> QED
      BY <2>2 DEF ThreadInv
  <1> QED
    BY <1>1

\* Nothing is written, nothing starts or stops being written.
LEMMA LockStays ==
    ASSUME LockInv, file' = file, cut' = cut, todo' = todo,
           fd_lock' = fd_lock \/ \A t \in Threads : ~Inside(todo[t])
    PROVE  LockInv'
  BY FileStays DEF LockInv, AllWhole

LEMMA BeginInv ==
    ASSUME CbaInv, NEW t \in Threads, Begin(t), UNCHANGED harm
    PROVE  CbaInv'
  <1>1. PICK s \in IF t = 0 THEN MainScripts ELSE WorkerScripts : script' = [script EXCEPT ![t] = s]
    BY DEF Begin
  <1>2. /\ file' = file /\ fd_lock' = fd_lock /\ deferred' = deferred /\ todo' = todo
        /\ log' = log /\ cut' = cut /\ todo[t] = << >> /\ script[t] = << >>
    BY DEF Begin, Idle, harm
  <1>3. DOMAIN script = Threads
    BY DEF CbaInv, ShapeInv
  <1>4. script'[t] = s /\ \A u \in Threads : u # t => script'[u] = script[u]
    BY <1>1, <1>3
  <1>5. IsSeq(s) /\ (\A i \in 1 .. Len(s) : IsCall(s[i])) /\ (t # 0 => s # << >> /\ Head(s).op = "head")
    <2>1. IsScript(s)
      BY CbaAssumption
    <2>2. IsSeq(s) /\ \A i \in 1 .. Len(s) : IsCall(s[i])
      BY <2>1, ScriptIsCalls
    <2>3. t # 0 => s # << >> /\ s[1].op = "head"
      BY CbaAssumption
    <2> QED
      BY <2>2, <2>3, SeqTail
  <1>6. Now(t)' = Now(t) /\ \A u \in Threads : Now(u)' = Now(u)
    BY <1>2, FileStays
  <1>7. Holds(t, Now(t), deferred[t], << >>, log[t], << >>, cut[t])
    BY <1>2 DEF CbaInv, ThreadInv
  <1>8. Holds(t, Now(t), deferred[t], << >>, log[t], s, cut[t])
    BY <1>5, <1>7, BeginHolds
  <1>9. ThreadInv(t)'
    BY <1>2, <1>4, <1>6, <1>8 DEF ThreadInv
  <1>10. (\A u \in Threads : ThreadInv(u))'
    BY <1>2, <1>4, <1>6, <1>9, OthersHold DEF CbaInv
  <1>11. ShapeInv'
    BY <1>1, <1>2 DEF CbaInv, ShapeInv
  <1>12. LockInv'
    BY <1>2, LockStays DEF CbaInv
  <1> QED
    BY <1>10, <1>11, <1>12 DEF CbaInv

\* Everything but the lock, the codes and the counters stays.
LEMMA SameInv ==
    ASSUME CbaInv, UNCHANGED <<file, deferred, todo, log, script, cut>>,
           fd_lock' = fd_lock \/ \A t \in Threads : ~Inside(todo[t])
    PROVE  CbaInv'
  <1>1. ShapeInv'
    BY DEF CbaInv, ShapeInv
  <1>2. LockInv'
    BY LockStays DEF CbaInv
  <1>3. ASSUME NEW t \in Threads PROVE ThreadInv(t)'
    <2>1. Holds(t, Now(t), deferred[t], todo[t], log[t], script[t], cut[t])
      BY DEF CbaInv, ThreadInv
    <2>2. Now(t)' = Now(t)
      BY FileStays
    <2> QED
      BY <2>1, <2>2 DEF ThreadInv
  <1> QED
    BY <1>1, <1>2, <1>3 DEF CbaInv

LEMMA LockInvStep ==
    ASSUME CbaInv, NEW t \in Threads, Lock(t), UNCHANGED harm
    PROVE  CbaInv'
  <1>1. \A u \in Threads : ~Inside(todo[u])
    BY CbaAssumption DEF CbaInv, LockInv, Lock
  <1> QED
    BY <1>1, SameInv DEF Lock, harm

LEMMA UnlockInvStep ==
    ASSUME CbaInv, NEW t \in Threads, Unlock(t), UNCHANGED harm
    PROVE  CbaInv'
  <1>1. \A u \in Threads : ~Inside(todo[u])
    BY DEF CbaInv, LockInv, Unlock, Inside
  <1> QED
    BY <1>1, SameInv DEF Unlock, harm

\* What a call that writes nothing keeps.
LEMMA QuietInv ==
    ASSUME CbaInv, NEW t \in Threads, NEW df, NEW l, NEW sc,
           UNCHANGED <<file, fd_lock, todo, cut>>, todo[t] = << >>,
           deferred' = [deferred EXCEPT ![t] = df] \/ (deferred' = deferred /\ df = deferred[t]),
           log' = [log EXCEPT ![t] = l] \/ (log' = log /\ l = log[t]),
           script' = [script EXCEPT ![t] = sc],
           Holds(t, Now(t), df, << >>, l, sc, cut[t])
    PROVE  CbaInv'
  <1>1. DOMAIN deferred = Threads /\ DOMAIN log = Threads /\ DOMAIN script = Threads
    BY DEF CbaInv, ShapeInv
  <1>2. /\ deferred'[t] = df /\ log'[t] = l /\ script'[t] = sc
        /\ \A u \in Threads : u # t => deferred'[u] = deferred[u] /\ log'[u] = log[u] /\ script'[u] = script[u]
    BY <1>1
  <1>3. \A u \in Threads : Now(u)' = Now(u)
    BY FileStays
  <1>4. ThreadInv(t)'
    BY <1>2, <1>3 DEF ThreadInv
  <1>5. (\A u \in Threads : ThreadInv(u))'
    BY <1>2, <1>3, <1>4, OthersHold DEF CbaInv
  <1>6. ShapeInv'
    BY DEF CbaInv, ShapeInv
  <1>7. LockInv'
    BY LockStays DEF CbaInv
  <1> QED
    BY <1>5, <1>6, <1>7 DEF CbaInv

LEMMA CodeInv ==
    ASSUME CbaInv, NEW t \in Threads, cba_code(t), UNCHANGED harm
    PROVE  CbaInv'
  <1>1. /\ file' = file /\ fd_lock' = fd_lock /\ deferred' = deferred /\ todo' = todo
        /\ log' = log /\ cut' = cut /\ todo[t] = << >> /\ script[t] # << >> /\ Head(script[t]).op = "code"
        /\ script' = [script EXCEPT ![t] = Tail(script[t])]
    BY DEF cba_code, Calls, Idle, harm
  <1>2. Holds(t, Now(t), deferred[t], << >>, log[t], script[t], cut[t])
    BY <1>1 DEF CbaInv, ThreadInv
  <1>3. Holds(t, Now(t), deferred[t], << >>, log[t], Tail(script[t]), cut[t])
    BY <1>1, <1>2, CodeHolds
  <1> QED
    BY <1>1, <1>3, QuietInv

LEMMA HeadInv ==
    ASSUME CbaInv, NEW t \in Threads, cba_head(t), UNCHANGED harm
    PROVE  CbaInv'
  <1> DEFINE m == Head(script[t]).val  df == HeadTokens(t, next_code[t], m)  l == Opened(t, log[t], m)
  <1>1. /\ file' = file /\ fd_lock' = fd_lock /\ todo' = todo /\ cut' = cut
        /\ todo[t] = << >> /\ script[t] # << >> /\ Head(script[t]).op = "head"
        /\ script' = [script EXCEPT ![t] = Tail(script[t])]
        /\ deferred' = [deferred EXCEPT ![t] = df] /\ log' = [log EXCEPT ![t] = l]
    BY DEF cba_head, Calls, Idle, harm, HeadTokens
  <1>2. Holds(t, Now(t), deferred[t], << >>, log[t], script[t], cut[t])
    BY <1>1 DEF CbaInv, ThreadInv
  <1>3. Holds(t, Now(t), df, << >>, l, Tail(script[t]), cut[t])
    BY <1>1, <1>2, HeadHolds
  <1> HIDE DEF df, l
  <1> QED
    BY <1>1, <1>3, QuietInv

LEMMA DeferInv ==
    ASSUME CbaInv, NEW t \in Threads, cba_defer_str(t), UNCHANGED harm
    PROVE  CbaInv'
  <1> DEFINE c == Head(script[t])  n == next_code[t]
             df == deferred[t] \o Written(t, c, n)  l == Hidden(log[t], Meant(c, n))
  <1>1. /\ file' = file /\ fd_lock' = fd_lock /\ todo' = todo /\ cut' = cut
        /\ todo[t] = << >> /\ script[t] # << >> /\ c.op = "defer_str" /\ deferred[t] # << >>
        /\ script' = [script EXCEPT ![t] = Tail(script[t])]
        /\ deferred' = [deferred EXCEPT ![t] =
              (deferred[t] \o << Header(t, "str", n) >>) \o StrBody(t, c.val)]
        /\ log' = [log EXCEPT ![t] = Hidden(log[t], EventOf(t, c))]
    BY DEF cba_defer_str, Calls, Idle, harm
  <1>2. Holds(t, Now(t), deferred[t], << >>, log[t], script[t], cut[t])
    BY <1>1 DEF CbaInv, ThreadInv
  <1>3. Holds(t, Now(t), df, << >>, l, Tail(script[t]), cut[t])
    BY <1>1, <1>2, DeferHolds
  <1>4. EventOf(t, c) = Meant(c, n)
    BY <1>1 DEF EventOf, Meant, CodeOf
  <1>5. (deferred[t] \o << Header(t, "str", n) >>) \o StrBody(t, c.val) = df
    <2>1. Written(t, c, n) = << Header(t, "str", n) >> \o StrBody(t, c.val)
      BY <1>1 DEF Written, Body, TypeOf
    <2>2. IsSeq(deferred[t])
      BY <1>2 DEF Holds, Good, TokensOf
    <2>3. IsSeq(<< Header(t, "str", n) >>) /\ IsSeq(StrBody(t, c.val))
      BY SeqOne, PairIsSeq DEF StrBody
    <2> DEFINE x == deferred[t]  y == << Header(t, "str", n) >>  z == StrBody(t, c.val)
    <2> HIDE DEF x, y, z
    <2>4. (x \o y) \o z = x \o (y \o z)
      <3>1. IsSeq(x) /\ IsSeq(y) /\ IsSeq(z)
        BY <2>2, <2>3 DEF x, y, z
      <3> QED
        BY <3>1, JoinAssoc
    <2> QED
      BY <2>1, <2>4 DEF x, y, z
  <1> HIDE DEF df, c, n
  <1>6. deferred' = [deferred EXCEPT ![t] = df] /\ log' = [log EXCEPT ![t] = l]
    BY <1>1, <1>4, <1>5
  <1> HIDE DEF l
  <1> QED
    BY <1>1, <1>3, <1>6, QuietInv

\* An event's writes and its record, as the action and as the lemmas put them.
LEMMA CallIsEvent ==
    ASSUME CbaInv, NEW t \in Threads, EventCall(t)
    PROVE  LET c == Head(script[t])  n == CodeOf(t, c)
           IN  /\ todo[t] = << >> /\ script[t] # << >> /\ c.op \in EventOps
               /\ todo' = [todo EXCEPT ![t] = Written(t, c, n)]
               /\ deferred' = [deferred EXCEPT ![t] = << >>]
               /\ log' = [log EXCEPT ![t] = Recorded(log[t], Meant(c, n))]
               /\ script' = [script EXCEPT ![t] = Tail(script[t])]
               /\ fd_lock' = fd_lock /\ fd_lock # t
               /\ Holds(t, Now(t), deferred[t], << >>, log[t], script[t], cut[t])
               /\ Starting(Written(t, c, n))
  <1> DEFINE c == Head(script[t])  n == CodeOf(t, c)
  <1>1. /\ todo[t] = << >> /\ script[t] # << >> /\ c.op \in EventOps
        /\ deferred' = [deferred EXCEPT ![t] = << >>]
        /\ script' = [script EXCEPT ![t] = Tail(script[t])]
        /\ fd_lock' = fd_lock /\ fd_lock # t
    BY DEF EventCall, Calls, Idle, EventOps
  <1>2. todo' = [todo EXCEPT ![t] = Written(t, c, n)]
    BY DEF EventCall, Written
  <1>3. log' = [log EXCEPT ![t] = Recorded(log[t], Meant(c, n))]
    BY DEF EventCall, EventOf, Meant
  <1>4. Holds(t, Now(t), deferred[t], << >>, log[t], script[t], cut[t])
    BY <1>1 DEF CbaInv, ThreadInv
  <1>5. Starting(Written(t, c, n))
    <2>1. IsCall(c)
      BY <1>1, <1>4, ScriptTail DEF Holds, Good
    <2> HIDE DEF c, n
    <2> QED
      BY <1>1, <2>1, WrittenIsTodo DEF Starting
  <1> HIDE DEF c, n
  <1> QED
    BY <1>1, <1>2, <1>3, <1>4, <1>5 DEF c, n

LEMMA EventInv ==
    ASSUME CbaInv, NEW t \in Threads, Event(t), UNCHANGED harm
    PROVE  CbaInv'
  <1> DEFINE c == Head(script[t])  n == CodeOf(t, c)  w == Written(t, c, n)
             l == Recorded(log[t], Meant(c, n))  f == FlushOf(deferred[t])
  <1>1. /\ todo[t] = << >> /\ script[t] # << >> /\ c.op \in EventOps
        /\ todo' = [todo EXCEPT ![t] = w] /\ deferred' = [deferred EXCEPT ![t] = << >>]
        /\ log' = [log EXCEPT ![t] = l] /\ script' = [script EXCEPT ![t] = Tail(script[t])]
        /\ fd_lock' = fd_lock /\ fd_lock # t
        /\ Holds(t, Now(t), deferred[t], << >>, log[t], script[t], cut[t])
        /\ Starting(w)
    BY CallIsEvent DEF Event
  <1>2. file' = file \o f /\ cut' = cut
    BY DEF Event, Flushed, FlushOf, harm
  <1>3. TokensOf(t, deferred[t])
    BY <1>1 DEF Holds, Good
  <1>4. /\ IsSeq(f) /\ \A i \in 1 .. Len(f) : IsToken(f[i]) /\ f[i].by = t /\ f[i].flush = TRUE
        /\ ReadAll(Now(t), f) = ReadAll(Now(t), deferred[t])
    BY <1>3, FlushShape
  <1>5. /\ IsSeq(file) /\ \A i \in 1 .. Len(file) : IsToken(file[i])
        /\ DOMAIN deferred = Threads /\ DOMAIN todo = Threads /\ DOMAIN log = Threads
        /\ DOMAIN script = Threads /\ DOMAIN cut = Threads
    BY DEF CbaInv, ShapeInv
  <1>6. Holds(t, ReadAll(Now(t), deferred[t]), << >>, w, l, Tail(script[t]), cut[t])
    BY <1>1, EventHolds
  <1> HIDE DEF c, n, w, l, f
  <1>7. Now(t)' = ReadAll(Now(t), f) /\ (\A u \in Threads : u # t => Now(u)' = Now(u)) /\ Held' = Held
    BY <1>2, <1>4, <1>5, FileStep
  <1>8. /\ deferred'[t] = << >> /\ todo'[t] = w /\ log'[t] = l /\ script'[t] = Tail(script[t])
        /\ \A u \in Threads : u # t =>
              /\ deferred'[u] = deferred[u] /\ todo'[u] = todo[u] /\ log'[u] = log[u]
              /\ script'[u] = script[u]
        /\ DOMAIN deferred' = Threads /\ DOMAIN todo' = Threads /\ DOMAIN log' = Threads
        /\ DOMAIN script' = Threads /\ DOMAIN cut' = Threads
    BY <1>1, <1>2, <1>5
  <1>9. ThreadInv(t)'
    BY <1>2, <1>4, <1>6, <1>7, <1>8 DEF ThreadInv
  <1>10. (\A u \in Threads : ThreadInv(u))'
    BY <1>2, <1>7, <1>8, <1>9, OthersHold DEF CbaInv
  <1>11. ShapeInv'
    <2>1. IsSeq(file') /\ \A i \in 1 .. Len(file') : IsToken(file'[i])
      BY <1>2, <1>4, <1>5, TokensOver
    <2> QED
      BY <1>8, <2>1 DEF ShapeInv
  <1>12. LockInv'
    <2>1. ~Inside(w) /\ ~Inside(todo[t])
      BY <1>1 DEF Starting, Inside
    <2>2. \A u \in Threads : (Inside(todo'[u]) <=> Inside(todo[u])) /\ (Inside(todo[u]) => todo'[u] = todo[u])
      BY <1>8, <2>1
    <2>3. AllWhole' <=> AllWhole
      BY <1>2 DEF AllWhole
    <2> QED
      BY <1>1, <1>7, <2>2, <2>3 DEF CbaInv, LockInv
  <1> QED
    BY <1>10, <1>11, <1>12 DEF CbaInv

\* One write of an event, under the lock.
LEMMA WriteInv ==
    ASSUME CbaInv, NEW t \in Threads, do_write(t), UNCHANGED harm
    PROVE  CbaInv'
  <1> DEFINE k == Head(todo[t])  td == Tail(todo[t])
  <1>1. /\ todo[t] # << >> /\ fd_lock = t /\ fd_lock' = fd_lock
        /\ file' = Append(file, k) /\ todo' = [todo EXCEPT ![t] = td]
        /\ deferred' = deferred /\ log' = log /\ script' = script /\ cut' = cut
    BY DEF do_write, harm
  <1>2. Holds(t, Now(t), deferred[t], todo[t], log[t], script[t], cut[t])
    BY DEF CbaInv, ThreadInv
  <1>3. Good(t, Now(t), deferred[t], todo[t], log[t], script[t], cut[t])
    BY <1>2 DEF Holds
  <1>4. TokensOf(t, todo[t]) /\ Inner(td)
    BY <1>1, <1>3 DEF Good
  <1>5. /\ IsSeq(file) /\ \A i \in 1 .. Len(file) : IsToken(file[i])
        /\ DOMAIN deferred = Threads /\ DOMAIN todo = Threads /\ DOMAIN log = Threads
        /\ DOMAIN script = Threads /\ DOMAIN cut = Threads
    BY DEF CbaInv, ShapeInv
  <1>6. Holds(t, Decode(Now(t), k), deferred[t], td, log[t], script[t], cut[t])
    BY <1>1, <1>2, WriteHolds
  <1>7. IsToken(k) /\ k.by = t /\ k.flush = FALSE
    BY <1>1, <1>4, TokensTail
  <1>8. td # << >> => Inside(td)
    BY <1>1, <1>4, TokensTail DEF Inside
  <1>9. Inside(todo[t]) \/ Starting(todo[t])
    BY <1>1 DEF Inside, Starting
  <1>10. Inside(todo[t]) => ReadAll(Held, todo[t]) = ReadAll(Decode(Held, k), td)
    BY <1>1, <1>4, ReadFirst DEF TokensOf
  <1>11. Calm(Held) /\ Starting(todo[t]) => Calm(ReadAll(Decode(Held, k), td))
    <2>1. ReadAll(Held, todo[t]) = ReadAll(Decode(Held, k), td)
      BY <1>1, <1>4, ReadFirst DEF TokensOf
    <2>2. Starting(todo[t]) => (Calm(Held) => Calm(ReadAll(Held, todo[t])))
      BY <1>3 DEF Good
    <2> QED
      BY <2>1, <2>2
  <1> HIDE DEF k, td
  <1>12. /\ Now(t)' = Decode(Now(t), k) /\ (\A u \in Threads : u # t => Now(u)' = Now(u))
         /\ Held' = Decode(Held, k)
         /\ IsSeq(file') /\ \A i \in 1 .. Len(file') : IsToken(file'[i])
    <2> DEFINE s == <<k>>
    <2>1. IsSeq(s) /\ Len(s) = 1 /\ s[1] = k
      BY SeqOne
    <2>2. \A r : ReadAll(r, s) = Decode(r, k)
      BY ReadOne
    <2>3. file' = file \o s
      BY <1>1, <1>5, SeqAppend
    <2> HIDE DEF s
    <2>4. \A i \in 1 .. Len(s) : i = 1
      BY <2>1
    <2>5. \A i \in 1 .. Len(s) : IsToken(s[i]) /\ s[i].by = t /\ s[i].flush = FALSE
      BY <1>7, <2>1, <2>4
    <2>6. /\ Now(t)' = ReadAll(Now(t), s) /\ (\A u \in Threads : u # t => Now(u)' = Now(u))
          /\ Held' = ReadAll(Held, s)
      BY <1>5, <2>1, <2>3, <2>5, FileStep
    <2>7. IsSeq(file') /\ \A i \in 1 .. Len(file') : IsToken(file'[i])
      BY <1>5, <2>1, <2>3, <2>5, TokensOver
    <2> QED
      BY <2>2, <2>6, <2>7
  <1>13. todo'[t] = td /\ (\A u \in Threads : u # t => todo'[u] = todo[u]) /\ DOMAIN todo' = Threads
    BY <1>1, <1>5
  <1>14. ThreadInv(t)'
    BY <1>1, <1>6, <1>12, <1>13 DEF ThreadInv
  <1>15. (\A u \in Threads : ThreadInv(u))'
    BY <1>1, <1>12, <1>13, <1>14, OthersHold DEF CbaInv
  <1>16. ShapeInv'
    BY <1>1, <1>5, <1>12, <1>13 DEF ShapeInv
  <1>17. LockInv'
    <2>1. \A u \in Threads : u # t => ~Inside(todo[u]) /\ ~Inside(todo'[u])
      BY <1>1, <1>13 DEF CbaInv, LockInv
    <2>2. AllWhole' <=> AllWhole
      BY <1>1 DEF AllWhole
    <2>3. AllWhole => Calm(ReadAll(Held', td))
      <3>1. CASE Inside(todo[t])
        BY <1>10, <1>12, <3>1 DEF CbaInv, LockInv
      <3>2. CASE ~Inside(todo[t])
        BY <1>9, <1>11, <1>12, <2>1, <3>2 DEF CbaInv, LockInv
      <3> QED
        BY <3>1, <3>2
    <2>4. ~Inside(td) => ReadAll(Held', td) = Held'
      BY <1>8, ReadNothing, SeqOne
    <2> QED
      BY <1>1, <1>13, <2>1, <2>2, <2>3, <2>4 DEF LockInv
  <1> QED
    BY <1>15, <1>16, <1>17 DEF CbaInv

\* A cut thread is not whole.
LEMMA CutIs ==
    ASSUME CbaInv, NEW t \in Threads, NEW n \in Nat, cut' = Cut(t, n)
    PROVE  /\ cut'[t] = CutTo(cut[t], n) /\ DOMAIN cut' = Threads /\ cut'[t] # Whole
           /\ \A u \in Threads : u # t => cut'[u] = cut[u]
  <1>1. DOMAIN cut = Threads
    BY DEF CbaInv, ShapeInv
  <1>2. /\ cut'[t] = CutTo(cut[t], n) /\ DOMAIN cut' = Threads
        /\ \A u \in Threads : u # t => cut'[u] = cut[u]
    BY <1>1 DEF Cut, CutTo
  <1>3. cut[t] = Whole \/ \E m \in Nat : cut[t] = <<m>>
    BY DEF CbaInv, ThreadInv, Holds, Good
  <1> QED
    BY <1>2, <1>3, CutToShape

LEMMA LogLength ==
    ASSUME CbaInv, NEW t \in Threads
    PROVE  IsLog(log[t]) /\ Len(log[t].entries) \in Nat
           /\ (log[t].entries # << >> => Len(log[t].entries) - 1 \in Nat)
  <1>1. IsLog(log[t])
    BY DEF CbaInv, ThreadInv, Holds, Good
  <1>2. IsSeq(log[t].entries)
    BY <1>1 DEF IsLog
  <1> QED
    BY <1>1, <1>2, SeqTail, SeqLen

LEMMA WriteFailsInv ==
    ASSUME CbaInv, NEW t \in Threads, WriteFails(t)
    PROVE  CbaInv'
  <1> DEFINE td == Tail(todo[t])  n == Len(log[t].entries)
  <1>1. /\ todo[t] # << >> /\ fd_lock = t /\ fd_lock' = fd_lock
        /\ file' = file /\ todo' = [todo EXCEPT ![t] = td] /\ cut' = Cut(t, n)
        /\ deferred' = deferred /\ log' = log /\ script' = script
    BY DEF WriteFails
  <1>2. n \in Nat
    BY LogLength
  <1>3. Holds(t, Now(t), deferred[t], todo[t], log[t], script[t], cut[t])
    BY DEF CbaInv, ThreadInv
  <1>4. Holds(t, Now(t), deferred[t], td, log[t], script[t], CutTo(cut[t], n))
    BY <1>1, <1>3, WriteFailHolds
  <1> HIDE DEF td, n
  <1>5. /\ cut'[t] = CutTo(cut[t], n) /\ DOMAIN cut' = Threads /\ cut'[t] # Whole
        /\ \A u \in Threads : u # t => cut'[u] = cut[u]
    BY <1>1, <1>2, CutIs
  <1>6. todo'[t] = td /\ (\A u \in Threads : u # t => todo'[u] = todo[u]) /\ DOMAIN todo' = Threads
    BY <1>1 DEF CbaInv, ShapeInv
  <1>7. \A u \in Threads : Now(u)' = Now(u)
    BY <1>1, FileStays
  <1>8. ThreadInv(t)'
    BY <1>1, <1>4, <1>5, <1>6, <1>7 DEF ThreadInv
  <1>9. (\A u \in Threads : ThreadInv(u))'
    BY <1>1, <1>5, <1>6, <1>7, <1>8, OthersHold DEF CbaInv
  <1>10. ShapeInv'
    BY <1>1, <1>5, <1>6 DEF CbaInv, ShapeInv
  <1>11. LockInv'
    BY <1>1, <1>5, <1>6 DEF CbaInv, LockInv, AllWhole
  <1> QED
    BY <1>9, <1>10, <1>11 DEF CbaInv

LEMMA FlushFailsInv ==
    ASSUME CbaInv, NEW t \in Threads, FlushFails(t)
    PROVE  CbaInv'
  <1> DEFINE c == Head(script[t])  n == CodeOf(t, c)  w == Written(t, c, n)
             l == Recorded(log[t], Meant(c, n))
             m == IF log[t].entries = << >> THEN 0 ELSE Len(log[t].entries) - 1
  <1>1. /\ todo[t] = << >> /\ script[t] # << >> /\ c.op \in EventOps
        /\ todo' = [todo EXCEPT ![t] = w] /\ deferred' = [deferred EXCEPT ![t] = << >>]
        /\ log' = [log EXCEPT ![t] = l] /\ script' = [script EXCEPT ![t] = Tail(script[t])]
        /\ fd_lock' = fd_lock /\ fd_lock # t
        /\ Holds(t, Now(t), deferred[t], << >>, log[t], script[t], cut[t])
        /\ Starting(w)
    BY CallIsEvent DEF FlushFails
  <1>2. file' = file /\ cut' = Cut(t, m) /\ deferred[t] # << >>
    BY DEF FlushFails
  <1>3. m \in Nat
    BY LogLength
  <1>4. Holds(t, Now(t), << >>, w, l, Tail(script[t]), CutTo(cut[t], m))
    BY <1>1, <1>2, FlushFailHolds
  <1> HIDE DEF c, n, w, l, m
  <1>5. /\ cut'[t] = CutTo(cut[t], m) /\ DOMAIN cut' = Threads /\ cut'[t] # Whole
        /\ \A u \in Threads : u # t => cut'[u] = cut[u]
    BY <1>2, <1>3, CutIs
  <1>6. /\ DOMAIN deferred = Threads /\ DOMAIN todo = Threads /\ DOMAIN log = Threads
        /\ DOMAIN script = Threads
    BY DEF CbaInv, ShapeInv
  <1>7. /\ deferred'[t] = << >> /\ todo'[t] = w /\ log'[t] = l /\ script'[t] = Tail(script[t])
        /\ \A u \in Threads : u # t =>
              /\ deferred'[u] = deferred[u] /\ todo'[u] = todo[u] /\ log'[u] = log[u]
              /\ script'[u] = script[u]
        /\ DOMAIN deferred' = Threads /\ DOMAIN todo' = Threads /\ DOMAIN log' = Threads
        /\ DOMAIN script' = Threads
    BY <1>1, <1>6
  <1>8. \A u \in Threads : Now(u)' = Now(u)
    BY <1>2, FileStays
  <1>9. ThreadInv(t)'
    BY <1>4, <1>5, <1>7, <1>8 DEF ThreadInv
  <1>10. (\A u \in Threads : ThreadInv(u))'
    BY <1>5, <1>7, <1>8, <1>9, OthersHold DEF CbaInv
  <1>11. ShapeInv'
    BY <1>2, <1>5, <1>7 DEF CbaInv, ShapeInv
  <1>12. LockInv'
    <2>1. ~Inside(w)
      BY <1>1 DEF Starting, Inside
    <2> QED
      BY <1>1, <1>5, <1>7, <2>1 DEF CbaInv, LockInv, AllWhole
  <1> QED
    BY <1>10, <1>11, <1>12 DEF CbaInv

\* The process is killed and run again: an event begun is cut.
LEMMA RestartInv ==
    ASSUME CbaInv, Restart
    PROVE  CbaInv'
  <1>1. /\ file' = file /\ fd_lock' = NoOne /\ script' = Started
        /\ deferred' = [t \in Threads |-> << >>] /\ todo' = [t \in Threads |-> << >>]
        /\ log' = [t \in Threads |-> Lost(t)]
        /\ cut' = [t \in Threads |-> IF InEvent(t) THEN Cut(t, Len(log[t].entries))[t] ELSE cut[t]]
    BY DEF Restart
  <1>2. DOMAIN cut = Threads
    BY DEF CbaInv, ShapeInv
  <1>3. ASSUME NEW t \in Threads
        PROVE  /\ deferred'[t] = << >> /\ todo'[t] = << >> /\ script'[t] = Started[t]
               /\ log'[t] = LostOf(log[t], todo[t])
               /\ cut'[t] = IF Inside(todo[t]) THEN CutTo(cut[t], Len(log[t].entries)) ELSE cut[t]
    <2>1. Cut(t, Len(log[t].entries))[t] = CutTo(cut[t], Len(log[t].entries))
      BY <1>2 DEF Cut, CutTo
    <2>2. InEvent(t) <=> Inside(todo[t])
      BY DEF InEvent, Inside
    <2>3. Lost(t) = LostOf(log[t], todo[t])
      BY DEF Lost, LostOf
    <2> QED
      BY <1>1, <2>1, <2>2, <2>3
  <1>4. (\A u \in Threads : Now(u)' = Now(u)) /\ Held' = Held
    BY <1>1, FileStays
  <1>5. ASSUME NEW t \in Threads PROVE ThreadInv(t)'
    <2>1. Holds(t, Now(t), deferred[t], todo[t], log[t], script[t], cut[t])
      BY DEF CbaInv, ThreadInv
    <2>2. Holds(t, Now(t), << >>, << >>, LostOf(log[t], todo[t]), Started[t],
                IF Inside(todo[t]) THEN CutTo(cut[t], Len(log[t].entries)) ELSE cut[t])
      BY <2>1, StartedScripts, RestartHolds
    <2> QED
      BY <1>3, <1>4, <2>2 DEF ThreadInv
  <1>6. ShapeInv'
    BY <1>1 DEF CbaInv, ShapeInv, Started
  <1>7. LockInv'
    <2>1. \A t \in Threads : ~Inside(todo'[t])
      BY <1>3 DEF Inside
    <2>2. ASSUME AllWhole' PROVE AllWhole /\ \A t \in Threads : ~Inside(todo[t])
      <3>1. ASSUME NEW t \in Threads PROVE cut[t] = Whole /\ ~Inside(todo[t])
        <4>1. cut'[t] = Whole
          BY <2>2 DEF AllWhole
        <4>2. Inside(todo[t]) => CutTo(cut[t], Len(log[t].entries)) # Whole
          <5>1. cut[t] = Whole \/ \E m \in Nat : cut[t] = <<m>>
            BY DEF CbaInv, ThreadInv, Holds, Good
          <5> QED
            BY <5>1, LogLength, CutToShape
        <4> QED
          BY <1>3, <4>1, <4>2
      <3> QED
        BY <3>1 DEF AllWhole
    <2> QED
      BY <1>4, <2>1, <2>2 DEF CbaInv, LockInv
  <1> QED
    BY <1>5, <1>6, <1>7 DEF CbaInv

LEMMA NextInv == CbaInv /\ [Next]_vars => CbaInv'
  <1> SUFFICES ASSUME CbaInv, [Next]_vars PROVE CbaInv'
    OBVIOUS
  <1>1. CASE UNCHANGED vars
    BY <1>1, SameInv DEF vars, writer, harm
  <1>2. CASE Write /\ UNCHANGED harm
    <2>1. CASE StartWorker
      BY <1>2, <2>1, SameInv DEF StartWorker, harm
    <2>2. ASSUME NEW t \in Threads, Begin(t) PROVE CbaInv'
      BY <1>2, <2>2, BeginInv
    <2>3. ASSUME NEW t \in Threads, cba_code(t) PROVE CbaInv'
      BY <1>2, <2>3, CodeInv
    <2>4. ASSUME NEW t \in Threads, cba_head(t) PROVE CbaInv'
      BY <1>2, <2>4, HeadInv
    <2>5. ASSUME NEW t \in Threads, cba_defer_str(t) PROVE CbaInv'
      BY <1>2, <2>5, DeferInv
    <2>6. ASSUME NEW t \in Threads, Event(t) PROVE CbaInv'
      BY <1>2, <2>6, EventInv
    <2>7. ASSUME NEW t \in Threads, Lock(t) PROVE CbaInv'
      BY <1>2, <2>7, LockInvStep
    <2>8. ASSUME NEW t \in Threads, do_write(t) PROVE CbaInv'
      BY <1>2, <2>8, WriteInv
    <2>9. ASSUME NEW t \in Threads, Unlock(t) PROVE CbaInv'
      BY <1>2, <2>9, UnlockInvStep
    <2> QED
      BY <1>2, <2>1, <2>2, <2>3, <2>4, <2>5, <2>6, <2>7, <2>8, <2>9 DEF Write
  <1>3. ASSUME NEW t \in Threads, WriteFails(t) PROVE CbaInv'
    BY <1>3, WriteFailsInv
  <1>4. ASSUME NEW t \in Threads, FlushFails(t) PROVE CbaInv'
    BY <1>4, FlushFailsInv
  <1>5. CASE Restart
    BY <1>5, RestartInv
  <1> QED
    BY <1>1, <1>2, <1>3, <1>4, <1>5 DEF Next

\* The inductive invariant: what each thread has written, deferred and has
\* still to write decodes, in this order, to what its calls describe; an
\* event begun is written by the owner of fd_lock, and completing it leaves
\* the reader of all the locked writes between two packets.
THEOREM CbaIsInductive == Spec => []CbaInv
  BY InitInv, NextInv, PTL DEF Spec

LEMMA HeldIsDecoded ==
    ASSUME CbaInv
    PROVE  LockedEventsAreWhole
  <1>1. ReadingAt(Unflushed) = Held
    BY DEF ReadingAt, Held, ReadSome
  <1> SUFFICES ASSUME AllWhole
               PROVE  Held.want # "lost" /\ (fd_lock = NoOne => Held.want = "packet")
    BY <1>1 DEF LockedEventsAreWhole, AllWhole
  <1>2. Later(R!Start, Held)
    BY StartIsReader, ReadIsLater DEF CbaInv, ShapeInv, Held, Calm
  <1>3. CASE \A t \in Threads : ~Inside(todo[t])
    BY <1>3 DEF CbaInv, LockInv, Calm
  <1>4. ASSUME NEW t \in Threads, Inside(todo[t])
        PROVE  Held.want # "lost" /\ fd_lock # NoOne
    <2>1. fd_lock = t /\ Calm(ReadAll(Held, todo[t]))
      BY <1>4 DEF CbaInv, LockInv
    <2>2. TokensOf(t, todo[t])
      BY DEF CbaInv, ThreadInv, Holds, Good
    <2>3. Later(Held, ReadAll(Held, todo[t]))
      BY <1>2, <2>2, ReadIsLater DEF Later, Longer, TokensOf, ReadAll
    <2> QED
      BY <2>1, <2>3, CbaAssumption DEF Later, Calm
  <1> QED
    BY <1>3, <1>4

\* For any number of threads, any scripts and any buffer size: leave out the
\* deferred buffers, which cba_flush writes without fd_lock, and every packet
\* of every event decodes; between two events the reader expects a header.
THEOREM LockedEventsDecode == Spec => []LockedEventsAreWhole
  <1>1. CbaInv => LockedEventsAreWhole
    BY HeldIsDecoded
  <1> QED
    BY <1>1, CbaIsInductive, PTL

LEMMA PrefixOf ==
    ASSUME NEW a, NEW b, IsSeq(a), IsSeq(b), NEW n \in 0 .. Len(a), n <= Len(b),
           \A i \in 1 .. n : b[i] = a[i]
    PROVE  IsPrefix(SubSeq(a, 1, n), b)
  <1>1. PICK S : a \in Seq(S) /\ b \in Seq(S)
    BY SeqOver
  <1>2. Len(a) \in Nat /\ Len(b) \in Nat
    BY SeqLen
  <1> DEFINE s == SubSeq(a, 1, n)
  <1>3. s \in Seq(S) /\ Len(s) = n /\ \A i \in 1 .. n : s[i] = a[i]
    BY <1>1, <1>2
  <1>4. SubSeq(b, 1, n) \in Seq(S) /\ Len(SubSeq(b, 1, n)) = n /\ \A i \in 1 .. n : SubSeq(b, 1, n)[i] = b[i]
    BY <1>1, <1>2
  <1> HIDE DEF s
  <1>5. SubSeq(s, 1, n) \in Seq(S) /\ Len(SubSeq(s, 1, n)) = n /\ \A i \in 1 .. n : SubSeq(s, 1, n)[i] = s[i]
    BY <1>2, <1>3
  <1>6. SubSeq(s, 1, n) = SubSeq(b, 1, n)
    BY <1>3, <1>4, <1>5
  <1> QED
    BY <1>2, <1>3, <1>6 DEF IsPrefix, s

LEMMA EntriesAreRead ==
    ASSUME CbaInv
    PROVE  EntriesComeBack
  <1>1. ASSUME NEW t \in Threads, Idle(t)
        PROVE  LET r == Now(t)  final == R!Final(r, "all")
               IN  IF cut[t] = Whole
                   THEN /\ r.out \o final[t] = Closed(t, log[t])
                        /\ \A u \in Threads \ {t} : final[u] = << >>
                   ELSE IsPrefix(SubSeq(log[t].entries, 1, cut[t][1]), r.out)
    <2> DEFINE r == Now(t)  l == log[t]  final == R!Final(r, "all")
    <2>1. Holds(t, r, deferred[t], << >>, l, script[t], cut[t])
      BY <1>1 DEF CbaInv, ThreadInv, Idle
    <2>2. IsLog(l) /\ IsSeq(r.out)
      BY <2>1 DEF Holds, Good
    <2> HIDE DEF r, l
    <2>3. \A u \in Threads : final[u] = R!Result(u, r.state[u], "all")
      BY DEF R!Final
    <2> HIDE DEF final
    <2>4. CASE cut[t] = Whole
      <3>1. \/ At(r, t, l.entries, l.open.module, l.open.events)
            \/ Past(r, t, l)
        BY <2>1, <2>4 DEF Holds, Between, Writing, Deferring
      <3>2. r.out \o R!Result(t, r.state[t], "all") = Closed(t, l)
        BY <2>2, <3>1, ClosedIsYielded
      <3>3. Alone(r, t)
        BY <3>1 DEF At, Past
      <3>4. \A u \in Threads \ {t} : R!Result(u, r.state[u], "all") = << >>
        BY <3>3 DEF Alone, R!Result
      <3> QED
        BY <2>3, <2>4, <3>2, <3>4 DEF r, l, final
    <2>5. CASE cut[t] # Whole
      <3>1. CutAt(r, l, cut[t][1])
        BY <2>1, <2>5 DEF Holds
      <3>2. IsPrefix(SubSeq(l.entries, 1, cut[t][1]), r.out)
        BY <2>2, <3>1, PrefixOf DEF CutAt, IsLog
      <3> QED
        BY <2>5, <3>2 DEF r, l
    <2> QED
      BY <2>4, <2>5
  <1>2. \A t : ReadingAt(Mine(t)) = Now(t)
    BY DEF ReadingAt, Now, ReadSome
  <1> QED
    BY <1>1, <1>2 DEF EntriesComeBack

\* For any number of threads, any scripts, any buffer size and any number of
\* kills and failed writes: between two calls of a thread, reading what it
\* wrote gives exactly the entries its calls describe, in order; after a
\* fault, the entries that were over before it.
THEOREM EntriesAreReadBack == Spec => []EntriesComeBack
  <1>1. CbaInv => EntriesComeBack
    BY EntriesAreRead
  <1> QED
    BY <1>1, CbaIsInductive, PTL
====

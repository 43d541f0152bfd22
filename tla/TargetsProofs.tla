--------------------------- MODULE TargetsProofs ---------------------------
(***************************************************************************)
(* Targets, for every list of ranges and every portspec: what is compiled   *)
(* and loaded can be searched, random_ip returns the target of the rank it  *)
(* draws, random_port the port that owns the point.                         *)
(***************************************************************************)
EXTENDS Targets, FiniteSetTheorems, WellFoundedInduction, TLAPS

-----------------------------------------------------------------------------
(* The recursive functions: sums, and the doubling of a mask.              *)

\* A set of naturals has a least element: induction without a predicate.
LEMMA LeastNumber ==
    ASSUME NEW T, T \subseteq Nat, T # {}
    PROVE  \E m \in T : \A x \in T : m <= x
  <1>1. IsWellFoundedOn(OpToRel(<, Nat), Nat)
    BY NatLessThanWellFounded
  <1>2. PICK m \in T : \A y \in T : ~(<<y, m>> \in OpToRel(<, Nat))
    BY <1>1, WFMin
  <1>3. \A y \in T : ~(y < m)
    BY <1>2 DEF OpToRel
  <1> QED
    BY <1>3

\* f holds the sums of the first 0, 1, ..., n numbers of s.
Sums(f, s, n) == f = [m \in 0 .. n |-> IF m = 0 THEN 0 ELSE f[m - 1] + s[m]]

LEMMA SumsExist ==
    ASSUME NEW s, NEW n \in Nat
    PROVE  \E f : Sums(f, s, n)
  <1> DEFINE T == {m \in 0 .. n : ~\E f : Sums(f, s, m)}
  <1> SUFFICES ASSUME T # {} PROVE FALSE
    OBVIOUS
  <1>1. PICK m \in T : \A x \in T : m <= x
    <2>1. T \subseteq Nat
      OBVIOUS
    <2> QED
      BY <2>1, LeastNumber
  <1>2. m \in 0 .. n /\ ~\E f : Sums(f, s, m)
    OBVIOUS
  <1>3. CASE m = 0
    <2> DEFINE f == [i \in 0 .. 0 |-> 0]
    <2>1. Sums(f, s, 0)
      BY DEF Sums
    <2> QED
      BY <1>2, <1>3, <2>1
  <1>4. CASE m # 0
    <2>1. m - 1 \in 0 .. n /\ m - 1 \notin T
      BY <1>1, <1>2, <1>4
    <2>2. PICK f : Sums(f, s, m - 1)
      BY <2>1
    <2> DEFINE g == [i \in 0 .. m |-> IF i = 0 THEN 0 ELSE f[i - 1] + s[i]]
               h == [i \in 0 .. m |-> IF i = 0 THEN 0 ELSE g[i - 1] + s[i]]
    <2>3. \A i \in 0 .. m - 1 : g[i] = f[i]
      BY <1>2, <2>2 DEF Sums
    <2>4. \A i \in 0 .. m : i # 0 => i - 1 \in 0 .. m - 1
      BY <1>2
    <2>5. g = h
      <3>1. ASSUME NEW i \in 0 .. m PROVE g[i] = h[i]
        BY <2>3, <2>4
      <3> HIDE DEF h
      <3>2. h = [i \in 0 .. m |-> h[i]] /\ g = [i \in 0 .. m |-> g[i]]
        BY DEF h
      <3> HIDE DEF g
      <3> QED
        BY <3>1, <3>2
    <2>6. Sums(g, s, m)
      <3> HIDE DEF g
      <3> QED
        BY <2>5 DEF Sums
    <2> QED
      BY <1>2, <2>6
  <1> QED
    BY <1>3, <1>4

\* What SumUpTo computes.
LEMMA SumSteps ==
    ASSUME NEW s, NEW n \in Nat, Len(s) = n
    PROVE  /\ SumUpTo(s, 0) = 0
           /\ \A i \in 1 .. n : SumUpTo(s, i) = SumUpTo(s, i - 1) + s[i]
  <1> DEFINE f == CHOOSE f : Sums(f, s, n)
  <1>1. Sums(f, s, n)
    BY SumsExist
  <1>2. \A i : SumUpTo(s, i) = f[i]
    BY DEF SumUpTo, Sums
  <1> HIDE DEF f
  <1>3. f[0] = 0 /\ \A i \in 1 .. n : f[i] = f[i - 1] + s[i]
    BY <1>1 DEF Sums
  <1> QED
    BY <1>2, <1>3

\* The sums of natural numbers do not decrease.
LEMMA SumGrows ==
    ASSUME NEW s, NEW n \in Nat, Len(s) = n, \A i \in 1 .. n : s[i] \in Nat
    PROVE  /\ \A i \in 0 .. n : SumUpTo(s, i) \in Nat
           /\ \A i, j \in 0 .. n : i <= j => SumUpTo(s, i) <= SumUpTo(s, j)
  <1> DEFINE F(i) == SumUpTo(s, i)
  <1>1. F(0) = 0 /\ \A i \in 1 .. n : F(i) = F(i - 1) + s[i]
    BY SumSteps
  <1> HIDE DEF F
  <1>2. ASSUME NEW j \in 0 .. n, ~(F(j) \in Nat /\ \A i \in 0 .. j : F(i) \in Nat /\ F(i) <= F(j))
        PROVE  FALSE
    <2> DEFINE T == {k \in 0 .. n : ~(F(k) \in Nat /\ \A i \in 0 .. k : F(i) \in Nat /\ F(i) <= F(k))}
    <2>1. T \subseteq Nat /\ T # {}
      BY <1>2
    <2>2. PICK m \in T : \A x \in T : m <= x
      BY <2>1, LeastNumber
    <2>3. m # 0
      BY <1>1, <2>2
    <2>4. m - 1 \in 0 .. n /\ m - 1 \notin T /\ m \in 1 .. n
      BY <2>2, <2>3
    <2>5. F(m - 1) \in Nat /\ \A i \in 0 .. m - 1 : F(i) \in Nat /\ F(i) <= F(m - 1)
      BY <2>4
    <2>6. F(m) = F(m - 1) + s[m] /\ s[m] \in Nat
      BY <1>1, <2>4
    <2>7. F(m) \in Nat /\ F(m - 1) <= F(m)
      BY <2>5, <2>6
    <2>8. ASSUME NEW i \in 0 .. m PROVE F(i) \in Nat /\ F(i) <= F(m)
      <3>1. CASE i = m
        BY <2>7, <3>1
      <3>2. CASE i # m
        <4>1. i \in 0 .. m - 1
          BY <2>4, <3>2
        <4> QED
          BY <2>5, <2>7, <4>1
      <3> QED
        BY <3>1, <3>2
    <2>9. m \notin T
      BY <2>7, <2>8
    <2> QED
      BY <2>2, <2>9
  <1> QED
    BY <1>2 DEF F

\* f holds 1, doubled 0, 1, ..., n times.
Doubles(f, n) == f = [m \in 0 .. n |-> IF m = 0 THEN 1 ELSE 2 * f[m - 1]]

LEMMA DoublesExist ==
    ASSUME NEW n \in Nat
    PROVE  \E f : Doubles(f, n)
  <1> DEFINE T == {m \in 0 .. n : ~\E f : Doubles(f, m)}
  <1> SUFFICES ASSUME T # {} PROVE FALSE
    OBVIOUS
  <1>1. PICK m \in T : \A x \in T : m <= x
    <2>1. T \subseteq Nat
      OBVIOUS
    <2> QED
      BY <2>1, LeastNumber
  <1>2. m \in 0 .. n /\ ~\E f : Doubles(f, m)
    OBVIOUS
  <1>3. CASE m = 0
    <2> DEFINE f == [i \in 0 .. 0 |-> 1]
    <2>1. Doubles(f, 0)
      BY DEF Doubles
    <2> QED
      BY <1>2, <1>3, <2>1
  <1>4. CASE m # 0
    <2>1. m - 1 \in 0 .. n /\ m - 1 \notin T
      BY <1>1, <1>2, <1>4
    <2>2. PICK f : Doubles(f, m - 1)
      BY <2>1
    <2> DEFINE g == [i \in 0 .. m |-> IF i = 0 THEN 1 ELSE 2 * f[i - 1]]
               h == [i \in 0 .. m |-> IF i = 0 THEN 1 ELSE 2 * g[i - 1]]
    <2>3. \A i \in 0 .. m - 1 : g[i] = f[i]
      BY <1>2, <2>2 DEF Doubles
    <2>4. \A i \in 0 .. m : i # 0 => i - 1 \in 0 .. m - 1
      BY <1>2
    <2>5. g = h
      <3>1. ASSUME NEW i \in 0 .. m PROVE g[i] = h[i]
        BY <2>3, <2>4
      <3> HIDE DEF h
      <3>2. h = [i \in 0 .. m |-> h[i]] /\ g = [i \in 0 .. m |-> g[i]]
        BY DEF h
      <3> HIDE DEF g
      <3> QED
        BY <3>1, <3>2
    <2>6. Doubles(g, m)
      <3> HIDE DEF g
      <3> QED
        BY <2>5 DEF Doubles
    <2> QED
      BY <1>2, <2>6
  <1> QED
    BY <1>3, <1>4

\* The mask covers what is drawn: the loop of get_binmask stops.
LEMMA MaskCovers ==
    ASSUME NEW n \in Nat
    PROVE  Mask(n) \in Nat /\ n - 1 <= Mask(n)
  <1> DEFINE f == CHOOSE f : Doubles(f, n)
             Enough(k) == f[k] >= n /\ \A j \in 0 .. k - 1 : f[j] < n
             turns == CHOOSE k \in 0 .. n : Enough(k)
  <1>1. Doubles(f, n)
    BY DoublesExist
  <1>2. Mask(n) = f[turns] - 1
    BY DEF Mask, Doubles
  <1> HIDE DEF f
  <1>3. f[0] = 1 /\ \A i \in 1 .. n : f[i] = 2 * f[i - 1]
    BY <1>1 DEF Doubles
  <1>4. \A k \in 0 .. n : f[k] \in Nat /\ f[k] > k
    <2> DEFINE T == {k \in 0 .. n : ~(f[k] \in Nat /\ f[k] > k)}
    <2> SUFFICES ASSUME T # {} PROVE FALSE
      OBVIOUS
    <2>1. T \subseteq Nat
      OBVIOUS
    <2>2. PICK m \in T : \A x \in T : m <= x
      BY <2>1, LeastNumber
    <2>3. m # 0
      BY <1>3, <2>2
    <2>4. m - 1 \in 0 .. n /\ m - 1 \notin T /\ m \in 1 .. n
      BY <2>2, <2>3
    <2>5. f[m - 1] \in Nat /\ f[m - 1] > m - 1
      BY <2>4
    <2>6. f[m] = 2 * f[m - 1]
      BY <1>3, <2>4
    <2>7. f[m] \in Nat /\ f[m] > m
      BY <2>4, <2>5, <2>6
    <2> QED
      BY <2>2, <2>7
  <1>5. \E k \in 0 .. n : Enough(k)
    <2> DEFINE T == {k \in 0 .. n : f[k] >= n}
    <2>1. n \in T /\ T \subseteq Nat
      BY <1>4
    <2>2. PICK m \in T : \A x \in T : m <= x
      BY <2>1, LeastNumber
    <2>3. ASSUME NEW j \in 0 .. m - 1 PROVE f[j] < n
      <3>1. j \in 0 .. n /\ j \notin T
        BY <2>2
      <3> QED
        BY <1>4, <3>1
    <2> QED
      BY <2>2, <2>3
  <1>6. turns \in 0 .. n /\ Enough(turns)
    BY <1>5
  <1> HIDE DEF turns
  <1> QED
    BY <1>2, <1>4, <1>6

-----------------------------------------------------------------------------
(* The configurations: what compile-targets.py and make_port_ranges make.  *)

\* c is made of these keys and counts.
MadeOf(c, keys, counts, n) ==
    /\ c.num = n
    /\ c.max_idx = SumUpTo(counts, n) - 1
    /\ c.mask = Mask(SumUpTo(counts, n))
    /\ c.key = [i \in 0 .. n - 1 |-> keys[i + 1]]
    /\ c.sofar = [i \in 0 .. n - 1 |-> SumUpTo(counts, i + 1) - 1]

\* The fields of a configuration.
LEMMA ConfigFields ==
    ASSUME NEW keys, NEW counts, NEW n \in Nat, Len(keys) = n
    PROVE  MadeOf(Config(keys, counts), keys, counts, n)
  BY DEF Config, MadeOf

LEMMA Concatenation ==
    ASSUME NEW a \in Seq(Int), NEW b \in Seq(Int)
    PROVE  /\ a \o b \in Seq(Int) /\ Len(a \o b) = Len(a) + Len(b)
           /\ \A i \in 1 .. Len(a) : (a \o b)[i] = a[i]
           /\ \A i \in 1 .. Len(b) : (a \o b)[Len(a) + i] = b[i]
  OBVIOUS

\* Reading a whole file gives the configuration that was written.
LEMMA LoadsBack ==
    ASSUME NEW c, IsConfig(c)
    PROVE  load_range_cfg(Words(c)) = c
  <1> DEFINE n == c.num
  <1>0. /\ n \in Nat /\ c.max_idx \in Int /\ c.mask \in Int
        /\ c.key \in [0 .. n - 1 -> Int] /\ c.sofar \in [0 .. n - 1 -> Int]
    BY DEF IsConfig
  <1> DEFINE head == <<n, c.max_idx, c.mask>>
             tail == [i \in 1 .. 2 * n |-> IF i % 2 = 1 THEN c.key[(i - 1) \div 2]
                                                        ELSE c.sofar[(i - 1) \div 2]]
             w == head \o tail
             At(i) == IF i <= Len(w) THEN w[i] ELSE Garbage
  <1>1. Words(c) = w
    BY DEF Words
  <1> HIDE DEF n
  <1>2. head \in Seq(Int) /\ Len(head) = 3 /\ head[1] = n /\ head[2] = c.max_idx /\ head[3] = c.mask
    BY <1>0
  <1>3. tail \in Seq(Int) /\ Len(tail) = 2 * n
    <2>1. \A i \in 1 .. 2 * n : (i - 1) \div 2 \in 0 .. n - 1
      BY <1>0
    <2>2. \A i \in 1 .. 2 * n : c.key[(i - 1) \div 2] \in Int /\ c.sofar[(i - 1) \div 2] \in Int
      BY <1>0, <2>1
    <2>3. tail \in [1 .. 2 * n -> Int]
      BY <1>0, <2>2
    <2>4. 2 * n \in Nat
      BY <1>0
    <2> HIDE DEF tail
    <2> QED
      BY <2>3, <2>4
  <1>4. \A i \in 0 .. n - 1 : /\ tail[2 * i + 1] = c.key[i]
                              /\ tail[2 * i + 2] = c.sofar[i]
    <2> SUFFICES ASSUME NEW i \in 0 .. n - 1
                 PROVE  tail[2 * i + 1] = c.key[i] /\ tail[2 * i + 2] = c.sofar[i]
      OBVIOUS
    <2>1. 2 * i + 1 \in 1 .. 2 * n /\ 2 * i + 2 \in 1 .. 2 * n
      BY <1>0
    <2>2. (2 * i + 1) % 2 = 1 /\ (2 * i + 1 - 1) \div 2 = i
      BY <1>0
    <2>3. (2 * i + 2) % 2 # 1 /\ (2 * i + 2 - 1) \div 2 = i
      BY <1>0
    <2> QED
      BY <2>1, <2>2, <2>3, SMTT(15)
  <1> HIDE DEF head, tail
  <1>c. /\ w \in Seq(Int) /\ Len(w) = Len(head) + Len(tail)
        /\ \A i \in 1 .. Len(head) : w[i] = head[i]
        /\ \A i \in 1 .. Len(tail) : w[Len(head) + i] = tail[i]
    BY <1>2, <1>3, Concatenation
  <1> HIDE DEF w
  <1>5. w \in Seq(Int) /\ Len(w) = 3 + 2 * n
    BY <1>2, <1>3, <1>c
  <1>6. w[1] = n /\ w[2] = c.max_idx /\ w[3] = c.mask
    BY <1>2, <1>c
  <1>7. \A j \in 1 .. 2 * n : w[3 + j] = tail[j]
    BY <1>2, <1>3, <1>c
  <1>8. ASSUME NEW i \in 0 .. n - 1
        PROVE  At(4 + 2 * i) = c.key[i] /\ At(5 + 2 * i) = c.sofar[i]
    <2>1. 2 * i + 1 \in 1 .. 2 * n /\ 2 * i + 2 \in 1 .. 2 * n
      BY <1>0
    <2>2. w[3 + (2 * i + 1)] = c.key[i] /\ w[3 + (2 * i + 2)] = c.sofar[i]
      BY <1>4, <1>7, <2>1
    <2>3. 3 + (2 * i + 1) = 4 + 2 * i /\ 3 + (2 * i + 2) = 5 + 2 * i
      BY <1>0
    <2>4. 4 + 2 * i <= Len(w) /\ 5 + 2 * i <= Len(w)
      BY <1>0, <1>5
    <2> HIDE DEF w
    <2> QED
      BY <2>2, <2>3, <2>4
  <1> DEFINE keys == [i \in 0 .. n - 1 |-> At(4 + 2 * i)]
             counts == [i \in 0 .. n - 1 |-> At(5 + 2 * i)]
  <1>9. load_range_cfg(w) = [num |-> n, max_idx |-> At(2), mask |-> At(3),
                             key |-> keys, sofar |-> counts]
    <2>1. w # << >>
      BY <1>0, <1>5
    <2> HIDE DEF w
    <2> QED
      BY <1>6, <2>1 DEF load_range_cfg
  <1>10. At(2) = c.max_idx /\ At(3) = c.mask
    BY <1>0, <1>5, <1>6
  <1>11. c.key = [i \in 0 .. n - 1 |-> c.key[i]] /\ c.sofar = [i \in 0 .. n - 1 |-> c.sofar[i]]
    BY <1>0
  <1> HIDE DEF w, At
  <1>12. keys = c.key
    BY <1>8, <1>11
  <1>13. counts = c.sofar
    BY <1>8, <1>11
  <1> HIDE DEF keys, counts
  <1>14. c = [num |-> n, max_idx |-> c.max_idx, mask |-> c.mask, key |-> c.key, sofar |-> c.sofar]
    BY DEF IsConfig, n
  <1> QED
    BY <1>1, <1>9, <1>10, <1>12, <1>13, <1>14

\* How many addresses each range of a list has.
Sizes(rs) == [i \in 1 .. Len(rs) |-> rs[i][2] - rs[i][1] + 1]

\* How many addresses the first i ranges have.
Before(rs, i) == SumUpTo(Sizes(rs), i)

\* The ranges of a list, and the sums of their sizes.
LEMMA RangeSums ==
    ASSUME NEW rs, IsRangeList(rs)
    PROVE  /\ Len(rs) \in Nat \ {0}
           /\ \A i \in 1 .. Len(rs) : rs[i][1] \in Nat /\ rs[i][2] \in Nat /\ rs[i][1] <= rs[i][2]
           /\ Before(rs, 0) = 0
           /\ \A i \in 0 .. Len(rs) : Before(rs, i) \in Nat
           /\ \A i \in 1 .. Len(rs) : Before(rs, i) = Before(rs, i - 1) + (rs[i][2] - rs[i][1] + 1)
           /\ \A i, j \in 0 .. Len(rs) : i < j => Before(rs, i) < Before(rs, j)
  <1> DEFINE n == Len(rs)
             F(i) == Before(rs, i)
             z == Sizes(rs)
  <1>1. n \in Nat \ {0}
    BY DEF IsRangeList
  <1>2. \A i \in 1 .. n : rs[i][1] \in Nat /\ rs[i][2] \in Nat /\ rs[i][1] <= rs[i][2]
    <2>1. \A i \in 1 .. n : rs[i] \in Nat \X Nat
      BY DEF IsRangeList
    <2> QED
      BY <2>1 DEF IsRangeList
  <1>3. Len(z) = n /\ \A i \in 1 .. n : z[i] = rs[i][2] - rs[i][1] + 1
    BY <1>1 DEF Sizes
  <1>4. \A i \in 1 .. n : z[i] \in Nat /\ z[i] >= 1
    <2> HIDE DEF z, n
    <2> SUFFICES ASSUME NEW i \in 1 .. n PROVE z[i] \in Nat /\ z[i] >= 1
      OBVIOUS
    <2>1. rs[i][1] \in Nat /\ rs[i][2] \in Nat /\ rs[i][1] <= rs[i][2]
      BY <1>2
    <2>2. z[i] = rs[i][2] - rs[i][1] + 1
      BY <1>3
    <2> QED
      BY <2>1, <2>2
  <1> HIDE DEF z
  <1>5. F(0) = 0 /\ \A i \in 1 .. n : F(i) = F(i - 1) + z[i]
    BY <1>1, <1>3, SumSteps DEF Before, z
  <1>6. /\ \A i \in 0 .. n : F(i) \in Nat
        /\ \A i, j \in 0 .. n : i <= j => F(i) <= F(j)
    BY <1>1, <1>3, <1>4, SumGrows DEF Before, z
  <1> HIDE DEF n, F
  <1>7. ASSUME NEW i \in 0 .. n, NEW j \in 0 .. n, i < j PROVE F(i) < F(j)
    <2>1. j \in 1 .. n /\ j - 1 \in 0 .. n /\ i <= j - 1
      BY <1>1, <1>7
    <2>2. F(i) <= F(j - 1) /\ F(j) = F(j - 1) + z[j] /\ z[j] \in Nat /\ z[j] >= 1
      BY <1>4, <1>5, <1>6, <2>1
    <2> QED
      BY <1>6, <2>1, <2>2
  <1> QED
    BY <1>1, <1>2, <1>3, <1>5, <1>6, <1>7 DEF n, F

\* What cscan has in memory when the file of a list of ranges is loaded.
LEMMA LoadedFields ==
    ASSUME NEW rs \in RangeLists
    PROVE  /\ Loaded[rs].num = Len(rs)
           /\ Loaded[rs].max_idx = Before(rs, Len(rs)) - 1
           /\ Loaded[rs].mask = Mask(Before(rs, Len(rs)))
           /\ Loaded[rs].key = [i \in 0 .. Len(rs) - 1 |-> rs[i + 1][2]]
           /\ Loaded[rs].sofar = [i \in 0 .. Len(rs) - 1 |-> Before(rs, i + 1) - 1]
  <1> DEFINE n == Len(rs)
             ends == [i \in 1 .. n |-> rs[i][2]]
             c == Config(ends, Sizes(rs))
  <1>1. IsRangeList(rs)
    BY ConfigAssumption
  <1>2. /\ n \in Nat \ {0}
        /\ \A i \in 1 .. n : rs[i][2] \in Nat
        /\ \A i \in 0 .. n : Before(rs, i) \in Nat
    BY <1>1, RangeSums
  <1>3. Loaded[rs] = load_range_cfg(Words(c))
    BY DEF Loaded, Compile, Sizes
  <1>4. Len(ends) = n /\ \A i \in 1 .. n : ends[i] = rs[i][2]
    BY <1>2
  <1> HIDE DEF ends
  <1>5. /\ c.num = n
        /\ c.max_idx = Before(rs, n) - 1
        /\ c.mask = Mask(Before(rs, n))
        /\ c.key = [i \in 0 .. n - 1 |-> ends[i + 1]]
        /\ c.sofar = [i \in 0 .. n - 1 |-> Before(rs, i + 1) - 1]
    <2>1. MadeOf(c, ends, Sizes(rs), n)
      BY <1>2, <1>4, ConfigFields
    <2> QED
      BY <2>1 DEF MadeOf, Before
  <1> HIDE DEF c, n
  <1>6. \A i \in 0 .. n - 1 : i + 1 \in 1 .. n /\ i + 1 \in 0 .. n
    BY <1>2
  <1>7. c.key = [i \in 0 .. n - 1 |-> rs[i + 1][2]]
    BY <1>4, <1>5, <1>6
  <1>8. c.max_idx \in Int /\ c.mask \in Int
    <2>1. Before(rs, n) \in Nat
      BY <1>2
    <2>2. Mask(Before(rs, n)) \in Nat
      BY <2>1, MaskCovers
    <2> QED
      BY <1>5, <2>1, <2>2
  <1>9. c.key \in [0 .. n - 1 -> Int]
    BY <1>2, <1>6, <1>7
  <1>10. c.sofar \in [0 .. n - 1 -> Int]
    BY <1>2, <1>5, <1>6
  <1>11. /\ Loaded[rs].num = n
         /\ Loaded[rs].max_idx = c.max_idx
         /\ Loaded[rs].mask = c.mask
         /\ Loaded[rs].key = c.key
         /\ Loaded[rs].sofar = c.sofar
    <2>1. c = [num |-> c.num, max_idx |-> c.max_idx, mask |-> c.mask,
               key |-> c.key, sofar |-> c.sofar]
      BY DEF c, Config
    <2>2. IsConfig(c)
      BY <1>2, <1>5, <1>8, <1>9, <1>10, <2>1 DEF IsConfig
    <2>3. Loaded[rs] = c
      BY <1>3, <2>2, LoadsBack
    <2> QED
      BY <1>5, <2>3
  <1> QED
    BY <1>5, <1>7, <1>11 DEF n

\* random_ip gets a configuration it can search.
LEMMA LoadedIsWellFormed ==
    ASSUME NEW rs \in RangeLists
    PROVE  WellFormed(Loaded[rs])
  <1> DEFINE n == Len(rs)
             F(i) == Before(rs, i)
             c == Loaded[rs]
  <1>1. IsRangeList(rs)
    BY ConfigAssumption
  <1>2. /\ n \in Nat \ {0}
        /\ \A i \in 1 .. n : rs[i][2] \in Nat
        /\ F(0) = 0
        /\ \A i \in 0 .. n : F(i) \in Nat
        /\ \A i, j \in 0 .. n : i < j => F(i) < F(j)
    BY <1>1, RangeSums
  <1>3. /\ c.num = n
        /\ c.max_idx = F(n) - 1
        /\ c.mask = Mask(F(n))
        /\ c.key = [i \in 0 .. n - 1 |-> rs[i + 1][2]]
        /\ c.sofar = [i \in 0 .. n - 1 |-> F(i + 1) - 1]
    BY LoadedFields
  <1> HIDE DEF n, F, c
  <1>4. \A i \in 0 .. n - 1 : i + 1 \in 1 .. n /\ i + 1 \in 0 .. n
    BY <1>2
  <1>5. \A i \in 1 .. n : F(i) \in Nat /\ F(i) >= 1
    BY <1>2
  <1>6. c.max_idx \in Nat /\ c.mask \in Nat /\ c.max_idx <= c.mask
    <2>1. n \in 1 .. n
      BY <1>2
    <2>2. F(n) \in Nat /\ F(n) >= 1
      BY <1>5, <2>1
    <2> DEFINE t == F(n)
    <2> HIDE DEF t
    <2>3. t \in Nat /\ t >= 1 /\ c.max_idx = t - 1 /\ c.mask = Mask(t)
      BY <1>3, <2>2 DEF t
    <2>4. Mask(t) \in Nat /\ t - 1 <= Mask(t)
      BY <2>3, MaskCovers
    <2> QED
      BY <2>3, <2>4
  <1>7. c.key \in [0 .. n - 1 -> Nat]
    BY <1>2, <1>3, <1>4
  <1>8. c.sofar \in [0 .. n - 1 -> Nat]
    BY <1>3, <1>4, <1>5
  <1>9. ASSUME NEW i \in 0 .. n - 1, NEW j \in 0 .. n - 1, i < j PROVE c.sofar[i] < c.sofar[j]
    <2>1. F(i + 1) < F(j + 1) /\ F(i + 1) \in Nat /\ F(j + 1) \in Nat
      BY <1>2, <1>4, <1>9
    <2> QED
      BY <1>3, <2>1
  <1>10. c.sofar[n - 1] = c.max_idx
    BY <1>2, <1>3
  <1> QED
    BY <1>2, <1>3, <1>6, <1>7, <1>8, <1>9, <1>10 DEF WellFormed, c

\* The configuration of a portspec.
LEMMA MadeFields ==
    ASSUME NEW s \in PortSpecs
    PROVE  /\ Len(Parsed(s)) \in Nat
           /\ Len(Parsed(s)) = Len(Weight(s))
           /\ \A i \in 1 .. Len(Parsed(s)) : Weight(s)[i] \in Nat
           /\ DOMAIN Parsed(s) = 1 .. Len(Parsed(s))
           /\ Made[s].num = Len(Parsed(s))
           /\ Made[s].max_idx = SumUpTo(Weight(s), Len(Parsed(s))) - 1
           /\ Made[s].mask = Mask(SumUpTo(Weight(s), Len(Parsed(s))))
           /\ Made[s].key = [i \in 0 .. Len(Parsed(s)) - 1 |-> Parsed(s)[i + 1].port]
           /\ Made[s].sofar = [i \in 0 .. Len(Parsed(s)) - 1 |-> SumUpTo(Weight(s), i + 1) - 1]
  <1> DEFINE p == Parsed(s)
             n == Len(p)
             keys == [i \in 1 .. n |-> p[i].port]
  <1>1. Weight(s) \in Seq(Nat) /\ n = Len(Weight(s))
    BY ConfigAssumption
  <1>2. n \in Nat /\ \A i \in 1 .. n : Weight(s)[i] \in Nat
    BY <1>1
  <1>3. DOMAIN p = 1 .. n
    <2>1. DOMAIN Weight(s) = DOMAIN p
      BY DEF Weight
    <2>2. DOMAIN Weight(s) = 1 .. n
      BY <1>1
    <2> QED
      BY <2>1, <2>2
  <1>4. Weight(s) = [i \in 1 .. n |-> p[i].points]
    BY <1>3 DEF Weight
  <1>5. Made[s] = Config(keys, Weight(s))
    BY <1>4 DEF Made, make_port_ranges
  <1>6. Len(keys) = n /\ \A i \in 1 .. n : keys[i] = p[i].port
    BY <1>2
  <1> HIDE DEF keys, p, n
  <1>7. /\ Made[s].num = n
        /\ Made[s].max_idx = SumUpTo(Weight(s), n) - 1
        /\ Made[s].mask = Mask(SumUpTo(Weight(s), n))
        /\ Made[s].key = [i \in 0 .. n - 1 |-> keys[i + 1]]
        /\ Made[s].sofar = [i \in 0 .. n - 1 |-> SumUpTo(Weight(s), i + 1) - 1]
    <2>1. MadeOf(Made[s], keys, Weight(s), n)
      BY <1>2, <1>5, <1>6, ConfigFields
    <2> QED
      BY <2>1 DEF MadeOf
  <1>8. \A i \in 0 .. n - 1 : i + 1 \in 1 .. n
    BY <1>2
  <1>9. Made[s].key = [i \in 0 .. n - 1 |-> p[i + 1].port]
    BY <1>6, <1>7, <1>8
  <1> QED
    BY <1>1, <1>2, <1>3, <1>7, <1>9 DEF p, n

LEMMA MadeIsPortFormed ==
    ASSUME NEW s \in PortSpecs
    PROVE  PortFormed(Made[s])
  <1> DEFINE n == Len(Parsed(s))
             F(i) == SumUpTo(Weight(s), i)
             c == Made[s]
  <1>1. /\ n \in Nat /\ n = Len(Weight(s))
        /\ \A i \in 1 .. n : Weight(s)[i] \in Nat
        /\ c.num = n
        /\ c.max_idx = F(n) - 1
        /\ c.mask = Mask(F(n))
        /\ c.sofar = [i \in 0 .. n - 1 |-> F(i + 1) - 1]
    BY MadeFields
  <1>2. \A i \in 0 .. n : F(i) \in Nat
    BY <1>1, SumGrows
  <1> HIDE DEF n, F, c
  <1>3. F(n) \in Nat
    BY <1>1, <1>2
  <1>4. c.max_idx \in Int /\ c.mask \in Nat
    <2>1. c.max_idx \in Int
      BY <1>1, <1>3
    <2>2. Mask(F(n)) \in Nat
      BY <1>3, MaskCovers
    <2> QED
      BY <1>1, <2>1, <2>2
  <1>5. c.sofar \in [0 .. n - 1 -> Int]
    BY <1>1, <1>2
  <1> QED
    BY <1>1, <1>4, <1>5 DEF PortFormed, c

-----------------------------------------------------------------------------
(* Ranks: the r-th address of a list of ranges.                            *)

LEMMA IsCovered ==
    ASSUME NEW rs, NEW x
    PROVE  x \in Covered(rs) <=> \E i \in 1 .. Len(rs) : x \in rs[i][1] .. rs[i][2]
  BY DEF Covered

\* How many numbers there are from a to b.
LEMMA IntervalCount ==
    ASSUME NEW a \in Int, NEW b \in Int, a <= b + 1
    PROVE  IsFiniteSet(a .. b) /\ Cardinality(a .. b) = b - a + 1
  BY FS_Interval

\* The addresses of the first p ranges.
FirstRanges(rs, p) == {x \in Covered(rs) : \E i \in 1 .. p : x \in rs[i][1] .. rs[i][2]}

LEMMA CountRanges ==
    ASSUME NEW rs, IsRangeList(rs), NEW p \in 0 .. Len(rs)
    PROVE  /\ IsFiniteSet(FirstRanges(rs, p))
           /\ Cardinality(FirstRanges(rs, p)) = Before(rs, p)
  <1> DEFINE n == Len(rs)
             U(k) == FirstRanges(rs, k)
             Counted(k) == IsFiniteSet(U(k)) /\ Cardinality(U(k)) = Before(rs, k)
             T == {k \in 0 .. n : ~Counted(k)}
  <1>1. /\ n \in Nat \ {0}
        /\ \A i \in 1 .. n : rs[i][1] \in Nat /\ rs[i][2] \in Nat /\ rs[i][1] <= rs[i][2]
        /\ Before(rs, 0) = 0
        /\ \A i \in 0 .. n : Before(rs, i) \in Nat
        /\ \A i \in 1 .. n : Before(rs, i) = Before(rs, i - 1) + (rs[i][2] - rs[i][1] + 1)
    BY RangeSums
  <1>2. \A i, j \in 1 .. n : i < j => rs[i][2] < rs[j][1]
    BY DEF IsRangeList
  <1> SUFFICES ASSUME T # {} PROVE FALSE
    OBVIOUS
  <1>3. T \subseteq Nat
    BY <1>1
  <1>4. PICK k \in T : \A x \in T : k <= x
    BY <1>3, LeastNumber
  <1>5. k \in 0 .. n /\ ~Counted(k)
    OBVIOUS
  <1>6. CASE k = 0
    <2>1. U(0) = {}
      BY DEF FirstRanges
    <2>2. Counted(0)
      BY <1>1, <2>1, FS_EmptySet
    <2> QED
      BY <1>5, <1>6, <2>2
  <1>7. CASE k # 0
    <2> DEFINE R == rs[k][1] .. rs[k][2]
               V == U(k - 1)
    <2>1. k \in 1 .. n /\ k - 1 \in 0 .. n /\ k - 1 \notin T
      BY <1>1, <1>4, <1>5, <1>7
    <2>2. IsFiniteSet(V) /\ Cardinality(V) = Before(rs, k - 1)
      BY <2>1
    <2>3. rs[k][1] \in Nat /\ rs[k][2] \in Nat /\ rs[k][1] <= rs[k][2]
      BY <1>1, <2>1
    <2>4. IsFiniteSet(R) /\ Cardinality(R) = rs[k][2] - rs[k][1] + 1
      <3>1. rs[k][1] \in Int /\ rs[k][2] \in Int /\ rs[k][1] <= rs[k][2] + 1
        BY <2>3
      <3> QED
        BY <3>1, IntervalCount
    <2>5. U(k) = V \cup R
      <3>1. ASSUME NEW x PROVE x \in U(k) <=> x \in V \cup R
        <4>1. \A i \in 1 .. k : i \in 1 .. k - 1 \/ i = k
          BY <2>1
        <4>2. \A i \in 1 .. k - 1 : i \in 1 .. k
          BY <2>1
        <4>3. k \in 1 .. k
          BY <2>1
        <4>4. x \in R => x \in Covered(rs)
          BY <2>1, IsCovered
        <4>5. x \in U(k) <=> x \in Covered(rs) /\ \E i \in 1 .. k : x \in rs[i][1] .. rs[i][2]
          BY DEF FirstRanges
        <4>6. x \in V <=> x \in Covered(rs) /\ \E i \in 1 .. k - 1 : x \in rs[i][1] .. rs[i][2]
          BY DEF FirstRanges
        <4> HIDE DEF U, V
        <4> QED
          BY <4>1, <4>2, <4>3, <4>4, <4>5, <4>6
      <3> QED
        BY <3>1
    <2>6. V \cap R = {}
      <3> SUFFICES ASSUME NEW x \in V, x \in R PROVE FALSE
        OBVIOUS
      <3>1. PICK i \in 1 .. k - 1 : x \in rs[i][1] .. rs[i][2]
        BY DEF FirstRanges
      <3>2. i \in 1 .. n /\ i < k
        BY <1>1, <2>1
      <3>3. rs[i][2] < rs[k][1] /\ rs[i][1] \in Nat /\ rs[i][2] \in Nat
        BY <1>1, <1>2, <2>1, <3>2
      <3>4. x \in Int /\ x <= rs[i][2]
        BY <3>1, <3>3
      <3>5. rs[k][1] <= x
        BY <2>3
      <3> QED
        BY <2>3, <3>3, <3>4, <3>5
    <2> HIDE DEF V, R
    <2>7. /\ IsFiniteSet(V \cup R)
          /\ Cardinality(V \cup R) = Cardinality(V) + Cardinality(R) - Cardinality(V \cap R)
      BY <2>2, <2>4, FS_Union
    <2>8. Cardinality(V \cap R) = 0
      BY <2>6, FS_EmptySet
    <2>9. /\ Before(rs, k) = Before(rs, k - 1) + (rs[k][2] - rs[k][1] + 1)
          /\ Before(rs, k - 1) \in Nat
      BY <1>1, <2>1
    <2>10. Counted(k)
      <3>1. Cardinality(V \cup R) = Before(rs, k)
        BY <2>2, <2>3, <2>4, <2>7, <2>8, <2>9
      <3> QED
        BY <2>5, <2>7, <3>1
    <2> QED
      BY <1>5, <2>10
  <1> QED
    BY <1>6, <1>7

\* How many targets lie below an address of range p.
LEMMA CountBelow ==
    ASSUME NEW rs, IsRangeList(rs), NEW p \in 1 .. Len(rs), NEW a \in rs[p][1] .. rs[p][2]
    PROVE  Cardinality({x \in Covered(rs) : x < a}) = Before(rs, p - 1) + (a - rs[p][1])
  <1> DEFINE n == Len(rs)
             low == rs[p][1]
             top == rs[p][2]
             V == FirstRanges(rs, p - 1)
             R == low .. a - 1
  <1>1. /\ n \in Nat \ {0}
        /\ \A i \in 1 .. n : rs[i][1] \in Nat /\ rs[i][2] \in Nat
        /\ \A i \in 0 .. n : Before(rs, i) \in Nat
    BY RangeSums
  <1>2. \A i, j \in 1 .. n : i < j => rs[i][2] < rs[j][1]
    BY DEF IsRangeList
  <1>3. p \in 1 .. n /\ p - 1 \in 0 .. n
    BY <1>1
  <1>4. Before(rs, p - 1) \in Nat /\ low \in Nat /\ top \in Nat
    BY <1>1, <1>3
  <1>5. a \in Int /\ low <= a /\ a <= top
    BY <1>4
  <1>6. \A x : x \in rs[p][1] .. rs[p][2] <=> x \in low .. top
    OBVIOUS
  <1> HIDE DEF low, top, n
  <1>7. \A x : x \in low .. top <=> x \in Int /\ low <= x /\ x <= top
    BY <1>4
  <1>8. \A x : x \in R <=> x \in Int /\ low <= x /\ x < a
    BY <1>4, <1>5
  <1>9. IsFiniteSet(R) /\ Cardinality(R) = a - low
    <2>1. low \in Int /\ a - 1 \in Int /\ low <= (a - 1) + 1
      BY <1>4, <1>5
    <2>2. IsFiniteSet(R) /\ Cardinality(R) = (a - 1) - low + 1
      BY <2>1, IntervalCount
    <2> HIDE DEF R
    <2> QED
      BY <1>4, <1>5, <2>2
  <1> HIDE DEF R
  <1>10. IsFiniteSet(V) /\ Cardinality(V) = Before(rs, p - 1)
    BY <1>3, CountRanges DEF n
  <1>11. \A x : x \in V <=> x \in Covered(rs) /\ \E i \in 1 .. p - 1 : x \in rs[i][1] .. rs[i][2]
    BY DEF FirstRanges
  <1> HIDE DEF V
  <1>12. ASSUME NEW x \in V PROVE x \in Int /\ x < low
    <2>1. PICK i \in 1 .. p - 1 : x \in rs[i][1] .. rs[i][2]
      BY <1>11
    <2>2. i \in 1 .. n /\ i < p
      BY <1>1, <1>3
    <2>3. rs[i][2] < low /\ rs[i][1] \in Nat /\ rs[i][2] \in Nat
      BY <1>1, <1>2, <1>3, <2>2 DEF low
    <2>4. x \in Int /\ x <= rs[i][2]
      BY <2>1, <2>3
    <2> QED
      BY <1>4, <2>3, <2>4
  <1>13. {x \in Covered(rs) : x < a} = V \cup R
    <2>1. ASSUME NEW x \in Covered(rs), x < a PROVE x \in V \/ x \in R
      <3>1. PICK i \in 1 .. n : x \in rs[i][1] .. rs[i][2]
        BY IsCovered DEF n
      <3>2. rs[i][1] \in Nat /\ rs[i][2] \in Nat
        BY <1>1
      <3>3. x \in Int /\ rs[i][1] <= x
        BY <3>1, <3>2
      <3>4. CASE i < p
        <4>1. i \in 1 .. p - 1
          BY <1>1, <1>3, <3>4
        <4> QED
          BY <1>11, <3>1, <4>1
      <3>5. CASE i = p
        <4>1. low <= x
          BY <3>3, <3>5 DEF low
        <4> QED
          BY <1>8, <2>1, <3>3, <4>1
      <3>6. CASE p < i
        <4>1. top < rs[i][1]
          BY <1>2, <1>3, <3>6 DEF top
        <4>2. FALSE
          BY <1>4, <1>5, <2>1, <3>2, <3>3, <4>1
        <4> QED
          BY <4>2
      <3> QED
        BY <1>1, <1>3, <3>4, <3>5, <3>6
    <2>2. ASSUME NEW x \in V PROVE x \in Covered(rs) /\ x < a
      <3>1. x \in Int /\ x < low
        BY <1>12
      <3>2. x < a
        BY <1>4, <1>5, <3>1
      <3> QED
        BY <1>11, <3>2
    <2>3. ASSUME NEW x \in R PROVE x \in Covered(rs) /\ x < a
      <3>1. x \in Int /\ low <= x /\ x < a
        BY <1>8
      <3>2. x \in low .. top
        BY <1>4, <1>5, <3>1
      <3>3. x \in Covered(rs)
        BY <1>3, <1>6, <3>2, IsCovered DEF n
      <3> QED
        BY <3>1, <3>3
    <2> QED
      BY <2>1, <2>2, <2>3
  <1>14. V \cap R = {}
    <2> SUFFICES ASSUME NEW x \in V, x \in R PROVE FALSE
      OBVIOUS
    <2>1. x \in Int /\ x < low /\ low <= x
      BY <1>8, <1>12
    <2> QED
      BY <1>4, <2>1
  <1>15. Cardinality(V \cup R) = Cardinality(V) + Cardinality(R) - Cardinality(V \cap R)
    BY <1>9, <1>10, FS_Union
  <1>16. Cardinality(V \cap R) = 0
    BY <1>14, FS_EmptySet
  <1>17. Cardinality(V \cup R) = Before(rs, p - 1) + (a - low)
    BY <1>4, <1>5, <1>9, <1>10, <1>15, <1>16
  <1> QED
    BY <1>13, <1>17 DEF low

\* Counting from the end of a range or from its start.
LEMMA FromTheEnd ==
    ASSUME NEW low \in Nat, NEW top \in Nat, NEW t \in Nat, NEW u \in Nat, NEW q \in Nat,
           t = u + (top - low + 1), u <= q, q < t, NEW a, a = top - (t - 1) + q
    PROVE  a \in Int /\ low <= a /\ a <= top /\ u + (a - low) = q
  OBVIOUS

\* The address random_ip computes, when q falls in range p, is a target, and q
\* targets lie below it.
LEMMA RankInRange ==
    ASSUME NEW rs, IsRangeList(rs), NEW p \in 1 .. Len(rs), NEW q \in Nat,
           Before(rs, p - 1) <= q, q < Before(rs, p),
           NEW a, a = rs[p][2] - (Before(rs, p) - 1) + q
    PROVE  /\ a \in Covered(rs)
           /\ Cardinality({x \in Covered(rs) : x < a}) = q
  <1> DEFINE n == Len(rs)
             low == rs[p][1]
             top == rs[p][2]
             t == Before(rs, p)
             u == Before(rs, p - 1)
  <1>1. /\ n \in Nat \ {0}
        /\ \A i \in 1 .. n : rs[i][1] \in Nat /\ rs[i][2] \in Nat /\ rs[i][1] <= rs[i][2]
        /\ \A i \in 0 .. n : Before(rs, i) \in Nat
        /\ \A i \in 1 .. n : Before(rs, i) = Before(rs, i - 1) + (rs[i][2] - rs[i][1] + 1)
    BY RangeSums
  <1>2. p \in 1 .. n /\ p \in 0 .. n /\ p - 1 \in 0 .. n
    BY <1>1
  <1>3. low \in Nat /\ top \in Nat /\ t \in Nat /\ u \in Nat /\ t = u + (top - low + 1)
    BY <1>1, <1>2
  <1>4. u <= q /\ q < t /\ a = top - (t - 1) + q
    OBVIOUS
  <1> HIDE DEF low, top, t, u
  <1>5. a \in Int /\ low <= a /\ a <= top /\ u + (a - low) = q
    BY <1>3, <1>4, FromTheEnd, SMTT(60)
  <1>6. a \in rs[p][1] .. rs[p][2]
    BY <1>3, <1>5 DEF low, top
  <1>7. a \in Covered(rs)
    BY <1>2, <1>6, IsCovered
  <1>8. Cardinality({x \in Covered(rs) : x < a}) = u + (a - low)
    BY <1>6, CountBelow DEF u, low
  <1> QED
    BY <1>5, <1>7, <1>8

-----------------------------------------------------------------------------
(* random_ip.                                                              *)

\* The inductive invariant: Bracketed is what the loop keeps, FindsFirst what
\* it leaves behind.
SearchInv == TypeOK /\ Bracketed /\ FindsFirst

\* A probe of a non-empty part of the array stays inside it.
LEMMA MiddleInside ==
    ASSUME NEW a \in Nat, NEW b \in Nat, a < b
    PROVE  /\ (b + a) \div 2 \in Nat
           /\ a <= (b + a) \div 2
           /\ (b + a) \div 2 < b
  OBVIOUS

\* The search starts nowhere.
LEMMA SearchInvInit == Init => SearchInv
  <1> SUFFICES ASSUME Init PROVE SearchInv
    OBVIOUS
  <1>1. WellFormed(ranges)
    BY LoadedIsWellFormed DEF Init
  <1>2. PortFormed(ports)
    BY MadeIsPortFormed DEF Init
  <1> QED
    BY <1>1, <1>2 DEF Init, SearchInv, TypeOK, Bracketed, FindsFirst

\* A count is a natural number, inside the array and after it.
LEMMA SofarNat ==
    ASSUME TypeOK, NEW i \in Nat
    PROVE  Sofar(i) \in Nat
  <1>1. ranges.num \in Nat /\ ranges.sofar \in [0 .. ranges.num - 1 -> Nat]
    BY DEF TypeOK, WellFormed
  <1>2. CASE i < ranges.num
    <2>1. i \in 0 .. ranges.num - 1
      BY <1>1, <1>2
    <2> QED
      BY <1>1, <1>2, <2>1 DEF Sofar
  <1>3. CASE ~(i < ranges.num)
    BY <1>3, ConfigAssumption DEF Sofar
  <1> QED
    BY <1>2, <1>3

\* No step takes a variable out of its type, whatever was drawn.
LEMMA TypeStep ==
    ASSUME TypeOK, [Next]_vars
    PROVE  TypeOK'
  <1>1. CASE Call
    BY <1>1 DEF Call, TypeOK
  <1>2. CASE DrawRank
    <2>1. ranges.num \in Nat \ {0} /\ ranges.mask \in Nat
      BY DEF TypeOK, WellFormed
    <2>2. r' \in Nat /\ pc' \in {"draw", "search"}
      BY <1>2, <2>1, ConfigAssumption DEF DrawRank, gen_rand32
    <2> QED
      BY <1>2, <2>1, <2>2 DEF DrawRank, TypeOK
  <1>3. CASE Probe
    <2>1. start \in Nat /\ end \in Nat
      BY DEF TypeOK
    <2>2. Middle \in Nat
      BY <2>1 DEF Middle
    <2>3. Middle + 1 \in Nat
      BY <2>2
    <2>4. Sofar(Middle) \in Nat /\ Sofar(Middle + 1) \in Nat
      BY <2>2, <2>3, SofarNat
    <2> QED
      BY <1>3, <2>1, <2>2, <2>3, <2>4 DEF Probe, TypeOK
  <1>4. CASE LoopEnds
    BY <1>4 DEF LoopEnds, TypeOK
  <1>5. CASE ReturnIp
    BY <1>5 DEF ReturnIp, TypeOK
  <1>6. CASE DrawPoint
    <2>1. ports.mask \in Nat
      BY DEF TypeOK, PortFormed
    <2>2. r' \in Nat /\ pc' \in {"ranked", "scan"}
      BY <1>6, <2>1, ConfigAssumption DEF DrawPoint, gen_rand32
    <2> QED
      BY <1>6, <2>2 DEF DrawPoint, TypeOK
  <1>7. CASE ScanPort
    BY <1>7 DEF ScanPort, TypeOK
  <1>8. CASE UNCHANGED vars
    BY <1>8 DEF vars, TypeOK
  <1> QED
    BY <1>1, <1>2, <1>3, <1>4, <1>5, <1>6, <1>7, <1>8 DEF Next

\* One turn of random_ip's loop.
LEMMA ProbeKeepsInv ==
    ASSUME SearchInv, Probe, urandom
    PROVE  SearchInv'
  <1> DEFINE m == Middle
             v == ranges.sofar[m]
             n == ranges.num
  <1>1. /\ WellFormed(ranges) /\ PortFormed(ports) /\ urandom \in BOOLEAN
        /\ r \in Nat /\ start \in Nat /\ end \in Nat
    BY DEF SearchInv, TypeOK
  <1>2. /\ r <= ranges.max_idx /\ start <= end /\ end <= n
        /\ \A i \in 0 .. start - 1 : ranges.sofar[i] < r
        /\ \A i \in end .. n - 1 : ranges.sofar[i] > r
    BY DEF SearchInv, Bracketed, Probe
  <1>3. /\ n \in Nat \ {0}
        /\ ranges.sofar \in [0 .. n - 1 -> Nat]
        /\ \A i, j \in 0 .. n - 1 : i < j => ranges.sofar[i] < ranges.sofar[j]
        /\ ranges.sofar[n - 1] = ranges.max_idx
        /\ ranges.max_idx \in Nat
    BY <1>1 DEF WellFormed
  <1>4. start < end
    BY <1>1, <1>2, <1>3 DEF Probe
  <1>5. m \in Nat /\ start <= m /\ m < end
    BY <1>1, <1>4, MiddleInside DEF Middle
  <1> HIDE DEF m
  <1>6. m \in 0 .. n - 1 /\ v \in Nat
    <2>1. m \in 0 .. n - 1
      BY <1>1, <1>2, <1>3, <1>5
    <2> QED
      BY <1>3, <2>1
  <1>7. Sofar(m) = v
    BY <1>3, <1>6 DEF Sofar
  <1>8. ranges' = ranges /\ ports' = ports /\ r' = r /\ pc = "search" /\ urandom' = urandom
    BY DEF Probe
  <1>9. CASE v = r /\ idx' = m /\ val' = v /\ pc' = "found" /\ start' = start /\ end' = end
    <2>1. m > 0 => ranges.sofar[m - 1] < r
      BY <1>3, <1>6, <1>9, SMTT(15)
    <2> QED
      BY <1>1, <1>3, <1>6, <1>8, <1>9, <2>1
         DEF SearchInv, TypeOK, Bracketed, FindsFirst
  <1>10. CASE /\ v < r /\ m = end - 1
             /\ idx' = m + 1 /\ val' = Sofar(m + 1)
             /\ pc' = "found" /\ start' = start /\ end' = end
    <2>1. m + 1 < n
      <3>1. m # n - 1
        BY <1>1, <1>2, <1>3, <1>10
      <3> QED
        BY <1>3, <1>6, <3>1
    <2>2. m + 1 \in end .. n - 1 /\ m + 1 \in 0 .. n - 1
      BY <1>1, <1>2, <1>3, <1>6, <1>10, <2>1
    <2>3. /\ Sofar(m + 1) = ranges.sofar[m + 1]
          /\ ranges.sofar[m + 1] \in Nat /\ r < ranges.sofar[m + 1]
      BY <1>2, <1>3, <2>1, <2>2 DEF Sofar
    <2> QED
      BY <1>1, <1>3, <1>6, <1>8, <1>10, <2>1, <2>3
         DEF SearchInv, TypeOK, Bracketed, FindsFirst
  <1>11. CASE /\ v < r /\ m # end - 1
              /\ idx' = m /\ val' = v /\ start' = m + 1
              /\ pc' = pc /\ end' = end
    <2>1. \A i \in 0 .. m : ranges.sofar[i] < r
      <3> SUFFICES ASSUME NEW i \in 0 .. m, i # m PROVE ranges.sofar[i] < r
        BY <1>11
      <3>1. i \in 0 .. n - 1 /\ i < m
        BY <1>3, <1>6
      <3>2. ranges.sofar[i] \in Nat /\ ranges.sofar[i] < ranges.sofar[m]
        BY <1>3, <1>6, <3>1
      <3> QED
        BY <1>1, <1>6, <1>11, <3>2
    <2>2. start' < end' /\ (start' - 1) = m
      BY <1>1, <1>5, <1>11
    <2> QED
      BY <1>1, <1>2, <1>6, <1>8, <1>11, <2>1, <2>2
         DEF SearchInv, TypeOK, Bracketed, FindsFirst
  <1>12. CASE /\ v > r
              /\ idx' = m /\ val' = v /\ end' = m
              /\ pc' = pc /\ start' = start
    <2>1. \A i \in m .. n - 1 : ranges.sofar[i] > r
      <3> SUFFICES ASSUME NEW i \in m .. n - 1, i # m PROVE ranges.sofar[i] > r
        BY <1>12
      <3>1. i \in 0 .. n - 1 /\ m < i
        BY <1>3, <1>6
      <3>2. ranges.sofar[i] \in Nat /\ ranges.sofar[m] < ranges.sofar[i]
        BY <1>3, <1>6, <3>1
      <3> QED
        BY <1>1, <1>6, <1>12, <3>2
    <2>2. TypeOK'
      BY <1>1, <1>6, <1>8, <1>12 DEF TypeOK
    <2>3. start <= m /\ m <= n
      BY <1>1, <1>3, <1>5, <1>6
    <2>4. Bracketed'
      BY <1>1, <1>2, <1>6, <1>8, <1>12, <2>1, <2>3 DEF Bracketed
    <2>5. FindsFirst'
      BY <1>8, <1>12 DEF FindsFirst
    <2> QED
      BY <2>2, <2>4, <2>5 DEF SearchInv
  <1> QED
    BY <1>9, <1>10, <1>11, <1>12, <1>7 DEF Probe, m

\* Every step: without /dev/urandom there is only the type to keep.
LEMMA SearchInvStep ==
    ASSUME SearchInv, [Next]_vars
    PROVE  SearchInv'
  <1> USE DEF SearchInv
  <1>1. TypeOK'
    BY TypeStep
  <1>2. urandom' = urandom
    BY DEF Next, Call, DrawRank, Probe, LoopEnds, ReturnIp, DrawPoint, ScanPort, vars
  <1>3. CASE ~urandom
    BY <1>1, <1>2, <1>3 DEF Bracketed, FindsFirst
  <1>4. CASE urandom
    <2>1. CASE Call
      BY <1>1, <2>1 DEF Call, Bracketed, FindsFirst
    <2>2. CASE DrawRank
      <3>1. ranges.num \in Nat \ {0} /\ ranges.mask \in Nat /\ ranges.max_idx \in Nat
        BY DEF TypeOK, WellFormed
      <3>2. /\ pc' \in {"draw", "search"}
            /\ pc' = "search" => r' <= ranges.max_idx
        BY <1>4, <2>2, <3>1 DEF DrawRank, gen_rand32
      <3> QED
        BY <1>1, <2>2, <3>1, <3>2 DEF DrawRank, Bracketed, FindsFirst
    <2>3. CASE Probe
      BY <1>4, <2>3, ProbeKeepsInv
    <2>4. CASE LoopEnds
      <3>1. /\ ranges.num \in Nat \ {0} /\ ranges.max_idx \in Nat
            /\ ranges.sofar \in [0 .. ranges.num - 1 -> Nat]
            /\ ranges.sofar[ranges.num - 1] = ranges.max_idx
        BY DEF TypeOK, WellFormed
      <3>2. /\ r <= ranges.max_idx /\ start = end /\ end <= ranges.num
            /\ \A i \in 0 .. start - 1 : ranges.sofar[i] < r
            /\ \A i \in end .. ranges.num - 1 : ranges.sofar[i] > r
            /\ idx = start /\ val = ranges.sofar[idx]
            /\ start \in Nat /\ r \in Nat
        BY <1>4, <2>4 DEF LoopEnds, Bracketed, TypeOK
      <3>3. start < ranges.num
        BY <3>1, <3>2
      <3>4. idx \in 0 .. ranges.num - 1 /\ idx \in end .. ranges.num - 1
        BY <3>1, <3>2, <3>3
      <3>5. val \in Nat /\ val > r
        BY <3>1, <3>2, <3>4
      <3>6. idx > 0 => ranges.sofar[idx - 1] < r
        BY <3>1, <3>2, <3>4
      <3> QED
        BY <1>1, <2>4, <3>2, <3>3, <3>5, <3>6 DEF LoopEnds, Bracketed, FindsFirst
    <2>5. CASE ReturnIp
      BY <1>1, <2>5 DEF ReturnIp, Bracketed, FindsFirst
    <2>6. CASE DrawPoint
      <3>1. pc' \in {"ranked", "scan"}
        BY <2>6 DEF DrawPoint, gen_rand32
      <3> QED
        BY <1>1, <3>1 DEF Bracketed, FindsFirst
    <2>7. CASE ScanPort
      BY <1>1, <2>7 DEF ScanPort, Bracketed, FindsFirst
    <2>8. CASE UNCHANGED vars
      BY <1>1, <2>8 DEF vars, Bracketed, FindsFirst
    <2> QED
      BY <2>1, <2>2, <2>3, <2>4, <2>5, <2>6, <2>7, <2>8 DEF Next
  <1> QED
    BY <1>3, <1>4

\* The configuration stays well formed and the unsigned positions of
\* random_ip's search never wrap below zero, also when gen_rand32 fails.
THEOREM TypeCorrect == Spec => []TypeOK
  <1>1. Init => TypeOK
    BY SearchInvInit DEF SearchInv
  <1>2. TypeOK /\ [Next]_vars => TypeOK'
    BY TypeStep
  <1> QED
    BY <1>1, <1>2, PTL DEF Spec

\* random_ip's loop always leaves with the first range whose count reaches the
\* drawn rank, for any number of ranges of any sizes: every probe is inside
\* the array, also the one after "can't be <, but > is ok".
THEOREM SearchIsCorrect == Spec => []FindsFirst
  <1>1. SearchInv /\ [Next]_vars => SearchInv'
    BY SearchInvStep
  <1> QED
    BY <1>1, SearchInvInit, PTL DEF Spec, SearchInv

\* random_ip returns, for a drawn rank r, the address below which exactly r
\* targets lie, for any list of ranges compile-targets.py may write: rejection
\* under the mask, the search and the arithmetic of the last line together
\* give every target the same chance.
THEOREM RankIsTarget == Spec => RankedTarget
  <1>1. SearchInv /\ [Next]_vars => SearchInv'
    BY SearchInvStep
  <1>2. SearchInv /\ [Next]_vars =>
            [urandom /\ pc = "found" =>
               \A rs \in RangeLists : ranges = Loaded[rs] =>
                  /\ ip' \in Covered(rs)
                  /\ Cardinality({a \in Covered(rs) : a < ip'}) = r]_vars
    <2> SUFFICES ASSUME SearchInv, Next, urandom, pc = "found",
                        NEW rs \in RangeLists, ranges = Loaded[rs]
                 PROVE  /\ ip' \in Covered(rs)
                        /\ Cardinality({a \in Covered(rs) : a < ip'}) = r
      OBVIOUS
    <2> DEFINE n == Len(rs)
    <2>1. ip' = Key(idx) - val + r
      BY DEF Next, Call, DrawRank, Probe, LoopEnds, ReturnIp, DrawPoint, ScanPort
    <2>2. /\ idx < ranges.num /\ val = ranges.sofar[idx] /\ r <= val
          /\ idx > 0 => ranges.sofar[idx - 1] < r
          /\ idx \in Nat /\ r \in Nat
      BY DEF SearchInv, FindsFirst, TypeOK
    <2>3. /\ ranges.num = n
          /\ ranges.key = [i \in 0 .. n - 1 |-> rs[i + 1][2]]
          /\ ranges.sofar = [i \in 0 .. n - 1 |-> Before(rs, i + 1) - 1]
      BY LoadedFields
    <2>4. IsRangeList(rs)
      BY ConfigAssumption
    <2>5. /\ n \in Nat \ {0}
          /\ Before(rs, 0) = 0
          /\ \A i \in 0 .. n : Before(rs, i) \in Nat
      BY <2>4, RangeSums
    <2> DEFINE p == idx + 1
    <2>6. p \in 1 .. n /\ p \in 0 .. n /\ p - 1 \in 0 .. n /\ p - 1 = idx /\ idx \in 0 .. n - 1
      BY <2>2, <2>3, <2>5
    <2>7. Key(idx) = rs[p][2] /\ val = Before(rs, p) - 1
      BY <2>2, <2>3, <2>6 DEF Key
    <2>8. Before(rs, p - 1) <= r
      <3>1. CASE idx = 0
        BY <2>2, <2>5, <2>6, <3>1
      <3>2. CASE idx # 0
        <4>1. idx - 1 \in 0 .. n - 1 /\ idx > 0 /\ idx - 1 + 1 = idx
          BY <2>2, <2>6, <3>2
        <4>2. ranges.sofar[idx - 1] = Before(rs, idx) - 1
          BY <2>3, <4>1
        <4>3. Before(rs, idx) \in Nat /\ Before(rs, idx) - 1 < r
          BY <2>2, <2>5, <2>6, <4>1, <4>2
        <4> QED
          BY <2>2, <2>6, <4>3
      <3> QED
        BY <3>1, <3>2
    <2>9. r < Before(rs, p) /\ ip' = rs[p][2] - (Before(rs, p) - 1) + r
      BY <2>1, <2>2, <2>5, <2>6, <2>7
    <2> HIDE DEF p, n
    <2> QED
      BY <2>2, <2>4, <2>6, <2>8, <2>9, RankInRange DEF n
  <1> QED
    BY <1>1, <1>2, SearchInvInit, PTL DEF Spec, RankedTarget

-----------------------------------------------------------------------------
(* random_port.                                                            *)

\* The scan has passed only ports that do not own the point drawn.
ScanInv ==
    urandom /\ pc = "scan" =>
        /\ ports.max_idx >= 0 => r <= ports.max_idx
        /\ idx <= ports.num
        /\ \A i \in 0 .. idx - 1 : ~Owns(i)

LEMMA ScanInvStep ==
    ASSUME TypeOK, ScanInv, [Next]_vars
    PROVE  ScanInv'
  <1>1. PortFormed(ports) /\ r \in Nat /\ idx \in Nat
    BY DEF TypeOK
  <1>2. ports.num \in Nat /\ ports.max_idx \in Int /\ ports.mask \in Nat
    BY <1>1 DEF PortFormed
  <1>3. CASE Call \/ DrawRank \/ Probe \/ LoopEnds \/ ReturnIp
    <2>1. pc' # "scan"
      BY <1>3 DEF Call, DrawRank, gen_rand32, Probe, LoopEnds, ReturnIp
    <2> QED
      BY <2>1 DEF ScanInv
  <1>4. CASE DrawPoint
    <2>1. urandom' = urandom /\ ports' = ports /\ idx' = 0
      BY <1>4 DEF DrawPoint
    <2>2. urandom /\ pc' = "scan" /\ ports.max_idx >= 0 => r' <= ports.max_idx
      BY <1>2, <1>4 DEF DrawPoint, gen_rand32
    <2> QED
      BY <1>2, <2>1, <2>2 DEF ScanInv
  <1>5. CASE ScanPort
    <2>1. urandom' = urandom /\ ports' = ports /\ r' = r /\ pc = "scan"
      BY <1>5 DEF ScanPort
    <2>2. pc' = "scan" => idx < ports.num /\ ~Owns(idx) /\ idx' = idx + 1
      BY <1>5 DEF ScanPort
    <2> SUFFICES ASSUME urandom, pc' = "scan"
                 PROVE  /\ ports.max_idx >= 0 => r <= ports.max_idx
                        /\ idx' <= ports.num
                        /\ \A i \in 0 .. idx' - 1 : ~Owns(i)
      BY <2>1 DEF ScanInv, Owns
    <2>3. /\ ports.max_idx >= 0 => r <= ports.max_idx
          /\ \A i \in 0 .. idx - 1 : ~Owns(i)
      BY <2>1 DEF ScanInv
    <2>4. \A i \in 0 .. idx' - 1 : i \in 0 .. idx - 1 \/ i = idx
      BY <1>1, <2>2
    <2> QED
      BY <1>1, <1>2, <2>2, <2>3, <2>4
  <1>6. CASE UNCHANGED vars
    BY <1>6 DEF vars, ScanInv, Owns
  <1> QED
    BY <1>3, <1>4, <1>5, <1>6 DEF Next

\* The portspec names a port, and gives the first one a point.  With no points
\* its count less one is -1, which as unsigned is at least every point.
FirstHasPoints(s) == Len(Parsed(s)) > 0 /\ Weight(s)[1] > 0

\* random_port returns the port whose points the drawn one is among, for every
\* portspec whose first port has points; it never falls off the end.
THEOREM PointIsOwned ==
    ASSUME \A s \in PortSpecs : FirstHasPoints(s)
    PROVE  Spec => PortOwnsPoint
  <1>1. Init => ScanInv
    BY DEF Init, ScanInv
  <1>2. TypeOK /\ ScanInv /\ [Next]_vars => ScanInv'
    BY ScanInvStep
  <1>3. TypeOK /\ ScanInv /\ [Next]_vars =>
            [urandom /\ pc = "scan" /\ pc' = "idle" =>
               \A s \in PortSpecs : ports = Made[s] =>
                  \E i \in DOMAIN Parsed(s) :
                     /\ port' = Parsed(s)[i].port
                     /\ SumUpTo(Weight(s), i - 1) <= r /\ r < SumUpTo(Weight(s), i)]_vars
    <2> SUFFICES ASSUME TypeOK, ScanInv, Next, urandom, pc = "scan", pc' = "idle",
                        NEW s \in PortSpecs, ports = Made[s]
                 PROVE  \E i \in DOMAIN Parsed(s) :
                           /\ port' = Parsed(s)[i].port
                           /\ SumUpTo(Weight(s), i - 1) <= r /\ r < SumUpTo(Weight(s), i)
      OBVIOUS
    <2> DEFINE n == Len(Parsed(s))
               F(i) == SumUpTo(Weight(s), i)
    <2>1. \/ idx < ports.num /\ Owns(idx) /\ port' = ports.key[idx]
          \/ idx >= ports.num
      BY DEF Next, Call, DrawRank, Probe, LoopEnds, ReturnIp, DrawPoint, ScanPort
    <2>2. /\ n \in Nat /\ n = Len(Weight(s))
          /\ \A i \in 1 .. n : Weight(s)[i] \in Nat
          /\ DOMAIN Parsed(s) = 1 .. n
          /\ ports.num = n
          /\ ports.max_idx = F(n) - 1
          /\ ports.key = [i \in 0 .. n - 1 |-> Parsed(s)[i + 1].port]
          /\ ports.sofar = [i \in 0 .. n - 1 |-> F(i + 1) - 1]
      BY MadeFields
    <2>3. /\ \A i \in 0 .. n : F(i) \in Nat
          /\ \A i, j \in 0 .. n : i <= j => F(i) <= F(j)
      BY <2>2, SumGrows
    <2>4. F(0) = 0 /\ \A i \in 1 .. n : F(i) = F(i - 1) + Weight(s)[i]
      BY <2>2, SumSteps
    <2> HIDE DEF n, F
    <2>5. n >= 1 /\ Weight(s)[1] >= 1 /\ Weight(s)[1] \in Nat
      <3>1. n > 0 /\ Weight(s)[1] > 0
        BY DEF FirstHasPoints, n
      <3>2. 1 \in 1 .. n
        BY <2>2, <3>1
      <3> QED
        BY <2>2, <3>1, <3>2
    <2>6. \A i \in 1 .. n : F(i) >= 1
      <3>1. F(1) = F(0) + Weight(s)[1]
        BY <2>2, <2>4, <2>5
      <3>2. F(1) >= 1
        BY <2>4, <2>5, <3>1
      <3> QED
        BY <2>2, <2>3, <2>5, <3>2
    <2>7. r \in Nat /\ idx \in Nat
      BY DEF TypeOK
    <2>8. \A i \in 0 .. n - 1 : Owns(i) <=> r < F(i + 1)
      <3> SUFFICES ASSUME NEW i \in 0 .. n - 1 PROVE Owns(i) <=> r < F(i + 1)
        OBVIOUS
      <3>1. i + 1 \in 1 .. n /\ i + 1 \in 0 .. n
        BY <2>2
      <3>2. F(i + 1) \in Nat /\ F(i + 1) >= 1 /\ ports.sofar[i] = F(i + 1) - 1
        BY <2>2, <2>3, <2>6, <3>1
      <3> QED
        BY <2>7, <3>2 DEF Owns
    <2>9. /\ ports.max_idx >= 0 => r <= ports.max_idx
          /\ idx <= n
          /\ \A i \in 0 .. idx - 1 : ~Owns(i)
      BY <2>2 DEF ScanInv
    <2>10. r < F(n)
      <3>1. F(n) \in Nat /\ F(n) >= 1
        BY <2>2, <2>3, <2>5, <2>6
      <3> QED
        BY <2>2, <2>7, <2>9, <3>1
    <2>11. idx < n
      <3> SUFFICES ASSUME idx = n PROVE FALSE
        BY <2>2, <2>7, <2>9
      <3>1. n - 1 \in 0 .. idx - 1 /\ n - 1 \in 0 .. n - 1 /\ n - 1 + 1 = n
        BY <2>2, <2>5
      <3> QED
        BY <2>8, <2>9, <2>10, <3>1
    <2>12. Owns(idx) /\ port' = ports.key[idx]
      BY <2>1, <2>2, <2>7, <2>11
    <2>13. idx \in 0 .. n - 1 /\ idx + 1 \in 1 .. n /\ idx + 1 - 1 = idx
      BY <2>2, <2>7, <2>11
    <2>14. port' = Parsed(s)[idx + 1].port
      BY <2>2, <2>12, <2>13
    <2>15. r < F(idx + 1)
      BY <2>8, <2>12, <2>13
    <2>16. F(idx) <= r
      <3>1. CASE idx = 0
        BY <2>4, <2>7, <3>1
      <3>2. CASE idx # 0
        <4>1. idx - 1 \in 0 .. idx - 1 /\ idx - 1 \in 0 .. n - 1 /\ idx - 1 + 1 = idx /\ idx \in 0 .. n
          BY <2>2, <2>7, <2>13, <3>2
        <4>2. ~(r < F(idx))
          BY <2>8, <2>9, <4>1
        <4> QED
          BY <2>3, <2>7, <4>1, <4>2
      <3> QED
        BY <3>1, <3>2
    <2>17. F(idx + 1 - 1) <= r
      BY <2>13, <2>16
    <2> QED
      BY <2>2, <2>13, <2>14, <2>15, <2>17 DEF F
  <1> QED
    BY <1>1, <1>2, <1>3, TypeCorrect, PTL DEF Spec, PortOwnsPoint
=============================================================================

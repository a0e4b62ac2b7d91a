---------------------------- MODULE SequenceLemmas ----------------------------
(***************************************************************************)
(* Facts about numbers and sequences that several proofs need: induction   *)
(* as a fact about a set, division, what FlattenSeq and SumFunctionOnSet,  *)
(* which are recursive functions, return, and the elements of a sequence.  *)
(***************************************************************************)
EXTENDS Integers, SequencesExt, SequenceTheorems, FiniteSetTheorems, WellFoundedInduction,
        TLAPS

\* A set that holds 0 and the successor of each of its members holds every
\* natural number.
LEMMA EveryNumber ==
  ASSUME NEW T, 0 \in T, \A n \in Nat : n \in T => n + 1 \in T
  PROVE  Nat \subseteq T
<1> SUFFICES ASSUME Nat \ T # {}
             PROVE  FALSE
  OBVIOUS
<1> DEFINE Less == {ss \in Nat \X Nat : ss[1] < ss[2]}
<1>1. IsWellFoundedOn(Less, Nat)
  BY NatLessThanWellFounded DEF OpToRel
<1>2. \A a, b \in Nat : a < b => <<a, b>> \in Less
  OBVIOUS
<1> HIDE DEF Less
<1>3. PICK m \in Nat \ T : \A n \in Nat \ T : ~ (<<n, m>> \in Less)
  BY <1>1, WFMin
<1>4. m # 0
  OBVIOUS
<1>5. m - 1 \in Nat /\ (m - 1) + 1 = m /\ m - 1 < m
  BY <1>4
<1>6. m - 1 \in T
  BY <1>2, <1>3, <1>5
<1> QED
  BY <1>5, <1>6

\* A nonempty set of numbers has a least one, and a greatest one if bounded.
LEMMA LeastNumber ==
  ASSUME NEW S \in SUBSET Nat, S # {}
  PROVE  \E m \in S : \A n \in S : m <= n
<1> DEFINE Less == {ss \in Nat \X Nat : ss[1] < ss[2]}
<1>1. IsWellFoundedOn(Less, Nat)
  BY NatLessThanWellFounded DEF OpToRel
<1>2. \A a, b \in Nat : a < b => <<a, b>> \in Less
  OBVIOUS
<1> HIDE DEF Less
<1>3. PICK m \in S : \A n \in S : ~ (<<n, m>> \in Less)
  BY <1>1, WFMin
<1>4. \A n \in S : ~ (n < m)
  BY <1>2, <1>3
<1> QED
  BY <1>4

LEMMA GreatestNumber ==
  ASSUME NEW n \in Nat, NEW S \in SUBSET (0 .. n), S # {}
  PROVE  Max(S) \in S /\ \A x \in S : x <= Max(S)
<1> DEFINE T == {n - x : x \in S}
<1>1. T \in SUBSET Nat /\ T # {}
  <2>1. \A x \in S : n - x \in Nat
    OBVIOUS
  <2>2. PICK x \in S : TRUE
    OBVIOUS
  <2>3. n - x \in T
    OBVIOUS
  <2>4. \A u \in T : u \in Nat
    BY <2>1
  <2> HIDE DEF T
  <2> QED
    BY <2>3, <2>4
<1>2. PICK t \in T : \A u \in T : t <= u
  <2> HIDE DEF T
  <2> QED
    BY <1>1, LeastNumber
<1>3. PICK m \in S : t = n - m
  OBVIOUS
<1>4. \A x \in S : n - x \in T
  OBVIOUS
<1>5. \A x \in S : m >= x
  BY <1>2, <1>3, <1>4
<1>6. Max(S) \in S /\ \A x \in S : Max(S) >= x
  BY <1>5 DEF Max
<1> QED
  BY <1>6

\* A step for each of n places makes a function that takes them in order.
Recursion(s, a, step, n, S) ==
  s \in [0 .. n -> S] /\ s[0] = a /\ \A k \in 1 .. n : s[k] = step[<<k, s[k - 1]>>]

LEMMA RecursionExists ==
  ASSUME NEW n \in Nat, NEW S, NEW a \in S, NEW step \in [(1 .. n) \X S -> S]
  PROVE  \E s : Recursion(s, a, step, n, S)
<1> DEFINE T == {m \in Nat : m <= n =>
                   \E s \in [0 .. m -> S] :
                     s[0] = a /\ \A k \in 1 .. m : s[k] = step[<<k, s[k - 1]>>]}
<1>1. 0 \in T
  <2> DEFINE s == [k \in 0 .. 0 |-> a]
  <2>1. s \in [0 .. 0 -> S] /\ s[0] = a
    OBVIOUS
  <2>2. 1 .. 0 = {}
    OBVIOUS
  <2> HIDE DEF s
  <2> QED
    BY <2>1, <2>2
<1>2. ASSUME NEW m \in Nat, m \in T
      PROVE  m + 1 \in T
  <2> SUFFICES ASSUME m + 1 <= n
               PROVE  \E s \in [0 .. m + 1 -> S] :
                        s[0] = a /\ \A k \in 1 .. m + 1 : s[k] = step[<<k, s[k - 1]>>]
    OBVIOUS
  <2>1. PICK r \in [0 .. m -> S] : r[0] = a /\ \A k \in 1 .. m : r[k] = step[<<k, r[k - 1]>>]
    BY <1>2
  <2>2. m + 1 \in 1 .. n /\ m \in 0 .. m
    OBVIOUS
  <2>3. PICK last \in S : last = step[<<m + 1, r[m]>>]
    <3>1. r[m] \in S
      BY <2>2
    <3>2. <<m + 1, r[m]>> \in (1 .. n) \X S
      BY <2>2, <3>1
    <3> QED
      BY <3>2
  <2> DEFINE s == [k \in 0 .. m + 1 |-> IF k <= m THEN r[k] ELSE last]
  <2>4. s \in [0 .. m + 1 -> S] /\ s[0] = a
    BY <2>1
  <2>5. ASSUME NEW k \in 1 .. m + 1
        PROVE  s[k] = step[<<k, s[k - 1]>>]
    <3>1. CASE k \in 1 .. m
      <4>1. s[k] = r[k] /\ s[k - 1] = r[k - 1]
        BY <3>1
      <4> HIDE DEF s
      <4> QED
        BY <2>1, <3>1, <4>1
    <3>2. CASE k = m + 1
      <4>1. s[k] = last /\ s[k - 1] = r[m]
        BY <3>2
      <4> HIDE DEF s
      <4> QED
        BY <2>3, <3>2, <4>1
    <3> QED
      BY <3>1, <3>2
  <2> HIDE DEF s
  <2> QED
    BY <2>4, <2>5
<1>3. Nat \subseteq T
  <2> HIDE DEF T
  <2> QED
    BY <1>1, <1>2, EveryNumber
<1> QED
  BY <1>3 DEF Recursion

-------------------------------------------------------------------------------
\* A number written as a multiple of b and what is left.
Composed(b, high, low) == b * high + low

LEMMA ComposedTyped ==
  ASSUME NEW b \in Nat, NEW x \in Int, NEW s \in Int
  PROVE  Composed(b, x, s) \in Int
BY DEF Composed

\* Numbers written so are ordered as the pairs of their parts.
LEMMA ComposedOrder ==
  ASSUME NEW b \in Nat \ {0}, NEW x \in Int, NEW y \in Int,
         NEW s \in 0 .. b - 1, NEW t \in 0 .. b - 1
  PROVE  /\ Composed(b, x, s) < Composed(b, y, t) <=> x < y \/ (x = y /\ s < t)
         /\ Composed(b, x, s) = Composed(b, y, t) <=> x = y /\ s = t
<1>1. ASSUME NEW p \in Int, NEW q \in Int, NEW u \in 0 .. b - 1, NEW v \in 0 .. b - 1, p < q
      PROVE  Composed(b, p, u) < Composed(b, q, v)
  <2>1. PICK d \in Nat : q = p + 1 + d
    <3>1. q - p - 1 \in Nat /\ q = p + 1 + (q - p - 1)
      BY <1>1
    <3> QED
      BY <3>1
  <2>2. b * q = b * p + b + b * d /\ b * d >= 0
    BY <2>1
  <2> QED
    BY <2>2 DEF Composed
<1>2. CASE x < y
  BY <1>1, <1>2 DEF Composed
<1>3. CASE y < x
  BY <1>1, <1>3 DEF Composed
<1>4. CASE x = y
  BY <1>4 DEF Composed
<1> QED
  BY <1>2, <1>3, <1>4

\* Division takes the parts apart.
LEMMA Division ==
  ASSUME NEW a \in Int, NEW b \in Nat \ {0}
  PROVE  a \div b \in Int /\ a % b \in 0 .. b - 1 /\ Composed(b, a \div b, a % b) = a
BY DEF Composed

LEMMA DivisionUnique ==
  ASSUME NEW b \in Nat \ {0}, NEW x \in Int, NEW s \in 0 .. b - 1
  PROVE  Composed(b, x, s) \div b = x /\ Composed(b, x, s) % b = s
<1>1. PICK a \in Int : a = Composed(b, x, s)
  <2>1. b \in Nat /\ s \in Int
    OBVIOUS
  <2>2. Composed(b, x, s) \in Int
    BY <2>1, ComposedTyped
  <2> QED
    BY <2>2
<1>2. a \div b \in Int /\ a % b \in 0 .. b - 1 /\ Composed(b, a \div b, a % b) = a
  BY Division
<1>3. PICK q \in Int, r \in 0 .. b - 1 : q = a \div b /\ r = a % b
  BY <1>2
<1>4. Composed(b, q, r) = Composed(b, x, s)
  BY <1>1, <1>2, <1>3
<1>5. q = x /\ r = s
  BY <1>4, ComposedOrder
<1> QED
  BY <1>1, <1>3, <1>5

-------------------------------------------------------------------------------
\* What is where in a concatenation.
LEMMA ConcatAt ==
  ASSUME NEW S, NEW s \in Seq(S), NEW t \in Seq(S), NEW i \in 1 .. Len(s) + Len(t)
  PROVE  /\ i <= Len(s) => i \in 1 .. Len(s) /\ (s \o t)[i] = s[i]
         /\ ~(i <= Len(s)) => i - Len(s) \in 1 .. Len(t) /\ (s \o t)[i] = t[i - Len(s)]
<1>1. Len(s) \in Nat /\ Len(t) \in Nat
  OBVIOUS
<1>2. ASSUME i <= Len(s)
      PROVE  i \in 1 .. Len(s) /\ (s \o t)[i] = s[i]
  BY <1>1, <1>2
<1>3. ASSUME ~(i <= Len(s))
      PROVE  i - Len(s) \in 1 .. Len(t) /\ (s \o t)[i] = t[i - Len(s)]
  <2>1. i - Len(s) \in 1 .. Len(t)
    BY <1>1, <1>3
  <2>2. (s \o t)[i] = t[i - Len(s)]
    BY <1>1, <1>3
  <2> QED
    BY <2>1, <2>2
<1> QED
  BY <1>2, <1>3

LEMMA Appended ==
  ASSUME NEW S, NEW s \in Seq(S), NEW t \in Seq(S)
  PROVE  /\ Len(s \o t) = Len(s) + Len(t)
         /\ \A i \in 1 .. Len(s) : (s \o t)[i] = s[i]
         /\ \A i \in 1 .. Len(t) : (s \o t)[Len(s) + i] = t[i]
<1>1. PICK l \in Nat, m \in Nat : l = Len(s) /\ m = Len(t)
  OBVIOUS
<1>2. \A i \in 1 .. l : i \in 1 .. l + m /\ i <= l
  OBVIOUS
<1>3. \A i \in 1 .. m : l + i \in 1 .. l + m /\ ~ (l + i <= l) /\ (l + i) - l = i
  OBVIOUS
<1>4. \A i \in 1 .. l : (s \o t)[i] = s[i]
  BY <1>1, <1>2, ConcatAt
<1>5. \A i \in 1 .. m : (s \o t)[l + i] = t[i]
  BY <1>1, <1>3, ConcatAt
<1>6. Len(s \o t) = l + m
  BY <1>1
<1> QED
  BY <1>1, <1>4, <1>5, <1>6

\* f concatenates the first n sequences of s, one more at each place.
Flattens(f, n, s) == f = [i \in 1 .. n |-> IF i = 1 THEN s[i] ELSE f[i - 1] \o s[i]]

\* The recursive function inside FlattenSeq exists.
LEMMA FlattenExists ==
  ASSUME NEW s, NEW n \in Nat
  PROVE  \E f : Flattens(f, n, s)
<1> DEFINE T == {k \in Nat : \E f : Flattens(f, k, s)}
<1>1. 0 \in T
  <2> DEFINE f == [i \in 1 .. 0 |-> s]
  <2>1. Flattens(f, 0, s)
    BY DEF Flattens
  <2> QED
    BY <2>1
<1>2. ASSUME NEW k \in Nat, k \in T
      PROVE  k + 1 \in T
  <2>1. PICK f : Flattens(f, k, s)
    BY <1>2
  <2> DEFINE g == [i \in 1 .. k + 1 |->
                     IF i <= k THEN f[i] ELSE IF i = 1 THEN s[i] ELSE f[k] \o s[i]]
  <2>2. \A i \in 1 .. k : f[i] = IF i = 1 THEN s[i] ELSE f[i - 1] \o s[i]
    BY <2>1 DEF Flattens
  <2>3. ASSUME NEW i \in 1 .. k + 1
        PROVE  g[i] = IF i = 1 THEN s[i] ELSE g[i - 1] \o s[i]
    <3>1. CASE i <= k
      <4>1. i \in 1 .. k /\ g[i] = f[i]
        BY <3>1
      <4>2. i # 1 => i - 1 \in 1 .. k + 1 /\ i - 1 <= k
        BY <3>1
      <4>3. i # 1 => g[i - 1] = f[i - 1]
        BY <4>2
      <4> QED
        BY <2>2, <4>1, <4>3
    <3>2. CASE i = k + 1
      <4>1. ~ (i <= k)
        BY <3>2
      <4>2. i # 1 => k \in 1 .. k + 1 /\ k <= k /\ i - 1 = k
        BY <3>2
      <4>3. i # 1 => g[i - 1] = f[k]
        BY <4>2
      <4> QED
        BY <4>1, <4>3
    <3> QED
      BY <3>1, <3>2
  <2>4. g = [i \in 1 .. k + 1 |-> IF i = 1 THEN s[i] ELSE g[i - 1] \o s[i]]
    <3>1. g = [i \in 1 .. k + 1 |-> g[i]]
      OBVIOUS
    <3> HIDE DEF g
    <3> QED
      BY <2>3, <3>1
  <2>5. Flattens(g, k + 1, s)
    BY <2>4 DEF Flattens
  <2> QED
    BY <2>5
<1>3. Nat \subseteq T
  <2> HIDE DEF T
  <2> QED
    BY <1>1, <1>2, EveryNumber
<1> QED
  BY <1>3

\* What such functions have in common: they agree where their sequences do.
LEMMA FlattenUnique ==
  ASSUME NEW f, NEW g, NEW s, NEW t, NEW n \in Nat, NEW m \in Nat, n <= m,
         Flattens(f, n, s), Flattens(g, m, t), \A i \in 1 .. n : s[i] = t[i]
  PROVE  \A i \in 1 .. n : f[i] = g[i]
<1> DEFINE T == {k \in Nat : k \in 1 .. n => f[k] = g[k]}
<1>0. /\ \A i \in 1 .. n : f[i] = IF i = 1 THEN s[i] ELSE f[i - 1] \o s[i]
      /\ \A i \in 1 .. n : g[i] = IF i = 1 THEN t[i] ELSE g[i - 1] \o t[i]
  <2>1. \A i \in 1 .. n : f[i] = IF i = 1 THEN s[i] ELSE f[i - 1] \o s[i]
    BY DEF Flattens
  <2>2. \A i \in 1 .. m : g[i] = IF i = 1 THEN t[i] ELSE g[i - 1] \o t[i]
    BY DEF Flattens
  <2>3. \A i \in 1 .. n : i \in 1 .. m
    OBVIOUS
  <2> QED
    BY <2>1, <2>2, <2>3
<1>1. 0 \in T
  OBVIOUS
<1>2. ASSUME NEW k \in Nat, k \in T
      PROVE  k + 1 \in T
  <2> SUFFICES ASSUME k + 1 \in 1 .. n
               PROVE  f[k + 1] = g[k + 1]
    OBVIOUS
  <2>1. (k + 1) - 1 = k /\ (k + 1 # 1 => k \in 1 .. n)
    OBVIOUS
  <2>2. k + 1 # 1 => f[k] = g[k]
    BY <1>2, <2>1
  <2> QED
    BY <1>0, <2>1, <2>2
<1>3. Nat \subseteq T
  <2> HIDE DEF T
  <2> QED
    BY <1>1, <1>2, EveryNumber
<1> QED
  BY <1>3

\* FlattenSeq is the last value of that function.
LEMMA FlattenLast ==
  ASSUME NEW s, NEW n \in Nat \ {0}, Len(s) = n
  PROVE  \E f : Flattens(f, n, s) /\ FlattenSeq(s) = f[n]
<1> DEFINE F == CHOOSE f : Flattens(f, n, s)
<1>1. Flattens(F, n, s)
  BY FlattenExists
<1>2. FlattenSeq(s) = F[n]
  BY DEF FlattenSeq, Flattens
<1> QED
  BY <1>1, <1>2

\* Flattening one sequence more appends it.
LEMMA FlattenMore ==
  ASSUME NEW n \in Nat \ {0}, NEW t, NEW s, Len(t) = n + 1, Len(s) = n,
         \A i \in 1 .. n : s[i] = t[i]
  PROVE  FlattenSeq(t) = FlattenSeq(s) \o t[n + 1]
<1>1. PICK m \in Nat \ {0} : m = n + 1
  OBVIOUS
<1>2. PICK g : Flattens(g, m, t) /\ FlattenSeq(t) = g[m]
  BY <1>1, FlattenLast
<1>3. PICK f : Flattens(f, n, s) /\ FlattenSeq(s) = f[n]
  BY FlattenLast
<1>4. n \in 1 .. n /\ n <= m /\ m \in 1 .. m /\ m # 1 /\ m - 1 = n
  BY <1>1
<1>5. \A i \in 1 .. n : f[i] = g[i]
  BY <1>2, <1>3, <1>4, FlattenUnique
<1>6. g[m] = g[n] \o t[m]
  BY <1>2, <1>4 DEF Flattens
<1> QED
  BY <1>1, <1>2, <1>3, <1>4, <1>5, <1>6

LEMMA FlattenOne ==
  ASSUME NEW t, Len(t) = 1
  PROVE  FlattenSeq(t) = t[1]
<1>1. PICK n \in Nat \ {0} : n = 1
  OBVIOUS
<1>2. PICK g : Flattens(g, n, t) /\ FlattenSeq(t) = g[n]
  BY <1>1, FlattenLast
<1> QED
  BY <1>1, <1>2 DEF Flattens

\* The same of sequences over S, the empty one included.
LEMMA FlattenStep ==
  ASSUME NEW S, NEW n \in Nat, NEW t, NEW s,
         t \in [1 .. n + 1 -> Seq(S)], s \in [1 .. n -> Seq(S)],
         \A i \in 1 .. n : s[i] = t[i]
  PROVE  FlattenSeq(t) = FlattenSeq(s) \o t[n + 1]
<1>1. Len(t) = n + 1 /\ Len(s) = n
  OBVIOUS
<1>2. CASE n = 0
  <2>1. s = <<>>
    BY <1>1, <1>2
  <2>2. FlattenSeq(s) = <<>>
    BY <1>1, <1>2, <2>1 DEF FlattenSeq
  <2>3. FlattenSeq(t) = t[1]
    BY <1>1, <1>2, FlattenOne
  <2>4. t[1] \in Seq(S)
    BY <1>2
  <2>5. <<>> \o t[1] = t[1]
    BY <2>4
  <2>6. n + 1 = 1
    BY <1>2
  <2> QED
    BY <2>2, <2>3, <2>5, <2>6
<1>3. CASE n # 0
  BY <1>1, <1>3, FlattenMore
<1> QED
  BY <1>2, <1>3

\* What is flattened from sequences over S is a sequence over S.
LEMMA FlattenTyped ==
  ASSUME NEW S, NEW n \in Nat, NEW s \in [1 .. n -> Seq(S)]
  PROVE  FlattenSeq(s) \in Seq(S)
<1> DEFINE Upto(k) == [i \in 1 .. k |-> s[i]]
           T == {k \in Nat : k <= n => FlattenSeq(Upto(k)) \in Seq(S)}
<1>1. 0 \in T
  <2>1. Upto(0) = <<>> /\ Len(Upto(0)) = 0
    OBVIOUS
  <2>2. FlattenSeq(Upto(0)) = <<>>
    BY <2>1 DEF FlattenSeq
  <2>3. <<>> \in Seq(S)
    OBVIOUS
  <2> HIDE DEF Upto
  <2>4. FlattenSeq(Upto(0)) \in Seq(S)
    BY <2>2, <2>3
  <2> QED
    BY <2>4
<1>2. ASSUME NEW k \in Nat, k \in T
      PROVE  k + 1 \in T
  <2> SUFFICES ASSUME k + 1 <= n
               PROVE  FlattenSeq(Upto(k + 1)) \in Seq(S)
    OBVIOUS
  <2>1. Upto(k) \in [1 .. k -> Seq(S)] /\ Upto(k + 1) \in [1 .. k + 1 -> Seq(S)]
    OBVIOUS
  <2>2. \A i \in 1 .. k : Upto(k)[i] = Upto(k + 1)[i]
    OBVIOUS
  <2>3. FlattenSeq(Upto(k)) \in Seq(S) /\ Upto(k + 1)[k + 1] \in Seq(S)
    BY <1>2
  <2> HIDE DEF Upto
  <2>4. FlattenSeq(Upto(k + 1)) = FlattenSeq(Upto(k)) \o Upto(k + 1)[k + 1]
    BY <2>1, <2>2, FlattenStep
  <2> QED
    BY <2>3, <2>4, ConcatProperties
<1>3. Nat \subseteq T
  <2> HIDE DEF T
  <2> QED
    BY <1>1, <1>2, EveryNumber
<1>4. Upto(n) = s
  OBVIOUS
<1>5. n <= n
  OBVIOUS
<1> HIDE DEF Upto
<1> QED
  BY <1>3, <1>4, <1>5

\* Where the elements of the parts are in the whole: each somewhere, two of them
\* at two places, and nothing else.
PlacesOf(F, s, k) ==
  /\ \A i \in 1 .. k : \A j \in DOMAIN s[i] : \E p \in DOMAIN F : F[p] = s[i][j]
  /\ \A i, h \in 1 .. k : \A j \in DOMAIN s[i], g \in DOMAIN s[h] :
       i # h \/ j # g => \E p, q \in DOMAIN F : p # q /\ F[p] = s[i][j] /\ F[q] = s[h][g]
  /\ \A p \in DOMAIN F : \E i \in 1 .. k : \E j \in DOMAIN s[i] : F[p] = s[i][j]

LEMMA PlacesMore ==
  ASSUME NEW S, NEW k \in Nat, NEW s, NEW F \in Seq(S), NEW G \in Seq(S),
         \A i \in 1 .. k + 1 : s[i] \in Seq(S), PlacesOf(F, s, k), G = F \o s[k + 1]
  PROVE  PlacesOf(G, s, k + 1)
<1>1. PICK m \in 1 .. k + 1 : m = k + 1
  OBVIOUS
<1>2. PICK l \in Nat : l = Len(F)
  OBVIOUS
<1>3. PICK w \in Seq(S) : w = s[m]
  OBVIOUS
<1>4. /\ DOMAIN F = 1 .. l /\ DOMAIN w = 1 .. Len(w) /\ DOMAIN G = 1 .. l + Len(w)
      /\ Len(w) \in Nat
      /\ \A p \in 1 .. l + Len(w) : G[p] = IF p <= l THEN F[p] ELSE w[p - l]
  BY <1>1, <1>2, <1>3
<1>5. \A p \in DOMAIN F : p \in DOMAIN G /\ G[p] = F[p] /\ p <= l
  BY <1>4
<1>6. \A j \in DOMAIN w : l + j \in DOMAIN G /\ G[l + j] = w[j] /\ l + j > l
  BY <1>4
<1>7. \A i \in 1 .. k + 1 : i \in 1 .. k \/ i = m
  BY <1>1
<1>8. ASSUME NEW i \in 1 .. k + 1, NEW j \in DOMAIN s[i]
      PROVE  \E p \in DOMAIN G : G[p] = s[i][j]
  <2>1. CASE i \in 1 .. k
    <3>1. PICK p \in DOMAIN F : F[p] = s[i][j]
      BY <2>1 DEF PlacesOf
    <3> QED
      BY <1>5, <3>1
  <2>2. CASE i = m
    BY <1>3, <1>6, <2>2
  <2> QED
    BY <1>7, <2>1, <2>2
<1> DEFINE Apart(i, j, h, g) ==
             \E p, q \in DOMAIN G : p # q /\ G[p] = s[i][j] /\ G[q] = s[h][g]
<1>9. ASSUME NEW i \in 1 .. k, NEW h, h = m, NEW j \in DOMAIN s[i], NEW g \in DOMAIN s[h]
      PROVE  Apart(i, j, h, g)
  <2>1. PICK p \in DOMAIN F : F[p] = s[i][j]
    BY DEF PlacesOf
  <2>2. p \in DOMAIN G /\ G[p] = s[i][j] /\ p <= l
    BY <1>5, <2>1
  <2>3. l + g \in DOMAIN G /\ G[l + g] = s[h][g] /\ l + g > l
    BY <1>3, <1>6, <1>9
  <2>4. p # l + g
    BY <1>4, <2>2, <2>3
  <2> QED
    BY <2>2, <2>3, <2>4
<1>10. ASSUME NEW i \in 1 .. k + 1, NEW h \in 1 .. k + 1,
              NEW j \in DOMAIN s[i], NEW g \in DOMAIN s[h], i # h \/ j # g
       PROVE  Apart(i, j, h, g)
  <2>1. CASE i \in 1 .. k /\ h \in 1 .. k
    <3>1. PICK p \in DOMAIN F, q \in DOMAIN F : p # q /\ F[p] = s[i][j] /\ F[q] = s[h][g]
      BY <1>10, <2>1 DEF PlacesOf
    <3> QED
      BY <1>5, <3>1
  <2>2. CASE i \in 1 .. k /\ h = m
    <3> HIDE DEF Apart
    <3> QED
      BY <1>9, <2>2
  <2>3. CASE i = m /\ h \in 1 .. k
    <3>1. Apart(h, g, i, j)
      <4> HIDE DEF Apart
      <4> QED
        BY <1>9, <2>3
    <3>2. PICK p \in DOMAIN G, q \in DOMAIN G : p # q /\ G[p] = s[h][g] /\ G[q] = s[i][j]
      BY <3>1
    <3> QED
      BY <3>2
  <2>4. CASE i = m /\ h = m
    <3>1. j \in DOMAIN w /\ g \in DOMAIN w /\ j # g
      BY <1>3, <1>10, <2>4
    <3>2. /\ l + j \in DOMAIN G /\ G[l + j] = s[i][j]
          /\ l + g \in DOMAIN G /\ G[l + g] = s[h][g]
      BY <1>3, <1>6, <2>4, <3>1
    <3>3. l + j # l + g
      BY <1>4, <3>1
    <3> QED
      BY <3>2, <3>3
  <2> QED
    BY <1>7, <2>1, <2>2, <2>3, <2>4
<1>11. ASSUME NEW p \in DOMAIN G
       PROVE  \E i \in 1 .. k + 1 : \E j \in DOMAIN s[i] : G[p] = s[i][j]
  <2>1. CASE p <= l
    <3>1. p \in DOMAIN F
      BY <1>4, <2>1
    <3>2. PICK i \in 1 .. k : \E j \in DOMAIN s[i] : F[p] = s[i][j]
      BY <3>1 DEF PlacesOf
    <3> QED
      BY <1>5, <3>1, <3>2
  <2>2. CASE ~ (p <= l)
    <3>1. p - l \in DOMAIN w /\ G[p] = w[p - l]
      BY <1>4, <2>2
    <3> QED
      BY <1>1, <1>3, <3>1
  <2> QED
    BY <2>1, <2>2
<1> QED
  BY <1>8, <1>10, <1>11 DEF PlacesOf

LEMMA FlattenPlaces ==
  ASSUME NEW S, NEW n \in Nat, NEW s \in [1 .. n -> Seq(S)]
  PROVE  PlacesOf(FlattenSeq(s), s, n)
<1> DEFINE Upto(k) == [i \in 1 .. k |-> s[i]]
           T == {k \in Nat : k <= n => PlacesOf(FlattenSeq(Upto(k)), s, k)}
<1>1. 0 \in T
  <2>1. Upto(0) = <<>> /\ Len(Upto(0)) = 0
    OBVIOUS
  <2>2. FlattenSeq(Upto(0)) = <<>>
    BY <2>1 DEF FlattenSeq
  <2>3. PlacesOf(<<>>, s, 0)
    BY DEF PlacesOf
  <2> QED
    BY <2>2, <2>3
<1>2. ASSUME NEW k \in Nat, k \in T
      PROVE  k + 1 \in T
  <2> SUFFICES ASSUME k + 1 <= n
               PROVE  PlacesOf(FlattenSeq(Upto(k + 1)), s, k + 1)
    OBVIOUS
  <2>1. /\ Upto(k) \in [1 .. k -> Seq(S)] /\ Upto(k + 1) \in [1 .. k + 1 -> Seq(S)]
        /\ \A i \in 1 .. k : Upto(k)[i] = Upto(k + 1)[i]
        /\ Upto(k + 1)[k + 1] = s[k + 1]
        /\ \A i \in 1 .. k + 1 : s[i] \in Seq(S)
    OBVIOUS
  <2>2. k <= n
    OBVIOUS
  <2>3. PlacesOf(FlattenSeq(Upto(k)), s, k)
    BY <1>2, <2>2
  <2> HIDE DEF Upto, T
  <2>4. PICK u, v : u = Upto(k) /\ v = Upto(k + 1)
    OBVIOUS
  <2>5. FlattenSeq(v) = FlattenSeq(u) \o v[k + 1]
    BY <2>1, <2>4, FlattenStep
  <2>6. PICK m \in Nat : m = k + 1
    OBVIOUS
  <2>7. FlattenSeq(u) \in Seq(S) /\ FlattenSeq(v) \in Seq(S)
    BY <2>1, <2>4, <2>6, FlattenTyped
  <2>8. PICK F \in Seq(S), G \in Seq(S) : F = FlattenSeq(u) /\ G = FlattenSeq(v)
    BY <2>7
  <2> QED
    BY <2>1, <2>3, <2>4, <2>5, <2>8, PlacesMore
<1>3. n \in T
  <2> HIDE DEF T
  <2>1. Nat \subseteq T
    BY <1>1, <1>2, EveryNumber
  <2> QED
    BY <2>1
<1> QED
  BY <1>3

-------------------------------------------------------------------------------
\* p[k] is the sum of the values of f at those of the first k places in S.
Adds(p, f, n, S) ==
  /\ p \in [0 .. n -> Int] /\ p[0] = 0
  /\ \A k \in 1 .. n : p[k] = p[k - 1] + IF k \in S THEN f[k] ELSE 0

AddedUp(f, n, S) == (CHOOSE p : Adds(p, f, n, S))[n]

LEMMA AddedUpExists ==
  ASSUME NEW n \in Nat, NEW f \in [1 .. n -> Int], NEW S
  PROVE  \E p : Adds(p, f, n, S) /\ AddedUp(f, n, S) = p[n]
<1> DEFINE T == {k \in Nat : k <= n => \E p : Adds(p, f, k, S)}
<1>1. 0 \in T
  <2> DEFINE p == [i \in 0 .. 0 |-> 0]
  <2>1. p \in [0 .. 0 -> Int] /\ p[0] = 0
    OBVIOUS
  <2>2. Adds(p, f, 0, S)
    BY <2>1 DEF Adds
  <2> QED
    BY <2>2
<1>2. ASSUME NEW k \in Nat, k \in T
      PROVE  k + 1 \in T
  <2> SUFFICES ASSUME k + 1 <= n
               PROVE  \E p : Adds(p, f, k + 1, S)
    OBVIOUS
  <2>1. PICK p : Adds(p, f, k, S)
    BY <1>2
  <2>2. f[k + 1] \in Int /\ p \in [0 .. k -> Int] /\ p[k] \in Int
    BY <2>1 DEF Adds
  <2> DEFINE more == IF k + 1 \in S THEN f[k + 1] ELSE 0
             q == [i \in 0 .. k + 1 |-> IF i <= k THEN p[i] ELSE p[k] + more]
  <2>3. more \in Int
    BY <2>2
  <2>4. q \in [0 .. k + 1 -> Int] /\ q[0] = 0 /\ q[k + 1] = q[k] + more
    <3>1. \A i \in 0 .. k + 1 : (IF i <= k THEN p[i] ELSE p[k] + more) \in Int
      <4> HIDE DEF more
      <4> QED
        BY <2>2, <2>3
    <3>2. q \in [0 .. k + 1 -> Int]
      BY <3>1
    <3>3. q[0] = p[0] /\ q[k] = p[k] /\ q[k + 1] = p[k] + more
      OBVIOUS
    <3> HIDE DEF q, more
    <3> QED
      BY <2>1, <3>2, <3>3 DEF Adds
  <2>5. \A i \in 1 .. k + 1 : q[i] = q[i - 1] + IF i \in S THEN f[i] ELSE 0
    <3> TAKE i \in 1 .. k + 1
    <3>1. CASE i = k + 1
      <4>1. i - 1 = k
        BY <3>1
      <4> HIDE DEF q
      <4> QED
        BY <2>4, <3>1, <4>1
    <3>2. CASE i \in 1 .. k
      <4>1. q[i] = p[i] /\ q[i - 1] = p[i - 1]
        BY <3>2
      <4> HIDE DEF q
      <4> QED
        BY <2>1, <3>2, <4>1 DEF Adds
    <3> QED
      BY <3>1, <3>2
  <2>6. Adds(q, f, k + 1, S)
    <3> HIDE DEF q
    <3> QED
      BY <2>4, <2>5 DEF Adds
  <2> QED
    BY <2>6
<1>3. Nat \subseteq T
  <2> HIDE DEF T
  <2> QED
    BY <1>1, <1>2, EveryNumber
<1>4. PICK p : Adds(p, f, n, S)
  BY <1>3
<1> QED
  BY <1>4 DEF AddedUp

LEMMA AddedUpTyped ==
  ASSUME NEW n \in Nat, NEW f \in [1 .. n -> Int], NEW S
  PROVE  AddedUp(f, n, S) \in Int
<1>1. PICK p : Adds(p, f, n, S) /\ AddedUp(f, n, S) = p[n]
  BY AddedUpExists
<1> QED
  BY <1>1 DEF Adds

\* One place more adds the value at it.
LEMMA AddedUpMore ==
  ASSUME NEW n \in Nat, NEW f \in [1 .. n -> Int], NEW S, NEW i \in 1 .. n, i \notin S
  PROVE  AddedUp(f, n, S \cup {i}) = AddedUp(f, n, S) + f[i]
<1>1. PICK p : Adds(p, f, n, S) /\ AddedUp(f, n, S) = p[n]
  BY AddedUpExists
<1>2. PICK q : Adds(q, f, n, S \cup {i}) /\ AddedUp(f, n, S \cup {i}) = q[n]
  BY AddedUpExists
<1> DEFINE T == {k \in Nat : k <= n => q[k] = p[k] + IF i <= k THEN f[i] ELSE 0}
<1>3. 0 \in T
  BY <1>1, <1>2 DEF Adds
<1>4. ASSUME NEW k \in Nat, k \in T
      PROVE  k + 1 \in T
  <2> SUFFICES ASSUME k + 1 <= n
               PROVE  q[k + 1] = p[k + 1] + IF i <= k + 1 THEN f[i] ELSE 0
    OBVIOUS
  <2>1. /\ k + 1 \in 1 .. n /\ k \in 0 .. n /\ (k + 1) - 1 = k
        /\ q[k] = p[k] + IF i <= k THEN f[i] ELSE 0
    BY <1>4
  <2>2. /\ p[k + 1] = p[k] + IF k + 1 \in S THEN f[k + 1] ELSE 0
        /\ q[k + 1] = q[k] + IF k + 1 \in S \cup {i} THEN f[k + 1] ELSE 0
        /\ p[k] \in Int /\ q[k] \in Int /\ f[k + 1] \in Int /\ f[i] \in Int
    BY <1>1, <1>2, <2>1 DEF Adds
  <2>3. CASE k + 1 = i
    BY <2>1, <2>2, <2>3
  <2>4. CASE k + 1 # i
    BY <2>1, <2>2, <2>4
  <2> QED
    BY <2>3, <2>4
<1>5. Nat \subseteq T
  <2> HIDE DEF T
  <2> QED
    BY <1>3, <1>4, EveryNumber
<1>6. q[n] = p[n] + IF i <= n THEN f[i] ELSE 0
  BY <1>5
<1> QED
  BY <1>1, <1>2, <1>6

LEMMA AddedUpNothing ==
  ASSUME NEW n \in Nat, NEW f \in [1 .. n -> Int]
  PROVE  AddedUp(f, n, {}) = 0
<1>1. PICK p : Adds(p, f, n, {}) /\ AddedUp(f, n, {}) = p[n]
  BY AddedUpExists
<1> DEFINE T == {k \in Nat : k <= n => p[k] = 0}
<1>2. 0 \in T
  BY <1>1 DEF Adds
<1>3. ASSUME NEW k \in Nat, k \in T
      PROVE  k + 1 \in T
  <2> SUFFICES ASSUME k + 1 <= n
               PROVE  p[k + 1] = 0
    OBVIOUS
  <2>1. k + 1 \in 1 .. n /\ (k + 1) - 1 = k /\ p[k] = 0
    BY <1>3
  <2> QED
    BY <1>1, <2>1 DEF Adds
<1>4. Nat \subseteq T
  <2> HIDE DEF T
  <2> QED
    BY <1>2, <1>3, EveryNumber
<1> QED
  BY <1>1, <1>4

\* The recursive function inside SumFunctionOnSet: it adds the value at some
\* member, whichever, to the sum over the rest.
SumsUp(g, f, S) ==
  g = [s \in SUBSET S |-> IF s = {} THEN 0
                         ELSE f[CHOOSE x \in s : TRUE] + g[s \ {CHOOSE x \in s : TRUE}]]

LEMMA SumAddsUp ==
  ASSUME NEW n \in Nat, NEW f \in [1 .. n -> Int], NEW S \in SUBSET (1 .. n)
  PROVE  SumFunctionOnSet(f, S) = AddedUp(f, n, S)
<1>1. ASSUME NEW s \in SUBSET S, s # {}, NEW x \in s
      PROVE  AddedUp(f, n, s) = f[x] + AddedUp(f, n, s \ {x})
  <2>1. PICK rest : rest = s \ {x}
    OBVIOUS
  <2>2. x \in 1 .. n /\ x \notin rest
    BY <2>1
  <2>3. s = rest \cup {x}
    BY <1>1, <2>1
  <2>4. AddedUp(f, n, rest \cup {x}) = AddedUp(f, n, rest) + f[x]
    BY <2>2, AddedUpMore
  <2>5. AddedUp(f, n, rest) \in Int /\ f[x] \in Int
    BY <2>2, AddedUpTyped
  <2>6. AddedUp(f, n, s) = AddedUp(f, n, rest) + f[x]
    BY <2>3, <2>4
  <2> QED
    BY <2>1, <2>5, <2>6
<1>2. AddedUp(f, n, {}) = 0
  BY AddedUpNothing
<1> DEFINE G == [s \in SUBSET S |-> AddedUp(f, n, s)]
<1>3. SumsUp(G, f, S)
  <2>1. ASSUME NEW s \in SUBSET S, s # {}
        PROVE  G[s] = f[CHOOSE x \in s : TRUE] + G[s \ {CHOOSE x \in s : TRUE}]
    <3>1. PICK x \in s : x = CHOOSE y \in s : TRUE
      BY <2>1
    <3>2. G[s] = AddedUp(f, n, s) /\ G[s \ {x}] = AddedUp(f, n, s \ {x})
      OBVIOUS
    <3>3. AddedUp(f, n, s) = f[x] + AddedUp(f, n, s \ {x})
      BY <1>1, <3>1
    <3> HIDE DEF G
    <3> QED
      BY <3>1, <3>2, <3>3
  <2>2. G[{}] = 0
    BY <1>2
  <2>3. G = [s \in SUBSET S |-> G[s]]
    OBVIOUS
  <2> HIDE DEF G
  <2> QED
    BY <2>1, <2>2, <2>3 DEF SumsUp
<1>4. PICK g : SumsUp(g, f, S) /\ SumFunctionOnSet(f, S) = g[S]
  BY <1>3 DEF SumFunctionOnSet, FoldFunctionOnSet, MapThenFoldSet, SumsUp
<1> HIDE DEF G
<1>5. IsFiniteSet(S)
  <2>1. IsFiniteSet(1 .. n)
    BY FS_Interval
  <2> QED
    BY <2>1, FS_Subset
<1> DEFINE Wrong == {c \in Nat : \E s \in SUBSET S : g[s] # AddedUp(f, n, s) /\ c = Cardinality(s)}
<1>6. ASSUME NEW s \in SUBSET S
      PROVE  g[s] = AddedUp(f, n, s)
  <2> SUFFICES ASSUME g[s] # AddedUp(f, n, s)
               PROVE  FALSE
    OBVIOUS
  <2>1. Cardinality(s) \in Wrong
    BY <1>5, FS_Subset, FS_CardinalityType
  <2>2. Wrong \in SUBSET Nat
    OBVIOUS
  <2>3. PICK m \in Wrong : \A k \in Wrong : m <= k
    <3> HIDE DEF Wrong
    <3> QED
      BY <2>1, <2>2, LeastNumber
  <2>4. PICK w \in SUBSET S : g[w] # AddedUp(f, n, w) /\ m = Cardinality(w)
    OBVIOUS
  <2>5. IsFiniteSet(w) /\ m \in Nat
    BY <1>5, <2>4, FS_Subset
  <2>6. w # {}
    BY <1>2, <1>4, <2>4 DEF SumsUp
  <2>7. PICK x \in w : x = CHOOSE y \in w : TRUE
    BY <2>6
  <2>8. g[w] = f[x] + g[w \ {x}]
    BY <1>4, <2>6, <2>7 DEF SumsUp
  <2>9. AddedUp(f, n, w) = f[x] + AddedUp(f, n, w \ {x})
    BY <1>1, <2>6
  <2>10. g[w \ {x}] # AddedUp(f, n, w \ {x})
    BY <2>4, <2>8, <2>9
  <2>11. Cardinality(w \ {x}) = m - 1 /\ Cardinality(w \ {x}) \in Nat
    BY <2>4, <2>5, FS_RemoveElement, FS_CardinalityType
  <2>12. m - 1 \in Wrong
    BY <2>10, <2>11
  <2> QED
    BY <2>3, <2>5, <2>12
<1> QED
  BY <1>4, <1>6

\* What sums over finitely many places are, for every order of adding them up.
LEMMA SumTyped ==
  ASSUME NEW n \in Nat, NEW f \in [1 .. n -> Int], NEW S \in SUBSET (1 .. n)
  PROVE  SumFunctionOnSet(f, S) \in Int /\ SumFunctionOnSet(f, {}) = 0
BY SumAddsUp, AddedUpTyped, AddedUpNothing

LEMMA SumMore ==
  ASSUME NEW n \in Nat, NEW f \in [1 .. n -> Int], NEW S \in SUBSET (1 .. n),
         NEW i \in 1 .. n, i \notin S
  PROVE  SumFunctionOnSet(f, S \cup {i}) = SumFunctionOnSet(f, S) + f[i]
<1>1. SumFunctionOnSet(f, S \cup {i}) = AddedUp(f, n, S \cup {i})
  BY SumAddsUp
<1>2. SumFunctionOnSet(f, S) = AddedUp(f, n, S)
  BY SumAddsUp
<1> QED
  BY <1>1, <1>2, AddedUpMore

\* h is f times t less g times u, and so are sums of their values.
Reduced(a, t, b, u) == a * t - b * u

Combines(h, f, t, g, u, n) ==
  /\ f \in [1 .. n -> Int] /\ g \in [1 .. n -> Int] /\ h \in [1 .. n -> Int]
  /\ n \in Nat /\ t \in Int /\ u \in Int
  /\ \A i \in 1 .. n : h[i] = f[i] * t - g[i] * u

LEMMA SumLinear ==
  ASSUME NEW n, NEW f, NEW g, NEW h, NEW t, NEW u, Combines(h, f, t, g, u, n),
         NEW S \in SUBSET (1 .. n)
  PROVE  SumFunctionOnSet(h, S) = Reduced(SumFunctionOnSet(f, S), t, SumFunctionOnSet(g, S), u)
<1>0. /\ f \in [1 .. n -> Int] /\ g \in [1 .. n -> Int] /\ h \in [1 .. n -> Int]
      /\ n \in Nat /\ t \in Int /\ u \in Int
  BY DEF Combines
<1>1. PICK p : Adds(p, f, n, S) /\ AddedUp(f, n, S) = p[n]
  BY <1>0, AddedUpExists
<1>2. PICK q : Adds(q, g, n, S) /\ AddedUp(g, n, S) = q[n]
  BY <1>0, AddedUpExists
<1>3. PICK r : Adds(r, h, n, S) /\ AddedUp(h, n, S) = r[n]
  BY <1>0, AddedUpExists
<1> DEFINE T == {k \in Nat : k <= n => r[k] = p[k] * t - q[k] * u}
<1>4. 0 \in T
  BY <1>0, <1>1, <1>2, <1>3 DEF Adds
<1>5. ASSUME NEW k \in Nat, k \in T
      PROVE  k + 1 \in T
  <2> SUFFICES ASSUME k + 1 <= n
               PROVE  r[k + 1] = p[k + 1] * t - q[k + 1] * u
    OBVIOUS
  <2>1. k + 1 \in 1 .. n /\ k \in 0 .. n /\ (k + 1) - 1 = k /\ r[k] = p[k] * t - q[k] * u
    BY <1>0, <1>5
  <2>2. /\ p[k] \in Int /\ q[k] \in Int
        /\ f[k + 1] \in Int /\ g[k + 1] \in Int /\ h[k + 1] = f[k + 1] * t - g[k + 1] * u
    BY <1>0, <1>1, <1>2, <2>1 DEF Adds, Combines
  <2>3. CASE k + 1 \notin S
    <3>1. r[k + 1] = r[k] + 0 /\ p[k + 1] = p[k] + 0 /\ q[k + 1] = q[k] + 0
      BY <1>1, <1>2, <1>3, <2>1, <2>3 DEF Adds
    <3>2. \A a, b \in Int : a * t - b * u \in Int
      BY <1>0
    <3>3. p[k + 1] = p[k] /\ q[k + 1] = q[k] /\ r[k + 1] = r[k]
      <4>1. r[k] \in Int
        BY <2>1, <2>2, <3>2
      <4> QED
        BY <2>2, <3>1, <4>1
    <3> QED
      BY <2>1, <3>3
  <2>4. CASE k + 1 \in S
    <3>1. /\ r[k + 1] = r[k] + h[k + 1] /\ p[k + 1] = p[k] + f[k + 1]
          /\ q[k + 1] = q[k] + g[k + 1]
      BY <1>1, <1>2, <1>3, <2>1, <2>4 DEF Adds
    <3>2. \A a, b, c, d \in Int :
            (a * t - c * u) + (b * t - d * u) = (a + b) * t - (c + d) * u
      BY <1>0
    <3>3. PICK a \in Int, b \in Int, c \in Int, d \in Int :
            a = p[k] /\ b = f[k + 1] /\ c = q[k] /\ d = g[k + 1]
      BY <2>2
    <3>4. r[k] = a * t - c * u /\ h[k + 1] = b * t - d * u
      BY <2>1, <2>2, <3>3
    <3>5. r[k + 1] = (a * t - c * u) + (b * t - d * u)
      BY <3>1, <3>4
    <3>6. (a + b) * t - (c + d) * u = p[k + 1] * t - q[k + 1] * u
      BY <3>1, <3>3
    <3> QED
      BY <3>2, <3>5, <3>6
  <2> QED
    BY <2>3, <2>4
<1>6. Nat \subseteq T
  <2> HIDE DEF T
  <2> QED
    BY <1>4, <1>5, EveryNumber
<1>7. AddedUp(h, n, S) = AddedUp(f, n, S) * t - AddedUp(g, n, S) * u
  BY <1>0, <1>1, <1>2, <1>3, <1>6
<1> QED
  BY <1>0, <1>7, SumAddsUp DEF Reduced

\* A sum of zeros.
LEMMA SumOfZeros ==
  ASSUME NEW n \in Nat, NEW f \in [1 .. n -> Int], \A i \in 1 .. n : f[i] = 0,
         NEW S \in SUBSET (1 .. n)
  PROVE  SumFunctionOnSet(f, S) = 0
<1>1. PICK t \in Int : t = 0
  OBVIOUS
<1>2. SumFunctionOnSet(f, S) = SumFunctionOnSet(f, S) * t - SumFunctionOnSet(f, S) * t
  <2>1. Combines(f, f, t, f, t, n)
    BY <1>1 DEF Combines
  <2>2. SumFunctionOnSet(f, S) = Reduced(SumFunctionOnSet(f, S), t, SumFunctionOnSet(f, S), t)
    BY <2>1, SumLinear
  <2> QED
    BY <2>2 DEF Reduced
<1>3. SumFunctionOnSet(f, S) \in Int
  BY SumTyped
<1> QED
  BY <1>1, <1>2, <1>3

\* Sums of n numbers.
SumOf(f, n) == SumFunctionOnSet(f, 1 .. n)

LEMMA SumOfTyped ==
  ASSUME NEW n \in Nat, NEW f \in [1 .. n -> Int]
  PROVE  SumOf(f, n) \in Int
BY SumTyped DEF SumOf

LEMMA SumOfLinear ==
  ASSUME NEW n, NEW f, NEW g, NEW h, NEW t, NEW u, Combines(h, f, t, g, u, n)
  PROVE  SumOf(h, n) = Reduced(SumOf(f, n), t, SumOf(g, n), u)
<1>1. PICK S \in SUBSET (1 .. n) : S = 1 .. n
  OBVIOUS
<1>2. SumFunctionOnSet(h, S) = Reduced(SumFunctionOnSet(f, S), t, SumFunctionOnSet(g, S), u)
  <2>1. n \in Nat
    BY DEF Combines
  <2> QED
    BY <1>1, <2>1, SumLinear
<1> QED
  BY <1>1, <1>2 DEF SumOf

\* A sum with one number that is not zero.
LEMMA SumOfSingle ==
  ASSUME NEW n \in Nat, NEW f \in [1 .. n -> Int], NEW i \in 1 .. n,
         \A j \in 1 .. n : j # i => f[j] = 0
  PROVE  SumOf(f, n) = f[i]
<1>1. PICK rest \in SUBSET (1 .. n) : rest = (1 .. n) \ {i}
  OBVIOUS
<1>2. i \notin rest /\ rest \cup {i} = 1 .. n /\ f[i] \in Int
  BY <1>1
<1>3. SumFunctionOnSet(f, 1 .. n) = SumFunctionOnSet(f, rest) + f[i]
  BY <1>2, SumMore
<1>4. \A j \in rest : f[j] = 0
  BY <1>1
<1>5. SumFunctionOnSet(f, rest) = 0
  <2>1. PICK p : Adds(p, f, n, rest) /\ AddedUp(f, n, rest) = p[n]
    BY AddedUpExists
  <2> DEFINE T == {k \in Nat : k <= n => p[k] = 0}
  <2>2. 0 \in T
    BY <2>1 DEF Adds
  <2>3. ASSUME NEW k \in Nat, k \in T
        PROVE  k + 1 \in T
    <3> SUFFICES ASSUME k + 1 <= n
                 PROVE  p[k + 1] = 0
      OBVIOUS
    <3>1. k + 1 \in 1 .. n /\ (k + 1) - 1 = k /\ p[k] = 0
      BY <2>3
    <3>2. p[k + 1] = p[k] + (IF k + 1 \in rest THEN f[k + 1] ELSE 0)
      BY <2>1, <3>1 DEF Adds
    <3> QED
      BY <1>4, <3>1, <3>2
  <2>4. Nat \subseteq T
    <3> HIDE DEF T
    <3> QED
      BY <2>2, <2>3, EveryNumber
  <2> QED
    BY <2>1, <2>4, SumAddsUp
<1> QED
  BY <1>2, <1>3, <1>5 DEF SumOf

\* A sum of numbers that are not negative is not negative.
LEMMA SumOfNaturals ==
  ASSUME NEW n \in Nat, NEW f \in [1 .. n -> Nat]
  PROVE  SumOf(f, n) \in Nat
<1>0. f \in [1 .. n -> Int]
  OBVIOUS
<1>1. PICK p : Adds(p, f, n, 1 .. n) /\ AddedUp(f, n, 1 .. n) = p[n]
  BY <1>0, AddedUpExists
<1> DEFINE T == {k \in Nat : k <= n => p[k] \in Nat}
<1>2. 0 \in T
  BY <1>1 DEF Adds
<1>3. ASSUME NEW k \in Nat, k \in T
      PROVE  k + 1 \in T
  <2> SUFFICES ASSUME k + 1 <= n
               PROVE  p[k + 1] \in Nat
    OBVIOUS
  <2>1. k + 1 \in 1 .. n /\ (k + 1) - 1 = k /\ p[k] \in Nat
    BY <1>3
  <2>2. p[k + 1] = p[k] + f[k + 1] /\ f[k + 1] \in Nat
    BY <1>1, <2>1 DEF Adds
  <2> QED
    BY <2>1, <2>2
<1>4. Nat \subseteq T
  <2> HIDE DEF T
  <2> QED
    BY <1>2, <1>3, EveryNumber
<1>5. SumFunctionOnSet(f, 1 .. n) = AddedUp(f, n, 1 .. n)
  BY <1>0, SumAddsUp
<1> QED
  BY <1>1, <1>4, <1>5 DEF SumOf

\* The numbers of a square add up to the same by rows and by columns.
LEMMA SumOfSquare ==
  ASSUME NEW n \in Nat, NEW a \in [1 .. n -> [1 .. n -> Int]]
  PROVE  SumOf([i \in 1 .. n |-> SumOf(a[i], n)], n)
           = SumOf([j \in 1 .. n |-> SumOf([i \in 1 .. n |-> a[i][j]], n)], n)
<1> DEFINE column(j) == [i \in 1 .. n |-> a[i][j]]
           columns == [j \in 1 .. n |-> SumOf(column(j), n)]
           upto(k) == [i \in 1 .. n |-> SumFunctionOnSet(a[i], 1 .. k)]
           T == {k \in Nat : k <= n => SumOf(upto(k), n) = SumFunctionOnSet(columns, 1 .. k)}
<1>1. ASSUME NEW j \in 1 .. n
      PROVE  column(j) \in [1 .. n -> Int]
  OBVIOUS
<1>2. columns \in [1 .. n -> Int]
  BY <1>1, SumOfTyped
<1>3. ASSUME NEW k \in Nat, k <= n
      PROVE  upto(k) \in [1 .. n -> Int]
  <2>1. (1 .. k) \in SUBSET (1 .. n)
    BY <1>3
  <2> QED
    BY <2>1, SumTyped
<1>4. 0 \in T
  <2>1. PICK f : f = upto(0)
    OBVIOUS
  <2>2. f \in [1 .. n -> Int]
    <3>1. 0 \in Nat /\ 0 <= n
      OBVIOUS
    <3> HIDE DEF upto
    <3> QED
      BY <1>3, <2>1, <3>1
  <2>3. 1 .. 0 = {}
    OBVIOUS
  <2>4. \A i \in 1 .. n : f[i] = 0
    BY <2>1, <2>3, SumTyped
  <2>5. SumOf(f, n) = 0
    BY <2>2, <2>4, SumOfZeros DEF SumOf
  <2>6. SumFunctionOnSet(columns, {}) = 0
    BY <1>2, SumTyped
  <2> QED
    BY <2>1, <2>3, <2>5, <2>6
<1>5. ASSUME NEW k \in Nat, k \in T
      PROVE  k + 1 \in T
  <2> SUFFICES ASSUME k + 1 <= n
               PROVE  SumOf(upto(k + 1), n) = SumFunctionOnSet(columns, 1 .. k + 1)
    OBVIOUS
  <2>1. PICK f, g, h : f = upto(k) /\ g = column(k + 1) /\ h = upto(k + 1)
    OBVIOUS
  <2>2. /\ k + 1 \in 1 .. n /\ k <= n /\ (1 .. k) \in SUBSET (1 .. n)
        /\ k + 1 \notin 1 .. k /\ 1 .. k + 1 = (1 .. k) \cup {k + 1}
    OBVIOUS
  <2>3. f \in [1 .. n -> Int] /\ g \in [1 .. n -> Int] /\ h \in [1 .. n -> Int]
    BY <1>1, <1>3, <2>1, <2>2
  <2>4. \A i \in 1 .. n : h[i] = f[i] + g[i]
    <3> TAKE i \in 1 .. n
    <3>1. PICK r \in [1 .. n -> Int], S \in SUBSET (1 .. n) : r = a[i] /\ S = 1 .. k
      BY <2>2
    <3>2. PICK m \in 1 .. n : m = k + 1 /\ m \notin S
      BY <2>2, <3>1
    <3>3. SumFunctionOnSet(r, S \cup {m}) = SumFunctionOnSet(r, S) + r[m]
      BY <3>2, SumMore
    <3>4. SumFunctionOnSet(a[i], 1 .. k + 1) = SumFunctionOnSet(a[i], 1 .. k) + a[i][k + 1]
      BY <2>2, <3>1, <3>2, <3>3
    <3> QED
      BY <2>1, <3>4
  <2>5. PICK one \in Int, less \in Int : one = 1 /\ less = -1
    OBVIOUS
  <2>6. Combines(h, f, one, g, less, n)
    <3>1. \A i \in 1 .. n : h[i] = f[i] * one - g[i] * less
      BY <2>3, <2>4, <2>5
    <3> QED
      BY <2>3, <3>1 DEF Combines
  <2>7. SumOf(h, n) = SumOf(f, n) + SumOf(g, n)
    <3>1. SumOf(h, n) = Reduced(SumOf(f, n), one, SumOf(g, n), less)
      BY <2>6, SumOfLinear
    <3>2. SumOf(f, n) \in Int /\ SumOf(g, n) \in Int
      BY <2>3, SumOfTyped
    <3> QED
      BY <2>5, <3>1, <3>2 DEF Reduced
  <2>8. SumOf(f, n) = SumFunctionOnSet(columns, 1 .. k)
    BY <1>5, <2>1, <2>2
  <2>9. SumFunctionOnSet(columns, 1 .. k + 1)
          = SumFunctionOnSet(columns, 1 .. k) + columns[k + 1]
    <3>1. PICK c \in [1 .. n -> Int], S \in SUBSET (1 .. n) : c = columns /\ S = 1 .. k
      BY <1>2, <2>2
    <3>2. PICK m \in 1 .. n : m = k + 1 /\ m \notin S
      BY <2>2, <3>1
    <3>3. SumFunctionOnSet(c, S \cup {m}) = SumFunctionOnSet(c, S) + c[m]
      BY <3>2, SumMore
    <3> HIDE DEF columns
    <3> QED
      BY <2>2, <3>1, <3>2, <3>3
  <2> QED
    BY <2>1, <2>2, <2>7, <2>8, <2>9
<1>6. n \in T
  <2> HIDE DEF T
  <2> QED
    BY <1>4, <1>5, EveryNumber
<1>7. upto(n) = [i \in 1 .. n |-> SumOf(a[i], n)]
  BY DEF SumOf
<1> QED
  BY <1>6, <1>7 DEF SumOf

\* Any n numbers have a bound.
LEMMA NumbersBounded ==
  ASSUME NEW n \in Nat, NEW f \in [1 .. n -> Nat]
  PROVE  \E b \in Nat : \A i \in 1 .. n : f[i] <= b
<1> DEFINE T == {k \in Nat : k <= n => \E b \in Nat : \A i \in 1 .. k : f[i] <= b}
<1>1. 0 \in T
  OBVIOUS
<1>2. ASSUME NEW k \in Nat, k \in T
      PROVE  k + 1 \in T
  <2> SUFFICES ASSUME k + 1 <= n
               PROVE  \E b \in Nat : \A i \in 1 .. k + 1 : f[i] <= b
    OBVIOUS
  <2>1. PICK b \in Nat : \A i \in 1 .. k : f[i] <= b
    BY <1>2
  <2>2. PICK x \in Nat : x = f[k + 1]
    OBVIOUS
  <2>3. \A i \in 1 .. k + 1 : i \in 1 .. k \/ i = k + 1
    OBVIOUS
  <2>4. \A i \in 1 .. k : f[i] \in Nat
    OBVIOUS
  <2>5. \A i \in 1 .. k + 1 : f[i] <= b + x
    BY <2>1, <2>2, <2>3, <2>4
  <2> QED
    BY <2>5
<1>3. n \in T
  <2> HIDE DEF T
  <2> QED
    BY <1>1, <1>2, EveryNumber
<1> QED
  BY <1>3

-------------------------------------------------------------------------------
\* The elements of a sequence.

LEMMA ElementsConcat ==
  ASSUME NEW S, NEW s \in Seq(S), NEW t \in Seq(S)
  PROVE  s \o t \in Seq(S) /\ ToSet(s \o t) = ToSet(s) \cup ToSet(t)
<1>1. PICK l \in Nat, m \in Nat : l = Len(s) /\ m = Len(t)
  OBVIOUS
<1>2. /\ DOMAIN s = 1 .. l /\ DOMAIN t = 1 .. m /\ DOMAIN (s \o t) = 1 .. l + m
      /\ \A i \in 1 .. l + m : (s \o t)[i] = IF i <= l THEN s[i] ELSE t[i - l]
  BY <1>1
<1>3. ASSUME NEW i \in 1 .. l
      PROVE  i \in 1 .. l + m /\ (s \o t)[i] = s[i]
  BY <1>2
<1>4. ASSUME NEW i \in 1 .. m
      PROVE  i + l \in 1 .. l + m /\ (s \o t)[i + l] = t[i]
  <2>1. i + l \in 1 .. l + m /\ ~(i + l <= l) /\ (i + l) - l = i
    OBVIOUS
  <2> QED
    BY <1>2, <2>1
<1>5. ASSUME NEW i \in 1 .. l + m
      PROVE  (s \o t)[i] \in ToSet(s) \cup ToSet(t)
  <2>1. i <= l => i \in 1 .. l
    OBVIOUS
  <2>2. ~(i <= l) => i - l \in 1 .. m
    OBVIOUS
  <2> QED
    BY <1>2, <2>1, <2>2 DEF ToSet
<1>6. s \o t \in Seq(S)
  OBVIOUS
<1>7. ToSet(s \o t) \subseteq ToSet(s) \cup ToSet(t)
  BY <1>2, <1>5 DEF ToSet
<1>8. ToSet(s) \subseteq ToSet(s \o t) /\ ToSet(t) \subseteq ToSet(s \o t)
  <2>1. \A i \in DOMAIN s : s[i] \in {(s \o t)[j] : j \in DOMAIN (s \o t)}
    BY <1>2, <1>3
  <2>2. \A i \in DOMAIN t : t[i] \in {(s \o t)[j] : j \in DOMAIN (s \o t)}
    BY <1>2, <1>4
  <2> QED
    BY <2>1, <2>2 DEF ToSet
<1> QED
  BY <1>6, <1>7, <1>8

LEMMA ElementsTail ==
  ASSUME NEW S, NEW s \in Seq(S), s # <<>>
  PROVE  /\ Head(s) \in S /\ Tail(s) \in Seq(S)
         /\ ToSet(s) = {Head(s)} \cup ToSet(Tail(s))
<1>1. /\ Head(s) \in S /\ Tail(s) \in Seq(S) /\ <<Head(s)>> \in Seq(S)
      /\ s = <<Head(s)>> \o Tail(s)
  OBVIOUS
<1>2. PICK h \in Seq(S), t \in Seq(S) : h = <<Head(s)>> /\ t = Tail(s)
  BY <1>1
<1>3. ToSet(h) = {Head(s)}
  BY <1>2 DEF ToSet
<1>4. ToSet(h \o t) = ToSet(h) \cup ToSet(t)
  BY ElementsConcat
<1> QED
  BY <1>1, <1>2, <1>3, <1>4

\* A finite set in some order.
LEMMA SetInOrder ==
  ASSUME NEW S, IsFiniteSet(S)
  PROVE  SetToSeq(S) \in Seq(S) /\ ToSet(SetToSeq(S)) = S
<1>1. PICK n \in Nat : n = Cardinality(S) /\ ExistsBijection(1 .. n, S)
  BY FS_CardinalityType
<1>2. \E f \in [1 .. n -> S] : IsInjective(f)
  BY <1>1 DEF ExistsBijection, Bijection, Injection
<1>3. SetToSeq(S) \in [1 .. n -> S] /\ IsInjective(SetToSeq(S))
  BY <1>1, <1>2 DEF SetToSeq
<1>4. SetToSeq(S) \in Injection(1 .. n, S)
  BY <1>3 DEF Injection
<1>5. Cardinality(1 .. n) = n
  BY FS_Interval
<1>6. SetToSeq(S) \in Surjection(1 .. n, S)
  BY <1>1, <1>4, <1>5, FS_Injection
<1>7. SetToSeq(S) \in Seq(S)
  BY <1>3
<1>8. ToSet(SetToSeq(S)) = S
  BY <1>3, <1>6 DEF Surjection, ToSet
<1> QED
  BY <1>7, <1>8

===============================================================================

---------------------------- MODULE ChainProofs -----------------------------
(***************************************************************************)
(* ChainBuilder and Verify agree, for any DOTs, requests and grants that   *)
(* come and go: a chain that Build finds is one that Verify accepts.       *)
(***************************************************************************)
EXTENDS ChainBuilder, FiniteSetTheorems, WellFoundedInduction, NaturalsInduction, TLAPS

-----------------------------------------------------------------------------
(* Induction *)

LEMMA Least ==
  ASSUME NEW T, T \subseteq Nat, T # {}
  PROVE  \E x \in T : \A y \in T : x <= y
<1>1. PICK x \in T : \A y \in T : ~(<<y, x>> \in OpToRel(<, Nat))
  BY NatLessThanWellFounded, WFMin, Zenon
<1>2. ASSUME NEW y \in T PROVE x <= y
  <2>1. x \in Nat /\ y \in Nat
    OBVIOUS
  <2>2. y < x => <<y, x>> \in OpToRel(<, Nat)
    BY <2>1, Zenon DEF OpToRel
  <2>3. ~(y < x)
    BY <1>1, <2>2, Zenon
  <2> QED
    BY <2>1, <2>3
<1> QED
  BY <1>2, Zenon

\* What holds at first and is kept by each step holds up to N.
LEMMA UpTo ==
  ASSUME NEW N \in Nat, NEW T, 0 \in T, \A n \in 1 .. N : n - 1 \in T => n \in T
  PROVE  0 .. N \subseteq T
<1> SUFFICES ASSUME (0 .. N) \ T # {} PROVE FALSE
  OBVIOUS
<1>1. (0 .. N) \ T \subseteq Nat
  OBVIOUS
<1>2. PICK x \in (0 .. N) \ T : \A y \in (0 .. N) \ T : x <= y
  BY <1>1, Least, Zenon
<1>3. x \in 1 .. N /\ x - 1 \in 0 .. N /\ ~(x <= x - 1)
  BY <1>2
<1>4. x - 1 \in T
  BY <1>2, <1>3, Zenon
<1> QED
  BY <1>2, <1>3, <1>4, Zenon

\* f goes from b along g.
Follows(N, b, g, f) == f[0] = b /\ \A n \in 1 .. N : f[n] = g[<<n, f[n - 1]>>]

\* There is such an f: recursive functions over 0 .. N are defined.
LEMMA Recursion ==
  ASSUME NEW N \in Nat, NEW S, NEW b \in S, NEW g \in [(1 .. N) \X S -> S]
  PROVE  \E f \in [0 .. N -> S] : Follows(N, b, g, f)
<1> DEFINE T == {m \in 0 .. N : \E f \in [0 .. m -> S] : Follows(m, b, g, f)}
<1>1. 0 \in T
  <2> DEFINE f0 == [k \in 0 .. 0 |-> b]
  <2>1. f0 \in [0 .. 0 -> S] /\ Follows(0, b, g, f0)
    BY DEF Follows
  <2> HIDE DEF f0
  <2> QED
    BY <2>1
<1>2. ASSUME NEW m \in 1 .. N, m - 1 \in T PROVE m \in T
  <2>1. PICK f \in [0 .. m - 1 -> S] : Follows(m - 1, b, g, f)
    BY <1>2, Zenon
  <2>2. f[m - 1] \in S /\ <<m, f[m - 1]>> \in (1 .. N) \X S
    OBVIOUS
  <2> DEFINE h == [k \in 0 .. m |-> IF k = m THEN g[<<m, f[m - 1]>>] ELSE f[k]]
  <2>3. h \in [0 .. m -> S] /\ h[0] = b
    BY <2>1, <2>2 DEF Follows
  <2>4. ASSUME NEW n \in 1 .. m PROVE h[n] = g[<<n, h[n - 1]>>]
    <3>1. CASE n = m
      BY <2>2, <3>1
    <3>2. CASE n # m
      BY <2>1, <3>2 DEF Follows
    <3> QED
      BY <3>1, <3>2, Zenon
  <2> HIDE DEF h
  <2> QED
    BY <2>3, <2>4 DEF Follows
<1>3. N \in T
  <2> HIDE DEF T
  <2> QED
    BY <1>1, <1>2, UpTo
<1> QED
  BY <1>3, Zenon

-----------------------------------------------------------------------------
(* What a chain of useful DOTs authorises *)

\* A DOT that is useful leaves the requested URI as it is.
LEMMA MergedIs ==
  ASSUME NEW uri, NEW c \in Seq(Dots),
         \A i \in 1 .. Len(c) : RestrictBy(uri, Dot[c[i]].suffix) = {uri}
  PROVE  MergedURI(uri, c) = {uri}
<1> DEFINE N == Len(c)
           Rec(f) == f = [i \in 0 .. N |-> IF i = 0 THEN {uri} ELSE UNION {RestrictBy(u, Dot[c[i]].suffix) : u \in f[i-1]}]
           h == CHOOSE f : Rec(f)
           k == [i \in 0 .. N |-> {uri}]
<1>1. N \in Nat
  OBVIOUS
<1>2. ASSUME NEW i \in 1 .. N PROVE UNION {RestrictBy(u, Dot[c[i]].suffix) : u \in {uri}} = {uri}
  <2>1. UNION {RestrictBy(u, Dot[c[i]].suffix) : u \in {uri}} = RestrictBy(uri, Dot[c[i]].suffix)
    BY Zenon
  <2> QED
    BY <2>1, Zenon
<1>3. Rec(k)
  <2> HIDE DEF N
  <2>1. ASSUME NEW i \in 0 .. N, i # 0 PROVE i \in 1 .. N /\ i - 1 \in 0 .. N
    BY <1>1, <2>1
  <2>2. ASSUME NEW i \in 0 .. N, i # 0 PROVE UNION {RestrictBy(u, Dot[c[i]].suffix) : u \in k[i-1]} = {uri}
    BY <1>2, <2>1, <2>2, Zenon
  <2> QED
    BY <2>2, Zenon
<1>4. MergedURI(uri, c) = h[N]
  BY Zenon DEF MergedURI
<1>5. Rec(h)
  <2> HIDE DEF Rec
  <2> QED
    BY <1>3, Zenon
<1> HIDE DEF h, N
<1>6. \A i \in 0 .. N : h[i] = IF i = 0 THEN {uri} ELSE UNION {RestrictBy(u, Dot[c[i]].suffix) : u \in h[i-1]}
  BY <1>5, Zenon
<1>7. 0 \in 0 .. N /\ N \in 0 .. N /\ \A i \in 1 .. N : i \in 0 .. N /\ i # 0
  BY <1>1
<1> DEFINE T == {i \in 0 .. N : h[i] = {uri}}
<1>8. 0 \in T
  BY <1>6, <1>7, Zenon
<1>9. \A i \in 1 .. N : i - 1 \in T => i \in T
  BY <1>2, <1>6, <1>7, Zenon
<1> HIDE DEF T
<1>10. N \in T
  BY <1>1, <1>7, <1>8, <1>9, UpTo, Zenon
<1> QED
  BY <1>4, <1>10, Zenon DEF T

\* Permissions that each DOT grants, with all they stand for, survive.
LEMMA PermsKept ==
  ASSUME NEW P, \A x \in P : Implied[x] \subseteq P, NEW c \in Seq(Dots), c # <<>>,
         \A i \in 1 .. Len(c) : P \subseteq Dot[c[i]].perms
  PROVE  P \subseteq ChainPerms(c)
<1> DEFINE N == Len(c)
           Rec(f) == f = [i \in 1 .. N |-> IF i = 1 THEN Dot[c[1]].perms ELSE ReduceBy(f[i-1], Dot[c[i]].perms)]
           h == CHOOSE f : Rec(f)
           k == [i \in 1 .. N |-> {x \in Dot[c[1]].perms : \A j \in 2 .. i : Implied[x] \subseteq Dot[c[j]].perms}]
<1>1. N \in Nat /\ N # 0
  OBVIOUS
<1>2. Rec(k)
  <2> HIDE DEF N
  <2>1. ASSUME NEW i \in 1 .. N
        PROVE  k[i] = IF i = 1 THEN Dot[c[1]].perms ELSE ReduceBy(k[i-1], Dot[c[i]].perms)
    <3>1. CASE i = 1
      <4>1. \A j \in 2 .. i : FALSE
        BY <3>1
      <4> QED
        BY <3>1, <4>1
    <3>2. CASE i # 1
      <4>1. i - 1 \in 1 .. N /\ \A j : j \in 2 .. i <=> (j \in 2 .. i - 1 \/ j = i)
        BY <1>1, <3>2
      <4> QED
        BY <3>2, <4>1, Zenon DEF ReduceBy
    <3> QED
      BY <3>1, <3>2, Zenon
  <2> QED
    BY <2>1, Zenon
<1>3. ChainPerms(c) = h[N]
  BY Zenon DEF ChainPerms
<1>4. Rec(h)
  <2> HIDE DEF Rec
  <2> QED
    BY <1>2, Zenon
<1> HIDE DEF h, N
<1>5. \A i \in 1 .. N : h[i] = IF i = 1 THEN Dot[c[1]].perms ELSE ReduceBy(h[i-1], Dot[c[i]].perms)
  BY <1>4, Zenon
<1> DEFINE T == {i \in 0 .. N : i # 0 => P \subseteq h[i]}
<1>6. 0 \in T
  BY <1>1
<1>7. ASSUME NEW i \in 1 .. N, i - 1 \in T PROVE i \in T
  <2>1. i \in 0 .. N /\ (i # 1 => i - 1 # 0)
    BY <1>1
  <2>2. CASE i = 1
    BY <1>5, <2>1, <2>2, Zenon DEF N
  <2>3. CASE i # 1
    <3>1. P \subseteq h[i-1]
      BY <1>7, <2>1, <2>3, Zenon
    <3>2. h[i] = ReduceBy(h[i-1], Dot[c[i]].perms)
      BY <1>5, <2>3, Zenon
    <3>3. P \subseteq Dot[c[i]].perms
      BY Zenon DEF N
    <3> QED
      BY <2>1, <3>1, <3>2, <3>3, Zenon DEF ReduceBy
  <2> QED
    BY <2>2, <2>3, Zenon
<1> HIDE DEF T
<1>8. N \in T
  <2>1. 0 .. N \subseteq T
    BY <1>1, <1>6, <1>7, UpTo, Zenon
  <2> QED
    BY <1>1, <2>1
<1> QED
  BY <1>1, <1>3, <1>8, Zenon DEF T

LEMMA MinTwo ==
  ASSUME NEW a \in Int, NEW b \in Int
  PROVE  Min({a, b}) \in Int /\ Min({a, b}) <= a /\ (b <= a => Min({a, b}) = b)
<1> DEFINE Least2(x) == x \in {a, b} /\ \A y \in {a, b} : x <= y
           m == CHOOSE x : Least2(x)
           v == IF a <= b THEN a ELSE b
<1>1. Least2(v)
  OBVIOUS
<1>2. Least2(m)
  <2> HIDE DEF Least2
  <2> QED
    BY <1>1, Zenon
<1>3. Min({a, b}) = m
  BY Zenon DEF Min
<1> HIDE DEF m
<1> QED
  BY <1>2, <1>3

\* ttl is what is left of the TTL after each DOT of c, as Build counts it.
Counts(c, ttl) ==
  /\ ttl[0] = 256
  /\ \A i \in 1 .. Len(c) : ttl[i] = Min({ttl[i-1] - 1, Dot[c[i]].ttl})

LEMMA ScenarioTTLIs ==
  ASSUME NEW c \in Seq(Dots)
  PROVE  \E ttl \in [0 .. Len(c) -> Int] : Counts(c, ttl) /\ ScenarioTTL(c) = ttl[Len(c)]
<1> DEFINE N == Len(c)
           g == [z \in (1 .. N) \X Int |-> Min({z[2] - 1, Dot[c[z[1]]].ttl})]
           Rec(f) == f = [i \in 0 .. N |-> IF i = 0 THEN 256 ELSE Min({f[i-1] - 1, Dot[c[i]].ttl})]
           h == CHOOSE f : Rec(f)
<1>1. N \in Nat /\ \A i \in 1 .. N : c[i] \in Dots
  OBVIOUS
<1>t. \A i \in 1 .. N : Dot[c[i]].ttl \in 0 .. 255
  <2> HIDE DEF N
  <2> QED
    BY <1>1, BuilderAssumption, Zenon
<1>m. \A x \in Int, i \in 1 .. N : Min({x - 1, Dot[c[i]].ttl}) \in Int
  <2> HIDE DEF N
  <2>1. ASSUME NEW x \in Int, NEW i \in 1 .. N PROVE Min({x - 1, Dot[c[i]].ttl}) \in Int
    <3>1. x - 1 \in Int
      OBVIOUS
    <3>2. \A n \in 0 .. 255 : n \in Int
      OBVIOUS
    <3> QED
      BY <1>t, <3>1, <3>2, MinTwo, Zenon
  <2> QED
    BY <2>1, Zenon
<1>2. g \in [(1 .. N) \X Int -> Int]
  <2> HIDE DEF N
  <2>1. ASSUME NEW z \in (1 .. N) \X Int PROVE z[1] \in 1 .. N /\ z[2] \in Int
    BY <2>1
  <2> QED
    BY <1>m, <2>1, Zenon
<1>3. PICK f \in [0 .. N -> Int] : Follows(N, 256, g, f)
  <2> HIDE DEF N, g
  <2>1. 256 \in Int
    OBVIOUS
  <2> QED
    BY <1>1, <1>2, <2>1, Recursion, Zenon
<1>4. Rec(f)
  <2>1. ASSUME NEW n \in 0 .. N PROVE f[n] = IF n = 0 THEN 256 ELSE Min({f[n-1] - 1, Dot[c[n]].ttl})
    <3> HIDE DEF N
    <3>1. CASE n = 0
      BY <1>3, <3>1, Zenon DEF Follows
    <3>2. CASE n # 0
      <4>1. n \in 1 .. N /\ n - 1 \in 0 .. N
        BY <1>1, <3>2
      <4>2. f[n] = g[<<n, f[n - 1]>>] /\ f[n - 1] \in Int
        BY <1>3, <4>1, Zenon DEF Follows
      <4> QED
        BY <3>2, <4>1, <4>2, Zenon
    <3> QED
      BY <3>1, <3>2, Zenon
  <2> HIDE DEF N
  <2> QED
    BY <2>1, Zenon
<1>5. ScenarioTTL(c) = h[N]
  BY Zenon DEF ScenarioTTL
<1>6. Rec(h)
  <2> HIDE DEF Rec
  <2> QED
    BY <1>4, Zenon
<1> HIDE DEF h
<1>7. \A i \in 0 .. N : h[i] = IF i = 0 THEN 256 ELSE Min({h[i-1] - 1, Dot[c[i]].ttl})
  BY <1>6, Zenon
<1>8. Counts(c, h)
  <2>1. 0 \in 0 .. N /\ \A i \in 1 .. N : i \in 0 .. N /\ i # 0
    BY <1>1
  <2> QED
    BY <1>7, <2>1, Zenon DEF Counts
<1>9. h \in [0 .. N -> Int]
  <2> DEFINE T == {i \in 0 .. N : h[i] \in Int}
  <2> HIDE DEF N
  <2>0. 0 \in 0 .. N /\ 256 \in Int
    BY <1>1
  <2>1. 0 \in T
    BY <1>7, <2>0, Zenon
  <2>2. ASSUME NEW i \in 1 .. N, i - 1 \in T PROVE i \in T
    <3>1. i \in 0 .. N /\ i # 0 /\ h[i-1] \in Int
      BY <1>1, <2>2
    <3>2. h[i] = Min({h[i-1] - 1, Dot[c[i]].ttl})
      BY <1>7, <3>1, Zenon
    <3> QED
      BY <1>m, <3>1, <3>2, Zenon
  <2> HIDE DEF T
  <2>3. 0 .. N \subseteq T
    BY <1>1, <2>1, <2>2, UpTo, Zenon
  <2>4. \A i \in 0 .. N : h[i] \in Int
    BY <2>3, Zenon DEF T
  <2>5. h = [i \in 0 .. N |-> h[i]]
    BY <1>6, Zenon
  <2> QED
    BY <2>4, <2>5, Zenon
<1> QED
  BY <1>5, <1>8, <1>9, Zenon

\* The verifier's count of the TTLs is the builder's.
LEMMA LinkTTLIs ==
  ASSUME NEW c \in Seq(Dots), NEW ttl \in [0 .. Len(c) -> Int], Counts(c, ttl)
  PROVE  \A i \in 1 .. Len(c) : LinkTTL(c)[i] = ttl[i]
<1> DEFINE N == Len(c)
           Rec(f) == f = [i \in 1 .. N |-> IF i = 1 THEN Dot[c[1]].ttl ELSE Min({f[i-1] - 1, Dot[c[i]].ttl})]
           h == CHOOSE f : Rec(f)
           k == [i \in 1 .. N |-> ttl[i]]
<1>1. N \in Nat /\ \A i \in 1 .. N : c[i] \in Dots
  OBVIOUS
<1>t. \A i \in 1 .. N : Dot[c[i]].ttl \in 0 .. 255
  <2> HIDE DEF N
  <2> QED
    BY <1>1, BuilderAssumption, Zenon
<1>2. 1 \in 1 .. N => ttl[1] = Dot[c[1]].ttl
  <2> SUFFICES ASSUME 1 \in 1 .. N PROVE ttl[1] = Dot[c[1]].ttl
    OBVIOUS
  <2>1. ttl[1] = Min({ttl[1-1] - 1, Dot[c[1]].ttl})
    BY Zenon DEF Counts
  <2>2. ttl[1-1] - 1 = 255
    BY DEF Counts
  <2>3. Dot[c[1]].ttl \in 0 .. 255
    BY <1>t, Zenon
  <2>d. 255 \in Int /\ \A n \in 0 .. 255 : n \in Int /\ n <= 255
    OBVIOUS
  <2>4. Min({255, Dot[c[1]].ttl}) = Dot[c[1]].ttl
    BY <2>3, <2>d, MinTwo, Zenon
  <2> QED
    BY <2>1, <2>2, <2>4, Zenon
<1>3. Rec(k)
  <2>1. ASSUME NEW i \in 1 .. N PROVE k[i] = IF i = 1 THEN Dot[c[1]].ttl ELSE Min({k[i-1] - 1, Dot[c[i]].ttl})
    <3>1. i # 1 => i - 1 \in 1 .. N
      BY <1>1
    <3>2. ttl[i] = Min({ttl[i-1] - 1, Dot[c[i]].ttl})
      BY Zenon DEF Counts
    <3> HIDE DEF N
    <3>3. k[i] = ttl[i] /\ (i # 1 => k[i-1] = ttl[i-1])
      BY <3>1, Zenon
    <3> HIDE DEF k
    <3> QED
      BY <1>2, <3>2, <3>3, Zenon
  <2> HIDE DEF N
  <2> QED
    BY <2>1, Zenon
<1>4. LinkTTL(c) = h
  BY Zenon DEF LinkTTL
<1>5. Rec(h)
  <2> HIDE DEF Rec
  <2> QED
    BY <1>3, Zenon
<1> HIDE DEF h
<1>6. \A i \in 1 .. N : h[i] = IF i = 1 THEN Dot[c[1]].ttl ELSE Min({h[i-1] - 1, Dot[c[i]].ttl})
  BY <1>5, Zenon
<1>7. \A i \in 1 .. N : ttl[i] = Min({ttl[i-1] - 1, Dot[c[i]].ttl})
  BY Zenon DEF Counts
<1> HIDE DEF N
<1> DEFINE T == {i \in 0 .. N : i # 0 => h[i] = ttl[i]}
<1>8. 0 \in T
  BY <1>1
<1>9. ASSUME NEW i \in 1 .. N, i - 1 \in T PROVE i \in T
  <2>1. i \in 0 .. N /\ (i # 1 => i - 1 # 0)
    BY <1>1
  <2>2. i # 1 => h[i-1] = ttl[i-1]
    BY <1>9, <2>1, Zenon
  <2>3. h[i] = ttl[i]
    BY <1>2, <1>6, <1>7, <2>2, Zenon
  <2> QED
    BY <2>1, <2>3, Zenon
<1> HIDE DEF T
<1>10. 0 .. N \subseteq T
  BY <1>1, <1>8, <1>9, UpTo, Zenon
<1>11. \A i \in 1 .. N : i \in 0 .. N /\ i # 0
  BY <1>1
<1> QED
  BY <1>4, <1>10, <1>11, Zenon DEF T, N

\* A scenario whose TTL has not run below zero has none of its DOTs but the
\* last at zero.
LEMMA TTLSuffices ==
  ASSUME NEW c \in Seq(Dots), Len(c) > 1 => ScenarioTTL(c) >= 0
  PROVE  \A i \in 2 .. Len(c) : LinkTTL(c)[i-1] # 0
<1> DEFINE N == Len(c)
<1>1. N \in Nat /\ \A i \in 1 .. N : c[i] \in Dots
  OBVIOUS
<1>2. PICK ttl \in [0 .. N -> Int] : Counts(c, ttl) /\ ScenarioTTL(c) = ttl[N]
  BY ScenarioTTLIs, Zenon
<1>3. ASSUME NEW i \in 1 .. N PROVE ttl[i] <= ttl[i-1] - 1 /\ ttl[i] \in Int /\ ttl[i-1] \in Int
  <2>1. ttl[i] \in Int /\ ttl[i-1] \in Int /\ ttl[i-1] - 1 \in Int
    BY <1>1
  <2>2. Dot[c[i]].ttl \in 0 .. 255
    BY <1>1, BuilderAssumption, Zenon
  <2>3. ttl[i] = Min({ttl[i-1] - 1, Dot[c[i]].ttl})
    BY <1>2, Zenon DEF Counts
  <2>4. \A n \in 0 .. 255 : n \in Int
    OBVIOUS
  <2>5. Min({ttl[i-1] - 1, Dot[c[i]].ttl}) <= ttl[i-1] - 1
    BY <2>1, <2>2, <2>4, MinTwo, Zenon
  <2> QED
    BY <2>1, <2>3, <2>5, Zenon
<1> HIDE DEF N
<1> SUFFICES ASSUME NEW j \in 2 .. N PROVE ttl[j-1] # 0
  <2>1. \A j \in 2 .. N : j - 1 \in 1 .. N
    BY <1>1
  <2> QED
    BY <1>2, <2>1, LinkTTLIs, Zenon DEF N
<1>4. ttl[N] >= 0 /\ N > 1
  <2>1. N > 1
    BY <1>1
  <2> QED
    BY <1>2, <2>1, Zenon DEF N
<1> DEFINE T == {m \in 0 .. N - 1 : ttl[N - m] >= m}
<1>5. 0 \in T
  BY <1>1, <1>4
<1>6. ASSUME NEW m \in 1 .. N - 1, m - 1 \in T PROVE m \in T
  <2>1. N - (m - 1) \in 1 .. N /\ (N - (m - 1)) - 1 = N - m
    BY <1>1
  <2>2. ttl[N - (m - 1)] >= m - 1
    BY <1>6
  <2>3. ttl[N - (m - 1)] <= ttl[N - m] - 1 /\ ttl[N - (m - 1)] \in Int /\ ttl[N - m] \in Int
    BY <1>3, <2>1
  <2> QED
    BY <2>2, <2>3
<1>7. 0 .. (N - 1) \subseteq T
  <2> HIDE DEF T
  <2>1. N - 1 \in Nat
    BY <1>1, <1>4
  <2> QED
    BY <1>5, <1>6, <2>1, UpTo, Zenon
<1>8. N - (j - 1) \in 0 .. N - 1 /\ N - (N - (j - 1)) = j - 1 /\ N - (j - 1) >= 1
  BY <1>1
<1>9. ttl[j-1] >= N - (j - 1)
  BY <1>7, <1>8
<1>10. ttl[j-1] \in Int
  BY <1>1
<1> QED
  BY <1>8, <1>9, <1>10

-----------------------------------------------------------------------------
(* The scenarios of a step *)

LEMMA SetToSeqIs ==
  ASSUME NEW S, IsFiniteSet(S)
  PROVE  SetToSeq(S) \in Seq(S)
<1> DEFINE n == Cardinality(S)
           Lists(f) == f \in [1 .. n -> S] /\ IsInjective(f)
           q == CHOOSE f : Lists(f)
<1>1. n \in Nat /\ ExistsBijection(1 .. n, S)
  BY FS_CardinalityType, Zenon
<1>2. PICK f \in Bijection(1 .. n, S) : TRUE
  BY <1>1, Zenon DEF ExistsBijection
<1>3. Lists(f)
  BY <1>2, Zenon DEF Bijection, Injection, IsInjective
<1>4. Lists(q)
  <2> HIDE DEF Lists
  <2> QED
    BY <1>3, Zenon
<1>5. SetToSeq(S) = q
  BY Zenon DEF SetToSeq
<1> HIDE DEF q
<1>6. q \in [1 .. n -> S]
  BY <1>4, Zenon
<1> HIDE DEF n
<1> QED
  BY <1>1, <1>5, <1>6

LEMMA ImageFinite ==
  ASSUME NEW S, IsFiniteSet(S), NEW f
  PROVE  IsFiniteSet({f[x] : x \in S})
<1> DEFINE T == {f[x] : x \in S}
           g == [x \in S |-> f[x]]
<1>1. g \in Surjection(S, T)
  BY Zenon DEF Surjection
<1> HIDE DEF T, g
<1>2. IsFiniteSet(T)
  BY <1>1, FS_Surjection, Zenon
<1> QED
  BY <1>2 DEF T

LEMMA RestrictOne ==
  ASSUME NEW from, NEW by
  PROVE  \E v : RestrictBy(from, by) \subseteq {v}
<1> DEFINE X == SwallowLast(SwallowFirst(Trim(from, by)))
           star(t) == IF t.from = <<"*">> /\ t.by = <<"*">> THEN <<"*">> ELSE <<>>
           v == X.front \o star(X) \o X.back
<1>1. {SwallowLast(u) : u \in {SwallowFirst(t) : t \in {Trim(from, by)}}} = {X}
  BY Zenon
<1>2. RestrictBy(from, by) =
        {t.front \o star(t) \o t.back : t \in {u \in {X} : {u.from, u.by} \subseteq {<<>>, <<"*">>}}}
  <2> HIDE DEF X
  <2> QED
    BY <1>1, Zenon DEF RestrictBy
<1>3. ASSUME NEW x \in RestrictBy(from, by) PROVE x = v
  <2> HIDE DEF X
  <2>1. PICK t \in {X} : x = t.front \o star(t) \o t.back
    BY <1>2, <1>3, Zenon
  <2> QED
    BY <2>1, Zenon
<1> HIDE DEF v
<1> QED
  BY <1>3, Zenon

LEMMA AddFinite ==
  ASSUME NEW s, NEW d
  PROVE  /\ IsFiniteSet(AddAndClone(s, d))
         /\ \A n \in AddAndClone(s, d) : n.chain = Append(s.chain, d) /\ ScenarioTTL(n.chain) >= 0
<1>1. PICK v : RestrictBy(s.suffix, Dot[d].suffix) \subseteq {v}
  BY RestrictOne, Zenon
<1>2. AddAndClone(s, d) \in SUBSET {Scenario(Append(s.chain, d), v)}
  BY <1>1, Zenon DEF AddAndClone
<1>3. IsFiniteSet({Scenario(Append(s.chain, d), v)})
  BY FS_Singleton, Zenon
<1>4. IsFiniteSet(AddAndClone(s, d))
  BY <1>2, <1>3, FS_Subset, Zenon
<1>5. ASSUME NEW n \in AddAndClone(s, d) PROVE n.chain = Append(s.chain, d) /\ ScenarioTTL(n.chain) >= 0
  <2>1. PICK u : n = Scenario(Append(s.chain, d), u)
    BY Zenon DEF AddAndClone
  <2>2. ScenarioTTL(n.chain) >= 0
    BY Zenon DEF AddAndClone
  <2> QED
    BY <2>1, <2>2, Zenon DEF Scenario
<1> QED
  BY <1>4, <1>5, Zenon

\* One useful DOT from where a scenario ends makes a scenario that leads on.
LEMMA LeadsOn ==
  ASSUME NEW s, Leads(s.chain), NEW d \in Dots, Dot[d].giver = Terminal(s), dotUseful(d),
         NEW n \in AddAndClone(s, d)
  PROVE  Leads(n.chain)
<1> DEFINE c == s.chain
           e == Append(c, d)
<1>1. n.chain = e /\ ScenarioTTL(n.chain) >= 0
  BY AddFinite, Zenon
<1>2. c # <<>> /\ c \in Seq(Dots)
  BY Zenon DEF Leads
<1> HIDE DEF c
<1>3. /\ e \in Seq(Dots) /\ e # <<>> /\ Len(e) = Len(c) + 1 /\ Len(c) \in Nat \ {0}
      /\ e[Len(c) + 1] = d /\ \A i \in 1 .. Len(c) : e[i] = c[i]
  BY <1>2
<1> HIDE DEF e
<1>4. /\ 1 \in 1 .. Len(c)
      /\ \A i \in 1 .. Len(e) : i \in 1 .. Len(c) \/ i = Len(c) + 1
      /\ \A i \in 2 .. Len(e) : i \in 2 .. Len(c) \/ i = Len(c) + 1
      /\ \A i \in 2 .. Len(c) : i \in 1 .. Len(c) /\ i - 1 \in 1 .. Len(c)
      /\ (Len(c) + 1) - 1 = Len(c) /\ Len(c) \in 1 .. Len(c)
  BY <1>3
<1>5. Dot[e[1]].giver = plan.ns
  BY <1>3, <1>4, Zenon DEF Leads, c
<1>6. \A i \in 1 .. Len(e) : dotUseful(e[i])
  BY <1>3, <1>4, Zenon DEF Leads, c
<1>7. Dot[d].giver = Dot[c[Len(c)]].receiver
  BY Zenon DEF Terminal, Last, c
<1>8. \A i \in 2 .. Len(e) : Dot[e[i]].giver = Dot[e[i-1]].receiver
  <2>1. \A i \in 2 .. Len(c) : Dot[c[i]].giver = Dot[c[i-1]].receiver
    BY Zenon DEF Leads, c
  <2>2. ASSUME NEW i \in 2 .. Len(e) PROVE Dot[e[i]].giver = Dot[e[i-1]].receiver
    <3>1. CASE i \in 2 .. Len(c)
      BY <1>3, <1>4, <2>1, <3>1, Zenon
    <3>2. CASE i = Len(c) + 1
      BY <1>3, <1>4, <1>7, <3>2, Zenon
    <3> QED
      BY <1>4, <3>1, <3>2, Zenon
  <2> QED
    BY <2>2, Zenon
<1> QED
  BY <1>1, <1>3, <1>5, <1>6, <1>8, Zenon DEF Leads

LEMMA LeadsFirst ==
  ASSUME NEW d \in Dots, Dot[d].giver = plan.ns, dotUseful(d)
  PROVE  Leads(NewScenario(d).chain)
<1>1. NewScenario(d).chain = <<d>>
  BY Zenon DEF NewScenario, Scenario
<1>2. <<d>> \in Seq(Dots) /\ <<d>> # <<>> /\ Len(<<d>>) = 1 /\ <<d>>[1] = d /\ ~(1 > 1)
  OBVIOUS
<1>3. (\A i \in 1 .. 1 : i = 1) /\ \A i \in 2 .. 1 : FALSE
  OBVIOUS
<1> QED
  BY <1>1, <1>2, <1>3, Zenon DEF Leads

-----------------------------------------------------------------------------
(* The theorem *)

LEMMA StepIInv == IInv /\ [Next]_builderVars => IInv'
<1> SUFFICES ASSUME IInv, [Next]_builderVars PROVE IInv'
  OBVIOUS
<1>0. /\ plan \in Plans /\ granted \subseteq Dots
      /\ evals \in Seq(ToSet(evals))
      /\ \A i \in DOMAIN evals : Leads(evals[i].chain)
      /\ \A c \in found : Leads(c)
  BY Zenon DEF IInv
<1>p. plan' = plan
  BY Zenon DEF Next, Populate, Walk, Finish, Done, Grant, Revoke, builderVars
<1>g. granted' \subseteq Dots
  <2>1. granted' = granted \/ \E d \in Dots : granted' = granted \cup {d} \/ granted' = granted \ {d}
    BY Zenon DEF Next, Populate, Walk, Finish, Done, Grant, Revoke, builderVars
  <2> QED
    BY <1>0, <2>1, Zenon
<1>l. ASSUME NEW c, Leads(c) PROVE Leads(c)'
  BY <1>p, <1>l, Zenon DEF Leads, dotUseful
\* A step that pushes new scenarios which lead on.
<1>n. ASSUME NEW S, NEW rest \in Seq(S), \A i \in DOMAIN rest : Leads(rest[i].chain), NEW new, IsFiniteSet(new),
            \A n \in new : Leads(n.chain), NEW fails, Push(rest, new, fails)
      PROVE  IInv'
  <2> DEFINE W == {n \in new : ~Reached(n)}
             q == SetToSeq(W)
             R == S \cup W
  <2>1. q \in Seq(W)
    <3>1. W \in SUBSET new
      BY Zenon
    <3>2. IsFiniteSet(W)
      BY <1>n, <3>1, FS_Subset, Zenon
    <3> QED
      BY <3>2, SetToSeqIs, Zenon
  <2>2. found' = found \cup {s.chain : s \in {n \in new : Reached(n)}} /\ evals' = rest \o q
    BY <1>n, Zenon DEF Push
  <2>3. \A c \in found' : Leads(c)
    BY <1>0, <1>n, <2>2, Zenon
  <2>4. W \subseteq new
    BY Zenon
  <2> HIDE DEF W, q
  <2>5. /\ rest \o q \in Seq(R)
        /\ \A i \in DOMAIN (rest \o q) : \/ i \in DOMAIN rest /\ (rest \o q)[i] = rest[i]
                                         \/ \E j \in DOMAIN q : (rest \o q)[i] = q[j]
    <3>1. rest \in Seq(R) /\ q \in Seq(R)
      BY <2>1
    <3> HIDE DEF R
    <3>2. rest \o q \in Seq(R)
      BY <3>1
    <3>3. ASSUME NEW i \in DOMAIN (rest \o q)
          PROVE  \/ i \in DOMAIN rest /\ (rest \o q)[i] = rest[i]
                 \/ \E j \in DOMAIN q : (rest \o q)[i] = q[j]
      <4>1. Len(rest) \in Nat /\ Len(q) \in Nat /\ i \in 1 .. Len(rest) + Len(q)
        BY <3>1
      <4>2. CASE i <= Len(rest)
        BY <3>1, <4>1, <4>2
      <4>3. CASE i > Len(rest)
        <5>1. i - Len(rest) \in DOMAIN q /\ (rest \o q)[i] = q[i - Len(rest)]
          BY <3>1, <4>1, <4>3
        <5> QED
          BY <5>1, Zenon
      <4> QED
        BY <4>1, <4>2, <4>3
    <3> QED
      BY <3>2, <3>3, Zenon
  <2>6. \A j \in DOMAIN q : q[j] \in new
    <3>1. \A j \in DOMAIN q : q[j] \in W
      BY <2>1
    <3> QED
      BY <2>4, <3>1, Zenon
  <2>7. \A i \in DOMAIN evals' : Leads(evals'[i].chain)
    BY <1>n, <2>2, <2>5, <2>6, Zenon
  <2>8. evals' \in Seq(ToSet(evals)')
    <3>1. evals' \in Seq(R)
      BY <2>2, <2>5, Zenon
    <3>2. PICK w \in Seq(R) : w = evals'
      BY <3>1, Zenon
    <3>3. w \in Seq({w[i] : i \in DOMAIN w})
      OBVIOUS
    <3> QED
      BY <3>2, <3>3, Zenon DEF ToSet
  <2> QED
    BY <1>0, <1>p, <1>g, <1>l, <2>3, <2>7, <2>8, Zenon DEF IInv
<1>d. ASSUME NEW from, NEW opts \in getOptions(from)
      PROVE  /\ opts.dots \subseteq Dots /\ IsFiniteSet(opts.dots)
             /\ \A d \in opts.dots : Dot[d].giver = from /\ dotUseful(d)
  <2>1. opts.dots \subseteq Usable(from)
    <3>1. \/ opts = [dots |-> Usable(from), failed |-> failed]
          \/ opts = [dots |-> {}, failed |-> TRUE]
      BY <1>d, Zenon DEF getOptions
    <3>2. opts.dots = Usable(from) \/ opts.dots = {}
      <4> HIDE DEF Usable
      <4> QED
        BY <3>1
    <3> QED
      BY <3>2, Zenon
  <2>2. opts.dots \in SUBSET Dots
    BY <1>0, <2>1, Zenon DEF Usable
  <2>3. IsFiniteSet(opts.dots)
    BY <2>2, BuilderAssumption, FS_Subset, Zenon
  <2> QED
    BY <2>1, <2>2, <2>3, Zenon DEF Usable
<1>1. CASE Populate
  <2>1. PICK opts \in getOptions(plan.ns) : Push(<<>>, {NewScenario(d) : d \in opts.dots}, opts.failed)
    BY <1>1, Zenon DEF Populate
  <2> DEFINE new == {NewScenario(d) : d \in opts.dots}
             f == [d \in opts.dots |-> NewScenario(d)]
  <2>2. new = {f[d] : d \in opts.dots}
    BY Zenon
  <2>3. IsFiniteSet(new)
    <3>1. IsFiniteSet(opts.dots)
      BY <1>d, <2>1, Zenon
    <3> HIDE DEF f
    <3>2. IsFiniteSet({f[d] : d \in opts.dots})
      BY <3>1, ImageFinite, Zenon
    <3> HIDE DEF new
    <3> QED
      BY <2>2, <3>2, Zenon
  <2>4. \A n \in new : Leads(n.chain)
    <3>1. \A d \in opts.dots : d \in Dots /\ Dot[d].giver = plan.ns /\ dotUseful(d)
      BY <1>d, <2>1, Zenon
    <3> QED
      BY <3>1, LeadsFirst, Zenon
  <2>5. <<>> \in Seq({}) /\ \A i \in DOMAIN <<>> : FALSE
    OBVIOUS
  <2> HIDE DEF new
  <2> QED
    BY <1>n, <2>1, <2>3, <2>4, <2>5, Zenon DEF new
<1>2. CASE Walk
  <2> DEFINE s == Head(evals)
  <2>0. evals # <<>> /\ \E opts \in getOptions(Terminal(s)) :
          Push(Tail(evals), UNION {AddAndClone(s, d) : d \in opts.dots}, opts.failed)
    BY <1>2, Zenon DEF Walk
  <2>1. PICK opts \in getOptions(Terminal(s)) :
          Push(Tail(evals), UNION {AddAndClone(s, d) : d \in opts.dots}, opts.failed)
    BY <2>0, Zenon
  <2>2. PICK w \in Seq(ToSet(evals)) : w = evals /\ w # <<>>
    BY <1>0, <2>0, Zenon
  <2>3. /\ 1 \in DOMAIN w /\ Head(w) = w[1] /\ Tail(w) \in Seq(ToSet(evals))
        /\ \A i \in DOMAIN Tail(w) : i + 1 \in DOMAIN w /\ Tail(w)[i] = w[i + 1]
    <3> DEFINE S == ToSet(evals)
    <3> HIDE DEF S
    <3>1. w \in Seq(S) /\ w # <<>>
      BY <2>2, Zenon DEF S
    <3>2. /\ 1 \in DOMAIN w /\ Head(w) = w[1] /\ Tail(w) \in Seq(S)
          /\ \A i \in DOMAIN Tail(w) : i + 1 \in DOMAIN w /\ Tail(w)[i] = w[i + 1]
      BY <3>1
    <3> QED
      BY <3>2, Zenon DEF S
  <2>4. Leads(s.chain)
    BY <1>0, <2>2, <2>3, Zenon
  <2>5. Tail(evals) \in Seq(ToSet(evals)) /\ \A i \in DOMAIN Tail(evals) : Leads(Tail(evals)[i].chain)
    BY <1>0, <2>2, <2>3, Zenon
  <2> HIDE DEF s
  <2> DEFINE new == UNION {AddAndClone(s, d) : d \in opts.dots}
             f == [d \in opts.dots |-> AddAndClone(s, d)]
             F == {f[d] : d \in opts.dots}
  <2>6. new = UNION F
    BY Zenon
  <2>7. IsFiniteSet(new)
    <3>1. IsFiniteSet(F)
      <4>1. IsFiniteSet(opts.dots)
        BY <1>d, <2>1, Zenon
      <4> HIDE DEF f
      <4> QED
        BY <4>1, ImageFinite, Zenon
    <3>2. \A T \in F : IsFiniteSet(T)
      BY AddFinite, Zenon
    <3> HIDE DEF F, new
    <3> QED
      BY <2>6, <3>1, <3>2, FS_UNION, Zenon
  <2>8. \A n \in new : Leads(n.chain)
    <3>1. ASSUME NEW n \in new PROVE Leads(n.chain)
      <4>1. PICK d \in opts.dots : n \in AddAndClone(s, d)
        BY <3>1, Zenon
      <4> QED
        BY <1>d, <2>4, <4>1, LeadsOn, Zenon
    <3> QED
      BY <3>1, Zenon
  <2> HIDE DEF new
  <2> QED
    BY <1>n, <2>1, <2>5, <2>7, <2>8, Zenon DEF new
<1>3. CASE UNCHANGED <<evals, found>>
  BY <1>0, <1>p, <1>g, <1>l, <1>3, Zenon DEF IInv, ToSet
<1>4. Populate \/ Walk \/ UNCHANGED <<evals, found>>
  BY Zenon DEF Next, Finish, Done, Grant, Revoke, builderVars, walkVars
<1> QED
  BY <1>1, <1>2, <1>3, <1>4, Zenon

LEMMA IInvHolds == Spec => []IInv
<1>1. Init => IInv
  <2> SUFFICES ASSUME Init PROVE IInv
    OBVIOUS
  <2>1. plan \in Plans /\ granted = plan.granted /\ evals = <<>> /\ found = {}
    BY Zenon DEF Init
  <2>2. granted \subseteq Dots
    BY <2>1, BuilderAssumption, Zenon
  <2>3. evals \in Seq(ToSet(evals)) /\ \A i \in DOMAIN evals : FALSE
    BY <2>1
  <2> QED
    BY <2>1, <2>2, <2>3, Zenon DEF IInv
<1> QED
  BY <1>1, StepIInv, PTL DEF Spec

\* Build and Verify agree on TTLs, permissions and URIs: a chain that Build
\* found is accepted by Verify, for every type of message that the requested
\* permissions allow, as long as its DOTs stay valid.
THEOREM BuiltIsAccepted == Spec => []BuiltVerifies
<1>1. IInv => BuiltVerifies
  <2> SUFFICES ASSUME IInv, NEW c \in found, ToSet(c) \subseteq granted,
                      NEW mtype \in {"publish", "subscribe", "tap", "ls"},
                      Required(mtype, plan.uri) \subseteq plan.perms,
                      mtype \in {"publish", "ls"} => ~HasStar(plan.uri) /\ ~HasPlus(plan.uri)
               PROVE  Verify(mtype, plan.ns, plan.uri, c, granted)
    BY Zenon DEF BuiltVerifies
  <2>1. Leads(c) /\ plan \in Plans
    BY Zenon DEF IInv
  <2>2. /\ c # <<>> /\ c \in Seq(Dots) /\ Dot[c[1]].giver = plan.ns
        /\ \A i \in 2 .. Len(c) : Dot[c[i]].giver = Dot[c[i-1]].receiver
        /\ \A i \in 1 .. Len(c) : dotUseful(c[i])
        /\ Len(c) > 1 => ScenarioTTL(c) >= 0
    BY <2>1, Zenon DEF Leads
  <2>3. 1 \in 1 .. Len(c) /\ \A i \in 2 .. Len(c) : i \in 1 .. Len(c)
    BY <2>2
  <2>4. \A i \in 1 .. Len(c) : /\ Dot[c[i]].ns = plan.ns /\ plan.perms \subseteq Dot[c[i]].perms
                               /\ RestrictBy(plan.uri, Dot[c[i]].suffix) = {plan.uri}
    BY <2>2, Zenon DEF dotUseful
  <2>5. ValidSuffix(plan.uri) /\ \A x \in plan.perms : Implied[x] \subseteq plan.perms
    BY <2>1, BuilderAssumption, Zenon
  <2>6. MergedURI(plan.uri, c) = {plan.uri}
    BY <2>2, <2>4, MergedIs, Zenon
  <2>7. plan.perms \subseteq ChainPerms(c)
    BY <2>2, <2>4, <2>5, PermsKept, Zenon
  <2>8. \A i \in 2 .. Len(c) : LinkTTL(c)[i-1] # 0
    BY <2>2, TTLSuffices, Zenon
  <2>9. AnalyzeAccessDOTChain(mtype, plan.uri, c)
    BY <2>2, <2>3, <2>4, <2>5, <2>6, <2>7, <2>8, Zenon DEF AnalyzeAccessDOTChain
  <2>10. ~ (mtype \in {"publish", "persist", "ls"} /\ (HasStar(plan.uri) \/ HasPlus(plan.uri)))
    <3>1. mtype \in {"publish", "persist", "ls"} => mtype \in {"publish", "ls"}
      OBVIOUS
    <3> QED
      BY <3>1, Zenon
  <2> QED
    BY <2>2, <2>3, <2>4, <2>5, <2>9, <2>10, Zenon DEF Verify
<1> QED
  BY <1>1, IInvHolds, PTL

=============================================================================

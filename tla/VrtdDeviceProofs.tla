-------------------------- MODULE VrtdDeviceProofs ---------------------------
(***************************************************************************)
(* Facts about the operators of the vrtd device list (VrtdDevices,         *)
(* VrtdAlloc, VrtdClock), for every number of regions and subregions and   *)
(* for lists of every length: what the compaction loop keeps, what first   *)
(* fit reserves and a free gives back, what every hotplug, reset and       *)
(* refresh outcome leaves of the buffers of a device.                      *)
(*                                                                         *)
(* Loops of the code are recursive functions over 0..n here.  Facts about  *)
(* them need induction; the library's induction theorems range over        *)
(* operators, so the first lemmas derive a form that ranges over sets.     *)
(***************************************************************************)
EXTENDS VrtdDeviceInvariant, TLAPS, FiniteSetTheorems, WellFoundedInduction

------------------------------------------------------------------------------
(* Induction and recursion *)

\* Every non-empty set of naturals has a least element.
LEMMA NatLeast ==
    ASSUME NEW T, T \subseteq Nat, T # {}
    PROVE  \E x \in T : \A y \in T : x <= y
<1>1. IsWellFoundedOn(OpToRel(<, Nat), Nat)
  BY NatLessThanWellFounded, Zenon
<1>2. PICK x \in T : \A y \in T : ~ (<<y, x>> \in OpToRel(<, Nat))
  BY <1>1, WFMin, Zenon
<1>3. \A y \in T : ~ (y < x)
  BY <1>2, Zenon DEF OpToRel
<1> QED
  BY <1>3

\* Induction up to N: a set that holds 0 and is closed under the next number.
LEMMA UpTo ==
    ASSUME NEW N \in Nat, NEW T, 0 \in T, \A n \in 1..N : n - 1 \in T => n \in T
    PROVE  0..N \subseteq T
<1> DEFINE Out == (0..N) \ T
<1>1. SUFFICES ASSUME Out # {} PROVE FALSE
  OBVIOUS
<1>2. Out \subseteq Nat
  OBVIOUS
<1>3. PICK x \in Out : \A y \in Out : x <= y
  BY <1>1, <1>2, NatLeast, Zenon
<1>4. x \in 1..N /\ x \notin T
  BY <1>3
<1>5. x - 1 \in 0..N /\ x - 1 \notin Out
  BY <1>3, <1>4
<1> QED
  BY <1>4, <1>5

\* A loop of N turns has a run: turn n takes the value v to turn[n][v].
LEMMA Recursion ==
    ASSUME NEW V, NEW base \in V, NEW N \in Nat, NEW turn \in [1..N -> [V -> V]]
    PROVE  \E f \in [0..N -> V] : f[0] = base /\ \A n \in 1..N : f[n] = turn[n][f[n - 1]]
<1> DEFINE Run(m, f) == /\ f \in [0..m -> V] /\ f[0] = base
                        /\ \A n \in 1..m : f[n] = turn[n][f[n - 1]]
           T == {m \in 0..N : \E f : Run(m, f)}
<1>1. 0 \in T
  <2>1. Run(0, [n \in 0..0 |-> base])
    OBVIOUS
  <2> HIDE DEF Run
  <2> QED
    BY <2>1
<1>2. ASSUME NEW m \in 1..N, m - 1 \in T PROVE m \in T
  <2>1. PICK g : Run(m - 1, g)
    <3> HIDE DEF Run
    <3> QED
      BY <1>2
  <2> DEFINE h == [n \in 0..m |-> IF n = m THEN turn[m][g[m - 1]] ELSE g[n]]
  <2>2. g[m - 1] \in V /\ g \in [0..(m - 1) -> V] /\ g[0] = base
    BY <2>1
  <2>3. h \in [0..m -> V] /\ h[0] = base
    BY <2>2
  <2>4. ASSUME NEW n \in 1..m PROVE h[n] = turn[n][h[n - 1]]
    <3>1. CASE n = m
      BY <3>1, <2>2
    <3>2. CASE n # m
      <4>1. n \in 1..(m - 1) /\ h[n] = g[n] /\ h[n - 1] = g[n - 1]
        BY <3>2, <2>2
      <4> QED
        BY <4>1, <2>1
    <3> QED
      BY <3>1, <3>2
  <2>5. Run(m, h)
    BY <2>3, <2>4, Zenon
  <2> HIDE DEF Run
  <2> QED
    BY <2>5
<1>3. N \in T
  <2> HIDE DEF T
  <2>1. 0..N \subseteq T
    BY <1>1, <1>2, UpTo, Zenon
  <2> QED
    BY <2>1
<1> QED
  BY <1>3

------------------------------------------------------------------------------
(* Sequences *)

\* f holds the compacted prefix after every turn of the loop.
Compacting(X, s, S, f) ==
    /\ f \in [0..Len(s) -> Seq(X)]
    /\ f[0] = << >>
    /\ \A n \in 1..Len(s) : f[n] = IF s[n] \in S THEN Append(f[n - 1], s[n]) ELSE f[n - 1]

\* The compaction loop of array.h, turn by turn.
LEMMA CompactRun ==
    ASSUME NEW X, NEW s \in Seq(X), NEW S
    PROVE  \E f : Compacting(X, s, S, f) /\ Compact(s, S) = f[Len(s)]
<1> DEFINE N == Len(s)
           B(f, n) == IF n = 0 THEN << >>
                      ELSE IF s[n] \in S THEN Append(f[n - 1], s[n]) ELSE f[n - 1]
           turn == [n \in 1..N |-> [v \in Seq(X) |-> IF s[n] \in S THEN Append(v, s[n]) ELSE v]]
           to == CHOOSE g : g = [n \in 0..N |-> B(g, n)]
<1>1. N \in Nat /\ << >> \in Seq(X)
  OBVIOUS
<1>2. turn \in [1..N -> [Seq(X) -> Seq(X)]]
  OBVIOUS
<1>3. PICK f \in [0..N -> Seq(X)] : f[0] = << >> /\ \A n \in 1..N : f[n] = turn[n][f[n - 1]]
  <2> DEFINE V == Seq(X)
             e == << >>
  <2>1. N \in Nat /\ e \in V /\ turn \in [1..N -> [V -> V]]
    BY <1>1, <1>2
  <2>2. \E f \in [0..N -> V] : f[0] = e /\ \A n \in 1..N : f[n] = turn[n][f[n - 1]]
    <3> HIDE DEF N, turn, V, e
    <3> QED
      BY <2>1, Recursion, SMTT(30)
  <2> QED
    BY <2>2, Zenon
<1>4. ASSUME NEW n \in 0..N PROVE f[n] = B(f, n)
  <2>1. CASE n = 0
    BY <1>3, <2>1
  <2>2. CASE n # 0
    <3>1. n \in 1..N /\ f[n - 1] \in Seq(X)
      BY <1>1, <2>2
    <3>2. f[n] = turn[n][f[n - 1]]
      <4> HIDE DEF turn
      <4> QED
        BY <3>1, <1>3
    <3>3. turn[n][f[n - 1]] = IF s[n] \in S THEN Append(f[n - 1], s[n]) ELSE f[n - 1]
      BY <3>1
    <3> QED
      BY <3>2, <3>3, <2>2
  <2> QED
    BY <2>1, <2>2
<1>5. f = [n \in 0..N |-> B(f, n)]
  <2> HIDE DEF B
  <2> QED
    BY <1>4
<1>6. to = [n \in 0..N |-> B(to, n)]
  BY <1>5, Zenon
<1>7. Compact(s, S) = to[N]
  BY Zenon DEF Compact
<1>8. \A n \in 0..N : to[n] = B(to, n)
  <2> HIDE DEF to, B
  <2> QED
    BY <1>6, Zenon
<1> HIDE DEF to
<1>9. 0..N \subseteq {n \in 0..N : to[n] \in Seq(X)}
  <2> DEFINE T == {n \in 0..N : to[n] \in Seq(X)}
  <2>1. 0 \in T
    <3>1. 0 \in 0..N /\ to[0] = << >>
      BY <1>1, <1>8
    <3> QED
      BY <1>1, <3>1, Zenon
  <2>2. ASSUME NEW n \in 1..N, n - 1 \in T PROVE n \in T
    <3>1. n \in 0..N /\ n # 0 /\ to[n - 1] \in Seq(X) /\ s[n] \in X
      BY <2>2
    <3>2. to[n] = IF s[n] \in S THEN Append(to[n - 1], s[n]) ELSE to[n - 1]
      BY <3>1, <1>8
    <3>3. to[n] \in Seq(X)
      BY <3>1, <3>2
    <3> QED
      BY <3>1, <3>3
  <2>3. 0..N \subseteq T
    <3> HIDE DEF T, N
    <3> QED
      BY <1>1, <2>1, <2>2, UpTo, Zenon
  <2> QED
    BY <2>3
<1>10. to \in [0..N -> Seq(X)]
  BY <1>6, <1>9
<1>11. /\ to[0] = << >>
       /\ \A n \in 1..N : to[n] = IF s[n] \in S THEN Append(to[n - 1], s[n]) ELSE to[n - 1]
  BY <1>8
<1>12. Compacting(X, s, S, to)
  BY <1>10, <1>11 DEF Compacting
<1> QED
  BY <1>7, <1>12

\* t lists the elements of S among the first n of s, h giving their places.
Embeds(s, S, t, n, h) ==
    /\ h \in [1..Len(t) -> 1..n]
    /\ \A k \in 1..Len(t) : t[k] = s[h[k]] /\ s[h[k]] \in S
    /\ \A k, l \in 1..Len(t) : h[k] = h[l] => k = l
    /\ \A i \in 1..n : s[i] \in S => \E k \in 1..Len(t) : h[k] = i

\* One turn of the compaction extends the embedding.
LEMMA EmbedsStep ==
    ASSUME NEW X, NEW s \in Seq(X), NEW S, NEW t \in Seq(X), NEW n \in 1..Len(s), NEW h,
           Embeds(s, S, t, n - 1, h)
    PROVE  \E g : Embeds(s, S, IF s[n] \in S THEN Append(t, s[n]) ELSE t, n, g)
<1>1. h \in [1..Len(t) -> 1..(n - 1)] /\ Len(t) \in Nat
  BY DEF Embeds
<1>2. CASE s[n] \notin S
  <2>1. Embeds(s, S, t, n, h)
    BY <1>1, <1>2 DEF Embeds
  <2> QED
    BY <1>2, <2>1
<1>3. CASE s[n] \in S
  <2> DEFINE u == Append(t, s[n])
             g == [k \in 1..(Len(t) + 1) |-> IF k = Len(t) + 1 THEN n ELSE h[k]]
  <2>1. Len(u) = Len(t) + 1 /\ u[Len(t) + 1] = s[n] /\ \A k \in 1..Len(t) : u[k] = t[k]
    BY <1>1
  <2>2. g \in [1..Len(u) -> 1..n] /\ g[Len(t) + 1] = n /\ \A k \in 1..Len(t) : g[k] = h[k]
    BY <1>1, <2>1
  <2> HIDE DEF u, g
  <2>3. \A k \in 1..Len(u) : u[k] = s[g[k]] /\ s[g[k]] \in S
    BY <1>1, <1>3, <2>1, <2>2 DEF Embeds
  <2>4. ASSUME NEW k \in 1..Len(u), NEW l \in 1..Len(u), g[k] = g[l] PROVE k = l
    <3>1. \A j \in 1..Len(t) : g[j] \in 1..(n - 1) /\ g[j] # n
      BY <1>1, <2>2
    <3>2. CASE k \in 1..Len(t) /\ l \in 1..Len(t)
      BY <2>2, <2>4, <3>2 DEF Embeds
    <3>3. CASE k = Len(t) + 1 \/ l = Len(t) + 1
      BY <1>1, <2>1, <2>2, <2>4, <3>1, <3>3
    <3> QED
      BY <1>1, <2>1, <3>2, <3>3
  <2>5. ASSUME NEW i \in 1..n, s[i] \in S PROVE \E k \in 1..Len(u) : g[k] = i
    <3>1. CASE i = n
      BY <1>1, <2>1, <2>2, <3>1
    <3>2. CASE i # n
      <4>1. i \in 1..(n - 1)
        BY <3>2
      <4>2. PICK k \in 1..Len(t) : h[k] = i
        BY <2>5, <4>1 DEF Embeds
      <4> QED
        BY <1>1, <2>1, <2>2, <4>2
    <3> QED
      BY <3>1, <3>2
  <2>6. Embeds(s, S, u, n, g)
    BY <2>2, <2>3, <2>4, <2>5 DEF Embeds
  <2> QED
    BY <1>3, <2>6 DEF u
<1> QED
  BY <1>2, <1>3

\* What the compaction keeps: the elements of S, each at its place and once.
LEMMA CompactFacts ==
    ASSUME NEW X, NEW s \in Seq(X), NEW S
    PROVE  /\ Compact(s, S) \in Seq(X)
           /\ \E h : Embeds(s, S, Compact(s, S), Len(s), h)
<1>0. PICK f : Compacting(X, s, S, f) /\ Compact(s, S) = f[Len(s)]
  BY CompactRun
<1>1. /\ f \in [0..Len(s) -> Seq(X)]
      /\ f[0] = << >>
      /\ \A n \in 1..Len(s) : f[n] = IF s[n] \in S THEN Append(f[n - 1], s[n]) ELSE f[n - 1]
  BY <1>0 DEF Compacting
<1> DEFINE N == Len(s)
           T == {n \in 0..N : \E h : Embeds(s, S, f[n], n, h)}
<1>2. N \in Nat
  OBVIOUS
<1>3. 0 \in T
  <2>1. Embeds(s, S, << >>, 0, [k \in 1..0 |-> 0])
    BY DEF Embeds
  <2> QED
    BY <1>1, <1>2, <2>1
<1>4. ASSUME NEW n \in 1..N, n - 1 \in T PROVE n \in T
  <2>1. PICK h : Embeds(s, S, f[n - 1], n - 1, h)
    BY <1>4
  <2>2. f[n - 1] \in Seq(X)
    <3>1. n - 1 \in 0..Len(s)
      BY <1>2
    <3> QED
      BY <1>1, <3>1
  <2>3. \E g : Embeds(s, S, IF s[n] \in S THEN Append(f[n - 1], s[n]) ELSE f[n - 1], n, g)
    BY <2>1, <2>2, EmbedsStep
  <2> QED
    BY <1>1, <2>3
<1>5. N \in T
  <2> HIDE DEF T, N
  <2>1. 0..N \subseteq T
    BY <1>2, <1>3, <1>4, UpTo
  <2> QED
    BY <1>2, <2>1
<1> QED
  BY <1>0, <1>1, <1>2, <1>5

\* Two sequences, one after the other.
LEMMA Joined ==
    ASSUME NEW X, NEW a \in Seq(X), NEW b \in Seq(X)
    PROVE  a \o b \in Seq(X) /\ Len(a \o b) = Len(a) + Len(b)
OBVIOUS

\* A sequence with one more element.
LEMMA Appended ==
    ASSUME NEW X, NEW s \in Seq(X), NEW x \in X
    PROVE  LET t == Append(s, x)
           IN /\ t \in Seq(X) /\ DOMAIN t = 1..(Len(s) + 1) /\ DOMAIN s = 1..Len(s)
              /\ t[Len(s) + 1] = x /\ \A i \in 1..Len(s) : t[i] = s[i]
OBVIOUS

\* RemoveAt drops the element at i and keeps the others in order.
LEMMA RemoveAtFacts ==
    ASSUME NEW X, NEW s \in Seq(X), NEW i \in 1..Len(s)
    PROVE  /\ RemoveAt(s, i) \in Seq(X)
           /\ Len(RemoveAt(s, i)) = Len(s) - 1
           /\ \A k \in 1..(Len(s) - 1) : RemoveAt(s, i)[k] = s[IF k < i THEN k ELSE k + 1]
<1> DEFINE a == SubSeq(s, 1, i - 1)
           b == SubSeq(s, i + 1, Len(s))
<1>1. a \in Seq(X) /\ Len(a) = i - 1 /\ \A k \in 1..(i - 1) : a[k] = s[k]
  OBVIOUS
<1>2. b \in Seq(X) /\ Len(b) = Len(s) - i /\ \A k \in 1..(Len(s) - i) : b[k] = s[i + k]
  OBVIOUS
<1>3. RemoveAt(s, i) = a \o b
  BY DEF RemoveAt
<1> HIDE DEF a, b
<1>4. a \o b \in Seq(X) /\ Len(a \o b) = Len(s) - 1
  <2>1. a \o b \in Seq(X) /\ Len(a \o b) = Len(a) + Len(b)
    BY <1>1, <1>2, Joined, Zenon
  <2> QED
    BY <1>1, <1>2, <2>1
<1>5. ASSUME NEW k \in 1..(Len(s) - 1) PROVE (a \o b)[k] = s[IF k < i THEN k ELSE k + 1]
  <2>1. CASE k < i
    BY <1>1, <1>2, <2>1
  <2>2. CASE ~(k < i)
    <3>1. k - (i - 1) \in 1..(Len(s) - i) /\ i + (k - (i - 1)) = k + 1
      BY <2>2
    <3>2. (a \o b)[k] = b[k - (i - 1)]
      BY <1>1, <1>2, <2>2
    <3> QED
      BY <1>2, <2>2, <3>1, <3>2, SMTT(30)
  <2> QED
    BY <2>1, <2>2, Zenon
<1> QED
  BY <1>3, <1>4, <1>5

\* SetToSeq of a finite set is a sequence of its elements.
LEMMA SetToSeqFacts ==
    ASSUME NEW S, IsFiniteSet(S)
    PROVE  SetToSeq(S) \in Seq(S)
<1>1. Cardinality(S) \in Nat /\ ExistsBijection(1..Cardinality(S), S)
  BY FS_CardinalityType
<1>2. \E f \in [1..Cardinality(S) -> S] : IsInjective(f)
  BY <1>1, Zenon DEF ExistsBijection, Bijection, Injection
<1>3. SetToSeq(S) \in [1..Cardinality(S) -> S]
  BY <1>2, Zenon DEF SetToSeq
<1> QED
  BY <1>1, <1>3

------------------------------------------------------------------------------
(* The allocator *)

\* Quotient and remainder are unique.
LEMMA DivMod ==
    ASSUME NEW q \in Nat, NEW d \in Nat \ {0}, NEW r \in 0..(d - 1)
    PROVE  (q * d + r) \div d = q /\ (q * d + r) % d = r
<1> DEFINE x == q * d + r
           k == x \div d
           m == x % d
<1>1. x \in Nat
  OBVIOUS
<1>2. k \in Int /\ m \in 0..(d - 1) /\ x = d * k + m
  <2> HIDE DEF x
  <2> QED
    BY <1>1
<1> HIDE DEF x, k, m
<1>3. d * (q - k) = m - r /\ m - r > -d /\ m - r < d
  BY <1>2 DEF x
<1>4. q - k \in Int
  BY <1>2
<1>5. ~(q - k >= 1)
  <2>1. SUFFICES ASSUME q - k >= 1 PROVE FALSE
    OBVIOUS
  <2>2. d * (q - k) >= d
    BY <1>4, <2>1
  <2> QED
    BY <1>2, <1>3, <2>2
<1>6. ~(q - k <= -1)
  <2>1. SUFFICES ASSUME q - k <= -1 PROVE FALSE
    OBVIOUS
  <2>2. d * (q - k) <= -d
    BY <1>4, <2>1
  <2> QED
    BY <1>2, <1>3, <2>2
<1>7. q = k
  BY <1>2, <1>5, <1>6
<1> QED
  BY <1>2, <1>3, <1>7 DEF x, k, m

\* A multiple of d.
LEMMA DivExact ==
    ASSUME NEW q \in Nat, NEW d \in Nat \ {0}
    PROVE  (q * d) \div d = q /\ (q * d) % d = 0
<1>1. 0 \in 0..(d - 1) /\ q * d + 0 = q * d
  OBVIOUS
<1> QED
  BY <1>1, DivMod

\* Whole subregions round to themselves, and a non-zero size to at least one.
LEMMA Rounding ==
    /\ \A n \in Nat : SubregionsFor(n * SubregionSize) = n
    /\ \A size \in Nat : SubregionsFor(size) \in Nat
    /\ \A size \in Nat \ {0} : SubregionsFor(size) \in Nat \ {0}
<1> DEFINE Z == SubregionSize
<1>1. Z \in Nat \ {0}
  BY AllocAssumption
<1>2. ASSUME NEW n \in Nat PROVE SubregionsFor(n * Z) = n
  <2>1. Z - 1 \in 0..(Z - 1) /\ n * Z + Z - 1 = n * Z + (Z - 1)
    BY <1>1
  <2>2. (n * Z + (Z - 1)) \div Z = n
    BY <1>1, <2>1, DivMod
  <2> QED
    BY <2>1, <2>2 DEF SubregionsFor
<1>3. ASSUME NEW size \in Nat PROVE SubregionsFor(size) \in Nat
  BY <1>1 DEF SubregionsFor
<1>4. ASSUME NEW size \in Nat \ {0} PROVE SubregionsFor(size) # 0
  <2> DEFINE x == size + Z - 1
  <2>1. x \in Nat /\ x >= Z
    BY <1>1
  <2>2. x \div Z \in Nat /\ x = Z * (x \div Z) + (x % Z) /\ x % Z < Z
    <3> HIDE DEF x, Z
    <3> QED
      BY <1>1, <2>1
  <2>3. SubregionsFor(size) = x \div Z
    BY DEF SubregionsFor
  <2> HIDE DEF x, Z
  <2>4. x \div Z # 0
    BY <1>1, <2>1, <2>2
  <2> QED
    BY <2>3, <2>4
<1> QED
  BY <1>2, <1>3, <1>4

\* The arithmetic of an address: region and slot can be read back from it.
LEMMA AddressParts ==
    ASSUME NEW region \in Nat, NEW first \in Slots
    PROVE  LET offset == region * RegionSize + first * SubregionSize
           IN /\ offset \div RegionSize = region
              /\ (offset % RegionSize) \div SubregionSize = first
              /\ offset % SubregionSize = 0
              /\ offset \in Nat
              /\ offset < (region + 1) * RegionSize
<1> DEFINE A == SubregionsPerRegion
           Z == SubregionSize
           offset == region * RegionSize + first * SubregionSize
<1>1. A \in Nat \ {0} /\ Z \in Nat \ {0} /\ first \in 0..(A - 1)
  BY AllocAssumption DEF Slots
<1>2. RegionSize = A * Z
  BY DEF RegionSize
<1> HIDE DEF A, Z
<1>3. A * Z \in Nat \ {0} /\ first * Z \in Nat
  BY <1>1
<1>4. first * Z <= (A - 1) * Z
  BY <1>1
<1>5. (A - 1) * Z = A * Z - Z
  BY <1>1
<1>6. first * Z \in 0..(A * Z - 1)
  BY <1>1, <1>3, <1>4, <1>5
<1>7. offset = region * (A * Z) + first * Z
  BY <1>2 DEF Z
<1>8. offset \div (A * Z) = region /\ offset % (A * Z) = first * Z
  BY <1>3, <1>6, <1>7, DivMod, Zenon
<1>9. (first * Z) \div Z = first
  BY <1>1, DivExact
<1>10. offset = (region * A + first) * Z /\ region * A + first \in Nat
  BY <1>1, <1>7
<1>11. offset % Z = 0
  BY <1>1, <1>10, DivExact
<1>12. offset \in Nat
  BY <1>3, <1>7
<1>13. offset < (region + 1) * (A * Z)
  <2>1. (region + 1) * (A * Z) = region * (A * Z) + A * Z
    BY <1>3
  <2>2. region * (A * Z) \in Nat
    BY <1>3
  <2> QED
    BY <1>3, <1>6, <1>7, <2>1, <2>2
<1> QED
  BY <1>2, <1>8, <1>9, <1>11, <1>12, <1>13 DEF Z

\* The free of a placed allocation finds exactly its subregions and passes every check.
LEMMA PlacedCovered ==
    ASSUME NEW type, NEW addr, NEW size, NEW region, NEW first, NEW n,
           Placed(type, addr, size, region, first, n), NEW client \in Nat \ {0}
    PROVE  /\ Covered(type, addr, size) = Extent(ClassOf(type), region, first, n)
           /\ ~BadFree(type, addr, size, client)
<1> DEFINE class == ClassOf(type)
           offset == region * RegionSize + first * SubregionSize
           count == RegionCount(class)
<1>1. /\ type \in AllocTypes /\ region \in 0..(count - 1) /\ first \in Slots
      /\ n \in Nat \ {0} /\ first + n <= SubregionsPerRegion
      /\ addr = AddressOf(class, region, first) /\ size = n * SubregionSize
  BY DEF Placed
<1>2. count \in Nat /\ Start(class) \in Nat /\ RegionSize \in Nat /\ SubregionSize \in Nat \ {0}
  BY AllocAssumption DEF RegionCount, Start, RegionSize
<1> HIDE DEF class, count
<1>3. region \in Nat /\ region + 1 <= count
  BY <1>1, <1>2
<1>4. /\ offset \div RegionSize = region
      /\ (offset % RegionSize) \div SubregionSize = first
      /\ offset % SubregionSize = 0
      /\ offset \in Nat
      /\ offset < (region + 1) * RegionSize
  BY <1>1, <1>3, AddressParts
<1> HIDE DEF offset
<1>5. addr = Start(class) + offset
  <2>1. region * RegionSize \in Nat /\ first * SubregionSize \in Nat
    BY <1>1, <1>2, <1>3, AllocAssumption DEF Slots
  <2>2. addr = Start(class) + region * RegionSize + first * SubregionSize
    BY <1>1 DEF AddressOf
  <2> QED
    BY <1>2, <2>1, <2>2 DEF offset
<1>6. addr - Start(class) = offset
  BY <1>2, <1>4, <1>5
<1>7. SubregionsFor(size) = n
  BY <1>1, Rounding
<1>8. Covered(type, addr, size) = Extent(class, region, first, n)
  BY <1>4, <1>6, <1>7 DEF Covered, class
<1>9. (region + 1) * RegionSize <= count * RegionSize
  BY <1>2, <1>3
<1>10. offset < count * RegionSize /\ count * RegionSize \in Nat
  BY <1>2, <1>3, <1>4, <1>9
<1>11. size # 0
  BY <1>1, <1>2
<1>12. ~(addr < Start(class)) /\ ~(addr >= Start(class) + count * RegionSize)
  BY <1>2, <1>4, <1>5, <1>10
<1>13. ~(first + n > SubregionsPerRegion)
  BY <1>1, AllocAssumption DEF Slots
<1>14. ~BadFree(type, addr, size, client)
  <2>1. ~BadFree(type, addr, size, client) <=>
           ~(\/ size = 0 \/ client = 0
             \/ type \notin AllocTypes
             \/ addr < Start(class)
             \/ addr >= Start(class) + count * RegionSize
             \/ offset % SubregionSize # 0
             \/ (offset % RegionSize) \div SubregionSize + n > SubregionsPerRegion)
    BY <1>6, <1>7, Zenon DEF BadFree, class, count
  <2> QED
    BY <1>1, <1>4, <1>11, <1>12, <1>13, <2>1
<1> QED
  BY <1>8, <1>14 DEF class

\* The first of a non-empty set of runs, in the order of the scan, is one of them.
LEMMA FirstFitChosen ==
    ASSUME NEW runs, runs \subseteq Nat \X Nat, runs # {}
    PROVE  FirstFit(runs) \in runs
<1> DEFINE Rows == {r[1] : r \in runs}
<1>1. Rows \subseteq Nat /\ Rows # {}
  OBVIOUS
<1>2. PICK x \in Rows : \A y \in Rows : x <= y
  BY <1>1, NatLeast, Zenon
<1> DEFINE Cols == {r[2] : r \in {r \in runs : r[1] = x}}
<1>3. Cols \subseteq Nat /\ Cols # {}
  BY <1>2
<1>4. PICK z \in Cols : \A y \in Cols : z <= y
  BY <1>3, NatLeast, Zenon
<1>5. PICK r \in runs : r[1] = x /\ r[2] = z
  BY <1>4
<1>6. ASSUME NEW s \in runs PROVE Before(r, s)
  <2>1. s[1] \in Nat /\ x \in Nat /\ x <= s[1]
    BY <1>1, <1>2
  <2>2. CASE s[1] = x
    BY <1>4, <1>5, <2>2 DEF Before
  <2>3. CASE s[1] # x
    BY <1>5, <2>1, <2>3 DEF Before
  <2> QED
    BY <2>2, <2>3
<1>7. \E t \in runs : \A s \in runs : Before(t, s)
  BY <1>6
<1> QED
  BY <1>7, Zenon DEF FirstFit

\* a is the allocation of the free subregions from slot first of the region on.
Allocates(map, a, type, client, region, first, n) ==
    /\ Placed(type, a.addr, a.size, region, first, n)
    /\ \A s \in Extent(ClassOf(type), region, first, n) : map[s] = 0
    /\ a.map = [s \in Subregions |->
                   IF s \in Extent(ClassOf(type), region, first, n) THEN client ELSE map[s]]

\* A successful allocation reserves free subregions only, and those its address covers.
LEMMA AllocateFacts ==
    ASSUME NEW map \in [Subregions -> Nat], NEW type, NEW size \in Nat, NEW arg \in Nat,
           NEW client \in Nat \ {0}, NEW a, a = Allocate(map, type, size, arg, client),
           a.result \notin {"BAD_ARGUMENT", "NO_MEMORY"}
    PROVE  \E region, first, n : Allocates(map, a, type, client, region, first, n)
<1> DEFINE n == SubregionsFor(size)
           runs == FreeRuns(map, type, arg, n)
           run == FirstFit(runs)
           extent == Extent(ClassOf(type), run[1], run[2], n)
           good == [result |-> "SUCCESS",
                    map |-> [s \in Subregions |-> IF s \in extent THEN client ELSE map[s]],
                    addr |-> AddressOf(ClassOf(type), run[1], run[2]),
                    size |-> n * SubregionSize]
<1>1. a = IF BadAllocation(type, size, arg, client) THEN [result |-> "BAD_ARGUMENT"]
          ELSE IF runs = {} THEN [result |-> "NO_MEMORY"] ELSE good
  BY Zenon DEF Allocate
<1> HIDE DEF good
<1>2. ~BadAllocation(type, size, arg, client) /\ runs # {} /\ a = good
  BY <1>1
<1>3. /\ type \in AllocTypes /\ size # 0
      /\ ~(n > SubregionsPerRegion) /\ (type = "HBM" => ~(arg >= HbmRegions))
  BY <1>2, Zenon DEF BadAllocation
<1>4. n \in Nat \ {0}
  BY <1>3, Rounding
<1>5. CandidateRegions(type, arg) \subseteq 0..(RegionCount(ClassOf(type)) - 1)
  BY <1>3, AllocAssumption DEF CandidateRegions, RegionCount, ClassOf, AllocTypes
<1>6. 0..(RegionCount(ClassOf(type)) - 1) \subseteq Nat /\ Slots \subseteq Nat
  BY AllocAssumption DEF RegionCount, Slots
<1>7. runs \subseteq CandidateRegions(type, arg) \X Slots
  BY DEF FreeRuns
<1>8. run \in runs
  <2>1. runs \subseteq Nat \X Nat
    BY <1>5, <1>6, <1>7, Zenon
  <2> HIDE DEF runs
  <2> QED
    BY <1>2, <2>1, FirstFitChosen
<1>9. /\ run \in CandidateRegions(type, arg) \X Slots
      /\ run[2] + n <= SubregionsPerRegion
      /\ \A s \in extent : map[s] = 0
  <2> HIDE DEF n, run
  <2> QED
    BY <1>8, Zenon DEF FreeRuns
<1> HIDE DEF n, runs, run
<1>10. run[1] \in 0..(RegionCount(ClassOf(type)) - 1) /\ run[2] \in Slots
  BY <1>5, <1>9
<1>11. Placed(type, a.addr, a.size, run[1], run[2], n)
  BY <1>2, <1>3, <1>4, <1>9, <1>10 DEF Placed, good
<1>12. a.map = [s \in Subregions |-> IF s \in extent THEN client ELSE map[s]]
  BY <1>2 DEF good
<1>13. Allocates(map, a, type, client, run[1], run[2], n)
  BY <1>9, <1>11, <1>12, Zenon DEF Allocates
<1> QED
  BY <1>13

------------------------------------------------------------------------------
(* Buffers *)

\* cleanup_buffer clears the reservation of its buffer and nothing else.
LEMMA CleanupFacts ==
    ASSUME NEW b \in Buffers, NEW map \in [Subregions -> Nat],
           \A s \in Reserved(b) : map[s] = b.client
    PROVE  CleanupBuffer(map, b) =
               [s \in Subregions |-> IF s \in Reserved(b) THEN 0 ELSE map[s]]
<1>1. b.client \in Nat \ {0} /\ b.valid \in BOOLEAN
  BY DEF Buffers
<1>2. CASE b.valid
  <2>1. PICK region, first, n : Placed(b.type, b.addr, b.size, region, first, n)
    BY <1>2 DEF Buffers
  <2>2. ~BadFree(b.type, b.addr, b.size, b.client)
    BY <1>1, <2>1, PlacedCovered
  <2>3. Reserved(b) = Covered(b.type, b.addr, b.size)
    BY <1>2 DEF Reserved
  <2>4. CleanupBuffer(map, b) = Free(map, b.type, b.addr, b.size, b.client)
    BY <1>2 DEF CleanupBuffer
  <2>5. ~\E s \in Covered(b.type, b.addr, b.size) : map[s] # b.client
    BY <2>3
  <2> QED
    BY <2>2, <2>3, <2>4, <2>5, Zenon DEF Free
<1>3. CASE ~b.valid
  <2>1. Reserved(b) = {} /\ CleanupBuffer(map, b) = map
    BY <1>3 DEF Reserved, CleanupBuffer
  <2> QED
    BY <2>1
<1> QED
  BY <1>1, <1>2, <1>3

\* The buffer of a successful allocation reserves the extent allocated.
LEMMA OpenedBuffer ==
    ASSUME NEW map \in [Subregions -> Nat], NEW type, NEW size \in Nat, NEW arg \in Nat,
           NEW client \in Nat \ {0}, NEW a, a = Allocate(map, type, size, arg, client),
           a.result \notin {"BAD_ARGUMENT", "NO_MEMORY"}, NEW qpairs \in Nat,
           NEW b, b = BufferOf(type, client, a, qpairs)
    PROVE  /\ b \in Buffers /\ b.client = client
           /\ Reserved(b) \subseteq Subregions
           /\ \A s \in Reserved(b) : map[s] = 0
           /\ a.map = [s \in Subregions |-> IF s \in Reserved(b) THEN client ELSE map[s]]
<1>0. PICK region, first, n : Allocates(map, a, type, client, region, first, n)
  BY AllocateFacts
<1>1. Placed(type, a.addr, a.size, region, first, n)
  BY <1>0, Zenon DEF Allocates
<1>2. b = [type |-> type, client |-> client, addr |-> a.addr, size |-> a.size,
           valid |-> TRUE, qpairs |-> qpairs]
  BY DEF BufferOf
<1>3. Reserved(b) = Extent(ClassOf(type), region, first, n)
  BY <1>1, <1>2, PlacedCovered DEF Reserved
<1>4. Reserved(b) \subseteq Subregions
  BY <1>3 DEF Extent
<1>5. /\ type \in AllocTypes /\ region \in 0..(RegionCount(ClassOf(type)) - 1)
      /\ first \in Slots /\ n \in 1..SubregionsPerRegion
      /\ a.addr = AddressOf(ClassOf(type), region, first) /\ a.size = n * SubregionSize
  BY <1>1, AllocAssumption DEF Placed, Slots
<1>6. a.addr \in Nat /\ a.size \in Nat
  <2>1. /\ RegionSize \in Nat /\ SubregionSize \in Nat /\ Start(ClassOf(type)) \in Nat
        /\ region \in Nat /\ first \in Nat /\ n \in Nat
    BY <1>5, AllocAssumption DEF RegionSize, Start, Slots, RegionCount
  <2> QED
    BY <1>5, <2>1 DEF AddressOf
<1>7. b \in Buffers
  BY <1>1, <1>2, <1>5, <1>6 DEF Buffers
<1>8. b.client = client
  BY <1>2
<1> QED
  BY <1>0, <1>3, <1>4, <1>7, <1>8, Zenon DEF Allocates

\* buffer_create: the map and the list stay in agreement.
LEMMA AccountedOpen ==
    ASSUME NEW map \in [Subregions -> Nat], NEW buffers \in Seq(Buffers),
           Accounted(map, buffers), NEW b \in Buffers, NEW new,
           Reserved(b) \subseteq Subregions, \A s \in Reserved(b) : map[s] = 0,
           new = [s \in Subregions |-> IF s \in Reserved(b) THEN b.client ELSE map[s]]
    PROVE  Accounted(new, Append(buffers, b)) /\ new \in [Subregions -> Nat]
<1> DEFINE after == Append(buffers, b)
           N == Len(buffers)
<1>1. /\ N \in Nat /\ DOMAIN buffers = 1..N /\ DOMAIN after = 1..(N + 1)
      /\ after[N + 1] = b /\ \A i \in 1..N : after[i] = buffers[i] /\ buffers[i] \in Buffers
  OBVIOUS
<1>2. b.client \in Nat \ {0} /\ \A i \in 1..N : buffers[i].client \in Nat \ {0}
  BY <1>1 DEF Buffers
<1> HIDE DEF after, N
<1>3. \A i \in 1..N : \A s \in Reserved(buffers[i]) : map[s] = buffers[i].client
  BY <1>1 DEF Accounted
<1>4. \A i \in 1..N : Reserved(buffers[i]) \subseteq Subregions
  BY Zenon DEF Reserved, Covered, Extent
<1>5. \A i \in 1..N : Reserved(buffers[i]) \cap Reserved(b) = {}
  BY <1>2, <1>3
<1>6. ASSUME NEW i \in DOMAIN after, NEW s \in Reserved(after[i]) PROVE new[s] = after[i].client
  <2>1. CASE i = N + 1
    BY <1>1, <1>6, <2>1
  <2>2. CASE i \in 1..N
    <3>1. s \in Reserved(buffers[i]) /\ s \notin Reserved(b) /\ s \in Subregions
      BY <1>1, <1>4, <1>5, <1>6, <2>2
    <3> QED
      BY <1>1, <1>3, <2>2, <3>1
  <2> QED
    BY <1>1, <2>1, <2>2
<1>7. ASSUME NEW i \in DOMAIN after, NEW j \in DOMAIN after, i # j
      PROVE  Reserved(after[i]) \cap Reserved(after[j]) = {}
  <2>1. CASE i \in 1..N /\ j \in 1..N
    BY <1>1, <1>7, <2>1 DEF Accounted
  <2>2. CASE i = N + 1 /\ j \in 1..N
    BY <1>1, <1>5, <2>2
  <2>3. CASE j = N + 1 /\ i \in 1..N
    BY <1>1, <1>5, <2>3
  <2> QED
    BY <1>1, <1>7, <2>1, <2>2, <2>3
<1>8. ASSUME NEW s \in Subregions, new[s] # 0 PROVE \E i \in DOMAIN after : s \in Reserved(after[i])
  <2>1. CASE s \in Reserved(b)
    BY <1>1, <2>1
  <2>2. CASE s \notin Reserved(b)
    <3>1. map[s] # 0
      BY <1>8, <2>2
    <3>2. PICK i \in 1..N : s \in Reserved(buffers[i])
      BY <1>1, <3>1 DEF Accounted
    <3> QED
      BY <1>1, <3>2
  <2> QED
    BY <2>1, <2>2
<1>9. new \in [Subregions -> Nat]
  BY <1>2
<1> QED
  BY <1>6, <1>7, <1>8, <1>9, Zenon DEF Accounted, after

\* t lists the buffers whose places are not in Gone, h giving their places.
Remains(buffers, Gone, t, h) ==
    /\ Gone \subseteq 1..Len(buffers)
    /\ h \in [1..Len(t) -> (1..Len(buffers)) \ Gone]
    /\ \A k \in 1..Len(t) : t[k] = buffers[h[k]]
    /\ \A k, l \in 1..Len(t) : h[k] = h[l] => k = l
    /\ \A i \in (1..Len(buffers)) \ Gone : \E k \in 1..Len(t) : h[k] = i

\* The map cleared where one of the buffers at the places in Gone has a reservation.
Cleared(map, buffers, Gone) ==
    [s \in Subregions |-> IF \E k \in Gone : s \in Reserved(buffers[k]) THEN 0 ELSE map[s]]

\* Map and list stay in agreement when buffers go with their reservations.
LEMMA AccountedSome ==
    ASSUME NEW map \in [Subregions -> Nat], NEW buffers \in Seq(Buffers),
           Accounted(map, buffers), NEW Gone, NEW t \in Seq(Buffers), NEW h,
           Remains(buffers, Gone, t, h)
    PROVE  /\ Accounted(Cleared(map, buffers, Gone), t)
           /\ Cleared(map, buffers, Gone) \in [Subregions -> Nat]
<1> DEFINE new == Cleared(map, buffers, Gone)
<1>0. /\ Gone \subseteq 1..Len(buffers)
      /\ h \in [1..Len(t) -> (1..Len(buffers)) \ Gone]
      /\ \A k \in 1..Len(t) : t[k] = buffers[h[k]]
      /\ \A k, l \in 1..Len(t) : h[k] = h[l] => k = l
      /\ \A i \in (1..Len(buffers)) \ Gone : \E k \in 1..Len(t) : h[k] = i
  BY DEF Remains
<1>9. \A s \in Subregions :
          new[s] = IF \E k \in Gone : s \in Reserved(buffers[k]) THEN 0 ELSE map[s]
  BY DEF Cleared
<1>8. new \in [Subregions -> Nat]
  BY DEF Cleared
<1> HIDE DEF new
<1>1. DOMAIN t = 1..Len(t) /\ DOMAIN buffers = 1..Len(buffers)
  OBVIOUS
<1>2. \A i \in 1..Len(buffers) : Reserved(buffers[i]) \subseteq Subregions
  BY DEF Reserved, Covered, Extent
<1>3. \A i, j \in 1..Len(buffers) : i # j => Reserved(buffers[i]) \cap Reserved(buffers[j]) = {}
  BY <1>1 DEF Accounted
<1>4. \A i \in 1..Len(buffers) : \A s \in Reserved(buffers[i]) : map[s] = buffers[i].client
  BY <1>1 DEF Accounted
<1>5. ASSUME NEW k \in 1..Len(t), NEW s \in Reserved(t[k]) PROVE new[s] = t[k].client
  <2>1. /\ h[k] \in 1..Len(buffers) /\ h[k] \notin Gone /\ t[k] = buffers[h[k]]
        /\ s \in Reserved(buffers[h[k]])
    BY <1>0, <1>5
  <2>2. ~\E i \in Gone : s \in Reserved(buffers[i])
    BY <1>0, <1>3, <2>1, Zenon
  <2>3. s \in Subregions
    BY <1>2, <2>1
  <2>4. map[s] = buffers[h[k]].client
    BY <1>4, <2>1, Zenon
  <2> QED
    BY <1>9, <2>1, <2>2, <2>3, <2>4
<1>6. ASSUME NEW k \in 1..Len(t), NEW l \in 1..Len(t), k # l
      PROVE  Reserved(t[k]) \cap Reserved(t[l]) = {}
  <2>1. h[k] \in 1..Len(buffers) /\ h[l] \in 1..Len(buffers) /\ h[k] # h[l]
    BY <1>0, <1>6, Zenon
  <2>2. t[k] = buffers[h[k]] /\ t[l] = buffers[h[l]]
    BY <1>0
  <2> QED
    BY <1>3, <2>1, <2>2, Zenon
<1>7. ASSUME NEW s \in Subregions, new[s] # 0 PROVE \E k \in 1..Len(t) : s \in Reserved(t[k])
  <2>1. map[s] # 0 /\ ~\E i \in Gone : s \in Reserved(buffers[i])
    BY <1>7, <1>9
  <2>2. PICK i \in 1..Len(buffers) : s \in Reserved(buffers[i])
    BY <1>1, <2>1 DEF Accounted
  <2>3. i \in (1..Len(buffers)) \ Gone
    BY <2>1, <2>2
  <2>4. PICK k \in 1..Len(t) : h[k] = i
    BY <1>0, <2>3
  <2> QED
    BY <1>0, <2>2, <2>4
<1> QED
  BY <1>1, <1>5, <1>6, <1>7, <1>8, Zenon DEF Accounted, new

\* buffer_close: one buffer leaves the list and gives its subregions back.
LEMMA AccountedClose ==
    ASSUME NEW map \in [Subregions -> Nat], NEW buffers \in Seq(Buffers),
           Accounted(map, buffers), NEW i \in 1..Len(buffers)
    PROVE  /\ Accounted(CleanupBuffer(map, buffers[i]), RemoveAt(buffers, i))
           /\ CleanupBuffer(map, buffers[i]) \in [Subregions -> Nat]
<1> DEFINE t == RemoveAt(buffers, i)
           h == [k \in 1..Len(t) |-> IF k < i THEN k ELSE k + 1]
           new == CleanupBuffer(map, buffers[i])
<1>0. /\ t \in Seq(Buffers) /\ Len(t) = Len(buffers) - 1
      /\ \A k \in 1..(Len(buffers) - 1) : t[k] = buffers[IF k < i THEN k ELSE k + 1]
  BY RemoveAtFacts, SMTT(30)
<1> HIDE DEF t
<1>1. /\ t \in Seq(Buffers) /\ Len(t) = Len(buffers) - 1 /\ Len(buffers) \in Nat
      /\ \A k \in 1..Len(t) : t[k] = buffers[IF k < i THEN k ELSE k + 1]
  BY <1>0
<1>2. h \in [1..Len(t) -> (1..Len(buffers)) \ {i}]
  BY <1>1
<1>3. \A k \in 1..Len(t) : t[k] = buffers[h[k]]
  BY <1>1
<1>4. \A k, l \in 1..Len(t) : h[k] = h[l] => k = l
  BY <1>1
<1>5. ASSUME NEW j \in (1..Len(buffers)) \ {i} PROVE \E k \in 1..Len(t) : h[k] = j
  <2>1. CASE j < i
    <3>1. j \in 1..Len(t) /\ h[j] = j
      BY <1>1, <2>1
    <3> QED
      BY <3>1
  <2>2. CASE ~(j < i)
    <3>1. j - 1 \in 1..Len(t) /\ h[j - 1] = j
      BY <1>1, <2>2
    <3> QED
      BY <3>1
  <2> QED
    BY <2>1, <2>2
<1>6. buffers[i] \in Buffers /\ \A s \in Reserved(buffers[i]) : map[s] = buffers[i].client
  BY DEF Accounted
<1>7. new = [s \in Subregions |-> IF s \in Reserved(buffers[i]) THEN 0 ELSE map[s]]
  BY <1>6, CleanupFacts
<1>8. new = Cleared(map, buffers, {i})
  BY <1>7 DEF Cleared
<1> HIDE DEF h, new
<1>9. Remains(buffers, {i}, t, h)
  BY <1>2, <1>3, <1>4, <1>5 DEF Remains
<1>10. Accounted(new, t) /\ new \in [Subregions -> Nat]
  BY <1>1, <1>8, <1>9, AccountedSome, Zenon
<1> QED
  BY <1>10 DEF new, t

\* cleanup_buffer returns a map.
LEMMA CleanupType ==
    ASSUME NEW map \in [Subregions -> Nat], NEW b
    PROVE  CleanupBuffer(map, b) \in [Subregions -> Nat]
<1>1. Free(map, b.type, b.addr, b.size, b.client) \in [Subregions -> Nat]
  <2> DEFINE c == Covered(b.type, b.addr, b.size)
             new == [s \in Subregions |-> IF s \in c THEN 0 ELSE map[s]]
  <2>1. new \in [Subregions -> Nat]
    <3> HIDE DEF c
    <3> QED
      OBVIOUS
  <2>2. Free(map, b.type, b.addr, b.size, b.client) \in {map, new}
    BY Zenon DEF Free
  <2> HIDE DEF new
  <2> QED
    BY <2>1, <2>2
<1> QED
  BY <1>1, Zenon DEF CleanupBuffer

\* The places of a connection's buffers among the first n.
Places(buffers, conn, n) == {k \in 1..n : buffers[k].client = conn}

\* The pass of cleanup_buffers_for_conn_id over the buffers of a device: afterwards the
\* reservations of the connection, and no others, are cleared.
LEMMA DropRun ==
    ASSUME NEW d, NEW conn, d.map \in [Subregions -> Nat], d.buffers \in Seq(Buffers),
           Accounted(d.map, d.buffers)
    PROVE  DropBuffersOf(d, conn) =
               [d EXCEPT !.map = Cleared(d.map, d.buffers, Places(d.buffers, conn, Len(d.buffers))),
                         !.buffers = Compact(d.buffers, BuffersOfOthers(d, conn))]
<1> DEFINE bs == d.buffers
           N == Len(d.buffers)
           V == [Subregions -> Nat]
           m0 == d.map
           B(f, n) == IF n = 0 THEN d.map
                      ELSE IF d.buffers[n].client = conn THEN CleanupBuffer(f[n - 1], d.buffers[n])
                      ELSE f[n - 1]
           turn == [n \in 1..N |-> [v \in V |-> IF d.buffers[n].client = conn
                                                THEN CleanupBuffer(v, d.buffers[n]) ELSE v]]
           to == CHOOSE g : g = [n \in 0..N |-> B(g, n)]
<1>1. N \in Nat /\ m0 \in V /\ \A n \in 1..N : bs[n] \in Buffers
  OBVIOUS
<1>2. turn \in [1..N -> [V -> V]]
  <2> HIDE DEF V, N
  <2>1. \A v \in V : \A n \in 1..N : CleanupBuffer(v, d.buffers[n]) \in V
    BY CleanupType DEF V
  <2> QED
    BY <2>1
<1>3. \E f \in [0..N -> V] : f[0] = m0 /\ \A n \in 1..N : f[n] = turn[n][f[n - 1]]
  <2>1. N \in Nat /\ m0 \in V
    BY <1>1
  <2> HIDE DEF N, V, m0, turn, bs, B, to
  <2> QED
    BY <1>2, <2>1, Recursion, SMTT(30)
<1>4. PICK f \in [0..N -> V] : f[0] = m0 /\ \A n \in 1..N : f[n] = turn[n][f[n - 1]]
  BY <1>3, Zenon
<1>5. ASSUME NEW n \in 0..N PROVE f[n] = B(f, n)
  <2>1. CASE n = 0
    BY <1>4, <2>1
  <2>2. CASE n # 0
    <3>1. n \in 1..N /\ f[n - 1] \in V
      <4> HIDE DEF V
      <4> QED
        BY <1>1, <1>4, <2>2
    <3>2. f[n] = turn[n][f[n - 1]]
      <4> HIDE DEF turn
      <4> QED
        BY <3>1, <1>4
    <3>3. turn[n][f[n - 1]] = IF d.buffers[n].client = conn
                              THEN CleanupBuffer(f[n - 1], d.buffers[n]) ELSE f[n - 1]
      <4> HIDE DEF V, N
      <4> QED
        BY <3>1
    <3> QED
      BY <3>2, <3>3, <2>2, Zenon
  <2> QED
    BY <2>1, <2>2
<1>6. f = [n \in 0..N |-> B(f, n)]
  <2> HIDE DEF B, V
  <2> QED
    BY <1>4, <1>5
<1>7. to = [n \in 0..N |-> B(to, n)]
  BY <1>6, Zenon
<1>8. DropBuffersOf(d, conn) =
          [d EXCEPT !.map = to[N], !.buffers = Compact(d.buffers, BuffersOfOthers(d, conn))]
  BY Zenon DEF DropBuffersOf
<1>9. \A n \in 0..N : to[n] = B(to, n)
  <2> HIDE DEF to, B
  <2> QED
    BY <1>7, Zenon
<1> HIDE DEF to
<1> DEFINE Done(n) == Cleared(m0, bs, Places(bs, conn, n))
           T == {n \in 0..N : to[n] = Done(n)}
<1>10. 0 \in T
  <2>1. Done(0) = m0
    BY <1>1 DEF Cleared, Places
  <2>2. to[0] = m0
    BY <1>1, <1>9
  <2> QED
    BY <1>1, <2>1, <2>2
<1>11. ASSUME NEW n \in 1..N, n - 1 \in T PROVE n \in T
  <2>1. n \in 0..N /\ n # 0 /\ to[n - 1] = Done(n - 1)
    BY <1>11
  <2>2. to[n] = IF bs[n].client = conn THEN CleanupBuffer(to[n - 1], bs[n]) ELSE to[n - 1]
    BY <1>9, <2>1, Zenon
  <2>3. \A s \in Subregions :
           Done(n - 1)[s] = IF \E k \in Places(bs, conn, n - 1) : s \in Reserved(bs[k])
                            THEN 0 ELSE m0[s]
    BY DEF Cleared
  <2>4. Done(n - 1) \in V
    BY <1>1 DEF Cleared
  <2>5. CASE bs[n].client = conn
    <3>1. Places(bs, conn, n) = Places(bs, conn, n - 1) \cup {n}
      BY <2>5 DEF Places
    <3>2. ASSUME NEW s \in Reserved(bs[n]) PROVE Done(n - 1)[s] = bs[n].client
      <4>0. \A i, j \in 1..N : i # j => Reserved(bs[i]) \cap Reserved(bs[j]) = {}
        <5>1. DOMAIN bs = 1..N
          OBVIOUS
        <5> QED
          BY <5>1, Zenon DEF Accounted
      <4>1. ~\E k \in Places(bs, conn, n - 1) : s \in Reserved(bs[k])
        <5>1. \A k \in Places(bs, conn, n - 1) : k \in 1..N /\ k # n
          BY <1>1 DEF Places
        <5> HIDE DEF bs, N
        <5> QED
          BY <3>2, <4>0, <5>1, Zenon
      <4>2. s \in Subregions
        BY <3>2 DEF Reserved, Covered, Extent
      <4>3. m0[s] = bs[n].client
        BY <3>2 DEF Accounted
      <4> QED
        BY <2>3, <4>1, <4>2, <4>3
    <3>3. CleanupBuffer(Done(n - 1), bs[n]) =
              [s \in Subregions |-> IF s \in Reserved(bs[n]) THEN 0 ELSE Done(n - 1)[s]]
      <4> HIDE DEF Done
      <4> QED
        BY <1>1, <2>4, <3>2, CleanupFacts, ZenonT(40)
    <3>4. \A s \in Subregions :
             (IF s \in Reserved(bs[n]) THEN 0 ELSE Done(n - 1)[s]) =
             IF \E k \in Places(bs, conn, n) : s \in Reserved(bs[k]) THEN 0 ELSE m0[s]
      BY <2>3, <3>1
    <3>5. CleanupBuffer(Done(n - 1), bs[n]) = Done(n)
      BY <3>3, <3>4, Zenon DEF Cleared
    <3> QED
      BY <2>1, <2>2, <2>5, <3>5
  <2>6. CASE bs[n].client # conn
    <3>1. Places(bs, conn, n) = Places(bs, conn, n - 1)
      BY <2>6 DEF Places
    <3> QED
      BY <2>1, <2>2, <2>6, <3>1
  <2> QED
    BY <2>5, <2>6
<1>12. N \in T
  <2> HIDE DEF T, N
  <2>1. 0..N \subseteq T
    BY <1>1, <1>10, <1>11, UpTo, Zenon
  <2> QED
    BY <1>1, <2>1
<1>13. to[N] = Cleared(d.map, d.buffers, Places(d.buffers, conn, Len(d.buffers)))
  BY <1>12
<1> QED
  BY <1>8, <1>13, Zenon

\* The struct after the disconnect of conn: exactly the buffers of others are left.
Dropped(d, conn, map, t) ==
    /\ DropBuffersOf(d, conn) = [d EXCEPT !.map = map, !.buffers = t]
    /\ Accounted(map, t)
    /\ \A k \in DOMAIN t :
          t[k].client # conn /\ \E i \in DOMAIN d.buffers : d.buffers[i] = t[k]
    /\ \A i \in DOMAIN d.buffers :
          d.buffers[i].client # conn => \E k \in DOMAIN t : t[k] = d.buffers[i]

\* A disconnect keeps map and list in agreement.
LEMMA AccountedDrop ==
    ASSUME NEW d, NEW conn, d.map \in [Subregions -> Nat], d.buffers \in Seq(Buffers),
           Accounted(d.map, d.buffers)
    PROVE  \E map \in [Subregions -> Nat], t \in Seq(Buffers) : Dropped(d, conn, map, t)
<1> DEFINE bs == d.buffers
           N == Len(bs)
           Gone == Places(bs, conn, N)
           map == Cleared(d.map, bs, Gone)
           S == BuffersOfOthers(d, conn)
           t == Compact(bs, S)
<1>1. N \in Nat /\ DOMAIN bs = 1..N /\ bs \in Seq(Buffers)
  OBVIOUS
<1>2. DropBuffersOf(d, conn) = [d EXCEPT !.map = map, !.buffers = t]
  BY DropRun, Zenon
<1>3. \A i \in 1..N : bs[i] \in S <=> bs[i].client # conn
  BY <1>1 DEF BuffersOfOthers
<1>4. Gone = {i \in 1..N : bs[i].client = conn}
  BY DEF Places
<1> HIDE DEF N, Gone, map, S, t, bs
<1>5. t \in Seq(Buffers) /\ \E h : Embeds(bs, S, t, N, h)
  BY <1>1, CompactFacts DEF t, N
<1>6. PICK h : Embeds(bs, S, t, N, h)
  BY <1>5
<1>7. /\ h \in [1..Len(t) -> 1..N]
      /\ \A k \in 1..Len(t) : t[k] = bs[h[k]] /\ bs[h[k]] \in S
      /\ \A k, l \in 1..Len(t) : h[k] = h[l] => k = l
      /\ \A i \in 1..N : bs[i] \in S => \E k \in 1..Len(t) : h[k] = i
  BY <1>6 DEF Embeds
<1>8. Remains(bs, Gone, t, h)
  <2>1. h \in [1..Len(t) -> (1..N) \ Gone]
    BY <1>3, <1>4, <1>7
  <2>2. Gone \subseteq 1..N
    BY <1>4
  <2>3. \A i \in (1..N) \ Gone : \E k \in 1..Len(t) : h[k] = i
    BY <1>3, <1>4, <1>7, SMTT(30)
  <2> QED
    BY <1>7, <2>1, <2>2, <2>3 DEF Remains, N
<1>9. Accounted(map, t) /\ map \in [Subregions -> Nat]
  BY <1>1, <1>5, <1>8, AccountedSome DEF map, bs
<1>10. DOMAIN t = 1..Len(t)
  BY <1>5
<1>11. \A k \in DOMAIN t : t[k].client # conn /\ \E i \in DOMAIN bs : bs[i] = t[k]
  BY <1>1, <1>3, <1>7, <1>10
<1>12. \A i \in DOMAIN bs : bs[i].client # conn => \E k \in DOMAIN t : t[k] = bs[i]
  <2> SUFFICES ASSUME NEW i \in 1..N, bs[i].client # conn
               PROVE  \E k \in 1..Len(t) : t[k] = bs[i]
    BY <1>1, <1>10
  <2>1. PICK k \in 1..Len(t) : h[k] = i
    BY <1>3, <1>7
  <2> QED
    BY <1>7, <2>1
<1>13. Dropped(d, conn, map, t)
  BY <1>2, <1>9, <1>11, <1>12, Zenon DEF bs, Dropped
<1> QED
  BY <1>5, <1>9, <1>13, Zenon

------------------------------------------------------------------------------
(* The device list *)

\* The type of what a list holds.
LEMMA ListedFacts ==
    ASSUME NEW m, DmOk(m)
    PROVE  /\ Listed(m) \subseteq Devices
           /\ m.list \in Seq(Devices) /\ m.next \in Nat /\ m.present \subseteq Boards
           /\ \A i \in DOMAIN m.list : m.list[i] \in Listed(m)
           /\ \A d \in Listed(m) : \E i \in DOMAIN m.list : d = m.list[i]
BY DEF DmOk, Listed

\* Nothing changed.
LEMMA CarriedSame ==
    ASSUME NEW m, DmOk(m)
    PROVE  Carried(m, m)
BY ListedFacts DEF Carried, Holds, Same

\* Carried steps compose.
LEMMA CarriedTwice ==
    ASSUME NEW m, DmOk(m), NEW n, NEW p, Carried(m, n), Carried(n, p)
    PROVE  Carried(m, p)
<1>1. DmOk(p) /\ (Quiet(m) => Quiet(p))
  BY DEF Carried
<1>2. m.next \in Nat /\ n.next \in Nat /\ p.next \in Nat
  BY ListedFacts DEF Carried
<1>3. m.next <= n.next /\ n.next <= p.next
  BY DEF Carried, Holds
<1>4. ASSUME NEW e \in Listed(p)
      PROVE  Fresh(m, e) \/ \E d \in Listed(m) : Same(d, e)
  <2>1. e.id \in Nat
    BY <1>1, ListedFacts DEF Devices
  <2>2. CASE Fresh(n, e)
    BY <1>2, <1>3, <2>1, <2>2 DEF Fresh
  <2>3. ASSUME NEW f \in Listed(n), Same(f, e)
        PROVE  Fresh(m, e) \/ \E d \in Listed(m) : Same(d, e)
    <3>1. CASE Fresh(m, f)
      BY <2>3, <3>1 DEF Fresh, Same
    <3>2. ASSUME NEW d \in Listed(m), Same(d, f) PROVE \E g \in Listed(m) : Same(g, e)
      BY <2>3, <3>2 DEF Same
    <3> QED
      BY <3>1, <3>2 DEF Carried, Holds
  <2> QED
    BY <2>2, <2>3 DEF Carried, Holds
<1> QED
  BY <1>1, <1>2, <1>3, <1>4 DEF Carried, Holds

\* A change of the present boards leaves the structs alone.
LEMMA PresentChanged ==
    ASSUME NEW m, DmOk(m), NEW P, P \subseteq Boards, NEW n, n = [m EXCEPT !.present = P]
    PROVE  /\ Carried(m, n) /\ Listed(n) = Listed(m) /\ n.next = m.next
           /\ n.present = P /\ n.list = m.list
<1>0. m \in [present : SUBSET Boards, list : Seq(Devices), next : Nat, wizard : {m.wizard}]
  BY DEF DmOk
<1>1. /\ n.list = m.list /\ n.next = m.next /\ n.present = P /\ n.wizard = m.wizard
      /\ n \in [present : SUBSET Boards, list : Seq(Devices), next : Nat, wizard : {n.wizard}]
  BY <1>0
<1>2. Listed(n) = Listed(m)
  BY <1>1 DEF Listed
<1>3. DmOk(n)
  BY <1>1, <1>2 DEF DmOk
<1> QED
  BY <1>1, <1>2, <1>3, ListedFacts DEF Carried, Holds, Same, Quiet

\* A change of the list keeps the other fields.
LEMMA ListChanged ==
    ASSUME NEW m, DmOk(m), NEW l \in Seq(Devices), NEW n, n = [m EXCEPT !.list = l]
    PROVE  /\ n \in [present : SUBSET Boards, list : Seq(Devices), next : Nat, wizard : {n.wizard}]
           /\ n.list = l /\ n.next = m.next /\ n.present = m.present /\ n.wizard = m.wizard
           /\ Listed(n) = {l[i] : i \in DOMAIN l}
<1>0. m \in [present : SUBSET Boards, list : Seq(Devices), next : Nat, wizard : {m.wizard}]
  BY DEF DmOk
<1> QED
  BY <1>0, SMTT(30) DEF Listed

\* device_ptr_array_rm_by_reference: the other structs stay as they are.
LEMMA RemoveFacts ==
    ASSUME NEW m, DmOk(m), NEW id, NEW n, n = RemoveDevice(m, id)
    PROVE  /\ Carried(m, n) /\ n.present = m.present
           /\ Listed(n) = {d \in Listed(m) : d.id # id}
<1> DEFINE S == {d \in Listed(m) : d.id # id}
           l == Compact(m.list, S)
<1>1. m.list \in Seq(Devices) /\ Listed(m) = {m.list[i] : i \in DOMAIN m.list}
  BY ListedFacts DEF Listed
<1>2. l \in Seq(Devices) /\ \E h : Embeds(m.list, S, l, Len(m.list), h)
  BY <1>1, CompactFacts, Zenon
<1>3. PICK h : Embeds(m.list, S, l, Len(m.list), h)
  BY <1>2, Zenon
<1>4. n = [m EXCEPT !.list = l]
  BY DEF RemoveDevice
<1> HIDE DEF l
<1>5. {l[i] : i \in DOMAIN l} = S
  <2>1. DOMAIN l = 1..Len(l) /\ DOMAIN m.list = 1..Len(m.list)
    BY <1>1, <1>2
  <2>2. \A i \in DOMAIN l : l[i] \in S
    BY <1>3, <2>1 DEF Embeds
  <2>3. ASSUME NEW d \in S PROVE \E i \in DOMAIN l : l[i] = d
    <3>1. PICK j \in 1..Len(m.list) : m.list[j] = d
      BY <1>1, <2>1
    <3>2. PICK k \in 1..Len(l) : h[k] = j
      BY <1>3, <3>1 DEF Embeds
    <3>3. l[k] = m.list[h[k]]
      BY <1>3, <3>2 DEF Embeds
    <3> QED
      BY <2>1, <3>1, <3>2, <3>3
  <2> QED
    BY <2>2, <2>3
<1>6. /\ n \in [present : SUBSET Boards, list : Seq(Devices), next : Nat, wizard : {n.wizard}]
      /\ n.next = m.next /\ n.present = m.present /\ Listed(n) = S
  BY <1>2, <1>4, <1>5, ListChanged
<1>7. DmOk(n)
  BY <1>6 DEF DmOk
<1> QED
  BY <1>6, <1>7, ListedFacts DEF Carried, Holds, Same, Quiet

\* The struct d is replaced by one with the same identity.
LEMMA WithFacts ==
    ASSUME NEW m, DmOk(m), NEW d \in Listed(m), NEW e \in Devices, e.id = d.id,
           NEW n, n = WithDevice(m, e)
    PROVE  /\ DmOk(n) /\ n.next = m.next /\ n.present = m.present
           /\ Listed(n) = (Listed(m) \ {d}) \cup {e}
<1> DEFINE l == [i \in DOMAIN m.list |-> IF m.list[i].id = e.id THEN e ELSE m.list[i]]
<1>1. m.list \in Seq(Devices) /\ Listed(m) = {m.list[i] : i \in DOMAIN m.list}
  BY ListedFacts DEF Listed
<1>2. l \in Seq(Devices)
  <2>1. Len(m.list) \in Nat /\ DOMAIN m.list = 1..Len(m.list)
    BY <1>1
  <2>2. l \in [1..Len(m.list) -> Devices]
    BY <1>1, <2>1
  <2> QED
    BY <2>1, <2>2
<1>3. n = [m EXCEPT !.list = l]
  BY DEF WithDevice
<1>4. {l[i] : i \in DOMAIN l} = (Listed(m) \ {d}) \cup {e}
  <2>1. DOMAIN l = DOMAIN m.list
    OBVIOUS
  <2>2. ASSUME NEW i \in DOMAIN m.list PROVE l[i] \in (Listed(m) \ {d}) \cup {e}
    BY <1>1
  <2>3. ASSUME NEW f \in Listed(m) \ {d} PROVE \E i \in DOMAIN m.list : l[i] = f
    <3>1. PICK i \in DOMAIN m.list : f = m.list[i]
      BY <1>1
    <3>2. f.id # d.id
      BY DEF DmOk
    <3> QED
      BY <3>1, <3>2
  <2>4. \E i \in DOMAIN m.list : l[i] = e
    <3>1. PICK i \in DOMAIN m.list : d = m.list[i]
      BY <1>1
    <3> QED
      BY <3>1
  <2> HIDE DEF l
  <2> QED
    BY <2>1, <2>2, <2>3, <2>4
<1> HIDE DEF l
<1>5. /\ n \in [present : SUBSET Boards, list : Seq(Devices), next : Nat, wizard : {n.wizard}]
      /\ n.next = m.next /\ n.present = m.present /\ Listed(n) = (Listed(m) \ {d}) \cup {e}
  <2>1. /\ n \in [present : SUBSET Boards, list : Seq(Devices), next : Nat, wizard : {n.wizard}]
        /\ n.next = m.next /\ n.present = m.present /\ Listed(n) = {l[i] : i \in DOMAIN l}
    BY <1>2, <1>3, ListChanged
  <2> QED
    BY <1>4, <2>1, Zenon
<1>6. DmOk(n)
  <2>1. \A f \in Listed(n) : f.id < n.next
    BY <1>5 DEF DmOk
  <2>2. \A f, g \in Listed(n) : f.id = g.id => f = g
    BY <1>5 DEF DmOk
  <2> QED
    BY <1>5, <2>1, <2>2 DEF DmOk
<1> QED
  BY <1>5, <1>6

\* The replacement keeps the memory of the struct and starts no writer.
LEMMA WithCarried ==
    ASSUME NEW m, DmOk(m), NEW d \in Listed(m), NEW e \in Devices, Same(d, e),
           e.writing => d.writing
    PROVE  Carried(m, WithDevice(m, e))
<1> DEFINE n == WithDevice(m, e)
<1>1. /\ DmOk(n) /\ n.next = m.next /\ n.present = m.present
      /\ Listed(n) = (Listed(m) \ {d}) \cup {e}
  BY WithFacts DEF Same
<1> HIDE DEF n
<1>2. Holds(m, n)
  BY <1>1, ListedFacts DEF Holds, Same
<1>3. Quiet(m) => Quiet(n)
  BY <1>1 DEF Quiet
<1> QED
  BY <1>1, <1>2, <1>3 DEF Carried, n

\* device_open returns a struct without buffers.
LEMMA OpenedFacts ==
    ASSUME NEW id \in Nat, NEW bdf \in Boards, NEW qdma \in BOOLEAN
    PROVE  /\ Opened(id, bdf, qdma) \in Devices
           /\ Opened(id, bdf, qdma).id = id /\ Opened(id, bdf, qdma).buffers = << >>
           /\ Opened(id, bdf, qdma).map = EmptyMap /\ ~Opened(id, bdf, qdma).writing
<1>1. << >> \in Seq(Buffers) /\ EmptyMap \in [Subregions -> Nat]
  BY DEF EmptyMap
<1> HIDE DEF EmptyMap
<1> QED
  BY <1>1 DEF Opened, Devices, Shells

\* The nodes opened by a discovery come behind the list, with identities of their own.
LEMMA OpenAllFacts ==
    ASSUME NEW m, DmOk(m), NEW paths \in Seq(Boards), NEW q,
           \A i \in 1..Len(paths) : q[i] \in BOOLEAN
    PROVE  Carried(m, OpenAll(m, paths, q))
<1> DEFINE N == Len(paths)
           x == [i \in 1..N |-> Opened(m.next + i - 1, paths[i], q[i])]
           l == m.list \o x
           n == OpenAll(m, paths, q)
<1>0. m \in [present : SUBSET Boards, list : Seq(Devices), next : Nat, wizard : {m.wizard}]
  BY DEF DmOk
<1>1. /\ N \in Nat /\ m.next \in Nat /\ m.list \in Seq(Devices)
      /\ \A i \in 1..N : paths[i] \in Boards
  BY <1>0
<1>2. ASSUME NEW i \in 1..N
      PROVE  /\ x[i] \in Devices /\ x[i].id = m.next + i - 1 /\ Fresh(m, x[i]) /\ ~x[i].writing
             /\ m.next + i - 1 < m.next + N
  <2>1. m.next + i - 1 \in Nat /\ m.next + i - 1 >= m.next /\ m.next + i - 1 < m.next + N
    BY <1>1
  <2>2. x[i] = Opened(m.next + i - 1, paths[i], q[i])
    OBVIOUS
  <2> HIDE DEF x
  <2> QED
    BY <1>1, <2>1, <2>2, OpenedFacts DEF Fresh
<1>3. x \in Seq(Devices) /\ Len(x) = N
  <2>1. x \in [1..N -> Devices]
    BY <1>2
  <2> HIDE DEF x
  <2> QED
    BY <1>1, <2>1
<1>4. n = [m EXCEPT !.list = l, !.next = m.next + N]
  BY Zenon DEF OpenAll
<1> HIDE DEF x, N
<1>5. l \in Seq(Devices) /\ Len(l) = Len(m.list) + N
  BY <1>1, <1>3, SMTT(30)
<1>6. \A i \in DOMAIN l : l[i] \in Listed(m) \/ \E k \in 1..N : l[i] = x[k]
  <2> SUFFICES ASSUME NEW i \in 1..(Len(m.list) + N)
               PROVE  l[i] \in Listed(m) \/ \E k \in 1..N : l[i] = x[k]
    BY <1>5
  <2>1. CASE i <= Len(m.list)
    <3>1. i \in 1..Len(m.list) /\ l[i] = m.list[i]
      BY <1>1, <1>3, <2>1
    <3>2. i \in DOMAIN m.list
      BY <1>1, <3>1
    <3> HIDE DEF l
    <3> QED
      BY <3>1, <3>2, ListedFacts
  <2>2. CASE ~(i <= Len(m.list))
    <3>1. i - Len(m.list) \in 1..N /\ l[i] = x[i - Len(m.list)]
      BY <1>1, <1>3, <2>2
    <3> QED
      BY <3>1
  <2> QED
    BY <2>1, <2>2, Zenon
<1> HIDE DEF l
<1>7. /\ n \in [present : SUBSET Boards, list : Seq(Devices), next : Nat, wizard : {n.wizard}]
      /\ n.list = l /\ n.next = m.next + N
  <2> HIDE DEF n
  <2>1. m.next + N \in Nat
    BY <1>1
  <2> QED
    BY <1>0, <1>4, <1>5, <2>1, Zenon
<1> HIDE DEF n
<1>8. \A e \in Listed(n) : e \in Listed(m) \/ \E k \in 1..N : e = x[k]
  BY <1>6, <1>7 DEF Listed
<1>9. \A e \in Listed(m) : e.id < m.next /\ e.id \in Nat
  BY ListedFacts, Zenon DEF DmOk, Devices
<1>10. DmOk(n)
  <2>1. \A e \in Listed(n) : e.id < n.next
    BY <1>1, <1>2, <1>7, <1>8, <1>9
  <2>2. \A k, j \in 1..N : x[k].id = x[j].id => x[k] = x[j]
    <3>1. \A k, j \in 1..N : x[k].id = x[j].id => k = j
      BY <1>1, <1>2
    <3> QED
      BY <3>1
  <2>3. \A k \in 1..N : \A e \in Listed(m) : e.id # x[k].id
    BY <1>1, <1>2, <1>9
  <2>4. \A e, f \in Listed(n) : e.id = f.id => e = f
    BY <1>8, <2>2, <2>3 DEF DmOk
  <2> QED
    BY <1>7, <2>1, <2>4 DEF DmOk
<1>11. Holds(m, n)
  <2>1. m.next <= n.next
    BY <1>1, <1>7
  <2>2. \A e \in Listed(n) : Fresh(m, e) \/ e \in Listed(m)
    BY <1>2, <1>8
  <2> QED
    BY <2>1, <2>2 DEF Holds, Same
<1>12. Quiet(m) => Quiet(n)
  BY <1>2, <1>8 DEF Quiet
<1> QED
  BY <1>10, <1>11, <1>12 DEF Carried, n

\* devices_discover_and_open, however far it came.
LEMMA DiscoverFacts ==
    ASSUME NEW m, DmOk(m), NEW o \in DiscoverOutcomes(m)
    PROVE  Carried(m, o.dm)
<1> DEFINE paths == SetToSeq(Unopened(m))
           N == Len(paths)
           Q == [1..N -> IF "qdma" \in Faults THEN BOOLEAN ELSE {TRUE}]
           stops == {N} \cup (IF "open" \in Faults THEN 0..N ELSE {})
<1>1. paths \in Seq(Boards) /\ N \in Nat
  <2>1. Unopened(m) \subseteq Boards
    BY ListedFacts DEF Unopened
  <2>2. IsFiniteSet(Unopened(m))
    BY <2>1, BoardsAssumption, FS_Subset
  <2>3. paths \in Seq(Unopened(m))
    BY <2>2, SetToSeqFacts
  <2> HIDE DEF paths
  <2> QED
    BY <2>1, <2>3
<1>2. \/ \E k \in stops, q \in Q : o = [ok |-> k = N, dm |-> OpenAll(m, SubSeq(paths, 1, k), q)]
      \/ o = [ok |-> FALSE, dm |-> m]
  <2>1. DiscoverOutcomes(m) =
            {[ok |-> k = N, dm |-> OpenAll(m, SubSeq(paths, 1, k), q)] : k \in stops, q \in Q}
                \cup (IF "glob" \in Faults THEN {[ok |-> FALSE, dm |-> m]} ELSE {})
    BY DEF DiscoverOutcomes
  <2> HIDE DEF paths, N, Q, stops
  <2> QED
    BY <2>1
<1> HIDE DEF paths, N
<1>3. ASSUME NEW k \in stops, NEW q \in Q,
             o = [ok |-> k = N, dm |-> OpenAll(m, SubSeq(paths, 1, k), q)]
      PROVE  Carried(m, o.dm)
  <2>1. k \in 0..N
    BY <1>1
  <2>2. SubSeq(paths, 1, k) \in Seq(Boards) /\ Len(SubSeq(paths, 1, k)) = k
    BY <1>1, <2>1 DEF N
  <2>3. \A i \in 1..k : q[i] \in BOOLEAN
    <3>1. \A i \in 1..k : i \in 1..N
      BY <1>1, <2>1
    <3>2. Q \subseteq [1..N -> BOOLEAN]
      BY Zenon
    <3> QED
      BY <3>1, <3>2, Zenon
  <2>4. o.dm = OpenAll(m, SubSeq(paths, 1, k), q)
    BY <1>3
  <2> HIDE DEF Q, stops
  <2> QED
    BY <2>2, <2>3, <2>4, OpenAllFacts, Zenon
<1>4. CASE o = [ok |-> FALSE, dm |-> m]
  BY <1>4, CarriedSame
<1> QED
  BY <1>2, <1>3, <1>4, Zenon

\* slash_hotplug_rescan: nodes come back, structs stay.
LEMMA RescanFacts ==
    ASSUME NEW m, DmOk(m), NEW n \in RescanOutcomes(m)
    PROVE  Carried(m, n) /\ Listed(n) = Listed(m)
<1>1. m.present \subseteq Boards
  BY ListedFacts
<1>2. \E b \in SUBSET Boards : n = [m EXCEPT !.present = @ \cup b]
  BY DEF RescanOutcomes
<1>3. PICK b \in SUBSET Boards : n = [m EXCEPT !.present = m.present \cup b]
  BY <1>2, Zenon
<1> QED
  BY <1>1, <1>3, PresentChanged, Zenon

\* Removing a board from the bus.
LEMMA GoneFacts ==
    ASSUME NEW m, DmOk(m), NEW b
    PROVE  LET n == [m EXCEPT !.present = @ \ {b}]
           IN Carried(m, n) /\ Listed(n) = Listed(m) /\ DmOk(n)
<1>1. m.present \ {b} \subseteq Boards
  BY ListedFacts
<1> QED
  BY <1>1, PresentChanged DEF Carried

\* Steps 7 to 12 of the reset.
LEMMA BusFacts ==
    ASSUME NEW m, DmOk(m), NEW b, NEW o \in BusOutcomes(m, b)
    PROVE  Carried(m, o.dm) /\ Listed(o.dm) = Listed(m)
<1> DEFINE gone == [m EXCEPT !.present = @ \ {b}]
<1>1. Carried(m, gone) /\ Listed(gone) = Listed(m) /\ DmOk(gone)
  BY GoneFacts, Zenon
<1>2. o.dm \in RescanOutcomes(gone) \/ o.dm = m \/ o.dm = gone
  <2> HIDE DEF gone
  <2>1. \/ \E n \in RescanOutcomes(gone) :
              o = [ret |-> IF b \in n.present THEN "OK" ELSE "INTERNAL_ERROR", dm |-> n]
        \/ \E e : o = [ret |-> e, dm |-> m]
        \/ \E e : o = [ret |-> e, dm |-> gone]
    BY Zenon DEF BusOutcomes, gone
  <2> QED
    BY <2>1
<1> HIDE DEF gone
<1>3. CASE o.dm \in RescanOutcomes(gone)
  BY <1>1, <1>3, RescanFacts, CarriedTwice
<1> QED
  BY <1>1, <1>2, <1>3, CarriedSame

\* Step 13: the structs of the board get their shell.
LEMMA RediscoverFacts ==
    ASSUME NEW m, DmOk(m), NEW b, NEW partition, NEW o \in RediscoverOutcomes(m, b, partition)
    PROVE  Carried(m, o.dm)
<1> DEFINE shell == ShellOfPartition(partition)
           Set(d) == IF d.bdf = b THEN [d EXCEPT !.shell = shell] ELSE d
           l(n) == [i \in DOMAIN n.list |-> Set(n.list[i])]
<1>1. PICK p \in DiscoverOutcomes(m) :
          \/ o = [ret |-> "INTERNAL_ERROR", dm |-> p.dm]
          \/ o = [ret |-> "OK", dm |-> [p.dm EXCEPT !.list = l(p.dm)]]
  BY Zenon DEF RediscoverOutcomes
<1>2. Carried(m, p.dm) /\ DmOk(p.dm)
  BY DiscoverFacts DEF Carried
<1>3. CASE o = [ret |-> "INTERNAL_ERROR", dm |-> p.dm]
  BY <1>2, <1>3
<1>4. CASE o = [ret |-> "OK", dm |-> [p.dm EXCEPT !.list = l(p.dm)]]
  <2> DEFINE n == p.dm
             x == o.dm
  <2>0. x = [n EXCEPT !.list = l(n)]
    BY <1>4
  <2> HIDE DEF n, x
  <2>1. n.list \in Seq(Devices) /\ DmOk(n)
    BY <1>2, ListedFacts DEF n
  <2>2. \A d \in Devices : /\ Set(d) \in Devices /\ Same(d, Set(d))
                           /\ Set(d).writing = d.writing
    <3>1. shell \in Shells
      BY DEF ShellOfPartition, Shells
    <3> HIDE DEF shell
    <3> QED
      BY <3>1 DEF Devices, Same
  <2> HIDE DEF Set
  <2>3. l(n) \in Seq(Devices) /\ DOMAIN l(n) = DOMAIN n.list
    <3>1. Len(n.list) \in Nat /\ DOMAIN n.list = 1..Len(n.list)
      BY <2>1, SMTT(30)
    <3>2. l(n) \in [1..Len(n.list) -> Devices]
      BY <2>1, <2>2, <3>1
    <3> QED
      BY <3>1, <3>2
  <2>4. \A i \in DOMAIN n.list : l(n)[i] = Set(n.list[i]) /\ n.list[i] \in Devices
    BY <2>1
  <2>5. /\ x \in [present : SUBSET Boards, list : Seq(Devices), next : Nat, wizard : {x.wizard}]
        /\ x.next = n.next /\ Listed(x) = {l(n)[i] : i \in DOMAIN l(n)}
    <3> HIDE DEF l
    <3> QED
      BY <2>0, <2>1, <2>3, ListChanged, SMTT(30)
  <2> HIDE DEF l
  <2>6. \A e \in Listed(x) : \E d \in Listed(n) : /\ e = Set(d) /\ Same(d, e)
                                                  /\ e.writing = d.writing
    <3> SUFFICES ASSUME NEW i \in DOMAIN n.list
                 PROVE  \E d \in Listed(n) : /\ l(n)[i] = Set(d) /\ Same(d, l(n)[i])
                                              /\ l(n)[i].writing = d.writing
      BY <2>3, <2>5
    <3>1. n.list[i] \in Listed(n)
      BY DEF Listed
    <3> QED
      BY <2>2, <2>4, <3>1
  <2>7. DmOk(x)
    <3>1. \A e \in Listed(x) : e.id < x.next
      BY <2>1, <2>5, <2>6 DEF DmOk, Same
    <3>2. \A e, f \in Listed(x) : e.id = f.id => e = f
      BY <2>1, <2>6 DEF DmOk, Same
    <3> QED
      BY <2>5, <3>1, <3>2 DEF DmOk
  <2>8. Holds(n, x)
    <3>1. n.next <= x.next
      BY <2>1, <2>5, ListedFacts
    <3> QED
      BY <2>6, <3>1, Zenon DEF Holds
  <2>9. Carried(n, x)
    BY <2>6, <2>7, <2>8, SMTT(30) DEF Carried, Quiet
  <2> QED
    BY <1>2, <2>9, CarriedTwice DEF n, x
<1> QED
  BY <1>1, <1>3, <1>4

\* reset_with_ami as one call.
LEMMA ResetFacts ==
    ASSUME NEW m, DmOk(m), NEW d \in Listed(m), NEW partition,
           NEW o \in ResetOutcomes(m, d, partition)
    PROVE  Carried(m, o.dm)
<1> DEFINE gone == RemoveDevice(m, d.id)
           bus == UNION {IF r = "OK" THEN BusOutcomes(gone, d.bdf)
                                     ELSE {[ret |-> r, dm |-> gone]} : r \in AmiOutcomes}
<1>1. Carried(m, gone) /\ DmOk(gone)
  BY RemoveFacts DEF Carried
<1>2. PICK b \in bus :
          o \in IF b.ret = "OK" THEN RediscoverOutcomes(b.dm, d.bdf, partition) ELSE {b}
  BY Zenon DEF ResetOutcomes
<1>3. PICK r \in AmiOutcomes : b \in IF r = "OK" THEN BusOutcomes(gone, d.bdf)
                                                 ELSE {[ret |-> r, dm |-> gone]}
  BY <1>2, Zenon
<1> HIDE DEF gone
<1>4. Carried(gone, b.dm)
  <2>1. CASE b \in BusOutcomes(gone, d.bdf)
    BY <1>1, <2>1, BusFacts, SMTT(30)
  <2>2. CASE b = [ret |-> r, dm |-> gone]
    BY <1>1, <2>2, CarriedSame, SMTT(30)
  <2> QED
    BY <1>3, <2>1, <2>2
<1>5. Carried(m, b.dm) /\ DmOk(b.dm)
  BY <1>1, <1>4, CarriedTwice, SMTT(30) DEF Carried
<1>6. CASE o = b
  BY <1>5, <1>6, SMTT(30)
<1>7. CASE o \in RediscoverOutcomes(b.dm, d.bdf, partition)
  <2>1. Carried(b.dm, o.dm)
    BY <1>5, <1>7, RediscoverFacts
  <2> QED
    BY <1>5, <2>1, CarriedTwice, SMTT(30)
<1> QED
  BY <1>2, <1>6, <1>7

\* The handles of a struct go stale: its memory is untouched.
LEMMA StaleFacts ==
    ASSUME NEW m, DmOk(m), NEW d \in Listed(m)
    PROVE  Carried(m, Stale(m, d))
<1> DEFINE b == IF d.bars = "none" THEN "none" ELSE "stale"
           e == [d EXCEPT !.bars = b]
<1>1. d \in Devices
  BY ListedFacts
<1>2. b \in {"fresh", "stale", "none"}
  OBVIOUS
<1> HIDE DEF b
<1>3. e \in Devices /\ Same(d, e) /\ e.writing = d.writing
  BY <1>1, <1>2, SMTT(30) DEF Devices, Same
<1>4. Stale(m, d) = WithDevice(m, e)
  BY Zenon DEF Stale, b
<1> HIDE DEF e
<1> QED
  BY <1>3, <1>4, WithCarried

\* RESCAN and the second half of HOTPLUG: nodes come back and are opened.
LEMMA RescanDiscoverFacts ==
    ASSUME NEW m, DmOk(m), NEW o \in UNION {DiscoverOutcomes(n) : n \in RescanOutcomes(m)}
    PROVE  Carried(m, o.dm)
<1>1. PICK n \in RescanOutcomes(m) : o \in DiscoverOutcomes(n)
  OBVIOUS
<1>2. Carried(m, n) /\ DmOk(n)
  BY RescanFacts DEF Carried
<1>3. Carried(n, o.dm)
  BY <1>1, <1>2, DiscoverFacts, SMTT(30)
<1> QED
  BY <1>2, <1>3, CarriedTwice

\* REMOVE and HOTPLUG of all functions.
LEMMA HotplugAllFacts ==
    ASSUME NEW m, DmOk(m), NEW d \in Listed(m), NEW op, NEW o \in HotplugAllOutcomes(m, d, op)
    PROVE  Carried(m, o.dm)
<1> DEFINE less == RemoveDevice(m, d.id)
           gone == [less EXCEPT !.present = @ \ {d.bdf}]
           back == UNION {DiscoverOutcomes(n) : n \in RescanOutcomes(gone)}
<1>1. Carried(m, less) /\ DmOk(less)
  BY RemoveFacts DEF Carried
<1>2. Carried(m, gone) /\ DmOk(gone)
  <2> HIDE DEF less
  <2>1. Carried(less, gone) /\ DmOk(gone)
    BY <1>1, GoneFacts, Zenon
  <2> HIDE DEF gone
  <2> QED
    BY <1>1, <2>1, CarriedTwice
<1>3. o.dm = m \/ o.dm = less \/ o.dm = gone \/ \E p \in back : o.dm = p.dm
  <2>1. HotplugAllOutcomes(m, d, op) =
            (IF "remove" \notin Faults THEN {}
             ELSE {[ret |-> e, dm |-> x] : e \in HotplugErrors \ {"NOEXIST"}, x \in {m, less}})
            \cup (IF op = "remove" THEN {[ret |-> "OK", dm |-> gone]}
                  ELSE {[ret |-> "OK", dm |-> p.dm] : p \in back}
                         \cup (IF "rescan" \in Faults
                                 THEN {[ret |-> e, dm |-> gone] : e \in HotplugErrors} ELSE {}))
    BY SMTT(30) DEF HotplugAllOutcomes
  <2> HIDE DEF less, gone, back
  <2> QED
    BY <2>1
<1> HIDE DEF less, gone
<1>4. ASSUME NEW p \in back, o.dm = p.dm PROVE Carried(m, o.dm)
  BY <1>2, <1>4, RescanDiscoverFacts, CarriedTwice
<1> QED
  BY <1>1, <1>2, <1>3, <1>4, CarriedSame, SMTT(30)

\* REMOVE, TOGGLE_SBR and HOTPLUG of one function.
LEMMA HotplugOneFacts ==
    ASSUME NEW m, DmOk(m), NEW d \in Listed(m), NEW op, NEW function,
           NEW o \in HotplugOneOutcomes(m, d, op, function)
    PROVE  Carried(m, o.dm)
<1> DEFINE less == RemoveDevice(m, d.id)
           gone == [less EXCEPT !.present = @ \ {d.bdf}]
           ok == CASE op = "remove" -> IF function = 2 THEN gone ELSE less
                   [] op = "toggle_sbr" -> Stale(m, d)
                   [] OTHER -> IF function = 2 THEN Stale(m, d) ELSE m
<1>1. Carried(m, less) /\ DmOk(less)
  BY RemoveFacts DEF Carried
<1>2. Carried(m, gone)
  <2> HIDE DEF less
  <2>1. Carried(less, gone) /\ DmOk(gone)
    BY <1>1, GoneFacts, Zenon
  <2> HIDE DEF gone
  <2> QED
    BY <1>1, <2>1, CarriedTwice
<1>3. o.dm = m \/ o.dm = ok
  <2>1. HotplugOneOutcomes(m, d, op, function) =
            {[ret |-> "OK", dm |-> ok]}
            \cup (IF {"remove", "sbr"} \cap Faults # {}
                    THEN {[ret |-> e, dm |-> x] : e \in HotplugErrors,
                                                  x \in IF op = "remove" THEN {m} ELSE {m, ok}}
                    ELSE {})
    BY DEF HotplugOneOutcomes
  <2> HIDE DEF ok
  <2> QED
    BY <2>1
<1>4. ok \in {gone, less, Stale(m, d), m}
  <2> HIDE DEF gone, less
  <2> QED
    OBVIOUS
<1> HIDE DEF ok, gone, less
<1>5. Carried(m, Stale(m, d)) /\ Carried(m, m)
  BY StaleFacts, CarriedSame
<1> QED
  BY <1>1, <1>2, <1>3, <1>4, <1>5

\* RESCAN.
LEMMA RescanRequestFacts ==
    ASSUME NEW m, DmOk(m), NEW o \in RescanRequestOutcomes(m)
    PROVE  Carried(m, o.dm)
<1> DEFINE back == UNION {DiscoverOutcomes(n) : n \in RescanOutcomes(m)}
<1>1. RescanRequestOutcomes(m) =
          {[ret |-> "OK", dm |-> p.dm] : p \in back}
          \cup (IF "rescan" \in Faults THEN {[ret |-> e, dm |-> m] : e \in HotplugErrors} ELSE {})
  BY Zenon DEF RescanRequestOutcomes
<1> HIDE DEF back
<1>2. o.dm = m \/ \E p \in back : o.dm = p.dm
  BY <1>1
<1>3. ASSUME NEW p \in back PROVE Carried(m, p.dm)
  BY RescanDiscoverFacts DEF back
<1> QED
  BY <1>2, <1>3, CarriedSame

\* device_refresh_pf2_after_design_write: only the handles of the struct change.
LEMMA RefreshFacts ==
    ASSUME NEW m, DmOk(m), NEW d \in Listed(m), NEW o \in RefreshOutcomes(m, d)
    PROVE  Carried(m, o.dm)
<1> DEFINE gone == [m EXCEPT !.present = @ \ {d.bdf}]
           back == RescanOutcomes(gone)
           opens == {"fresh"} \cup (IF "bar" \in Faults THEN {"none"} ELSE {})
<1>0. d \in Devices
  BY ListedFacts
<1>1. Carried(m, gone) /\ Listed(gone) = Listed(m) /\ DmOk(gone)
  BY GoneFacts, Zenon
<1>2. \/ \E n \in back, b \in opens : o.dm = Reopened(n, d, b, TRUE)
      \/ \E n \in back : o.dm = Reopened(n, d, "none", FALSE)
      \/ o.dm = m \/ o.dm = Stale(gone, d)
  <2> DEFINE Ok == UNION {{[ret |-> "OK", dm |-> Reopened(n, d, b, TRUE)] : b \in opens} :
                              n \in {x \in back : d.bdf \in x.present}}
             Failed(n) == [ret |-> "INTERNAL_ERROR", dm |-> Reopened(n, d, "none", FALSE)]
             Half == {Failed(n) : n \in {x \in back : d.bdf \notin x.present \/ "ctl" \in Faults}}
             None == IF "remove" \in Faults
                       THEN {[ret |-> e, dm |-> m] : e \in HotplugErrors} ELSE {}
             Lost == IF "rescan" \in Faults
                       THEN {[ret |-> e, dm |-> Stale(gone, d)] : e \in HotplugErrors} ELSE {}
  <2>1. RefreshOutcomes(m, d) = Ok \cup Half \cup None \cup Lost
    BY DEF RefreshOutcomes
  <2> HIDE DEF back, opens, gone
  <2>2. ASSUME o \in Ok PROVE \E n \in back, b \in opens : o.dm = Reopened(n, d, b, TRUE)
    <3>1. PICK n \in back : o \in {[ret |-> "OK", dm |-> Reopened(n, d, b, TRUE)] : b \in opens}
      BY <2>2, Zenon
    <3>2. PICK b \in opens : o = [ret |-> "OK", dm |-> Reopened(n, d, b, TRUE)]
      BY <3>1, Zenon
    <3>3. o.dm = Reopened(n, d, b, TRUE)
      BY <3>2
    <3> QED
      BY <3>3, Zenon
  <2>3. ASSUME o \in Half PROVE \E n \in back : o.dm = Reopened(n, d, "none", FALSE)
    <3>1. PICK n \in back : o = [ret |-> "INTERNAL_ERROR", dm |-> Reopened(n, d, "none", FALSE)]
      BY <2>3, Zenon
    <3>2. o.dm = Reopened(n, d, "none", FALSE)
      BY <3>1
    <3> QED
      BY <3>2, Zenon
  <2>4. ASSUME o \in None PROVE o.dm = m
    BY <2>4
  <2>5. ASSUME o \in Lost PROVE o.dm = Stale(gone, d)
    BY <2>5
  <2> HIDE DEF Ok, Half, None, Lost
  <2> QED
    BY <2>1, <2>2, <2>3, <2>4, <2>5, Zenon
<1>3. ASSUME NEW n \in back, NEW b \in opens \cup {"none"}, NEW ctl \in BOOLEAN
      PROVE  Carried(m, Reopened(n, d, b, ctl))
  <2> DEFINE e == [d EXCEPT !.bars = b, !.ctl = ctl, !.epoch = @ + 1]
  <2>1. Carried(gone, n) /\ Listed(n) = Listed(gone) /\ DmOk(n)
    <3> HIDE DEF gone
    <3> QED
      BY <1>1, RescanFacts DEF Carried
  <2> HIDE DEF gone, back
  <2>2. e \in Devices /\ Same(d, e) /\ e.writing = d.writing
    <3>1. b \in {"fresh", "stale", "none"}
      OBVIOUS
    <3> HIDE DEF opens
    <3>2. d.epoch + 1 \in Nat
      BY <1>0 DEF Devices
    <3>3. e.id = d.id /\ e.buffers = d.buffers /\ e.map = d.map /\ e.writing = d.writing
      BY <1>0 DEF Devices
    <3>4. e \in Devices
      BY <1>0, <3>1, <3>2, Zenon DEF Devices
    <3> QED
      BY <3>3, <3>4 DEF Same
  <2> HIDE DEF e
  <2>3. Carried(n, WithDevice(n, e))
    BY <1>1, <2>1, <2>2, WithCarried, Zenon
  <2>4. Carried(m, n)
    BY <1>1, <2>1, CarriedTwice
  <2> QED
    BY <2>3, <2>4, CarriedTwice DEF e, Reopened
<1>4. Carried(m, Stale(gone, d))
  <2> HIDE DEF gone
  <2>1. Carried(gone, Stale(gone, d))
    BY <1>1, StaleFacts
  <2> QED
    BY <1>1, <2>1, CarriedTwice
<1> HIDE DEF gone, back, opens
<1> QED
  BY <1>2, <1>3, <1>4, CarriedSame, Zenon

------------------------------------------------------------------------------
(* The memory of the listed devices *)

\* Dropping the buffers of one group of connections and then of another.
LEMMA FreedTwice ==
    ASSUME NEW m, NEW n, NEW p, NEW C, NEW D, Freed(m, n, C), Freed(n, p, D)
    PROVE  Freed(m, p, C \cup D)
<1>1. p.next = m.next
  BY DEF Freed
<1>2. ASSUME NEW f \in Listed(p) PROVE \E d \in Listed(m) : Without(d, f, C \cup D)
  <2>1. PICK e \in Listed(n) : Without(e, f, D)
    BY DEF Freed
  <2>2. PICK d \in Listed(m) : Without(d, e, C)
    BY DEF Freed
  <2>3. f.id = d.id /\ f.writing = d.writing
    BY <2>1, <2>2 DEF Without
  <2>4. ASSUME NEW k \in DOMAIN f.buffers
        PROVE  /\ f.buffers[k].client \notin C \cup D
               /\ \E i \in DOMAIN d.buffers : d.buffers[i] = f.buffers[k]
    <3>1. f.buffers[k].client \notin D
      BY <2>1, SMTT(30) DEF Without
    <3>2. PICK j \in DOMAIN e.buffers : e.buffers[j] = f.buffers[k]
      BY <2>1 DEF Without
    <3>3. e.buffers[j].client \notin C
      BY <2>2 DEF Without
    <3>4. PICK i \in DOMAIN d.buffers : d.buffers[i] = e.buffers[j]
      BY <2>2 DEF Without
    <3> QED
      BY <3>1, <3>2, <3>3, <3>4, SMTT(30)
  <2>5. ASSUME NEW i \in DOMAIN d.buffers, d.buffers[i].client \notin C \cup D
        PROVE  \E k \in DOMAIN f.buffers : f.buffers[k] = d.buffers[i]
    <3>1. PICK j \in DOMAIN e.buffers : e.buffers[j] = d.buffers[i]
      BY <2>2, <2>5 DEF Without
    <3>2. PICK k \in DOMAIN f.buffers : f.buffers[k] = e.buffers[j]
      BY <2>1, <2>5, <3>1 DEF Without
    <3> QED
      BY <3>1, <3>2
  <2> QED
    BY <2>3, <2>4, <2>5, Zenon DEF Without
<1> QED
  BY <1>1, <1>2 DEF Freed

\* cleanup_buffers_for_conn_id on one struct.
LEMMA DropFacts ==
    ASSUME NEW d \in Devices, NEW conn, Accounted(d.map, d.buffers)
    PROVE  LET e == DropBuffersOf(d, conn)
           IN e \in Devices /\ Accounted(e.map, e.buffers) /\ Without(d, e, {conn})
<1> DEFINE e == DropBuffersOf(d, conn)
<1>1. d.map \in [Subregions -> Nat] /\ d.buffers \in Seq(Buffers)
  BY DEF Devices
<1>0. PICK map \in [Subregions -> Nat], t \in Seq(Buffers) : Dropped(d, conn, map, t)
  BY <1>1, AccountedDrop, Zenon
<1>2. /\ e = [d EXCEPT !.map = map, !.buffers = t]
      /\ Accounted(map, t)
      /\ \A k \in DOMAIN t :
            t[k].client # conn /\ \E i \in DOMAIN d.buffers : d.buffers[i] = t[k]
      /\ \A i \in DOMAIN d.buffers :
            d.buffers[i].client # conn => \E k \in DOMAIN t : t[k] = d.buffers[i]
  BY <1>0, Zenon DEF Dropped
<1> HIDE DEF e
<1>3. e \in Devices /\ e.map = map /\ e.buffers = t /\ e.id = d.id /\ e.writing = d.writing
  <2>1. e.map = map /\ e.buffers = t /\ e.id = d.id /\ e.writing = d.writing
    BY <1>2 DEF Devices
  <2>2. e \in Devices
    BY <1>2, Zenon DEF Devices
  <2> QED
    BY <2>1, <2>2
<1>4. Without(d, e, {conn})
  BY <1>2, <1>3, ZenonT(40) DEF Without
<1> QED
  BY <1>2, <1>3, <1>4 DEF e

\* cleanup_buffers_for_conn_id.
LEMMA CleanupForFacts ==
    ASSUME NEW m, DmOk(m), MemoryOk(m), NEW conn, NEW n, n = CleanupBuffersFor(m, conn)
    PROVE  DmOk(n) /\ MemoryOk(n) /\ Freed(m, n, {conn}) /\ n.wizard = m.wizard
<1> DEFINE Drop(d) == DropBuffersOf(d, conn)
           l == [i \in DOMAIN m.list |-> Drop(m.list[i])]
<1>1. m.list \in Seq(Devices) /\ \A i \in DOMAIN m.list : m.list[i] \in Listed(m)
  BY ListedFacts
<1>2. ASSUME NEW d \in Listed(m)
      PROVE  /\ Drop(d) \in Devices /\ Accounted(Drop(d).map, Drop(d).buffers)
             /\ Without(d, Drop(d), {conn})
  BY ListedFacts, DropFacts DEF MemoryOk
<1>3. n = [m EXCEPT !.list = l]
  BY DEF CleanupBuffersFor
<1> HIDE DEF Drop
<1>4. l \in Seq(Devices) /\ DOMAIN l = DOMAIN m.list
  <2>1. Len(m.list) \in Nat /\ DOMAIN m.list = 1..Len(m.list)
    BY <1>1, SMTT(30)
  <2>2. l \in [1..Len(m.list) -> Devices]
    BY <1>1, <1>2, <2>1
  <2> QED
    BY <2>1, <2>2, SMTT(30)
<1>5. \A i \in DOMAIN m.list : l[i] = Drop(m.list[i])
  OBVIOUS
<1> HIDE DEF l
<1>6. /\ n \in [present : SUBSET Boards, list : Seq(Devices), next : Nat, wizard : {n.wizard}]
      /\ n.next = m.next /\ n.wizard = m.wizard /\ Listed(n) = {l[i] : i \in DOMAIN l}
  BY <1>3, <1>4, ListChanged
<1>7. \A e \in Listed(n) : \E d \in Listed(m) : e = Drop(d)
  BY <1>1, <1>4, <1>5, <1>6
<1>8. MemoryOk(n)
  BY <1>2, <1>7 DEF MemoryOk
<1>9. Freed(m, n, {conn})
  BY <1>2, <1>6, <1>7, Zenon DEF Freed
<1>10. \A e \in Listed(n) : \E d \in Listed(m) : e = Drop(d) /\ e.id = d.id
  BY <1>2, <1>7 DEF Without
<1>11. DmOk(n)
  <2>1. \A e \in Listed(n) : e.id < n.next
    BY <1>6, <1>10 DEF DmOk
  <2>2. \A e, f \in Listed(n) : e.id = f.id => e = f
    BY <1>10, SMTT(30) DEF DmOk
  <2> QED
    BY <1>6, <2>1, <2>2 DEF DmOk
<1> QED
  BY <1>6, <1>8, <1>9, <1>11

\* drain_deferred_buffer_cleanups: no buffer of a deferred connection is left.
LEMMA DrainFacts ==
    ASSUME NEW m, DmOk(m), MemoryOk(m), NEW X, NEW conns \in Seq(X)
    PROVE  LET n == DrainCleanups(m, conns)
           IN DmOk(n) /\ MemoryOk(n) /\ Freed(m, n, Range(conns))
<1> DEFINE N == Len(conns)
           D == [present : SUBSET Boards, list : Seq(Devices), next : Nat, wizard : {m.wizard}]
           V == {n \in D : DmOk(n) /\ MemoryOk(n)}
           B(f, n) == IF n = 0 THEN m ELSE CleanupBuffersFor(f[n - 1], conns[n])
           turn == [n \in 1..N |-> [v \in V |-> CleanupBuffersFor(v, conns[n])]]
           after == CHOOSE g : g = [n \in 0..N |-> B(g, n)]
<1>1. N \in Nat /\ m \in V
  BY DEF DmOk
<1>2. \A v \in V : \A c : CleanupBuffersFor(v, c) \in V
  <2> SUFFICES ASSUME NEW v \in V, NEW c PROVE CleanupBuffersFor(v, c) \in V
    OBVIOUS
  <2> DEFINE n == CleanupBuffersFor(v, c)
  <2>1. DmOk(n) /\ MemoryOk(n) /\ n.wizard = v.wizard
    BY CleanupForFacts, Zenon
  <2>2. v.wizard = m.wizard
    OBVIOUS
  <2> HIDE DEF n
  <2>3. n \in D
    BY <2>1, <2>2, SMTT(30) DEF DmOk
  <2> QED
    BY <2>1, <2>3, SMTT(30) DEF n
<1> HIDE DEF D
<1>3. turn \in [1..N -> [V -> V]]
  BY <1>2
<1>4. PICK f \in [0..N -> V] : f[0] = m /\ \A n \in 1..N : f[n] = turn[n][f[n - 1]]
  <2> HIDE DEF N, turn, V
  <2> QED
    BY <1>1, <1>3, Recursion, SMTT(30)
<1>5. ASSUME NEW n \in 0..N PROVE f[n] = B(f, n)
  <2>1. CASE n = 0
    BY <1>4, <2>1
  <2>2. CASE n # 0
    <3>1. n \in 1..N /\ f[n - 1] \in V
      BY <1>1, <2>2
    <3>2. f[n] = turn[n][f[n - 1]]
      <4> HIDE DEF turn, V
      <4> QED
        BY <3>1, <1>4
    <3>3. turn[n][f[n - 1]] = CleanupBuffersFor(f[n - 1], conns[n])
      <4> HIDE DEF V
      <4> QED
        BY <3>1
    <3> QED
      BY <3>2, <3>3, <2>2
  <2> QED
    BY <2>1, <2>2
<1>6. after = [n \in 0..N |-> B(after, n)]
  <2>1. f = [n \in 0..N |-> B(f, n)]
    <3> HIDE DEF B, V
    <3> QED
      BY <1>5
  <2> QED
    BY <2>1, Zenon
<1>7. DrainCleanups(m, conns) = after[N]
  BY Zenon DEF DrainCleanups
<1>8. \A n \in 0..N : after[n] = B(after, n)
  <2> HIDE DEF after, B
  <2> QED
    BY <1>6, SMTT(30)
<1> HIDE DEF after, V
<1> DEFINE T == {n \in 0..N : after[n] \in V /\ Freed(m, after[n], {conns[j] : j \in 1..n})}
<1>9. 0 \in T
  <2>1. 0 \in 0..N /\ after[0] = m
    BY <1>1, <1>8
  <2>2. Freed(m, m, {conns[j] : j \in 1..0})
    <3>1. {conns[j] : j \in 1..0} = {}
      OBVIOUS
    <3> QED
      BY <3>1 DEF Freed, Without
  <2> QED
    BY <1>1, <2>1, <2>2
<1>10. ASSUME NEW n \in 1..N, n - 1 \in T PROVE n \in T
  <2>1. /\ n \in 0..N /\ n # 0 /\ after[n - 1] \in V
        /\ Freed(m, after[n - 1], {conns[j] : j \in 1..(n - 1)})
    BY <1>10
  <2>2. after[n] = CleanupBuffersFor(after[n - 1], conns[n])
    BY <1>8, <2>1
  <2>3. after[n] \in V
    BY <1>2, <2>1, <2>2, SMTT(30)
  <2>4. Freed(after[n - 1], after[n], {conns[n]})
    BY <2>1, <2>2, CleanupForFacts DEF V
  <2>5. {conns[j] : j \in 1..n} = {conns[j] : j \in 1..(n - 1)} \cup {conns[n]}
    BY SMTT(30)
  <2>6. Freed(m, after[n], {conns[j] : j \in 1..n})
    BY <2>1, <2>4, <2>5, FreedTwice
  <2> QED
    BY <2>1, <2>3, <2>6, SMTT(30)
<1>11. N \in T
  <2> HIDE DEF T, N
  <2>1. 0..N \subseteq T
    BY <1>1, <1>9, <1>10, UpTo, Zenon
  <2> QED
    BY <1>1, <2>1
<1>12. Range(conns) = {conns[j] : j \in 1..N}
  BY DEF Range
<1> QED
  BY <1>7, <1>11, <1>12 DEF V

\* Nothing changed.
LEMMA TouchedSame ==
    ASSUME NEW m, DmOk(m), MemoryOk(m), NEW conn
    PROVE  Touched(m, m, conn)
BY Zenon DEF Touched, OnlyOf

\* A struct replaced by one with other memory, in agreement.
LEMMA WithTouched ==
    ASSUME NEW m, DmOk(m), MemoryOk(m), NEW d \in Listed(m), NEW conn,
           NEW map \in [Subregions -> Nat], NEW t \in Seq(Buffers), Accounted(map, t),
           \A k \in DOMAIN t :
              t[k].client = conn \/ \E i \in DOMAIN d.buffers : d.buffers[i] = t[k],
           \A i \in DOMAIN d.buffers :
              d.buffers[i].client = conn \/ \E k \in DOMAIN t : t[k] = d.buffers[i]
    PROVE  Touched(m, WithDevice(m, [d EXCEPT !.map = map, !.buffers = t]), conn)
<1> DEFINE e == [d EXCEPT !.map = map, !.buffers = t]
           n == WithDevice(m, e)
<1>1. d \in Devices
  BY ListedFacts
<1>2. e.map = map /\ e.buffers = t /\ e.id = d.id
  BY <1>1 DEF Devices
<1>3. e \in Devices
  BY <1>1, Zenon DEF Devices
<1> HIDE DEF e
<1>4. DmOk(n) /\ n.next = m.next /\ Listed(n) = (Listed(m) \ {d}) \cup {e}
  BY <1>2, <1>3, WithFacts, SMTT(30)
<1> HIDE DEF n
<1>5. MemoryOk(n)
  BY <1>2, <1>4 DEF MemoryOk
<1>6. OnlyOf(d, e, conn)
  BY <1>2, Zenon DEF OnlyOf
<1>7. \A f \in Listed(m) : OnlyOf(f, f, conn)
  BY Zenon DEF OnlyOf
<1> QED
  BY <1>4, <1>5, <1>6, <1>7, SMTT(30) DEF Touched, n, e

\* buffer_create, also when its queue pairs cannot be started.
LEMMA BufferOpenFacts ==
    ASSUME NEW m, DmOk(m), MemoryOk(m), NEW d \in Listed(m), NEW conn \in Nat \ {0},
           NEW r, r.size \in Nat, r.arg \in Nat, NEW o \in BufferOpenOutcomes(m, d, r, conn)
    PROVE  Touched(m, o.dm, conn)
<1> DEFINE a == Allocate(d.map, r.type, r.size, r.arg, conn)
           q == QpairCount(r.channel)
           b == BufferOf(r.type, conn, a, q)
           more == Append(d.buffers, b)
<1>1. \/ o.dm = m
      \/ /\ a.result \notin {"BAD_ARGUMENT", "NO_MEMORY"}
         /\ \/ o.dm = WithDevice(m, [d EXCEPT !.map = a.map, !.buffers = more])
            \/ o.dm = WithDevice(m, [d EXCEPT !.map = CleanupBuffer(a.map, b)])
  <2>1. CASE a.result \in {"BAD_ARGUMENT", "NO_MEMORY"}
    <3>1. \E x : o = [ret |-> x, dm |-> m, buf |-> "none"]
      BY <2>1, Zenon DEF BufferOpenOutcomes
    <3> QED
      BY <3>1
  <2>2. CASE a.result \notin {"BAD_ARGUMENT", "NO_MEMORY"}
    <3>1. \/ o = [ret |-> "OK", buf |-> b,
                  dm |-> WithDevice(m, [d EXCEPT !.map = a.map, !.buffers = more])]
          \/ o = [ret |-> "INTERNAL_ERROR", buf |-> "none",
                  dm |-> WithDevice(m, [d EXCEPT !.map = CleanupBuffer(a.map, b)])]
      BY <2>2, Zenon DEF BufferOpenOutcomes
    <3> DEFINE u == WithDevice(m, [d EXCEPT !.map = a.map, !.buffers = more])
               v == WithDevice(m, [d EXCEPT !.map = CleanupBuffer(a.map, b)])
    <3>2. o.dm = u \/ o.dm = v
      <4> HIDE DEF u, v, a, b
      <4> QED
        BY <3>1, SMTT(30) DEF u, v
    <3> HIDE DEF a, b
    <3> QED
      BY <2>2, <3>2, Zenon
  <2> QED
    BY <2>1, <2>2, Zenon
<1>2. d \in Devices /\ d.map \in [Subregions -> Nat] /\ d.buffers \in Seq(Buffers)
  BY ListedFacts DEF Devices
<1>3. Accounted(d.map, d.buffers)
  BY SMTT(30) DEF MemoryOk
<1>4. ASSUME a.result \notin {"BAD_ARGUMENT", "NO_MEMORY"}
      PROVE  /\ b \in Buffers /\ b.client = conn /\ Reserved(b) \subseteq Subregions
             /\ \A s \in Reserved(b) : d.map[s] = 0
             /\ a.map = [s \in Subregions |-> IF s \in Reserved(b) THEN conn ELSE d.map[s]]
  <2>1. q \in Nat
    BY DEF QpairCount
  <2> HIDE DEF q
  <2>2. a = Allocate(d.map, r.type, r.size, r.arg, conn) /\ b = BufferOf(r.type, conn, a, q)
    OBVIOUS
  <2> HIDE DEF a, b
  <2> QED
    BY <1>2, <1>4, <2>1, <2>2, OpenedBuffer, SMTT(30)
<1> HIDE DEF a, b
<1>5. ASSUME a.result \notin {"BAD_ARGUMENT", "NO_MEMORY"},
             o.dm = WithDevice(m, [d EXCEPT !.map = a.map, !.buffers = more])
      PROVE  Touched(m, o.dm, conn)
  <2>1. /\ b \in Buffers /\ b.client = conn /\ Reserved(b) \subseteq Subregions
        /\ \A s \in Reserved(b) : d.map[s] = 0
        /\ a.map = [s \in Subregions |-> IF s \in Reserved(b) THEN b.client ELSE d.map[s]]
    BY <1>4, <1>5, SMTT(30)
  <2>2. Accounted(a.map, more) /\ a.map \in [Subregions -> Nat]
    BY <1>2, <1>3, <2>1, AccountedOpen, SMTT(30)
  <2>3. /\ more \in Seq(Buffers) /\ DOMAIN more = 1..(Len(d.buffers) + 1)
        /\ more[Len(d.buffers) + 1] = b /\ DOMAIN d.buffers = 1..Len(d.buffers)
        /\ \A i \in 1..Len(d.buffers) : more[i] = d.buffers[i]
    BY <1>2, <2>1, Appended, SMTT(30)
  <2> HIDE DEF more
  <2>4. \A k \in DOMAIN more :
           more[k].client = conn \/ \E i \in DOMAIN d.buffers : d.buffers[i] = more[k]
    BY <1>2, <2>1, <2>3, SMTT(30)
  <2>5. \A i \in DOMAIN d.buffers :
           d.buffers[i].client = conn \/ \E k \in DOMAIN more : more[k] = d.buffers[i]
    BY <1>2, <2>3
  <2>6. Touched(m, WithDevice(m, [d EXCEPT !.map = a.map, !.buffers = more]), conn)
    <3> DEFINE am == a.map
    <3>1. am \in [Subregions -> Nat] /\ Accounted(am, more) /\ more \in Seq(Buffers)
      BY <2>2, <2>3
    <3> HIDE DEF am
    <3>2. Touched(m, WithDevice(m, [d EXCEPT !.map = am, !.buffers = more]), conn)
      BY <2>4, <2>5, <3>1, WithTouched, Zenon
    <3> QED
      BY <3>2 DEF am
  <2> QED
    BY <1>5, <2>6, Zenon
<1>6. ASSUME a.result \notin {"BAD_ARGUMENT", "NO_MEMORY"},
             o.dm = WithDevice(m, [d EXCEPT !.map = CleanupBuffer(a.map, b)])
      PROVE  Touched(m, o.dm, conn)
  <2>1. /\ b \in Buffers /\ b.client = conn
        /\ \A s \in Reserved(b) : d.map[s] = 0
        /\ a.map = [s \in Subregions |-> IF s \in Reserved(b) THEN conn ELSE d.map[s]]
        /\ Reserved(b) \subseteq Subregions
    BY <1>4, <1>6, SMTT(30)
  <2>2. a.map \in [Subregions -> Nat] /\ \A s \in Reserved(b) : a.map[s] = b.client
    BY <1>2, <2>1, SMTT(30)
  <2>3. CleanupBuffer(a.map, b) = [s \in Subregions |-> IF s \in Reserved(b) THEN 0 ELSE a.map[s]]
    BY <2>1, <2>2, CleanupFacts, SMTT(30)
  <2>4. CleanupBuffer(a.map, b) = d.map
    BY <1>2, <2>1, <2>3
  <2>5. [d EXCEPT !.map = CleanupBuffer(a.map, b)] = d
    BY <1>2, <2>4 DEF Devices
  <2>6. WithDevice(m, d) = WithDevice(m, [d EXCEPT !.map = d.map, !.buffers = d.buffers])
    <3>1. [d EXCEPT !.map = d.map, !.buffers = d.buffers] = d
      BY <1>2, Zenon DEF Devices
    <3> QED
      BY <3>1
  <2>7. Touched(m, WithDevice(m, [d EXCEPT !.map = d.map, !.buffers = d.buffers]), conn)
    BY <1>2, <1>3, WithTouched, Zenon
  <2> QED
    BY <1>6, <2>5, <2>6, <2>7
<1> QED
  BY <1>1, <1>5, <1>6, TouchedSame

\* buffer_create_raw reserves nothing.
LEMMA BufferOpenRawFacts ==
    ASSUME NEW m, DmOk(m), MemoryOk(m), NEW d \in Listed(m), NEW conn \in Nat \ {0},
           NEW r, r.size \in Nat, r.addr \in Nat, NEW o \in BufferOpenRawOutcomes(m, d, r, conn)
    PROVE  Touched(m, o.dm, conn)
<1> DEFINE q == QpairCount(r.channel)
           b == RawBuffer(r.addr, r.size, conn, q)
           more == Append(d.buffers, b)
           u == WithDevice(m, [d EXCEPT !.buffers = more])
<1>1. o.dm = m \/ o.dm = u
  <2>1. \/ o = [ret |-> "OK", buf |-> b, dm |-> u]
        \/ o = [ret |-> "INTERNAL_ERROR", buf |-> "none", dm |-> m]
    BY Zenon DEF BufferOpenRawOutcomes
  <2> HIDE DEF u, b
  <2> QED
    BY <2>1
<1>2. d \in Devices /\ d.map \in [Subregions -> Nat] /\ d.buffers \in Seq(Buffers)
  BY ListedFacts DEF Devices
<1>3. Accounted(d.map, d.buffers)
  BY SMTT(30) DEF MemoryOk
<1>4. b \in Buffers /\ b.client = conn /\ Reserved(b) = {}
  <2>1. q \in Nat
    BY DEF QpairCount
  <2> HIDE DEF q
  <2>2. b = [type |-> "DDR", client |-> conn, addr |-> r.addr, size |-> r.size,
             valid |-> FALSE, qpairs |-> q]
    BY DEF RawBuffer
  <2> HIDE DEF b
  <2> QED
    BY <2>1, <2>2 DEF Buffers, AllocTypes, Reserved
<1> HIDE DEF b
<1>5. Accounted(d.map, more)
  <2> DEFINE new == [s \in Subregions |-> IF s \in Reserved(b) THEN b.client ELSE d.map[s]]
  <2>1. new = d.map
    BY <1>2, <1>4, SMTT(30)
  <2>2. Accounted(new, more)
    BY <1>2, <1>3, <1>4, AccountedOpen, SMTT(30)
  <2> QED
    BY <2>1, <2>2, Zenon
<1>6. /\ more \in Seq(Buffers) /\ DOMAIN more = 1..(Len(d.buffers) + 1)
      /\ more[Len(d.buffers) + 1] = b /\ DOMAIN d.buffers = 1..Len(d.buffers)
      /\ \A i \in 1..Len(d.buffers) : more[i] = d.buffers[i]
  BY <1>2, <1>4, SMTT(30)
<1> HIDE DEF more
<1>7. \A k \in DOMAIN more :
         more[k].client = conn \/ \E i \in DOMAIN d.buffers : d.buffers[i] = more[k]
  BY <1>2, <1>4, <1>6, SMTT(30)
<1>8. \A i \in DOMAIN d.buffers :
         d.buffers[i].client = conn \/ \E k \in DOMAIN more : more[k] = d.buffers[i]
  BY <1>2, <1>6
<1>9. Touched(m, WithDevice(m, [d EXCEPT !.map = d.map, !.buffers = more]), conn)
  BY <1>2, <1>5, <1>6, <1>7, <1>8, WithTouched, Zenon
<1>10. [d EXCEPT !.map = d.map, !.buffers = more] = [d EXCEPT !.buffers = more]
  <2>1. [d EXCEPT !.map = d.map] = d
    BY <1>2 DEF Devices
  <2> QED
    BY <2>1, Zenon
<1> QED
  BY <1>1, <1>9, <1>10, TouchedSame, Zenon

\* buffer_close: the one buffer found is the caller's own.
LEMMA BufferCloseFacts ==
    ASSUME NEW m, DmOk(m), MemoryOk(m), NEW d \in Listed(m), NEW r, NEW conn,
           FindBuffer(d, r, conn) # 0
    PROVE  Touched(m, WithDevice(m, DropBuffer(d, FindBuffer(d, r, conn))), conn)
<1> DEFINE i == FindBuffer(d, r, conn)
           hits == {j \in DOMAIN d.buffers : /\ d.buffers[j].addr = r.addr
                                             /\ d.buffers[j].size = r.size
                                             /\ d.buffers[j].client = conn}
           t == RemoveAt(d.buffers, i)
           new == CleanupBuffer(d.map, d.buffers[i])
<1>1. d \in Devices /\ d.map \in [Subregions -> Nat] /\ d.buffers \in Seq(Buffers)
  BY ListedFacts DEF Devices
<1>2. Accounted(d.map, d.buffers)
  BY DEF MemoryOk
<1>3. DOMAIN d.buffers = 1..Len(d.buffers) /\ Len(d.buffers) \in Nat
  BY <1>1
<1>4. i \in hits
  <2>1. i = IF hits = {} THEN 0 ELSE CHOOSE k \in hits : \A j \in hits : k <= j
    BY Zenon DEF FindBuffer
  <2>2. hits # {} /\ i = CHOOSE k \in hits : \A j \in hits : k <= j
    BY <2>1, Zenon
  <2>3. \E k \in hits : \A j \in hits : k <= j
    <3>1. hits \subseteq Nat
      BY <1>3
    <3> HIDE DEF hits
    <3> QED
      BY <2>2, <3>1, NatLeast, Zenon
  <2> HIDE DEF hits
  <2> QED
    BY <2>2, <2>3, Zenon
<1>5. i \in 1..Len(d.buffers) /\ d.buffers[i].client = conn
  BY <1>3, <1>4, Zenon
<1> HIDE DEF i, hits
<1>6. Accounted(new, t) /\ new \in [Subregions -> Nat]
  BY <1>1, <1>2, <1>5, AccountedClose, Zenon
<1>7. /\ t \in Seq(Buffers) /\ Len(t) = Len(d.buffers) - 1
      /\ \A k \in 1..(Len(d.buffers) - 1) : t[k] = d.buffers[IF k < i THEN k ELSE k + 1]
  BY <1>1, <1>5, RemoveAtFacts, Zenon
<1>8. DropBuffer(d, i) = [d EXCEPT !.map = new, !.buffers = t]
  BY <1>1 DEF DropBuffer, Devices
<1> HIDE DEF new, t
<1>9. DOMAIN t = 1..(Len(d.buffers) - 1)
  BY <1>7
<1>10. \A k \in DOMAIN t : t[k].client = conn \/ \E j \in DOMAIN d.buffers : d.buffers[j] = t[k]
  <2> SUFFICES ASSUME NEW k \in 1..(Len(d.buffers) - 1)
               PROVE  \E j \in 1..Len(d.buffers) : d.buffers[j] = t[k]
    BY <1>3, <1>9, Zenon
  <2>1. (IF k < i THEN k ELSE k + 1) \in 1..Len(d.buffers)
    BY <1>3, <1>5
  <2> QED
    BY <1>7, <2>1
<1>11. \A j \in DOMAIN d.buffers :
          d.buffers[j].client = conn \/ \E k \in DOMAIN t : t[k] = d.buffers[j]
  <2> SUFFICES ASSUME NEW j \in 1..Len(d.buffers), j # i
               PROVE  \E k \in 1..(Len(d.buffers) - 1) : t[k] = d.buffers[j]
    BY <1>3, <1>5, <1>9, Zenon
  <2>1. CASE j < i
    <3>1. j \in 1..(Len(d.buffers) - 1) /\ (IF j < i THEN j ELSE j + 1) = j
      BY <1>3, <1>5, <2>1
    <3> QED
      BY <1>7, <3>1
  <2>2. CASE ~(j < i)
    <3>1. j - 1 \in 1..(Len(d.buffers) - 1) /\ (IF j - 1 < i THEN j - 1 ELSE (j - 1) + 1) = j
      BY <1>3, <1>5, <2>2, SMTT(30)
    <3>2. t[j - 1] = d.buffers[j]
      BY <1>7, <3>1
    <3> QED
      BY <3>1, <3>2
  <2> QED
    BY <2>1, <2>2, Zenon
<1>12. Touched(m, WithDevice(m, [d EXCEPT !.map = new, !.buffers = t]), conn)
  BY <1>6, <1>7, <1>10, <1>11, WithTouched, Zenon
<1> QED
  BY <1>8, <1>12, Zenon DEF i

------------------------------------------------------------------------------
(* The clocking wizard *)

\* The registers of a multiplier or divider decode to what was encoded.
LEMMA CountRound ==
    ASSUME NEW n \in Nat \ {0}
    PROVE  DecodeCount(EncodeCount(n)) = n
<1>1. n \div 2 \in Nat /\ n % 2 \in Nat /\ n = 2 * (n \div 2) + (n % 2)
  OBVIOUS
<1>2. /\ EncodeCount(n).high = n \div 2 /\ EncodeCount(n).low = n \div 2
      /\ EncodeCount(n).edge = n % 2
  BY DEF EncodeCount
<1> QED
  BY <1>1, <1>2 DEF DecodeCount

\* The fields of the leaf divider decode to what was encoded.
LEMMA LeafRound ==
    ASSUME NEW n \in 1..OMax
    PROVE  DecodeLeaf(EncodeLeaf(n)) = n
<1>0. OMax \in Nat
  BY ClockAssumption
<1> DEFINE h == n \div 4
           e == IF n % 4 <= 1 THEN 0 ELSE 1
           p == n % 2
<1>1. h \in Nat /\ p \in Nat /\ e \in Nat /\ n = 4 * h + 2 * e + p
  BY <1>0
<1>2. EncodeLeaf(n) = [high |-> h, low |-> h, edge |-> e, p5en |-> p, prediv |-> 1]
  BY <1>0 DEF EncodeLeaf
<1> HIDE DEF h, e, p
<1>3. /\ EncodeLeaf(n).high = h /\ EncodeLeaf(n).low = h /\ EncodeLeaf(n).edge = e
      /\ EncodeLeaf(n).p5en = p /\ EncodeLeaf(n).prediv = 1
  BY <1>2
<1>4. (1 + 1) * (h + h + e) + 1 * p = n
  BY <1>0, <1>1, SMTT(30)
<1> QED
  BY <1>0, <1>3, <1>4, SMTT(30) DEF DecodeLeaf

\* clock_driver_get_rate_hz reads back the rate of the candidate that was programmed.
LEMMA RateRound ==
    ASSUME NEW c, c.m \in Nat \ {0}, c.d \in Nat \ {0}, c.o \in 1..OMax
    PROVE  RateOf(Program(c)) = Achieved(c)
<1>1. /\ Program(c).m = EncodeCount(c.m) /\ Program(c).d = EncodeCount(c.d)
      /\ Program(c).leaf = EncodeLeaf(c.o)
  BY DEF Program
<1>2. /\ DecodeCount(EncodeCount(c.m)) = c.m /\ DecodeCount(EncodeCount(c.d)) = c.d
      /\ DecodeLeaf(EncodeLeaf(c.o)) = c.o
  BY CountRound, LeafRound, SMTT(30)
<1> QED
  BY <1>1, <1>2, SMTT(30) DEF RateOf, Achieved, Vco

\* Clamping keeps a divider in range.
LEMMA ClampRange ==
    ASSUME NEW o \in Nat
    PROVE  Clamp(o) \in OMin..OMax
BY ClockAssumption, SMTT(30) DEF Clamp

\* Every candidate has a divider the registers can hold.
LEMMA CandidateRange ==
    ASSUME NEW target \in Nat \ {0}, NEW no_exceed, NEW c \in Candidates(target, no_exceed)
    PROVE  /\ c.m \in Nat \ {0} /\ c.d \in Nat \ {0} /\ c.o \in 1..OMax
           /\ no_exceed => Achieved(c) <= target
<1>1. no_exceed => Achieved(c) <= target
  BY Zenon DEF Candidates
<1>2. PICK p \in Pairs :
          c \in {[m |-> p[1], d |-> p[2], o |-> o] : o \in Window(Vco(p[1], p[2]), target)}
  BY Zenon DEF Candidates
<1>3. PICK o \in Window(Vco(p[1], p[2]), target) : c = [m |-> p[1], d |-> p[2], o |-> o]
  BY <1>2, SMTT(30)
<1>4. p[1] \in Nat \ {0} /\ p[2] \in Nat \ {0}
  <2>1. p \in (MMin..MMax) \X (DMin..DMax)
    BY DEF Pairs
  <2> QED
    BY <2>1, ClockAssumption
<1>5. Vco(p[1], p[2]) \in Nat
  BY <1>4, ClockAssumption DEF Vco
<1>6. o \in OMin..OMax
  <2> DEFINE v == Vco(p[1], p[2])
             x == (v + (target \div 2)) \div target
             est == Clamp(x)
             lo == IF est > OWindow THEN Clamp(est - OWindow) ELSE OMin
  <2>0. OWindow \in Nat /\ OMin \in Nat /\ OMax \in Nat /\ OMin <= OMax
    BY ClockAssumption
  <2> HIDE DEF v
  <2>1. x \in Nat
    <3>1. v + (target \div 2) \in Nat
      BY <1>5 DEF v
    <3> QED
      BY <3>1, DivMod
  <2>2. o \in lo..Clamp(est + OWindow)
    BY DEF Window, v
  <2> HIDE DEF x
  <2>3. est \in OMin..OMax
    BY <2>1, ClampRange
  <2> HIDE DEF est
  <2>4. est + OWindow \in Nat /\ (est > OWindow => est - OWindow \in Nat)
    BY <2>0, <2>3
  <2>5. lo \in OMin..OMax /\ Clamp(est + OWindow) \in OMin..OMax
    BY <2>0, <2>4, ClampRange, SMTT(30)
  <2> HIDE DEF lo
  <2> QED
    BY <2>0, <2>2, <2>5, SMTT(30)
<1>7. c.m = p[1] /\ c.d = p[2] /\ c.o = o
  BY <1>3
<1> QED
  BY <1>1, <1>4, <1>6, <1>7, ClockAssumption

\* clock_driver_set_rate_hz_round_down never programs a rate above the target and
\* reports the rate the registers hold.
LEMMA RoundDownFacts ==
    ASSUME NEW regs, NEW target \in Nat, target # 0, NEW o \in SetRateOutcomes(regs, target, TRUE),
           o.ok
    PROVE  RateOf(o.regs) <= target
<1> DEFINE kept == Kept(target, TRUE)
<1>1. PICK c \in kept : o = [ok |-> TRUE, regs |-> Program(c)]
  <2> DEFINE last == {x \in kept : \A b \in kept : ~Better(x, b, target)}
  <2>1. \/ o = [ok |-> FALSE, regs |-> regs]
        \/ \E c \in kept : o = [ok |-> TRUE, regs |-> Program(c)]
        \/ \E c \in last : o = [ok |-> FALSE, regs |-> Program(c)]
    BY Zenon DEF SetRateOutcomes
  <2> HIDE DEF kept, last
  <2> QED
    BY <2>1
<1>2. c \in Candidates(target, TRUE)
  BY Zenon DEF Kept
<1>3. /\ c.m \in Nat \ {0} /\ c.d \in Nat \ {0} /\ c.o \in 1..OMax /\ Achieved(c) <= target
  BY <1>2, CandidateRange, Zenon
<1>4. RateOf(Program(c)) = Achieved(c)
  BY <1>3, RateRound
<1>5. o.regs = Program(c)
  BY <1>1
<1> QED
  BY <1>3, <1>4, <1>5

==============================================================================

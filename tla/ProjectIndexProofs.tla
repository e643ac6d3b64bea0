------------------------- MODULE ProjectIndexProofs -------------------------
(***************************************************************************)
(* Proofs about ProjectIndex and the session it is built in, for every set *)
(* of texts, projects, addresses and limits.                               *)
(***************************************************************************)
EXTENDS ProjectIndex, TLAPS, FiniteSetTheorems, WellFoundedInduction

-----------------------------------------------------------------------------
(* Addresses: the lowest of a set of numbers is one of them.               *)

(* A nonempty set of numbers has a least member.                           *)
LEMMA LeastOf ==
  ASSUME NEW T, T \subseteq Nat, T # {}
  PROVE  \E x \in T : \A y \in T : x <= y
<1> DEFINE R == OpToRel(<, Nat)
<1>1. IsWellFoundedOn(R, Nat)
  BY NatLessThanWellFounded
<1>2. \A x, y \in Nat : x < y => <<x, y>> \in R
  BY DEF OpToRel
<1> HIDE DEF R
<1>3. PICK x \in T : \A y \in T : <<y, x>> \notin R
  BY <1>1, WFMin, Zenon
<1>4. \A y \in T : ~(y < x)
  BY <1>2, <1>3
<1>5. \A y \in T : x <= y
  <2>1. \A y \in T : x \in Nat /\ y \in Nat
    OBVIOUS
  <2> QED BY <1>4, <2>1
<1> QED BY <1>5

LEMMA MinIn ==
  ASSUME NEW T, T \subseteq Nat, T # {}
  PROVE  Min(T) \in T
BY LeastOf, Zenon DEF Min

-----------------------------------------------------------------------------
(* The arena: FlattenSeq chooses the sequence of all trees in its blocks.  *)

IsFlat(s, f, n) ==
  f = [i \in 1 .. n |-> IF i = 1 THEN s[i] ELSE f[i - 1] \o s[i]]

LEMMA FlatLaw ==
  ASSUME NEW s, NEW f, NEW n \in Nat, IsFlat(s, f, n)
  PROVE  \A i \in 1 .. n :
           /\ i = 1 => f[i] = s[i]
           /\ i # 1 => f[i] = f[i - 1] \o s[i]
<1> SUFFICES ASSUME NEW i \in 1 .. n
             PROVE  /\ i = 1 => f[i] = s[i]
                    /\ i # 1 => f[i] = f[i - 1] \o s[i]
  OBVIOUS
<1>1. f[i] = IF i = 1 THEN s[i] ELSE f[i - 1] \o s[i]
  BY Zenon DEF IsFlat
<1> QED BY <1>1

LEMMA FlatExists ==
  ASSUME NEW s, NEW n \in Nat
  PROVE  \E f : IsFlat(s, f, n)
<1> DEFINE T == {k \in Nat : ~ \E f : IsFlat(s, f, k)}
<1> SUFFICES ASSUME T # {}
             PROVE  FALSE
  OBVIOUS
<1>1. PICK k \in T : \A y \in T : k <= y
  <2> HIDE DEF T
  <2> QED BY LeastOf DEF T
<1>2. k # 0
  <2>1. IsFlat(s, [i \in 1 .. 0 |-> 0], 0)
    BY DEF IsFlat
  <2> QED BY <2>1
<1>3. k - 1 \in Nat /\ k - 1 \notin T
  BY <1>1, <1>2
<1>4. PICK g : IsFlat(s, g, k - 1)
  BY <1>3
<1> DEFINE f == [i \in 1 .. k |->
                   IF i < k THEN g[i] ELSE IF k = 1 THEN s[k] ELSE g[k - 1] \o s[k]]
<1>5. \A i \in 1 .. k - 1 : f[i] = g[i]
  BY <1>1, <1>2
<1>6. f[k] = IF k = 1 THEN s[k] ELSE g[k - 1] \o s[k]
  BY <1>1, <1>2
<1>7. f = [i \in 1 .. k |-> f[i]]
  OBVIOUS
<1> HIDE DEF f
<1>8. ASSUME NEW i \in 1 .. k
      PROVE  f[i] = IF i = 1 THEN s[i] ELSE f[i - 1] \o s[i]
  <2>1. CASE i = k
    BY <1>1, <1>5, <1>6, <2>1
  <2>2. CASE i # k
    <3>1. i \in 1 .. k - 1 /\ (i # 1 => i - 1 \in 1 .. k - 1)
      BY <1>1, <2>2
    <3>2. /\ i = 1 => g[i] = s[i]
          /\ i # 1 => g[i] = g[i - 1] \o s[i]
      BY <1>3, <1>4, <3>1, FlatLaw
    <3> QED BY <1>5, <3>1, <3>2
  <2> QED BY <2>1, <2>2
<1>9. f = [i \in 1 .. k |-> IF i = 1 THEN s[i] ELSE f[i - 1] \o s[i]]
  BY <1>7, <1>8
<1>10. IsFlat(s, f, k)
  BY <1>9 DEF IsFlat
<1> QED BY <1>10

Agree(s, t, n) == \A i \in 1 .. n : s[i] = t[i]

LEMMA FlatSame ==
  ASSUME NEW s, NEW t, NEW f, NEW g, NEW n \in Nat, NEW m \in Nat, m <= n,
         IsFlat(s, f, n), IsFlat(t, g, m), Agree(s, t, m)
  PROVE  Agree(f, g, m)
<1> DEFINE T == {k \in 1 .. m : f[k] # g[k]}
<1> SUFFICES ASSUME T # {}
             PROVE  FALSE
  BY DEF Agree
<1>1. PICK k \in T : \A y \in T : k <= y
  <2>1. T \subseteq Nat
    OBVIOUS
  <2> HIDE DEF T
  <2> QED BY <2>1, LeastOf
<1>2. k \in 1 .. n /\ k \in 1 .. m /\ k \in Nat
  OBVIOUS
<1>3. /\ k = 1 => f[k] = s[k]
      /\ k # 1 => f[k] = f[k - 1] \o s[k]
  BY <1>2, FlatLaw
<1>4. /\ k = 1 => g[k] = t[k]
      /\ k # 1 => g[k] = g[k - 1] \o t[k]
  BY <1>2, FlatLaw
<1>5. k # 1 => f[k - 1] = g[k - 1]
  BY <1>1, <1>2
<1>6. s[k] = t[k]
  BY <1>2 DEF Agree
<1>7. f[k] = g[k]
  BY <1>3, <1>4, <1>5, <1>6
<1> QED BY <1>7

LEMMA FlattenIs ==
  ASSUME NEW s, Len(s) \in Nat, Len(s) # 0
  PROVE  \E f : IsFlat(s, f, Len(s)) /\ FlattenSeq(s) = f[Len(s)]
<1> DEFINE f == CHOOSE f : IsFlat(s, f, Len(s))
<1>1. IsFlat(s, f, Len(s))
  BY FlatExists, Zenon
<1>2. FlattenSeq(s) = f[Len(s)]
  BY Zenon DEF FlattenSeq, IsFlat
<1> QED BY <1>1, <1>2

LEMMA FlattenEmpty == FlattenSeq(<<>>) = <<>>
BY DEF FlattenSeq

(* The trees of a sequence are those before its last block and its own.    *)
LEMMA FlattenGrows ==
  ASSUME NEW s, NEW t, Len(s) \in Nat, Len(t) = Len(s) + 1, Len(s) # 0,
         Agree(t, s, Len(s))
  PROVE  FlattenSeq(t) = FlattenSeq(s) \o t[Len(t)]
<1>1. PICK f : IsFlat(s, f, Len(s)) /\ FlattenSeq(s) = f[Len(s)]
  BY FlattenIs
<1>2. PICK g : IsFlat(t, g, Len(t)) /\ FlattenSeq(t) = g[Len(t)]
  BY FlattenIs
<1>3. Agree(g, f, Len(s))
  BY <1>1, <1>2, FlatSame
<1>4. Len(t) \in 1 .. Len(t) /\ Len(t) \in Nat /\ Len(t) # 1 /\ Len(t) - 1 = Len(s)
  OBVIOUS
<1>5. g[Len(t)] = g[Len(t) - 1] \o t[Len(t)]
  BY <1>2, <1>4, FlatLaw
<1>6. Len(s) \in 1 .. Len(s)
  OBVIOUS
<1> QED BY <1>1, <1>2, <1>3, <1>4, <1>5, <1>6 DEF Agree

LEMMA FlattenFirst ==
  ASSUME NEW t, Len(t) = 1
  PROVE  FlattenSeq(t) = t[1]
<1>1. Len(t) \in Nat /\ Len(t) # 0 /\ 1 \in 1 .. Len(t)
  OBVIOUS
<1>2. PICK g : IsFlat(t, g, Len(t)) /\ FlattenSeq(t) = g[Len(t)]
  BY <1>1, FlattenIs, Zenon
<1>3. g[1] = t[1]
  BY <1>1, <1>2, FlatLaw, Zenon
<1> QED BY <1>2, <1>3

(* The trees are trees.                                                    *)
LEMMA FlattenType ==
  ASSUME NEW s \in Seq(Seq(Nat))
  PROVE  FlattenSeq(s) \in Seq(Nat)
<1>1. CASE Len(s) = 0
  <2>1. s = <<>> /\ <<>> \in Seq(Nat)
    BY <1>1
  <2> QED BY <2>1, FlattenEmpty
<1>2. CASE Len(s) # 0
  <2>1. Len(s) \in Nat /\ \A i \in 1 .. Len(s) : s[i] \in Seq(Nat)
    OBVIOUS
  <2>2. PICK f : IsFlat(s, f, Len(s)) /\ FlattenSeq(s) = f[Len(s)]
    BY <1>2, <2>1, FlattenIs
  <2> DEFINE T == {k \in 1 .. Len(s) : f[k] \notin Seq(Nat)}
  <2>3. T = {}
    <3> SUFFICES ASSUME T # {}
                 PROVE  FALSE
      OBVIOUS
    <3>1. PICK k \in T : \A y \in T : k <= y
      <4>1. T \subseteq Nat
        BY <2>1
      <4> HIDE DEF T
      <4> QED BY <4>1, LeastOf
    <3>2. /\ k = 1 => f[k] = s[k]
          /\ k # 1 => f[k] = f[k - 1] \o s[k]
      <4>1. k \in 1 .. Len(s)
        OBVIOUS
      <4> QED BY <2>1, <2>2, <4>1, FlatLaw
    <3>3. k # 1 => f[k - 1] \in Seq(Nat)
      BY <2>1, <3>1
    <3>4. s[k] \in Seq(Nat)
      BY <2>1
    <3>5. f[k] \in Seq(Nat)
      <4>1. CASE k = 1
        BY <3>2, <3>4, <4>1
      <4>2. CASE k # 1
        <5> DEFINE u == f[k - 1]
                   v == s[k]
        <5>1. u \in Seq(Nat) /\ v \in Seq(Nat)
          BY <3>3, <3>4, <4>2
        <5>2. f[k] = u \o v
          BY <3>2, <4>2
        <5> HIDE DEF u, v
        <5>3. u \o v \in Seq(Nat)
          BY <5>1
        <5> QED BY <5>2, <5>3
      <4> QED BY <4>1, <4>2
    <3> QED BY <3>5
  <2>4. Len(s) \in 1 .. Len(s)
    BY <1>2, <2>1
  <2> QED BY <2>2, <2>3, <2>4
<1> QED BY <1>1, <1>2

LEMMA FlattenAppend ==
  ASSUME NEW s \in Seq(Seq(Nat)), NEW x \in Seq(Nat)
  PROVE  FlattenSeq(Append(s, x)) = FlattenSeq(s) \o x
<1> DEFINE t == Append(s, x)
<1>1. /\ Len(s) \in Nat /\ Len(t) = Len(s) + 1 /\ t[Len(t)] = x
      /\ Agree(t, s, Len(s))
  BY DEF Agree
<1>2. CASE Len(s) = 0
  <2>1. s = <<>> /\ <<>> \o x = x
    BY <1>2
  <2> QED BY <1>1, <1>2, <2>1, FlattenFirst, FlattenEmpty
<1>3. CASE Len(s) # 0
  <2> HIDE DEF t
  <2>1. FlattenSeq(t) = FlattenSeq(s) \o x
    BY <1>1, <1>3, FlattenGrows
  <2> QED BY <2>1 DEF t
<1> QED BY <1>2, <1>3

LEMMA SameSeq ==
  ASSUME NEW S, NEW s \in Seq(S), NEW t \in Seq(S), Len(s) = Len(t),
         \A i \in 1 .. Len(s) : s[i] = t[i]
  PROVE  s = t
OBVIOUS

LEMMA AppendFacts ==
  ASSUME NEW S, NEW s \in Seq(S), NEW x \in S
  PROVE  /\ Append(s, x) \in Seq(S) /\ Len(Append(s, x)) = Len(s) + 1 /\ Len(s) \in Nat
         /\ Append(s, x)[Len(s) + 1] = x
         /\ \A k \in 1 .. Len(s) : Append(s, x)[k] = s[k]
         /\ DOMAIN Append(s, x) = 1 .. Len(s) + 1
OBVIOUS

LEMMA ExceptFacts ==
  ASSUME NEW S, NEW s \in Seq(S), NEW x \in S, NEW n \in 1 .. Len(s)
  PROVE  /\ [s EXCEPT ![n] = x] \in Seq(S) /\ Len([s EXCEPT ![n] = x]) = Len(s)
         /\ Len(s) \in Nat /\ DOMAIN [s EXCEPT ![n] = x] = 1 .. Len(s)
         /\ [s EXCEPT ![n] = x][n] = x
         /\ \A k \in 1 .. Len(s) : k # n => [s EXCEPT ![n] = x][k] = s[k]
OBVIOUS

LEMMA SubSeqFacts ==
  ASSUME NEW S, NEW s \in Seq(S), NEW n \in 0 .. Len(s)
  PROVE  /\ SubSeq(s, 1, n) \in Seq(S) /\ Len(SubSeq(s, 1, n)) = n /\ n \in Nat
         /\ \A k \in 1 .. n : SubSeq(s, 1, n)[k] = s[k]
OBVIOUS

LEMMA SplitLast ==
  ASSUME NEW S, NEW s \in Seq(S), Len(s) # 0, NEW x \in S
  PROVE  /\ SubSeq(s, 1, Len(s) - 1) \in Seq(S)
         /\ s = Append(SubSeq(s, 1, Len(s) - 1), s[Len(s)])
         /\ [s EXCEPT ![Len(s)] = x] = Append(SubSeq(s, 1, Len(s) - 1), x)
         /\ s[Len(s)] \in S
<1> DEFINE n == Len(s)
           front == SubSeq(s, 1, n - 1)
           u == Append(front, s[n])
           v == Append(front, x)
           w == [s EXCEPT ![n] = x]
<1>1. n \in Nat /\ n # 0 /\ n \in 1 .. n /\ n - 1 \in 0 .. n
  OBVIOUS
<1>2. s[n] \in S
  BY <1>1
<1>3. front \in Seq(S) /\ Len(front) = n - 1 /\ \A k \in 1 .. n - 1 : front[k] = s[k]
  BY <1>1, SubSeqFacts
<1>4. /\ u \in Seq(S) /\ Len(u) = n /\ u[n] = s[n]
      /\ \A k \in 1 .. n - 1 : u[k] = s[k]
  <2> HIDE DEF front
  <2>1. /\ u \in Seq(S) /\ Len(u) = Len(front) + 1 /\ u[Len(front) + 1] = s[n]
        /\ \A k \in 1 .. Len(front) : u[k] = front[k]
    BY <1>2, <1>3, AppendFacts
  <2> QED BY <1>1, <1>3, <2>1
<1>5. /\ v \in Seq(S) /\ Len(v) = n /\ v[n] = x
      /\ \A k \in 1 .. n - 1 : v[k] = s[k]
  <2> HIDE DEF front
  <2>1. /\ v \in Seq(S) /\ Len(v) = Len(front) + 1 /\ v[Len(front) + 1] = x
        /\ \A k \in 1 .. Len(front) : v[k] = front[k]
    BY <1>3, AppendFacts
  <2> QED BY <1>1, <1>3, <2>1
<1>6. /\ w \in Seq(S) /\ Len(w) = n /\ w[n] = x
      /\ \A k \in 1 .. n : k # n => w[k] = s[k]
  BY <1>1, ExceptFacts
<1> HIDE DEF u, v, w
<1>7. s = u
  <2>1. \A k \in 1 .. n : s[k] = u[k]
    BY <1>1, <1>4
  <2> QED BY <1>4, <2>1, SameSeq
<1>8. w = v
  <2>1. \A k \in 1 .. n : w[k] = v[k]
    BY <1>1, <1>5, <1>6
  <2> QED BY <1>5, <1>6, <2>1, SameSeq
<1> QED BY <1>2, <1>3, <1>7, <1>8 DEF u, v, w

LEMMA Assoc ==
  \A u, v, w \in Seq(Nat) : u \o (v \o w) = (u \o v) \o w
<1> DEFINE S == Nat
<1>1. \A u, v, w \in Seq(S) : u \o (v \o w) = (u \o v) \o w
  <2> HIDE DEF S
  <2> QED OBVIOUS
<1> QED BY <1>1

(* Blocks, and checkpoints of them.                                        *)
Arena(a) ==
  a \in Seq(Seq(Nat)) /\ \A b \in DOMAIN a : Len(a[b]) \in 1 .. BlockSize

MarkOf(a, m) ==
  /\ m.block \in 0 .. Len(a)
  /\ m.block # 0 => m.used \in 1 .. Len(a[m.block])

LEMMA ArenaParts ==
  ASSUME NEW a, Arena(a)
  PROVE  /\ Len(a) \in Nat /\ DOMAIN a = 1 .. Len(a)
         /\ \A b \in 1 .. Len(a) : /\ a[b] \in Seq(Nat) /\ Len(a[b]) \in 1 .. BlockSize
                                   /\ Len(a[b]) \in Nat /\ DOMAIN a[b] = 1 .. Len(a[b])
<1>1. a \in Seq(Seq(Nat))
  BY DEF Arena
<1>2. Len(a) \in Nat /\ DOMAIN a = 1 .. Len(a) /\ \A b \in 1 .. Len(a) : a[b] \in Seq(Nat)
  BY <1>1
<1>3. \A b \in 1 .. Len(a) : Len(a[b]) \in Nat /\ DOMAIN a[b] = 1 .. Len(a[b])
  BY <1>2
<1> QED BY <1>2, <1>3 DEF Arena

LEMMA NoBlocksArena == Arena(NoBlocks) /\ Len(NoBlocks) = 0 /\ Trees(NoBlocks) = <<>>
BY FlattenEmpty DEF Arena, NoBlocks, Trees

(* What allocating a tree does: a block more, or a tree more in the last.  *)
Grown(a, b, t) ==
  /\ Arena(b) /\ Trees(b) = Trees(a) \o <<t>>
  /\ Len(b) >= Len(a)
  /\ \A k \in 1 .. Len(a) :
       /\ Len(b[k]) >= Len(a[k])
       /\ k # Len(a) => b[k] = a[k]
       /\ \A i \in 1 .. Len(a[k]) : b[k][i] = a[k][i]

LEMMA AllocNew ==
  ASSUME NEW a, Arena(a), NEW t \in Nat
  PROVE  Grown(a, Append(a, <<t>>), t)
<1> DEFINE b == Append(a, <<t>>)
           S == Seq(Nat)
<1>1. a \in Seq(S) /\ <<t>> \in S /\ Len(<<t>>) = 1 /\ 1 \in 1 .. BlockSize
  BY BlockSizeAssumption DEF Arena
<1>2. /\ b \in Seq(S) /\ Len(b) = Len(a) + 1 /\ b[Len(a) + 1] = <<t>> /\ Len(a) \in Nat
      /\ \A k \in 1 .. Len(a) : b[k] = a[k]
      /\ DOMAIN b = 1 .. Len(a) + 1
  <2> HIDE DEF S
  <2> QED BY <1>1, AppendFacts
<1>3. Trees(b) = Trees(a) \o <<t>>
  BY <1>1, FlattenAppend DEF Trees
<1> HIDE DEF b
<1>4. \A k \in DOMAIN b : Len(b[k]) \in 1 .. BlockSize
  <2> SUFFICES ASSUME NEW k \in 1 .. Len(a) + 1
               PROVE  Len(b[k]) \in 1 .. BlockSize
    BY <1>2
  <2>1. CASE k = Len(a) + 1
    BY <1>1, <1>2, <2>1
  <2>2. CASE k # Len(a) + 1
    <3>1. k \in 1 .. Len(a)
      BY <1>2, <2>2
    <3> QED BY <1>2, <3>1, ArenaParts
  <2> QED BY <2>1, <2>2
<1>5. Arena(b)
  BY <1>2, <1>4 DEF Arena
<1>6. \A k \in 1 .. Len(a) : b[k] = a[k] /\ Len(a[k]) \in Nat
  BY <1>2, ArenaParts
<1>7. Grown(a, b, t)
  BY <1>2, <1>3, <1>5, <1>6 DEF Grown
<1> QED BY <1>7 DEF b

LEMMA AllocSame ==
  ASSUME NEW a, Arena(a), NEW t \in Nat, Len(a) # 0, Len(a[Len(a)]) < BlockSize
  PROVE  Grown(a, [a EXCEPT ![Len(a)] = Append(@, t)], t)
<1> DEFINE n == Len(a)
           x == Append(a[n], t)
           b == [a EXCEPT ![n] = x]
           S == Seq(Nat)
           front == SubSeq(a, 1, n - 1)
<1>1. n \in Nat /\ n \in 1 .. n /\ n # 0 /\ DOMAIN a = 1 .. n
  BY ArenaParts
<1>2. a[n] \in Seq(Nat) /\ Len(a[n]) \in Nat /\ Len(a[n]) < BlockSize
  BY <1>1, ArenaParts
<1>3. /\ x \in Seq(Nat) /\ Len(x) = Len(a[n]) + 1
      /\ \A i \in 1 .. Len(a[n]) : x[i] = a[n][i]
  BY <1>2, AppendFacts
<1>4. x = a[n] \o <<t>> /\ <<t>> \in Seq(Nat)
  BY <1>2
<1>5. Len(x) \in 1 .. BlockSize
  BY <1>2, <1>3, BlockSizeAssumption
<1> HIDE DEF x
<1>6. a \in Seq(S) /\ x \in S
  BY <1>3 DEF Arena
<1>7. /\ b \in Seq(S) /\ Len(b) = n /\ b[n] = x /\ DOMAIN b = 1 .. n
      /\ \A k \in 1 .. n : k # n => b[k] = a[k]
  <2> HIDE DEF S
  <2> QED BY <1>1, <1>6, ExceptFacts
<1>8. /\ front \in Seq(S) /\ a = Append(front, a[n]) /\ b = Append(front, x)
  <2> HIDE DEF S
  <2> QED BY <1>1, <1>6, SplitLast
<1> HIDE DEF b, front
<1>9. Trees(b) = Trees(a) \o <<t>>
  <2>1. Trees(a) = FlattenSeq(front) \o a[n] /\ Trees(b) = FlattenSeq(front) \o x
    BY <1>2, <1>3, <1>8, FlattenAppend DEF Trees
  <2>2. FlattenSeq(front) \in Seq(Nat)
    BY <1>8, FlattenType
  <2> DEFINE u == FlattenSeq(front)
             v == a[n]
             w == <<t>>
  <2>3. u \in Seq(Nat) /\ v \in Seq(Nat) /\ w \in Seq(Nat)
    BY <1>2, <1>4, <2>2
  <2>4. Trees(a) = u \o v /\ Trees(b) = u \o (v \o w)
    BY <1>4, <2>1
  <2> HIDE DEF u, v, w
  <2>5. u \o (v \o w) = (u \o v) \o w
    BY <2>3, Assoc, Zenon
  <2>6. Trees(b) = Trees(a) \o w
    BY <2>4, <2>5, Zenon
  <2> QED BY <2>6 DEF w
<1>10. \A k \in 1 .. n : a[k] \in Seq(Nat) /\ Len(a[k]) \in Nat /\ Len(a[k]) \in 1 .. BlockSize
  BY ArenaParts
<1>11. Arena(b)
  <2>1. \A k \in DOMAIN b : Len(b[k]) \in 1 .. BlockSize
    BY <1>5, <1>7, <1>10
  <2> QED BY <1>7, <2>1 DEF Arena
<1>12. ASSUME NEW k \in 1 .. n
       PROVE  /\ Len(b[k]) >= Len(a[k])
              /\ k # n => b[k] = a[k]
              /\ \A i \in 1 .. Len(a[k]) : b[k][i] = a[k][i]
  <2>1. CASE k = n
    <3>1. b[k] = x /\ a[k] = a[n]
      BY <1>7, <2>1
    <3>2. Len(x) >= Len(a[n])
      BY <1>2, <1>3
    <3> QED BY <1>3, <2>1, <3>1, <3>2
  <2>2. CASE k # n
    <3>1. b[k] = a[k]
      BY <1>7, <2>2
    <3>2. Len(a[k]) \in Nat
      BY <1>10
    <3> QED BY <3>1, <3>2
  <2> QED BY <2>1, <2>2
<1>13. \A k \in 1 .. Len(a) :
         /\ Len(b[k]) >= Len(a[k])
         /\ k # Len(a) => b[k] = a[k]
         /\ \A i \in 1 .. Len(a[k]) : b[k][i] = a[k][i]
  BY <1>12
<1>14. Len(b) >= Len(a)
  <2>1. Len(b) = Len(a) /\ Len(a) \in Nat
    BY <1>1, <1>7
  <2> QED BY <2>1
<1> HIDE DEF n
<1>15. Grown(a, b, t)
  BY <1>9, <1>11, <1>13, <1>14, Zenon DEF Grown
<1> QED BY <1>15 DEF b, x, n

LEMMA AllocGrows ==
  ASSUME NEW a, Arena(a), NEW t \in Nat
  PROVE  Grown(a, Alloc(a, t), t)
<1>1. CASE a = NoBlocks \/ Len(Last(a)) >= BlockSize
  BY <1>1, AllocNew DEF Alloc
<1>2. CASE ~(a = NoBlocks \/ Len(Last(a)) >= BlockSize)
  <2>1. Len(a) \in Nat /\ Len(a) # 0
    <3>1. a \in Seq(Seq(Nat)) /\ a # <<>>
      BY <1>2 DEF Arena, NoBlocks
    <3> QED BY <3>1
  <2>2. Len(a[Len(a)]) \in Nat
    BY <2>1, ArenaParts
  <2>3. Len(a[Len(a)]) < BlockSize
    BY <1>2, <2>2, BlockSizeAssumption DEF Last
  <2> QED BY <1>2, <2>1, <2>3, AllocSame DEF Alloc
<1> QED BY <1>1, <1>2

LEMMA MarkIs ==
  ASSUME NEW a, Arena(a)
  PROVE  /\ MarkOf(a, Mark(a)) /\ Mark(a) \in [block : Nat, used : Nat]
         /\ RolledBack(a, Mark(a)) = a
<1>1. a \in Seq(Seq(Nat)) /\ Len(a) \in Nat
  BY ArenaParts DEF Arena
<1>2. CASE a = NoBlocks
  BY <1>2 DEF Mark, MarkOf, RolledBack, NoBlocks
<1>3. CASE a # NoBlocks
  <2>1. Len(a) # 0
    BY <1>1, <1>3 DEF NoBlocks
  <2>2. /\ Len(a) \in 1 .. Len(a) /\ a[Len(a)] \in Seq(Nat) /\ Len(a[Len(a)]) \in Nat
        /\ Len(a[Len(a)]) >= 1
    BY <1>1, <2>1, ArenaParts
  <2>3. Mark(a).block = Len(a) /\ Mark(a).used = Len(a[Len(a)])
    BY <1>3 DEF Mark, Last
  <2>4. MarkOf(a, Mark(a)) /\ Mark(a) \in [block : Nat, used : Nat]
    BY <1>1, <1>3, <2>2, <2>3 DEF MarkOf, Mark, Last
  <2>5. SubSeq(a, 1, Len(a)) = a /\ SubSeq(a[Len(a)], 1, Len(a[Len(a)])) = a[Len(a)]
    BY <1>1, <2>2
  <2>6. [a EXCEPT ![Len(a)] = a[Len(a)]] = a
    BY <1>1, <2>2
  <2>7. RolledBack(a, Mark(a))
          = [a EXCEPT ![Len(a)] = SubSeq(a[Len(a)], 1, Len(a[Len(a)]))]
    BY <2>1, <2>3, <2>5 DEF RolledBack
  <2> QED BY <2>4, <2>5, <2>6, <2>7
<1> QED BY <1>2, <1>3

(* A block cut to a checkpoint.                                            *)
LEMMA MarkStays ==
  ASSUME NEW a, Arena(a), NEW b, NEW t, Grown(a, b, t), NEW m, MarkOf(a, m)
  PROVE  MarkOf(b, m) /\ RolledBack(b, m) = RolledBack(a, m)
<1> DEFINE S == Seq(Nat)
           n == m.block
<1>1. Arena(b) /\ a \in Seq(S) /\ b \in Seq(S)
  BY DEF Grown, Arena
<1>2. Len(a) \in Nat /\ Len(b) \in Nat /\ Len(b) >= Len(a) /\ n \in 0 .. Len(a) /\ n \in 0 .. Len(b)
  BY <1>1, ArenaParts DEF Grown, MarkOf
<1>3. CASE n = 0
  BY <1>2, <1>3 DEF MarkOf, RolledBack
<1>4. CASE n # 0
  <2>1. n \in 1 .. Len(a) /\ n \in 1 .. Len(b) /\ m.used \in 1 .. Len(a[n]) /\ n \in Nat
    BY <1>2, <1>4 DEF MarkOf
  <2>2. /\ a[n] \in S /\ b[n] \in S /\ Len(a[n]) \in Nat /\ Len(b[n]) \in Nat
        /\ Len(b[n]) >= Len(a[n])
        /\ \A i \in 1 .. Len(a[n]) : b[n][i] = a[n][i]
    BY <1>1, <2>1, ArenaParts DEF Grown
  <2>3. m.used \in 0 .. Len(a[n]) /\ m.used \in 0 .. Len(b[n]) /\ m.used \in Nat
        /\ m.used \in 1 .. Len(b[n])
    BY <2>1, <2>2
  <2>4. MarkOf(b, m)
    BY <1>2, <2>3 DEF MarkOf
  <2> DEFINE x == SubSeq(a[n], 1, m.used)
             y == SubSeq(b[n], 1, m.used)
  <2>5. x = y /\ x \in S
    <3>1. /\ x \in Seq(Nat) /\ Len(x) = m.used
          /\ \A i \in 1 .. m.used : x[i] = a[n][i]
      BY <2>2, <2>3, SubSeqFacts
    <3>2. /\ y \in Seq(Nat) /\ Len(y) = m.used
          /\ \A i \in 1 .. m.used : y[i] = b[n][i]
      BY <2>2, <2>3, SubSeqFacts
    <3> HIDE DEF x, y
    <3>3. \A i \in 1 .. m.used : i \in 1 .. Len(a[n])
      BY <2>2, <2>3
    <3>4. \A i \in 1 .. Len(x) : x[i] = y[i]
      BY <2>2, <3>1, <3>2, <3>3
    <3>5. x = y
      BY <3>1, <3>2, <3>4, SameSeq
    <3> QED BY <3>1, <3>5
  <2> DEFINE f == SubSeq(a, 1, n)
             g == SubSeq(b, 1, n)
  <2> HIDE DEF S, x, y
  <2>6. /\ f \in Seq(S) /\ Len(f) = n /\ \A k \in 1 .. n : f[k] = a[k]
    BY <1>1, <1>2, SubSeqFacts
  <2>7. /\ g \in Seq(S) /\ Len(g) = n /\ \A k \in 1 .. n : g[k] = b[k]
    BY <1>1, <1>2, SubSeqFacts
  <2>8. RolledBack(a, m) = [f EXCEPT ![n] = x] /\ RolledBack(b, m) = [g EXCEPT ![n] = y]
    <3>1. f[n] = a[n] /\ g[n] = b[n]
      BY <2>1, <2>6, <2>7
    <3> QED BY <1>4, <3>1 DEF RolledBack, x, y
  <2> HIDE DEF f, g
  <2> DEFINE u == [f EXCEPT ![n] = x]
             v == [g EXCEPT ![n] = x]
  <2>9. /\ u \in Seq(S) /\ Len(u) = n /\ u[n] = x
        /\ \A k \in 1 .. n : k # n => u[k] = f[k]
    BY <2>1, <2>5, <2>6, ExceptFacts
  <2>10. /\ v \in Seq(S) /\ Len(v) = n /\ v[n] = x
         /\ \A k \in 1 .. n : k # n => v[k] = g[k]
    BY <2>1, <2>5, <2>7, ExceptFacts
  <2>11. \A k \in 1 .. n : k # n => k \in 1 .. Len(a) /\ k # Len(a)
    BY <2>1, <1>2
  <2>12. \A k \in 1 .. n : k # n => f[k] = g[k]
    BY <2>6, <2>7, <2>11 DEF Grown
  <2> HIDE DEF u, v
  <2>13. \A k \in 1 .. Len(u) : u[k] = v[k]
    BY <2>9, <2>10, <2>12
  <2>14. u = v
    BY <2>9, <2>10, <2>13, SameSeq
  <2> QED BY <2>4, <2>5, <2>8, <2>14 DEF u, v
<1> QED BY <1>3, <1>4

LEMMA RollsBack ==
  ASSUME NEW a, Arena(a), NEW m, MarkOf(a, m)
  PROVE  Arena(RolledBack(a, m))
<1> DEFINE S == Seq(Nat)
           n == m.block
<1>1. a \in Seq(S) /\ Len(a) \in Nat /\ n \in 0 .. Len(a)
  BY ArenaParts DEF Arena, MarkOf
<1>2. CASE n = 0
  BY <1>2, NoBlocksArena DEF RolledBack
<1>3. CASE n # 0
  <2>1. n \in 1 .. Len(a) /\ n \in 1 .. n /\ n \in Nat /\ m.used \in 1 .. Len(a[n])
    BY <1>1, <1>3 DEF MarkOf
  <2>2. \A k \in 1 .. Len(a) : a[k] \in Seq(Nat) /\ Len(a[k]) \in Nat /\ Len(a[k]) \in 1 .. BlockSize
    BY ArenaParts
  <2> DEFINE x == SubSeq(a[n], 1, m.used)
             f == SubSeq(a, 1, n)
             u == [f EXCEPT ![n] = x]
  <2>3. m.used \in 0 .. Len(a[n]) /\ m.used \in 1 .. BlockSize
    BY <2>1, <2>2, BlockSizeAssumption
  <2>4. x \in Seq(Nat) /\ Len(x) = m.used
    BY <2>1, <2>2, <2>3, SubSeqFacts
  <2>5. x \in S
    BY <2>4
  <2> HIDE DEF S, x
  <2>6. /\ f \in Seq(S) /\ Len(f) = n /\ \A k \in 1 .. n : f[k] = a[k]
    BY <1>1, SubSeqFacts
  <2>7. RolledBack(a, m) = u
    <3>1. f[n] = a[n]
      BY <2>1, <2>6
    <3> QED BY <1>3, <3>1 DEF RolledBack, x
  <2> HIDE DEF f
  <2>8. /\ u \in Seq(S) /\ Len(u) = n /\ u[n] = x /\ DOMAIN u = 1 .. n
        /\ \A k \in 1 .. n : k # n => u[k] = f[k]
    BY <2>1, <2>5, <2>6, ExceptFacts
  <2> HIDE DEF u
  <2>9. \A k \in 1 .. n : k \in 1 .. Len(a)
    BY <1>1, <2>1
  <2>10. \A k \in DOMAIN u : Len(u[k]) \in 1 .. BlockSize
    BY <2>2, <2>3, <2>4, <2>6, <2>8, <2>9
  <2>11. u \in Seq(Seq(Nat))
    BY <2>8 DEF S
  <2> QED BY <2>7, <2>10, <2>11 DEF Arena
<1> QED BY <1>2, <1>3

-----------------------------------------------------------------------------
(* Who owns the buffers.                                                   *)

Owns(r) == {r.source, r.docs, r.stream, r.frontend} \ {None}

Distinct(r) ==
  /\ r.source # r.docs
  /\ r.stream # None => r.stream # r.source /\ r.stream # r.docs
  /\ r.frontend # None =>
       r.frontend # r.source /\ r.frontend # r.docs /\ r.frontend # r.stream

Mine == {held.source, held.docs} \ {None}

HeapType ==
  /\ host \in {"native", "wasm"} /\ stage \in Stage
  /\ held \in [{"source", "docs"} -> Buffer \cup {None}]
  /\ current \in State \cup {None}
  /\ parse \in [State -> ParseState \cup {None}]
  /\ slot \in State \cup {None} /\ live \subseteq Buffer
  /\ modes \in BOOLEAN /\ recovery \in State \cup {None}

HeapStage ==
  /\ held.docs # None <=> stage \in {"documented", "rewritten"}
  /\ held.source # None <=> stage = "rewritten"
  /\ held.source # None => held.source # held.docs
  /\ current # None <=> stage \in Parsing \cup {"ready", "parsed"}
  /\ current # None => current = slot
  /\ recovery # None <=> stage \in Parsing /\ host = "native"
  /\ recovery # None => recovery = current
  /\ modes => stage \in Parsing \/ (stage = "idle" /\ slot # None)
  /\ stage \in Parsing => modes

HeapOwned ==
  /\ \A p \in State : parse[p] # None <=> p = slot
  /\ slot = None => live = Mine
  /\ slot # None =>
       /\ Distinct(parse[slot])
       /\ live = Mine \cup Owns(parse[slot])
       /\ Mine \cap Owns(parse[slot]) = {}

(* A state has no stream before it is opened, and no frontend before that. *)
HeapFresh ==
  /\ stage = "ready" => parse[slot].stream = None
  /\ stage \in {"ready", "opened"} => parse[slot].frontend = None

HeapInv == HeapType /\ HeapStage /\ HeapOwned /\ HeapFresh

RequestType ==
  /\ request \in Requests /\ at \in 0 .. Len(request.text)
  /\ graph \in GraphState /\ value \in Count

(* A transaction is that of the function being resolved, or nobody's.      *)
Nested ==
  IF stage \in {"resolving", "resolved"}
  THEN globals \in Transaction
  ELSE globals \in {None, Abandoned} /\ (locals => globals = Abandoned)

FrameType ==
  /\ frame \in Frame \cup {None}
  /\ (stage \in {"parsed function", "resolving", "resolved"}) => frame # None
  /\ (frame # None) => stage \in {"parsed function", "resolving", "resolved", "fatal"}

(* The function that is parsed and resolved is the item at hand.           *)
AtFunction ==
  stage \in {"parsed function", "resolving", "resolved"} =>
    /\ More /\ Item1.kind = "function"
    /\ Item1.outcome \notin {"unreadable", "malformed", "overlimit"}

DataInv ==
  /\ RequestType /\ Nested /\ FrameType /\ AtFunction
  /\ locals \in BOOLEAN /\ busy \in BOOLEAN
  /\ answer \in Answers \cup {None}

LEMMA SlotState ==
  ASSUME HeapInv, slot # None
  PROVE  slot \in State /\ parse[slot] \in ParseState
BY DEF HeapInv, HeapType, HeapOwned

(* A step that leaves the heap alone, in a parse or outside of one.        *)
LEMMA HeapParses ==
  ASSUME HeapInv, UNCHANGED <<host, heap, guards>>,
         stage \in Parsing, stage' \in Parsing \ {"opened"}
  PROVE  HeapInv'
<1>1. HeapType'
  BY DEF HeapInv, HeapType, heap, guards, Stage
<1>2. HeapStage'
  BY DEF HeapInv, HeapStage, heap, guards, Parsing
<1>3. HeapOwned'
  BY DEF HeapInv, HeapOwned, Mine, heap, guards
<1>4. HeapFresh'
  BY DEF HeapFresh, Parsing
<1> QED BY <1>1, <1>2, <1>3, <1>4 DEF HeapInv

LEMMA HeapRests ==
  ASSUME HeapInv, UNCHANGED <<host, heap, guards>>,
         stage \in {"checked", "failed", "idle"}, stage' \in {"failed", "idle"},
         stage = "idle" => stage' = "idle"
  PROVE  HeapInv'
<1>1. HeapType'
  BY DEF HeapInv, HeapType, heap, guards, Stage
<1>2. HeapStage'
  BY DEF HeapInv, HeapStage, heap, guards, Parsing
<1>3. HeapOwned'
  BY DEF HeapInv, HeapOwned, Mine, heap, guards
<1>4. HeapFresh'
  BY DEF HeapFresh
<1> QED BY <1>1, <1>2, <1>3, <1>4 DEF HeapInv

(* The cleanup of an abandoned parse state.                                *)
LEMMA HeapCleanup ==
  ASSUME HeapInv, RunCleanup, UNCHANGED <<host, held, current>>,
         stage \in {"idle", "failed"}, stage' \in {"idle", "checked"}
  PROVE  HeapInv' /\ slot' = None
<1>1. Mine = {} /\ current = None /\ recovery = None
  BY DEF HeapInv, HeapStage, Mine, Parsing
<1>2. CASE slot = None
  <2>1. UNCHANGED <<parse, slot, live, modes, recovery>> /\ modes = FALSE
    BY <1>2 DEF RunCleanup, guards, HeapInv, HeapStage, HeapType, Parsing
  <2>2. HeapType'
    BY <2>1 DEF HeapInv, HeapType, Stage
  <2>3. HeapStage'
    BY <1>1, <1>2, <2>1 DEF HeapInv, HeapStage, Parsing
  <2>4. HeapOwned'
    BY <2>1 DEF HeapInv, HeapOwned, Mine
  <2>5. HeapFresh'
    BY DEF HeapFresh
  <2> QED BY <1>2, <2>1, <2>2, <2>3, <2>4, <2>5 DEF HeapInv
<1>3. CASE slot # None
  <2>1. /\ slot' = None /\ live' = live \ Owned(slot)
        /\ parse' = [parse EXCEPT ![slot] = None] /\ modes' = FALSE /\ recovery' = None
    BY <1>3 DEF RunCleanup
  <2>2. slot \in State /\ parse[slot] \in ParseState
    BY <1>3, SlotState
  <2>3. HeapType'
    BY <2>1, <2>2 DEF HeapInv, HeapType, Stage
  <2>4. HeapStage'
    BY <1>1, <2>1 DEF HeapInv, HeapStage, Parsing
  <2>5. live = Owns(parse[slot])
    BY <1>1, <1>3 DEF HeapInv, HeapOwned
  <2>6. Owned(slot) = Owns(parse[slot])
    BY DEF Owned, Owns, Field
  <2>7. live' = {} /\ Mine' = {}
    BY <1>1, <2>1, <2>5, <2>6 DEF Mine
  <2>8. \A p \in State : parse'[p] = None
    BY <1>3, <2>1, <2>2 DEF HeapInv, HeapOwned, HeapType
  <2>9. HeapOwned'
    BY <2>1, <2>7, <2>8, AddressAssumption DEF HeapOwned
  <2>10. HeapFresh'
    BY DEF HeapFresh
  <2> QED BY <2>1, <2>3, <2>4, <2>9, <2>10 DEF HeapInv
<1> QED BY <1>2, <1>3

(* The end of a parse state, whose kept buffers go back to the request.    *)
LEMMA HeapFinish ==
  ASSUME HeapInv, NEW kept, Finish(kept), UNCHANGED host,
         \/ kept = {} /\ stage' \in {"idle", "failed"}
         \/ kept = {"docs"} /\ stage' = "documented"
         \/ kept = {"source", "docs"} /\ stage' = "rewritten",
         stage \in {"ready", "parsed"}
  PROVE  HeapInv'
<1>1. current # None /\ current = slot /\ Mine = {}
  BY DEF HeapInv, HeapStage, Mine, Parsing
<1> DEFINE r == parse[slot]
<1>2. slot \in State /\ parse[slot] \in ParseState
  BY <1>1, SlotState
<1>3. /\ slot' = None /\ current' = None /\ modes' = FALSE /\ recovery' = None
      /\ parse' = [parse EXCEPT ![slot] = None]
      /\ live' = live \ {parse[slot][f] : f \in Field \ kept}
      /\ held' = [f \in {"source", "docs"} |-> IF f \in kept THEN parse[slot][f] ELSE None]
  BY <1>1 DEF Finish, Nothing
<1>4. live = Owns(parse[slot]) /\ Distinct(parse[slot])
  BY <1>1 DEF HeapInv, HeapOwned
<1>5. /\ parse[slot].source \in Buffer /\ parse[slot].docs \in Buffer
      /\ parse[slot].source # None /\ parse[slot].docs # None
  BY <1>2, AddressAssumption DEF ParseState
<1>6. \A p \in State : parse'[p] = None
  BY <1>1, <1>2, <1>3 DEF HeapInv, HeapOwned, HeapType
<1>7. /\ held'.source = IF "source" \in kept THEN parse[slot].source ELSE None
      /\ held'.docs = IF "docs" \in kept THEN parse[slot].docs ELSE None
  BY <1>3
<1>8. HeapType'
  <2>1. held' \in [{"source", "docs"} -> Buffer \cup {None}]
    BY <1>3, <1>5
  <2>2. live' \subseteq Buffer
    BY <1>3 DEF HeapInv, HeapType
  <2>3. parse' \in [State -> ParseState \cup {None}]
    BY <1>3 DEF HeapInv, HeapType
  <2>4. stage' \in Stage
    BY DEF Stage
  <2> QED BY <1>3, <2>1, <2>2, <2>3, <2>4 DEF HeapInv, HeapType
<1>9. HeapStage'
  BY <1>3, <1>4, <1>5, <1>7 DEF HeapStage, Parsing, Distinct
<1>10. live' = Mine'
  <2>1. live' = Owns(parse[slot]) \ {parse[slot][f] : f \in Field \ kept}
    BY <1>3, <1>4
  <2>2. CASE kept = {}
    <3>1. {parse[slot][f] : f \in Field \ kept}
            = {parse[slot].source, parse[slot].docs, parse[slot].stream, parse[slot].frontend}
      BY <2>2 DEF Field
    <3> QED BY <1>7, <2>1, <2>2, <3>1 DEF Owns, Mine
  <2>3. CASE kept = {"docs"}
    <3>1. {parse[slot][f] : f \in Field \ kept}
            = {parse[slot].source, parse[slot].stream, parse[slot].frontend}
      BY <2>3 DEF Field
    <3> QED BY <1>4, <1>5, <1>7, <2>1, <2>3, <3>1 DEF Owns, Mine, Distinct
  <2>4. CASE kept = {"source", "docs"}
    <3>1. {parse[slot][f] : f \in Field \ kept} = {parse[slot].stream, parse[slot].frontend}
      BY <2>4 DEF Field
    <3> QED BY <1>4, <1>5, <1>7, <2>1, <2>4, <3>1 DEF Owns, Mine, Distinct
  <2> QED BY <2>2, <2>3, <2>4
<1>11. HeapOwned'
  BY <1>3, <1>6, <1>10, AddressAssumption DEF HeapOwned
<1>12. HeapFresh'
  BY DEF HeapFresh
<1> QED BY <1>8, <1>9, <1>11, <1>12 DEF HeapInv

LEMMA FreeBuffer ==
  ASSUME HeapInv, Buffer \ live # {}
  PROVE  Min(Buffer \ live) \in Buffer /\ Min(Buffer \ live) \notin live
         /\ Min(Buffer \ live) # None
<1> DEFINE T == Buffer \ live
<1>1. T \subseteq Nat /\ T # {}
  BY AddressAssumption
<1>2. Min(T) \in T
  <2> HIDE DEF T
  <2> QED BY <1>1, MinIn
<1> QED BY <1>2, AddressAssumption

LEMMA HeapDocument ==
  ASSUME HeapInv, Document
  PROVE  HeapInv'
<1> DEFINE b == Min(Buffer \ live)
<1>1. b \in Buffer /\ b \notin live /\ b # None
  BY FreeBuffer DEF Document
<1>2. /\ stage = "checked" /\ stage' = "documented"
      /\ held' = [held EXCEPT !.docs = b] /\ live' = live \cup {b}
      /\ UNCHANGED <<host, current, parse, slot, modes, recovery>>
  BY DEF Document, guards
<1> HIDE DEF b
<1>3. held'.docs = b /\ held'.source = None /\ held.source = None /\ held.docs = None
  BY <1>2 DEF HeapInv, HeapType, HeapStage
<1>4. HeapType'
  BY <1>1, <1>2 DEF HeapInv, HeapType, Stage
<1>5. HeapStage'
  BY <1>1, <1>2, <1>3 DEF HeapInv, HeapStage, Parsing
<1>6. Mine = {} /\ Mine' = {b}
  BY <1>1, <1>3 DEF Mine
<1>7. HeapOwned'
  BY <1>1, <1>2, <1>6 DEF HeapInv, HeapOwned
<1>8. HeapFresh'
  BY <1>2 DEF HeapFresh
<1> QED BY <1>4, <1>5, <1>7, <1>8 DEF HeapInv

LEMMA HeapRewrite ==
  ASSUME HeapInv, Rewrite
  PROVE  HeapInv'
<1> DEFINE b == Min(Buffer \ live)
<1>1. b \in Buffer /\ b \notin live /\ b # None
  BY FreeBuffer DEF Rewrite
<1>2. /\ stage = "documented" /\ stage' = "rewritten"
      /\ held' = [held EXCEPT !.source = b] /\ live' = live \cup {b}
      /\ UNCHANGED <<host, current, parse, slot, modes, recovery>>
  BY DEF Rewrite, guards
<1> HIDE DEF b
<1>3. held'.source = b /\ held'.docs = held.docs /\ held.source = None /\ held.docs # None
  BY <1>2 DEF HeapInv, HeapType, HeapStage
<1>4. HeapType'
  BY <1>1, <1>2 DEF HeapInv, HeapType, Stage
<1>5. held.docs \in live
  BY <1>3 DEF HeapInv, HeapOwned, Mine
<1>6. HeapStage'
  BY <1>1, <1>2, <1>3, <1>5 DEF HeapInv, HeapStage, Parsing
<1>7. Mine = {held.docs} /\ Mine' = {b, held.docs}
  BY <1>1, <1>3 DEF Mine
<1>8. HeapOwned'
  BY <1>1, <1>2, <1>7 DEF HeapInv, HeapOwned
<1>9. HeapFresh'
  BY <1>2 DEF HeapFresh
<1> QED BY <1>4, <1>6, <1>8, <1>9 DEF HeapInv

LEMMA HeapRewriteFails ==
  ASSUME HeapInv, RewriteFails
  PROVE  HeapInv'
<1>1. /\ stage = "documented" /\ stage' \in {"failed", "idle"}
      /\ held' = Nothing /\ live' = live \ {held.docs}
      /\ UNCHANGED <<host, current, parse, slot, modes, recovery>>
  BY DEF RewriteFails, guards, Failed
<1>2. held'.docs = None /\ held'.source = None /\ held.source = None /\ held.docs # None
  BY <1>1 DEF HeapInv, HeapType, HeapStage, Nothing
<1>3. HeapType'
  BY <1>1 DEF HeapInv, HeapType, Stage, Nothing
<1>4. HeapStage'
  BY <1>1, <1>2 DEF HeapInv, HeapStage, Parsing
<1>5. Mine = {held.docs} /\ Mine' = {}
  BY <1>2 DEF Mine
<1>6. HeapOwned'
  BY <1>1, <1>2, <1>5 DEF HeapInv, HeapOwned
<1>7. HeapFresh'
  BY <1>1 DEF HeapFresh
<1> QED BY <1>3, <1>4, <1>6, <1>7 DEF HeapInv

NewState(source, docs) ==
  [source |-> source, docs |-> docs, stream |-> None,
   frontend |-> None, fatal |-> FALSE, rejected |-> None, seen |-> None]

LEMMA HeapCreate ==
  ASSUME HeapInv, Create
  PROVE  HeapInv'
<1> DEFINE Free == {q \in State : parse[q] = None}
           p == Min(Free)
           r == NewState(held.source, held.docs)
<1>1. stage = "rewritten" /\ slot = None /\ stage' = "ready"
  BY DEF Create
<1>2. \A q \in State : parse[q] = None
  BY <1>1, AddressAssumption DEF HeapInv, HeapOwned
<1>3. Free \subseteq Nat /\ Free # {}
  BY <1>2, AddressAssumption
<1>4. p \in State
  <2>1. p \in Free
    <3> HIDE DEF Free
    <3> QED BY <1>3, MinIn
  <2> QED BY <2>1
<1>5. /\ parse' = [parse EXCEPT ![p] = r] /\ slot' = p /\ current' = p
      /\ held' = Nothing /\ UNCHANGED <<host, live, modes, recovery>>
  BY DEF Create, guards, NewState
<1>6. p # None /\ p \in Nat
  BY <1>4, AddressAssumption
<1>7. /\ held.source # None /\ held.docs # None /\ held.source # held.docs
      /\ held.source \in Buffer /\ held.docs \in Buffer
  BY <1>1 DEF HeapInv, HeapType, HeapStage
<1>8. /\ r.source = held.source /\ r.docs = held.docs
      /\ r.stream = None /\ r.frontend = None
  BY DEF NewState
<1>9. r \in ParseState
  BY <1>7 DEF NewState, ParseState
<1> HIDE DEF r, p, Free
<1>10. held'.docs = None /\ held'.source = None
  BY <1>5 DEF Nothing
<1>11. HeapType'
  <2>1. parse' \in [State -> ParseState \cup {None}]
    BY <1>4, <1>5, <1>9 DEF HeapInv, HeapType
  <2>2. held' \in [{"source", "docs"} -> Buffer \cup {None}]
    BY <1>5 DEF Nothing
  <2> QED BY <1>1, <1>4, <1>5, <2>1, <2>2 DEF HeapInv, HeapType, Stage
<1>12. HeapStage'
  BY <1>1, <1>5, <1>6, <1>10 DEF HeapInv, HeapStage, Parsing
<1>13. parse'[p] = r /\ \A q \in State \ {p} : parse'[q] = None
  BY <1>2, <1>4, <1>5 DEF HeapInv, HeapType
<1>14. Mine = {held.source, held.docs} /\ live = Mine /\ Mine' = {}
  BY <1>1, <1>7, <1>10 DEF Mine, HeapInv, HeapOwned
<1>15. Owns(r) = {held.source, held.docs} /\ Distinct(r)
  BY <1>7, <1>8 DEF Owns, Distinct
<1>16. HeapOwned'
  <2>1. r # None
    BY <1>9, NoneAssumption
  <2>2. \A q \in State : parse'[q] # None <=> q = slot'
    BY <1>5, <1>13, <2>1
  <2> QED BY <1>5, <1>6, <1>13, <1>14, <1>15, <2>2 DEF HeapOwned
<1>17. HeapFresh'
  BY <1>5, <1>8, <1>13 DEF HeapFresh
<1> QED BY <1>11, <1>12, <1>16, <1>17 DEF HeapInv

LEMMA HeapCreateFails ==
  ASSUME HeapInv, CreateFails
  PROVE  HeapInv'
<1>1. /\ stage = "rewritten" /\ stage' \in {"failed", "idle"}
      /\ held' = Nothing /\ live' = live \ {held.source, held.docs}
      /\ UNCHANGED <<host, current, parse, slot>>
  BY DEF CreateFails, Failed
<1>2. /\ held'.docs = None /\ held'.source = None
      /\ held.source # None /\ held.docs # None
      /\ ~modes /\ modes \in BOOLEAN /\ recovery = None
  BY <1>1 DEF HeapInv, HeapType, HeapStage, Nothing, Parsing
<1>3. modes' = FALSE /\ recovery' = None
  BY <1>2 DEF CreateFails
<1>4. HeapType'
  <2>1. held' \in [{"source", "docs"} -> Buffer \cup {None}]
    BY <1>1 DEF Nothing
  <2> QED BY <1>1, <1>3, <2>1 DEF HeapInv, HeapType, Stage
<1>5. HeapStage'
  BY <1>1, <1>2, <1>3 DEF HeapInv, HeapStage, Parsing
<1>6. Mine = {held.source, held.docs} /\ Mine' = {}
  BY <1>2 DEF Mine
<1>7. HeapOwned'
  BY <1>1, <1>2, <1>6 DEF HeapInv, HeapOwned
<1>8. HeapFresh'
  BY <1>1 DEF HeapFresh
<1> QED BY <1>4, <1>5, <1>7, <1>8 DEF HeapInv

(* A step of the parse, which changes a field of its own state.            *)
LEMMA HeapOpenStream ==
  ASSUME HeapInv, OpenStream
  PROVE  HeapInv'
<1> DEFINE b == Min(Buffer \ live)
           r == [parse[slot] EXCEPT !.stream = b]
<1>1. b \in Buffer /\ b \notin live /\ b # None
  BY FreeBuffer DEF OpenStream
<1>2. stage = "ready" /\ stage' \in {"fatal", "opened"}
  BY DEF OpenStream
<1>3. current # None /\ current = slot /\ Mine = {}
  BY <1>2 DEF HeapInv, HeapStage, Mine
<1>4. slot \in State /\ parse[slot] \in ParseState
  BY <1>3, SlotState
<1>5. /\ parse' = [parse EXCEPT ![slot] = r] /\ live' = live \cup {b}
      /\ modes' = TRUE /\ recovery' = IF host = "native" THEN current ELSE None
      /\ UNCHANGED <<host, held, current, slot>>
  BY <1>3 DEF OpenStream
<1>6. r \in ParseState
  BY <1>1, <1>4 DEF ParseState
<1>7. parse[slot].stream = None /\ parse[slot].frontend = None
  BY <1>2 DEF HeapInv, HeapFresh
<1>8. live = Owns(parse[slot]) /\ Distinct(parse[slot])
  BY <1>3 DEF HeapInv, HeapOwned
<1>9. /\ r.source = parse[slot].source /\ r.docs = parse[slot].docs
      /\ r.stream = b /\ r.frontend = None
  BY <1>4, <1>7 DEF ParseState
<1>10. \A p \in State : parse'[p] # None <=> p = slot
  BY <1>3, <1>4, <1>5, <1>6, NoneAssumption DEF HeapInv, HeapOwned, HeapType
<1>11. parse'[slot] = r
  BY <1>4, <1>5 DEF HeapInv, HeapType
<1> HIDE DEF b, r
<1>12. HeapType'
  <2>1. parse' \in [State -> ParseState \cup {None}]
    BY <1>4, <1>5, <1>6 DEF HeapInv, HeapType
  <2> QED BY <1>1, <1>2, <1>3, <1>4, <1>5, <2>1 DEF HeapInv, HeapType, Stage, Parsing
<1>13. HeapStage'
  BY <1>2, <1>3, <1>5 DEF HeapInv, HeapStage, HeapType, Parsing
<1>14. Owns(r) = live' /\ Distinct(r) /\ Mine' = {}
  BY <1>1, <1>3, <1>5, <1>7, <1>8, <1>9 DEF Owns, Distinct, Mine
<1>15. HeapOwned'
  BY <1>3, <1>5, <1>10, <1>11, <1>14 DEF HeapOwned
<1>16. HeapFresh'
  BY <1>2, <1>5, <1>9, <1>11 DEF HeapFresh
<1> QED BY <1>12, <1>13, <1>15, <1>16 DEF HeapInv

LEMMA HeapBeginStream ==
  ASSUME HeapInv, BeginStream
  PROVE  HeapInv'
<1> DEFINE b == Min(Buffer \ live)
           r == [parse[slot] EXCEPT !.frontend = b]
<1>1. b \in Buffer /\ b \notin live /\ b # None
  BY FreeBuffer DEF BeginStream
<1>2. stage = "opened" /\ stage' = "reading"
  BY DEF BeginStream
<1>3. current # None /\ current = slot /\ Mine = {}
  BY <1>2 DEF HeapInv, HeapStage, Mine, Parsing
<1>4. slot \in State /\ parse[slot] \in ParseState
  BY <1>3, SlotState
<1>5. /\ parse' = [parse EXCEPT ![slot] = r] /\ live' = live \cup {b}
      /\ UNCHANGED <<host, held, current, slot, modes, recovery>>
  BY <1>3 DEF BeginStream, guards
<1>6. r \in ParseState
  BY <1>1, <1>4 DEF ParseState
<1>7. parse[slot].frontend = None
  BY <1>2 DEF HeapInv, HeapFresh
<1>8. live = Owns(parse[slot]) /\ Distinct(parse[slot])
  BY <1>3 DEF HeapInv, HeapOwned
<1>9. /\ r.source = parse[slot].source /\ r.docs = parse[slot].docs
      /\ r.stream = parse[slot].stream /\ r.frontend = b
  BY <1>4 DEF ParseState
<1>10. \A p \in State : parse'[p] # None <=> p = slot
  BY <1>3, <1>4, <1>5, <1>6, NoneAssumption DEF HeapInv, HeapOwned, HeapType
<1>11. parse'[slot] = r
  BY <1>4, <1>5 DEF HeapInv, HeapType
<1> HIDE DEF b, r
<1>12. HeapType'
  <2>1. parse' \in [State -> ParseState \cup {None}]
    BY <1>4, <1>5, <1>6 DEF HeapInv, HeapType
  <2> QED BY <1>1, <1>2, <1>3, <1>4, <1>5, <2>1 DEF HeapInv, HeapType, Stage, Parsing
<1>13. HeapStage'
  BY <1>2, <1>3, <1>5 DEF HeapInv, HeapStage, HeapType, Parsing
<1>14. Owns(r) = live' /\ Distinct(r) /\ Mine' = {}
  BY <1>1, <1>3, <1>5, <1>7, <1>8, <1>9 DEF Owns, Distinct, Mine
<1>15. HeapOwned'
  BY <1>3, <1>5, <1>10, <1>11, <1>14 DEF HeapOwned
<1>16. HeapFresh'
  BY <1>2, <1>5, <1>9, <1>11 DEF HeapFresh
<1> QED BY <1>12, <1>13, <1>15, <1>16 DEF HeapInv

(* The end of the stream, by its end or by a jump: its frontend is freed.  *)
LEMMA HeapEnds ==
  ASSUME HeapInv, stage \in Parsing, stage' = "parsed",
         NEW r, r \in ParseState, r.source = parse[slot].source,
         r.docs = parse[slot].docs, r.stream = parse[slot].stream, r.frontend = None,
         live' = live \ {parse[slot].frontend},
         parse' = [parse EXCEPT ![slot] = r], modes' = FALSE, recovery' = None,
         UNCHANGED <<host, held, current, slot>>
  PROVE  HeapInv'
<1>1. current # None /\ current = slot /\ Mine = {} /\ Mine' = {}
  BY DEF HeapInv, HeapStage, Mine, Parsing
<1>2. slot \in State /\ parse[slot] \in ParseState
  BY <1>1, SlotState
<1>3. live = Owns(parse[slot]) /\ Distinct(parse[slot])
  BY <1>1 DEF HeapInv, HeapOwned
<1>4. \A p \in State : parse'[p] # None <=> p = slot
  BY <1>1, <1>2, NoneAssumption DEF HeapInv, HeapOwned, HeapType
<1>5. parse'[slot] = r
  BY <1>2 DEF HeapInv, HeapType
<1>6. HeapType'
  <2>1. parse' \in [State -> ParseState \cup {None}]
    BY <1>2 DEF HeapInv, HeapType
  <2> QED BY <2>1 DEF HeapInv, HeapType, Stage
<1>7. HeapStage'
  BY <1>1 DEF HeapInv, HeapStage, HeapType, Parsing
<1>8. parse[slot].source # None /\ parse[slot].docs # None
  BY <1>2, AddressAssumption DEF ParseState
<1>9. Owns(r) = live' /\ Distinct(r)
  BY <1>3, <1>8 DEF Owns, Distinct
<1>10. HeapOwned'
  BY <1>1, <1>4, <1>5, <1>9 DEF HeapOwned
<1>11. HeapFresh'
  BY DEF HeapFresh
<1> QED BY <1>6, <1>7, <1>10, <1>11 DEF HeapInv

LEMMA HeapEndStream ==
  ASSUME HeapInv, EndStream
  PROVE  HeapInv'
<1> DEFINE r == [parse[slot] EXCEPT !.frontend = None]
<1>1. stage \in Parsing /\ stage' = "parsed"
  BY DEF EndStream, Parsing
<1>2. current # None /\ current = slot
  BY <1>1 DEF HeapInv, HeapStage
<1>3. parse[slot] \in ParseState
  BY <1>2, SlotState
<1>4. /\ live' = live \ {parse[slot].frontend}
      /\ parse' = [parse EXCEPT ![slot] = r] /\ modes' = FALSE /\ recovery' = None
      /\ UNCHANGED <<host, held, current, slot>>
  BY <1>2 DEF EndStream
<1>5. /\ r \in ParseState /\ r.source = parse[slot].source /\ r.docs = parse[slot].docs
      /\ r.stream = parse[slot].stream /\ r.frontend = None
  BY <1>3 DEF ParseState
<1> HIDE DEF r
<1> QED BY <1>1, <1>4, <1>5, HeapEnds

LEMMA HeapRecover ==
  ASSUME HeapInv, Recover
  PROVE  HeapInv'
<1> DEFINE r == [parse[slot] EXCEPT !.frontend = None, !.fatal = TRUE]
<1>1. stage \in Parsing /\ stage' = "parsed" /\ host = "native"
  BY DEF Recover, Parsing
<1>2. current # None /\ current = slot /\ recovery = slot
  BY <1>1 DEF HeapInv, HeapStage
<1>3. parse[slot] \in ParseState
  BY <1>2, SlotState
<1>4. /\ live' = live \ {parse[slot].frontend}
      /\ parse' = [parse EXCEPT ![slot] = r] /\ modes' = FALSE /\ recovery' = None
      /\ UNCHANGED <<host, held, current, slot>>
  BY <1>2 DEF Recover
<1>5. /\ r \in ParseState /\ r.source = parse[slot].source /\ r.docs = parse[slot].docs
      /\ r.stream = parse[slot].stream /\ r.frontend = None
  BY <1>3 DEF ParseState
<1> HIDE DEF r
<1> QED BY <1>1, <1>4, <1>5, HeapEnds

LEMMA HeapCommit ==
  ASSUME HeapInv, Commit, RequestType
  PROVE  HeapInv'
<1> DEFINE seen == graph.inner
           rejected == IF parse[slot].rejected = None /\ Item1.outcome = "rejected"
                       THEN at + 1 ELSE parse[slot].rejected
           r == [parse[slot] EXCEPT !.seen = seen, !.rejected = rejected]
<1>1. stage \in Parsing /\ stage' = "reading" /\ stage' \in Parsing
  BY DEF Commit, Parsing
<1>2. current # None /\ current = slot
  BY <1>1 DEF HeapInv, HeapStage
<1>3. slot \in State /\ parse[slot] \in ParseState
  BY <1>2, SlotState
<1>4. seen \in SUBSET Name /\ rejected \in Nat \cup {None}
  BY <1>3 DEF RequestType, GraphState, ParseState
<1> HIDE DEF seen, rejected
<1>5. /\ r \in ParseState /\ Owns(r) = Owns(parse[slot])
      /\ Distinct(r) <=> Distinct(parse[slot])
  BY <1>3, <1>4 DEF ParseState, Owns, Distinct
<1>6. parse' = [parse EXCEPT ![slot] = r]
  BY <1>2, <1>3 DEF Commit, HeapInv, HeapType, seen, rejected, ParseState
<1>7. UNCHANGED <<host, held, current, slot, live, modes, recovery>>
  BY DEF Commit, guards
<1> HIDE DEF r
<1>8. \A p \in State : parse'[p] # None <=> p = slot
  BY <1>2, <1>3, <1>5, <1>6, NoneAssumption DEF HeapInv, HeapOwned, HeapType
<1>9. parse'[slot] = r
  BY <1>3, <1>6 DEF HeapInv, HeapType
<1>10. HeapType'
  <2>1. parse' \in [State -> ParseState \cup {None}]
    BY <1>3, <1>5, <1>6 DEF HeapInv, HeapType
  <2> QED BY <1>1, <1>7, <2>1 DEF HeapInv, HeapType, Stage
<1>11. HeapStage'
  BY <1>1, <1>7 DEF HeapInv, HeapStage, Parsing
<1>12. HeapOwned'
  BY <1>2, <1>5, <1>7, <1>8, <1>9 DEF HeapInv, HeapOwned, Mine
<1>13. HeapFresh'
  BY <1>1 DEF HeapFresh
<1> QED BY <1>10, <1>11, <1>12, <1>13 DEF HeapInv

LEMMA HeapTrap ==
  ASSUME HeapInv, Trap
  PROVE  HeapInv'
<1>1. /\ stage \in Parsing /\ stage' = "idle" /\ host = "wasm" /\ current' = None
      /\ UNCHANGED <<host, held, parse, slot, live, modes, recovery>>
  BY DEF Trap, Parsing, guards
<1>2. current # None /\ slot # None /\ recovery = None
  BY <1>1 DEF HeapInv, HeapStage
<1>3. HeapType'
  BY <1>1 DEF HeapInv, HeapType, Stage
<1>4. HeapStage'
  BY <1>1, <1>2 DEF HeapInv, HeapStage, Parsing
<1>5. HeapOwned'
  BY <1>1 DEF HeapInv, HeapOwned, Mine
<1>6. HeapFresh'
  BY <1>1 DEF HeapFresh
<1> QED BY <1>3, <1>4, <1>5, <1>6 DEF HeapInv

(* Every step of a request, of the adapter and of an update.               *)
LEMMA HeapWork ==
  ASSUME HeapInv, RequestType, AnalysisStep
  PROVE  HeapInv'
<1>1. CASE Refuse
  BY <1>1, HeapRests DEF Refuse, Failed
<1>2. CASE OpenFails \/ Reparse \/ RetryFailed \/ Answer \/ BuilderFails
  BY <1>2, HeapFinish DEF OpenFails, Reparse, RetryFailed, Retry, Answer, BuilderFails, Failed
<1>3. CASE Unreadable \/ ReadPrototype \/ ReadObject \/ ParseFunction \/ SkipFunction
  BY <1>3, HeapParses DEF Unreadable, ReadPrototype, ReadObject, ParseFunction,
                          SkipFunction, Parsing
<1>4. CASE BeginFunction \/ RefuseFunction \/ ResolveBody \/ Rollback
  BY <1>4, HeapParses DEF BeginFunction, RefuseFunction, ResolveBody, Rollback, Parsing
<1> QED BY <1>1, <1>2, <1>3, <1>4, HeapDocument, HeapRewrite, HeapRewriteFails, HeapCreate,
           HeapCreateFails, HeapOpenStream, HeapBeginStream, HeapCommit, HeapEndStream,
           HeapRecover
        DEF AnalysisStep

LEMMA HeapProject ==
  ASSUME HeapInv, RequestType, [ProjectNext]_projectVars
  PROVE  HeapInv'
<1>1. CASE UNCHANGED vars
  <2>1. UNCHANGED <<host, stage, held, current, parse, slot, live, modes, recovery>>
    BY <1>1 DEF vars, heap, guards
  <2> QED BY <2>1 DEF HeapInv, HeapType, HeapStage, HeapOwned, HeapFresh, Mine
<1>2. CASE Work
  BY <1>2, HeapWork DEF Work
<1>3. CASE RetryBetween
  BY <1>3, HeapFinish DEF RetryBetween, RetryAtCursor, Retry
<1>4. CASE TrapUpdate
  BY <1>4, HeapTrap DEF TrapUpdate
<1>5. CASE DiscardBetween \/ CompileBetween
  BY <1>5, HeapCleanup DEF DiscardBetween, Discard, CompileBetween, Compile, NewSession
<1>6. CASE AnalyzeSource
  BY <1>6, HeapCleanup DEF AnalyzeSource, Request
<1>7. ASSUME NEW text \in Text, Ask(text)
      PROVE  HeapInv'
  BY <1>7, HeapCleanup DEF Ask, Request
<1>8. CASE MergeSource \/ AbortUpdate
  BY <1>8, HeapRests DEF MergeSource, AbortUpdate, SourceReturned, Disposed
<1>9. CASE RefuseUpdate \/ \E revision \in DOMAIN Project : StartUpdate(revision)
  BY <1>1, <1>9 DEF RefuseUpdate, StartUpdate
<1> QED BY <1>1, <1>2, <1>3, <1>4, <1>5, <1>6, <1>7, <1>8, <1>9
        DEF ProjectNext, ProjectStep, UpdateStep, projectVars

-----------------------------------------------------------------------------
(* The request, the tables and the transactions.                           *)

LEMMA EmptyRequest ==
  /\ NewRequest(<<>>) \in Requests /\ Len(NewRequest(<<>>).text) = 0
  /\ \A text \in Text : NewRequest(text) \in Requests /\ NewRequest(text).text = text
BY DEF NewRequest, Requests

LEMMA TextLen ==
  ASSUME NEW text \in Text \cup {<<>>}
  PROVE  /\ Len(text) \in Nat /\ DOMAIN text = 1 .. Len(text)
         /\ \A i \in 1 .. Len(text) : text[i] \in Item
<1>1. \A t \in Text : t \in Seq(Item)
  BY TextAssumption, Zenon
<1>2. <<>> \in Seq(Item)
  OBVIOUS
<1>3. text \in Seq(Item)
  BY <1>1, <1>2
<1> QED BY <1>3

LEMMA EmptyTables == NoGraph \in GraphState /\ NoValue \in Count
BY DEF NoGraph, NoValue, GraphState, Count

(* A step to a stage between requests, or back to the start of a parse.    *)
LEMMA DataRests ==
  ASSUME DataInv, UNCHANGED <<globals, locals>>,
         stage \notin {"resolving", "resolved"}, stage' \notin {"resolving", "resolved"},
         frame' = None, stage' # "parsed function",
         RequestType', busy' \in BOOLEAN, answer' \in Answers \cup {None}
  PROVE  DataInv'
BY DEF DataInv, Nested, FrameType, AtFunction

LEMMA RequestReturns ==
  ASSUME DataInv, Returned, UNCHANGED <<graph, value>> \/ ResetTables
  PROVE  RequestType'
<1>1. graph' \in GraphState /\ value' \in Count
  BY EmptyTables DEF DataInv, RequestType, ResetTables
<1>2. request' \in Requests /\ Len(request'.text) = 0 /\ at' = 0
  BY EmptyRequest DEF Returned
<1> QED BY <1>1, <1>2 DEF RequestType

LEMMA NoFrame ==
  ASSUME DataInv, stage \notin {"parsed function", "resolving", "resolved", "fatal"}
  PROVE  frame = None
BY DEF DataInv, FrameType

LEMMA DataBefore ==
  ASSUME DataInv,
         Refuse \/ Document \/ Rewrite \/ RewriteFails \/ Create \/ CreateFails
           \/ OpenStream \/ OpenFails \/ BeginStream \/ EndStream
  PROVE  DataInv'
<1> USE NoFrame DEF nesting, tables
<1>1. CASE Refuse
  BY <1>1, DataRests, RequestReturns DEF Refuse, DataInv, Failed
<1>2. CASE Document \/ Rewrite \/ Create
  BY <1>2, DataRests DEF Document, Rewrite, Create, DataInv, RequestType
<1>3. CASE RewriteFails \/ CreateFails
  BY <1>3, DataRests, RequestReturns DEF RewriteFails, CreateFails, DataInv, Failed
<1>4. CASE OpenStream
  <2>1. request' \in Requests /\ request'.text = request.text
    BY <1>4 DEF OpenStream, DataInv, RequestType, Requests
  <2>2. RequestType'
    BY <1>4, <2>1 DEF OpenStream, DataInv, RequestType
  <2>3. stage = "ready" /\ stage' \in {"fatal", "opened"}
    BY <1>4 DEF OpenStream
  <2> QED BY <1>4, <2>2, <2>3, DataRests DEF OpenStream, DataInv
<1>5. CASE OpenFails
  BY <1>5, DataRests, RequestReturns DEF OpenFails, DataInv, Failed
<1>6. CASE BeginStream \/ EndStream
  BY <1>6, DataRests DEF BeginStream, EndStream, DataInv, RequestType
<1> QED BY <1>1, <1>2, <1>3, <1>4, <1>5, <1>6

LEMMA DataAfter ==
  ASSUME DataInv, HeapInv,
         Recover \/ Reparse \/ RetryFailed \/ RetryAtCursor \/ Answer \/ BuilderFails \/ Trap
  PROVE  DataInv'
<1> USE NoFrame, EmptyTables DEF nesting, tables, ResetTables
<1>1. CASE Recover
  <2>1. request' \in Requests /\ request'.text = request.text
    BY <1>1 DEF Recover, DataInv, RequestType, Requests
  <2>2. RequestType'
    BY <1>1, <2>1 DEF Recover, DataInv, RequestType
  <2> QED BY <1>1, <2>2, DataRests DEF Recover, DataInv
<1>2. CASE Reparse
  <2>1. request' \in Requests /\ request'.text = request.text
    BY <1>2 DEF Reparse, DataInv, RequestType, Requests
  <2>2. RequestType'
    BY <1>2, <2>1, TextLen DEF Reparse, DataInv, RequestType, Requests
  <2> QED BY <1>2, <2>2, DataRests DEF Reparse, DataInv
<1>3. ASSUME NEW i, Retry(i), stage = "parsed"
      PROVE  DataInv'
  <2>1. PICK t \in Elided(request.text, i) :
          request' = [request EXCEPT !.text = t, !.retried = TRUE]
    BY <1>3 DEF Retry
  <2>2. t \in Text
    BY DEF Elided
  <2>3. request' \in Requests /\ request'.text = t
    BY <2>1, <2>2 DEF DataInv, RequestType, Requests
  <2>4. RequestType'
    BY <1>3, <2>2, <2>3, TextLen DEF Retry, RequestType
  <2> QED BY <1>3, <2>4, DataRests DEF Retry, DataInv
<1>4. CASE Answer
  <2>1. RequestType'
    BY <1>4, RequestReturns DEF Answer
  <2>2. answer' \in Answers
    <3>1. request \in Requests /\ value \in Count
      BY DEF DataInv, RequestType
    <3>2. [n \in Name |-> IF n \in InSight THEN value[n] ELSE None] \in [Name -> Nat \cup {None}]
      BY <3>1 DEF Count
    <3>3. (request.error \/ parse[current].rejected # None) \in BOOLEAN
      OBVIOUS
    <3> QED BY <1>4, <3>1, <3>2, <3>3 DEF Answer, Answers, Requests
  <2> QED BY <1>4, <2>1, <2>2, DataRests DEF Answer, DataInv
<1>5. CASE BuilderFails
  BY <1>5, DataRests, RequestReturns DEF BuilderFails, DataInv, Failed
<1>6. CASE Trap
  BY <1>6, DataRests, RequestReturns DEF Trap, DataInv
<1> QED BY <1>1, <1>2, <1>3, <1>4, <1>5, <1>6 DEF RetryFailed, RetryAtCursor

LEMMA ItemAt ==
  ASSUME DataInv, More
  PROVE  /\ Item1 \in Item /\ at + 1 \in 1 .. Len(request.text)
         /\ at \in Nat /\ Len(request.text) \in Nat
         /\ Item1.name \in Name /\ Item1.touches \subseteq Name
<1>1. request.text \in Text \cup {<<>>}
  BY DEF DataInv, RequestType, Requests
<1>2. /\ Len(request.text) \in Nat
      /\ \A i \in 1 .. Len(request.text) : request.text[i] \in Item
  BY <1>1, TextLen
<1>3. at \in Nat /\ at + 1 \in 1 .. Len(request.text)
  BY <1>2 DEF DataInv, RequestType, More
<1>4. Item1 \in Item
  BY <1>2, <1>3 DEF Item1
<1> QED BY <1>2, <1>3, <1>4 DEF Item

LEMMA Declared ==
  ASSUME NEW names, names \subseteq Name, graph \in GraphState, Declare(names)
  PROVE  graph' \in GraphState
BY DEF Declare, GraphState

LEMMA Redefined ==
  ASSUME NEW names, value \in Count, Redefine(names)
  PROVE  value' \in Count
BY DEF Redefine, Count

LEMMA DataItems ==
  ASSUME DataInv, Arena(arena),
         Unreadable \/ ReadPrototype \/ ReadObject \/ ParseFunction \/ SkipFunction
  PROVE  DataInv'
<1>1. stage = "reading" /\ More
  BY DEF Unreadable, ReadPrototype, ReadObject, ParseFunction, SkipFunction
<1>2. /\ at \in Nat /\ at + 1 \in 0 .. Len(request.text) /\ at \in 0 .. Len(request.text)
      /\ Item1.name \in Name
  BY <1>1, ItemAt DEF DataInv, RequestType
<1>3. frame = None
  BY <1>1, NoFrame
<1>4. CASE Unreadable
  BY <1>3, <1>4, DataRests DEF Unreadable, DataInv, RequestType, nesting
<1>5. CASE ReadPrototype
  <2>1. graph' \in GraphState
    BY <1>2, <1>5, Declared DEF ReadPrototype, DataInv, RequestType
  <2>2. RequestType'
    BY <1>2, <1>5, <2>1 DEF ReadPrototype, DataInv, RequestType
  <2> QED BY <1>3, <1>5, <2>2, DataRests DEF ReadPrototype, DataInv, nesting
<1>6. CASE ReadObject
  <2>1. graph' \in GraphState /\ value' \in Count
    BY <1>2, <1>6, Declared, Redefined DEF ReadObject, DataInv, RequestType
  <2>2. RequestType'
    BY <1>2, <1>6, <2>1 DEF ReadObject, DataInv, RequestType
  <2>3. stage' \in {"reading", "fatal"} /\ UNCHANGED <<frame, busy, answer>>
    BY <1>1, <1>6 DEF ReadObject
  <2>4. Nested' /\ locals' \in BOOLEAN
    <3>1. CASE Item1.outcome = "fatal"
      BY <1>6, <3>1 DEF ReadObject, DataInv, Nested
    <3>2. CASE Item1.outcome # "fatal"
      BY <1>1, <1>6, <3>2 DEF ReadObject, DataInv, Nested
    <3> QED BY <3>1, <3>2
  <2>5. AtFunction'
    BY <2>3 DEF AtFunction
  <2>6. FrameType' /\ busy' \in BOOLEAN /\ answer' \in Answers \cup {None}
    BY <1>3, <2>3 DEF DataInv, FrameType
  <2> QED BY <2>2, <2>4, <2>5, <2>6 DEF DataInv
<1>7. CASE ParseFunction
  <2>1. RequestType' /\ Nested'
    BY <1>1, <1>7 DEF ParseFunction, DataInv, RequestType, Nested
  <2>2. frame' \in Frame
    <3>1. Mark(arena) \in [block : Nat, used : Nat]
      BY MarkIs
    <3>2. value[Item1.name] \in Nat
      BY <1>2 DEF DataInv, RequestType, Count
    <3> DEFINE known == Item1.name \in graph.declared
               marked == Mark(arena)
               was == value[Item1.name]
    <3>3. known \in BOOLEAN
      OBVIOUS
    <3>4. frame' = [mark |-> marked, existed |-> known, value |-> was]
      BY <1>7, Zenon DEF ParseFunction
    <3> HIDE DEF known, marked, was
    <3>5. [mark |-> marked, existed |-> known, value |-> was] \in Frame
      BY <3>1, <3>2, <3>3 DEF Frame, marked, was
    <3> QED BY <3>4, <3>5
  <2>3. AtFunction'
    BY <1>1, <1>7 DEF ParseFunction, AtFunction, More, Item1
  <2>4. FrameType'
    BY <1>7, <2>2, NoneAssumption DEF ParseFunction, FrameType
  <2> QED BY <1>7, <2>1, <2>3, <2>4 DEF ParseFunction, DataInv
<1>8. CASE SkipFunction
  <2>1. request' \in Requests /\ request'.text = request.text
    BY <1>8 DEF SkipFunction, DataInv, RequestType, Requests
  <2>2. RequestType'
    BY <1>2, <1>8, <2>1 DEF SkipFunction, DataInv, RequestType
  <2> QED BY <1>1, <1>3, <1>8, <2>2, DataRests DEF SkipFunction, DataInv, nesting
<1> QED BY <1>4, <1>5, <1>6, <1>7, <1>8

LEMMA DataFunction ==
  ASSUME DataInv,
         BeginFunction \/ RefuseFunction \/ ResolveBody \/ Commit \/ Rollback
  PROVE  DataInv'
<1>1. stage \in {"parsed function", "resolving", "resolved"}
  BY DEF BeginFunction, RefuseFunction, ResolveBody, Commit, Rollback
<1>2. More /\ frame # None /\ frame \in Frame
  BY <1>1 DEF DataInv, AtFunction, FrameType
<1>3. /\ at \in Nat /\ at + 1 \in 0 .. Len(request.text) /\ at \in 0 .. Len(request.text)
      /\ Item1.name \in Name /\ Item1.touches \subseteq Name
  BY <1>2, ItemAt DEF DataInv, RequestType
<1>4. graph \in GraphState /\ value \in Count /\ request \in Requests
  BY DEF DataInv, RequestType
<1>5. CASE BeginFunction
  <2>1. graph' \in GraphState /\ value' \in Count
    BY <1>3, <1>4, <1>5, Declared, Redefined DEF BeginFunction
  <2>2. RequestType'
    BY <1>3, <1>4, <1>5, <2>1 DEF BeginFunction, RequestType
  <2>3. Nested' /\ locals' \in BOOLEAN
    BY <1>4, <1>5 DEF BeginFunction, Nested, Transaction
  <2>4. FrameType' /\ AtFunction'
    BY <1>5 DEF BeginFunction, DataInv, FrameType, AtFunction, More, Item1
  <2> QED BY <1>5, <2>2, <2>3, <2>4 DEF BeginFunction, DataInv
<1>6. CASE RefuseFunction
  BY <1>6, DataRests DEF RefuseFunction, DataInv, RequestType
<1>7. CASE ResolveBody
  <2>1. globals \in Transaction /\ globals # Abandoned /\ globals # None
    BY <1>7, NoneAssumption DEF ResolveBody, DataInv, Nested
  <2>2. graph' \in GraphState /\ value' \in Count
    BY <1>3, <1>4, <1>7, Redefined DEF ResolveBody, GraphState
  <2>3. RequestType'
    BY <1>3, <1>4, <1>7, <2>2 DEF ResolveBody, RequestType
  <2>4. Noted(Item1.touches) \in Transaction
    BY <1>4, <2>1 DEF Noted, Transaction, Count
  <2>5. CASE Item1.outcome = "fatal"
    BY <1>7, <2>3, <2>5 DEF ResolveBody, DataInv, Nested, FrameType, AtFunction
  <2>6. CASE Item1.outcome # "fatal"
    <3>1. Nested' /\ FrameType'
      BY <1>7, <2>4, <2>6 DEF ResolveBody, DataInv, Nested, FrameType
    <3>2. AtFunction'
      BY <1>1, <1>7 DEF ResolveBody, DataInv, AtFunction, More, Item1
    <3> QED BY <1>7, <2>3, <3>1, <3>2 DEF ResolveBody, DataInv
  <2> QED BY <2>5, <2>6
<1>8. CASE Commit
  <2>1. graph' \in GraphState
    BY <1>4, <1>8 DEF Commit, GraphState
  <2>2. RequestType'
    BY <1>3, <1>4, <1>8, <2>1 DEF Commit, RequestType
  <2> QED BY <1>8, <2>2 DEF Commit, DataInv, Nested, FrameType, AtFunction
<1>9. CASE Rollback
  <2>1. globals \in Transaction
    BY <1>9 DEF Rollback, DataInv, Nested
  <2>2. graph' \in GraphState
    BY <1>9, <2>1 DEF Rollback, Transaction
  <2>3. Restored \in Count
    <3>1. frame.value \in Nat
      BY <1>2 DEF Frame
    <3>2. \A n \in Name : value[n] \in Nat /\ globals.saved[n] \in Nat \cup {None}
      BY <1>4, <2>1 DEF Count, Transaction
    <3> QED BY <3>1, <3>2 DEF Restored, Count
  <2>4. RequestType'
    BY <1>3, <1>4, <1>9, <2>2, <2>3 DEF Rollback, RequestType
  <2> QED BY <1>9, <2>4 DEF Rollback, DataInv, Nested, FrameType, AtFunction
<1> QED BY <1>5, <1>6, <1>7, <1>8, <1>9

(* The update.                                                             *)
UpdateInv ==
  /\ index \in Index \cup {None} /\ pending \in Index \cup {None}
  /\ update \in Updates \cup {None}
  /\ update # None =>
       /\ pending # None /\ pending.revision = update.revision
       /\ Len(pending.read) < Len(Project[update.revision])
       /\ index # None => index.revision # update.revision

LEMMA Updating ==
  ASSUME UpdateInv, update # None
  PROVE  /\ update.revision \in DOMAIN Project
         /\ pending \in Index /\ Len(pending.read) \in Nat
         /\ Project[update.revision] \in Seq(Text)
         /\ NextSource \in DOMAIN Project[update.revision]
<1>1. update \in Updates /\ pending \in Index /\ Len(pending.read) < Len(Project[update.revision])
  BY DEF UpdateInv
<1>2. update.revision \in DOMAIN Project
  BY <1>1 DEF Updates
<1>3. Project[update.revision] \in Seq(Text)
  BY <1>2, ProjectAssumption
<1>4. pending.read \in Seq(BOOLEAN)
  BY <1>1 DEF Index
<1>5. Len(pending.read) \in Nat
  BY <1>4
<1>6. NextSource \in DOMAIN Project[update.revision]
  BY <1>1, <1>3, <1>5 DEF NextSource
<1> QED BY <1>1, <1>2, <1>3, <1>5, <1>6

LEMMA Started ==
  ASSUME NEW revision \in DOMAIN Project
  PROVE  /\ Empty(revision) \in Index /\ Empty(revision).revision = revision
         /\ Len(Empty(revision).read) = 0 /\ Len(Project[revision]) \in Nat
         /\ Len(Project[revision]) > 0
<1>1. [n \in Name |-> None] \in [Name -> (SUBSET Nat) \cup {None}]
  OBVIOUS
<1>2. <<>> \in Seq(BOOLEAN)
  OBVIOUS
<1>3. Project[revision] \in Seq(Text) /\ Project[revision] # <<>>
  BY ProjectAssumption
<1> QED BY <1>1, <1>2, <1>3 DEF Empty, Index

(* What a merged source adds.                                              *)
Next1 ==
  [pending EXCEPT !.functions = Merged(@, answer, NextSource),
                  !.read = Append(@, answer.open)]

LEMMA Merges ==
  ASSUME UpdateInv, DataInv, update # None, answer # None
  PROVE  /\ Next1 \in Index /\ Next1.revision = update.revision
         /\ Next1.functions = Merged(pending.functions, answer, NextSource)
         /\ Next1.read = Append(pending.read, answer.open)
         /\ Len(Next1.read) = NextSource
<1>1. pending \in Index /\ Len(pending.read) \in Nat
  BY Updating
<1>2. answer \in Answers
  BY DEF DataInv
<1>3. pending.functions \in [Name -> (SUBSET Nat) \cup {None}] /\ pending.read \in Seq(BOOLEAN)
  BY <1>1 DEF Index
<1>4. NextSource \in Nat
  BY <1>1 DEF NextSource
<1>5. Merged(pending.functions, answer, NextSource) \in [Name -> (SUBSET Nat) \cup {None}]
  BY <1>3, <1>4 DEF Merged
<1>6. /\ Append(pending.read, answer.open) \in Seq(BOOLEAN)
      /\ Len(Append(pending.read, answer.open)) = NextSource
  BY <1>2, <1>3 DEF Answers, NextSource
<1>7. /\ Next1.functions = Merged(pending.functions, answer, NextSource)
      /\ Next1.read = Append(pending.read, answer.open)
      /\ Next1.revision = pending.revision
  BY <1>1 DEF Next1, Index
<1>8. Next1 \in Index
  BY <1>1, <1>5, <1>6 DEF Next1, Index
<1> QED BY <1>6, <1>7, <1>8 DEF UpdateInv

LEMMA UpdateProject ==
  ASSUME UpdateInv, DataInv, [ProjectNext]_projectVars
  PROVE  UpdateInv'
<1>1. ASSUME UNCHANGED <<index, pending>>, update' \in {update, None}
      PROVE  UpdateInv'
  BY <1>1 DEF UpdateInv
<1>2. ASSUME NEW revision \in DOMAIN Project, StartUpdate(revision)
      PROVE  UpdateInv'
  <2>1. CASE index # None /\ index.revision = revision
    BY <1>2, <2>1 DEF StartUpdate, UpdateInv
  <2>2. CASE ~(index # None /\ index.revision = revision)
    <3> DEFINE u == [revision |-> revision, asked |-> FALSE]
    <3>1. u \in Updates /\ u.revision = revision
      BY DEF Updates
    <3>2. /\ index' = index /\ pending' = Empty(revision) /\ update' = u
      BY <1>2, <2>2 DEF StartUpdate
    <3> HIDE DEF u
    <3> QED BY <2>2, <3>1, <3>2, Started, NoIndexAssumption DEF UpdateInv
  <2> QED BY <2>1, <2>2
<1>3. CASE RefuseUpdate \/ AbortUpdate
  BY <1>3 DEF RefuseUpdate, AbortUpdate, UpdateInv
<1>4. CASE AnalyzeSource
  <2>1. update \in Updates /\ update # None
    BY <1>4 DEF AnalyzeSource, UpdateInv
  <2>2. update' \in Updates /\ update'.revision = update.revision
    BY <1>4, <2>1 DEF AnalyzeSource, Updates
  <2> QED BY <1>4, <2>1, <2>2 DEF AnalyzeSource, UpdateInv
<1>5. CASE MergeSource
  <2>1. update \in Updates /\ update # None /\ answer # None
    BY <1>5 DEF MergeSource, SourceReturned, UpdateInv
  <2>2. /\ Next1 \in Index /\ Next1.revision = update.revision
        /\ Len(Next1.read) = NextSource
        /\ NextSource \in DOMAIN Project[update.revision]
        /\ Project[update.revision] \in Seq(Text)
    BY <2>1, Merges, Updating
  <2>3. IF Len(Next1.read) = Len(Project[update.revision])
        THEN index' = Next1 /\ pending' = None /\ update' = None
        ELSE index' = index /\ pending' = Next1
             /\ update' = [update EXCEPT !.asked = FALSE]
    BY <1>5 DEF MergeSource, Next1
  <2>4. CASE Len(Next1.read) = Len(Project[update.revision])
    BY <2>2, <2>3, <2>4 DEF UpdateInv
  <2>5. CASE Len(Next1.read) # Len(Project[update.revision])
    <3>1. update' \in Updates /\ update'.revision = update.revision
      BY <2>1, <2>3, <2>5 DEF Updates
    <3>2. Len(Next1.read) < Len(Project[update.revision])
      BY <2>2, <2>5
    <3>3. pending' = Next1 /\ index' = index
      BY <2>3, <2>5
    <3> QED BY <2>1, <2>2, <3>1, <3>2, <3>3, NoIndexAssumption DEF UpdateInv
  <2> QED BY <2>4, <2>5
<1>6. CASE Work \/ RetryBetween \/ DiscardBetween \/ CompileBetween \/ TrapUpdate
           \/ \E text \in Text : Ask(text)
  BY <1>1, <1>6 DEF Work, RetryBetween, DiscardBetween, CompileBetween, TrapUpdate, Ask, project
<1>7. CASE UNCHANGED projectVars
  BY <1>1, <1>7 DEF projectVars, project
<1> QED BY <1>2, <1>3, <1>4, <1>5, <1>6, <1>7 DEF ProjectNext, ProjectStep, UpdateStep

LEMMA DataProject ==
  ASSUME DataInv, Arena(arena), HeapInv, UpdateInv, [ProjectNext]_projectVars
  PROVE  DataInv'
<1>1. CASE UNCHANGED vars
  <2>1. UNCHANGED <<stage, request, at, graph, value, globals, locals, frame, busy, answer>>
    BY <1>1 DEF vars, tables, nesting
  <2> QED BY <2>1 DEF DataInv, RequestType, Nested, FrameType, AtFunction, More, Item1
<1>2. CASE Work
  BY <1>2, DataBefore, DataAfter, DataItems, DataFunction DEF Work, AnalysisStep
<1>3. CASE RetryBetween \/ TrapUpdate
  BY <1>3, DataAfter DEF RetryBetween, TrapUpdate
<1>4. ASSUME NEW text \in Text, Request(text)
      PROVE  DataInv'
  <2>1. request' \in Requests /\ request'.text = text /\ at' = 0 /\ Len(text) \in Nat
    BY <1>4, EmptyRequest, TextLen DEF Request
  <2>2. graph' \in GraphState /\ value' \in Count
    BY <1>4, EmptyTables DEF Request, ResetTables
  <2>3. RequestType'
    BY <2>1, <2>2 DEF RequestType
  <2>4. frame' = None
    BY <1>4, NoFrame DEF Request, nesting
  <2> QED BY <1>4, <2>3, <2>4, DataRests DEF Request, nesting, DataInv
<1>5. CASE DiscardBetween \/ CompileBetween
  <2>1. stage \in {"idle", "failed"} /\ stage' = "idle" /\ UNCHANGED <<request, at, frame, answer>>
    BY <1>5 DEF DiscardBetween, Discard, CompileBetween, Compile
  <2>2. graph' \in GraphState /\ value' \in Count
    BY <1>5, EmptyTables DEF DiscardBetween, Discard, CompileBetween, Compile, NewSession
  <2>3. RequestType'
    BY <2>1, <2>2 DEF DataInv, RequestType
  <2>4. /\ globals' \in {None, Abandoned} /\ locals' \in BOOLEAN /\ busy' \in BOOLEAN
        /\ locals' => globals' = Abandoned
    BY <1>5 DEF DiscardBetween, Discard, CompileBetween, Compile
  <2> QED BY <2>1, <2>3, <2>4 DEF DataInv, Nested, FrameType, AtFunction
<1>6. CASE AnalyzeSource
  <2>1. Project[update.revision][NextSource] \in Text
    <3>1. update # None
      BY <1>6 DEF AnalyzeSource
    <3> QED BY <3>1, Updating
  <2> QED BY <1>4, <1>6, <2>1 DEF AnalyzeSource
<1>7. CASE MergeSource \/ AbortUpdate
  <2>1. Disposed /\ stage \in {"idle", "failed"}
    BY <1>7 DEF MergeSource, AbortUpdate, SourceReturned
  <2>2. RequestType'
    BY <2>1 DEF Disposed, tables, DataInv, RequestType
  <2>3. frame' = None
    BY <2>1, NoFrame DEF Disposed, nesting
  <2> QED BY <2>1, <2>2, <2>3, DataRests DEF Disposed, nesting, DataInv
<1>8. CASE RefuseUpdate \/ \E revision \in DOMAIN Project : StartUpdate(revision)
  BY <1>1, <1>8 DEF RefuseUpdate, StartUpdate
<1> QED BY <1>1, <1>2, <1>3, <1>4, <1>5, <1>6, <1>7, <1>8
        DEF ProjectNext, ProjectStep, UpdateStep, projectVars, Ask

-----------------------------------------------------------------------------
(* The trees of the items that were kept.                                  *)
TreesIn(text, i) ==
  IF text[i].kind # "function" THEN <<i>>
  ELSE IF text[i].outcome = "malformed" THEN <<>> ELSE <<i, i>>

KeptTrees(text, n) == FlattenSeq([i \in 1 .. n |-> TreesIn(text, i)])

LEMMA TreesInType ==
  ASSUME NEW text, NEW i \in Nat
  PROVE  TreesIn(text, i) \in Seq(Nat)
<1>1. <<i>> \in Seq(Nat) /\ <<i, i>> \in Seq(Nat) /\ <<>> \in Seq(Nat)
  OBVIOUS
<1> QED BY <1>1, Zenon DEF TreesIn

LEMMA KeptType ==
  ASSUME NEW text, NEW n \in Nat
  PROVE  /\ [i \in 1 .. n |-> TreesIn(text, i)] \in Seq(Seq(Nat))
         /\ KeptTrees(text, n) \in Seq(Nat)
<1> DEFINE S == Seq(Nat)
           T(i) == TreesIn(text, i)
           s == [i \in 1 .. n |-> T(i)]
<1>1. \A i \in 1 .. n : T(i) \in S
  BY TreesInType
<1>2. s \in Seq(S)
  <2> HIDE DEF S, T
  <2> QED BY <1>1
<1>3. FlattenSeq(s) \in Seq(Nat)
  BY <1>2, FlattenType
<1> QED BY <1>2, <1>3 DEF KeptTrees

LEMMA KeptNone ==
  ASSUME NEW text
  PROVE  KeptTrees(text, 0) = <<>>
<1> DEFINE T(i) == TreesIn(text, i)
<1>1. [i \in 1 .. 0 |-> T(i)] = <<>>
  <2> HIDE DEF T
  <2> QED OBVIOUS
<1> QED BY <1>1, FlattenEmpty DEF KeptTrees

LEMMA KeptGrows ==
  ASSUME NEW text, NEW n \in Nat
  PROVE  KeptTrees(text, n + 1) = KeptTrees(text, n) \o TreesIn(text, n + 1)
<1> DEFINE S == Seq(Nat)
           T(i) == TreesIn(text, i)
           s == [i \in 1 .. n |-> T(i)]
           t == [i \in 1 .. n + 1 |-> T(i)]
<1>1. s \in Seq(S) /\ t \in Seq(S) /\ T(n + 1) \in S
  BY KeptType, TreesInType
<1>2. t = Append(s, T(n + 1))
  <2> HIDE DEF S, T
  <2>1. /\ Append(s, T(n + 1)) \in Seq(S) /\ Len(s) = n /\ Len(t) = n + 1
        /\ Len(Append(s, T(n + 1))) = n + 1
    BY <1>1
  <2>2. \A i \in 1 .. n + 1 : t[i] = Append(s, T(n + 1))[i]
    OBVIOUS
  <2> QED BY <1>1, <2>1, <2>2, SameSeq
<1>3. FlattenSeq(t) = FlattenSeq(s) \o T(n + 1)
  BY <1>1, <1>2, FlattenAppend
<1> QED BY <1>3 DEF KeptTrees

LEMMA Twice ==
  ASSUME NEW u \in Seq(Nat), NEW i \in Nat
  PROVE  u \o <<>> = u /\ (u \o <<i>>) \o <<i>> = u \o <<i, i>>
OBVIOUS

-----------------------------------------------------------------------------
(* The arena of a parse.                                                   *)
Before == {"checked", "documented", "rewritten", "ready", "opened"}
InFunction == {"parsed function", "resolving", "resolved"}

Own == IF stage = "resolved" THEN <<at + 1, at + 1>> ELSE <<at + 1>>

ArenaInv ==
  /\ Arena(arena)
  /\ stage \in Before => arena = NoBlocks /\ at = 0
  /\ stage \in {"reading", "ending"} => Trees(arena) = KeptTrees(request.text, at)
  /\ stage \in InFunction =>
       /\ MarkOf(arena, frame.mark)
       /\ Trees(RolledBack(arena, frame.mark)) = KeptTrees(request.text, at)
       /\ Trees(arena) = KeptTrees(request.text, at) \o Own

LEMMA ArenaRests ==
  ASSUME Arena(arena), arena' \in {arena, NoBlocks},
         stage' \in {"idle", "failed", "parsed", "fatal"}
           \/ (stage' \in Before /\ arena' = NoBlocks /\ at' = 0)
  PROVE  ArenaInv'
<1>1. Arena(arena')
  BY NoBlocksArena
<1> QED BY <1>1 DEF ArenaInv, Before, InFunction

LEMMA ArenaBefore ==
  ASSUME ArenaInv,
         Refuse \/ Document \/ Rewrite \/ RewriteFails \/ Create \/ CreateFails
           \/ OpenStream \/ OpenFails \/ BeginStream \/ EndStream
  PROVE  ArenaInv'
<1> USE DEF tables, Failed
<1>1. Arena(arena)
  BY DEF ArenaInv
<1>2. CASE Refuse \/ OpenFails \/ RewriteFails \/ CreateFails \/ EndStream
  BY <1>1, <1>2, ArenaRests DEF Refuse, OpenFails, RewriteFails, CreateFails, EndStream, ResetTables
<1>3. CASE Document \/ Rewrite \/ Create \/ OpenStream
  BY <1>1, <1>3, ArenaRests DEF Document, Rewrite, Create, OpenStream, ArenaInv, Before
<1>4. CASE BeginStream
  <2>1. arena = NoBlocks /\ at = 0 /\ UNCHANGED <<arena, at, request>> /\ stage' = "reading"
    BY <1>4 DEF BeginStream, ArenaInv, Before
  <2> QED BY <1>1, <2>1, KeptNone, NoBlocksArena DEF ArenaInv, Before, InFunction
<1> QED BY <1>2, <1>3, <1>4

LEMMA ArenaAfter ==
  ASSUME ArenaInv,
         Recover \/ Reparse \/ RetryFailed \/ RetryAtCursor \/ Answer \/ BuilderFails \/ Trap
  PROVE  ArenaInv'
<1> USE DEF tables, Failed, ResetTables
<1>1. Arena(arena)
  BY DEF ArenaInv
<1>2. CASE Recover \/ Answer \/ BuilderFails \/ Trap
  BY <1>1, <1>2, ArenaRests DEF Recover, Answer, BuilderFails, Trap
<1>3. CASE Reparse \/ RetryFailed \/ RetryAtCursor
  BY <1>1, <1>3, ArenaRests DEF Reparse, RetryFailed, RetryAtCursor, Retry, Before
<1> QED BY <1>2, <1>3

LEMMA ArenaItems ==
  ASSUME ArenaInv, DataInv,
         Unreadable \/ ReadPrototype \/ ReadObject \/ ParseFunction \/ SkipFunction
  PROVE  ArenaInv'
<1>1. stage = "reading" /\ More
  BY DEF Unreadable, ReadPrototype, ReadObject, ParseFunction, SkipFunction
<1>2. at \in Nat /\ at + 1 \in Nat
  BY <1>1, ItemAt
<1> DEFINE kept == KeptTrees(request.text, at)
           all == Alloc(arena, at + 1)
<1>3. Arena(arena) /\ Trees(arena) = kept /\ kept \in Seq(Nat)
  BY <1>1, <1>2, KeptType DEF ArenaInv
<1>4. Grown(arena, all, at + 1)
  BY <1>2, <1>3, AllocGrows
<1>5. Arena(all) /\ Trees(all) = kept \o <<at + 1>>
  BY <1>3, <1>4 DEF Grown
<1>6. KeptTrees(request.text, at + 1) = kept \o TreesIn(request.text, at + 1)
  BY <1>2, KeptGrows
<1>7. MarkOf(arena, Mark(arena)) /\ RolledBack(arena, Mark(arena)) = arena
  BY <1>3, MarkIs
<1>8. MarkOf(all, Mark(arena)) /\ RolledBack(all, Mark(arena)) = arena
  BY <1>3, <1>4, <1>7, MarkStays
<1> HIDE DEF kept, all
<1>9. CASE Unreadable \/ (ReadObject /\ Item1.outcome = "fatal")
  <2>1. stage' = "fatal" /\ arena' = all
    BY <1>9 DEF Unreadable, ReadObject, all
  <2> QED BY <1>5, <2>1 DEF ArenaInv, Before, InFunction
<1>10. CASE ReadPrototype \/ (ReadObject /\ Item1.outcome # "fatal")
  <2>1. stage' = "reading" /\ arena' = all /\ at' = at + 1 /\ request' = request
    BY <1>1, <1>10 DEF ReadPrototype, ReadObject, all
  <2>2. Item1.kind # "function"
    BY <1>10 DEF ReadPrototype, ReadObject
  <2>3. TreesIn(request.text, at + 1) = <<at + 1>>
    BY <2>2 DEF TreesIn, Item1
  <2>4. Trees(arena') = KeptTrees(request.text, at + 1)
    BY <1>5, <1>6, <2>1, <2>3
  <2> QED BY <1>5, <2>1, <2>4 DEF ArenaInv, Before, InFunction
<1>11. CASE ParseFunction
  <2>1. /\ stage' = "parsed function" /\ arena' = all /\ at' = at /\ request' = request
        /\ frame'.mark = Mark(arena)
    BY <1>11 DEF ParseFunction, all
  <2>2. Own' = <<at + 1>>
    BY <2>1 DEF Own
  <2>3. /\ MarkOf(arena', frame'.mark)
        /\ Trees(RolledBack(arena', frame'.mark)) = kept
        /\ Trees(arena') = kept \o Own'
    BY <1>3, <1>5, <1>8, <2>1, <2>2
  <2> QED BY <1>5, <2>1, <2>3 DEF ArenaInv, Before, InFunction, kept
<1>12. CASE SkipFunction
  <2>1. arena' = arena /\ request'.text = request.text
    BY <1>8, <1>12 DEF SkipFunction, all, DataInv, RequestType, Requests
  <2>2. CASE Item1.outcome = "malformed"
    <3>1. stage' = "reading" /\ at' = at + 1
      BY <1>1, <1>12, <2>2 DEF SkipFunction
    <3>2. TreesIn(request.text, at + 1) = <<>>
      BY <1>12, <2>2 DEF SkipFunction, TreesIn, Item1
    <3>3. KeptTrees(request.text, at + 1) = kept
      BY <1>3, <1>6, <3>2, Twice, <1>2
    <3>4. Trees(arena') = KeptTrees(request'.text, at')
      BY <1>3, <2>1, <3>1, <3>3
    <3> QED BY <1>3, <2>1, <3>1, <3>4 DEF ArenaInv, Before, InFunction
  <2>3. CASE Item1.outcome # "malformed"
    <3>1. stage' = "ending" /\ at' = at
      BY <1>12, <2>3 DEF SkipFunction
    <3>2. Trees(arena') = KeptTrees(request'.text, at')
      BY <1>3, <2>1, <3>1 DEF kept
    <3> QED BY <1>3, <2>1, <3>1, <3>2 DEF ArenaInv, Before, InFunction
  <2> QED BY <2>2, <2>3
<1> QED BY <1>9, <1>10, <1>11, <1>12

LEMMA ArenaFunction ==
  ASSUME ArenaInv, DataInv,
         BeginFunction \/ RefuseFunction \/ ResolveBody \/ Commit \/ Rollback
  PROVE  ArenaInv'
<1>1. stage \in InFunction
  BY DEF BeginFunction, RefuseFunction, ResolveBody, Commit, Rollback, InFunction
<1>2. More /\ Item1.kind = "function" /\ Item1.outcome # "malformed"
  BY <1>1 DEF DataInv, AtFunction, InFunction
<1>3. at \in Nat /\ at + 1 \in Nat
  BY <1>2, ItemAt
<1> DEFINE kept == KeptTrees(request.text, at)
           back == RolledBack(arena, frame.mark)
<1>4. /\ Arena(arena) /\ MarkOf(arena, frame.mark) /\ Trees(back) = kept
      /\ Trees(arena) = kept \o Own /\ kept \in Seq(Nat)
  BY <1>1, <1>3, KeptType DEF ArenaInv
<1>5. Arena(back)
  BY <1>4, RollsBack
<1> HIDE DEF kept, back
<1>6. CASE BeginFunction
  <2>1. /\ stage = "parsed function" /\ stage' = "resolving"
        /\ UNCHANGED <<arena, at, request, frame>>
    BY <1>6 DEF BeginFunction
  <2>2. Own' = Own
    BY <2>1 DEF Own
  <2> QED BY <1>4, <2>1, <2>2 DEF ArenaInv, Before, InFunction, kept, back
<1>7. CASE RefuseFunction \/ Rollback
  <2>1. stage' = "ending" /\ arena' = back /\ UNCHANGED <<at, request>>
    BY <1>7 DEF RefuseFunction, Rollback, back
  <2> QED BY <1>4, <1>5, <2>1 DEF ArenaInv, Before, InFunction, kept
<1>8. CASE ResolveBody
  <2>1. /\ stage = "resolving" /\ arena' = Alloc(arena, at + 1)
        /\ stage' \in {"fatal", "resolved"} /\ UNCHANGED <<at, request, frame>>
    BY <1>8 DEF ResolveBody
  <2>2. Grown(arena, arena', at + 1)
    BY <1>3, <1>4, <2>1, AllocGrows
  <2>3. Arena(arena') /\ Trees(arena') = Trees(arena) \o <<at + 1>>
    BY <2>2 DEF Grown
  <2>4. CASE stage' = "fatal"
    BY <2>3, <2>4 DEF ArenaInv, Before, InFunction
  <2>5. CASE stage' = "resolved"
    <3>1. Own = <<at + 1>> /\ Own' = <<at + 1, at + 1>>
      BY <2>1, <2>5 DEF Own
    <3>2. Trees(arena') = kept \o Own'
      BY <1>3, <1>4, <2>3, <3>1, Twice
    <3>3. MarkOf(arena', frame.mark) /\ RolledBack(arena', frame.mark) = back
      BY <1>4, <2>2, MarkStays DEF back
    <3> QED BY <1>4, <2>1, <2>3, <2>5, <3>2, <3>3 DEF ArenaInv, Before, InFunction, kept
  <2> QED BY <2>1, <2>4, <2>5
<1>9. CASE Commit
  <2>1. /\ stage = "resolved" /\ stage' = "reading" /\ at' = at + 1
        /\ UNCHANGED <<request, arena>>
    BY <1>9 DEF Commit
  <2>2. Own = TreesIn(request.text, at + 1)
    BY <1>2, <2>1 DEF Own, TreesIn, Item1
  <2>3. Trees(arena) = KeptTrees(request.text, at + 1)
    BY <1>3, <1>4, <2>2, KeptGrows DEF kept
  <2> QED BY <1>4, <2>1, <2>3 DEF ArenaInv, Before, InFunction
<1> QED BY <1>6, <1>7, <1>8, <1>9

LEMMA ArenaProject ==
  ASSUME ArenaInv, DataInv, UpdateInv, [ProjectNext]_projectVars
  PROVE  ArenaInv'
<1>1. CASE UNCHANGED vars
  <2>1. UNCHANGED <<stage, request, at, frame, arena>>
    BY <1>1 DEF vars, tables, nesting
  <2> QED BY <2>1 DEF ArenaInv, Own
<1>2. CASE Work
  BY <1>2, ArenaBefore, ArenaAfter, ArenaItems, ArenaFunction DEF Work, AnalysisStep
<1>3. CASE RetryBetween \/ TrapUpdate
  BY <1>3, ArenaAfter DEF RetryBetween, TrapUpdate
<1>4. Arena(arena)
  BY DEF ArenaInv
<1>5. ASSUME NEW text, Request(text)
      PROVE  ArenaInv'
  BY <1>4, <1>5, ArenaRests DEF Request, ResetTables, Before
<1>6. CASE DiscardBetween \/ CompileBetween
  BY <1>4, <1>6, ArenaRests
  DEF DiscardBetween, Discard, CompileBetween, Compile, NewSession
<1>7. CASE MergeSource \/ AbortUpdate
  BY <1>4, <1>7, ArenaRests DEF MergeSource, AbortUpdate, Disposed, tables
<1>8. CASE RefuseUpdate \/ \E revision \in DOMAIN Project : StartUpdate(revision)
  BY <1>1, <1>8 DEF RefuseUpdate, StartUpdate
<1> QED BY <1>1, <1>2, <1>3, <1>5, <1>6, <1>7, <1>8
        DEF ProjectNext, ProjectStep, UpdateStep, projectVars, Ask, AnalyzeSource

-----------------------------------------------------------------------------
(* What an analysis says of a text, by the items it has read.              *)

LEMMA MinIs ==
  ASSUME NEW T, T \subseteq Nat, NEW m \in T, \A y \in T : m <= y
  PROVE  Min(T) = m
<1> DEFINE w == Min(T)
<1>1. w \in T /\ \A y \in T : w <= y
  BY LeastOf, Zenon DEF Min
<1> HIDE DEF w
<1>2. w \in Nat /\ m \in Nat /\ w <= m /\ m <= w
  BY <1>1
<1>3. w = m
  BY <1>2
<1> QED BY <1>3 DEF w

LEMMA GreatestOf ==
  ASSUME NEW k \in Nat, NEW T, T \subseteq 1 .. k, T # {}
  PROVE  \E m \in T : \A y \in T : y <= m
<1> DEFINE U == {u \in Nat : \A y \in T : y <= u}
<1>1. k \in U
  OBVIOUS
<1>2. PICK m \in U : \A u \in U : m <= u
  BY <1>1, LeastOf
<1>3. m \in Nat /\ (\A y \in T : y <= m) /\ \A y \in T : y \in Nat /\ y >= 1
  BY <1>2
<1>4. m \in T
  <2> SUFFICES ASSUME m \notin T
               PROVE  FALSE
    OBVIOUS
  <2>1. PICK z : z \in T
    OBVIOUS
  <2>2. m >= 1 /\ m - 1 \in Nat
    BY <1>3, <2>1
  <2>3. \A y \in T : y <= m - 1
    BY <1>3, <2>2
  <2>4. m - 1 \in U
    BY <2>2, <2>3
  <2> QED BY <1>2, <1>3, <2>2, <2>4
<1> QED BY <1>3, <1>4

LEMMA MaxIs ==
  ASSUME NEW T, T \subseteq Nat, NEW m \in T, \A y \in T : y <= m
  PROVE  Max(T) = m
<1> DEFINE w == Max(T)
<1>1. \A y \in T : m >= y
  <2>1. \A y \in T : y \in Nat /\ m \in Nat
    OBVIOUS
  <2> QED BY <2>1
<1>2. w \in T /\ \A y \in T : w >= y
  BY <1>1, Zenon DEF Max
<1> HIDE DEF w
<1>3. w \in Nat /\ m \in Nat /\ w <= m /\ m <= w
  BY <1>2
<1>4. w = m
  BY <1>3
<1> QED BY <1>4 DEF w

KeptTo(text, k) == {i \in 1 .. k : text[i].outcome # "malformed"}

FunctionsTo(text, k) == {i \in KeptTo(text, k) : text[i].kind = "function"}

LeftAt(text, open, k) ==
  IF /\ k \in DOMAIN text /\ text[k].outcome = "fatal"
     /\ ~(open /\ text[k].kind = "function")
  THEN {k} ELSE {}

Names(text, P) == {text[i].name : i \in P}
Touched(text, P) == UNION {text[i].touches : i \in P}

CountOf(text, P, n) ==
  Cardinality({i \in P : text[i].name = n /\ text[i].kind # "prototype"})
  + Cardinality({i \in P : n \in text[i].touches})

(* The first k items are read, and the next one, if any, ends the analysis. *)
Ended(text, open, k) ==
  /\ \A i \in 1 .. k : ~Ends(text, open, i)
  /\ k < Len(text) => Ends(text, open, k + 1)

(* The function whose inside is in sight.                                  *)
SeenIs(text, k, seen) ==
  /\ FunctionsTo(text, k) = {} => seen = None
  /\ \A m \in FunctionsTo(text, k) :
       (\A i \in FunctionsTo(text, k) : i <= m) => seen = text[m].touches

Sight(text, k, visible, seen, inner) ==
  visible \cup (IF ~(k < Len(text)) THEN {} ELSE IF seen # None THEN seen ELSE inner)

LEMMA EndIs ==
  ASSUME NEW text \in Text \cup {<<>>}, NEW open, NEW k \in 0 .. Len(text), Ended(text, open, k)
  PROVE  Min({i \in DOMAIN text : Ends(text, open, i)} \cup {Len(text) + 1}) = k + 1
<1> DEFINE E(i) == Ends(text, open, i)
           T == {i \in DOMAIN text : E(i)} \cup {Len(text) + 1}
<1>1. Len(text) \in Nat /\ DOMAIN text = 1 .. Len(text)
  BY TextLen
<1>2. (\A i \in 1 .. k : ~E(i)) /\ (k < Len(text) => E(k + 1))
  BY DEF Ended
<1> HIDE DEF E
<1>3. T \subseteq Nat /\ k \in Nat
  BY <1>1
<1>4. k + 1 \in T
  BY <1>1, <1>2, <1>3
<1>5. \A y \in T : k + 1 <= y
  BY <1>1, <1>2, <1>3
<1> HIDE DEF T
<1>6. Min(T) = k + 1
  BY <1>3, <1>4, <1>5, MinIs
<1> QED BY <1>6 DEF T, E

LEMMA ExpectedIs ==
  ASSUME NEW text \in Text \cup {<<>>}, NEW open, NEW k \in 0 .. Len(text), Ended(text, open, k),
         NEW seen, SeenIs(text, k, seen)
  PROVE  LET P == KeptTo(text, k) \cup LeftAt(text, open, k + 1)
             sight == Sight(text, k, Names(text, P), seen,
                            Touched(text, LeftAt(text, open, k + 1)))
         IN  Expected(text, open)
               = [n \in Name |-> IF n \in sight THEN CountOf(text, P, n) ELSE None]
<1> DEFINE End == Min({i \in DOMAIN text : Ends(text, open, i)} \cup {Len(text) + 1})
           Kept == {i \in 1 .. End - 1 : text[i].outcome # "malformed"}
           Left == IF End \in DOMAIN text /\ text[End].outcome = "fatal"
                      /\ ~(open /\ text[End].kind = "function")
                   THEN {End} ELSE {}
           Functions == {i \in Kept : text[i].kind = "function"}
           Said(n) == {i \in Kept \cup Left : text[i].name = n}
           Count1(n) == Cardinality({i \in Said(n) : text[i].kind # "prototype"})
                        + Cardinality({i \in Kept \cup Left : n \in text[i].touches})
           Scope == IF End > Len(text) THEN {}
                    ELSE IF Functions # {} THEN {Max(Functions)} ELSE Left
           InSight1(n) == Said(n) # {} \/ \E i \in Scope : n \in text[i].touches
           L == LeftAt(text, open, k + 1)
           P == KeptTo(text, k) \cup L
           sight == Sight(text, k, Names(text, P), seen, Touched(text, L))
<1>1. Expected(text, open) = [n \in Name |-> IF InSight1(n) THEN Count1(n) ELSE None]
  BY Zenon DEF Expected
<1>2. End = k + 1
  BY EndIs
<1> HIDE DEF End
<1>3. k \in Nat /\ End - 1 = k /\ Len(text) \in Nat
  BY <1>2, TextLen
<1>4. Kept = KeptTo(text, k) /\ Left = L /\ Functions = FunctionsTo(text, k)
  BY <1>2, <1>3 DEF KeptTo, LeftAt, FunctionsTo
<1>5. Kept \cup Left = P
  BY <1>4
<1> HIDE DEF Kept, Left, Functions, P, L
<1>6. ASSUME NEW n \in Name
      PROVE  Count1(n) = CountOf(text, P, n) /\ (Said(n) # {} <=> n \in Names(text, P))
  <2>1. {i \in Said(n) : text[i].kind # "prototype"}
          = {i \in P : text[i].name = n /\ text[i].kind # "prototype"}
    BY <1>5
  <2>2. {i \in Kept \cup Left : n \in text[i].touches} = {i \in P : n \in text[i].touches}
    BY <1>5
  <2>3. Count1(n) = CountOf(text, P, n)
    BY <2>1, <2>2, Zenon DEF CountOf
  <2>4. Said(n) # {} <=> n \in Names(text, P)
    BY <1>5 DEF Names
  <2> QED BY <2>3, <2>4
<1>7. ASSUME NEW n \in Name
      PROVE  (\E i \in Scope : n \in text[i].touches)
               <=> n \in (IF ~(k < Len(text)) THEN {}
                          ELSE IF seen # None THEN seen ELSE Touched(text, L))
  <2>1. CASE ~(k < Len(text))
    <3>1. Scope = {}
      BY <1>2, <1>3, <2>1
    <3> QED BY <2>1, <3>1
  <2>2. CASE k < Len(text) /\ Functions = {}
    <3>1. Scope = L /\ seen = None
      BY <1>2, <1>3, <1>4, <2>2 DEF SeenIs
    <3> QED BY <2>2, <3>1 DEF Touched
  <2>3. CASE k < Len(text) /\ Functions # {}
    <3>1. Functions \subseteq 1 .. k
      BY <1>4 DEF FunctionsTo, KeptTo
    <3>2. PICK m \in Functions : \A y \in Functions : y <= m
      BY <1>3, <2>3, <3>1, GreatestOf
    <3>3. Functions \subseteq Nat
      BY <3>1
    <3>4. Max(Functions) = m
      BY <3>2, <3>3, MaxIs
    <3>5. Scope = {m} /\ seen = text[m].touches
      BY <1>2, <1>3, <1>4, <2>3, <3>2, <3>4 DEF SeenIs
    <3>6. text[m] \in Item
      <4>1. m \in 1 .. Len(text)
        BY <1>3, <3>1
      <4> QED BY <4>1, TextLen
    <3>7. seen # None
      <4>1. text[m].touches \in SUBSET Name
        BY <3>6 DEF Item
      <4> QED BY <3>5, <4>1, NoneAssumption
    <3> QED BY <2>3, <3>5, <3>7
  <2> QED BY <2>1, <2>2, <2>3
<1> HIDE DEF Said, Count1, Scope
<1>8. \A n \in Name : InSight1(n) <=> n \in sight
  <2> SUFFICES ASSUME NEW n \in Name
               PROVE  InSight1(n) <=> n \in sight
    OBVIOUS
  <2> QED BY <1>6, <1>7, Zenon DEF Sight
<1> HIDE DEF InSight1, sight
<1>9. \A n \in Name : (IF InSight1(n) THEN Count1(n) ELSE None)
                      = IF n \in sight THEN CountOf(text, P, n) ELSE None
  BY <1>6, <1>8
<1>10. Expected(text, open)
         = [n \in Name |-> IF n \in sight THEN CountOf(text, P, n) ELSE None]
  BY <1>1, <1>9, Zenon
<1> QED BY <1>10, Zenon DEF sight, P, L

LEMMA KeptFinite ==
  ASSUME NEW k \in Nat, NEW P, NEW Q, P \subseteq 1 .. k, Q \subseteq P
  PROVE  IsFiniteSet(Q) /\ Cardinality(Q) \in Nat
<1>1. IsFiniteSet(1 .. k)
  <2>1. 1 \in Int /\ k \in Int
    OBVIOUS
  <2> QED BY <2>1, FS_Interval
<1>2. Q \in SUBSET (1 .. k)
  OBVIOUS
<1>3. IsFiniteSet(Q)
  BY <1>1, <1>2, FS_Subset
<1> QED BY <1>3, FS_CardinalityType

LEMMA CountType ==
  ASSUME NEW k \in Nat, NEW P, NEW text, NEW n, P \subseteq 1 .. k
  PROVE  CountOf(text, P, n) \in Nat
<1> DEFINE A == {i \in P : text[i].name = n /\ text[i].kind # "prototype"}
           B == {i \in P : n \in text[i].touches}
<1>1. A \subseteq P /\ B \subseteq P
  OBVIOUS
<1> HIDE DEF A, B
<1>2. Cardinality(A) \in Nat /\ Cardinality(B) \in Nat
  BY <1>1, KeptFinite
<1>3. Cardinality(A) + Cardinality(B) \in Nat
  BY <1>2
<1> QED BY <1>3 DEF CountOf, A, B

(* An item more in a set of items.                                         *)
More1(k, P, i, Q) ==
  k \in Nat /\ P \subseteq 1 .. k /\ i \in Nat /\ i \notin P /\ Q = P \cup {i}

Says(text, i, n) ==
  (IF text[i].name = n /\ text[i].kind # "prototype" THEN 1 ELSE 0)
  + (IF n \in text[i].touches THEN 1 ELSE 0)

LEMMA CountAdd ==
  ASSUME NEW k, NEW P, NEW i, NEW Q, NEW text, NEW n, More1(k, P, i, Q)
  PROVE  CountOf(text, Q, n) = CountOf(text, P, n) + Says(text, i, n)
<1> DEFINE In(j) == text[j].name = n /\ text[j].kind # "prototype"
           To(j) == n \in text[j].touches
           A == {j \in P : In(j)}
           B == {j \in P : To(j)}
           A2 == {j \in Q : In(j)}
           B2 == {j \in Q : To(j)}
<1>0. k \in Nat /\ P \subseteq 1 .. k /\ i \in Nat /\ i \notin P /\ Q = P \cup {i}
  BY DEF More1
<1> HIDE DEF In, To
<1>1. A \subseteq P /\ B \subseteq P /\ i \notin A /\ i \notin B
  BY <1>0
<1>2. A2 = IF In(i) THEN A \cup {i} ELSE A
  BY <1>0
<1>3. B2 = IF To(i) THEN B \cup {i} ELSE B
  BY <1>0
<1> HIDE DEF A, B, A2, B2
<1>4. IsFiniteSet(A) /\ IsFiniteSet(B) /\ Cardinality(A) \in Nat /\ Cardinality(B) \in Nat
  BY <1>0, <1>1, KeptFinite
<1>5. /\ Cardinality(A \cup {i}) = Cardinality(A) + 1
      /\ Cardinality(B \cup {i}) = Cardinality(B) + 1
  BY <1>1, <1>4, FS_AddElement
<1>6. Cardinality(A2) = Cardinality(A) + (IF In(i) THEN 1 ELSE 0)
  BY <1>2, <1>4, <1>5
<1>7. Cardinality(B2) = Cardinality(B) + (IF To(i) THEN 1 ELSE 0)
  BY <1>3, <1>4, <1>5
<1>8. Cardinality(A2) + Cardinality(B2)
        = (Cardinality(A) + Cardinality(B)) + ((IF In(i) THEN 1 ELSE 0) + (IF To(i) THEN 1 ELSE 0))
  BY <1>4, <1>6, <1>7
<1>9. /\ CountOf(text, P, n) = Cardinality(A) + Cardinality(B)
      /\ CountOf(text, Q, n) = Cardinality(A2) + Cardinality(B2)
  BY Zenon DEF CountOf, A, B, A2, B2, In, To
<1>10. Says(text, i, n) = (IF In(i) THEN 1 ELSE 0) + (IF To(i) THEN 1 ELSE 0)
  BY Zenon DEF Says, In, To
<1> QED BY <1>8, <1>9, <1>10, Zenon

LEMMA CountNone ==
  ASSUME NEW P, NEW text, NEW n, n \notin Names(text, P), n \notin Touched(text, P)
  PROVE  CountOf(text, P, n) = 0
<1>1. {i \in P : text[i].name = n /\ text[i].kind # "prototype"} = {}
  BY DEF Names
<1>2. {i \in P : n \in text[i].touches} = {}
  BY DEF Touched
<1>3. CountOf(text, P, n) = Cardinality({}) + Cardinality({})
  BY <1>1, <1>2, Zenon DEF CountOf
<1> QED BY <1>3, FS_EmptySet

LEMMA NamesAdd ==
  ASSUME NEW k, NEW P, NEW i, NEW Q, NEW text, More1(k, P, i, Q)
  PROVE  /\ Names(text, Q) = Names(text, P) \cup {text[i].name}
         /\ Touched(text, Q) = Touched(text, P) \cup text[i].touches
BY DEF More1, Names, Touched

LEMMA KeptAdd ==
  ASSUME NEW text, NEW k \in Nat
  PROVE  /\ KeptTo(text, k) \subseteq 1 .. k /\ k + 1 \notin KeptTo(text, k) /\ k + 1 \in Nat
         /\ KeptTo(text, k + 1)
              = KeptTo(text, k) \cup (IF text[k + 1].outcome = "malformed" THEN {} ELSE {k + 1})
         /\ KeptTo(text, 0) = {}
BY DEF KeptTo

LEMMA SeenStays ==
  ASSUME NEW text, NEW k \in Nat, NEW seen, SeenIs(text, k, seen),
         text[k + 1].kind # "function" \/ text[k + 1].outcome = "malformed"
  PROVE  SeenIs(text, k + 1, seen)
<1>1. FunctionsTo(text, k + 1) = FunctionsTo(text, k)
  BY KeptAdd DEF FunctionsTo
<1> QED BY <1>1 DEF SeenIs

LEMMA SeenGrows ==
  ASSUME NEW text, NEW k \in Nat,
         text[k + 1].kind = "function", text[k + 1].outcome # "malformed"
  PROVE  SeenIs(text, k + 1, text[k + 1].touches)
<1>1. FunctionsTo(text, k + 1) = FunctionsTo(text, k) \cup {k + 1}
  <2>1. KeptTo(text, k + 1) = KeptTo(text, k) \cup {k + 1}
    BY KeptAdd
  <2> QED BY <2>1, Zenon DEF FunctionsTo
<1>2. FunctionsTo(text, k) \subseteq 1 .. k
  BY DEF FunctionsTo, KeptTo
<1>3. ASSUME NEW m \in FunctionsTo(text, k + 1), \A i \in FunctionsTo(text, k + 1) : i <= m
      PROVE  m = k + 1
  <2>1. k + 1 <= m /\ (m \in 1 .. k \/ m = k + 1)
    BY <1>1, <1>2, <1>3
  <2> QED BY <2>1
<1>4. FunctionsTo(text, k + 1) # {}
  BY <1>1
<1> QED BY <1>3, <1>4 DEF SeenIs

LEMMA SeenFirst ==
  ASSUME NEW text
  PROVE  SeenIs(text, 0, None)
<1>1. FunctionsTo(text, 0) = {}
  BY DEF FunctionsTo, KeptTo
<1> QED BY <1>1 DEF SeenIs

-----------------------------------------------------------------------------
(* What the tables say of the items.                                       *)
GraphTold(g, text, P) ==
  g.visible = Names(text, P) /\ g.declared = Names(text, P) \cup Touched(text, P)

ValueTold(v, text, P) == \A n \in Name : v[n] = CountOf(text, P, n)

Done == KeptTo(request.text, at)
Left == LeftAt(request.text, request.open, at + 1)

(* While a function is resolved, what was said before it is kept: of the   *)
(* older names in the transaction's graph, of the function in the frame,   *)
(* and of the objects it redeclares in the transaction.                    *)
FrameSays(g) ==
  (frame.existed <=> Item1.name \in g.declared)
  /\ frame.value = CountOf(request.text, Done, Item1.name)

Begun ==
  LET old == globals.graph IN
  /\ GraphTold(old, request.text, Done) /\ old.inner = {} /\ FrameSays(old)
  /\ graph.visible = old.visible \cup {Item1.name}

Resolving ==
  /\ Begun
  /\ graph.declared = globals.graph.declared \cup {Item1.name} /\ graph.inner = {}
  /\ \A n \in Name :
       /\ value[n] = CountOf(request.text, Done, n) + (IF n = Item1.name THEN 1 ELSE 0)
       /\ globals.saved[n] = None

Resolved ==
  /\ Begun
  /\ graph.declared = globals.graph.declared \cup {Item1.name} \cup Item1.touches
  /\ graph.inner = Item1.touches
  /\ \A n \in Name :
       LET said == CountOf(request.text, Done, n) + (IF n = Item1.name THEN 1 ELSE 0) IN
       /\ value[n] = said + (IF n \in Item1.touches THEN 1 ELSE 0)
       /\ globals.saved[n]
            = IF n \in Item1.touches /\ n \in globals.graph.declared THEN said ELSE None

Reading == {"reading", "parsed function", "resolving", "resolved", "ending", "fatal", "parsed"}

TellInv ==
  /\ stage \in Before => graph = NoGraph /\ value = NoValue
  /\ stage \in {"ready", "opened"} => parse[current].seen = None
  /\ stage \in {"opened", "reading", "parsed function"} => (request.open <=> globals # None)
  /\ stage \in {"resolving", "resolved"} => ~request.open
  /\ stage \in Reading =>
       /\ \A i \in 1 .. at : ~Ends(request.text, request.open, i)
       /\ SeenIs(request.text, at, parse[current].seen)
  /\ stage \in {"reading", "ending", "parsed function"} =>
       /\ GraphTold(graph, request.text, Done) /\ graph.inner = {}
       /\ ValueTold(value, request.text, Done)
  /\ stage = "parsed function" => FrameSays(graph)
  /\ stage = "resolving" => Resolving
  /\ stage = "resolved" => Resolved
  /\ stage \in {"fatal", "parsed"} =>
       /\ GraphTold(graph, request.text, Done \cup Left)
       /\ ValueTold(value, request.text, Done \cup Left)
       /\ graph.inner = Touched(request.text, Left)
  /\ stage \in {"ending", "fatal", "parsed"} => Ended(request.text, request.open, at)
  /\ stage = "ending" => Left = {}

LEMMA ItemLaw ==
  ASSUME NEW text \in Text \cup {<<>>}, NEW i \in 1 .. Len(text)
  PROVE  /\ text[i].kind # "function" => text[i].touches = {}
         /\ text[i].kind = "directive" => text[i].outcome = "unreadable"
         /\ text[i].kind = "object" => text[i].outcome \in {"plain", "fatal", "unreadable"}
         /\ text[i].outcome = "rejected" => text[i].kind = "function"
<1>1. DOMAIN text = 1 .. Len(text)
  BY TextLen
<1>2. text \in Text
  BY <1>1
<1>3. i \in DOMAIN text
  BY <1>1
<1> DEFINE item == text[i]
<1>4. /\ item.kind = "object" => item.outcome \in {"plain", "fatal", "unreadable"}
      /\ item.kind = "prototype" => item.outcome \in {"plain", "unreadable"}
      /\ item.kind = "directive" => item.outcome = "unreadable"
      /\ item.kind # "function" => item.touches = {}
  BY <1>2, <1>3, TextAssumption, Zenon
<1>5. item \in Item
  BY TextLen
<1> HIDE DEF item
<1>6. item.kind \in {"object", "prototype", "directive", "function"}
  BY <1>5 DEF Item
<1>7. item.outcome = "rejected" => item.kind = "function"
  BY <1>4, <1>6
<1> QED BY <1>4, <1>7 DEF item

LEMMA NothingTold ==
  ASSUME NEW text
  PROVE  /\ GraphTold(NoGraph, text, {}) /\ ValueTold(NoValue, text, {})
         /\ NoGraph.inner = {} /\ Touched(text, {}) = {}
<1>1. Names(text, {}) = {} /\ Touched(text, {}) = {}
  BY DEF Names, Touched
<1>2. \A n \in Name : CountOf(text, {}, n) = 0
  BY <1>1, CountNone
<1> QED BY <1>1, <1>2 DEF GraphTold, ValueTold, NoGraph, NoValue

(* What a kept item adds to what the tables say.                           *)
GraphMore(g, h, item) ==
  /\ h.visible = g.visible \cup {item.name}
  /\ h.declared = g.declared \cup {item.name} \cup item.touches

ValueMore(v, w, text, i) == \A n \in Name : w[n] = v[n] + Says(text, i, n)

LEMMA TellsMore ==
  ASSUME NEW text, NEW k, NEW P, NEW i, NEW Q,
         NEW g, NEW h, NEW v, NEW w,
         More1(k, P, i, Q), GraphTold(g, text, P), ValueTold(v, text, P),
         GraphMore(g, h, text[i]), ValueMore(v, w, text, i)
  PROVE  GraphTold(h, text, Q) /\ ValueTold(w, text, Q)
<1>1. GraphTold(h, text, Q)
  <2>1. /\ Names(text, Q) = Names(text, P) \cup {text[i].name}
        /\ Touched(text, Q) = Touched(text, P) \cup text[i].touches
    BY NamesAdd
  <2>2. g.visible = Names(text, P) /\ g.declared = Names(text, P) \cup Touched(text, P)
    BY DEF GraphTold
  <2> DEFINE N == Names(text, P)
             T == Touched(text, P)
             name == text[i].name
             touches == text[i].touches
  <2>3. /\ Names(text, Q) = N \cup {name} /\ Touched(text, Q) = T \cup touches
        /\ h.visible = N \cup {name} /\ h.declared = (N \cup T) \cup {name} \cup touches
    BY <2>1, <2>2 DEF GraphMore
  <2> HIDE DEF N, T, name, touches
  <2>4. (N \cup T) \cup {name} \cup touches = (N \cup {name}) \cup (T \cup touches)
    OBVIOUS
  <2> QED BY <2>3, <2>4, Zenon DEF GraphTold
<1>2. ASSUME NEW n \in Name
      PROVE  w[n] = CountOf(text, Q, n)
  <2>1. v[n] = CountOf(text, P, n) /\ w[n] = v[n] + Says(text, i, n)
    BY DEF ValueTold, ValueMore
  <2>2. CountOf(text, Q, n) = CountOf(text, P, n) + Says(text, i, n)
    BY CountAdd
  <2> QED BY <2>1, <2>2
<1> QED BY <1>1, <1>2 DEF ValueTold

(* The parse state of a running parse.                                     *)
LEMMA CurrentState ==
  ASSUME HeapInv, stage \in Parsing \cup {"ready", "parsed"}
  PROVE  /\ current \in State /\ current = slot /\ parse[current] \in ParseState
         /\ parse \in [State -> ParseState \cup {None}]
<1>1. current # None /\ current = slot
  BY DEF HeapInv, HeapStage
<1> QED BY <1>1, SlotState DEF HeapInv, HeapType

LEMMA TellRests ==
  ASSUME \/ stage' \in {"idle", "failed"}
         \/ stage' \in {"checked", "documented", "rewritten"}
            /\ graph' = NoGraph /\ value' = NoValue
  PROVE  TellInv'
BY DEF TellInv, Before, Reading

LEMMA NotEnded ==
  ASSUME NEW text, NEW open, NEW k \in Nat, ~Ends(text, open, k + 1),
         \A i \in 1 .. k : ~Ends(text, open, i)
  PROVE  \A i \in 1 .. k + 1 : ~Ends(text, open, i)
<1>1. \A i \in 1 .. k + 1 : i \in 1 .. k \/ i = k + 1
  OBVIOUS
<1> QED BY <1>1

LEMMA TellBefore ==
  ASSUME TellInv, DataInv, ArenaInv, HeapInv, HeapInv',
         Refuse \/ Document \/ Rewrite \/ RewriteFails \/ Create \/ CreateFails
           \/ OpenStream \/ OpenFails \/ BeginStream \/ EndStream
  PROVE  TellInv'
<1> USE DEF tables, Failed
<1>1. CASE Refuse \/ OpenFails \/ RewriteFails \/ CreateFails
  BY <1>1, TellRests DEF Refuse, OpenFails, RewriteFails, CreateFails
<1>2. CASE Document \/ Rewrite
  BY <1>2, TellRests DEF Document, Rewrite, TellInv, Before
<1>3. CASE Create
  <2>1. stage = "rewritten" /\ stage' = "ready" /\ UNCHANGED <<graph, value>>
    BY <1>3 DEF Create
  <2>2. current' \in State
    BY <2>1 DEF HeapInv, HeapType, HeapStage
  <2>3. parse'[current'].seen = None
    BY <1>3, <2>2 DEF Create, HeapInv, HeapType
  <2> QED BY <2>1, <2>3 DEF TellInv, Before, Reading
<1>4. CASE OpenStream
  <2>1. /\ stage = "ready" /\ stage' \in {"fatal", "opened"}
        /\ UNCHANGED <<graph, value, at, current, globals>>
    BY <1>4 DEF OpenStream, nesting
  <2>2. request'.text = request.text /\ (request'.open <=> globals' # None)
    BY <1>4, <2>1 DEF OpenStream, DataInv, RequestType, Requests
  <2>3. graph = NoGraph /\ value = NoValue /\ parse[current].seen = None /\ at = 0
    BY <2>1 DEF TellInv, ArenaInv, Before
  <2>4. parse'[current].seen = None
    BY <1>4, <2>1, <2>3, CurrentState DEF OpenStream, ParseState
  <2>5. CASE stage' = "opened"
    BY <2>1, <2>2, <2>3, <2>4, <2>5 DEF TellInv, Before, Reading
  <2>6. CASE stage' = "fatal"
    <3>1. More /\ Item1.kind = "directive"
      BY <1>4, <2>6 DEF OpenStream
    <3> DEFINE text == request.text
               open == request'.open
    <3>2. text \in Text \cup {<<>>} /\ 1 \in 1 .. Len(text) /\ text[1].kind = "directive"
      BY <2>3, <3>1, TextLen DEF More, Item1, DataInv, RequestType, Requests
    <3>3. text[1].outcome = "unreadable"
      BY <3>2, ItemLaw
    <3>4. Ends(text, open, 1) /\ LeftAt(text, open, 1) = {}
      BY <3>3 DEF Ends, Stops, LeftAt
    <3>5. Ended(text, open, 0)
      BY <3>4 DEF Ended
    <3>6. KeptTo(text, 0) = {} /\ SeenIs(text, 0, None)
      BY KeptAdd, SeenFirst
    <3>7. Done' = {} /\ Left' = {}
      BY <2>1, <2>2, <2>3, <3>4, <3>6 DEF Done, Left
    <3> HIDE DEF text, open
    <3>8. /\ GraphTold(graph', text, {}) /\ ValueTold(value', text, {})
          /\ graph'.inner = Touched(text, {})
      BY <2>1, <2>3, NothingTold
    <3>9. request'.text = text /\ request'.open = open /\ at' = 0
      BY <2>1, <2>2, <2>3 DEF text, open
    <3> QED BY <2>1, <2>4, <2>6, <3>5, <3>6, <3>7, <3>8, <3>9 DEF TellInv, Before, Reading
  <2> QED BY <2>1, <2>5, <2>6
<1>5. CASE BeginStream
  <2>1. /\ stage = "opened" /\ stage' = "reading"
        /\ UNCHANGED <<graph, value, at, current, globals, request>>
    BY <1>5 DEF BeginStream, nesting
  <2>2. graph = NoGraph /\ value = NoValue /\ parse[current].seen = None /\ at = 0
        /\ (request.open <=> globals # None)
    BY <2>1 DEF TellInv, ArenaInv, Before
  <2>3. parse'[current].seen = None
    BY <1>5, <2>1, <2>2, CurrentState DEF BeginStream, ParseState, Parsing
  <2>4. KeptTo(request.text, 0) = {} /\ SeenIs(request.text, 0, None)
    BY KeptAdd, SeenFirst
  <2>5. Done' = {}
    BY <2>1, <2>2, <2>4 DEF Done
  <2>6. /\ GraphTold(graph', request.text, {}) /\ ValueTold(value', request.text, {})
        /\ graph'.inner = {}
    BY <2>1, <2>2, NothingTold
  <2> QED BY <2>1, <2>2, <2>3, <2>4, <2>5, <2>6 DEF TellInv, Before, Reading
<1>6. CASE EndStream
  <2>1. /\ stage \in {"reading", "ending"} /\ stage' = "parsed"
        /\ UNCHANGED <<graph, value, at, current, globals, request>>
        /\ (stage = "reading" => ~More)
    BY <1>6 DEF EndStream, nesting
  <2>2. /\ \A i \in 1 .. at : ~Ends(request.text, request.open, i)
        /\ SeenIs(request.text, at, parse[current].seen)
        /\ GraphTold(graph, request.text, Done) /\ graph.inner = {}
        /\ ValueTold(value, request.text, Done)
    BY <2>1 DEF TellInv, Reading
  <2>3. parse'[current].seen = parse[current].seen
    BY <1>6, <2>1, CurrentState DEF EndStream, ParseState, Parsing
  <2>4. Left = {} /\ Ended(request.text, request.open, at)
    <3>1. CASE stage = "reading"
      <4>1. request.text \in Text \cup {<<>>}
        BY DEF DataInv, RequestType, Requests
      <4>2. Len(request.text) \in Nat /\ DOMAIN request.text = 1 .. Len(request.text)
        BY <4>1, TextLen
      <4>3. at \in Nat /\ at <= Len(request.text)
        BY <4>2 DEF DataInv, RequestType
      <4>4. ~(at < Len(request.text)) /\ at + 1 \notin DOMAIN request.text
        BY <2>1, <3>1, <4>2, <4>3 DEF More
      <4> QED BY <2>2, <4>4 DEF Left, LeftAt, Ended
    <3>2. CASE stage = "ending"
      BY <3>2 DEF TellInv
    <3> QED BY <2>1, <3>1, <3>2
  <2>5. Done \cup Left = Done /\ Touched(request.text, Left) = {}
    BY <2>4, NothingTold
  <2>6. Done' = Done /\ Left' = Left
    BY <2>1 DEF Done, Left
  <2> QED BY <2>1, <2>2, <2>3, <2>4, <2>5, <2>6 DEF TellInv, Before, Reading
<1> QED BY <1>1, <1>2, <1>3, <1>4, <1>5, <1>6

LEMMA TellAfter ==
  ASSUME TellInv, HeapInv, DataInv,
         Recover \/ Reparse \/ RetryFailed \/ RetryAtCursor \/ Answer \/ BuilderFails \/ Trap
  PROVE  TellInv'
<1> USE DEF tables, Failed
<1>1. CASE Reparse \/ RetryFailed \/ RetryAtCursor \/ Answer \/ BuilderFails \/ Trap
  BY <1>1, TellRests
  DEF Reparse, RetryFailed, RetryAtCursor, Retry, Answer, BuilderFails, Trap, ResetTables
<1>2. CASE Recover
  <2>1. /\ stage = "fatal" /\ stage' = "parsed" /\ host = "native"
        /\ UNCHANGED <<graph, value, at, current>>
    BY <1>2 DEF Recover
  <2>2. request'.text = request.text /\ request'.open = request.open
    BY <1>2 DEF Recover, DataInv, RequestType, Requests
  <2>3. recovery = current
    BY <2>1 DEF HeapInv, HeapStage, Parsing
  <2>4. parse'[current].seen = parse[current].seen
    BY <1>2, <2>1, <2>3, CurrentState DEF Recover, ParseState, Parsing
  <2>5. Done' = Done /\ Left' = Left
    BY <2>1, <2>2 DEF Done, Left
  <2> QED BY <2>1, <2>2, <2>4, <2>5 DEF TellInv, Before, Reading
<1> QED BY <1>1, <1>2

(* What holds while the items are read, of the one at hand.                *)
LEMMA AtItem ==
  ASSUME DataInv, More
  PROVE  /\ request.text \in Text \cup {<<>>} /\ at \in Nat /\ at + 1 \in Nat
         /\ at + 1 \in 1 .. Len(request.text) /\ at + 1 \in DOMAIN request.text
         /\ Item1 = request.text[at + 1]
         /\ More1(at, Done, at + 1, Done \cup {at + 1})
<1>1. request.text \in Text \cup {<<>>}
  BY DEF DataInv, RequestType, Requests
<1>2. at \in Nat /\ at + 1 \in Nat /\ at + 1 \in 1 .. Len(request.text)
  BY ItemAt
<1>3. at + 1 \in DOMAIN request.text
  BY <1>1, <1>2, TextLen
<1>4. Done \subseteq 1 .. at /\ at + 1 \notin Done
  BY <1>2, KeptAdd DEF Done
<1>5. More1(at, Done, at + 1, Done \cup {at + 1})
  BY <1>2, <1>4 DEF More1
<1> QED BY <1>1, <1>2, <1>3, <1>5 DEF Item1

(* The item at hand ends the analysis.                                     *)
LEMMA EndsHere ==
  ASSUME TellInv, stage \in Reading,
         Ends(request.text, request.open, at + 1)
  PROVE  Ended(request.text, request.open, at)
BY DEF TellInv, Ended

LEMMA TellItems ==
  ASSUME TellInv, DataInv, HeapInv,
         Unreadable \/ ReadPrototype \/ ReadObject \/ ParseFunction \/ SkipFunction
  PROVE  TellInv'
<1> DEFINE text == request.text
           open == request.open
           seen == parse[current].seen
<1>1. stage = "reading" /\ More /\ UNCHANGED <<parse, current>>
  BY DEF Unreadable, ReadPrototype, ReadObject, ParseFunction, SkipFunction, heap
<1>2. /\ text \in Text \cup {<<>>} /\ at \in Nat /\ at + 1 \in Nat
      /\ at + 1 \in 1 .. Len(text) /\ at + 1 \in DOMAIN text
      /\ Item1 = text[at + 1] /\ More1(at, Done, at + 1, Done \cup {at + 1})
  BY <1>1, AtItem
<1>3. /\ GraphTold(graph, text, Done) /\ graph.inner = {} /\ ValueTold(value, text, Done)
      /\ (\A i \in 1 .. at : ~Ends(text, open, i)) /\ SeenIs(text, at, seen)
      /\ (open <=> globals # None)
  BY <1>1 DEF TellInv, Reading
<1>4. request'.text = text /\ request'.open = open
  BY DEF Unreadable, ReadPrototype, ReadObject, ParseFunction, SkipFunction,
         DataInv, RequestType, Requests
<1>5. /\ Item1.kind # "function" => Item1.touches = {}
      /\ Item1.kind = "directive" => Item1.outcome = "unreadable"
      /\ Item1.kind = "object" => Item1.outcome \in {"plain", "fatal", "unreadable"}
  BY <1>2, ItemLaw
<1>6. parse'[current'].seen = seen
  BY <1>1
<1>7. KeptTo(text, at + 1) = Done \cup (IF Item1.outcome = "malformed" THEN {} ELSE {at + 1})
  BY <1>2, KeptAdd DEF Done
<1>8. CASE Unreadable
  <2>1. stage' = "fatal" /\ UNCHANGED <<graph, value, at>> /\ Item1.outcome = "unreadable"
    BY <1>8 DEF Unreadable
  <2>2. Ends(text, open, at + 1) /\ Left = {}
    BY <1>2, <2>1 DEF Ends, Stops, Left, LeftAt
  <2>3. Ended(text, open, at)
    BY <1>1, <2>2, EndsHere DEF Reading
  <2>4. Done' = Done /\ Left' = {} /\ Done \cup {} = Done /\ Touched(text, {}) = {}
    BY <1>4, <2>1, <2>2, NothingTold DEF Done, Left
  <2> HIDE DEF text, open, seen
  <2>5. request'.text = text /\ request'.open = open
    BY <1>4
  <2> QED BY <1>3, <1>6, <2>1, <2>3, <2>4, <2>5 DEF TellInv, Before, Reading
<1>9. CASE ReadPrototype
  <2>1. /\ stage' = "reading" /\ at' = at + 1 /\ UNCHANGED <<value, globals>>
        /\ graph' = [graph EXCEPT !.declared = @ \cup {Item1.name}, !.visible = @ \cup {Item1.name}]
        /\ Item1.kind = "prototype" /\ Item1.outcome = "plain"
    BY <1>1, <1>9 DEF ReadPrototype, Declare, nesting
  <2>2. graph \in GraphState /\ value \in Count
    BY DEF DataInv, RequestType
  <2>3. /\ graph'.visible = graph.visible \cup {text[at + 1].name}
        /\ graph'.declared = graph.declared \cup {text[at + 1].name} \cup text[at + 1].touches
        /\ graph'.inner = {}
    BY <1>2, <1>3, <1>5, <2>1, <2>2 DEF GraphState
  <2>4. \A n \in Name : value'[n] = value[n] + Says(text, at + 1, n)
    <3>1. \A n \in Name : Says(text, at + 1, n) = 0
      BY <1>2, <1>5, <2>1 DEF Says
    <3>2. \A n \in Name : value[n] \in Nat
      BY <2>2 DEF Count
    <3> QED BY <2>1, <3>1, <3>2
  <2>5. Done' = Done \cup {at + 1}
    BY <1>4, <1>7, <2>1 DEF Done
  <2>6. GraphTold(graph', text, Done') /\ ValueTold(value', text, Done')
    <3>1. More1(at, Done, at + 1, Done')
      BY <1>2, <2>5
    <3> HIDE DEF text
    <3> QED BY <1>3, <2>3, <2>4, <3>1, TellsMore DEF GraphMore, ValueMore
  <2>7. ~Ends(text, open, at + 1)
    BY <1>2, <2>1 DEF Ends, Stops
  <2>8. \A i \in 1 .. at + 1 : ~Ends(text, open, i)
    BY <1>2, <1>3, <2>7, NotEnded
  <2>9. SeenIs(text, at + 1, seen)
    BY <1>2, <1>3, <2>1, SeenStays
  <2> HIDE DEF text, open, seen
  <2>10. request'.text = text /\ request'.open = open
    BY <1>4
  <2> QED BY <1>3, <1>6, <2>1, <2>3, <2>6, <2>8, <2>9, <2>10 DEF TellInv, Before, Reading
<1>10. CASE ReadObject
  <2>1. /\ graph' = [graph EXCEPT !.declared = @ \cup {Item1.name}, !.visible = @ \cup {Item1.name}]
        /\ value' = [n \in Name |-> IF n \in {Item1.name} THEN value[n] + 1 ELSE value[n]]
        /\ Item1.kind = "object" /\ Item1.outcome \in {"plain", "fatal"}
    BY <1>5, <1>10 DEF ReadObject, Declare, Redefine
  <2>2. graph \in GraphState /\ value \in Count
    BY DEF DataInv, RequestType
  <2>3. /\ graph'.visible = graph.visible \cup {text[at + 1].name}
        /\ graph'.declared = graph.declared \cup {text[at + 1].name} \cup text[at + 1].touches
        /\ graph'.inner = {}
    BY <1>2, <1>3, <1>5, <2>1, <2>2 DEF GraphState
  <2>4. \A n \in Name : value'[n] = value[n] + Says(text, at + 1, n)
    <3>1. \A n \in Name : Says(text, at + 1, n) = IF n = Item1.name THEN 1 ELSE 0
      BY <1>2, <1>5, <2>1 DEF Says
    <3>2. \A n \in Name : value[n] \in Nat
      BY <2>2 DEF Count
    <3> QED BY <2>1, <3>1, <3>2
  <2> DEFINE more == Done \cup {at + 1}
  <2>5. GraphTold(graph', text, more) /\ ValueTold(value', text, more)
    <3>1. More1(at, Done, at + 1, more)
      BY <1>2
    <3> HIDE DEF text, more
    <3> QED BY <1>3, <2>3, <2>4, <3>1, TellsMore DEF GraphMore, ValueMore
  <2>6. CASE Item1.outcome = "plain"
    <3>1. stage' = "reading" /\ at' = at + 1 /\ UNCHANGED globals
      BY <1>1, <1>10, <2>6 DEF ReadObject
    <3>2. Done' = more
      BY <1>4, <1>7, <2>6, <3>1 DEF Done
    <3>3. ~Ends(text, open, at + 1)
      BY <1>2, <2>1, <2>6 DEF Ends, Stops
    <3>4. \A i \in 1 .. at + 1 : ~Ends(text, open, i)
      BY <1>2, <1>3, <3>3, NotEnded
    <3>5. SeenIs(text, at + 1, seen)
      BY <1>2, <1>3, <2>1, SeenStays
    <3> HIDE DEF text, open, seen, more
    <3>6. request'.text = text /\ request'.open = open
      BY <1>4
    <3> QED BY <1>3, <1>6, <2>3, <2>5, <3>1, <3>2, <3>4, <3>5, <3>6 DEF TellInv, Before, Reading
  <2>7. CASE Item1.outcome = "fatal"
    <3>1. stage' = "fatal" /\ at' = at
      BY <1>10, <2>7 DEF ReadObject
    <3>2. Ends(text, open, at + 1) /\ Left = {at + 1}
      BY <1>2, <2>1, <2>7 DEF Ends, Stops, Left, LeftAt
    <3>3. Ended(text, open, at)
      BY <1>1, <3>2, EndsHere DEF Reading
    <3>4. Done' = Done /\ Left' = {at + 1} /\ Done' \cup Left' = more
      BY <1>4, <3>1, <3>2 DEF Done, Left
    <3>5. Touched(text, Left') = {}
      BY <1>2, <1>5, <2>1, <3>4 DEF Touched
    <3> HIDE DEF text, open, seen, more
    <3>6. request'.text = text /\ request'.open = open
      BY <1>4
    <3> QED BY <1>3, <1>6, <2>3, <2>5, <3>1, <3>3, <3>4, <3>5, <3>6 DEF TellInv, Before, Reading
  <2> QED BY <2>1, <2>6, <2>7
<1>11. CASE ParseFunction
  <2>1. stage' = "parsed function" /\ UNCHANGED <<graph, value, at, globals, request>>
    BY <1>11 DEF ParseFunction
  <2>2. /\ frame'.existed <=> Item1.name \in graph.declared
        /\ frame'.value = value[Item1.name]
    BY <1>11 DEF ParseFunction
  <2>3. Item1.name \in Name
    BY <1>1, ItemAt
  <2>4. value[Item1.name] = CountOf(text, Done, Item1.name)
    BY <1>3, <2>3 DEF ValueTold
  <2>5. Done' = Done /\ Item1' = Item1
    BY <2>1 DEF Done, Item1
  <2>6. FrameSays(graph)'
    BY <2>1, <2>2, <2>4, <2>5 DEF FrameSays
  <2> HIDE DEF text, open, seen
  <2>7. request'.text = text /\ request'.open = open
    BY <1>4
  <2> QED BY <1>3, <1>6, <2>1, <2>5, <2>6, <2>7 DEF TellInv, Before, Reading
<1>12. CASE SkipFunction
  <2>1. /\ UNCHANGED <<graph, value, globals>> /\ Item1.kind = "function"
        /\ Item1.outcome \in {"malformed", "overlimit"}
    BY <1>12 DEF SkipFunction, nesting
  <2>2. CASE Item1.outcome = "malformed"
    <3>1. stage' = "reading" /\ at' = at + 1
      BY <1>1, <1>12, <2>2 DEF SkipFunction
    <3>2. Done' = Done
      BY <1>4, <1>7, <2>2, <3>1 DEF Done
    <3>3. ~Ends(text, open, at + 1)
      BY <1>2, <2>2 DEF Ends, Stops
    <3>4. \A i \in 1 .. at + 1 : ~Ends(text, open, i)
      BY <1>2, <1>3, <3>3, NotEnded
    <3>5. SeenIs(text, at + 1, seen)
      BY <1>2, <1>3, <2>2, SeenStays
    <3> HIDE DEF text, open, seen
    <3>6. request'.text = text /\ request'.open = open
      BY <1>4
    <3> QED BY <1>3, <1>6, <2>1, <3>1, <3>2, <3>4, <3>5, <3>6 DEF TellInv, Before, Reading
  <2>3. CASE Item1.outcome = "overlimit"
    <3>1. stage' = "ending" /\ at' = at
      BY <1>12, <2>3 DEF SkipFunction
    <3>2. Ends(text, open, at + 1) /\ Left = {}
      BY <1>2, <2>3 DEF Ends, Stops, Left, LeftAt
    <3>3. Ended(text, open, at)
      BY <1>1, <3>2, EndsHere DEF Reading
    <3>4. Done' = Done /\ Left' = {}
      BY <1>4, <3>1, <3>2 DEF Done, Left
    <3> HIDE DEF text, open, seen
    <3>5. request'.text = text /\ request'.open = open
      BY <1>4
    <3> QED BY <1>3, <1>6, <2>1, <3>1, <3>3, <3>4, <3>5 DEF TellInv, Before, Reading
  <2> QED BY <2>1, <2>2, <2>3
<1> QED BY <1>8, <1>9, <1>10, <1>11, <1>12

LEMMA TellBegun ==
  ASSUME TellInv, DataInv, BeginFunction
  PROVE  TellInv'
<1>1. /\ stage = "parsed function" /\ stage' = "resolving"
      /\ UNCHANGED <<parse, current, request, at, frame>>
      /\ globals = None
      /\ globals' = [graph |-> graph, saved |-> [n \in Name |-> None]]
      /\ graph' = [graph EXCEPT !.declared = @ \cup {Item1.name}, !.visible = @ \cup {Item1.name}]
      /\ value' = [n \in Name |-> IF n \in {Item1.name} THEN value[n] + 1 ELSE value[n]]
  BY DEF BeginFunction, Declare, Redefine, heap
<1>2. /\ GraphTold(graph, request.text, Done) /\ graph.inner = {} /\ FrameSays(graph)
      /\ ValueTold(value, request.text, Done)
      /\ (\A i \in 1 .. at : ~Ends(request.text, request.open, i))
      /\ SeenIs(request.text, at, parse[current].seen)
      /\ ~request.open
  BY <1>1 DEF TellInv, Reading
<1>3. graph \in GraphState /\ value \in Count
  BY DEF DataInv, RequestType
<1>4. globals'.graph = graph /\ \A n \in Name : globals'.saved[n] = None
  BY <1>1
<1>5. /\ graph'.visible = graph.visible \cup {Item1.name} /\ graph'.inner = {}
      /\ graph'.declared = graph.declared \cup {Item1.name}
  BY <1>1, <1>2, <1>3 DEF GraphState
<1>6. Done' = Done /\ Item1' = Item1
  BY <1>1 DEF Done, Item1
<1>7. FrameSays(globals.graph)'
  BY <1>1, <1>2, <1>4, <1>6 DEF FrameSays
<1>8. Begun'
  BY <1>1, <1>2, <1>4, <1>5, <1>6, <1>7 DEF Begun
<1>9. \A n \in Name :
        value'[n] = CountOf(request.text, Done, n) + (IF n = Item1.name THEN 1 ELSE 0)
  <2> SUFFICES ASSUME NEW n \in Name
               PROVE  value'[n] = CountOf(request.text, Done, n)
                                  + (IF n = Item1.name THEN 1 ELSE 0)
    OBVIOUS
  <2>1. value[n] \in Nat /\ value[n] = CountOf(request.text, Done, n)
    BY <1>2, <1>3 DEF Count, ValueTold
  <2>2. value'[n] = IF n = Item1.name THEN value[n] + 1 ELSE value[n]
    BY <1>1
  <2> QED BY <2>1, <2>2
<1>10. Resolving'
  <2>1. /\ graph'.declared = globals'.graph.declared \cup {Item1'.name}
        /\ graph'.inner = {}
    BY <1>4, <1>5, <1>6
  <2>2. \A n \in Name :
          /\ value'[n] = CountOf(request'.text, Done', n) + (IF n = Item1'.name THEN 1 ELSE 0)
          /\ globals'.saved[n] = None
    BY <1>1, <1>4, <1>6, <1>9
  <2> QED BY <1>8, <2>1, <2>2 DEF Resolving
<1> QED BY <1>1, <1>2, <1>10 DEF TellInv, Before, Reading

LEMMA TellRefused ==
  ASSUME TellInv, DataInv, RefuseFunction
  PROVE  TellInv'
<1>1. /\ stage = "parsed function" /\ stage' = "ending"
      /\ UNCHANGED <<parse, current, request, at, graph, value>>
      /\ (globals # None \/ locals)
  BY DEF RefuseFunction, heap
<1>2. More /\ Item1.kind = "function" /\ Item1.outcome # "malformed"
  BY <1>1 DEF DataInv, AtFunction
<1>3. Item1 = request.text[at + 1]
  BY DEF Item1
<1>4. globals # None
  BY <1>1, AddressAssumption DEF DataInv, Nested
<1>5. request.open
  BY <1>1, <1>4 DEF TellInv
<1>6. Ends(request.text, request.open, at + 1) /\ Left = {}
  BY <1>2, <1>3, <1>5 DEF Ends, Left, LeftAt
<1>7. Ended(request.text, request.open, at)
  BY <1>1, <1>6, EndsHere DEF Reading
<1>8. Done' = Done /\ Left' = {}
  BY <1>1, <1>6 DEF Done, Left
<1> QED BY <1>1, <1>7, <1>8 DEF TellInv, Before, Reading

(* What the transaction and the frame know of a function being resolved.   *)
LEMMA TellResolved ==
  ASSUME TellInv, DataInv, ResolveBody
  PROVE  TellInv'
<1> DEFINE text == request.text
           name == Item1.name
           touches == Item1.touches
           old == globals.graph
           Said(n) == CountOf(text, Done, n) + (IF n = name THEN 1 ELSE 0)
           more == Done \cup {at + 1}
<1>1. /\ stage = "resolving" /\ UNCHANGED <<parse, current, request, at, frame>>
      /\ graph' = [graph EXCEPT !.declared = @ \cup touches, !.inner = touches]
      /\ value' = [n \in Name |-> IF n \in touches THEN value[n] + 1 ELSE value[n]]
  BY DEF ResolveBody, Redefine, heap
<1>2. /\ Begun /\ graph.declared = old.declared \cup {name}
      /\ \A n \in Name : value[n] = Said(n) /\ globals.saved[n] = None
      /\ GraphTold(old, text, Done) /\ old.inner = {}
      /\ graph.visible = old.visible \cup {name}
      /\ (\A i \in 1 .. at : ~Ends(text, request.open, i))
      /\ SeenIs(text, at, parse[current].seen) /\ ~request.open
  BY <1>1, Zenon DEF TellInv, Reading, Resolving, Begun
<1>3. More /\ Item1.kind = "function" /\ request.open \in BOOLEAN
  BY <1>1 DEF DataInv, AtFunction, RequestType, Requests
<1>4. /\ text \in Text \cup {<<>>} /\ at \in Nat /\ at + 1 \in Nat
      /\ at + 1 \in DOMAIN text
      /\ Item1 = text[at + 1] /\ More1(at, Done, at + 1, more)
  BY <1>3, AtItem
<1>5. graph \in GraphState /\ value \in Count
  BY DEF DataInv, RequestType
<1>6. /\ graph'.visible = old.visible \cup {name} /\ graph'.inner = touches
      /\ graph'.declared = old.declared \cup {name} \cup touches
  <2> HIDE DEF old, name, touches
  <2> QED BY <1>1, <1>2, <1>5 DEF GraphState
<1>7. \A n \in Name : value'[n] = Said(n) + (IF n \in touches THEN 1 ELSE 0)
  <2> SUFFICES ASSUME NEW n \in Name
               PROVE  value'[n] = Said(n) + (IF n \in touches THEN 1 ELSE 0)
    OBVIOUS
  <2>1. value[n] = Said(n) /\ value[n] \in Nat
    BY <1>2, <1>5 DEF Count
  <2>2. value'[n] = IF n \in touches THEN value[n] + 1 ELSE value[n]
    BY <1>1
  <2> HIDE DEF Said, touches
  <2> QED BY <2>1, <2>2
<1>8. Done' = Done /\ Item1' = Item1 /\ request' = request /\ at' = at
  BY <1>1 DEF Done, Item1
<1>9. CASE Item1.outcome = "fatal"
  <2>1. stage' = "fatal"
    BY <1>9 DEF ResolveBody
  <2>2. Ends(text, request.open, at + 1) /\ Left = {at + 1}
    BY <1>2, <1>3, <1>4, <1>9 DEF Ends, Stops, Left, LeftAt
  <2>3. Ended(text, request.open, at)
    BY <1>1, <2>2, EndsHere DEF Reading
  <2>4. Left' = {at + 1} /\ Done' \cup Left' = more
    BY <1>8, <2>2 DEF Left
  <2>5. Touched(text, Left') = touches
    BY <1>4, <2>4 DEF Touched
  <2>6. GraphTold(graph', text, more) /\ ValueTold(value', text, more)
    <3> DEFINE v == [n \in Name |-> CountOf(text, Done, n)]
    <3>1. ValueTold(v, text, Done)
      BY DEF ValueTold
    <3>2. ASSUME NEW n \in Name
          PROVE  value'[n] = v[n] + Says(text, at + 1, n)
      <4>1. Says(text, at + 1, n)
              = (IF n = name THEN 1 ELSE 0) + (IF n \in touches THEN 1 ELSE 0)
        BY <1>3, <1>4 DEF Says
      <4>2. CountOf(text, Done, n) \in Nat
        BY <1>4, CountType DEF More1
      <4>3. v[n] = CountOf(text, Done, n)
        OBVIOUS
      <4> HIDE DEF v
      <4> QED BY <1>7, <4>1, <4>2, <4>3
    <3>3. GraphMore(old, graph', text[at + 1])
      BY <1>4, <1>6 DEF GraphMore
    <3>4. ValueMore(v, value', text, at + 1)
      <4> HIDE DEF v
      <4> QED BY <3>2 DEF ValueMore
    <3> HIDE DEF v, more, text, old
    <3> QED BY <1>2, <1>4, <3>1, <3>3, <3>4, TellsMore
  <2> HIDE DEF text, more, touches
  <2>7. request'.text = text /\ request'.open = request.open
    BY <1>8 DEF text
  <2> QED BY <1>1, <1>2, <1>6, <1>8, <2>1, <2>3, <2>4, <2>5, <2>6, <2>7
          DEF TellInv, Before, Reading
<1>10. CASE Item1.outcome # "fatal"
  <2>1. stage' = "resolved" /\ globals' = Noted(touches)
    BY <1>10 DEF ResolveBody
  <2>2. globals \in Transaction /\ globals # None /\ globals # Abandoned
    BY <1>1, NoneAssumption DEF DataInv, Nested
  <2>3. globals'.graph = old
    BY <2>1, <2>2 DEF Noted, Transaction
  <2>4. \A n \in Name :
          globals'.saved[n] = IF n \in touches /\ n \in old.declared THEN Said(n) ELSE None
    <3> SUFFICES ASSUME NEW n \in Name
                 PROVE  globals'.saved[n]
                          = IF n \in touches /\ n \in old.declared THEN Said(n) ELSE None
      OBVIOUS
    <3>1. globals'.saved[n]
            = IF n \in touches \cap old.declared /\ globals.saved[n] = None
              THEN value[n] ELSE globals.saved[n]
      BY <2>1, <2>2 DEF Noted, Transaction
    <3>2. value[n] = Said(n) /\ globals.saved[n] = None
      BY <1>2
    <3> QED BY <3>1, <3>2
  <2>5. FrameSays(globals.graph)'
    <3>1. FrameSays(old)
      BY <1>2 DEF Begun
    <3> QED BY <1>1, <1>8, <2>3, <3>1 DEF FrameSays
  <2>6. Begun'
    BY <1>2, <1>6, <1>8, <2>3, <2>5 DEF Begun
  <2>7. Resolved'
    <3>1. ASSUME NEW n \in Name
          PROVE  LET said == CountOf(request'.text, Done', n)
                             + (IF n = Item1'.name THEN 1 ELSE 0) IN
                 /\ value'[n] = said + (IF n \in Item1'.touches THEN 1 ELSE 0)
                 /\ globals'.saved[n]
                      = IF n \in Item1'.touches /\ n \in globals'.graph.declared
                        THEN said ELSE None
      BY <1>7, <1>8, <2>3, <2>4
    <3>2. /\ graph'.declared = globals'.graph.declared \cup {Item1'.name} \cup Item1'.touches
          /\ graph'.inner = Item1'.touches
      BY <1>6, <1>8, <2>3
    <3> HIDE DEF text, name, touches, old, Said
    <3> QED BY <2>6, <3>1, <3>2 DEF Resolved
  <2> QED BY <1>1, <1>2, <1>8, <2>1, <2>7 DEF TellInv, Before, Reading
<1> QED BY <1>9, <1>10

(* What is said at the end of a body.                                      *)
LEMMA BodySays ==
  ASSUME TellInv, DataInv, stage = "resolved"
  PROVE  LET old == globals.graph
             v == [n \in Name |-> CountOf(request.text, Done, n)]
         IN  /\ GraphTold(old, request.text, Done) /\ old.inner = {} /\ FrameSays(old)
             /\ ValueTold(v, request.text, Done)
             /\ GraphMore(old, graph, Item1) /\ graph.inner = Item1.touches
             /\ ValueMore(v, value, request.text, at + 1)
<1> DEFINE text == request.text
           name == Item1.name
           touches == Item1.touches
           old == globals.graph
           v == [n \in Name |-> CountOf(text, Done, n)]
<1>1. Resolved /\ Begun
  BY DEF TellInv, Resolved
<1>2. /\ GraphTold(old, text, Done) /\ old.inner = {} /\ FrameSays(old)
      /\ graph.visible = old.visible \cup {name}
  BY <1>1 DEF Begun
<1>3. /\ graph.declared = old.declared \cup {name} \cup touches
      /\ graph.inner = touches
  BY <1>1 DEF Resolved
<1>4. \A n \in Name :
        value[n] = CountOf(text, Done, n) + (IF n = name THEN 1 ELSE 0)
                   + (IF n \in touches THEN 1 ELSE 0)
  BY <1>1 DEF Resolved
<1>5. More /\ Item1.kind = "function"
  BY DEF DataInv, AtFunction
<1>6. Item1 = text[at + 1] /\ at \in Nat /\ Done \subseteq 1 .. at
  BY <1>5, AtItem DEF More1
<1>7. ASSUME NEW n \in Name
      PROVE  value[n] = v[n] + Says(text, at + 1, n)
  <2>1. Says(text, at + 1, n)
          = (IF n = name THEN 1 ELSE 0) + (IF n \in touches THEN 1 ELSE 0)
    BY <1>5, <1>6 DEF Says
  <2>2. CountOf(text, Done, n) \in Nat
    BY <1>6, CountType
  <2>3. v[n] = CountOf(text, Done, n)
    OBVIOUS
  <2> HIDE DEF v
  <2> QED BY <1>4, <2>1, <2>2, <2>3
<1>8. ValueTold(v, text, Done)
  BY DEF ValueTold
<1>9. ValueMore(v, value, text, at + 1)
  <2> HIDE DEF v
  <2> QED BY <1>7 DEF ValueMore
<1>10. GraphMore(old, graph, Item1)
  BY <1>2, <1>3 DEF GraphMore
<1> QED BY <1>2, <1>3, <1>8, <1>9, <1>10 DEF v, old, text

LEMMA TellCommitted ==
  ASSUME TellInv, DataInv, HeapInv, Commit
  PROVE  TellInv'
<1> DEFINE text == request.text
           old == globals.graph
           v == [n \in Name |-> CountOf(text, Done, n)]
           more == Done \cup {at + 1}
<1>1. /\ stage = "resolved" /\ stage' = "reading" /\ at' = at + 1
      /\ UNCHANGED <<current, request, value>> /\ globals' = None
      /\ graph' = [graph EXCEPT !.inner = {}]
      /\ Item1.outcome \in {"resolved", "rejected"}
  BY DEF Commit
<1>2. /\ GraphTold(old, text, Done) /\ ValueTold(v, text, Done)
      /\ GraphMore(old, graph, Item1) /\ graph.inner = Item1.touches
      /\ ValueMore(v, value, text, at + 1)
  BY <1>1, BodySays
<1>3. More /\ Item1.kind = "function" /\ graph \in GraphState /\ request.open \in BOOLEAN
  BY <1>1 DEF DataInv, AtFunction, RequestType, Requests
<1>4. /\ at \in Nat /\ at + 1 \in Nat
      /\ Item1 = text[at + 1] /\ More1(at, Done, at + 1, more)
  BY <1>3, AtItem
<1>5. /\ (\A i \in 1 .. at : ~Ends(text, request.open, i)) /\ ~request.open
  BY <1>1 DEF TellInv, Reading
<1>6. parse'[current].seen = Item1.touches
  BY <1>1, <1>2, CurrentState DEF Commit, ParseState, Parsing
<1>7. SeenIs(text, at + 1, parse'[current].seen)
  BY <1>1, <1>3, <1>4, <1>6, SeenGrows
<1>8. ~Ends(text, request.open, at + 1)
  BY <1>1, <1>4, <1>5 DEF Ends, Stops
<1>9. \A i \in 1 .. at + 1 : ~Ends(text, request.open, i)
  BY <1>4, <1>5, <1>8, NotEnded
<1>10. Done' = more
  <2>1. KeptTo(text, at + 1) = Done \cup (IF text[at + 1].outcome = "malformed" THEN {} ELSE {at + 1})
    BY <1>4, KeptAdd DEF Done
  <2>2. text[at + 1].outcome # "malformed"
    BY <1>1, <1>4
  <2> QED BY <1>1, <2>1, <2>2 DEF Done
<1>11. /\ graph'.visible = graph.visible /\ graph'.declared = graph.declared
       /\ graph'.inner = {}
  BY <1>1, <1>3 DEF GraphState
<1>12. GraphMore(old, graph', text[at + 1])
  BY <1>2, <1>4, <1>11 DEF GraphMore
<1> HIDE DEF text, old, v, more
<1>13. GraphTold(graph', text, more) /\ ValueTold(value, text, more)
  BY <1>2, <1>4, <1>12, TellsMore
<1>14. request'.text = text /\ request'.open = request.open
  BY <1>1 DEF text
<1> QED BY <1>1, <1>5, <1>7, <1>9, <1>10, <1>11, <1>13, <1>14 DEF TellInv, Before, Reading

(* Everything that was said of the function is taken back.                 *)
LEMMA TellRolledBack ==
  ASSUME TellInv, DataInv, Rollback
  PROVE  TellInv'
<1> DEFINE text == request.text
           name == Item1.name
           touches == Item1.touches
           old == globals.graph
<1>1. /\ stage = "resolved" /\ stage' = "ending"
      /\ UNCHANGED <<current, parse, request, at>>
      /\ graph' = old /\ value' = Restored /\ Item1.outcome = "failed"
  BY DEF Rollback, heap
<1>2. /\ GraphTold(old, text, Done) /\ old.inner = {} /\ FrameSays(old)
  BY <1>1, BodySays
<1>3. /\ Resolved /\ ~request.open
      /\ \A i \in 1 .. at : ~Ends(text, request.open, i)
  BY <1>1 DEF TellInv, Reading
<1>4. More /\ Item1.kind = "function" /\ globals \in Transaction
  BY <1>1 DEF DataInv, AtFunction, Nested
<1>5. Item1 = text[at + 1] /\ at \in Nat /\ at + 1 \in Nat /\ Done \subseteq 1 .. at
  BY <1>4, AtItem DEF More1
<1>6. Ends(text, request.open, at + 1) /\ Left = {}
  BY <1>1, <1>5 DEF Ends, Stops, Left, LeftAt
<1>7. Ended(text, request.open, at)
  BY <1>1, <1>6, EndsHere DEF Reading
<1>8. Done' = Done /\ Left' = {}
  BY <1>1, <1>6 DEF Done, Left
<1>9. ASSUME NEW n \in Name
      PROVE  value'[n] = CountOf(text, Done, n)
  <2>1. CountOf(text, Done, n) \in Nat
    BY <1>5, CountType
  <2>2. n \notin old.declared => CountOf(text, Done, n) = 0
    BY <1>2, CountNone DEF GraphTold
  <2>3. value'[n] = IF n = name THEN (IF frame.existed THEN frame.value ELSE 0)
                    ELSE IF n \notin old.declared THEN 0
                    ELSE IF globals.saved[n] # None THEN globals.saved[n]
                    ELSE value[n]
    BY <1>1 DEF Restored
  <2>4. /\ value[n] = CountOf(text, Done, n) + (IF n = name THEN 1 ELSE 0)
                      + (IF n \in touches THEN 1 ELSE 0)
        /\ globals.saved[n]
             = IF n \in touches /\ n \in old.declared
               THEN CountOf(text, Done, n) + (IF n = name THEN 1 ELSE 0) ELSE None
    BY <1>3 DEF Resolved
  <2>5. (frame.existed <=> name \in old.declared) /\ frame.value = CountOf(text, Done, name)
    BY <1>2 DEF FrameSays
  <2>6. None \notin Nat
    BY AddressAssumption
  <2> HIDE DEF name, touches, old, text
  <2>7. CASE n = name
    BY <2>2, <2>3, <2>5, <2>7
  <2>8. CASE n # name /\ n \notin old.declared
    BY <2>2, <2>3, <2>8
  <2>9. CASE n # name /\ n \in old.declared /\ n \in touches
    BY <2>1, <2>3, <2>4, <2>6, <2>9
  <2>10. CASE n # name /\ n \in old.declared /\ n \notin touches
    BY <2>1, <2>3, <2>4, <2>10
  <2> QED BY <2>7, <2>8, <2>9, <2>10
<1>10. ValueTold(value', text, Done)
  BY <1>9 DEF ValueTold
<1> QED BY <1>1, <1>2, <1>7, <1>8, <1>10 DEF TellInv, Before, Reading

LEMMA TellProject ==
  ASSUME TellInv, DataInv, ArenaInv, HeapInv, HeapInv', [ProjectNext]_projectVars
  PROVE  TellInv'
<1>1. CASE UNCHANGED vars
  <2>1. UNCHANGED <<stage, request, at, current, parse, graph, value, globals, frame>>
    BY <1>1 DEF vars, heap, tables, nesting
  <2>2. Item1' = Item1 /\ Done' = Done /\ Left' = Left
    BY <2>1 DEF Item1, Done, Left
  <2>3. FrameSays(graph)' <=> FrameSays(graph)
    BY <2>1, <2>2 DEF FrameSays
  <2>4. FrameSays(globals.graph)' <=> FrameSays(globals.graph)
    BY <2>1, <2>2 DEF FrameSays
  <2>5. Begun' <=> Begun
    BY <2>1, <2>2, <2>4 DEF Begun
  <2>6. (Resolving' <=> Resolving) /\ (Resolved' <=> Resolved)
    BY <2>1, <2>2, <2>5 DEF Resolving, Resolved
  <2> QED BY <2>1, <2>2, <2>3, <2>6 DEF TellInv
<1>2. CASE Work
  BY <1>2, TellBefore, TellAfter, TellItems, TellBegun, TellRefused, TellResolved,
     TellCommitted, TellRolledBack DEF Work, AnalysisStep
<1>3. CASE RetryBetween \/ TrapUpdate
  BY <1>3, TellAfter DEF RetryBetween, TrapUpdate
<1>4. ASSUME NEW text, Request(text)
      PROVE  TellInv'
  BY <1>4, TellRests DEF Request, ResetTables
<1>5. CASE DiscardBetween \/ CompileBetween \/ MergeSource \/ AbortUpdate
  <2>1. stage' = "idle"
    BY <1>5 DEF DiscardBetween, Discard, CompileBetween, Compile, MergeSource, AbortUpdate, Disposed
  <2> QED BY <2>1, TellRests
<1>6. CASE RefuseUpdate \/ \E revision \in DOMAIN Project : StartUpdate(revision)
  BY <1>1, <1>6 DEF RefuseUpdate, StartUpdate
<1> QED BY <1>1, <1>2, <1>3, <1>4, <1>5, <1>6
        DEF ProjectNext, ProjectStep, UpdateStep, projectVars, Ask, AnalyzeSource

-----------------------------------------------------------------------------
(* The answers.                                                            *)
LEMMA AnswerIs ==
  ASSUME TellInv, DataInv, Answer
  PROVE  answer'.found = Expected(answer'.text, answer'.open)
<1> DEFINE text == request.text
           open == request.open
           seen == parse[current].seen
           sight == Sight(text, at, Names(text, Done \cup Left), seen, Touched(text, Left))
<1>1. /\ stage = "parsed" /\ answer'.text = text /\ answer'.open = open
      /\ answer'.found = [n \in Name |-> IF n \in InSight THEN value[n] ELSE None]
  BY DEF Answer
<1>2. /\ GraphTold(graph, text, Done \cup Left) /\ ValueTold(value, text, Done \cup Left)
      /\ graph.inner = Touched(text, Left)
      /\ Ended(text, open, at) /\ SeenIs(text, at, seen)
  BY <1>1 DEF TellInv, Reading
<1>3. text \in Text \cup {<<>>} /\ at \in 0 .. Len(text)
  BY DEF DataInv, RequestType, Requests
<1>4. Expected(text, open)
        = [n \in Name |-> IF n \in sight THEN CountOf(text, Done \cup Left, n) ELSE None]
  BY <1>2, <1>3, ExpectedIs DEF Done, Left
<1>5. InSight = sight
  BY <1>2 DEF InSight, Sight, GraphTold, More
<1> HIDE DEF sight
<1>6. \A n \in Name : (IF n \in InSight THEN value[n] ELSE None)
                      = IF n \in sight THEN CountOf(text, Done \cup Left, n) ELSE None
  BY <1>2, <1>5 DEF ValueTold
<1> HIDE DEF text, open
<1>7. Expected(text, open) = [n \in Name |-> IF n \in InSight THEN value[n] ELSE None]
  BY <1>4, <1>6, Zenon
<1> QED BY <1>1, <1>7

(* An answer is given in one step, and otherwise kept or disposed of.      *)
LEMMA AnswerStays ==
  ASSUME [ProjectNext]_projectVars
  PROVE  (Work /\ Answer) \/ answer' \in {answer, None}
<1>1. CASE Work /\ ~Answer
  BY <1>1 DEF Work, AnalysisStep, Refuse, Document, Rewrite, RewriteFails, Create,
     CreateFails, OpenStream, OpenFails, BeginStream, Unreadable, ReadPrototype,
     ReadObject, ParseFunction, SkipFunction, BeginFunction, RefuseFunction,
     ResolveBody, Commit, Rollback, EndStream, Recover, Reparse, RetryFailed, Retry,
     BuilderFails
<1>2. CASE RetryBetween \/ TrapUpdate \/ DiscardBetween \/ CompileBetween
  BY <1>2 DEF RetryBetween, RetryAtCursor, Retry, TrapUpdate, Trap, DiscardBetween,
     Discard, CompileBetween, Compile
<1>3. ASSUME NEW text, Request(text)
      PROVE  answer' = None
  BY <1>3 DEF Request
<1>4. CASE MergeSource \/ AbortUpdate
  BY <1>4 DEF MergeSource, AbortUpdate, Disposed
<1>5. CASE RefuseUpdate \/ (\E revision \in DOMAIN Project : StartUpdate(revision))
           \/ UNCHANGED projectVars
  BY <1>5 DEF RefuseUpdate, StartUpdate, projectVars, vars
<1> QED BY <1>1, <1>2, <1>3, <1>4, <1>5
        DEF ProjectNext, ProjectStep, UpdateStep, Ask, AnalyzeSource, Work

LEMMA AnswersProject ==
  ASSUME AnswersExact, TellInv, DataInv, [ProjectNext]_projectVars
  PROVE  AnswersExact'
<1>1. CASE Work /\ Answer
  BY <1>1, AnswerIs DEF AnswersExact
<1>2. CASE answer' \in {answer, None}
  BY <1>2 DEF AnswersExact
<1> QED BY <1>1, <1>2, AnswerStays

-----------------------------------------------------------------------------
(* The errors of a text: what has been read of it without being reported,  *)
(* and the item it ended with.                                             *)
ErrorInv ==
  /\ stage \in {"ready", "opened"} =>
       parse[current].rejected = None /\ ~parse[current].fatal
  /\ stage \in Reading =>
       /\ \A i \in 1 .. at :
            /\ request.text[i].outcome = "malformed" => request.error
            /\ request.text[i].outcome = "rejected" => parse[current].rejected # None
       /\ parse[current].fatal => stage = "parsed" /\ request.error
  /\ stage \in {"ending", "parsed"} /\ More =>
       /\ Item1.outcome \in {"overlimit", "unreadable"} => request.error
       /\ Item1.outcome = "fatal" =>
            request.error \/ (request.open /\ Item1.kind = "function")

(* An answer without an error is to a text without one.                    *)
AnswerReports ==
  answer # None /\ ~answer.error => ~Reports(answer.text, answer.open)

Source == Project[update.revision][NextSource]

(* A text that is not the source's any more is that of a parse that failed. *)
AskedInv ==
  update # None /\ update.asked =>
    /\ stage \notin {"idle", "failed"} => request.error \/ request.text = Source
    /\ answer # None => answer.error \/ answer.text = Source

Indexes(texts, read, functions) ==
  /\ \A i \in 1 .. Len(read) : ~Reports(texts[i], read[i])
  /\ functions = [n \in Name |->
       IF \E i \in 1 .. Len(read) : n \in Adds(texts[i], read[i])
       THEN {i \in 1 .. Len(read) : n \in Defines(texts[i], read[i])}
       ELSE None]

(* Half an index is exact as far as it has come.                           *)
PendingInv ==
  update # None => Indexes(Project[update.revision], pending.read, pending.functions)

LEMMA ErrorRests ==
  ASSUME stage' \in {"idle", "failed", "checked", "documented", "rewritten"}
  PROVE  ErrorInv'
BY DEF ErrorInv, Reading

LEMMA ErrorBefore ==
  ASSUME ErrorInv, DataInv, ArenaInv, HeapInv, HeapInv',
         Refuse \/ Document \/ Rewrite \/ RewriteFails \/ Create \/ CreateFails
           \/ OpenStream \/ OpenFails \/ BeginStream \/ EndStream
  PROVE  ErrorInv'
<1>1. CASE Refuse \/ OpenFails \/ RewriteFails \/ CreateFails \/ Document \/ Rewrite
  BY <1>1, ErrorRests
  DEF Refuse, OpenFails, RewriteFails, CreateFails, Document, Rewrite, Failed
<1>2. CASE Create
  <2>1. stage = "rewritten" /\ stage' = "ready"
    BY <1>2 DEF Create
  <2>2. current' \in State
    BY <2>1 DEF HeapInv, HeapType, HeapStage
  <2>3. parse'[current'].rejected = None /\ parse'[current'].fatal = FALSE
    BY <1>2, <2>2 DEF Create, HeapInv, HeapType
  <2> QED BY <2>1, <2>3 DEF ErrorInv, Reading
<1>3. CASE OpenStream \/ BeginStream
  <2>1. /\ stage \in {"ready", "opened"} /\ stage' \in {"fatal", "opened", "reading"}
        /\ UNCHANGED <<at, current>>
    BY <1>3 DEF OpenStream, BeginStream
  <2>2. parse[current].rejected = None /\ ~parse[current].fatal /\ at = 0
    BY <2>1 DEF ErrorInv, ArenaInv, Before
  <2>3. /\ current \in State /\ parse[current] \in ParseState
        /\ parse \in [State -> ParseState \cup {None}]
    BY <2>1, CurrentState DEF Parsing
  <2>4. /\ parse'[current].rejected = parse[current].rejected
        /\ parse'[current].fatal = parse[current].fatal
    BY <1>3, <2>3 DEF OpenStream, BeginStream, ParseState
  <2>5. at' = 0 /\ \A i \in 1 .. at' : FALSE
    BY <2>1, <2>2
  <2> QED BY <2>1, <2>2, <2>4, <2>5 DEF ErrorInv, Reading
<1>4. CASE EndStream
  <2>1. /\ stage \in {"reading", "ending"} /\ stage' = "parsed"
        /\ UNCHANGED <<at, current, request>> /\ (stage = "reading" => ~More)
    BY <1>4 DEF EndStream
  <2>2. /\ parse'[current].rejected = parse[current].rejected
        /\ parse'[current].fatal = parse[current].fatal
    BY <1>4, <2>1, CurrentState DEF EndStream, ParseState, Parsing
  <2>3. More' = More /\ Item1' = Item1
    BY <2>1 DEF More, Item1
  <2> QED BY <2>1, <2>2, <2>3 DEF ErrorInv, Reading
<1> QED BY <1>1, <1>2, <1>3, <1>4

LEMMA ErrorAfter ==
  ASSUME ErrorInv, HeapInv, DataInv,
         Recover \/ Reparse \/ RetryFailed \/ RetryAtCursor \/ Answer \/ BuilderFails \/ Trap
  PROVE  ErrorInv'
<1>1. CASE Reparse \/ RetryFailed \/ RetryAtCursor \/ Answer \/ BuilderFails \/ Trap
  BY <1>1, ErrorRests
  DEF Reparse, RetryFailed, RetryAtCursor, Retry, Answer, BuilderFails, Trap, Failed
<1>2. CASE Recover
  <2>1. /\ stage = "fatal" /\ stage' = "parsed" /\ host = "native"
        /\ UNCHANGED <<at, current>>
    BY <1>2 DEF Recover
  <2>2. request'.text = request.text /\ request'.error = TRUE
    BY <1>2 DEF Recover, DataInv, RequestType, Requests
  <2>3. recovery = current
    BY <2>1 DEF HeapInv, HeapStage, Parsing
  <2>4. parse'[current].rejected = parse[current].rejected
    BY <1>2, <2>1, <2>3, CurrentState DEF Recover, ParseState, Parsing
  <2> QED BY <2>1, <2>2, <2>4 DEF ErrorInv, Reading
<1> QED BY <1>1, <1>2

LEMMA ErrorItems ==
  ASSUME ErrorInv, DataInv,
         Unreadable \/ ReadPrototype \/ ReadObject \/ ParseFunction \/ SkipFunction
  PROVE  ErrorInv'
<1>1. stage = "reading" /\ More /\ UNCHANGED <<parse, current>>
  BY DEF Unreadable, ReadPrototype, ReadObject, ParseFunction, SkipFunction, heap
<1>2. /\ request.text \in Text \cup {<<>>} /\ at \in Nat
      /\ at + 1 \in 1 .. Len(request.text) /\ Item1 = request.text[at + 1]
  BY <1>1, AtItem
<1>3. /\ \A i \in 1 .. at :
           /\ request.text[i].outcome = "malformed" => request.error
           /\ request.text[i].outcome = "rejected" => parse[current].rejected # None
      /\ ~parse[current].fatal
  BY <1>1 DEF ErrorInv, Reading
<1>4. \A i \in 1 .. at + 1 : i \in 1 .. at \/ i = at + 1
  BY <1>2
<1>5. CASE Unreadable \/ ParseFunction
  <2>1. stage' \in {"fatal", "parsed function"} /\ UNCHANGED <<request, at>>
    BY <1>5 DEF Unreadable, ParseFunction
  <2> QED BY <1>1, <1>3, <2>1 DEF ErrorInv, Reading
<1>6. CASE ReadPrototype \/ ReadObject
  <2>1. /\ request' = request
        /\ \/ stage' = "fatal" /\ at' = at
           \/ stage' = "reading" /\ at' = at + 1
              /\ Item1.outcome \notin {"malformed", "rejected"}
    <3>1. Item1.kind = "object" => Item1.outcome \in {"plain", "fatal", "unreadable"}
      BY <1>2, ItemLaw
    <3> QED BY <1>1, <1>6, <3>1 DEF ReadPrototype, ReadObject
  <2>2. CASE stage' = "fatal"
    BY <1>1, <1>3, <2>1, <2>2 DEF ErrorInv, Reading
  <2>3. CASE stage' = "reading"
    BY <1>1, <1>2, <1>3, <1>4, <2>1, <2>3 DEF ErrorInv, Reading
  <2> QED BY <2>1, <2>2, <2>3
<1>7. CASE SkipFunction
  <2>1. request'.text = request.text /\ request'.error = TRUE
    BY <1>7 DEF SkipFunction, DataInv, RequestType, Requests
  <2>2. CASE Item1.outcome = "malformed"
    <3>1. stage' = "reading" /\ at' = at + 1
      BY <1>1, <1>7, <2>2 DEF SkipFunction
    <3> QED BY <1>1, <1>2, <1>3, <1>4, <2>1, <2>2, <3>1 DEF ErrorInv, Reading
  <2>3. CASE Item1.outcome # "malformed"
    <3>1. stage' = "ending" /\ at' = at
      BY <1>7, <2>3 DEF SkipFunction
    <3> QED BY <1>1, <1>3, <2>1, <3>1 DEF ErrorInv, Reading
  <2> QED BY <2>2, <2>3
<1> QED BY <1>5, <1>6, <1>7

LEMMA ErrorFunction ==
  ASSUME ErrorInv, DataInv, HeapInv, TellInv,
         BeginFunction \/ RefuseFunction \/ ResolveBody \/ Commit \/ Rollback
  PROVE  ErrorInv'
<1>1. stage \in {"parsed function", "resolving", "resolved"}
  BY DEF BeginFunction, RefuseFunction, ResolveBody, Commit, Rollback
<1>2. /\ More /\ Item1.kind = "function"
      /\ Item1.outcome \notin {"unreadable", "malformed", "overlimit"}
  BY <1>1 DEF DataInv, AtFunction
<1>3. at \in Nat /\ Item1 = request.text[at + 1]
  BY <1>2, AtItem
<1>4. /\ \A i \in 1 .. at :
           /\ request.text[i].outcome = "malformed" => request.error
           /\ request.text[i].outcome = "rejected" => parse[current].rejected # None
      /\ ~parse[current].fatal
  BY <1>1 DEF ErrorInv, Reading
<1>5. CASE BeginFunction \/ ResolveBody
  <2>1. stage' \in {"resolving", "resolved", "fatal"} /\ UNCHANGED <<request, at, parse, current>>
    BY <1>5 DEF BeginFunction, ResolveBody, heap
  <2> QED BY <1>4, <2>1 DEF ErrorInv, Reading
<1>6. CASE RefuseFunction
  <2>1. /\ stage = "parsed function" /\ stage' = "ending"
        /\ UNCHANGED <<request, at, parse, current>> /\ (globals # None \/ locals)
    BY <1>6 DEF RefuseFunction, heap
  <2>2. globals # None
    BY <2>1, AddressAssumption DEF DataInv, Nested
  <2>3. request.open
    BY <2>1, <2>2 DEF TellInv
  <2>4. Item1' = Item1
    BY <2>1 DEF Item1
  <2> QED BY <1>2, <1>4, <2>1, <2>3, <2>4 DEF ErrorInv, Reading
<1>7. CASE Rollback
  <2>1. /\ stage' = "ending" /\ UNCHANGED <<request, at, parse, current>>
        /\ Item1.outcome = "failed"
    BY <1>7 DEF Rollback, heap
  <2>2. Item1' = Item1
    BY <2>1 DEF Item1
  <2> QED BY <1>4, <2>1, <2>2 DEF ErrorInv, Reading
<1>8. CASE Commit
  <2>1. stage' = "reading" /\ at' = at + 1 /\ UNCHANGED <<request, current>>
    BY <1>8 DEF Commit
  <2>2. /\ parse'[current].rejected
             = IF parse[current].rejected = None /\ Item1.outcome = "rejected"
               THEN at + 1 ELSE parse[current].rejected
        /\ parse'[current].fatal = parse[current].fatal
    BY <1>1, <1>8, CurrentState DEF Commit, ParseState, Parsing
  <2>3. at + 1 # None
    BY <1>3, AddressAssumption
  <2>4. \A i \in 1 .. at + 1 : i \in 1 .. at \/ i = at + 1
    BY <1>3
  <2> QED BY <1>2, <1>3, <1>4, <2>1, <2>2, <2>3, <2>4 DEF ErrorInv, Reading
<1> QED BY <1>5, <1>6, <1>7, <1>8

LEMMA ErrorProject ==
  ASSUME ErrorInv, TellInv, DataInv, ArenaInv, HeapInv, HeapInv', [ProjectNext]_projectVars
  PROVE  ErrorInv'
<1>1. CASE UNCHANGED vars
  <2>1. UNCHANGED <<stage, request, at, current, parse>>
    BY <1>1 DEF vars, heap
  <2> QED BY <2>1 DEF ErrorInv, More, Item1
<1>2. CASE Work
  BY <1>2, ErrorBefore, ErrorAfter, ErrorItems, ErrorFunction DEF Work, AnalysisStep
<1>3. CASE RetryBetween \/ TrapUpdate
  BY <1>3, ErrorAfter DEF RetryBetween, TrapUpdate
<1>4. ASSUME NEW text, Request(text)
      PROVE  ErrorInv'
  BY <1>4, ErrorRests DEF Request
<1>5. CASE DiscardBetween \/ CompileBetween \/ MergeSource \/ AbortUpdate
  <2>1. stage' = "idle"
    BY <1>5 DEF DiscardBetween, Discard, CompileBetween, Compile, MergeSource, AbortUpdate, Disposed
  <2> QED BY <2>1, ErrorRests
<1>6. CASE RefuseUpdate \/ \E revision \in DOMAIN Project : StartUpdate(revision)
  BY <1>1, <1>6 DEF RefuseUpdate, StartUpdate
<1> QED BY <1>1, <1>2, <1>3, <1>4, <1>5, <1>6
        DEF ProjectNext, ProjectStep, UpdateStep, projectVars, Ask, AnalyzeSource

LEMMA ReportIs ==
  ASSUME ErrorInv, TellInv, DataInv, Answer, ~answer'.error
  PROVE  ~Reports(answer'.text, answer'.open)
<1> DEFINE text == request.text
           open == request.open
<1>1. /\ stage = "parsed" /\ answer'.text = text /\ answer'.open = open
      /\ ~request.error /\ parse[current].rejected = None
  BY DEF Answer
<1>2. Ended(text, open, at)
  BY <1>1 DEF TellInv
<1>3. \A i \in 1 .. at : text[i].outcome \notin {"malformed", "rejected"}
  BY <1>1 DEF ErrorInv, Reading
<1>4. text \in Text \cup {<<>>} /\ at \in 0 .. Len(text)
  BY DEF DataInv, RequestType, Requests
<1>5. Len(text) \in Nat /\ DOMAIN text = 1 .. Len(text) /\ at \in Nat
  BY <1>4, TextLen
<1>6. SUFFICES ASSUME NEW i \in 1 .. Len(text),
                      text[i].outcome \in {"rejected", "malformed", "overlimit", "unreadable", "fatal"},
                      ~(open /\ text[i].kind = "function" /\ text[i].outcome \in {"rejected", "fatal"}),
                      \A j \in 1 .. i - 1 : ~Ends(text, open, j)
               PROVE  FALSE
  BY <1>1, <1>5 DEF Reports
<1>7. CASE i \in 1 .. at
  <2>1. ~Ends(text, open, i)
    BY <1>2, <1>7 DEF Ended
  <2>2. text[i].outcome \notin Stops
    BY <2>1 DEF Ends
  <2> QED BY <1>3, <1>6, <1>7, <2>2 DEF Stops
<1>8. CASE i = at + 1
  <2>1. More /\ Item1 = text[i]
    BY <1>5, <1>8 DEF More, Item1
  <2>2. Ends(text, open, i)
    BY <1>2, <1>8, <2>1 DEF Ended, More
  <2>3. /\ text[i].outcome \notin {"overlimit", "unreadable"}
        /\ text[i].outcome = "fatal" => open /\ text[i].kind = "function"
    BY <1>1, <2>1 DEF ErrorInv
  <2>4. text[i].outcome = "rejected" => text[i].kind = "function"
    BY <1>4, ItemLaw
  <2> QED BY <1>6, <2>2, <2>3, <2>4 DEF Ends, Stops
<1>9. CASE i > at + 1
  <2>1. at < Len(text) /\ at + 1 \in 1 .. i - 1
    BY <1>5, <1>9
  <2>2. Ends(text, open, at + 1)
    BY <1>2, <2>1 DEF Ended
  <2> QED BY <1>6, <2>1, <2>2
<1> QED BY <1>5, <1>7, <1>8, <1>9

LEMMA ReportsProject ==
  ASSUME AnswerReports, ErrorInv, TellInv, DataInv, [ProjectNext]_projectVars
  PROVE  AnswerReports'
<1>1. CASE Work /\ Answer
  BY <1>1, ReportIs DEF AnswerReports
<1>2. CASE answer' \in {answer, None}
  BY <1>2 DEF AnswerReports
<1> QED BY <1>1, <1>2, AnswerStays

-----------------------------------------------------------------------------
(* The index.                                                              *)

(* A request keeps its text until it returns, or has an error.             *)
LEMMA TextStays ==
  ASSUME ErrorInv, DataInv, Work, stage' \notin {"idle", "failed"}
  PROVE  /\ stage \notin {"idle", "failed"} /\ answer' = answer
         /\ request'.text = request.text \/ request'.error
         /\ request.error => request'.error
<1>1. request \in Requests
  BY DEF DataInv, RequestType
<1>2. CASE RetryFailed
  <2>1. stage = "parsed" /\ parse[current].fatal /\ answer' = answer
    BY <1>2 DEF RetryFailed, Retry
  <2>2. request.error
    BY <2>1 DEF ErrorInv, Reading
  <2>3. PICK t : request' = [request EXCEPT !.text = t, !.retried = TRUE]
    BY <1>2 DEF RetryFailed, Retry
  <2>4. request'.error = request.error
    BY <1>1, <2>3 DEF Requests
  <2> QED BY <2>1, <2>2, <2>4
<1>3. CASE Refuse \/ RewriteFails \/ CreateFails \/ OpenFails \/ Answer \/ BuilderFails
  BY <1>3 DEF Refuse, RewriteFails, CreateFails, OpenFails, Answer, BuilderFails, Failed
<1>4. CASE Document \/ Rewrite \/ Create \/ BeginStream \/ Unreadable \/ ReadPrototype
           \/ ReadObject \/ ParseFunction \/ BeginFunction \/ RefuseFunction \/ ResolveBody
           \/ Commit \/ Rollback \/ EndStream
  BY <1>4 DEF Document, Rewrite, Create, BeginStream, Unreadable, ReadPrototype,
     ReadObject, ParseFunction, BeginFunction, RefuseFunction, ResolveBody,
     Commit, Rollback, EndStream
<1>5. CASE OpenStream \/ SkipFunction \/ Recover \/ Reparse
  <2>1. /\ stage \notin {"idle", "failed"} /\ answer' = answer
    BY <1>5 DEF OpenStream, SkipFunction, Recover, Reparse
  <2>2. /\ request'.text = request.text
        /\ request'.error = TRUE \/ request'.error = request.error
    BY <1>1, <1>5 DEF OpenStream, SkipFunction, Recover, Reparse, Requests
  <2> QED BY <2>1, <2>2
<1> QED BY <1>2, <1>3, <1>4, <1>5 DEF Work, AnalysisStep

LEMMA AskedProject ==
  ASSUME AskedInv, UpdateInv, ErrorInv, DataInv, [ProjectNext]_projectVars
  PROVE  AskedInv'
<1>1. CASE Work
  <2>1. UNCHANGED <<update, pending>> /\ Source' = Source
    BY <1>1 DEF Work, project, Source, NextSource
  <2>2. CASE stage' \notin {"idle", "failed"}
    BY <1>1, <2>1, <2>2, TextStays DEF AskedInv
  <2>3. CASE stage' \in {"idle", "failed"} /\ answer' \in {answer, None}
    BY <2>1, <2>3 DEF AskedInv
  <2>4. CASE Answer
    <3>1. /\ stage = "parsed" /\ stage' = "idle" /\ answer'.text = request.text
          /\ (request.error => answer'.error)
      BY <2>4 DEF Answer
    <3> QED BY <2>1, <3>1 DEF AskedInv
  <2> QED BY <2>2, <2>3, <2>4, AnswerStays
<1>2. CASE AnalyzeSource
  <2>1. update # None /\ update \in Updates
    BY <1>2 DEF AnalyzeSource, UpdateInv
  <2>2. update'.revision = update.revision /\ pending' = pending
    BY <1>2, <2>1 DEF AnalyzeSource, Updates
  <2>3. Source' = Source
    BY <2>2 DEF Source, NextSource
  <2>4. request'.text = Source /\ answer' = None
    BY <1>2 DEF AnalyzeSource, Request, NewRequest, Source
  <2> QED BY <2>3, <2>4 DEF AskedInv
<1>3. CASE MergeSource
  <2>1. update # None /\ update \in Updates
    BY <1>3 DEF MergeSource, SourceReturned, UpdateInv
  <2>2. update' = None \/ update' = [update EXCEPT !.asked = FALSE]
    BY <1>3 DEF MergeSource
  <2>3. update' = None \/ ~update'.asked
    BY <2>1, <2>2 DEF Updates
  <2> QED BY <2>3 DEF AskedInv
<1>4. CASE RetryBetween \/ DiscardBetween \/ CompileBetween \/ TrapUpdate \/ AbortUpdate
           \/ RefuseUpdate \/ \E text \in Text : Ask(text)
  <2>1. update' = None
    BY <1>4 DEF RetryBetween, DiscardBetween, CompileBetween, TrapUpdate, AbortUpdate,
       RefuseUpdate, Ask, project
  <2> QED BY <2>1 DEF AskedInv
<1>5. ASSUME NEW revision \in DOMAIN Project, StartUpdate(revision)
      PROVE  AskedInv'
  <2>1. update' = None \/ update' = [revision |-> revision, asked |-> FALSE]
    BY <1>5 DEF StartUpdate
  <2>2. update' = None \/ ~update'.asked
    BY <2>1
  <2> QED BY <2>2 DEF AskedInv
<1>6. CASE UNCHANGED projectVars
  <2>1. UNCHANGED <<update, pending, stage, request, answer>>
    BY <1>6 DEF projectVars, project, vars
  <2> QED BY <2>1 DEF AskedInv, Source, NextSource
<1> QED BY <1>1, <1>2, <1>3, <1>4, <1>5, <1>6 DEF ProjectNext, ProjectStep, UpdateStep

(* What the sources give, and what the next one adds to it.                *)
LEMMA IndexStep ==
  ASSUME NEW texts, NEW read, NEW more, NEW old, NEW ans, NEW k \in Nat, NEW revision,
         revision \in DOMAIN Project, texts = Project[revision], texts \in Seq(Text),
         k < Len(texts), Len(read) = k, Len(more) = k + 1,
         \A i \in 1 .. k : more[i] = read[i],
         ans.text = texts[k + 1], more[k + 1] = ans.open,
         ans.found = Expected(ans.text, ans.open),
         Indexes(texts, read, old), ~Reports(ans.text, ans.open)
  PROVE  Indexes(texts, more, Merged(old, ans, k + 1))
<1> DEFINE A(i) == Adds(texts[i], more[i])
           D(i) == Defines(texts[i], more[i])
<1>1. \A i \in 1 .. k + 1 : i \in 1 .. k \/ i = k + 1
  OBVIOUS
<1>2. ~Reports(texts[k + 1], more[k + 1])
  OBVIOUS
<1>3. \A i \in 1 .. k : ~Reports(texts[i], read[i]) /\ read[i] = more[i]
  BY DEF Indexes
<1>4. \A i \in 1 .. k + 1 : ~Reports(texts[i], more[i])
  BY <1>1, <1>2, <1>3
<1>5. old = [n \in Name |-> IF \E i \in 1 .. k : n \in Adds(texts[i], read[i])
                            THEN {i \in 1 .. k : n \in Defines(texts[i], read[i])}
                            ELSE None]
  BY DEF Indexes
<1>6. \A n \in Name : old[n] = IF \E i \in 1 .. k : n \in A(i)
                               THEN {i \in 1 .. k : n \in D(i)} ELSE None
  <2> SUFFICES ASSUME NEW n \in Name
               PROVE  old[n] = IF \E i \in 1 .. k : n \in A(i)
                               THEN {i \in 1 .. k : n \in D(i)} ELSE None
    OBVIOUS
  <2>1. old[n] = IF \E i \in 1 .. k : n \in Adds(texts[i], read[i])
                 THEN {i \in 1 .. k : n \in Defines(texts[i], read[i])} ELSE None
    BY <1>5, Zenon
  <2>2. \A i \in 1 .. k : read[i] = more[i]
    OBVIOUS
  <2>3. {i \in 1 .. k : n \in Defines(texts[i], read[i])} = {i \in 1 .. k : n \in D(i)}
    BY <2>2
  <2>4. (\E i \in 1 .. k : n \in Adds(texts[i], read[i])) <=> \E i \in 1 .. k : n \in A(i)
    BY <2>2
  <2> HIDE DEF A, D
  <2> QED BY <2>1, <2>3, <2>4
<1>7. FunctionsOf(ans) = A(k + 1)
  <2> DEFINE says == Expected(ans.text, ans.open)
             r == [text |-> ans.text, found |-> says]
  <2>1. r.text = ans.text /\ r.found = says /\ ans.found = says
    OBVIOUS
  <2>2. A(k + 1) = FunctionsOf(r)
    BY Zenon DEF Adds
  <2> HIDE DEF r, says, A
  <2> QED BY <2>1, <2>2 DEF FunctionsOf
<1>8. \A n \in Name : n \in D(k + 1) <=> n \in A(k + 1) /\ ans.found[n] > 0
  <2>1. texts[k + 1] = ans.text /\ more[k + 1] = ans.open
    OBVIOUS
  <2> QED BY <2>1 DEF Defines
<1>9. \A i \in 1 .. k : \A n \in Name : n \in D(i) => n \in A(i)
  BY DEF Defines
<1>10. \A S \in SUBSET (1 .. k) : S # None
  <2>1. 1 .. k \subseteq DOMAIN texts
    OBVIOUS
  <2> QED BY <2>1, NoIndexAssumption
<1> HIDE DEF A, D
<1>11. ASSUME NEW n \in Name
       PROVE  Merged(old, ans, k + 1)[n]
                = IF \E i \in 1 .. k + 1 : n \in A(i)
                  THEN {i \in 1 .. k + 1 : n \in D(i)} ELSE None
  <2>1. Merged(old, ans, k + 1)[n]
          = IF n \notin FunctionsOf(ans) THEN old[n]
            ELSE (IF old[n] = None THEN {} ELSE old[n])
                 \cup (IF ans.found[n] > 0 THEN {k + 1} ELSE {})
    BY DEF Merged
  <2>2. (\E i \in 1 .. k + 1 : n \in A(i)) <=> (\E i \in 1 .. k : n \in A(i)) \/ n \in A(k + 1)
    BY <1>1
  <2>3. {i \in 1 .. k + 1 : n \in D(i)}
          = {i \in 1 .. k : n \in D(i)} \cup (IF n \in D(k + 1) THEN {k + 1} ELSE {})
    BY <1>1
  <2>4. old[n] = IF \E i \in 1 .. k : n \in A(i)
                 THEN {i \in 1 .. k : n \in D(i)} ELSE None
    BY <1>6
  <2> DEFINE S == {i \in 1 .. k : n \in D(i)}
  <2>5. S # None
    BY <1>10
  <2>6. (~ \E i \in 1 .. k : n \in A(i)) => S = {}
    BY <1>9
  <2>7. n \in D(k + 1) <=> n \in FunctionsOf(ans) /\ ans.found[n] > 0
    BY <1>7, <1>8
  <2> HIDE DEF S
  <2>8. CASE n \notin FunctionsOf(ans)
    <3>1. {i \in 1 .. k + 1 : n \in D(i)} = S
      BY <2>3, <2>7, <2>8 DEF S
    <3> QED BY <1>7, <2>1, <2>2, <2>4, <2>8, <3>1 DEF S
  <2>9. CASE n \in FunctionsOf(ans)
    <3>1. (IF old[n] = None THEN {} ELSE old[n]) = S
      BY <2>4, <2>5, <2>6 DEF S
    <3>2. {i \in 1 .. k + 1 : n \in D(i)} = S \cup (IF ans.found[n] > 0 THEN {k + 1} ELSE {})
      BY <2>3, <2>7, <2>9 DEF S
    <3> QED BY <1>7, <2>1, <2>2, <2>9, <3>1, <3>2
  <2> QED BY <2>8, <2>9
<1>12. Merged(old, ans, k + 1)
         = [n \in Name |-> IF \E i \in 1 .. k + 1 : n \in A(i)
                           THEN {i \in 1 .. k + 1 : n \in D(i)} ELSE None]
  <2> DEFINE F(n) == IF \E i \in 1 .. k + 1 : n \in A(i)
                     THEN {i \in 1 .. k + 1 : n \in D(i)} ELSE None
             G(n) == IF n \notin FunctionsOf(ans) THEN old[n]
                     ELSE (IF old[n] = None THEN {} ELSE old[n])
                          \cup (IF ans.found[n] > 0 THEN {k + 1} ELSE {})
  <2>1. Merged(old, ans, k + 1) = [n \in Name |-> G(n)]
    BY Zenon DEF Merged
  <2>2. \A n \in Name : Merged(old, ans, k + 1)[n] = F(n)
    BY <1>11
  <2> HIDE DEF F, G
  <2>3. \A n \in Name : F(n) = G(n)
    BY <2>1, <2>2
  <2>4. [n \in Name |-> F(n)] = [n \in Name |-> G(n)]
    BY <2>3, Zenon
  <2> QED BY <2>1, <2>4 DEF F
<1> QED BY <1>4, <1>12, Zenon DEF Indexes, A, D

(* A merged source leaves the half that is built exact.                    *)
LEMMA MergeIndexes ==
  ASSUME UpdateInv, DataInv, PendingInv, AskedInv, AnswersExact, AnswerReports,
         SourceReturned, answer # None, ~answer.error
  PROVE  Indexes(Project[update.revision], Next1.read, Next1.functions)
<1> DEFINE texts == Project[update.revision]
           k == Len(pending.read)
<1>1. update # None /\ update.asked
  BY DEF SourceReturned
<1>2. /\ update.revision \in DOMAIN Project /\ pending \in Index /\ k \in Nat
      /\ texts \in Seq(Text) /\ k < Len(texts)
  BY <1>1, Updating DEF UpdateInv
<1>3. pending.read \in Seq(BOOLEAN)
  BY <1>2 DEF Index
<1>4. /\ Next1.functions = Merged(pending.functions, answer, k + 1)
      /\ Next1.read = Append(pending.read, answer.open)
  BY <1>1, Merges DEF NextSource
<1>5. /\ Len(Next1.read) = k + 1 /\ Next1.read[k + 1] = answer.open
      /\ \A i \in 1 .. k : Next1.read[i] = pending.read[i]
  BY <1>3, <1>4
<1>6. answer.text = texts[k + 1]
  BY <1>1 DEF AskedInv, Source, NextSource
<1>7. answer.found = Expected(answer.text, answer.open) /\ ~Reports(answer.text, answer.open)
  BY DEF AnswersExact, AnswerReports
<1>8. Indexes(texts, pending.read, pending.functions)
  BY <1>1 DEF PendingInv
<1>9. Indexes(texts, Next1.read, Merged(pending.functions, answer, k + 1))
  <2> HIDE DEF texts, k
  <2>1. texts = Project[update.revision] /\ Len(pending.read) = k
    BY DEF texts, k
  <2> QED BY <1>2, <1>5, <1>6, <1>7, <1>8, <2>1, IndexStep
<1> QED BY <1>4, <1>9

LEMMA StartIndexes ==
  ASSUME NEW revision \in DOMAIN Project
  PROVE  Indexes(Project[revision], Empty(revision).read, Empty(revision).functions)
<1>1. /\ Empty(revision).read = <<>> /\ Empty(revision).functions = [n \in Name |-> None]
  BY DEF Empty
<1>2. Len(<<>>) = 0 /\ 1 .. 0 = {}
  OBVIOUS
<1> QED BY <1>1, <1>2 DEF Indexes

(* The last source is the one that makes the numbers agree.                *)
LEMMA MergeEnds ==
  ASSUME UpdateInv, DataInv, MergeSource
  PROVE  /\ update # None /\ update \in Updates /\ answer # None /\ ~answer.error
         /\ SourceReturned /\ Fits(Next1.functions)
         /\ IF Len(Next1.read) = Len(Project[update.revision])
            THEN index' = Next1 /\ pending' = None /\ update' = None
            ELSE index' = index /\ pending' = Next1
                 /\ update' = [update EXCEPT !.asked = FALSE]
BY DEF MergeSource, Next1, SourceReturned, UpdateInv

(* What the other steps leave of an update.                                *)
LEMMA OtherSteps ==
  ASSUME UpdateInv, [ProjectNext]_projectVars, ~MergeSource
  PROVE  /\ index' = index
         /\ \/ update' = None
            \/ update # None /\ update'.revision = update.revision /\ pending' = pending
            \/ \E revision \in DOMAIN Project :
                 pending' = Empty(revision) /\ update'.revision = revision
<1>1. ASSUME UNCHANGED project
      PROVE  index' = index /\ update' = update /\ pending' = pending
  BY <1>1 DEF project
<1>2. CASE AnalyzeSource
  <2>1. update # None /\ update \in Updates
    BY <1>2 DEF AnalyzeSource, UpdateInv
  <2>2. update'.revision = update.revision
    BY <1>2, <2>1 DEF AnalyzeSource, Updates
  <2> QED BY <1>2, <2>1, <2>2 DEF AnalyzeSource
<1>3. ASSUME NEW revision \in DOMAIN Project, StartUpdate(revision)
      PROVE  /\ index' = index
             /\ update' = None
                \/ (pending' = Empty(revision) /\ update'.revision = revision)
  <2>1. index' = index
    BY <1>3 DEF StartUpdate
  <2> DEFINE u == [revision |-> revision, asked |-> FALSE]
  <2>2. update' = None \/ (pending' = Empty(revision) /\ update' = u)
    BY <1>3 DEF StartUpdate
  <2>3. u.revision = revision
    OBVIOUS
  <2> HIDE DEF u
  <2> QED BY <2>1, <2>2, <2>3
<1>4. CASE AbortUpdate \/ TrapUpdate \/ RefuseUpdate
  BY <1>4 DEF AbortUpdate, TrapUpdate, RefuseUpdate
<1>5. CASE Work \/ RetryBetween \/ DiscardBetween \/ CompileBetween
           \/ \E text \in Text : Ask(text)
  BY <1>1, <1>5 DEF Work, RetryBetween, DiscardBetween, CompileBetween, Ask
<1>6. CASE UNCHANGED projectVars
  BY <1>1, <1>6 DEF projectVars
<1> QED BY <1>2, <1>3, <1>4, <1>5, <1>6 DEF ProjectNext, ProjectStep, UpdateStep

LEMMA PendingProject ==
  ASSUME PendingInv, UpdateInv, DataInv, AskedInv, AnswersExact, AnswerReports,
         [ProjectNext]_projectVars
  PROVE  PendingInv'
<1>1. CASE MergeSource
  <2>1. CASE Len(Next1.read) = Len(Project[update.revision])
    BY <1>1, <2>1, MergeEnds DEF PendingInv
  <2>2. CASE Len(Next1.read) # Len(Project[update.revision])
    <3>1. pending' = Next1 /\ update'.revision = update.revision
      BY <1>1, <2>2, MergeEnds DEF Updates
    <3>2. Indexes(Project[update.revision], Next1.read, Next1.functions)
      BY <1>1, MergeEnds, MergeIndexes
    <3> QED BY <3>1, <3>2 DEF PendingInv, Indexes
  <2> QED BY <2>1, <2>2
<1>2. CASE ~MergeSource
  <2>1. CASE update' = None
    BY <2>1 DEF PendingInv
  <2>2. CASE update # None /\ update'.revision = update.revision /\ pending' = pending
    <3>1. Indexes(Project[update.revision], pending.read, pending.functions)
      BY <2>2 DEF PendingInv
    <3> QED BY <2>2, <3>1 DEF PendingInv, Indexes
  <2>3. ASSUME NEW revision \in DOMAIN Project,
               pending' = Empty(revision), update'.revision = revision
        PROVE  PendingInv'
    <3>1. Indexes(Project[revision], Empty(revision).read, Empty(revision).functions)
      BY StartIndexes
    <3> QED BY <2>3, <3>1 DEF PendingInv, Indexes
  <2> QED BY <1>2, <2>1, <2>2, <2>3, OtherSteps
<1> QED BY <1>1, <1>2

LEMMA IndexProject ==
  ASSUME IndexExact, UpdateInv, DataInv, PendingInv, AskedInv, AnswersExact, AnswerReports,
         [ProjectNext]_projectVars
  PROVE  IndexExact'
<1>1. CASE index' = index
  BY <1>1 DEF IndexExact
<1>2. CASE MergeSource /\ Len(Next1.read) = Len(Project[update.revision])
  <2> DEFINE new == Next1
             texts == Project[update.revision]
  <2>1. index' = Next1 /\ Fits(Next1.functions) /\ update # None /\ answer # None
    BY <1>2, MergeEnds
  <2>2. Indexes(Project[update.revision], Next1.read, Next1.functions)
    BY <1>2, MergeEnds, MergeIndexes
  <2>3. Next1.revision = update.revision /\ update.revision \in DOMAIN Project
    BY <2>1, Merges, Updating
  <2>4. texts \in Seq(Text) /\ Len(new.read) = Len(texts)
    BY <1>2, <2>3, ProjectAssumption
  <2>5. DOMAIN texts = 1 .. Len(new.read)
    BY <2>4
  <2>6. index' = new /\ new.revision = update.revision /\ Fits(new.functions)
        /\ Indexes(texts, new.read, new.functions)
    BY <2>1, <2>2, <2>3
  <2>7. /\ \A i \in DOMAIN texts : ~Reports(texts[i], new.read[i])
        /\ new.functions = [n \in Name |->
             IF \E i \in DOMAIN texts : n \in Adds(texts[i], new.read[i])
             THEN {i \in DOMAIN texts : n \in Defines(texts[i], new.read[i])}
             ELSE None]
    <3> HIDE DEF new, texts
    <3> QED BY <2>5, <2>6 DEF Indexes
  <2>8. Project[index'.revision] = texts
    BY <2>6
  <2> HIDE DEF new, texts
  <2>9. /\ Len(index'.read) = Len(texts) /\ Fits(index'.functions)
        /\ \A i \in DOMAIN texts : ~Reports(texts[i], index'.read[i])
        /\ index'.functions = [n \in Name |->
             IF \E i \in DOMAIN texts : n \in Adds(texts[i], index'.read[i])
             THEN {i \in DOMAIN texts : n \in Defines(texts[i], index'.read[i])}
             ELSE None]
    BY <2>4, <2>6, <2>7, Zenon
  <2> QED BY <2>8, <2>9, Zenon DEF IndexExact
<1> QED BY <1>1, <1>2, MergeEnds, OtherSteps

(* Only the last source of another revision replaces an index.             *)
LEMMA IndexStays ==
  ASSUME UpdateInv, DataInv, [ProjectNext]_projectVars, index # None
  PROVE  index' = index \/ (index' # None /\ index'.revision # index.revision)
<1>1. CASE MergeSource
  <2>1. update # None /\ answer # None /\ index' \in {index, Next1}
    BY <1>1, MergeEnds
  <2>2. Next1 \in Index /\ Next1.revision = update.revision
    BY <2>1, Merges
  <2>3. Next1 # None /\ index.revision # update.revision
    BY <2>1, <2>2, NoIndexAssumption DEF UpdateInv
  <2> QED BY <2>1, <2>2, <2>3
<1>2. CASE ~MergeSource
  BY <1>2, OtherSteps
<1> QED BY <1>1, <1>2

-----------------------------------------------------------------------------
(* The theorems.                                                           *)

(* The inductive invariant: none of its parts is kept by the steps alone.  *)
ProjectInv ==
  /\ HeapInv /\ DataInv /\ ArenaInv /\ UpdateInv /\ TellInv /\ ErrorInv
  /\ AnswersExact /\ AnswerReports /\ AskedInv /\ PendingInv /\ IndexExact

LEMMA InitOwned == ASSUME ProjectInit PROVE HeapInv
<1>1. /\ host \in {"native", "wasm"} /\ stage = "idle" /\ held = Nothing /\ current = None
      /\ parse = [p \in State |-> None] /\ slot = None /\ live = {}
      /\ modes = FALSE /\ recovery = None
  BY DEF ProjectInit, Init
<1>2. held.source = None /\ held.docs = None /\ Mine = {}
  BY <1>1 DEF Nothing, Mine
<1>3. held \in [{"source", "docs"} -> Buffer \cup {None}]
  BY <1>1 DEF Nothing
<1>4. \A p \in State : parse[p] = None /\ p # None
  BY <1>1, AddressAssumption
<1>5. HeapType
  BY <1>1, <1>3 DEF HeapType, Stage
<1>6. HeapStage
  BY <1>1, <1>2 DEF HeapStage, Parsing
<1>7. HeapOwned /\ HeapFresh
  BY <1>1, <1>2, <1>4 DEF HeapOwned, HeapFresh
<1> QED BY <1>5, <1>6, <1>7 DEF HeapInv

LEMMA InitTyped == ASSUME ProjectInit PROVE DataInv
<1>1. /\ stage = "idle" /\ request = NewRequest(<<>>) /\ at = 0 /\ graph = NoGraph
      /\ value = NoValue /\ globals = None /\ locals = FALSE /\ frame = None
      /\ busy = FALSE /\ answer = None
  BY DEF ProjectInit, Init
<1>2. RequestType
  BY <1>1, EmptyRequest, EmptyTables DEF RequestType
<1>3. Nested /\ FrameType /\ AtFunction
  BY <1>1 DEF Nested, FrameType, AtFunction
<1> QED BY <1>1, <1>2, <1>3 DEF DataInv

LEMMA ProjectStarts == ASSUME ProjectInit PROVE ProjectInv
<1>1. /\ stage = "idle" /\ at = 0 /\ arena = NoBlocks /\ answer = None /\ index = None
      /\ pending = None /\ update = None
  BY DEF ProjectInit, Init
<1>2. ArenaInv
  BY <1>1, NoBlocksArena DEF ArenaInv, Before, InFunction
<1>3. UpdateInv
  BY <1>1 DEF UpdateInv
<1>4. ErrorInv
  BY <1>1 DEF ErrorInv, Reading
<1>5. AnswersExact /\ AnswerReports /\ AskedInv /\ PendingInv /\ IndexExact
  BY <1>1 DEF AnswersExact, AnswerReports, AskedInv, PendingInv, IndexExact
<1>6. TellInv
  BY <1>1 DEF TellInv, Before, InFunction, Reading
<1> QED BY <1>2, <1>3, <1>4, <1>5, <1>6, InitOwned, InitTyped DEF ProjectInv

LEMMA ProjectKeeps ==
  ASSUME ProjectInv, [ProjectNext]_projectVars
  PROVE  ProjectInv'
<1>1. /\ HeapInv /\ DataInv /\ ArenaInv /\ UpdateInv /\ TellInv /\ ErrorInv
      /\ AnswersExact /\ AnswerReports /\ AskedInv /\ PendingInv /\ IndexExact
      /\ RequestType /\ Arena(arena)
  BY DEF ProjectInv, DataInv, ArenaInv
<1>2. HeapInv'
  BY <1>1, HeapProject
<1>3. DataInv' /\ ArenaInv' /\ UpdateInv'
  BY <1>1, DataProject, ArenaProject, UpdateProject
<1>4. TellInv' /\ ErrorInv'
  BY <1>1, <1>2, TellProject, ErrorProject
<1>5. AnswersExact' /\ AnswerReports' /\ AskedInv'
  BY <1>1, AnswersProject, ReportsProject, AskedProject
<1>6. PendingInv' /\ IndexExact'
  BY <1>1, PendingProject, IndexProject
<1> QED BY <1>2, <1>3, <1>4, <1>5, <1>6 DEF ProjectInv

LEMMA ProjectInvariant == ProjectSpec => []ProjectInv
<1>1. ProjectInit => ProjectInv
  BY ProjectStarts
<1>2. ProjectInv /\ [ProjectNext]_projectVars => ProjectInv'
  BY ProjectKeeps
<1> QED BY <1>1, <1>2, PTL DEF ProjectSpec

LEMMA InvTyped == ASSUME ProjectInv PROVE TypeOK
<1>1. HeapType /\ HeapStage /\ DataInv /\ Arena(arena)
  BY DEF ProjectInv, HeapInv, ArenaInv
<1>2. globals \in {None, Abandoned} \cup Transaction
  BY <1>1 DEF DataInv, Nested
<1> QED BY <1>1, <1>2 DEF TypeOK, HeapType, HeapStage, DataInv, RequestType, FrameType, Arena

(* Every buffer that is allocated has one owner.                           *)
LEMMA InvOwned == ASSUME ProjectInv PROVE Ownership
<1> DEFINE alive == {p \in State : parse[p] # None}
<1>1. HeapType /\ HeapStage /\ HeapOwned
  BY DEF ProjectInv, HeapInv
<1>2. alive = {slot} \ {None}
  BY <1>1, AddressAssumption DEF HeapType, HeapOwned
<1>3. \A p \in alive : p = slot /\ Owned(p) = Owns(parse[slot]) /\ Distinct(parse[slot])
  BY <1>1, <1>2 DEF HeapOwned, Owned, Owns, Field
<1>4. live = Mine \cup UNION {Owned(p) : p \in alive}
  BY <1>1, <1>2, <1>3 DEF HeapOwned
<1>5. Mine \cap UNION {Owned(p) : p \in alive} = {}
  BY <1>1, <1>2, <1>3 DEF HeapOwned
<1>6. \A p \in alive : \A f, g \in Field :
        f # g /\ parse[p][f] = parse[p][g] => parse[p][f] = None
  BY <1>3 DEF Distinct, Field
<1>7. recovery # None => parse[recovery] # None
  BY <1>1, AddressAssumption DEF HeapStage, HeapOwned, HeapType
<1> HIDE DEF alive
<1> QED BY <1>1, <1>2, <1>4, <1>5, <1>6, <1>7, InvTyped DEF Ownership, HeapStage, Mine, alive

LEMMA InvTrees == ASSUME ProjectInv PROVE TreesExact
<1>1. \A i : TreesOf(i) = TreesIn(request.text, i)
  BY DEF TreesOf, TreesIn
<1>2. FlattenSeq([i \in 1 .. at |-> TreesOf(i)]) = KeptTrees(request.text, at)
  BY <1>1, Zenon DEF KeptTrees
<1> QED BY <1>2 DEF ProjectInv, ArenaInv, TreesExact

(* Every buffer and every parse state has one owner at every moment at     *)
(* which a request may stop: analyze_source frees what it holds on every   *)
(* return, a fatal diagnostic finds the jump of the running parse, and     *)
(* what a trap leaves is in the cleanup that the next reset runs.          *)
THEOREM AlwaysOwned == ProjectSpec => []Ownership
BY ProjectInvariant, InvOwned, PTL

(* Between two items the arena holds exactly the trees of the items that   *)
(* psx_frontend_next_function kept: a checkpoint that is rolled back       *)
(* takes the trees of one function and no other.                           *)
THEOREM TreesAlwaysExact == ProjectSpec => []TreesExact
BY ProjectInvariant, InvTrees, PTL

(* Every answer, and that to every source of a project, is what the text   *)
(* alone gives, but for a transaction left active when its parse began:    *)
(* the tables are reset before every parse, a function that fails is       *)
(* rolled back, and an abandoned or a repeated parse leaves nothing.       *)
THEOREM AnswersAlwaysExact == ProjectSpec => []AnswersExact
<1>1. ProjectInv => AnswersExact
  BY DEF ProjectInv
<1> QED BY <1>1, ProjectInvariant, PTL

(* A published index is that of all sources of one revision and of nothing *)
(* else: project_merge_snapshot meets only answers without an error, which *)
(* are those to the sources themselves and not to a text that a retry made *)
(* of one.                                                                 *)
THEOREM IndexAlwaysExact == ProjectSpec => []IndexExact
<1>1. ProjectInv => IndexExact
  BY DEF ProjectInv
<1> QED BY <1>1, ProjectInvariant, PTL

(* An update that fails, is refused or is ended by a trap leaves the       *)
(* published index, which only the last source of another revision         *)
(* replaces (ag_language_project_index_update).                            *)
THEOREM IndexAlwaysKept == ProjectSpec => IndexKept
<1>1. ProjectInv /\ [ProjectNext]_projectVars
        => [index # None => \/ index' = index
                            \/ (index' # None /\ index'.revision # index.revision)]_projectVars
  BY IndexStays DEF ProjectInv
<1> QED BY <1>1, ProjectInvariant, PTL DEF ProjectSpec, IndexKept

=============================================================================

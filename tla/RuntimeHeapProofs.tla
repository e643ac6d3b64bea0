------------------------- MODULE RuntimeHeapProofs --------------------------
(***************************************************************************)
(* Proofs about RuntimeHeap, for a memory of any size, any program and any *)
(* number of calls.                                                        *)
(*                                                                         *)
(* The operations of the heap pass through chains that are not exact: a    *)
(* block was cut and the tag behind it is old, or a block was given back   *)
(* and has not met its free neighbours.  Whole says that the blocks still  *)
(* follow each other, Tagged and Apart say where the boundary tags and the *)
(* free blocks are in order: everywhere but at the blocks of a set.        *)
(*                                                                         *)
(* The objects of the program then live in the words of their blocks       *)
(* behind the headers (Zone), which no two blocks share.  Every operation  *)
(* replaces the block of one variable and leaves the other blocks and      *)
(* their words alone (Replaces), so the other objects stay as they were    *)
(* (OthersKept), and what is left is the object that was operated on.      *)
(***************************************************************************)
EXTENDS RuntimeHeap, WellFoundedInduction, TLAPS

(* The blocks of k follow each other from the base to the top.             *)
Whole(k) ==
  /\ k = [meta |-> k.meta, top |-> k.top, last |-> k.last]
  /\ k.top \in Address
  /\ Blocks(k) \subseteq Base .. k.top - 1
  /\ k.meta \in [Blocks(k) -> Header]
  /\ \A h \in Blocks(k) :
       /\ k.meta[h].total >= MinBlock
       /\ After(k, h) \in Blocks(k) \cup {k.top}
       /\ \A x \in Blocks(k) : x <= h \/ x >= After(k, h)
       /\ h # Base => \E b \in Blocks(k) : After(k, b) = h
  /\ k.top = Base => Blocks(k) = {} /\ k.last = 0
  /\ k.top # Base => /\ Base \in Blocks(k) /\ k.last \in Blocks(k)
                     /\ After(k, k.last) = k.top

(* Every block but those of old keeps the size of the block before it.     *)
Tagged(k, old) ==
  /\ Base \in Blocks(k) => k.meta[Base].prev = 0
  /\ \A b \in Blocks(k) :
       After(k, b) \in Blocks(k) \ old =>
         k.meta[After(k, b)].prev = k.meta[b].total

(* No free block lies before a free block that is not in near.             *)
Apart(k, near) ==
  \A b \in Blocks(k) :
    After(k, b) \in Blocks(k) \ near => ~(IsFree(k, b) /\ IsFree(k, After(k, b)))

(* An allocated block knows the alignment it was asked for.                *)
Aligned(k, new) ==
  \A h \in Blocks(k) \ new :
    ~IsFree(k, h) => k.meta[h].alignment \in Alignments

(* The allocated blocks, and what an operation on others leaves of them.    *)
Live(k) == {x \in Blocks(k) : ~IsFree(k, x)}
Same(k, m, x) ==
  /\ m.meta[x].total = k.meta[x].total
  /\ m.meta[x].requested = k.meta[x].requested
  /\ m.meta[x].offset = k.meta[x].offset
  /\ m.meta[x].alignment = k.meta[x].alignment
SameLive(k, m) == Live(m) = Live(k) /\ \A x \in Live(k) : Same(k, m, x)
SameBut(k, m, h) ==
  /\ Live(m) \ {h} = Live(k) \ {h}
  /\ \A x \in Live(k) \ {h} : Same(k, m, x)

Exact(k) == Whole(k) /\ Tagged(k, {}) /\ Apart(k, {})

IInv == TypeOK /\ Exact(heap) /\ Aligned(heap, {})
-----------------------------------------------------------------------------
(* Layout                                                                  *)

LEMMA AlignUpBound ==
  ASSUME NEW x \in Nat, NEW a \in Nat \ {0}
  PROVE  AlignUp(x, a) \in Nat /\ AlignUp(x, a) >= x
<1> DEFINE n == x + a - 1
           q == n \div a
<1>1. n \in Nat /\ a \in Nat /\ a > 0 /\ x = n - a + 1
  OBVIOUS
<1>2. q \in Nat /\ n % a \in 0 .. a - 1 /\ n = (a * q) + (n % a)
  BY <1>1
<1>3. AlignUp(x, a) = q * a
  BY DEF AlignUp
<1> HIDE DEF n, q
<1>4. q * a = a * q /\ q * a \in Nat
  BY <1>1, <1>2
<1> QED BY <1>1, <1>2, <1>3, <1>4

(* A block that is laid out has room for its header, its prefix and what   *)
(* was asked for.                                                          *)
LEMMA Layout ==
  ASSUME NEW h \in Nat, NEW requested \in Nat \ {0}, NEW alignment \in Nat \ {0}
  PROVE  /\ Offset(h, alignment) \in Nat
         /\ Offset(h, alignment) >= HeaderSize + PrefixSize
         /\ Needed(h, requested, alignment) \in Nat
         /\ Needed(h, requested, alignment) >= MinBlock
         /\ Needed(h, requested, alignment) >= Offset(h, alignment) + requested
<1>1. /\ HeaderSize \in Nat /\ PrefixSize \in Nat /\ Unit \in Nat \ {0}
      /\ MinBlock \in Nat
  BY HeapAssumption
<1>2. h + HeaderSize + PrefixSize \in Nat
  BY <1>1
<1>3. /\ Offset(h, alignment) \in Nat
      /\ Offset(h, alignment) >= HeaderSize + PrefixSize
  BY <1>1, <1>2, AlignUpBound DEF Offset
<1> DEFINE total == AlignUp(Offset(h, alignment) + requested, Unit)
<1>4. total \in Nat /\ total >= Offset(h, alignment) + requested
  <2>1. Offset(h, alignment) + requested \in Nat
    BY <1>3
  <2> QED BY <1>1, <2>1, AlignUpBound
<1>5. Needed(h, requested, alignment) = IF total < MinBlock THEN MinBlock ELSE total
  BY DEF Needed
<1> HIDE DEF total
<1> QED BY <1>1, <1>3, <1>4, <1>5
-----------------------------------------------------------------------------
(* Chains                                                                  *)

(* What a whole chain says of a block.                                     *)
LEMMA BlockFacts ==
  ASSUME NEW k, Whole(k), NEW h \in Blocks(k)
  PROVE  /\ h \in Nat /\ h >= Base /\ h < k.top /\ h \in Word
         /\ k.top \in Nat /\ k.top <= Limit /\ k.top # Base
         /\ k.meta[h] \in Header
         /\ k.meta[h].total \in Nat /\ k.meta[h].total > 0
         /\ k.meta[h].total >= MinBlock
         /\ k.meta[h].prev \in Nat /\ k.meta[h].allocated \in BOOLEAN
         /\ After(k, h) = h + k.meta[h].total
         /\ After(k, h) \in Nat /\ After(k, h) > h /\ After(k, h) <= k.top
         /\ After(k, h) \in Blocks(k) \cup {k.top}
         /\ After(k, h) < k.top <=> After(k, h) \in Blocks(k)
<1>1. Base \in Nat \ {0} /\ Limit \in Nat /\ MinBlock \in Nat /\ MinBlock > 0
  BY HeapAssumption
<1>2. /\ h \in Base .. k.top - 1 /\ k.top \in Base .. Limit
      /\ k.meta[h] \in Header /\ k.meta[h].total >= MinBlock
      /\ After(k, h) \in Blocks(k) \cup {k.top}
      /\ Blocks(k) \subseteq Base .. k.top - 1
  BY DEF Whole, Address, Blocks
<1>3. /\ k.meta[h].total \in Nat /\ k.meta[h].prev \in Nat
      /\ k.meta[h].allocated \in BOOLEAN
  BY <1>2 DEF Header
<1>4. After(k, h) = h + k.meta[h].total
  BY DEF After
<1> QED BY <1>1, <1>2, <1>3, <1>4 DEF Word

(* A block lies before at most one other.                                  *)
LEMMA OneBefore ==
  ASSUME NEW k, Whole(k), NEW b \in Blocks(k), NEW c \in Blocks(k),
         After(k, b) = After(k, c)
  PROVE  b = c
<1>1. /\ b \in Nat /\ c \in Nat
      /\ After(k, b) \in Nat /\ After(k, b) > b /\ After(k, c) > c
  BY BlockFacts
<1>2. /\ c <= b \/ c >= After(k, b)
      /\ b <= c \/ b >= After(k, c)
  BY DEF Whole
<1> QED BY <1>1, <1>2

(* Only the sizes make the chain.                                          *)
LEMMA SameSizes ==
  ASSUME NEW k, Whole(k), NEW m, m = [meta |-> m.meta, top |-> m.top, last |-> m.last],
         Blocks(m) = Blocks(k), m.meta \in [Blocks(m) -> Header],
         m.top = k.top, m.last = k.last,
         \A h \in Blocks(k) : m.meta[h].total = k.meta[h].total
  PROVE  /\ Whole(m)
         /\ \A h \in Blocks(k) : After(m, h) = After(k, h)
<1>1. \A h \in Blocks(k) : After(m, h) = After(k, h)
  BY DEF After
<1>2. \A h \in Blocks(m) :
        /\ m.meta[h].total >= MinBlock
        /\ After(m, h) \in Blocks(m) \cup {m.top}
        /\ \A x \in Blocks(m) : x <= h \/ x >= After(m, h)
        /\ h # Base => \E b \in Blocks(m) : After(m, b) = h
  BY <1>1 DEF Whole
<1>3. /\ m.top \in Address /\ Blocks(m) \subseteq Base .. m.top - 1
      /\ m.top = Base => Blocks(m) = {} /\ m.last = 0
      /\ m.top # Base => /\ Base \in Blocks(m) /\ m.last \in Blocks(m)
                         /\ After(m, m.last) = m.top
  BY <1>1 DEF Whole
<1> QED BY <1>1, <1>2, <1>3 DEF Whole

(* Nor does it matter to an exact chain what was asked of a block.         *)
LEMMA SameChain ==
  ASSUME NEW k, Exact(k), NEW m, m = [meta |-> m.meta, top |-> m.top, last |-> m.last],
         Blocks(m) = Blocks(k), m.meta \in [Blocks(m) -> Header],
         m.top = k.top, m.last = k.last,
         \A h \in Blocks(k) : /\ m.meta[h].total = k.meta[h].total
                              /\ m.meta[h].prev = k.meta[h].prev
                              /\ IsFree(m, h) => IsFree(k, h)
  PROVE  Exact(m)
<1>1. Whole(m) /\ \A h \in Blocks(k) : After(m, h) = After(k, h)
  BY SameSizes DEF Exact
<1>2. Tagged(m, {})
  BY <1>1 DEF Exact, Tagged
<1>3. Apart(m, {})
  BY <1>1 DEF Exact, Apart
<1> QED BY <1>1, <1>2, <1>3 DEF Exact

LEMMA AbsorbChain ==
  ASSUME NEW k, Whole(k), NEW h \in Blocks(k), NEW b \in Blocks(k),
         b = After(k, h), NEW a, a = Absorb(k, h, b)
  PROVE  /\ Whole(a)
         /\ Blocks(a) = Blocks(k) \ {b}
         /\ h \in Blocks(a) /\ a.top = k.top
         /\ After(a, h) = After(k, b)
         /\ a.meta[h] = [k.meta[h] EXCEPT !.total = @ + k.meta[b].total]
         /\ a.meta[h].total = k.meta[h].total + k.meta[b].total
         /\ \A x \in Blocks(a) \ {h} :
              a.meta[x] = k.meta[x] /\ After(a, x) = After(k, x)
<1>1. /\ a = [meta |-> a.meta, top |-> a.top, last |-> a.last]
      /\ a.meta = [x \in Blocks(k) \ {b} |->
                    IF x = h THEN [k.meta[h] EXCEPT !.total = @ + k.meta[b].total]
                    ELSE k.meta[x]]
      /\ a.top = k.top
      /\ a.last = IF k.last = b THEN h ELSE k.last
  <2>1. k = [meta |-> k.meta, top |-> k.top, last |-> k.last]
    BY DEF Whole
  <2> QED BY <2>1 DEF Absorb
<1>2. Blocks(a) = Blocks(k) \ {b}
  BY <1>1 DEF Blocks
<1>3. /\ h \in Nat /\ h >= Base /\ h < k.top
      /\ k.meta[h] \in Header /\ k.meta[h].total \in Nat
      /\ k.meta[h].total >= MinBlock /\ After(k, h) = h + k.meta[h].total
  BY BlockFacts
<1>4. /\ b \in Nat /\ b > h /\ b < k.top
      /\ k.meta[b].total \in Nat /\ After(k, b) = b + k.meta[b].total
      /\ After(k, b) \in Nat /\ After(k, b) > b
      /\ After(k, b) \in Blocks(k) \cup {k.top}
  BY BlockFacts
<1>5. h \in Blocks(a)
  BY <1>2, <1>3, <1>4
<1>6. a.meta[h] = [k.meta[h] EXCEPT !.total = @ + k.meta[b].total]
  BY <1>1, <1>2, <1>5
<1>7. /\ a.meta[h].total = k.meta[h].total + k.meta[b].total
      /\ a.meta[h] \in Header
  BY <1>3, <1>4, <1>6 DEF Header
<1>8. After(a, h) = After(k, b)
  BY <1>3, <1>4, <1>7 DEF After
<1>9. \A x \in Blocks(a) \ {h} :
        a.meta[x] = k.meta[x] /\ After(a, x) = After(k, x)
  BY <1>1, <1>2 DEF After
<1>10. a.meta \in [Blocks(a) -> Header]
  <2>1. \A x \in Blocks(a) : a.meta[x] \in Header
    BY <1>2, <1>7, <1>9 DEF Whole
  <2> QED BY <1>1, <1>2, <2>1
<1>11. ASSUME NEW x \in Blocks(a)
       PROVE  /\ a.meta[x].total >= MinBlock
              /\ After(a, x) \in Blocks(a) \cup {a.top}
              /\ \A y \in Blocks(a) : y <= x \/ y >= After(a, x)
              /\ x # Base => \E c \in Blocks(a) : After(a, c) = x
  <2>1. x \in Blocks(k) /\ x # b
    BY <1>2
  <2>2. x \in Nat /\ k.meta[x].total >= MinBlock /\ After(k, x) \in Blocks(k) \cup {k.top}
    BY <2>1, BlockFacts
  <2>3. a.meta[x].total >= MinBlock
    BY <1>3, <1>4, <1>7, <1>9, <2>2, HeapAssumption
  <2>4. After(a, x) \in Blocks(a) \cup {a.top}
    <3>1. CASE x = h
      BY <1>1, <1>2, <1>4, <1>8, <3>1
    <3>2. CASE x # h
      <4>1. After(k, x) # b
        BY <2>1, <3>2, OneBefore
      <4> QED BY <1>1, <1>2, <1>9, <2>2, <3>2, <4>1
    <3> QED BY <3>1, <3>2
  <2>5. ASSUME NEW y \in Blocks(a)
        PROVE  y <= x \/ y >= After(a, x)
    <3>1. y \in Blocks(k) /\ y # b /\ y \in Nat
      BY <1>2, BlockFacts
    <3>2. /\ y <= x \/ y >= After(k, x)
          /\ y <= b \/ y >= After(k, b)
      BY <2>1, <3>1 DEF Whole
    <3>3. CASE x = h
      BY <1>3, <1>4, <1>8, <3>1, <3>2, <3>3
    <3>4. CASE x # h
      BY <1>9, <3>2, <3>4
    <3> QED BY <3>3, <3>4
  <2>6. ASSUME x # Base
        PROVE  \E c \in Blocks(a) : After(a, c) = x
    <3>1. PICK c \in Blocks(k) : After(k, c) = x
      BY <2>1, <2>6 DEF Whole
    <3>2. CASE c = b
      BY <1>5, <1>8, <3>1, <3>2
    <3>3. CASE c # b
      <4>1. c # h
        BY <2>1, <3>1
      <4> QED BY <1>2, <1>9, <3>1, <3>3, <4>1
    <3> QED BY <3>2, <3>3
  <2> QED BY <2>3, <2>4, <2>5, <2>6
<1>12. /\ k.top \in Address /\ k.top # Base /\ Base \in Nat
       /\ Base \in Blocks(k) /\ k.last \in Blocks(k) /\ After(k, k.last) = k.top
  BY BlockFacts, HeapAssumption DEF Whole
<1>13. Base \in Blocks(a)
  BY <1>2, <1>3, <1>4, <1>12
<1>14. a.last \in Blocks(a) /\ After(a, a.last) = a.top
  <2>1. CASE k.last = b
    BY <1>1, <1>5, <1>8, <1>12, <2>1
  <2>2. CASE k.last # b
    <3>1. k.last # h
      BY <1>4, <1>12
    <3> QED BY <1>1, <1>2, <1>9, <1>12, <2>2, <3>1
  <2> QED BY <2>1, <2>2
<1>15. Blocks(a) \subseteq Base .. a.top - 1
  BY <1>1, <1>2 DEF Whole
<1>16. Whole(a)
  BY <1>1, <1>10, <1>11, <1>12, <1>13, <1>14, <1>15 DEF Whole
<1> QED BY <1>1, <1>2, <1>5, <1>6, <1>7, <1>8, <1>9, <1>16

(* The tag behind a block that grew is old, the others are as they were.   *)
LEMMA AbsorbTags ==
  ASSUME NEW k, Whole(k), NEW h \in Blocks(k), NEW b \in Blocks(k),
         b = After(k, h), Tagged(k, {b, After(k, b)})
  PROVE  Tagged(Absorb(k, h, b), {After(k, b)})
<1> DEFINE a == Absorb(k, h, b)
<1>1. /\ Blocks(a) = Blocks(k) \ {b} /\ h \in Blocks(a)
      /\ After(a, h) = After(k, b)
      /\ a.meta[h] = [k.meta[h] EXCEPT !.total = @ + k.meta[b].total]
      /\ \A x \in Blocks(a) \ {h} :
           a.meta[x] = k.meta[x] /\ After(a, x) = After(k, x)
  BY AbsorbChain
<1>2. k.meta[h] \in Header
  BY BlockFacts
<1>3. \A x \in Blocks(a) : a.meta[x].prev = k.meta[x].prev
  BY <1>1, <1>2 DEF Header
<1> HIDE DEF a
<1>4. Base \in Blocks(a) => a.meta[Base].prev = 0
  BY <1>1, <1>3 DEF Tagged
<1>5. ASSUME NEW x \in Blocks(a), After(a, x) \in Blocks(a) \ {After(k, b)}
      PROVE  a.meta[After(a, x)].prev = a.meta[x].total
  <2>1. x # h /\ a.meta[x] = k.meta[x] /\ After(a, x) = After(k, x)
    BY <1>1, <1>5
  <2>2. k.meta[After(k, x)].prev = k.meta[x].total
    BY <1>1, <1>5, <2>1 DEF Tagged
  <2> QED BY <1>3, <1>5, <2>1, <2>2
<1>6. Tagged(a, {After(k, b)})
  BY <1>4, <1>5 DEF Tagged
<1> QED BY <1>6 DEF a

LEMMA AbsorbLive ==
  ASSUME NEW k, Whole(k), NEW h \in Blocks(k), NEW b \in Blocks(k),
         b = After(k, h), IsFree(k, h), IsFree(k, b)
  PROVE  SameLive(k, Absorb(k, h, b))
<1> DEFINE a == Absorb(k, h, b)
<1>1. /\ Blocks(a) = Blocks(k) \ {b}
      /\ a.meta[h] = [k.meta[h] EXCEPT !.total = @ + k.meta[b].total]
      /\ h \in Blocks(a)
      /\ \A x \in Blocks(a) \ {h} : a.meta[x] = k.meta[x]
  BY AbsorbChain
<1> HIDE DEF a
<1>2. k.meta[h] \in Header
  BY BlockFacts
<1>3. a.meta[h].allocated = k.meta[h].allocated
  BY <1>1, <1>2 DEF Header
<1>4. Live(a) = Live(k)
  BY <1>1, <1>3 DEF Live, IsFree
<1>5. \A x \in Live(k) : Same(k, a, x)
  BY <1>1, <1>3 DEF Live, IsFree, Same
<1>6. SameLive(k, a)
  BY <1>4, <1>5 DEF SameLive
<1> QED BY <1>6 DEF a

LEMMA SameTwice ==
  ASSUME NEW k, NEW m, NEW n
  PROVE  /\ SameLive(k, m) /\ SameLive(m, n) => SameLive(k, n)
         /\ \A h : SameBut(k, m, h) /\ SameLive(m, n) => SameBut(k, n, h)
         /\ \A h : SameBut(k, m, h) /\ SameBut(m, n, h) => SameBut(k, n, h)
<1>1. SameLive(k, m) /\ SameLive(m, n) => SameLive(k, n)
  BY DEF SameLive, Same
<1>2. ASSUME NEW h, SameBut(k, m, h), SameLive(m, n)
      PROVE  SameBut(k, n, h)
  BY <1>2 DEF SameLive, SameBut, Same
<1>3. ASSUME NEW h, SameBut(k, m, h), SameBut(m, n, h)
      PROVE  SameBut(k, n, h)
  BY <1>3 DEF SameBut, Same
<1> QED BY <1>1, <1>2, <1>3

(* ag_rt_update_following_prev repairs the one tag that is old.            *)
LEMMA UpdateChain ==
  ASSUME NEW k, Whole(k), NEW h \in Blocks(k), Tagged(k, {After(k, h)}),
         NEW u, u = UpdateFollowing(k, h)
  PROVE  /\ Whole(u) /\ Tagged(u, {})
         /\ Blocks(u) = Blocks(k) /\ u.top = k.top
         /\ \A x \in Blocks(k) :
              /\ After(u, x) = After(k, x)
              /\ u.meta[x].total = k.meta[x].total
              /\ u.meta[x].allocated = k.meta[x].allocated
              /\ u.meta[x].alignment = k.meta[x].alignment
              /\ u.meta[x].requested = k.meta[x].requested
              /\ u.meta[x].offset = k.meta[x].offset
<1> DEFINE n == After(k, h)
<1>1. /\ k = [meta |-> k.meta, top |-> k.top, last |-> k.last]
      /\ k.meta \in [Blocks(k) -> Header]
  BY DEF Whole
<1>2. /\ n > h /\ (n < k.top <=> n \in Blocks(k)) /\ h \in Nat
      /\ n \in Blocks(k) \cup {k.top}
      /\ k.meta[h].total \in Nat /\ h >= Base
  BY BlockFacts
<1>3. CASE n \notin Blocks(k)
  <2>1. u = k
    BY <1>2, <1>3 DEF UpdateFollowing
  <2>2. Tagged(k, {})
    BY <1>3, OneBefore DEF Tagged
  <2> QED BY <2>1, <2>2
<1>4. CASE n \in Blocks(k)
  <2>1. /\ u = [meta |-> u.meta, top |-> u.top, last |-> u.last]
        /\ u.meta = [k.meta EXCEPT ![n].prev = k.meta[h].total]
        /\ u.top = k.top /\ u.last = k.last
    BY <1>1, <1>2, <1>4 DEF UpdateFollowing
  <2>2. Blocks(u) = Blocks(k)
    BY <1>1, <2>1 DEF Blocks
  <2>3. ASSUME NEW x \in Blocks(k)
        PROVE  /\ u.meta[x] \in Header
               /\ u.meta[x].prev = IF x = n THEN k.meta[h].total ELSE k.meta[x].prev
               /\ u.meta[x].total = k.meta[x].total
               /\ u.meta[x].allocated = k.meta[x].allocated
               /\ u.meta[x].alignment = k.meta[x].alignment
               /\ u.meta[x].requested = k.meta[x].requested
               /\ u.meta[x].offset = k.meta[x].offset
    <3>1. k.meta[x] \in Header
      BY <1>1
    <3>2. CASE x = n
      <4>1. u.meta[x] = [k.meta[x] EXCEPT !.prev = k.meta[h].total]
        BY <1>1, <2>1, <3>2 DEF Blocks
      <4> QED BY <1>2, <3>1, <3>2, <4>1 DEF Header
    <3>3. CASE x # n
      BY <1>1, <2>1, <3>1, <3>3 DEF Blocks
    <3> QED BY <3>2, <3>3
  <2>4. u.meta \in [Blocks(u) -> Header]
    <3>1. u.meta = [x \in Blocks(k) |-> u.meta[x]]
      BY <1>1, <2>1
    <3> QED BY <2>2, <2>3, <3>1
  <2>5. Whole(u) /\ \A x \in Blocks(k) : After(u, x) = After(k, x)
    <3>1. /\ u = [meta |-> u.meta, top |-> u.top, last |-> u.last]
          /\ u.top = k.top /\ u.last = k.last
      BY <2>1
    <3>2. \A x \in Blocks(k) : u.meta[x].total = k.meta[x].total
      BY <2>3
    <3> QED BY <2>2, <2>4, <3>1, <3>2, SameSizes
  <2>6. Base # n
    BY <1>2, HeapAssumption
  <2>7. ASSUME NEW x \in Blocks(u), After(u, x) \in Blocks(u)
        PROVE  u.meta[After(u, x)].prev = u.meta[x].total
    <3>1. CASE x = h
      BY <2>2, <2>3, <2>5, <2>7, <3>1
    <3>2. CASE x # h
      <4>1. After(k, x) # n
        BY <2>2, <2>7, <3>2, OneBefore
      <4>2. k.meta[After(k, x)].prev = k.meta[x].total
        BY <2>2, <2>5, <2>7, <4>1 DEF Tagged
      <4> QED BY <2>2, <2>3, <2>5, <2>7, <4>1, <4>2
    <3> QED BY <3>1, <3>2
  <2>8. Tagged(u, {})
    BY <2>2, <2>3, <2>6, <2>7 DEF Tagged
  <2> QED BY <2>1, <2>2, <2>3, <2>5, <2>8
<1> QED BY <1>3, <1>4
-----------------------------------------------------------------------------
(* Giving a block back                                                     *)

(* A free block takes over the free block behind it.                       *)
LEMMA MergeNext ==
  ASSUME NEW k, Whole(k), Tagged(k, {}), Aligned(k, {}),
         NEW h \in Blocks(k), IsFree(k, h), Apart(k, {h, After(k, h)}),
         NEW m, m = IF After(k, h) < k.top /\ IsFree(k, After(k, h))
                    THEN Absorb(k, h, After(k, h)) ELSE k
  PROVE  /\ Whole(m) /\ h \in Blocks(m) /\ IsFree(m, h)
         /\ Tagged(m, {After(m, h)}) /\ Apart(m, {h}) /\ Aligned(m, {})
         /\ SameLive(k, m)
<1> DEFINE b == After(k, h)
<1>1. /\ b \in Nat /\ h \in Nat /\ b > h /\ (b < k.top <=> b \in Blocks(k))
      /\ k.meta[h] \in Header
  BY BlockFacts
<1>2. CASE b < k.top /\ IsFree(k, b)
  <2>1. b \in Blocks(k) /\ m = Absorb(k, h, b)
    BY <1>1, <1>2
  <2>2. /\ Whole(m) /\ Blocks(m) = Blocks(k) \ {b} /\ h \in Blocks(m)
        /\ After(m, h) = After(k, b)
        /\ m.meta[h] = [k.meta[h] EXCEPT !.total = @ + k.meta[b].total]
        /\ \A x \in Blocks(m) \ {h} :
             m.meta[x] = k.meta[x] /\ After(m, x) = After(k, x)
    BY <2>1, AbsorbChain
  <2>3. /\ m.meta[h].allocated = k.meta[h].allocated
        /\ m.meta[h].alignment = k.meta[h].alignment
    BY <1>1, <2>2 DEF Header
  <2>4. \A x \in Blocks(m) : IsFree(m, x) <=> IsFree(k, x)
    BY <2>2, <2>3 DEF IsFree
  <2>5. Tagged(m, {After(m, h)})
    <3>1. Tagged(k, {b, After(k, b)})
      BY DEF Tagged
    <3> QED BY <2>1, <2>2, <3>1, AbsorbTags
  <2>6. ASSUME NEW x \in Blocks(m), After(m, x) \in Blocks(m) \ {h}
        PROVE  ~(IsFree(m, x) /\ IsFree(m, After(m, x)))
    <3>1. CASE x = h
      <4>1. After(k, b) > b /\ After(k, b) \in Nat
        BY <2>1, BlockFacts
      <4>2. After(k, b) \in Blocks(k) \ {h, b}
        BY <1>1, <2>2, <2>6, <3>1, <4>1
      <4>3. ~IsFree(k, After(k, b))
        BY <1>2, <2>1, <4>2 DEF Apart
      <4> QED BY <2>2, <2>4, <2>6, <3>1, <4>3
    <3>2. CASE x # h
      <4>1. After(m, x) = After(k, x) /\ x \in Blocks(k) /\ After(k, x) # b
        BY <2>2, <2>6, <3>2
      <4>2. ~(IsFree(k, x) /\ IsFree(k, After(k, x)))
        BY <2>2, <2>6, <4>1 DEF Apart
      <4> QED BY <2>4, <2>6, <4>1, <4>2
    <3> QED BY <3>1, <3>2
  <2>7. Apart(m, {h})
    BY <2>6 DEF Apart
  <2>8. Aligned(m, {})
    BY <2>2, <2>3, <2>4 DEF Aligned
  <2>9. IsFree(m, h)
    BY <2>2, <2>4
  <2>10. SameLive(k, m)
    BY <1>2, <2>1, AbsorbLive
  <2> QED BY <2>2, <2>5, <2>7, <2>8, <2>9, <2>10
<1>3. CASE ~(b < k.top /\ IsFree(k, b))
  <2>1. m = k
    BY <1>3
  <2>2. Apart(k, {h})
    BY <1>1, <1>3, OneBefore DEF Apart
  <2>3. Tagged(k, {b})
    BY DEF Tagged
  <2>4. SameLive(k, k)
    BY DEF SameLive, Same
  <2> QED BY <2>1, <2>2, <2>3, <2>4
<1> QED BY <1>2, <1>3

LEMMA UpdateExact ==
  ASSUME NEW k, Whole(k), NEW h \in Blocks(k), Tagged(k, {After(k, h)}),
         Apart(k, {}), NEW new, Aligned(k, new)
  PROVE  /\ Exact(UpdateFollowing(k, h))
         /\ Aligned(UpdateFollowing(k, h), new)
         /\ SameLive(k, UpdateFollowing(k, h))
<1> DEFINE u == UpdateFollowing(k, h)
<1>1. /\ Whole(u) /\ Tagged(u, {}) /\ Blocks(u) = Blocks(k)
      /\ \A x \in Blocks(k) : /\ After(u, x) = After(k, x)
                              /\ u.meta[x].total = k.meta[x].total
                              /\ u.meta[x].allocated = k.meta[x].allocated
                              /\ u.meta[x].alignment = k.meta[x].alignment
                              /\ u.meta[x].requested = k.meta[x].requested
                              /\ u.meta[x].offset = k.meta[x].offset
  BY UpdateChain
<1> HIDE DEF u
<1>2. Apart(u, {})
  BY <1>1 DEF Apart, IsFree
<1>3. Aligned(u, new)
  BY <1>1 DEF Aligned, IsFree
<1>4. SameLive(k, u)
  BY <1>1 DEF SameLive, Live, Same, IsFree
<1>5. Exact(u) /\ Aligned(u, new) /\ SameLive(k, u)
  BY <1>1, <1>2, <1>3, <1>4 DEF Exact
<1> QED BY <1>5 DEF u

(* ag_rt_coalesce_free_block leaves an exact chain: the block that was     *)
(* given back is one with its free neighbours, the tag behind it is new.   *)
LEMMA CoalesceExact ==
  ASSUME NEW k, Whole(k), Tagged(k, {}), Aligned(k, {}),
         NEW h \in Blocks(k), IsFree(k, h), Apart(k, {h, After(k, h)})
  PROVE  /\ Exact(Coalesce(k, h)) /\ Aligned(Coalesce(k, h), {})
         /\ SameLive(k, Coalesce(k, h))
<1> DEFINE m == IF After(k, h) < k.top /\ IsFree(k, After(k, h))
                THEN Absorb(k, h, After(k, h)) ELSE k
           b == h - m.meta[h].prev
<1>1. /\ Whole(m) /\ h \in Blocks(m) /\ IsFree(m, h)
      /\ Tagged(m, {After(m, h)}) /\ Apart(m, {h}) /\ Aligned(m, {})
      /\ SameLive(k, m)
  BY MergeNext
<1>2. Coalesce(k, h) = IF m.meta[h].prev > 0 /\ IsFree(m, b)
                       THEN UpdateFollowing(Absorb(m, b, h), b)
                       ELSE UpdateFollowing(m, h)
  BY DEF Coalesce
<1> HIDE DEF m
<1>3. h \in Nat /\ After(m, h) > h /\ After(m, h) \in Nat
  BY <1>1, BlockFacts
<1>4. h = Base => m.meta[h].prev = 0
  BY <1>1 DEF Tagged
<1>5. h # Base => /\ b \in Blocks(m) /\ After(m, b) = h
                  /\ m.meta[h].prev > 0
  <2>1. SUFFICES ASSUME h # Base
                 PROVE  b \in Blocks(m) /\ After(m, b) = h /\ m.meta[h].prev > 0
    OBVIOUS
  <2>2. PICK p \in Blocks(m) : After(m, p) = h
    BY <1>1, <2>1 DEF Whole
  <2>3. m.meta[h].prev = m.meta[p].total
    BY <1>1, <1>3, <2>2 DEF Tagged
  <2>4. p \in Nat /\ m.meta[p].total \in Nat /\ m.meta[p].total > 0 /\ h = p + m.meta[p].total
    BY <1>1, <2>2, BlockFacts
  <2> QED BY <2>2, <2>3, <2>4
<1>6. CASE m.meta[h].prev > 0 /\ IsFree(m, b)
  <2> DEFINE a == Absorb(m, b, h)
  <2>1. b \in Blocks(m) /\ After(m, b) = h
    BY <1>4, <1>5, <1>6
  <2>2. /\ Whole(a) /\ Blocks(a) = Blocks(m) \ {h} /\ b \in Blocks(a)
        /\ After(a, b) = After(m, h)
        /\ a.meta[b] = [m.meta[b] EXCEPT !.total = @ + m.meta[h].total]
        /\ \A x \in Blocks(a) \ {b} :
             a.meta[x] = m.meta[x] /\ After(a, x) = After(m, x)
    BY <1>1, <2>1, AbsorbChain
  <2>3. Tagged(a, {After(a, b)})
    <3>1. Tagged(m, {h, After(m, h)})
      BY <1>1 DEF Tagged
    <3> QED BY <1>1, <2>1, <2>2, <3>1, AbsorbTags
  <2> HIDE DEF a
  <2>4. m.meta[b] \in Header
    BY <1>1, <2>1, BlockFacts
  <2>5. /\ a.meta[b].allocated = m.meta[b].allocated
        /\ a.meta[b].alignment = m.meta[b].alignment
    BY <2>2, <2>4 DEF Header
  <2>6. \A x \in Blocks(a) : IsFree(a, x) <=> IsFree(m, x)
    BY <2>2, <2>5 DEF IsFree
  <2>7. ASSUME NEW x \in Blocks(a), After(a, x) \in Blocks(a)
        PROVE  ~(IsFree(a, x) /\ IsFree(a, After(a, x)))
    <3>1. CASE x = b
      <4>1. ~IsFree(m, After(m, h))
        BY <1>1, <1>3, <2>2, <2>7, <3>1 DEF Apart
      <4> QED BY <2>2, <2>6, <2>7, <3>1, <4>1
    <3>2. CASE x # b
      BY <1>1, <2>2, <2>6, <2>7, <3>2 DEF Apart
    <3> QED BY <3>1, <3>2
  <2>8. Apart(a, {})
    BY <2>7 DEF Apart
  <2>9. Aligned(a, {})
    BY <1>1, <2>2, <2>5, <2>6 DEF Aligned
  <2>10. /\ Exact(UpdateFollowing(a, b)) /\ Aligned(UpdateFollowing(a, b), {})
         /\ SameLive(a, UpdateFollowing(a, b))
    BY <2>2, <2>3, <2>8, <2>9, UpdateExact
  <2>11. SameLive(m, a)
    BY <1>1, <1>6, <2>1, AbsorbLive DEF a
  <2>12. SameLive(k, UpdateFollowing(a, b))
    BY <1>1, <2>10, <2>11, SameTwice
  <2> QED BY <1>2, <1>6, <2>10, <2>12 DEF a
<1>7. CASE ~(m.meta[h].prev > 0 /\ IsFree(m, b))
  <2>1. Apart(m, {})
    <3>1. ASSUME NEW x \in Blocks(m), After(m, x) = h
          PROVE  ~IsFree(m, x)
      <4>1. h # Base
        BY <1>1, <3>1, BlockFacts, HeapAssumption
      <4>2. x = b
        BY <1>1, <1>5, <3>1, <4>1, OneBefore
      <4> QED BY <1>5, <1>7, <4>1, <4>2
    <3> QED BY <1>1, <3>1 DEF Apart
  <2>2. /\ Exact(UpdateFollowing(m, h)) /\ Aligned(UpdateFollowing(m, h), {})
        /\ SameLive(m, UpdateFollowing(m, h))
    BY <1>1, <2>1, UpdateExact
  <2>3. SameLive(k, UpdateFollowing(m, h))
    BY <1>1, <2>2, SameTwice
  <2> QED BY <1>2, <1>7, <2>2, <2>3
<1> QED BY <1>6, <1>7

LEMMA ReleasedExact ==
  ASSUME NEW k, Exact(k), NEW h \in Blocks(k), Aligned(k, {h})
  PROVE  /\ Exact(Released(k, h)) /\ Aligned(Released(k, h), {})
         /\ SameBut(k, Released(k, h), h) /\ h \notin Live(Released(k, h))
<1> DEFINE m == [k EXCEPT !.meta[h] = FreeBlock(@.total, @.prev)]
<1>1. /\ m = [meta |-> m.meta, top |-> m.top, last |-> m.last]
      /\ m.top = k.top /\ m.last = k.last
      /\ m.meta = [k.meta EXCEPT ![h] = FreeBlock(@.total, @.prev)]
  BY DEF Exact, Whole
<1> HIDE DEF m
<1>2. k.meta \in [Blocks(k) -> Header] /\ k.meta[h] \in Header
  BY DEF Exact, Whole
<1>3. Blocks(m) = Blocks(k)
  BY <1>1, <1>2 DEF Blocks
<1>4. /\ m.meta[h] = FreeBlock(k.meta[h].total, k.meta[h].prev)
      /\ \A x \in Blocks(k) \ {h} : m.meta[x] = k.meta[x]
  BY <1>1, <1>2 DEF Blocks
<1>5. /\ m.meta[h] \in Header /\ m.meta[h].total = k.meta[h].total
      /\ m.meta[h].prev = k.meta[h].prev /\ IsFree(m, h)
  BY <1>2, <1>4 DEF FreeBlock, Header, IsFree
<1>6. \A x \in Blocks(k) : /\ m.meta[x].total = k.meta[x].total
                           /\ m.meta[x].prev = k.meta[x].prev
  BY <1>4, <1>5
<1>7. m.meta \in [Blocks(m) -> Header]
  BY <1>1, <1>2, <1>3, <1>4, <1>5
<1>8. Whole(m) /\ \A x \in Blocks(k) : After(m, x) = After(k, x)
  <2>1. Whole(k)
    BY DEF Exact
  <2>2. /\ m = [meta |-> m.meta, top |-> m.top, last |-> m.last]
        /\ m.top = k.top /\ m.last = k.last
    BY <1>1
  <2> QED BY <1>3, <1>6, <1>7, <2>1, <2>2, SameSizes
<1>9. Tagged(m, {})
  BY <1>3, <1>6, <1>8 DEF Exact, Tagged
<1>10. Apart(m, {h, After(m, h)})
  <2>1. ASSUME NEW x \in Blocks(k), After(k, x) \in Blocks(k), x # h, After(k, x) # h
        PROVE  ~(IsFree(m, x) /\ IsFree(m, After(k, x)))
    BY <1>4, <2>1 DEF Exact, Apart, IsFree
  <2> QED BY <1>3, <1>8, <2>1 DEF Apart
<1>11. Aligned(m, {})
  BY <1>3, <1>4, <1>5 DEF Aligned, IsFree
<1>12. /\ Exact(Coalesce(m, h)) /\ Aligned(Coalesce(m, h), {})
       /\ SameLive(m, Coalesce(m, h))
  BY <1>3, <1>5, <1>8, <1>9, <1>10, <1>11, CoalesceExact
<1>13. SameBut(k, m, h) /\ h \notin Live(m)
  BY <1>3, <1>4, <1>5 DEF SameBut, Live, Same, IsFree
<1>14. SameBut(k, Coalesce(m, h), h) /\ h \notin Live(Coalesce(m, h))
  <2>1. SameBut(k, Coalesce(m, h), h)
    BY <1>12, <1>13, SameTwice
  <2> QED BY <1>12, <1>13, <2>1 DEF SameLive
<1> QED BY <1>12, <1>14 DEF Released, m
-----------------------------------------------------------------------------
(* Taking a block                                                          *)

(* Both parts of a block that is cut are large enough.                     *)
LargeEnough(k, h, used) ==
  used \in Nat /\ used >= MinBlock /\ k.meta[h].total - used >= MinBlock

(* Where the rest of a block begins.                                       *)
Rest(h, used) == h + used

(* Block h of k with its first used words alone, and the rest behind it.   *)
Cut(k, h, used) ==
  [k EXCEPT
    !.meta = [x \in Blocks(k) \cup {h + used} |->
               IF x = h + used THEN FreeBlock(k.meta[h].total - used, used)
               ELSE IF x = h
                 THEN [k.meta[h] EXCEPT !.total = used, !.allocated = TRUE]
               ELSE k.meta[x]],
    !.last = IF @ = h THEN h + used ELSE @]

LEMMA CutChain ==
  ASSUME NEW k, Exact(k), Aligned(k, {}), NEW h \in Blocks(k), NEW used,
         LargeEnough(k, h, used)
  PROVE  LET r == Rest(h, used)
             c == Cut(k, h, used)
         IN  /\ Whole(c) /\ Blocks(c) = Blocks(k) \cup {r} /\ c.top = k.top
             /\ r \notin Blocks(k) /\ After(c, h) = r /\ After(c, r) = After(k, h)
             /\ c.meta[h].total = used /\ ~IsFree(c, h)
             /\ c.meta[h].alignment = k.meta[h].alignment
             /\ Tagged(c, {After(k, h)}) /\ Apart(c, {After(k, h)})
             /\ Aligned(c, {h}) /\ IsFree(c, r)
<1> DEFINE r == Rest(h, used)
           c == Cut(k, h, used)
           n == After(k, h)
           rest == k.meta[h].total - used
<1>0. /\ used \in Nat /\ used >= MinBlock /\ rest >= MinBlock
      /\ r = h + used
  BY DEF LargeEnough, Rest
<1>1. /\ c = [meta |-> c.meta, top |-> c.top, last |-> c.last]
      /\ c.meta = [x \in Blocks(k) \cup {r} |->
                    IF x = r THEN FreeBlock(rest, used)
                    ELSE IF x = h
                      THEN [k.meta[h] EXCEPT !.total = used, !.allocated = TRUE]
                    ELSE k.meta[x]]
      /\ c.top = k.top
      /\ c.last = IF k.last = h THEN r ELSE k.last
  <2> DEFINE M == [x \in Blocks(k) \cup {h + used} |->
                    IF x = h + used THEN FreeBlock(k.meta[h].total - used, used)
                    ELSE IF x = h
                      THEN [k.meta[h] EXCEPT !.total = used, !.allocated = TRUE]
                    ELSE k.meta[x]]
  <2>1. k = [meta |-> k.meta, top |-> k.top, last |-> k.last]
    BY DEF Exact, Whole
  <2>2. c = [k EXCEPT !.meta = M, !.last = IF @ = h THEN h + used ELSE @]
    BY DEF Cut
  <2> HIDE DEF M, c, r
  <2>3. /\ c = [meta |-> c.meta, top |-> c.top, last |-> c.last]
        /\ c.meta = M /\ c.top = k.top
        /\ c.last = IF k.last = h THEN h + used ELSE k.last
    BY <2>1, <2>2
  <2> QED BY <1>0, <2>3 DEF M
<1> HIDE DEF c, r
<1>2. Blocks(c) = Blocks(k) \cup {r}
  BY <1>1 DEF Blocks
<1>3. /\ Whole(k) /\ MinBlock \in Nat /\ MinBlock > 0 /\ Base \in Nat \ {0}
  BY HeapAssumption DEF Exact
<1>4. /\ h \in Nat /\ h >= Base /\ h < k.top /\ k.top \in Nat
      /\ k.meta[h] \in Header /\ k.meta[h].total \in Nat
      /\ n = h + k.meta[h].total /\ n <= k.top /\ n \in Nat
      /\ n \in Blocks(k) \cup {k.top}
      /\ n < k.top <=> n \in Blocks(k)
  BY <1>3, BlockFacts
<1> HIDE DEF n
<1>5. /\ r \in Nat /\ h < r /\ r < n /\ rest \in Nat /\ n = r + rest /\ r # h
  BY <1>0, <1>3, <1>4
<1>6. r \notin Blocks(k)
  <2>1. \A x \in Blocks(k) : x <= h \/ x >= n
    BY <1>3 DEF Whole, n
  <2> QED BY <1>4, <1>5, <2>1
<1>7. /\ c.meta[r] = FreeBlock(rest, used)
      /\ c.meta[h] = [k.meta[h] EXCEPT !.total = used, !.allocated = TRUE]
      /\ \A x \in Blocks(k) \ {h} : c.meta[x] = k.meta[x]
  BY <1>1, <1>5, <1>6
<1>8. /\ c.meta[r] \in Header /\ c.meta[r].total = rest /\ c.meta[r].prev = used
      /\ IsFree(c, r)
  BY <1>0, <1>5, <1>7 DEF FreeBlock, Header, IsFree
<1>9. /\ c.meta[h] \in Header /\ c.meta[h].total = used
      /\ c.meta[h].prev = k.meta[h].prev /\ ~IsFree(c, h)
      /\ c.meta[h].alignment = k.meta[h].alignment
  BY <1>0, <1>4, <1>7 DEF Header, IsFree
<1> HIDE DEF rest
<1>10. /\ After(c, h) = r /\ After(c, r) = n
       /\ \A x \in Blocks(k) \ {h} : After(c, x) = After(k, x)
  BY <1>0, <1>5, <1>7, <1>8, <1>9 DEF After
<1>11. c.meta \in [Blocks(c) -> Header]
  <2>1. \A x \in Blocks(k) : k.meta[x] \in Header
    BY <1>3 DEF Whole
  <2>2. \A x \in Blocks(c) : c.meta[x] \in Header
    BY <1>2, <1>7, <1>8, <1>9, <2>1
  <2> QED BY <1>1, <1>2, <2>2
<1>12. ASSUME NEW x \in Blocks(c)
       PROVE  /\ c.meta[x].total >= MinBlock
              /\ After(c, x) \in Blocks(c) \cup {c.top}
              /\ \A y \in Blocks(c) : y <= x \/ y >= After(c, x)
              /\ x # Base => \E b \in Blocks(c) : After(c, b) = x
  <2>1. CASE x = r
    <3>1. c.meta[x].total >= MinBlock
      BY <1>0, <1>8, <2>1 DEF rest
    <3>2. After(c, x) \in Blocks(c) \cup {c.top}
      BY <1>1, <1>2, <1>4, <1>10, <2>1
    <3>3. ASSUME NEW y \in Blocks(c)
          PROVE  y <= x \/ y >= After(c, x)
      <4>1. CASE y = r
        BY <1>5, <2>1, <4>1
      <4>2. CASE y \in Blocks(k)
        <5>1. y \in Nat /\ (y <= h \/ y >= n)
          BY <1>3, <4>2, BlockFacts DEF Whole, n
        <5> QED BY <1>4, <1>5, <1>10, <2>1, <5>1
      <4> QED BY <1>2, <4>1, <4>2
    <3>4. \E b \in Blocks(c) : After(c, b) = x
      BY <1>2, <1>10, <2>1
    <3> QED BY <3>1, <3>2, <3>3, <3>4
  <2>2. CASE x = h
    <3>1. c.meta[x].total >= MinBlock /\ After(c, x) \in Blocks(c) \cup {c.top}
      BY <1>0, <1>2, <1>9, <1>10, <2>2
    <3>2. ASSUME NEW y \in Blocks(c)
          PROVE  y <= x \/ y >= After(c, x)
      <4>1. CASE y = r
        BY <1>5, <1>10, <2>2, <4>1
      <4>2. CASE y \in Blocks(k)
        <5>1. y \in Nat /\ (y <= h \/ y >= n)
          BY <1>3, <4>2, BlockFacts DEF Whole, n
        <5> QED BY <1>4, <1>5, <1>10, <2>2, <5>1
      <4> QED BY <1>2, <4>1, <4>2
    <3>3. x # Base => \E b \in Blocks(c) : After(c, b) = x
      <4>1. ASSUME x # Base
            PROVE  \E b \in Blocks(c) : After(c, b) = x
        <5>1. PICK b \in Blocks(k) : After(k, b) = h
          BY <1>3, <2>2, <4>1 DEF Whole
        <5>2. b # h
          BY <1>4, <1>5, <5>1 DEF n
        <5> QED BY <1>2, <1>10, <2>2, <5>1, <5>2
      <4> QED BY <4>1
    <3> QED BY <3>1, <3>2, <3>3
  <2>3. CASE x \in Blocks(k) \ {h}
    <3>1. /\ k.meta[x].total >= MinBlock /\ x \in Nat
          /\ After(k, x) \in Blocks(k) \cup {k.top}
          /\ After(k, x) \in Nat /\ After(k, x) > x
      BY <1>3, <2>3, BlockFacts
    <3>2. c.meta[x].total >= MinBlock /\ After(c, x) \in Blocks(c) \cup {c.top}
      BY <1>1, <1>2, <1>7, <1>10, <2>3, <3>1
    <3>3. ASSUME NEW y \in Blocks(c)
          PROVE  y <= x \/ y >= After(c, x)
      <4>1. CASE y = r
        <5>1. /\ h <= x \/ h >= After(k, x)
              /\ x <= h \/ x >= n
          BY <1>3, <2>3 DEF Whole, n
        <5> QED BY <1>4, <1>5, <1>10, <2>3, <3>1, <4>1, <5>1
      <4>2. CASE y \in Blocks(k)
        BY <1>3, <1>10, <2>3, <4>2 DEF Whole
      <4> QED BY <1>2, <4>1, <4>2
    <3>4. ASSUME x # Base
          PROVE  \E b \in Blocks(c) : After(c, b) = x
      <4>1. PICK b \in Blocks(k) : After(k, b) = x
        BY <1>3, <2>3, <3>4 DEF Whole
      <4>2. CASE b = h
        BY <1>2, <1>10, <4>1, <4>2 DEF n
      <4>3. CASE b # h
        BY <1>2, <1>10, <4>1, <4>3
      <4> QED BY <4>2, <4>3
    <3> QED BY <3>2, <3>3, <3>4
  <2> QED BY <1>2, <2>1, <2>2, <2>3
<1>13. Blocks(c) \subseteq Base .. c.top - 1 /\ c.top \in Address
  BY <1>1, <1>2, <1>3, <1>4, <1>5 DEF Whole
<1>14. /\ c.top # Base /\ Base \in Blocks(c) /\ c.last \in Blocks(c)
       /\ After(c, c.last) = c.top
  <2>1. /\ k.top # Base /\ Base \in Blocks(k) /\ k.last \in Blocks(k)
        /\ After(k, k.last) = k.top
    BY <1>3, <1>4 DEF Whole
  <2>2. CASE k.last = h
    BY <1>1, <1>2, <1>10, <2>1, <2>2 DEF n
  <2>3. CASE k.last # h
    BY <1>1, <1>2, <1>10, <2>1, <2>3
  <2> QED BY <1>1, <1>2, <2>1, <2>2, <2>3
<1>15. Whole(c)
  BY <1>1, <1>11, <1>12, <1>13, <1>14 DEF Whole
<1>16. ASSUME NEW x \in Blocks(c), After(c, x) \in Blocks(c) \ {n}
       PROVE  /\ c.meta[After(c, x)].prev = c.meta[x].total
              /\ ~(IsFree(c, x) /\ IsFree(c, After(c, x)))
  <2>1. CASE x = h
    BY <1>8, <1>9, <1>10, <2>1
  <2>2. CASE x = r
    BY <1>10, <1>16, <2>2
  <2>3. CASE x \in Blocks(k) \ {h}
    <3>1. /\ After(c, x) = After(k, x) /\ c.meta[x] = k.meta[x]
      BY <1>7, <1>10, <2>3
    <3>2. After(k, x) \in Blocks(k)
      BY <1>2, <1>3, <1>4, <1>5, <1>6, <1>16, <2>3, <3>1, BlockFacts
    <3>3. /\ k.meta[After(k, x)].prev = k.meta[x].total
          /\ ~(IsFree(k, x) /\ IsFree(k, After(k, x)))
      BY <2>3, <3>2 DEF Exact, Tagged, Apart
    <3>4. CASE After(k, x) = h
      BY <1>9, <3>1, <3>3, <3>4
    <3>5. CASE After(k, x) # h
      <4>1. c.meta[After(k, x)] = k.meta[After(k, x)]
        BY <1>7, <3>2, <3>5
      <4> QED BY <3>1, <3>3, <4>1 DEF IsFree
    <3> QED BY <3>4, <3>5
  <2> QED BY <1>2, <2>1, <2>2, <2>3
<1>17. Base \in Blocks(c) => c.meta[Base].prev = 0
  <2>1. Base \in Blocks(k) /\ k.meta[Base].prev = 0
    BY <1>3, <1>4 DEF Exact, Whole, Tagged
  <2> QED BY <1>7, <1>9, <2>1
<1>18. Tagged(c, {n}) /\ Apart(c, {n})
  BY <1>16, <1>17 DEF Tagged, Apart
<1>19. Aligned(c, {h})
  BY <1>2, <1>7, <1>8 DEF Aligned, IsFree
<1> QED BY <1>1, <1>2, <1>6, <1>7, <1>8, <1>9, <1>10, <1>15, <1>18, <1>19 DEF n, c, r
(* What happens to the rest leaves the allocated part alone.               *)
LEMMA LiveCut ==
  ASSUME NEW k, NEW c, NEW s, NEW h, SameBut(k, c, h), h \in Live(c), SameLive(c, s)
  PROVE  /\ SameBut(k, s, h) /\ h \in Live(s) /\ h \in Blocks(s)
         /\ s.meta[h].total = c.meta[h].total
         /\ s.meta[h].alignment = c.meta[h].alignment
         /\ s.meta[h].requested = c.meta[h].requested
         /\ s.meta[h].offset = c.meta[h].offset
<1>1. SameBut(k, s, h)
  BY SameTwice
<1> QED BY <1>1 DEF SameLive, Same, Live

(* ag_rt_split_allocated_block leaves an exact chain, in which block h is  *)
(* allocated and no smaller than it was to be.                             *)
LEMMA SplitExact ==
  ASSUME NEW k, Exact(k), Aligned(k, {}), NEW h \in Blocks(k), NEW used \in Nat,
         used >= MinBlock, used <= k.meta[h].total,
         NEW s, s = SplitAllocated(k, h, used)
  PROVE  /\ Exact(s) /\ Aligned(s, {h}) /\ h \in Blocks(s)
         /\ s.meta[h].total >= used
         /\ s.meta[h].alignment = k.meta[h].alignment
         /\ s.meta[h].requested = k.meta[h].requested
         /\ s.meta[h].offset = k.meta[h].offset
         /\ SameBut(k, s, h) /\ h \in Live(s)
<1> DEFINE rest == k.meta[h].total - used
           r == h + used
           n == After(k, h)
           M == [x \in Blocks(k) \cup {r} |->
                  IF x = r THEN FreeBlock(rest, used)
                  ELSE IF x = h
                    THEN [k.meta[h] EXCEPT !.total = used, !.allocated = TRUE]
                  ELSE k.meta[x]]
           cut == [k EXCEPT !.meta = M]
           c == Cut(k, h, used)
<1>1. /\ Whole(k) /\ k = [meta |-> k.meta, top |-> k.top, last |-> k.last]
      /\ k.meta \in [Blocks(k) -> Header]
      /\ MinBlock \in Nat /\ MinBlock > 0
  BY HeapAssumption DEF Exact, Whole
<1>2. /\ h \in Nat /\ k.meta[h] \in Header /\ k.meta[h].total \in Nat
      /\ n \in Nat /\ n > h /\ (n < k.top <=> n \in Blocks(k))
      /\ n = h + k.meta[h].total
  BY <1>1, BlockFacts
<1>3. s = IF rest < MinBlock THEN [k EXCEPT !.meta[h].allocated = TRUE]
          ELSE UpdateFollowing(
                 IF n < k.top /\ IsFree(k, n) THEN Absorb(cut, r, n)
                 ELSE [cut EXCEPT !.last = IF @ = h THEN r ELSE @], r)
  BY DEF SplitAllocated
<1>4. CASE rest < MinBlock
  <2>1. /\ s = [meta |-> s.meta, top |-> s.top, last |-> s.last]
        /\ s.top = k.top /\ s.last = k.last
        /\ s.meta = [k.meta EXCEPT ![h].allocated = TRUE]
    BY <1>1, <1>3, <1>4
  <2>2. Blocks(s) = Blocks(k)
    BY <1>1, <2>1 DEF Blocks
  <2>3. /\ s.meta[h] = [k.meta[h] EXCEPT !.allocated = TRUE]
        /\ \A x \in Blocks(k) \ {h} : s.meta[x] = k.meta[x]
    BY <1>1, <2>1 DEF Blocks
  <2>4. /\ s.meta[h] \in Header /\ s.meta[h].total = k.meta[h].total
        /\ s.meta[h].prev = k.meta[h].prev /\ ~IsFree(s, h)
        /\ s.meta[h].alignment = k.meta[h].alignment
        /\ s.meta[h].requested = k.meta[h].requested
        /\ s.meta[h].offset = k.meta[h].offset
    BY <1>2, <2>3 DEF Header, IsFree
  <2>5. s.meta \in [Blocks(s) -> Header]
    BY <1>1, <2>1, <2>2, <2>3, <2>4
  <2>6. \A x \in Blocks(k) : /\ s.meta[x].total = k.meta[x].total
                             /\ s.meta[x].prev = k.meta[x].prev
                             /\ IsFree(s, x) => IsFree(k, x)
    BY <2>3, <2>4 DEF IsFree
  <2>7. Exact(s)
    <3>1. /\ s = [meta |-> s.meta, top |-> s.top, last |-> s.last]
          /\ s.top = k.top /\ s.last = k.last
      BY <2>1
    <3> QED BY <2>2, <2>5, <2>6, <3>1, SameChain
  <2>8. Aligned(s, {h})
    BY <2>2, <2>3 DEF Aligned, IsFree
  <2>9. SameBut(k, s, h) /\ h \in Live(s)
    BY <2>2, <2>3, <2>4 DEF SameBut, Live, Same, IsFree
  <2> QED BY <2>2, <2>4, <2>7, <2>8, <2>9
<1>5. CASE ~(rest < MinBlock)
  <2>1. rest >= MinBlock
    BY <1>1, <1>2, <1>5
  <2>2. /\ Whole(c) /\ Blocks(c) = Blocks(k) \cup {r} /\ c.top = k.top
        /\ r \notin Blocks(k) /\ After(c, h) = r /\ After(c, r) = n
        /\ c.meta[h].total = used /\ ~IsFree(c, h)
        /\ c.meta[h].alignment = k.meta[h].alignment
        /\ Tagged(c, {n}) /\ Apart(c, {n}) /\ Aligned(c, {h}) /\ IsFree(c, r)
        /\ \A x \in Blocks(k) \ {h} :
             c.meta[x] = k.meta[x] /\ After(c, x) = After(k, x)
        /\ c.meta[h].requested = k.meta[h].requested
        /\ c.meta[h].offset = k.meta[h].offset
    <3> DEFINE R == Rest(h, used)
    <3>1. LargeEnough(k, h, used) /\ R = r
      BY <2>1 DEF LargeEnough, Rest
    <3>2. /\ Whole(c) /\ Blocks(c) = Blocks(k) \cup {R} /\ c.top = k.top
          /\ R \notin Blocks(k) /\ After(c, h) = R /\ After(c, R) = n
          /\ c.meta[h].total = used /\ ~IsFree(c, h)
          /\ c.meta[h].alignment = k.meta[h].alignment
          /\ Tagged(c, {n}) /\ Apart(c, {n}) /\ Aligned(c, {h}) /\ IsFree(c, R)
      BY <3>1, CutChain
    <3>3. c = [k EXCEPT !.meta = M, !.last = IF @ = h THEN r ELSE @]
      BY DEF Cut
    <3> HIDE DEF c, r, R, M
    <3>4. c.meta = M
      BY <1>1, <3>3
    <3>5. \A x \in Blocks(k) \ {h} : c.meta[x] = k.meta[x]
      BY <3>1, <3>2, <3>4 DEF M
    <3>6. \A x \in Blocks(k) \ {h} : After(c, x) = After(k, x)
      BY <3>5 DEF After
    <3>7. c.meta[h] = [k.meta[h] EXCEPT !.total = used, !.allocated = TRUE]
      BY <3>1, <3>2, <3>4 DEF M
    <3>8. /\ c.meta[h].requested = k.meta[h].requested
          /\ c.meta[h].offset = k.meta[h].offset
      BY <1>2, <3>7 DEF Header
    <3> QED BY <3>1, <3>2, <3>5, <3>6, <3>8
  <2>3. SameBut(k, c, h) /\ h \in Live(c)
    BY <2>2 DEF SameBut, Live, Same, IsFree
  <2>4. c = [cut EXCEPT !.last = IF @ = h THEN r ELSE @]
    <3>1. c = [k EXCEPT !.meta = M, !.last = IF @ = h THEN r ELSE @]
      BY DEF Cut
    <3> HIDE DEF M, c, r
    <3> QED BY <1>1, <3>1
  <2>5. n \in Blocks(k) => c = cut
    <3>1. c = [k EXCEPT !.meta = M, !.last = IF @ = h THEN r ELSE @]
      BY DEF Cut
    <3>2. n \in Blocks(k) => k.last # h
      BY <1>1, <1>2, BlockFacts DEF Whole
    <3> HIDE DEF M, c, r
    <3> QED BY <1>1, <3>1, <3>2
  <2>6. s = UpdateFollowing(IF n < k.top /\ IsFree(k, n) THEN Absorb(c, r, n)
                            ELSE c, r)
    BY <1>2, <1>3, <1>5, <2>4, <2>5
  <2> HIDE DEF c, cut, M
  <2>7. h # r /\ h # n /\ r # n
    BY <1>1, <1>2, <2>1, <2>2
  <2>8. CASE n < k.top /\ IsFree(k, n)
    <3> DEFINE a == Absorb(c, r, n)
    <3>1. n \in Blocks(k) /\ n \in Blocks(c) /\ r \in Blocks(c)
      BY <1>2, <2>2, <2>8
    <3>2. /\ Whole(a) /\ Blocks(a) = Blocks(c) \ {n} /\ r \in Blocks(a)
          /\ After(a, r) = After(c, n)
          /\ a.meta[r] = [c.meta[r] EXCEPT !.total = @ + c.meta[n].total]
          /\ \A x \in Blocks(a) \ {r} :
               a.meta[x] = c.meta[x] /\ After(a, x) = After(c, x)
      BY <2>2, <3>1, AbsorbChain
    <3>3. Tagged(a, {After(a, r)})
      <4>1. Tagged(c, {n, After(c, n)})
        BY <2>2 DEF Tagged
      <4> QED BY <2>2, <3>1, <3>2, <4>1, AbsorbTags
    <3> HIDE DEF a
    <3>4. c.meta[r] \in Header
      BY <2>2, <3>1, BlockFacts
    <3>5. a.meta[r].allocated = c.meta[r].allocated
      BY <3>2, <3>4 DEF Header
    <3>6. \A x \in Blocks(a) : IsFree(a, x) <=> IsFree(c, x)
      BY <3>2, <3>5 DEF IsFree
    <3>7. ASSUME NEW x \in Blocks(a), After(a, x) \in Blocks(a)
          PROVE  ~(IsFree(a, x) /\ IsFree(a, After(a, x)))
      <4>1. CASE x = r
        <5>1. After(a, x) = After(k, n) /\ After(k, n) > n /\ After(k, n) \in Nat
          BY <1>1, <2>2, <2>7, <3>1, <3>2, <4>1, BlockFacts
        <5>2. r < n
          BY <1>1, <1>2, <2>1
        <5>3. After(k, n) \in Blocks(k) \ {h}
          BY <1>2, <2>2, <3>2, <3>7, <5>1, <5>2
        <5>4. ~IsFree(k, After(k, n))
          BY <2>8, <3>1, <5>3 DEF Exact, Apart
        <5> QED BY <2>2, <3>6, <3>7, <5>1, <5>3, <5>4 DEF IsFree
      <4>2. CASE x # r
        <5>1. /\ After(a, x) = After(c, x) /\ x \in Blocks(c)
              /\ After(c, x) \in Blocks(c)
          BY <3>2, <3>7, <4>2
        <5>2. After(c, x) # n
          BY <2>2, <3>1, <4>2, <5>1, OneBefore
        <5>3. ~(IsFree(c, x) /\ IsFree(c, After(c, x)))
          BY <2>2, <5>1, <5>2 DEF Apart
        <5> QED BY <3>6, <3>7, <5>1, <5>3
      <4> QED BY <4>1, <4>2
    <3>8. Apart(a, {})
      BY <3>7 DEF Apart
    <3>9. Aligned(a, {h})
      BY <2>2, <3>2, <3>6 DEF Aligned
    <3>10. Exact(s) /\ Aligned(s, {h}) /\ SameLive(a, s)
      BY <2>6, <2>8, <3>2, <3>3, <3>8, <3>9, UpdateExact DEF a
    <3>11. IsFree(c, n)
      BY <2>2, <2>7, <2>8, <3>1 DEF IsFree
    <3>12. SameLive(c, a)
      BY <2>2, <2>8, <3>1, <3>11, AbsorbLive DEF a
    <3>13. SameLive(c, s)
      BY <3>10, <3>12, SameTwice
    <3> QED BY <2>2, <2>3, <3>10, <3>13, LiveCut
  <2>9. CASE ~(n < k.top /\ IsFree(k, n))
    <3>1. r \in Blocks(c) /\ s = UpdateFollowing(c, r)
      BY <2>2, <2>6, <2>9
    <3>2. n \in Blocks(c) => ~IsFree(c, n)
      BY <1>2, <2>2, <2>7, <2>9 DEF IsFree
    <3>3. Apart(c, {})
      BY <2>2, <3>2 DEF Apart
    <3>4. Exact(s) /\ Aligned(s, {h}) /\ SameLive(c, s)
      BY <2>2, <3>1, <3>3, UpdateExact
    <3> QED BY <2>2, <2>3, <3>4, LiveCut
  <2> QED BY <2>8, <2>9
<1> QED BY <1>4, <1>5

(* A new block at the top follows the last one.                            *)
LEMMA ExtendedExact ==
  ASSUME Exact(heap), Aligned(heap, {}), NEW needed \in Nat,
         needed >= MinBlock, heap.top + needed <= Limit,
         NEW h, h = heap.top, NEW e, e = Extended(h, needed)
  PROVE  /\ Exact(e) /\ Aligned(e, {h}) /\ Blocks(e) = Blocks(heap) \cup {h}
         /\ e.meta[h].total = needed
         /\ SameBut(heap, e, h) /\ h \in Live(e)
<1> DEFINE prev == IF heap.last = 0 THEN 0 ELSE heap.meta[heap.last].total
<1>1. /\ Whole(heap) /\ MinBlock \in Nat /\ MinBlock > 0 /\ Base \in Nat \ {0}
      /\ Limit \in Nat /\ h \in Nat /\ h >= Base /\ h <= Limit
      /\ Blocks(heap) \subseteq Base .. h - 1
  BY HeapAssumption DEF Exact, Whole, Address
<1>2. /\ e = [meta |-> e.meta, top |-> e.top, last |-> e.last]
      /\ e.meta = [x \in Blocks(heap) \cup {h} |->
                    IF x = h THEN [FreeBlock(needed, prev) EXCEPT !.allocated = TRUE]
                    ELSE heap.meta[x]]
      /\ e.top = h + needed /\ e.last = h
  BY DEF Extended
<1>3. /\ Blocks(e) = Blocks(heap) \cup {h} /\ h \notin Blocks(heap)
  BY <1>1, <1>2 DEF Blocks
<1>4. /\ h = Base => Blocks(heap) = {} /\ prev = 0
      /\ h # Base => /\ Base \in Blocks(heap) /\ heap.last \in Blocks(heap)
                     /\ After(heap, heap.last) = h
                     /\ prev = heap.meta[heap.last].total
      /\ prev \in Nat
  <2>1. CASE h = Base
    BY <1>1, <2>1 DEF Whole
  <2>2. CASE h # Base
    <3>1. /\ Base \in Blocks(heap) /\ heap.last \in Blocks(heap)
          /\ After(heap, heap.last) = h
      BY <1>1, <2>2 DEF Whole
    <3>2. heap.last # 0 /\ heap.meta[heap.last].total \in Nat
      BY <1>1, <3>1, BlockFacts
    <3> QED BY <2>2, <3>1, <3>2
  <2> QED BY <2>1, <2>2
<1> HIDE DEF prev
<1>5. /\ e.meta[h] = [FreeBlock(needed, prev) EXCEPT !.allocated = TRUE]
      /\ \A x \in Blocks(heap) : e.meta[x] = heap.meta[x]
  BY <1>2, <1>3
<1>6. /\ e.meta[h] \in Header /\ e.meta[h].total = needed
      /\ e.meta[h].prev = prev /\ ~IsFree(e, h)
  <2> DEFINE f == FreeBlock(needed, prev)
  <2>1. f \in Header /\ f.total = needed /\ f.prev = prev
    BY <1>4 DEF FreeBlock, Header
  <2> HIDE DEF f
  <2>2. e.meta[h] = [f EXCEPT !.allocated = TRUE]
    BY <1>5 DEF f
  <2> QED BY <2>1, <2>2 DEF Header, IsFree
<1>7. /\ After(e, h) = e.top
      /\ \A x \in Blocks(heap) : After(e, x) = After(heap, x)
  <2>1. After(e, h) = e.top
    BY <1>2, <1>6 DEF After
  <2>2. \A x \in Blocks(heap) : After(e, x) = After(heap, x)
    BY <1>5 DEF After
  <2> QED BY <2>1, <2>2
<1>8. e.meta \in [Blocks(e) -> Header]
  <2>1. \A x \in Blocks(heap) : heap.meta[x] \in Header
    BY <1>1 DEF Whole
  <2> QED BY <1>2, <1>3, <1>5, <1>6, <2>1
<1>9. ASSUME NEW x \in Blocks(e)
      PROVE  /\ e.meta[x].total >= MinBlock
             /\ After(e, x) \in Blocks(e) \cup {e.top}
             /\ \A y \in Blocks(e) : y <= x \/ y >= After(e, x)
             /\ x # Base => \E b \in Blocks(e) : After(e, b) = x
  <2>1. CASE x = h
    <3>1. \A y \in Blocks(e) : y <= x
      BY <1>1, <1>3, <2>1
    <3>2. x # Base => \E b \in Blocks(e) : After(e, b) = x
      BY <1>3, <1>4, <1>7, <2>1
    <3> QED BY <1>6, <1>7, <2>1, <3>1, <3>2
  <2>2. CASE x \in Blocks(heap)
    <3>1. /\ heap.meta[x].total >= MinBlock
          /\ After(heap, x) \in Blocks(heap) \cup {h} /\ After(heap, x) <= h
          /\ \A y \in Blocks(heap) : y <= x \/ y >= After(heap, x)
      BY <1>1, <2>2, BlockFacts DEF Whole
    <3>2. x # Base => \E b \in Blocks(heap) : After(heap, b) = x
      BY <1>1, <2>2 DEF Whole
    <3> QED BY <1>3, <1>5, <1>7, <2>2, <3>1, <3>2
  <2> QED BY <1>3, <2>1, <2>2
<1>10. /\ e.top \in Address /\ Blocks(e) \subseteq Base .. e.top - 1
       /\ e.top # Base /\ Base \in Blocks(e) /\ e.last \in Blocks(e)
       /\ After(e, e.last) = e.top
  BY <1>1, <1>2, <1>3, <1>4, <1>7 DEF Address
<1>11. Whole(e)
  BY <1>2, <1>8, <1>9, <1>10 DEF Whole
<1>12. ASSUME NEW x \in Blocks(e), After(e, x) \in Blocks(e)
       PROVE  /\ e.meta[After(e, x)].prev = e.meta[x].total
              /\ ~(IsFree(e, x) /\ IsFree(e, After(e, x)))
  <2>1. x \in Blocks(heap) /\ After(e, x) = After(heap, x)
    BY <1>1, <1>2, <1>3, <1>7, <1>12
  <2>2. CASE After(heap, x) = h
    <3>1. h # Base
      BY <1>4, <2>1
    <3>2. x = heap.last
      BY <1>1, <1>4, <2>1, <2>2, <3>1, OneBefore
    <3> QED BY <1>4, <1>5, <1>6, <2>1, <2>2, <3>1, <3>2
  <2>3. CASE After(heap, x) # h
    <3>1. After(heap, x) \in Blocks(heap)
      BY <1>3, <1>12, <2>1, <2>3
    <3>2. /\ heap.meta[After(heap, x)].prev = heap.meta[x].total
          /\ ~(IsFree(heap, x) /\ IsFree(heap, After(heap, x)))
      BY <2>1, <3>1 DEF Exact, Tagged, Apart
    <3> QED BY <1>5, <2>1, <3>1, <3>2 DEF IsFree
  <2> QED BY <2>2, <2>3
<1>13. e.meta[Base].prev = 0
  BY <1>1, <1>4, <1>5, <1>6 DEF Exact, Tagged
<1>14. Tagged(e, {}) /\ Apart(e, {})
  BY <1>12, <1>13 DEF Tagged, Apart
<1>15. Aligned(e, {h})
  BY <1>3, <1>5 DEF Aligned, IsFree
<1>16. SameBut(heap, e, h) /\ h \in Live(e)
  BY <1>3, <1>5, <1>6 DEF SameBut, Live, Same, IsFree
<1> QED BY <1>3, <1>6, <1>11, <1>14, <1>15, <1>16 DEF Exact

(* What ag_rt_alloc_block writes into the header it has chosen.            *)
Asked(k, h, requested, offset, alignment) ==
  [k EXCEPT !.meta[h].requested = requested, !.meta[h].offset = offset,
            !.meta[h].alignment = alignment]

LEMMA RequestExact ==
  ASSUME NEW k, Exact(k), NEW h \in Blocks(k), Aligned(k, {h}),
         NEW requested \in Nat, NEW offset \in Nat, NEW alignment \in Alignments,
         NEW m, m = Asked(k, h, requested, offset, alignment)
  PROVE  /\ Exact(m) /\ Aligned(m, {}) /\ Blocks(m) = Blocks(k)
         /\ m.meta[h].total = k.meta[h].total
         /\ m.meta[h].requested = requested /\ m.meta[h].offset = offset
         /\ m.meta[h].alignment = alignment
         /\ SameBut(k, m, h) /\ (h \in Live(k) => h \in Live(m))
<1>1. /\ k = [meta |-> k.meta, top |-> k.top, last |-> k.last]
      /\ k.meta \in [Blocks(k) -> Header] /\ k.meta[h] \in Header
      /\ alignment \in Nat
  BY RequestAssumption DEF Exact, Whole
<1> DEFINE f == [k.meta[h] EXCEPT !.requested = requested,
                                  !.offset = offset, !.alignment = alignment]
<1>2. /\ m = [meta |-> m.meta, top |-> m.top, last |-> m.last]
      /\ m.top = k.top /\ m.last = k.last
      /\ m.meta = [k.meta EXCEPT ![h] = f]
  <2> DEFINE f1 == [k.meta[h] EXCEPT !.requested = requested]
             f2 == [f1 EXCEPT !.offset = offset]
             k1 == [k EXCEPT !.meta[h].requested = requested]
             k2 == [k1 EXCEPT !.meta[h].offset = offset]
             k3 == [k2 EXCEPT !.meta[h].alignment = alignment]
  <2>1. m = k3 /\ f = [f2 EXCEPT !.alignment = alignment]
    BY DEF Asked
  <2> HIDE DEF f
  <2>2. /\ k1.meta = [k.meta EXCEPT ![h] = f1] /\ k1.top = k.top /\ k1.last = k.last
        /\ k1 = [meta |-> k1.meta, top |-> k1.top, last |-> k1.last]
    BY <1>1
  <2> HIDE DEF k1, f1
  <2>3. /\ k2.meta = [k.meta EXCEPT ![h] = f2] /\ k2.top = k.top /\ k2.last = k.last
        /\ k2 = [meta |-> k2.meta, top |-> k2.top, last |-> k2.last]
    BY <1>1, <2>2 DEF Blocks
  <2> HIDE DEF k2, f2
  <2>4. /\ k3.meta = [k.meta EXCEPT ![h] = f] /\ k3.top = k.top /\ k3.last = k.last
        /\ k3 = [meta |-> k3.meta, top |-> k3.top, last |-> k3.last]
    BY <1>1, <2>1, <2>3 DEF Blocks
  <2> HIDE DEF k3
  <2> QED BY <2>1, <2>4
<1>3. /\ f \in Header /\ f.total = k.meta[h].total /\ f.prev = k.meta[h].prev
      /\ f.allocated = k.meta[h].allocated /\ f.alignment = alignment
      /\ f.requested = requested /\ f.offset = offset
  BY <1>1 DEF Header
<1> HIDE DEF f
<1>4. /\ Blocks(m) = Blocks(k) /\ m.meta[h] = f
      /\ \A x \in Blocks(k) : x # h => m.meta[x] = k.meta[x]
  BY <1>1, <1>2 DEF Blocks
<1>5. m.meta \in [Blocks(m) -> Header]
  BY <1>1, <1>2, <1>3, <1>4
<1>6. \A x \in Blocks(k) : /\ m.meta[x].total = k.meta[x].total
                           /\ m.meta[x].prev = k.meta[x].prev
                           /\ m.meta[x].allocated = k.meta[x].allocated
  BY <1>3, <1>4
<1>7. Exact(m)
  <2>1. /\ m = [meta |-> m.meta, top |-> m.top, last |-> m.last]
        /\ m.top = k.top /\ m.last = k.last
    BY <1>2
  <2>2. \A x \in Blocks(k) : /\ m.meta[x].total = k.meta[x].total
                             /\ m.meta[x].prev = k.meta[x].prev
                             /\ IsFree(m, x) => IsFree(k, x)
    BY <1>6 DEF IsFree
  <2> QED BY <1>4, <1>5, <2>1, <2>2, SameChain
<1>8. Aligned(m, {})
  BY <1>3, <1>4, <1>6 DEF Aligned, IsFree
<1>9. SameBut(k, m, h) /\ (h \in Live(k) => h \in Live(m))
  BY <1>4, <1>6 DEF SameBut, Live, Same, IsFree
<1> QED BY <1>3, <1>4, <1>6, <1>7, <1>8, <1>9

LEMMA Smallest ==
  ASSUME NEW T, T \subseteq Nat, T # {}
  PROVE  \E x \in T : \A y \in T : x <= y
<1> DEFINE R == {ss \in Nat \X Nat : ss[1] < ss[2]}
<1>1. IsWellFoundedOn(R, Nat)
  BY NatLessThanWellFounded DEF OpToRel
<1> HIDE DEF R
<1>2. PICK x \in T : \A y \in T : ~(<<y, x>> \in R)
  BY <1>1, WFMin
<1>3. \A y \in T : ~(y < x)
  BY <1>2 DEF R
<1> QED BY <1>3

LEMMA ChosenBlock ==
  ASSUME Exact(heap), NEW requested, NEW alignment, Fits(requested, alignment),
         NEW h, h = Chosen(requested, alignment)
  PROVE  \/ /\ h \in Blocks(heap) /\ IsFree(heap, h) /\ h # heap.top
            /\ heap.meta[h].total >= Needed(h, requested, alignment)
         \/ /\ h = heap.top
            /\ heap.top + Needed(heap.top, requested, alignment) <= Limit
<1> DEFINE fitting == Fitting(requested, alignment)
<1>1. CASE fitting = {}
  BY <1>1 DEF Chosen, Fits
<1>2. CASE fitting # {}
  <2>1. fitting \subseteq Nat
    BY BlockFacts DEF Fitting, Exact
  <2>2. \E x \in fitting : \A y \in fitting : x <= y
    BY <1>2, <2>1, Smallest
  <2>3. h \in fitting
    BY <1>2, <2>2 DEF Chosen
  <2>4. h \in Blocks(heap)
    BY <2>3 DEF Fitting
  <2>5. h # heap.top
    BY <2>4, BlockFacts DEF Exact
  <2> QED BY <2>3, <2>5 DEF Fitting
<1> QED BY <1>1, <1>2

(* ag_rt_alloc_block leaves an exact chain, the object lies in its block   *)
(* behind the header and the prefix, and no allocated block is lost.       *)
LEMMA AllocatedExact ==
  ASSUME Exact(heap), Aligned(heap, {}),
         NEW requested \in Nat \ {0}, NEW alignment \in Alignments,
         Fits(requested, alignment),
         NEW k, k = Allocated(requested, alignment),
         NEW h, h = Chosen(requested, alignment)
  PROVE  /\ Exact(k) /\ Aligned(k, {}) /\ h \in Live(k) /\ h \notin Live(heap)
         /\ SameBut(heap, k, h)
         /\ k.meta[h].requested = requested /\ k.meta[h].alignment = alignment
         /\ k.meta[h].offset = Offset(h, alignment)
         /\ Offset(h, alignment) + requested <= k.meta[h].total
         /\ User(requested, alignment) \in Word
<1> DEFINE needed == Needed(h, requested, alignment)
           offset == Offset(h, alignment)
           s == IF h = heap.top THEN Extended(h, needed)
                ELSE SplitAllocated(heap, h, needed)
<1>1. k = Asked(s, h, requested, offset, alignment)
  BY DEF Allocated, Asked
<1>2. /\ alignment \in Nat \ {0} /\ Base \in Nat /\ Limit \in Nat
      /\ HeaderSize \in Nat /\ PrefixSize \in Nat
  BY HeapAssumption, RequestAssumption
<1>3. h \in Nat /\ h >= Base
  BY ChosenBlock, BlockFacts, <1>2 DEF Exact, Whole, Address
<1>4. /\ needed \in Nat /\ needed >= MinBlock /\ offset \in Nat
      /\ needed >= offset + requested
  BY <1>2, <1>3, Layout
<1> HIDE DEF needed, offset
<1>5. /\ Exact(s) /\ Aligned(s, {h}) /\ h \in Blocks(s)
      /\ s.meta[h].total >= needed
      /\ SameBut(heap, s, h) /\ h \in Live(s) /\ h \notin Live(heap)
  <2>1. CASE h = heap.top
    <3>1. s = Extended(h, needed) /\ heap.top + needed <= Limit
      BY <2>1, ChosenBlock, BlockFacts DEF Exact, needed
    <3>2. /\ Exact(s) /\ Aligned(s, {h}) /\ Blocks(s) = Blocks(heap) \cup {h}
          /\ s.meta[h].total = needed /\ SameBut(heap, s, h) /\ h \in Live(s)
      BY <1>4, <2>1, <3>1, ExtendedExact
    <3>3. h \notin Live(heap)
      BY <2>1, BlockFacts DEF Exact, Live
    <3> QED BY <1>4, <3>2, <3>3
  <2>2. CASE h # heap.top
    <3>1. /\ s = SplitAllocated(heap, h, needed) /\ h \in Blocks(heap)
          /\ needed <= heap.meta[h].total /\ IsFree(heap, h)
      <4>1. /\ h \in Blocks(heap) /\ IsFree(heap, h) /\ heap.meta[h].total >= needed
        BY <2>2, ChosenBlock DEF needed
      <4>2. heap.meta[h].total \in Nat
        BY <4>1, BlockFacts DEF Exact
      <4> QED BY <1>4, <2>2, <4>1, <4>2
    <3>2. h \notin Live(heap)
      BY <3>1 DEF Live
    <3> QED BY <1>4, <3>1, <3>2, SplitExact
  <2> QED BY <2>1, <2>2
<1> HIDE DEF s
<1>6. /\ Exact(k) /\ Aligned(k, {}) /\ Blocks(k) = Blocks(s)
      /\ k.meta[h].total = s.meta[h].total
      /\ k.meta[h].requested = requested /\ k.meta[h].offset = offset
      /\ k.meta[h].alignment = alignment
      /\ SameBut(s, k, h) /\ h \in Live(k)
  BY <1>1, <1>4, <1>5, RequestExact
<1>7. User(requested, alignment) \in Word
  <2>1. /\ k.meta[h].total \in Nat /\ k.top \in Nat /\ k.top <= Limit
        /\ h + k.meta[h].total <= k.top
    BY <1>5, <1>6, BlockFacts DEF Exact
  <2>2. User(requested, alignment) = h + offset
    BY DEF User, offset
  <2>3. h + offset < Limit /\ h + offset >= Base /\ h + offset \in Nat
    BY <1>2, <1>3, <1>4, <1>5, <1>6, <2>1
  <2> QED BY <1>2, <2>2, <2>3 DEF Word
<1>8. SameBut(heap, k, h)
  BY <1>5, <1>6, SameTwice
<1>9. offset + requested <= k.meta[h].total
  BY <1>2, <1>4, <1>5, <1>6, BlockFacts DEF Exact
<1> QED BY <1>5, <1>6, <1>7, <1>8, <1>9 DEF offset
-----------------------------------------------------------------------------
(* The words of the memory                                                 *)

Contents == [Word -> Handle \cup {Junk} \cup Word]

LEMMA ContentsKept ==
  ASSUME NEW m \in Contents
  PROVE  /\ \A k : Stamped(k, m) \in Contents
         /\ \A gone : Dropped(m, gone) \in Contents
         /\ \A object : \A p \in Handle : Filled(m, object, p) \in Contents
         /\ \A k : \A h \in Word : Prefixed(k, m, h) \in Contents
<1>1. \A k : Stamped(k, m) \in Contents
  BY DEF Stamped, Contents
<1>2. \A gone : Dropped(m, gone) \in Contents
  BY DEF Dropped, Contents
<1>3. \A object : \A p \in Handle : Filled(m, object, p) \in Contents
  BY DEF Filled, Contents
<1>4. \A k : \A h \in Word : Prefixed(k, m, h) \in Contents
  BY DEF Prefixed, Contents
<1> QED BY <1>1, <1>2, <1>3, <1>4

LEMMA CopiedContents ==
  ASSUME NEW m \in Contents, NEW from \in Nat, NEW to \in Nat, NEW size \in Nat,
         Base <= from, from + size <= Limit
  PROVE  Copied(m, from, to, size) \in Contents
<1>1. ASSUME NEW w \in Word, w \in to .. to + size - 1
      PROVE  from + w - to \in Word
  BY <1>1, HeapAssumption DEF Word
<1> QED BY <1>1 DEF Copied, Contents

LEMMA TypesFromChain ==
  ASSUME NEW k, Exact(k)
  PROVE  /\ k.top \in Address /\ k.last \in Address \cup {0}
         /\ Blocks(k) \subseteq Word /\ k.meta \in [Blocks(k) -> Header]
<1>1. Blocks(k) \subseteq Word
  BY BlockFacts DEF Exact
<1>2. Word \subseteq Address
  BY HeapAssumption DEF Word, Address
<1> QED BY <1>1, <1>2 DEF Exact, Whole

(* What ag_rt_allocated_header says of the block of a pointer.             *)
LEMMA PointerBlock ==
  ASSUME IInv, NEW p \in Handle, pointer[p] # 0,
         NEW h \in AllocatedHeader(heap, mem, pointer[p])
  PROVE  /\ h \in Blocks(heap) /\ ~IsFree(heap, h)
         /\ heap.meta[h].alignment \in Alignments
         /\ heap.meta[h].requested \in Nat
         /\ pointer[p] \in Nat /\ pointer[p] >= Base
         /\ pointer[p] + heap.meta[h].requested <= Limit
<1>1. /\ h \in Blocks(heap) /\ ~IsFree(heap, h) /\ pointer[p] = h + heap.meta[h].offset
      /\ heap.meta[h].requested \in 1 .. heap.meta[h].total - heap.meta[h].offset
  BY DEF AllocatedHeader, IsFree
<1>2. heap.meta[h].alignment \in Alignments
  BY <1>1 DEF IInv, Aligned
<1>3. pointer[p] \in Word
  BY DEF IInv, TypeOK
<1>4. /\ h \in Nat /\ heap.meta[h] \in Header /\ heap.meta[h].total \in Nat
      /\ h + heap.meta[h].total <= heap.top /\ heap.top <= Limit /\ heap.top \in Nat
  BY <1>1, BlockFacts DEF IInv, Exact
<1>5. heap.meta[h].offset \in Nat /\ heap.meta[h].requested \in Nat
  BY <1>4 DEF Header
<1> QED BY <1>1, <1>2, <1>3, <1>4, <1>5, HeapAssumption DEF Word

LEMMA RequiredSize ==
  ASSUME IInv, NEW h \in Blocks(heap), ~IsFree(heap, h), NEW size \in Sizes
  PROVE  /\ Required(h, size) \in Nat /\ Required(h, size) >= MinBlock
         /\ size \in Nat \ {0}
<1> DEFINE a == IF heap.meta[h].alignment >= Unit THEN heap.meta[h].alignment
                ELSE Unit
<1>1. heap.meta[h].alignment \in Alignments
  BY DEF IInv, Aligned
<1>2. a \in Nat \ {0} /\ size \in Nat \ {0} /\ h \in Nat
  BY <1>1, HeapAssumption, RequestAssumption, BlockFacts DEF IInv, Exact
<1>3. Required(h, size) = Needed(h, size, a)
  BY DEF Required
<1> HIDE DEF a
<1> QED BY <1>2, <1>3, Layout
-----------------------------------------------------------------------------
(* The invariant                                                           *)

LEMMA InitInvariant == Init => IInv
<1> SUFFICES ASSUME Init PROVE IInv
  OBVIOUS
<1>1. /\ heap = [meta |-> heap.meta, top |-> heap.top, last |-> heap.last]
      /\ heap.top = Base /\ heap.last = 0 /\ Blocks(heap) = {}
      /\ heap.meta \in [Blocks(heap) -> Header]
  <2>1. heap = [meta |-> [h \in {} |-> 0], top |-> Base, last |-> 0]
    BY DEF Init
  <2>2. [h \in {} |-> 0] \in [{} -> Header] /\ DOMAIN [h \in {} |-> 0] = {}
    OBVIOUS
  <2> QED BY <2>1, <2>2 DEF Blocks
<1>2. Exact(heap) /\ Aligned(heap, {})
  BY <1>1, HeapAssumption DEF Exact, Whole, Tagged, Apart, Aligned, Address
<1>3. TypeOK
  BY <1>1, HeapAssumption DEF TypeOK, Init, Address
<1> QED BY <1>2, <1>3 DEF IInv

LEMMA MallocInvariant ==
  ASSUME IInv, NEW p \in Handle, NEW size \in Sizes, NEW alignment \in Alignments,
         Malloc(p, size, alignment)
  PROVE  IInv'
<1> DEFINE k == Allocated(size, alignment)
           h == Chosen(size, alignment)
<1>1. /\ Fits(size, alignment) /\ heap' = k
      /\ mem' = Filled(Prefixed(k, Stamped(k, mem), h), Object(k, h), p)
      /\ pointer' = [pointer EXCEPT ![p] = User(size, alignment)]
  BY DEF Malloc
<1>2. size \in Nat \ {0}
  BY RequestAssumption
<1>3. /\ Exact(k) /\ Aligned(k, {}) /\ h \in Blocks(k)
      /\ User(size, alignment) \in Word
  BY <1>1, <1>2, AllocatedExact DEF IInv, Live
<1> HIDE DEF k, h
<1>4. mem' \in Contents
  <2>1. mem \in Contents /\ h \in Word
    BY <1>3, BlockFacts DEF IInv, TypeOK, Contents, Exact
  <2>2. Stamped(k, mem) \in Contents
    BY <2>1, ContentsKept
  <2>3. Prefixed(k, Stamped(k, mem), h) \in Contents
    BY <2>1, <2>2, ContentsKept
  <2> QED BY <1>1, <2>3, ContentsKept
<1>5. pointer' \in [Handle -> Word \cup {0}]
  BY <1>1, <1>3 DEF IInv, TypeOK
<1>6. TypeOK'
  BY <1>1, <1>3, <1>4, <1>5, TypesFromChain DEF TypeOK, Contents
<1> QED BY <1>1, <1>3, <1>6 DEF IInv

LEMMA FreeInvariant ==
  ASSUME IInv, NEW p \in Handle, Free(p)
  PROVE  IInv'
<1>1. PICK h \in AllocatedHeader(heap, mem, pointer[p]) :
        /\ heap' = Released(heap, h)
        /\ mem' = Stamped(heap', Dropped(mem, Object(heap, h) \cup {pointer[p] - 1}))
  BY DEF Free
<1>2. pointer[p] # 0 /\ pointer' = [pointer EXCEPT ![p] = 0]
  BY DEF Free
<1>3. h \in Blocks(heap) /\ Aligned(heap, {h})
  BY <1>2, PointerBlock DEF IInv, Aligned
<1>4. Exact(heap') /\ Aligned(heap', {})
  BY <1>1, <1>3, ReleasedExact DEF IInv
<1>5. mem' \in Contents
  <2>1. mem \in Contents
    BY DEF IInv, TypeOK, Contents
  <2> QED BY <1>1, <2>1, ContentsKept
<1>6. pointer' \in [Handle -> Word \cup {0}]
  BY <1>2 DEF IInv, TypeOK
<1>7. TypeOK'
  BY <1>4, <1>5, <1>6, TypesFromChain DEF TypeOK, Contents
<1> QED BY <1>4, <1>7 DEF IInv

(* realloc in place: the block keeps what it was, but for its size.        *)
LEMMA InPlaceExact ==
  ASSUME IInv, NEW size \in Sizes, NEW h \in Blocks(heap), ~IsFree(heap, h),
         Required(h, size) <= heap.meta[h].total,
         NEW s, s = SplitAllocated(Resized(heap, h, size), h, Required(h, size))
  PROVE  /\ Exact(s) /\ Aligned(s, {}) /\ SameBut(heap, s, h)
         /\ h \in Live(s) /\ h \in Blocks(s)
         /\ s.meta[h].total >= Required(h, size)
         /\ s.meta[h].requested = size
         /\ s.meta[h].offset = heap.meta[h].offset
         /\ s.meta[h].alignment = heap.meta[h].alignment
<1>1. /\ heap.meta[h].alignment \in Alignments
      /\ Required(h, size) \in Nat /\ Required(h, size) >= MinBlock
      /\ size \in Nat
  BY RequiredSize DEF IInv, Aligned
<1>2. PICK r : r = Resized(heap, h, size)
  OBVIOUS
<1>3. /\ heap = [meta |-> heap.meta, top |-> heap.top, last |-> heap.last]
      /\ heap.meta \in [Blocks(heap) -> Header] /\ heap.meta[h] \in Header
  BY DEF IInv, Exact, Whole
<1>4. /\ r = [meta |-> r.meta, top |-> r.top, last |-> r.last]
      /\ r.meta = [heap.meta EXCEPT ![h] = [heap.meta[h] EXCEPT !.requested = size]]
      /\ r.top = heap.top /\ r.last = heap.last
  BY <1>2, <1>3 DEF Resized
<1>5. /\ Blocks(r) = Blocks(heap)
      /\ r.meta[h] = [heap.meta[h] EXCEPT !.requested = size]
      /\ \A x \in Blocks(heap) : x # h => r.meta[x] = heap.meta[x]
  BY <1>3, <1>4 DEF Blocks
<1>6. /\ r.meta[h] \in Header /\ r.meta[h].total = heap.meta[h].total
      /\ r.meta[h].prev = heap.meta[h].prev
      /\ r.meta[h].allocated = heap.meta[h].allocated
      /\ r.meta[h].alignment = heap.meta[h].alignment
      /\ r.meta[h].requested = size /\ r.meta[h].offset = heap.meta[h].offset
  BY <1>1, <1>3, <1>5 DEF Header
<1>7. Exact(r)
  <2>1. r.meta \in [Blocks(r) -> Header]
    BY <1>3, <1>4, <1>5, <1>6
  <2>2. \A x \in Blocks(heap) : /\ r.meta[x].total = heap.meta[x].total
                                /\ r.meta[x].prev = heap.meta[x].prev
                                /\ IsFree(r, x) => IsFree(heap, x)
    BY <1>5, <1>6 DEF IsFree
  <2>3. /\ r = [meta |-> r.meta, top |-> r.top, last |-> r.last]
        /\ r.top = heap.top /\ r.last = heap.last
    BY <1>4
  <2> QED BY <1>5, <2>1, <2>2, <2>3, SameChain DEF IInv
<1>8. Aligned(r, {}) /\ SameBut(heap, r, h)
  <2>1. Aligned(r, {})
    BY <1>5, <1>6 DEF IInv, Aligned, IsFree
  <2>2. Live(r) = Live(heap)
    BY <1>5, <1>6 DEF Live, IsFree
  <2>3. \A x \in Live(heap) \ {h} : Same(heap, r, x)
    BY <1>5 DEF Live, Same
  <2> QED BY <2>1, <2>2, <2>3 DEF SameBut
<1>9. /\ Exact(s) /\ Aligned(s, {h}) /\ h \in Blocks(s)
      /\ s.meta[h].total >= Required(h, size)
      /\ s.meta[h].alignment = r.meta[h].alignment
      /\ s.meta[h].requested = r.meta[h].requested
      /\ s.meta[h].offset = r.meta[h].offset
      /\ SameBut(r, s, h) /\ h \in Live(s)
  <2>1. s = SplitAllocated(r, h, Required(h, size))
    BY <1>2
  <2>2. h \in Blocks(r) /\ Required(h, size) <= r.meta[h].total
    BY <1>5, <1>6
  <2> QED BY <1>1, <1>7, <1>8, <2>1, <2>2, SplitExact
<1>10. Aligned(s, {})
  BY <1>1, <1>6, <1>9 DEF Aligned
<1>11. SameBut(heap, s, h)
  BY <1>8, <1>9, SameTwice
<1> QED BY <1>6, <1>9, <1>10, <1>11

LEMMA ReallocInPlaceInvariant ==
  ASSUME IInv, NEW p \in Handle, NEW size \in Sizes, ReallocInPlace(p, size)
  PROVE  IInv'
<1>1. pointer[p] # 0 /\ pointer' = pointer
  BY DEF ReallocInPlace
<1>2. PICK h \in AllocatedHeader(heap, mem, pointer[p]) :
        /\ Required(h, size) <= heap.meta[h].total
        /\ heap' = SplitAllocated(Resized(heap, h, size), h, Required(h, size))
        /\ mem' = Filled(Stamped(heap', Dropped(mem, Object(heap, h) \ Object(heap', h))),
                         Object(heap', h) \ Object(heap, h), p)
  BY DEF ReallocInPlace
<1>3. Exact(heap') /\ Aligned(heap', {})
  <2>1. h \in Blocks(heap) /\ ~IsFree(heap, h)
    BY <1>1, PointerBlock
  <2> QED BY <1>2, <2>1, InPlaceExact
<1>4. mem' \in Contents
  <2>1. mem \in Contents
    BY DEF IInv, TypeOK, Contents
  <2>2. Dropped(mem, Object(heap, h) \ Object(heap', h)) \in Contents
    BY <2>1, ContentsKept
  <2>3. Stamped(heap', Dropped(mem, Object(heap, h) \ Object(heap', h))) \in Contents
    BY <2>2, ContentsKept
  <2> QED BY <1>2, <2>3, ContentsKept
<1>5. TypeOK'
  BY <1>1, <1>3, <1>4, TypesFromChain DEF IInv, TypeOK, Contents
<1> QED BY <1>3, <1>5 DEF IInv

(* realloc at the top: only the last block can grow.                       *)
Raised(h, size) ==
  [heap EXCEPT !.meta[h].total = Required(h, size),
               !.meta[h].requested = size,
               !.top = h + Required(h, size)]

LEMMA AtTopExact ==
  ASSUME IInv, NEW size \in Sizes, NEW h \in Blocks(heap), ~IsFree(heap, h),
         Required(h, size) > heap.meta[h].total, AtTop(h, size),
         NEW k, k = Raised(h, size)
  PROVE  /\ Exact(k) /\ Aligned(k, {}) /\ SameBut(heap, k, h)
         /\ h \in Live(k) /\ h \in Blocks(k)
         /\ k.meta[h].total = Required(h, size)
         /\ k.meta[h].requested = size
         /\ k.meta[h].offset = heap.meta[h].offset
         /\ k.meta[h].alignment = heap.meta[h].alignment
<1> DEFINE used == Required(h, size)
<1>2. /\ used > heap.meta[h].total
      /\ k = [heap EXCEPT !.meta[h].total = used, !.meta[h].requested = size,
                          !.top = h + used]
  BY DEF Raised
<1>3. /\ h \in Blocks(heap) /\ ~IsFree(heap, h)
      /\ used \in Nat /\ used >= MinBlock /\ size \in Nat
  BY RequiredSize
<1>4. After(heap, h) = heap.top /\ h + used <= Limit
  BY DEF AtTop
<1>5. /\ Whole(heap) /\ Tagged(heap, {}) /\ Apart(heap, {}) /\ Aligned(heap, {})
      /\ heap = [meta |-> heap.meta, top |-> heap.top, last |-> heap.last]
      /\ heap.meta \in [Blocks(heap) -> Header] /\ heap.meta[h] \in Header
  BY <1>3 DEF IInv, Exact, Whole
<1>6. /\ MinBlock \in Nat /\ MinBlock > 0 /\ Base \in Nat \ {0} /\ Limit \in Nat
      /\ h \in Nat /\ h >= Base /\ h < heap.top /\ heap.top \in Nat
      /\ heap.meta[h].total \in Nat /\ heap.top = h + heap.meta[h].total
      /\ used > heap.meta[h].total
  BY <1>2, <1>3, <1>4, <1>5, BlockFacts, HeapAssumption
<1>7. /\ k = [meta |-> k.meta, top |-> k.top, last |-> k.last]
      /\ k.top = h + used /\ k.last = heap.last
      /\ k.meta = [heap.meta EXCEPT ![h] =
                     [heap.meta[h] EXCEPT !.total = used, !.requested = size]]
  <2> DEFINE f1 == [heap.meta[h] EXCEPT !.total = used]
             f == [f1 EXCEPT !.requested = size]
             k1 == [heap EXCEPT !.meta[h].total = used]
             k2 == [k1 EXCEPT !.meta[h].requested = size]
             k3 == [k2 EXCEPT !.top = h + used]
  <2>1. k = k3 /\ f = [heap.meta[h] EXCEPT !.total = used, !.requested = size]
    BY <1>2
  <2>2. /\ k1.meta = [heap.meta EXCEPT ![h] = f1] /\ k1.top = heap.top
        /\ k1.last = heap.last
        /\ k1 = [meta |-> k1.meta, top |-> k1.top, last |-> k1.last]
    BY <1>5
  <2> HIDE DEF k1, f1
  <2>3. /\ k2.meta = [heap.meta EXCEPT ![h] = f] /\ k2.top = heap.top
        /\ k2.last = heap.last
        /\ k2 = [meta |-> k2.meta, top |-> k2.top, last |-> k2.last]
    BY <1>3, <1>5, <2>2 DEF Blocks
  <2> HIDE DEF k2, f
  <2>4. /\ k3.meta = [heap.meta EXCEPT ![h] = f] /\ k3.top = h + used
        /\ k3.last = heap.last
        /\ k3 = [meta |-> k3.meta, top |-> k3.top, last |-> k3.last]
    BY <2>3
  <2> HIDE DEF k3, used
  <2> QED BY <2>1, <2>4
<1> HIDE DEF used
<1>8. /\ Blocks(k) = Blocks(heap)
      /\ k.meta[h] = [heap.meta[h] EXCEPT !.total = used, !.requested = size]
      /\ \A x \in Blocks(heap) : x # h => k.meta[x] = heap.meta[x]
  BY <1>3, <1>5, <1>7 DEF Blocks
<1>9. /\ k.meta[h] \in Header /\ k.meta[h].total = used
      /\ k.meta[h].prev = heap.meta[h].prev
      /\ k.meta[h].allocated = heap.meta[h].allocated
      /\ k.meta[h].alignment = heap.meta[h].alignment
      /\ k.meta[h].requested = size /\ k.meta[h].offset = heap.meta[h].offset
  BY <1>3, <1>5, <1>8 DEF Header
<1>10. /\ After(k, h) = k.top
       /\ \A x \in Blocks(heap) : x # h => After(k, x) = After(heap, x)
  BY <1>7, <1>8, <1>9 DEF After
<1>11. k.meta \in [Blocks(k) -> Header]
  BY <1>5, <1>7, <1>8, <1>9
<1>12. \A x \in Blocks(heap) : x <= h /\ x < k.top /\ x >= Base
  <2>1. \A x \in Blocks(heap) : (x <= h \/ x >= After(heap, h)) /\ x < heap.top
                                /\ x \in Nat /\ x >= Base
    BY <1>3, <1>5, BlockFacts DEF Whole
  <2> QED BY <1>3, <1>4, <1>6, <1>7, <2>1
<1>13. ASSUME NEW x \in Blocks(heap), x # h
       PROVE  After(heap, x) \in Blocks(heap)
  <2>1. After(heap, x) # heap.top
    BY <1>3, <1>4, <1>5, <1>13, OneBefore
  <2> QED BY <1>5, <2>1, BlockFacts
<1>14. ASSUME NEW x \in Blocks(k)
       PROVE  /\ k.meta[x].total >= MinBlock
              /\ After(k, x) \in Blocks(k) \cup {k.top}
              /\ \A y \in Blocks(k) : y <= x \/ y >= After(k, x)
              /\ x # Base => \E b \in Blocks(k) : After(k, b) = x
  <2>1. k.meta[x].total >= MinBlock /\ After(k, x) \in Blocks(k) \cup {k.top}
    BY <1>3, <1>5, <1>8, <1>9, <1>10, <1>13 DEF Whole
  <2>2. \A y \in Blocks(k) : y <= x \/ y >= After(k, x)
    BY <1>5, <1>8, <1>10, <1>12 DEF Whole
  <2>3. ASSUME x # Base
        PROVE  \E b \in Blocks(k) : After(k, b) = x
    <3>1. PICK b \in Blocks(heap) : After(heap, b) = x
      BY <1>5, <1>8, <2>3 DEF Whole
    <3>2. b # h
      BY <1>4, <1>5, <1>8, <3>1, BlockFacts
    <3> QED BY <1>8, <1>10, <3>1, <3>2
  <2> QED BY <2>1, <2>2, <2>3
<1>15. /\ k.top \in Address /\ k.top # Base /\ Blocks(k) \subseteq Base .. k.top - 1
       /\ Base \in Blocks(k) /\ k.last \in Blocks(k) /\ After(k, k.last) = k.top
  <2>1. /\ Base \in Blocks(heap) /\ heap.last \in Blocks(heap)
        /\ After(heap, heap.last) = heap.top
    BY <1>5, <1>6 DEF Whole
  <2>2. heap.last = h
    BY <1>3, <1>4, <1>5, <2>1, OneBefore
  <2>3. k.top \in Address /\ k.top # Base /\ k.top \in Nat
    BY <1>3, <1>4, <1>6, <1>7 DEF Address
  <2>4. Blocks(k) \subseteq Base .. k.top - 1
    <3>1. \A x \in Blocks(heap) : x \in Nat
      BY <1>5, BlockFacts
    <3> QED BY <1>6, <1>8, <1>12, <2>3, <3>1
  <2> QED BY <1>7, <1>8, <1>10, <2>1, <2>2, <2>3, <2>4
<1>16. Whole(k)
  BY <1>7, <1>11, <1>14, <1>15 DEF Whole
<1>17. ASSUME NEW x \in Blocks(k), After(k, x) \in Blocks(k)
       PROVE  /\ k.meta[After(k, x)].prev = k.meta[x].total
              /\ ~(IsFree(k, x) /\ IsFree(k, After(k, x)))
  <2>1. x # h /\ After(k, x) = After(heap, x) /\ k.meta[x] = heap.meta[x]
    BY <1>8, <1>10, <1>12, <1>17, <1>16, BlockFacts
  <2>2. /\ heap.meta[After(heap, x)].prev = heap.meta[x].total
        /\ ~(IsFree(heap, x) /\ IsFree(heap, After(heap, x)))
    BY <1>5, <1>8, <1>17, <2>1 DEF Tagged, Apart
  <2>3. /\ k.meta[After(heap, x)].prev = heap.meta[After(heap, x)].prev
        /\ k.meta[After(heap, x)].allocated = heap.meta[After(heap, x)].allocated
    BY <1>8, <1>9, <1>17, <2>1
  <2> QED BY <2>1, <2>2, <2>3 DEF IsFree
<1>18. k.meta[Base].prev = 0
  BY <1>5, <1>8, <1>9, <1>15 DEF Tagged
<1>19. Tagged(k, {}) /\ Apart(k, {})
  BY <1>17, <1>18 DEF Tagged, Apart
<1>20. Aligned(k, {})
  BY <1>5, <1>8, <1>9 DEF Aligned, IsFree
<1>21. SameBut(heap, k, h) /\ h \in Live(k)
  <2>1. Live(k) = Live(heap)
    BY <1>3, <1>8, <1>9 DEF Live, IsFree
  <2>2. \A x \in Live(heap) \ {h} : Same(heap, k, x)
    BY <1>8 DEF Live, Same
  <2> QED BY <1>3, <2>1, <2>2 DEF SameBut, Live
<1> QED BY <1>3, <1>8, <1>9, <1>16, <1>19, <1>20, <1>21 DEF Exact, used

LEMMA ReallocAtTopInvariant ==
  ASSUME IInv, NEW p \in Handle, NEW size \in Sizes, ReallocAtTop(p, size)
  PROVE  IInv'
<1>1. pointer[p] # 0 /\ pointer' = pointer
  BY DEF ReallocAtTop
<1>2. PICK h \in AllocatedHeader(heap, mem, pointer[p]) :
        /\ Required(h, size) > heap.meta[h].total
        /\ AtTop(h, size)
        /\ heap' = [heap EXCEPT !.meta[h].total = Required(h, size),
                                !.meta[h].requested = size,
                                !.top = h + Required(h, size)]
        /\ mem' = Filled(mem, Object(heap', h) \ Object(heap, h), p)
  BY DEF ReallocAtTop
<1>3. Exact(heap') /\ Aligned(heap', {})
  <2>1. h \in Blocks(heap) /\ ~IsFree(heap, h)
    BY <1>1, PointerBlock
  <2>2. heap' = Raised(h, size)
    BY <1>2 DEF Raised
  <2> QED BY <1>2, <2>1, <2>2, AtTopExact
<1>4. mem' \in Contents
  <2>1. mem \in Contents
    BY DEF IInv, TypeOK, Contents
  <2> QED BY <1>2, <2>1, ContentsKept
<1>5. TypeOK'
  BY <1>1, <1>3, <1>4, TypesFromChain DEF IInv, TypeOK, Contents
<1> QED BY <1>3, <1>5 DEF IInv

(* realloc by moving: the copy stays within the old block and the new one. *)
LEMMA ReallocMoveInvariant ==
  ASSUME IInv, NEW p \in Handle, NEW size \in Sizes, ReallocMove(p, size)
  PROVE  IInv'
<1>1. pointer[p] # 0
  BY DEF ReallocMove
<1>2. PICK h \in AllocatedHeader(heap, mem, pointer[p]) :
        LET a == heap.meta[h].alignment
            k == Allocated(size, a)
            n == Chosen(size, a)
            to == User(size, a)
            copied == CopySize(heap.meta[h].requested, size)
            moved == Copied(Prefixed(k, Stamped(k, mem), n), pointer[p], to, copied)
        IN /\ Fits(size, a)
           /\ heap' = Released(k, h)
           /\ mem' = Filled(Stamped(heap', Dropped(moved, Object(heap, h)
                                                    \cup {pointer[p] - 1})),
                            to + copied .. to + size - 1, p)
           /\ pointer' = [pointer EXCEPT ![p] = to]
  BY DEF ReallocMove
<1> DEFINE a == heap.meta[h].alignment
           k == Allocated(size, a)
           n == Chosen(size, a)
           to == User(size, a)
           copied == CopySize(heap.meta[h].requested, size)
           moved == Copied(Prefixed(k, Stamped(k, mem), n), pointer[p], to, copied)
           gone == Object(heap, h) \cup {pointer[p] - 1}
           new == to + copied .. to + size - 1
<1>3. /\ Fits(size, a) /\ heap' = Released(k, h)
      /\ mem' = Filled(Stamped(heap', Dropped(moved, gone)), new, p)
      /\ pointer' = [pointer EXCEPT ![p] = to]
  BY <1>2
<1> HIDE DEF gone, new
<1>4. /\ h \in Blocks(heap) /\ ~IsFree(heap, h) /\ a \in Alignments
      /\ heap.meta[h].requested \in Nat
      /\ pointer[p] \in Nat /\ pointer[p] >= Base
      /\ pointer[p] + heap.meta[h].requested <= Limit
  BY <1>1, PointerBlock
<1>5. size \in Nat \ {0}
  BY RequestAssumption
<1> HIDE DEF a
<1>6. /\ Exact(k) /\ Aligned(k, {}) /\ n \in Blocks(k) /\ h \in Blocks(k)
      /\ to \in Word
  <2>1. /\ Exact(k) /\ Aligned(k, {}) /\ n \in Live(k) /\ SameBut(heap, k, n)
        /\ n \notin Live(heap) /\ to \in Word
    BY <1>3, <1>4, <1>5, AllocatedExact DEF IInv
  <2> HIDE DEF k, n
  <2> QED BY <1>4, <2>1 DEF Live, SameBut
<1> HIDE DEF k, n, to
<1>7. Exact(heap') /\ Aligned(heap', {})
  <2>1. Aligned(k, {h})
    BY <1>6 DEF Aligned
  <2> QED BY <1>3, <1>6, <2>1, ReleasedExact
<1>8. mem' \in Contents
  <2>1. mem \in Contents /\ n \in Word /\ to \in Nat
    <3>1. n \in Word
      BY <1>6, BlockFacts DEF Exact
    <3> QED BY <1>6, <3>1, HeapAssumption DEF IInv, TypeOK, Contents, Word
  <2>2. Prefixed(k, Stamped(k, mem), n) \in Contents
    <3>1. Stamped(k, mem) \in Contents
      BY <2>1, ContentsKept
    <3> QED BY <2>1, <3>1, ContentsKept
  <2>3. copied \in Nat /\ copied <= heap.meta[h].requested
    BY <1>4, <1>5 DEF CopySize
  <2> HIDE DEF copied
  <2>4. moved \in Contents
    <3>1. pointer[p] + copied <= Limit
      BY <1>4, <2>3, HeapAssumption
    <3> QED BY <1>4, <2>1, <2>2, <2>3, <3>1, CopiedContents
  <2> HIDE DEF moved
  <2>5. Dropped(moved, gone) \in Contents
    BY <2>4, ContentsKept
  <2>6. Stamped(heap', Dropped(moved, gone)) \in Contents
    BY <2>5, ContentsKept
  <2> QED BY <1>3, <2>6, ContentsKept
<1>9. pointer' \in [Handle -> Word \cup {0}]
  BY <1>3, <1>6 DEF IInv, TypeOK
<1>10. TypeOK'
  BY <1>7, <1>8, <1>9, TypesFromChain DEF TypeOK, Contents
<1> QED BY <1>7, <1>10 DEF IInv

LEMMA NextInvariant == IInv /\ [Next]_vars => IInv'
<1> SUFFICES ASSUME IInv, [Next]_vars PROVE IInv'
  OBVIOUS
<1>1. CASE UNCHANGED vars
  <2>1. heap' = heap /\ mem' = mem /\ pointer' = pointer
    BY <1>1 DEF vars
  <2> QED BY <2>1 DEF IInv, TypeOK
<1>2. CASE Next
  <2>1. PICK p \in Handle :
          \/ Free(p)
          \/ \E size \in Sizes :
               \/ \E alignment \in Alignments : Malloc(p, size, alignment)
               \/ ReallocInPlace(p, size)
               \/ ReallocAtTop(p, size)
               \/ ReallocMove(p, size)
    BY <1>2 DEF Next
  <2> QED BY <2>1, FreeInvariant, MallocInvariant, ReallocInPlaceInvariant,
             ReallocAtTopInvariant, ReallocMoveInvariant
<1> QED BY <1>1, <1>2

LEMMA InvariantChain == IInv => ChainExact
<1> SUFFICES ASSUME IInv PROVE ChainExact
  OBVIOUS
<1>1. /\ TypeOK /\ Whole(heap) /\ Tagged(heap, {}) /\ Apart(heap, {})
  BY DEF IInv, Exact
<1>2. ASSUME NEW h \in Blocks(heap), h # Base
      PROVE  \E b \in Blocks(heap) :
               /\ After(heap, b) = h /\ heap.meta[h].prev = heap.meta[b].total
               /\ ~(IsFree(heap, h) /\ IsFree(heap, b))
  <2>1. PICK b \in Blocks(heap) : After(heap, b) = h
    BY <1>1, <1>2 DEF Whole
  <2> QED BY <1>1, <1>2, <2>1 DEF Tagged, Apart
<1>3. Base \in Blocks(heap) => heap.meta[Base].prev = 0
  BY <1>1 DEF Tagged
<1> QED BY <1>1, <1>2, <1>3 DEF ChainExact, Whole

(* After any calls the blocks follow each other without a gap from the     *)
(* base to the top, the boundary tags are right and no two free blocks lie *)
(* side by side.                                                           *)
THEOREM ChainAlwaysExact == Spec => []ChainExact
<1>1. Spec => []IInv
  BY InitInvariant, NextInvariant, PTL DEF Spec
<1> QED BY <1>1, InvariantChain, PTL
-----------------------------------------------------------------------------
(* Objects                                                                 *)

(* The words of a block behind its header.                                 *)
Zone(k, x) == x + HeaderSize .. After(k, x) - 1

(* Pointer ptr of program variable q has block x, and the object is intact.*)
Holds(k, m, q, ptr, x) ==
  /\ x \in AllocatedHeader(k, m, ptr)
  /\ ptr % k.meta[x].alignment = 0
  /\ \A w \in Object(k, x) : m[w] = q

(* An object lies where the layout of its alignment puts it.               *)
LaidOut(k) ==
  \A x \in Live(k) : k.meta[x].offset = Offset(x, k.meta[x].alignment)

DInv == IInv /\ LaidOut(heap) /\ DataIntact /\ NothingLost

LEMMA AlignUpMultiple ==
  ASSUME NEW x \in Nat, NEW a \in Nat \ {0}
  PROVE  AlignUp(x, a) % a = 0
<1> DEFINE q == (x + a - 1) \div a
<1>1. a \in Nat /\ a > 0 /\ q \in Int
  OBVIOUS
<1>2. AlignUp(x, a) = q * a
  BY DEF AlignUp
<1> HIDE DEF q
<1>3. (q * a) % a = 0
  BY <1>1
<1> QED BY <1>2, <1>3

LEMMA AlignmentFacts ==
  ASSUME NEW a \in Alignments
  PROVE  a \in Nat \ {0} /\ a >= Unit
<1>1. a \in Nat \ {0} /\ Unit \in Nat \ {0} /\ a % Unit = 0
  BY HeapAssumption, RequestAssumption
<1>2. a < Unit => a % Unit = a
  BY <1>1
<1> QED BY <1>1, <1>2

LEMMA ZoneFacts ==
  ASSUME NEW k, Whole(k), NEW x \in Blocks(k), NEW w \in Zone(k, x)
  PROVE  /\ w \in Nat /\ w \in Word
         /\ \A m : Stamped(k, m)[w] = m[w]
         /\ \A y \in Blocks(k) : y # x => w \notin Zone(k, y)
<1>1. /\ x \in Nat /\ x >= Base /\ After(k, x) \in Nat /\ After(k, x) <= k.top
      /\ k.top \in Nat /\ k.top <= Limit
  BY BlockFacts
<1>2. /\ HeaderSize \in Nat /\ MinBlock \in Nat /\ MinBlock > HeaderSize
      /\ Base \in Nat /\ Limit \in Nat
  BY HeapAssumption
<1>3. w \in Nat /\ w >= x + HeaderSize /\ w < After(k, x)
  BY <1>1, <1>2 DEF Zone
<1>4. w \in Word
  BY <1>1, <1>2, <1>3 DEF Word
<1>5. ASSUME NEW y \in Blocks(k)
      PROVE  /\ w \notin y .. y + HeaderSize - 1
             /\ y # x => w \notin Zone(k, y)
  <2>1. /\ y \in Nat /\ After(k, y) = y + k.meta[y].total
        /\ k.meta[y].total \in Nat /\ k.meta[y].total >= MinBlock
    BY BlockFacts
  <2>2. /\ y <= x \/ y >= After(k, x)
        /\ x <= y \/ x >= After(k, y)
    BY DEF Whole
  <2> QED BY <1>1, <1>2, <1>3, <2>1, <2>2 DEF Zone
<1>6. \A m : Stamped(k, m)[w] = m[w]
  BY <1>4, <1>5 DEF Stamped
<1> QED BY <1>3, <1>4, <1>5, <1>6

(* An object and its prefix lie behind the header of their block.          *)
LEMMA ObjectFacts ==
  ASSUME NEW k, Whole(k), NEW x \in Blocks(k),
         k.meta[x].offset >= HeaderSize + PrefixSize,
         k.meta[x].requested \in Nat \ {0},
         k.meta[x].offset + k.meta[x].requested <= k.meta[x].total
  PROVE  /\ Object(k, x) \subseteq Zone(k, x)
         /\ x + k.meta[x].offset - 1 \in Zone(k, x)
         /\ x + k.meta[x].offset - 1 \notin Object(k, x)
         /\ x + k.meta[x].offset \in Object(k, x)
<1>1. /\ x \in Nat /\ k.meta[x] \in Header /\ k.meta[x].total \in Nat
      /\ After(k, x) = x + k.meta[x].total
  BY BlockFacts
<1>2. k.meta[x].offset \in Nat
  BY <1>1 DEF Header
<1>3. HeaderSize \in Nat /\ PrefixSize = 1
  BY HeapAssumption
<1> QED BY <1>1, <1>2, <1>3 DEF Object, Zone

LEMMA HoldsFacts ==
  ASSUME NEW k, Whole(k), NEW m, NEW q, NEW ptr, NEW x, Holds(k, m, q, ptr, x)
  PROVE  /\ x \in Live(k) /\ x \in Blocks(k) /\ m[ptr - 1] = x
         /\ ptr = x + k.meta[x].offset /\ ptr - 1 \in Zone(k, x)
         /\ Object(k, x) \subseteq Zone(k, x)
         /\ ptr - 1 \notin Object(k, x)
         /\ ptr \in Object(k, x) /\ m[ptr] = q
         /\ k.meta[x].offset >= HeaderSize + PrefixSize
         /\ k.meta[x].requested \in Nat \ {0}
         /\ k.meta[x].offset + k.meta[x].requested <= k.meta[x].total
<1>1. /\ x \in Blocks(k) /\ m[ptr - 1] = x /\ k.meta[x].allocated
      /\ k.meta[x].offset >= HeaderSize + PrefixSize
      /\ ptr = x + k.meta[x].offset
      /\ k.meta[x].requested \in 1 .. k.meta[x].total - k.meta[x].offset
      /\ \A w \in Object(k, x) : m[w] = q
  BY DEF Holds, AllocatedHeader
<1>2. k.meta[x] \in Header /\ k.meta[x].total \in Nat /\ x \in Nat
  BY <1>1, BlockFacts
<1>3. k.meta[x].offset \in Nat /\ k.meta[x].requested \in Nat
  BY <1>2 DEF Header
<1>4. /\ k.meta[x].requested \in Nat \ {0}
      /\ k.meta[x].offset + k.meta[x].requested <= k.meta[x].total
  BY <1>1, <1>2, <1>3
<1>5. /\ Object(k, x) \subseteq Zone(k, x)
      /\ x + k.meta[x].offset - 1 \in Zone(k, x)
      /\ x + k.meta[x].offset - 1 \notin Object(k, x)
      /\ x + k.meta[x].offset \in Object(k, x)
  BY <1>1, <1>4, ObjectFacts
<1>6. x \in Live(k)
  BY <1>1 DEF Live, IsFree
<1>7. ptr \in Object(k, x) /\ m[ptr] = q
  BY <1>1, <1>5
<1>8. ptr - 1 \in Zone(k, x) /\ ptr - 1 \notin Object(k, x)
  <2>1. ptr - 1 = x + k.meta[x].offset - 1
    BY <1>1, <1>2, <1>3
  <2> QED BY <1>5, <2>1
<1> QED BY <1>1, <1>4, <1>5, <1>6, <1>7, <1>8

(* What a step leaves of a block and its words leaves the object intact.   *)
LEMMA HoldsKept ==
  ASSUME NEW k, Whole(k), NEW m, NEW q, NEW ptr, NEW x, Holds(k, m, q, ptr, x),
         NEW s, NEW n, x \in Live(s), Same(k, s, x),
         \A w \in Zone(k, x) : n[w] = m[w]
  PROVE  Holds(s, n, q, ptr, x)
<1>1. /\ ptr - 1 \in Zone(k, x) /\ Object(k, x) \subseteq Zone(k, x)
  BY HoldsFacts
<1>2. Object(s, x) = Object(k, x)
  BY DEF Object, Same
<1>3. x \in AllocatedHeader(s, n, ptr)
  BY <1>1 DEF Holds, AllocatedHeader, Same, Live, IsFree
<1> QED BY <1>1, <1>2, <1>3 DEF Holds, Same

(* No two variables have one block.                                        *)
LEMMA OwnBlock ==
  ASSUME Whole(heap), NEW p \in Handle, NEW q \in Handle, NEW x,
         Holds(heap, mem, p, pointer[p], x), Holds(heap, mem, q, pointer[q], x)
  PROVE  p = q
<1>1. /\ pointer[p] \in Object(heap, x) /\ mem[pointer[p]] = p
  BY HoldsFacts
<1> QED BY <1>1 DEF Holds

(* A step that replaces the blocks old of variable p by now, and leaves    *)
(* alone the others and their words.                                       *)
Replaces(p, old, now) ==
  /\ \A q \in Handle : q # p => pointer'[q] = pointer[q]
  /\ \A x : pointer[p] # 0 /\ Holds(heap, mem, p, pointer[p], x) => x \in old
  /\ \A x \in old : pointer[p] # 0 /\ Holds(heap, mem, p, pointer[p], x)
  /\ \A x \in now : /\ pointer'[p] # 0 /\ Holds(heap', mem', p, pointer'[p], x)
                   /\ heap'.meta[x].offset = Offset(x, heap'.meta[x].alignment)
  /\ pointer'[p] # 0 => now # {}
  /\ Live(heap') \ now \subseteq Live(heap) \ old
  /\ Live(heap) \ old \subseteq Live(heap')
  /\ \A x \in Live(heap) \ old :
       Same(heap, heap', x) /\ \A w \in Zone(heap, x) : mem'[w] = mem[w]

(* It keeps every object.                                                  *)
LEMMA OthersKept ==
  ASSUME Whole(heap), DataIntact, NothingLost, LaidOut(heap),
         NEW p \in Handle, NEW old, NEW now, Replaces(p, old, now)
  PROVE  LaidOut(heap') /\ DataIntact' /\ NothingLost'
<1>1. \A q \in Handle : pointer[q] # 0 => \E x : Holds(heap, mem, q, pointer[q], x)
  BY DEF DataIntact, Holds
<1>2. ASSUME NEW q \in Handle, q # p, pointer[q] # 0,
             NEW x, Holds(heap, mem, q, pointer[q], x)
      PROVE  x \in Live(heap) \ old /\ Holds(heap', mem', q, pointer'[q], x)
  <2>1. x \in Live(heap)
    BY <1>2, HoldsFacts
  <2>2. x \notin old
    BY <1>2, OwnBlock DEF Replaces
  <2>3. x \in Live(heap') /\ Same(heap, heap', x)
        /\ \A w \in Zone(heap, x) : mem'[w] = mem[w]
    BY <2>1, <2>2 DEF Replaces
  <2>4. Holds(heap', mem', q, pointer[q], x)
    BY <1>2, <2>3, HoldsKept
  <2> QED BY <1>2, <2>1, <2>2, <2>4 DEF Replaces
<1>3. ASSUME NEW q \in Handle, pointer'[q] # 0
      PROVE  \E x : Holds(heap', mem', q, pointer'[q], x)
  <2>1. CASE q = p
    BY <1>3, <2>1 DEF Replaces
  <2>2. CASE q # p
    <3>1. pointer'[q] = pointer[q]
      BY <2>2 DEF Replaces
    <3> QED BY <1>1, <1>2, <1>3, <2>2, <3>1
  <2> QED BY <2>1, <2>2
<1>4. DataIntact'
  BY <1>3 DEF DataIntact, Holds
<1>5. ASSUME NEW x \in Live(heap')
      PROVE  \E q \in Handle : pointer'[q] # 0 /\ Holds(heap', mem', q, pointer'[q], x)
  <2>1. CASE x \in now
    BY <2>1 DEF Replaces
  <2>2. CASE x \notin now
    <3>1. x \in Live(heap) \ old
      BY <2>2 DEF Replaces
    <3>2. PICK q \in Handle : pointer[q] # 0 /\ x \in AllocatedHeader(heap, mem, pointer[q])
      BY <3>1 DEF NothingLost, Live
    <3>3. PICK y : Holds(heap, mem, q, pointer[q], y)
      BY <1>1, <3>2
    <3>4. y = x
      BY <3>2, <3>3 DEF Holds, AllocatedHeader
    <3>5. q # p
      BY <3>1, <3>2, <3>3, <3>4 DEF Replaces
    <3>6. Holds(heap', mem', q, pointer'[q], x) /\ pointer'[q] # 0
      BY <1>2, <3>2, <3>3, <3>4, <3>5 DEF Replaces
    <3> QED BY <3>6
  <2> QED BY <2>1, <2>2
<1>6. NothingLost'
  BY <1>5 DEF NothingLost, Holds, Live
<1>7. LaidOut(heap')
  <2>1. ASSUME NEW x \in Live(heap')
        PROVE  heap'.meta[x].offset = Offset(x, heap'.meta[x].alignment)
    <3>1. CASE x \in now
      BY <3>1 DEF Replaces
    <3>2. CASE x \notin now
      <4>1. x \in Live(heap) /\ Same(heap, heap', x)
        BY <3>2 DEF Replaces
      <4> QED BY <4>1 DEF LaidOut, Same
    <3> QED BY <3>1, <3>2
  <2> QED BY <2>1 DEF LaidOut
<1> QED BY <1>4, <1>6, <1>7

LEMMA InitData == Init => DInv
<1> SUFFICES ASSUME Init PROVE DInv
  OBVIOUS
<1>1. Blocks(heap) = {} /\ \A p \in Handle : pointer[p] = 0
  BY DEF Init, Blocks
<1> QED BY <1>1, InitInvariant DEF DInv, LaidOut, Live, DataIntact, NothingLost

LEMMA ZoneSame ==
  ASSUME NEW k, NEW s, NEW x, Same(k, s, x)
  PROVE  Zone(s, x) = Zone(k, x) /\ Object(s, x) = Object(k, x)
BY DEF Same, Zone, After, Object

(* What is written into one block leaves the others alone.                 *)
LEMMA OtherZone ==
  ASSUME NEW k, Whole(k), NEW h \in Blocks(k), NEW x \in Blocks(k), x # h,
         NEW w \in Zone(k, x), NEW m \in Contents
  PROVE  /\ Stamped(k, m)[w] = m[w]
         /\ \A gone : gone \subseteq Zone(k, h) => Dropped(m, gone)[w] = m[w]
         /\ \A object, p : object \subseteq Zone(k, h) => Filled(m, object, p)[w] = m[w]
         /\ h + k.meta[h].offset - 1 \in Zone(k, h) => Prefixed(k, m, h)[w] = m[w]
<1>1. /\ w \in Word /\ Stamped(k, m)[w] = m[w] /\ w \notin Zone(k, h)
  BY ZoneFacts
<1>2. \A gone : gone \subseteq Zone(k, h) => Dropped(m, gone)[w] = m[w]
  BY <1>1 DEF Dropped
<1>3. \A object, p : object \subseteq Zone(k, h) => Filled(m, object, p)[w] = m[w]
  BY <1>1 DEF Filled
<1>4. h + k.meta[h].offset - 1 \in Zone(k, h) => Prefixed(k, m, h)[w] = m[w]
  BY <1>1 DEF Prefixed, Contents
<1> QED BY <1>1, <1>2, <1>3, <1>4

(* The block ag_rt_alloc_block returned, once its prefix is written.       *)
LEMMA NewBlock ==
  ASSUME DInv, NEW size \in Sizes, NEW alignment \in Alignments,
         Fits(size, alignment),
         NEW k, k = Allocated(size, alignment), NEW h, h = Chosen(size, alignment)
  PROVE  /\ Exact(k) /\ Aligned(k, {}) /\ h \in Live(k) /\ h \in Blocks(k)
         /\ h \notin Live(heap) /\ SameBut(heap, k, h)
         /\ k.meta[h].requested = size /\ k.meta[h].alignment = alignment
         /\ k.meta[h].offset = Offset(h, alignment)
         /\ k.meta[h].offset >= HeaderSize + PrefixSize
         /\ k.meta[h].offset + size <= k.meta[h].total
         /\ User(size, alignment) = h + k.meta[h].offset
         /\ User(size, alignment) % alignment = 0
         /\ Object(k, h) \subseteq Zone(k, h)
         /\ h + k.meta[h].offset - 1 \in Zone(k, h)
         /\ h + k.meta[h].offset - 1 \notin Object(k, h)
<1>1. size \in Nat \ {0} /\ alignment \in Nat \ {0}
      /\ HeaderSize \in Nat /\ PrefixSize \in Nat
  BY RequestAssumption, AlignmentFacts, HeapAssumption
<1>2. /\ Exact(k) /\ Aligned(k, {}) /\ h \in Live(k) /\ h \notin Live(heap)
      /\ SameBut(heap, k, h)
      /\ k.meta[h].requested = size /\ k.meta[h].alignment = alignment
      /\ k.meta[h].offset = Offset(h, alignment)
      /\ Offset(h, alignment) + size <= k.meta[h].total
  BY <1>1, AllocatedExact DEF DInv, IInv
<1>3. h \in Blocks(k) /\ h \in Nat
  BY <1>2, BlockFacts DEF Live, Exact
<1>4. Offset(h, alignment) \in Nat /\ Offset(h, alignment) >= HeaderSize + PrefixSize
  BY <1>1, <1>3, Layout
<1>5. User(size, alignment) = h + Offset(h, alignment)
  BY DEF User
<1>6. User(size, alignment) % alignment = 0
  <2>1. h + HeaderSize + PrefixSize \in Nat
    BY <1>1, <1>3
  <2>2. /\ AlignUp(h + HeaderSize + PrefixSize, alignment) % alignment = 0
        /\ AlignUp(h + HeaderSize + PrefixSize, alignment) \in Nat
    BY <1>1, <2>1, AlignUpMultiple, AlignUpBound
  <2>3. h + Offset(h, alignment) = AlignUp(h + HeaderSize + PrefixSize, alignment)
    BY <1>3, <2>2 DEF Offset
  <2> QED BY <1>5, <2>2, <2>3
<1>7. /\ Object(k, h) \subseteq Zone(k, h)
      /\ h + k.meta[h].offset - 1 \in Zone(k, h)
      /\ h + k.meta[h].offset - 1 \notin Object(k, h)
  BY <1>1, <1>2, <1>3, <1>4, ObjectFacts DEF Exact
<1> QED BY <1>2, <1>3, <1>4, <1>5, <1>6, <1>7

LEMMA MallocData ==
  ASSUME DInv, NEW p \in Handle, NEW size \in Sizes, NEW alignment \in Alignments,
         Malloc(p, size, alignment)
  PROVE  LaidOut(heap') /\ DataIntact' /\ NothingLost'
<1> DEFINE k == Allocated(size, alignment)
           h == Chosen(size, alignment)
           stamped == Stamped(k, mem)
           prefixed == Prefixed(k, stamped, h)
<1>1. /\ pointer[p] = 0 /\ Fits(size, alignment) /\ heap' = k
      /\ mem' = Filled(prefixed, Object(k, h), p)
      /\ pointer' = [pointer EXCEPT ![p] = User(size, alignment)]
  BY DEF Malloc
<1>2. /\ Exact(k) /\ Aligned(k, {}) /\ h \in Live(k) /\ h \in Blocks(k)
      /\ h \notin Live(heap) /\ SameBut(heap, k, h)
      /\ k.meta[h].requested = size /\ k.meta[h].alignment = alignment
      /\ k.meta[h].offset = Offset(h, alignment)
      /\ k.meta[h].offset >= HeaderSize + PrefixSize
      /\ k.meta[h].offset + size <= k.meta[h].total
      /\ User(size, alignment) = h + k.meta[h].offset
      /\ User(size, alignment) % alignment = 0
      /\ Object(k, h) \subseteq Zone(k, h)
      /\ h + k.meta[h].offset - 1 \in Zone(k, h)
      /\ h + k.meta[h].offset - 1 \notin Object(k, h)
  BY <1>1, NewBlock
<1> HIDE DEF k, h
<1>3. /\ Whole(heap) /\ Whole(k) /\ DataIntact /\ NothingLost /\ LaidOut(heap)
      /\ mem \in Contents /\ pointer \in [Handle -> Word \cup {0}]
  BY <1>2 DEF DInv, IInv, Exact, TypeOK, Contents
<1>4. stamped \in Contents
  BY <1>3, ContentsKept
<1>5. prefixed \in Contents
  BY <1>2, <1>3, <1>4, BlockFacts, ContentsKept
<1> HIDE DEF stamped
<1>6. /\ mem'[h + k.meta[h].offset - 1] = h
      /\ \A w \in Object(k, h) : mem'[w] = p
  <2>1. /\ h + k.meta[h].offset - 1 \in Word
        /\ Object(k, h) \subseteq Word
    BY <1>2, <1>3, ZoneFacts
  <2>2. prefixed[h + k.meta[h].offset - 1] = h
    BY <1>4, <2>1 DEF Prefixed, Contents
  <2> HIDE DEF prefixed
  <2> QED BY <1>1, <1>2, <2>1, <2>2 DEF Filled
<1>7. ASSUME NEW x \in Live(heap)
      PROVE  Same(heap, k, x) /\ \A w \in Zone(heap, x) : mem'[w] = mem[w]
  <2>1. x # h /\ x \in Blocks(k) /\ Same(heap, k, x)
    BY <1>2 DEF SameBut, Live
  <2>2. ASSUME NEW w \in Zone(k, x)
        PROVE  mem'[w] = mem[w]
    <3>1. stamped[w] = mem[w]
      BY <1>3, <2>1, ZoneFacts DEF stamped
    <3>2. prefixed[w] = stamped[w]
      BY <1>2, <1>3, <1>4, <2>1, OtherZone
    <3> HIDE DEF prefixed
    <3>3. mem'[w] = prefixed[w]
      BY <1>1, <1>2, <1>3, <1>5, <2>1, OtherZone
    <3> QED BY <3>1, <3>2, <3>3
  <2> QED BY <2>1, <2>2, ZoneSame
<1>8. Holds(heap', mem', p, pointer'[p], h)
  <2>1. pointer'[p] = h + k.meta[h].offset
    BY <1>1, <1>2, <1>3
  <2>2. /\ k.meta[h].total \in Nat /\ k.meta[h].offset \in Nat /\ h \in Nat
        /\ size \in Nat \ {0}
    <3>1. k.meta[h] \in Header /\ h \in Nat
      BY <1>2, <1>3, BlockFacts
    <3> QED BY <3>1, RequestAssumption DEF Header
  <2>3. k.meta[h].requested \in 1 .. k.meta[h].total - k.meta[h].offset
    BY <1>2, <2>2
  <2>4. k.meta[h].allocated
    BY <1>2 DEF Live, IsFree
  <2>5. h \in AllocatedHeader(k, mem', pointer'[p])
    <3>1. pointer'[p] - 1 = h + k.meta[h].offset - 1
      BY <2>1, <2>2
    <3>2. mem'[pointer'[p] - 1] = h
      BY <1>6, <3>1
    <3> QED BY <1>2, <2>1, <2>3, <2>4, <3>2 DEF AllocatedHeader
  <2> QED BY <1>1, <1>2, <1>6, <2>1, <2>5 DEF Holds
<1>9. pointer'[p] # 0
  <2>1. k.meta[h].offset \in Nat /\ h \in Nat /\ h # 0
    BY <1>2, <1>3, BlockFacts, HeapAssumption DEF Header
  <2> QED BY <1>1, <1>2, <1>3, <2>1
<1>10. \A q \in Handle : q # p => pointer'[q] = pointer[q]
  BY <1>1, <1>3
<1>11. /\ Live(heap') \ {h} \subseteq Live(heap) \ {}
       /\ Live(heap) \ {} \subseteq Live(heap')
  BY <1>1, <1>2 DEF SameBut
<1>12. /\ \A x : pointer[p] # 0 /\ Holds(heap, mem, p, pointer[p], x) => x \in {}
       /\ \A x \in {} : pointer[p] # 0 /\ Holds(heap, mem, p, pointer[p], x)
       /\ \A x \in {h} : /\ pointer'[p] # 0 /\ Holds(heap', mem', p, pointer'[p], x)
                        /\ heap'.meta[x].offset = Offset(x, heap'.meta[x].alignment)
       /\ pointer'[p] # 0 => {h} # {}
  BY <1>1, <1>2, <1>8, <1>9
<1>13. \A x \in Live(heap) \ {} :
         Same(heap, heap', x) /\ \A w \in Zone(heap, x) : mem'[w] = mem[w]
  BY <1>1, <1>7
<1>14. Replaces(p, {}, {h})
  BY <1>10, <1>11, <1>12, <1>13 DEF Replaces
<1> QED BY <1>3, <1>14, OthersKept
(* The block of a pointer the program may pass to free or realloc.         *)
LEMMA PointerHolds ==
  ASSUME DInv, NEW p \in Handle, pointer[p] # 0,
         NEW h \in AllocatedHeader(heap, mem, pointer[p])
  PROVE  /\ Holds(heap, mem, p, pointer[p], h)
         /\ \A x : Holds(heap, mem, p, pointer[p], x) => x = h
         /\ h \in Live(heap) /\ h \in Blocks(heap)
         /\ heap.meta[h].alignment \in Alignments
         /\ heap.meta[h].offset = Offset(h, heap.meta[h].alignment)
         /\ Whole(heap) /\ mem \in Contents /\ pointer \in [Handle -> Word \cup {0}]
         /\ Exact(heap) /\ Aligned(heap, {})
<1>1. PICK y : Holds(heap, mem, p, pointer[p], y)
  BY DEF DInv, DataIntact, Holds
<1>2. y = h
  BY <1>1 DEF Holds, AllocatedHeader
<1>3. \A x : Holds(heap, mem, p, pointer[p], x) => x = h
  BY DEF Holds, AllocatedHeader
<1>4. h \in Live(heap) /\ h \in Blocks(heap)
  BY DEF AllocatedHeader, Live, IsFree
<1>5. heap.meta[h].offset = Offset(h, heap.meta[h].alignment)
  BY <1>4 DEF DInv, LaidOut
<1>6. /\ Whole(heap) /\ mem \in Contents /\ pointer \in [Handle -> Word \cup {0}]
      /\ Exact(heap) /\ Aligned(heap, {})
  BY DEF DInv, IInv, Exact, TypeOK, Contents
<1>7. heap.meta[h].alignment \in Alignments
  BY <1>4, <1>6 DEF Aligned, Live
<1> QED BY <1>1, <1>2, <1>3, <1>4, <1>5, <1>6, <1>7

LEMMA FreeData ==
  ASSUME DInv, NEW p \in Handle, Free(p)
  PROVE  LaidOut(heap') /\ DataIntact' /\ NothingLost'
<1>1. PICK h \in AllocatedHeader(heap, mem, pointer[p]) :
        /\ heap' = Released(heap, h)
        /\ mem' = Stamped(heap', Dropped(mem, Object(heap, h) \cup {pointer[p] - 1}))
  BY DEF Free
<1>2. pointer[p] # 0 /\ pointer' = [pointer EXCEPT ![p] = 0]
  BY DEF Free
<1> DEFINE gone == Object(heap, h) \cup {pointer[p] - 1}
           dropped == Dropped(mem, gone)
<1>3. /\ Holds(heap, mem, p, pointer[p], h)
      /\ \A x : Holds(heap, mem, p, pointer[p], x) => x = h
      /\ h \in Live(heap) /\ h \in Blocks(heap)
      /\ Whole(heap) /\ mem \in Contents /\ pointer \in [Handle -> Word \cup {0}]
      /\ Exact(heap) /\ Aligned(heap, {h})
  BY <1>2, PointerHolds DEF Aligned
<1>4. gone \subseteq Zone(heap, h)
  BY <1>3, HoldsFacts
<1>5. /\ Whole(heap') /\ SameBut(heap, heap', h) /\ h \notin Live(heap')
  BY <1>1, <1>3, ReleasedExact DEF Exact
<1> HIDE DEF gone
<1>6. ASSUME NEW x \in Live(heap) \ {h}
      PROVE  Same(heap, heap', x) /\ \A w \in Zone(heap, x) : mem'[w] = mem[w]
  <2>1. x \in Blocks(heap) /\ x \in Blocks(heap') /\ Same(heap, heap', x)
    BY <1>5 DEF SameBut, Live
  <2>2. ASSUME NEW w \in Zone(heap, x)
        PROVE  mem'[w] = mem[w]
    <3>1. dropped[w] = mem[w]
      BY <1>3, <1>4, <2>1, OtherZone
    <3>2. w \in Zone(heap', x)
      BY <2>1, ZoneSame
    <3>3. Stamped(heap', dropped)[w] = dropped[w]
      BY <1>5, <2>1, <3>2, ZoneFacts
    <3> QED BY <1>1, <3>1, <3>3 DEF gone
  <2> QED BY <2>1, <2>2
<1>7. pointer'[p] = 0 /\ \A q \in Handle : q # p => pointer'[q] = pointer[q]
  BY <1>2, <1>3
<1>8. /\ Live(heap') \ {} \subseteq Live(heap) \ {h}
      /\ Live(heap) \ {h} \subseteq Live(heap')
  BY <1>5 DEF SameBut
<1>9. Replaces(p, {h}, {})
  BY <1>2, <1>3, <1>6, <1>7, <1>8 DEF Replaces
<1> QED BY <1>3, <1>9, OthersKept DEF DInv

(* A block that was resized where it is holds what the old and the new     *)
(* object share, and the mark in what is new.                              *)
LEMMA ResizedData ==
  ASSUME DInv, NEW p \in Handle, pointer[p] # 0, pointer' = pointer,
         NEW h \in AllocatedHeader(heap, mem, pointer[p]), NEW size \in Sizes,
         Whole(heap'), SameBut(heap, heap', h), h \in Live(heap'),
         heap'.meta[h].total >= Required(h, size),
         heap'.meta[h].requested = size,
         heap'.meta[h].offset = heap.meta[h].offset,
         heap'.meta[h].alignment = heap.meta[h].alignment,
         NEW m \in Contents,
         mem' = Filled(m, Object(heap', h) \ Object(heap, h), p),
         \A x \in Live(heap') : \A w \in Zone(heap', x) :
           x # h \/ w \notin Object(heap, h) \ Object(heap', h) => m[w] = mem[w]
  PROVE  LaidOut(heap') /\ DataIntact' /\ NothingLost'
<1> DEFINE a == heap.meta[h].alignment
           new == Object(heap', h) \ Object(heap, h)
           gone == Object(heap, h) \ Object(heap', h)
<1>1. /\ Holds(heap, mem, p, pointer[p], h)
      /\ \A x : Holds(heap, mem, p, pointer[p], x) => x = h
      /\ h \in Live(heap) /\ h \in Blocks(heap) /\ a \in Alignments
      /\ heap.meta[h].offset = Offset(h, a)
      /\ Whole(heap) /\ mem \in Contents /\ pointer \in [Handle -> Word \cup {0}]
  BY PointerHolds
<1>2. /\ mem[pointer[p] - 1] = h /\ pointer[p] = h + heap.meta[h].offset
      /\ heap.meta[h].offset >= HeaderSize + PrefixSize
      /\ \A w \in Object(heap, h) : mem[w] = p
      /\ pointer[p] % a = 0
      /\ pointer[p] - 1 \notin Object(heap, h)
  <2>1. /\ mem[pointer[p] - 1] = h /\ pointer[p] = h + heap.meta[h].offset
        /\ heap.meta[h].offset >= HeaderSize + PrefixSize
        /\ pointer[p] - 1 \notin Object(heap, h)
    BY <1>1, HoldsFacts
  <2>2. pointer[p] % a = 0 /\ \A w \in Object(heap, h) : mem[w] = p
    BY <1>1 DEF Holds
  <2> QED BY <2>1, <2>2
<1>3. /\ size \in Nat \ {0} /\ h \in Nat /\ h # 0 /\ a \in Nat \ {0} /\ a >= Unit
      /\ h \in Blocks(heap') /\ heap'.meta[h] \in Header
      /\ heap'.meta[h].total \in Nat /\ heap'.meta[h].offset \in Nat
  <2>1. h \in Blocks(heap')
    BY DEF Live
  <2>2. heap'.meta[h] \in Header /\ h \in Nat /\ h >= Base
    BY <2>1, BlockFacts
  <2> QED BY <1>1, <2>1, <2>2, AlignmentFacts, RequestAssumption, HeapAssumption DEF Header
<1>4. heap'.meta[h].offset + size <= heap'.meta[h].total
  <2>1. Required(h, size) = Needed(h, size, a)
    BY <1>3 DEF Required
  <2>2. Needed(h, size, a) >= Offset(h, a) + size /\ Needed(h, size, a) \in Nat
    BY <1>3, Layout
  <2> HIDE DEF a
  <2> QED BY <1>1, <1>3, <2>1, <2>2
<1> HIDE DEF a
<1>5. /\ Object(heap', h) \subseteq Zone(heap', h)
      /\ h + heap'.meta[h].offset - 1 \in Zone(heap', h)
      /\ h + heap'.meta[h].offset - 1 \notin Object(heap', h)
  BY <1>2, <1>3, <1>4, ObjectFacts
<1>6. pointer[p] - 1 = h + heap'.meta[h].offset - 1
  <2>1. pointer[p] = h + heap'.meta[h].offset
    BY <1>2
  <2> QED BY <1>3, <2>1
<1>7. ASSUME NEW x \in Live(heap'), NEW w \in Zone(heap', x), w \notin new,
             x # h \/ w \notin gone
      PROVE  mem'[w] = mem[w]
  <2>1. w \in Word
    BY ZoneFacts DEF Live
  <2>2. m[w] = mem[w]
    BY <1>7
  <2> QED BY <1>7, <2>1, <2>2 DEF Filled
<1>8. mem'[pointer[p] - 1] = h
  <2>1. pointer[p] - 1 \in Zone(heap', h)
    BY <1>5, <1>6
  <2>2. pointer[p] - 1 \notin new /\ pointer[p] - 1 \notin gone
    BY <1>2, <1>5, <1>6
  <2> QED BY <1>2, <1>7, <2>1, <2>2
<1>9. ASSUME NEW w \in Object(heap', h)
      PROVE  mem'[w] = p
  <2>1. w \in Zone(heap', h) /\ w \in Word
    BY <1>3, <1>5, ZoneFacts
  <2>2. CASE w \in Object(heap, h)
    BY <1>2, <1>7, <1>9, <2>1, <2>2
  <2>3. CASE w \notin Object(heap, h)
    BY <1>9, <2>1, <2>3 DEF Filled
  <2> QED BY <2>2, <2>3
<1>10. Holds(heap', mem', p, pointer'[p], h)
  <2>1. heap'.meta[h].requested \in 1 .. heap'.meta[h].total - heap'.meta[h].offset
    BY <1>3, <1>4
  <2>2. h \in AllocatedHeader(heap', mem', pointer'[p])
    BY <1>2, <1>3, <1>8, <2>1 DEF AllocatedHeader, Live, IsFree
  <2> QED BY <1>2, <1>9, <2>2 DEF Holds, a
<1>11. ASSUME NEW x \in Live(heap) \ {h}
       PROVE  Same(heap, heap', x) /\ \A w \in Zone(heap, x) : mem'[w] = mem[w]
  <2>1. x \in Live(heap') /\ x \in Blocks(heap') /\ x # h /\ Same(heap, heap', x)
    BY DEF SameBut, Live
  <2>2. ASSUME NEW w \in Zone(heap, x)
        PROVE  mem'[w] = mem[w]
    <3>1. w \in Zone(heap', x)
      BY <2>1, ZoneSame
    <3>2. w \notin new
      BY <1>3, <1>5, <2>1, <3>1, ZoneFacts
    <3> QED BY <1>7, <2>1, <3>1, <3>2
  <2> QED BY <2>1, <2>2
<1>12. /\ Live(heap') \ {h} \subseteq Live(heap) \ {h}
       /\ Live(heap) \ {h} \subseteq Live(heap')
  BY DEF SameBut
<1>13. heap'.meta[h].offset = Offset(h, heap'.meta[h].alignment)
  BY <1>1 DEF a
<1>14. Replaces(p, {h}, {h})
  BY <1>1, <1>10, <1>11, <1>12, <1>13 DEF Replaces
<1> QED BY <1>1, <1>14, OthersKept DEF DInv

LEMMA ReallocInPlaceData ==
  ASSUME DInv, NEW p \in Handle, NEW size \in Sizes, ReallocInPlace(p, size)
  PROVE  LaidOut(heap') /\ DataIntact' /\ NothingLost'
<1>1. pointer[p] # 0 /\ pointer' = pointer
  BY DEF ReallocInPlace
<1>2. PICK h \in AllocatedHeader(heap, mem, pointer[p]) :
        /\ Required(h, size) <= heap.meta[h].total
        /\ heap' = SplitAllocated(Resized(heap, h, size), h, Required(h, size))
        /\ mem' = Filled(Stamped(heap', Dropped(mem, Object(heap, h) \ Object(heap', h))),
                         Object(heap', h) \ Object(heap, h), p)
  BY DEF ReallocInPlace
<1> DEFINE gone == Object(heap, h) \ Object(heap', h)
           m == Stamped(heap', Dropped(mem, gone))
<1>3. /\ h \in Blocks(heap) /\ ~IsFree(heap, h) /\ h \in Live(heap)
      /\ Whole(heap) /\ mem \in Contents /\ IInv
      /\ Object(heap, h) \subseteq Zone(heap, h)
  BY <1>1, PointerHolds, HoldsFacts DEF Live, DInv
<1>4. /\ Exact(heap') /\ SameBut(heap, heap', h) /\ h \in Live(heap')
      /\ heap'.meta[h].total >= Required(h, size)
      /\ heap'.meta[h].requested = size
      /\ heap'.meta[h].offset = heap.meta[h].offset
      /\ heap'.meta[h].alignment = heap.meta[h].alignment
  BY <1>2, <1>3, InPlaceExact
<1>5. Whole(heap')
  BY <1>4 DEF Exact
<1>6. Dropped(mem, gone) \in Contents /\ m \in Contents
  BY <1>3, ContentsKept
<1>7. ASSUME NEW x \in Live(heap'), NEW w \in Zone(heap', x), x # h \/ w \notin gone
      PROVE  m[w] = mem[w]
  <2>1. x \in Blocks(heap') /\ w \in Word /\ m[w] = Dropped(mem, gone)[w]
    BY <1>5, ZoneFacts DEF Live
  <2>2. w \notin gone
    <3>1. CASE x # h
      <4>1. x \in Live(heap) /\ x \in Blocks(heap) /\ Same(heap, heap', x)
        BY <1>4, <3>1 DEF SameBut, Live
      <4>2. w \in Zone(heap, x)
        BY <4>1, ZoneSame
      <4> QED BY <1>3, <3>1, <4>1, <4>2, ZoneFacts
    <3> QED BY <1>7, <3>1
  <2> HIDE DEF gone
  <2> QED BY <2>1, <2>2 DEF Dropped
<1>8. mem' = Filled(m, Object(heap', h) \ Object(heap, h), p)
  BY <1>2
<1>9. \A x \in Live(heap') : \A w \in Zone(heap', x) :
        x # h \/ w \notin Object(heap, h) \ Object(heap', h) => m[w] = mem[w]
  BY <1>7
<1> HIDE DEF m, gone
<1> QED BY <1>1, <1>4, <1>5, <1>6, <1>8, <1>9, ResizedData

LEMMA ReallocAtTopData ==
  ASSUME DInv, NEW p \in Handle, NEW size \in Sizes, ReallocAtTop(p, size)
  PROVE  LaidOut(heap') /\ DataIntact' /\ NothingLost'
<1>1. pointer[p] # 0 /\ pointer' = pointer
  BY DEF ReallocAtTop
<1>2. PICK h \in AllocatedHeader(heap, mem, pointer[p]) :
        /\ Required(h, size) > heap.meta[h].total
        /\ AtTop(h, size)
        /\ heap' = [heap EXCEPT !.meta[h].total = Required(h, size),
                                !.meta[h].requested = size,
                                !.top = h + Required(h, size)]
        /\ mem' = Filled(mem, Object(heap', h) \ Object(heap, h), p)
  BY DEF ReallocAtTop
<1>3. /\ h \in Blocks(heap) /\ ~IsFree(heap, h) /\ mem \in Contents /\ IInv
  BY <1>1, PointerHolds DEF Live, DInv
<1>4. /\ Exact(heap') /\ SameBut(heap, heap', h) /\ h \in Live(heap')
      /\ heap'.meta[h].total = Required(h, size)
      /\ heap'.meta[h].requested = size
      /\ heap'.meta[h].offset = heap.meta[h].offset
      /\ heap'.meta[h].alignment = heap.meta[h].alignment
  <2>1. heap' = Raised(h, size)
    BY <1>2 DEF Raised
  <2>2. Required(h, size) > heap.meta[h].total /\ AtTop(h, size)
    BY <1>2
  <2> QED BY <1>3, <2>1, <2>2, AtTopExact
<1>5. heap'.meta[h].total >= Required(h, size)
  BY <1>3, <1>4, RequiredSize
<1>6. Whole(heap')
  BY <1>4 DEF Exact
<1>7. mem' = Filled(mem, Object(heap', h) \ Object(heap, h), p)
  BY <1>2
<1> QED BY <1>1, <1>3, <1>4, <1>5, <1>6, <1>7, ResizedData
(* realloc by moving: the copy is read before the old block is given back. *)
LEMMA ReallocMoveData ==
  ASSUME DInv, NEW p \in Handle, NEW size \in Sizes, ReallocMove(p, size)
  PROVE  LaidOut(heap') /\ DataIntact' /\ NothingLost'
<1>1. pointer[p] # 0
  BY DEF ReallocMove
<1>2. PICK h \in AllocatedHeader(heap, mem, pointer[p]) :
        LET a == heap.meta[h].alignment
            k == Allocated(size, a)
            n == Chosen(size, a)
            to == User(size, a)
            copied == CopySize(heap.meta[h].requested, size)
            moved == Copied(Prefixed(k, Stamped(k, mem), n), pointer[p], to, copied)
        IN /\ Fits(size, a)
           /\ heap' = Released(k, h)
           /\ mem' = Filled(Stamped(heap', Dropped(moved, Object(heap, h)
                                                    \cup {pointer[p] - 1})),
                            to + copied .. to + size - 1, p)
           /\ pointer' = [pointer EXCEPT ![p] = to]
  BY DEF ReallocMove
<1> DEFINE a == heap.meta[h].alignment
           k == Allocated(size, a)
           n == Chosen(size, a)
           to == User(size, a)
           copied == CopySize(heap.meta[h].requested, size)
           stamped == Stamped(k, mem)
           prefixed == Prefixed(k, stamped, n)
           moved == Copied(prefixed, pointer[p], to, copied)
           gone == Object(heap, h) \cup {pointer[p] - 1}
           dropped == Dropped(moved, gone)
           left == Stamped(heap', dropped)
           new == to + copied .. to + size - 1
<1>3. /\ Fits(size, a) /\ heap' = Released(k, h)
      /\ mem' = Filled(left, new, p)
      /\ pointer' = [pointer EXCEPT ![p] = to]
  BY <1>2
<1> HIDE DEF left, new
<1>4. /\ Holds(heap, mem, p, pointer[p], h)
      /\ \A x : Holds(heap, mem, p, pointer[p], x) => x = h
      /\ h \in Live(heap) /\ h \in Blocks(heap) /\ a \in Alignments
      /\ Whole(heap) /\ mem \in Contents /\ pointer \in [Handle -> Word \cup {0}]
  BY <1>1, PointerHolds
<1>5. /\ pointer[p] = h + heap.meta[h].offset /\ pointer[p] - 1 \in Zone(heap, h)
      /\ Object(heap, h) \subseteq Zone(heap, h)
      /\ heap.meta[h].requested \in Nat \ {0}
  BY <1>4, HoldsFacts
<1> HIDE DEF a
<1>6. /\ Exact(k) /\ Aligned(k, {}) /\ n \in Live(k) /\ n \in Blocks(k)
      /\ n \notin Live(heap) /\ SameBut(heap, k, n)
      /\ k.meta[n].requested = size /\ k.meta[n].alignment = a
      /\ k.meta[n].offset = Offset(n, a)
      /\ k.meta[n].offset >= HeaderSize + PrefixSize
      /\ k.meta[n].offset + size <= k.meta[n].total
      /\ to = n + k.meta[n].offset
      /\ to % a = 0
      /\ Object(k, n) \subseteq Zone(k, n)
      /\ n + k.meta[n].offset - 1 \in Zone(k, n)
      /\ n + k.meta[n].offset - 1 \notin Object(k, n)
  BY <1>3, <1>4, NewBlock
<1> HIDE DEF k, n, to
<1>7. Whole(k) /\ h # n /\ h \in Live(k) /\ h \in Blocks(k) /\ Same(heap, k, h)
  BY <1>4, <1>6 DEF SameBut, Live, Exact
<1>8. /\ Whole(heap') /\ SameBut(k, heap', h) /\ h \notin Live(heap')
      /\ n \in Live(heap') /\ n \in Blocks(heap') /\ Same(k, heap', n)
  <2>1. Aligned(k, {h})
    BY <1>6 DEF Aligned
  <2>2. Exact(heap') /\ SameBut(k, heap', h) /\ h \notin Live(heap')
    BY <1>3, <1>6, <1>7, <2>1, ReleasedExact
  <2> QED BY <1>6, <1>7, <2>2 DEF Exact, SameBut, Live
<1>9. gone \subseteq Zone(k, h)
  BY <1>5, <1>7, ZoneSame
<1> HIDE DEF gone
<1>10. /\ n \in Nat /\ n # 0 /\ k.meta[n] \in Header /\ k.meta[n].offset \in Nat
       /\ k.meta[n].total \in Nat /\ size \in Nat \ {0} /\ to \in Nat /\ to # 0
       /\ heap.meta[h].offset \in Nat /\ h \in Nat /\ pointer[p] \in Nat
  <2>1. /\ n \in Nat /\ n >= Base /\ k.meta[n] \in Header
        /\ h \in Nat /\ heap.meta[h] \in Header
    BY <1>4, <1>6, <1>7, BlockFacts
  <2>2. k.meta[n].offset \in Nat /\ k.meta[n].total \in Nat /\ heap.meta[h].offset \in Nat
    BY <2>1 DEF Header
  <2> QED BY <1>5, <1>6, <2>1, <2>2, HeapAssumption, RequestAssumption
<1>11. /\ copied \in Nat /\ copied <= size /\ copied <= heap.meta[h].requested
  BY <1>5, <1>10 DEF CopySize
<1> HIDE DEF copied
<1>12. Object(k, n) = to .. to + size - 1
  BY <1>6, <1>10 DEF Object
<1>13. stamped \in Contents /\ prefixed \in Contents
  <2>1. stamped \in Contents /\ n \in Word
    BY <1>4, <1>6, <1>7, BlockFacts, ContentsKept
  <2> QED BY <2>1, ContentsKept
<1>14. \A x \in Blocks(k) \ {n} : \A w \in Zone(k, x) : prefixed[w] = mem[w]
  <2>1. ASSUME NEW x \in Blocks(k) \ {n}, NEW w \in Zone(k, x)
        PROVE  prefixed[w] = mem[w]
    <3>1. stamped[w] = mem[w]
      BY <1>7, ZoneFacts
    <3> HIDE DEF stamped
    <3>2. prefixed[w] = stamped[w]
      BY <1>6, <1>7, <1>13, OtherZone
    <3> QED BY <3>1, <3>2
  <2> QED BY <2>1
<1>15. prefixed[to - 1] = n
  <2>1. n + k.meta[n].offset - 1 \in Word
    BY <1>6, <1>7, ZoneFacts
  <2> HIDE DEF stamped
  <2>2. prefixed[n + k.meta[n].offset - 1] = n
    BY <1>13, <2>1 DEF Prefixed, Contents
  <2> QED BY <1>6, <1>10, <2>2
<1> HIDE DEF prefixed, stamped
<1>16. ASSUME NEW x \in Live(heap'), NEW w \in Zone(heap', x)
       PROVE  /\ x # h /\ x \in Blocks(k) /\ w \in Zone(k, x) /\ w \in Word
              /\ w \notin new => mem'[w] = moved[w]
  <2>1. x # h /\ x \in Live(k) /\ x \in Blocks(k) /\ x \in Blocks(heap')
        /\ Same(k, heap', x)
    BY <1>8 DEF SameBut, Live
  <2>2. w \in Zone(k, x)
    BY <2>1, ZoneSame
  <2>3. w \notin gone
    BY <1>7, <1>9, <2>1, <2>2, ZoneFacts
  <2>4. w \in Word /\ left[w] = dropped[w]
    BY <1>8, <2>1, ZoneFacts DEF left
  <2> HIDE DEF moved
  <2>5. dropped[w] = moved[w]
    BY <2>3, <2>4 DEF Dropped
  <2> HIDE DEF dropped
  <2> QED BY <1>3, <2>1, <2>2, <2>4, <2>5 DEF Filled
<1>17. ASSUME NEW x \in Live(heap'), NEW w \in Zone(heap', x), w \notin Object(k, n)
       PROVE  mem'[w] = prefixed[w]
  <2>1. w \in Word /\ (w \notin new => mem'[w] = moved[w])
    BY <1>16
  <2>2. w \notin new /\ w \notin to .. to + copied - 1
    BY <1>10, <1>11, <1>12, <1>17 DEF new
  <2> QED BY <2>1, <2>2 DEF Copied
<1>18. ASSUME NEW w \in Object(k, n)
       PROVE  mem'[w] = p
  <2>1. w \in Zone(heap', n) /\ w \in Word
    BY <1>6, <1>7, <1>8, ZoneSame, ZoneFacts
  <2>2. CASE w \in new
    BY <1>3, <2>1, <2>2 DEF Filled
  <2>3. CASE w \notin new
    <3>1. w \in to .. to + copied - 1
      BY <1>10, <1>11, <1>12, <2>3 DEF new
    <3>2. mem'[w] = moved[w]
      BY <1>8, <1>16, <2>1, <2>3
    <3>3. moved[w] = prefixed[pointer[p] + w - to]
      BY <2>1, <3>1 DEF Copied
    <3>4. pointer[p] + w - to \in Object(heap, h)
      BY <1>5, <1>10, <1>11, <3>1 DEF Object
    <3>5. /\ mem[pointer[p] + w - to] = p
          /\ pointer[p] + w - to \in Zone(k, h)
      BY <1>4, <1>5, <1>7, <3>4, ZoneSame DEF Holds
    <3>6. prefixed[pointer[p] + w - to] = mem[pointer[p] + w - to]
      BY <1>7, <1>14, <3>5
    <3> QED BY <3>2, <3>3, <3>5, <3>6
  <2> QED BY <2>2, <2>3
<1> HIDE DEF moved, dropped
<1>19. mem'[to - 1] = n
  <2>1. to - 1 = n + k.meta[n].offset - 1
    BY <1>6, <1>10
  <2>2. to - 1 \in Zone(heap', n) /\ to - 1 \notin Object(k, n)
    BY <1>6, <1>8, <2>1, ZoneSame
  <2> QED BY <1>8, <1>15, <1>17, <2>2
<1>20. pointer'[p] = to /\ \A q \in Handle : q # p => pointer'[q] = pointer[q]
  BY <1>3, <1>4
<1>21. /\ heap'.meta[n].requested = size /\ heap'.meta[n].offset = k.meta[n].offset
       /\ heap'.meta[n].total = k.meta[n].total /\ heap'.meta[n].alignment = a
       /\ Object(heap', n) = Object(k, n)
  BY <1>6, <1>8, ZoneSame DEF Same
<1>22. Holds(heap', mem', p, pointer'[p], n)
  <2>1. heap'.meta[n].requested \in 1 .. heap'.meta[n].total - heap'.meta[n].offset
    BY <1>6, <1>10, <1>21
  <2>2. n \in AllocatedHeader(heap', mem', pointer'[p])
    BY <1>6, <1>8, <1>19, <1>20, <1>21, <2>1 DEF AllocatedHeader, Live, IsFree
  <2> QED BY <1>6, <1>18, <1>20, <1>21, <2>2 DEF Holds
<1>23. ASSUME NEW x \in Live(heap) \ {h}
       PROVE  Same(heap, heap', x) /\ \A w \in Zone(heap, x) : mem'[w] = mem[w]
  <2>1. x # n /\ x \in Live(k) /\ Same(heap, k, x)
    BY <1>6 DEF SameBut
  <2>2. x \in Live(heap') /\ Same(k, heap', x) /\ x \in Blocks(k)
    BY <1>8, <2>1 DEF SameBut, Live
  <2>3. Same(heap, heap', x)
    BY <2>1, <2>2 DEF Same
  <2>4. ASSUME NEW w \in Zone(heap, x)
        PROVE  mem'[w] = mem[w]
    <3>1. w \in Zone(k, x) /\ w \in Zone(heap', x)
      BY <2>1, <2>3, ZoneSame
    <3>2. w \notin Object(k, n)
      BY <1>6, <1>7, <2>1, <2>2, <3>1, ZoneFacts
    <3>3. mem'[w] = prefixed[w]
      BY <1>17, <2>2, <3>1, <3>2
    <3> QED BY <1>14, <2>1, <2>2, <3>1, <3>3
  <2> QED BY <2>3, <2>4
<1>24. /\ Live(heap') \ {n} \subseteq Live(heap) \ {h}
       /\ Live(heap) \ {h} \subseteq Live(heap')
  BY <1>6, <1>8 DEF SameBut
<1>25. heap'.meta[n].offset = Offset(n, heap'.meta[n].alignment)
  BY <1>6, <1>21
<1>26. Replaces(p, {h}, {n})
  BY <1>1, <1>4, <1>10, <1>20, <1>22, <1>23, <1>24, <1>25 DEF Replaces
<1> QED BY <1>4, <1>26, OthersKept DEF DInv

LEMMA NextData == DInv /\ [Next]_vars => DInv'
<1> SUFFICES ASSUME DInv, [Next]_vars PROVE DInv'
  OBVIOUS
<1>1. IInv'
  BY NextInvariant DEF DInv
<1>2. CASE UNCHANGED vars
  <2>1. heap' = heap /\ mem' = mem /\ pointer' = pointer
    BY <1>2 DEF vars
  <2>2. LaidOut(heap')
    BY <2>1 DEF DInv
  <2>3. DataIntact'
    BY <2>1 DEF DInv, DataIntact
  <2>4. NothingLost'
    BY <2>1 DEF DInv, NothingLost
  <2> QED BY <1>1, <2>2, <2>3, <2>4 DEF DInv
<1>3. CASE Next
  <2>1. PICK p \in Handle :
          \/ Free(p)
          \/ \E size \in Sizes :
               \/ \E alignment \in Alignments : Malloc(p, size, alignment)
               \/ ReallocInPlace(p, size)
               \/ ReallocAtTop(p, size)
               \/ ReallocMove(p, size)
    BY <1>3 DEF Next
  <2>2. LaidOut(heap') /\ DataIntact' /\ NothingLost'
    BY <2>1, FreeData, MallocData, ReallocInPlaceData, ReallocAtTopData,
       ReallocMoveData
  <2> QED BY <1>1, <2>2 DEF DInv
<1> QED BY <1>2, <1>3

(* What the program wrote into an object is there until it frees it,       *)
(* through its own calls of realloc and through all calls of the others.   *)
THEOREM ObjectsStayIntact == Spec => []DataIntact
<1>1. DInv => DataIntact
  BY DEF DInv
<1> QED BY <1>1, InitData, NextData, PTL DEF Spec

(* Every allocated block is one the program can still free.                *)
THEOREM NoBlockIsLost == Spec => []NothingLost
<1>1. DInv => NothingLost
  BY DEF DInv
<1> QED BY <1>1, InitData, NextData, PTL DEF Spec
=============================================================================

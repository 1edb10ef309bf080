--------------------------- MODULE Surfaces_proofs --------------------------
(***************************************************************************)
(* What a client's queue keeps to for any number of items, any sizes of    *)
(* pages and any number of events.                                         *)
(***************************************************************************)
EXTENDS Surfaces, FiniteSetTheorems, WellFoundedInduction, TLAPS

-----------------------------------------------------------------------------
(* Going along a sequence.                                                  *)

SubsetsOf(B, S) == B # {} /\ \A x \in B : x \subseteq S

HasSmallest(B) == \E x \in B : \A y \in B : ~(y \subseteq x /\ y # x)

\* Of some subsets of a finite set, one has none of the others within it.
LEMMA SmallestSubset ==
  ASSUME NEW S, IsFiniteSet(S), NEW B, SubsetsOf(B, S)
  PROVE  HasSmallest(B)
<1> DEFINE R == StrictSubsetOrdering(S)
           P == SUBSET S
<1>1. IsWellFoundedOn(R, P)
  BY FS_StrictSubsetOrderingWellFounded, FS_FiniteSubsetsOfFinite
<1>2. B \subseteq P /\ B # {}
  BY DEF SubsetsOf
<1>3. \A x, y \in B : y \subseteq x /\ y # x => <<y, x>> \in R
  BY DEF StrictSubsetOrdering, SubsetsOf
<1> HIDE DEF R, P
<1>4. \E x \in B : \A y \in B : ~(<<y, x>> \in R)
  BY <1>1, <1>2, WFMin
<1> QED
  BY <1>3, <1>4 DEF HasSmallest

\* The last of finitely many numbers.
LEMMA LastOf ==
  ASSUME NEW S \in SUBSET Nat, IsFiniteSet(S), NEW T \in SUBSET S, T # {}
  PROVE  \E m \in T : \A k \in T : k <= m
<1> DEFINE Beyond(i) == {k \in S : k > i}
           B == {Beyond(i) : i \in T}
<1>1. SubsetsOf(B, S)
  BY DEF SubsetsOf
<1>2. \A i \in T : Beyond(i) \in B
  OBVIOUS
<1> HIDE DEF B
<1>3. PICK x \in B : \A y \in B : ~(y \subseteq x /\ y # x)
  BY <1>1, SmallestSubset DEF HasSmallest
<1>4. PICK m \in T : x = Beyond(m)
  BY DEF B
<1>5. ASSUME NEW k \in T, ~(k <= m) PROVE FALSE
  <2>1. k \in Nat /\ m \in Nat /\ m < k /\ k \in S
    BY <1>5
  <2>2. \A l \in S : l > k => l > m
    BY <2>1
  <2>3. k \in Beyond(m) /\ k \notin Beyond(k)
    BY <2>1
  <2>4. Beyond(k) \subseteq Beyond(m)
    BY <2>2
  <2> QED
    BY <1>2, <1>3, <1>4, <2>3, <2>4
<1> QED
  BY <1>5

\* What holds to begin with and lasts from each step to the next holds at the end.
LEMMA Along ==
  ASSUME NEW len \in Nat, NEW f, NEW G, f[0] \in G[0],
         \A n \in 1..len : f[n - 1] \in G[n - 1] => f[n] \in G[n]
  PROVE  \A n \in 0..len : f[n] \in G[n]
<1> DEFINE Good == {n \in 0..len : \A m \in 0..n : f[m] \in G[m]}
<1>1. 0 \in Good /\ Good \subseteq 0..len /\ 0..len \subseteq Nat
  OBVIOUS
<1>2. PICK m \in Good : \A k \in Good : k <= m
  <2>1. IsFiniteSet(0..len)
    BY FS_Interval
  <2> HIDE DEF Good
  <2> QED
    BY <1>1, <2>1, LastOf
<1>3. m = len
  <2>1. SUFFICES ASSUME m # len PROVE FALSE
    OBVIOUS
  <2>2. m + 1 \in 1..len /\ (m + 1) - 1 = m
    BY <1>2, <2>1
  <2>3. f[m + 1] \in G[m + 1]
    BY <1>2, <2>2
  <2>4. m + 1 \in Good
    BY <1>2, <2>2, <2>3
  <2> QED
    BY <1>2, <2>4
<1> QED
  BY <1>2, <1>3

\* A step at a time from a beginning.
Stepwise(f, len, first, step) ==
    f[0] = first /\ \A n \in 1..len : f[n] = step[n][f[n - 1]]

\* A step that stays in a set leads along one.
LEMMA Path ==
  ASSUME NEW len \in Nat, NEW S, NEW first \in S, NEW step \in [1..len -> [S -> S]]
  PROVE  \E f \in [0..len -> S] : Stepwise(f, len, first, step)
<1> DEFINE Ways(n) == {f \in [0..n -> S] : f[0] = first /\ \A m \in 1..n : f[m] = step[m][f[m - 1]]}
           Good == {n \in 0..len : Ways(n) # {}}
<1>1. 0 \in Good
  <2> DEFINE one == [n \in 0..0 |-> first]
  <2>1. one \in [0..0 -> S] /\ one[0] = first /\ 1..0 = {}
    OBVIOUS
  <2>2. one \in Ways(0)
    BY <2>1
  <2> HIDE DEF one, Ways
  <2> QED
    BY <2>2
<1>2. PICK m \in Good : \A k \in Good : k <= m
  <2>1. IsFiniteSet(0..len) /\ 0..len \subseteq Nat
    BY FS_Interval
  <2>2. Good \subseteq 0..len
    OBVIOUS
  <2> HIDE DEF Good
  <2> QED
    BY <1>1, <2>1, <2>2, LastOf
<1>3. m = len
  <2>1. SUFFICES ASSUME m # len PROVE FALSE
    OBVIOUS
  <2>2. m \in 0..len /\ m + 1 \in 1..len
    BY <1>2, <2>1
  <2>3. PICK f \in [0..m -> S] : f[0] = first /\ \A k \in 1..m : f[k] = step[k][f[k - 1]]
    BY <1>2
  <2> DEFINE g == [n \in 0..m + 1 |-> IF n = m + 1 THEN step[m + 1][f[m]] ELSE f[n]]
  <2>4. step[m + 1][f[m]] \in S
    BY <2>2, <2>3
  <2>5. g \in [0..m + 1 -> S] /\ g[0] = first
    BY <2>2, <2>3, <2>4
  <2>6. ASSUME NEW k \in 1..m + 1 PROVE g[k] = step[k][g[k - 1]]
    BY <2>2, <2>3
  <2>7. g \in Ways(m + 1)
    BY <2>5, <2>6
  <2> HIDE DEF g, Ways
  <2>8. m + 1 \in Good
    BY <2>2, <2>7
  <2> QED
    BY <1>2, <2>2, <2>8
<1> QED
  BY <1>2, <1>3 DEF Stepwise

\* Each further element of a sequence is taken or left.
Picks(f, ids, set) ==
    /\ f[0] = <<>>
    /\ \A n \in 1..Len(ids) :
          f[n] = IF ids[n] \in set THEN Append(f[n - 1], ids[n]) ELSE f[n - 1]

LEMMA PickedSteps ==
  ASSUME NEW ids \in Seq(Items), NEW set
  PROVE  \E f : Picks(f, ids, set) /\ f[Len(ids)] = Picked(ids, set)
<1> DEFINE len == Len(ids)
           step == [n \in 1..len |-> [held \in Seq(Items) |->
                       IF ids[n] \in set THEN Append(held, ids[n]) ELSE held]]
           upTo == CHOOSE f : f = [n \in 0..len |->
                       IF n = 0 THEN <<>>
                       ELSE IF ids[n] \in set THEN Append(f[n - 1], ids[n]) ELSE f[n - 1]]
<1>1. len \in Nat /\ <<>> \in Seq(Items)
  OBVIOUS
<1>2. \A n \in 1..len : ids[n] \in Items
  OBVIOUS
<1>3. step \in [1..len -> [Seq(Items) -> Seq(Items)]]
  BY <1>2
<1> HIDE DEF step
<1>4. PICK g \in [0..len -> Seq(Items)] : Stepwise(g, len, <<>>, step)
  BY <1>1, <1>3, Path
<1>5. g = [n \in 0..len |->
             IF n = 0 THEN <<>>
             ELSE IF ids[n] \in set THEN Append(g[n - 1], ids[n]) ELSE g[n - 1]]
  <2>1. ASSUME NEW n \in 0..len, n # 0
        PROVE  g[n] = IF ids[n] \in set THEN Append(g[n - 1], ids[n]) ELSE g[n - 1]
    <3>1. n \in 1..len /\ n - 1 \in 0..len
      BY <1>1, <2>1
    <3>2. g[n - 1] \in Seq(Items)
      BY <3>1, <1>4
    <3>3. g[n] = step[n][g[n - 1]]
      BY <3>1, <1>4 DEF Stepwise
    <3>4. step[n][g[n - 1]] = IF ids[n] \in set THEN Append(g[n - 1], ids[n]) ELSE g[n - 1]
      BY <3>1, <3>2 DEF step
    <3> QED
      BY <3>3, <3>4
  <2>2. g[0] = <<>>
    BY <1>4 DEF Stepwise
  <2> QED
    BY <2>1, <2>2
<1>6. upTo = [n \in 0..len |->
                IF n = 0 THEN <<>>
                ELSE IF ids[n] \in set THEN Append(upTo[n - 1], ids[n]) ELSE upTo[n - 1]]
  BY <1>5
<1>7. Picked(ids, set) = upTo[len]
  BY DEF Picked
<1> HIDE DEF upTo
<1>8. Picks(upTo, ids, set)
  <2>1. 0 \in 0..len
    BY <1>1
  <2>2. ASSUME NEW n \in 1..len PROVE n \in 0..len /\ n # 0
    BY <1>1
  <2>3. upTo[0] = <<>>
    BY <1>6, <2>1
  <2>4. ASSUME NEW n \in 1..len
        PROVE  upTo[n] = IF ids[n] \in set THEN Append(upTo[n - 1], ids[n]) ELSE upTo[n - 1]
    BY <1>6, <2>2
  <2> QED
    BY <2>3, <2>4 DEF Picks
<1> QED
  BY <1>7, <1>8

\* A row never stands in front of one it is behind of.
Sorted(order, ids) ==
    \A one, other \in 1..Len(ids) : one < other => Behind(order, ids[other], ids[one])

LEMMA Elements ==
  ASSUME NEW ids \in Seq(Items)
  PROVE  /\ ToSet(ids) \subseteq Items
         /\ \A i : i \in ToSet(ids) <=> \E n \in 1..Len(ids) : ids[n] = i
         /\ ids = <<>> => ToSet(ids) = {}
BY DEF ToSet

\* What is written at the end of a sequence.
LEMMA Appended ==
  ASSUME NEW ids \in Seq(Items), NEW i \in Items
  PROVE  /\ Append(ids, i) \in Seq(Items)
         /\ ToSet(Append(ids, i)) = ToSet(ids) \cup {i}
         /\ \A order : /\ Sorted(order, ids)
                       /\ \A n \in 1..Len(ids) : Behind(order, i, ids[n])
                       => Sorted(order, Append(ids, i))
<1> DEFINE longer == Append(ids, i)
<1>1. /\ longer \in Seq(Items) /\ Len(longer) = Len(ids) + 1 /\ Len(ids) \in Nat
      /\ \A n \in 1..Len(ids) : longer[n] = ids[n]
      /\ longer[Len(ids) + 1] = i
  OBVIOUS
<1> HIDE DEF longer
<1>2. ToSet(longer) = ToSet(ids) \cup {i}
  <2>1. \A j : j \in ToSet(longer) => j \in ToSet(ids) \cup {i}
    BY <1>1, Elements
  <2>2. \A j : j \in ToSet(ids) => j \in ToSet(longer)
    BY <1>1, Elements
  <2>3. i \in ToSet(longer)
    BY <1>1, Elements
  <2> QED
    BY <2>1, <2>2, <2>3
<1>3. ASSUME NEW order, Sorted(order, ids), \A n \in 1..Len(ids) : Behind(order, i, ids[n])
      PROVE  Sorted(order, longer)
  <2>1. ASSUME NEW one \in 1..Len(ids) + 1, NEW other \in 1..Len(ids) + 1, one < other
        PROVE  Behind(order, longer[other], longer[one])
    <3>1. one \in 1..Len(ids) /\ longer[one] = ids[one]
      BY <1>1, <2>1
    <3>2. CASE other \in 1..Len(ids)
      BY <1>1, <1>3, <2>1, <3>1, <3>2 DEF Sorted
    <3>3. CASE other = Len(ids) + 1
      BY <1>1, <1>3, <3>1, <3>3
    <3> QED
      BY <1>1, <3>2, <3>3
  <2> QED
    BY <1>1, <2>1 DEF Sorted
<1> QED
  BY <1>1, <1>2, <1>3 DEF longer

\* What is picked of a sequence is those of it in the set, in their order.
LEMMA PickedIs ==
  ASSUME NEW ids \in Seq(Items), NEW set
  PROVE  /\ Picked(ids, set) \in Seq(Items)
         /\ ToSet(Picked(ids, set)) = ToSet(ids) \cap set
         /\ \A order : Sorted(order, ids) => Sorted(order, Picked(ids, set))
<1>1. PICK f : Picks(f, ids, set) /\ f[Len(ids)] = Picked(ids, set)
  BY PickedSteps
<1>2. Len(ids) \in Nat /\ \A n \in 1..Len(ids) : ids[n] \in Items /\ n - 1 \in 0..Len(ids)
  OBVIOUS
<1>3. Picked(ids, set) \in Seq(Items) /\ ToSet(Picked(ids, set)) = ToSet(ids) \cap set
  <2> DEFINE UpTo(n) == {ids[m] : m \in 1..n} \cap set
             G == [n \in 0..Len(ids) |-> {held \in Seq(Items) : ToSet(held) = UpTo(n)}]
  <2>1. f[0] \in G[0]
    <3>1. UpTo(0) = {}
      OBVIOUS
    <3>2. <<>> \in Seq(Items)
      OBVIOUS
    <3>3. ToSet(<<>>) = {}
      BY DEF ToSet
    <3> QED
      BY <1>1, <3>1, <3>2, <3>3 DEF Picks
  <2>2. ASSUME NEW n \in 1..Len(ids), f[n - 1] \in G[n - 1]
        PROVE  f[n] \in G[n]
    <3>1. f[n - 1] \in Seq(Items) /\ ToSet(f[n - 1]) = UpTo(n - 1)
      BY <1>2, <2>2
    <3>2. UpTo(n) = UpTo(n - 1) \cup ({ids[n]} \cap set)
      OBVIOUS
    <3>3. f[n] \in Seq(Items) /\ ToSet(f[n]) = UpTo(n)
      <4> HIDE DEF UpTo
      <4>1. CASE ids[n] \in set
        <5>1. f[n] = Append(f[n - 1], ids[n])
          BY <1>1, <4>1 DEF Picks
        <5>2. f[n] \in Seq(Items) /\ ToSet(f[n]) = ToSet(f[n - 1]) \cup {ids[n]}
          BY <1>2, <3>1, <5>1, Appended
        <5> QED
          BY <3>1, <3>2, <4>1, <5>2
      <4>2. CASE ids[n] \notin set
        BY <1>1, <3>1, <3>2, <4>2 DEF Picks
      <4> QED
        BY <4>1, <4>2
    <3> QED
      BY <3>3
  <2> HIDE DEF G
  <2>3. \A n \in 0..Len(ids) : f[n] \in G[n]
    BY <1>2, <2>1, <2>2, Along
  <2>4. ToSet(ids) = {ids[m] : m \in 1..Len(ids)}
    BY DEF ToSet
  <2> QED
    BY <1>1, <1>2, <2>3, <2>4 DEF G
<1>4. ASSUME NEW order, Sorted(order, ids) PROVE Sorted(order, Picked(ids, set))
  <2> DEFINE G == [n \in 0..Len(ids) |-> {held \in Seq(Items) :
                      /\ Sorted(order, held)
                      /\ \A k \in 1..Len(held) : \E m \in 1..n : held[k] = ids[m]}]
  <2>1. f[0] \in G[0]
    <3>1. <<>> \in Seq(Items) /\ 1..Len(<<>>) = {}
      OBVIOUS
    <3>2. Sorted(order, <<>>)
      BY <3>1 DEF Sorted
    <3> QED
      BY <1>1, <3>1, <3>2 DEF Picks
  <2>2. ASSUME NEW n \in 1..Len(ids), f[n - 1] \in G[n - 1]
        PROVE  f[n] \in G[n]
    <3> DEFINE held == f[n - 1]
    <3>1. /\ held \in Seq(Items) /\ Sorted(order, held)
          /\ \A k \in 1..Len(held) : \E m \in 1..n - 1 : held[k] = ids[m]
      BY <1>2, <2>2
    <3>2. CASE ids[n] \in set
      <4>1. ASSUME NEW k \in 1..Len(held) PROVE Behind(order, ids[n], held[k])
        <5>1. PICK m \in 1..n - 1 : held[k] = ids[m]
          BY <3>1
        <5> QED
          BY <1>4, <5>1 DEF Sorted
      <4>2. f[n] = Append(held, ids[n])
        BY <1>1, <3>2 DEF Picks
      <4>3. f[n] \in Seq(Items) /\ Sorted(order, f[n])
        BY <1>2, <3>1, <4>1, <4>2, Appended
      <4>4. ASSUME NEW k \in 1..Len(f[n]) PROVE \E m \in 1..n : f[n][k] = ids[m]
        <5>1. k \in 1..Len(held) + 1 /\ Len(held) \in Nat
          BY <1>2, <3>1, <4>2
        <5>2. CASE k = Len(held) + 1
          BY <1>2, <3>1, <4>2, <5>2
        <5>3. CASE k \in 1..Len(held)
          <6>1. f[n][k] = held[k]
            BY <1>2, <3>1, <4>2, <5>3
          <6> QED
            BY <3>1, <5>3, <6>1
        <5> QED
          BY <5>1, <5>2, <5>3
      <4> QED
        BY <4>3, <4>4
    <3>3. CASE ids[n] \notin set
      <4>1. f[n] = held
        BY <1>1, <3>3 DEF Picks
      <4>2. ASSUME NEW k \in 1..Len(held) PROVE \E m \in 1..n : held[k] = ids[m]
        BY <1>2, <3>1
      <4> HIDE DEF held
      <4>3. held \in G[n]
        BY <1>2, <3>1, <4>2
      <4> QED
        BY <4>1, <4>3
    <3> QED
      BY <3>2, <3>3
  <2> HIDE DEF G
  <2>3. \A n \in 0..Len(ids) : f[n] \in G[n]
    BY <1>2, <2>1, <2>2, Along
  <2> QED
    BY <1>1, <1>2, <2>3 DEF G
<1> QED
  BY <1>3, <1>4

\* One sequence after another.
LEMMA Joined ==
  ASSUME NEW front \in Seq(Items), NEW back \in Seq(Items)
  PROVE  /\ front \o back \in Seq(Items)
         /\ ToSet(front \o back) = ToSet(front) \cup ToSet(back)
         /\ \A order : /\ Sorted(order, front) /\ Sorted(order, back)
                       /\ \A n \in 1..Len(front), m \in 1..Len(back) :
                             Behind(order, back[m], front[n])
                       => Sorted(order, front \o back)
<1> DEFINE whole == front \o back
<1>1. /\ whole \in Seq(Items) /\ Len(whole) = Len(front) + Len(back)
      /\ Len(front) \in Nat /\ Len(back) \in Nat
      /\ \A n \in 1..Len(front) : whole[n] = front[n]
      /\ \A n \in 1..Len(back) : whole[Len(front) + n] = back[n]
  OBVIOUS
<1> HIDE DEF whole
<1>2. ASSUME NEW n \in 1..Len(front) + Len(back), n \notin 1..Len(front)
      PROVE  n - Len(front) \in 1..Len(back) /\ whole[n] = back[n - Len(front)]
  <2>1. n - Len(front) \in 1..Len(back) /\ Len(front) + (n - Len(front)) = n
    BY <1>1, <1>2
  <2> QED
    BY <1>1, <2>1
<1>3. ToSet(whole) = ToSet(front) \cup ToSet(back)
  <2>1. ASSUME NEW i \in ToSet(whole) PROVE i \in ToSet(front) \cup ToSet(back)
    <3>1. PICK n \in 1..Len(front) + Len(back) : whole[n] = i
      BY <1>1, Elements
    <3>2. CASE n \in 1..Len(front)
      BY <1>1, <3>1, <3>2, Elements
    <3>3. CASE n \notin 1..Len(front)
      BY <1>2, <3>1, <3>3, Elements
    <3> QED
      BY <3>2, <3>3
  <2>2. ASSUME NEW i \in ToSet(front) PROVE i \in ToSet(whole)
    <3>1. PICK n \in 1..Len(front) : front[n] = i
      BY Elements
    <3>2. n \in 1..Len(whole) /\ whole[n] = i
      BY <1>1, <3>1
    <3> QED
      BY <1>1, <3>2, Elements
  <2>3. ASSUME NEW i \in ToSet(back) PROVE i \in ToSet(whole)
    <3>1. PICK n \in 1..Len(back) : back[n] = i
      BY Elements
    <3>2. Len(front) + n \in 1..Len(whole) /\ whole[Len(front) + n] = i
      BY <1>1, <3>1
    <3> QED
      BY <1>1, <3>2, Elements
  <2> QED
    BY <2>1, <2>2, <2>3
<1>4. ASSUME NEW order, Sorted(order, front), Sorted(order, back),
             \A n \in 1..Len(front), m \in 1..Len(back) : Behind(order, back[m], front[n])
      PROVE  Sorted(order, whole)
  <2>1. SUFFICES ASSUME NEW one \in 1..Len(whole), NEW other \in 1..Len(whole), one < other
                 PROVE  Behind(order, whole[other], whole[one])
    BY DEF Sorted
  <2>2. CASE other \in 1..Len(front)
    <3>1. one \in 1..Len(front)
      BY <1>1, <2>1, <2>2
    <3>2. Behind(order, front[other], front[one])
      BY <1>4, <2>1, <2>2, <3>1 DEF Sorted
    <3> QED
      BY <1>1, <2>2, <3>1, <3>2
  <2>3. CASE other \notin 1..Len(front) /\ one \in 1..Len(front)
    BY <1>1, <1>2, <1>4, <2>3
  <2>4. CASE one \notin 1..Len(front)
    <3>1. other \notin 1..Len(front)
      BY <1>1, <2>1, <2>4
    <3>2. /\ one - Len(front) \in 1..Len(back) /\ whole[one] = back[one - Len(front)]
          /\ other - Len(front) \in 1..Len(back) /\ whole[other] = back[other - Len(front)]
      BY <1>1, <1>2, <2>4, <3>1
    <3>3. one - Len(front) < other - Len(front)
      BY <1>1, <2>1
    <3> QED
      BY <1>4, <3>2, <3>3 DEF Sorted
  <2> QED
    BY <2>2, <2>3, <2>4
<1> QED
  BY <1>1, <1>3, <1>4 DEF whole

\* Part of a sequence.
LEMMA Part ==
  ASSUME NEW ids \in Seq(Items), NEW first \in Nat \ {0}, NEW last \in Nat, last <= Len(ids)
  PROVE  /\ SubSeq(ids, first, last) \in Seq(Items)
         /\ \A i : i \in ToSet(SubSeq(ids, first, last)) <=> \E n \in first..last : ids[n] = i
         /\ \A order : Sorted(order, ids) => Sorted(order, SubSeq(ids, first, last))
<1> DEFINE part == SubSeq(ids, first, last)
           len == IF first <= last THEN (last - first) + 1 ELSE 0
<1>1. part \in Seq(Items) /\ Len(part) = len /\ len \in Nat /\ Len(ids) \in Nat
  OBVIOUS
<1>2. \A n \in 1..len : part[n] = ids[(first + n) - 1] /\ (first + n) - 1 \in first..last
  OBVIOUS
<1> HIDE DEF part, len
<1>3. \A n \in first..last : n \in 1..Len(ids) /\ (n - first) + 1 \in 1..len /\ ids[n] = part[(n - first) + 1]
  <2>1. ASSUME NEW n \in first..last
        PROVE  n \in 1..Len(ids) /\ (n - first) + 1 \in 1..len /\ (first + ((n - first) + 1)) - 1 = n
    BY <1>1, <2>1 DEF len
  <2> QED
    BY <1>2, <2>1
<1>4. \A i : i \in ToSet(part) <=> \E n \in first..last : ids[n] = i
  <2>1. ASSUME NEW i \in ToSet(part) PROVE \E n \in first..last : ids[n] = i
    <3>1. PICK n \in 1..len : part[n] = i
      BY <1>1, Elements
    <3> QED
      BY <1>2, <3>1
  <2>2. ASSUME NEW n \in first..last PROVE ids[n] \in ToSet(part)
    BY <1>1, <1>3, Elements
  <2> QED
    BY <2>1, <2>2
<1>5. ASSUME NEW order, Sorted(order, ids) PROVE Sorted(order, part)
  <2>1. SUFFICES ASSUME NEW one \in 1..len, NEW other \in 1..len, one < other
                 PROVE  Behind(order, part[other], part[one])
    BY <1>1 DEF Sorted
  <2>2. /\ (first + one) - 1 \in 1..Len(ids) /\ (first + other) - 1 \in 1..Len(ids)
        /\ (first + one) - 1 < (first + other) - 1
    BY <1>1, <1>2, <1>3, <2>1
  <2> QED
    BY <1>2, <1>5, <2>2 DEF Sorted
<1> QED
  BY <1>1, <1>4, <1>5 DEF part

\* The first of some places of a sequence.
LEMMA FirstOf ==
  ASSUME NEW len \in Nat, NEW T \in SUBSET (1..len), T # {}
  PROVE  /\ Min(T) \in T
         /\ \A k \in T : Min(T) <= k
<1> DEFINE S == 0..len
           U == {len - k : k \in T}
<1>1. IsFiniteSet(S) /\ S \in SUBSET Nat
  BY FS_Interval
<1>2. U \in SUBSET S /\ U # {}
  <2>1. \A k \in T : len - k \in S
    OBVIOUS
  <2> QED
    BY <2>1
<1> HIDE DEF S
<1>3. \E m \in U : \A k \in U : k <= m
  <2> HIDE DEF U
  <2> QED
    BY <1>1, <1>2, LastOf
<1>4. PICK m \in T : \A k \in U : k <= len - m
  BY <1>3
<1>5. ASSUME NEW k \in T PROVE m =< k
  <2>1. len - k \in U /\ m \in Nat /\ k \in Nat
    OBVIOUS
  <2>2. len - k <= len - m
    BY <1>4, <2>1
  <2> QED
    BY <2>1, <2>2
<1>6. Min(T) = CHOOSE x \in T : \A y \in T : x =< y
  BY DEF Min
<1> QED
  BY <1>5, <1>6

\* A row put in its place, the others as they were.
LEMMA PutIn ==
  ASSUME NEW ids \in Seq(Items), NEW at \in 1..Len(ids) + 1, NEW i \in Items
  PROVE  /\ InsertAt(ids, at, i) \in Seq(Items)
         /\ ToSet(InsertAt(ids, at, i)) = ToSet(ids) \cup {i}
         /\ \A order : /\ Sorted(order, ids)
                       /\ \A n \in 1..at - 1 : Behind(order, i, ids[n])
                       /\ \A n \in at..Len(ids) : Behind(order, ids[n], i)
                       => Sorted(order, InsertAt(ids, at, i))
<1> DEFINE front == SubSeq(ids, 1, at - 1)
           back == SubSeq(ids, at, Len(ids))
<1>1. Len(ids) \in Nat /\ at \in Nat \ {0} /\ at - 1 \in Nat /\ at - 1 <= Len(ids)
  OBVIOUS
<1>2. /\ front \in Seq(Items) /\ back \in Seq(Items) /\ <<i>> \in Seq(Items)
      /\ Len(<<i>>) = 1 /\ <<i>>[1] = i
  BY <1>1, Part
<1>3. /\ \A j : j \in ToSet(front) <=> \E n \in 1..at - 1 : ids[n] = j
      /\ \A j : j \in ToSet(back) <=> \E n \in at..Len(ids) : ids[n] = j
      /\ ToSet(<<i>>) = {i}
  <2>1. ToSet(<<i>>) = {i}
    BY <1>2 DEF ToSet
  <2>2. \A j : j \in ToSet(front) <=> \E n \in 1..at - 1 : ids[n] = j
    BY <1>1, Part
  <2>3. \A j : j \in ToSet(back) <=> \E n \in at..Len(ids) : ids[n] = j
    BY <1>1, Part
  <2> QED
    BY <2>1, <2>2, <2>3
<1>4. ToSet(ids) = ToSet(front) \cup ToSet(back)
  <2>1. ASSUME NEW j \in ToSet(ids) PROVE j \in ToSet(front) \cup ToSet(back)
    <3>1. PICK n \in 1..Len(ids) : ids[n] = j
      BY Elements
    <3>2. n \in 1..at - 1 \/ n \in at..Len(ids)
      BY <1>1, <3>1
    <3> QED
      BY <1>3, <3>1, <3>2
  <2>2. ASSUME NEW j \in ToSet(front) \cup ToSet(back) PROVE j \in ToSet(ids)
    <3>1. PICK n \in 1..Len(ids) : ids[n] = j
      BY <1>1, <1>3
    <3> QED
      BY <3>1, Elements
  <2> QED
    BY <2>1, <2>2
<1>5. InsertAt(ids, at, i) = (front \o <<i>>) \o back
  BY DEF InsertAt
<1> HIDE DEF front, back
<1>6. front \o <<i>> \in Seq(Items) /\ ToSet(front \o <<i>>) = ToSet(front) \cup {i}
  BY <1>2, <1>3, Joined
<1>7. InsertAt(ids, at, i) \in Seq(Items) /\ ToSet(InsertAt(ids, at, i)) = ToSet(ids) \cup {i}
  <2> DEFINE most == front \o <<i>>
  <2>1. most \in Seq(Items) /\ ToSet(most) = ToSet(front) \cup {i}
    BY <1>6
  <2> HIDE DEF most
  <2>2. most \o back \in Seq(Items) /\ ToSet(most \o back) = ToSet(most) \cup ToSet(back)
    BY <1>2, <2>1, Joined
  <2> QED
    BY <1>4, <1>5, <2>1, <2>2 DEF most
<1>8. ASSUME NEW order, Sorted(order, ids),
             \A n \in 1..at - 1 : Behind(order, i, ids[n]),
             \A n \in at..Len(ids) : Behind(order, ids[n], i)
      PROVE  Sorted(order, InsertAt(ids, at, i))
  <2>1. Sorted(order, front) /\ Sorted(order, back)
    BY <1>1, <1>8, Part DEF front, back
  <2>2. Sorted(order, <<i>>)
    BY <1>2 DEF Sorted
  <2>3. \A n \in 1..Len(front) : \E m \in 1..at - 1 : front[n] = ids[m]
    BY <1>2, <1>3, Elements
  <2>4. \A n \in 1..Len(back) : \E m \in at..Len(ids) : back[n] = ids[m]
    BY <1>2, <1>3, Elements
  <2>5. Sorted(order, front \o <<i>>)
    <3>1. \A n \in 1..Len(front), m \in 1..Len(<<i>>) : Behind(order, <<i>>[m], front[n])
      BY <1>2, <1>8, <2>3
    <3> QED
      BY <1>2, <2>1, <2>2, <3>1, Joined
  <2>6. ASSUME NEW n \in 1..Len(front \o <<i>>), NEW m \in 1..Len(back)
        PROVE  Behind(order, back[m], (front \o <<i>>)[n])
    <3>1. PICK k \in at..Len(ids) : back[m] = ids[k]
      BY <2>4
    <3>2. (front \o <<i>>)[n] \in ToSet(front) \cup {i}
      BY <1>6, Elements
    <3>3. CASE (front \o <<i>>)[n] = i
      BY <1>8, <3>1, <3>3
    <3>4. CASE (front \o <<i>>)[n] \in ToSet(front)
      <4>1. PICK l \in 1..at - 1 : ids[l] = (front \o <<i>>)[n]
        BY <1>3, <3>4
      <4>2. l \in 1..Len(ids) /\ k \in 1..Len(ids) /\ l < k
        BY <1>1
      <4> QED
        BY <1>8, <3>1, <4>1, <4>2 DEF Sorted
    <3> QED
      BY <3>2, <3>3, <3>4
  <2> QED
    BY <1>2, <1>5, <1>6, <2>1, <2>5, <2>6, Joined
<1> QED
  BY <1>7, <1>8

-----------------------------------------------------------------------------
(* What is put on a page and taken off it.                                  *)

Pages ==
    [order : Orders, ids : Seq(Items), after : Items \cup {Nothing}, exhausted : BOOLEAN,
     loading : BOOLEAN, answered : BOOLEAN, failed : BOOLEAN]

\* No row is past the position a page has been read to.
Within(page) ==
    \/ page.exhausted \/ page.ids = <<>>
    \/ page.after # Nothing /\ \A n \in 1..Len(page.ids) : ~Behind(page.order, page.ids[n], page.after)

Tidy(page) == Sorted(page.order, page.ids) /\ Within(page)

\* As far in one as in the other.
AsFar(one, other) ==
    one.order = other.order /\ one.after = other.after /\ one.exhausted = other.exhausted

LEMMA NoRows ==
  ASSUME NEW page \in Pages
  PROVE  page.ids = <<>> <=> ToSet(page.ids) = {}
<1>1. page.ids \in Seq(Items)
  BY DEF Pages
<1>2. ASSUME page.ids # <<>> PROVE page.ids[1] \in ToSet(page.ids)
  BY <1>1, <1>2, Elements
<1> QED
  BY <1>1, <1>2, Elements

LEMMA WithoutIs ==
  ASSUME NEW page \in Pages, NEW i
  PROVE  /\ Without(page, i) \in Pages
         /\ AsFar(Without(page, i), page)
         /\ ToSet(Without(page, i).ids) = ToSet(page.ids) \ {i}
         /\ Tidy(page) => Tidy(Without(page, i))
<1> DEFINE ids == Picked(page.ids, Items \ {i})
<1>1. page.ids \in Seq(Items) /\ ToSet(page.ids) \subseteq Items
  BY Elements DEF Pages
<1>2. ids \in Seq(Items) /\ ToSet(ids) = ToSet(page.ids) \ {i}
  BY <1>1, PickedIs
<1>3. Sorted(page.order, page.ids) => Sorted(page.order, ids)
  BY <1>1, PickedIs
<1>4. Without(page, i) = [page EXCEPT !.ids = ids]
  BY DEF Without
<1> HIDE DEF ids
<1>5. Without(page, i) \in Pages /\ AsFar(Without(page, i), page) /\ Without(page, i).ids = ids
  BY <1>2, <1>4 DEF Pages, AsFar
<1>6. ASSUME Within(page) PROVE Within(Without(page, i))
  <2>1. CASE page.exhausted
    BY <1>5, <2>1 DEF Within, AsFar
  <2>2. CASE page.ids = <<>>
    <3>1. ToSet(ids) = {}
      BY <1>1, <1>2, <2>2, Elements
    <3> QED
      BY <1>5, <3>1, NoRows DEF Within
  <2>3. CASE page.after # Nothing /\ \A n \in 1..Len(page.ids) : ~Behind(page.order, page.ids[n], page.after)
    <3>1. ASSUME NEW n \in 1..Len(ids) PROVE ~Behind(page.order, ids[n], page.after)
      <4>1. PICK m \in 1..Len(page.ids) : page.ids[m] = ids[n]
        BY <1>1, <1>2, Elements
      <4> QED
        BY <2>3, <4>1
    <3> QED
      BY <1>5, <2>3, <3>1 DEF Within, AsFar
  <2> QED
    BY <1>6, <2>1, <2>2, <2>3 DEF Within
<1> QED
  BY <1>2, <1>3, <1>5, <1>6 DEF Tidy, AsFar

\* The first row behind an item.
FirstBehind(page, i) == SelectInSeq(page.ids, LAMBDA held : Behind(page.order, held, i))

LEMMA PlaceOf ==
  ASSUME NEW page \in Pages, NEW i \in Items, NEW at, at = FirstBehind(page, i)
  PROVE  /\ at \in 0..Len(page.ids)
         /\ at = 0 => \A n \in 1..Len(page.ids) : ~Behind(page.order, page.ids[n], i)
         /\ at # 0 => /\ Behind(page.order, page.ids[at], i)
                      /\ \A n \in 1..at - 1 : ~Behind(page.order, page.ids[n], i)
<1> DEFINE T == {n \in 1..Len(page.ids) : Behind(page.order, page.ids[n], i)}
<1>1. page.ids \in Seq(Items) /\ Len(page.ids) \in Nat
  BY DEF Pages
<1>2. at = IF T # {} THEN Min(T) ELSE 0
  BY DEF FirstBehind, SelectInSeq
<1>3. CASE T = {}
  BY <1>1, <1>2, <1>3
<1>4. CASE T # {}
  <2>1. Min(T) \in T /\ \A k \in T : Min(T) <= k
    <3>1. T \in SUBSET (1..Len(page.ids))
      OBVIOUS
    <3> HIDE DEF T
    <3> QED
      BY <1>1, <1>4, <3>1, FirstOf
  <2>2. at \in T /\ \A k \in T : at <= k
    BY <1>2, <1>4, <2>1
  <2>3. ASSUME NEW n \in 1..at - 1 PROVE ~Behind(page.order, page.ids[n], i)
    <3>1. n \in 1..Len(page.ids) /\ ~(at <= n)
      BY <1>1, <2>2
    <3> QED
      BY <2>2, <3>1
  <2> QED
    BY <1>1, <2>2, <2>3
<1> QED
  BY <1>3, <1>4

\* One of two different items is behind the other, and what is behind that is
\* behind both.
LEMMA BehindOrders ==
  ASSUME NEW order, NEW i \in Items, NEW j \in Items, NEW k \in Items
  PROVE  /\ i # j => (Behind(order, i, j) <=> ~Behind(order, j, i))
         /\ ~Behind(order, i, i)
         /\ Behind(order, i, j) /\ Behind(order, j, k) => Behind(order, i, k)
         /\ Behind(order, i, j) /\ ~Behind(order, k, j) => Behind(order, i, k)
BY DEF Behind, Items

\* Where a row is put.
At(page, i) == IF FirstBehind(page, i) = 0 THEN Len(page.ids) + 1 ELSE FirstBehind(page, i)

LEMMA PutInPlace ==
  ASSUME NEW page \in Pages, NEW i \in Items, i \notin ToSet(page.ids)
  PROVE  /\ InsertAt(page.ids, At(page, i), i) \in Seq(Items)
         /\ ToSet(InsertAt(page.ids, At(page, i), i)) = ToSet(page.ids) \cup {i}
         /\ Sorted(page.order, page.ids)
               => Sorted(page.order, InsertAt(page.ids, At(page, i), i))
<1>1. page.ids \in Seq(Items) /\ Len(page.ids) \in Nat
  BY DEF Pages
<1>2. /\ FirstBehind(page, i) \in 0..Len(page.ids)
      /\ FirstBehind(page, i) = 0 =>
            \A n \in 1..Len(page.ids) : ~Behind(page.order, page.ids[n], i)
      /\ FirstBehind(page, i) # 0 =>
            /\ Behind(page.order, page.ids[FirstBehind(page, i)], i)
            /\ \A n \in 1..FirstBehind(page, i) - 1 : ~Behind(page.order, page.ids[n], i)
  BY PlaceOf
<1>3. At(page, i) \in 1..Len(page.ids) + 1
  BY <1>1, <1>2 DEF At
<1>4. \A n \in 1..Len(page.ids) : page.ids[n] # i /\ page.ids[n] \in Items
  BY <1>1, Elements
<1>5. ASSUME NEW n \in 1..At(page, i) - 1 PROVE Behind(page.order, i, page.ids[n])
  <2>1. n \in 1..Len(page.ids) /\ ~Behind(page.order, page.ids[n], i)
    BY <1>1, <1>2 DEF At
  <2> QED
    BY <1>4, <2>1, BehindOrders
<1>6. ASSUME Sorted(page.order, page.ids), NEW n \in At(page, i)..Len(page.ids)
      PROVE  Behind(page.order, page.ids[n], i)
  <2> DEFINE at == FirstBehind(page, i)
  <2>1. at # 0 /\ At(page, i) = at /\ at \in 1..Len(page.ids) /\ n \in 1..Len(page.ids)
    BY <1>1, <1>2 DEF At
  <2>2. Behind(page.order, page.ids[at], i)
    BY <1>2, <2>1
  <2> HIDE DEF at
  <2>3. CASE n = at
    BY <2>2, <2>3
  <2>4. CASE n # at
    <3>1. at < n
      BY <2>1, <2>4
    <3>2. Behind(page.order, page.ids[n], page.ids[at])
      BY <1>6, <2>1, <3>1 DEF Sorted
    <3> QED
      BY <1>4, <2>1, <2>2, <3>2, BehindOrders
  <2> QED
    BY <2>3, <2>4
<1> QED
  BY <1>1, <1>3, <1>5, <1>6, PutIn

LEMMA IntoPageIs ==
  ASSUME NEW page \in Pages, NEW i \in Items
  PROVE  /\ IntoPage(page, i) \in Pages
         /\ AsFar(IntoPage(page, i), page)
         /\ ToSet(IntoPage(page, i).ids) =
               IF Unpositioned(page) \/ ~Loaded(page, i)
               THEN ToSet(page.ids) ELSE ToSet(page.ids) \cup {i}
         /\ Tidy(page) => Tidy(IntoPage(page, i))
<1>1. CASE Unpositioned(page) \/ i \in ToSet(page.ids) \/ ~Loaded(page, i)
  <2>1. IntoPage(page, i) = page
    BY <1>1 DEF IntoPage
  <2> QED
    BY <1>1, <2>1 DEF AsFar
<1>2. CASE ~(Unpositioned(page) \/ i \in ToSet(page.ids) \/ ~Loaded(page, i))
  <2> DEFINE ids == InsertAt(page.ids, At(page, i), i)
  <2>1. IntoPage(page, i) = [page EXCEPT !.ids = ids]
    BY <1>2 DEF IntoPage, At, FirstBehind
  <2>2. /\ ids \in Seq(Items)
        /\ ToSet(ids) = ToSet(page.ids) \cup {i}
        /\ Sorted(page.order, page.ids) => Sorted(page.order, ids)
    BY <1>2, PutInPlace
  <2> HIDE DEF ids
  <2>3. /\ IntoPage(page, i) \in Pages
        /\ AsFar(IntoPage(page, i), page)
        /\ IntoPage(page, i).ids = ids
    BY <2>1, <2>2 DEF Pages, AsFar
  <2>4. ASSUME Within(page) PROVE Within(IntoPage(page, i))
    <3>1. CASE page.exhausted
      BY <2>3, <3>1 DEF Within, AsFar
    <3>2. CASE ~page.exhausted
      <4>1. page.after # Nothing /\ ~Behind(page.order, i, page.after)
        BY <1>2, <2>4, <3>2 DEF Within, Loaded, Unpositioned
      <4>2. ASSUME NEW n \in 1..Len(ids) PROVE ~Behind(page.order, ids[n], page.after)
        <5>1. page.ids \in Seq(Items)
          BY DEF Pages
        <5>2. ids[n] = i \/ \E m \in 1..Len(page.ids) : page.ids[m] = ids[n]
          BY <2>2, <5>1, Elements
        <5>3. CASE page.ids = <<>>
          <6>1. Len(page.ids) = 0
            BY <5>3
          <6> QED
            BY <4>1, <5>2, <6>1
        <5>4. CASE page.ids # <<>>
          BY <2>4, <3>2, <4>1, <5>2, <5>4 DEF Within
        <5> QED
          BY <5>3, <5>4
      <4> QED
        BY <2>3, <4>1, <4>2 DEF Within, AsFar
    <3> QED
      BY <3>1, <3>2
  <2> QED
    BY <1>2, <2>2, <2>3, <2>4 DEF Tidy, AsFar
<1> QED
  BY <1>1, <1>2

LEMMA ReconciledIs ==
  ASSUME NEW page \in Pages, NEW i \in Items, NEW copy
  PROVE  /\ Reconciled(page, copy, i) \in Pages
         /\ AsFar(Reconciled(page, copy, i), page)
         /\ ToSet(Reconciled(page, copy, i).ids) =
               IF ~Unprocessed(copy) THEN ToSet(page.ids) \ {i}
               ELSE IF Unpositioned(page) \/ ~Loaded(page, i)
               THEN ToSet(page.ids) ELSE ToSet(page.ids) \cup {i}
         /\ \A j : j # i => (j \in ToSet(Reconciled(page, copy, i).ids) <=> j \in ToSet(page.ids))
         /\ Tidy(page) => Tidy(Reconciled(page, copy, i))
<1> DEFINE new == Reconciled(page, copy, i)
<1>1. CASE Unprocessed(copy)
  <2>1. new = IntoPage(page, i)
    BY <1>1 DEF Reconciled
  <2> HIDE DEF new
  <2>2. ToSet(new.ids) = IF Unpositioned(page) \/ ~Loaded(page, i)
                         THEN ToSet(page.ids) ELSE ToSet(page.ids) \cup {i}
    BY <2>1, IntoPageIs
  <2>3. new \in Pages /\ AsFar(new, page) /\ (Tidy(page) => Tidy(new))
    BY <2>1, IntoPageIs
  <2> QED
    BY <1>1, <2>2, <2>3 DEF new
<1>2. CASE ~Unprocessed(copy)
  <2>1. new = Without(page, i)
    BY <1>2 DEF Reconciled
  <2> HIDE DEF new
  <2>2. ToSet(new.ids) = ToSet(page.ids) \ {i}
    BY <2>1, WithoutIs
  <2>3. new \in Pages /\ AsFar(new, page) /\ (Tidy(page) => Tidy(new))
    BY <2>1, WithoutIs
  <2> QED
    BY <1>2, <2>2, <2>3 DEF new
<1> QED
  BY <1>1, <1>2

LEMMA ReplacedIs ==
  ASSUME NEW page \in Pages, NEW i \in Items, NEW at \in Nat
  PROVE  /\ Replaced(page, i, at) \in Pages
         /\ AsFar(Replaced(page, i, at), page)
         /\ ToSet(Replaced(page, i, at).ids) \subseteq ToSet(page.ids) \cup {i}
         /\ ToSet(page.ids) \subseteq ToSet(Replaced(page, i, at).ids)
         /\ i \in ToSet(page.ids) => Replaced(page, i, at) = page
         /\ Replaced(page, i, at) # page => i \in ToSet(Replaced(page, i, at).ids)
<1>1. CASE at = 0 \/ i \in ToSet(page.ids)
  BY <1>1 DEF Replaced, AsFar
<1>2. CASE ~(at = 0 \/ i \in ToSet(page.ids))
  <2> DEFINE where == IF at > Len(page.ids) THEN Len(page.ids) + 1 ELSE at
             ids == InsertAt(page.ids, where, i)
  <2>1. page.ids \in Seq(Items) /\ where \in 1..Len(page.ids) + 1
    BY <1>2 DEF Pages
  <2>2. Replaced(page, i, at) = [page EXCEPT !.ids = ids]
    BY <1>2 DEF Replaced
  <2> HIDE DEF where
  <2>3. ids \in Seq(Items) /\ ToSet(ids) = ToSet(page.ids) \cup {i}
    BY <2>1, PutIn
  <2> HIDE DEF ids
  <2>4. /\ Replaced(page, i, at) \in Pages
        /\ AsFar(Replaced(page, i, at), page)
        /\ Replaced(page, i, at).ids = ids
    BY <2>2, <2>3 DEF Pages, AsFar
  <2> QED
    BY <1>2, <2>3, <2>4
<1> QED
  BY <1>1, <1>2

Entry == [kind : Kinds, item : Items, modified : Nat]

LEMMA CaughtUpIs ==
  ASSUME NEW page \in Pages, NEW entry \in Entry
  PROVE  /\ CaughtUp(page, entry) \in Pages
         /\ AsFar(CaughtUp(page, entry), page)
         /\ \A j : j # entry.item =>
                  (j \in ToSet(CaughtUp(page, entry).ids) <=> j \in ToSet(page.ids))
         /\ Tidy(page) => Tidy(CaughtUp(page, entry))
<1> DEFINE i == entry.item
<1>1. i \in Items
  BY DEF Entry
<1>2. \/ CaughtUp(page, entry) = Without(page, i)
      \/ CaughtUp(page, entry) = Reconciled(page, copies[i], i)
      \/ CaughtUp(page, entry) = page
  BY DEF CaughtUp
<1>3. CASE CaughtUp(page, entry) = Without(page, i)
  <2> DEFINE new == Without(page, i)
  <2>1. new \in Pages /\ AsFar(new, page) /\ (Tidy(page) => Tidy(new))
    BY WithoutIs
  <2>2. \A j : j # entry.item => (j \in ToSet(new.ids) <=> j \in ToSet(page.ids))
    BY WithoutIs
  <2>3. CaughtUp(page, entry) = new
    BY <1>3
  <2> HIDE DEF new
  <2> QED
    BY <2>1, <2>2, <2>3
<1>4. CASE CaughtUp(page, entry) = Reconciled(page, copies[i], i)
  <2> DEFINE new == Reconciled(page, copies[i], i)
  <2>1. new \in Pages /\ AsFar(new, page) /\ (Tidy(page) => Tidy(new))
    BY <1>1, ReconciledIs
  <2>2. \A j : j # entry.item => (j \in ToSet(new.ids) <=> j \in ToSet(page.ids))
    BY <1>1, ReconciledIs
  <2>3. CaughtUp(page, entry) = new
    BY <1>4
  <2> HIDE DEF new
  <2> QED
    BY <2>1, <2>2, <2>3
<1>5. CASE CaughtUp(page, entry) = page
  BY <1>5 DEF AsFar
<1> QED
  BY <1>2, <1>3, <1>4, <1>5

LEMMA CaughtSteps ==
  ASSUME NEW page \in Pages, NEW news \in Seq(Entry)
  PROVE  \E f : /\ f[0] = page
                /\ \A n \in 1..Len(news) : f[n] = CaughtUp(f[n - 1], news[n])
                /\ f[Len(news)] = Caught(page, news)
<1> DEFINE len == Len(news)
           step == [n \in 1..len |-> [held \in Pages |-> CaughtUp(held, news[n])]]
           upTo == CHOOSE f : f = [n \in 0..len |->
                       IF n = 0 THEN page ELSE CaughtUp(f[n - 1], news[n])]
<1>1. len \in Nat /\ \A n \in 1..len : news[n] \in Entry
  OBVIOUS
<1>2. step \in [1..len -> [Pages -> Pages]]
  BY <1>1, CaughtUpIs
<1> HIDE DEF step
<1>3. PICK g \in [0..len -> Pages] : Stepwise(g, len, page, step)
  BY <1>1, <1>2, Path
<1>4. g = [n \in 0..len |-> IF n = 0 THEN page ELSE CaughtUp(g[n - 1], news[n])]
  <2>1. ASSUME NEW n \in 0..len, n # 0 PROVE g[n] = CaughtUp(g[n - 1], news[n])
    <3>1. n \in 1..len /\ n - 1 \in 0..len
      BY <1>1, <2>1
    <3>2. g[n - 1] \in Pages
      BY <1>3, <3>1
    <3>3. g[n] = step[n][g[n - 1]]
      BY <1>3, <3>1 DEF Stepwise
    <3>4. step[n][g[n - 1]] = CaughtUp(g[n - 1], news[n])
      BY <3>1, <3>2 DEF step
    <3> QED
      BY <3>3, <3>4
  <2>2. g[0] = page
    BY <1>3 DEF Stepwise
  <2> QED
    BY <2>1, <2>2
<1>5. upTo = [n \in 0..len |-> IF n = 0 THEN page ELSE CaughtUp(upTo[n - 1], news[n])]
  BY <1>4
<1>6. Caught(page, news) = upTo[len]
  BY DEF Caught
<1> HIDE DEF upTo
<1>7. upTo[0] = page /\ \A n \in 1..len : upTo[n] = CaughtUp(upTo[n - 1], news[n])
  <2>1. \A n \in 0..len : upTo[n] = IF n = 0 THEN page ELSE CaughtUp(upTo[n - 1], news[n])
    BY <1>5
  <2>2. 0 \in 0..len /\ \A n \in 1..len : n \in 0..len /\ n # 0
    BY <1>1
  <2> QED
    BY <2>1, <2>2
<1> QED
  BY <1>6, <1>7

\* What lasts from each of the news to the next lasts to the end of them.
LEMMA CaughtAlong ==
  ASSUME NEW page \in Pages, NEW news \in Seq(Entry), NEW G, page \in G[0],
         \A n \in 1..Len(news) : \A held \in Pages :
             held \in G[n - 1] => CaughtUp(held, news[n]) \in G[n]
  PROVE  Caught(page, news) \in Pages /\ Caught(page, news) \in G[Len(news)]
<1>1. PICK f : /\ f[0] = page
               /\ \A n \in 1..Len(news) : f[n] = CaughtUp(f[n - 1], news[n])
               /\ f[Len(news)] = Caught(page, news)
  BY CaughtSteps
<1> DEFINE H == [n \in 0..Len(news) |-> {held \in Pages : held \in G[n]}]
<1>2. Len(news) \in Nat /\ \A n \in 1..Len(news) : n - 1 \in 0..Len(news) /\ news[n] \in Entry
  OBVIOUS
<1>3. f[0] \in H[0]
  BY <1>1, <1>2
<1>4. ASSUME NEW n \in 1..Len(news), f[n - 1] \in H[n - 1] PROVE f[n] \in H[n]
  <2>1. f[n - 1] \in Pages /\ f[n - 1] \in G[n - 1]
    BY <1>2, <1>4
  <2>2. f[n] = CaughtUp(f[n - 1], news[n])
    BY <1>1
  <2>3. f[n] \in Pages /\ f[n] \in G[n]
    BY <1>2, <2>1, <2>2, CaughtUpIs
  <2> QED
    BY <2>3
<1> HIDE DEF H
<1>5. \A n \in 0..Len(news) : f[n] \in H[n]
  BY <1>2, <1>3, <1>4, Along
<1>6. f[Len(news)] \in H[Len(news)]
  BY <1>2, <1>5
<1> QED
  BY <1>1, <1>2, <1>6 DEF H

LEMMA CaughtIs ==
  ASSUME NEW page \in Pages, NEW news \in Seq(Entry)
  PROVE  /\ Caught(page, news) \in Pages
         /\ AsFar(Caught(page, news), page)
         /\ Tidy(page) => Tidy(Caught(page, news))
         /\ \A i : (\A n \in 1..Len(news) : news[n].item # i)
                       => (i \in ToSet(Caught(page, news).ids) <=> i \in ToSet(page.ids))
<1>1. \A n \in 1..Len(news) : news[n] \in Entry /\ n - 1 \in 0..Len(news)
  OBVIOUS
<1>2. Caught(page, news) \in Pages /\ AsFar(Caught(page, news), page)
  <2> DEFINE G == [n \in 0..Len(news) |-> {held \in Pages : AsFar(held, page)}]
  <2>1. page \in G[0]
    BY DEF AsFar
  <2>2. ASSUME NEW n \in 1..Len(news), NEW held \in Pages, held \in G[n - 1]
        PROVE  CaughtUp(held, news[n]) \in G[n]
    <3>1. AsFar(held, page)
      BY <1>1, <2>2
    <3>2. CaughtUp(held, news[n]) \in Pages /\ AsFar(CaughtUp(held, news[n]), page)
      BY <1>1, <3>1, CaughtUpIs DEF AsFar
    <3> QED
      BY <3>2
  <2> HIDE DEF G
  <2>3. Caught(page, news) \in Pages /\ Caught(page, news) \in G[Len(news)]
    BY <2>1, <2>2, CaughtAlong
  <2> QED
    BY <2>3 DEF G
<1>3. ASSUME Tidy(page) PROVE Tidy(Caught(page, news))
  <2> DEFINE G == [n \in 0..Len(news) |-> {held \in Pages : Tidy(held)}]
  <2>1. page \in G[0]
    BY <1>3
  <2>2. ASSUME NEW n \in 1..Len(news), NEW held \in Pages, held \in G[n - 1]
        PROVE  CaughtUp(held, news[n]) \in G[n]
    BY <1>1, <2>2, CaughtUpIs
  <2> HIDE DEF G
  <2>3. Caught(page, news) \in Pages /\ Caught(page, news) \in G[Len(news)]
    BY <2>1, <2>2, CaughtAlong
  <2> QED
    BY <2>3 DEF G
<1>4. ASSUME NEW i, \A n \in 1..Len(news) : news[n].item # i
      PROVE  i \in ToSet(Caught(page, news).ids) <=> i \in ToSet(page.ids)
  <2> DEFINE G == [n \in 0..Len(news) |->
                      {held \in Pages : i \in ToSet(held.ids) <=> i \in ToSet(page.ids)}]
  <2>1. page \in G[0]
    OBVIOUS
  <2>2. ASSUME NEW n \in 1..Len(news), NEW held \in Pages, held \in G[n - 1]
        PROVE  CaughtUp(held, news[n]) \in G[n]
    <3>1. i \in ToSet(held.ids) <=> i \in ToSet(page.ids)
      BY <1>1, <2>2
    <3>2. CaughtUp(held, news[n]) \in Pages
      BY <1>1, CaughtUpIs
    <3>3. i \in ToSet(CaughtUp(held, news[n]).ids) <=> i \in ToSet(held.ids)
      BY <1>1, <1>4, CaughtUpIs
    <3> QED
      BY <3>1, <3>2, <3>3
  <2> HIDE DEF G
  <2>3. Caught(page, news) \in Pages /\ Caught(page, news) \in G[Len(news)]
    BY <2>1, <2>2, CaughtAlong
  <2> QED
    BY <2>3 DEF G
<1> QED
  BY <1>2, <1>3, <1>4

\* Where an item of an answer is put, if it stands.
Settled(page, answer, standing, n) ==
    IF n \in standing THEN Reconciled(page, answer[n], n) ELSE page

LEMMA SettledIs ==
  ASSUME NEW page \in Pages, NEW answer, NEW standing, NEW n \in Items
  PROVE  /\ Settled(page, answer, standing, n) \in Pages
         /\ AsFar(Settled(page, answer, standing, n), page)
         /\ Tidy(page) => Tidy(Settled(page, answer, standing, n))
         /\ \A i : i # n => ( i \in ToSet(Settled(page, answer, standing, n).ids)
                                 <=> i \in ToSet(page.ids) )
<1>1. CASE n \in standing
  <2> DEFINE new == Reconciled(page, answer[n], n)
  <2>1. new \in Pages /\ AsFar(new, page) /\ (Tidy(page) => Tidy(new))
    BY ReconciledIs
  <2>2. \A i : i # n => (i \in ToSet(new.ids) <=> i \in ToSet(page.ids))
    BY ReconciledIs
  <2>3. Settled(page, answer, standing, n) = new
    BY <1>1 DEF Settled
  <2> HIDE DEF new
  <2> QED
    BY <2>1, <2>2, <2>3
<1>2. CASE n \notin standing
  BY <1>2 DEF Settled, AsFar
<1> QED
  BY <1>1, <1>2

LEMMA PlacedSteps ==
  ASSUME SurfacesAssumption, NEW page \in Pages, NEW answer, NEW standing
  PROVE  \E f : /\ f[0] = page
                /\ \A n \in Items : f[n] = Settled(f[n - 1], answer, standing, n)
                /\ f[Captures] = Placed(page, answer, standing)
<1> DEFINE step == [n \in 1..Captures |-> [held \in Pages |-> Settled(held, answer, standing, n)]]
           upTo == CHOOSE f : f = [n \in 0..Captures |->
                       IF n = 0 THEN page
                       ELSE IF n \in standing THEN Reconciled(f[n - 1], answer[n], n)
                                              ELSE f[n - 1]]
<1>1. Captures \in Nat /\ Items = 1..Captures
  BY DEF SurfacesAssumption, Items
<1>2. step \in [1..Captures -> [Pages -> Pages]]
  BY <1>1, SettledIs
<1> HIDE DEF step
<1>3. PICK g \in [0..Captures -> Pages] : Stepwise(g, Captures, page, step)
  BY <1>1, <1>2, Path
<1>4. g = [n \in 0..Captures |->
             IF n = 0 THEN page
             ELSE IF n \in standing THEN Reconciled(g[n - 1], answer[n], n) ELSE g[n - 1]]
  <2>1. ASSUME NEW n \in 0..Captures, n # 0 PROVE g[n] = Settled(g[n - 1], answer, standing, n)
    <3>1. n \in 1..Captures /\ n - 1 \in 0..Captures
      BY <1>1, <2>1
    <3>2. g[n - 1] \in Pages
      BY <1>3, <3>1
    <3>3. g[n] = step[n][g[n - 1]]
      BY <1>3, <3>1 DEF Stepwise
    <3>4. step[n][g[n - 1]] = Settled(g[n - 1], answer, standing, n)
      BY <3>1, <3>2 DEF step
    <3> QED
      BY <3>3, <3>4
  <2>2. g[0] = page
    BY <1>3 DEF Stepwise
  <2> QED
    BY <2>1, <2>2 DEF Settled
<1>5. upTo = [n \in 0..Captures |->
                IF n = 0 THEN page
                ELSE IF n \in standing THEN Reconciled(upTo[n - 1], answer[n], n)
                                       ELSE upTo[n - 1]]
  BY <1>4
<1>6. Placed(page, answer, standing) = upTo[Captures]
  BY DEF Placed
<1> HIDE DEF upTo
<1>7. upTo[0] = page /\ \A n \in Items : upTo[n] = Settled(upTo[n - 1], answer, standing, n)
  <2>1. \A n \in 0..Captures : upTo[n] = IF n = 0 THEN page ELSE Settled(upTo[n - 1], answer, standing, n)
    BY <1>5 DEF Settled
  <2>2. 0 \in 0..Captures /\ \A n \in Items : n \in 0..Captures /\ n # 0
    BY <1>1
  <2> QED
    BY <2>1, <2>2
<1> QED
  BY <1>6, <1>7

\* What lasts from one item of an answer to the next lasts to the end of them.
LEMMA PlacedAlong ==
  ASSUME SurfacesAssumption, NEW page \in Pages, NEW answer, NEW standing, NEW G, page \in G[0],
         \A n \in Items : \A held \in Pages :
             held \in G[n - 1] => Settled(held, answer, standing, n) \in G[n]
  PROVE  /\ Placed(page, answer, standing) \in Pages
         /\ Placed(page, answer, standing) \in G[Captures]
<1>1. PICK f : /\ f[0] = page
               /\ \A n \in Items : f[n] = Settled(f[n - 1], answer, standing, n)
               /\ f[Captures] = Placed(page, answer, standing)
  BY PlacedSteps
<1> DEFINE H == [n \in 0..Captures |-> {held \in Pages : held \in G[n]}]
<1>2. Captures \in Nat /\ Items = 1..Captures /\ \A n \in Items : n - 1 \in 0..Captures
  BY DEF SurfacesAssumption, Items
<1>3. f[0] \in H[0]
  BY <1>1, <1>2
<1>4. ASSUME NEW n \in 1..Captures, f[n - 1] \in H[n - 1] PROVE f[n] \in H[n]
  <2>1. f[n - 1] \in Pages /\ f[n - 1] \in G[n - 1]
    BY <1>2, <1>4
  <2>2. f[n] = Settled(f[n - 1], answer, standing, n)
    BY <1>1, <1>2
  <2>3. f[n] \in Pages /\ f[n] \in G[n]
    BY <1>2, <2>1, <2>2, SettledIs
  <2> QED
    BY <2>3
<1> HIDE DEF H
<1>5. \A n \in 0..Captures : f[n] \in H[n]
  BY <1>2, <1>3, <1>4, Along
<1>6. f[Captures] \in H[Captures]
  BY <1>2, <1>5
<1> QED
  BY <1>1, <1>2, <1>6 DEF H

LEMMA PlacedIs ==
  ASSUME SurfacesAssumption, NEW page \in Pages, NEW answer, NEW standing
  PROVE  /\ Placed(page, answer, standing) \in Pages
         /\ AsFar(Placed(page, answer, standing), page)
         /\ Tidy(page) => Tidy(Placed(page, answer, standing))
         /\ \A i : i \notin standing => ( i \in ToSet(Placed(page, answer, standing).ids)
                                             <=> i \in ToSet(page.ids) )
<1>1. Captures \in Nat /\ \A n \in Items : n \in 0..Captures /\ n - 1 \in 0..Captures
  BY DEF SurfacesAssumption, Items
<1>2. Placed(page, answer, standing) \in Pages /\ AsFar(Placed(page, answer, standing), page)
  <2> DEFINE G == [n \in 0..Captures |-> {held \in Pages : AsFar(held, page)}]
  <2>1. page \in G[0]
    BY <1>1 DEF AsFar
  <2>2. ASSUME NEW n \in Items, NEW held \in Pages, held \in G[n - 1]
        PROVE  Settled(held, answer, standing, n) \in G[n]
    <3>1. AsFar(held, page)
      BY <1>1, <2>2
    <3>2. Settled(held, answer, standing, n) \in Pages /\ AsFar(Settled(held, answer, standing, n), page)
      BY <3>1, SettledIs DEF AsFar
    <3> QED
      BY <1>1, <3>2
  <2> HIDE DEF G
  <2>3. Placed(page, answer, standing) \in Pages /\ Placed(page, answer, standing) \in G[Captures]
    BY <2>1, <2>2, PlacedAlong
  <2> QED
    BY <1>1, <2>3 DEF G
<1>3. ASSUME Tidy(page) PROVE Tidy(Placed(page, answer, standing))
  <2> DEFINE G == [n \in 0..Captures |-> {held \in Pages : Tidy(held)}]
  <2>1. page \in G[0]
    BY <1>1, <1>3
  <2>2. ASSUME NEW n \in Items, NEW held \in Pages, held \in G[n - 1]
        PROVE  Settled(held, answer, standing, n) \in G[n]
    BY <1>1, <2>2, SettledIs
  <2> HIDE DEF G
  <2>3. Placed(page, answer, standing) \in Pages /\ Placed(page, answer, standing) \in G[Captures]
    BY <2>1, <2>2, PlacedAlong
  <2> QED
    BY <1>1, <2>3 DEF G
<1>4. ASSUME NEW i, i \notin standing
      PROVE  i \in ToSet(Placed(page, answer, standing).ids) <=> i \in ToSet(page.ids)
  <2> DEFINE G == [n \in 0..Captures |->
                      {held \in Pages : i \in ToSet(held.ids) <=> i \in ToSet(page.ids)}]
  <2>1. page \in G[0]
    BY <1>1
  <2>2. ASSUME NEW n \in Items, NEW held \in Pages, held \in G[n - 1]
        PROVE  Settled(held, answer, standing, n) \in G[n]
    <3>1. i \in ToSet(held.ids) <=> i \in ToSet(page.ids)
      BY <1>1, <2>2
    <3>2. Settled(held, answer, standing, n) \in Pages
      BY SettledIs
    <3>3. i \in ToSet(Settled(held, answer, standing, n).ids) <=> i \in ToSet(held.ids)
      <4>1. CASE i = n
        BY <1>4, <4>1 DEF Settled
      <4>2. CASE i # n
        BY <4>2, SettledIs
      <4> QED
        BY <4>1, <4>2
    <3> QED
      BY <1>1, <3>1, <3>2, <3>3
  <2> HIDE DEF G
  <2>3. Placed(page, answer, standing) \in Pages /\ Placed(page, answer, standing) \in G[Captures]
    BY <2>1, <2>2, PlacedAlong
  <2> QED
    BY <1>1, <2>3 DEF G
<1> QED
  BY <1>2, <1>3, <1>4

\* What picks every row picks them all.
LEMMA PickedAll ==
  ASSUME NEW ids \in Seq(Items)
  PROVE  Picked(ids, Items) = ids
<1>1. PICK f : Picks(f, ids, Items) /\ f[Len(ids)] = Picked(ids, Items)
  BY PickedSteps
<1>2. Len(ids) \in Nat /\ \A n \in 1..Len(ids) : ids[n] \in Items /\ n - 1 \in 0..Len(ids)
  OBVIOUS
<1> DEFINE G == [n \in 0..Len(ids) |-> {SubSeq(ids, 1, n)}]
<1>3. f[0] \in G[0]
  <2>1. SubSeq(ids, 1, 0) = <<>>
    OBVIOUS
  <2> QED
    BY <1>1, <1>2, <2>1 DEF Picks
<1>4. ASSUME NEW n \in 1..Len(ids), f[n - 1] \in G[n - 1] PROVE f[n] \in G[n]
  <2>1. f[n - 1] = SubSeq(ids, 1, n - 1)
    BY <1>2, <1>4
  <2>2. f[n] = Append(SubSeq(ids, 1, n - 1), ids[n])
    BY <1>1, <1>2, <2>1 DEF Picks
  <2>3. Append(SubSeq(ids, 1, n - 1), ids[n]) = SubSeq(ids, 1, n)
    <3> DEFINE one == Append(SubSeq(ids, 1, n - 1), ids[n])
               other == SubSeq(ids, 1, n)
    <3>1. n \in Nat /\ n - 1 \in Nat /\ n <= Len(ids)
      BY <1>2
    <3>2. SubSeq(ids, 1, n - 1) \in Seq(Items) /\ Len(SubSeq(ids, 1, n - 1)) = n - 1
          /\ \A m \in 1..n - 1 : SubSeq(ids, 1, n - 1)[m] = ids[m]
      BY <3>1
    <3>3. one \in Seq(Items) /\ Len(one) = n
      BY <1>2, <3>1, <3>2
    <3>4. other \in Seq(Items) /\ Len(other) = n /\ \A m \in 1..n : other[m] = ids[m]
      BY <3>1
    <3>5. \A m \in 1..n : one[m] = ids[m]
      BY <3>1, <3>2
    <3> HIDE DEF one, other
    <3> QED
      BY <3>3, <3>4, <3>5
  <2>4. n \in 0..Len(ids) /\ f[n] = SubSeq(ids, 1, n)
    BY <1>2, <2>2, <2>3
  <2> QED
    BY <2>4
<1> HIDE DEF G
<1>5. \A n \in 0..Len(ids) : f[n] \in G[n]
  BY <1>2, <1>3, <1>4, Along
<1>6. f[Len(ids)] = SubSeq(ids, 1, Len(ids))
  BY <1>2, <1>5 DEF G
<1>7. SubSeq(ids, 1, Len(ids)) = ids
  BY <1>2
<1> QED
  BY <1>1, <1>6, <1>7

\* Nothing is no item.
LEMMA ItemsAreNot ==
  ASSUME SurfacesAssumption
  PROVE  Nothing \notin Items
BY DEF SurfacesAssumption, Items

-----------------------------------------------------------------------------
(* Reads of the queue.                                                      *)

LEMMA QueueIs ==
  ASSUME SurfacesAssumption, captured \in 0..Captures,
         NEW order, NEW after
  PROVE  /\ Queue(order, after) \in Seq(Items)
         /\ Sorted(order, Queue(order, after))
         /\ \A i : i \in ToSet(Queue(order, after)) <=>
                      /\ i \in 1..captured
                      /\ done[i] = {} /\ (after = Nothing \/ Behind(order, i, after))
<1> DEFINE all == [n \in 1..captured |-> IF order = "oldest-first" THEN n ELSE (captured + 1) - n]
           set == {i \in Items : done[i] = {} /\ (after = Nothing \/ Behind(order, i, after))}
<1>1. Captures \in Nat /\ captured \in Nat /\ 1..captured \subseteq Items
  BY DEF SurfacesAssumption, Items
<1>2. \A n \in 1..captured : all[n] \in 1..captured
  BY <1>1
<1>3. all \in Seq(Items) /\ Len(all) = captured
  BY <1>1, <1>2
<1>4. ToSet(all) = 1..captured
  <2>1. \A i \in ToSet(all) : i \in 1..captured
    BY <1>2, <1>3, Elements
  <2>2. ASSUME NEW i \in 1..captured PROVE i \in ToSet(all)
    <3>1. CASE order = "oldest-first"
      <4>1. all[i] = i
        BY <3>1
      <4> HIDE DEF all
      <4> QED
        BY <1>3, <4>1, Elements
    <3>2. CASE order # "oldest-first"
      <4>1. (captured + 1) - i \in 1..captured /\ (captured + 1) - ((captured + 1) - i) = i
        BY <1>1
      <4>2. all[(captured + 1) - i] = i
        BY <3>2, <4>1
      <4> HIDE DEF all
      <4> QED
        BY <1>3, <4>1, <4>2, Elements
    <3> QED
      BY <3>1, <3>2
  <2> QED
    BY <2>1, <2>2
<1>5. Sorted(order, all)
  BY <1>1, <1>3 DEF Sorted, Behind
<1>6. Queue(order, after) = Picked(all, set)
  BY DEF Queue
<1> HIDE DEF all, set
<1>7. /\ Picked(all, set) \in Seq(Items)
      /\ ToSet(Picked(all, set)) = ToSet(all) \cap set
      /\ Sorted(order, Picked(all, set))
  BY <1>3, <1>5, PickedIs
<1> QED
  BY <1>1, <1>4, <1>6, <1>7 DEF set

\* The first rows of what a read answers, up to a page of them.
FirstRows(rest) == SubSeq(rest, 1, IF Len(rest) < Page THEN Len(rest) ELSE Page)

LEMMA HeadIs ==
  ASSUME SurfacesAssumption, NEW order, NEW rest \in Seq(Items), Sorted(order, rest)
  PROVE  /\ FirstRows(rest) \in Seq(Items)
         /\ Sorted(order, FirstRows(rest))
         /\ Len(rest) > Page => FirstRows(rest) # <<>>
         /\ \A i : i \in ToSet(FirstRows(rest)) <=>
                      /\ i \in ToSet(rest)
                      /\ Len(rest) > Page => ~Behind(order, i, Last(FirstRows(rest)))
<1> DEFINE last == IF Len(rest) < Page THEN Len(rest) ELSE Page
<1>1. Page \in Nat \ {0} /\ Len(rest) \in Nat /\ last \in Nat /\ last <= Len(rest)
  BY DEF SurfacesAssumption
<1>2. FirstRows(rest) = SubSeq(rest, 1, last)
  BY DEF FirstRows
<1>3. /\ FirstRows(rest) \in Seq(Items) /\ Sorted(order, FirstRows(rest))
      /\ \A i : i \in ToSet(FirstRows(rest)) <=> \E n \in 1..last : rest[n] = i
  <2> HIDE DEF last
  <2> QED
    BY <1>1, <1>2, Part
<1>4. CASE ~(Len(rest) > Page)
  <2>1. last = Len(rest)
    BY <1>1, <1>4
  <2> HIDE DEF last
  <2> QED
    BY <1>3, <1>4, <2>1, Elements
<1>5. CASE Len(rest) > Page
  <2>1. last = Page /\ Page \in 1..Len(rest)
    BY <1>1, <1>5
  <2>2. Len(FirstRows(rest)) = Page /\ Last(FirstRows(rest)) = rest[Page]
    BY <1>1, <1>2, <2>1 DEF Last
  <2>3. FirstRows(rest) # <<>>
    BY <1>1, <2>2
  <2> HIDE DEF last
  <2>4. ASSUME NEW n \in 1..Len(rest)
        PROVE  n <= Page <=> ~Behind(order, rest[n], rest[Page])
    <3>1. rest[n] \in Items /\ rest[Page] \in Items
      BY <2>1
    <3>2. CASE n < Page
      <4>1. Behind(order, rest[Page], rest[n])
        BY <2>1, <3>2 DEF Sorted
      <4>2. ~Behind(order, rest[n], rest[Page])
        BY <3>1, <4>1, BehindOrders
      <4> QED
        BY <1>1, <3>2, <4>2
    <3>3. CASE n = Page
      BY <1>1, <3>1, <3>3, BehindOrders
    <3>4. CASE n > Page
      BY <1>1, <2>1, <3>4 DEF Sorted
    <3> QED
      BY <1>1, <3>2, <3>3, <3>4
  <2>5. ASSUME NEW i
        PROVE  i \in ToSet(FirstRows(rest)) <=> i \in ToSet(rest) /\ ~Behind(order, i, Last(FirstRows(rest)))
    <3>1. ASSUME i \in ToSet(FirstRows(rest))
          PROVE  i \in ToSet(rest) /\ ~Behind(order, i, Last(FirstRows(rest)))
      <4>1. PICK n \in 1..last : rest[n] = i
        BY <1>3, <3>1
      <4>2. n \in 1..Len(rest) /\ n <= Page
        BY <1>1, <2>1
      <4> QED
        BY <2>2, <2>4, <4>1, <4>2, Elements
    <3>2. ASSUME i \in ToSet(rest), ~Behind(order, i, Last(FirstRows(rest)))
          PROVE  i \in ToSet(FirstRows(rest))
      <4>1. PICK n \in 1..Len(rest) : rest[n] = i
        BY <3>2, Elements
      <4>2. n \in 1..last
        BY <1>1, <2>1, <2>2, <2>4, <3>2, <4>1
      <4> QED
        BY <1>3, <4>1, <4>2
    <3> QED
      BY <3>1, <3>2
  <2> QED
    BY <1>3, <1>5, <2>3, <2>5
<1> QED
  BY <1>4, <1>5

Copies == UNION {[set -> Copy] : set \in SUBSET Items}

Walks ==
    [page : Pages, rejoining : BOOLEAN, values : Seq(Items), more : BOOLEAN, items : Copies]

\* What a read of the queue was asked for and answers, in its order.
WalkShape(walk) ==
    /\ ~walk.page.exhausted
    /\ walk.more => walk.values # <<>>
    /\ walk.rejoining => walk.page.ids = <<>> /\ walk.page.after = Nothing
    /\ Sorted(walk.page.order, walk.values)
    /\ walk.page.after # Nothing =>
          \A i \in ToSet(walk.values) : Behind(walk.page.order, i, walk.page.after)
    /\ DOMAIN walk.items = ToSet(walk.values) /\ ToSet(walk.values) \subseteq 1..captured

LEMMA LandedIs ==
  ASSUME SurfacesAssumption, NEW walk \in Walks, WalkShape(walk), queue \in Pages
  PROVE  /\ Landed(walk) \in Pages
         /\ Landed(walk).order = walk.page.order
         /\ Landed(walk).exhausted = ~walk.more
         /\ Landed(walk).after = IF walk.more THEN Last(walk.values) ELSE Nothing
         /\ ToSet(Landed(walk).ids) = (ToSet(walk.page.ids) \cap Rows) \cup ToSet(walk.values)
         /\ walk.page.ids = <<>> => Landed(walk).ids = walk.values
         /\ Tidy(walk.page) => Tidy(Landed(walk))
<1> DEFINE kept == Picked(walk.page.ids, ToSet(queue.ids))
           fresh == Picked(walk.values, Items \ ToSet(kept))
           after == IF walk.more THEN Last(walk.values) ELSE Nothing
<1>1. walk.page \in Pages /\ walk.page.ids \in Seq(Items) /\ walk.values \in Seq(Items)
  BY DEF Walks, Pages
<1>2. /\ kept \in Seq(Items) /\ ToSet(kept) = ToSet(walk.page.ids) \cap Rows
      /\ Sorted(walk.page.order, walk.page.ids) => Sorted(walk.page.order, kept)
  BY <1>1, PickedIs DEF Rows
<1>3. /\ fresh \in Seq(Items) /\ ToSet(fresh) = ToSet(walk.values) \ ToSet(kept)
      /\ Sorted(walk.page.order, fresh)
  <2> HIDE DEF kept
  <2>1. Sorted(walk.page.order, walk.values) /\ ToSet(walk.values) \subseteq Items
    BY <1>1, Elements DEF WalkShape
  <2> QED
    BY <1>1, <2>1, PickedIs
<1>4. after \in Items \cup {Nothing} /\ (walk.more => after = Last(walk.values) /\ after \in ToSet(walk.values))
  <2>1. CASE walk.more
    <3>1. walk.values # <<>>
      BY <2>1 DEF WalkShape
    <3>2. Len(walk.values) \in 1..Len(walk.values)
      BY <1>1, <3>1
    <3>3. Last(walk.values) \in ToSet(walk.values)
      BY <1>1, <3>2, Elements DEF Last
    <3> QED
      BY <1>1, <2>1, <3>3, Elements
  <2>2. CASE ~walk.more
    BY <2>2
  <2> QED
    BY <2>1, <2>2
<1>5. Landed(walk) = [walk.page EXCEPT !.ids = kept \o fresh, !.after = after,
                         !.exhausted = ~walk.more, !.loading = FALSE, !.answered = TRUE,
                         !.failed = FALSE]
  BY DEF Landed
<1> HIDE DEF kept, fresh, after
<1>6. kept \o fresh \in Seq(Items) /\ ToSet(kept \o fresh) = ToSet(kept) \cup ToSet(fresh)
  BY <1>2, <1>3, Joined
<1> DEFINE ids == kept \o fresh
<1>7. ids \in Seq(Items) /\ ToSet(ids) = (ToSet(walk.page.ids) \cap Rows) \cup ToSet(walk.values)
  BY <1>2, <1>3, <1>6
<1>8. walk.page.ids = <<>> => ids = walk.values
  <2>1. SUFFICES ASSUME walk.page.ids = <<>> PROVE ids = walk.values
    OBVIOUS
  <2>2. ToSet(kept) = {} /\ kept = <<>>
    <3>1. ToSet(kept) = {}
      BY <1>1, <1>2, <2>1, Elements
    <3>2. ASSUME kept # <<>> PROVE FALSE
      <4>1. kept[1] \in ToSet(kept)
        BY <1>2, <3>2, Elements
      <4> QED
        BY <3>1, <4>1
    <3> QED
      BY <3>1, <3>2
  <2>3. fresh = Picked(walk.values, Items)
    BY <2>2 DEF fresh
  <2>4. Picked(walk.values, Items) = walk.values
    BY <1>1, PickedAll
  <2> QED
    BY <1>1, <2>2, <2>3, <2>4
<1> HIDE DEF ids
<1>9. /\ Landed(walk) \in Pages /\ Landed(walk).order = walk.page.order
      /\ Landed(walk).exhausted = ~walk.more /\ Landed(walk).after = after
      /\ Landed(walk).ids = ids
  <2>1. walk.more \in BOOLEAN
    BY DEF Walks
  <2> QED
    BY <1>1, <1>4, <1>5, <1>7, <2>1 DEF Pages, ids
<1>10. ASSUME Tidy(walk.page) PROVE Tidy(Landed(walk))
  <2>1. ASSUME NEW i \in ToSet(kept), NEW j \in ToSet(walk.values)
        PROVE  walk.page.after # Nothing /\ ~Behind(walk.page.order, i, walk.page.after)
               /\ Behind(walk.page.order, j, i)
    <3>1. i \in ToSet(walk.page.ids) /\ walk.page.ids # <<>> /\ i \in Items /\ j \in Items
      BY <1>1, <1>2, Elements
    <3>2. walk.page.after # Nothing /\ ~Behind(walk.page.order, i, walk.page.after)
      BY <1>1, <1>10, <3>1, Elements DEF Tidy, Within, WalkShape
    <3>3. Behind(walk.page.order, j, walk.page.after)
      BY <3>2 DEF WalkShape
    <3>4. walk.page.after \in Items
      BY <1>1, <3>2 DEF Pages
    <3>5. ASSUME NEW order, NEW k \in Items, Behind(order, j, k), ~Behind(order, i, k)
          PROVE  Behind(order, j, i)
      BY <3>1, <3>5, BehindOrders
    <3>6. Behind(walk.page.order, j, i)
      BY <3>2, <3>3, <3>4, <3>5
    <3> QED
      BY <3>2, <3>6
  <2>2. Sorted(walk.page.order, ids)
    <3>1. ASSUME NEW n \in 1..Len(kept), NEW m \in 1..Len(fresh)
          PROVE  Behind(walk.page.order, fresh[m], kept[n])
      <4>1. kept[n] \in ToSet(kept) /\ fresh[m] \in ToSet(walk.values)
        BY <1>2, <1>3, Elements
      <4> QED
        BY <2>1, <4>1
    <3> QED
      BY <1>2, <1>3, <1>10, <3>1, Joined DEF Tidy, ids
  <2>3. ASSUME walk.more, NEW n \in 1..Len(ids) PROVE ~Behind(walk.page.order, ids[n], after)
    <3>1. ids[n] \in ToSet(ids) /\ ids[n] \in Items /\ after \in Items
      BY <1>1, <1>4, <1>7, <2>3, Elements
    <3>2. CASE ids[n] \in ToSet(walk.values)
      <4>1. PICK m \in 1..Len(walk.values) : walk.values[m] = ids[n]
        BY <1>1, <3>2, Elements
      <4>2. m \in 1..Len(walk.values) /\ Len(walk.values) \in 1..Len(walk.values)
        BY <1>1, <2>3 DEF WalkShape
      <4>3. m = Len(walk.values) \/ m < Len(walk.values)
        BY <4>2
      <4>4. after = walk.values[Len(walk.values)]
        BY <1>4, <2>3 DEF Last
      <4>5. CASE m = Len(walk.values)
        BY <3>1, <4>1, <4>4, <4>5, BehindOrders
      <4>6. CASE m < Len(walk.values)
        <5>1. Behind(walk.page.order, after, ids[n])
          BY <4>1, <4>2, <4>4, <4>6 DEF WalkShape, Sorted
        <5> QED
          BY <3>1, <5>1, BehindOrders
      <4> QED
        BY <4>3, <4>5, <4>6
    <3>3. CASE ids[n] \in ToSet(kept)
      <4>1. Behind(walk.page.order, after, ids[n])
        BY <1>4, <2>1, <2>3, <3>3
      <4> QED
        BY <3>1, <4>1, BehindOrders
    <3> QED
      BY <1>2, <1>7, <3>1, <3>2, <3>3
  <2>4. CASE walk.more
    <3>1. after # Nothing
      <4>1. after \in Items
        BY <1>1, <1>4, <2>4, Elements
      <4> QED
        BY <4>1, ItemsAreNot
    <3> QED
      BY <1>9, <2>2, <2>3, <2>4, <3>1 DEF Tidy, Within
  <2>5. CASE ~walk.more
    BY <1>9, <2>2, <2>5 DEF Tidy, Within
  <2> QED
    BY <2>4, <2>5
<1> QED
  BY <1>7, <1>8, <1>9, <1>10 DEF after

\* The last row of a page in order is in front of no other.
LEMMA LastRow ==
  ASSUME NEW order, NEW ids \in Seq(Items), ids # <<>>, Sorted(order, ids)
  PROVE  /\ Last(ids) \in ToSet(ids) /\ Last(ids) \in Items
         /\ \A n \in 1..Len(ids) : ids[n] = Last(ids) \/ Behind(order, Last(ids), ids[n])
<1>1. Len(ids) \in 1..Len(ids)
  OBVIOUS
<1>2. ASSUME NEW n \in 1..Len(ids) PROVE ids[n] = Last(ids) \/ Behind(order, Last(ids), ids[n])
  <2>1. n = Len(ids) \/ n < Len(ids)
    BY <1>1
  <2> QED
    BY <1>1, <2>1 DEF Last, Sorted
<1> QED
  BY <1>1, <1>2, Elements DEF Last

\* A page is a fresh one, or that and the rows of another past its end.
JoinedTo(page, fresh, held) ==
    /\ ~fresh.exhausted /\ fresh.ids # <<>> /\ held.ids # <<>>
    /\ page.exhausted = held.exhausted
    /\ page.after = IF held.after = Nothing THEN fresh.after ELSE held.after
    /\ \A i : i \in ToSet(page.ids) <=>
                 \/ i \in ToSet(fresh.ids)
                 \/ i \in ToSet(held.ids) /\ Behind(fresh.order, i, Last(fresh.ids))

LEMMA RejoinedIs ==
  ASSUME SurfacesAssumption, NEW fresh \in Pages, NEW held \in Pages
  PROVE  /\ Rejoined(fresh, held) \in Pages
         /\ Rejoined(fresh, held).order = fresh.order
         /\ Rejoined(fresh, held) = fresh \/ JoinedTo(Rejoined(fresh, held), fresh, held)
         /\ Tidy(fresh) /\ Tidy(held) /\ fresh.order = held.order => Tidy(Rejoined(fresh, held))
<1> DEFINE past == {i \in Items : /\ fresh.ids # <<>>
                                  /\ Behind(fresh.order, i, Last(fresh.ids))
                                  /\ i \notin ToSet(fresh.ids)}
           tail == PastEnd(fresh, held)
<1>1. fresh.ids \in Seq(Items) /\ held.ids \in Seq(Items)
  BY DEF Pages
<1>2. tail = Picked(held.ids, past)
  BY DEF PastEnd
<1>3. tail \in Seq(Items) /\ ToSet(tail) = ToSet(held.ids) \cap past
  BY <1>1, <1>2, PickedIs
<1>4. Sorted(held.order, held.ids) => Sorted(held.order, tail)
  BY <1>1, <1>2, PickedIs
<1>5. CASE fresh.exhausted \/ tail = <<>>
  <2>1. Rejoined(fresh, held) = fresh
    BY <1>5 DEF Rejoined
  <2> QED
    BY <2>1
<1>6. CASE ~(fresh.exhausted \/ tail = <<>>)
  <2> DEFINE ids == fresh.ids \o tail
             after == IF held.after = Nothing THEN fresh.after ELSE held.after
             page == Rejoined(fresh, held)
  <2>1. page = [fresh EXCEPT !.ids = ids, !.exhausted = held.exhausted, !.after = after]
    BY <1>6 DEF Rejoined
  <2> HIDE DEF tail, past
  <2>2. ids \in Seq(Items) /\ ToSet(ids) = ToSet(fresh.ids) \cup ToSet(tail)
    BY <1>1, <1>3, Joined
  <2>3. PICK i \in ToSet(tail) : i \in ToSet(held.ids) /\ i \in past
    <3>1. tail[1] \in ToSet(tail)
      BY <1>3, <1>6, Elements
    <3> QED
      BY <1>3, <3>1
  <2>4. fresh.ids # <<>> /\ held.ids # <<>>
    BY <1>1, <2>3, Elements DEF past
  <2> HIDE DEF ids, after, page
  <2>5. /\ page \in Pages /\ page.order = fresh.order /\ page.ids = ids
        /\ page.exhausted = held.exhausted /\ page.after = after
    BY <2>1, <2>2 DEF Pages, after
  <2>6. \A j : j \in ToSet(tail) <=> /\ j \in ToSet(held.ids)
                                     /\ Behind(fresh.order, j, Last(fresh.ids))
                                     /\ j \notin ToSet(fresh.ids)
    BY <1>1, <1>3, <2>4, Elements DEF past
  <2>7. JoinedTo(page, fresh, held)
    BY <1>6, <2>2, <2>4, <2>5, <2>6 DEF JoinedTo, after
  <2>8. ASSUME Tidy(fresh), Tidy(held), fresh.order = held.order
        PROVE  Tidy(page)
    <3> DEFINE order == held.order
               last == Last(fresh.ids)
    <3>1. /\ Sorted(order, fresh.ids) /\ Sorted(order, held.ids) /\ Sorted(order, tail)
          /\ page.order = order
      BY <1>4, <2>5, <2>8 DEF Tidy
    <3>2. last \in Items /\ \A n \in 1..Len(fresh.ids) :
                               fresh.ids[n] = last \/ Behind(order, last, fresh.ids[n])
      BY <1>1, <2>4, <3>1, LastRow
    <3>3. \A j \in ToSet(tail) : j \in Items /\ Behind(order, j, last)
      BY <1>1, <2>6, <2>8, Elements
    <3> HIDE DEF order, last
    <3>4. ASSUME NEW n \in 1..Len(fresh.ids), NEW j \in ToSet(tail)
          PROVE  Behind(order, j, fresh.ids[n])
      <4>1. fresh.ids[n] \in Items
        BY <1>1
      <4> QED
        BY <3>2, <3>3, <4>1, BehindOrders
    <3>5. Sorted(order, ids)
      <4>1. \A m \in 1..Len(tail) : tail[m] \in ToSet(tail)
        BY <1>3, Elements
      <4> QED
        BY <1>1, <1>3, <3>1, <3>4, <4>1, Joined DEF ids
    <3>6. CASE held.exhausted
      BY <2>5, <3>1, <3>5, <3>6 DEF Tidy, Within
    <3>7. CASE ~held.exhausted
      <4>1. /\ held.after # Nothing /\ after = held.after /\ after \in Items
            /\ \A n \in 1..Len(held.ids) : ~Behind(order, held.ids[n], after)
        BY <2>4, <2>8, <3>7 DEF Tidy, Within, after, order, Pages
      <4>2. \A j \in ToSet(held.ids) : ~Behind(order, j, after)
        BY <1>1, <4>1, Elements
      <4>3. i \in Items /\ ~Behind(order, i, after)
        BY <2>3, <3>3, <4>2
      <4>4. ASSUME NEW n \in 1..Len(ids) PROVE ~Behind(order, ids[n], after)
        <5>1. ids[n] \in ToSet(fresh.ids) \/ ids[n] \in ToSet(tail)
          BY <2>2, Elements
        <5>2. CASE ids[n] \in ToSet(tail)
          BY <2>6, <4>2, <5>2
        <5>3. CASE ids[n] \in ToSet(fresh.ids)
          <6>1. PICK m \in 1..Len(fresh.ids) : fresh.ids[m] = ids[n]
            BY <1>1, <5>3, Elements
          <6>2. Behind(order, i, ids[n]) /\ ids[n] \in Items
            BY <1>1, <2>3, <3>4, <6>1
          <6> QED
            BY <4>1, <4>3, <6>2, BehindOrders
        <5> QED
          BY <5>1, <5>2, <5>3
      <4> QED
        BY <2>5, <3>1, <3>5, <4>1, <4>4 DEF Tidy, Within
    <3> QED
      BY <3>6, <3>7
  <2> QED
    BY <2>5, <2>7, <2>8 DEF page
<1> QED
  BY <1>5, <1>6

-----------------------------------------------------------------------------
(* The types of the variables, and what they name.                          *)

Operations ==
    [kind : Decisions, at : Nat, tried : BOOLEAN, sent : BOOLEAN, refused : BOOLEAN,
     answer : Copy \cup {Nothing}, before : Copy \cup {Nothing}, was : Nat]

\* An answer that was taken is one.
Answered(ops) == \A o \in ops : o.sent /\ ~o.refused => o.answer # Nothing

PoolTypes ==
    /\ captured \in 0..Captures
    /\ done \in [Items -> SUBSET Reasons]
    /\ modified \in [Items -> Nat]
    /\ log \in Seq(Entry)

ClientTypes ==
    /\ copies \in [Items -> Copy \cup {Nothing}]
    /\ queue \in Pages
    /\ walks \subseteq Walks
    /\ rereads \subseteq Copies
    /\ mark \in Nat \cup {Nothing}
    /\ asked \in Nat \cup {Nothing}
    /\ own \in [Items -> SUBSET Operations]
    /\ away \in BOOLEAN
    /\ events \in Nat

HistoryTypes ==
    /\ left \in [walks -> SUBSET Items]
    /\ astray \subseteq Items
    /\ straight \in BOOLEAN

TypeOK == PoolTypes /\ ClientTypes /\ HistoryTypes

\* As far as the log has been heard.
LastHeard == IF mark = Nothing THEN Begin ELSE mark

\* What is read, held and decided on is there, and an answer taken is one.
Known ==
    /\ \A i \in Items : i \notin 1..captured => copies[i] = Nothing /\ own[i] = {}
    /\ \A answer \in rereads : DOMAIN answer \subseteq 1..captured
    /\ \A n \in 1..Len(log) : log[n].item \in 1..captured
    /\ \A i \in Items : Answered(own[i])

Marks ==
    /\ LastHeard <= Len(log)
    /\ asked # Nothing => LastHeard <= asked /\ asked <= Len(log)

WalksShape == \A walk \in walks : WalkShape(walk)

Base == PoolTypes /\ ClientTypes /\ Known /\ Marks /\ WalksShape

LEMMA BecomesIs ==
  ASSUME NEW kind, NEW why \in SUBSET Reasons
  PROVE  /\ Becomes(kind, why) \in SUBSET Reasons
         /\ kind \in {"captured", "tagged"} => Becomes(kind, why) = why
         /\ kind = "archived" => Becomes(kind, why) = why \cup {"archived"}
         /\ kind = "unarchived" => Becomes(kind, why) = why \ {"archived"}
         /\ kind = "routed" => Becomes(kind, why) = why \cup {"routed"}
         /\ kind = "delivery-withdrawn" => Becomes(kind, why) = why \ {"routed"}
         /\ kind # "unarchived" /\ "archived" \in why => "archived" \in Becomes(kind, why)
         /\ kind # "delivery-withdrawn" /\ "routed" \in why => "routed" \in Becomes(kind, why)
BY DEF Becomes, Reasons

LEMMA Numbers ==
  ASSUME SurfacesAssumption
  PROVE  /\ Nothing \notin Items /\ Nothing \notin Nat /\ Nothing \notin Copy
         /\ Captures \in Nat /\ Begin \in 0..Captures /\ Begin \in Nat
         /\ Items = 1..Captures /\ Items \subseteq Nat
BY NothingIsNoCopy DEF SurfacesAssumption, Items

LEMMA DrawnIs ==
  ASSUME ClientTypes, NEW i \in Items, copies[i] # Nothing, NEW kind
  PROVE  /\ Drawn(kind, i) \in Copy
         /\ Drawn(kind, i).done = Becomes(kind, copies[i].done)
         /\ Drawn(kind, i).modified = copies[i].modified
<1>1. copies[i] \in Copy
  BY DEF ClientTypes
<1>2. copies[i].done \in SUBSET Reasons
  BY <1>1 DEF Copy
<1>3. Becomes(kind, copies[i].done) \in SUBSET Reasons
  BY <1>2, BecomesIs
<1> QED
  BY <1>1, <1>3 DEF Drawn, Copy

LEMMA AnswerIs ==
  ASSUME PoolTypes, NEW i \in Items
  PROVE  Answer(i) \in Copy /\ Answer(i).done = done[i] /\ Answer(i).modified = modified[i]
BY DEF Answer, PoolTypes, Copy

\* What the pool does to an item is told at the end of its log.
LEMMA HappensTypes ==
  ASSUME SurfacesAssumption, PoolTypes, NEW kind \in Kinds, NEW i \in Items, Happens(kind, i)
  PROVE  /\ done' \in [Items -> SUBSET Reasons]
         /\ modified' \in [Items -> Nat]
         /\ log' \in Seq(Entry)
         /\ Len(log') = Len(log) + 1 /\ Len(log) \in Nat
         /\ \A n \in 1..Len(log) : log'[n] = log[n]
         /\ log'[Len(log) + 1] = [kind |-> kind, item |-> i, modified |-> modified[i] + 1]
         /\ Last(log') = [kind |-> kind, item |-> i, modified |-> modified[i] + 1]
         /\ log' # log
         /\ done'[i] = Becomes(kind, done[i]) /\ modified'[i] = modified[i] + 1
         /\ \A j \in Items \ {i} : done'[j] = done[j] /\ modified'[j] = modified[j]
<1> DEFINE entry == [kind |-> kind, item |-> i, modified |-> modified[i] + 1]
<1>1. done[i] \in SUBSET Reasons /\ modified[i] \in Nat
  BY DEF PoolTypes
<1>2. Becomes(kind, done[i]) \in SUBSET Reasons
  BY <1>1, BecomesIs
<1>3. entry \in Entry
  BY <1>1 DEF Entry
<1>4. /\ done' \in [Items -> SUBSET Reasons] /\ modified' \in [Items -> Nat]
      /\ done'[i] = Becomes(kind, done[i]) /\ modified'[i] = modified[i] + 1
      /\ \A j \in Items \ {i} : done'[j] = done[j] /\ modified'[j] = modified[j]
  BY <1>1, <1>2 DEF Happens, PoolTypes
<1>5. log' = Append(log, entry) /\ log \in Seq(Entry)
  BY DEF Happens, PoolTypes
<1> HIDE DEF entry
<1>6. /\ log' \in Seq(Entry) /\ Len(log') = Len(log) + 1 /\ Len(log) \in Nat
      /\ \A n \in 1..Len(log) : log'[n] = log[n]
      /\ log'[Len(log) + 1] = entry
  BY <1>3, <1>5
<1>7. Last(log') = entry
  BY <1>6 DEF Last
<1>8. log' # log
  BY <1>6
<1> QED
  BY <1>4, <1>6, <1>7, <1>8 DEF entry

\* Whether a read of the queue answers an item, and how it was.
ReadsOf(walk, i) ==
    /\ i \in ToSet(walk.values) <=>
          /\ done[i] = {}
          /\ walk.page.after = Nothing \/ Behind(walk.page.order, i, walk.page.after)
          /\ walk.more => ~Behind(walk.page.order, i, Last(walk.values))
    /\ i \in ToSet(walk.values) => walk.items[i] = Answer(i)

Reads(walk) == \A i \in 1..captured : ReadsOf(walk, i)

LEMMA WalkIs ==
  ASSUME SurfacesAssumption, Base, NEW page \in Pages, ~page.exhausted,
         NEW rejoining \in BOOLEAN, rejoining => page.ids = <<>> /\ page.after = Nothing,
         Walk(page, rejoining)
  PROVE  /\ \E walk \in Walks : /\ walks' = walks \cup {walk}
                                /\ walk.page = page /\ walk.rejoining = rejoining
                                /\ WalkShape(walk) /\ Reads(walk)
         /\ queue' \in Pages
         /\ page.order = queue.order => AsFar(queue', queue) /\ queue'.ids = queue.ids
         /\ page.order # queue.order => AsFar(queue', page) /\ queue'.ids = page.ids
<1> DEFINE rest == Queue(page.order, page.after)
           values == FirstRows(rest)
           more == Len(rest) > Page
           items == [i \in ToSet(values) |-> Answer(i)]
           walk == [page |-> page, rejoining |-> rejoining, values |-> values, more |-> more,
                    items |-> items]
<1>1. walks' = walks \cup {walk}
  BY DEF Walk, FirstRows
<1>2. queue' = [(IF page.order = queue.order THEN queue ELSE page)
                    EXCEPT !.loading = TRUE, !.failed = FALSE]
  BY DEF Walk
<1>3. queue \in Pages /\ captured \in 0..Captures /\ PoolTypes
  BY DEF Base, ClientTypes, PoolTypes
<1>4. /\ queue' \in Pages
      /\ page.order = queue.order => AsFar(queue', queue) /\ queue'.ids = queue.ids
      /\ page.order # queue.order => AsFar(queue', page) /\ queue'.ids = page.ids
  BY <1>2, <1>3 DEF Pages, AsFar
<1>5. /\ rest \in Seq(Items) /\ Sorted(page.order, rest)
      /\ \A i : i \in ToSet(rest) <=>
                   /\ i \in 1..captured
                   /\ done[i] = {} /\ (page.after = Nothing \/ Behind(page.order, i, page.after))
  BY <1>3, QueueIs
<1> HIDE DEF rest
<1>6. /\ values \in Seq(Items) /\ Sorted(page.order, values) /\ (more => values # <<>>)
      /\ \A i : i \in ToSet(values) <=>
                   i \in ToSet(rest) /\ (more => ~Behind(page.order, i, Last(values)))
  BY <1>5, HeadIs
<1>7. more \in BOOLEAN
  OBVIOUS
<1> HIDE DEF values, more
<1>8. ToSet(values) \subseteq 1..captured /\ ToSet(values) \in SUBSET Items
  BY <1>5, <1>6, Elements
<1>9. items \in Copies
  <2>1. \A i \in ToSet(values) : Answer(i) \in Copy
    BY <1>3, <1>8, AnswerIs
  <2>2. items \in [ToSet(values) -> Copy]
    BY <2>1
  <2> HIDE DEF items
  <2> QED
    BY <1>8, <2>2 DEF Copies
<1>10. DOMAIN items = ToSet(values) /\ \A i \in ToSet(values) : items[i] = Answer(i)
  OBVIOUS
<1> HIDE DEF items
<1>11. walk \in Walks
  BY <1>6, <1>7, <1>9 DEF Walks
<1>12. WalkShape(walk)
  BY <1>5, <1>6, <1>8, <1>10 DEF WalkShape
<1>13. Reads(walk)
  BY <1>5, <1>6, <1>10 DEF Reads, ReadsOf
<1>14. walk.page = page /\ walk.rejoining = rejoining
  OBVIOUS
<1> HIDE DEF walk
<1> QED
  BY <1>1, <1>4, <1>11, <1>12, <1>13, <1>14

-----------------------------------------------------------------------------
(* What every step keeps of that.                                           *)

\* What a step of others, or the sending of an operation, does in the pool.
LEMMA PoolMoves ==
  ASSUME SurfacesAssumption, PoolTypes, ClientTypes, Known, Marks, WalksShape,
         NEW kind \in Kinds, NEW i \in Items, Happens(kind, i),
         captured' \in captured..Captures, i \in 1..captured',
         UNCHANGED <<walks, mark, asked>>
  PROVE  /\ PoolTypes' /\ Marks' /\ WalksShape'
         /\ \A n \in 1..Len(log') : log'[n].item \in 1..captured'
<1>1. /\ captured \in 0..Captures /\ captured' \in 0..Captures /\ 1..captured \subseteq 1..captured'
      /\ Captures \in Nat
  BY Numbers DEF PoolTypes
<1>2. /\ done' \in [Items -> SUBSET Reasons] /\ modified' \in [Items -> Nat]
      /\ log' \in Seq(Entry) /\ Len(log') = Len(log) + 1 /\ Len(log) \in Nat
      /\ \A n \in 1..Len(log) : log'[n] = log[n]
      /\ log'[Len(log) + 1] = [kind |-> kind, item |-> i, modified |-> modified[i] + 1]
  <2> HIDE DEF SurfacesAssumption
  <2> QED
    BY HappensTypes
<1>3. PoolTypes'
  BY <1>1, <1>2 DEF PoolTypes
<1>4. Marks'
  <2>1. /\ LastHeard \in Nat /\ LastHeard' = LastHeard /\ Begin' = Begin
        /\ asked' = asked /\ asked \in Nat \cup {Nothing}
    BY Numbers DEF LastHeard, ClientTypes
  <2> QED
    BY <1>2, <2>1 DEF Marks
<1>5. WalksShape'
  <2>1. ASSUME NEW walk \in walks, WalkShape(walk) PROVE WalkShape(walk)'
    BY <1>1, <2>1 DEF WalkShape
  <2> QED
    BY <2>1 DEF WalksShape
<1>6. \A n \in 1..Len(log') : log'[n].item \in 1..captured'
  <2>1. ASSUME NEW n \in 1..Len(log') PROVE n \in 1..Len(log) \/ n = Len(log) + 1
    BY <1>2
  <2> QED
    BY <1>1, <1>2, <2>1 DEF Known
<1> QED
  BY <1>3, <1>4, <1>5, <1>6

\* A step of the pool, whatever of the operations it changes.
LEMMA OthersKeep ==
  ASSUME SurfacesAssumption, Base, NEW kind \in Kinds, NEW i \in Items, Happens(kind, i),
         captured' \in captured..Captures, i \in 1..captured',
         UNCHANGED <<copies, queue, reads, away>>, events' \in Nat,
         own' \in [Items -> SUBSET Operations],
         \A j \in Items : (own[j] = {} => own'[j] = {}) /\ Answered(own'[j])
  PROVE  Base'
<1>1. PoolTypes /\ ClientTypes /\ Known /\ Marks /\ WalksShape
  BY DEF Base
<1>2. UNCHANGED <<copies, queue, walks, rereads, mark, asked, away>>
  BY DEF reads
<1>3. PoolTypes' /\ Marks' /\ WalksShape' /\ \A n \in 1..Len(log') : log'[n].item \in 1..captured'
  <2> HIDE DEF SurfacesAssumption
  <2> QED
    BY <1>1, <1>2, PoolMoves
<1>4. ClientTypes'
  BY <1>1, <1>2 DEF ClientTypes
<1>5. Known'
  <2>1. 1..captured \subseteq 1..captured' /\ captured' \in Nat
    BY <1>1, Numbers DEF PoolTypes
  <2> QED
    BY <1>1, <1>2, <1>3, <2>1 DEF Known
<1> QED
  BY <1>3, <1>4, <1>5 DEF Base

\* A step that leaves the pool alone and starts no read of the queue.
LEMMA ClientKeeps ==
  ASSUME SurfacesAssumption, Base, UNCHANGED pool,
         copies' \in [Items -> Copy \cup {Nothing}], queue' \in Pages, walks' \subseteq walks,
         rereads' \subseteq Copies, \A answer \in rereads' : DOMAIN answer \subseteq 1..captured,
         mark' \in Nat \cup {Nothing}, asked' \in Nat \cup {Nothing}, Marks',
         own' \in [Items -> SUBSET Operations], away' \in BOOLEAN, events' \in Nat,
         \A i \in Items :
             /\ i \notin 1..captured => copies'[i] = Nothing /\ own'[i] = {}
             /\ Answered(own'[i])
  PROVE  Base'
<1>1. PoolTypes /\ ClientTypes /\ Known /\ WalksShape
  BY DEF Base
<1>2. captured' = captured /\ done' = done /\ modified' = modified /\ log' = log
  BY DEF pool
<1>3. PoolTypes'
  BY <1>1, <1>2 DEF PoolTypes
<1>4. ClientTypes'
  BY <1>1 DEF ClientTypes
<1>5. Known'
  BY <1>1, <1>2 DEF Known
<1>6. WalksShape'
  BY <1>1, <1>2 DEF WalksShape, WalkShape
<1> QED
  BY <1>3, <1>4, <1>5, <1>6 DEF Base

\* A read of the queue goes out.
LEMMA WalkKeeps ==
  ASSUME SurfacesAssumption, Base, NEW page \in Pages, ~page.exhausted,
         NEW rejoining \in BOOLEAN, rejoining => page.ids = <<>> /\ page.after = Nothing,
         Walk(page, rejoining),
         UNCHANGED <<pool, copies, rereads, mark, asked, own>>,
         away' \in BOOLEAN, events' \in Nat
  PROVE  Base'
<1>1. PoolTypes /\ ClientTypes /\ Known /\ Marks /\ WalksShape
  BY DEF Base
<1>2. /\ captured' = captured /\ done' = done /\ modified' = modified /\ log' = log
      /\ copies' = copies /\ rereads' = rereads /\ mark' = mark /\ asked' = asked /\ own' = own
  BY DEF pool
<1>3. PICK walk \in Walks : walks' = walks \cup {walk} /\ WalkShape(walk)
  BY WalkIs
<1>4. queue' \in Pages
  BY WalkIs
<1>5. PoolTypes' /\ Known' /\ Marks'
  BY <1>1, <1>2 DEF PoolTypes, Known, Marks, LastHeard
<1>6. ClientTypes'
  BY <1>1, <1>2, <1>3, <1>4 DEF ClientTypes
<1>7. WalksShape'
  BY <1>1, <1>2, <1>3 DEF WalksShape, WalkShape
<1> QED
  BY <1>5, <1>6, <1>7 DEF Base

\* Where the news begin, and what they are.
First == IF mark >= Oldest THEN mark + 1 ELSE Oldest

LEMMA NewsAre ==
  ASSUME SurfacesAssumption, Base, asked # Nothing
  PROVE  /\ asked \in Nat /\ asked <= Len(log) /\ LastHeard \in Nat /\ LastHeard <= asked
         /\ News \in Seq(Entry)
         /\ mark = Nothing => News = <<>>
         /\ mark # Nothing =>
               /\ mark \in Nat /\ Oldest \in Nat /\ First \in Nat /\ First >= 1 /\ First > mark
               /\ Len(News) = asked - First + 1
               /\ \A n \in 1..Len(News) : /\ First + n - 1 \in 1..Len(log)
                                          /\ First + n - 1 > LastHeard /\ First + n - 1 <= asked
                                          /\ News[n] = log[First + n - 1]
               /\ \A n \in First..asked : n - First + 1 \in 1..Len(News)
         /\ \A n \in 1..Len(News) : News[n] \in Entry
<1>1. /\ log \in Seq(Entry) /\ Len(log) \in Nat /\ asked \in Nat /\ asked <= Len(log)
      /\ mark \in Nat \cup {Nothing} /\ LastHeard <= asked
  BY DEF Base, PoolTypes, ClientTypes, Marks
<1>2. LastHeard \in Nat /\ LogPage \in Nat \ {0}
  BY <1>1, Numbers DEF LastHeard, SurfacesAssumption
<1>3. CASE mark = Nothing
  <2>1. News = <<>>
    BY <1>3 DEF News
  <2> QED
    BY <1>1, <1>2, <1>3, <2>1
<1>4. CASE mark # Nothing
  <2>1. mark \in Nat /\ LastHeard = mark /\ Oldest \in Nat /\ Oldest >= 1 /\ Oldest <= asked + 1
    BY <1>1, <1>2, <1>4 DEF LastHeard, Oldest
  <2>2. First \in Nat /\ First >= 1 /\ First > mark /\ First <= asked + 1
    BY <1>1, <2>1 DEF First
  <2>3. News = SubSeq(log, First, asked)
    BY <1>4 DEF News, First
  <2> HIDE DEF First
  <2>4. /\ News \in Seq(Entry) /\ Len(News) = asked - First + 1
        /\ \A n \in 1..Len(News) : News[n] = log[First + n - 1]
    BY <1>1, <2>2, <2>3
  <2>5. ASSUME NEW n \in 1..Len(News)
        PROVE  /\ First + n - 1 \in 1..Len(log)
               /\ First + n - 1 > LastHeard /\ First + n - 1 <= asked
    BY <1>1, <2>1, <2>2, <2>4
  <2>6. \A n \in First..asked : n - First + 1 \in 1..Len(News)
    BY <1>1, <2>2, <2>4
  <2> QED
    BY <1>1, <1>2, <1>4, <2>1, <2>2, <2>4, <2>5, <2>6
<1> QED
  BY <1>3, <1>4

LEMMA EmptyPageIs ==
  ASSUME NEW order \in Orders
  PROVE  /\ EmptyPage(order) \in Pages /\ EmptyPage(order).order = order
         /\ EmptyPage(order).ids = <<>> /\ EmptyPage(order).after = Nothing
         /\ ~EmptyPage(order).exhausted /\ Tidy(EmptyPage(order))
<1>1. <<>> \in Seq(Items)
  OBVIOUS
<1>2. Sorted(order, <<>>)
  BY DEF Sorted
<1> QED
  BY <1>1, <1>2 DEF EmptyPage, Pages, Tidy, Within

\* Where an item stood on the page.
RowOf(i) == SelectInSeq(queue.ids, LAMBDA held : held = i)

LEMMA RowOfIs ==
  ASSUME queue \in Pages, NEW i
  PROVE  RowOf(i) \in Nat
<1> DEFINE T == {n \in 1..Len(queue.ids) : queue.ids[n] = i}
<1>1. queue.ids \in Seq(Items) /\ Len(queue.ids) \in Nat
  BY DEF Pages
<1>2. RowOf(i) = IF T # {} THEN Min(T) ELSE 0
  BY DEF RowOf, SelectInSeq
<1>3. T \in SUBSET (1..Len(queue.ids))
  OBVIOUS
<1> HIDE DEF T
<1>4. T # {} => Min(T) \in T
  BY <1>1, <1>3, FirstOf
<1>5. CASE T = {}
  BY <1>2, <1>5
<1>6. CASE T # {}
  <2>1. RowOf(i) = Min(T)
    BY <1>2, <1>6
  <2>2. RowOf(i) \in 1..Len(queue.ids)
    BY <1>3, <1>4, <1>6, <2>1
  <2> QED
    BY <1>1, <2>2
<1> QED
  BY <1>5, <1>6

\* What a decision, and the opposite of one, do at once.
LEMMA AppliedIs ==
  ASSUME Base, NEW i \in Items, copies[i] # Nothing, NEW kind, Applied(kind, i)
  PROVE  /\ Drawn(kind, i) \in Copy
         /\ copies' \in [Items -> Copy \cup {Nothing}]
         /\ copies'[i] = Drawn(kind, i) /\ \A j \in Items \ {i} : copies'[j] = copies[j]
         /\ queue' \in Pages /\ AsFar(queue', queue)
         /\ \A j : j # i => (j \in ToSet(queue'.ids) <=> j \in Rows)
         /\ Tidy(queue) => Tidy(queue')
<1>1. ClientTypes /\ copies \in [Items -> Copy \cup {Nothing}] /\ queue \in Pages
  BY DEF Base, ClientTypes
<1>2. Drawn(kind, i) \in Copy
  BY <1>1, DrawnIs
<1>3. copies' = [copies EXCEPT ![i] = Drawn(kind, i)]
  BY DEF Applied
<1>4. /\ queue' \in Pages /\ AsFar(queue', queue)
      /\ \A j : j # i => (j \in ToSet(queue'.ids) <=> j \in ToSet(queue.ids))
      /\ Tidy(queue) => Tidy(queue')
  <2>1. CASE kind = "archived"
    <3>1. queue' = Without(queue, i)
      BY <2>1 DEF Applied
    <3>2. /\ Without(queue, i) \in Pages /\ AsFar(Without(queue, i), queue)
          /\ ToSet(Without(queue, i).ids) = ToSet(queue.ids) \ {i}
          /\ Tidy(queue) => Tidy(Without(queue, i))
      BY <1>1, WithoutIs
    <3> QED
      BY <3>1, <3>2
  <2>2. CASE kind # "archived"
    <3>1. queue' = Reconciled(queue, Drawn(kind, i), i)
      BY <2>2 DEF Applied
    <3> QED
      BY <1>1, <3>1, ReconciledIs
  <2> QED
    BY <2>1, <2>2
<1> HIDE DEF Drawn
<1> QED
  BY <1>1, <1>2, <1>3, <1>4 DEF Rows

LEMMA OthersStep ==
  ASSUME SurfacesAssumption, Base, Others
  PROVE  /\ Base'
         /\ UNCHANGED client
         /\ \E kind \in Kinds, i \in Items :
               /\ Happens(kind, i) /\ captured' \in captured..Captures /\ i \in 1..captured'
               /\ kind \in {"archived", "routed"} => done'[i] # done[i]
               /\ kind = "captured" <=> i \notin 1..captured
               /\ 1..captured' \subseteq 1..captured \cup {i}
<1>1. /\ captured \in 0..Captures /\ Captures \in Nat /\ events \in Nat /\ own \in [Items -> SUBSET Operations]
      /\ done \in [Items -> SUBSET Reasons]
  BY Numbers DEF Base, PoolTypes, ClientTypes
<1>2. UNCHANGED client
  BY DEF Others, Captured, ChangedElsewhere
<1>3. events' \in Nat
  BY <1>1 DEF Others, Captured, ChangedElsewhere, Spent
<1>4. PICK kind \in Kinds, i \in Items :
          /\ Happens(kind, i) /\ captured' \in captured..Captures /\ i \in 1..captured'
          /\ kind \in {"archived", "routed"} => done'[i] # done[i]
          /\ kind = "captured" <=> i \notin 1..captured
          /\ 1..captured' \subseteq 1..captured \cup {i}
  <2>1. CASE Captured
    <3>1. /\ captured + 1 \in Items /\ "captured" \in Kinds /\ Happens("captured", captured + 1)
          /\ captured' = captured + 1 /\ captured' \in captured..Captures
          /\ captured + 1 \in 1..captured' /\ captured + 1 \notin 1..captured
          /\ 1..captured' \subseteq 1..captured \cup {captured + 1}
      BY <1>1, <2>1 DEF Captured, Items, Kinds
    <3> QED
      BY <3>1
  <2>2. ASSUME NEW kind \in Kinds, NEW i \in Items, ChangedElsewhere(kind, i)
        PROVE  /\ Happens(kind, i) /\ captured' \in captured..Captures /\ i \in 1..captured'
               /\ kind \in {"archived", "routed"} => done'[i] # done[i]
               /\ captured' = captured /\ kind # "captured" /\ i \in 1..captured
    <3>1. Happens(kind, i) /\ captured' = captured /\ i <= captured /\ kind # "captured"
      BY <2>2 DEF ChangedElsewhere
    <3>2. kind \in {"archived", "routed"} => ~Refuses(kind, i)
      BY <2>2 DEF ChangedElsewhere
    <3>3. done'[i] = Becomes(kind, done[i])
      BY <1>1, <3>1 DEF Happens
    <3> QED
      BY <1>1, <3>1, <3>2, <3>3 DEF Items, Refuses
  <2> QED
    BY <2>1, <2>2 DEF Others
<1>5. UNCHANGED <<copies, queue, reads, own, away>>
  BY <1>2 DEF client
<1>6. own' \in [Items -> SUBSET Operations] /\ own' = own
  BY <1>1, <1>5
<1>7. \A j \in Items : (own[j] = {} => own'[j] = {}) /\ Answered(own'[j])
  BY <1>6 DEF Base, Known
<1>8. Base'
  <2> HIDE DEF SurfacesAssumption
  <2> QED
    BY <1>3, <1>4, <1>5, <1>6, <1>7, OthersKeep
<1> QED
  BY <1>2, <1>4, <1>8

\* The operations kept of each item, when only those of one item change.
LEMMA OwnChanges ==
  ASSUME Base, NEW i \in Items, NEW ops \in SUBSET Operations, own' = [own EXCEPT ![i] = ops],
         Answered(ops)
  PROVE  /\ own' \in [Items -> SUBSET Operations]
         /\ own'[i] = ops /\ \A j \in Items \ {i} : own'[j] = own[j]
         /\ \A j \in Items : Answered(own'[j])
<1>1. own \in [Items -> SUBSET Operations]
  BY DEF Base, ClientTypes
<1>2. /\ own' \in [Items -> SUBSET Operations]
      /\ own'[i] = ops /\ \A j \in Items \ {i} : own'[j] = own[j]
  BY <1>1
<1> QED
  BY <1>2 DEF Base, Known

LEMMA DecideStep ==
  ASSUME SurfacesAssumption, Base, NEW i \in Items, NEW kind \in Decisions, Decide(kind, i)
  PROVE  /\ Base'
         /\ own[i] \subseteq own'[i] /\ \A o \in own'[i] : o \in own[i] \/ ~o.sent
         /\ \E o \in own'[i] : o.at = events
         /\ \A j \in Items \ {i} : own'[j] = own[j]
         /\ copies[i] # Nothing /\ Applied(kind, i)
         /\ UNCHANGED <<pool, reads, away>>
<1>1. /\ copies[i] # Nothing /\ Applied(kind, i)
      /\ Spent /\ UNCHANGED <<pool, reads, away>>
  BY DEF Decide
<1> DEFINE op == [kind |-> kind, at |-> events, tried |-> FALSE, sent |-> FALSE,
                  refused |-> FALSE, answer |-> Nothing, before |-> copies[i],
                  was |-> RowOf(i)]
<1>2. own' = [own EXCEPT ![i] = @ \cup {op}]
  BY DEF Decide, RowOf
<1>3. ClientTypes /\ i \in 1..captured /\ events \in Nat /\ Answered(own[i])
  BY <1>1 DEF Base, Known, ClientTypes
<1>4. RowOf(i) \in Nat /\ copies[i] \in Copy \cup {Nothing}
  BY <1>3, RowOfIs DEF ClientTypes
<1>5. op \in Operations /\ op.at = events /\ ~op.sent
  BY <1>3, <1>4 DEF Operations
<1> HIDE DEF op
<1> DEFINE ops == own[i] \cup {op}
<1>6. ops \in SUBSET Operations /\ Answered(ops) /\ own' = [own EXCEPT ![i] = ops]
  BY <1>2, <1>3, <1>5 DEF ClientTypes, Answered
<1>7. op \in ops /\ own[i] \subseteq ops /\ \A o \in ops : o \in own[i] \/ o = op
  OBVIOUS
<1> HIDE DEF ops
<1>8. /\ own' \in [Items -> SUBSET Operations]
      /\ own'[i] = ops /\ \A j \in Items \ {i} : own'[j] = own[j]
      /\ \A j \in Items : Answered(own'[j])
  BY <1>6, OwnChanges
<1>9. /\ Drawn(kind, i) \in Copy /\ queue' \in Pages
      /\ copies' \in [Items -> Copy \cup {Nothing}]
      /\ \A j \in Items \ {i} : copies'[j] = copies[j]
  BY <1>1, AppliedIs
<1>10. Base'
  <2>1. /\ UNCHANGED <<walks, rereads, mark, asked, away>> /\ UNCHANGED pool
        /\ events' \in Nat /\ away' \in BOOLEAN /\ walks' \subseteq walks /\ rereads' \subseteq Copies
        /\ mark' \in Nat \cup {Nothing} /\ asked' \in Nat \cup {Nothing}
    BY <1>1, <1>3 DEF reads, Spent, ClientTypes
  <2>2. Marks' /\ \A answer \in rereads' : DOMAIN answer \subseteq 1..captured
    BY <2>1 DEF Base, Marks, Known, pool, LastHeard
  <2>3. \A j \in Items : j \notin 1..captured => copies'[j] = Nothing /\ own'[j] = {}
    BY <1>3, <1>8, <1>9 DEF Base, Known
  <2> HIDE DEF SurfacesAssumption, Decide, Applied
  <2> QED
    BY <1>8, <1>9, <2>1, <2>2, <2>3, ClientKeeps
<1>11. \A o \in own'[i] : o \in own[i] \/ ~o.sent
  BY <1>5, <1>7, <1>8
<1>12. own[i] \subseteq own'[i] /\ \E o \in own'[i] : o.at = events
  BY <1>5, <1>7, <1>8
<1> QED
  BY <1>1, <1>8, <1>10, <1>11, <1>12

\* A step that changes one item's copy, row and operations.
LEMMA ItemKeeps ==
  ASSUME SurfacesAssumption, Base, NEW i \in 1..captured, UNCHANGED <<pool, reads>>,
         NEW copy \in Copy \cup {Nothing}, copies' = [copies EXCEPT ![i] = copy],
         queue' \in Pages,
         NEW ops \in SUBSET Operations, own' = [own EXCEPT ![i] = ops], Answered(ops),
         away' \in BOOLEAN, events' \in Nat
  PROVE  Base' /\ own'[i] = ops /\ \A j \in Items \ {i} : own'[j] = own[j]
<1>1. ClientTypes /\ i \in Items
  <2>1. captured \in 0..Captures
    BY DEF Base, PoolTypes
  <2> QED
    BY <2>1, Numbers DEF Base
<1>2. /\ own' \in [Items -> SUBSET Operations]
      /\ own'[i] = ops /\ \A j \in Items \ {i} : own'[j] = own[j]
      /\ \A j \in Items : Answered(own'[j])
  BY <1>1, OwnChanges
<1>3. copies' \in [Items -> Copy \cup {Nothing}] /\ \A j \in Items \ {i} : copies'[j] = copies[j]
  BY <1>1 DEF ClientTypes
<1>4. UNCHANGED <<captured, log, walks, rereads, mark, asked>> /\ UNCHANGED pool
  BY DEF reads, pool
<1>5. /\ walks' \subseteq walks /\ rereads' \subseteq Copies
      /\ mark' \in Nat \cup {Nothing} /\ asked' \in Nat \cup {Nothing}
  BY <1>1, <1>4 DEF ClientTypes
<1>6. Marks' /\ \A answer \in rereads' : DOMAIN answer \subseteq 1..captured
  BY <1>4 DEF Base, Marks, Known, LastHeard
<1>7. \A j \in Items : j \notin 1..captured => copies'[j] = Nothing /\ own'[j] = {}
  BY <1>2, <1>3 DEF Base, Known
<1> QED
  BY <1>2, <1>3, <1>4, <1>5, <1>6, <1>7, ClientKeeps

\* An item there is an operation of is in the pool.
LEMMA OperatedOn ==
  ASSUME SurfacesAssumption, Base, NEW i \in Items
  PROVE  /\ own[i] # {} \/ copies[i] # Nothing => i \in 1..captured
         /\ own[i] \in SUBSET Operations /\ copies[i] \in Copy \cup {Nothing}
         /\ Answered(own[i])
         /\ \A o \in own[i] : o \in Operations /\ (o.sent /\ ~o.refused => o.answer \in Copy)
<1>1. own[i] \in SUBSET Operations /\ copies[i] \in Copy \cup {Nothing} /\ Answered(own[i])
  BY DEF Base, ClientTypes, Known
<1>2. \A o \in own[i] : o \in Operations /\ o.answer \in Copy \cup {Nothing}
  BY <1>1 DEF Operations
<1> QED
  BY <1>1, <1>2 DEF Base, Known, Answered

\* An operation of an item is dropped, or another put in its place.
LEMMA OperationDropped ==
  ASSUME SurfacesAssumption, Base, NEW i \in Items, NEW gone \in SUBSET own[i]
  PROVE  own[i] \ gone \in SUBSET Operations /\ Answered(own[i] \ gone)
BY OperatedOn DEF Answered

LEMMA OperationNow ==
  ASSUME SurfacesAssumption, Base, NEW i \in Items, NEW o \in own[i], NEW op \in Operations,
         op.sent /\ ~op.refused => op.answer # Nothing
  PROVE  (own[i] \ {o}) \cup {op} \in SUBSET Operations /\ Answered((own[i] \ {o}) \cup {op})
BY OperatedOn DEF Answered

LEMMA OpposeStep ==
  ASSUME SurfacesAssumption, Base, NEW i \in Items, NEW kind \in Decisions, Oppose(kind, i)
  PROVE  /\ Base'
         /\ own'[i] \subseteq own[i] /\ own'[i] # own[i]
         /\ \A o \in own[i] : o \in own'[i] \/ ~o.sent
         /\ \A j \in Items \ {i} : own'[j] = own[j]
         /\ copies[i] # Nothing /\ Applied(kind, i)
         /\ UNCHANGED <<pool, reads, away, events>>
<1>1. copies[i] # Nothing /\ Applied(kind, i) /\ UNCHANGED <<pool, reads, away, events>>
  BY DEF Oppose
<1>2. PICK opposed \in SUBSET own[i] :
          /\ opposed # {} /\ own' = [own EXCEPT ![i] = own[i] \ opposed]
          /\ \A o \in opposed : ~o.sent
  BY DEF Oppose, Base, ClientTypes
<1> DEFINE ops == own[i] \ opposed
<1>3. /\ i \in 1..captured /\ away \in BOOLEAN /\ events \in Nat
      /\ ops \in SUBSET Operations /\ Answered(ops)
  BY <1>1, OperatedOn, OperationDropped DEF Base, ClientTypes
<1>4. /\ Drawn(kind, i) \in Copy /\ queue' \in Pages
      /\ copies' = [copies EXCEPT ![i] = Drawn(kind, i)]
  BY <1>1, AppliedIs DEF Applied
<1>5. ops \subseteq own[i] /\ ops # own[i] /\ \A o \in own[i] : o \in ops \/ ~o.sent
  BY <1>2
<1>6. own' = [own EXCEPT ![i] = ops]
  BY <1>2
<1> HIDE DEF ops
<1>7. Base' /\ own'[i] = ops /\ \A j \in Items \ {i} : own'[j] = own[j]
  <2>1. UNCHANGED <<pool, reads>> /\ away' \in BOOLEAN /\ events' \in Nat
    BY <1>1, <1>3
  <2> HIDE DEF SurfacesAssumption, Drawn
  <2> QED
    BY <1>3, <1>4, <1>6, <2>1, ItemKeeps
<1> QED
  BY <1>1, <1>5, <1>7

LEMMA SettlesStep ==
  ASSUME SurfacesAssumption, Base, NEW i \in Items, NEW o \in own[i], Settles(i, o)
  PROVE  /\ Base'
         /\ o.sent /\ ~o.refused /\ o.answer \in Copy
         /\ own'[i] = own[i] \ {o} /\ \A j \in Items \ {i} : own'[j] = own[j]
         /\ copies'[i] = o.answer /\ \A j \in Items \ {i} : copies'[j] = copies[j]
         /\ queue' = Reconciled(queue, o.answer, i)
         /\ UNCHANGED <<pool, reads, away, events>>
<1> DEFINE ops == own[i] \ {o}
<1>1. /\ o.sent /\ ~o.refused
      /\ copies' = [copies EXCEPT ![i] = o.answer]
      /\ queue' = Reconciled(queue, o.answer, i)
      /\ own' = [own EXCEPT ![i] = ops]
      /\ UNCHANGED <<pool, reads, away, events>>
  BY DEF Settles
<1>2. /\ i \in 1..captured /\ o.answer \in Copy /\ queue \in Pages
      /\ copies \in [Items -> Copy \cup {Nothing}]
      /\ away \in BOOLEAN /\ events \in Nat
  BY <1>1, OperatedOn DEF Base, ClientTypes
<1>3. ops \in SUBSET Operations /\ Answered(ops)
  BY OperationDropped
<1>4. queue' \in Pages
  BY <1>1, <1>2, ReconciledIs
<1> HIDE DEF ops
<1>5. Base' /\ own'[i] = ops /\ \A j \in Items \ {i} : own'[j] = own[j]
  <2>1. UNCHANGED <<pool, reads>> /\ away' \in BOOLEAN /\ events' \in Nat
    BY <1>1, <1>2
  <2> HIDE DEF SurfacesAssumption, Copy
  <2> QED
    BY <1>1, <1>2, <1>3, <1>4, <2>1, ItemKeeps
<1>6. copies'[i] = o.answer /\ \A j \in Items \ {i} : copies'[j] = copies[j]
  BY <1>1, <1>2
<1> QED
  BY <1>1, <1>2, <1>5, <1>6 DEF ops

LEMMA RefusedStep ==
  ASSUME SurfacesAssumption, Base, NEW i \in Items, NEW o \in own[i], Refused(i, o)
  PROVE  /\ Base'
         /\ o.sent /\ o.refused /\ o.was \in Nat
         /\ own'[i] = own[i] \ {o} /\ \A j \in Items \ {i} : own'[j] = own[j]
         /\ \A j \in Items \ {i} : copies'[j] = copies[j]
         /\ queue' = IF o.kind = "archived"
                     THEN Replaced(queue, i, o.was)
                     ELSE Reconciled(queue, o.before, i)
         /\ AsFar(queue', queue) /\ \A j : j # i => (j \in ToSet(queue'.ids) <=> j \in Rows)
         /\ UNCHANGED <<pool, reads, away, events>>
<1> DEFINE ops == own[i] \ {o}
<1>1. /\ o.sent /\ o.refused
      /\ copies' = [copies EXCEPT ![i] = o.before]
      /\ queue' = IF o.kind = "archived"
                  THEN Replaced(queue, i, o.was)
                  ELSE Reconciled(queue, o.before, i)
      /\ own' = [own EXCEPT ![i] = ops]
      /\ UNCHANGED <<pool, reads, away, events>>
  BY DEF Refused
<1>2. /\ i \in 1..captured /\ o \in Operations /\ queue \in Pages
      /\ copies \in [Items -> Copy \cup {Nothing}]
      /\ away \in BOOLEAN /\ events \in Nat
  BY <1>1, OperatedOn DEF Base, ClientTypes
<1>3. o.before \in Copy \cup {Nothing} /\ o.was \in Nat
  BY <1>2 DEF Operations
<1>4. /\ queue' \in Pages /\ AsFar(queue', queue)
      /\ \A j : j # i => (j \in ToSet(queue'.ids) <=> j \in Rows)
  <2>1. CASE o.kind = "archived"
    <3> DEFINE page == Replaced(queue, i, o.was)
    <3>1. queue' = page
      BY <1>1, <2>1
    <3>2. /\ page \in Pages /\ AsFar(page, queue)
          /\ ToSet(page.ids) \subseteq ToSet(queue.ids) \cup {i}
          /\ ToSet(queue.ids) \subseteq ToSet(page.ids)
      <4> HIDE DEF SurfacesAssumption, Copy
      <4>1. ASSUME NEW at \in Nat
            PROVE  /\ Replaced(queue, i, at) \in Pages /\ AsFar(Replaced(queue, i, at), queue)
                   /\ ToSet(Replaced(queue, i, at).ids) \subseteq ToSet(queue.ids) \cup {i}
                   /\ ToSet(queue.ids) \subseteq ToSet(Replaced(queue, i, at).ids)
        BY <1>2, ReplacedIs
      <4> QED
        BY <1>3, <4>1
    <3> HIDE DEF page
    <3> QED
      BY <3>1, <3>2 DEF Rows
  <2>2. CASE o.kind # "archived"
    <3>1. queue' = Reconciled(queue, o.before, i)
      BY <1>1, <2>2
    <3> QED
      BY <1>2, <3>1, ReconciledIs DEF Rows
  <2> QED
    BY <2>1, <2>2
<1>5. ops \in SUBSET Operations /\ Answered(ops)
  BY OperationDropped
<1> HIDE DEF ops
<1>6. Base' /\ own'[i] = ops /\ \A j \in Items \ {i} : own'[j] = own[j]
  <2>1. UNCHANGED <<pool, reads>> /\ away' \in BOOLEAN /\ events' \in Nat
    BY <1>1, <1>2
  <2> HIDE DEF SurfacesAssumption, Copy
  <2> QED
    BY <1>1, <1>2, <1>3, <1>4, <1>5, <2>1, ItemKeeps
<1>7. \A j \in Items \ {i} : copies'[j] = copies[j]
  BY <1>1, <1>2
<1> QED
  BY <1>1, <1>3, <1>4, <1>6, <1>7 DEF ops

LEMMA UnansweredStep ==
  ASSUME SurfacesAssumption, Base, NEW i \in Items, NEW o \in own[i], Unanswered(i, o)
  PROVE  /\ Base'
         /\ own'[i] # {} /\ \A p \in own'[i] : p \in own[i] \/ ~p.sent
         /\ \A j \in Items \ {i} : own'[j] = own[j]
         /\ UNCHANGED <<pool, copies, queue, reads>>
<1> DEFINE op == [o EXCEPT !.tried = TRUE, !.sent = FALSE, !.refused = FALSE, !.answer = Nothing]
           ops == (own[i] \ {o}) \cup {op}
<1>1. /\ Lost /\ UNCHANGED <<pool, copies, queue, reads>>
      /\ own' = [own EXCEPT ![i] = ops]
  BY DEF Unanswered, Now
<1>2. /\ i \in 1..captured /\ o \in Operations /\ queue \in Pages
      /\ copies \in [Items -> Copy \cup {Nothing}]
      /\ away \in BOOLEAN /\ events \in Nat
  BY OperatedOn DEF Base, ClientTypes
<1>3. op \in Operations /\ ~op.sent
  BY <1>2 DEF Operations
<1>4. ops # {} /\ \A p \in ops : p \in own[i] \/ ~p.sent
  BY <1>3
<1> HIDE DEF op
<1>5. ops \in SUBSET Operations /\ Answered(ops)
  BY <1>3, OperationNow
<1> HIDE DEF ops
<1>6. Base' /\ own'[i] = ops /\ \A j \in Items \ {i} : own'[j] = own[j]
  <2>1. /\ UNCHANGED <<pool, reads>> /\ away' \in BOOLEAN /\ events' \in Nat
        /\ copies' = [copies EXCEPT ![i] = copies[i]] /\ queue' \in Pages
        /\ copies[i] \in Copy \cup {Nothing}
    BY <1>1, <1>2 DEF Lost, Spent
  <2> HIDE DEF SurfacesAssumption, Copy
  <2> QED
    BY <1>1, <1>2, <1>5, <2>1, ItemKeeps
<1> QED
  BY <1>1, <1>4, <1>6

LEMMA SendStep ==
  ASSUME SurfacesAssumption, Base, NEW i \in Items, NEW o \in own[i], Send(i, o)
  PROVE  /\ Base'
         /\ o.kind \in Decisions /\ o.kind \in Kinds /\ own'[i] # {}
         /\ \A j \in Items \ {i} : own'[j] = own[j]
         /\ UNCHANGED <<captured, copies, queue, reads, away, events>>
         /\ \/ UNCHANGED pool /\ \A p \in own'[i] : p \in own[i] \/ p.refused
            \/ /\ Happens(o.kind, i)
               /\ \A p \in own'[i] :
                     p \in own[i] \/ p.answer = [done |-> done'[i], modified |-> modified'[i]]
<1>1. UNCHANGED <<copies, queue, reads, away, events>>
  BY DEF Send
<1>2. /\ i \in 1..captured /\ o \in Operations /\ queue \in Pages
      /\ copies \in [Items -> Copy \cup {Nothing}]
      /\ away \in BOOLEAN /\ events \in Nat /\ captured \in 0..Captures /\ Captures \in Nat
      /\ o.kind \in Decisions /\ o.kind \in Kinds
      /\ done \in [Items -> SUBSET Reasons]
  BY <1>1, OperatedOn, Numbers DEF Base, ClientTypes, PoolTypes, Operations, Decisions, Kinds
<1>3. CASE Now(i, o, [o EXCEPT !.sent = TRUE, !.refused = TRUE]) /\ UNCHANGED pool
  <2> DEFINE op == [o EXCEPT !.sent = TRUE, !.refused = TRUE]
             ops == (own[i] \ {o}) \cup {op}
  <2>1. own' = [own EXCEPT ![i] = ops]
    BY <1>3 DEF Now
  <2>2. op \in Operations /\ op.sent /\ op.refused
    BY <1>2 DEF Operations
  <2>3. ops # {} /\ \A p \in ops : p \in own[i] \/ p.refused
    BY <2>2
  <2> HIDE DEF op
  <2>4. ops \in SUBSET Operations /\ Answered(ops)
    BY <2>2, OperationNow
  <2> HIDE DEF ops
  <2>5. /\ UNCHANGED <<pool, reads>> /\ away' \in BOOLEAN /\ events' \in Nat
        /\ copies' = [copies EXCEPT ![i] = copies[i]] /\ queue' \in Pages
        /\ copies[i] \in Copy \cup {Nothing}
    BY <1>1, <1>2, <1>3
  <2>6. Base' /\ own'[i] = ops /\ \A j \in Items \ {i} : own'[j] = own[j]
    <3> HIDE DEF SurfacesAssumption, Copy
    <3> QED
      BY <1>2, <2>1, <2>4, <2>5, ItemKeeps
  <2> QED
    BY <1>1, <1>2, <1>3, <2>3, <2>6 DEF pool
<1>4. CASE /\ Happens(o.kind, i) /\ UNCHANGED captured
           /\ Now(i, o, [o EXCEPT !.sent = TRUE,
                             !.answer = [done |-> done'[i], modified |-> modified'[i]]])
  <2> DEFINE answer == [done |-> done'[i], modified |-> modified'[i]]
             op == [o EXCEPT !.sent = TRUE, !.answer = answer]
             ops == (own[i] \ {o}) \cup {op}
  <2>1. own' = [own EXCEPT ![i] = ops]
    BY <1>4 DEF Now
  <2>2. done' \in [Items -> SUBSET Reasons] /\ modified' \in [Items -> Nat] /\ PoolTypes
    <3>1. PoolTypes
      BY DEF Base
    <3> HIDE DEF SurfacesAssumption
    <3> QED
      BY <1>2, <1>4, <3>1, HappensTypes
  <2>3. answer \in Copy /\ answer # Nothing
    BY <2>2, Numbers DEF Copy
  <2> HIDE DEF answer
  <2>4. op \in Operations /\ op.answer = answer
    BY <1>2, <2>3 DEF Operations
  <2>5. ops # {} /\ \A p \in ops : p \in own[i] \/ p.answer = answer
    BY <2>4
  <2> HIDE DEF op
  <2>6. ops \in SUBSET Operations /\ Answered(ops)
    BY <2>3, <2>4, OperationNow
  <2> HIDE DEF ops
  <2>7. /\ own' \in [Items -> SUBSET Operations]
        /\ own'[i] = ops /\ \A j \in Items \ {i} : own'[j] = own[j]
        /\ \A j \in Items : Answered(own'[j])
    BY <2>1, <2>6, OwnChanges
  <2>8. \A j \in Items : own[j] = {} => own'[j] = {}
    BY <2>7
  <2>9. Base'
    <3>1. /\ UNCHANGED <<copies, queue, reads, away>> /\ events' \in Nat
          /\ captured' \in captured..Captures /\ i \in 1..captured'
      BY <1>1, <1>2, <1>4
    <3> HIDE DEF SurfacesAssumption
    <3> QED
      BY <1>2, <1>4, <2>7, <2>8, <3>1, OthersKeep
  <2> QED
    BY <1>1, <1>2, <1>4, <2>5, <2>7, <2>9 DEF answer
<1> QED
  BY <1>3, <1>4 DEF Send

\* A read of the queue going out, for more of it or for its head.
Started(walk) ==
    /\ walk \in Walks /\ walks' = walks \cup {walk}
    /\ WalkShape(walk) /\ Reads(walk)
    /\ \/ /\ walk.page = queue \/ (walk.page.ids = <<>> /\ walk.page.after = Nothing)
          /\ walk.page.order = queue.order
          /\ AsFar(queue', queue) /\ queue'.ids = queue.ids
       \/ /\ walk.page.ids = <<>> /\ walk.page.after = Nothing
          /\ AsFar(queue', walk.page) /\ queue'.ids = <<>>

LEMMA ReadStarts ==
  ASSUME SurfacesAssumption, Base,
         LoadMore \/ Enter \/ Returns \/ \E order \in Orders : Turn(order)
  PROVE  /\ Base'
         /\ UNCHANGED <<pool, copies, rereads, mark, asked, own>>
         /\ \/ walks' = walks /\ AsFar(queue', queue) /\ queue'.ids = queue.ids
            \/ \E walk \in Walks : Started(walk)
<1>1. /\ queue \in Pages /\ ClientTypes /\ away \in BOOLEAN /\ events \in Nat /\ queue.order \in Orders
  BY DEF Base, ClientTypes, Pages
<1>2. UNCHANGED <<pool, copies, rereads, mark, asked, own>> /\ away' \in BOOLEAN /\ events' \in Nat
  <2>1. UNCHANGED <<pool, copies, rereads, mark, asked, own>>
    BY DEF LoadMore, Enter, Returns, Turn
  <2>2. away' = away \/ away' = FALSE
    BY DEF LoadMore, Enter, Returns, Turn
  <2>3. events' = events \/ (events' = events - 1 /\ events > 0)
    BY DEF LoadMore, Enter, Returns, Turn, Spent
  <2>4. away' \in BOOLEAN
    BY <1>1, <2>2
  <2>5. events' \in Nat
    <3>1. events \in Nat
      BY <1>1
    <3> QED
      BY <2>3, <3>1
  <2> QED
    BY <2>1, <2>4, <2>5
<1>3. ASSUME NEW page \in Pages, ~page.exhausted, NEW rejoining \in BOOLEAN, Walk(page, rejoining),
             rejoining => page.ids = <<>> /\ page.after = Nothing,
             page = queue \/ (page.ids = <<>> /\ page.after = Nothing)
      PROVE  Base' /\ \E walk \in Walks : Started(walk)
  <2>1. Base'
    <3> HIDE DEF SurfacesAssumption
    <3> QED
      BY <1>2, <1>3, WalkKeeps
  <2>2. PICK walk \in Walks : /\ walks' = walks \cup {walk}
                              /\ walk.page = page
                              /\ WalkShape(walk) /\ Reads(walk)
    BY <1>3, WalkIs
  <2>3. /\ page.order = queue.order => AsFar(queue', queue) /\ queue'.ids = queue.ids
        /\ page.order # queue.order => AsFar(queue', page) /\ queue'.ids = page.ids
    BY <1>3, WalkIs
  <2>4. Started(walk)
    BY <1>3, <2>2, <2>3 DEF Started
  <2>6. \E other \in Walks : Started(other)
    BY <2>4
  <2> QED
    BY <2>1, <2>6
<1>4. ASSUME NEW order \in Orders, NEW answered \in BOOLEAN, NEW rejoining \in BOOLEAN,
             Walk([EmptyPage(order) EXCEPT !.answered = answered], rejoining)
      PROVE  Base' /\ \E walk \in Walks : Started(walk)
  <2> DEFINE page == [EmptyPage(order) EXCEPT !.answered = answered]
  <2>1. page \in Pages /\ page.ids = <<>> /\ page.after = Nothing /\ ~page.exhausted
    BY EmptyPageIs DEF Pages
  <2>2. Walk(page, rejoining)
    BY <1>4
  <2> HIDE DEF page
  <2> QED
    BY <1>3, <2>1, <2>2
<1>5. ASSUME NEW rejoining \in BOOLEAN, Walk(EmptyPage(queue.order), rejoining)
      PROVE  Base' /\ \E walk \in Walks : Started(walk)
  <2>1. /\ EmptyPage(queue.order) \in Pages /\ ~EmptyPage(queue.order).exhausted
        /\ EmptyPage(queue.order).ids = <<>> /\ EmptyPage(queue.order).after = Nothing
    BY <1>1, EmptyPageIs
  <2> QED
    BY <1>3, <1>5, <2>1
<1>6. ASSUME walks' = walks, queue' = queue \/ queue' = [queue EXCEPT !.failed = FALSE]
      PROVE  Base' /\ AsFar(queue', queue) /\ queue'.ids = queue.ids
  <2>1. queue' \in Pages /\ AsFar(queue', queue) /\ queue'.ids = queue.ids
    BY <1>1, <1>6 DEF Pages, AsFar
  <2>2. /\ UNCHANGED <<captured, copies, own, mark, asked, rereads, log>> /\ UNCHANGED pool
    BY <1>2 DEF pool
  <2>3. Base'
    <3>1. /\ copies' \in [Items -> Copy \cup {Nothing}] /\ own' \in [Items -> SUBSET Operations]
          /\ walks' \subseteq walks /\ rereads' \subseteq Copies
          /\ mark' \in Nat \cup {Nothing} /\ asked' \in Nat \cup {Nothing}
      BY <1>1, <1>6, <2>2 DEF ClientTypes
    <3>2. Marks' /\ \A answer \in rereads' : DOMAIN answer \subseteq 1..captured
      BY <2>2 DEF Base, Marks, LastHeard, Known
    <3>3. \A i \in Items :
             /\ i \notin 1..captured => copies'[i] = Nothing /\ own'[i] = {}
             /\ Answered(own'[i])
      BY <2>2 DEF Base, Known
    <3> HIDE DEF SurfacesAssumption
    <3> QED
      BY <1>2, <2>1, <2>2, <3>1, <3>2, <3>3, ClientKeeps
  <2> QED
    BY <2>1, <2>3
<1>7. CASE LoadMore
  <2>1. Walk(queue, FALSE) /\ ~queue.exhausted
    BY <1>7 DEF LoadMore
  <2> QED
    BY <1>1, <1>2, <1>3, <2>1
<1>8. CASE Enter
  BY <1>2, <1>5, <1>8 DEF Enter
<1>9. ASSUME NEW order \in Orders, Turn(order)
      PROVE  Base' /\ \E walk \in Walks : Started(walk)
  <2>1. Walk([EmptyPage(order) EXCEPT !.answered = queue.answered], FALSE) /\ queue.answered \in BOOLEAN
    BY <1>1, <1>9 DEF Turn, Pages
  <2> QED
    BY <1>4, <2>1
<1>10. CASE Returns
  <2>1. \/ walks' = walks /\ (queue' = queue \/ queue' = [queue EXCEPT !.failed = FALSE])
        \/ Walk(EmptyPage(queue.order), FALSE)
    BY <1>10 DEF Returns
  <2> QED
    BY <1>2, <1>5, <1>6, <2>1
<1> QED
  BY <1>2, <1>7, <1>8, <1>9, <1>10

\* A function of sets to copies, looked into.
LEMMA CopiesIs ==
  ASSUME NEW answer \in Copies
  PROVE  /\ DOMAIN answer \in SUBSET Items
         /\ \A i \in DOMAIN answer : answer[i] \in Copy
<1>1. PICK set \in SUBSET Items : answer \in [set -> Copy]
  BY DEF Copies
<1> QED
  BY <1>1

LEMMA LandsStep ==
  ASSUME SurfacesAssumption, Base, NEW walk \in walks, Lands(walk)
  PROVE  /\ Base'
         /\ walk \in Walks /\ WalkShape(walk) /\ walks' = walks \ {walk}
         /\ \A i \in Items : copies'[i] = IF i \in ToSet(walk.values) THEN walk.items[i] ELSE copies[i]
         /\ queue' = IF walk.rejoining THEN Rejoined(Landed(walk), queue) ELSE Landed(walk)
         /\ UNCHANGED <<pool, rereads, mark, asked, own, away, events>>
<1>1. /\ walks' = walks \ {walk}
      /\ copies' = [i \in Items |-> IF i \in DOMAIN walk.items THEN walk.items[i] ELSE copies[i]]
      /\ queue' = IF walk.rejoining THEN Rejoined(Landed(walk), queue) ELSE Landed(walk)
      /\ UNCHANGED <<pool, rereads, mark, asked, own, away, events>>
  BY DEF Lands
<1>2. ClientTypes /\ walk \in Walks /\ WalkShape(walk) /\ queue \in Pages
  BY DEF Base, ClientTypes, WalksShape
<1>3. walk.items \in Copies /\ DOMAIN walk.items = ToSet(walk.values) /\ ToSet(walk.values) \subseteq 1..captured
  BY <1>2 DEF Walks, WalkShape
<1>4. \A i \in ToSet(walk.values) : walk.items[i] \in Copy
  BY <1>3, CopiesIs
<1>5. queue' \in Pages
  <2>1. Landed(walk) \in Pages
    BY <1>2, LandedIs
  <2>2. Rejoined(Landed(walk), queue) \in Pages
    BY <1>2, <2>1, RejoinedIs
  <2> QED
    BY <1>1, <2>1, <2>2
<1>6. copies' \in [Items -> Copy \cup {Nothing}]
  BY <1>1, <1>2, <1>3, <1>4 DEF ClientTypes
<1>7. Base'
  <2>1. /\ UNCHANGED pool /\ UNCHANGED <<captured, log, rereads, mark, asked, own, away, events>>
        /\ walks' \subseteq walks /\ rereads' \subseteq Copies /\ own' \in [Items -> SUBSET Operations]
        /\ mark' \in Nat \cup {Nothing} /\ asked' \in Nat \cup {Nothing}
        /\ events' \in Nat
    BY <1>1, <1>2 DEF pool, ClientTypes
  <2>2. away' \in BOOLEAN
    BY <1>2, <2>1 DEF ClientTypes
  <2>3. Marks' /\ \A answer \in rereads' : DOMAIN answer \subseteq 1..captured
    BY <2>1 DEF Base, Marks, Known, LastHeard
  <2>4. \A i \in Items :
             /\ i \notin 1..captured => copies'[i] = Nothing /\ own'[i] = {}
             /\ Answered(own'[i])
    BY <1>1, <1>3, <2>1 DEF Base, Known
  <2> HIDE DEF SurfacesAssumption
  <2> QED
    BY <1>5, <1>6, <2>1, <2>2, <2>3, <2>4, ClientKeeps
<1> QED
  BY <1>1, <1>2, <1>3, <1>7

LEMMA WalkFailsStep ==
  ASSUME SurfacesAssumption, Base, NEW walk \in walks, WalkFails(walk)
  PROVE  /\ Base'
         /\ walks' = walks \ {walk}
         /\ AsFar(queue', queue) /\ queue'.ids = queue.ids
         /\ UNCHANGED <<pool, copies, rereads, mark, asked, own>>
<1>1. /\ Lost /\ walks' = walks \ {walk}
      /\ queue' = [queue EXCEPT !.loading = FALSE, !.answered = queue.ids # <<>>, !.failed = TRUE]
      /\ UNCHANGED <<pool, copies, rereads, mark, asked, own>>
  BY DEF WalkFails
<1>2. ClientTypes /\ queue \in Pages
  BY DEF Base, ClientTypes
<1>3. (queue.ids # <<>>) \in BOOLEAN
  OBVIOUS
<1>4. queue' \in Pages /\ AsFar(queue', queue) /\ queue'.ids = queue.ids
  BY <1>1, <1>2, <1>3 DEF Pages, AsFar
<1>5. Base'
  <2>1. /\ UNCHANGED <<pool, captured, log, copies, rereads, mark, asked, own>>
        /\ walks' \subseteq walks /\ rereads' \subseteq Copies /\ own' \in [Items -> SUBSET Operations]
        /\ copies' \in [Items -> Copy \cup {Nothing}]
        /\ mark' \in Nat \cup {Nothing} /\ asked' \in Nat \cup {Nothing}
    BY <1>1, <1>2 DEF pool, ClientTypes
  <2>2. events' \in Nat /\ away' \in BOOLEAN
    BY <1>1, <1>2 DEF ClientTypes, Lost, Spent
  <2>3. Marks' /\ \A answer \in rereads' : DOMAIN answer \subseteq 1..captured
    BY <2>1 DEF Base, Marks, Known, LastHeard
  <2>4. \A i \in Items :
             /\ i \notin 1..captured => copies'[i] = Nothing /\ own'[i] = {}
             /\ Answered(own'[i])
    BY <2>1 DEF Base, Known
  <2> HIDE DEF SurfacesAssumption
  <2> QED
    BY <1>4, <2>1, <2>2, <2>3, <2>4, ClientKeeps
<1> QED
  BY <1>1, <1>4, <1>5

\* A step of the watcher: what it reads and where it puts it.
LEMMA WatcherKeeps ==
  ASSUME SurfacesAssumption, Base, UNCHANGED <<pool, walks, own>>,
         copies' \in [Items -> Copy \cup {Nothing}], queue' \in Pages,
         \A i \in Items : i \notin 1..captured => copies'[i] = Nothing,
         rereads' \subseteq Copies, \A answer \in rereads' : DOMAIN answer \subseteq 1..captured,
         mark' \in Nat \cup {Nothing}, asked' \in Nat \cup {Nothing}, Marks',
         away' \in BOOLEAN, events' \in Nat
  PROVE  Base'
<1>1. ClientTypes /\ own' = own /\ walks' \subseteq walks /\ UNCHANGED pool
  BY DEF Base
<1>2. own' \in [Items -> SUBSET Operations]
  BY <1>1 DEF ClientTypes
<1>3. \A i \in Items :
             /\ i \notin 1..captured => copies'[i] = Nothing /\ own'[i] = {}
             /\ Answered(own'[i])
  BY <1>1 DEF Base, Known
<1> HIDE DEF SurfacesAssumption
<1> QED
  BY <1>1, <1>2, <1>3, ClientKeeps

\* News are entries of the log not heard before, of items the pool holds.
LEMMA NewsTell ==
  ASSUME SurfacesAssumption, Base, asked # Nothing
  PROVE  /\ \A e \in ToSet(News) :
               /\ e \in Entry /\ e.item \in 1..captured /\ e.item \in Items
               /\ \E n \in 1..Len(log) : n > LastHeard /\ n <= asked /\ log[n] = e
         /\ Heard \subseteq 1..captured /\ Heard \in SUBSET Items
<1>1. /\ News \in Seq(Entry)
      /\ mark = Nothing => News = <<>>
      /\ mark # Nothing =>
            \A n \in 1..Len(News) : /\ First + n - 1 \in 1..Len(log)
                                    /\ First + n - 1 > LastHeard /\ First + n - 1 <= asked
                                    /\ News[n] = log[First + n - 1]
  <2> HIDE DEF SurfacesAssumption
  <2> QED
    BY NewsAre
<1>2. captured \in 0..Captures /\ Captures \in Nat /\ News \in Seq(Entry)
  BY NewsAre, Numbers DEF Base, PoolTypes
<1>3. ASSUME NEW e \in ToSet(News)
      PROVE  /\ e \in Entry /\ e.item \in 1..captured /\ e.item \in Items
             /\ \E n \in 1..Len(log) : n > LastHeard /\ n <= asked /\ log[n] = e
  <2>1. PICK m \in 1..Len(News) : News[m] = e
    BY DEF ToSet
  <2>2. mark # Nothing
    <3>1. SUFFICES ASSUME mark = Nothing PROVE FALSE
      OBVIOUS
    <3>2. News = <<>>
      BY <1>1, <3>1
    <3>3. Len(News) = 0
      BY <3>2
    <3> HIDE DEF News
    <3> QED
      BY <2>1, <3>3
  <2>3. PICK n \in 1..Len(log) : n > LastHeard /\ n <= asked /\ log[n] = e
    BY <1>1, <2>1, <2>2
  <2>4. e \in Entry
    BY <1>2, <2>1
  <2>5. e.item \in 1..captured
    BY <2>3 DEF Base, Known
  <2> QED
    BY <1>2, <2>3, <2>4, <2>5, Numbers
<1>4. Heard \subseteq 1..captured
  BY <1>3 DEF Heard
<1>5. 1..captured \subseteq Items
  BY <1>2 DEF Items
<1> QED
  BY <1>3, <1>4, <1>5

LEMMA AskLandsStep ==
  ASSUME SurfacesAssumption, Base, AskLands
  PROVE  /\ Base'
         /\ asked # Nothing /\ asked' = Nothing /\ LastHeard' = asked
         /\ mark' = IF asked = 0 THEN mark ELSE asked
         /\ queue' = Caught(queue, News)
         /\ Heard = {} => rereads' = rereads
         /\ Heard # {} => \E answer \in Copies :
                             /\ rereads' = rereads \cup {answer}
                             /\ DOMAIN answer = Heard /\ \A i \in Heard : answer[i] = Answer(i)
         /\ UNCHANGED <<pool, copies, walks, own, away, events>>
<1> DEFINE answer == [i \in Heard |-> Answer(i)]
<1>1. /\ asked # Nothing /\ asked' = Nothing
      /\ mark' = IF asked = 0 THEN mark ELSE asked
      /\ queue' = Caught(queue, News)
      /\ rereads' = IF Heard = {} THEN rereads ELSE rereads \cup {answer}
      /\ UNCHANGED <<pool, copies, walks, own, away, events>>
  BY DEF AskLands
<1>2. /\ ClientTypes /\ PoolTypes /\ queue \in Pages
      /\ \A other \in rereads : DOMAIN other \subseteq 1..captured
  BY DEF Base, ClientTypes, Known
<1>3. /\ asked \in Nat /\ asked <= Len(log) /\ LastHeard <= asked /\ LastHeard \in Nat
      /\ News \in Seq(Entry)
  <2> HIDE DEF SurfacesAssumption
  <2> QED
    BY <1>1, NewsAre
<1>4. Heard \subseteq 1..captured /\ Heard \in SUBSET Items
  BY <1>1, NewsTell
<1>5. answer \in Copies /\ DOMAIN answer = Heard /\ \A i \in Heard : answer[i] = Answer(i)
  <2>1. \A i \in Heard : Answer(i) \in Copy
    BY <1>2, <1>4, AnswerIs
  <2>2. answer \in [Heard -> Copy] /\ DOMAIN answer = Heard /\ \A i \in Heard : answer[i] = Answer(i)
    BY <2>1
  <2> HIDE DEF answer, Heard
  <2> QED
    BY <1>4, <2>2 DEF Copies
<1> HIDE DEF answer, Heard
<1>6. LastHeard' = asked
  <2>1. LastHeard' = IF mark' = Nothing THEN Begin ELSE mark'
    BY DEF LastHeard
  <2>2. CASE asked = 0
    BY <1>1, <1>3, <2>1, <2>2 DEF LastHeard
  <2>3. CASE asked # 0
    BY <1>1, <2>1, <2>3
  <2> QED
    BY <2>2, <2>3
<1>7. queue' \in Pages
  BY <1>1, <1>2, <1>3, CaughtIs
<1>8. rereads' \subseteq Copies /\ \A other \in rereads' : DOMAIN other \subseteq 1..captured
  BY <1>1, <1>2, <1>4, <1>5 DEF ClientTypes
<1>9. Base'
  <2>1. /\ UNCHANGED <<pool, walks, own>> /\ copies' = copies /\ log' = log
        /\ copies' \in [Items -> Copy \cup {Nothing}] /\ events' \in Nat
        /\ mark' \in Nat \cup {Nothing} /\ asked' \in Nat \cup {Nothing}
    BY <1>1, <1>2, <1>3 DEF pool, ClientTypes
  <2>2. away' \in BOOLEAN
    BY <1>1, <1>2 DEF ClientTypes
  <2>3. Marks'
    BY <1>1, <1>3, <1>6, <2>1 DEF Marks
  <2>4. \A i \in Items : i \notin 1..captured => copies'[i] = Nothing
    BY <2>1 DEF Base, Known
  <2> HIDE DEF SurfacesAssumption
  <2> QED
    BY <1>7, <1>8, <2>1, <2>2, <2>3, <2>4, WatcherKeeps
<1>10. Heard # {} => rereads' = rereads \cup {answer}
  BY <1>1
<1>11. Heard = {} => rereads' = rereads
  BY <1>1
<1> QED
  BY <1>1, <1>5, <1>6, <1>9, <1>10, <1>11

LEMMA AsksStep ==
  ASSUME SurfacesAssumption, Base, Ask \/ AskFails
  PROVE  /\ Base' /\ UNCHANGED <<pool, copies, queue, walks, rereads, mark, own>>
<1>1. /\ UNCHANGED <<pool, copies, queue, walks, rereads, mark, own>>
  BY DEF Ask, AskFails
<1>2. ClientTypes /\ log \in Seq(Entry) /\ Len(log) \in Nat
  BY DEF Base, PoolTypes
<1>3. away' \in BOOLEAN
  BY <1>2 DEF Ask, AskFails, Lost, ClientTypes
<1>4. events' \in Nat
  BY <1>2 DEF Ask, AskFails, Lost, Spent, ClientTypes
<1>5. asked' = Nothing \/ asked' = Len(log)
  BY DEF Ask, AskFails
<1>6. Marks'
  <2>1. LastHeard' = LastHeard /\ log' = log /\ LastHeard <= Len(log)
    BY <1>1 DEF LastHeard, pool, Base, Marks
  <2> QED
    BY <1>2, <1>5, <2>1 DEF Marks
<1>7. /\ copies' \in [Items -> Copy \cup {Nothing}] /\ queue' \in Pages
      /\ rereads' \subseteq Copies /\ mark' \in Nat \cup {Nothing} /\ asked' \in Nat \cup {Nothing}
      /\ UNCHANGED <<pool, walks, own>>
  BY <1>1, <1>2, <1>5 DEF ClientTypes
<1>8. /\ \A i \in Items : i \notin 1..captured => copies'[i] = Nothing
      /\ \A answer \in rereads' : DOMAIN answer \subseteq 1..captured
  BY <1>1 DEF Base, Known
<1> HIDE DEF SurfacesAssumption
<1> QED
  BY <1>1, <1>3, <1>4, <1>6, <1>7, <1>8, WatcherKeeps

LEMMA RereadLandsStep ==
  ASSUME SurfacesAssumption, Base, NEW answer \in rereads, RereadLands(answer)
  PROVE  /\ Base'
         /\ answer \in Copies /\ rereads' = rereads \ {answer}
         /\ \A i \in Items : copies'[i] = IF Stands(answer, i) THEN answer[i] ELSE copies[i]
         /\ queue' = Placed(queue, answer, {i \in Items : Stands(answer, i)})
         /\ UNCHANGED <<pool, walks, mark, asked, own, away, events>>
<1> DEFINE standing == {i \in Items : Stands(answer, i)}
<1>1. /\ rereads' = rereads \ {answer}
      /\ copies' = [i \in Items |-> IF i \in standing THEN answer[i] ELSE copies[i]]
      /\ queue' = Placed(queue, answer, standing)
      /\ UNCHANGED <<pool, walks, mark, asked, own, away, events>>
  BY DEF RereadLands
<1>2. /\ ClientTypes /\ queue \in Pages /\ answer \in Copies
      /\ \A other \in rereads : DOMAIN other \subseteq 1..captured
  BY DEF Base, ClientTypes, Known
<1>3. \A i \in Items : copies'[i] = IF Stands(answer, i) THEN answer[i] ELSE copies[i]
  BY <1>1
<1>4. \A i \in Items : Stands(answer, i) => answer[i] \in Copy /\ i \in DOMAIN answer
  BY <1>2, CopiesIs DEF Stands
<1>5. copies' \in [Items -> Copy \cup {Nothing}]
  BY <1>1, <1>2, <1>4 DEF ClientTypes
<1> HIDE DEF standing
<1>6. queue' \in Pages
  BY <1>1, <1>2, PlacedIs
<1>7. Base'
  <2>1. /\ UNCHANGED <<pool, walks, own>> /\ log' = log
        /\ rereads' \subseteq Copies /\ events' \in Nat
        /\ mark' \in Nat \cup {Nothing} /\ asked' \in Nat \cup {Nothing}
        /\ \A other \in rereads' : DOMAIN other \subseteq 1..captured
    BY <1>1, <1>2 DEF pool, ClientTypes
  <2>2. away' \in BOOLEAN
    BY <1>1, <1>2 DEF ClientTypes
  <2>3. Marks'
    BY <1>1, <2>1 DEF Base, Marks, LastHeard
  <2>4. \A i \in Items : i \notin 1..captured => copies'[i] = Nothing
    BY <1>2, <1>3, <1>4 DEF Base, Known
  <2> HIDE DEF SurfacesAssumption
  <2> QED
    BY <1>5, <1>6, <2>1, <2>2, <2>3, <2>4, WatcherKeeps
<1> QED
  BY <1>1, <1>2, <1>3, <1>7 DEF standing

LEMMA RereadFailsStep ==
  ASSUME SurfacesAssumption, Base, NEW answer \in rereads, RereadFails(answer)
  PROVE  /\ Base'
         /\ rereads' = rereads \ {answer} /\ events \in Nat /\ events' < events
         /\ UNCHANGED <<pool, copies, queue, walks, mark, asked, own>>
<1>1. /\ Lost /\ rereads' = rereads \ {answer}
      /\ UNCHANGED <<pool, copies, queue, walks, mark, asked, own>>
  BY DEF RereadFails
<1>2. ClientTypes /\ events \in Nat
  BY DEF Base, ClientTypes
<1>3. away' \in BOOLEAN
  BY <1>1 DEF Lost
<1>4. events' \in Nat /\ events' < events
  BY <1>1, <1>2 DEF Lost, Spent
<1>5. /\ copies' \in [Items -> Copy \cup {Nothing}] /\ queue' \in Pages
      /\ rereads' \subseteq Copies /\ mark' \in Nat \cup {Nothing} /\ asked' \in Nat \cup {Nothing}
      /\ UNCHANGED <<pool, walks, own>>
  BY <1>1, <1>2 DEF ClientTypes
<1>6. /\ \A i \in Items : i \notin 1..captured => copies'[i] = Nothing
      /\ \A other \in rereads' : DOMAIN other \subseteq 1..captured
      /\ Marks'
  BY <1>1 DEF Base, Known, Marks, LastHeard, pool
<1>7. Base'
  <2> HIDE DEF SurfacesAssumption
  <2> QED
    BY <1>3, <1>4, <1>5, <1>6, WatcherKeeps
<1> QED
  BY <1>1, <1>2, <1>4, <1>7

LEMMA BaseInit ==
  ASSUME SurfacesAssumption, Init
  PROVE  Base
<1>1. Captures \in Nat /\ Begin \in 0..Captures /\ Begin \in Nat /\ 1..Begin \subseteq Items /\ Events \in Nat
  BY Numbers DEF SurfacesAssumption, Items
<1>2. \A i \in 1..Begin : [kind |-> "captured", item |-> i, modified |-> 0] \in Entry
  BY <1>1 DEF Entry, Kinds
<1>3. /\ log \in [1..Begin -> Entry] /\ log \in Seq(Entry) /\ Len(log) = Begin
      /\ \A n \in 1..Begin : log[n].item = n
  <2>1. log = [i \in 1..Begin |-> [kind |-> "captured", item |-> i, modified |-> 0]]
    BY DEF Init
  <2>2. log \in [1..Begin -> Entry] /\ \A n \in 1..Begin : log[n].item = n
    BY <1>2, <2>1
  <2> QED
    BY <1>1, <2>2
<1>4. PoolTypes
  BY <1>1, <1>3 DEF Init, PoolTypes
<1>5. ClientTypes
  <2>1. queue \in Pages
    <3>1. PICK order \in Orders : queue = EmptyPage(order)
      BY DEF Init
    <3> QED
      BY <3>1, EmptyPageIs
  <2>2. own \in [Items -> SUBSET Operations]
    BY DEF Init
  <2> QED
    BY <1>1, <2>1, <2>2 DEF Init, ClientTypes
<1>6. Known
  <2>1. \A i \in Items : copies[i] = Nothing /\ own[i] = {}
    BY DEF Init
  <2>2. rereads = {} /\ captured = Begin
    BY DEF Init
  <2> QED
    BY <1>3, <2>1, <2>2 DEF Known, Answered
<1>7. Marks /\ WalksShape
  BY <1>1, <1>3 DEF Init, Marks, LastHeard, WalksShape
<1> QED
  BY <1>4, <1>5, <1>6, <1>7 DEF Base

LEMMA BaseStep ==
  ASSUME SurfacesAssumption, Base, [Next]_vars
  PROVE  Base'
<1> HIDE DEF SurfacesAssumption
<1>1. CASE Others
  BY <1>1, OthersStep
<1>2. CASE Reader
  BY <1>2, ReadStarts, LandsStep, WalkFailsStep DEF Reader
<1>3. CASE Person
  <2>1. PICK i \in Items :
            \/ \E kind \in Decisions : Decide(kind, i) \/ Oppose(kind, i)
            \/ \E o \in own[i] : Send(i, o) \/ Settles(i, o) \/ Refused(i, o) \/ Unanswered(i, o)
    BY <1>3 DEF Person, Decisions
  <2>2. CASE \E kind \in Decisions : Decide(kind, i) \/ Oppose(kind, i)
    BY <2>2, DecideStep, OpposeStep
  <2>3. CASE \E o \in own[i] : Send(i, o) \/ Settles(i, o) \/ Refused(i, o) \/ Unanswered(i, o)
    BY <2>3, SendStep, SettlesStep, RefusedStep, UnansweredStep
  <2> QED
    BY <2>1, <2>2, <2>3
<1>4. CASE Watcher
  BY <1>4, AsksStep, AskLandsStep, RereadLandsStep, RereadFailsStep DEF Watcher
<1>5. CASE UNCHANGED vars
  <2>1. /\ captured' = captured /\ done' = done /\ modified' = modified /\ log' = log
        /\ copies' = copies /\ queue' = queue /\ walks' = walks /\ rereads' = rereads
        /\ mark' = mark /\ asked' = asked /\ own' = own /\ away' = away /\ events' = events
    BY <1>5 DEF vars, pool, client, reads
  <2> QED
    BY <2>1 DEF Base, PoolTypes, ClientTypes, Known, Marks, LastHeard, WalksShape, WalkShape
<1> QED
  BY <1>1, <1>2, <1>3, <1>4, <1>5 DEF Next

\* What is remembered is of the items there can be.
LEMMA HistoryStep ==
  ASSUME SurfacesAssumption, Base, Base', HistoryTypes, Remembered
  PROVE  HistoryTypes'
<1>1. /\ PoolTypes /\ ClientTypes /\ ClientTypes' /\ Known /\ Marks
      /\ queue \in Pages /\ queue' \in Pages
  BY DEF Base, ClientTypes
<1>2. Rows \subseteq Items /\ ToSet(queue'.ids) \subseteq Items
  BY <1>1, Elements DEF Pages, Rows
<1>3. \A answer \in rereads : DOMAIN answer \subseteq Items
  BY <1>1, CopiesIs DEF ClientTypes
<1>4. Crossed \subseteq Items /\ TaggedArchived \subseteq Items /\ RefusedNow \subseteq Items
      /\ OpposedStale \subseteq Items
  BY <1>2 DEF Crossed, Stirs, TaggedArchived, RefusedNow, OpposedStale
<1>5. LeftUnderRead \subseteq Items /\ Unread \subseteq Items
  BY <1>3 DEF LeftUnderRead, Unread
<1>6. HeardUnderAnswer \subseteq Items
  <2>1. asked # Nothing => \A e \in ToSet(News) : e.item \in Items
    <3> HIDE DEF SurfacesAssumption
    <3> QED
      BY NewsTell
  <2> QED
    BY <2>1 DEF HeardUnderAnswer
<1>7. Untold \subseteq Items
  <2>1. \A n \in 1..Len(log) : log[n].item \in Items
    <3>1. log \in Seq(Entry) /\ \A e \in Entry : e.item \in Items
      BY <1>1 DEF PoolTypes, Entry
    <3> QED
      BY <3>1
  <2>2. SUFFICES ASSUME asked # Nothing PROVE Untold \subseteq Items
    BY DEF Untold
  <2>3. /\ asked \in Nat /\ asked <= Len(log) /\ Len(log) \in Nat /\ Begin \in Nat /\ LogPage \in Nat \ {0}
        /\ mark \in Nat \cup {Nothing}
    BY <1>1, <2>2, Numbers DEF ClientTypes, Marks, PoolTypes, SurfacesAssumption
  <2>4. \A n \in Begin + 1..asked : n \in 1..Len(log)
    BY <2>3
  <2>5. mark # Nothing => \A n \in mark + 1..Oldest - 1 : n \in 1..Len(log)
    BY <2>3 DEF Oldest
  <2> QED
    BY <2>1, <2>4, <2>5 DEF Untold
<1>8. astray' \subseteq Items
  BY <1>4, <1>5, <1>6, <1>7 DEF Remembered, HistoryTypes
<1>9. straight' \in BOOLEAN
  BY DEF Remembered
<1>10. left' \in [walks' -> SUBSET Items]
  BY <1>2 DEF Remembered, HistoryTypes
<1> QED
  BY <1>8, <1>9, <1>10 DEF HistoryTypes

LEMMA HistoryInit ==
  ASSUME Init
  PROVE  HistoryTypes
<1>1. left = <<>> /\ walks = {} /\ astray = {} /\ straight = TRUE
  BY DEF Init
<1>2. <<>> \in [{} -> SUBSET Items]
  OBVIOUS
<1> QED
  BY <1>1, <1>2 DEF HistoryTypes

\* Every variable has its type; what the client holds and decides on is in the
\* pool, and marks stay within the log.
THEOREM Types == Spec => [](TypeOK /\ Base)
<1>1. SurfacesAssumption
  BY SurfacesAssumption
<1>2. Init => TypeOK /\ Base
  BY <1>1, BaseInit, HistoryInit DEF TypeOK, Base
<1>3. TypeOK /\ Base /\ [Next]_vars => (TypeOK /\ Base)'
  <2> SUFFICES ASSUME TypeOK, Base, [Next]_vars PROVE TypeOK' /\ Base'
    OBVIOUS
  <2> HIDE DEF SurfacesAssumption
  <2>1. Base'
    BY <1>1, BaseStep
  <2>2. HistoryTypes'
    <3>1. CASE Next
      BY <1>1, <2>1, <3>1, HistoryStep DEF Next, TypeOK
    <3>2. CASE UNCHANGED vars
      BY <3>2 DEF vars, client, reads, history, HistoryTypes, TypeOK
    <3> QED
      BY <3>1, <3>2
  <2> QED
    BY <2>1, <2>2 DEF TypeOK, Base
<1> QED
  BY <1>2, <1>3, PTL DEF Spec

-----------------------------------------------------------------------------
(* What the person archived stays off the queue until it is answered.       *)

\* No news puts a row where the copy says it is archived.
LEMMA NewsLeaveOut ==
  ASSUME NEW i \in Items, "archived" \in copies[i].done,
         NEW page \in Pages, i \notin ToSet(page.ids), NEW news \in Seq(Entry)
  PROVE  i \notin ToSet(Caught(page, news).ids)
<1> DEFINE Bare == {held \in Pages : i \notin ToSet(held.ids)}
           G == [n \in 0..Len(news) |-> Bare]
<1>1. ~Unprocessed(copies[i])
  BY DEF Unprocessed
<1>2. ASSUME NEW entry \in Entry, NEW held \in Pages, i \notin ToSet(held.ids)
      PROVE  CaughtUp(held, entry) \in Pages /\ i \notin ToSet(CaughtUp(held, entry).ids)
  <2>1. CaughtUp(held, entry) \in Pages
    BY CaughtUpIs
  <2>2. CASE entry.item # i
    BY <1>2, <2>2, CaughtUpIs
  <2>3. CASE entry.item = i
    <3>1. \/ CaughtUp(held, entry) = held
          \/ CaughtUp(held, entry) = Without(held, i)
          \/ CaughtUp(held, entry) = Reconciled(held, copies[i], i)
      BY <2>3 DEF CaughtUp
    <3>2. i \notin ToSet(Without(held, i).ids)
      <4>1. ToSet(Without(held, i).ids) = ToSet(held.ids) \ {i}
        BY WithoutIs
      <4> QED
        BY <4>1
    <3>3. i \notin ToSet(Reconciled(held, copies[i], i).ids)
      <4>1. Reconciled(held, copies[i], i) = Without(held, i)
        BY <1>1 DEF Reconciled
      <4> QED
        BY <3>2, <4>1
    <3> QED
      BY <1>2, <2>1, <3>1, <3>2, <3>3
  <2> QED
    BY <2>1, <2>2, <2>3
<1>3. news \in Seq(Entry) /\ Len(news) \in Nat /\ \A n \in 1..Len(news) : news[n] \in Entry
  OBVIOUS
<1>4. \A n \in 0..Len(news) : G[n] = Bare
  OBVIOUS
<1>5. page \in Bare /\ \A held \in Pages : held \in Bare <=> i \notin ToSet(held.ids)
  OBVIOUS
<1> HIDE DEF G, Bare
<1>6. page \in G[0]
  BY <1>3, <1>4, <1>5
<1>7. ASSUME NEW n \in 1..Len(news), NEW held \in Pages, held \in G[n - 1]
      PROVE  CaughtUp(held, news[n]) \in G[n]
  <2>1. G[n - 1] = Bare /\ G[n] = Bare /\ news[n] \in Entry
    BY <1>3, <1>4
  <2> QED
    BY <1>2, <1>5, <1>7, <2>1
<1>8. Caught(page, news) \in Pages /\ Caught(page, news) \in G[Len(news)]
  BY <1>6, <1>7, CaughtAlong
<1> QED
  BY <1>3, <1>4, <1>5, <1>8

\* The step of DecisionStands for one item.
StandsArchived(i) ==
    (\E o \in own[i] : o.kind = "archived") /\ "archived" \in copies[i].done /\ i \notin Rows
        => own'[i] # own[i] \/ walks' # walks \/ i \notin ToSet(queue'.ids)

\* Operations are told apart by when they were made.
Dated == \A i \in Items : \A o \in own[i] : o.at > events

LEMMA DatedStep ==
  ASSUME Base, Dated, [Next]_vars
  PROVE  Dated'
<1>1. events \in Nat /\ own \in [Items -> SUBSET Operations]
  BY DEF Base, ClientTypes
<1>2. ASSUME own' = own, events' = events \/ events' = events - 1
      PROVE  Dated'
  <2>1. ASSUME NEW i \in Items, NEW o \in own[i] PROVE o.at > events'
    <3>1. o.at \in Nat /\ o.at > events
      BY <1>1 DEF Operations, Dated
    <3> QED
      BY <1>1, <1>2, <3>1
  <2> QED
    BY <1>2, <2>1 DEF Dated
<1>3. ASSUME NEW i \in Items, NEW ops, own' = [own EXCEPT ![i] = ops],
             events' = events \/ events' = events - 1,
             \A o \in ops :
                 (\E p \in own[i] : p.at = o.at) \/ (o.at = events /\ events' = events - 1)
      PROVE  Dated'
  <2>1. ASSUME NEW j \in Items, NEW o \in own[j] PROVE o.at \in Nat /\ o.at > events /\ o.at > events'
    <3>1. o.at \in Nat /\ o.at > events
      BY <1>1 DEF Operations, Dated
    <3> QED
      BY <1>1, <1>3, <3>1
  <2>2. ASSUME NEW j \in Items, NEW o \in own'[j] PROVE o.at > events'
    <3>1. CASE j # i
      BY <1>1, <1>3, <2>1, <3>1
    <3>2. CASE j = i
      <4>1. o \in ops
        BY <1>1, <1>3, <3>2
      <4>2. ASSUME NEW p \in own[i], p.at = o.at PROVE o.at > events'
        BY <2>1, <4>2
      <4>3. ASSUME o.at = events, events' = events - 1 PROVE o.at > events'
        BY <1>1, <4>3
      <4> QED
        BY <1>3, <4>1, <4>2, <4>3
    <3> QED
      BY <3>1, <3>2
  <2> QED
    BY <2>2 DEF Dated
<1>4. CASE UNCHANGED vars
  BY <1>2, <1>4 DEF vars, client
<1>5. CASE Others
  BY <1>2, <1>5 DEF Others, Captured, ChangedElsewhere, Spent, client
<1>6. CASE Reader
  <2>1. own' = own /\ (events' = events \/ events' = events - 1)
    BY <1>6 DEF Reader, LoadMore, Enter, Returns, Turn, Lands, WalkFails, Lost, Spent
  <2> QED
    BY <1>2, <2>1
<1>7. CASE Watcher
  <2>1. own' = own /\ (events' = events \/ events' = events - 1)
    BY <1>7 DEF Watcher, Ask, AskLands, AskFails, RereadLands, RereadFails, Lost, Spent
  <2> QED
    BY <1>2, <2>1
<1>8. CASE Person
  <2>1. PICK i \in Items :
            \/ \E kind \in Decisions : Decide(kind, i) \/ Oppose(kind, i)
            \/ \E o \in own[i] : Send(i, o) \/ Settles(i, o) \/ Refused(i, o) \/ Unanswered(i, o)
    BY <1>8 DEF Person, Decisions
  <2>2. ASSUME NEW kind \in Decisions, Decide(kind, i) PROVE Dated'
    <3> DEFINE op == [kind |-> kind, at |-> events, tried |-> FALSE, sent |-> FALSE,
                      refused |-> FALSE, answer |-> Nothing, before |-> copies[i],
                      was |-> SelectInSeq(queue.ids, LAMBDA held : held = i)]
    <3>1. own' = [own EXCEPT ![i] = own[i] \cup {op}] /\ events' = events - 1
      BY <2>2 DEF Decide, Spent
    <3>2. op.at = events
      OBVIOUS
    <3> HIDE DEF op
    <3> DEFINE ops == own[i] \cup {op}
    <3>3. own' = [own EXCEPT ![i] = ops]
      BY <3>1
    <3>4. \A o \in ops :
              (\E p \in own[i] : p.at = o.at) \/ (o.at = events /\ events' = events - 1)
      BY <3>1, <3>2
    <3>5. events' = events - 1
      BY <3>1
    <3> HIDE DEF ops
    <3> QED
      BY <1>3, <3>3, <3>4, <3>5
  <2>3. ASSUME NEW kind \in Decisions, Oppose(kind, i) PROVE Dated'
    <3>1. PICK opposed : own' = [own EXCEPT ![i] = own[i] \ opposed]
      BY <2>3 DEF Oppose
    <3>2. events' = events
      BY <2>3 DEF Oppose
    <3> DEFINE ops == own[i] \ opposed
    <3>3. own' = [own EXCEPT ![i] = ops]
      BY <3>1
    <3>4. \A o \in ops :
              (\E p \in own[i] : p.at = o.at) \/ (o.at = events /\ events' = events - 1)
      OBVIOUS
    <3> HIDE DEF ops
    <3> QED
      BY <1>3, <3>2, <3>3, <3>4
  <2>4. ASSUME NEW o \in own[i], Settles(i, o) \/ Refused(i, o) PROVE Dated'
    <3>1. own' = [own EXCEPT ![i] = own[i] \ {o}] /\ events' = events
      BY <2>4 DEF Settles, Refused
    <3> QED
      BY <1>3, <3>1
  <2>5. ASSUME NEW o \in own[i], NEW op, Now(i, o, op), op.at = o.at,
               events' = events \/ events' = events - 1
        PROVE  Dated'
    <3>1. own' = [own EXCEPT ![i] = (own[i] \ {o}) \cup {op}]
      BY <2>5 DEF Now
    <3> QED
      BY <1>3, <2>5, <3>1
  <2>6. ASSUME NEW o \in own[i], Send(i, o) PROVE Dated'
    <3>1. events' = events
      BY <2>6 DEF Send
    <3>2. o \in Operations
      BY <1>1
    <3>3. ([o EXCEPT !.sent = TRUE, !.refused = TRUE]).at = o.at
      BY <3>2 DEF Operations
    <3>4. ([o EXCEPT !.sent = TRUE,
                     !.answer = [done |-> done'[i], modified |-> modified'[i]]]).at = o.at
      BY <3>2 DEF Operations
    <3> QED
      BY <2>5, <2>6, <3>1, <3>3, <3>4 DEF Send
  <2>7. ASSUME NEW o \in own[i], Unanswered(i, o) PROVE Dated'
    <3>1. o \in Operations /\ events' = events - 1
      BY <1>1, <2>7 DEF Unanswered, Lost, Spent
    <3>2. ([o EXCEPT !.tried = TRUE, !.sent = FALSE, !.refused = FALSE,
                     !.answer = Nothing]).at = o.at
      BY <3>1 DEF Operations
    <3> QED
      BY <2>5, <2>7, <3>1, <3>2 DEF Unanswered
  <2> QED
    BY <2>1, <2>2, <2>3, <2>4, <2>6, <2>7
<1> QED
  BY <1>4, <1>5, <1>6, <1>7, <1>8 DEF Next

LEMMA DecisionStandsStep ==
  ASSUME SurfacesAssumption, Base, Dated, Next, NEW i \in Items
  PROVE  StandsArchived(i)
<1> HIDE DEF SurfacesAssumption
<1> SUFFICES ASSUME own[i] # {}, "archived" \in copies[i].done, i \notin Rows,
                    own'[i] = own[i], walks' = walks
             PROVE  i \notin ToSet(queue'.ids)
  BY DEF StandsArchived
<1>1. queue \in Pages /\ i \notin ToSet(queue.ids)
  BY DEF Base, ClientTypes, Rows
<1>2. CASE Others
  <2>1. queue' = queue
    BY <1>2, OthersStep DEF client
  <2> QED
    BY <1>1, <2>1
<1>3. CASE Reader
  <2>1. CASE LoadMore \/ Enter \/ Returns \/ \E order \in Orders : Turn(order)
    <3>1. queue'.ids = queue.ids \/ queue'.ids = <<>>
      BY <2>1, ReadStarts DEF Started
    <3>2. ToSet(<<>>) = {}
      BY DEF ToSet
    <3> QED
      BY <1>1, <3>1, <3>2
  <2>2. ASSUME NEW walk \in walks, Lands(walk) \/ WalkFails(walk) PROVE FALSE
    <3>1. walks' = walks \ {walk}
      BY <2>2 DEF Lands, WalkFails
    <3> QED
      BY <3>1
  <2> QED
    BY <1>3, <2>1, <2>2 DEF Reader
<1>4. CASE Person
  <2>1. PICK j \in Items :
            \/ \E kind \in Decisions : Decide(kind, j) \/ Oppose(kind, j)
            \/ \E o \in own[j] : Send(j, o) \/ Settles(j, o) \/ Refused(j, o) \/ Unanswered(j, o)
    BY <1>4 DEF Person, Decisions
  <2>2. ASSUME NEW kind \in Decisions, Decide(kind, j) \/ Oppose(kind, j)
        PROVE  i \notin ToSet(queue'.ids)
    <3>1. j # i
      <4>1. CASE Decide(kind, j)
        <5>1. \E o \in own'[j] : o.at = events
          BY <4>1, DecideStep
        <5>2. events \in Nat /\ \A o \in own[j] : o.at > events
          BY DEF Base, ClientTypes, Dated
        <5> QED
          BY <5>1, <5>2
      <4>2. CASE Oppose(kind, j)
        BY <4>2, OpposeStep
      <4> QED
        BY <2>2, <4>1, <4>2
    <3>2. copies[j] # Nothing /\ Applied(kind, j)
      BY <2>2 DEF Decide, Oppose
    <3> QED
      BY <3>1, <3>2, AppliedIs
  <2>3. ASSUME NEW o \in own[j], Send(j, o) \/ Unanswered(j, o)
        PROVE  i \notin ToSet(queue'.ids)
    <3>1. queue' = queue
      BY <2>3, SendStep, UnansweredStep
    <3> QED
      BY <1>1, <3>1
  <2>4. ASSUME NEW o \in own[j], Settles(j, o) PROVE i \notin ToSet(queue'.ids)
    <3>1. own'[j] = own[j] \ {o} /\ queue' = Reconciled(queue, o.answer, j)
      BY <2>4, SettlesStep
    <3>2. j # i
      BY <3>1
    <3> QED
      BY <1>1, <3>1, <3>2, ReconciledIs
  <2>5. ASSUME NEW o \in own[j], Refused(j, o) PROVE i \notin ToSet(queue'.ids)
    <3>1. /\ own'[j] = own[j] \ {o}
          /\ \A k : k # j => (k \in ToSet(queue'.ids) <=> k \in Rows)
      BY <2>5, RefusedStep
    <3>2. j # i
      BY <3>1
    <3> QED
      BY <3>1, <3>2
  <2> QED
    BY <2>1, <2>2, <2>3, <2>4, <2>5
<1>5. CASE Watcher
  <2>1. CASE Ask \/ AskFails \/ \E answer \in rereads : RereadFails(answer)
    <3>1. queue' = queue
      BY <2>1 DEF Ask, AskFails, RereadFails
    <3> QED
      BY <1>1, <3>1
  <2>2. CASE AskLands
    <3>1. queue' = Caught(queue, News) /\ asked # Nothing
      BY <2>2 DEF AskLands
    <3>2. News \in Seq(Entry)
      BY <3>1, NewsAre
    <3> QED
      BY <1>1, <3>1, <3>2, NewsLeaveOut
  <2>3. ASSUME NEW answer \in rereads, RereadLands(answer)
        PROVE  i \notin ToSet(queue'.ids)
    <3> DEFINE standing == {k \in Items : Stands(answer, k)}
    <3>1. queue' = Placed(queue, answer, standing)
      BY <2>3 DEF RereadLands
    <3>2. i \notin standing
      BY DEF Stands
    <3> HIDE DEF standing
    <3> QED
      BY <1>1, <3>1, <3>2, PlacedIs
  <2> QED
    BY <1>5, <2>1, <2>2, <2>3 DEF Watcher
<1> QED
  BY <1>2, <1>3, <1>4, <1>5 DEF Next

\* What the person archived here and the pool has not answered yet comes back
\* by a read of the queue, by what becomes of an operation of the same item or
\* not at all: no news, no read the news asked for and nothing decided or
\* answered of another item puts its row back (heard, unsent).
THEOREM ArchivedStaysOut == Spec => DecisionStands
<1>1. SurfacesAssumption
  BY SurfacesAssumption
<1>2. Init => Dated
  BY DEF Init, Dated
<1>3. Base /\ Dated /\ [Next]_vars => Dated'
  BY DatedStep
<1>4. Base /\ Dated /\ [Next]_vars =>
          [\A i \in Items :
              (\E o \in own[i] : o.kind = "archived") /\ "archived" \in copies[i].done /\ i \notin Rows
                  => own'[i] # own[i] \/ walks' # walks \/ i \notin ToSet(queue'.ids)]_vars
  <2> HIDE DEF SurfacesAssumption
  <2>1. ASSUME Base, Dated, Next, NEW i \in Items PROVE StandsArchived(i)
    BY <1>1, <2>1, DecisionStandsStep
  <2> QED
    BY <2>1 DEF StandsArchived
<1> QED
  BY <1>2, <1>3, <1>4, Types, PTL DEF Spec, DecisionStands

-----------------------------------------------------------------------------
(* Rows stand in order.                                                     *)

\* Pages, the one drawn and those that reads were asked for, are in order and
\* reach no further than they were read to.
Straight == straight => Tidy(queue) /\ \A walk \in walks : Tidy(walk.page)

LEMMA TidyPages ==
  ASSUME NEW page \in Pages, NEW other \in Pages
  PROVE  /\ page.ids = <<>> => Tidy(page)
         /\ Tidy(page) /\ AsFar(other, page) /\ other.ids = page.ids => Tidy(other)
<1>1. page.ids = <<>> => Tidy(page)
  BY DEF Tidy, Within, Sorted
<1>2. Tidy(page) /\ AsFar(other, page) /\ other.ids = page.ids => Tidy(other)
  BY DEF Tidy, Within, AsFar
<1> QED
  BY <1>1, <1>2

\* A step that leaves the reads of the queue as they are, or ends some.
LEMMA TidyStep ==
  ASSUME SurfacesAssumption, Base, Base', Others \/ Reader \/ Person \/ Watcher, ~Tilts,
         Tidy(queue), \A walk \in walks : Tidy(walk.page)
  PROVE  Tidy(queue') /\ \A walk \in walks' : Tidy(walk.page)
<1> HIDE DEF SurfacesAssumption
<1>1. /\ queue \in Pages /\ queue' \in Pages /\ walks \subseteq Walks
      /\ \A walk \in Walks : walk.page \in Pages
  BY DEF Base, ClientTypes, Walks
<1>2. ASSUME AsFar(queue', queue), queue'.ids = queue.ids PROVE Tidy(queue')
  BY <1>1, <1>2, TidyPages
<1>3. ASSUME queue' = queue, walks' \subseteq walks
      PROVE  Tidy(queue') /\ \A walk \in walks' : Tidy(walk.page)
  BY <1>3
<1>4. CASE Others
  <2>1. queue' = queue /\ walks' = walks
    BY <1>4, OthersStep DEF client, reads
  <2> QED
    BY <1>3, <2>1
<1>5. CASE LoadMore \/ Enter \/ Returns \/ \E order \in Orders : Turn(order)
  <2>1. CASE walks' = walks /\ AsFar(queue', queue) /\ queue'.ids = queue.ids
    BY <1>2, <2>1
  <2>2. CASE \E walk \in Walks : Started(walk)
    <3>1. PICK walk \in Walks : Started(walk)
      BY <2>2
    <3>2. Tidy(walk.page)
      BY <1>1, <3>1, TidyPages DEF Started
    <3>3. Tidy(queue')
      <4>1. CASE AsFar(queue', queue) /\ queue'.ids = queue.ids
        BY <1>2, <4>1
      <4>2. CASE queue'.ids = <<>>
        BY <1>1, <4>2, TidyPages
      <4> QED
        BY <3>1, <4>1, <4>2 DEF Started
    <3> QED
      BY <3>1, <3>2, <3>3 DEF Started
  <2> QED
    BY <1>5, <2>1, <2>2, ReadStarts
<1>6. ASSUME NEW walk \in walks, Lands(walk)
      PROVE  Tidy(queue') /\ \A other \in walks' : Tidy(other.page)
  <2>1. /\ walk \in Walks /\ WalkShape(walk) /\ walks' = walks \ {walk}
        /\ queue' = IF walk.rejoining THEN Rejoined(Landed(walk), queue) ELSE Landed(walk)
    BY <1>6, LandsStep
  <2>2. /\ Landed(walk) \in Pages /\ Tidy(Landed(walk)) /\ Landed(walk).order = walk.page.order
    BY <1>1, <2>1, LandedIs
  <2>3. walk.rejoining => Tidy(Rejoined(Landed(walk), queue))
    <3>1. walk.rejoining => walk.page.order = queue.order
      BY <2>1 DEF Tilts
    <3> QED
      BY <1>1, <2>2, <3>1, RejoinedIs
  <2> QED
    BY <2>1, <2>2, <2>3
<1>7. ASSUME NEW walk \in walks, WalkFails(walk)
      PROVE  Tidy(queue') /\ \A other \in walks' : Tidy(other.page)
  <2>1. walks' = walks \ {walk} /\ AsFar(queue', queue) /\ queue'.ids = queue.ids
    BY <1>7, WalkFailsStep
  <2> QED
    BY <1>2, <2>1
<1>8. CASE Person
  <2>1. PICK i \in Items :
            \/ \E kind \in Decisions : Decide(kind, i) \/ Oppose(kind, i)
            \/ \E o \in own[i] : Send(i, o) \/ Settles(i, o) \/ Refused(i, o) \/ Unanswered(i, o)
    BY <1>8 DEF Person, Decisions
  <2>2. walks' = walks
    BY <2>1 DEF Decide, Oppose, Send, Settles, Refused, Unanswered, reads
  <2>3. ASSUME NEW kind \in Decisions, Decide(kind, i) \/ Oppose(kind, i)
        PROVE  Tidy(queue')
    <3>1. copies[i] # Nothing /\ Applied(kind, i)
      BY <2>3 DEF Decide, Oppose
    <3> QED
      BY <3>1, AppliedIs
  <2>4. ASSUME NEW o \in own[i], Send(i, o) \/ Unanswered(i, o) PROVE Tidy(queue')
    BY <1>3, <2>2, <2>4, SendStep, UnansweredStep
  <2>5. ASSUME NEW o \in own[i], Settles(i, o) PROVE Tidy(queue')
    <3>1. queue' = Reconciled(queue, o.answer, i)
      BY <2>5 DEF Settles
    <3> QED
      BY <1>1, <3>1, ReconciledIs
  <2>6. ASSUME NEW o \in own[i], Refused(i, o) PROVE Tidy(queue')
    <3>1. /\ o.refused /\ o \notin own'[i] /\ o.was \in Nat
          /\ queue' = IF o.kind = "archived"
                      THEN Replaced(queue, i, o.was)
                      ELSE Reconciled(queue, o.before, i)
      BY <2>6, RefusedStep
    <3>2. CASE o.kind = "archived"
      <4> DEFINE page == Replaced(queue, i, o.was)
      <4>1. queue' = page
        BY <3>1, <3>2
      <4>2. (i \in ToSet(queue.ids) => page = queue) /\ (page # queue => i \in ToSet(page.ids))
        <5>1. ASSUME NEW at \in Nat
              PROVE  /\ i \in ToSet(queue.ids) => Replaced(queue, i, at) = queue
                     /\ Replaced(queue, i, at) # queue => i \in ToSet(Replaced(queue, i, at).ids)
          BY <1>1, ReplacedIs
        <5> QED
          BY <3>1, <5>1
      <4> HIDE DEF page
      <4>3. i \in ToSet(queue'.ids) => i \in ToSet(queue.ids)
        BY <3>1 DEF Tilts, RefusedNow, Rows
      <4> QED
        BY <4>1, <4>2, <4>3
    <3>3. CASE o.kind # "archived"
      <4>1. queue' = Reconciled(queue, o.before, i)
        BY <3>1, <3>3
      <4> QED
        BY <1>1, <4>1, ReconciledIs
    <3> QED
      BY <3>2, <3>3
  <2>7. Tidy(queue')
    BY <2>1, <2>3, <2>4, <2>5, <2>6
  <2> QED
    BY <2>2, <2>7
<1>9. CASE Watcher
  <2>1. CASE Ask \/ AskFails \/ \E answer \in rereads : RereadFails(answer)
    <3>1. queue' = queue /\ walks' = walks
      BY <2>1 DEF Ask, AskFails, RereadFails
    <3> QED
      BY <1>3, <3>1
  <2>2. CASE AskLands
    <3>1. queue' = Caught(queue, News) /\ asked # Nothing /\ walks' = walks
      BY <2>2 DEF AskLands
    <3>2. News \in Seq(Entry)
      BY <3>1, NewsAre
    <3>3. Tidy(queue')
      BY <1>1, <3>1, <3>2, CaughtIs
    <3> QED
      BY <3>1, <3>3
  <2>3. ASSUME NEW answer \in rereads, RereadLands(answer)
        PROVE  Tidy(queue') /\ \A walk \in walks' : Tidy(walk.page)
    <3> DEFINE standing == {k \in Items : Stands(answer, k)}
    <3>1. queue' = Placed(queue, answer, standing) /\ walks' = walks
      BY <2>3 DEF RereadLands
    <3> HIDE DEF standing
    <3>2. Tidy(queue')
      BY <1>1, <3>1, PlacedIs
    <3> QED
      BY <3>1, <3>2
  <2> QED
    BY <1>9, <2>1, <2>2, <2>3 DEF Watcher
<1> QED
  BY <1>4, <1>5, <1>6, <1>7, <1>8, <1>9 DEF Reader

\* Rows stand in the order the queue is read by, whatever pages, joined tails,
\* news, answers and decisions put them there, but for a row a refused decision
\* put back and a tail joined across a turn (extended, rejoined, intoPage).
THEOREM RowsInOrder == Spec => []InOrder
<1>1. SurfacesAssumption
  BY SurfacesAssumption
<1>2. Init => Straight
  <2> SUFFICES ASSUME Init PROVE Straight
    OBVIOUS
  <2>1. PICK order \in Orders : queue = EmptyPage(order)
    BY DEF Init
  <2> QED
    BY <2>1, EmptyPageIs DEF Init, Straight
<1>3. Base /\ Base' /\ Straight /\ [Next]_vars => Straight'
  <2> HIDE DEF SurfacesAssumption
  <2> SUFFICES ASSUME Base, Base', Straight, [Next]_vars, straight'
               PROVE  Tidy(queue') /\ \A walk \in walks' : Tidy(walk.page)
    BY DEF Straight, Tidy, Within, Sorted
  <2>1. CASE UNCHANGED vars
    BY <2>1 DEF vars, client, reads, history, Straight
  <2>2. CASE Next
    <3>1. /\ Others \/ Reader \/ Person \/ Watcher
          /\ ~Tilts /\ (straight \/ (walks' = {} /\ queue'.ids = <<>>))
      BY <2>2 DEF Next, Remembered
    <3>2. CASE straight
      BY <1>1, <3>1, <3>2, TidyStep DEF Straight
    <3>3. CASE walks' = {} /\ queue'.ids = <<>>
      <4>1. queue' \in Pages
        BY DEF Base, ClientTypes
      <4> QED
        BY <3>3, <4>1, TidyPages
    <3> QED
      BY <3>1, <3>2, <3>3
  <2> QED
    BY <2>1, <2>2
<1>4. Straight => InOrder
  BY DEF Straight, InOrder, Tidy, Sorted
<1> QED
  BY <1>2, <1>3, <1>4, Types, PTL DEF Spec

-----------------------------------------------------------------------------
(* What the log tells of an item, and what of it the client knows.          *)

Steady == {"captured", "tagged"}

Entries(i) == {n \in 1..Len(log) : log[n].item = i}

\* Entries of an item count its changes.
LogCounts ==
    \A i \in Items : \A n \in Entries(i) :
        /\ log[n].modified <= modified[i]
        /\ \A m \in Entries(i) : m < n => log[m].modified < log[n].modified

\* What was told done is done, or told undone later.
LogTells ==
    \A i \in Items : \A n \in Entries(i) :
        /\ log[n].kind = "archived" =>
              "archived" \in done[i] \/ \E m \in Entries(i) : m > n /\ log[m].kind = "unarchived"
        /\ log[n].kind = "routed" =>
              "routed" \in done[i] \/ \E m \in Entries(i) : m > n /\ log[m].kind = "delivery-withdrawn"

\* An item is not tagged while archived.
TagsOnWork(i) ==
    \A n, m \in Entries(i) :
        n < m /\ log[n].kind = "archived" /\ log[m].kind = "tagged" =>
            \E k \in Entries(i) : n < k /\ k < m /\ log[k].kind = "unarchived"

StillSince(i, count) == \A n \in Entries(i) : log[n].modified > count => log[n].kind \in Steady

\* A copy says of an item what was so when it was read.
Right(i, copy) ==
    copy.modified <= modified[i] /\ (StillSince(i, copy.modified) => copy.done = done[i])

\* The copies the client has of an item, but where it has decided since.
Kept(i) ==
    {copy \in Copy : \/ own[i] = {} /\ copies[i] = copy
                     \/ \E o \in own[i] : o.sent /\ ~o.refused /\ o.answer = copy
                     \/ \E answer \in rereads : i \in DOMAIN answer /\ answer[i] = copy}

AnswersRight(i) == \A copy \in Kept(i) : Right(i, copy)

\* Nothing newer than the answer of an operation has been heard.
AnswerUnheard(i) ==
    \A o \in own[i] : o.sent /\ ~o.refused =>
        \A n \in Entries(i) : n <= LastHeard => log[n].modified <= o.answer.modified

\* While an item is read again it does not leave, but by a routing to be read.
UnderRead(i) ==
    \A answer \in rereads : i \in DOMAIN answer =>
        \A n \in Entries(i) : log[n].modified > answer[i].modified =>
            log[n].kind # "archived" /\ (log[n].kind = "routed" => copies[i] # Nothing)

\* What was heard and has to be read is read, is being read, or is of no copy.
HeardIsRead(i) ==
    own[i] = {} =>
        \A n \in Entries(i) : n <= LastHeard /\ log[n].kind \in Returning \cup Rerouting =>
            \/ copies[i] # Nothing /\ log[n].modified <= copies[i].modified
            \/ \E answer \in rereads : i \in DOMAIN answer /\ log[n].modified <= answer[i].modified
            \/ log[n].kind = "routed" /\ copies[i] = Nothing

NewsRight(i) ==
    TagsOnWork(i) /\ AnswersRight(i) /\ AnswerUnheard(i) /\ UnderRead(i) /\ HeardIsRead(i)

LEMMA LogSame ==
  ASSUME log' = log, NEW i
  PROVE  Entries(i)' = Entries(i)
BY DEF Entries

LEMMA LogMore ==
  ASSUME SurfacesAssumption, PoolTypes, NEW kind \in Kinds, NEW j \in Items, Happens(kind, j), NEW i
  PROVE  /\ \A n : n \in Entries(i)' <=> n \in Entries(i) \/ (i = j /\ n = Len(log) + 1)
         /\ \A n \in Entries(i) : log'[n] = log[n] /\ n \in 1..Len(log)
         /\ log'[Len(log) + 1].kind = kind
         /\ log'[Len(log) + 1].modified = modified[j] + 1
<1>1. /\ Len(log') = Len(log) + 1 /\ Len(log) \in Nat
      /\ \A n \in 1..Len(log) : log'[n] = log[n]
      /\ log'[Len(log) + 1] = [kind |-> kind, item |-> j, modified |-> modified[j] + 1]
  <2> HIDE DEF SurfacesAssumption
  <2> QED
    BY HappensTypes
<1>2. log'[Len(log) + 1].item = j /\ log'[Len(log) + 1].kind = kind /\ log'[Len(log) + 1].modified = modified[j] + 1
  BY <1>1
<1>3. \A n : n \in 1..Len(log') <=> n \in 1..Len(log) \/ n = Len(log) + 1
  BY <1>1
<1>4. \A n \in Entries(i) : log'[n] = log[n] /\ n \in 1..Len(log)
  BY <1>1 DEF Entries
<1>5. \A n : n \in Entries(i)' <=> n \in 1..Len(log') /\ log'[n].item = i
  BY DEF Entries
<1>6. \A n : n \in Entries(i) <=> n \in 1..Len(log) /\ log[n].item = i
  BY DEF Entries
<1> QED
  BY <1>1, <1>2, <1>3, <1>4, <1>5, <1>6

\* Entries are numbered and counted by naturals.
LEMMA EntriesAre ==
  ASSUME PoolTypes, NEW i \in Items
  PROVE  /\ \A n \in Entries(i) : /\ n \in 1..Len(log) /\ n \in Nat /\ n <= Len(log)
                                  /\ log[n] \in Entry /\ log[n].item = i
                                  /\ log[n].modified \in Nat /\ log[n].kind \in Kinds
         /\ modified[i] \in Nat /\ done[i] \in SUBSET Reasons /\ Len(log) \in Nat
<1>1. log \in Seq(Entry) /\ Len(log) \in Nat /\ \A n \in 1..Len(log) : log[n] \in Entry
  BY DEF PoolTypes
<1>2. \A e \in Entry : e.modified \in Nat /\ e.kind \in Kinds
  BY DEF Entry
<1>3. modified[i] \in Nat /\ done[i] \in SUBSET Reasons
  BY DEF PoolTypes
<1> QED
  BY <1>1, <1>2, <1>3 DEF Entries

LEMMA LogStep ==
  ASSUME SurfacesAssumption, PoolTypes, LogCounts, LogTells, NEW kind \in Kinds, NEW j \in Items,
         Happens(kind, j)
  PROVE  LogCounts' /\ LogTells'
<1> HIDE DEF SurfacesAssumption
<1>1. /\ \A i \in Items \ {j} : done'[i] = done[i] /\ modified'[i] = modified[i]
      /\ done'[j] = Becomes(kind, done[j]) /\ modified'[j] = modified[j] + 1
  BY HappensTypes
<1>2. ASSUME NEW i \in Items
      PROVE  /\ \A n : n \in Entries(i)' <=> n \in Entries(i) \/ (i = j /\ n = Len(log) + 1)
             /\ \A n \in Entries(i) : log'[n] = log[n] /\ n \in 1..Len(log)
             /\ log'[Len(log) + 1].kind = kind
             /\ log'[Len(log) + 1].modified = modified[j] + 1
  BY LogMore
<1>3. ASSUME NEW i \in Items
      PROVE  /\ \A n \in Entries(i) : n \in Nat /\ n <= Len(log) /\ log[n].modified \in Nat
             /\ modified[i] \in Nat /\ Len(log) \in Nat /\ done[i] \in SUBSET Reasons
  BY EntriesAre
<1>4. ASSUME NEW i \in Items, NEW n \in Entries(i)'
      PROVE  /\ log'[n].modified <= modified'[i]
             /\ \A m \in Entries(i)' : m < n => log'[m].modified < log'[n].modified
  <2>1. \A m \in Entries(i) : log[m].modified \in Nat /\ log[m].modified <= modified[i]
    BY <1>3 DEF LogCounts
  <2>2. CASE n \in Entries(i)
    <3>1. log'[n].modified = log[n].modified /\ modified[i] <= modified'[i] /\ n <= Len(log)
      BY <1>1, <1>2, <1>3, <2>2
    <3>2. \A m \in Entries(i)' : m < n => m \in Entries(i) /\ log'[m].modified = log[m].modified
      BY <1>2, <1>3, <2>2, <3>1
    <3>3. log'[n].modified <= modified'[i]
      BY <1>1, <1>3, <2>1, <2>2, <3>1
    <3>4. \A m \in Entries(i) : m < n => log[m].modified < log[n].modified
      BY <2>2 DEF LogCounts
    <3> QED
      BY <3>1, <3>2, <3>3, <3>4
  <2>3. CASE i = j /\ n = Len(log) + 1
    <3>1. log'[n].modified = modified[i] + 1 /\ modified'[i] = modified[i] + 1
      BY <1>1, <1>2, <2>3
    <3>2. \A m \in Entries(i)' : m < n => m \in Entries(i) /\ log'[m].modified = log[m].modified
      BY <1>2, <2>3
    <3> QED
      BY <1>3, <2>1, <3>1, <3>2
  <2> QED
    BY <1>2, <2>2, <2>3
<1>5. LogCounts'
  BY <1>4 DEF LogCounts
<1>6. ASSUME NEW i \in Items, NEW n \in Entries(i)', log'[n].kind = "archived"
      PROVE  "archived" \in done'[i] \/ \E m \in Entries(i)' : m > n /\ log'[m].kind = "unarchived"
  <2>1. CASE n \in Entries(i)
    <3>1. log[n].kind = "archived" /\ n <= Len(log)
      BY <1>2, <1>3, <1>6, <2>1
    <3>2. CASE "archived" \in done[i]
      <4>1. CASE i = j /\ kind = "unarchived"
        <5>1. Len(log) + 1 \in Entries(i)' /\ Len(log) + 1 > n /\ log'[Len(log) + 1].kind = "unarchived"
          BY <1>2, <1>3, <2>1, <3>1, <4>1
        <5> QED
          BY <5>1
      <4>2. CASE ~(i = j /\ kind = "unarchived")
        <5>1. done'[i] = IF i = j THEN Becomes(kind, done[i]) ELSE done[i]
          BY <1>1
        <5>2. "archived" \in done'[i]
          BY <1>3, <3>2, <4>2, <5>1, BecomesIs
        <5> QED
          BY <5>2
      <4> QED
        BY <4>1, <4>2
    <3>3. CASE \E m \in Entries(i) : m > n /\ log[m].kind = "unarchived"
      BY <1>2, <3>3
    <3> QED
      BY <2>1, <3>1, <3>2, <3>3 DEF LogTells
  <2>2. CASE i = j /\ n = Len(log) + 1
    <3>1. kind = "archived" /\ done'[i] = Becomes(kind, done[i]) /\ done[i] \in SUBSET Reasons
      BY <1>1, <1>2, <1>3, <1>6, <2>2
    <3>2. Becomes(kind, done[i]) = done[i] \cup {"archived"}
      BY <3>1, BecomesIs
    <3> QED
      BY <3>1, <3>2
  <2> QED
    BY <1>2, <2>1, <2>2
<1>7. ASSUME NEW i \in Items, NEW n \in Entries(i)', log'[n].kind = "routed"
      PROVE  "routed" \in done'[i] \/ \E m \in Entries(i)' : m > n /\ log'[m].kind = "delivery-withdrawn"
  <2>1. CASE n \in Entries(i)
    <3>1. log[n].kind = "routed" /\ n <= Len(log)
      BY <1>2, <1>3, <1>7, <2>1
    <3>2. CASE "routed" \in done[i]
      <4>1. CASE i = j /\ kind = "delivery-withdrawn"
        <5>1. Len(log) + 1 \in Entries(i)' /\ Len(log) + 1 > n /\ log'[Len(log) + 1].kind = "delivery-withdrawn"
          BY <1>2, <1>3, <2>1, <3>1, <4>1
        <5> QED
          BY <5>1
      <4>2. CASE ~(i = j /\ kind = "delivery-withdrawn")
        <5>1. done'[i] = IF i = j THEN Becomes(kind, done[i]) ELSE done[i]
          BY <1>1
        <5>2. "routed" \in done'[i]
          BY <1>3, <3>2, <4>2, <5>1, BecomesIs
        <5> QED
          BY <5>2
      <4> QED
        BY <4>1, <4>2
    <3>3. CASE \E m \in Entries(i) : m > n /\ log[m].kind = "delivery-withdrawn"
      BY <1>2, <3>3
    <3> QED
      BY <2>1, <3>1, <3>2, <3>3 DEF LogTells
  <2>2. CASE i = j /\ n = Len(log) + 1
    <3>1. kind = "routed" /\ done'[i] = Becomes(kind, done[i]) /\ done[i] \in SUBSET Reasons
      BY <1>1, <1>2, <1>3, <1>7, <2>2
    <3>2. Becomes(kind, done[i]) = done[i] \cup {"routed"}
      BY <3>1, BecomesIs
    <3> QED
      BY <3>1, <3>2
  <2> QED
    BY <1>2, <2>1, <2>2
<1>8. LogTells'
  BY <1>6, <1>7 DEF LogTells
<1> QED
  BY <1>5, <1>8

\* An item all of whose news the page has, and can have, drawn.
Calm(i) ==
    /\ own[i] = {}
    /\ \A n \in Entries(i) : n > LastHeard =>
          log[n].kind = "tagged" \/ (log[n].kind = "captured" /\ copies[i] # Nothing)
    /\ \A answer \in rereads : i \in DOMAIN answer =>
          copies[i] # Nothing /\ answer[i].modified < copies[i].modified

\* A step that is about other items only.
SameNews(i) ==
    /\ done'[i] = done[i] /\ modified'[i] = modified[i]
    /\ copies'[i] = copies[i] /\ own'[i] = own[i] /\ LastHeard' = LastHeard
    /\ Entries(i)' = Entries(i) /\ \A n \in Entries(i) : log'[n] = log[n]
    /\ \A answer : i \in DOMAIN answer => (answer \in rereads' <=> answer \in rereads)

LEMMA SameKeeps ==
  ASSUME NEW i, SameNews(i)
  PROVE  /\ NewsRight(i) => NewsRight(i)'
         /\ Calm(i)' => Calm(i)
<1>1. TagsOnWork(i) => TagsOnWork(i)'
  BY DEF SameNews, TagsOnWork
<1>2. AnswersRight(i) => AnswersRight(i)'
  BY DEF SameNews, AnswersRight, Kept, Right, StillSince
<1>3. AnswerUnheard(i) => AnswerUnheard(i)'
  BY DEF SameNews, AnswerUnheard
<1>4. UnderRead(i) => UnderRead(i)'
  BY DEF SameNews, UnderRead
<1>5. HeardIsRead(i) => HeardIsRead(i)'
  BY DEF SameNews, HeardIsRead
<1>6. Calm(i)' => Calm(i)
  BY DEF SameNews, Calm
<1> QED
  BY <1>1, <1>2, <1>3, <1>4, <1>5, <1>6 DEF NewsRight

\* What is remembered of an item stays remembered.
LEMMA AstrayGrows ==
  ASSUME Remembered, NEW i, i \notin astray'
  PROVE  /\ i \notin astray
         /\ i \notin Crossed /\ i \notin LeftUnderRead /\ i \notin TaggedArchived
         /\ i \notin RefusedNow /\ i \notin HeardUnderAnswer /\ i \notin OpposedStale
         /\ i \notin Untold /\ i \notin Unread
BY DEF Remembered

\* The pool changes the item: what the client knows of it it knows still.
LEMMA ChangeKeeps ==
  ASSUME SurfacesAssumption, Base, LogCounts, LogTells, NEW kind \in Kinds, NEW i \in Items,
         Happens(kind, i), NewsRight(i),
         UNCHANGED <<copies, rereads, mark>>,
         own'[i] = {} => own[i] = {},
         \A o \in own'[i] :
             o \in own[i] \/ o.answer = [done |-> done'[i], modified |-> modified'[i]],
         i \notin LeftUnderRead, i \notin TaggedArchived
  PROVE  NewsRight(i)'
<1> HIDE DEF SurfacesAssumption
<1>0. PoolTypes /\ ClientTypes /\ LastHeard' = LastHeard /\ LastHeard \in Nat /\ LastHeard <= Len(log)
  BY Numbers DEF Base, LastHeard, ClientTypes, Marks
<1>1. /\ \A n : n \in Entries(i)' <=> n \in Entries(i) \/ n = Len(log) + 1
      /\ \A n \in Entries(i) : log'[n] = log[n] /\ n \in 1..Len(log)
      /\ log'[Len(log) + 1].kind = kind
      /\ log'[Len(log) + 1].modified = modified[i] + 1
  BY <1>0, LogMore
<1>2. /\ \A n \in Entries(i) : n \in Nat /\ n <= Len(log) /\ log[n].modified \in Nat
                               /\ log[n].modified <= modified[i]
      /\ modified[i] \in Nat /\ Len(log) \in Nat /\ done[i] \in SUBSET Reasons
  BY <1>0, EntriesAre DEF LogCounts
<1>3. done'[i] = Becomes(kind, done[i]) /\ modified'[i] = modified[i] + 1
  BY <1>0, HappensTypes
<1>4. Last(log') = [kind |-> kind, item |-> i, modified |-> modified[i] + 1] /\ log' # log
  BY <1>0, HappensTypes
<1>5. TagsOnWork(i)'
  <2> SUFFICES ASSUME NEW n \in Entries(i)', NEW m \in Entries(i)', n < m,
                      log'[n].kind = "archived", log'[m].kind = "tagged"
               PROVE  \E k \in Entries(i)' : n < k /\ k < m /\ log'[k].kind = "unarchived"
    BY DEF TagsOnWork
  <2>1. n \in Entries(i)
    BY <1>1, <1>2
  <2>2. CASE m \in Entries(i)
    <3>1. log[n].kind = "archived" /\ log[m].kind = "tagged"
      BY <1>1, <2>1, <2>2
    <3>2. PICK k \in Entries(i) : n < k /\ k < m /\ log[k].kind = "unarchived"
      BY <2>1, <2>2, <3>1 DEF NewsRight, TagsOnWork
    <3> QED
      BY <1>1, <3>2
  <2>3. CASE m = Len(log) + 1
    <3>1. "archived" \notin done[i]
      BY <1>1, <1>4, <2>3 DEF TaggedArchived
    <3>2. log[n].kind = "archived"
      BY <1>1, <2>1
    <3>3. PICK k \in Entries(i) : k > n /\ log[k].kind = "unarchived"
      BY <2>1, <3>1, <3>2 DEF LogTells
    <3>4. n < k /\ k < m /\ k \in Entries(i)' /\ log'[k].kind = "unarchived"
      BY <1>1, <1>2, <2>1, <2>3, <3>3
    <3> QED
      BY <3>4
  <2> QED
    BY <1>1, <2>2, <2>3
<1>6. ASSUME NEW copy \in Copy, Right(i, copy)
      PROVE  Right(i, copy)'
  <2>1. copy.modified \in Nat /\ copy.modified <= modified[i]
    BY <1>6 DEF Copy, Right
  <2>2. ASSUME StillSince(i, copy.modified)' PROVE copy.done = done'[i]
    <3>1. StillSince(i, copy.modified)
      BY <1>1, <2>2 DEF StillSince
    <3>2. kind \in Steady
      <4>1. Len(log) + 1 \in Entries(i)' /\ log'[Len(log) + 1].modified > copy.modified
        BY <1>1, <1>2, <2>1
      <4> QED
        BY <1>1, <2>2, <4>1 DEF StillSince
    <3>3. done'[i] = done[i]
      BY <1>2, <1>3, <3>2, BecomesIs DEF Steady
    <3> QED
      BY <1>6, <3>1, <3>3 DEF Right
  <2>3. copy.modified <= modified'[i]
    BY <1>2, <1>3, <2>1
  <2> QED
    BY <2>2, <2>3 DEF Right
<1>7. done'[i] \in SUBSET Reasons /\ modified'[i] \in Nat
  BY <1>2, <1>3, BecomesIs
<1>8. AnswersRight(i)'
  <2>1. ASSUME NEW copy \in Kept(i)' PROVE Right(i, copy)'
    <3>1. copy \in Copy
      BY DEF Kept
    <3>2. CASE copy \in Kept(i)
      BY <1>6, <3>1, <3>2 DEF NewsRight, AnswersRight
    <3>3. CASE copy = [done |-> done'[i], modified |-> modified'[i]]
      <4>1. copy.done = done'[i] /\ copy.modified = modified'[i]
        BY <3>3
      <4> QED
        BY <1>7, <4>1 DEF Right
    <3>4. copy \in Kept(i) \/ copy = [done |-> done'[i], modified |-> modified'[i]]
      BY DEF Kept
    <3> QED
      BY <3>2, <3>3, <3>4
  <2> QED
    BY <2>1 DEF AnswersRight
<1>9. AnswerUnheard(i)'
  <2> SUFFICES ASSUME NEW o \in own'[i], o.sent, ~o.refused,
                      NEW n \in Entries(i)', n <= LastHeard'
               PROVE  log'[n].modified <= o.answer.modified
    BY DEF AnswerUnheard
  <2>1. n \in Entries(i) /\ log'[n] = log[n]
    BY <1>0, <1>1, <1>2
  <2>2. CASE o \in own[i]
    BY <1>0, <2>1, <2>2 DEF NewsRight, AnswerUnheard
  <2>3. CASE o.answer = [done |-> done'[i], modified |-> modified'[i]]
    BY <1>2, <1>3, <2>1, <2>3
  <2> QED
    BY <2>2, <2>3
<1>10. UnderRead(i)'
  <2> SUFFICES ASSUME NEW answer \in rereads, i \in DOMAIN answer, NEW n \in Entries(i)',
                      log'[n].modified > answer[i].modified
               PROVE  log'[n].kind # "archived" /\ (log'[n].kind = "routed" => copies[i] # Nothing)
    BY DEF UnderRead
  <2>1. CASE n \in Entries(i)
    BY <1>1, <2>1 DEF NewsRight, UnderRead
  <2>2. CASE n = Len(log) + 1
    <3>1. i \in UNION {DOMAIN other : other \in rereads}
      OBVIOUS
    <3>2. Last(log').item = i /\ Last(log').kind = kind /\ log'[n].kind = kind
      BY <1>1, <1>4, <2>2
    <3> QED
      BY <1>4, <3>1, <3>2 DEF LeftUnderRead
  <2> QED
    BY <1>1, <2>1, <2>2
<1>11. HeardIsRead(i)'
  <2> SUFFICES ASSUME own'[i] = {}, NEW n \in Entries(i)', n <= LastHeard',
                      log'[n].kind \in Returning \cup Rerouting
               PROVE  \/ copies[i] # Nothing /\ log'[n].modified <= copies[i].modified
                      \/ \E answer \in rereads : i \in DOMAIN answer /\ log'[n].modified <= answer[i].modified
                      \/ log'[n].kind = "routed" /\ copies[i] = Nothing
    BY DEF HeardIsRead
  <2>1. n \in Entries(i) /\ log'[n] = log[n]
    BY <1>0, <1>1, <1>2
  <2> QED
    BY <1>0, <2>1 DEF NewsRight, HeardIsRead
<1> QED
  BY <1>5, <1>8, <1>9, <1>10, <1>11 DEF NewsRight

\* What is known of an item while the pool does nothing.
LEMMA PoolStill ==
  ASSUME UNCHANGED pool, NEW i
  PROVE  /\ done' = done /\ modified' = modified /\ log' = log /\ captured' = captured
         /\ Entries(i)' = Entries(i)
         /\ TagsOnWork(i) => TagsOnWork(i)'
         /\ \A copy : Right(i, copy) => Right(i, copy)'
<1>1. done' = done /\ modified' = modified /\ log' = log /\ captured' = captured
  BY DEF pool
<1>2. Entries(i)' = Entries(i)
  BY <1>1, LogSame
<1>3. TagsOnWork(i) => TagsOnWork(i)'
  BY <1>1, <1>2 DEF TagsOnWork
<1>4. \A copy : Right(i, copy) => Right(i, copy)'
  BY <1>1, <1>2 DEF Right, StillSince
<1> QED
  BY <1>1, <1>2, <1>3, <1>4

LEMMA NowRight ==
  ASSUME PoolTypes, LogCounts, NEW i \in Items
  PROVE  /\ Answer(i) \in Copy /\ Answer(i) # Nothing /\ Right(i, Answer(i))
         /\ \A n \in Entries(i) : ~(log[n].modified > Answer(i).modified)
<1>1. Answer(i) \in Copy /\ Answer(i).done = done[i] /\ Answer(i).modified = modified[i]
  BY AnswerIs
<1>2. \A n \in Entries(i) : log[n].modified \in Nat /\ log[n].modified <= modified[i]
  BY EntriesAre DEF LogCounts
<1>3. modified[i] \in Nat
  BY EntriesAre
<1>4. Right(i, Answer(i))
  BY <1>1, <1>3 DEF Right
<1> QED
  BY <1>1, <1>2, <1>3, <1>4, NothingIsNoCopy

\* The client comes to hold the item as it is.
LEMMA FreshKeeps ==
  ASSUME Base, LogCounts, NEW i \in Items, NewsRight(i), UNCHANGED <<pool, rereads, mark>>,
         copies'[i] = Answer(i), own'[i] \subseteq own[i]
  PROVE  NewsRight(i)'
<1>1. PoolTypes /\ LastHeard' = LastHeard /\ UNCHANGED pool
  BY DEF Base, LastHeard
<1>2. /\ log' = log /\ Entries(i)' = Entries(i) /\ TagsOnWork(i)'
      /\ \A copy : Right(i, copy) => Right(i, copy)'
  BY <1>1, PoolStill DEF NewsRight
<1>3. /\ Answer(i) \in Copy /\ Answer(i) # Nothing /\ Right(i, Answer(i))
      /\ Answer(i).modified = modified[i]
  BY <1>1, NowRight, AnswerIs
<1>4. \A copy \in Kept(i)' : copy \in Kept(i) \/ copy = Answer(i)
  BY DEF Kept
<1>5. AnswersRight(i)'
  <2>1. \A copy \in Kept(i)' : Right(i, copy)'
    BY <1>2, <1>3, <1>4 DEF NewsRight, AnswersRight
  <2> QED
    BY <2>1 DEF AnswersRight
<1>6. AnswerUnheard(i)'
  BY <1>1, <1>2 DEF AnswerUnheard, NewsRight
<1>7. UnderRead(i)'
  BY <1>2, <1>3 DEF UnderRead, NewsRight
<1>8. HeardIsRead(i)'
  BY <1>2, <1>3 DEF HeardIsRead, LogCounts
<1> QED
  BY <1>2, <1>5, <1>6, <1>7, <1>8 DEF NewsRight

\* Operations of the item are left, and no answer of one is new.
LEMMA DecidedKeeps ==
  ASSUME NEW i \in Items, NewsRight(i), UNCHANGED <<pool, rereads, mark>>,
         copies[i] # Nothing => copies'[i] # Nothing,
         own'[i] # {}, \A o \in own'[i] : o \in own[i] \/ ~o.sent \/ o.refused
  PROVE  NewsRight(i)'
<1>1. /\ log' = log /\ Entries(i)' = Entries(i) /\ TagsOnWork(i)' /\ LastHeard' = LastHeard
      /\ \A copy : Right(i, copy) => Right(i, copy)'
  BY PoolStill DEF NewsRight, LastHeard
<1>2. AnswersRight(i)'
  <2>1. \A copy \in Kept(i)' : copy \in Kept(i)
    BY DEF Kept
  <2>2. \A copy \in Kept(i)' : Right(i, copy)'
    BY <1>1, <2>1 DEF NewsRight, AnswersRight
  <2> QED
    BY <2>2 DEF AnswersRight
<1>3. AnswerUnheard(i)'
  BY <1>1 DEF AnswerUnheard, NewsRight
<1>4. UnderRead(i)'
  BY <1>1 DEF UnderRead, NewsRight
<1>5. HeardIsRead(i)'
  BY DEF HeardIsRead
<1> QED
  BY <1>1, <1>2, <1>3, <1>4, <1>5 DEF NewsRight

\* The answer of an operation is taken.
LEMMA SettledKeeps ==
  ASSUME NEW i \in Items, NewsRight(i), UNCHANGED <<pool, rereads, mark>>,
         NEW o \in own[i], o.sent, ~o.refused, o.answer \in Copy,
         copies'[i] = o.answer, own'[i] \subseteq own[i]
  PROVE  NewsRight(i)'
<1>1. /\ log' = log /\ Entries(i)' = Entries(i) /\ TagsOnWork(i)' /\ LastHeard' = LastHeard
      /\ \A copy : Right(i, copy) => Right(i, copy)'
  BY PoolStill DEF NewsRight, LastHeard
<1>2. AnswersRight(i)'
  <2>1. \A copy \in Kept(i)' : copy \in Kept(i)
    BY DEF Kept
  <2>2. \A copy \in Kept(i)' : Right(i, copy)'
    BY <1>1, <2>1 DEF NewsRight, AnswersRight
  <2> QED
    BY <2>2 DEF AnswersRight
<1>3. AnswerUnheard(i)'
  BY <1>1 DEF AnswerUnheard, NewsRight
<1>4. o.answer # Nothing
  BY NothingIsNoCopy
<1>5. UnderRead(i)'
  BY <1>1, <1>4 DEF UnderRead, NewsRight
<1>6. HeardIsRead(i)'
  BY <1>1, <1>4 DEF HeardIsRead, AnswerUnheard, NewsRight
<1> QED
  BY <1>1, <1>2, <1>3, <1>5, <1>6 DEF NewsRight

\* What is heard of an item that is not astray is among the news.
LEMMA HeardIsNews ==
  ASSUME SurfacesAssumption, Base, AskLands, NEW i \in Items, i \notin Untold,
         NEW n \in Entries(i), n > LastHeard, n <= asked
  PROVE  /\ mark # Nothing /\ n \in First..asked
         /\ n - First + 1 \in 1..Len(News) /\ News[n - First + 1] = log[n]
         /\ log[n] \in ToSet(News) /\ log[n].item = i /\ mark' = asked
<1> HIDE DEF SurfacesAssumption
<1>1. /\ asked # Nothing /\ asked \in Nat /\ n \in Nat /\ n >= 1 /\ Begin \in Nat
      /\ mark' = IF asked = 0 THEN mark ELSE asked
      /\ mark \in Nat \cup {Nothing} /\ log[n].item = i
      /\ Nothing \notin Nat
  BY AskLandsStep, NewsAre, Numbers DEF Base, ClientTypes, Entries
<1>2. mark' = asked /\ mark' # mark
  BY <1>1 DEF LastHeard
<1>3. i \notin {log[m].item : m \in (IF mark = Nothing THEN Begin + 1..asked ELSE mark + 1..Oldest - 1)}
  BY <1>1, <1>2 DEF Untold
<1>4. n \notin (IF mark = Nothing THEN Begin + 1..asked ELSE mark + 1..Oldest - 1)
  BY <1>1, <1>3
<1>5. mark # Nothing
  BY <1>1, <1>4 DEF LastHeard
<1>6. /\ Oldest \in Nat /\ First \in Nat /\ First >= 1 /\ News \in Seq(Entry)
      /\ \A m \in 1..Len(News) : News[m] = log[First + m - 1]
      /\ \A m \in First..asked : m - First + 1 \in 1..Len(News)
  BY <1>1, <1>5, NewsAre
<1>7. n >= Oldest /\ n > mark
  BY <1>1, <1>4, <1>5, <1>6 DEF LastHeard
<1>8. n >= First
  BY <1>1, <1>5, <1>6, <1>7 DEF First
<1>9. n \in First..asked
  BY <1>1, <1>6, <1>8
<1>10. /\ n - First + 1 \in 1..Len(News) /\ First + (n - First + 1) - 1 = n
  BY <1>1, <1>6, <1>9
<1>11. News[n - First + 1] = log[n]
  BY <1>6, <1>10
<1>12. log[n] \in ToSet(News)
  <2>1. News[n - First + 1] \in ToSet(News)
    BY <1>10 DEF ToSet
  <2> QED
    BY <1>11, <2>1
<1> QED
  BY <1>1, <1>2, <1>5, <1>9, <1>10, <1>11, <1>12

\* What is heard and has to be read is read.
LEMMA HearKeeps ==
  ASSUME SurfacesAssumption, Base, LogCounts, AskLands, NEW i \in Items, NewsRight(i),
         i \notin Untold, i \notin HeardUnderAnswer
  PROVE  NewsRight(i)'
<1> HIDE DEF SurfacesAssumption
<1>1. /\ asked # Nothing /\ asked' = Nothing /\ LastHeard' = asked
      /\ mark' = IF asked = 0 THEN mark ELSE asked
      /\ Heard = {} => rereads' = rereads
      /\ Heard # {} => \E answer \in Copies :
                          /\ rereads' = rereads \cup {answer}
                          /\ DOMAIN answer = Heard /\ \A j \in Heard : answer[j] = Answer(j)
      /\ UNCHANGED <<pool, copies, walks, own, away, events>>
  BY AskLandsStep
<1>2. /\ PoolTypes /\ log' = log /\ Entries(i)' = Entries(i) /\ TagsOnWork(i)'
      /\ \A copy : Right(i, copy) => Right(i, copy)'
  BY <1>1, PoolStill DEF NewsRight, Base
<1>3. /\ rereads \subseteq rereads'
      /\ \A answer \in rereads' : i \in DOMAIN answer =>
            answer \in rereads \/ (i \in Heard /\ answer[i] = Answer(i))
      /\ i \in Heard => \E answer \in rereads' : i \in DOMAIN answer /\ answer[i] = Answer(i)
  BY <1>1
<1>4. /\ Answer(i) \in Copy /\ Right(i, Answer(i)) /\ Answer(i).modified = modified[i]
      /\ \A n \in Entries(i) : ~(log[n].modified > Answer(i).modified)
  BY <1>2, NowRight, AnswerIs
<1>5. AnswersRight(i)'
  <2>1. \A copy \in Kept(i)' : copy \in Kept(i) \/ copy = Answer(i)
    BY <1>1, <1>3 DEF Kept
  <2>2. \A copy \in Kept(i)' : Right(i, copy)'
    BY <1>2, <1>4, <2>1 DEF NewsRight, AnswersRight
  <2> QED
    BY <2>2 DEF AnswersRight
<1>6. LastHeard \in Nat /\ asked \in Nat /\ \A n \in Entries(i) : n \in Nat
  BY <1>1, <1>2, NewsAre, EntriesAre
<1>7. ASSUME NEW n \in Entries(i), n <= asked, ~(n <= LastHeard)
      PROVE  log[n] \in ToSet(News) /\ log[n].item = i /\ mark' = asked
  <2>1. n > LastHeard
    BY <1>6, <1>7
  <2> QED
    BY <1>7, <2>1, HeardIsNews
<1>8. AnswerUnheard(i)'
  <2> SUFFICES ASSUME NEW o \in own[i], o.sent, ~o.refused, NEW n \in Entries(i), n <= asked
               PROVE  log[n].modified <= o.answer.modified
    BY <1>1, <1>2 DEF AnswerUnheard
  <2>1. CASE n <= LastHeard
    BY <2>1 DEF NewsRight, AnswerUnheard
  <2>2. CASE ~(n <= LastHeard)
    <3>1. ~(log[n].modified > o.answer.modified)
      BY <1>1, <1>7, <2>2 DEF HeardUnderAnswer
    <3>2. o.answer.modified \in Nat
      BY OperatedOn DEF Copy
    <3>3. log[n].modified \in Nat
      BY <1>2, EntriesAre
    <3> QED
      BY <3>1, <3>2, <3>3
  <2> QED
    BY <2>1, <2>2
<1>9. UnderRead(i)'
  <2> SUFFICES ASSUME NEW answer \in rereads', i \in DOMAIN answer, NEW n \in Entries(i),
                      log[n].modified > answer[i].modified
               PROVE  log[n].kind # "archived" /\ (log[n].kind = "routed" => copies[i] # Nothing)
    BY <1>1, <1>2 DEF UnderRead
  <2>1. answer \in rereads
    BY <1>3, <1>4
  <2> QED
    BY <2>1 DEF NewsRight, UnderRead
<1>10. HeardIsRead(i)'
  <2> SUFFICES ASSUME own[i] = {}, NEW n \in Entries(i), n <= asked,
                      log[n].kind \in Returning \cup Rerouting
               PROVE  \/ copies[i] # Nothing /\ log[n].modified <= copies[i].modified
                      \/ \E answer \in rereads' : i \in DOMAIN answer /\ log[n].modified <= answer[i].modified
                      \/ log[n].kind = "routed" /\ copies[i] = Nothing
    BY <1>1, <1>2 DEF HeardIsRead
  <2>1. CASE n <= LastHeard
    BY <1>3, <2>1 DEF NewsRight, HeardIsRead
  <2>2. CASE ~(n <= LastHeard)
    <3>1. log[n] \in ToSet(News) /\ log[n].item = i
      BY <1>7, <2>2
    <3>2. CASE log[n].kind = "routed" /\ copies[i] = Nothing
      BY <3>2
    <3>3. CASE ~(log[n].kind = "routed" /\ copies[i] = Nothing)
      <4>1. i \in Heard
        BY <3>1, <3>3 DEF Heard, Returning, Rerouting
      <4>2. PICK answer \in rereads' : i \in DOMAIN answer /\ answer[i] = Answer(i)
        BY <1>3, <4>1
      <4>3. log[n].modified <= answer[i].modified
        BY <1>4, <4>2 DEF LogCounts
      <4> QED
        BY <4>2, <4>3
    <3> QED
      BY <3>2, <3>3
  <2> QED
    BY <2>1, <2>2
<1> QED
  BY <1>2, <1>5, <1>8, <1>9, <1>10 DEF NewsRight

\* What is read of an item stands, where it is no older than the copy.
LEMMA RereadKeeps ==
  ASSUME SurfacesAssumption, Base, NEW answer \in rereads, RereadLands(answer),
         NEW i \in Items, NewsRight(i)
  PROVE  NewsRight(i)'
<1> HIDE DEF SurfacesAssumption
<1>1. /\ answer \in Copies /\ rereads' = rereads \ {answer}
      /\ copies'[i] = IF Stands(answer, i) THEN answer[i] ELSE copies[i]
      /\ UNCHANGED <<pool, walks, mark, asked, own, away, events>>
  BY RereadLandsStep
<1>2. /\ PoolTypes /\ log' = log /\ Entries(i)' = Entries(i) /\ TagsOnWork(i)' /\ LastHeard' = LastHeard
      /\ \A copy : Right(i, copy) => Right(i, copy)'
  BY <1>1, PoolStill DEF NewsRight, Base, LastHeard
<1>3. /\ i \in DOMAIN answer => answer[i] \in Copy
      /\ copies[i] \in Copy \cup {Nothing}
      /\ \A copy \in Copy : copy.modified \in Nat /\ copy # Nothing
  BY <1>1, CopiesIs, OperatedOn, NothingIsNoCopy DEF Copy
<1>4. Stands(answer, i) => /\ i \in DOMAIN answer /\ own[i] = {}
                           /\ copies[i] # Nothing => copies[i].modified <= answer[i].modified
  BY DEF Stands
<1>5. AnswersRight(i)'
  <2>1. \A copy \in Kept(i)' : copy \in Kept(i)
    BY <1>1, <1>4 DEF Kept
  <2>2. \A copy \in Kept(i)' : Right(i, copy)'
    BY <1>2, <2>1 DEF NewsRight, AnswersRight
  <2> QED
    BY <2>2 DEF AnswersRight
<1>6. AnswerUnheard(i)'
  BY <1>1, <1>2 DEF NewsRight, AnswerUnheard
<1>7. copies[i] # Nothing => copies'[i] # Nothing
  BY <1>1, <1>3, <1>4
<1>8. UnderRead(i)'
  BY <1>1, <1>2, <1>7 DEF NewsRight, UnderRead
<1>9. HeardIsRead(i)'
  <2> SUFFICES ASSUME own[i] = {}, NEW n \in Entries(i), n <= LastHeard,
                      log[n].kind \in Returning \cup Rerouting
               PROVE  \/ copies'[i] # Nothing /\ log[n].modified <= copies'[i].modified
                      \/ \E other \in rereads' : i \in DOMAIN other /\ log[n].modified <= other[i].modified
                      \/ log[n].kind = "routed" /\ copies'[i] = Nothing
    BY <1>1, <1>2 DEF HeardIsRead
  <2>1. log[n].modified \in Nat
    BY <1>2, EntriesAre
  <2>2. CASE copies[i] # Nothing /\ log[n].modified <= copies[i].modified
    <3>1. CASE Stands(answer, i)
      <4>1. copies'[i] = answer[i] /\ copies[i].modified <= answer[i].modified /\ answer[i] \in Copy
            /\ copies[i] \in Copy
        BY <1>1, <1>3, <1>4, <2>2, <3>1
      <4>2. answer[i].modified \in Nat /\ copies[i].modified \in Nat /\ answer[i] # Nothing
        BY <1>3, <4>1
      <4>3. log[n].modified <= answer[i].modified
        BY <2>1, <2>2, <4>1, <4>2
      <4> QED
        BY <4>1, <4>2, <4>3
    <3>2. CASE ~Stands(answer, i)
      BY <1>1, <2>2, <3>2
    <3> QED
      BY <3>1, <3>2
  <2>3. CASE \E other \in rereads : i \in DOMAIN other /\ log[n].modified <= other[i].modified
    <3>1. PICK other \in rereads : i \in DOMAIN other /\ log[n].modified <= other[i].modified
      BY <2>3
    <3>2. CASE other # answer
      BY <1>1, <3>1, <3>2
    <3>3. CASE other = answer
      <4>1. i \in DOMAIN answer /\ answer[i] \in Copy /\ log[n].modified <= answer[i].modified
        BY <1>3, <3>1, <3>3
      <4>2. answer[i].modified \in Nat /\ answer[i] # Nothing
        BY <1>3, <4>1
      <4>3. CASE Stands(answer, i)
        <5>1. copies'[i] = answer[i]
          BY <1>1, <4>3
        <5> QED
          BY <4>1, <4>2, <5>1
      <4>4. CASE ~Stands(answer, i)
        <5>1. copies[i] # Nothing /\ ~(copies[i].modified <= answer[i].modified) /\ copies'[i] = copies[i]
          BY <1>1, <4>1, <4>4 DEF Stands
        <5>2. copies[i].modified \in Nat
          BY <1>3, <5>1
        <5>3. log[n].modified <= copies[i].modified
          BY <2>1, <4>1, <4>2, <5>1, <5>2
        <5> QED
          BY <5>1, <5>3
      <4> QED
        BY <4>3, <4>4
    <3> QED
      BY <3>2, <3>3
  <2>4. CASE log[n].kind = "routed" /\ copies[i] = Nothing
    <3>1. CASE Stands(answer, i)
      <4>1. copies'[i] = answer[i] /\ answer[i] \in Copy /\ i \in DOMAIN answer
        BY <1>1, <1>3, <1>4, <3>1
      <4>2. ~(log[n].modified > answer[i].modified)
        BY <2>4, <4>1 DEF NewsRight, UnderRead
      <4>3. answer[i].modified \in Nat /\ answer[i] # Nothing
        BY <1>3, <4>1
      <4>4. log[n].modified <= answer[i].modified
        BY <2>1, <4>2, <4>3
      <4> QED
        BY <4>1, <4>3, <4>4
    <3>2. CASE ~Stands(answer, i)
      BY <1>1, <2>4, <3>2
    <3> QED
      BY <3>1, <3>2
  <2> QED
    BY <2>2, <2>3, <2>4 DEF NewsRight, HeardIsRead
<1> QED
  BY <1>2, <1>5, <1>6, <1>8, <1>9 DEF NewsRight

-----------------------------------------------------------------------------
(* What a read of the queue that is out will bring.                         *)

\* Of an item that is not astray, a read that is out is the only one, answers
\* it as it is, and was asked for at the page drawn.
WalksRight(i) ==
    \A walk \in walks :
        /\ \A other \in walks : other = walk
        /\ i \in 1..captured => ReadsOf(walk, i)
        /\ queue.order = walk.page.order
        /\ walk.page.after # Nothing => queue.after = walk.page.after
        /\ walk.page.after # Nothing /\ i \in Rows => i \in ToSet(walk.page.ids)

\* A read of the queue goes out, one lands or is lost, or none does.
LEMMA QueueStep ==
  ASSUME SurfacesAssumption, Base, Others \/ Reader \/ Person \/ Watcher
  PROVE  \/ UNCHANGED pool /\ \E walk \in Walks : Started(walk)
         \/ \E walk \in walks : walks' = walks \ {walk}
         \/ walks' = walks /\ AsFar(queue', queue)
<1> HIDE DEF SurfacesAssumption
<1>1. queue \in Pages /\ AsFar(queue, queue)
  BY DEF Base, ClientTypes, AsFar
<1>2. CASE Others
  <2>1. queue' = queue /\ walks' = walks
    BY <1>2, OthersStep DEF client, reads
  <2> QED
    BY <1>1, <2>1
<1>3. CASE LoadMore \/ Enter \/ Returns \/ \E order \in Orders : Turn(order)
  <2>1. UNCHANGED pool
    BY <1>3, ReadStarts
  <2> QED
    BY <1>3, <2>1, ReadStarts
<1>4. ASSUME NEW walk \in walks, Lands(walk) \/ WalkFails(walk)
      PROVE  walks' = walks \ {walk}
  BY <1>4 DEF Lands, WalkFails
<1>5. CASE Reader
  BY <1>3, <1>4, <1>5 DEF Reader
<1>6. CASE Person
  <2>1. PICK i \in Items :
            \/ \E kind \in Decisions : Decide(kind, i) \/ Oppose(kind, i)
            \/ \E o \in own[i] : Send(i, o) \/ Settles(i, o) \/ Refused(i, o) \/ Unanswered(i, o)
    BY <1>6 DEF Person, Decisions
  <2>2. walks' = walks
    BY <2>1 DEF Decide, Oppose, Send, Settles, Refused, Unanswered, reads
  <2>3. ASSUME NEW kind \in Decisions, Decide(kind, i) \/ Oppose(kind, i)
        PROVE  AsFar(queue', queue)
    <3>1. copies[i] # Nothing /\ Applied(kind, i)
      BY <2>3 DEF Decide, Oppose
    <3> QED
      BY <3>1, AppliedIs
  <2>4. ASSUME NEW o \in own[i], Send(i, o) \/ Unanswered(i, o) PROVE AsFar(queue', queue)
    BY <1>1, <2>4, SendStep, UnansweredStep
  <2>5. ASSUME NEW o \in own[i], Settles(i, o) PROVE AsFar(queue', queue)
    <3>1. queue' = Reconciled(queue, o.answer, i)
      BY <2>5 DEF Settles
    <3> QED
      BY <1>1, <3>1, ReconciledIs
  <2>6. ASSUME NEW o \in own[i], Refused(i, o) PROVE AsFar(queue', queue)
    BY <2>6, RefusedStep
  <2>7. AsFar(queue', queue)
    BY <2>1, <2>3, <2>4, <2>5, <2>6
  <2> QED
    BY <2>2, <2>7
<1>7. CASE Watcher
  <2>1. walks' = walks
    BY <1>7 DEF Watcher, Ask, AskLands, AskFails, RereadLands, RereadFails
  <2>2. ASSUME Ask \/ AskFails \/ \E answer \in rereads : RereadFails(answer) PROVE AsFar(queue', queue)
    <3>1. queue' = queue
      BY <2>2 DEF Ask, AskFails, RereadFails
    <3> QED
      BY <1>1, <3>1
  <2>3. ASSUME AskLands PROVE AsFar(queue', queue)
    <3>1. queue' = Caught(queue, News) /\ asked # Nothing
      BY <2>3 DEF AskLands
    <3>2. News \in Seq(Entry)
      BY <3>1, NewsAre
    <3> QED
      BY <1>1, <3>1, <3>2, CaughtIs
  <2>4. ASSUME NEW answer \in rereads, RereadLands(answer) PROVE AsFar(queue', queue)
    <3> DEFINE standing == {k \in Items : Stands(answer, k)}
    <3>1. queue' = Placed(queue, answer, standing)
      BY <2>4 DEF RereadLands
    <3> HIDE DEF standing
    <3> QED
      BY <1>1, <3>1, PlacedIs
  <2>5. AsFar(queue', queue)
    BY <1>7, <2>2, <2>3, <2>4 DEF Watcher
  <2> QED
    BY <2>1, <2>5
<1> QED
  BY <1>2, <1>5, <1>6, <1>7

\* What the pool changes of an item it counts.
LEMMA Unstirred ==
  ASSUME SurfacesAssumption, Base, Others \/ Reader \/ Person \/ Watcher,
         NEW i \in Items, modified'[i] = modified[i]
  PROVE  done'[i] = done[i] /\ (i \in 1..captured' => i \in 1..captured)
<1> HIDE DEF SurfacesAssumption
<1>1. PoolTypes /\ modified[i] \in Nat
  BY DEF Base, PoolTypes
<1>2. ASSUME NEW kind \in Kinds, NEW j \in Items, Happens(kind, j)
      PROVE  j # i /\ done'[i] = done[i]
  <2>1. j # i
    <3>1. modified'[j] = modified[j] + 1
      BY <1>1, <1>2, HappensTypes
    <3> QED
      BY <1>1, <3>1
  <2> QED
    BY <1>1, <1>2, <2>1, HappensTypes
<1>3. CASE UNCHANGED pool
  BY <1>3 DEF pool
<1>4. CASE Others
  <2>1. PICK kind \in Kinds, j \in Items :
            Happens(kind, j) /\ 1..captured' \subseteq 1..captured \cup {j}
    BY <1>4, OthersStep
  <2> QED
    BY <1>2, <2>1
<1>5. CASE \E j \in Items : \E o \in own[j] : Send(j, o)
  <2>1. PICK j \in Items : \E o \in own[j] : Send(j, o)
    BY <1>5
  <2>2. PICK o \in own[j] : Send(j, o)
    BY <2>1
  <2>3. captured' = captured /\ (UNCHANGED pool \/ (Happens(o.kind, j) /\ o.kind \in Kinds))
    BY <2>2, SendStep
  <2> QED
    BY <1>2, <1>3, <2>3
<1>6. CASE ~Others /\ ~\E j \in Items : \E o \in own[j] : Send(j, o)
  <2>1. UNCHANGED pool
    BY <1>6 DEF Reader, Person, Watcher, LoadMore, Enter, Returns, Turn, Lands, WalkFails,
                Decide, Oppose, Settles, Refused, Unanswered,
                Ask, AskLands, AskFails, RereadLands, RereadFails
  <2> QED
    BY <1>3, <2>1
<1> QED
  BY <1>4, <1>5, <1>6

LEMMA WalksStep ==
  ASSUME SurfacesAssumption, Base, Next, NEW i \in Items, i \notin astray', WalksRight(i)
  PROVE  WalksRight(i)'
<1> HIDE DEF SurfacesAssumption
<1>1. Others \/ Reader \/ Person \/ Watcher
  BY DEF Next
<1>2. i \notin Crossed
  BY AstrayGrows DEF Next
<1>3. \A one, other \in walks' : one = other
  <2>1. SUFFICES ASSUME ~\A one, other \in walks' : one = other PROVE i \in Crossed
    BY <1>2
  <2> QED
    BY <2>1 DEF Crossed
<1>4. walks \cap walks' # {} => i \notin Stirs /\ i \notin ToSet(queue'.ids) \ Rows
  BY <1>2, <1>3 DEF Crossed
<1>5. CASE UNCHANGED pool /\ \E walk \in Walks : Started(walk)
  <2>1. PICK walk \in Walks : Started(walk)
    BY <1>5
  <2>2. walk \in walks' /\ Reads(walk)
    BY <2>1 DEF Started
  <2>3. i \in 1..captured' => ReadsOf(walk, i)'
    BY <1>5, <2>2 DEF pool, Reads, ReadsOf, Answer
  <2>4. queue'.order = walk.page.order
    BY <2>1 DEF Started, AsFar
  <2>5. walk.page.after # Nothing => queue'.after = walk.page.after
    BY <2>1 DEF Started, AsFar
  <2>6. walk.page.after # Nothing /\ i \in ToSet(queue'.ids) => i \in ToSet(walk.page.ids)
    BY <2>1 DEF Started
  <2>7. \A other \in walks' : other = walk
    BY <1>3, <2>2
  <2> QED
    BY <1>3, <2>3, <2>4, <2>5, <2>6, <2>7 DEF WalksRight, Rows
<1>6. CASE \E walk \in walks : walks' = walks \ {walk}
  <2>1. walks' = {}
    BY <1>6 DEF WalksRight
  <2> QED
    BY <2>1 DEF WalksRight
<1>7. CASE walks' = walks /\ AsFar(queue', queue)
  <2> SUFFICES ASSUME NEW walk \in walks
               PROVE  /\ i \in 1..captured' => ReadsOf(walk, i)'
                      /\ queue'.order = walk.page.order
                      /\ walk.page.after # Nothing => queue'.after = walk.page.after
                      /\ walk.page.after # Nothing /\ i \in ToSet(queue'.ids) => i \in ToSet(walk.page.ids)
    BY <1>3, <1>7 DEF WalksRight, Rows
  <2>1. i \notin Stirs /\ (i \in ToSet(queue'.ids) => i \in Rows)
    BY <1>4, <1>7
  <2>2. modified'[i] = modified[i]
    BY <2>1 DEF Stirs
  <2>3. done'[i] = done[i] /\ (i \in 1..captured' => i \in 1..captured)
    BY <1>1, <2>2, Unstirred
  <2>4. i \in 1..captured' => ReadsOf(walk, i)'
    BY <2>2, <2>3 DEF WalksRight, ReadsOf, Answer
  <2>5. /\ queue'.order = walk.page.order
        /\ walk.page.after # Nothing => queue'.after = walk.page.after
    BY <1>7 DEF WalksRight, AsFar
  <2>6. walk.page.after # Nothing /\ i \in ToSet(queue'.ids) => i \in ToSet(walk.page.ids)
    BY <2>1 DEF WalksRight
  <2> QED
    BY <2>4, <2>5, <2>6
<1> QED
  BY <1>1, <1>5, <1>6, <1>7, QueueStep

-----------------------------------------------------------------------------
(* The page shows every item that is calm.                                  *)

CalmShown(i) == i \in 1..captured /\ Calm(i) => Shows(queue, i)

\* A copy that is right puts its item where it belongs.
LEMMA ReconciledShows ==
  ASSUME NEW page \in Pages, NEW i \in Items, NEW copy, copy.done = done[i]
  PROVE  Shows(Reconciled(page, copy, i), i)
<1> DEFINE new == Reconciled(page, copy, i)
<1>1. AsFar(new, page)
  BY ReconciledIs
<1>2. ToSet(new.ids) = IF ~Unprocessed(copy) THEN ToSet(page.ids) \ {i}
                       ELSE IF Unpositioned(page) \/ ~Loaded(page, i)
                       THEN ToSet(page.ids) ELSE ToSet(page.ids) \cup {i}
  BY ReconciledIs
<1> HIDE DEF new
<1>3. Unprocessed(copy) <=> done[i] = {}
  BY DEF Unprocessed
<1>4. i \in ToSet(new.ids) => done[i] = {}
  BY <1>2, <1>3
<1>5. ASSUME done[i] = {}, Walked(new, i) PROVE i \in ToSet(new.ids)
  <2>1. Walked(page, i)
    BY <1>1, <1>5 DEF Walked, AsFar
  <2>2. Loaded(page, i) /\ ~Unpositioned(page)
    BY <2>1 DEF Walked, Loaded, Unpositioned
  <2> QED
    BY <1>2, <1>3, <1>5, <2>2
<1>6. Shows(new, i)
  BY <1>4, <1>5 DEF Shows
<1> QED
  BY <1>6 DEF new

\* A page that holds of an item what another does, as far.
LEMMA ShowsAsFar ==
  ASSUME NEW page, NEW other, NEW i, Shows(page, i), AsFar(other, page),
         i \in ToSet(other.ids) <=> i \in ToSet(page.ids)
  PROVE  Shows(other, i)
<1>1. Walked(other, i) <=> Walked(page, i)
  BY DEF AsFar, Walked
<1> QED
  BY <1>1 DEF Shows

\* The page of after a step, which may change what is done of an item.
ShownNext(i) ==
    /\ i \in ToSet(queue'.ids) => done'[i] = {}
    /\ /\ done'[i] = {}
       /\ \/ queue'.exhausted
          \/ queue'.after # Nothing /\ ~Behind(queue'.order, i, queue'.after)
       => i \in ToSet(queue'.ids)

LEMMA ShowsNext ==
  ASSUME NEW i
  PROVE  /\ ShownNext(i) => CalmShown(i)'
         /\ \A page : page = queue' /\ done'[i] = done[i] /\ Shows(page, i) => ShownNext(i)
<1>1. ShownNext(i) => CalmShown(i)'
  BY DEF ShownNext, CalmShown, Shows, Walked
<1>2. \A page : page = queue' /\ done'[i] = done[i] /\ Shows(page, i) => ShownNext(i)
  BY DEF ShownNext, Shows, Walked
<1> QED
  BY <1>1, <1>2

SameItem(i) ==
    /\ SameNews(i) /\ AsFar(queue', queue) /\ (i \in ToSet(queue'.ids) <=> i \in Rows)
    /\ i \in 1..captured' => i \in 1..captured

LEMMA SameItemKeeps ==
  ASSUME NEW i, SameItem(i)
  PROVE  /\ NewsRight(i) => NewsRight(i)'
         /\ CalmShown(i) => CalmShown(i)'
<1>1. NewsRight(i) => NewsRight(i)'
  BY SameKeeps DEF SameItem
<1>2. ASSUME CalmShown(i), i \in 1..captured', Calm(i)' PROVE ShownNext(i)
  <2>1. i \in 1..captured /\ Calm(i) /\ done'[i] = done[i]
    BY <1>2, SameKeeps DEF SameItem, SameNews
  <2>2. Shows(queue, i)
    BY <1>2, <2>1 DEF CalmShown
  <2>3. \A page : page = queue' => Shows(page, i)
    BY <2>2, ShowsAsFar DEF SameItem, Rows
  <2> QED
    BY <2>1, <2>3, ShowsNext
<1>3. CalmShown(i) => CalmShown(i)'
  BY <1>2, ShowsNext DEF CalmShown
<1> QED
  BY <1>1, <1>3

\* A page that lands shows what it was read for, and what was drawn before it.
LEMMA LandsShow ==
  ASSUME SurfacesAssumption, Base, NEW walk \in walks, Lands(walk),
         NEW i \in Items, WalksRight(i), CalmShown(i), i \in 1..captured', Calm(i)'
  PROVE  ShownNext(i)
<1> HIDE DEF SurfacesAssumption
<1>1. /\ walk \in Walks /\ WalkShape(walk) /\ queue \in Pages
      /\ copies'[i] = IF i \in ToSet(walk.values) THEN walk.items[i] ELSE copies[i]
      /\ queue' = IF walk.rejoining THEN Rejoined(Landed(walk), queue) ELSE Landed(walk)
      /\ UNCHANGED <<pool, rereads, mark, own>>
  BY LandsStep DEF Base, ClientTypes
<1>2. /\ done' = done /\ captured' = captured /\ log' = log /\ Entries(i)' = Entries(i)
      /\ LastHeard' = LastHeard /\ rereads' = rereads /\ own' = own
  BY <1>1, PoolStill DEF LastHeard
<1>3. /\ ReadsOf(walk, i) /\ queue.order = walk.page.order
      /\ walk.page.after # Nothing => queue.after = walk.page.after
      /\ walk.page.after # Nothing /\ i \in Rows => i \in ToSet(walk.page.ids)
  BY <1>2 DEF WalksRight
<1> DEFINE fresh == Landed(walk)
           last == Last(walk.values)
<1>4. /\ fresh \in Pages /\ fresh.order = walk.page.order /\ fresh.exhausted = ~walk.more
      /\ fresh.after = IF walk.more THEN last ELSE Nothing
      /\ ToSet(fresh.ids) = (ToSet(walk.page.ids) \cap Rows) \cup ToSet(walk.values)
      /\ walk.page.ids = <<>> => fresh.ids = walk.values
  BY <1>1, LandedIs
<1>5. queue' = IF walk.rejoining THEN Rejoined(fresh, queue) ELSE fresh
  BY <1>1
<1> HIDE DEF fresh
<1>6. Rejoined(fresh, queue) = fresh \/ JoinedTo(Rejoined(fresh, queue), fresh, queue)
  BY <1>1, <1>4, RejoinedIs
<1>7. Rejoined(fresh, queue).order = fresh.order
  BY <1>1, <1>4, RejoinedIs
<1>8. ASSUME i \notin ToSet(walk.values)
      PROVE  /\ i \in Rows => done[i] = {}
             /\ done[i] = {} /\ Walked(queue, i) => i \in Rows
  <2>1. Calm(i)
    BY <1>1, <1>2, <1>8 DEF Calm
  <2> QED
    BY <1>2, <2>1 DEF CalmShown, Shows, Rows
<1>9. CASE queue' = fresh
  <2>1. i \in ToSet(fresh.ids) => done[i] = {}
    BY <1>3, <1>4, <1>8 DEF ReadsOf
  <2>2. ASSUME done[i] = {}, fresh.exhausted \/ (fresh.after # Nothing /\ ~Behind(fresh.order, i, fresh.after))
        PROVE  i \in ToSet(fresh.ids)
    <3>1. CASE i \in ToSet(walk.values)
      BY <1>4, <3>1
    <3>2. CASE i \notin ToSet(walk.values)
      <4>1. walk.more => ~Behind(walk.page.order, i, last)
        BY <1>4, <2>2
      <4>2. ~(walk.page.after = Nothing \/ Behind(walk.page.order, i, walk.page.after))
        BY <1>3, <2>2, <3>2, <4>1 DEF ReadsOf
      <4>3. Walked(queue, i)
        BY <1>3, <4>2 DEF Walked
      <4>4. i \in Rows
        BY <1>8, <2>2, <3>2, <4>3
      <4> QED
        BY <1>3, <1>4, <4>2, <4>4
    <3> QED
      BY <3>1, <3>2
  <2> QED
    BY <1>2, <1>9, <2>1, <2>2 DEF ShownNext
<1>10. CASE walk.rejoining /\ JoinedTo(queue', fresh, queue)
  <2>1. /\ walk.page.ids = <<>> /\ walk.page.after = Nothing /\ fresh.ids = walk.values
    BY <1>1, <1>4, <1>10 DEF WalkShape
  <2>2. /\ ~fresh.exhausted /\ queue'.exhausted = queue.exhausted
        /\ queue'.after = IF queue.after = Nothing THEN fresh.after ELSE queue.after
        /\ i \in ToSet(queue'.ids) <=>
              i \in ToSet(fresh.ids) \/ (i \in Rows /\ Behind(fresh.order, i, Last(fresh.ids)))
    BY <1>10 DEF JoinedTo, Rows
  <2>3. walk.more /\ fresh.after = last /\ Last(fresh.ids) = last
    <3>1. walk.more \in BOOLEAN
      BY <1>1 DEF Walks
    <3> QED
      BY <1>4, <2>1, <2>2, <3>1
  <2>4. queue'.order = queue.order /\ fresh.order = queue.order
    BY <1>3, <1>4, <1>5, <1>7, <1>10
  <2>5. CASE i \in ToSet(walk.values)
    <3>1. done[i] = {} /\ i \in ToSet(queue'.ids)
      BY <1>3, <2>1, <2>2, <2>5 DEF ReadsOf
    <3> QED
      BY <1>2, <3>1 DEF ShownNext
  <2>6. CASE i \notin ToSet(walk.values)
    <3>1. i \in ToSet(queue'.ids) => done[i] = {}
      BY <1>8, <2>1, <2>2, <2>6
    <3>2. ASSUME done[i] = {}, queue'.exhausted \/ (queue'.after # Nothing /\ ~Behind(queue'.order, i, queue'.after))
          PROVE  i \in ToSet(queue'.ids)
      <4>1. Behind(queue.order, i, last)
        BY <1>3, <2>1, <2>3, <2>6, <3>2 DEF ReadsOf
      <4>2. Walked(queue, i)
        BY <2>2, <2>3, <2>4, <3>2, <4>1 DEF Walked
      <4>3. i \in Rows
        BY <1>8, <2>6, <3>2, <4>2
      <4> QED
        BY <2>2, <2>3, <2>4, <4>1, <4>3
    <3> QED
      BY <1>2, <3>1, <3>2 DEF ShownNext
  <2> QED
    BY <2>5, <2>6
<1> QED
  BY <1>5, <1>6, <1>9, <1>10

\* What an entry of the log does to the row of its item.
LEMMA CaughtUpOwn ==
  ASSUME NEW page \in Pages, NEW entry \in Entry, NEW i, entry.item = i
  PROVE  /\ entry.kind \in Processing => CaughtUp(page, entry) = Without(page, i)
         /\ entry.kind = "tagged" /\ copies[i] # Nothing /\ copies[i].modified < entry.modified
               => CaughtUp(page, entry) = Reconciled(page, copies[i], i)
         /\ \/ entry.kind \in Processing
            \/ entry.kind = "tagged" /\ copies[i] # Nothing /\ copies[i].modified < entry.modified
            \/ CaughtUp(page, entry) = page
BY DEF CaughtUp, Processing

\* News that leave an item where it is, or put it where its copy is right to.
LEMMA CaughtShows ==
  ASSUME NEW i \in Items, NEW page \in Pages, Shows(page, i), NEW news \in Seq(Entry),
         \A n \in 1..Len(news) : news[n].item = i =>
             /\ news[n].kind \notin Processing
             /\ /\ news[n].kind = "tagged" /\ copies[i] # Nothing
                /\ copies[i].modified < news[n].modified
                => copies[i].done = done[i]
  PROVE  Shows(Caught(page, news), i)
<1> DEFINE Showing == {held \in Pages : Shows(held, i)}
           G == [n \in 0..Len(news) |-> Showing]
<1>1. Len(news) \in Nat /\ \A n \in 1..Len(news) : news[n] \in Entry
  OBVIOUS
<1>2. \A n \in 0..Len(news) : G[n] = Showing
  OBVIOUS
<1>3. page \in Showing /\ \A held \in Pages : held \in Showing <=> Shows(held, i)
  OBVIOUS
<1> HIDE DEF G, Showing
<1>4. ASSUME NEW n \in 1..Len(news), NEW held \in Pages, Shows(held, i)
      PROVE  CaughtUp(held, news[n]) \in Pages /\ Shows(CaughtUp(held, news[n]), i)
  <2> DEFINE entry == news[n]
  <2>1. entry \in Entry
    BY <1>1
  <2> HIDE DEF entry
  <2>2. CaughtUp(held, entry) \in Pages /\ AsFar(CaughtUp(held, entry), held)
    BY <2>1, CaughtUpIs
  <2>3. CASE entry.item # i
    <3>1. i \in ToSet(CaughtUp(held, entry).ids) <=> i \in ToSet(held.ids)
      BY <2>1, <2>3, CaughtUpIs
    <3>2. Shows(CaughtUp(held, entry), i)
      BY <1>4, <2>2, <3>1, ShowsAsFar
    <3> QED
      BY <2>2, <3>2 DEF entry
  <2>4. CASE entry.item = i
    <3>1. entry.kind \notin Processing
      BY <2>4 DEF entry
    <3>2. CASE entry.kind = "tagged" /\ copies[i] # Nothing /\ copies[i].modified < entry.modified
      <4>1. CaughtUp(held, entry) = Reconciled(held, copies[i], i)
        BY <2>1, <2>4, <3>2, CaughtUpOwn
      <4>2. copies[i].done = done[i]
        BY <2>4, <3>2 DEF entry
      <4>3. Shows(CaughtUp(held, entry), i)
        BY <4>1, <4>2, ReconciledShows
      <4> QED
        BY <2>2, <4>3 DEF entry
    <3>3. CASE ~(entry.kind = "tagged" /\ copies[i] # Nothing /\ copies[i].modified < entry.modified)
      <4>1. CaughtUp(held, entry) = held
        BY <2>1, <2>4, <3>1, <3>3, CaughtUpOwn
      <4> QED
        BY <1>4, <2>2, <4>1 DEF entry
    <3> QED
      BY <3>2, <3>3
  <2> QED
    BY <2>3, <2>4
<1>5. page \in G[0]
  BY <1>1, <1>2, <1>3
<1>6. ASSUME NEW n \in 1..Len(news), NEW held \in Pages, held \in G[n - 1]
      PROVE  CaughtUp(held, news[n]) \in G[n]
  <2>1. G[n - 1] = Showing /\ G[n] = Showing
    BY <1>1, <1>2
  <2> QED
    BY <1>3, <1>4, <1>6, <2>1
<1>7. Caught(page, news) \in Pages /\ Caught(page, news) \in G[Len(news)]
  BY <1>5, <1>6, CaughtAlong
<1> QED
  BY <1>1, <1>2, <1>3, <1>7

\* An item is off the page once it was processed, if no tag puts it back.
LEMMA CaughtOut ==
  ASSUME NEW i \in Items, NEW page \in Pages, NEW news \in Seq(Entry),
         NEW b \in 1..Len(news), news[b].item = i, news[b].kind \in Processing,
         \A n \in 1..Len(news) : n > b /\ news[n].item = i =>
             news[n].kind # "tagged" \/ copies[i] = Nothing
  PROVE  i \notin ToSet(Caught(page, news).ids)
<1> DEFINE Bare == {held \in Pages : i \notin ToSet(held.ids)}
           G == [n \in 0..Len(news) |-> IF n < b THEN Pages ELSE Bare]
<1>1. /\ Len(news) \in Nat /\ b \in Nat /\ b >= 1 /\ b <= Len(news)
      /\ \A n \in 1..Len(news) : news[n] \in Entry
  OBVIOUS
<1>2. \A n \in 0..Len(news) : G[n] = IF n < b THEN Pages ELSE Bare
  OBVIOUS
<1>3. \A held : held \in Bare <=> held \in Pages /\ i \notin ToSet(held.ids)
  OBVIOUS
<1> HIDE DEF G, Bare
<1>4. \A held \in Pages : i \notin ToSet(Without(held, i).ids)
  <2>1. ASSUME NEW held \in Pages PROVE ToSet(Without(held, i).ids) = ToSet(held.ids) \ {i}
    BY WithoutIs
  <2> QED
    BY <2>1
<1>5. ASSUME NEW n \in 1..Len(news), NEW held \in Pages, held \in G[n - 1]
      PROVE  CaughtUp(held, news[n]) \in G[n]
  <2> DEFINE entry == news[n]
  <2>1. entry \in Entry /\ n \in Nat
    BY <1>1
  <2> HIDE DEF entry
  <2>2. CaughtUp(held, entry) \in Pages
    BY <2>1, CaughtUpIs
  <2>3. CASE n < b
    BY <1>1, <1>2, <2>2, <2>3 DEF entry
  <2>4. CASE n = b
    <3>1. CaughtUp(held, entry) = Without(held, i)
      BY <2>1, <2>4, CaughtUpOwn DEF entry
    <3>2. CaughtUp(held, entry) \in Bare
      BY <1>3, <1>4, <2>2, <3>1
    <3> QED
      BY <1>1, <1>2, <2>4, <3>2 DEF entry
  <2>5. CASE n > b
    <3>1. i \notin ToSet(held.ids)
      <4>1. G[n - 1] = Bare
        BY <1>1, <1>2, <2>1, <2>5
      <4> QED
        BY <1>3, <1>5, <4>1
    <3>2. i \notin ToSet(CaughtUp(held, entry).ids)
      <4>1. CASE entry.item # i
        BY <2>1, <3>1, <4>1, CaughtUpIs
      <4>2. CASE entry.item = i
        <5>1. entry.kind # "tagged" \/ copies[i] = Nothing
          BY <1>1, <2>5, <4>2 DEF entry
        <5>2. CaughtUp(held, entry) = Without(held, i) \/ CaughtUp(held, entry) = held
          BY <2>1, <4>2, <5>1, CaughtUpOwn
        <5> QED
          BY <1>4, <3>1, <5>2
      <4> QED
        BY <4>1, <4>2
    <3>3. CaughtUp(held, entry) \in Bare
      BY <1>3, <2>2, <3>2
    <3> QED
      BY <1>1, <1>2, <2>1, <2>5, <3>3 DEF entry
  <2> QED
    BY <1>1, <2>1, <2>3, <2>4, <2>5
<1>6. page \in G[0]
  BY <1>1, <1>2
<1>7. Caught(page, news) \in Pages /\ Caught(page, news) \in G[Len(news)]
  BY <1>5, <1>6, CaughtAlong
<1>8. G[Len(news)] = Bare
  BY <1>1, <1>2
<1> QED
  BY <1>3, <1>7, <1>8

\* What was heard and read is no newer than the copy, once no answer newer is out.
LEMMA HeardIsOld ==
  ASSUME PoolTypes, NEW i \in Items, HeardIsRead(i), own[i] = {}, copies[i] \in Copy,
         \A answer \in rereads : i \in DOMAIN answer =>
             answer[i].modified \in Nat /\ answer[i].modified < copies[i].modified,
         NEW n \in Entries(i), n <= LastHeard, log[n].kind \in Returning \cup Rerouting
  PROVE  log[n].modified <= copies[i].modified
<1>1. log[n].modified \in Nat /\ copies[i].modified \in Nat /\ copies[i] # Nothing
  BY EntriesAre, NothingIsNoCopy DEF Copy
<1>2. CASE \E answer \in rereads : i \in DOMAIN answer /\ log[n].modified <= answer[i].modified
  BY <1>1, <1>2
<1> QED
  BY <1>1, <1>2 DEF HeardIsRead

\* News that land show every item that is calm then.
LEMMA AskShow ==
  ASSUME SurfacesAssumption, Base, LogCounts, LogTells, AskLands, NEW i \in Items,
         NewsRight(i), CalmShown(i), i \notin Untold, i \in 1..captured', Calm(i)'
  PROVE  ShownNext(i)
<1> HIDE DEF SurfacesAssumption
<1>1. /\ asked # Nothing /\ LastHeard' = asked
      /\ Heard = {} => rereads' = rereads
      /\ Heard # {} => \E answer \in Copies :
                          /\ rereads' = rereads \cup {answer}
                          /\ DOMAIN answer = Heard /\ \A j \in Heard : answer[j] = Answer(j)
      /\ UNCHANGED <<pool, copies, walks, own, away, events>>
  BY AskLandsStep
<1>2. /\ PoolTypes /\ log' = log /\ done' = done /\ captured' = captured /\ Entries(i)' = Entries(i)
      /\ queue \in Pages /\ copies[i] \in Copy \cup {Nothing} /\ Nothing \notin Copy
      /\ queue' = Caught(queue, News) /\ own[i] = {}
  BY <1>1, PoolStill, NothingIsNoCopy DEF Base, ClientTypes, AskLands, Calm
<1>3. /\ \A answer \in rereads : i \in DOMAIN answer =>
            copies[i] # Nothing /\ answer[i].modified < copies[i].modified
      /\ i \in Heard => copies[i] # Nothing /\ Answer(i).modified < copies[i].modified
  BY <1>1 DEF Calm
<1>4. ASSUME copies[i] # Nothing
      PROVE  /\ copies[i] \in Copy /\ copies[i].modified \in Nat /\ Right(i, copies[i])
             /\ copies[i].modified <= modified[i]
  <2>1. copies[i] \in Copy
    BY <1>2, <1>4
  <2>2. copies[i] \in Kept(i)
    BY <1>2, <2>1 DEF Kept
  <2>3. Right(i, copies[i])
    BY <2>2 DEF NewsRight, AnswersRight
  <2> QED
    BY <2>1, <2>3 DEF Right, Copy
<1>5. i \notin Heard
  <2> SUFFICES ASSUME i \in Heard PROVE FALSE
    OBVIOUS
  <2>1. copies[i] # Nothing /\ Answer(i).modified < copies[i].modified
    BY <1>3
  <2>2. Answer(i).modified = modified[i] /\ modified[i] \in Nat
    BY <1>2, AnswerIs, EntriesAre
  <2> QED
    BY <1>4, <2>1, <2>2
<1>6. \A n \in Entries(i) : /\ n \in 1..Len(log) /\ n \in Nat /\ log[n] \in Entry /\ log[n].item = i
                            /\ log[n].modified \in Nat /\ log[n].kind \in Kinds
  BY <1>2, EntriesAre
<1>7. LastHeard \in Nat /\ asked \in Nat /\ News \in Seq(Entry) /\ Len(News) \in Nat
  BY <1>1, NewsAre
<1>8. ASSUME NEW n \in Entries(i), n > LastHeard
      PROVE  /\ log[n].kind \notin Returning
             /\ log[n].kind = "routed" => copies[i] = Nothing
             /\ log[n].kind = "captured" => copies[i] # Nothing
             /\ n > asked => log[n].kind \notin Processing
  <2>1. CASE n <= asked
    <3>1. log[n] \in ToSet(News) /\ log[n].item = i
      BY <1>8, <2>1, HeardIsNews
    <3>2. ~( \/ log[n].kind = "captured" /\ copies[i] = Nothing
             \/ log[n].kind \in Returning
             \/ log[n].kind \in Rerouting /\ copies[i] # Nothing )
      BY <1>2, <1>5, <3>1 DEF Heard
    <3> QED
      BY <1>6, <1>7, <2>1, <3>2 DEF Rerouting
  <2>2. CASE n > asked
    <3>1. log[n].kind = "tagged" \/ (log[n].kind = "captured" /\ copies[i] # Nothing)
      BY <1>1, <1>2, <2>2 DEF Calm
    <3> QED
      BY <3>1 DEF Returning, Processing
  <2> QED
    BY <1>6, <1>7, <2>1, <2>2
<1>9. CASE \A n \in Entries(i) : n > LastHeard => log[n].kind \notin Processing
  <2>1. \A n \in Entries(i) : n > LastHeard =>
            log[n].kind = "tagged" \/ (log[n].kind = "captured" /\ copies[i] # Nothing)
    BY <1>6, <1>8, <1>9 DEF Processing, Returning, Kinds
  <2>2. Calm(i)
    BY <1>2, <1>3, <2>1 DEF Calm
  <2>3. Shows(queue, i)
    BY <1>2, <2>2 DEF CalmShown
  <2>4. ASSUME NEW m \in Entries(i), m > LastHeard, log[m].kind = "tagged", copies[i] # Nothing
        PROVE  copies[i].done = done[i]
    <3>1. \A answer \in rereads : i \in DOMAIN answer =>
              answer[i].modified \in Nat /\ answer[i].modified < copies[i].modified
      <4>1. \A answer \in rereads : i \in DOMAIN answer => answer[i].modified \in Nat
        <5>1. \A answer \in rereads : answer \in Copies
          BY DEF Base, ClientTypes
        <5> QED
          BY <5>1, CopiesIs DEF Copy
      <4> QED
        BY <1>3, <4>1
    <3>2. ASSUME NEW k \in Entries(i), log[k].modified > copies[i].modified
          PROVE  log[k].kind \notin Returning \cup Rerouting
      <4>1. CASE k > LastHeard
        BY <2>1, <4>1 DEF Returning, Rerouting
      <4>2. CASE k <= LastHeard
        <5> SUFFICES ASSUME log[k].kind \in Returning \cup Rerouting PROVE FALSE
          OBVIOUS
        <5>1. log[k].modified <= copies[i].modified
          BY <1>2, <1>4, <2>4, <3>1, <4>2, HeardIsOld DEF NewsRight
        <5> QED
          BY <1>4, <1>6, <2>4, <3>2, <5>1
      <4> QED
        BY <1>6, <1>7, <4>1, <4>2
    <3>3. ASSUME NEW k \in Entries(i), log[k].modified > copies[i].modified
          PROVE  log[k].kind # "archived"
      <4> SUFFICES ASSUME log[k].kind = "archived" PROVE FALSE
        OBVIOUS
      <4>1. ~(k > LastHeard)
        BY <2>1
      <4>2. k < m
        BY <1>6, <1>7, <2>4, <4>1
      <4>3. PICK l \in Entries(i) : k < l /\ l < m /\ log[l].kind = "unarchived"
        BY <2>4, <4>2 DEF NewsRight, TagsOnWork
      <4>4. log[k].modified < log[l].modified
        BY <4>3 DEF LogCounts
      <4>5. log[l].modified > copies[i].modified
        BY <1>4, <1>6, <2>4, <3>3, <4>4
      <4> QED
        BY <3>2, <4>3, <4>5 DEF Returning
    <3>4. StillSince(i, copies[i].modified)
      BY <1>6, <3>2, <3>3 DEF StillSince, Steady, Kinds, Returning, Rerouting
    <3> QED
      BY <1>4, <2>4, <3>4 DEF Right
  <2>5. ASSUME NEW n \in 1..Len(News), News[n].item = i
        PROVE  /\ News[n].kind \notin Processing
               /\ /\ News[n].kind = "tagged" /\ copies[i] # Nothing
                  /\ copies[i].modified < News[n].modified
                  => copies[i].done = done[i]
    <3>1. mark # Nothing
      BY <1>1, <1>7, NewsAre
    <3>2. PICK m \in 1..Len(log) : m > LastHeard /\ News[n] = log[m]
      BY <1>1, <3>1, NewsAre
    <3>3. m \in Entries(i)
      BY <2>5, <3>2 DEF Entries
    <3> QED
      BY <1>9, <2>4, <3>2, <3>3
  <2>6. Shows(Caught(queue, News), i)
    BY <1>2, <1>7, <2>3, <2>5, CaughtShows
  <2> QED
    BY <1>2, <2>6, ShowsNext
<1>10. ASSUME NEW m \in Entries(i), m > LastHeard, log[m].kind \in Processing
       PROVE  ShownNext(i)
  <2>1. m <= asked
    BY <1>6, <1>7, <1>8, <1>10
  <2>2. done[i] # {}
    <3>1. CASE log[m].kind = "archived"
      <4>1. ~\E k \in Entries(i) : k > m /\ log[k].kind = "unarchived"
        BY <1>6, <1>7, <1>8, <1>10 DEF Returning
      <4> QED
        BY <3>1, <4>1 DEF LogTells
    <3>2. CASE log[m].kind = "routed"
      <4>1. ~\E k \in Entries(i) : k > m /\ log[k].kind = "delivery-withdrawn"
        BY <1>6, <1>7, <1>8, <1>10 DEF Returning
      <4> QED
        BY <3>2, <4>1 DEF LogTells
    <3> QED
      BY <1>10, <3>1, <3>2 DEF Processing
  <2>3. ASSUME NEW k \in Entries(i), k > m, log[k].kind = "tagged", copies[i] # Nothing
        PROVE  FALSE
    <3>1. log[m].kind = "archived"
      BY <1>8, <1>10, <2>3 DEF Processing
    <3>2. PICK l \in Entries(i) : m < l /\ l < k /\ log[l].kind = "unarchived"
      BY <2>3, <3>1 DEF NewsRight, TagsOnWork
    <3> QED
      BY <1>6, <1>7, <1>8, <1>10, <3>2 DEF Returning
  <2> DEFINE b == m - First + 1
  <2>4. /\ mark # Nothing /\ b \in 1..Len(News) /\ News[b] = log[m]
    BY <1>10, <2>1, HeardIsNews
  <2>5. First \in Nat /\ b = m - First + 1 /\ m \in Nat
    BY <1>1, <1>6, <2>4, NewsAre
  <2> HIDE DEF b
  <2>6. ASSUME NEW n \in 1..Len(News), n > b, News[n].item = i
        PROVE  News[n].kind # "tagged" \/ copies[i] = Nothing
    <3>1. First + n - 1 \in 1..Len(log) /\ News[n] = log[First + n - 1]
      BY <1>1, <2>4, NewsAre
    <3>2. First + n - 1 > m
      BY <1>7, <2>4, <2>5, <2>6
    <3>3. First + n - 1 \in Entries(i)
      BY <2>6, <3>1 DEF Entries
    <3> QED
      BY <2>3, <3>1, <3>2, <3>3
  <2>7. News[b].item = i /\ News[b].kind \in Processing
    BY <1>6, <1>10, <2>4
  <2>8. i \notin ToSet(Caught(queue, News).ids)
    BY <1>2, <1>7, <2>4, <2>6, <2>7, CaughtOut
  <2> QED
    BY <1>2, <2>2, <2>8 DEF ShownNext
<1> QED
  BY <1>9, <1>10

\* An answer that stands and is right puts its item where it belongs.
LEMMA PlacedShows ==
  ASSUME SurfacesAssumption, NEW page \in Pages, NEW answer, NEW standing,
         NEW i \in Items, i \in standing, answer[i].done = done[i]
  PROVE  Shows(Placed(page, answer, standing), i)
<1> DEFINE Showing == {held \in Pages : Shows(held, i)}
           G == [n \in 0..Captures |-> IF n < i THEN Pages ELSE Showing]
<1>1. /\ Captures \in Nat /\ i \in Nat /\ i >= 1 /\ i <= Captures
      /\ Items = 1..Captures
  BY Numbers
<1>2. \A n \in 0..Captures : G[n] = IF n < i THEN Pages ELSE Showing
  OBVIOUS
<1>3. \A held : held \in Showing <=> held \in Pages /\ Shows(held, i)
  OBVIOUS
<1> HIDE DEF G, Showing, SurfacesAssumption
<1>4. ASSUME NEW n \in Items, NEW held \in Pages, held \in G[n - 1]
      PROVE  Settled(held, answer, standing, n) \in G[n]
  <2>1. n \in Nat /\ n - 1 \in 0..Captures /\ n \in 0..Captures
    BY <1>1
  <2> DEFINE new == Settled(held, answer, standing, n)
  <2>2. new \in Pages /\ AsFar(new, held)
    BY SettledIs
  <2>3. n # i => (i \in ToSet(new.ids) <=> i \in ToSet(held.ids))
    BY SettledIs
  <2>4. n = i => new = Reconciled(held, answer[i], i)
    BY DEF Settled
  <2> HIDE DEF new
  <2>5. CASE n < i
    BY <1>2, <2>1, <2>2, <2>5 DEF new
  <2>6. CASE n = i
    <3>1. Shows(new, i)
      BY <2>4, <2>6, ReconciledShows
    <3>2. new \in Showing
      BY <1>3, <2>2, <3>1
    <3> QED
      BY <1>1, <1>2, <2>1, <2>6, <3>2 DEF new
  <2>7. CASE n > i
    <3>1. G[n - 1] = Showing
      BY <1>1, <1>2, <2>1, <2>7
    <3>2. Shows(held, i)
      BY <1>3, <1>4, <3>1
    <3>3. Shows(new, i)
      BY <1>1, <2>1, <2>2, <2>3, <2>7, <3>2, ShowsAsFar
    <3>4. new \in Showing
      BY <1>3, <2>2, <3>3
    <3> QED
      BY <1>1, <1>2, <2>1, <2>7, <3>4 DEF new
  <2> QED
    BY <1>1, <2>1, <2>5, <2>6, <2>7
<1>5. page \in G[0]
  BY <1>1, <1>2
<1>6. Placed(page, answer, standing) \in G[Captures]
  BY <1>4, <1>5, PlacedAlong
<1>7. G[Captures] = Showing
  BY <1>1, <1>2
<1> QED
  BY <1>3, <1>6, <1>7

\* An answer that lands shows every item that is calm then.
LEMMA RereadShow ==
  ASSUME SurfacesAssumption, Base, NEW answer \in rereads, RereadLands(answer),
         NEW i \in Items, NewsRight(i), HeardIsRead(i)', CalmShown(i),
         i \in 1..captured', Calm(i)'
  PROVE  ShownNext(i)
<1> HIDE DEF SurfacesAssumption
<1> DEFINE standing == {k \in Items : Stands(answer, k)}
<1>1. /\ answer \in Copies /\ rereads' = rereads \ {answer}
      /\ copies'[i] = IF Stands(answer, i) THEN answer[i] ELSE copies[i]
      /\ queue' = Placed(queue, answer, standing)
      /\ UNCHANGED <<pool, walks, mark, asked, own, away, events>>
  BY RereadLandsStep
<1>2. i \in standing <=> Stands(answer, i)
  OBVIOUS
<1> HIDE DEF standing
<1>3. /\ PoolTypes /\ log' = log /\ done' = done /\ captured' = captured /\ Entries(i)' = Entries(i)
      /\ LastHeard' = LastHeard /\ LastHeard \in Nat /\ queue \in Pages /\ own[i] = {}
      /\ own' = own
  BY <1>1, PoolStill, Numbers DEF Base, ClientTypes, Calm, LastHeard
<1>4. /\ i \in DOMAIN answer => answer[i] \in Copy /\ answer[i].modified \in Nat
      /\ copies[i] # Nothing => copies[i].modified \in Nat
  BY <1>1, CopiesIs, OperatedOn DEF Copy
<1>5. CASE ~Stands(answer, i)
  <2>1. \A other \in rereads : i \in DOMAIN other =>
            copies[i] # Nothing /\ other[i].modified < copies[i].modified
    <3>1. i \in DOMAIN answer => copies[i] # Nothing /\ ~(copies[i].modified <= answer[i].modified)
      BY <1>3, <1>5 DEF Stands
    <3>2. i \in DOMAIN answer => copies[i] # Nothing /\ answer[i].modified < copies[i].modified
      BY <1>4, <3>1
    <3>3. \A other \in rereads' : i \in DOMAIN other =>
              copies[i] # Nothing /\ other[i].modified < copies[i].modified
      BY <1>1, <1>5 DEF Calm
    <3> QED
      BY <1>1, <3>2, <3>3
  <2>2. \A n \in Entries(i) : n > LastHeard =>
            log[n].kind = "tagged" \/ (log[n].kind = "captured" /\ copies[i] # Nothing)
    BY <1>1, <1>3, <1>5 DEF Calm
  <2>3. Shows(queue, i)
    BY <1>3, <2>1, <2>2 DEF Calm, CalmShown
  <2>4. /\ AsFar(Placed(queue, answer, standing), queue)
        /\ i \in ToSet(Placed(queue, answer, standing).ids) <=> i \in ToSet(queue.ids)
    BY <1>2, <1>3, <1>5, PlacedIs
  <2>5. Shows(Placed(queue, answer, standing), i)
    BY <2>3, <2>4, ShowsAsFar
  <2> QED
    BY <1>1, <1>3, <2>5, ShowsNext
<1>6. CASE Stands(answer, i)
  <2>1. i \in DOMAIN answer /\ copies'[i] = answer[i] /\ answer[i] \in Copy
    BY <1>1, <1>4, <1>6 DEF Stands
  <2>2. answer[i] \in Kept(i)
    BY <2>1 DEF Kept
  <2>3. Right(i, answer[i])
    BY <2>2 DEF NewsRight, AnswersRight
  <2>4. ASSUME NEW n \in Entries(i), log[n].modified > answer[i].modified
        PROVE  log[n].kind \in Steady
    <3>1. n \in Nat /\ log[n].modified \in Nat /\ log[n].kind \in Kinds
      BY <1>3, EntriesAre
    <3>2. CASE n > LastHeard
      BY <1>3, <3>2 DEF Calm, Steady
    <3>3. CASE n <= LastHeard
      <4>1. log[n].kind # "archived"
        BY <2>1, <2>4 DEF NewsRight, UnderRead
      <4>2. log[n].kind \notin Returning \cup Rerouting
        <5> SUFFICES ASSUME log[n].kind \in Returning \cup Rerouting PROVE FALSE
          OBVIOUS
        <5>1. \/ copies'[i] # Nothing /\ log[n].modified <= copies'[i].modified
              \/ \E other \in rereads' : i \in DOMAIN other /\ log[n].modified <= other[i].modified
              \/ log[n].kind = "routed" /\ copies'[i] = Nothing
          BY <1>3, <3>3 DEF HeardIsRead
        <5>2. ~(log[n].modified <= copies'[i].modified) /\ copies'[i] # Nothing
          BY <1>4, <2>1, <2>4, <3>1, NothingIsNoCopy
        <5>3. PICK other \in rereads' : i \in DOMAIN other /\ log[n].modified <= other[i].modified
          BY <5>1, <5>2
        <5>4. other[i].modified < answer[i].modified
          BY <2>1, <5>3 DEF Calm
        <5>5. other \in Copies
          BY <1>1 DEF Base, ClientTypes
        <5>6. other[i].modified \in Nat
          BY <5>3, <5>5, CopiesIs DEF Copy
        <5> QED
          BY <1>4, <2>1, <2>4, <3>1, <5>3, <5>4, <5>6
      <4> QED
        BY <3>1, <4>1, <4>2 DEF Kinds, Steady, Returning, Rerouting
    <3> QED
      BY <1>3, <3>1, <3>2, <3>3
  <2>5. answer[i].done = done[i]
    BY <2>3, <2>4 DEF Right, StillSince
  <2>6. Shows(Placed(queue, answer, standing), i)
    BY <1>2, <1>3, <1>6, <2>5, PlacedShows
  <2> QED
    BY <1>1, <1>3, <2>6, ShowsNext
<1> QED
  BY <1>5, <1>6

\* The last operation withdrawn by its opposite leaves the item as the pool has it.
LEMMA OpposeShow ==
  ASSUME SurfacesAssumption, Base, LogCounts, NEW i \in Items, NEW kind \in Decisions,
         Oppose(kind, i), own'[i] = {}, i \notin OpposedStale, NewsRight(i)
  PROVE  NewsRight(i)' /\ ShownNext(i)
<1> HIDE DEF SurfacesAssumption
<1>1. /\ own[i] # {} /\ \A o \in own[i] : ~o.sent
      /\ copies[i] # Nothing /\ Applied(kind, i)
      /\ UNCHANGED <<pool, reads, away, events>>
  BY OpposeStep
<1>2. /\ PoolTypes /\ ClientTypes /\ queue \in Pages
      /\ own'[i] \subseteq own[i] /\ rereads' = rereads /\ mark' = mark /\ done' = done
  BY <1>1 DEF Base, ClientTypes, reads, pool
<1>3. copies'[i] = Answer(i)
  BY <1>1, <1>2 DEF OpposedStale
<1>4. copies'[i] = Drawn(kind, i) /\ Drawn(kind, i).done = Becomes(kind, copies[i].done)
  BY <1>1, <1>2, AppliedIs, DrawnIs
<1>5. Answer(i).done = done[i]
  BY <1>2, AnswerIs
<1>6. NewsRight(i)'
  BY <1>1, <1>2, <1>3, FreshKeeps
<1>7. CASE kind = "archived"
  <2>1. queue' = Without(queue, i)
    BY <1>1, <1>7 DEF Applied
  <2>2. ToSet(Without(queue, i).ids) = Rows \ {i}
    BY <1>2, WithoutIs DEF Rows
  <2>3. "archived" \in done[i]
    BY <1>3, <1>4, <1>5, <1>7 DEF Becomes
  <2> QED
    BY <1>2, <1>6, <2>1, <2>2, <2>3 DEF ShownNext
<1>8. CASE kind # "archived"
  <2>1. queue' = Reconciled(queue, Drawn(kind, i), i)
    BY <1>1, <1>8 DEF Applied
  <2>2. Drawn(kind, i).done = done[i]
    BY <1>3, <1>4, <1>5
  <2>3. Shows(Reconciled(queue, Drawn(kind, i), i), i)
    BY <1>2, <2>2, ReconciledShows
  <2> QED
    BY <1>2, <1>6, <2>1, <2>3, ShowsNext
<1> QED
  BY <1>7, <1>8

\* The answer of an operation leaves the item as the pool has it, if it is calm.
LEMMA SettlesShow ==
  ASSUME SurfacesAssumption, Base, NEW i \in Items, NEW o \in own[i], Settles(i, o), NewsRight(i)
  PROVE  NewsRight(i)' /\ (Calm(i)' => ShownNext(i))
<1> HIDE DEF SurfacesAssumption
<1>1. /\ o.sent /\ ~o.refused /\ o.answer \in Copy
      /\ own'[i] = own[i] \ {o}
      /\ copies'[i] = o.answer
      /\ queue' = Reconciled(queue, o.answer, i)
      /\ UNCHANGED <<pool, reads, away, events>>
  BY SettlesStep
<1>2. /\ PoolTypes /\ queue \in Pages /\ own'[i] \subseteq own[i]
      /\ rereads' = rereads /\ mark' = mark
      /\ done' = done /\ log' = log /\ Entries(i)' = Entries(i) /\ LastHeard' = LastHeard
      /\ LastHeard \in Nat
  BY <1>1, PoolStill, Numbers DEF Base, ClientTypes, reads, LastHeard
<1>3. NewsRight(i)'
  BY <1>1, <1>2, SettledKeeps
<1>4. ASSUME Calm(i)' PROVE ShownNext(i)
  <2>1. o.answer \in Kept(i)
    BY <1>1 DEF Kept
  <2>2. Right(i, o.answer)
    BY <2>1 DEF NewsRight, AnswersRight
  <2>3. ASSUME NEW n \in Entries(i), log[n].modified > o.answer.modified
        PROVE  log[n].kind \in Steady
    <3>1. n \in Nat /\ log[n].modified \in Nat /\ o.answer.modified \in Nat
      BY <1>1, <1>2, EntriesAre DEF Copy
    <3>2. ~(n <= LastHeard)
      BY <1>1, <2>3, <3>1 DEF NewsRight, AnswerUnheard
    <3>3. n > LastHeard
      BY <1>2, <3>1, <3>2
    <3> QED
      BY <1>2, <1>4, <3>3 DEF Calm, Steady
  <2>4. o.answer.done = done[i]
    BY <2>2, <2>3 DEF Right, StillSince
  <2>5. Shows(Reconciled(queue, o.answer, i), i)
    BY <1>2, <2>4, ReconciledShows
  <2> QED
    BY <1>1, <1>2, <2>5, ShowsNext
<1> QED
  BY <1>3, <1>4

-----------------------------------------------------------------------------
(* Every step keeps what is known of an item that is not astray.            *)

ItemRight(i) == NewsRight(i) /\ WalksRight(i) /\ CalmShown(i)

\* What the pool does to another item.
LEMMA OtherChanged ==
  ASSUME SurfacesAssumption, Base, NEW kind \in Kinds, NEW j \in Items, Happens(kind, j),
         NEW i \in Items, i # j, UNCHANGED <<copies, queue, rereads, mark>>, own'[i] = own[i],
         i \in 1..captured' => i \in 1..captured
  PROVE  SameItem(i)
<1> HIDE DEF SurfacesAssumption
<1>1. PoolTypes /\ LastHeard' = LastHeard
  BY DEF Base, LastHeard
<1>2. done'[i] = done[i] /\ modified'[i] = modified[i]
  BY <1>1, HappensTypes
<1>3. /\ \A n : n \in Entries(i)' <=> n \in Entries(i)
      /\ \A n \in Entries(i) : log'[n] = log[n]
  BY <1>1, LogMore
<1>4. Entries(i)' = Entries(i)
  <2>1. Entries(i) = {n \in 1..Len(log) : log[n].item = i}
    BY DEF Entries
  <2>2. Entries(i)' = {n \in 1..Len(log') : log'[n].item = i}
    BY DEF Entries
  <2> QED
    BY <1>3, <2>1, <2>2
<1> QED
  BY <1>1, <1>2, <1>3, <1>4 DEF SameItem, SameNews, AsFar, Rows

\* A step of the client that leaves the item, its operations and its reads alone.
LEMMA ItemStill ==
  ASSUME UNCHANGED <<pool, mark>>, NEW i, copies'[i] = copies[i], own'[i] = own[i],
         \A answer : i \in DOMAIN answer => (answer \in rereads' <=> answer \in rereads)
  PROVE  /\ SameNews(i)
         /\ AsFar(queue', queue) /\ (i \in ToSet(queue'.ids) <=> i \in Rows) => SameItem(i)
<1>1. /\ done' = done /\ modified' = modified /\ log' = log /\ captured' = captured
      /\ Entries(i)' = Entries(i)
  BY PoolStill
<1> QED
  BY <1>1 DEF SameItem, SameNews, LastHeard

LEMMA OthersItem ==
  ASSUME SurfacesAssumption, Base, LogCounts, LogTells, Others, NEW i \in Items, ItemRight(i),
         i \notin LeftUnderRead, i \notin TaggedArchived
  PROVE  NewsRight(i)' /\ CalmShown(i)'
<1> HIDE DEF SurfacesAssumption
<1>1. PICK kind \in Kinds, j \in Items :
          /\ Happens(kind, j)
          /\ kind = "captured" <=> j \notin 1..captured
          /\ 1..captured' \subseteq 1..captured \cup {j}
  BY OthersStep
<1>2. /\ UNCHANGED <<copies, queue, walks, rereads, mark, asked, own>>
      /\ PoolTypes /\ LastHeard' = LastHeard /\ LastHeard \in Nat /\ LastHeard <= Len(log)
  BY OthersStep, Numbers DEF client, reads, LastHeard, Base, ClientTypes, Marks
<1>3. CASE i # j
  <2>1. SameItem(i)
    BY <1>1, <1>2, <1>3, OtherChanged
  <2> QED
    BY <2>1, SameItemKeeps DEF ItemRight
<1>4. CASE i = j
  <2>1. Happens(kind, i) /\ own'[i] = own[i]
    BY <1>1, <1>2, <1>4
  <2>2. NewsRight(i)'
    BY <1>2, <2>1, ChangeKeeps DEF ItemRight
  <2>3. ASSUME Calm(i)' PROVE ShownNext(i)
    <3>1. /\ \A n : n \in Entries(i)' <=> n \in Entries(i) \/ n = Len(log) + 1
          /\ \A n \in Entries(i) : log'[n] = log[n] /\ n \in 1..Len(log)
          /\ log'[Len(log) + 1].kind = kind
      BY <1>2, <2>1, LogMore
    <3>2. Len(log) \in Nat /\ Len(log) + 1 > LastHeard
      BY <1>2 DEF PoolTypes
    <3>3. kind = "tagged" \/ (kind = "captured" /\ copies[i] # Nothing)
      BY <1>2, <2>3, <3>1, <3>2 DEF Calm
    <3>4. kind = "tagged" /\ i \in 1..captured
      BY <1>1, <1>4, <3>3 DEF Base, Known
    <3>5. done'[i] = done[i]
      <4>1. done'[i] = Becomes(kind, done[i])
        BY <1>2, <2>1, HappensTypes
      <4> QED
        BY <3>4, <4>1 DEF Becomes
    <3>6. Calm(i)
      BY <1>2, <2>3, <3>1 DEF Calm
    <3>7. Shows(queue, i)
      BY <3>4, <3>6 DEF ItemRight, CalmShown
    <3> QED
      BY <1>2, <3>5, <3>7, ShowsNext
  <2>4. CalmShown(i)'
    BY <2>3, ShowsNext DEF CalmShown
  <2> QED
    BY <2>2, <2>4
<1> QED
  BY <1>3, <1>4

LEMMA ReaderItem ==
  ASSUME SurfacesAssumption, Base, LogCounts, Reader, NEW i \in Items, ItemRight(i)
  PROVE  NewsRight(i)' /\ CalmShown(i)'
<1> HIDE DEF SurfacesAssumption
<1>1. NewsRight(i) /\ WalksRight(i) /\ CalmShown(i) /\ PoolTypes /\ ClientTypes
  BY DEF ItemRight, Base
<1>2. CASE LoadMore \/ Enter \/ Returns \/ \E order \in Orders : Turn(order)
  <2>1. UNCHANGED <<pool, copies, rereads, mark, asked, own>>
    BY <1>2, ReadStarts
  <2>2. SameNews(i) /\ (AsFar(queue', queue) /\ (i \in ToSet(queue'.ids) <=> i \in Rows) => SameItem(i))
    BY <2>1, ItemStill
  <2>3. CASE AsFar(queue', queue) /\ queue'.ids = queue.ids
    <3>1. SameItem(i)
      BY <2>2, <2>3 DEF Rows
    <3> QED
      BY <1>1, <3>1, SameItemKeeps
  <2>4. CASE \E walk \in Walks : Started(walk)
    <3>1. PICK walk \in Walks : Started(walk)
      BY <2>4
    <3>2. CASE AsFar(queue', walk.page) /\ queue'.ids = <<>> /\ walk.page.after = Nothing
      <4>1. i \notin ToSet(queue'.ids) /\ queue'.after = Nothing /\ ~queue'.exhausted
        BY <3>1, <3>2 DEF AsFar, Started, WalkShape, ToSet
      <4>2. ShownNext(i)
        BY <4>1 DEF ShownNext
      <4> QED
        BY <1>1, <2>2, <4>2, SameKeeps, ShowsNext
    <3> QED
      BY <2>3, <3>1, <3>2 DEF Started
  <2> QED
    BY <1>2, <2>3, <2>4, ReadStarts
<1>3. ASSUME NEW walk \in walks, Lands(walk)
      PROVE  NewsRight(i)' /\ CalmShown(i)'
  <2>1. /\ WalkShape(walk)
        /\ copies'[i] = IF i \in ToSet(walk.values) THEN walk.items[i] ELSE copies[i]
        /\ UNCHANGED <<pool, rereads, mark, asked, own, away, events>>
    BY <1>3, LandsStep
  <2>2. NewsRight(i)'
    <3>1. CASE i \in ToSet(walk.values)
      <4>1. copies'[i] = Answer(i)
        BY <1>1, <2>1, <3>1 DEF WalkShape, WalksRight, ReadsOf
      <4> QED
        BY <1>1, <2>1, <4>1, FreshKeeps
    <3>2. CASE i \notin ToSet(walk.values)
      <4>1. SameNews(i)
        BY <2>1, <3>2, ItemStill
      <4> QED
        BY <1>1, <4>1, SameKeeps
    <3> QED
      BY <3>1, <3>2
  <2>3. CalmShown(i)'
    <3>1. ASSUME i \in 1..captured', Calm(i)' PROVE ShownNext(i)
      BY <1>1, <1>3, <3>1, LandsShow
    <3> QED
      BY <3>1, ShowsNext DEF CalmShown
  <2> QED
    BY <2>2, <2>3
<1>4. ASSUME NEW walk \in walks, WalkFails(walk)
      PROVE  NewsRight(i)' /\ CalmShown(i)'
  <2>1. /\ AsFar(queue', queue) /\ queue'.ids = queue.ids
        /\ UNCHANGED <<pool, copies, rereads, mark, asked, own>>
    BY <1>4, WalkFailsStep
  <2>2. SameItem(i)
    BY <2>1, ItemStill DEF Rows
  <2> QED
    BY <1>1, <2>2, SameItemKeeps
<1> QED
  BY <1>2, <1>3, <1>4 DEF Reader

LEMMA PersonItem ==
  ASSUME SurfacesAssumption, Base, LogCounts, LogTells, Person, NEW i \in Items, ItemRight(i),
         i \notin LeftUnderRead, i \notin TaggedArchived, i \notin RefusedNow, i \notin OpposedStale
  PROVE  NewsRight(i)' /\ CalmShown(i)'
<1> HIDE DEF SurfacesAssumption
<1>1. NewsRight(i) /\ WalksRight(i) /\ CalmShown(i) /\ PoolTypes /\ ClientTypes
  BY DEF ItemRight, Base
<1>2. PICK j \in Items :
          \/ \E kind \in Decisions : Decide(kind, j) \/ Oppose(kind, j)
          \/ \E o \in own[j] : Send(j, o) \/ Settles(j, o) \/ Refused(j, o) \/ Unanswered(j, o)
  BY DEF Person, Decisions
<1>3. ASSUME own'[i] # {}, NewsRight(i)' PROVE NewsRight(i)' /\ CalmShown(i)'
  BY <1>3 DEF CalmShown, Calm
<1>4. ASSUME UNCHANGED <<pool, reads>>, copies'[i] = copies[i], own'[i] = own[i],
             AsFar(queue', queue), i \in ToSet(queue'.ids) <=> i \in Rows
      PROVE  NewsRight(i)' /\ CalmShown(i)'
  <2>1. mark' = mark /\ rereads' = rereads
    BY <1>4 DEF reads
  <2>2. SameItem(i)
    BY <1>4, <2>1, ItemStill
  <2> QED
    BY <1>1, <2>2, SameItemKeeps
<1>5. AsFar(queue, queue) /\ (i \in ToSet(queue.ids) <=> i \in Rows) /\ queue \in Pages
  BY <1>1 DEF AsFar, Rows, ClientTypes
<1>6. ASSUME NEW kind \in Decisions, Decide(kind, j)
      PROVE  NewsRight(i)' /\ CalmShown(i)'
  <2>1. /\ own[j] \subseteq own'[j] /\ \A o \in own'[j] : o \in own[j] \/ ~o.sent
        /\ own'[j] # {}
        /\ \A k \in Items \ {j} : own'[k] = own[k]
        /\ copies[j] # Nothing /\ Applied(kind, j)
        /\ UNCHANGED <<pool, reads, away>>
    BY <1>6, DecideStep
  <2>2. /\ Drawn(kind, j) \in Copy
        /\ copies'[j] = Drawn(kind, j) /\ \A k \in Items \ {j} : copies'[k] = copies[k]
        /\ AsFar(queue', queue)
        /\ \A k : k # j => (k \in ToSet(queue'.ids) <=> k \in Rows)
    BY <2>1, AppliedIs
  <2>3. CASE i # j
    BY <1>4, <2>1, <2>2, <2>3
  <2>4. CASE i = j
    <3>1. copies'[i] # Nothing
      BY <2>2, <2>4, NothingIsNoCopy
    <3>2. UNCHANGED <<pool, rereads, mark>>
      BY <2>1 DEF reads
    <3>3. NewsRight(i)'
      BY <1>1, <2>1, <2>4, <3>1, <3>2, DecidedKeeps
    <3> QED
      BY <1>3, <2>1, <2>4, <3>3
  <2> QED
    BY <2>3, <2>4
<1>7. ASSUME NEW kind \in Decisions, Oppose(kind, j)
      PROVE  NewsRight(i)' /\ CalmShown(i)'
  <2>1. /\ own'[j] \subseteq own[j] /\ \A k \in Items \ {j} : own'[k] = own[k]
        /\ copies[j] # Nothing /\ Applied(kind, j)
        /\ UNCHANGED <<pool, reads, away, events>>
    BY <1>7, OpposeStep
  <2>2. /\ Drawn(kind, j) \in Copy
        /\ copies'[j] = Drawn(kind, j) /\ \A k \in Items \ {j} : copies'[k] = copies[k]
        /\ AsFar(queue', queue)
        /\ \A k : k # j => (k \in ToSet(queue'.ids) <=> k \in Rows)
    BY <2>1, AppliedIs
  <2>3. CASE i # j
    BY <1>4, <2>1, <2>2, <2>3
  <2>4. CASE i = j /\ own'[i] = {}
    BY <1>1, <1>7, <2>4, OpposeShow, ShowsNext
  <2>5. CASE i = j /\ own'[i] # {}
    <3>1. copies'[i] # Nothing
      BY <2>2, <2>5, NothingIsNoCopy
    <3>2. UNCHANGED <<pool, rereads, mark>>
      BY <2>1 DEF reads
    <3>3. NewsRight(i)'
      BY <1>1, <2>1, <2>5, <3>1, <3>2, DecidedKeeps
    <3> QED
      BY <1>3, <2>5, <3>3
  <2> QED
    BY <2>3, <2>4, <2>5
<1>8. ASSUME NEW o \in own[j], Send(j, o)
      PROVE  NewsRight(i)' /\ CalmShown(i)'
  <2>1. /\ o.kind \in Kinds /\ own'[j] # {}
        /\ \A k \in Items \ {j} : own'[k] = own[k]
        /\ UNCHANGED <<captured, copies, queue, reads, away, events>>
        /\ \/ UNCHANGED pool /\ \A p \in own'[j] : p \in own[j] \/ p.refused
           \/ /\ Happens(o.kind, j)
              /\ \A p \in own'[j] :
                    p \in own[j] \/ p.answer = [done |-> done'[j], modified |-> modified'[j]]
    BY <1>8, SendStep
  <2>2. UNCHANGED <<copies, queue, rereads, mark>> /\ captured' = captured
    BY <2>1 DEF reads
  <2>3. CASE i # j /\ UNCHANGED pool
    BY <1>4, <1>5, <2>1, <2>2, <2>3
  <2>4. CASE i # j /\ Happens(o.kind, j)
    <3>1. SameItem(i)
      BY <2>1, <2>2, <2>4, OtherChanged
    <3> QED
      BY <1>1, <3>1, SameItemKeeps
  <2>5. CASE i = j /\ UNCHANGED pool /\ \A p \in own'[j] : p \in own[j] \/ p.refused
    <3>1. NewsRight(i)'
      BY <1>1, <2>1, <2>2, <2>5, DecidedKeeps
    <3> QED
      BY <1>3, <2>1, <2>5, <3>1
  <2>6. CASE /\ i = j /\ Happens(o.kind, j)
             /\ \A p \in own'[j] :
                   p \in own[j] \/ p.answer = [done |-> done'[j], modified |-> modified'[j]]
    <3>1. /\ Happens(o.kind, i) /\ o.kind \in Kinds /\ own'[i] # {}
          /\ \A p \in own'[i] :
                p \in own[i] \/ p.answer = [done |-> done'[i], modified |-> modified'[i]]
      BY <2>1, <2>6
    <3>2. NewsRight(i)'
      BY <1>1, <2>2, <3>1, ChangeKeeps
    <3> QED
      BY <1>3, <3>1, <3>2
  <2> QED
    BY <2>1, <2>3, <2>4, <2>5, <2>6
<1>9. ASSUME NEW o \in own[j], Settles(j, o)
      PROVE  NewsRight(i)' /\ CalmShown(i)'
  <2>1. /\ o.answer \in Copy
        /\ \A k \in Items \ {j} : own'[k] = own[k]
        /\ \A k \in Items \ {j} : copies'[k] = copies[k]
        /\ queue' = Reconciled(queue, o.answer, j)
        /\ UNCHANGED <<pool, reads, away, events>>
    BY <1>9, SettlesStep
  <2>2. CASE i # j
    <3>1. /\ AsFar(Reconciled(queue, o.answer, j), queue)
          /\ i \in ToSet(Reconciled(queue, o.answer, j).ids) <=> i \in ToSet(queue.ids)
      BY <1>5, <2>2, ReconciledIs
    <3> QED
      BY <1>4, <2>1, <2>2, <3>1 DEF Rows
  <2>3. CASE i = j
    <3>1. NewsRight(i)' /\ (Calm(i)' => ShownNext(i))
      BY <1>1, <1>9, <2>3, SettlesShow
    <3> QED
      BY <3>1, ShowsNext DEF CalmShown
  <2> QED
    BY <2>2, <2>3
<1>10. ASSUME NEW o \in own[j], Refused(j, o)
       PROVE  NewsRight(i)' /\ CalmShown(i)'
  <2>1. /\ o.refused
        /\ own'[j] = own[j] \ {o} /\ \A k \in Items \ {j} : own'[k] = own[k]
        /\ \A k \in Items \ {j} : copies'[k] = copies[k]
        /\ AsFar(queue', queue) /\ \A k : k # j => (k \in ToSet(queue'.ids) <=> k \in Rows)
        /\ UNCHANGED <<pool, reads, away, events>>
    BY <1>10, RefusedStep
  <2>2. i # j
    BY <2>1 DEF RefusedNow
  <2> QED
    BY <1>4, <2>1, <2>2
<1>11. ASSUME NEW o \in own[j], Unanswered(j, o)
       PROVE  NewsRight(i)' /\ CalmShown(i)'
  <2>1. /\ own'[j] # {} /\ \A p \in own'[j] : p \in own[j] \/ ~p.sent
        /\ \A k \in Items \ {j} : own'[k] = own[k]
        /\ UNCHANGED <<pool, copies, queue, reads>>
    BY <1>11, UnansweredStep
  <2>2. CASE i # j
    BY <1>4, <1>5, <2>1, <2>2
  <2>3. CASE i = j
    <3>1. UNCHANGED <<pool, rereads, mark>> /\ copies' = copies
      BY <2>1 DEF reads
    <3>2. NewsRight(i)'
      BY <1>1, <2>1, <2>3, <3>1, DecidedKeeps
    <3> QED
      BY <1>3, <2>1, <2>3, <3>2
  <2> QED
    BY <2>2, <2>3
<1> QED
  BY <1>2, <1>6, <1>7, <1>8, <1>9, <1>10, <1>11

LEMMA WatcherItem ==
  ASSUME SurfacesAssumption, Base, LogCounts, LogTells, Watcher, NEW i \in Items, ItemRight(i),
         i \notin Untold, i \notin HeardUnderAnswer, i \notin Unread
  PROVE  NewsRight(i)' /\ CalmShown(i)'
<1> HIDE DEF SurfacesAssumption
<1>1. NewsRight(i) /\ WalksRight(i) /\ CalmShown(i)
  BY DEF ItemRight
<1>2. AsFar(queue, queue) /\ (i \in ToSet(queue.ids) <=> i \in Rows)
  BY DEF AsFar, Rows
<1>3. CASE Ask \/ AskFails
  <2>1. UNCHANGED <<pool, copies, queue, walks, rereads, mark, own>>
    BY <1>3, AsksStep
  <2>2. SameItem(i)
    BY <1>2, <2>1, ItemStill
  <2> QED
    BY <1>1, <2>2, SameItemKeeps
<1>4. CASE AskLands
  <2>1. NewsRight(i)'
    BY <1>1, <1>4, HearKeeps
  <2>2. ASSUME i \in 1..captured', Calm(i)' PROVE ShownNext(i)
    BY <1>1, <1>4, <2>2, AskShow
  <2> QED
    BY <2>1, <2>2, ShowsNext DEF CalmShown
<1>5. ASSUME NEW answer \in rereads, RereadLands(answer)
      PROVE  NewsRight(i)' /\ CalmShown(i)'
  <2>1. NewsRight(i)'
    BY <1>1, <1>5, RereadKeeps
  <2>2. HeardIsRead(i)'
    BY <2>1 DEF NewsRight
  <2>3. ASSUME i \in 1..captured', Calm(i)' PROVE ShownNext(i)
    BY <1>1, <1>5, <2>2, <2>3, RereadShow
  <2> QED
    BY <2>1, <2>3, ShowsNext DEF CalmShown
<1>6. ASSUME NEW answer \in rereads, RereadFails(answer)
      PROVE  NewsRight(i)' /\ CalmShown(i)'
  <2>1. /\ rereads' = rereads \ {answer} /\ events' < events
        /\ UNCHANGED <<pool, copies, queue, walks, mark, asked, own>>
    BY <1>6, RereadFailsStep
  <2>2. i \notin DOMAIN answer
    BY <2>1 DEF Unread
  <2>3. SameItem(i)
    BY <1>2, <2>1, <2>2, ItemStill
  <2> QED
    BY <1>1, <2>3, SameItemKeeps
<1> QED
  BY <1>3, <1>4, <1>5, <1>6 DEF Watcher

LEMMA ItemStep ==
  ASSUME SurfacesAssumption, Base, LogCounts, LogTells, Next, NEW i \in Items,
         i \notin astray', ItemRight(i)
  PROVE  ItemRight(i)'
<1> HIDE DEF SurfacesAssumption
<1>1. (Others \/ Reader \/ Person \/ Watcher) /\ Remembered
  BY DEF Next
<1>2. /\ i \notin LeftUnderRead /\ i \notin TaggedArchived
      /\ i \notin RefusedNow /\ i \notin HeardUnderAnswer /\ i \notin OpposedStale
      /\ i \notin Untold /\ i \notin Unread
  BY <1>1, AstrayGrows
<1>3. WalksRight(i)'
  BY WalksStep DEF ItemRight
<1>4. NewsRight(i)' /\ CalmShown(i)'
  BY <1>1, <1>2, OthersItem, ReaderItem, PersonItem, WatcherItem
<1> QED
  BY <1>3, <1>4 DEF ItemRight

\* The log changes by what the pool does.
LEMMA LogKeeps ==
  ASSUME SurfacesAssumption, Base, LogCounts, LogTells, Others \/ Reader \/ Person \/ Watcher
  PROVE  LogCounts' /\ LogTells'
<1> HIDE DEF SurfacesAssumption
<1>1. PoolTypes
  BY DEF Base
<1>2. CASE UNCHANGED pool
  <2>1. log' = log /\ done' = done /\ modified' = modified
    BY <1>2 DEF pool
  <2>2. \A i : Entries(i)' = Entries(i)
    BY <2>1, LogSame
  <2> QED
    BY <2>1, <2>2 DEF LogCounts, LogTells
<1>3. CASE Others
  <2>1. PICK kind \in Kinds, j \in Items : Happens(kind, j)
    BY <1>3, OthersStep
  <2> QED
    BY <1>1, <2>1, LogStep
<1>4. CASE \E j \in Items : \E o \in own[j] : Send(j, o)
  <2>1. PICK j \in Items : \E o \in own[j] : Send(j, o)
    BY <1>4
  <2>2. PICK o \in own[j] : Send(j, o)
    BY <2>1
  <2>3. UNCHANGED pool \/ (Happens(o.kind, j) /\ o.kind \in Kinds)
    BY <2>2, SendStep
  <2> QED
    BY <1>1, <1>2, <2>3, LogStep
<1>5. CASE ~Others /\ ~\E j \in Items : \E o \in own[j] : Send(j, o)
  <2>1. UNCHANGED pool
    BY <1>5 DEF Reader, Person, Watcher, LoadMore, Enter, Returns, Turn, Lands, WalkFails,
                Decide, Oppose, Settles, Refused, Unanswered,
                Ask, AskLands, AskFails, RereadLands, RereadFails
  <2> QED
    BY <1>2, <2>1
<1> QED
  BY <1>3, <1>4, <1>5

\* What every item that is not astray keeps, and the log of all.
Told == LogCounts /\ LogTells /\ \A i \in Items \ astray : ItemRight(i)

LEMMA ToldInit ==
  ASSUME SurfacesAssumption, Init
  PROVE  Told
<1>1. /\ log = [n \in 1..Begin |-> [kind |-> "captured", item |-> n, modified |-> 0]]
      /\ modified = [n \in Items |-> 0] /\ Begin \in Nat /\ Nothing \notin Copy
      /\ copies = [n \in Items |-> Nothing] /\ own = [n \in Items |-> {}]
      /\ rereads = {} /\ walks = {}
  BY Numbers DEF Init
<1>2. Len(log) = Begin
  BY <1>1
<1> HIDE DEF SurfacesAssumption
<1>3. \A i : \A n \in Entries(i) :
          /\ n = i /\ n \in Nat /\ log[n].kind = "captured" /\ log[n].modified = 0
  BY <1>1, <1>2 DEF Entries
<1>4. LogCounts
  <2> SUFFICES ASSUME NEW i \in Items, NEW n \in Entries(i)
               PROVE  /\ log[n].modified <= modified[i]
                      /\ \A m \in Entries(i) : m < n => log[m].modified < log[n].modified
    BY DEF LogCounts
  <2>1. log[n].modified = 0 /\ modified[i] = 0
    BY <1>1, <1>3
  <2>2. i \in Nat /\ n = i /\ \A m \in Entries(i) : m = i
    BY <1>3
  <2> QED
    BY <2>1, <2>2
<1>5. LogTells
  BY <1>3 DEF LogTells
<1>6. ASSUME NEW i \in Items PROVE ItemRight(i)
  <2>1. copies[i] = Nothing /\ own[i] = {}
    BY <1>1
  <2>2. TagsOnWork(i)
    BY <1>3 DEF TagsOnWork
  <2>3. AnswersRight(i)
    BY <1>1, <2>1 DEF AnswersRight, Kept
  <2>4. AnswerUnheard(i)
    BY <2>1 DEF AnswerUnheard
  <2>5. UnderRead(i)
    BY <1>1 DEF UnderRead
  <2>6. HeardIsRead(i)
    BY <1>3 DEF HeardIsRead, Returning, Rerouting
  <2>7. WalksRight(i)
    BY <1>1 DEF WalksRight
  <2>8. CalmShown(i)
    <3>1. queue.ids = <<>> /\ queue.after = Nothing /\ ~queue.exhausted
      BY DEF Init, EmptyPage
    <3> QED
      BY <3>1 DEF CalmShown, Shows, Walked, ToSet
  <2> QED
    BY <2>2, <2>3, <2>4, <2>5, <2>6, <2>7, <2>8 DEF ItemRight, NewsRight
<1> QED
  BY <1>4, <1>5, <1>6 DEF Told

LEMMA ToldStep ==
  ASSUME SurfacesAssumption, Base, Told, [Next]_vars
  PROVE  Told'
<1> HIDE DEF SurfacesAssumption
<1>1. CASE Next
  <2>1. (Others \/ Reader \/ Person \/ Watcher) /\ Remembered
    BY <1>1 DEF Next
  <2>2. LogCounts' /\ LogTells'
    BY <2>1, LogKeeps DEF Told
  <2>3. ASSUME NEW i \in Items, i \notin astray' PROVE ItemRight(i)'
    <3>1. i \notin astray
      BY <2>1, <2>3, AstrayGrows
    <3>2. ItemRight(i)
      BY <3>1 DEF Told
    <3> QED
      BY <1>1, <2>3, <3>2, ItemStep DEF Told
  <2> QED
    BY <2>2, <2>3 DEF Told, Items
<1>2. CASE UNCHANGED vars
  <2>1. UNCHANGED <<pool, copies, queue, walks, rereads, mark, own, astray>>
    BY <1>2 DEF vars, client, reads, history
  <2>2. log' = log /\ done' = done /\ modified' = modified /\ captured' = captured
    BY <2>1 DEF pool
  <2>3. \A i : Entries(i)' = Entries(i)
    BY <2>2, LogSame
  <2>4. LogCounts' /\ LogTells'
    BY <2>2, <2>3 DEF Told, LogCounts, LogTells
  <2>5. ASSUME NEW i \in Items, ItemRight(i) PROVE ItemRight(i)'
    <3>1. SameItem(i)
      BY <2>1, ItemStill DEF AsFar, Rows
    <3>2. NewsRight(i)' /\ CalmShown(i)'
      BY <2>5, <3>1, SameItemKeeps DEF ItemRight
    <3>3. WalksRight(i)'
      BY <2>1, <2>2, <2>5 DEF ItemRight, WalksRight, ReadsOf, Answer, Rows
    <3> QED
      BY <3>2, <3>3 DEF ItemRight
  <2> QED
    BY <2>1, <2>4, <2>5 DEF Told, Items
<1> QED
  BY <1>1, <1>2

\* Where nothing is out or still to send and all of the log is heard, every row
\* is work and all work as far as the queue has been walked is a row, of all
\* items whose news the code does not cross or lose: whatever the order in which
\* pages, news, reads of items and answers land (walk, reconciled, caughtUp,
\* heard, rejoined).
THEOREM RestIsRight == Spec => []RestRight
<1>1. Init => Base /\ Told
  <2> SUFFICES ASSUME Init PROVE Base /\ Told
    OBVIOUS
  <2> HIDE DEF SurfacesAssumption
  <2> QED
    BY SurfacesAssumption, BaseInit, ToldInit
<1>2. Base /\ Told /\ [Next]_vars => Told'
  <2> SUFFICES ASSUME Base, Told, [Next]_vars PROVE Told'
    OBVIOUS
  <2> HIDE DEF SurfacesAssumption
  <2> QED
    BY SurfacesAssumption, ToldStep
<1>3. Base /\ Told => RestRight
  <2> SUFFICES ASSUME Base, Told, AtRest, NEW i \in 1..captured \ astray
               PROVE  Shows(queue, i)
    BY DEF RestRight
  <2>1. PoolTypes /\ Captures \in Nat /\ captured \in 0..Captures /\ Nothing \notin Nat
    BY Numbers, SurfacesAssumption DEF Base, PoolTypes
  <2>2. i \in Items /\ i \in 1..captured /\ i \notin astray
    BY <2>1 DEF Items
  <2>3. LastHeard = Len(log) /\ \A n \in Entries(i) : n \in Nat /\ n <= Len(log) /\ Len(log) \in Nat
    BY <2>1, <2>2, EntriesAre DEF AtRest, LastHeard
  <2>4. \A n \in Entries(i) : ~(n > LastHeard)
    BY <2>3
  <2>5. Calm(i)
    BY <2>2, <2>4 DEF Calm, AtRest
  <2> QED
    BY <2>2, <2>5 DEF Told, ItemRight, CalmShown
<1> QED
  BY <1>1, <1>2, <1>3, Types, PTL DEF Spec

=============================================================================

--------------------------- MODULE AstHeapProofs ---------------------------
(***************************************************************************)
(* What holds of the heap of ast.c for every sequence of calls: the lists   *)
(* that `next` makes end, lists that belong to different owners have no     *)
(* element in common, and every object has exactly one owner.               *)
(***************************************************************************)
EXTENDS AstHeap, SequenceTheorems, FiniteSetTheorems, WellFoundedInduction, TLAPS

-----------------------------------------------------------------------------
(* Lists *)

\* The pointers that link the objects of one kind.
Nexts(objs) == [p \in 1..Len(objs) |-> objs[p].next]

LinkedBy(objs, next, L) == Len(objs) = L /\ next = Nexts(objs)

\* f gives the list that starts at each of L objects.  That there is such a
\* function with values in Seq means that no list runs in a circle.
Walk(next, L, f) ==
    /\ f[Nil] = <<>>
    /\ \A p \in 1..L : f[p] = <<p>> \o f[next[p]]

\* A nonempty set of numbers has a least one.
LEMMA LeastNumber ==
    ASSUME NEW K, K \subseteq Nat, K # {}
    PROVE  \E k \in K : \A j \in K : k <= j
<1>1. PICK k \in K : \A j \in K : ~(<<j, k>> \in OpToRel(<, Nat))
  BY WFMin, NatLessThanWellFounded
<1>2. \A j \in K : <<j, k>> \in OpToRel(<, Nat) <=> j < k
  BY DEF OpToRel
<1>3. \A j \in K : j \in Nat /\ k \in Nat /\ ~(j < k)
  BY <1>1, <1>2
<1> QED
  BY <1>3

\* A list is its first element and the list behind it, which is shorter.
LEMMA WalkUnfolds ==
    ASSUME NEW L \in Nat, NEW next \in [1..L -> 0..L], NEW f \in [0..L -> Seq(1..L)],
           Walk(next, L, f), NEW p \in 1..L
    PROVE  /\ f[p] \in Seq(1..L) /\ f[next[p]] \in Seq(1..L)
           /\ Len(f[next[p]]) \in Nat /\ Len(f[p]) = Len(f[next[p]]) + 1
<1>1. /\ next[p] \in 0..L /\ p \in 0..L
      /\ f[p] \in Seq(1..L) /\ f[next[p]] \in Seq(1..L)
      /\ f[p] = <<p>> \o f[next[p]]
  BY DEF Walk
<1>2. <<p>> \in Seq(1..L) /\ Len(<<p>>) = 1 /\ <<p>>[1] = p
  OBVIOUS
<1>3. Len(f[next[p]]) \in Nat
  BY <1>1, LenProperties
<1> QED
  BY <1>1, <1>2, <1>3, ConcatProperties

LEMMA WalkFirst ==
    ASSUME NEW L \in Nat, NEW next \in [1..L -> 0..L], NEW f \in [0..L -> Seq(1..L)],
           Walk(next, L, f), NEW p \in 1..L
    PROVE  f[p][1] = p
<1>1. f[next[p]] \in Seq(1..L) /\ f[p] = <<p>> \o f[next[p]]
  BY DEF Walk
<1>2. <<p>> \in Seq(1..L) /\ Len(<<p>>) = 1 /\ <<p>>[1] = p
  OBVIOUS
<1>3. Len(f[next[p]]) \in Nat
  BY <1>1, LenProperties
<1> QED
  BY <1>1, <1>2, <1>3, ConcatProperties

LEMMA WalkBehind ==
    ASSUME NEW L \in Nat, NEW next \in [1..L -> 0..L], NEW f \in [0..L -> Seq(1..L)],
           Walk(next, L, f), NEW p \in 1..L,
           NEW i \in 1..Len(f[next[p]])
    PROVE  f[p][i + 1] = f[next[p]][i]
<1> DEFINE rest == f[next[p]]
<1>1. rest \in Seq(1..L) /\ Len(rest) \in Nat
  BY WalkUnfolds
<1>2. f[p] = <<p>> \o rest
  BY DEF Walk
<1>3. <<p>> \in Seq(1..L) /\ Len(<<p>>) = 1 /\ i \in 1..Len(rest)
  OBVIOUS
<1> HIDE DEF rest
<1>4. i + 1 \in 1..(1 + Len(rest)) /\ ~(i + 1 <= 1) /\ (i + 1) - 1 = i
  BY <1>1, <1>3
<1>5. (<<p>> \o rest)[i + 1] = rest[i]
  BY <1>1, <1>3, <1>4, ConcatProperties
<1> QED
  BY <1>2, <1>5 DEF rest

\* LL_FOREACH visits the list that a walk gives: nothing else solves its equation.
LEMMA ChainIs ==
    ASSUME NEW L \in Nat, NEW next \in [1..L -> 0..L], NEW f \in [0..L -> Seq(1..L)],
           Walk(next, L, f),
           NEW objs, LinkedBy(objs, next, L), NEW p \in 0..L
    PROVE  Chain(objs, p) = f[p]
<1>0. \A r \in 1..L : Len(f[r]) = Len(f[next[r]]) + 1
  BY WalkUnfolds
<1> DEFINE Right(g) == g = [q \in 0..L |-> IF q = Nil THEN <<>> ELSE <<q>> \o g[objs[q].next]]
           from == CHOOSE g : Right(g)
<1>1. Chain(objs, p) = from[p]
  BY DEF Chain, LinkedBy
<1>2. Right(f)
  <2>1. \A q \in 0..L : f[q] = IF q = Nil THEN <<>> ELSE <<q>> \o f[objs[q].next]
    <3> TAKE q \in 0..L
    <3>1. CASE q = Nil
      BY <3>1 DEF Walk
    <3>2. CASE q # Nil
      <4>1. q \in 1..L
        BY <3>2 DEF Nil
      <4>2. f[q] = <<q>> \o f[next[q]] /\ objs[q].next = next[q]
        BY <4>1 DEF Walk, LinkedBy, Nexts
      <4> QED
        BY <3>2, <4>2
    <3> QED
      BY <3>1, <3>2
  <2> QED
    BY <2>1
<1>3. Right(from)
  BY <1>2
<1> HIDE DEF from
<1>4. \A q \in 0..L : f[q] \in Seq(1..L) /\ Len(f[q]) \in Nat
  BY LenProperties DEF Walk
<1>5. ASSUME NEW q \in 0..L, from[q] # f[q] PROVE FALSE
  <2> DEFINE lens == {n \in Nat : \E r \in 0..L : from[r] # f[r] /\ Len(f[r]) = n}
  <2>1. PICK k \in lens : \A j \in lens : k <= j
    <3>1. lens \subseteq Nat /\ lens # {}
      BY <1>4, <1>5
    <3> HIDE DEF lens
    <3> QED
      BY <3>1, LeastNumber
  <2>2. PICK r \in 0..L : from[r] # f[r] /\ k = Len(f[r])
    BY <2>1
  <2>3. r # Nil
    BY <1>2, <1>3, <2>2
  <2>4. r \in 1..L /\ next[r] \in 0..L
    BY <2>2, <2>3 DEF Nil
  <2>5. from[r] = <<r>> \o from[next[r]] /\ f[r] = <<r>> \o f[next[r]]
    <3>1. objs[r].next = next[r]
      BY <2>4 DEF LinkedBy, Nexts
    <3>2. from[r] = <<r>> \o from[objs[r].next]
      BY <1>3, <2>2, <2>3, Zenon
    <3>3. f[r] = <<r>> \o f[objs[r].next]
      BY <1>2, <2>2, <2>3, Zenon
    <3> QED
      BY <3>1, <3>2, <3>3, Zenon
  <2>6. Len(f[r]) = Len(f[next[r]]) + 1 /\ Len(f[next[r]]) \in Nat
    BY <1>0, <1>4, <2>4
  <2>7. ~(Len(f[next[r]]) \in lens)
    <3> DEFINE m == Len(f[next[r]])
    <3>1. k = m + 1 /\ m \in Nat
      BY <2>2, <2>6
    <3> HIDE DEF lens, m
    <3>2. ~(m \in lens)
      BY <2>1, <3>1
    <3> QED
      BY <3>2 DEF m
  <2>8. from[next[r]] = f[next[r]]
    BY <2>4, <2>6, <2>7
  <2> QED
    BY <2>2, <2>5, <2>8
<1> QED
  BY <1>1, <1>5

\* Along a list each element is the `next` of the one before it, and the last has none.
Linked(next, s) ==
    /\ Len(s) # 0 /\ next[s[Len(s)]] = Nil
    /\ \A i \in 1..Len(s) - 1 : next[s[i]] = s[i + 1]

\* s is r in front of t, and r points to t.
InFront(next, r, s, t) ==
    /\ Len(t) \in Nat /\ Len(s) = Len(t) + 1 /\ s[1] = r
    /\ \A i \in 1..Len(t) : s[i + 1] = t[i]
    /\ \/ Len(t) = 0 /\ next[r] = Nil
       \/ Linked(next, t) /\ t[1] = next[r]

LEMMA LinkedGrows ==
    ASSUME NEW next, NEW r, NEW s, NEW t, InFront(next, r, s, t)
    PROVE  Linked(next, s)
<1>0. /\ Len(t) \in Nat /\ Len(s) = Len(t) + 1 /\ s[1] = r
      /\ \A i \in 1..Len(t) : s[i + 1] = t[i]
  BY DEF InFront
<1>1. CASE Len(t) = 0 /\ next[r] = Nil
  BY <1>0, <1>1 DEF Linked
<1>2. CASE Linked(next, t) /\ t[1] = next[r]
  <2>1. Len(t) \in 1..Len(t) /\ Len(s) # 0
    BY <1>0, <1>2 DEF Linked
  <2>2. next[s[Len(s)]] = Nil
    BY <1>0, <1>2, <2>1 DEF Linked
  <2>3. ASSUME NEW i \in 1..Len(s) - 1 PROVE next[s[i]] = s[i + 1]
    <3>1. s[i + 1] = t[i] /\ i \in 1..Len(t)
      BY <1>0
    <3>2. CASE i = 1
      BY <1>0, <1>2, <3>1, <3>2
    <3>3. CASE i # 1
      <4>1. i - 1 \in 1..Len(t) - 1 /\ (i - 1) + 1 = i /\ i - 1 \in 1..Len(t)
        BY <1>0, <3>1, <3>3
      <4>2. s[i] = t[i - 1] /\ next[t[i - 1]] = t[i]
        BY <1>0, <1>2, <4>1 DEF Linked
      <4> QED
        BY <3>1, <4>2
    <3> QED
      BY <3>2, <3>3
  <2> QED
    BY <2>1, <2>2, <2>3 DEF Linked
<1> QED
  BY <1>1, <1>2 DEF InFront

LEMMA WalkSteps ==
    ASSUME NEW L \in Nat, NEW next \in [1..L -> 0..L], NEW f \in [0..L -> Seq(1..L)],
           Walk(next, L, f), NEW p \in 1..L
    PROVE  Linked(next, f[p])
<1>1. ASSUME NEW r \in 1..L
      PROVE  /\ Len(f[r]) = Len(f[next[r]]) + 1 /\ Len(f[next[r]]) \in Nat
             /\ f[r][1] = r
  <2>1. Len(f[r]) = Len(f[next[r]]) + 1 /\ Len(f[next[r]]) \in Nat
    BY WalkUnfolds, Zenon
  <2>2. f[r][1] = r
    BY WalkFirst, Zenon
  <2> QED
    BY <2>1, <2>2
<1>2. ASSUME NEW r \in 1..L, NEW i \in 1..Len(f[next[r]]) PROVE f[r][i + 1] = f[next[r]][i]
  BY WalkBehind
<1>3. ASSUME NEW r \in 1..L PROVE Len(f[r]) \in Nat
  BY LenProperties
<1>4. Len(f[Nil]) = 0
  BY DEF Walk
<1> DEFINE Right(r) == Linked(next, f[r])
<1>5. ASSUME NEW r \in 1..L, next[r] # Nil => Right(next[r]) PROVE Right(r)
  <2>1. CASE next[r] = Nil
    <3>1. Len(f[next[r]]) = 0
      BY <1>4, <2>1
    <3>2. /\ Len(f[next[r]]) \in Nat /\ Len(f[r]) = Len(f[next[r]]) + 1 /\ f[r][1] = r
          /\ \A i \in 1..Len(f[next[r]]) : f[r][i + 1] = f[next[r]][i]
      BY <1>1, <1>2
    <3>3. InFront(next, r, f[r], f[next[r]])
      BY <2>1, <3>1, <3>2 DEF InFront
    <3> QED
      BY <3>3, LinkedGrows, Zenon
  <2>2. CASE next[r] # Nil
    <3>1. next[r] \in 1..L
      BY <2>2 DEF Nil
    <3>2. f[next[r]][1] = next[r]
      BY <1>1, <3>1
    <3>3. /\ Len(f[next[r]]) \in Nat /\ Len(f[r]) = Len(f[next[r]]) + 1 /\ f[r][1] = r
          /\ \A i \in 1..Len(f[next[r]]) : f[r][i + 1] = f[next[r]][i]
      BY <1>1, <1>2
    <3>4. InFront(next, r, f[r], f[next[r]])
      BY <1>5, <2>2, <3>2, <3>3 DEF InFront
    <3> QED
      BY <3>4, LinkedGrows, Zenon
  <2> QED
    BY <2>1, <2>2
<1>6. ASSUME NEW q \in 1..L, ~Right(q) PROVE FALSE
  <2> HIDE DEF Right
  <2> DEFINE lens == {n \in Nat : \E r \in 1..L : ~Right(r) /\ Len(f[r]) = n}
  <2>1. PICK k \in lens : \A j \in lens : k <= j
    <3>1. lens \subseteq Nat /\ lens # {}
      BY <1>3, <1>6
    <3> HIDE DEF lens
    <3> QED
      BY <3>1, LeastNumber
  <2>2. PICK r \in 1..L : ~Right(r) /\ k = Len(f[r])
    BY <2>1
  <2>3. next[r] # Nil /\ ~Right(next[r])
    BY <1>5, <2>2
  <2>4. next[r] \in 1..L /\ Len(f[next[r]]) \in Nat /\ Len(f[r]) = Len(f[next[r]]) + 1
    BY <1>1, <2>3 DEF Nil
  <2>5. Len(f[next[r]]) \in lens
    BY <2>3, <2>4
  <2> HIDE DEF lens
  <2> QED
    BY <2>1, <2>2, <2>4, <2>5
<1> QED
  BY <1>6

\* No object is the `next` of two others, and nothing is linked to a and b.
Separate(next, L, a, b) ==
    /\ \A x, y \in 1..L : next[x] = next[y] /\ next[x] # Nil => x = y
    /\ \A x \in 1..L : next[x] # a /\ next[x] # b

\* Two lists whose first elements nothing points to have no element in common.
LEMMA LinkedApart ==
    ASSUME NEW L \in Nat, NEW next \in [1..L -> 0..L], NEW s \in Seq(1..L), NEW t \in Seq(1..L),
           Linked(next, s), Linked(next, t), s[1] # t[1],
           Separate(next, L, s[1], t[1]),
           NEW i \in 1..Len(s), NEW j \in 1..Len(t)
    PROVE  s[i] # t[j]
<1>1. /\ Len(s) \in Nat /\ Len(t) \in Nat
      /\ \A k \in 1..Len(s) : s[k] \in 1..L
      /\ \A k \in 1..Len(t) : t[k] \in 1..L
  BY LenProperties, ElementOfSeq
<1>0. /\ \A x \in 1..L : x # Nil
      /\ \A x, y \in 1..L : next[x] = next[y] /\ next[x] # Nil => x = y
      /\ \A x \in 1..L : next[x] # s[1] /\ next[x] # t[1]
  BY DEF Nil, Separate
<1> DEFINE Met(k) == k \in 1..Len(s) /\ \E m \in 1..Len(t) : s[k] = t[m]
<1>2. ASSUME NEW k \in 1..Len(s), Met(k) PROVE Met(k - 1) /\ k - 1 \in Nat
  <2>1. PICK m \in 1..Len(t) : s[k] = t[m]
    BY <1>2
  <2>2. k \in 1..Len(s)
    BY <1>2
  <2>3. CASE k = 1
    <3>1. m # 1
      BY <2>1, <2>3
    <3>2. m - 1 \in 1..Len(t) - 1 /\ (m - 1) + 1 = m /\ m - 1 \in 1..Len(t)
      BY <1>1, <3>1
    <3>3. next[t[m - 1]] = t[m]
      BY <3>2 DEF Linked
    <3>4. t[m - 1] \in 1..L
      BY <1>1, <3>2
    <3> QED
      BY <1>0, <2>1, <2>3, <3>3, <3>4
  <2>4. CASE k # 1
    <3>1. k - 1 \in 1..Len(s) - 1 /\ (k - 1) + 1 = k /\ k - 1 \in 1..Len(s)
      BY <1>1, <2>2, <2>4
    <3>2. next[s[k - 1]] = s[k] /\ s[k - 1] \in 1..L /\ s[k] \in 1..L
      BY <1>1, <2>2, <3>1 DEF Linked
    <3>3. m # 1
      BY <1>0, <2>1, <3>2
    <3>4. m - 1 \in 1..Len(t) - 1 /\ (m - 1) + 1 = m /\ m - 1 \in 1..Len(t)
      BY <1>1, <3>3
    <3>5. next[t[m - 1]] = t[m] /\ t[m - 1] \in 1..L
      BY <1>1, <3>4 DEF Linked
    <3>6. s[k - 1] = t[m - 1]
      <4> DEFINE x == s[k - 1]
                 y == t[m - 1]
      <4>1. x \in 1..L /\ y \in 1..L /\ next[x] = next[y] /\ next[x] # Nil
        <5>1. next[x] = s[k] /\ next[y] = s[k]
          BY <2>1, <3>2, <3>5, Zenon
        <5>2. s[k] # Nil
          BY <1>0, <3>2, Zenon
        <5> QED
          BY <3>2, <3>5, <5>1, <5>2, Zenon
      <4> HIDE DEF x, y
      <4>2. x = y
        BY <1>0, <4>1
      <4> QED
        BY <4>2 DEF x, y
    <3>7. k - 1 \in Nat
      BY <1>1, <3>1
    <3> QED
      BY <3>1, <3>4, <3>6, <3>7, Zenon
  <2> QED
    BY <2>3, <2>4
<1>3. ASSUME Met(i) PROVE FALSE
  <2> DEFINE K == {k \in Nat : Met(k)}
  <2>0. \A k : Met(k) => k \in 1..Len(s)
    OBVIOUS
  <2> HIDE DEF Met
  <2>1. i \in K
    BY <1>1, <1>3
  <2>2. PICK k \in K : \A m \in K : k <= m
    <3>1. K \subseteq Nat /\ K # {}
      BY <2>1
    <3> HIDE DEF K
    <3> QED
      BY <3>1, LeastNumber
  <2>3. k \in Nat /\ k - 1 \in K
    BY <1>2, <2>0, <2>2
  <2> HIDE DEF K
  <2> QED
    BY <2>2, <2>3
<1> QED
  BY <1>3

Associative(s, t, u) == (s \o t) \o u = s \o (t \o u)

LEMMA FrontJoined ==
    ASSUME NEW L, NEW next, NEW f \in [0..L -> Seq(1..L)], Walk(next, L, f)
    PROVE  \A p \in 1..L, q, r \in 0..L : Associative(<<p>>, f[q], f[r])
<1> TAKE p \in 1..L, q, r \in 0..L
<1>1. <<p>> \in Seq(1..L) /\ f[q] \in Seq(1..L) /\ f[r] \in Seq(1..L)
  OBVIOUS
<1> QED
  BY <1>1, ConcatAssociative DEF Associative

\* The list of every object ends.
Ending(next, L) == \E f \in [0..L -> Seq(1..L)] : Walk(next, L, f)

Without(f, p, e) == \A i \in 1..Len(f[p]) : f[p][i] # e

\* The lists when the one that starts at add is put behind e.
Behind(f, L, e, add) ==
    [q \in 0..L |-> IF \E i \in 1..Len(f[q]) : f[q][i] = e THEN f[q] \o f[add] ELSE f[q]]

\* They still end when the list that is put behind e does not hold e.
LEMMA WalkJoin ==
    ASSUME NEW L \in Nat, NEW next \in [1..L -> 0..L], NEW f \in [0..L -> Seq(1..L)],
           Walk(next, L, f), NEW e \in 1..L, next[e] = Nil, NEW add \in 0..L,
           Without(f, add, e)
    PROVE  /\ Behind(f, L, e, add) \in [0..L -> Seq(1..L)]
           /\ Walk([next EXCEPT ![e] = add], L, Behind(f, L, e, add))
<1> DEFINE Has(q) == \E i \in 1..Len(f[q]) : f[q][i] = e
           g == [q \in 0..L |-> IF Has(q) THEN f[q] \o f[add] ELSE f[q]]
           more == [next EXCEPT ![e] = add]
<1>0. g = Behind(f, L, e, add)
  BY DEF Behind
<1>1. \A q \in 0..L : f[q] \in Seq(1..L) /\ f[q] \o f[add] \in Seq(1..L)
  OBVIOUS
<1>2. g \in [0..L -> Seq(1..L)]
  <2> HIDE DEF Has
  <2> QED
    BY <1>1
<1>3. g[Nil] = <<>>
  <2>1. f[Nil] = <<>> /\ Nil \in 0..L /\ ~Has(Nil)
    BY DEF Walk, Nil
  <2> HIDE DEF Has
  <2> QED
    BY <2>1
<1>4. ~Has(add)
  BY DEF Without
<1>5. ASSUME NEW p \in 1..L PROVE g[p] = <<p>> \o g[more[p]]
  <2>1. /\ f[p] = <<p>> \o f[next[p]] /\ f[p][1] = p /\ Len(f[p]) = Len(f[next[p]]) + 1
        /\ Len(f[next[p]]) \in Nat
        /\ \A i \in 1..Len(f[next[p]]) : f[p][i + 1] = f[next[p]][i]
    <3>1. f[p][1] = p
      BY WalkFirst
    <3>2. Len(f[p]) = Len(f[next[p]]) + 1 /\ Len(f[next[p]]) \in Nat
      BY WalkUnfolds
    <3>3. \A i \in 1..Len(f[next[p]]) : f[p][i + 1] = f[next[p]][i]
      BY WalkBehind
    <3>4. f[p] = <<p>> \o f[next[p]]
      BY DEF Walk
    <3> QED
      BY <3>1, <3>2, <3>3, <3>4
  <2>2. CASE p = e
    <3>1. more[p] = add /\ g[add] = f[add]
      <4> HIDE DEF Has
      <4> QED
        BY <1>4, <2>2
    <3>2. Has(p)
      <4>1. 1 \in 1..Len(f[p]) /\ f[p][1] = e
        BY <2>1, <2>2
      <4> QED
        BY <4>1
    <3>3. f[p] = <<p>>
      <4>1. f[next[p]] = <<>>
        BY <2>2 DEF Walk
      <4>2. <<p>> \in Seq(1..L)
        OBVIOUS
      <4> QED
        BY <2>1, <4>1, <4>2, ConcatEmptySeq
    <3>4. g[p] = f[p] \o f[add]
      <4>1. p \in 0..L
        OBVIOUS
      <4> HIDE DEF Has
      <4> QED
        BY <3>2, <4>1
    <3> HIDE DEF g, more
    <3> QED
      BY <3>1, <3>3, <3>4
  <2>3. CASE p # e
    <3>1. more[p] = next[p] /\ next[p] \in 0..L
      BY <2>3
    <3>2. Has(p) <=> Has(next[p])
      <4>1. ASSUME Has(p) PROVE Has(next[p])
        <5>1. PICK i \in 1..Len(f[p]) : f[p][i] = e
          BY <4>1
        <5>2. i # 1
          BY <2>1, <2>3, <5>1
        <5>3. i - 1 \in 1..Len(f[next[p]]) /\ (i - 1) + 1 = i
          BY <2>1, <5>2
        <5>4. f[p][(i - 1) + 1] = f[next[p]][i - 1]
          BY <2>1, <5>3
        <5> QED
          BY <5>1, <5>3, <5>4
      <4>2. ASSUME Has(next[p]) PROVE Has(p)
        <5>1. PICK i \in 1..Len(f[next[p]]) : f[next[p]][i] = e
          BY <4>2
        <5>2. f[p][i + 1] = e /\ i + 1 \in 1..Len(f[p])
          BY <2>1, <5>1
        <5> QED
          BY <5>2
      <4> QED
        BY <4>1, <4>2
    <3>3. (<<p>> \o f[next[p]]) \o f[add] = <<p>> \o (f[next[p]] \o f[add])
      <4>1. Associative(<<p>>, f[next[p]], f[add])
        BY <3>1, FrontJoined
      <4> QED
        BY <4>1 DEF Associative
    <3>4. /\ g[p] = IF Has(p) THEN f[p] \o f[add] ELSE f[p]
          /\ g[next[p]] = IF Has(next[p]) THEN f[next[p]] \o f[add] ELSE f[next[p]]
      <4> HIDE DEF Has
      <4>1. p \in 0..L /\ next[p] \in 0..L
        BY <3>1
      <4>2. \A q \in 0..L : g[q] = IF Has(q) THEN f[q] \o f[add] ELSE f[q]
        OBVIOUS
      <4> HIDE DEF g
      <4> QED
        BY <4>1, <4>2
    <3> HIDE DEF g, more, Has
    <3> QED
      BY <2>1, <3>1, <3>2, <3>3, <3>4, Zenon
  <2> QED
    BY <2>2, <2>3
<1> HIDE DEF g, more
<1>6. Walk(more, L, g)
  BY <1>3, <1>5 DEF Walk
<1> QED
  BY <1>0, <1>2, <1>6 DEF more

LEMMA EndingJoin ==
    ASSUME NEW L \in Nat, NEW next \in [1..L -> 0..L], NEW f \in [0..L -> Seq(1..L)],
           Walk(next, L, f), NEW e \in 1..L, next[e] = Nil, NEW add \in 0..L,
           Without(f, add, e)
    PROVE  Ending([next EXCEPT ![e] = add], L)
BY WalkJoin DEF Ending

\* A new object is a list of its own.
Grown(f, L) == [q \in 0..(L + 1) |-> IF q = L + 1 THEN <<q>> ELSE f[q]]

LEMMA WalkGrow ==
    ASSUME NEW L \in Nat, NEW next \in [1..L -> 0..L], NEW f \in [0..L -> Seq(1..L)],
           Walk(next, L, f),
           NEW more \in [1..(L + 1) -> 0..(L + 1)], more[L + 1] = Nil,
           \A p \in 1..L : more[p] = next[p]
    PROVE  /\ Grown(f, L) \in [0..(L + 1) -> Seq(1..(L + 1))]
           /\ Walk(more, L + 1, Grown(f, L))
<1> DEFINE g == [q \in 0..(L + 1) |-> IF q = L + 1 THEN <<q>> ELSE f[q]]
<1>1. Walk(next, L, f) /\ g = Grown(f, L)
  BY DEF Grown
<1>2. g \in [0..(L + 1) -> Seq(1..(L + 1))]
  <2>1. ASSUME NEW q \in 0..(L + 1) PROVE g[q] \in Seq(1..(L + 1))
    <3>1. CASE q = L + 1
      BY <3>1
    <3>2. CASE q # L + 1
      <4>1. q \in 0..L /\ f[q] \in Seq(1..L) /\ 1..L \subseteq 1..(L + 1)
        BY <3>2
      <4>2. f[q] \in Seq(1..(L + 1))
        BY <4>1, SeqMonotonic
      <4> QED
        BY <3>2, <4>2
    <3> QED
      BY <3>1, <3>2
  <2> QED
    BY <2>1
<1>3. g[Nil] = <<>>
  BY <1>1 DEF Walk, Nil
<1>4. ASSUME NEW p \in 1..(L + 1) PROVE g[p] = <<p>> \o g[more[p]]
  <2>1. CASE p = L + 1
    <3>1. g[p] = <<p>> /\ more[p] = Nil
      BY <2>1
    <3>2. <<p>> \in Seq(1..(L + 1))
      OBVIOUS
    <3> HIDE DEF g
    <3> QED
      BY <1>3, <3>1, <3>2, ConcatEmptySeq
  <2>2. CASE p # L + 1
    <3>1. p \in 1..L /\ more[p] = next[p] /\ next[p] \in 0..L
      BY <2>2
    <3>2. f[p] = <<p>> \o f[next[p]]
      BY <1>1, <3>1 DEF Walk
    <3>3. g[p] = f[p] /\ g[next[p]] = f[next[p]]
      BY <3>1
    <3> HIDE DEF g
    <3> QED
      BY <3>1, <3>2, <3>3
  <2> QED
    BY <2>1, <2>2
<1> HIDE DEF g
<1>5. Walk(more, L + 1, g)
  BY <1>3, <1>4 DEF Walk
<1> QED
  BY <1>1, <1>2, <1>5

LEMMA EndingGrow ==
    ASSUME NEW L \in Nat, NEW next \in [1..L -> 0..L], Ending(next, L),
           NEW more \in [1..(L + 1) -> 0..(L + 1)], more[L + 1] = Nil,
           \A p \in 1..L : more[p] = next[p]
    PROVE  Ending(more, L + 1)
<1>1. PICK f \in [0..L -> Seq(1..L)] : Walk(next, L, f)
  BY DEF Ending
<1> QED
  BY <1>1, WalkGrow DEF Ending

-----------------------------------------------------------------------------
(* Ownership.  The pointers to L objects of one kind: `next` of each object,  *)
(* `from` of the M objects of the other kind, and the caller's roots.        *)

\* No object has two owners, and nothing points to an object that is not live.
Apart(L, M, next, from, roots, live) ==
    /\ \A x, y \in 1..L : next[x] = next[y] /\ next[x] # Nil => x = y
    /\ \A x, y \in 1..M : from[x] = from[y] /\ from[x] # Nil => x = y
    /\ \A x \in 1..L, y \in 1..M : next[x] = from[y] => next[x] = Nil
    /\ \A x \in 1..L : next[x] \notin roots
    /\ \A y \in 1..M : from[y] \notin roots
    /\ \A x \in 1..L : next[x] # Nil => next[x] \in live /\ x \in live
    /\ \A y \in 1..M : from[y] # Nil => from[y] \in live

Kept(L, M, next, from, roots, live) ==
    \A p \in live : \/ p \in roots
                    \/ \E x \in 1..L : next[x] = p
                    \/ \E y \in 1..M : from[y] = p

\* g is f with one pointer more, which is NULL.
Extended(f, g, L, N) ==
    /\ g \in [1..(L + 1) -> 0..N] /\ g[L + 1] = Nil
    /\ \A p \in 1..L : g[p] = f[p]

Lists(L, M, next, from, roots, live) ==
    /\ L \in Nat /\ M \in Nat
    /\ next \in [1..L -> 0..L] /\ from \in [1..M -> 0..L]
    /\ roots \subseteq live /\ live \subseteq 1..L
    /\ Ending(next, L)
    /\ Apart(L, M, next, from, roots, live)
    /\ Kept(L, M, next, from, roots, live)

\* malloc of an object, which the caller gets.
LEMMA ListsNew ==
    ASSUME NEW L, NEW M, NEW next, NEW from, NEW roots, NEW live,
           Lists(L, M, next, from, roots, live),
           NEW more, Extended(next, more, L, L + 1)
    PROVE  Lists(L + 1, M, more, from, roots \cup {L + 1}, live \cup {L + 1})
<1>1. /\ L \in Nat /\ M \in Nat
      /\ next \in [1..L -> 0..L] /\ from \in [1..M -> 0..L]
      /\ roots \subseteq live /\ live \subseteq 1..L
      /\ more \in [1..(L + 1) -> 0..(L + 1)] /\ more[L + 1] = Nil
      /\ \A p \in 1..L : more[p] = next[p]
  BY DEF Lists, Extended
<1>2. /\ L + 1 \in Nat /\ from \in [1..M -> 0..(L + 1)]
      /\ roots \cup {L + 1} \subseteq live \cup {L + 1} /\ live \cup {L + 1} \subseteq 1..(L + 1)
  BY <1>1
<1>3. Ending(more, L + 1)
  BY <1>1, EndingGrow DEF Lists
<1>4. Apart(L + 1, M, more, from, roots \cup {L + 1}, live \cup {L + 1})
  <2>1. ASSUME NEW x \in 1..(L + 1), NEW y \in 1..(L + 1), more[x] = more[y], more[x] # Nil
        PROVE  x = y
    <3>1. x # L + 1 /\ y # L + 1
      BY <1>1, <2>1
    <3>2. x \in 1..L /\ y \in 1..L
      BY <1>1, <3>1
    <3>3. next[x] = next[y] /\ next[x] # Nil
      BY <1>1, <2>1, <3>2
    <3> QED
      BY <3>2, <3>3 DEF Lists, Apart
  <2>2. \A x, y \in 1..M : from[x] = from[y] /\ from[x] # Nil => x = y
    BY <1>1 DEF Lists, Apart, Nil
  <2>3. \A x \in 1..(L + 1), y \in 1..M : more[x] = from[y] => more[x] = Nil
    BY <1>1 DEF Lists, Apart, Nil
  <2>4. \A x \in 1..(L + 1) : more[x] \notin roots \cup {L + 1}
    BY <1>1 DEF Lists, Apart, Nil
  <2>5. \A y \in 1..M : from[y] \notin roots \cup {L + 1}
    BY <1>1 DEF Lists, Apart, Nil
  <2>6. \A x \in 1..(L + 1) :
            more[x] # Nil => more[x] \in live \cup {L + 1} /\ x \in live \cup {L + 1}
    BY <1>1 DEF Lists, Apart, Nil
  <2>7. \A y \in 1..M : from[y] # Nil => from[y] \in live \cup {L + 1}
    BY <1>1 DEF Lists, Apart, Nil
  <2> QED
    BY <2>1, <2>2, <2>3, <2>4, <2>5, <2>6, <2>7 DEF Apart
<1>5. Kept(L + 1, M, more, from, roots \cup {L + 1}, live \cup {L + 1})
  <2> SUFFICES ASSUME NEW p \in live, p \notin roots
               PROVE  \/ \E x \in 1..(L + 1) : more[x] = p
                      \/ \E y \in 1..M : from[y] = p
    BY DEF Kept
  <2>1. (\E x \in 1..L : next[x] = p) \/ \E y \in 1..M : from[y] = p
    BY DEF Lists, Kept
  <2>2. \A x \in 1..L : x \in 1..(L + 1)
    BY <1>1
  <2> QED
    BY <1>1, <2>1, <2>2
<1> QED
  BY <1>1, <1>2, <1>3, <1>4, <1>5 DEF Lists

\* malloc of an object of the other kind.
LEMMA ListsOther ==
    ASSUME NEW L, NEW M, NEW next, NEW from, NEW roots, NEW live,
           Lists(L, M, next, from, roots, live),
           NEW more, Extended(from, more, M, L)
    PROVE  Lists(L, M + 1, next, more, roots, live)
<1>1. /\ L \in Nat /\ M \in Nat
      /\ next \in [1..L -> 0..L] /\ from \in [1..M -> 0..L]
      /\ roots \subseteq live /\ live \subseteq 1..L
      /\ more \in [1..(M + 1) -> 0..L] /\ more[M + 1] = Nil
      /\ \A y \in 1..M : more[y] = from[y]
  BY DEF Lists, Extended
<1>2. Apart(L, M + 1, next, more, roots, live)
  <2>1. \A x, y \in 1..L : next[x] = next[y] /\ next[x] # Nil => x = y
    BY <1>1 DEF Lists, Apart, Nil
  <2>2. ASSUME NEW x \in 1..(M + 1), NEW y \in 1..(M + 1), more[x] = more[y], more[x] # Nil
        PROVE  x = y
    <3>1. x # M + 1 /\ y # M + 1
      BY <1>1, <2>2
    <3>2. x \in 1..M /\ y \in 1..M
      BY <1>1, <3>1
    <3>3. from[x] = from[y] /\ from[x] # Nil
      BY <1>1, <2>2, <3>2
    <3> QED
      BY <3>2, <3>3 DEF Lists, Apart
  <2>3. ASSUME NEW x \in 1..L, NEW y \in 1..(M + 1), next[x] = more[y] PROVE next[x] = Nil
    <3>1. y = M + 1 \/ y \in 1..M
      BY <1>1
    <3>2. \A z \in 1..M : next[x] = from[z] => next[x] = Nil
      BY DEF Lists, Apart
    <3> QED
      BY <1>1, <2>3, <3>1, <3>2
  <2>4. \A x \in 1..L : next[x] \notin roots
    BY <1>1 DEF Lists, Apart, Nil
  <2>5. \A y \in 1..(M + 1) : more[y] \notin roots
    BY <1>1 DEF Lists, Apart, Nil
  <2>6. \A x \in 1..L : next[x] # Nil => next[x] \in live /\ x \in live
    BY <1>1 DEF Lists, Apart, Nil
  <2>7. \A y \in 1..(M + 1) : more[y] # Nil => more[y] \in live
    BY <1>1 DEF Lists, Apart, Nil
  <2> QED
    BY <2>1, <2>2, <2>3, <2>4, <2>5, <2>6, <2>7 DEF Apart
<1>3. Kept(L, M + 1, next, more, roots, live)
  <2> SUFFICES ASSUME NEW p \in live, p \notin roots
               PROVE  \/ \E x \in 1..L : next[x] = p
                      \/ \E y \in 1..(M + 1) : more[y] = p
    BY DEF Kept
  <2>1. (\E x \in 1..L : next[x] = p) \/ \E y \in 1..M : from[y] = p
    BY DEF Lists, Kept
  <2>2. \A y \in 1..M : y \in 1..(M + 1)
    BY <1>1
  <2> QED
    BY <1>1, <2>1, <2>2
<1>4. M + 1 \in Nat
  BY <1>1
<1> QED
  BY <1>1, <1>2, <1>3, <1>4 DEF Lists

\* A root moves to a pointer of the other kind that was NULL.
LEMMA ListsTake ==
    ASSUME NEW L, NEW M, NEW next, NEW from, NEW roots, NEW live,
           Lists(L, M, next, from, roots, live),
           NEW m \in 1..M, from[m] = Nil, NEW r \in roots
    PROVE  Lists(L, M, next, [from EXCEPT ![m] = r], roots \ {r}, live)
<1> DEFINE to == [from EXCEPT ![m] = r]
<1>1. /\ L \in Nat /\ M \in Nat
      /\ next \in [1..L -> 0..L] /\ from \in [1..M -> 0..L]
      /\ roots \subseteq live /\ live \subseteq 1..L
  BY DEF Lists
<1>2. r \in 1..L /\ r \in live /\ to \in [1..M -> 0..L] /\ to[m] = r
      /\ \A y \in 1..M : y # m => to[y] = from[y]
  BY <1>1
<1> HIDE DEF to
<1>3. Apart(L, M, next, to, roots \ {r}, live)
  <2>1. \A x, y \in 1..L : next[x] = next[y] /\ next[x] # Nil => x = y
    BY <1>1, <1>2 DEF Lists, Apart, Nil
  <2>2. \A x, y \in 1..M : to[x] = to[y] /\ to[x] # Nil => x = y
    <3>1. \A x, y \in 1..M : from[x] = from[y] /\ from[x] # Nil => x = y
      BY DEF Lists, Apart
    <3>2. \A y \in 1..M : from[y] # r
      BY DEF Lists, Apart
    <3> QED
      BY <1>2, <3>1, <3>2
  <2>3. \A x \in 1..L, y \in 1..M : next[x] = to[y] => next[x] = Nil
    BY <1>1, <1>2 DEF Lists, Apart, Nil
  <2>4. \A x \in 1..L : next[x] \notin roots \ {r}
    BY <1>1, <1>2 DEF Lists, Apart, Nil
  <2>5. \A y \in 1..M : to[y] \notin roots \ {r}
    BY <1>1, <1>2 DEF Lists, Apart, Nil
  <2>6. \A x \in 1..L : next[x] # Nil => next[x] \in live /\ x \in live
    BY <1>1, <1>2 DEF Lists, Apart, Nil
  <2>7. \A y \in 1..M : to[y] # Nil => to[y] \in live
    BY <1>1, <1>2 DEF Lists, Apart, Nil
  <2> QED
    BY <2>1, <2>2, <2>3, <2>4, <2>5, <2>6, <2>7 DEF Apart
<1>4. Kept(L, M, next, to, roots \ {r}, live)
  <2> SUFFICES ASSUME NEW p \in live, p \notin roots \ {r}
               PROVE  \/ \E x \in 1..L : next[x] = p
                      \/ \E y \in 1..M : to[y] = p
    BY DEF Kept
  <2>1. CASE p = r
    BY <1>2, <2>1
  <2>2. CASE p # r
    <3>1. (\E x \in 1..L : next[x] = p) \/ \E y \in 1..M : from[y] = p
      BY <2>2 DEF Lists, Kept
    <3>2. p # Nil
      BY <1>1 DEF Nil
    <3> QED
      BY <1>2, <3>1, <3>2
  <2> QED
    BY <2>1, <2>2
<1> QED
  BY <1>1, <1>2, <1>3, <1>4 DEF Lists, to

\* A pointer of the other kind lets go of its object, which becomes a root.
LEMMA ListsRelease ==
    ASSUME NEW L, NEW M, NEW next, NEW from, NEW roots, NEW live,
           Lists(L, M, next, from, roots, live),
           NEW m \in 1..M, from[m] # Nil
    PROVE  Lists(L, M, next, [from EXCEPT ![m] = Nil], roots \cup {from[m]}, live)
<1> DEFINE to == [from EXCEPT ![m] = Nil]
           r == from[m]
<1>1. /\ L \in Nat /\ M \in Nat
      /\ next \in [1..L -> 0..L] /\ from \in [1..M -> 0..L]
      /\ roots \subseteq live /\ live \subseteq 1..L
  BY DEF Lists
<1>2. r \in 1..L /\ r \in live /\ to \in [1..M -> 0..L] /\ to[m] = Nil /\ from[m] = r
      /\ \A y \in 1..M : y # m => to[y] = from[y]
  BY <1>1 DEF Lists, Apart, Nil
<1> HIDE DEF to, r
<1>3. Apart(L, M, next, to, roots \cup {r}, live)
  <2>1. \A x, y \in 1..L : next[x] = next[y] /\ next[x] # Nil => x = y
    BY <1>1, <1>2 DEF Lists, Apart, Nil
  <2>2. \A x, y \in 1..M : to[x] = to[y] /\ to[x] # Nil => x = y
    <3>1. \A x, y \in 1..M : from[x] = from[y] /\ from[x] # Nil => x = y
      BY DEF Lists, Apart
    <3> QED
      BY <1>2, <3>1
  <2>3. \A x \in 1..L, y \in 1..M : next[x] = to[y] => next[x] = Nil
    BY <1>1, <1>2 DEF Lists, Apart, Nil
  <2>4. \A x \in 1..L : next[x] \notin roots \cup {r}
    BY <1>1, <1>2 DEF Lists, Apart, Nil
  <2>5. ASSUME NEW y \in 1..M PROVE to[y] \notin roots \cup {r}
    <3>1. CASE y = m
      BY <1>1, <1>2, <3>1 DEF Nil
    <3>2. CASE y # m
      <4>1. to[y] = from[y] /\ from[y] \notin roots
        BY <1>2, <3>2 DEF Lists, Apart
      <4>2. r # Nil
        BY <1>2 DEF Nil
      <4>3. from[y] # from[m]
        BY <1>2, <3>2, <4>2 DEF Lists, Apart
      <4> QED
        BY <1>2, <4>1, <4>3
    <3> QED
      BY <3>1, <3>2
  <2>6. \A x \in 1..L : next[x] # Nil => next[x] \in live /\ x \in live
    BY <1>1, <1>2 DEF Lists, Apart, Nil
  <2>7. \A y \in 1..M : to[y] # Nil => to[y] \in live
    BY <1>1, <1>2 DEF Lists, Apart, Nil
  <2> QED
    BY <2>1, <2>2, <2>3, <2>4, <2>5, <2>6, <2>7 DEF Apart
<1>4. Kept(L, M, next, to, roots \cup {r}, live)
  <2> SUFFICES ASSUME NEW p \in live, p \notin roots, p # r
               PROVE  \/ \E x \in 1..L : next[x] = p
                      \/ \E y \in 1..M : to[y] = p
    BY DEF Kept
  <2>1. (\E x \in 1..L : next[x] = p) \/ \E y \in 1..M : from[y] = p
    BY DEF Lists, Kept
  <2> QED
    BY <1>2, <2>1
<1> QED
  BY <1>1, <1>2, <1>3, <1>4 DEF Lists, to, r

\* free of a root with nothing behind it.
LEMMA ListsFree ==
    ASSUME NEW L, NEW M, NEW next, NEW from, NEW roots, NEW live,
           Lists(L, M, next, from, roots, live),
           NEW r \in roots, next[r] = Nil
    PROVE  Lists(L, M, next, from, roots \ {r}, live \ {r})
<1>1. /\ L \in Nat /\ M \in Nat
      /\ next \in [1..L -> 0..L] /\ from \in [1..M -> 0..L]
      /\ roots \subseteq live /\ live \subseteq 1..L
  BY DEF Lists
<1>2. Apart(L, M, next, from, roots \ {r}, live \ {r})
  BY <1>1 DEF Lists, Apart, Nil
<1>3. Kept(L, M, next, from, roots \ {r}, live \ {r})
  BY DEF Lists, Kept
<1> QED
  BY <1>1, <1>2, <1>3 DEF Lists

EndOf(f, p, e) == e = f[p][Len(f[p])]

Unlinked(next, L, p) == \A x \in 1..L : next[x] # p

\* A root is put behind the last element of another list.
LEMMA ListsJoin ==
    ASSUME NEW L, NEW M, NEW next, NEW from, NEW roots, NEW live,
           Lists(L, M, next, from, roots, live),
           NEW f \in [0..L -> Seq(1..L)], Walk(next, L, f),
           NEW head \in live, Unlinked(next, L, head),
           NEW e, EndOf(f, head, e),
           NEW r \in roots, head # r
    PROVE  /\ e \in live /\ next[e] = Nil
           /\ Lists(L, M, [next EXCEPT ![e] = r], from, roots \ {r}, live)
<1> DEFINE more == [next EXCEPT ![e] = r]
<1>1. /\ L \in Nat /\ M \in Nat
      /\ next \in [1..L -> 0..L] /\ from \in [1..M -> 0..L]
      /\ roots \subseteq live /\ live \subseteq 1..L
  BY DEF Lists
<1>2. r \in 1..L /\ head \in 1..L /\ r \in live
  BY <1>1
<1>3. Linked(next, f[head]) /\ Linked(next, f[r])
  BY <1>1, <1>2, WalkSteps
<1>4. f[head][1] = head /\ f[r][1] = r
  BY <1>1, <1>2, WalkFirst
<1>5. f[head] \in Seq(1..L) /\ f[r] \in Seq(1..L)
  <2>1. head \in 0..L /\ r \in 0..L
    BY <1>1, <1>2
  <2> QED
    BY <2>1
<1>6. Len(f[head]) \in 1..Len(f[head])
  BY <1>3, <1>5, LenProperties DEF Linked
<1>7. e \in 1..L /\ next[e] = Nil
  BY <1>3, <1>5, <1>6, ElementOfSeq DEF Linked, EndOf
<1>8. e \in live
  <2>1. CASE Len(f[head]) = 1
    BY <1>4, <2>1 DEF EndOf
  <2>2. CASE Len(f[head]) # 1
    <3>1. Len(f[head]) - 1 \in 1..Len(f[head]) - 1 /\ (Len(f[head]) - 1) + 1 = Len(f[head])
          /\ Len(f[head]) - 1 \in 1..Len(f[head])
      <4> DEFINE len == Len(f[head])
      <4>1. len \in Nat /\ len \in 1..len /\ len # 1
        BY <1>5, <1>6, <2>2, LenProperties
      <4> HIDE DEF len
      <4>2. len - 1 \in 1..len - 1 /\ (len - 1) + 1 = len /\ len - 1 \in 1..len
        BY <4>1
      <4> QED
        BY <4>2 DEF len
    <3>2. next[f[head][Len(f[head]) - 1]] = e /\ f[head][Len(f[head]) - 1] \in 1..L
      BY <1>3, <1>5, <3>1, ElementOfSeq DEF Linked, EndOf
    <3>3. e # Nil
      BY <1>7 DEF Nil
    <3> QED
      BY <3>2, <3>3 DEF Lists, Apart
  <2> QED
    BY <2>1, <2>2
<1>9. \A i \in 1..Len(f[r]) : f[r][i] # e
  <2> TAKE i \in 1..Len(f[r])
  <2>1. Separate(next, L, f[r][1], f[head][1])
    <3>1. \A x, y \in 1..L : next[x] = next[y] /\ next[x] # Nil => x = y
      BY DEF Lists, Apart
    <3>2. \A x \in 1..L : next[x] # r
      BY DEF Lists, Apart
    <3> QED
      BY <1>4, <3>1, <3>2, Zenon DEF Separate, Unlinked
  <2> DEFINE s == f[r]
             t == f[head]
  <2>2. s \in Seq(1..L) /\ t \in Seq(1..L) /\ Linked(next, s) /\ Linked(next, t)
    BY <1>3, <1>5
  <2>3. s[1] # t[1] /\ Separate(next, L, s[1], t[1])
    BY <1>4, <2>1
  <2>4. i \in 1..Len(s) /\ Len(t) \in 1..Len(t)
    BY <1>6
  <2> HIDE DEF s, t
  <2>5. s[i] # t[Len(t)]
    BY <1>1, <2>2, <2>3, <2>4, LinkedApart
  <2> QED
    BY <2>5 DEF s, t, EndOf
<1>10. Ending(more, L)
  <2>1. r \in 0..L /\ Without(f, r, e)
    BY <1>2, <1>9 DEF Without
  <2>2. L \in Nat /\ next \in [1..L -> 0..L] /\ e \in 1..L /\ next[e] = Nil
    BY <1>1, <1>7
  <2>3. Ending([next EXCEPT ![e] = r], L)
    BY <2>1, <2>2, EndingJoin
  <2> QED
    BY <2>3
<1>11. /\ more \in [1..L -> 0..L] /\ more[e] = r
       /\ \A x \in 1..L : x # e => more[x] = next[x]
  BY <1>1, <1>2, <1>7
<1> HIDE DEF more
<1>12. Apart(L, M, more, from, roots \ {r}, live)
  <2>0. r # Nil
    BY <1>2 DEF Nil
  <2>1. \A x, y \in 1..L : more[x] = more[y] /\ more[x] # Nil => x = y
    BY <1>11, <1>2 DEF Lists, Apart
  <2>2. \A x, y \in 1..M : from[x] = from[y] /\ from[x] # Nil => x = y
    BY DEF Lists, Apart
  <2>3. \A x \in 1..L, y \in 1..M : more[x] = from[y] => more[x] = Nil
    BY <1>11 DEF Lists, Apart
  <2>4. \A x \in 1..L : more[x] \notin roots \ {r}
    BY <1>11 DEF Lists, Apart
  <2>5. \A y \in 1..M : from[y] \notin roots \ {r}
    BY DEF Lists, Apart
  <2>6. \A x \in 1..L : more[x] # Nil => more[x] \in live /\ x \in live
    BY <1>2, <1>8, <1>11 DEF Lists, Apart
  <2>7. \A y \in 1..M : from[y] # Nil => from[y] \in live
    BY DEF Lists, Apart
  <2> QED
    BY <2>1, <2>2, <2>3, <2>4, <2>5, <2>6, <2>7 DEF Apart
<1>13. Kept(L, M, more, from, roots \ {r}, live)
  <2> SUFFICES ASSUME NEW p \in live, p \notin roots \ {r}
               PROVE  \/ \E x \in 1..L : more[x] = p
                      \/ \E y \in 1..M : from[y] = p
    BY DEF Kept
  <2>1. CASE p = r
    BY <1>7, <1>11, <2>1
  <2>2. CASE p # r
    <3>1. (\E x \in 1..L : next[x] = p) \/ \E y \in 1..M : from[y] = p
      BY <2>2 DEF Lists, Kept
    <3>2. p # Nil
      BY <1>1 DEF Nil
    <3> QED
      BY <1>7, <1>11, <3>1, <3>2
  <2> QED
    BY <2>1, <2>2
<1> QED
  BY <1>1, <1>7, <1>8, <1>10, <1>11, <1>12, <1>13 DEF Lists, more

LEMMA AtMostOne ==
    ASSUME NEW S, \A x, y \in S : x = y
    PROVE  IF S = {} THEN Cardinality(S) = 0 ELSE Cardinality(S) = 1
<1>1. CASE S = {}
  BY <1>1, FS_EmptySet
<1>2. CASE S # {}
  <2>1. PICK x : S = {x}
    BY <1>2
  <2> QED
    BY <1>2, <2>1, FS_Singleton
<1> QED
  BY <1>1, <1>2

\* Apart and Kept count owners.
LEMMA OwnersCounted ==
    ASSUME NEW L, NEW M, NEW next, NEW from, NEW roots, NEW live,
           Lists(L, M, next, from, roots, live), NEW p \in 1..L
    PROVE  Cardinality({x \in 1..L : next[x] = p})
           + Cardinality({y \in 1..M : from[y] = p})
           + Cardinality({r \in roots : r = p}) = IF p \in live THEN 1 ELSE 0
<1> DEFINE A == {x \in 1..L : next[x] = p}
           B == {y \in 1..M : from[y] = p}
           C == {r \in roots : r = p}
<1>1. p # Nil
  BY DEF Nil, Lists
<1>2. \A x, y \in A : x = y
  BY <1>1 DEF Lists, Apart
<1>3. \A x, y \in B : x = y
  BY <1>1 DEF Lists, Apart
<1>4. \A x, y \in C : x = y
  OBVIOUS
<1>5. (A = {} \/ B = {}) /\ (A = {} \/ C = {}) /\ (B = {} \/ C = {})
  <2>1. A = {} \/ B = {}
    BY <1>1 DEF Lists, Apart
  <2>2. A = {} \/ C = {}
    BY DEF Lists, Apart
  <2>3. B = {} \/ C = {}
    BY DEF Lists, Apart
  <2> QED
    BY <2>1, <2>2, <2>3
<1>6. p \in live <=> (A # {} \/ B # {} \/ C # {})
  <2>1. ASSUME p \in live PROVE A # {} \/ B # {} \/ C # {}
    BY <2>1 DEF Lists, Kept
  <2>2. ASSUME A # {} PROVE p \in live
    BY <1>1, <2>2 DEF Lists, Apart
  <2>3. ASSUME B # {} PROVE p \in live
    BY <1>1, <2>3 DEF Lists, Apart
  <2>4. ASSUME C # {} PROVE p \in live
    BY <2>4 DEF Lists
  <2> QED
    BY <2>1, <2>2, <2>3, <2>4
<1> HIDE DEF A, B, C
<1>7. /\ IF A = {} THEN Cardinality(A) = 0 ELSE Cardinality(A) = 1
      /\ IF B = {} THEN Cardinality(B) = 0 ELSE Cardinality(B) = 1
      /\ IF C = {} THEN Cardinality(C) = 0 ELSE Cardinality(C) = 1
  BY <1>2, <1>3, <1>4, AtMostOne
<1>8. Cardinality(A) + Cardinality(B) + Cardinality(C) = IF p \in live THEN 1 ELSE 0
  BY <1>5, <1>6, <1>7
<1> QED
  BY <1>8 DEF A, B, C

-----------------------------------------------------------------------------
(* The heap *)

Typed(h) ==
    /\ h \in [node : Seq(NodeRecord), attr : Seq(AttrRecord), cell : Word \cup {NoText},
              status : {"running", "aborted", "undefined"}]
    /\ \A a \in 1..Len(h.attr) : h.attr[a].kind = "AST_NODE" <=> h.attr[a].node # Nil

Live(objs)   == {p \in 1..Len(objs) : objs[p].live}
Firsts(objs) == [p \in 1..Len(objs) |-> objs[p].first]
Subs(objs)   == [p \in 1..Len(objs) |-> objs[p].node]

\* A freed object points to nothing.
DeadEmpty(h) ==
    /\ \A n \in 1..Len(h.node) : ~h.node[n].live => h.node[n].first = Nil
    /\ \A a \in 1..Len(h.attr) : ~h.attr[a].live => h.attr[a].node = Nil

NodeLists(h, nodes) ==
    Lists(Len(h.node), Len(h.attr), Nexts(h.node), Subs(h.attr), nodes, Live(h.node))

AttrLists(h, attrs) ==
    Lists(Len(h.attr), Len(h.node), Nexts(h.attr), Firsts(h.node), attrs, Live(h.attr))

\* The heap of a caller that holds these nodes and attributes.
Sound(h, nodes, attrs) ==
    Typed(h) /\ NodeLists(h, nodes) /\ AttrLists(h, attrs) /\ DeadEmpty(h)

\* t is s but for the element i.
SameBut(s, t, i) ==
    /\ i \in 1..Len(s) /\ Len(t) = Len(s)
    /\ \A j \in 1..Len(s) : j # i => t[j] = s[j]

LEMMA OneChanged ==
    ASSUME NEW R, NEW s \in Seq(R), NEW i \in 1..Len(s), NEW e \in R
    PROVE  /\ [s EXCEPT ![i] = e] \in Seq(R) /\ [s EXCEPT ![i] = e][i] = e
           /\ SameBut(s, [s EXCEPT ![i] = e], i)
BY ExceptSeq, LenProperties DEF SameBut

LEMMA FieldsChanged ==
    ASSUME NEW s, NEW t, NEW i, SameBut(s, t, i)
    PROVE  /\ Nexts(t) = [Nexts(s) EXCEPT ![i] = t[i].next]
           /\ Firsts(t) = [Firsts(s) EXCEPT ![i] = t[i].first]
           /\ Subs(t) = [Subs(s) EXCEPT ![i] = t[i].node]
<1>1. Nexts(t) = [Nexts(s) EXCEPT ![i] = t[i].next]
  BY DEF Nexts, SameBut
<1>2. Firsts(t) = [Firsts(s) EXCEPT ![i] = t[i].first]
  BY DEF Firsts, SameBut
<1>3. Subs(t) = [Subs(s) EXCEPT ![i] = t[i].node]
  BY DEF Subs, SameBut
<1> QED
  BY <1>1, <1>2, <1>3

LEMMA LiveChanged ==
    ASSUME NEW s, NEW t, NEW i, SameBut(s, t, i)
    PROVE  Live(t) = IF t[i].live THEN Live(s) \cup {i} ELSE Live(s) \ {i}
BY DEF SameBut, Live

LEMMA LiveKept ==
    ASSUME NEW s, NEW t, NEW i, SameBut(s, t, i), t[i].live = s[i].live
    PROVE  Live(t) = Live(s)
BY DEF SameBut, Live

\* t is s with one element more.
OneMore(s, t) ==
    /\ Len(s) \in Nat /\ Len(t) = Len(s) + 1
    /\ \A j \in 1..Len(s) : t[j] = s[j]

LEMMA OneAdded ==
    ASSUME NEW R, NEW s \in Seq(R), NEW e \in R
    PROVE  /\ Append(s, e) \in Seq(R) /\ OneMore(s, Append(s, e))
           /\ Append(s, e)[Len(s) + 1] = e
BY AppendProperties, LenProperties DEF OneMore

Within(f, L, N) == f \in [1..L -> 0..N]

LEMMA NextsAdded ==
    ASSUME NEW s, NEW t, NEW N, OneMore(s, t), Within(Nexts(s), Len(s), N), N \in Nat,
           t[Len(s) + 1].next = Nil
    PROVE  Extended(Nexts(s), Nexts(t), Len(s), N)
<1>1. Len(s) + 1 \in 1..(Len(s) + 1) /\ \A j \in 1..Len(s) : j \in 1..(Len(s) + 1)
  BY DEF OneMore
<1>2. Nexts(t)[Len(s) + 1] = Nil /\ \A j \in 1..Len(s) : Nexts(t)[j] = Nexts(s)[j]
  BY <1>1 DEF OneMore, Nexts
<1>3. ASSUME NEW j \in 1..(Len(s) + 1) PROVE Nexts(t)[j] \in 0..N
  <2>1. j = Len(s) + 1 \/ j \in 1..Len(s)
    BY DEF OneMore
  <2> QED
    BY <1>2, <2>1 DEF Nil, Within
<1> QED
  BY <1>2, <1>3 DEF Nexts, OneMore, Extended

LEMMA FirstsAdded ==
    ASSUME NEW s, NEW t, NEW N, OneMore(s, t), Within(Firsts(s), Len(s), N), N \in Nat,
           t[Len(s) + 1].first = Nil
    PROVE  Extended(Firsts(s), Firsts(t), Len(s), N)
<1>1. Len(s) + 1 \in 1..(Len(s) + 1) /\ \A j \in 1..Len(s) : j \in 1..(Len(s) + 1)
  BY DEF OneMore
<1>2. Firsts(t)[Len(s) + 1] = Nil /\ \A j \in 1..Len(s) : Firsts(t)[j] = Firsts(s)[j]
  BY <1>1 DEF OneMore, Firsts
<1>3. ASSUME NEW j \in 1..(Len(s) + 1) PROVE Firsts(t)[j] \in 0..N
  <2>1. j = Len(s) + 1 \/ j \in 1..Len(s)
    BY DEF OneMore
  <2> QED
    BY <1>2, <2>1 DEF Nil, Within
<1> QED
  BY <1>2, <1>3 DEF Firsts, OneMore, Extended

LEMMA LiveAdded ==
    ASSUME NEW s, NEW t, OneMore(s, t), t[Len(s) + 1].live
    PROVE  Live(t) = Live(s) \cup {Len(s) + 1}
BY DEF OneMore, Live

PutNode(h, n, rec) == [h EXCEPT !.node = [@ EXCEPT ![n] = rec]]
PutAttr(h, a, rec) == [h EXCEPT !.attr = [@ EXCEPT ![a] = rec]]

NodeChange(h, n, rec, h2) ==
    /\ Typed(h2) /\ h2.attr = h.attr /\ h2.status = h.status
    /\ SameBut(h.node, h2.node, n) /\ h2.node[n] = rec
    /\ Nexts(h2.node) = [Nexts(h.node) EXCEPT ![n] = rec.next]
    /\ Firsts(h2.node) = [Firsts(h.node) EXCEPT ![n] = rec.first]
    /\ Subs(h2.attr) = Subs(h.attr)

AttrChange(h, a, rec, h2) ==
    /\ Typed(h2) /\ h2.node = h.node /\ h2.status = h.status
    /\ SameBut(h.attr, h2.attr, a) /\ h2.attr[a] = rec
    /\ Nexts(h2.attr) = [Nexts(h.attr) EXCEPT ![a] = rec.next]
    /\ Subs(h2.attr) = [Subs(h.attr) EXCEPT ![a] = rec.node]
    /\ Firsts(h2.node) = Firsts(h.node)

LEMMA NodeChanged ==
    ASSUME NEW h, Typed(h), NEW n \in 1..Len(h.node), NEW rec \in NodeRecord
    PROVE  NodeChange(h, n, rec, PutNode(h, n, rec))
<1> DEFINE h2 == PutNode(h, n, rec)
<1>1. /\ h2.attr = h.attr /\ h2.status = h.status /\ h2.cell = h.cell
      /\ h2.node = [h.node EXCEPT ![n] = rec]
  BY DEF Typed, PutNode
<1> HIDE DEF h2
<1>2. h.node \in Seq(NodeRecord) /\ Len(h.node) \in Nat
  BY LenProperties DEF Typed
<1>3. h2.node \in Seq(NodeRecord) /\ h2.node[n] = rec /\ SameBut(h.node, h2.node, n)
  BY <1>1, <1>2, OneChanged
<1>4. Typed(h2)
  BY <1>1, <1>3 DEF Typed, PutNode, h2
<1>5. /\ Nexts(h2.node) = [Nexts(h.node) EXCEPT ![n] = rec.next]
      /\ Firsts(h2.node) = [Firsts(h.node) EXCEPT ![n] = rec.first]
  <2> DEFINE s == h.node
             t == h2.node
  <2>1. SameBut(s, t, n) /\ t[n] = rec
    BY <1>3
  <2> HIDE DEF s, t
  <2>2. /\ Nexts(t) = [Nexts(s) EXCEPT ![n] = rec.next]
        /\ Firsts(t) = [Firsts(s) EXCEPT ![n] = rec.first]
    BY <2>1, FieldsChanged
  <2> QED
    BY <2>2 DEF s, t
<1>6. Subs(h2.attr) = Subs(h.attr)
  BY <1>1
<1> QED
  BY <1>1, <1>3, <1>4, <1>5, <1>6 DEF NodeChange, h2

LEMMA AttrChanged ==
    ASSUME NEW h, Typed(h), NEW a \in 1..Len(h.attr), NEW rec \in AttrRecord,
           rec.kind = "AST_NODE" <=> rec.node # Nil
    PROVE  AttrChange(h, a, rec, PutAttr(h, a, rec))
<1> DEFINE h2 == PutAttr(h, a, rec)
<1>1. /\ h2.node = h.node /\ h2.status = h.status /\ h2.cell = h.cell
      /\ h2.attr = [h.attr EXCEPT ![a] = rec]
  BY DEF Typed, PutAttr
<1> HIDE DEF h2
<1>2. h.attr \in Seq(AttrRecord) /\ Len(h.attr) \in Nat
  BY LenProperties DEF Typed
<1>3. h2.attr \in Seq(AttrRecord) /\ h2.attr[a] = rec /\ SameBut(h.attr, h2.attr, a)
  BY <1>1, <1>2, OneChanged
<1>4. Typed(h2)
  <2>1. \A b \in 1..Len(h.attr) : h2.attr[b].kind = "AST_NODE" <=> h2.attr[b].node # Nil
    BY <1>3 DEF Typed, SameBut
  <2>2. Len(h2.attr) = Len(h.attr)
    BY <1>3 DEF SameBut
  <2> QED
    BY <1>1, <1>3, <2>1, <2>2 DEF Typed, PutAttr, h2
<1>5. /\ Nexts(h2.attr) = [Nexts(h.attr) EXCEPT ![a] = rec.next]
      /\ Subs(h2.attr) = [Subs(h.attr) EXCEPT ![a] = rec.node]
  <2> DEFINE s == h.attr
             t == h2.attr
  <2>1. SameBut(s, t, a) /\ t[a] = rec
    BY <1>3
  <2> HIDE DEF s, t
  <2>2. Nexts(t) = [Nexts(s) EXCEPT ![a] = rec.next] /\ Subs(t) = [Subs(s) EXCEPT ![a] = rec.node]
    BY <2>1, FieldsChanged
  <2> QED
    BY <2>2 DEF s, t
<1>6. Firsts(h2.node) = Firsts(h.node)
  BY <1>1
<1> QED
  BY <1>1, <1>3, <1>4, <1>5, <1>6 DEF AttrChange, h2

\* A new node, which the caller holds.
LEMMA NodeAdded ==
    ASSUME NEW h, NEW nodes, NEW attrs, Sound(h, nodes, attrs),
           NEW rec \in NodeRecord, rec.live, rec.next = Nil, rec.first = Nil,
           NEW h2, h2 = [h EXCEPT !.node = Append(@, rec)]
    PROVE  /\ Sound(h2, nodes \cup {Len(h.node) + 1}, attrs) /\ h2.status = h.status
           /\ Len(h2.node) = Len(h.node) + 1 /\ h2.attr = h.attr
<1> DEFINE s == h.node
           t == h2.node
           N == Len(s) + 1
<1>1. /\ h2.attr = h.attr /\ h2.status = h.status /\ h2.cell = h.cell
      /\ t = Append(s, rec) /\ s \in Seq(NodeRecord)
  BY DEF Sound, Typed
<1>2. t \in Seq(NodeRecord) /\ OneMore(s, t) /\ t[N] = rec
  <2> HIDE DEF s, t
  <2> QED
    BY <1>1, OneAdded
<1>3. Typed(h2)
  BY <1>1, <1>2 DEF Sound, Typed
<1> DEFINE r == h.attr
           L == Len(s)
           M == Len(r)
<1>4. /\ Lists(L, M, Nexts(s), Subs(r), nodes, Live(s))
      /\ Lists(M, L, Nexts(r), Firsts(s), attrs, Live(r))
  BY DEF Sound, NodeLists, AttrLists
<1>5. /\ \A n \in 1..L : ~s[n].live => s[n].first = Nil
      /\ \A a \in 1..M : ~r[a].live => r[a].node = Nil
  BY DEF Sound, DeadEmpty
<1>6. Len(t) = L + 1
  BY <1>2 DEF OneMore
<1> HIDE DEF s, t, r, L, M
<1>7. L \in Nat /\ M \in Nat
  BY <1>4 DEF Lists
<1>8. Lists(L + 1, M, Nexts(t), Subs(r), nodes \cup {L + 1}, Live(t))
  <2>1. Within(Nexts(s), L, L + 1) /\ L + 1 \in Nat
    <3>1. Nexts(s) \in [1..L -> 0..L]
      BY <1>4 DEF Lists
    <3>2. 0..L \subseteq 0..(L + 1) /\ L + 1 \in Nat
      BY <1>7
    <3> QED
      BY <3>1, <3>2 DEF Within
  <2>2. Extended(Nexts(s), Nexts(t), L, L + 1)
    BY <1>2, <2>1, NextsAdded, Zenon DEF L
  <2>3. Live(t) = Live(s) \cup {L + 1}
    BY <1>2, LiveAdded DEF L
  <2>4. Lists(L + 1, M, Nexts(t), Subs(r), nodes \cup {L + 1}, Live(s) \cup {L + 1})
    BY <1>4, <2>2, ListsNew
  <2> QED
    BY <2>3, <2>4
<1>9. Lists(M, L + 1, Nexts(r), Firsts(t), attrs, Live(r))
  <2>1. Within(Firsts(s), L, M)
    BY <1>4 DEF Lists, Within
  <2>2. Extended(Firsts(s), Firsts(t), L, M)
    BY <1>2, <1>7, <2>1, FirstsAdded, Zenon DEF L
  <2> QED
    BY <1>4, <2>2, ListsOther, Zenon
<1>10. \A n \in 1..Len(t) : ~t[n].live => t[n].first = Nil
  <2> TAKE n \in 1..Len(t)
  <2>1. n = N \/ n \in 1..L
    BY <1>6, <1>7 DEF L
  <2>2. n \in 1..L => t[n] = s[n]
    BY <1>2 DEF OneMore, L
  <2> QED
    BY <1>2, <1>5, <2>1, <2>2
<1>11. Len(t) = N
  BY <1>6 DEF L
<1> QED
  BY <1>1, <1>3, <1>5, <1>6, <1>8, <1>9, <1>10, <1>11
  DEF Sound, NodeLists, AttrLists, DeadEmpty, s, t, r, L, M

AddAttr(h, rec) == [h EXCEPT !.attr = Append(@, rec)]

FreshAttr(rec) ==
    /\ rec \in AttrRecord /\ rec.live /\ rec.next = Nil
    /\ rec.kind = "AST_NODE" <=> rec.node # Nil

AttrGrown(h, rec, h2, nodes, attrs) ==
    /\ Sound(h2, nodes \ {rec.node}, attrs \cup {Len(h.attr) + 1}) /\ h2.status = h.status
    /\ Len(h2.attr) = Len(h.attr) + 1 /\ h2.node = h.node
    /\ h2.attr[Len(h.attr) + 1] = rec

\* A new attribute, which the caller holds; it may take a node from the caller.
LEMMA AttrAdded ==
    ASSUME NEW h, NEW nodes, NEW attrs, Sound(h, nodes, attrs),
           NEW rec, FreshAttr(rec), rec.node \in nodes \cup {Nil}
    PROVE  AttrGrown(h, rec, AddAttr(h, rec), nodes, attrs)
<1> DEFINE h2 == AddAttr(h, rec)
<1>0. /\ rec \in AttrRecord /\ rec.live /\ rec.next = Nil
      /\ rec.kind = "AST_NODE" <=> rec.node # Nil
  BY DEF FreshAttr
<1> DEFINE s == h.attr
           t == h2.attr
           N == Len(s) + 1
<1>1. /\ h2.node = h.node /\ h2.status = h.status /\ h2.cell = h.cell
      /\ t = Append(s, rec) /\ s \in Seq(AttrRecord)
  BY <1>0 DEF Sound, Typed, AddAttr
<1> HIDE DEF h2
<1>2. t \in Seq(AttrRecord) /\ OneMore(s, t) /\ t[N] = rec
  <2> HIDE DEF s, t
  <2> QED
    BY <1>0, <1>1, OneAdded
<1> DEFINE r == h.node
           L == Len(s)
           M == Len(r)
<1>4. /\ Lists(L, M, Nexts(s), Firsts(r), attrs, Live(s))
      /\ Lists(M, L, Nexts(r), Subs(s), nodes, Live(r))
  BY DEF Sound, NodeLists, AttrLists
<1>5. /\ \A a \in 1..L : ~s[a].live => s[a].node = Nil
      /\ \A n \in 1..M : ~r[n].live => r[n].first = Nil
      /\ \A a \in 1..L : s[a].kind = "AST_NODE" <=> s[a].node # Nil
  BY DEF Sound, DeadEmpty, Typed
<1>6. Len(t) = L + 1 /\ \A a \in 1..L : t[a] = s[a]
  BY <1>2 DEF OneMore
<1> HIDE DEF s, t, r, L, M
<1>7. L \in Nat /\ M \in Nat
  BY <1>4 DEF Lists
<1>8. Lists(L + 1, M, Nexts(t), Firsts(r), attrs \cup {L + 1}, Live(t))
  <2>1. Within(Nexts(s), L, L + 1) /\ L + 1 \in Nat
    <3>1. Nexts(s) \in [1..L -> 0..L]
      BY <1>4 DEF Lists
    <3>2. 0..L \subseteq 0..(L + 1) /\ L + 1 \in Nat
      BY <1>7
    <3> QED
      BY <3>1, <3>2 DEF Within
  <2>2. Extended(Nexts(s), Nexts(t), L, L + 1)
    BY <1>0, <1>2, <2>1, NextsAdded, Zenon DEF L
  <2>3. Live(t) = Live(s) \cup {L + 1}
    BY <1>0, <1>2, LiveAdded DEF L
  <2>4. Lists(L + 1, M, Nexts(t), Firsts(r), attrs \cup {L + 1}, Live(s) \cup {L + 1})
    BY <1>4, <2>2, ListsNew
  <2> QED
    BY <2>3, <2>4
<1>9. Lists(M, L + 1, Nexts(r), Subs(t), nodes \ {rec.node}, Live(r))
  <2> DEFINE free == [a \in 1..(L + 1) |-> IF a = L + 1 THEN Nil ELSE Subs(s)[a]]
  <2>1. Subs(s) \in [1..L -> 0..M] /\ nodes \subseteq 1..M
    BY <1>4 DEF Lists
  <2>2. Extended(Subs(s), free, L, M)
    <3>1. ASSUME NEW a \in 1..(L + 1) PROVE free[a] \in 0..M
      <4>1. a = L + 1 \/ a \in 1..L
        BY <1>7
      <4> QED
        BY <1>7, <2>1, <4>1 DEF Nil
    <3> QED
      BY <1>7, <3>1 DEF Extended
  <2>3. free[L + 1] = Nil /\ L + 1 \in 1..(L + 1)
    BY <1>7
  <2>4. Subs(t) = [free EXCEPT ![L + 1] = rec.node]
    <3>1. \A a \in 1..(L + 1) : Subs(t)[a] = [free EXCEPT ![L + 1] = rec.node][a]
      <4> TAKE a \in 1..(L + 1)
      <4>1. Subs(t)[a] = t[a].node
        BY <1>6 DEF Subs
      <4>2. CASE a = L + 1
        BY <1>2, <2>3, <4>1, <4>2 DEF L
      <4>3. CASE a # L + 1
        <5>1. a \in 1..L
          BY <1>7, <4>3
        <5>2. t[a] = s[a] /\ Subs(s)[a] = s[a].node
          BY <1>6, <5>1 DEF Subs, L
        <5> QED
          BY <4>1, <4>3, <5>2
      <4> QED
        BY <4>2, <4>3
    <3>2. Subs(t) = [a \in 1..(L + 1) |-> Subs(t)[a]]
      BY <1>6 DEF Subs
    <3> QED
      BY <3>1, <3>2
  <2> HIDE DEF free
  <2>5. Lists(M, L + 1, Nexts(r), free, nodes, Live(r))
    BY <1>4, <2>2, ListsOther, Zenon
  <2>6. CASE rec.node = Nil
    <3>1. [free EXCEPT ![L + 1] = Nil] = free
      BY <2>2, <2>3 DEF Extended
    <3>2. nodes \ {Nil} = nodes
      BY <2>1 DEF Nil
    <3> QED
      BY <2>4, <2>5, <2>6, <3>1, <3>2
  <2>7. CASE rec.node # Nil
    <3>1. rec.node \in nodes
      BY <2>7
    <3>2. Lists(M, L + 1, Nexts(r), [free EXCEPT ![L + 1] = rec.node], nodes \ {rec.node},
                Live(r))
      BY <2>3, <2>5, <3>1, ListsTake, Zenon
    <3> QED
      BY <2>4, <3>2
  <2> QED
    BY <2>6, <2>7
<1>10. \A a \in 1..Len(t) : /\ ~t[a].live => t[a].node = Nil
                            /\ t[a].kind = "AST_NODE" <=> t[a].node # Nil
  <2> TAKE a \in 1..Len(t)
  <2>1. a = N \/ a \in 1..L
    BY <1>6, <1>7 DEF L
  <2>2. a \in 1..L => t[a] = s[a]
    BY <1>6
  <2> QED
    BY <1>0, <1>2, <1>5, <2>1, <2>2
<1>11. Len(t) = N
  BY <1>6 DEF L
<1>12. Typed(h2)
  BY <1>1, <1>2, <1>10 DEF Sound, Typed, AddAttr, s, t, h2
<1> QED
  BY <1>1, <1>2, <1>5, <1>6, <1>8, <1>9, <1>10, <1>11, <1>12
  DEF AttrGrown, Sound, NodeLists, AttrLists, DeadEmpty, s, t, r, L, M, h2

\* One node or one attribute changes: the pointers that change are its own.
LEMMA SoundNode ==
    ASSUME NEW h, NEW nodes, NEW attrs, Sound(h, nodes, attrs),
           NEW n \in 1..Len(h.node), NEW rec \in NodeRecord, ~rec.live => rec.first = Nil,
           NEW h2, h2 = PutNode(h, n, rec),
           NEW nodes2, NEW attrs2,
           Lists(Len(h.node), Len(h.attr), [Nexts(h.node) EXCEPT ![n] = rec.next], Subs(h.attr),
                 nodes2, IF rec.live THEN Live(h.node) \cup {n} ELSE Live(h.node) \ {n}),
           Lists(Len(h.attr), Len(h.node), Nexts(h.attr),
                 [Firsts(h.node) EXCEPT ![n] = rec.first], attrs2, Live(h.attr))
    PROVE  Sound(h2, nodes2, attrs2) /\ NodeChange(h, n, rec, h2)
<1>1. /\ Typed(h2) /\ h2.attr = h.attr /\ h2.status = h.status
      /\ SameBut(h.node, h2.node, n) /\ h2.node[n] = rec
      /\ Nexts(h2.node) = [Nexts(h.node) EXCEPT ![n] = rec.next]
      /\ Firsts(h2.node) = [Firsts(h.node) EXCEPT ![n] = rec.first]
      /\ Subs(h2.attr) = Subs(h.attr)
  <2>1. Typed(h)
    BY DEF Sound
  <2>2. NodeChange(h, n, rec, h2)
    BY <2>1, NodeChanged, Zenon
  <2> QED
    BY <2>2 DEF NodeChange
<1>2. Live(h2.node) = IF rec.live THEN Live(h.node) \cup {n} ELSE Live(h.node) \ {n}
  <2> DEFINE s == h.node
             t == h2.node
  <2>1. SameBut(s, t, n) /\ t[n] = rec
    BY <1>1
  <2> HIDE DEF s, t
  <2>2. Live(t) = IF rec.live THEN Live(s) \cup {n} ELSE Live(s) \ {n}
    BY <2>1, LiveChanged
  <2> QED
    BY <2>2 DEF s, t
<1>3. Len(h2.node) = Len(h.node)
  BY <1>1 DEF SameBut
<1>4. DeadEmpty(h2)
  BY <1>1, <1>3 DEF Sound, DeadEmpty, SameBut
<1>5. NodeLists(h2, nodes2)
  BY <1>1, <1>2, <1>3, Zenon DEF NodeLists
<1>6. AttrLists(h2, attrs2)
  BY <1>1, <1>3, Zenon DEF AttrLists
<1> QED
  BY <1>1, <1>4, <1>5, <1>6 DEF Sound, NodeChange

LEMMA SoundAttr ==
    ASSUME NEW h, NEW nodes, NEW attrs, Sound(h, nodes, attrs),
           NEW a \in 1..Len(h.attr), NEW rec \in AttrRecord, ~rec.live => rec.node = Nil,
           rec.kind = "AST_NODE" <=> rec.node # Nil,
           NEW h2, h2 = PutAttr(h, a, rec),
           NEW nodes2, NEW attrs2,
           Lists(Len(h.attr), Len(h.node), [Nexts(h.attr) EXCEPT ![a] = rec.next],
                 Firsts(h.node), attrs2,
                 IF rec.live THEN Live(h.attr) \cup {a} ELSE Live(h.attr) \ {a}),
           Lists(Len(h.node), Len(h.attr), Nexts(h.node), [Subs(h.attr) EXCEPT ![a] = rec.node],
                 nodes2, Live(h.node))
    PROVE  Sound(h2, nodes2, attrs2) /\ AttrChange(h, a, rec, h2)
<1>1. /\ Typed(h2) /\ h2.node = h.node /\ h2.status = h.status
      /\ SameBut(h.attr, h2.attr, a) /\ h2.attr[a] = rec
      /\ Nexts(h2.attr) = [Nexts(h.attr) EXCEPT ![a] = rec.next]
      /\ Subs(h2.attr) = [Subs(h.attr) EXCEPT ![a] = rec.node]
      /\ Firsts(h2.node) = Firsts(h.node)
  <2>1. Typed(h)
    BY DEF Sound
  <2>2. AttrChange(h, a, rec, h2)
    BY <2>1, AttrChanged, Zenon
  <2> QED
    BY <2>2 DEF AttrChange
<1>2. Live(h2.attr) = IF rec.live THEN Live(h.attr) \cup {a} ELSE Live(h.attr) \ {a}
  <2> DEFINE s == h.attr
             t == h2.attr
  <2>1. SameBut(s, t, a) /\ t[a] = rec
    BY <1>1
  <2> HIDE DEF s, t
  <2>2. Live(t) = IF rec.live THEN Live(s) \cup {a} ELSE Live(s) \ {a}
    BY <2>1, LiveChanged
  <2> QED
    BY <2>2 DEF s, t
<1>3. Len(h2.attr) = Len(h.attr)
  BY <1>1 DEF SameBut
<1>4. DeadEmpty(h2)
  BY <1>1, <1>3 DEF Sound, DeadEmpty, SameBut
<1>5. AttrLists(h2, attrs2)
  BY <1>1, <1>2, <1>3, Zenon DEF AttrLists
<1>6. NodeLists(h2, nodes2)
  BY <1>1, <1>3, Zenon DEF NodeLists
<1> QED
  BY <1>1, <1>4, <1>5, <1>6 DEF Sound, AttrChange

\* What a sound heap says of a node or an attribute.
LEMMA NodeFacts ==
    ASSUME NEW h, NEW nodes, NEW attrs, Sound(h, nodes, attrs), NEW n \in nodes
    PROVE  /\ n \in 1..Len(h.node) /\ h.node[n] \in NodeRecord /\ h.node[n].live
           /\ Firsts(h.node)[n] = h.node[n].first /\ Nexts(h.node)[n] = h.node[n].next
           /\ n \in Live(h.node)
<1>1. n \in Live(h.node)
  BY DEF Sound, NodeLists, Lists
<1>2. n \in 1..Len(h.node) /\ h.node[n].live
  BY <1>1 DEF Live
<1>3. h.node[n] \in NodeRecord
  <2> DEFINE s == h.node
  <2>1. s \in Seq(NodeRecord)
    BY DEF Sound, Typed
  <2> HIDE DEF s
  <2>2. \A i \in 1..Len(s) : s[i] \in NodeRecord
    BY <2>1, ElementOfSeq
  <2> QED
    BY <1>2, <2>2 DEF s
<1> QED
  BY <1>1, <1>2, <1>3 DEF Firsts, Nexts

LEMMA AttrFacts ==
    ASSUME NEW h, NEW nodes, NEW attrs, Sound(h, nodes, attrs), NEW a \in Live(h.attr)
    PROVE  /\ a \in 1..Len(h.attr) /\ h.attr[a] \in AttrRecord /\ h.attr[a].live
           /\ h.attr[a].kind = "AST_NODE" <=> h.attr[a].node # Nil
           /\ Subs(h.attr)[a] = h.attr[a].node /\ Nexts(h.attr)[a] = h.attr[a].next
<1>2. a \in 1..Len(h.attr) /\ h.attr[a].live
  BY DEF Live
<1>3. h.attr[a] \in AttrRecord
  <2> DEFINE s == h.attr
  <2>1. s \in Seq(AttrRecord)
    BY DEF Sound, Typed
  <2> HIDE DEF s
  <2>2. \A i \in 1..Len(s) : s[i] \in AttrRecord
    BY <2>1, ElementOfSeq
  <2> QED
    BY <1>2, <2>2 DEF s
<1> QED
  BY <1>2, <1>3 DEF Subs, Nexts, Sound, Typed

LEMMA SameValue ==
    ASSUME NEW f, NEW D, NEW E, f \in [D -> E], NEW x \in D
    PROVE  [f EXCEPT ![x] = f[x]] = f
OBVIOUS

\* Setting one field of a live node: its other pointers and the set of live nodes stay.
LEMMA NodeKept ==
    ASSUME NEW h, NEW nodes, NEW attrs, Sound(h, nodes, attrs), NEW n \in Live(h.node)
    PROVE  /\ [Nexts(h.node) EXCEPT ![n] = h.node[n].next] = Nexts(h.node)
           /\ [Firsts(h.node) EXCEPT ![n] = h.node[n].first] = Firsts(h.node)
           /\ Live(h.node) \cup {n} = Live(h.node)
           /\ n \in 1..Len(h.node) /\ h.node[n] \in NodeRecord /\ h.node[n].live
<1>1. n \in 1..Len(h.node) /\ h.node[n].live
  BY DEF Live
<1>2. Nexts(h.node)[n] = h.node[n].next /\ Firsts(h.node)[n] = h.node[n].first
  BY <1>1 DEF Nexts, Firsts
<1>3. /\ Nexts(h.node) \in [1..Len(h.node) -> 0..Len(h.node)]
      /\ Firsts(h.node) \in [1..Len(h.node) -> 0..Len(h.attr)]
  BY DEF Sound, NodeLists, AttrLists, Lists
<1>4. [Nexts(h.node) EXCEPT ![n] = Nexts(h.node)[n]] = Nexts(h.node)
  BY <1>1, <1>3, SameValue
<1>5. [Firsts(h.node) EXCEPT ![n] = Firsts(h.node)[n]] = Firsts(h.node)
  BY <1>1, <1>3, SameValue
<1>6. h.node[n] \in NodeRecord
  <2> DEFINE s == h.node
  <2>1. s \in Seq(NodeRecord)
    BY DEF Sound, Typed
  <2> HIDE DEF s
  <2>2. \A i \in 1..Len(s) : s[i] \in NodeRecord
    BY <2>1, ElementOfSeq
  <2> QED
    BY <1>1, <2>2 DEF s
<1> QED
  BY <1>1, <1>2, <1>4, <1>5, <1>6

LEMMA AttrKept ==
    ASSUME NEW h, NEW nodes, NEW attrs, Sound(h, nodes, attrs), NEW a \in Live(h.attr)
    PROVE  /\ [Nexts(h.attr) EXCEPT ![a] = h.attr[a].next] = Nexts(h.attr)
           /\ [Subs(h.attr) EXCEPT ![a] = h.attr[a].node] = Subs(h.attr)
           /\ Live(h.attr) \cup {a} = Live(h.attr)
<1>1. a \in 1..Len(h.attr) /\ Nexts(h.attr)[a] = h.attr[a].next /\ Subs(h.attr)[a] = h.attr[a].node
  BY AttrFacts
<1>3. /\ Nexts(h.attr) \in [1..Len(h.attr) -> 0..Len(h.attr)]
      /\ Subs(h.attr) \in [1..Len(h.attr) -> 0..Len(h.node)]
  BY DEF Sound, NodeLists, AttrLists, Lists
<1>4. [Nexts(h.attr) EXCEPT ![a] = Nexts(h.attr)[a]] = Nexts(h.attr)
  BY <1>1, <1>3, SameValue
<1>5. [Subs(h.attr) EXCEPT ![a] = Subs(h.attr)[a]] = Subs(h.attr)
  BY <1>1, <1>3, SameValue
<1> QED
  BY <1>1, <1>4, <1>5

\* node->first_attr = a, for a node without attributes.
LEMMA FirstTaken ==
    ASSUME NEW h, NEW nodes, NEW attrs, Sound(h, nodes, attrs),
           NEW n \in nodes, NEW a \in attrs, h.node[n].first = Nil
    PROVE  LET rec == [h.node[n] EXCEPT !.first = a]
               h2  == PutNode(h, n, rec)
           IN  Sound(h2, nodes, attrs \ {a}) /\ NodeChange(h, n, rec, h2)
<1> DEFINE rec == [h.node[n] EXCEPT !.first = a]
           h2  == PutNode(h, n, rec)
           L == Len(h.node)
           M == Len(h.attr)
<1>1. /\ n \in 1..L /\ h.node[n] \in NodeRecord /\ h.node[n].live /\ n \in Live(h.node)
      /\ Firsts(h.node)[n] = Nil
  BY NodeFacts
<1>2. /\ [Nexts(h.node) EXCEPT ![n] = h.node[n].next] = Nexts(h.node)
      /\ Live(h.node) \cup {n} = Live(h.node)
  BY <1>1, NodeKept, Zenon
<1>3. /\ Lists(L, M, Nexts(h.node), Subs(h.attr), nodes, Live(h.node))
      /\ Lists(M, L, Nexts(h.attr), Firsts(h.node), attrs, Live(h.attr))
  BY DEF Sound, NodeLists, AttrLists
<1>4. a \in Nat
  BY <1>3 DEF Lists
<1>5. rec \in NodeRecord /\ rec.first = a /\ rec.live /\ rec.next = h.node[n].next
  BY <1>1, <1>4 DEF NodeRecord
<1> HIDE DEF L, M, rec
<1>6. Lists(M, L, Nexts(h.attr), [Firsts(h.node) EXCEPT ![n] = a], attrs \ {a}, Live(h.attr))
  BY <1>1, <1>3, ListsTake, Zenon
<1>7. Lists(L, M, [Nexts(h.node) EXCEPT ![n] = rec.next], Subs(h.attr), nodes,
            IF rec.live THEN Live(h.node) \cup {n} ELSE Live(h.node) \ {n})
  BY <1>2, <1>3, <1>5
<1>8. Sound(h2, nodes, attrs \ {a}) /\ NodeChange(h, n, rec, h2)
  BY <1>1, <1>5, <1>6, <1>7, SoundNode, Zenon DEF L, M
<1> QED
  BY <1>8 DEF rec

\* node->first_attr = NULL: the caller has the attributes.
LEMMA FirstReleased ==
    ASSUME NEW h, NEW nodes, NEW attrs, Sound(h, nodes, attrs),
           NEW n \in nodes, h.node[n].first # Nil
    PROVE  LET rec == [h.node[n] EXCEPT !.first = Nil]
               h2  == PutNode(h, n, rec)
           IN  Sound(h2, nodes, attrs \cup {h.node[n].first}) /\ NodeChange(h, n, rec, h2)
<1> DEFINE rec == [h.node[n] EXCEPT !.first = Nil]
           h2  == PutNode(h, n, rec)
           a == h.node[n].first
           L == Len(h.node)
           M == Len(h.attr)
<1>1. /\ n \in 1..L /\ h.node[n] \in NodeRecord /\ h.node[n].live /\ n \in Live(h.node)
      /\ Firsts(h.node)[n] = a /\ a # Nil
  BY NodeFacts
<1>2. /\ [Nexts(h.node) EXCEPT ![n] = h.node[n].next] = Nexts(h.node)
      /\ Live(h.node) \cup {n} = Live(h.node)
  BY <1>1, NodeKept, Zenon
<1>3. /\ Lists(L, M, Nexts(h.node), Subs(h.attr), nodes, Live(h.node))
      /\ Lists(M, L, Nexts(h.attr), Firsts(h.node), attrs, Live(h.attr))
  BY DEF Sound, NodeLists, AttrLists
<1>4. Nil \in Nat
  BY DEF Nil
<1>5. rec \in NodeRecord /\ rec.first = Nil /\ rec.live /\ rec.next = h.node[n].next
  BY <1>1, <1>4 DEF NodeRecord
<1> HIDE DEF L, M, rec, a
<1>6. Lists(M, L, Nexts(h.attr), [Firsts(h.node) EXCEPT ![n] = Nil], attrs \cup {a}, Live(h.attr))
  <2>1. Firsts(h.node)[n] # Nil
    BY <1>1
  <2>2. Lists(M, L, Nexts(h.attr), [Firsts(h.node) EXCEPT ![n] = Nil],
              attrs \cup {Firsts(h.node)[n]}, Live(h.attr))
    BY <1>1, <1>3, <2>1, ListsRelease, Zenon
  <2> QED
    BY <1>1, <2>2
<1>7. Lists(L, M, [Nexts(h.node) EXCEPT ![n] = rec.next], Subs(h.attr), nodes,
            IF rec.live THEN Live(h.node) \cup {n} ELSE Live(h.node) \ {n})
  BY <1>2, <1>3, <1>5
<1>8. Sound(h2, nodes, attrs \cup {a}) /\ NodeChange(h, n, rec, h2)
  BY <1>1, <1>5, <1>6, <1>7, SoundNode, Zenon DEF L, M
<1> QED
  BY <1>8 DEF rec, a

\* free of a node that points to nothing.
LEMMA NodeFreed ==
    ASSUME NEW h, NEW nodes, NEW attrs, Sound(h, nodes, attrs),
           NEW n \in nodes, h.node[n].first = Nil, h.node[n].next = Nil
    PROVE  LET rec == [h.node[n] EXCEPT !.live = FALSE]
               h2  == PutNode(h, n, rec)
           IN  Sound(h2, nodes \ {n}, attrs) /\ NodeChange(h, n, rec, h2)
<1> DEFINE rec == [h.node[n] EXCEPT !.live = FALSE]
           h2  == PutNode(h, n, rec)
           L == Len(h.node)
           M == Len(h.attr)
<1>1. /\ n \in 1..L /\ h.node[n] \in NodeRecord /\ n \in Live(h.node)
      /\ Nexts(h.node)[n] = Nil
  BY NodeFacts
<1>2. /\ [Nexts(h.node) EXCEPT ![n] = h.node[n].next] = Nexts(h.node)
      /\ [Firsts(h.node) EXCEPT ![n] = h.node[n].first] = Firsts(h.node)
  BY <1>1, NodeKept, Zenon
<1>3. /\ Lists(L, M, Nexts(h.node), Subs(h.attr), nodes, Live(h.node))
      /\ Lists(M, L, Nexts(h.attr), Firsts(h.node), attrs, Live(h.attr))
  BY DEF Sound, NodeLists, AttrLists
<1>5. /\ rec \in NodeRecord /\ ~rec.live /\ rec.first = Nil
      /\ rec.first = h.node[n].first /\ rec.next = h.node[n].next
  BY <1>1 DEF NodeRecord
<1> HIDE DEF L, M, rec
<1>6. Lists(L, M, Nexts(h.node), Subs(h.attr), nodes \ {n}, Live(h.node) \ {n})
  BY <1>1, <1>3, ListsFree, Zenon
<1>7. Lists(L, M, [Nexts(h.node) EXCEPT ![n] = rec.next], Subs(h.attr), nodes \ {n},
            IF rec.live THEN Live(h.node) \cup {n} ELSE Live(h.node) \ {n})
  BY <1>2, <1>5, <1>6
<1>8. Lists(M, L, Nexts(h.attr), [Firsts(h.node) EXCEPT ![n] = rec.first], attrs, Live(h.attr))
  BY <1>2, <1>3, <1>5
<1>9. Sound(h2, nodes \ {n}, attrs) /\ NodeChange(h, n, rec, h2)
  BY <1>1, <1>5, <1>7, <1>8, SoundNode, Zenon DEF L, M
<1> QED
  BY <1>9 DEF rec

\* free of an attribute that points to nothing.
LEMMA AttrFreed ==
    ASSUME NEW h, NEW nodes, NEW attrs, Sound(h, nodes, attrs),
           NEW a \in attrs, h.attr[a].node = Nil, h.attr[a].next = Nil
    PROVE  LET rec == [h.attr[a] EXCEPT !.live = FALSE]
               h2  == PutAttr(h, a, rec)
           IN  Sound(h2, nodes, attrs \ {a}) /\ AttrChange(h, a, rec, h2)
<1> DEFINE rec == [h.attr[a] EXCEPT !.live = FALSE]
           h2  == PutAttr(h, a, rec)
           L == Len(h.attr)
           M == Len(h.node)
<1>0. a \in Live(h.attr)
  BY DEF Sound, AttrLists, Lists
<1>1. /\ a \in 1..L /\ h.attr[a] \in AttrRecord
      /\ Nexts(h.attr)[a] = Nil
      /\ h.attr[a].kind = "AST_NODE" <=> h.attr[a].node # Nil
  BY <1>0, AttrFacts
<1>2. /\ [Nexts(h.attr) EXCEPT ![a] = h.attr[a].next] = Nexts(h.attr)
      /\ [Subs(h.attr) EXCEPT ![a] = h.attr[a].node] = Subs(h.attr)
  BY <1>0, AttrKept, Zenon
<1>3. /\ Lists(L, M, Nexts(h.attr), Firsts(h.node), attrs, Live(h.attr))
      /\ Lists(M, L, Nexts(h.node), Subs(h.attr), nodes, Live(h.node))
  BY DEF Sound, NodeLists, AttrLists
<1>5. /\ rec \in AttrRecord /\ ~rec.live /\ rec.node = Nil /\ rec.kind = h.attr[a].kind
      /\ rec.node = h.attr[a].node /\ rec.next = h.attr[a].next
  BY <1>1 DEF AttrRecord
<1> HIDE DEF L, M, rec
<1>6. Lists(L, M, Nexts(h.attr), Firsts(h.node), attrs \ {a}, Live(h.attr) \ {a})
  BY <1>1, <1>3, ListsFree, Zenon
<1>7. Lists(L, M, [Nexts(h.attr) EXCEPT ![a] = rec.next], Firsts(h.node), attrs \ {a},
            IF rec.live THEN Live(h.attr) \cup {a} ELSE Live(h.attr) \ {a})
  BY <1>2, <1>5, <1>6
<1>8. Lists(M, L, Nexts(h.node), [Subs(h.attr) EXCEPT ![a] = rec.node], nodes, Live(h.node))
  BY <1>2, <1>3, <1>5
<1>9. rec.kind = "AST_NODE" <=> rec.node # Nil
  BY <1>1, <1>5
<1>10. Sound(h2, nodes, attrs \ {a}) /\ AttrChange(h, a, rec, h2)
  BY <1>1, <1>5, <1>7, <1>8, <1>9, SoundAttr, Zenon DEF L, M
<1> QED
  BY <1>10 DEF rec

\* The last element of the list that starts at p.
TailOf(objs, p) == Last(Chain(objs, p))

\* LL_CONCAT behind head, for a root and for a list that starts at head.
LEMMA TailJoin ==
    ASSUME NEW L, NEW M, NEW next, NEW from, NEW roots, NEW live,
           Lists(L, M, next, from, roots, live),
           NEW objs, LinkedBy(objs, next, L), NEW head \in live, Unlinked(next, L, head),
           NEW r \in roots, head # r
    PROVE  /\ TailOf(objs, head) \in live /\ next[TailOf(objs, head)] = Nil
           /\ Lists(L, M, [next EXCEPT ![TailOf(objs, head)] = r], from, roots \ {r}, live)
<1> DEFINE e == TailOf(objs, head)
<1>1. PICK f \in [0..L -> Seq(1..L)] : Walk(next, L, f)
  BY DEF Lists, Ending
<1>2. L \in Nat /\ next \in [1..L -> 0..L] /\ head \in 0..L
  <2>1. L \in Nat /\ next \in [1..L -> 0..L] /\ live \subseteq 1..L
    BY DEF Lists
  <2> QED
    BY <2>1
<1>3. Chain(objs, head) = f[head]
  BY <1>1, <1>2, ChainIs, Zenon
<1>4. EndOf(f, head, e)
  BY <1>3 DEF TailOf, Last, EndOf
<1> HIDE DEF e
<1>5. e \in live /\ next[e] = Nil /\ Lists(L, M, [next EXCEPT ![e] = r], from, roots \ {r}, live)
  BY <1>1, <1>4, ListsJoin, Zenon
<1> QED
  BY <1>5 DEF e

LEMMA AttrLinked ==
    ASSUME NEW h, NEW nodes, NEW attrs, Sound(h, nodes, attrs),
           NEW head \in Live(h.attr), Unlinked(Nexts(h.attr), Len(h.attr), head),
           NEW a \in attrs, head # a
    PROVE  LET e   == TailOf(h.attr, head)
               rec == [h.attr[e] EXCEPT !.next = a]
               h2  == PutAttr(h, e, rec)
           IN  /\ Sound(h2, nodes, attrs \ {a}) /\ AttrChange(h, e, rec, h2)
               /\ e \in Live(h.attr) /\ h.attr[e].next = Nil
<1> DEFINE e == TailOf(h.attr, head)
           rec == [h.attr[e] EXCEPT !.next = a]
           h2 == PutAttr(h, e, rec)
           L == Len(h.attr)
           M == Len(h.node)
<1>1. /\ Lists(L, M, Nexts(h.attr), Firsts(h.node), attrs, Live(h.attr))
      /\ Lists(M, L, Nexts(h.node), Subs(h.attr), nodes, Live(h.node))
  BY DEF Sound, NodeLists, AttrLists
<1>2. LinkedBy(h.attr, Nexts(h.attr), L) /\ a \in Nat
  BY <1>1 DEF LinkedBy, Lists
<1>3. /\ e \in Live(h.attr) /\ Nexts(h.attr)[e] = Nil
      /\ Lists(L, M, [Nexts(h.attr) EXCEPT ![e] = a], Firsts(h.node), attrs \ {a}, Live(h.attr))
  BY <1>1, <1>2, TailJoin, Zenon
<1> HIDE DEF e, L, M
<1>4. /\ e \in 1..L /\ h.attr[e] \in AttrRecord /\ h.attr[e].live
      /\ Nexts(h.attr)[e] = h.attr[e].next
      /\ h.attr[e].kind = "AST_NODE" <=> h.attr[e].node # Nil
  BY <1>3, AttrFacts, Zenon DEF L
<1>5. /\ rec \in AttrRecord /\ rec.live /\ rec.next = a
      /\ rec.kind = h.attr[e].kind /\ rec.node = h.attr[e].node
  BY <1>2, <1>4 DEF AttrRecord
<1> HIDE DEF rec
<1>6. /\ [Subs(h.attr) EXCEPT ![e] = h.attr[e].node] = Subs(h.attr)
      /\ Live(h.attr) \cup {e} = Live(h.attr)
  BY <1>3, AttrKept, Zenon
<1>7. Lists(L, M, [Nexts(h.attr) EXCEPT ![e] = rec.next], Firsts(h.node), attrs \ {a},
            IF rec.live THEN Live(h.attr) \cup {e} ELSE Live(h.attr) \ {e})
  BY <1>3, <1>5, <1>6
<1>8. Lists(M, L, Nexts(h.node), [Subs(h.attr) EXCEPT ![e] = rec.node], nodes, Live(h.node))
  BY <1>1, <1>5, <1>6
<1>9. rec.kind = "AST_NODE" <=> rec.node # Nil
  BY <1>4, <1>5
<1>10. Sound(h2, nodes, attrs \ {a}) /\ AttrChange(h, e, rec, h2)
  BY <1>4, <1>5, <1>7, <1>8, <1>9, SoundAttr, Zenon DEF L, M
<1> QED
  BY <1>3, <1>4, <1>10 DEF rec, e

LEMMA NodeLinked ==
    ASSUME NEW h, NEW nodes, NEW attrs, Sound(h, nodes, attrs),
           NEW head \in Live(h.node), Unlinked(Nexts(h.node), Len(h.node), head),
           NEW n \in nodes, head # n
    PROVE  LET e   == TailOf(h.node, head)
               rec == [h.node[e] EXCEPT !.next = n]
               h2  == PutNode(h, e, rec)
           IN  Sound(h2, nodes \ {n}, attrs) /\ NodeChange(h, e, rec, h2) /\ e \in Live(h.node)
<1> DEFINE e == TailOf(h.node, head)
           rec == [h.node[e] EXCEPT !.next = n]
           h2 == PutNode(h, e, rec)
           L == Len(h.node)
           M == Len(h.attr)
<1>1. /\ Lists(M, L, Nexts(h.attr), Firsts(h.node), attrs, Live(h.attr))
      /\ Lists(L, M, Nexts(h.node), Subs(h.attr), nodes, Live(h.node))
  BY DEF Sound, NodeLists, AttrLists
<1>2. LinkedBy(h.node, Nexts(h.node), L) /\ n \in Nat
  BY <1>1 DEF LinkedBy, Lists
<1>3. /\ e \in Live(h.node) /\ Nexts(h.node)[e] = Nil
      /\ Lists(L, M, [Nexts(h.node) EXCEPT ![e] = n], Subs(h.attr), nodes \ {n}, Live(h.node))
  BY <1>1, <1>2, TailJoin, Zenon
<1> HIDE DEF e, L, M
<1>4. /\ [Firsts(h.node) EXCEPT ![e] = h.node[e].first] = Firsts(h.node)
      /\ Live(h.node) \cup {e} = Live(h.node)
      /\ e \in 1..L /\ h.node[e] \in NodeRecord /\ h.node[e].live
  BY <1>3, NodeKept, Zenon DEF L
<1>5. rec \in NodeRecord /\ rec.live /\ rec.next = n /\ rec.first = h.node[e].first
  BY <1>2, <1>4 DEF NodeRecord
<1> HIDE DEF rec
<1>6. Lists(L, M, [Nexts(h.node) EXCEPT ![e] = rec.next], Subs(h.attr), nodes \ {n},
            IF rec.live THEN Live(h.node) \cup {e} ELSE Live(h.node) \ {e})
  BY <1>3, <1>4, <1>5
<1>7. Lists(M, L, Nexts(h.attr), [Firsts(h.node) EXCEPT ![e] = rec.first], attrs, Live(h.attr))
  BY <1>1, <1>4, <1>5
<1>8. Sound(h2, nodes \ {n}, attrs) /\ NodeChange(h, e, rec, h2)
  BY <1>4, <1>5, <1>6, <1>7, SoundNode, Zenon DEF L, M
<1> QED
  BY <1>3, <1>8 DEF rec, e

-----------------------------------------------------------------------------
(* The functions of ast.c *)

\* ast_node_get_attr answers NULL or an attribute.
LEMMA GetAttr ==
    ASSUME NEW h, NEW nodes, NEW attrs, Sound(h, nodes, attrs), NEW n \in nodes, NEW key
    PROVE  ast_node_get_attr(h, n, key) \in {Nil} \cup 1..Len(h.attr)
<1> DEFINE L == Len(h.attr)
           M == Len(h.node)
           list == Attrs(h, n)
           S == Matches(h, n, key)
<1>1. Lists(L, M, Nexts(h.attr), Firsts(h.node), attrs, Live(h.attr))
  BY DEF Sound, AttrLists
<1>2. PICK f \in [0..L -> Seq(1..L)] : Walk(Nexts(h.attr), L, f)
  BY <1>1 DEF Lists, Ending
<1>3. L \in Nat /\ Nexts(h.attr) \in [1..L -> 0..L] /\ LinkedBy(h.attr, Nexts(h.attr), L)
  BY <1>1 DEF Lists, LinkedBy
<1>4. h.node[n].first \in 0..L
  <2>1. n \in 1..M /\ Firsts(h.node)[n] = h.node[n].first
    BY NodeFacts
  <2>2. Firsts(h.node) \in [1..M -> 0..L]
    BY <1>1 DEF Lists
  <2> QED
    BY <2>1, <2>2
<1>5. list = f[h.node[n].first]
  BY <1>2, <1>3, <1>4, ChainIs, Zenon DEF Attrs
<1>6. list \in Seq(1..L)
  BY <1>4, <1>5
<1>7. S \subseteq DOMAIN list
  BY DEF Matches
<1> HIDE DEF list, S, L
<1>8. DOMAIN list = 1..Len(list) /\ Len(list) \in Nat /\ \A i \in 1..Len(list) : list[i] \in 1..L
  BY <1>6, LenProperties, ElementOfSeq
<1>9. CASE S = {}
  BY <1>9 DEF ast_node_get_attr, S
<1>10. CASE S # {}
  <2>1. S \subseteq Nat
    BY <1>7, <1>8
  <2>2. \E k \in S : \A j \in S : k <= j
    BY <1>10, <2>1, LeastNumber
  <2>3. Min(S) \in S
    BY <2>2 DEF Min
  <2>4. list[Min(S)] \in 1..L
    BY <1>7, <1>8, <2>3
  <2>5. ast_node_get_attr(h, n, key) = list[Min(S)]
    BY <1>10 DEF ast_node_get_attr, S, list
  <2> QED
    BY <2>4, <2>5 DEF L
<1> QED
  BY <1>9, <1>10

\* What a call leaves: the types hold, nothing is taken away, and if it returns the
\* heap is sound for what the caller then holds.
Outcome(h, h2, nodes, attrs) ==
    /\ Typed(h2) /\ Len(h.node) <= Len(h2.node) /\ Len(h.attr) <= Len(h2.attr)
    /\ Running(h2) => Sound(h2, nodes, attrs)

LEMMA Stopped ==
    ASSUME NEW h, NEW nodes, NEW attrs, NEW h1, Outcome(h, h1, nodes, attrs),
           NEW nodes2, NEW attrs2
    PROVE  Outcome(h, Abort(h1), nodes2, attrs2) /\ Outcome(h, Undefined(h1), nodes2, attrs2)
<1>1. ~Running(Abort(h1)) /\ ~Running(Undefined(h1))
  BY DEF Outcome, Typed, Abort, Undefined, Running
<1>2. Abort(h1).node = h1.node /\ Abort(h1).attr = h1.attr /\ Undefined(h1).node = h1.node
      /\ Undefined(h1).attr = h1.attr
  BY DEF Outcome, Typed, Abort, Undefined
<1>3. Typed(Abort(h1)) /\ Typed(Undefined(h1))
  <2>1. Typed(h1)
    BY DEF Outcome
  <2> QED
    BY <1>2, <2>1 DEF Typed, Abort, Undefined
<1> QED
  BY <1>1, <1>2, <1>3 DEF Outcome

LEMMA Same ==
    ASSUME NEW h, NEW nodes, NEW attrs, Sound(h, nodes, attrs)
    PROVE  Outcome(h, h, nodes, attrs)
<1>1. Len(h.node) \in Nat /\ Len(h.attr) \in Nat
  BY DEF Sound, NodeLists, Lists
<1> QED
  BY <1>1 DEF Outcome, Sound

LEMMA AfterNodeChange ==
    ASSUME NEW h, NEW nodes, NEW attrs, NEW n, NEW rec, NEW h2,
           Sound(h2, nodes, attrs), NodeChange(h, n, rec, h2)
    PROVE  Outcome(h, h2, nodes, attrs) /\ h2.status = h.status
<1>1. Len(h2.node) \in Nat /\ Len(h2.attr) \in Nat
  BY DEF Sound, NodeLists, Lists
<1> QED
  BY <1>1 DEF Outcome, Sound, NodeChange, SameBut

LEMMA AfterAttrChange ==
    ASSUME NEW h, NEW nodes, NEW attrs, NEW a, NEW rec, NEW h2,
           Sound(h2, nodes, attrs), AttrChange(h, a, rec, h2)
    PROVE  Outcome(h, h2, nodes, attrs) /\ h2.status = h.status
<1>1. Len(h2.node) \in Nat /\ Len(h2.attr) \in Nat
  BY DEF Sound, NodeLists, Lists
<1> QED
  BY <1>1 DEF Outcome, Sound, AttrChange, SameBut

LEMMA OneAfterAnother ==
    ASSUME NEW h, NEW h1, NEW h2, NEW nodes1, NEW attrs1, NEW nodes, NEW attrs,
           NEW nodes0, NEW attrs0, Sound(h, nodes0, attrs0),
           Outcome(h, h1, nodes1, attrs1), Outcome(h1, h2, nodes, attrs)
    PROVE  Outcome(h, h2, nodes, attrs)
<1>1. /\ Len(h.node) \in Nat /\ Len(h1.node) \in Nat /\ Len(h2.node) \in Nat
      /\ Len(h.attr) \in Nat /\ Len(h1.attr) \in Nat /\ Len(h2.attr) \in Nat
  BY LenProperties DEF Outcome, Sound, Typed
<1> QED
  BY <1>1 DEF Outcome

LEMMA CreateNodeOutcome ==
    ASSUME NEW h, NEW nodes, NEW attrs, Sound(h, nodes, attrs), NEW type \in Type
    PROVE  LET h2 == ast_node_create(h, type)
           IN  Outcome(h, h2, nodes \cup {NewNode(h2)}, attrs)
<1> DEFINE rec == [type |-> type, first |-> Nil, next |-> Nil, live |-> TRUE]
           h2  == ast_node_create(h, type)
<1>1. h2 = [h EXCEPT !.node = Append(@, rec)]
  BY DEF ast_node_create
<1>2. rec \in NodeRecord /\ rec.live /\ rec.next = Nil /\ rec.first = Nil
  BY DEF NodeRecord, Nil
<1> HIDE DEF rec, h2
<1>3. /\ Sound(h2, nodes \cup {Len(h.node) + 1}, attrs)
      /\ Len(h2.node) = Len(h.node) + 1 /\ h2.attr = h.attr
  BY <1>1, <1>2, NodeAdded
<1>4. Len(h.node) \in Nat /\ Len(h.attr) \in Nat
  BY DEF Sound, NodeLists, Lists
<1>5. Outcome(h, h2, nodes \cup {NewNode(h2)}, attrs)
  BY <1>3, <1>4 DEF Outcome, Sound, NewNode
<1> QED
  BY <1>5 DEF h2

\* The attribute the caller gets stands alone.
Created(h, h2, nodes, attrs) ==
    /\ Sound(h2, nodes, attrs \cup {NewAttr(h2)}) /\ h2.status = h.status
    /\ NewAttr(h2) \in 1..Len(h2.attr) /\ h2.attr[NewAttr(h2)].next = Nil
    /\ Len(h.attr) \in Nat /\ Len(h2.attr) = Len(h.attr) + 1 /\ Len(h.node) <= Len(h2.node)

LEMMA CreateAttr ==
    ASSUME NEW h, NEW nodes, NEW attrs, Sound(h, nodes, attrs),
           NEW key \in Key, NEW kind \in AttrKind, NEW text \in Word \cup {NoText, Shared},
           NEW node \in nodes \cup {Nil}, kind = "AST_NODE" <=> node # Nil
    PROVE  Created(h, create_attr(h, key, kind, text, node), nodes \ {node}, attrs)
<1> DEFINE rec == [key |-> key, kind |-> kind, text |-> text, node |-> node,
                   next |-> Nil, live |-> TRUE]
           h2  == create_attr(h, key, kind, text, node)
<1>1. h2 = AddAttr(h, rec)
  BY DEF create_attr, AddAttr
<1>2. node \in Nat /\ Len(h.node) \in Nat /\ Len(h.attr) \in Nat
  BY DEF Sound, NodeLists, Lists, Nil
<1>3. /\ rec \in AttrRecord /\ rec.live /\ rec.next = Nil /\ rec.node = node
      /\ rec.kind = kind
  BY <1>2 DEF AttrRecord, Nil
<1> HIDE DEF rec, h2
<1>4. AttrGrown(h, rec, h2, nodes, attrs)
  <2>1. FreshAttr(rec) /\ rec.node \in nodes \cup {Nil}
    BY <1>3 DEF FreshAttr
  <2> QED
    BY <1>1, <2>1, AttrAdded, Zenon
<1>5. Created(h, h2, nodes \ {node}, attrs)
  BY <1>2, <1>3, <1>4 DEF Created, NewAttr, AttrGrown
<1> QED
  BY <1>5 DEF h2

LEMMA CellChanged ==
    ASSUME NEW h, NEW nodes, NEW attrs, Sound(h, nodes, attrs), NEW val \in Word
    PROVE  Sound([h EXCEPT !.cell = val], nodes, attrs)
<1> DEFINE h2 == [h EXCEPT !.cell = val]
<1>1. h2.node = h.node /\ h2.attr = h.attr
  BY DEF Sound, Typed
<1>2. Typed(h2)
  BY <1>1 DEF Sound, Typed
<1> HIDE DEF h2
<1>3. Sound(h2, nodes, attrs)
  BY <1>1, <1>2 DEF Sound, NodeLists, AttrLists, DeadEmpty
<1> QED
  BY <1>3 DEF h2

\* The three functions that make an attribute for a text.
LEMMA CreateText3 ==
    ASSUME NEW h, NEW nodes, NEW attrs, Sound(h, nodes, attrs), NEW key \in Key, NEW val \in Word
    PROVE  /\ Created(h, ast_node_attr_create_str(h, key, val), nodes, attrs)
           /\ Created(h, ast_node_attr_create_const_str(h, key, val), nodes, attrs)
           /\ Created(h, ast_node_attr_create_integer(h, key, val), nodes, attrs)
<1>0. nodes \ {Nil} = nodes
  BY DEF Sound, NodeLists, Lists, Nil
<1>1. ASSUME NEW kind \in {"STRING", "CONST_STRING", "INTEGER"},
             NEW text \in Word \cup {NoText, Shared}
      PROVE  Created(h, create_attr(h, key, kind, text, Nil), nodes, attrs)
  <2>1. kind \in AttrKind /\ Nil \in nodes \cup {Nil} /\ ~(kind = "AST_NODE")
    BY DEF AttrKind
  <2>2. Created(h, create_attr(h, key, kind, text, Nil), nodes \ {Nil}, attrs)
    BY <2>1, CreateAttr
  <2> QED
    BY <1>0, <2>2
<1>2. Created(h, ast_node_attr_create_str(h, key, val), nodes, attrs)
  BY <1>1 DEF ast_node_attr_create_str
<1>3. Created(h, ast_node_attr_create_const_str(h, key, val), nodes, attrs)
  BY <1>1 DEF ast_node_attr_create_const_str
<1>4. Created(h, ast_node_attr_create_integer(h, key, val), nodes, attrs)
  <2> DEFINE h1 == create_attr(h, key, "INTEGER", Shared, Nil)
             h2 == [h1 EXCEPT !.cell = val]
  <2>1. Created(h, h1, nodes, attrs)
    BY <1>1
  <2> HIDE DEF h1
  <2>2. h2.node = h1.node /\ h2.attr = h1.attr /\ h2.status = h1.status
    BY <2>1 DEF Created, Sound, Typed
  <2>3. Sound(h2, nodes, attrs \cup {NewAttr(h1)})
    BY <2>1, CellChanged DEF Created
  <2> HIDE DEF h2
  <2>4. Created(h, h2, nodes, attrs)
    BY <2>1, <2>2, <2>3 DEF Created, NewAttr
  <2> QED
    BY <2>4 DEF h1, h2, ast_node_attr_create_integer
<1> QED
  BY <1>2, <1>3, <1>4

LEMMA CreatedOutcome ==
    ASSUME NEW h, NEW h2, NEW nodes, NEW attrs, Created(h, h2, nodes, attrs)
    PROVE  Outcome(h, h2, nodes, attrs \cup {NewAttr(h2)})
BY DEF Created, Outcome, Sound

\* The first attribute of a node has no other pointer to it.
LEMMA FirstApart ==
    ASSUME NEW h, NEW nodes, NEW attrs, Sound(h, nodes, attrs),
           NEW n \in nodes, h.node[n].first # Nil
    PROVE  /\ h.node[n].first \in Live(h.attr)
           /\ Unlinked(Nexts(h.attr), Len(h.attr), h.node[n].first)
           /\ h.node[n].first \notin attrs
<1> DEFINE first == h.node[n].first
           L == Len(h.attr)
           M == Len(h.node)
<1>1. n \in 1..M /\ Firsts(h.node)[n] = first
  BY NodeFacts
<1>2. Lists(L, M, Nexts(h.attr), Firsts(h.node), attrs, Live(h.attr))
  BY DEF Sound, AttrLists
<1>3. first # Nil
  OBVIOUS
<1> HIDE DEF first, L, M
<1>4. first \in Live(h.attr) /\ first \notin attrs
  BY <1>1, <1>2, <1>3 DEF Lists, Apart
<1>5. \A x \in 1..L : Nexts(h.attr)[x] # first
  BY <1>1, <1>2, <1>3 DEF Lists, Apart
<1> QED
  BY <1>4, <1>5 DEF first, L, Unlinked

\* As FirstApart, for the first node of an attribute.
LEMMA SubApart ==
    ASSUME NEW h, NEW nodes, NEW attrs, Sound(h, nodes, attrs),
           NEW a \in 1..Len(h.attr), h.attr[a].node # Nil
    PROVE  /\ h.attr[a].node \in Live(h.node)
           /\ Unlinked(Nexts(h.node), Len(h.node), h.attr[a].node)
           /\ h.attr[a].node \notin nodes
<1> DEFINE sub == h.attr[a].node
           L == Len(h.node)
           M == Len(h.attr)
<1>1. a \in 1..M /\ Subs(h.attr)[a] = sub
  BY DEF Subs
<1>2. Lists(L, M, Nexts(h.node), Subs(h.attr), nodes, Live(h.node))
  BY DEF Sound, NodeLists
<1>3. sub # Nil
  OBVIOUS
<1> HIDE DEF sub, L, M
<1>4. sub \in Live(h.node) /\ sub \notin nodes
  BY <1>1, <1>2, <1>3 DEF Lists, Apart
<1>5. \A x \in 1..L : Nexts(h.node)[x] # sub
  BY <1>1, <1>2, <1>3 DEF Lists, Apart
<1> QED
  BY <1>4, <1>5 DEF sub, L, Unlinked

LEMMA NextStaysNil ==
    ASSUME NEW R, NEW objs \in Seq(R), NEW p \in 1..Len(objs), objs[p].next = Nil,
           objs[p] = [objs[p] EXCEPT !.next = objs[p].next]
    PROVE  [objs EXCEPT ![p].next = Nil] = objs
<1>1. [objs[p] EXCEPT !.next = Nil] = objs[p]
  OBVIOUS
<1>2. [objs EXCEPT ![p].next = Nil] = [objs EXCEPT ![p] = [objs[p] EXCEPT !.next = Nil]]
  OBVIOUS
<1>3. [objs EXCEPT ![p] = objs[p]] = objs
  OBVIOUS
<1> QED
  BY <1>1, <1>2, <1>3

\* The list that starts at a is put behind the attributes of n.
Joined(h, n, a) ==
    LET list == LL_CONCAT(h.attr, h.node[n].first, a)
    IN  [h EXCEPT !.attr = list.objs, !.node[n].first = list.head]

\* To a node without attributes it is given as the first.
LEMMA JoinedFirst ==
    ASSUME NEW h, NEW nodes, NEW attrs, Sound(h, nodes, attrs), NEW n \in nodes, NEW a \in attrs,
           h.node[n].first = Nil
    PROVE  LET rec == [h.node[n] EXCEPT !.first = a]
               h2  == Joined(h, n, a)
           IN  Sound(h2, nodes, attrs \ {a}) /\ NodeChange(h, n, rec, h2)
<1> DEFINE rec == [h.node[n] EXCEPT !.first = a]
           h2 == Joined(h, n, a)
<1>1. h2 = [h EXCEPT !.attr = h.attr, !.node[n].first = a]
  BY DEF LL_CONCAT, Joined
<1>2. h2 = PutNode(h, n, rec)
  BY <1>1 DEF PutNode, Sound, Typed
<1>3. Sound(PutNode(h, n, rec), nodes, attrs \ {a}) /\ NodeChange(h, n, rec, PutNode(h, n, rec))
  BY FirstTaken
<1> HIDE DEF h2, rec
<1>4. Sound(h2, nodes, attrs \ {a}) /\ NodeChange(h, n, rec, h2)
  BY <1>2, <1>3
<1> QED
  BY <1>4 DEF h2, rec

\* Otherwise the last attribute points to it.
LEMMA JoinedLast ==
    ASSUME NEW h, NEW nodes, NEW attrs, Sound(h, nodes, attrs), NEW n \in nodes, NEW a \in attrs,
           h.node[n].first # Nil
    PROVE  LET e   == TailOf(h.attr, h.node[n].first)
               rec == [h.attr[e] EXCEPT !.next = a]
               h2  == Joined(h, n, a)
           IN  Sound(h2, nodes, attrs \ {a}) /\ AttrChange(h, e, rec, h2) /\ e \in Live(h.attr)
<1> DEFINE first == h.node[n].first
           e == TailOf(h.attr, first)
           rec == [h.attr[e] EXCEPT !.next = a]
           h2 == Joined(h, n, a)
<1>1. n \in 1..Len(h.node) /\ h.attr \in Seq(AttrRecord) /\ h.node \in Seq(NodeRecord)
  BY NodeFacts DEF Sound, Typed
<1>2. h2 = [h EXCEPT !.attr = [h.attr EXCEPT ![e].next = a], !.node[n].first = first]
  BY DEF LL_CONCAT, TailOf, Joined
<1>3. [h.node EXCEPT ![n].first = first] = h.node
  <2>1. h.node[n] = [h.node[n] EXCEPT !.first = first]
    BY NodeFacts DEF NodeRecord
  <2>2. [h.node EXCEPT ![n] = h.node[n]] = h.node
    BY <1>1
  <2>3. [h.node EXCEPT ![n].first = first]
        = [h.node EXCEPT ![n] = [h.node[n] EXCEPT !.first = first]]
    BY <1>1
  <2> QED
    BY <2>1, <2>2, <2>3
<1>4. h2 = PutAttr(h, e, rec)
  <2>1. h2 = [h EXCEPT !.attr = [h.attr EXCEPT ![e].next = a],
                       !.node = [h.node EXCEPT ![n].first = first]]
    BY <1>2
  <2> HIDE DEF e, h2, first
  <2>2. h2 = [h EXCEPT !.attr = [h.attr EXCEPT ![e].next = a]]
    BY <1>3, <2>1 DEF Sound, Typed
  <2> QED
    BY <2>2 DEF PutAttr
<1>5. first \in Live(h.attr) /\ Unlinked(Nexts(h.attr), Len(h.attr), first) /\ first # a
  BY FirstApart
<1> HIDE DEF first
<1>6. /\ Sound(PutAttr(h, e, rec), nodes, attrs \ {a}) /\ AttrChange(h, e, rec, PutAttr(h, e, rec))
      /\ e \in Live(h.attr)
  BY <1>5, AttrLinked
<1> HIDE DEF rec, h2, e
<1>7. Sound(h2, nodes, attrs \ {a}) /\ AttrChange(h, e, rec, h2) /\ e \in Live(h.attr)
  BY <1>4, <1>6
<1> QED
  BY <1>7 DEF h2, rec, e, first

LEMMA JoinOutcome ==
    ASSUME NEW h, NEW nodes, NEW attrs, Sound(h, nodes, attrs), NEW n \in nodes, NEW a \in attrs
    PROVE  Outcome(h, Joined(h, n, a), nodes, attrs \ {a}) /\ Joined(h, n, a).status = h.status
<1> DEFINE h2 == Joined(h, n, a)
<1>1. CASE h.node[n].first = Nil
  <2> DEFINE rec == [h.node[n] EXCEPT !.first = a]
  <2>1. Sound(h2, nodes, attrs \ {a}) /\ NodeChange(h, n, rec, h2)
    BY <1>1, JoinedFirst
  <2> HIDE DEF h2, rec
  <2>2. Outcome(h, h2, nodes, attrs \ {a}) /\ h2.status = h.status
    BY <2>1, AfterNodeChange
  <2> QED
    BY <2>2 DEF h2
<1>2. CASE h.node[n].first # Nil
  <2> DEFINE e   == TailOf(h.attr, h.node[n].first)
             rec == [h.attr[e] EXCEPT !.next = a]
  <2>1. Sound(h2, nodes, attrs \ {a}) /\ AttrChange(h, e, rec, h2)
    BY <1>2, JoinedLast
  <2> HIDE DEF h2, rec, e
  <2>2. Outcome(h, h2, nodes, attrs \ {a}) /\ h2.status = h.status
    BY <2>1, AfterAttrChange
  <2> QED
    BY <2>2 DEF h2
<1> QED
  BY <1>1, <1>2

\* ast_node_attach_attr, given an attribute that stands alone.
LEMMA AttachJoins ==
    ASSUME NEW h, NEW nodes, NEW attrs, Sound(h, nodes, attrs),
           NEW n, NEW a \in attrs, h.attr[a].next = Nil
    PROVE  ast_node_attach_attr(h, n, a) = Joined(h, n, a)
<1>1. a \in 1..Len(h.attr) /\ h.attr[a] \in AttrRecord
  <2>1. a \in Live(h.attr)
    BY DEF Sound, AttrLists, Lists
  <2> QED
    BY <2>1, AttrFacts
<1>2. h.attr \in Seq(AttrRecord)
  BY DEF Sound, Typed
<1>3. [h.attr EXCEPT ![a].next = Nil] = h.attr
  <2>1. h.attr[a] = [h.attr[a] EXCEPT !.next = h.attr[a].next]
    BY <1>1 DEF AttrRecord
  <2> QED
    BY <1>1, <1>2, <2>1, NextStaysNil
<1> QED
  BY <1>3 DEF ast_node_attach_attr, LL_APPEND, Joined

LEMMA AttachOutcome ==
    ASSUME NEW h, NEW nodes, NEW attrs, Sound(h, nodes, attrs),
           NEW n \in nodes, NEW a \in attrs, h.attr[a].next = Nil
    PROVE  Outcome(h, ast_node_attach_attr(h, n, a), nodes, attrs \ {a})
BY AttachJoins, JoinOutcome

\* An attribute with nothing behind it is the end of its list.
LEMMA TailAlone ==
    ASSUME NEW h, NEW nodes, NEW attrs, Sound(h, nodes, attrs),
           NEW a \in 1..Len(h.attr), h.attr[a].next = Nil
    PROVE  TailOf(h.attr, a) = a
<1> DEFINE L == Len(h.attr)
           next == Nexts(h.attr)
<1>1. L \in Nat /\ next \in [1..L -> 0..L] /\ Ending(next, L)
  BY DEF Sound, AttrLists, Lists
<1>2. PICK f \in [0..L -> Seq(1..L)] : Walk(next, L, f)
  BY <1>1 DEF Ending
<1>3. next[a] = Nil /\ a \in 1..L /\ LinkedBy(h.attr, next, L)
  BY DEF Nexts, LinkedBy
<1> HIDE DEF L, next
<1>4. a \in 0..L
  BY <1>1, <1>3
<1>5. Chain(h.attr, a) = f[a]
  BY <1>1, <1>2, <1>3, <1>4, ChainIs, Zenon
<1>6. f[a] = <<a>>
  <2>1. f[a] = <<a>> \o <<>>
    BY <1>2, <1>3 DEF Walk
  <2>2. <<a>> \in Seq(1..L)
    BY <1>3
  <2> QED
    BY <2>1, <2>2, ConcatEmptySeq
<1> QED
  BY <1>5, <1>6 DEF TailOf, Last

\* ast_node_attr_append, given an attribute with nothing behind it and nothing to put there.
LEMMA AppendNothing ==
    ASSUME NEW h, NEW nodes, NEW attrs, Sound(h, nodes, attrs),
           NEW a \in Live(h.attr), h.attr[a].next = Nil
    PROVE  ast_node_attr_append(h, a, Nil) = h
<1>1. a \in 1..Len(h.attr) /\ h.attr[a] \in AttrRecord
  BY AttrFacts
<1>2. h.attr \in Seq(AttrRecord)
  BY DEF Sound, Typed
<1>3. [h.attr EXCEPT ![a].next = Nil] = h.attr
  <2>1. h.attr[a] = [h.attr[a] EXCEPT !.next = h.attr[a].next]
    BY <1>1 DEF AttrRecord
  <2> QED
    BY <1>1, <1>2, <2>1, NextStaysNil
<1> QED
  BY <1>3 DEF ast_node_attr_append, Sound, Typed

\* a can be followed by the list that starts at rest.
Free(h, attrs, a, rest) ==
    /\ a \in Live(h.attr) /\ Unlinked(Nexts(h.attr), Len(h.attr), a) /\ h.attr[a].next = Nil
    /\ rest \in attrs /\ a # rest

Followed(h, h2, a, rest) == AttrChange(h, a, [h.attr[a] EXCEPT !.next = rest], h2)

\* The same, given a list.
LEMMA AppendLinks ==
    ASSUME NEW h, NEW nodes, NEW attrs, Sound(h, nodes, attrs),
           NEW a, NEW rest, Free(h, attrs, a, rest)
    PROVE  /\ Sound(ast_node_attr_append(h, a, rest), nodes, attrs \ {rest})
           /\ Followed(h, ast_node_attr_append(h, a, rest), a, rest)
           /\ TailOf(h.attr, a) = a
<1> DEFINE rec == [h.attr[a] EXCEPT !.next = rest]
           h2  == ast_node_attr_append(h, a, rest)
           e   == TailOf(h.attr, a)
           put == PutAttr(h, e, [h.attr[e] EXCEPT !.next = rest])
<1>1. e = a
  <2>1. a \in 1..Len(h.attr)
    BY AttrFacts DEF Free
  <2> QED
    BY <2>1, TailAlone DEF Free
<1>2. h2 = PutAttr(h, a, rec)
  BY DEF ast_node_attr_append, PutAttr
<1>3. /\ Sound(put, nodes, attrs \ {rest})
      /\ AttrChange(h, e, [h.attr[e] EXCEPT !.next = rest], put)
  BY AttrLinked DEF Free
<1> HIDE DEF e, h2
<1>4. put = h2
  BY <1>1, <1>2
<1> HIDE DEF put
<1>5. Sound(h2, nodes, attrs \ {rest}) /\ AttrChange(h, a, rec, h2)
  BY <1>1, <1>3, <1>4
<1> QED
  BY <1>1, <1>5 DEF h2, e, Followed

LEMMA AppendOutcome ==
    ASSUME NEW h, NEW nodes, NEW attrs, Sound(h, nodes, attrs),
           NEW a \in Live(h.attr), Unlinked(Nexts(h.attr), Len(h.attr), a), h.attr[a].next = Nil,
           NEW rest \in attrs \cup {Nil}, a # rest
    PROVE  Outcome(h, ast_node_attr_append(h, a, rest), nodes, attrs \ {rest})
<1> DEFINE rec == [h.attr[a] EXCEPT !.next = rest]
           h2  == ast_node_attr_append(h, a, rest)
<1>1. CASE rest = Nil
  <2>1. h2 = h
    BY <1>1, AppendNothing
  <2>2. attrs \ {rest} = attrs
    BY <1>1 DEF Sound, AttrLists, Lists, Nil
  <2> QED
    BY <2>1, <2>2, Same
<1>2. CASE rest # Nil
  <2>1. Free(h, attrs, a, rest)
    BY <1>2 DEF Free
  <2>2. Sound(h2, nodes, attrs \ {rest}) /\ AttrChange(h, a, rec, h2)
    BY <2>1, AppendLinks DEF Followed
  <2> HIDE DEF rec, h2
  <2>3. Outcome(h, h2, nodes, attrs \ {rest})
    BY <2>2, AfterAttrChange
  <2> QED
    BY <2>3 DEF h2
<1> QED
  BY <1>1, <1>2

\* node->first_attr = a, in the production for a list.
LEMMA SetFirstOutcome ==
    ASSUME NEW h, NEW nodes, NEW attrs, Sound(h, nodes, attrs),
           NEW n \in nodes, NEW a \in attrs, h.node[n].first = Nil
    PROVE  Outcome(h, set_first_attr(h, n, a), nodes, attrs \ {a})
<1> DEFINE rec == [h.node[n] EXCEPT !.first = a]
           h2  == set_first_attr(h, n, a)
<1>1. h2 = PutNode(h, n, rec)
  BY DEF set_first_attr, PutNode
<1>2. Sound(PutNode(h, n, rec), nodes, attrs \ {a}) /\ NodeChange(h, n, rec, PutNode(h, n, rec))
  BY FirstTaken
<1> HIDE DEF rec, h2
<1>3. Outcome(h, h2, nodes, attrs \ {a})
  BY <1>1, <1>2, AfterNodeChange
<1> QED
  BY <1>3 DEF h2

\* A function that makes an attribute and attaches it.
LEMMA CreateAttach ==
    ASSUME NEW h, NEW nodes0, NEW nodes, NEW attrs, Sound(h, nodes0, attrs),
           NEW made, Created(h, made, nodes, attrs), NEW n \in nodes
    PROVE  Outcome(h, ast_node_attach_attr(made, n, NewAttr(made)), nodes, attrs)
<1> DEFINE a  == NewAttr(made)
           h2 == ast_node_attach_attr(made, n, a)
<1>1. Sound(made, nodes, attrs \cup {a}) /\ made.attr[a].next = Nil
  BY DEF Created
<1>2. attrs \subseteq 1..Len(h.attr)
  BY DEF Sound, AttrLists, Lists
<1>3. (attrs \cup {a}) \ {a} = attrs
  BY <1>2 DEF Created, NewAttr
<1>4. Outcome(h, made, nodes, attrs \cup {a})
  BY CreatedOutcome
<1> HIDE DEF a
<1>5. Outcome(made, h2, nodes, (attrs \cup {a}) \ {a})
  BY <1>1, AttachOutcome
<1> HIDE DEF h2
<1>6. Outcome(h, h2, nodes, attrs)
  BY <1>3, <1>4, <1>5, OneAfterAnother
<1> QED
  BY <1>6 DEF h2, a

\* A value is written over another.
Rewritten(h, h2, a, val) == AttrChange(h, a, [h.attr[a] EXCEPT !.text = val], h2)

LEMMA TextRewritten ==
    ASSUME NEW h, NEW nodes, NEW attrs, Sound(h, nodes, attrs),
           NEW a \in 1..Len(h.attr), NEW val \in Word
    PROVE  /\ Sound([h EXCEPT !.attr[a].text = val], nodes, attrs)
           /\ Rewritten(h, [h EXCEPT !.attr[a].text = val], a, val)
<1> DEFINE old == h.attr[a]
           rec == [old EXCEPT !.text = val]
           h2  == [h EXCEPT !.attr[a].text = val]
           L   == Len(h.attr)
           M   == Len(h.node)
<1>1. h2 = PutAttr(h, a, rec)
  BY DEF PutAttr
<1>2. old \in AttrRecord
  <2> DEFINE s == h.attr
  <2>1. s \in Seq(AttrRecord)
    BY DEF Sound, Typed
  <2> HIDE DEF s
  <2>2. \A i \in 1..Len(s) : s[i] \in AttrRecord
    BY <2>1, ElementOfSeq
  <2> QED
    BY <2>2 DEF s
<1>3. /\ Nexts(h.attr)[a] = old.next /\ Subs(h.attr)[a] = old.node
      /\ (old.kind = "AST_NODE" <=> old.node # Nil) /\ (~old.live => old.node = Nil)
      /\ Live(h.attr) = IF old.live THEN Live(h.attr) \cup {a} ELSE Live(h.attr) \ {a}
  BY DEF Nexts, Subs, Live, Sound, Typed, DeadEmpty
<1>4. /\ Lists(L, M, Nexts(h.attr), Firsts(h.node), attrs, Live(h.attr))
      /\ Lists(M, L, Nexts(h.node), Subs(h.attr), nodes, Live(h.node))
  BY DEF Sound, NodeLists, AttrLists
<1>5. Nexts(h.attr) \in [1..L -> 0..L] /\ Subs(h.attr) \in [1..L -> 0..M]
  BY <1>4 DEF Lists
<1>6. [Nexts(h.attr) EXCEPT ![a] = old.next] = Nexts(h.attr)
  BY <1>3, <1>5, SameValue
<1>7. [Subs(h.attr) EXCEPT ![a] = old.node] = Subs(h.attr)
  BY <1>3, <1>5, SameValue
<1>8. /\ rec \in AttrRecord /\ rec.kind = old.kind /\ rec.live = old.live
      /\ rec.node = old.node /\ rec.next = old.next
  BY <1>2 DEF AttrRecord
<1> HIDE DEF rec, old, h2, L, M
<1>9. /\ rec.kind = "AST_NODE" <=> rec.node # Nil
      /\ ~rec.live => rec.node = Nil
  BY <1>3, <1>8
<1>10. /\ Lists(L, M, [Nexts(h.attr) EXCEPT ![a] = rec.next], Firsts(h.node), attrs,
                IF rec.live THEN Live(h.attr) \cup {a} ELSE Live(h.attr) \ {a})
       /\ Lists(M, L, Nexts(h.node), [Subs(h.attr) EXCEPT ![a] = rec.node], nodes, Live(h.node))
  BY <1>3, <1>4, <1>6, <1>7, <1>8
<1>11. Sound(h2, nodes, attrs) /\ AttrChange(h, a, rec, h2)
  BY <1>1, <1>8, <1>9, <1>10, SoundAttr, Zenon DEF L, M
<1> QED
  BY <1>11 DEF h2, rec, old, Rewritten

LEMMA TextOutcome ==
    ASSUME NEW h, NEW nodes, NEW attrs, Sound(h, nodes, attrs),
           NEW a \in 1..Len(h.attr), NEW val \in Word
    PROVE  Outcome(h, [h EXCEPT !.attr[a].text = val], nodes, attrs)
<1> DEFINE rec == [h.attr[a] EXCEPT !.text = val]
           h2  == [h EXCEPT !.attr[a].text = val]
<1>1. Sound(h2, nodes, attrs) /\ AttrChange(h, a, rec, h2)
  BY TextRewritten DEF Rewritten
<1> HIDE DEF rec, h2
<1>2. Outcome(h, h2, nodes, attrs)
  BY <1>1, AfterAttrChange
<1> QED
  BY <1>2 DEF h2

LEMMA SetTextOutcome ==
    ASSUME NEW h, NEW nodes, NEW attrs, Sound(h, nodes, attrs),
           NEW n \in nodes, NEW key \in Key, NEW val \in Word
    PROVE  /\ Outcome(h, ast_node_set_attr_str(h, n, key, val), nodes, attrs)
           /\ Outcome(h, ast_node_set_attr_const_str(h, n, key, val), nodes, attrs)
           /\ Outcome(h, ast_node_set_attr_integer(h, n, key, val), nodes, attrs)
<1> DEFINE a == ast_node_get_attr(h, n, key)
<1>1. a \in {Nil} \cup 1..Len(h.attr)
  BY GetAttr
<1>2. Outcome(h, h, nodes, attrs)
  BY Same
<1>3. Outcome(h, Abort(h), nodes, attrs) /\ Outcome(h, Undefined(h), nodes, attrs)
  BY <1>2, Stopped
<1>4. a # Nil => Outcome(h, [h EXCEPT !.attr[a].text = val], nodes, attrs)
  BY <1>1, TextOutcome
<1>5. ASSUME NEW made, Created(h, made, nodes, attrs)
      PROVE  Outcome(h, ast_node_attach_attr(made, n, NewAttr(made)), nodes, attrs)
  BY <1>5, CreateAttach
<1>6. Outcome(h, ast_node_set_attr_str(h, n, key, val), nodes, attrs)
  <2> DEFINE made == ast_node_attr_create_str(h, key, val)
  <2>1. Created(h, made, nodes, attrs)
    BY CreateText3
  <2> HIDE DEF a
  <2>2. CASE a = Nil
    BY <1>5, <2>1, <2>2 DEF a, ast_node_set_attr_str
  <2>3. CASE a # Nil
    BY <1>3, <2>3 DEF a, ast_node_set_attr_str
  <2> QED
    BY <2>2, <2>3
<1>7. Outcome(h, ast_node_set_attr_const_str(h, n, key, val), nodes, attrs)
  <2> DEFINE made == ast_node_attr_create_const_str(h, key, val)
  <2>1. Created(h, made, nodes, attrs)
    BY CreateText3
  <2> HIDE DEF a
  <2>2. CASE a = Nil
    BY <1>5, <2>1, <2>2 DEF a, ast_node_set_attr_const_str
  <2>3. CASE a # Nil
    BY <1>3, <1>4, <2>3 DEF a, ast_node_set_attr_const_str
  <2> QED
    BY <2>2, <2>3
<1>8. Outcome(h, ast_node_set_attr_integer(h, n, key, val), nodes, attrs)
  <2> DEFINE made == ast_node_attr_create_integer(h, key, val)
  <2>1. Created(h, made, nodes, attrs)
    BY CreateText3
  <2> HIDE DEF a
  <2>2. CASE a = Nil
    BY <1>5, <2>1, <2>2 DEF a, ast_node_set_attr_integer
  <2>3. CASE a # Nil
    BY <1>3, <1>4, <2>3 DEF a, ast_node_set_attr_integer
  <2> QED
    BY <2>2, <2>3
<1> QED
  BY <1>6, <1>7, <1>8

LEMMA CreateNodeAttrOutcome ==
    ASSUME NEW h, NEW nodes, NEW attrs, Sound(h, nodes, attrs),
           NEW key \in Key, NEW sub \in nodes \cup {Nil}
    PROVE  LET h2 == ast_node_attr_create_node(h, key, sub)
           IN  Outcome(h, h2, nodes \ {sub}, attrs \cup {NewAttr(h2)})
<1> DEFINE h2 == ast_node_attr_create_node(h, key, sub)
<1>1. CASE sub = Nil
  <2>1. Outcome(h, h, nodes, attrs)
    BY Same
  <2> QED
    BY <1>1, <2>1, Stopped DEF ast_node_attr_create_node
<1>2. CASE sub # Nil
  <2>1. "AST_NODE" \in AttrKind /\ NoText \in Word \cup {NoText, Shared}
    BY DEF AttrKind
  <2>2. h2 = create_attr(h, key, "AST_NODE", NoText, sub)
    BY <1>2 DEF ast_node_attr_create_node
  <2>3. Created(h, create_attr(h, key, "AST_NODE", NoText, sub), nodes \ {sub}, attrs)
    BY <1>2, <2>1, CreateAttr
  <2> HIDE DEF h2
  <2>4. Outcome(h, h2, nodes \ {sub}, attrs \cup {NewAttr(h2)})
    BY <2>2, <2>3, CreatedOutcome
  <2> QED
    BY <2>4 DEF h2
<1> QED
  BY <1>1, <1>2

\* e has the sibling sub.
SiblingIs(h, e, sub, h2) == NodeChange(h, e, [h.node[e] EXCEPT !.next = sub], h2)

\* ast_node_attr_node_append, when n has a list of nodes with the key.
LEMMA AppendNodeLinks ==
    ASSUME NEW h, NEW nodes, NEW attrs, Sound(h, nodes, attrs),
           NEW n \in nodes, NEW key, NEW sub \in nodes, h.node[sub].next = Nil,
           NEW a, a = ast_node_get_attr(h, n, key), a # Nil, h.attr[a].kind = "AST_NODE"
    PROVE  /\ Sound(ast_node_attr_node_append(h, n, key, sub), nodes \ {sub}, attrs)
           /\ SiblingIs(h, TailOf(h.node, h.attr[a].node), sub, ast_node_attr_node_append(h, n, key, sub))
           /\ TailOf(h.node, h.attr[a].node) \in Live(h.node)
<1> DEFINE head == h.attr[a].node
           e    == TailOf(h.node, head)
           rec  == [h.node[e] EXCEPT !.next = sub]
           h2   == ast_node_attr_node_append(h, n, key, sub)
<1>1. a \in 1..Len(h.attr) /\ head # Nil
  <2>1. a \in 1..Len(h.attr)
    BY GetAttr
  <2> QED
    BY <2>1 DEF Sound, Typed
<1>2. /\ sub \in 1..Len(h.node) /\ h.node[sub] \in NodeRecord /\ h.node \in Seq(NodeRecord)
      /\ sub # Nil
  BY NodeFacts DEF Sound, Typed, Nil
<1>3. [h.node EXCEPT ![sub].next = Nil] = h.node
  <2>1. h.node[sub] = [h.node[sub] EXCEPT !.next = h.node[sub].next]
    BY <1>2 DEF NodeRecord
  <2> QED
    BY <1>2, <2>1, NextStaysNil
<1>4. h2 = [h EXCEPT !.node = LL_CONCAT(h.node, head, sub).objs]
  BY <1>2, <1>3 DEF ast_node_attr_node_append, LL_APPEND
<1>5. h2 = PutNode(h, e, rec)
  BY <1>1, <1>4 DEF LL_CONCAT, PutNode, TailOf
<1>6. head \in Live(h.node) /\ Unlinked(Nexts(h.node), Len(h.node), head) /\ head \notin nodes
  BY <1>1, SubApart
<1> HIDE DEF head
<1>7. /\ Sound(PutNode(h, e, rec), nodes \ {sub}, attrs)
      /\ NodeChange(h, e, rec, PutNode(h, e, rec)) /\ e \in Live(h.node)
  BY <1>6, NodeLinked
<1> HIDE DEF h2
<1>8. Sound(h2, nodes \ {sub}, attrs) /\ SiblingIs(h, e, sub, h2) /\ e \in Live(h.node)
  BY <1>5, <1>7 DEF SiblingIs
<1> QED
  BY <1>8 DEF h2, e, head

\* ast_node_attr_node_append: the node goes to a new attribute or behind its siblings.
LEMMA AppendNodeOutcome ==
    ASSUME NEW h, NEW nodes, NEW attrs, Sound(h, nodes, attrs),
           NEW n \in nodes, NEW key \in Key, NEW sub \in nodes \cup {Nil}, sub # n
    PROVE  Outcome(h, ast_node_attr_node_append(h, n, key, sub), nodes \ {sub}, attrs)
<1> DEFINE a == ast_node_get_attr(h, n, key)
           h2 == ast_node_attr_node_append(h, n, key, sub)
<1>1. a \in {Nil} \cup 1..Len(h.attr)
  BY GetAttr
<1>2. Outcome(h, h, nodes, attrs)
  BY Same
<1>3. Outcome(h, Abort(h), nodes \ {sub}, attrs)
  BY <1>2, Stopped
<1> HIDE DEF a
<1>4. CASE sub = Nil
  <2>1. nodes \ {sub} = nodes
    BY <1>4 DEF Sound, NodeLists, Lists, Nil
  <2> QED
    BY <1>2, <1>4, <2>1 DEF ast_node_attr_node_append
<1>5. CASE sub # Nil /\ h.node[sub].next # Nil
  BY <1>3, <1>5 DEF ast_node_attr_node_append
<1>6. CASE sub # Nil /\ h.node[sub].next = Nil /\ a = Nil
  <2> DEFINE made == create_attr(h, key, "AST_NODE", NoText, sub)
  <2>1. "AST_NODE" \in AttrKind /\ NoText \in Word \cup {NoText, Shared}
    BY DEF AttrKind
  <2>2. Created(h, made, nodes \ {sub}, attrs)
    BY <1>6, <2>1, CreateAttr
  <2>3. h2 = ast_node_attach_attr(made, n, NewAttr(made))
    BY <1>6 DEF ast_node_attr_node_append, ast_node_attr_create_node, a
  <2> HIDE DEF made, h2
  <2>4. n \in nodes \ {sub}
    OBVIOUS
  <2>5. Outcome(h, h2, nodes \ {sub}, attrs)
    BY <2>2, <2>3, <2>4, CreateAttach
  <2> QED
    BY <2>5 DEF h2
<1>7. CASE sub # Nil /\ h.node[sub].next = Nil /\ a # Nil
  <2>1. CASE h.attr[a].kind # "AST_NODE"
    BY <1>3, <1>7, <2>1 DEF ast_node_attr_node_append, a
  <2>2. CASE h.attr[a].kind = "AST_NODE"
    <3> DEFINE e == TailOf(h.node, h.attr[a].node)
    <3>1. sub \in nodes /\ a = ast_node_get_attr(h, n, key)
      BY <1>7 DEF a
    <3>2. Sound(h2, nodes \ {sub}, attrs) /\ SiblingIs(h, e, sub, h2)
      BY <1>7, <2>2, <3>1, AppendNodeLinks
    <3> HIDE DEF h2, e
    <3>3. Outcome(h, h2, nodes \ {sub}, attrs)
      BY <3>2, AfterNodeChange DEF SiblingIs
    <3> QED
      BY <3>3 DEF h2
  <2> QED
    BY <2>1, <2>2
<1> QED
  BY <1>4, <1>5, <1>6, <1>7

LEMMA DestroyAttrOutcome ==
    ASSUME NEW h, NEW nodes, NEW attrs, Sound(h, nodes, attrs), NEW a \in attrs
    PROVE  Outcome(h, ast_node_attr_destroy(h, a), nodes, attrs \ {a})
<1> DEFINE rec == [h.attr[a] EXCEPT !.live = FALSE]
           h2  == ast_node_attr_destroy(h, a)
<1>1. a \in 1..Len(h.attr)
  BY AttrFacts DEF Sound, AttrLists, Lists
<1>2. Outcome(h, h, nodes, attrs)
  BY Same
<1>3. Outcome(h, Abort(h), nodes, attrs \ {a}) /\ Outcome(h, Undefined(h), nodes, attrs \ {a})
  BY <1>2, Stopped
<1>4. CASE h.attr[a].next # Nil \/ h.attr[a].kind \in {"AST_NODE", "STRING"}
  BY <1>3, <1>4 DEF ast_node_attr_destroy
<1>5. CASE ~(h.attr[a].next # Nil \/ h.attr[a].kind \in {"AST_NODE", "STRING"})
  <2>1. h2 = PutAttr(h, a, rec)
    BY <1>5 DEF ast_node_attr_destroy, PutAttr
  <2>2. h.attr[a].node = Nil /\ h.attr[a].next = Nil
    BY <1>1, <1>5 DEF Sound, Typed
  <2>3. Sound(PutAttr(h, a, rec), nodes, attrs \ {a}) /\ AttrChange(h, a, rec, PutAttr(h, a, rec))
    BY <2>2, AttrFreed
  <2> HIDE DEF rec, h2
  <2>4. Outcome(h, h2, nodes, attrs \ {a})
    BY <2>1, <2>3, AfterAttrChange
  <2> QED
    BY <2>4 DEF h2
<1> QED
  BY <1>4, <1>5

\* The two assignments of ast_node_destroy to the node, in either order.
LEMMA FreedAndEmpty ==
    ASSUME NEW s \in Seq(NodeRecord), NEW n \in 1..Len(s)
    PROVE  LET rec == [s[n] EXCEPT !.first = Nil]
           IN  [[s EXCEPT ![n].live = FALSE] EXCEPT ![n].first = Nil]
               = [[s EXCEPT ![n] = rec] EXCEPT ![n] = [rec EXCEPT !.live = FALSE]]
<1>1. s[n] \in NodeRecord
  BY ElementOfSeq
<1>2. DOMAIN s = 1..Len(s) /\ s = [i \in 1..Len(s) |-> s[i]]
  OBVIOUS
<1>3. [[s[n] EXCEPT !.live = FALSE] EXCEPT !.first = Nil]
      = [[s[n] EXCEPT !.first = Nil] EXCEPT !.live = FALSE]
  BY <1>1 DEF NodeRecord
<1> QED
  BY <1>2, <1>3

\* A node without attributes is freed.
NodeGone(h, n, h2) == NodeChange(h, n, [h.node[n] EXCEPT !.live = FALSE], h2)

LEMMA DestroyEmpty ==
    ASSUME NEW h, NEW nodes, NEW attrs, Sound(h, nodes, attrs), Running(h), NEW n \in nodes,
           h.node[n].next = Nil, h.node[n].first = Nil
    PROVE  /\ Sound(ast_node_destroy(h, n), nodes \ {n}, attrs)
           /\ NodeGone(h, n, ast_node_destroy(h, n))
<1> DEFINE rec == [h.node[n] EXCEPT !.live = FALSE]
           h2  == ast_node_destroy(h, n)
<1>1. n \in 1..Len(h.node) /\ h.node[n] \in NodeRecord /\ h.node \in Seq(NodeRecord)
  BY NodeFacts DEF Sound, Typed
<1>2. h2 = [h EXCEPT !.node[n].live = FALSE, !.node[n].first = Nil]
  BY DEF ast_node_destroy
<1>3. h2 = PutNode(h, n, rec)
  <2>1. [rec EXCEPT !.first = Nil] = rec
    BY <1>1 DEF NodeRecord
  <2>2. [[h.node EXCEPT ![n].live = FALSE] EXCEPT ![n].first = Nil] = [h.node EXCEPT ![n] = rec]
    BY <1>1, <2>1
  <2> QED
    BY <1>2, <2>2 DEF PutNode, Sound, Typed
<1>4. Sound(PutNode(h, n, rec), nodes \ {n}, attrs) /\ NodeChange(h, n, rec, PutNode(h, n, rec))
  BY NodeFreed
<1> HIDE DEF h2
<1>5. Sound(h2, nodes \ {n}, attrs) /\ NodeChange(h, n, rec, h2)
  BY <1>3, <1>4
<1> QED
  BY <1>5 DEF NodeGone, h2

\* A node with one attribute: the attribute is taken from it and freed first.
Emptied(h, n, h2)  == NodeChange(h, n, [h.node[n] EXCEPT !.first = Nil], h2)
AttrGone(h, a, h2) == AttrChange(h, a, [h.attr[a] EXCEPT !.live = FALSE], h2)

Dismantled(h, n, h2, nodes, attrs) ==
    \E h1, h3 : /\ Sound(h1, nodes, attrs \cup {h.node[n].first}) /\ Emptied(h, n, h1)
                /\ Sound(h3, nodes, attrs) /\ AttrGone(h1, h.node[n].first, h3)
                /\ Sound(h2, nodes \ {n}, attrs) /\ NodeGone(h3, n, h2)

LEMMA DestroyWithAttr ==
    ASSUME NEW h, NEW nodes, NEW attrs, Sound(h, nodes, attrs), Running(h), NEW n \in nodes,
           h.node[n].next = Nil, h.node[n].first # Nil,
           Running(ast_node_attr_destroy(h, h.node[n].first))
    PROVE  /\ Dismantled(h, n, ast_node_destroy(h, n), nodes, attrs)
           /\ h.attr[h.node[n].first].next = Nil
           /\ h.attr[h.node[n].first].kind \notin {"AST_NODE", "STRING"}
<1> DEFINE first == h.node[n].first
           h2    == ast_node_destroy(h, n)
           gone  == ast_node_attr_destroy(h, first)
           rec   == [h.node[n] EXCEPT !.first = Nil]
           h1    == PutNode(h, n, rec)
<1>1. n \in 1..Len(h.node) /\ h.node[n] \in NodeRecord /\ h.node \in Seq(NodeRecord)
  BY NodeFacts DEF Sound, Typed
<1>2. /\ h.attr[first].next = Nil /\ h.attr[first].kind \notin {"AST_NODE", "STRING"}
      /\ gone = [h EXCEPT !.attr[first].live = FALSE]
  BY DEF ast_node_attr_destroy, Running, Abort, Undefined, Sound, Typed
<1>3. /\ Sound(h1, nodes, attrs \cup {first}) /\ NodeChange(h, n, rec, h1)
      /\ first \notin attrs /\ first \in Live(h.attr)
  BY FirstReleased, FirstApart
<1>4. h1 = [h EXCEPT !.node = [h.node EXCEPT ![n] = rec]]
  BY DEF PutNode
<1> DEFINE rec2 == [h.attr[first] EXCEPT !.live = FALSE]
           h3   == PutAttr(h1, first, rec2)
           rec3 == [rec EXCEPT !.live = FALSE]
           h4   == PutNode(h3, n, rec3)
<1>5. h1.attr = h.attr /\ h1.node[n] = rec
  BY <1>3 DEF NodeChange
<1>6. first \in 1..Len(h.attr)
  BY <1>3, AttrFacts
<1>7. h.attr[first].node = Nil
  BY <1>2, <1>6 DEF Sound, Typed
<1>8. Sound(h3, nodes, attrs) /\ AttrChange(h1, first, rec2, h3)
  <2> DEFINE put == PutAttr(h1, first, [h1.attr[first] EXCEPT !.live = FALSE])
  <2> HIDE DEF h1, first
  <2>1. /\ Sound(put, nodes, (attrs \cup {first}) \ {first})
        /\ AttrChange(h1, first, [h1.attr[first] EXCEPT !.live = FALSE], put)
    <3>1. h1.attr[first].node = Nil /\ h1.attr[first].next = Nil /\ first \in attrs \cup {first}
      BY <1>2, <1>5, <1>7
    <3> QED
      BY <1>3, <3>1, AttrFreed
  <2>2. (attrs \cup {first}) \ {first} = attrs
    BY <1>3
  <2> QED
    BY <1>5, <2>1, <2>2
<1>9. rec.first = Nil /\ rec.next = Nil
  BY <1>1 DEF NodeRecord
<1>10. h3.node = h1.node
  BY <1>8 DEF AttrChange
<1>11. Sound(h4, nodes \ {n}, attrs) /\ NodeChange(h3, n, rec3, h4)
  <2> DEFINE put == PutNode(h3, n, [h3.node[n] EXCEPT !.live = FALSE])
  <2> HIDE DEF h3, rec, h1
  <2>1. /\ Sound(put, nodes \ {n}, attrs)
        /\ NodeChange(h3, n, [h3.node[n] EXCEPT !.live = FALSE], put)
    BY <1>5, <1>8, <1>9, <1>10, NodeFreed
  <2> QED
    BY <1>5, <1>10, <2>1
<1>12. h2 = h4
  <2>1. h2 = [gone EXCEPT !.node[n].live = FALSE, !.node[n].first = Nil]
    BY DEF ast_node_destroy
  <2> DEFINE N == [[h.node EXCEPT ![n].live = FALSE] EXCEPT ![n].first = Nil]
             A == [h.attr EXCEPT ![first].live = FALSE]
  <2>2. h2 = [h EXCEPT !.attr = A, !.node = N]
    BY <1>2, <2>1 DEF Sound, Typed
  <2>3. N = [[h.node EXCEPT ![n] = rec] EXCEPT ![n] = rec3]
    BY <1>1, FreedAndEmpty
  <2>4. h3 = [h1 EXCEPT !.attr = A]
    BY <1>4 DEF PutAttr, Sound, Typed
  <2>5. h4 = [h EXCEPT !.attr = A, !.node = [[h.node EXCEPT ![n] = rec] EXCEPT ![n] = rec3]]
    BY <1>4, <2>4 DEF PutNode, Sound, Typed
  <2> QED
    BY <2>2, <2>3, <2>5
<1> HIDE DEF h1, h2, h3, h4, rec, rec2, rec3, gone, first
<1>13. Emptied(h, n, h1)
  BY <1>3 DEF Emptied, rec, first
<1>14. AttrGone(h1, first, h3)
  BY <1>5, <1>8 DEF AttrGone, rec2
<1>15. NodeGone(h3, n, h2)
  BY <1>5, <1>10, <1>11, <1>12 DEF NodeGone, rec3
<1>16. Dismantled(h, n, h2, nodes, attrs)
  BY <1>3, <1>8, <1>11, <1>12, <1>13, <1>14, <1>15 DEF Dismantled, first
<1> QED
  BY <1>2, <1>16 DEF h2, first

\* ast_node_destroy in terms of the two functions it is made of.
LEMMA DestroyNodeOutcome ==
    ASSUME NEW h, NEW nodes, NEW attrs, Sound(h, nodes, attrs), Running(h), NEW n \in nodes
    PROVE  Outcome(h, ast_node_destroy(h, n), nodes \ {n}, attrs)
<1> DEFINE first == h.node[n].first
           gone  == ast_node_attr_destroy(h, first)
           h2    == ast_node_destroy(h, n)
<1>1. Outcome(h, h, nodes, attrs)
  BY Same
<1>2. Outcome(h, Abort(h), nodes \ {n}, attrs) /\ Outcome(h, Undefined(h), nodes \ {n}, attrs)
  BY <1>1, Stopped
<1>3. CASE h.node[n].next # Nil
  BY <1>2, <1>3 DEF ast_node_destroy
<1>4. CASE h.node[n].next = Nil /\ first = Nil
  <2>1. Sound(h2, nodes \ {n}, attrs) /\ NodeChange(h, n, [h.node[n] EXCEPT !.live = FALSE], h2)
    BY <1>4, DestroyEmpty DEF NodeGone
  <2> HIDE DEF h2
  <2> QED
    BY <2>1, AfterNodeChange DEF h2
<1>5. CASE h.node[n].next = Nil /\ first # Nil /\ ~Running(gone)
  <2>1. h2 = gone
    BY <1>5 DEF ast_node_destroy
  <2>2. gone \in {Abort(h), Undefined(h)}
    BY <1>5 DEF ast_node_attr_destroy, Running, Sound, Typed
  <2> QED
    BY <1>2, <2>1, <2>2
<1>6. CASE h.node[n].next = Nil /\ first # Nil /\ Running(gone)
  <2>1. Dismantled(h, n, h2, nodes, attrs)
    BY <1>6, DestroyWithAttr
  <2> HIDE DEF h2, first
  <2>2. PICK h1, h3 : /\ Sound(h1, nodes, attrs \cup {first}) /\ Emptied(h, n, h1)
                      /\ Sound(h3, nodes, attrs) /\ AttrGone(h1, first, h3)
                      /\ Sound(h2, nodes \ {n}, attrs) /\ NodeGone(h3, n, h2)
    BY <2>1 DEF Dismantled, first
  <2>3. Outcome(h, h1, nodes, attrs \cup {first})
    BY <2>2, AfterNodeChange DEF Emptied
  <2>4. Outcome(h1, h3, nodes, attrs)
    BY <2>2, AfterAttrChange DEF AttrGone
  <2>5. Outcome(h3, h2, nodes \ {n}, attrs)
    BY <2>2, AfterNodeChange DEF NodeGone
  <2>6. Outcome(h, h3, nodes, attrs)
    BY <2>3, <2>4, OneAfterAnother
  <2>7. Outcome(h, h2, nodes \ {n}, attrs)
    BY <2>5, <2>6, OneAfterAnother
  <2> QED
    BY <2>7 DEF h2
<1> QED
  BY <1>3, <1>4, <1>5, <1>6

\* Every list ends in an attribute without `next`.
LEMMA TailNext ==
    ASSUME NEW h, NEW nodes, NEW attrs, Sound(h, nodes, attrs), NEW p \in 1..Len(h.attr)
    PROVE  TailOf(h.attr, p) \in 1..Len(h.attr) /\ h.attr[TailOf(h.attr, p)].next = Nil
<1> DEFINE L == Len(h.attr)
           next == Nexts(h.attr)
           e == TailOf(h.attr, p)
<1>1. L \in Nat /\ next \in [1..L -> 0..L] /\ Ending(next, L)
  BY DEF Sound, AttrLists, Lists
<1>2. PICK f \in [0..L -> Seq(1..L)] : Walk(next, L, f)
  BY <1>1 DEF Ending
<1>3. p \in 1..L /\ LinkedBy(h.attr, next, L) /\ \A q \in 1..L : next[q] = h.attr[q].next
  BY DEF Nexts, LinkedBy
<1> HIDE DEF L, next
<1>4. p \in 0..L
  BY <1>1, <1>3
<1>5. Chain(h.attr, p) = f[p]
  BY <1>1, <1>2, <1>3, <1>4, ChainIs, Zenon
<1>6. e = f[p][Len(f[p])]
  BY <1>5 DEF TailOf, Last
<1>7. Linked(next, f[p]) /\ f[p] \in Seq(1..L)
  BY <1>1, <1>2, <1>3, <1>4, WalkSteps
<1> HIDE DEF e
<1>8. Len(f[p]) \in 1..Len(f[p])
  BY <1>7, LenProperties DEF Linked
<1>9. e \in 1..L /\ next[e] = Nil
  BY <1>6, <1>7, <1>8, ElementOfSeq DEF Linked
<1> QED
  BY <1>3, <1>9 DEF e, L

\* A node without attributes adds nothing to another.
LEMMA JoinNil ==
    ASSUME NEW h, NEW nodes, NEW attrs, Sound(h, nodes, attrs), NEW n \in nodes
    PROVE  Joined(h, n, Nil) = h
<1> DEFINE first == h.node[n].first
<1>1. /\ n \in 1..Len(h.node) /\ h.node[n] \in NodeRecord
      /\ h.node \in Seq(NodeRecord) /\ h.attr \in Seq(AttrRecord)
  BY NodeFacts DEF Sound, Typed
<1>2. [h.node EXCEPT ![n].first = first] = h.node
  <2>1. h.node[n] = [h.node[n] EXCEPT !.first = first]
    BY <1>1 DEF NodeRecord
  <2>2. [h.node EXCEPT ![n] = h.node[n]] = h.node
    BY <1>1
  <2>3. [h.node EXCEPT ![n].first = first]
          = [h.node EXCEPT ![n] = [h.node[n] EXCEPT !.first = first]]
    BY <1>1
  <2> QED
    BY <2>1, <2>2, <2>3
<1>3. LL_CONCAT(h.attr, first, Nil).objs = h.attr /\ LL_CONCAT(h.attr, first, Nil).head = first
  <2>1. CASE first = Nil
    BY <2>1 DEF LL_CONCAT
  <2>2. CASE first # Nil
    <3> DEFINE e == TailOf(h.attr, first)
    <3>1. first \in 1..Len(h.attr)
      BY <2>2, FirstApart, AttrFacts
    <3>2. e \in 1..Len(h.attr) /\ h.attr[e].next = Nil
      BY <3>1, TailNext
    <3>3. LL_CONCAT(h.attr, first, Nil)
          = [objs |-> [h.attr EXCEPT ![e].next = Nil], head |-> first]
      BY <2>2 DEF LL_CONCAT, TailOf
    <3> HIDE DEF e
    <3>4. [h.attr EXCEPT ![e].next = Nil] = h.attr
      <4>1. h.attr[e] \in AttrRecord
        BY <1>1, <3>2, ElementOfSeq
      <4>2. h.attr[e] = [h.attr[e] EXCEPT !.next = h.attr[e].next]
        BY <4>1 DEF AttrRecord
      <4> QED
        BY <1>1, <3>2, <4>2, NextStaysNil
    <3> QED
      BY <3>3, <3>4
  <2> QED
    BY <2>1, <2>2
<1>4. Joined(h, n, Nil) = [h EXCEPT !.attr = h.attr, !.node = [h.node EXCEPT ![n].first = first]]
  BY <1>3 DEF Joined, Sound, Typed
<1>5. [h EXCEPT !.attr = h.attr, !.node = h.node] = h
  BY DEF Sound, Typed
<1> HIDE DEF first
<1>6. Joined(h, n, Nil) = [h EXCEPT !.attr = h.attr, !.node = h.node]
  BY <1>2, <1>4, Zenon
<1> QED
  BY <1>5, <1>6, Zenon

EitherOrder(s, n, m, p) ==
    [[s EXCEPT ![n].first = p] EXCEPT ![m].first = Nil]
    = [[s EXCEPT ![m] = [s[m] EXCEPT !.first = Nil]] EXCEPT ![n].first = p]

LEMMA TwoNodesChanged ==
    ASSUME NEW s \in Seq(NodeRecord), NEW n \in 1..Len(s), NEW m \in 1..Len(s), n # m, NEW p
    PROVE  EitherOrder(s, n, m, p)
<1> DEFINE x == [s[n] EXCEPT !.first = p]
           y == [s[m] EXCEPT !.first = Nil]
<1>1. s = [i \in 1..Len(s) |-> s[i]] /\ DOMAIN s = 1..Len(s)
  OBVIOUS
<1>2. /\ [[s EXCEPT ![n].first = p] EXCEPT ![m].first = Nil] = [[s EXCEPT ![n] = x] EXCEPT ![m] = y]
      /\ [[s EXCEPT ![m] = y] EXCEPT ![n].first = p] = [[s EXCEPT ![m] = y] EXCEPT ![n] = x]
  BY <1>1
<1> HIDE DEF x, y
<1>3. [[s EXCEPT ![n] = x] EXCEPT ![m] = y] = [[s EXCEPT ![m] = y] EXCEPT ![n] = x]
  BY <1>1
<1> QED
  BY <1>2, <1>3 DEF EitherOrder, x, y

\* ast_node_extend: the attributes of m are taken from it and go behind those of n ...
Moved(h, n, m, h1, nodes, attrs) ==
    IF h.node[m].first = Nil THEN h1 = h
    ELSE \E g : /\ Sound(g, nodes, attrs \cup {h.node[m].first}) /\ Emptied(h, m, g)
                /\ h1 = Joined(g, n, h.node[m].first)

LEMMA ExtendMoves ==
    ASSUME NEW h, NEW nodes, NEW attrs, Sound(h, nodes, attrs),
           NEW n \in nodes, NEW m \in nodes, m # n
    PROVE  \E h1 : /\ Moved(h, n, m, h1, nodes, attrs)
                   /\ ast_node_extend(h, n, m) = ast_node_destroy(h1, m)
<1> DEFINE f    == h.node[m].first
           list == LL_CONCAT(h.attr, h.node[n].first, f)
           h1   == [h EXCEPT !.attr = list.objs, !.node[n].first = list.head, !.node[m].first = Nil]
           h2   == ast_node_extend(h, n, m)
<1>1. /\ n \in 1..Len(h.node) /\ m \in 1..Len(h.node)
      /\ h.node \in Seq(NodeRecord) /\ h.node[m] \in NodeRecord
  BY NodeFacts DEF Sound, Typed
<1>2. h2 = ast_node_destroy(h1, m)
  BY DEF ast_node_extend
<1>3. Moved(h, n, m, h1, nodes, attrs)
  <2>1. CASE f = Nil
    <3>1. Joined(h, n, Nil) = h
      BY JoinNil
    <3>2. h1 = [Joined(h, n, Nil) EXCEPT !.node[m].first = Nil]
      BY <2>1 DEF Joined, Sound, Typed
    <3>3. [h.node EXCEPT ![m].first = Nil] = h.node
      <4>1. [h.node[m] EXCEPT !.first = Nil] = h.node[m]
        BY <1>1, <2>1 DEF NodeRecord
      <4>2. [h.node EXCEPT ![m] = h.node[m]] = h.node
        BY <1>1
      <4>3. [h.node EXCEPT ![m].first = Nil]
            = [h.node EXCEPT ![m] = [h.node[m] EXCEPT !.first = Nil]]
        BY <1>1
      <4> QED
        BY <4>1, <4>2, <4>3
    <3> HIDE DEF f, list
    <3>4. h1 = h
      <4>1. h1 = [h EXCEPT !.node = [h.node EXCEPT ![m].first = Nil]]
        BY <3>1, <3>2
      <4> QED
        BY <3>3, <4>1 DEF Sound, Typed
    <3> HIDE DEF h1
    <3> QED
      BY <2>1, <3>4 DEF Moved, f
  <2>2. CASE f # Nil
    <3> DEFINE rec == [h.node[m] EXCEPT !.first = Nil]
               g   == PutNode(h, m, rec)
    <3>1. Sound(g, nodes, attrs \cup {f}) /\ NodeChange(h, m, rec, g)
      BY <2>2, FirstReleased
    <3>2. g.attr = h.attr /\ g.node[n] = h.node[n]
      BY <1>1, <3>1 DEF NodeChange, SameBut
    <3>3. h1 = Joined(g, n, f)
      <4>1. Joined(g, n, f) = [g EXCEPT !.attr = list.objs, !.node[n].first = list.head]
        BY <3>2 DEF Joined
      <4>2. g = [h EXCEPT !.node = [h.node EXCEPT ![m] = rec]]
        BY DEF PutNode
      <4>3. Joined(g, n, f)
            = [h EXCEPT !.attr = list.objs,
                        !.node = [[h.node EXCEPT ![m] = rec] EXCEPT ![n].first = list.head]]
        BY <4>1, <4>2 DEF Sound, Typed
      <4>4. h1 = [h EXCEPT !.attr = list.objs,
                           !.node = [[h.node EXCEPT ![n].first = list.head] EXCEPT ![m].first = Nil]]
        OBVIOUS
      <4>5. [[h.node EXCEPT ![n].first = list.head] EXCEPT ![m].first = Nil]
            = [[h.node EXCEPT ![m] = rec] EXCEPT ![n].first = list.head]
        <5>1. EitherOrder(h.node, n, m, list.head)
          BY <1>1, TwoNodesChanged
        <5> QED
          BY <5>1 DEF EitherOrder
      <4> HIDE DEF h1, g, list, f, rec
      <4> QED
        BY <4>3, <4>4, <4>5
    <3> HIDE DEF g, f, h1, list
    <3>4. Emptied(h, m, g)
      BY <3>1 DEF Emptied
    <3> QED
      BY <2>2, <3>1, <3>3, <3>4 DEF Moved, f
  <2> QED
    BY <2>1, <2>2
<1> HIDE DEF h1, h2
<1>4. Moved(h, n, m, h1, nodes, attrs) /\ h2 = ast_node_destroy(h1, m)
  BY <1>2, <1>3
<1> QED
  BY <1>4 DEF h2

\* ... and m is destroyed.
LEMMA ExtendOutcome ==
    ASSUME NEW h, NEW nodes, NEW attrs, Sound(h, nodes, attrs), Running(h),
           NEW n \in nodes, NEW m \in nodes, m # n
    PROVE  Outcome(h, ast_node_extend(h, n, m), nodes \ {m}, attrs)
<1> DEFINE f  == h.node[m].first
           h2 == ast_node_extend(h, n, m)
<1>1. PICK h1 : Moved(h, n, m, h1, nodes, attrs) /\ h2 = ast_node_destroy(h1, m)
  BY ExtendMoves
<1>2. Outcome(h, h1, nodes, attrs) /\ Running(h1)
  <2>1. CASE f = Nil
    <3>1. h1 = h
      BY <1>1, <2>1 DEF Moved
    <3> QED
      BY <3>1, Same
  <2>2. CASE f # Nil
    <3>1. PICK g : /\ Sound(g, nodes, attrs \cup {f}) /\ Emptied(h, m, g)
                   /\ h1 = Joined(g, n, f)
      BY <1>1, <2>2 DEF Moved
    <3>2. f \notin attrs
      BY <2>2, FirstApart
    <3> HIDE DEF f, h2
    <3>3. Outcome(h, g, nodes, attrs \cup {f}) /\ g.status = h.status
      BY <3>1, AfterNodeChange DEF Emptied
    <3>4. Outcome(g, h1, nodes, (attrs \cup {f}) \ {f}) /\ h1.status = g.status
      BY <3>1, JoinOutcome
    <3>5. (attrs \cup {f}) \ {f} = attrs
      BY <3>2
    <3>6. Outcome(h, h1, nodes, attrs)
      BY <3>3, <3>4, <3>5, OneAfterAnother
    <3> QED
      BY <3>3, <3>4, <3>6 DEF Running
  <2> QED
    BY <2>1, <2>2
<1> HIDE DEF h2
<1>3. Outcome(h1, h2, nodes \ {m}, attrs)
  BY <1>1, <1>2, DestroyNodeOutcome DEF Outcome
<1>4. Outcome(h, h2, nodes \ {m}, attrs)
  BY <1>2, <1>3, OneAfterAnother
<1> QED
  BY <1>4 DEF h2

\* An attribute the caller has made is not behind another.
LEMMA LooseApart ==
    ASSUME NEW h, NEW nodes, NEW attrs, Sound(h, nodes, attrs), NEW a \in attrs
    PROVE  a \in Live(h.attr) /\ Unlinked(Nexts(h.attr), Len(h.attr), a)
BY DEF Sound, AttrLists, Lists, Apart, Unlinked

\* Nothing is allocated.
LEMMA EmptyIsSound == Sound(EmptyHeap, {}, {})
<1> DEFINE h == EmptyHeap
<1>1. h.node = <<>> /\ h.attr = <<>> /\ Len(h.node) = 0 /\ Len(h.attr) = 0
  BY DEF EmptyHeap
<1>2. Typed(h)
  BY <1>1 DEF Typed, EmptyHeap
<1> HIDE DEF h
<1>3. /\ Nexts(h.node) \in [1..0 -> 0..0] /\ Nexts(h.attr) \in [1..0 -> 0..0]
      /\ Firsts(h.node) \in [1..0 -> 0..0] /\ Subs(h.attr) \in [1..0 -> 0..0]
      /\ Live(h.node) = {} /\ Live(h.attr) = {}
  BY <1>1 DEF Nexts, Firsts, Subs, Live
<1>4. ASSUME NEW next \in [1..0 -> 0..0], NEW from \in [1..0 -> 0..0]
      PROVE  Lists(0, 0, next, from, {}, {})
  <2>1. Ending(next, 0)
    <3> DEFINE f == [q \in 0..0 |-> <<>>]
    <3>1. f \in [0..0 -> Seq(1..0)]
      OBVIOUS
    <3>2. f[Nil] = <<>>
      BY DEF Nil
    <3> HIDE DEF f
    <3>3. Walk(next, 0, f)
      BY <3>2 DEF Walk
    <3> QED
      BY <3>1, <3>3 DEF Ending
  <2>2. Apart(0, 0, next, from, {}, {}) /\ Kept(0, 0, next, from, {}, {})
    BY DEF Apart, Kept
  <2> QED
    BY <2>1, <2>2 DEF Lists
<1>5. NodeLists(h, {}) /\ AttrLists(h, {})
  BY <1>1, <1>3, <1>4 DEF NodeLists, AttrLists
<1>6. DeadEmpty(h)
  BY <1>1 DEF DeadEmpty
<1> QED
  BY <1>2, <1>5, <1>6 DEF Sound, h
=============================================================================

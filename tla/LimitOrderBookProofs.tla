------------------------ MODULE LimitOrderBookProofs ------------------------
(***************************************************************************)
(* The book's slots and links, for every capacity and every feed: no        *)
(* sequence of messages loses or doubles a slot of a pool, and every        *)
(* level's list runs both ways through exactly the live orders of that      *)
(* level, whose shares add up to its volume. And what the slots and links   *)
(* stand for, live orders and a queue per level, changes as OrderBook says: *)
(* each member function's effect on the links is followed by its effect on  *)
(* a level's list as a sequence, and then on what the book means.           *)
(***************************************************************************)
EXTENDS LimitOrderBook, SequenceTheorems, FiniteSetTheorems, WellFoundedInduction, TLAPS

----
(* The intrusive lists, as functions: next, prev and level of each order,    *)
(* head and tail of each level, over the set of slots in use                 *)

\* Both ends of a level are in use and on the level, or the level has neither.
EndsLinked(next, prev, level, head, tail, used) ==
    \A j \in LevelSlots :
        /\ (head[j] = NIL) <=> (tail[j] = NIL)
        /\ head[j] # NIL => head[j] \in used /\ level[head[j]] = j /\ prev[head[j]] = NIL
        /\ tail[j] # NIL => tail[j] \in used /\ level[tail[j]] = j /\ next[tail[j]] = NIL

\* An order in use is an end, or its neighbour is in use, on the same level and points back.
OrdersLinked(next, prev, level, head, tail, used) ==
    \A i \in used :
        /\ level[i] \in LevelSlots
        /\ head[level[i]] # NIL
        /\ (next[i] = NIL) <=> (tail[level[i]] = i)
        /\ (prev[i] = NIL) <=> (head[level[i]] = i)
        /\ next[i] # NIL =>
              next[i] \in used /\ level[next[i]] = level[i] /\ prev[next[i]] = i
        /\ prev[i] # NIL =>
              prev[i] \in used /\ level[prev[i]] = level[i] /\ next[prev[i]] = i

\* The orders can be numbered by their arrival, so that no chain of links is a ring beside
\* the list. Without it a ring could be what is left of a level whose list empties.
Numbered(prev, used, arrival) ==
    /\ arrival \in [used -> Nat]
    /\ \A i \in used : prev[i] # NIL => arrival[prev[i]] < arrival[i]

Linked(next, prev, level, head, tail, used) ==
    /\ EndsLinked(next, prev, level, head, tail, used)
    /\ OrdersLinked(next, prev, level, head, tail, used)
    /\ \E arrival : Numbered(prev, used, arrival)

\* Slots are not the index that stands for none.
LEMMA SlotsAreNotNIL == NIL \notin OrderSlots /\ NIL \notin LevelSlots
BY PoolAssumption DEF NIL, OrderSlots, LevelSlots

\* A set of naturals that is not empty has a least member.
LEMMA LeastOf ==
    ASSUME NEW S \in SUBSET Nat, S # {}
    PROVE  \E n \in S : \A m \in S : n <= m
<1> DEFINE R == OpToRel(<, Nat)
<1>1. IsWellFoundedOn(R, Nat)
  BY NatLessThanWellFounded, Zenon
<1>2. \A m, n \in Nat : <<m, n>> \in R <=> m < n
  BY Zenon DEF OpToRel
<1> HIDE DEF R
<1>3. \E n \in S : \A m \in S : ~(<<m, n>> \in R)
  BY <1>1, WFMin
<1>4. PICK n \in S : \A m \in S : ~(<<m, n>> \in R)
  BY <1>3
<1>5. \A m \in S : ~(m < n)
  BY <1>2, <1>4
<1> QED
  BY <1>5

\* Enqueue on a level, as the code assigns: a slot not in use becomes the tail, and the head
\* of an empty level.
Enqueues(next, prev, level, head, tail, used, x, j, next2, prev2, level2, head2, tail2) ==
    /\ used \in SUBSET OrderSlots
    /\ x \in OrderSlots \ used
    /\ j \in LevelSlots
    /\ next2[x] = NIL /\ prev2[x] = tail[j] /\ level2[x] = j /\ tail2[j] = x
    /\ head2[j] = IF head[j] = NIL THEN x ELSE head[j]
    /\ tail[j] # NIL => next2[tail[j]] = x
    /\ \A i \in OrderSlots \ {x} : prev2[i] = prev[i] /\ level2[i] = level[i]
    /\ \A i \in OrderSlots \ {x, tail[j]} : next2[i] = next[i]
    /\ \A k \in LevelSlots \ {j} : head2[k] = head[k] /\ tail2[k] = tail[k]

\* Enqueueing keeps the lists: the new order is the last of its own.
LEMMA EnqueueLinks ==
    ASSUME NEW used, NEW x, NEW j,
           NEW next, NEW prev, NEW level, NEW head, NEW tail,
           Linked(next, prev, level, head, tail, used),
           NEW next2, NEW prev2, NEW level2, NEW head2, NEW tail2,
           Enqueues(next, prev, level, head, tail, used, x, j, next2, prev2, level2, head2,
                    tail2)
    PROVE  Linked(next2, prev2, level2, head2, tail2, used \cup {x})
<1> USE DEF Enqueues
<1> USE SlotsAreNotNIL
<1>1. /\ EndsLinked(next, prev, level, head, tail, used)
      /\ OrdersLinked(next, prev, level, head, tail, used)
  BY DEF Linked
<1>2. EndsLinked(next2, prev2, level2, head2, tail2, used \cup {x})
  <2>1. CASE head[j] = NIL
    BY <1>1, <2>1 DEF EndsLinked
  <2>2. CASE head[j] # NIL
    BY <1>1, <2>2 DEF EndsLinked
  <2> QED
    BY <2>1, <2>2
<1>3. OrdersLinked(next2, prev2, level2, head2, tail2, used \cup {x})
  <2> SUFFICES ASSUME NEW i \in used \cup {x}
               PROVE  /\ level2[i] \in LevelSlots
                      /\ head2[level2[i]] # NIL
                      /\ (next2[i] = NIL) <=> (tail2[level2[i]] = i)
                      /\ (prev2[i] = NIL) <=> (head2[level2[i]] = i)
                      /\ next2[i] # NIL =>
                            /\ next2[i] \in used \cup {x}
                            /\ level2[next2[i]] = level2[i]
                            /\ prev2[next2[i]] = i
                      /\ prev2[i] # NIL =>
                            /\ prev2[i] \in used \cup {x}
                            /\ level2[prev2[i]] = level2[i]
                            /\ next2[prev2[i]] = i
    BY DEF OrdersLinked
  <2>1. CASE i = x
    BY <1>1, <2>1 DEF EndsLinked
  <2>2. CASE i # x /\ i = tail[j]
    BY <1>1, <2>2 DEF EndsLinked, OrdersLinked
  <2>3. CASE i # x /\ i # tail[j]
    BY <1>1, <2>3 DEF EndsLinked, OrdersLinked
  <2> QED
    BY <2>1, <2>2, <2>3
<1>4. \E arrival : Numbered(prev2, used \cup {x}, arrival)
  <2>1. PICK arrival : Numbered(prev, used, arrival)
    BY DEF Linked
  <2> DEFINE last == IF tail[j] = NIL THEN 0 ELSE arrival[tail[j]] + 1
             arrival2 == [i \in used \cup {x} |-> IF i = x THEN last ELSE arrival[i]]
  <2>2. last \in Nat /\ (tail[j] # NIL => arrival[tail[j]] < last /\ tail[j] \in used)
    BY <1>1, <2>1 DEF Numbered, EndsLinked
  <2>3. \A i \in used : prev[i] # NIL => prev[i] \in used
    BY <1>1 DEF OrdersLinked
  <2> HIDE DEF last
  <2>4. Numbered(prev2, used \cup {x}, arrival2)
    BY <2>1, <2>2, <2>3 DEF Numbered
  <2> QED
    BY <2>4
<1> QED
  BY <1>2, <1>3, <1>4 DEF Linked

\* Unlink, as the code assigns: the slot's neighbours or the level's ends are joined.
Unlinks(next, prev, level, head, tail, used, x, next2, prev2, head2, tail2) ==
    /\ used \in SUBSET OrderSlots
    /\ x \in used
    /\ next[x] # NIL => prev2[next[x]] = prev[x]
    /\ \A i \in OrderSlots \ {next[x]} : prev2[i] = prev[i]
    /\ prev[x] # NIL => next2[prev[x]] = next[x]
    /\ \A i \in OrderSlots \ {prev[x]} : next2[i] = next[i]
    /\ head2[level[x]] = IF prev[x] = NIL THEN next[x] ELSE head[level[x]]
    /\ tail2[level[x]] = IF next[x] = NIL THEN prev[x] ELSE tail[level[x]]
    /\ \A k \in LevelSlots \ {level[x]} : head2[k] = head[k] /\ tail2[k] = tail[k]

\* Unlinking keeps the lists, whichever neighbours the order has.
LEMMA UnlinkLinks ==
    ASSUME NEW used, NEW x,
           NEW next, NEW prev, NEW level, NEW head, NEW tail,
           Linked(next, prev, level, head, tail, used),
           NEW next2, NEW prev2, NEW head2, NEW tail2,
           Unlinks(next, prev, level, head, tail, used, x, next2, prev2, head2, tail2)
    PROVE  Linked(next2, prev2, level, head2, tail2, used \ {x})
<1> USE DEF Unlinks
<1> USE SlotsAreNotNIL
<1> DEFINE rest == used \ {x}
<1>1. /\ EndsLinked(next, prev, level, head, tail, used)
      /\ OrdersLinked(next, prev, level, head, tail, used)
  BY DEF Linked
<1>2. PICK arrival : Numbered(prev, used, arrival)
  BY DEF Linked
<1>3. /\ next[x] # NIL => next[x] \in rest /\ arrival[x] < arrival[next[x]]
      /\ prev[x] # NIL => prev[x] \in rest /\ arrival[prev[x]] < arrival[x]
  BY <1>1, <1>2 DEF OrdersLinked, Numbered
<1>4. prev[x] # NIL /\ next[x] # NIL => prev[x] # next[x]
  BY <1>2, <1>3 DEF Numbered
<1>5. \A i \in rest : next[i] # x \/ i = prev[x]
  BY <1>1 DEF OrdersLinked
<1>6. \A i \in rest : prev[i] # x \/ i = next[x]
  BY <1>1 DEF OrdersLinked
<1>7. Numbered(prev2, rest, [i \in rest |-> arrival[i]])
  <2>1. \A i \in rest : prev2[i] # NIL => prev2[i] \in rest /\ arrival[prev2[i]] < arrival[i]
    <3> SUFFICES ASSUME NEW i \in rest, prev2[i] # NIL
                 PROVE  prev2[i] \in rest /\ arrival[prev2[i]] < arrival[i]
      OBVIOUS
    <3>1. CASE i = next[x]
      BY <1>2, <1>3, <3>1 DEF Numbered
    <3>2. CASE i # next[x]
      BY <1>1, <1>2, <1>6, <3>2 DEF Numbered, OrdersLinked
    <3> QED
      BY <3>1, <3>2
  <2> QED
    BY <1>2, <2>1 DEF Numbered

<1>8. EndsLinked(next2, prev2, level, head2, tail2, rest)
  <2> SUFFICES ASSUME NEW j \in LevelSlots
               PROVE  /\ (head2[j] = NIL) <=> (tail2[j] = NIL)
                      /\ head2[j] # NIL =>
                            /\ head2[j] \in rest
                            /\ level[head2[j]] = j
                            /\ prev2[head2[j]] = NIL
                      /\ tail2[j] # NIL =>
                            /\ tail2[j] \in rest
                            /\ level[tail2[j]] = j
                            /\ next2[tail2[j]] = NIL
    BY DEF EndsLinked
  <2>1. CASE j # level[x]
    BY <1>1, <2>1 DEF EndsLinked, OrdersLinked
  <2>2. CASE j = level[x]
    BY <1>1, <1>3, <1>4, <2>2 DEF EndsLinked, OrdersLinked
  <2> QED
    BY <2>1, <2>2
<1>9. OrdersLinked(next2, prev2, level, head2, tail2, rest)
  <2> SUFFICES ASSUME NEW i \in rest
               PROVE  /\ level[i] \in LevelSlots
                      /\ head2[level[i]] # NIL
                      /\ (next2[i] = NIL) <=> (tail2[level[i]] = i)
                      /\ (prev2[i] = NIL) <=> (head2[level[i]] = i)
                      /\ next2[i] # NIL =>
                            /\ next2[i] \in rest
                            /\ level[next2[i]] = level[i]
                            /\ prev2[next2[i]] = i
                      /\ prev2[i] # NIL =>
                            /\ prev2[i] \in rest
                            /\ level[prev2[i]] = level[i]
                            /\ next2[prev2[i]] = i
    BY DEF OrdersLinked
  <2>1. level[i] \in LevelSlots /\ i # x
    BY <1>1 DEF OrdersLinked
  <2>2. head2[level[i]] # NIL
    <3>1. CASE level[i] # level[x]
      BY <1>1, <3>1 DEF OrdersLinked
    <3>2. CASE level[i] = level[x]
      \* Were the list empty without x, the oldest of the others on the level would have an
      \* older one before it.
      <4>1. SUFFICES ASSUME head2[level[x]] = NIL PROVE FALSE
        BY <3>2
      <4>2. prev[x] = NIL /\ next[x] = NIL /\ head[level[x]] = x
        BY <1>1, <1>3, <4>1 DEF OrdersLinked
      <4> DEFINE others == {k \in rest : level[k] = level[x]}
                 numbers == {arrival[k] : k \in others}
      <4>3. numbers \in SUBSET Nat /\ numbers # {}
        BY <1>2, <3>2 DEF Numbered
      <4>4. PICK n \in numbers : \A m \in numbers : n <= m
        BY <4>3, LeastOf
      <4>5. PICK k \in others : arrival[k] = n
        BY <4>4
      <4>6. prev[k] # NIL /\ prev[k] # x
        BY <1>1, <4>2 DEF OrdersLinked
      <4>7. prev[k] \in others /\ arrival[prev[k]] < arrival[k]
        BY <1>1, <1>2, <4>6 DEF OrdersLinked, Numbered
      <4>8. arrival[prev[k]] \in Nat /\ arrival[k] \in Nat
        BY <1>2, <4>7 DEF Numbered
      <4> QED
        BY <4>4, <4>5, <4>7, <4>8
    <3> QED
      BY <3>1, <3>2
  <2>3. /\ (next2[i] = NIL) <=> (tail2[level[i]] = i)
        /\ next2[i] # NIL =>
              /\ next2[i] \in rest
              /\ level[next2[i]] = level[i]
              /\ prev2[next2[i]] = i
    <3>1. CASE i = prev[x]
      BY <1>1, <1>3, <1>4, <2>1, <3>1 DEF OrdersLinked
    <3>2. CASE i # prev[x]
      <4>1. next2[i] = next[i] /\ next[i] # x
        BY <1>5, <3>2
      <4>2. next[i] # NIL => next[i] # next[x]
        BY <1>1, <2>1 DEF OrdersLinked
      <4>3. next[i] # NIL => prev2[next[i]] = i
        BY <1>1, <4>2 DEF OrdersLinked
      <4>4. (next[i] = NIL) <=> (tail2[level[i]] = i)
        BY <1>1, <1>3, <2>1, <3>2 DEF OrdersLinked
      <4> QED
        BY <1>1, <4>1, <4>3, <4>4 DEF OrdersLinked
    <3> QED
      BY <3>1, <3>2
  <2>4. /\ (prev2[i] = NIL) <=> (head2[level[i]] = i)
        /\ prev2[i] # NIL =>
              /\ prev2[i] \in rest
              /\ level[prev2[i]] = level[i]
              /\ next2[prev2[i]] = i
    <3>1. CASE i = next[x]
      BY <1>1, <1>3, <1>4, <2>1, <3>1 DEF OrdersLinked
    <3>2. CASE i # next[x]
      <4>1. prev2[i] = prev[i] /\ prev[i] # x
        BY <1>6, <3>2
      <4>2. prev[i] # NIL => prev[i] # prev[x]
        BY <1>1, <2>1 DEF OrdersLinked
      <4>3. prev[i] # NIL => next2[prev[i]] = i
        BY <1>1, <4>2 DEF OrdersLinked
      <4>4. (prev[i] = NIL) <=> (head2[level[i]] = i)
        BY <1>1, <1>3, <2>1, <3>2 DEF OrdersLinked
      <4> QED
        BY <1>1, <4>1, <4>3, <4>4 DEF OrdersLinked
    <3> QED
      BY <3>1, <3>2
  <2> QED
    BY <2>1, <2>2, <2>3, <2>4
<1> QED
  BY <1>7, <1>8, <1>9 DEF Linked

----
(* Sums over the order slots                                                 *)

\* f adds up the first n amounts, one at a time.
AddsUp(f, amount, n) ==
    /\ f \in [0 .. n -> Int]
    /\ f[0] = 0
    /\ \A k \in 1 .. n : f[k] = f[k - 1] + amount[k - 1]

LEMMA SomethingAddsUp ==
    ASSUME NEW amount \in [OrderSlots -> Int]
    PROVE  \E f : AddsUp(f, amount, OrderCapacity)
<1> DEFINE bad == {n \in 0 .. OrderCapacity : ~ \E f : AddsUp(f, amount, n)}
<1>1. SUFFICES ASSUME bad # {} PROVE FALSE
  BY PoolAssumption
<1>2. bad \in SUBSET Nat
  OBVIOUS
<1>3. PICK n \in bad : \A m \in bad : n <= m
  BY <1>1, <1>2, LeastOf
<1>4. n # 0
  <2> DEFINE zero == [k \in 0 .. 0 |-> 0]
  <2>1. AddsUp(zero, amount, 0)
    BY DEF AddsUp
  <2> QED
    BY <1>3, <2>1
<1>5. n - 1 \in 0 .. OrderCapacity /\ n - 1 \notin bad /\ n - 1 \in OrderSlots /\ n \in Nat
  BY <1>3, <1>4, PoolAssumption DEF OrderSlots
<1>6. PICK f : AddsUp(f, amount, n - 1)
  BY <1>5
<1> DEFINE g == [k \in 0 .. n |-> IF k = n THEN f[n - 1] + amount[n - 1] ELSE f[k]]
<1>7. f[n - 1] \in Int /\ amount[n - 1] \in Int
  BY <1>4, <1>5, <1>6 DEF AddsUp
<1>8. /\ g \in [0 .. n -> Int]
      /\ g[0] = 0
  BY <1>4, <1>5, <1>6, <1>7 DEF AddsUp
<1>9. ASSUME NEW k \in 1 .. n PROVE g[k] = g[k - 1] + amount[k - 1]
  <2>1. CASE k = n
    BY <1>5, <2>1
  <2>2. CASE k # n
    BY <1>5, <1>6, <2>2 DEF AddsUp
  <2> QED
    BY <2>1, <2>2
<1>10. AddsUp(g, amount, n)
  BY <1>8, <1>9 DEF AddsUp
<1> QED
  BY <1>3, <1>10

LEMMA SumAddsUp ==
    ASSUME NEW amount \in [OrderSlots -> Int], NEW f, AddsUp(f, amount, OrderCapacity)
    PROVE  SumOf(amount) = f[OrderCapacity]
<1> DEFINE Step(s) == [n \in 0 .. OrderCapacity |-> IF n = 0 THEN 0 ELSE s[n - 1] + amount[n - 1]]
           sum == CHOOSE s : s = Step(s)
<1>0. OrderCapacity \in Nat
  BY PoolAssumption
<1>1. f = Step(f)
  <2>1. \A n \in 0 .. OrderCapacity :
           f[n] = IF n = 0 THEN 0 ELSE f[n - 1] + amount[n - 1]
    BY <1>0 DEF AddsUp
  <2> QED
    BY <2>1 DEF AddsUp
<1>2. sum = Step(sum)
  BY <1>1, Zenon
<1>3. SumOf(amount) = sum[OrderCapacity]
  BY Zenon DEF SumOf
<1> HIDE DEF sum
<1> DEFINE bad == {n \in 0 .. OrderCapacity : sum[n] # f[n]}
<1>4. bad = {}
  <2>1. SUFFICES ASSUME bad # {} PROVE FALSE
    OBVIOUS
  <2> bad \in SUBSET Nat
    OBVIOUS
  <2>2. PICK n \in bad : \A m \in bad : n <= m
    BY <2>1, LeastOf
  <2>3. sum[0] = 0 /\ f[0] = 0
    BY <1>0, <1>2 DEF AddsUp
  <2>4. n \in 1 .. OrderCapacity /\ n - 1 \in 0 .. OrderCapacity /\ ~(n <= n - 1)
    BY <1>0, <2>2, <2>3
  <2>5. sum[n - 1] = f[n - 1]
    BY <2>2, <2>4
  <2>6. sum[n] = sum[n - 1] + amount[n - 1]
    BY <1>2, <2>4
  <2> QED
    BY <2>2, <2>4, <2>5, <2>6 DEF AddsUp
<1> QED
  BY <1>0, <1>3, <1>4

\* Where one amount changes, the sum changes by as much.
LEMMA SumMoves ==
    ASSUME NEW before \in [OrderSlots -> Int], NEW after \in [OrderSlots -> Int],
           NEW x \in OrderSlots, \A i \in OrderSlots \ {x} : after[i] = before[i]
    PROVE  /\ SumOf(before) \in Int
           /\ SumOf(after) = SumOf(before) + (after[x] - before[x])
<1> DEFINE change == after[x] - before[x]
<1>1. PICK f : AddsUp(f, before, OrderCapacity)
  BY SomethingAddsUp
<1>2. change \in Int /\ x \in 0 .. OrderCapacity - 1 /\ OrderCapacity \in Nat
  BY PoolAssumption DEF OrderSlots
<1> DEFINE g == [n \in 0 .. OrderCapacity |-> IF n > x THEN f[n] + change ELSE f[n]]
<1>3. g \in [0 .. OrderCapacity -> Int] /\ g[0] = 0
  BY <1>1, <1>2 DEF AddsUp
<1>4. ASSUME NEW n \in 1 .. OrderCapacity PROVE g[n] = g[n - 1] + after[n - 1]
  <2>1. /\ n \in 0 .. OrderCapacity /\ n - 1 \in 0 .. OrderCapacity /\ n - 1 \in OrderSlots
        /\ f[n] = f[n - 1] + before[n - 1] /\ f[n - 1] \in Int
    BY <1>1, <1>2 DEF AddsUp, OrderSlots
  <2>2. before[n - 1] \in Int /\ after[n - 1] \in Int
    BY <2>1
  <2>3. CASE n - 1 = x
    BY <1>2, <2>1, <2>2, <2>3
  <2>4. CASE n - 1 # x
    <3>1. after[n - 1] = before[n - 1] /\ (n > x <=> n - 1 > x)
      BY <1>2, <2>1, <2>4
    <3> HIDE DEF change
    <3> QED
      BY <1>2, <2>1, <2>2, <3>1
  <2> QED
    BY <2>3, <2>4
<1>5. AddsUp(g, after, OrderCapacity)
  BY <1>3, <1>4 DEF AddsUp
<1>6. SumOf(before) = f[OrderCapacity] /\ SumOf(after) = g[OrderCapacity]
  BY <1>1, <1>5, SumAddsUp
<1>7. g[OrderCapacity] = f[OrderCapacity] + change /\ f[OrderCapacity] \in Int
  BY <1>1, <1>2 DEF AddsUp
<1> QED
  BY <1>6, <1>7

\* Zeros add up to zero.
LEMMA SumOfNothing ==
    ASSUME NEW amount \in [OrderSlots -> Int], \A i \in OrderSlots : amount[i] = 0
    PROVE  SumOf(amount) = 0
<1> DEFINE zero == [n \in 0 .. OrderCapacity |-> 0]
<1>1. AddsUp(zero, amount, OrderCapacity)
  BY PoolAssumption DEF AddsUp, OrderSlots
<1>2. SumOf(amount) = zero[OrderCapacity]
  BY <1>1, SumAddsUp
<1> QED
  BY <1>2, PoolAssumption

\* A number is its remainder and a multiple of the modulus in one way only.
LEMMA WrapIs ==
    ASSUME NEW n \in Int, NEW k \in Int, NEW r \in 0 .. VolumeModulus - 1,
           n = VolumeModulus * k + r
    PROVE  Wrap(n) = r
<1> DEFINE m == VolumeModulus
           q == n \div m
<1>1. m \in Int /\ m > 0
  BY FeedAssumption
<1>2. q \in Int /\ Wrap(n) \in 0 .. m - 1 /\ n = m * q + Wrap(n)
  BY <1>1 DEF Wrap
<1> HIDE DEF m, q
<1>3. m * k + r = m * q + Wrap(n) /\ r \in 0 .. m - 1
  BY <1>2 DEF m
<1>4. m * (q - k) = m * q - m * k /\ m * (k - q) = m * k - m * q
  BY <1>1, <1>2
<1>5. m * k \in Int /\ m * q \in Int /\ r \in Int /\ Wrap(n) \in Int
  BY <1>1, <1>2, <1>3
<1>6. CASE q - k >= 1
  <2>1. m * (q - k) >= m
    BY <1>1, <1>2, <1>6
  <2> QED
    BY <1>1, <1>2, <1>3, <1>4, <1>5, <2>1
<1>7. CASE k - q >= 1
  <2>1. m * (k - q) >= m
    BY <1>1, <1>2, <1>7
  <2> QED
    BY <1>1, <1>2, <1>3, <1>4, <1>5, <2>1
<1>8. CASE q = k
  BY <1>3, <1>5, <1>8
<1> QED
  BY <1>2, <1>6, <1>7, <1>8

\* Wrapping before an addition changes nothing that wrapping after it does not.
LEMMA WrapsAgree ==
    ASSUME NEW a \in Int, NEW d \in Int
    PROVE  Wrap(Wrap(a) + d) = Wrap(a + d) /\ Wrap(a) \in Int
<1> DEFINE m == VolumeModulus
           q == a \div m
           p == (Wrap(a) + d) \div m
<1>1. m \in Int /\ m > 0
  BY FeedAssumption
<1>2. q \in Int /\ Wrap(a) \in 0 .. m - 1 /\ a = m * q + Wrap(a)
  BY <1>1 DEF Wrap
<1>3. Wrap(a) + d \in Int
  BY <1>1, <1>2
<1>4. /\ p \in Int
      /\ Wrap(Wrap(a) + d) \in 0 .. m - 1
      /\ Wrap(a) + d = m * p + Wrap(Wrap(a) + d)
  BY <1>1, <1>3 DEF Wrap
<1> HIDE DEF q, p
<1>5. m * (q + p) = m * q + m * p
  BY <1>1, <1>2, <1>4
<1>6. /\ m * q \in Int /\ m * p \in Int /\ q + p \in Int /\ Wrap(a) \in Int
      /\ Wrap(Wrap(a) + d) \in Int
  BY <1>1, <1>2, <1>4
<1>7. a + d = m * (q + p) + Wrap(Wrap(a) + d)
  BY <1>2, <1>4, <1>5, <1>6
<1>8. a + d \in Int
  OBVIOUS
<1> QED
  BY <1>4, <1>6, <1>7, <1>8, WrapIs

\* A wrapped number is a number.
LEMMA WrapIsInt == \A n \in Int : Wrap(n) \in Int
<1>1. VolumeModulus \in Int /\ VolumeModulus > 0
  BY FeedAssumption
<1> QED
  BY <1>1 DEF Wrap

\* What a fresh level is given needs no wrapping.
LEMMA SharesFit ==
    ASSUME NEW shares \in 0 .. VolumeModulus - 1
    PROVE  Wrap(shares) = shares
<1>1. VolumeModulus \in Int /\ shares \in Int
  BY FeedAssumption
<1>2. PICK none \in Int : none = 0
  OBVIOUS
<1>3. shares = VolumeModulus * none + shares
  BY <1>1, <1>2
<1> QED
  BY <1>1, <1>3, WrapIs

----
(* What each part of a member function assigns                               *)

BookFields == {"order_pool", "order_free_list", "price_level_pool", "price_level_free_list",
               "orders", "price_level_maps", "str_to_locate", "locate_to_str", "status"}

OrderRecords == [next : Int, prev : Int, level : Int, shares : Int, side : Sides \cup {NoSide}]
LevelRecords == [head : Int, tail : Int, price : Prices \cup {0}, total_volume : Int]

BookType(b) ==
    /\ DOMAIN b = BookFields
    /\ b.order_pool \in [OrderSlots -> OrderRecords]
    /\ b.price_level_pool \in [LevelSlots -> LevelRecords]
    /\ b.order_free_list \in Seq(OrderSlots)
    /\ b.price_level_free_list \in Seq(LevelSlots)
    /\ b.orders \in [0 .. MaxOrderRef - 1 -> OrderSlots \cup {NIL}]
    /\ b.price_level_maps = [l \in DOMAIN b.price_level_maps |-> b.price_level_maps[l]]
    /\ \A l \in DOMAIN b.price_level_maps :
          /\ DOMAIN b.price_level_maps[l] \subseteq Prices
          /\ \A p \in DOMAIN b.price_level_maps[l] : b.price_level_maps[l][p] \in LevelSlots

\* What is left of a free list once its top is taken, and with a slot put on top.
LEMMA TakenFromTop ==
    ASSUME NEW S, NEW list \in Seq(S), list # <<>>
    PROVE  /\ Front(list) \in Seq(S)
           /\ Last(list) \in S
           /\ Last(list) \in Range(list)
           /\ IsInjective(list) =>
                 IsInjective(Front(list)) /\ Range(Front(list)) = Range(list) \ {Last(list)}
<1>1. Len(list) \in Nat /\ Len(list) # 0 /\ DOMAIN list = 1 .. Len(list)
  OBVIOUS
<1>2. /\ Front(list) \in Seq(S)
      /\ Len(Front(list)) = Len(list) - 1
      /\ \A k \in 1 .. Len(list) - 1 : Front(list)[k] = list[k]
  BY <1>1 DEF Front
<1>3. DOMAIN Front(list) = 1 .. Len(list) - 1
  BY <1>2
<1>4. /\ Len(list) \in DOMAIN list /\ Len(list) \notin 1 .. Len(list) - 1
      /\ \A k \in DOMAIN list : k \in 1 .. Len(list) - 1 \/ k = Len(list)
      /\ \A k \in 1 .. Len(list) - 1 : k \in DOMAIN list
  BY <1>1
<1>5. Last(list) \in S /\ Last(list) \in Range(list)
  BY <1>1, <1>4 DEF Last, Range
<1>6. ASSUME IsInjective(list)
      PROVE  IsInjective(Front(list)) /\ Range(Front(list)) = Range(list) \ {Last(list)}
  <2> DEFINE rest == Front(list)
  <2>1. /\ DOMAIN rest = 1 .. Len(list) - 1
        /\ \A k \in DOMAIN rest : rest[k] = list[k] /\ k \in DOMAIN list /\ k # Len(list)
        /\ \A k \in DOMAIN list : k \in DOMAIN rest \/ k = Len(list)
        /\ Len(list) \in DOMAIN list
    BY <1>1, <1>2, <1>3, <1>4
  <2> HIDE DEF rest
  <2>2. IsInjective(rest)
    BY <1>6, <2>1 DEF IsInjective
  <2>3. \A y : y \in Range(rest) <=> y \in Range(list) /\ y # list[Len(list)]
    BY <1>6, <2>1 DEF IsInjective, Range
  <2> QED
    BY <2>2, <2>3 DEF rest, Last
<1> QED
  BY <1>2, <1>5, <1>6

\* A slot that goes back to a free list.
LEMMA PutOnTop ==
    ASSUME NEW S, NEW list \in Seq(S), NEW x \in S
    PROVE  /\ Append(list, x) \in Seq(S)
           /\ IsInjective(list) /\ x \notin Range(list) =>
                 IsInjective(Append(list, x)) /\ Range(Append(list, x)) = Range(list) \cup {x}
<1>1. /\ Len(list) \in Nat
      /\ DOMAIN list = 1 .. Len(list)
      /\ Append(list, x) \in Seq(S)
      /\ DOMAIN Append(list, x) = 1 .. Len(list) + 1
      /\ Append(list, x)[Len(list) + 1] = x
      /\ \A k \in 1 .. Len(list) : Append(list, x)[k] = list[k]
  OBVIOUS
<1>2. /\ Len(list) + 1 \in 1 .. Len(list) + 1
      /\ \A k \in 1 .. Len(list) + 1 : k \in 1 .. Len(list) \/ k = Len(list) + 1
      /\ \A k \in 1 .. Len(list) : k \in 1 .. Len(list) + 1
  BY <1>1
<1>3. ASSUME IsInjective(list), x \notin Range(list)
      PROVE  IsInjective(Append(list, x)) /\ Range(Append(list, x)) = Range(list) \cup {x}
  BY <1>1, <1>2, <1>3 DEF IsInjective, Range
<1> QED
  BY <1>1, <1>3

\* One field of one record, assigned.
LEMMA WithNext ==
    ASSUME NEW pool \in [OrderSlots -> OrderRecords], NEW i \in OrderSlots, NEW v \in Int
    PROVE  LET c == [pool EXCEPT ![i].next = v]
           IN  /\ c \in [OrderSlots -> OrderRecords]
               /\ c[i].next = v
               /\ c[i].prev = pool[i].prev
               /\ c[i].level = pool[i].level
               /\ c[i].shares = pool[i].shares
               /\ c[i].side = pool[i].side
               /\ \A k \in OrderSlots \ {i} : c[k] = pool[k]
<1> DEFINE r == [pool[i] EXCEPT !.next = v]
<1>1. /\ r \in OrderRecords
      /\ r.next = v
      /\ r.prev = pool[i].prev
      /\ r.level = pool[i].level
      /\ r.shares = pool[i].shares
      /\ r.side = pool[i].side
  BY DEF OrderRecords
<1> HIDE DEF r
<1>2. [pool EXCEPT ![i].next = v] = [pool EXCEPT ![i] = r]
  BY DEF r
<1> QED
  BY <1>1, <1>2

LEMMA WithPrev ==
    ASSUME NEW pool \in [OrderSlots -> OrderRecords], NEW i \in OrderSlots, NEW v \in Int
    PROVE  LET c == [pool EXCEPT ![i].prev = v]
           IN  /\ c \in [OrderSlots -> OrderRecords]
               /\ c[i].prev = v
               /\ c[i].next = pool[i].next
               /\ c[i].level = pool[i].level
               /\ c[i].shares = pool[i].shares
               /\ c[i].side = pool[i].side
               /\ \A k \in OrderSlots \ {i} : c[k] = pool[k]
<1> DEFINE r == [pool[i] EXCEPT !.prev = v]
<1>1. /\ r \in OrderRecords
      /\ r.prev = v
      /\ r.next = pool[i].next
      /\ r.level = pool[i].level
      /\ r.shares = pool[i].shares
      /\ r.side = pool[i].side
  BY DEF OrderRecords
<1> HIDE DEF r
<1>2. [pool EXCEPT ![i].prev = v] = [pool EXCEPT ![i] = r]
  BY DEF r
<1> QED
  BY <1>1, <1>2

LEMMA WithLevel ==
    ASSUME NEW pool \in [OrderSlots -> OrderRecords], NEW i \in OrderSlots, NEW v \in Int
    PROVE  LET c == [pool EXCEPT ![i].level = v]
           IN  /\ c \in [OrderSlots -> OrderRecords]
               /\ c[i].level = v
               /\ c[i].next = pool[i].next
               /\ c[i].prev = pool[i].prev
               /\ c[i].shares = pool[i].shares
               /\ c[i].side = pool[i].side
               /\ \A k \in OrderSlots \ {i} : c[k] = pool[k]
<1> DEFINE r == [pool[i] EXCEPT !.level = v]
<1>1. /\ r \in OrderRecords
      /\ r.level = v
      /\ r.next = pool[i].next
      /\ r.prev = pool[i].prev
      /\ r.shares = pool[i].shares
      /\ r.side = pool[i].side
  BY DEF OrderRecords
<1> HIDE DEF r
<1>2. [pool EXCEPT ![i].level = v] = [pool EXCEPT ![i] = r]
  BY DEF r
<1> QED
  BY <1>1, <1>2

LEMMA WithShares ==
    ASSUME NEW pool \in [OrderSlots -> OrderRecords], NEW i \in OrderSlots, NEW v \in Int
    PROVE  LET c == [pool EXCEPT ![i].shares = v]
           IN  /\ c \in [OrderSlots -> OrderRecords]
               /\ c[i].shares = v
               /\ c[i].next = pool[i].next
               /\ c[i].prev = pool[i].prev
               /\ c[i].level = pool[i].level
               /\ c[i].side = pool[i].side
               /\ \A k \in OrderSlots \ {i} : c[k] = pool[k]
<1> DEFINE r == [pool[i] EXCEPT !.shares = v]
<1>1. /\ r \in OrderRecords
      /\ r.shares = v
      /\ r.next = pool[i].next
      /\ r.prev = pool[i].prev
      /\ r.level = pool[i].level
      /\ r.side = pool[i].side
  BY DEF OrderRecords
<1> HIDE DEF r
<1>2. [pool EXCEPT ![i].shares = v] = [pool EXCEPT ![i] = r]
  BY DEF r
<1> QED
  BY <1>1, <1>2

LEMMA WithHead ==
    ASSUME NEW pool \in [LevelSlots -> LevelRecords], NEW i \in LevelSlots, NEW v \in Int
    PROVE  LET c == [pool EXCEPT ![i].head = v]
           IN  /\ c \in [LevelSlots -> LevelRecords]
               /\ c[i].head = v
               /\ c[i].tail = pool[i].tail
               /\ c[i].price = pool[i].price
               /\ c[i].total_volume = pool[i].total_volume
               /\ \A k \in LevelSlots \ {i} : c[k] = pool[k]
<1> DEFINE r == [pool[i] EXCEPT !.head = v]
<1>1. /\ r \in LevelRecords
      /\ r.head = v
      /\ r.tail = pool[i].tail
      /\ r.price = pool[i].price
      /\ r.total_volume = pool[i].total_volume
  BY DEF LevelRecords
<1> HIDE DEF r
<1>2. [pool EXCEPT ![i].head = v] = [pool EXCEPT ![i] = r]
  BY DEF r
<1> QED
  BY <1>1, <1>2

LEMMA WithTail ==
    ASSUME NEW pool \in [LevelSlots -> LevelRecords], NEW i \in LevelSlots, NEW v \in Int
    PROVE  LET c == [pool EXCEPT ![i].tail = v]
           IN  /\ c \in [LevelSlots -> LevelRecords]
               /\ c[i].tail = v
               /\ c[i].head = pool[i].head
               /\ c[i].price = pool[i].price
               /\ c[i].total_volume = pool[i].total_volume
               /\ \A k \in LevelSlots \ {i} : c[k] = pool[k]
<1> DEFINE r == [pool[i] EXCEPT !.tail = v]
<1>1. /\ r \in LevelRecords
      /\ r.tail = v
      /\ r.head = pool[i].head
      /\ r.price = pool[i].price
      /\ r.total_volume = pool[i].total_volume
  BY DEF LevelRecords
<1> HIDE DEF r
<1>2. [pool EXCEPT ![i].tail = v] = [pool EXCEPT ![i] = r]
  BY DEF r
<1> QED
  BY <1>1, <1>2

LEMMA WithTotalVolume ==
    ASSUME NEW pool \in [LevelSlots -> LevelRecords], NEW i \in LevelSlots, NEW v \in Int
    PROVE  LET c == [pool EXCEPT ![i].total_volume = v]
           IN  /\ c \in [LevelSlots -> LevelRecords]
               /\ c[i].total_volume = v
               /\ c[i].head = pool[i].head
               /\ c[i].tail = pool[i].tail
               /\ c[i].price = pool[i].price
               /\ \A k \in LevelSlots \ {i} : c[k] = pool[k]
<1> DEFINE r == [pool[i] EXCEPT !.total_volume = v]
<1>1. /\ r \in LevelRecords
      /\ r.total_volume = v
      /\ r.head = pool[i].head
      /\ r.tail = pool[i].tail
      /\ r.price = pool[i].price
  BY DEF LevelRecords
<1> HIDE DEF r
<1>2. [pool EXCEPT ![i].total_volume = v] = [pool EXCEPT ![i] = r]
  BY DEF r
<1> QED
  BY <1>1, <1>2

\* A slot taken for an order, and the rest as it was.
PlacedAs(c, b, index, ref, side, shares) ==
    /\ c.order_free_list = Front(b.order_free_list)
    /\ c.orders = [b.orders EXCEPT ![ref] = index]
    /\ c.order_pool[index].next = NIL /\ c.order_pool[index].prev = NIL
    /\ c.order_pool[index].shares = shares /\ c.order_pool[index].side = side
    /\ \A i \in OrderSlots \ {index} : c.order_pool[i] = b.order_pool[i]
    /\ c.price_level_free_list = b.price_level_free_list
    /\ c.price_level_pool = b.price_level_pool
    /\ c.price_level_maps = b.price_level_maps

\* What Placed assigns.
LEMMA PlacedFields ==
    ASSUME NEW b, BookType(b), b.order_free_list # <<>>,
           NEW index \in OrderSlots, NEW ref \in DOMAIN b.orders,
           NEW side \in Sides \cup {NoSide}, NEW shares \in Int,
           NEW c, c = Placed(b, index, ref, side, shares)
    PROVE  BookType(c) /\ PlacedAs(c, b, index, ref, side, shares)
<1>1. Front(b.order_free_list) \in Seq(OrderSlots)
  BY TakenFromTop DEF BookType
<1>2. /\ DOMAIN c = BookFields
      /\ c.status = b.status
      /\ c.order_free_list = Front(b.order_free_list)
      /\ c.orders = [b.orders EXCEPT ![ref] = index]
      /\ c.price_level_free_list = b.price_level_free_list
      /\ c.price_level_pool = b.price_level_pool
      /\ c.price_level_maps = b.price_level_maps
  BY DEF BookType, BookFields, Placed
<1> DEFINE order == [b.order_pool[index] EXCEPT !.side = side, !.shares = shares,
                                                !.next = NIL, !.prev = NIL]
<1>3. c.order_pool = [b.order_pool EXCEPT ![index] = order]
  BY DEF BookType, BookFields, Placed
<1>6. /\ order \in OrderRecords
      /\ order.next = NIL /\ order.prev = NIL /\ order.shares = shares /\ order.side = side
  <2> DEFINE sided == [b.order_pool[index] EXCEPT !.side = side]
             sized == [sided EXCEPT !.shares = shares]
             first == [sized EXCEPT !.next = NIL]
  <2>1. sided \in OrderRecords /\ sided.side = side
    BY ZenonT(40) DEF BookType, OrderRecords
  <2> HIDE DEF sided
  <2>2. sized \in OrderRecords /\ sized.shares = shares /\ sized.side = side
    BY <2>1 DEF OrderRecords
  <2> HIDE DEF sized
  <2>3. first \in OrderRecords /\ first.next = NIL /\ first.shares = shares /\ first.side = side
    BY <2>2 DEF OrderRecords, NIL
  <2>4. order = [first EXCEPT !.prev = NIL]
    BY DEF sided, sized
  <2> HIDE DEF first, order
  <2> QED
    BY <2>3, <2>4 DEF OrderRecords, NIL
<1> HIDE DEF order
<1>4. /\ c.order_pool \in [OrderSlots -> OrderRecords]
      /\ c.order_pool[index].next = NIL /\ c.order_pool[index].prev = NIL
      /\ c.order_pool[index].shares = shares /\ c.order_pool[index].side = side
      /\ \A i \in OrderSlots \ {index} : c.order_pool[i] = b.order_pool[i]
  BY <1>3, <1>6 DEF BookType
<1>5. BookType(c)
  BY <1>1, <1>2, <1>4, ZenonT(40) DEF BookType
<1> QED
  BY <1>2, <1>4, <1>5 DEF PlacedAs

\* What Joined assigns.
LEMMA JoinedFields ==
    ASSUME NEW b, BookType(b), NEW index \in OrderSlots, NEW level \in LevelSlots,
           NEW shares \in Int
    PROVE  LET c == Joined(b, index, level, shares)
           IN  /\ BookType(c)
               /\ c.status = b.status
               /\ c.order_free_list = b.order_free_list
               /\ c.orders = b.orders
               /\ c.order_pool = [b.order_pool EXCEPT ![index].level = level]
               /\ c.price_level_free_list = b.price_level_free_list
               /\ c.price_level_maps = b.price_level_maps
               /\ c.price_level_pool[level].total_volume =
                     Wrap(b.price_level_pool[level].total_volume + shares)
               /\ \A j \in LevelSlots :
                     /\ c.price_level_pool[j].head = b.price_level_pool[j].head
                     /\ c.price_level_pool[j].tail = b.price_level_pool[j].tail
                     /\ c.price_level_pool[j].price = b.price_level_pool[j].price
                     /\ j # level => c.price_level_pool[j].total_volume =
                                        b.price_level_pool[j].total_volume
<1> DEFINE c == Joined(b, index, level, shares)
           volume == Wrap(b.price_level_pool[level].total_volume + shares)
<1>0. volume \in Int
  BY FeedAssumption DEF BookType, LevelRecords, Wrap
<1>1. /\ DOMAIN c = BookFields
      /\ c.status = b.status
      /\ c.order_free_list = b.order_free_list
      /\ c.orders = b.orders
      /\ c.order_pool = [b.order_pool EXCEPT ![index].level = level]
      /\ c.price_level_free_list = b.price_level_free_list
      /\ c.price_level_pool = [b.price_level_pool EXCEPT ![level].total_volume = volume]
      /\ c.price_level_maps = b.price_level_maps
  BY DEF BookType, BookFields, Joined
<1> HIDE DEF c, volume
<1>2. level \in Int
  BY PoolAssumption DEF LevelSlots
<1>3. c.order_pool \in [OrderSlots -> OrderRecords]
  BY <1>1, <1>2, WithLevel DEF BookType
<1>4. /\ c.price_level_pool \in [LevelSlots -> LevelRecords]
      /\ c.price_level_pool[level].total_volume = volume
      /\ \A j \in LevelSlots :
            /\ c.price_level_pool[j].head = b.price_level_pool[j].head
            /\ c.price_level_pool[j].tail = b.price_level_pool[j].tail
            /\ c.price_level_pool[j].price = b.price_level_pool[j].price
            /\ j # level => c.price_level_pool[j].total_volume =
                               b.price_level_pool[j].total_volume
  <2>1. b.price_level_pool \in [LevelSlots -> LevelRecords]
    BY DEF BookType
  <2> QED
    BY <1>0, <1>1, <2>1, WithTotalVolume
<1>5. BookType(c)
  BY <1>1, <1>3, <1>4 DEF BookType
<1> QED
  BY <1>1, <1>4, <1>5 DEF c, volume

\* What opening a level leaves of the others, and of its own ends.
OthersKept(c, b, level) ==
    \A j \in LevelSlots :
        /\ c.price_level_pool[j].head = b.price_level_pool[j].head
        /\ c.price_level_pool[j].tail = b.price_level_pool[j].tail
        /\ j # level =>
              /\ c.price_level_pool[j].price = b.price_level_pool[j].price
              /\ c.price_level_pool[j].total_volume = b.price_level_pool[j].total_volume

\* All that Opened makes of a book.
OpenedAs(c, b, index, locate, price, level, shares) ==
    /\ c.status = b.status
    /\ c.order_free_list = b.order_free_list
    /\ c.orders = b.orders
    /\ c.order_pool = [b.order_pool EXCEPT ![index].level = level]
    /\ c.price_level_free_list = Front(b.price_level_free_list)
    /\ c.price_level_maps =
          [b.price_level_maps EXCEPT ![locate] = Emplaced(@, price, level)]
    /\ c.price_level_pool[level].price = price
    /\ c.price_level_pool[level].total_volume = shares
    /\ OthersKept(c, b, level)

\* What Opened assigns.
LEMMA OpenedFields ==
    ASSUME NEW b, BookType(b), b.price_level_free_list # <<>>,
           NEW index \in OrderSlots, NEW locate \in DOMAIN b.price_level_maps,
           NEW price \in Prices, NEW level \in LevelSlots, NEW shares \in Int,
           NEW c, c = Opened(b, index, locate, price, level, shares)
    PROVE  /\ BookType(c)
           /\ OpenedAs(c, b, index, locate, price, level, shares)
<1> DEFINE opened == [b.price_level_pool[level] EXCEPT !.price = price, !.total_volume = shares]
<1>1. /\ DOMAIN c = BookFields
      /\ c.status = b.status
      /\ c.order_free_list = b.order_free_list
      /\ c.orders = b.orders
      /\ c.order_pool = [b.order_pool EXCEPT ![index].level = level]
      /\ c.price_level_free_list = Front(b.price_level_free_list)
      /\ c.price_level_pool = [b.price_level_pool EXCEPT ![level] = opened]
      /\ c.price_level_maps = [b.price_level_maps EXCEPT ![locate] = Emplaced(@, price, level)]
  BY DEF BookType, BookFields, Opened
<1>2. /\ opened \in LevelRecords
      /\ opened.price = price
      /\ opened.total_volume = shares
      /\ opened.head = b.price_level_pool[level].head
      /\ opened.tail = b.price_level_pool[level].tail
  <2> DEFINE priced == [b.price_level_pool[level] EXCEPT !.price = price]
  <2>1. /\ priced \in LevelRecords
        /\ priced.price = price
        /\ priced.head = b.price_level_pool[level].head
        /\ priced.tail = b.price_level_pool[level].tail
    BY DEF BookType, LevelRecords
  <2>2. opened = [priced EXCEPT !.total_volume = shares]
    OBVIOUS
  <2> HIDE DEF priced, opened
  <2> QED
    BY <2>1, <2>2 DEF LevelRecords
<1> HIDE DEF opened
<1>3. c.order_pool \in [OrderSlots -> OrderRecords]
  <2>1. level \in Int
    BY PoolAssumption DEF LevelSlots
  <2> QED
    <3>1. b.order_pool \in [OrderSlots -> OrderRecords]
      BY DEF BookType
    <3> QED
      BY <1>1, <2>1, <3>1, WithLevel
<1>4. /\ c.price_level_pool \in [LevelSlots -> LevelRecords]
      /\ c.price_level_pool[level].price = price
      /\ c.price_level_pool[level].total_volume = shares
      /\ \A j \in LevelSlots :
            /\ c.price_level_pool[j].head = b.price_level_pool[j].head
            /\ c.price_level_pool[j].tail = b.price_level_pool[j].tail
            /\ j # level => c.price_level_pool[j] = b.price_level_pool[j]
  BY <1>1, <1>2 DEF BookType
<1>5. c.price_level_free_list \in Seq(LevelSlots)
  <2>1. b.price_level_free_list \in Seq(LevelSlots)
    BY DEF BookType
  <2> QED
    BY <1>1, <2>1, TakenFromTop
<1>6. /\ c.price_level_maps = [l \in DOMAIN c.price_level_maps |-> c.price_level_maps[l]]
      /\ \A l \in DOMAIN c.price_level_maps :
            /\ DOMAIN c.price_level_maps[l] \subseteq Prices
            /\ \A p \in DOMAIN c.price_level_maps[l] : c.price_level_maps[l][p] \in LevelSlots
  <2>1. /\ b.price_level_maps = [l \in DOMAIN b.price_level_maps |-> b.price_level_maps[l]]
        /\ \A l \in DOMAIN b.price_level_maps :
              /\ DOMAIN b.price_level_maps[l] \subseteq Prices
              /\ \A p \in DOMAIN b.price_level_maps[l] : b.price_level_maps[l][p] \in LevelSlots
    BY DEF BookType
  <2> DEFINE map == Emplaced(b.price_level_maps[locate], price, level)
  <2>2. /\ DOMAIN map \subseteq Prices
        /\ \A p \in DOMAIN map : map[p] \in LevelSlots
    BY <2>1 DEF Emplaced
  <2>3. c.price_level_maps = [b.price_level_maps EXCEPT ![locate] = map]
    BY <1>1
  <2> HIDE DEF map
  <2> QED
    BY <2>1, <2>2, <2>3
<1>7. BookType(c)
  BY <1>1, <1>3, <1>4, <1>5, <1>6 DEF BookType
<1> QED
  BY <1>1, <1>4, <1>7 DEF OthersKept, OpenedAs

\* What Enqueue assigns.
LEMMA EnqueueFields ==
    ASSUME NEW b, BookType(b), NEW index \in OrderSlots, NEW level \in LevelSlots,
           b.price_level_pool[level].head # NIL =>
           b.price_level_pool[level].tail \in OrderSlots \ {index},
           NEW c, c = Enqueue(b, index, level),
           NEW first, first = b.price_level_pool[level].head,
           NEW last, last = b.price_level_pool[level].tail
    PROVE  /\ BookType(c)
           /\ c.status = b.status
           /\ c.order_free_list = b.order_free_list
           /\ c.orders = b.orders
           /\ c.price_level_free_list = b.price_level_free_list
           /\ c.price_level_maps = b.price_level_maps
           /\ \A i \in OrderSlots : /\ c.order_pool[i].level = b.order_pool[i].level
                                    /\ c.order_pool[i].shares = b.order_pool[i].shares
                                    /\ c.order_pool[i].side = b.order_pool[i].side
           /\ first # NIL => c.order_pool[last].next = index
           /\ \A i \in OrderSlots : first = NIL \/ i # last =>
                 c.order_pool[i].next = b.order_pool[i].next
           /\ c.order_pool[index].prev = IF first = NIL THEN b.order_pool[index].prev
                                         ELSE last
           /\ \A i \in OrderSlots \ {index} : c.order_pool[i].prev = b.order_pool[i].prev
           /\ c.price_level_pool[level].head = IF first = NIL THEN index ELSE first
           /\ c.price_level_pool[level].tail = index
           /\ \A j \in LevelSlots \ {level} :
                 c.price_level_pool[j] = b.price_level_pool[j]
           /\ c.price_level_pool[level].price = b.price_level_pool[level].price
           /\ c.price_level_pool[level].total_volume =
                 b.price_level_pool[level].total_volume
<1>0. index \in Int
  BY PoolAssumption DEF OrderSlots
<1>1. /\ DOMAIN c = BookFields
      /\ c.status = b.status
      /\ c.order_free_list = b.order_free_list
      /\ c.orders = b.orders
      /\ c.price_level_free_list = b.price_level_free_list
      /\ c.price_level_maps = b.price_level_maps
  BY DEF BookType, BookFields, Enqueue
<1>2. CASE first = NIL
  <2>1. /\ c.order_pool = b.order_pool
        /\ c.price_level_pool = [b.price_level_pool EXCEPT ![level] =
                                    [@ EXCEPT !.head = index, !.tail = index]]
    BY <1>2 DEF BookType, BookFields, Enqueue
  <2>2. /\ c.price_level_pool \in [LevelSlots -> LevelRecords]
        /\ c.price_level_pool[level].head = index
        /\ c.price_level_pool[level].tail = index
        /\ c.price_level_pool[level].price = b.price_level_pool[level].price
        /\ c.price_level_pool[level].total_volume = b.price_level_pool[level].total_volume
        /\ \A j \in LevelSlots \ {level} : c.price_level_pool[j] = b.price_level_pool[j]
    <3> DEFINE headed == [b.price_level_pool EXCEPT ![level].head = index]
    <3>1. b.price_level_pool \in [LevelSlots -> LevelRecords]
      BY DEF BookType
    <3>2. /\ headed \in [LevelSlots -> LevelRecords]
          /\ headed[level].head = index
          /\ headed[level].price = b.price_level_pool[level].price
          /\ headed[level].total_volume = b.price_level_pool[level].total_volume
          /\ \A j \in LevelSlots \ {level} : headed[j] = b.price_level_pool[j]
      BY <1>0, <3>1, WithHead
    <3>3. c.price_level_pool = [headed EXCEPT ![level].tail = index]
      BY <2>1, <3>1
    <3> HIDE DEF headed
    <3> QED
      BY <1>0, <3>2, <3>3, WithTail
    <2>3. BookType(c)
    BY <1>1, <2>1, <2>2 DEF BookType
  <2> QED
    BY <1>1, <1>2, <2>1, <2>2, <2>3
<1>3. CASE first # NIL
  <2> DEFINE linked == [b.order_pool EXCEPT ![last].next = index]
  <2>1. /\ c.order_pool = [linked EXCEPT ![index].prev = last]
        /\ c.price_level_pool = [b.price_level_pool EXCEPT ![level].tail = index]
    BY <1>3 DEF BookType, BookFields, Enqueue
  <2>2. last \in OrderSlots \ {index} /\ last \in Int
    BY <1>3, PoolAssumption DEF OrderSlots
  <2>3. /\ linked \in [OrderSlots -> OrderRecords]
        /\ linked[last].next = index
        /\ \A i \in OrderSlots : /\ linked[i].prev = b.order_pool[i].prev
                                 /\ linked[i].level = b.order_pool[i].level
                                 /\ linked[i].shares = b.order_pool[i].shares
                                 /\ linked[i].side = b.order_pool[i].side
                                 /\ i # last => linked[i].next = b.order_pool[i].next
    <3> DEFINE r == [b.order_pool[last] EXCEPT !.next = index]
    <3>1. b.order_pool \in [OrderSlots -> OrderRecords] /\ b.order_pool[last] \in OrderRecords
      BY <2>2 DEF BookType
    <3>2. /\ r \in OrderRecords
          /\ r.next = index
          /\ r.prev = b.order_pool[last].prev
          /\ r.level = b.order_pool[last].level
          /\ r.shares = b.order_pool[last].shares
          /\ r.side = b.order_pool[last].side
      BY <1>0, <3>1 DEF OrderRecords
    <3>3. linked = [b.order_pool EXCEPT ![last] = r]
      BY <3>1
    <3> HIDE DEF r, linked
    <3> QED
      BY <2>2, <3>1, <3>2, <3>3
  <2> HIDE DEF linked
  <2>4. /\ c.order_pool \in [OrderSlots -> OrderRecords]
        /\ c.order_pool[index].prev = last
        /\ \A i \in OrderSlots : /\ c.order_pool[i].next = linked[i].next
                                 /\ c.order_pool[i].level = linked[i].level
                                 /\ c.order_pool[i].shares = linked[i].shares
                                 /\ c.order_pool[i].side = linked[i].side
                                 /\ i # index => c.order_pool[i].prev = linked[i].prev
    BY <2>1, <2>2, <2>3 DEF OrderRecords
  <2>5. /\ c.price_level_pool \in [LevelSlots -> LevelRecords]
        /\ c.price_level_pool[level].head = first
        /\ c.price_level_pool[level].tail = index
        /\ c.price_level_pool[level].price = b.price_level_pool[level].price
        /\ c.price_level_pool[level].total_volume = b.price_level_pool[level].total_volume
        /\ \A j \in LevelSlots \ {level} : c.price_level_pool[j] = b.price_level_pool[j]
    <3>1. b.price_level_pool \in [LevelSlots -> LevelRecords]
      BY DEF BookType
    <3> QED
      BY <1>0, <2>1, <3>1, WithTail
    <2>6. BookType(c)
    BY <1>1, <2>4, <2>5 DEF BookType
  <2> QED
    BY <1>1, <1>3, <2>2, <2>3, <2>4, <2>5, <2>6
<1> QED
  BY <1>2, <1>3

\* What Unlink assigns.
LEMMA UnlinkFields ==
    ASSUME NEW b, BookType(b), NEW x \in OrderSlots,
           b.order_pool[x].level \in LevelSlots,
           b.order_pool[x].next \in (OrderSlots \ {x}) \cup {NIL},
           b.order_pool[x].prev \in (OrderSlots \ {x}) \cup {NIL}
    PROVE  LET c == Unlink(b, x)
               n == b.order_pool[x].next
               p == b.order_pool[x].prev
               level == b.order_pool[x].level
           IN  /\ BookType(c)
               /\ c.status = b.status
               /\ c.order_free_list = b.order_free_list
               /\ c.orders = b.orders
               /\ c.price_level_free_list = b.price_level_free_list
               /\ c.price_level_maps = b.price_level_maps
               /\ \A i \in OrderSlots : /\ c.order_pool[i].level = b.order_pool[i].level
                                        /\ c.order_pool[i].shares = b.order_pool[i].shares
                                        /\ c.order_pool[i].side = b.order_pool[i].side
               /\ n # NIL => c.order_pool[n].prev = p
               /\ \A i \in OrderSlots \ {n} : c.order_pool[i].prev = b.order_pool[i].prev
               /\ p # NIL => c.order_pool[p].next = n
               /\ \A i \in OrderSlots \ {p} : c.order_pool[i].next = b.order_pool[i].next
               /\ c.price_level_pool[level].head =
                     IF p = NIL THEN n ELSE b.price_level_pool[level].head
               /\ c.price_level_pool[level].tail =
                     IF n = NIL THEN p ELSE b.price_level_pool[level].tail
               /\ \A j \in LevelSlots :
                     /\ c.price_level_pool[j].price = b.price_level_pool[j].price
                     /\ c.price_level_pool[j].total_volume = b.price_level_pool[j].total_volume
               /\ \A j \in LevelSlots \ {level} :
                     c.price_level_pool[j] = b.price_level_pool[j]
<1> DEFINE n == b.order_pool[x].next
           p == b.order_pool[x].prev
           level == b.order_pool[x].level
           onward == IF n # NIL
                     THEN [b EXCEPT !.order_pool[n].prev = p]
                     ELSE [b EXCEPT !.price_level_pool[level].tail = p]
           c == Unlink(b, x)
<1>0. /\ n \in Int /\ p \in Int
      /\ b.order_pool \in [OrderSlots -> OrderRecords]
      /\ b.price_level_pool \in [LevelSlots -> LevelRecords]
  BY DEF BookType, OrderRecords
<1>1. /\ DOMAIN onward = BookFields
      /\ onward.status = b.status
      /\ onward.order_free_list = b.order_free_list
      /\ onward.orders = b.orders
      /\ onward.price_level_free_list = b.price_level_free_list
      /\ onward.price_level_maps = b.price_level_maps
      /\ onward.order_pool = IF n = NIL THEN b.order_pool
                             ELSE [b.order_pool EXCEPT ![n].prev = p]
      /\ onward.price_level_pool = IF n = NIL THEN [b.price_level_pool EXCEPT ![level].tail = p]
                                   ELSE b.price_level_pool
  BY DEF BookType, BookFields
<1>2. c = IF p # NIL
          THEN [onward EXCEPT !.order_pool[p].next = n]
          ELSE [onward EXCEPT !.price_level_pool[level].head = n]
  BY DEF Unlink
<1> HIDE DEF onward, c
<1>3. /\ DOMAIN c = BookFields
      /\ c.status = b.status
      /\ c.order_free_list = b.order_free_list
      /\ c.orders = b.orders
      /\ c.price_level_free_list = b.price_level_free_list
      /\ c.price_level_maps = b.price_level_maps
      /\ c.order_pool = IF p = NIL THEN onward.order_pool
                        ELSE [onward.order_pool EXCEPT ![p].next = n]
      /\ c.price_level_pool = IF p = NIL THEN [onward.price_level_pool EXCEPT ![level].head = n]
                              ELSE onward.price_level_pool
  BY <1>1, <1>2 DEF BookFields
<1>4. /\ n # NIL => n \in OrderSlots
      /\ p # NIL => p \in OrderSlots
      /\ level \in LevelSlots
  OBVIOUS
<1> HIDE DEF n, p, level
<1>5. /\ onward.order_pool \in [OrderSlots -> OrderRecords]
      /\ n # NIL => onward.order_pool[n].prev = p
      /\ \A i \in OrderSlots : /\ onward.order_pool[i].level = b.order_pool[i].level
                               /\ onward.order_pool[i].shares = b.order_pool[i].shares
                               /\ onward.order_pool[i].side = b.order_pool[i].side
                               /\ onward.order_pool[i].next = b.order_pool[i].next
                               /\ i # n => onward.order_pool[i].prev = b.order_pool[i].prev
  <2>1. CASE n = NIL
    BY <1>0, <1>1, <2>1
  <2>2. CASE n # NIL
    BY <1>0, <1>1, <1>4, <2>2, WithPrev
  <2> QED
    BY <2>1, <2>2
<1>6. /\ onward.price_level_pool \in [LevelSlots -> LevelRecords]
      /\ onward.price_level_pool[level].tail =
            IF n = NIL THEN p ELSE b.price_level_pool[level].tail
      /\ \A j \in LevelSlots :
            /\ onward.price_level_pool[j].head = b.price_level_pool[j].head
            /\ onward.price_level_pool[j].price = b.price_level_pool[j].price
            /\ onward.price_level_pool[j].total_volume = b.price_level_pool[j].total_volume
            /\ j # level => onward.price_level_pool[j] = b.price_level_pool[j]
  <2>1. CASE n = NIL
    BY <1>0, <1>1, <1>4, <2>1, WithTail
  <2>2. CASE n # NIL
    BY <1>0, <1>1, <1>4, <2>2
  <2> QED
    BY <2>1, <2>2
<1>7. /\ c.order_pool \in [OrderSlots -> OrderRecords]
      /\ p # NIL => c.order_pool[p].next = n
      /\ \A i \in OrderSlots : /\ c.order_pool[i].level = onward.order_pool[i].level
                               /\ c.order_pool[i].shares = onward.order_pool[i].shares
                               /\ c.order_pool[i].side = onward.order_pool[i].side
                               /\ c.order_pool[i].prev = onward.order_pool[i].prev
                               /\ i # p => c.order_pool[i].next = onward.order_pool[i].next
  <2>1. CASE p = NIL
    BY <1>3, <1>5, <2>1
  <2>2. CASE p # NIL
    BY <1>0, <1>3, <1>4, <1>5, <2>2, WithNext
  <2> QED
    BY <2>1, <2>2
<1>8. /\ c.price_level_pool \in [LevelSlots -> LevelRecords]
      /\ c.price_level_pool[level].head =
            IF p = NIL THEN n ELSE onward.price_level_pool[level].head
      /\ \A j \in LevelSlots :
            /\ c.price_level_pool[j].tail = onward.price_level_pool[j].tail
            /\ c.price_level_pool[j].price = onward.price_level_pool[j].price
            /\ c.price_level_pool[j].total_volume = onward.price_level_pool[j].total_volume
            /\ j # level => c.price_level_pool[j] = onward.price_level_pool[j]
  <2>1. CASE p = NIL
    BY <1>0, <1>3, <1>4, <1>6, <2>1, WithHead
  <2>2. CASE p # NIL
    BY <1>3, <1>4, <1>6, <2>2
  <2> QED
    BY <2>1, <2>2
<1>9. BookType(c)
  BY <1>3, <1>7, <1>8 DEF BookType
<1>10. /\ n # NIL => c.order_pool[n].prev = p
       /\ \A i \in OrderSlots \ {n} : c.order_pool[i].prev = b.order_pool[i].prev
       /\ \A i \in OrderSlots \ {p} : c.order_pool[i].next = b.order_pool[i].next
       /\ \A i \in OrderSlots : /\ c.order_pool[i].level = b.order_pool[i].level
                                /\ c.order_pool[i].shares = b.order_pool[i].shares
                                /\ c.order_pool[i].side = b.order_pool[i].side
  BY <1>4, <1>5, <1>7
<1>11. /\ c.price_level_pool[level].head =
             IF p = NIL THEN n ELSE b.price_level_pool[level].head
       /\ c.price_level_pool[level].tail =
             IF n = NIL THEN p ELSE b.price_level_pool[level].tail
       /\ \A j \in LevelSlots :
             /\ c.price_level_pool[j].price = b.price_level_pool[j].price
             /\ c.price_level_pool[j].total_volume = b.price_level_pool[j].total_volume
       /\ \A j \in LevelSlots \ {level} : c.price_level_pool[j] = b.price_level_pool[j]
  BY <1>4, <1>6, <1>8
<1> QED
  BY <1>3, <1>7, <1>9, <1>10, <1>11 DEF c, n, p, level

----
(* The invariant of a book that has not thrown                               *)

Used(b) == {i \in OrderSlots : \E r \in DOMAIN b.orders : b.orders[r] = i}

Mapped(b) == {j \in LevelSlots : \E l \in DOMAIN b.price_level_maps :
                 \E p \in DOMAIN b.price_level_maps[l] : b.price_level_maps[l][p] = j}

\* The order slots: each is free, once, or one live reference's.
SlotsInv(b) ==
    /\ IsInjective(b.order_free_list)
    /\ Used(b) = OrderSlots \ Range(b.order_free_list)
    /\ \A r, s \in DOMAIN b.orders : b.orders[r] = b.orders[s] /\ b.orders[r] # NIL => r = s

\* The level slots: each is free, once, or the slot of one locate and price.
LevelsInv(b) ==
    /\ IsInjective(b.price_level_free_list)
    /\ Mapped(b) = LevelSlots \ Range(b.price_level_free_list)
    /\ \A l, m \in DOMAIN b.price_level_maps :
          \A p \in DOMAIN b.price_level_maps[l], q \in DOMAIN b.price_level_maps[m] :
             b.price_level_maps[l][p] = b.price_level_maps[m][q] => l = m /\ p = q
    /\ \A l \in DOMAIN b.price_level_maps : \A p \in DOMAIN b.price_level_maps[l] :
          b.price_level_pool[b.price_level_maps[l][p]].price = p

Nexts(b) == [i \in OrderSlots |-> b.order_pool[i].next]
Prevs(b) == [i \in OrderSlots |-> b.order_pool[i].prev]
Levels(b) == [i \in OrderSlots |-> b.order_pool[i].level]
Heads(b) == [j \in LevelSlots |-> b.price_level_pool[j].head]
Tails(b) == [j \in LevelSlots |-> b.price_level_pool[j].tail]

\* The lists run through the orders in use, and the level of each is in use.
ListsInv(b) ==
    /\ Linked(Nexts(b), Prevs(b), Levels(b), Heads(b), Tails(b), Used(b))
    /\ \A i \in Used(b) : b.order_pool[i].level \in Mapped(b)

\* What each order adds to the volume of a level: what is left of it, on its own level.
SharesLeft(b, j) ==
    [i \in OrderSlots |->
        IF i \in Used(b) /\ b.order_pool[i].level = j THEN b.order_pool[i].shares ELSE 0]

\* Also of a level no order is on, mapped or free.
VolumesInv(b) ==
    \A j \in LevelSlots :
        b.price_level_pool[j].total_volume = Wrap(SumOf(SharesLeft(b, j)))

BookInv(b) == BookType(b) /\ SlotsInv(b) /\ LevelsInv(b) /\ ListsInv(b) /\ VolumesInv(b)

\* What the links of an order in use say to Unlink.
LEMMA LinksOfAnOrder ==
    ASSUME NEW b, BookInv(b), NEW x \in Used(b)
    PROVE  /\ x \in OrderSlots
           /\ b.order_pool[x].level \in LevelSlots
           /\ b.order_pool[x].next \in (OrderSlots \ {x}) \cup {NIL}
           /\ b.order_pool[x].prev \in (OrderSlots \ {x}) \cup {NIL}
<1>1. /\ OrdersLinked(Nexts(b), Prevs(b), Levels(b), Heads(b), Tails(b), Used(b))
      /\ \E arrival : Numbered(Prevs(b), Used(b), arrival)
  BY DEF BookInv, ListsInv, Linked
<1>2. Used(b) \subseteq OrderSlots
  BY DEF Used
<1>3. /\ Nexts(b)[x] = b.order_pool[x].next
      /\ Prevs(b)[x] = b.order_pool[x].prev
      /\ Levels(b)[x] = b.order_pool[x].level
  BY <1>2 DEF Nexts, Prevs, Levels
<1>4. /\ Nexts(b)[x] # NIL => Nexts(b)[x] \in Used(b) /\ Prevs(b)[Nexts(b)[x]] = x
      /\ Prevs(b)[x] # NIL => Prevs(b)[x] \in Used(b)
      /\ Levels(b)[x] \in LevelSlots
  BY <1>1 DEF OrdersLinked
<1>5. PICK arrival : Numbered(Prevs(b), Used(b), arrival)
  BY <1>1
<1>6. /\ x # NIL
      /\ arrival[x] \in Nat
      /\ Prevs(b)[x] # NIL => arrival[Prevs(b)[x]] < arrival[x]
  BY <1>2, <1>5, SlotsAreNotNIL DEF Numbered
<1>7. Prevs(b)[x] # x
  BY <1>6
<1> QED
  BY <1>2, <1>3, <1>4, <1>6, <1>7

----
(* The list of a level as a sequence, and how it changes                     *)

\* The orders of a level.
MembersOf(b, slot) == {i \in Used(b) : b.order_pool[i].level = slot}

\* s lists the orders of a level from head to tail.
IsQueue(b, slot, s) ==
    /\ s \in Seq(OrderSlots)
    /\ \A k, m \in 1 .. Len(s) : s[k] = s[m] => k = m
    /\ MembersOf(b, slot) = {s[k] : k \in 1 .. Len(s)}
    /\ b.price_level_pool[slot].head = IF Len(s) = 0 THEN NIL ELSE s[1]
    /\ \A k \in 1 .. Len(s) : b.order_pool[s[k]].next = IF k = Len(s) THEN NIL ELSE s[k + 1]

\* The slots met from head, NIL once past the tail.
IsWalk(b, slot, f) ==
    f = [k \in 0 .. OrderCapacity |->
            IF k = 0 THEN b.price_level_pool[slot].head
            ELSE IF f[k - 1] = NIL THEN NIL ELSE b.order_pool[f[k - 1]].next]

\* There is one walk only.
LEMMA WalksAgree ==
    ASSUME NEW b, NEW slot, NEW f, NEW g, IsWalk(b, slot, f), IsWalk(b, slot, g)
    PROVE  f = g
<1> DEFINE bad == {k \in 0 .. OrderCapacity : f[k] # g[k]}
<1>0. /\ f = [k \in 0 .. OrderCapacity |-> f[k]]
      /\ g = [k \in 0 .. OrderCapacity |-> g[k]]
  BY DEF IsWalk
<1>1. SUFFICES ASSUME bad # {} PROVE FALSE
  BY <1>0
<1>2. bad \in SUBSET Nat
  OBVIOUS
<1>3. PICK k \in bad : \A m \in bad : k <= m
  BY <1>1, <1>2, LeastOf
<1>4. k \in 0 .. OrderCapacity /\ f[k] # g[k]
  BY <1>3
<1>5. k # 0
  BY <1>4 DEF IsWalk
<1>6. k - 1 \in 0 .. OrderCapacity /\ k - 1 \notin bad
  BY <1>3, <1>4, <1>5, PoolAssumption
<1>7. f[k - 1] = g[k - 1]
  BY <1>6
<1>8. /\ f[k] = IF f[k - 1] = NIL THEN NIL ELSE b.order_pool[f[k - 1]].next
      /\ g[k] = IF g[k - 1] = NIL THEN NIL ELSE b.order_pool[g[k - 1]].next
  BY <1>4, <1>5 DEF IsWalk
<1> QED
  BY <1>4, <1>7, <1>8

\* A queue is no longer than the pool.
LEMMA QueuesFit ==
    ASSUME NEW s \in Seq(OrderSlots), \A k, m \in 1 .. Len(s) : s[k] = s[m] => k = m
    PROVE  Len(s) \in 0 .. OrderCapacity
<1>1. IsFiniteSet(OrderSlots) /\ Cardinality(OrderSlots) = OrderCapacity
  <2>1. /\ IsFiniteSet(0 .. OrderCapacity - 1)
        /\ Cardinality(0 .. OrderCapacity - 1)
             = IF 0 > OrderCapacity - 1 THEN 0 ELSE (OrderCapacity - 1) - 0 + 1
    BY PoolAssumption, FS_Interval
  <2> QED
    BY <2>1, PoolAssumption DEF OrderSlots
<1>2. PICK n \in Nat : n = Len(s)
  OBVIOUS
<1>3. IsFiniteSet(1 .. n) /\ Cardinality(1 .. n) = n
  <2>1. IsFiniteSet(1 .. n) /\ Cardinality(1 .. n) = IF 1 > n THEN 0 ELSE n - 1 + 1
    BY FS_Interval
  <2> QED
    BY <2>1
<1>4. s \in Injection(1 .. n, OrderSlots)
  BY <1>2 DEF Injection, IsInjective
<1>5. Cardinality(1 .. n) <= Cardinality(OrderSlots)
  BY <1>1, <1>3, <1>4, FS_Injection
<1> QED
  BY <1>1, <1>2, <1>3, <1>5

\* The walk from the head of a level meets its queue.
LEMMA WalkMeetsQueue ==
    ASSUME NEW b, NEW slot, NEW s, IsQueue(b, slot, s),
           NEW f, f = [k \in 0 .. OrderCapacity |-> IF k < Len(s) THEN s[k + 1] ELSE NIL]
    PROVE  IsWalk(b, slot, f)
<1> DEFINE n == Len(s)
<1>1. n \in 0 .. OrderCapacity /\ OrderCapacity \in Nat
  BY QueuesFit, PoolAssumption DEF IsQueue
<1>2. \A k \in 1 .. n : s[k] \in OrderSlots /\ s[k] # NIL
  BY SlotsAreNotNIL DEF IsQueue
<1>3. f[0] = b.price_level_pool[slot].head
  BY <1>1 DEF IsQueue
<1>4. ASSUME NEW k \in 1 .. OrderCapacity
      PROVE  f[k] = IF f[k - 1] = NIL THEN NIL ELSE b.order_pool[f[k - 1]].next
  <2>1. k - 1 \in 0 .. OrderCapacity /\ k \in 0 .. OrderCapacity
    BY <1>1
  <2>2. CASE k <= n
    <3>1. f[k - 1] = s[k] /\ f[k - 1] # NIL
      BY <1>1, <1>2, <2>1, <2>2
    <3>2. b.order_pool[s[k]].next = IF k = n THEN NIL ELSE s[k + 1]
      BY <2>2 DEF IsQueue
    <3>3. f[k] = IF k = n THEN NIL ELSE s[k + 1]
      BY <1>1, <2>1, <2>2
    <3> QED
      BY <3>1, <3>2, <3>3
  <2>3. CASE k > n
    <3>1. f[k - 1] = NIL /\ f[k] = NIL
      BY <1>1, <2>1, <2>3
    <3> QED
      BY <3>1
  <2> QED
    BY <1>1, <2>2, <2>3
<1> DEFINE g == [k \in 0 .. OrderCapacity |->
                    IF k = 0 THEN b.price_level_pool[slot].head
                    ELSE IF f[k - 1] = NIL THEN NIL ELSE b.order_pool[f[k - 1]].next]
<1>5. ASSUME NEW k \in 0 .. OrderCapacity PROVE f[k] = g[k]
  <2>1. CASE k = 0
    BY <1>3, <2>1
  <2>2. CASE k # 0
    <3>1. k \in 1 .. OrderCapacity
      BY <1>1, <2>2
    <3>2. g[k] = IF f[k - 1] = NIL THEN NIL ELSE b.order_pool[f[k - 1]].next
      BY <2>2
    <3> HIDE DEF g
    <3> QED
      BY <1>4, <3>1, <3>2
  <2> QED
    BY <2>1, <2>2
<1>6. f = g
  BY <1>5
<1> QED
  BY <1>6 DEF IsWalk

\* Walk in any book.
WalkIn(b, slot) ==
    LET node[k \in 0 .. OrderCapacity] ==
            IF k = 0 THEN b.price_level_pool[slot].head
            ELSE IF node[k - 1] = NIL THEN NIL ELSE b.order_pool[node[k - 1]].next
        met == {k \in 0 .. OrderCapacity - 1 : node[k] # NIL}
    IN  [k \in 1 .. Cardinality(met) |-> node[k - 1]]

\* The walk from the head of a level is its queue.
LEMMA WalkIsTheQueue ==
    ASSUME NEW b, NEW slot, NEW s, IsQueue(b, slot, s)
    PROVE  WalkIn(b, slot) = s
<1> DEFINE n == Len(s)
           f == [k \in 0 .. OrderCapacity |-> IF k < n THEN s[k + 1] ELSE NIL]
           node == CHOOSE g : IsWalk(b, slot, g)
           met == {k \in 0 .. OrderCapacity - 1 : node[k] # NIL}
<1>1. n \in 0 .. OrderCapacity /\ OrderCapacity \in Nat
  BY QueuesFit, PoolAssumption DEF IsQueue
<1>2. \A k \in 1 .. n : s[k] # NIL
  BY SlotsAreNotNIL DEF IsQueue
<1>3. IsWalk(b, slot, f)
  BY WalkMeetsQueue
<1>4. node = f
  <2> HIDE DEF f
  <2>1. IsWalk(b, slot, node)
    BY <1>3
  <2> QED
    BY <1>3, <2>1, WalksAgree
<1>5. WalkIn(b, slot) = [k \in 1 .. Cardinality(met) |-> node[k - 1]]
  BY Zenon DEF WalkIn, IsWalk
<1> HIDE DEF node
<1>6. met = 0 .. n - 1
  BY <1>1, <1>2, <1>4
<1>7. Cardinality(met) = n
  <2>1. PICK last \in Int : last = n - 1
    BY <1>1
  <2>2. Cardinality(0 .. last) = IF 0 > last THEN 0 ELSE last - 0 + 1
    BY FS_Interval
  <2>3. Cardinality(0 .. last) = n
    BY <1>1, <2>1, <2>2
  <2> QED
    BY <1>6, <2>1, <2>3
<1> HIDE DEF met
<1>8. WalkIn(b, slot) = [k \in 1 .. n |-> f[k - 1]]
  BY <1>4, <1>5, <1>7
<1>9. \A k \in 1 .. n : f[k - 1] = s[k]
  BY <1>1
<1>10. s = [k \in 1 .. n |-> s[k]]
  BY DEF IsQueue
<1> QED
  BY <1>8, <1>9, <1>10

\* A sequence without its member m.
Cut(s, m) == SubSeq(s, 1, m - 1) \o SubSeq(s, m + 1, Len(s))

\* What is left of a sequence, and where.
LEMMA CutIs ==
    ASSUME NEW S, NEW s \in Seq(S), NEW m \in 1 .. Len(s)
    PROVE  /\ Cut(s, m) \in Seq(S)
           /\ Len(Cut(s, m)) = Len(s) - 1
           /\ \A k \in 1 .. Len(s) - 1 : Cut(s, m)[k] = IF k < m THEN s[k] ELSE s[k + 1]
<1> DEFINE front == SubSeq(s, 1, m - 1)
           back == SubSeq(s, m + 1, Len(s))
           n == Len(s)
<1>0. n \in Nat /\ m \in 1 .. n /\ m - 1 \in 0 .. n - 1
  OBVIOUS
<1>1. /\ front \in Seq(S) /\ Len(front) = m - 1
      /\ \A k \in 1 .. m - 1 : front[k] = s[k]
  OBVIOUS
<1>2. /\ back \in Seq(S) /\ Len(back) = n - m
      /\ \A k \in 1 .. n - m : back[k] = s[m + k]
  OBVIOUS
<1> HIDE DEF front, back
<1>3. /\ front \o back \in Seq(S)
      /\ Len(front \o back) = Len(front) + Len(back)
      /\ \A k \in 1 .. Len(front) + Len(back) :
            (front \o back)[k] = IF k <= Len(front) THEN front[k] ELSE back[k - Len(front)]
  BY <1>1, <1>2, ConcatProperties
<1>4. Len(front) + Len(back) = n - 1
  BY <1>0, <1>1, <1>2
<1>5. ASSUME NEW k \in 1 .. n - 1
      PROVE  (front \o back)[k] = IF k < m THEN s[k] ELSE s[k + 1]
  <2>1. (front \o back)[k] = IF k <= m - 1 THEN front[k] ELSE back[k - (m - 1)]
    BY <1>1, <1>3, <1>4
  <2>2. CASE k < m
    BY <1>0, <1>1, <2>1, <2>2
  <2>3. CASE ~(k < m)
    <3>1. k - (m - 1) \in 1 .. n - m /\ m + (k - (m - 1)) = k + 1
      BY <1>0, <2>3
    <3>2. back[k - (m - 1)] = s[k + 1]
      BY <1>2, <3>1
    <3> QED
      BY <1>0, <2>1, <2>3, <3>2
  <2> QED
    BY <2>2, <2>3
<1>6. Cut(s, m) = front \o back
  BY DEF Cut, front, back
<1> QED
  BY <1>3, <1>4, <1>5, <1>6

\* c is b with the order in slot x put at the tail of level j.
AddedTo(b, c, x, j) ==
    /\ x \in OrderSlots \ Used(b)
    /\ j \in LevelSlots
    /\ Used(c) = Used(b) \cup {x}
    /\ c.order_pool[x].level = j
    /\ c.order_pool[x].next = NIL
    /\ \A i \in Used(b) : c.order_pool[i].level = b.order_pool[i].level
    /\ b.price_level_pool[j].tail # NIL => c.order_pool[b.price_level_pool[j].tail].next = x
    /\ \A i \in Used(b) : i # b.price_level_pool[j].tail =>
          c.order_pool[i].next = b.order_pool[i].next
    /\ c.price_level_pool[j].head =
          IF b.price_level_pool[j].head = NIL THEN x ELSE b.price_level_pool[j].head
    /\ \A k \in LevelSlots \ {j} : c.price_level_pool[k].head = b.price_level_pool[k].head

\* c is b with the order in slot x joined out of its level.
RemovedFrom(b, c, x) ==
    /\ x \in Used(b)
    /\ Used(c) = Used(b) \ {x}
    /\ \A i \in Used(b) : c.order_pool[i].level = b.order_pool[i].level
    /\ b.order_pool[x].prev # NIL =>
          c.order_pool[b.order_pool[x].prev].next = b.order_pool[x].next
    /\ \A i \in Used(b) \ {b.order_pool[x].prev} :
          c.order_pool[i].next = b.order_pool[i].next
    /\ c.price_level_pool[b.order_pool[x].level].head =
          IF b.order_pool[x].prev = NIL THEN b.order_pool[x].next
          ELSE b.price_level_pool[b.order_pool[x].level].head
    /\ \A k \in LevelSlots \ {b.order_pool[x].level} :
          c.price_level_pool[k].head = b.price_level_pool[k].head

\* The links of a queue, from the book's invariant.
LEMMA EndsOfQueue ==
    ASSUME NEW b, BookInv(b), NEW slot \in LevelSlots, NEW s, IsQueue(b, slot, s)
    PROVE  /\ (b.price_level_pool[slot].tail = NIL) <=> Len(s) = 0
           /\ \A k \in 1 .. Len(s) :
                 /\ s[k] \in Used(b) /\ s[k] \in OrderSlots /\ b.order_pool[s[k]].level = slot
                 /\ (b.price_level_pool[slot].tail = s[k]) <=> k = Len(s)
                 /\ b.order_pool[s[k]].prev = IF k = 1 THEN NIL ELSE s[k - 1]
<1> DEFINE head == b.price_level_pool[slot].head
           tail == b.price_level_pool[slot].tail
<1>1. /\ (head = NIL) <=> (tail = NIL)
      /\ head # NIL => b.order_pool[head].prev = NIL
      /\ tail # NIL => tail \in Used(b) /\ b.order_pool[tail].level = slot
  <2>1. EndsLinked(Nexts(b), Prevs(b), Levels(b), Heads(b), Tails(b), Used(b))
    BY DEF BookInv, ListsInv, Linked
  <2>2. Used(b) \subseteq OrderSlots
    BY DEF Used
  <2> QED
    BY <2>1, <2>2 DEF EndsLinked, Heads, Tails, Prevs, Levels
<1>2. \A i \in Used(b) :
         /\ b.order_pool[i].next = NIL <=> b.price_level_pool[b.order_pool[i].level].tail = i
         /\ b.order_pool[i].next # NIL =>
               b.order_pool[i].next \in Used(b) /\ b.order_pool[b.order_pool[i].next].prev = i
  <2>1. OrdersLinked(Nexts(b), Prevs(b), Levels(b), Heads(b), Tails(b), Used(b))
    BY DEF BookInv, ListsInv, Linked
  <2>2. Used(b) \subseteq OrderSlots
    BY DEF Used
  <2>3. \A i \in Used(b) : Levels(b)[i] \in LevelSlots
    BY <2>1 DEF OrdersLinked
  <2> QED
    BY <2>1, <2>2, <2>3 DEF OrdersLinked, Nexts, Prevs, Tails, Levels
<1>3. /\ s \in Seq(OrderSlots) /\ Len(s) \in Nat
      /\ \A k, m \in 1 .. Len(s) : s[k] = s[m] => k = m
      /\ \A k \in 1 .. Len(s) : s[k] \in MembersOf(b, slot) /\ s[k] # NIL /\ s[k] \in OrderSlots
      /\ \A i \in MembersOf(b, slot) : \E k \in 1 .. Len(s) : s[k] = i
      /\ head = IF Len(s) = 0 THEN NIL ELSE s[1]
      /\ \A k \in 1 .. Len(s) : b.order_pool[s[k]].next = IF k = Len(s) THEN NIL ELSE s[k + 1]
  BY SlotsAreNotNIL DEF IsQueue
<1>4. \A k \in 1 .. Len(s) : s[k] \in Used(b) /\ b.order_pool[s[k]].level = slot
  BY <1>3 DEF MembersOf
<1> HIDE DEF head, tail
<1>5. (tail = NIL) <=> Len(s) = 0
  BY <1>1, <1>3
<1>6. ASSUME NEW k \in 1 .. Len(s) PROVE tail = s[k] <=> k = Len(s)
  <2>1. b.order_pool[s[k]].next = NIL <=> tail = s[k]
    BY <1>2, <1>4 DEF tail
  <2>2. k # Len(s) => s[k + 1] # NIL
    BY <1>3
  <2> QED
    BY <1>3, <2>1, <2>2
<1>7. ASSUME NEW k \in 1 .. Len(s)
      PROVE  b.order_pool[s[k]].prev = IF k = 1 THEN NIL ELSE s[k - 1]
  <2>1. CASE k = 1
    BY <1>1, <1>3, <2>1
  <2>2. CASE k # 1
    <3>1. k - 1 \in 1 .. Len(s) /\ k - 1 # Len(s) /\ (k - 1) + 1 = k
      BY <1>3, <2>2
    <3>2. b.order_pool[s[k - 1]].next = s[k]
      BY <1>3, <3>1
    <3>3. b.order_pool[s[k]].prev = s[k - 1]
      BY <1>2, <1>3, <1>4, <3>1, <3>2
    <3> QED
      BY <2>2, <3>3
  <2> QED
    BY <2>1, <2>2
<1> QED
  BY <1>3, <1>4, <1>5, <1>6, <1>7 DEF tail

\* An order that joins a level is the last of its list, and the other lists stay.
LEMMA QueueGrows ==
    ASSUME NEW b, BookInv(b), NEW c, NEW x, NEW j, AddedTo(b, c, x, j),
           NEW slot \in LevelSlots, NEW s, IsQueue(b, slot, s)
    PROVE  IsQueue(c, slot, IF slot = j THEN Append(s, x) ELSE s)
<1>1. /\ s \in Seq(OrderSlots) /\ Len(s) \in Nat
      /\ \A k, m \in 1 .. Len(s) : s[k] = s[m] => k = m
      /\ MembersOf(b, slot) = {s[k] : k \in 1 .. Len(s)}
      /\ b.price_level_pool[slot].head = IF Len(s) = 0 THEN NIL ELSE s[1]
      /\ \A k \in 1 .. Len(s) : b.order_pool[s[k]].next = IF k = Len(s) THEN NIL ELSE s[k + 1]
  BY DEF IsQueue
<1>2. /\ (b.price_level_pool[slot].tail = NIL) <=> Len(s) = 0
      /\ \A k \in 1 .. Len(s) :
            /\ s[k] \in Used(b) /\ b.order_pool[s[k]].level = slot
            /\ (b.price_level_pool[slot].tail = s[k]) <=> k = Len(s)
            /\ s[k] # x
  BY EndsOfQueue DEF AddedTo
<1>3. /\ x \in OrderSlots \ Used(b) /\ j \in LevelSlots
      /\ c.order_pool[x].level = j /\ c.order_pool[x].next = NIL
  BY DEF AddedTo
<1>4. CASE slot = j
  <2> DEFINE t == Append(s, x)
             n == Len(s)
  <2>1. /\ t \in Seq(OrderSlots) /\ Len(t) = n + 1
        /\ \A k \in 1 .. n : t[k] = s[k]
        /\ t[n + 1] = x
    BY <1>1, <1>3, AppendProperties
  <2> HIDE DEF t
  <2>2. \A k, m \in 1 .. n + 1 : t[k] = t[m] => k = m
    <3> SUFFICES ASSUME NEW k \in 1 .. n + 1, NEW m \in 1 .. n + 1, t[k] = t[m] PROVE k = m
      OBVIOUS
    <3>1. (k \in 1 .. n \/ k = n + 1) /\ (m \in 1 .. n \/ m = n + 1)
      BY <1>1
    <3> QED
      BY <1>1, <1>2, <2>1, <3>1
  <2>3. MembersOf(c, slot) = {t[k] : k \in 1 .. n + 1}
    <3>1. MembersOf(c, slot) = MembersOf(b, slot) \cup {x}
      BY <1>3, <1>4 DEF MembersOf, AddedTo
    <3>2. ASSUME NEW i PROVE i \in MembersOf(b, slot) \cup {x} <=> \E k \in 1 .. n + 1 : i = t[k]
      <4>1. ASSUME i \in MembersOf(b, slot) PROVE \E k \in 1 .. n + 1 : i = t[k]
        <5>1. PICK k \in 1 .. n : i = s[k]
          BY <1>1, <4>1
        <5> QED
          BY <1>1, <2>1, <5>1
      <4>2. n + 1 \in 1 .. n + 1
        BY <1>1
      <4>3. ASSUME NEW k \in 1 .. n + 1 PROVE t[k] \in MembersOf(b, slot) \cup {x}
        <5>1. k \in 1 .. n \/ k = n + 1
          BY <1>1
        <5> QED
          BY <1>1, <2>1, <5>1
      <4> QED
        BY <2>1, <4>1, <4>2, <4>3
    <3> QED
      BY <3>1, <3>2
  <2>4. c.price_level_pool[slot].head = t[1]
    <3>1. CASE n = 0
      BY <1>1, <1>4, <2>1, <3>1 DEF AddedTo
    <3>2. CASE n # 0
      <4>1. 1 \in 1 .. n /\ s[1] # NIL
        BY <1>1, <3>2, SlotsAreNotNIL
      <4> QED
        BY <1>1, <1>4, <2>1, <3>2, <4>1 DEF AddedTo
    <3> QED
      BY <3>1, <3>2
  <2>5. ASSUME NEW k \in 1 .. n + 1
        PROVE  c.order_pool[t[k]].next = IF k = n + 1 THEN NIL ELSE t[k + 1]
    <3>1. CASE k = n + 1
      BY <1>3, <2>1, <3>1
    <3>2. CASE k = n /\ k # n + 1
      <4>1. b.price_level_pool[j].tail = s[n] /\ s[n] # NIL
        BY <1>1, <1>2, <1>4, <3>2, SlotsAreNotNIL
      <4>2. c.order_pool[s[n]].next = x
        BY <4>1 DEF AddedTo
      <4> QED
        BY <1>1, <2>1, <3>2, <4>2
    <3>3. CASE k \in 1 .. n - 1
      <4>1. k \in 1 .. n /\ k + 1 \in 1 .. n /\ k # n /\ k # n + 1
        BY <1>1, <3>3
      <4>2. c.order_pool[s[k]].next = b.order_pool[s[k]].next
        BY <1>2, <1>4, <4>1 DEF AddedTo
      <4>3. b.order_pool[s[k]].next = s[k + 1]
        BY <1>1, <4>1
      <4> QED
        BY <2>1, <4>1, <4>2, <4>3
    <3> QED
      BY <1>1, <3>1, <3>2, <3>3
  <2>6. IsQueue(c, slot, t)
    <3>1. Len(t) # 0 /\ Len(t) = n + 1
      BY <1>1, <2>1
    <3> HIDE DEF n
    <3> QED
      BY <2>1, <2>2, <2>3, <2>4, <2>5, <3>1 DEF IsQueue
  <2> QED
    BY <1>4, <2>6 DEF t
<1>5. CASE slot # j
  <2>1. MembersOf(c, slot) = MembersOf(b, slot)
    BY <1>3, <1>5 DEF MembersOf, AddedTo
  <2>2. c.price_level_pool[slot].head = b.price_level_pool[slot].head
    BY <1>5 DEF AddedTo
  <2>3. ASSUME NEW k \in 1 .. Len(s)
        PROVE  c.order_pool[s[k]].next = b.order_pool[s[k]].next
    <3>1. s[k] # b.price_level_pool[j].tail
      <4>1. EndsLinked(Nexts(b), Prevs(b), Levels(b), Heads(b), Tails(b), Used(b))
        BY DEF BookInv, ListsInv, Linked
      <4>2. Used(b) \subseteq OrderSlots
        BY DEF Used
      <4>3. b.price_level_pool[j].tail # NIL =>
               b.order_pool[b.price_level_pool[j].tail].level = j
        BY <1>3, <4>1, <4>2 DEF EndsLinked, Heads, Tails, Prevs, Levels
      <4>4. s[k] # NIL /\ b.order_pool[s[k]].level = slot
        BY <1>1, <1>2, SlotsAreNotNIL
      <4> QED
        BY <1>5, <4>3, <4>4
    <3> QED
      BY <1>2, <3>1 DEF AddedTo
  <2>4. IsQueue(c, slot, s)
    BY <1>1, <2>1, <2>2, <2>3 DEF IsQueue
  <2> QED
    BY <1>5, <2>4
<1> QED
  BY <1>4, <1>5

\* An order that leaves a level leaves the rest of its list in its order.
LEMMA QueueShrinks ==
    ASSUME NEW b, BookInv(b), NEW c, NEW x, RemovedFrom(b, c, x),
           NEW s, NEW m \in 1 .. Len(s), s[m] = x, IsQueue(b, b.order_pool[x].level, s)
    PROVE  IsQueue(c, b.order_pool[x].level, Cut(s, m))
<1> DEFINE slot == b.order_pool[x].level
           n == Len(s)
           t == Cut(s, m)
<1>0. slot \in LevelSlots /\ x \in Used(b)
  BY LinksOfAnOrder DEF RemovedFrom
<1>1. /\ s \in Seq(OrderSlots) /\ n \in Nat /\ m \in 1 .. n
      /\ \A k, l \in 1 .. n : s[k] = s[l] => k = l
      /\ MembersOf(b, slot) = {s[k] : k \in 1 .. n}
      /\ b.price_level_pool[slot].head = IF n = 0 THEN NIL ELSE s[1]
      /\ \A k \in 1 .. n : b.order_pool[s[k]].next = IF k = n THEN NIL ELSE s[k + 1]
  BY DEF IsQueue
<1>2. /\ \A k \in 1 .. n :
            /\ s[k] \in Used(b) /\ b.order_pool[s[k]].level = slot
            /\ b.order_pool[s[k]].prev = IF k = 1 THEN NIL ELSE s[k - 1]
            /\ s[k] # NIL
  BY <1>0, EndsOfQueue, SlotsAreNotNIL
<1>3. /\ t \in Seq(OrderSlots) /\ Len(t) = n - 1
      /\ \A k \in 1 .. n - 1 : t[k] = IF k < m THEN s[k] ELSE s[k + 1]
  BY <1>1, CutIs
<1> DEFINE next == b.order_pool[x].next
           prev == b.order_pool[x].prev
<1>4. /\ next = IF m = n THEN NIL ELSE s[m + 1]
      /\ prev = IF m = 1 THEN NIL ELSE s[m - 1]
  BY <1>1, <1>2
<1>5. /\ c.price_level_pool[slot].head =
            IF prev = NIL THEN next ELSE b.price_level_pool[slot].head
      /\ prev # NIL => c.order_pool[prev].next = next
      /\ \A i \in Used(b) \ {prev} : c.order_pool[i].next = b.order_pool[i].next
  BY DEF RemovedFrom
<1> HIDE DEF t, next, prev
<1>6. \A k, l \in 1 .. n - 1 : t[k] = t[l] => k = l
  <2> SUFFICES ASSUME NEW k \in 1 .. n - 1, NEW l \in 1 .. n - 1, t[k] = t[l] PROVE k = l
    OBVIOUS
  <2> DEFINE at(i) == IF i < m THEN i ELSE i + 1
  <2>1. at(k) \in 1 .. n /\ at(l) \in 1 .. n /\ (at(k) = at(l) => k = l)
    BY <1>1
  <2>2. t[k] = s[at(k)] /\ t[l] = s[at(l)]
    BY <1>3
  <2> HIDE DEF at
  <2> QED
    <3>1. \A i, j \in 1 .. n : s[i] = s[j] => i = j
      BY <1>1
    <3> QED
      BY <2>1, <2>2, <3>1
<1>7. MembersOf(c, slot) = {t[k] : k \in 1 .. n - 1}
  <2>1. MembersOf(c, slot) = MembersOf(b, slot) \ {x}
    BY DEF MembersOf, RemovedFrom
  <2>2. ASSUME NEW k \in 1 .. n - 1 PROVE t[k] \in MembersOf(b, slot) \ {x}
    <3>1. CASE k < m
      <4>1. k \in 1 .. n /\ k # m /\ t[k] = s[k]
        BY <1>1, <1>3, <3>1
      <4> QED
        BY <1>1, <4>1
    <3>2. CASE ~(k < m)
      <4>1. k + 1 \in 1 .. n /\ k + 1 # m /\ t[k] = s[k + 1]
        BY <1>1, <1>3, <3>2
      <4> QED
        BY <1>1, <4>1
    <3> QED
      BY <3>1, <3>2
  <2>3. ASSUME NEW i \in MembersOf(b, slot) \ {x} PROVE \E k \in 1 .. n - 1 : i = t[k]
    <3>1. PICK k \in 1 .. n : i = s[k]
      BY <1>1
    <3>2. k # m
      BY <3>1
    <3>3. CASE k < m
      BY <1>1, <1>3, <3>1, <3>3
    <3>4. CASE k > m
      <4>1. k - 1 \in 1 .. n - 1 /\ ~(k - 1 < m) /\ (k - 1) + 1 = k
        BY <1>1, <3>4
      <4> QED
        BY <1>3, <3>1, <4>1
    <3> QED
      BY <1>1, <3>2, <3>3, <3>4
  <2> QED
    BY <2>1, <2>2, <2>3
<1>8. c.price_level_pool[slot].head = IF n - 1 = 0 THEN NIL ELSE t[1]
  <2>1. CASE m = 1
    <3>1. c.price_level_pool[slot].head = next
      BY <1>4, <1>5, <2>1
    <3>2. n - 1 # 0 => t[1] = s[m + 1]
      BY <1>1, <1>3, <2>1
    <3> QED
      BY <1>1, <1>4, <2>1, <3>1, <3>2
  <2>2. CASE m # 1
    <3>1. m - 1 \in 1 .. n /\ 1 \in 1 .. n - 1 /\ 1 < m /\ n # 0
      BY <1>1, <2>2
    <3>2. prev # NIL
      BY <1>2, <1>4, <2>2, <3>1
    <3> QED
      BY <1>1, <1>3, <1>5, <3>1, <3>2
  <2> QED
    BY <2>1, <2>2
<1>9. ASSUME NEW k \in 1 .. n - 1
      PROVE  c.order_pool[t[k]].next = IF k = n - 1 THEN NIL ELSE t[k + 1]
  <2>1. CASE k < m - 1
    <3>1. k \in 1 .. n /\ k + 1 \in 1 .. n /\ k # n /\ k + 1 < m /\ k < m /\ k # n - 1
          /\ k + 1 \in 1 .. n - 1 /\ k # m - 1
      BY <1>1, <2>1
    <3>2. s[k] # prev
      <4>1. m - 1 \in 1 .. n /\ m # 1
        BY <1>1, <2>1
      <4> QED
        BY <1>1, <1>4, <3>1, <4>1
    <3>3. c.order_pool[s[k]].next = s[k + 1]
      BY <1>1, <1>2, <1>5, <3>1, <3>2
    <3> QED
      BY <1>3, <3>1, <3>3
  <2>2. CASE k = m - 1
    <3>1. k \in 1 .. n /\ m # 1 /\ k < m /\ t[k] = s[m - 1]
      BY <1>1, <1>3, <2>2
    <3>2. prev = s[m - 1] /\ prev # NIL
      BY <1>2, <1>4, <2>2, <3>1
    <3>3. c.order_pool[t[k]].next = next
      BY <1>5, <3>1, <3>2
    <3>4. CASE m = n
      BY <1>1, <1>4, <2>2, <3>3, <3>4
    <3>5. CASE m # n
      <4>1. k + 1 \in 1 .. n - 1 /\ ~(k + 1 < m) /\ (k + 1) + 1 = m + 1 /\ k # n - 1
        BY <1>1, <2>2, <3>5
      <4>2. t[k + 1] = s[m + 1]
        BY <1>3, <4>1
      <4> QED
        BY <1>4, <3>3, <3>5, <4>1, <4>2
    <3> QED
      BY <3>4, <3>5
  <2>3. CASE k > m - 1
    <3>1. k + 1 \in 1 .. n /\ ~(k < m) /\ k + 1 # m
      BY <1>1, <2>3
    <3>2. t[k] = s[k + 1]
      BY <1>3, <3>1
    <3>3. s[k + 1] # prev
      <4>1. CASE m = 1
        BY <1>2, <1>4, <3>1, <4>1
      <4>2. CASE m # 1
        <5>1. m - 1 \in 1 .. n /\ m - 1 # k + 1
          BY <1>1, <2>3, <4>2
        <5> QED
          BY <1>1, <1>4, <3>1, <4>2, <5>1
      <4> QED
        BY <4>1, <4>2
    <3>4. c.order_pool[s[k + 1]].next = IF k + 1 = n THEN NIL ELSE s[(k + 1) + 1]
      BY <1>1, <1>2, <1>5, <3>1, <3>3, SMTT(30)
    <3>5. k # n - 1 => t[k + 1] = s[(k + 1) + 1]
      <4> SUFFICES ASSUME k # n - 1 PROVE t[k + 1] = s[(k + 1) + 1]
        OBVIOUS
      <4>1. k + 1 \in 1 .. n - 1 /\ ~(k + 1 < m)
        BY <1>1, <2>3
      <4> QED
        BY <1>3, <4>1
    <3>6. (k + 1 = n) <=> (k = n - 1)
      BY <1>1
    <3> QED
      BY <3>2, <3>4, <3>5, <3>6
  <2> QED
    BY <1>1, <2>1, <2>2, <2>3
<1> HIDE DEF n, slot
<1>10. IsQueue(c, slot, t)
  BY <1>3, <1>6, <1>7, <1>8, <1>9 DEF IsQueue
<1> QED
  BY <1>10 DEF slot, t

\* The other levels' queues stay.
LEMMA OtherQueuesStay ==
    ASSUME NEW b, BookInv(b), NEW c, NEW x, RemovedFrom(b, c, x),
           NEW slot \in LevelSlots, slot # b.order_pool[x].level, NEW s, IsQueue(b, slot, s)
    PROVE  IsQueue(c, slot, s)
<1>1. MembersOf(c, slot) = MembersOf(b, slot)
  BY DEF MembersOf, RemovedFrom
<1>2. c.price_level_pool[slot].head = b.price_level_pool[slot].head
  BY DEF RemovedFrom
<1>3. b.order_pool[x].prev # NIL => b.order_pool[b.order_pool[x].prev].level = b.order_pool[x].level
  <2>1. OrdersLinked(Nexts(b), Prevs(b), Levels(b), Heads(b), Tails(b), Used(b))
    BY DEF BookInv, ListsInv, Linked
  <2>2. Used(b) \subseteq OrderSlots /\ x \in Used(b)
    BY DEF Used, RemovedFrom
  <2> QED
    BY <2>1, <2>2 DEF OrdersLinked, Prevs, Levels
<1>4. \A k \in 1 .. Len(s) : s[k] \in Used(b) /\ b.order_pool[s[k]].level = slot /\ s[k] # NIL
  BY EndsOfQueue, SlotsAreNotNIL
<1>5. \A k \in 1 .. Len(s) : c.order_pool[s[k]].next = b.order_pool[s[k]].next
  BY <1>3, <1>4 DEF RemovedFrom
<1> QED
  BY <1>1, <1>2, <1>5 DEF IsQueue

----
(* What the member functions change                                          *)

\* One order's part in one level's volume changes by d, and the volume with it.
VolumeMoves(b, c, x, level, d) ==
    /\ x \in OrderSlots /\ level \in LevelSlots /\ d \in Int
    /\ \A j \in LevelSlots : \A i \in OrderSlots :
          SharesLeft(c, j)[i] = SharesLeft(b, j)[i] + IF i = x /\ j = level THEN d ELSE 0
    /\ \A j \in LevelSlots \ {level} :
          c.price_level_pool[j].total_volume = b.price_level_pool[j].total_volume
    /\ c.price_level_pool[level].total_volume =
          Wrap(b.price_level_pool[level].total_volume + d)

LEMMA SharesLeftType ==
    ASSUME NEW b, BookType(b), NEW j
    PROVE  SharesLeft(b, j) \in [OrderSlots -> Int]
<1>1. \A i \in OrderSlots : b.order_pool[i].shares \in Int
  BY DEF BookType, OrderRecords
<1> QED
  BY <1>1 DEF SharesLeft

LEMMA VolumesFollow ==
    ASSUME NEW b, BookType(b), VolumesInv(b), NEW c, BookType(c),
           NEW x, NEW level, NEW d, VolumeMoves(b, c, x, level, d)
    PROVE  VolumesInv(c)
<1> SUFFICES ASSUME NEW j \in LevelSlots
             PROVE  c.price_level_pool[j].total_volume = Wrap(SumOf(SharesLeft(c, j)))
  BY DEF VolumesInv
<1> DEFINE before == SharesLeft(b, j)
           after == SharesLeft(c, j)
<1>1. before \in [OrderSlots -> Int] /\ after \in [OrderSlots -> Int]
  BY SharesLeftType
<1>2. /\ x \in OrderSlots /\ d \in Int
      /\ \A i \in OrderSlots : after[i] = before[i] + IF i = x /\ j = level THEN d ELSE 0
  BY DEF VolumeMoves
<1>3. b.price_level_pool[j].total_volume = Wrap(SumOf(before))
  BY DEF VolumesInv
<1> HIDE DEF before, after
<1>4. \A i \in OrderSlots \ {x} : after[i] = before[i]
  BY <1>1, <1>2
<1>5. SumOf(before) \in Int /\ SumOf(after) = SumOf(before) + (after[x] - before[x])
  BY <1>1, <1>2, <1>4, SumMoves
<1>6. after[x] - before[x] = IF j = level THEN d ELSE 0
  BY <1>1, <1>2
<1>7. CASE j = level
  <2>1. c.price_level_pool[j].total_volume = Wrap(Wrap(SumOf(before)) + d)
    BY <1>3, <1>7 DEF VolumeMoves
  <2>2. Wrap(Wrap(SumOf(before)) + d) = Wrap(SumOf(before) + d)
    BY <1>2, <1>5, WrapsAgree
  <2>3. SumOf(after) = SumOf(before) + d
    BY <1>5, <1>6, <1>7
  <2> QED
    BY <2>1, <2>2, <2>3 DEF after
<1>8. CASE j # level
  <2>1. SumOf(after) = SumOf(before)
    BY <1>5, <1>6, <1>8
  <2>2. c.price_level_pool[j].total_volume = b.price_level_pool[j].total_volume
    BY <1>8 DEF VolumeMoves
  <2> QED
    BY <1>3, <2>1, <2>2 DEF after
<1> QED
  BY <1>7, <1>8

\* A level no order is on has no volume.
LEMMA NoVolumeWithoutOrders ==
    ASSUME NEW b, BookType(b), VolumesInv(b), NEW j \in LevelSlots,
           \A i \in Used(b) : b.order_pool[i].level # j
    PROVE  b.price_level_pool[j].total_volume = 0
<1>1. SharesLeft(b, j) \in [OrderSlots -> Int]
  BY SharesLeftType
<1>2. \A i \in OrderSlots : SharesLeft(b, j)[i] = 0
  BY DEF SharesLeft
<1>3. SumOf(SharesLeft(b, j)) = 0
  BY <1>1, <1>2, SumOfNothing
<1>4. 0 \in 0 .. VolumeModulus - 1
  BY FeedAssumption
<1> QED
  BY <1>3, <1>4, SharesFit DEF VolumesInv

\* The slot on top of the free list becomes the reference's.
LEMMA SlotTaken ==
    ASSUME NEW b, BookType(b), SlotsInv(b), b.order_free_list # <<>>,
           NEW ref \in DOMAIN b.orders, b.orders[ref] = NIL,
           NEW c, c.orders = [b.orders EXCEPT ![ref] = Last(b.order_free_list)],
           c.order_free_list = Front(b.order_free_list)
    PROVE  /\ SlotsInv(c)
           /\ Last(b.order_free_list) \in OrderSlots \ Used(b)
           /\ Used(c) = Used(b) \cup {Last(b.order_free_list)}
<1> DEFINE index == Last(b.order_free_list)
<1>1. /\ b.orders \in [0 .. MaxOrderRef - 1 -> OrderSlots \cup {NIL}]
      /\ b.order_free_list \in Seq(OrderSlots)
  BY DEF BookType
<1>2. /\ index \in OrderSlots
      /\ index \in Range(b.order_free_list)
      /\ IsInjective(Front(b.order_free_list))
      /\ Range(Front(b.order_free_list)) = Range(b.order_free_list) \ {index}
  BY <1>1, TakenFromTop DEF SlotsInv
<1> HIDE DEF index
<1>3. index \notin Used(b) /\ index # NIL
  BY <1>2, SlotsAreNotNIL DEF SlotsInv
<1>4. c.orders = [b.orders EXCEPT ![ref] = index]
  BY DEF index
<1>5. Used(c) = Used(b) \cup {index}
  <2>1. \A i \in OrderSlots :
          (\E r \in DOMAIN c.orders : c.orders[r] = i)
             <=> (\E r \in DOMAIN b.orders : b.orders[r] = i) \/ i = index
    BY <1>1, <1>3, <1>4, SlotsAreNotNIL
  <2> QED
    BY <1>2, <2>1 DEF Used
<1>6. \A r, s \in DOMAIN c.orders : c.orders[r] = c.orders[s] /\ c.orders[r] # NIL => r = s
  <2>1. \A r \in DOMAIN b.orders : b.orders[r] # index
    BY <1>2, <1>3 DEF Used
  <2> QED
    BY <1>1, <1>4, <2>1 DEF SlotsInv
<1> QED
  BY <1>2, <1>3, <1>5, <1>6 DEF SlotsInv, index

\* The reference's slot becomes the top of the free list.
LEMMA SlotGivenBack ==
    ASSUME NEW b, BookType(b), SlotsInv(b),
           NEW ref \in DOMAIN b.orders, b.orders[ref] # NIL,
           NEW c, c.orders = [b.orders EXCEPT ![ref] = NIL],
           c.order_free_list = Append(b.order_free_list, b.orders[ref])
    PROVE  /\ SlotsInv(c)
           /\ c.order_free_list \in Seq(OrderSlots)
           /\ b.orders[ref] \in Used(b)
           /\ Used(c) = Used(b) \ {b.orders[ref]}
<1> DEFINE index == b.orders[ref]
<1>1. /\ b.orders \in [0 .. MaxOrderRef - 1 -> OrderSlots \cup {NIL}]
      /\ b.order_free_list \in Seq(OrderSlots)
  BY DEF BookType
<1>2. index \in OrderSlots /\ index \in Used(b) /\ index \notin Range(b.order_free_list)
  BY <1>1 DEF SlotsInv, Used
<1> HIDE DEF index
<1>3. /\ c.order_free_list \in Seq(OrderSlots)
      /\ IsInjective(c.order_free_list)
      /\ Range(c.order_free_list) = Range(b.order_free_list) \cup {index}
  BY <1>1, <1>2, PutOnTop DEF SlotsInv, index
<1>4. \A r, s \in DOMAIN b.orders : b.orders[r] = b.orders[s] /\ b.orders[r] # NIL => r = s
  BY DEF SlotsInv
<1>5. Used(c) = Used(b) \ {index}
  <2>1. \A i \in OrderSlots :
          (\E r \in DOMAIN c.orders : c.orders[r] = i)
             <=> (\E r \in DOMAIN b.orders : b.orders[r] = i) /\ i # index
    BY <1>1, <1>4, SlotsAreNotNIL DEF index
  <2> QED
    BY <2>1 DEF Used
<1>6. \A r, s \in DOMAIN c.orders : c.orders[r] = c.orders[s] /\ c.orders[r] # NIL => r = s
  BY <1>1, <1>4
<1>7. Used(c) = OrderSlots \ Range(c.order_free_list)
  BY <1>3, <1>5 DEF SlotsInv
<1> QED
  BY <1>2, <1>3, <1>5, <1>6, <1>7 DEF SlotsInv, index

\* The level slot on top of the free list becomes the price's.
LEMMA LevelTaken ==
    ASSUME NEW b, BookType(b), LevelsInv(b), b.price_level_free_list # <<>>,
           NEW locate \in DOMAIN b.price_level_maps,
           NEW price, price \notin DOMAIN b.price_level_maps[locate],
           NEW c, c.price_level_free_list = Front(b.price_level_free_list),
           c.price_level_maps = [b.price_level_maps EXCEPT ![locate] =
                                    Emplaced(@, price, Last(b.price_level_free_list))],
           c.price_level_pool[Last(b.price_level_free_list)].price = price,
           \A j \in LevelSlots \ {Last(b.price_level_free_list)} :
              c.price_level_pool[j].price = b.price_level_pool[j].price
    PROVE  /\ LevelsInv(c)
           /\ Last(b.price_level_free_list) \in LevelSlots \ Mapped(b)
           /\ Mapped(c) = Mapped(b) \cup {Last(b.price_level_free_list)}
<1> DEFINE fresh == Last(b.price_level_free_list)
           maps == b.price_level_maps
           maps2 == c.price_level_maps
<1>1. /\ b.price_level_free_list \in Seq(LevelSlots)
      /\ maps = [l \in DOMAIN maps |-> maps[l]]
      /\ \A l \in DOMAIN maps : \A p \in DOMAIN maps[l] : maps[l][p] \in LevelSlots
  BY DEF BookType
<1>2. /\ fresh \in LevelSlots
      /\ fresh \in Range(b.price_level_free_list)
      /\ IsInjective(Front(b.price_level_free_list))
      /\ Range(Front(b.price_level_free_list)) = Range(b.price_level_free_list) \ {fresh}
  BY <1>1, TakenFromTop DEF LevelsInv
<1>3. /\ DOMAIN maps2 = DOMAIN maps
      /\ \A l \in DOMAIN maps \ {locate} : maps2[l] = maps[l]
      /\ DOMAIN maps2[locate] = DOMAIN maps[locate] \cup {price}
      /\ \A p \in DOMAIN maps[locate] : maps2[locate][p] = maps[locate][p]
      /\ maps2[locate][price] = fresh
  BY <1>1 DEF Emplaced
<1>4. \A l \in DOMAIN maps : \A p \in DOMAIN maps[l] : maps[l][p] # fresh
  BY <1>1, <1>2 DEF LevelsInv, Mapped
<1>5. /\ \A l, m \in DOMAIN maps : \A p \in DOMAIN maps[l], q \in DOMAIN maps[m] :
            maps[l][p] = maps[m][q] => l = m /\ p = q
      /\ \A l \in DOMAIN maps : \A p \in DOMAIN maps[l] :
            b.price_level_pool[maps[l][p]].price = p
      /\ Mapped(b) = LevelSlots \ Range(b.price_level_free_list)
  BY DEF LevelsInv
<1>6. /\ \A l \in DOMAIN maps2 : \A p \in DOMAIN maps2[l] :
            \/ l = locate /\ p = price /\ maps2[l][p] = fresh
            \/ l \in DOMAIN maps /\ p \in DOMAIN maps[l] /\ maps2[l][p] = maps[l][p]
      /\ \A l \in DOMAIN maps : \A p \in DOMAIN maps[l] :
            l \in DOMAIN maps2 /\ p \in DOMAIN maps2[l] /\ maps2[l][p] = maps[l][p]
      /\ locate \in DOMAIN maps2 /\ price \in DOMAIN maps2[locate]
  BY <1>3
<1>7. Mapped(c) = {j \in LevelSlots : \E l \in DOMAIN maps2 : \E p \in DOMAIN maps2[l] :
                                         maps2[l][p] = j}
  BY DEF Mapped
<1>8. Mapped(b) = {j \in LevelSlots : \E l \in DOMAIN maps : \E p \in DOMAIN maps[l] :
                                         maps[l][p] = j}
  BY DEF Mapped
<1>9. \A j \in LevelSlots \ {fresh} :
         c.price_level_pool[j].price = b.price_level_pool[j].price
  OBVIOUS
<1>10. c.price_level_pool[fresh].price = price
  OBVIOUS
<1>11. c.price_level_free_list = Front(b.price_level_free_list)
  OBVIOUS
<1> HIDE DEF fresh, maps, maps2
<1>12. Mapped(c) = Mapped(b) \cup {fresh}
  BY <1>2, <1>3, <1>6, <1>7, <1>8
<1>13. \A l, m \in DOMAIN maps2 : \A p \in DOMAIN maps2[l], q \in DOMAIN maps2[m] :
          maps2[l][p] = maps2[m][q] => l = m /\ p = q
  BY <1>4, <1>5, <1>6
<1>14. \A l \in DOMAIN maps2 : \A p \in DOMAIN maps2[l] :
          c.price_level_pool[maps2[l][p]].price = p
  BY <1>1, <1>4, <1>5, <1>6, <1>9, <1>10
<1>15. Mapped(c) = LevelSlots \ Range(c.price_level_free_list)
  BY <1>2, <1>5, <1>11, <1>12
<1> QED
  BY <1>2, <1>5, <1>11, <1>12, <1>13, <1>14, <1>15 DEF LevelsInv, fresh, maps2

\* What joining a list leaves alone.
SameShares(c, d) ==
    \A i \in OrderSlots : /\ c.order_pool[i].level = d.order_pool[i].level
                          /\ c.order_pool[i].shares = d.order_pool[i].shares
                          /\ c.order_pool[i].side = d.order_pool[i].side
SameVolumes(c, d) ==
    \A j \in LevelSlots :
        /\ c.price_level_pool[j].price = d.price_level_pool[j].price
        /\ c.price_level_pool[j].total_volume = d.price_level_pool[j].total_volume

\* An order whose slot and level are taken, but which is on no list yet.
OffTheList(b, d, index, level) ==
    /\ index \in OrderSlots \ Used(b)
    /\ level \in LevelSlots
    /\ d.order_pool[index].next = NIL
    /\ d.order_pool[index].prev = NIL
    /\ d.order_pool[index].level = level
    /\ \A i \in OrderSlots \ {index} : d.order_pool[i] = b.order_pool[i]
    /\ \A j \in LevelSlots : /\ d.price_level_pool[j].head = b.price_level_pool[j].head
                             /\ d.price_level_pool[j].tail = b.price_level_pool[j].tail
    /\ Used(d) = Used(b) \cup {index}
    /\ level \in Mapped(d)
    /\ Mapped(b) \subseteq Mapped(d)

\* It joins its level's list.
LEMMA ListsGrow ==
    ASSUME NEW b, BookType(b), ListsInv(b), NEW d, BookType(d),
           NEW index, NEW level, OffTheList(b, d, index, level),
           NEW c, c = Enqueue(d, index, level)
    PROVE  /\ BookType(c)
           /\ ListsInv(c)
           /\ AddedTo(b, c, index, level)
           /\ c.order_free_list = d.order_free_list
           /\ c.orders = d.orders
           /\ c.price_level_free_list = d.price_level_free_list
           /\ c.price_level_maps = d.price_level_maps
           /\ SameShares(c, d)
           /\ SameVolumes(c, d)
<1> USE DEF OffTheList
<1> DEFINE first == d.price_level_pool[level].head
           last == d.price_level_pool[level].tail
<1>1. /\ first = Heads(b)[level]
      /\ last = Tails(b)[level]
      /\ EndsLinked(Nexts(b), Prevs(b), Levels(b), Heads(b), Tails(b), Used(b))
  BY DEF ListsInv, Linked, Heads, Tails
<1>2. /\ first = NIL <=> last = NIL
      /\ last # NIL => last \in Used(b) /\ last \in OrderSlots \ {index}
  BY <1>1 DEF EndsLinked, Used
<1>3. /\ BookType(c)
      /\ c.order_free_list = d.order_free_list
      /\ c.orders = d.orders
      /\ c.price_level_free_list = d.price_level_free_list
      /\ c.price_level_maps = d.price_level_maps
      /\ \A i \in OrderSlots : /\ c.order_pool[i].level = d.order_pool[i].level
                               /\ c.order_pool[i].shares = d.order_pool[i].shares
                               /\ c.order_pool[i].side = d.order_pool[i].side
      /\ first # NIL => c.order_pool[last].next = index
      /\ \A i \in OrderSlots : first = NIL \/ i # last =>
            c.order_pool[i].next = d.order_pool[i].next
      /\ c.order_pool[index].prev = IF first = NIL THEN d.order_pool[index].prev ELSE last
      /\ \A i \in OrderSlots \ {index} : c.order_pool[i].prev = d.order_pool[i].prev
      /\ c.price_level_pool[level].head = IF first = NIL THEN index ELSE first
      /\ c.price_level_pool[level].tail = index
      /\ \A j \in LevelSlots \ {level} : c.price_level_pool[j] = d.price_level_pool[j]
      /\ c.price_level_pool[level].price = d.price_level_pool[level].price
      /\ c.price_level_pool[level].total_volume = d.price_level_pool[level].total_volume
  BY <1>2, EnqueueFields, SMTT(40)
<1> HIDE DEF first, last
<1>4. Used(c) = Used(b) \cup {index} /\ Mapped(c) = Mapped(d)
  BY <1>3 DEF Used, Mapped
<1>5. /\ Nexts(c)[index] = NIL
      /\ Prevs(c)[index] = Tails(b)[level]
      /\ Levels(c)[index] = level
      /\ Tails(c)[level] = index
      /\ Heads(c)[level] = IF Heads(b)[level] = NIL THEN index ELSE Heads(b)[level]
      /\ Tails(b)[level] # NIL => Nexts(c)[Tails(b)[level]] = index
  BY <1>1, <1>2, <1>3 DEF Nexts, Prevs, Levels, Heads, Tails
<1>6. /\ \A i \in OrderSlots \ {index} : /\ Prevs(c)[i] = Prevs(b)[i]
                                         /\ Levels(c)[i] = Levels(b)[i]
      /\ \A i \in OrderSlots \ {index, Tails(b)[level]} : Nexts(c)[i] = Nexts(b)[i]
  BY <1>1, <1>3 DEF Nexts, Prevs, Levels
<1>7. \A j \in LevelSlots \ {level} : Heads(c)[j] = Heads(b)[j] /\ Tails(c)[j] = Tails(b)[j]
  BY <1>3 DEF Heads, Tails
<1>8. Linked(Nexts(c), Prevs(c), Levels(c), Heads(c), Tails(c), Used(b) \cup {index})
  <2>1. Linked(Nexts(b), Prevs(b), Levels(b), Heads(b), Tails(b), Used(b))
    BY DEF ListsInv
  <2>2. Used(b) \in SUBSET OrderSlots
    BY DEF Used
  <2>3. Enqueues(Nexts(b), Prevs(b), Levels(b), Heads(b), Tails(b), Used(b), index, level,
                 Nexts(c), Prevs(c), Levels(c), Heads(c), Tails(c))
    BY <1>5, <1>6, <1>7, <2>2 DEF Enqueues
  <2> QED
    BY <2>1, <2>3, EnqueueLinks
<1>9. \A i \in Used(c) : c.order_pool[i].level \in Mapped(c)
  <2>1. \A i \in Used(b) : i \in OrderSlots \ {index} /\ b.order_pool[i].level \in Mapped(b)
    BY DEF ListsInv, Used
  <2> QED
    BY <1>3, <1>4, <2>1
<1>10. ListsInv(c)
  BY <1>4, <1>8, <1>9 DEF ListsInv
<1>11. SameShares(c, d) /\ SameVolumes(c, d)
  BY <1>3 DEF SameShares, SameVolumes
<1>12. AddedTo(b, c, index, level)
  <2>1. Used(b) \subseteq OrderSlots \ {index}
    BY DEF Used
  <2>2. /\ first = b.price_level_pool[level].head
        /\ last = b.price_level_pool[level].tail
    BY DEF first, last
  <2>3. /\ \A i \in Used(b) : /\ c.order_pool[i].level = b.order_pool[i].level
                              /\ i # last => c.order_pool[i].next = b.order_pool[i].next
        /\ c.order_pool[index].level = level
        /\ c.order_pool[index].next = NIL
        /\ last # NIL => c.order_pool[last].next = index
    BY <1>2, <1>3, <2>1
  <2>4. \A k \in LevelSlots \ {level} : c.price_level_pool[k].head = b.price_level_pool[k].head
    BY <1>3
  <2>5. /\ index \in OrderSlots \ Used(b) /\ level \in LevelSlots
        /\ Used(c) = Used(b) \cup {index}
        /\ c.price_level_pool[level].head = IF first = NIL THEN index ELSE first
    BY <1>3, <1>4
  <2> QED
    BY <2>2, <2>3, <2>4, <2>5 DEF AddedTo
<1> QED
  BY <1>3, <1>10, <1>11, <1>12

\* And its shares join its level's volume.
LEMMA VolumesGrow ==
    ASSUME NEW b, BookType(b), VolumesInv(b), NEW d, NEW c, BookType(c),
           NEW index, NEW level, OffTheList(b, d, index, level),
           NEW shares \in Int, d.order_pool[index].shares = shares,
           Used(c) = Used(d),
           SameShares(c, d),
           c.price_level_pool[level].total_volume =
              Wrap(b.price_level_pool[level].total_volume + shares),
           \A j \in LevelSlots \ {level} :
              c.price_level_pool[j].total_volume = b.price_level_pool[j].total_volume
    PROVE  VolumesInv(c)
<1> USE DEF OffTheList
<1>1. ASSUME NEW j \in LevelSlots, NEW i \in OrderSlots
      PROVE  SharesLeft(c, j)[i] =
                SharesLeft(b, j)[i] + IF i = index /\ j = level THEN shares ELSE 0
  <2>1. SharesLeft(b, j)[i] \in Int
    BY SharesLeftType
  <2>2. CASE i = index
    BY <2>2 DEF SharesLeft, SameShares
  <2>3. CASE i # index
    <3>1. (i \in Used(c) <=> i \in Used(b)) /\ d.order_pool[i] = b.order_pool[i]
      BY <2>3
    <3>2. SharesLeft(c, j)[i] = SharesLeft(b, j)[i]
      BY <3>1 DEF SharesLeft, SameShares
    <3> QED
      BY <2>1, <2>3, <3>2
  <2> QED
    BY <2>2, <2>3
<1>2. VolumeMoves(b, c, index, level, shares)
  BY <1>1 DEF VolumeMoves
<1> QED
  BY <1>2, VolumesFollow

----
(* The member functions                                                      *)

\* The side and the shares of these orders are the same.
TermsKept(b, c, kept) ==
    \A i \in kept : /\ c.order_pool[i].side = b.order_pool[i].side
                    /\ c.order_pool[i].shares = b.order_pool[i].shares

\* In c slot j is the level of the locate and price, as it was in b or newly opened; the
\* other levels of c are those of b.
LevelOpen(b, c, locate, price, j) ==
    /\ locate \in DOMAIN b.price_level_maps
    /\ DOMAIN c.price_level_maps = DOMAIN b.price_level_maps
    /\ \A l \in DOMAIN b.price_level_maps :
          /\ DOMAIN c.price_level_maps[l] =
                DOMAIN b.price_level_maps[l] \cup (IF l = locate THEN {price} ELSE {})
          /\ \A p \in DOMAIN b.price_level_maps[l] :
                c.price_level_maps[l][p] = b.price_level_maps[l][p]
    /\ c.price_level_maps[locate][price] = j
    /\ price \notin DOMAIN b.price_level_maps[locate] => j \notin Mapped(b)

\* c is b with one more live reference, at the tail of its level.
Added(b, c, locate, ref, side, shares, price) ==
    \E x, j :
        /\ AddedTo(b, c, x, j)
        /\ LevelOpen(b, c, locate, price, j)
        /\ ref \in DOMAIN b.orders /\ b.orders[ref] = NIL
        /\ c.orders = [b.orders EXCEPT ![ref] = x]
        /\ c.order_pool[x].side = side /\ c.order_pool[x].shares = shares
        /\ TermsKept(b, c, Used(b))

\* c is b without one of its live references.
Removed(b, c, ref) ==
    /\ RemovedFrom(b, c, b.orders[ref])
    /\ ref \in DOMAIN b.orders
    /\ c.orders = [b.orders EXCEPT ![ref] = NIL]
    /\ TermsKept(b, c, Used(b))
    /\ c.price_level_maps = b.price_level_maps

\* c is b with fewer shares left of one live reference.
Reduced(b, c, ref, shares) ==
    /\ b.orders[ref] \in Used(b)
    /\ c.orders = b.orders
    /\ c.price_level_maps = b.price_level_maps
    /\ \A i \in OrderSlots :
          /\ c.order_pool[i].next = b.order_pool[i].next
          /\ c.order_pool[i].level = b.order_pool[i].level
          /\ c.order_pool[i].side = b.order_pool[i].side
          /\ c.order_pool[i].shares =
                b.order_pool[i].shares - (IF i = b.orders[ref] THEN shares ELSE 0)
    /\ \A k \in LevelSlots : c.price_level_pool[k].head = b.price_level_pool[k].head

\* c is b with more locates, which have no levels yet.
Announced(b, c) ==
    /\ c.orders = b.orders
    /\ c.order_pool = b.order_pool
    /\ c.price_level_pool = b.price_level_pool
    /\ DOMAIN b.price_level_maps \subseteq DOMAIN c.price_level_maps
    /\ \A l \in DOMAIN b.price_level_maps : c.price_level_maps[l] = b.price_level_maps[l]
    /\ \A l \in DOMAIN c.price_level_maps : l \notin DOMAIN b.price_level_maps =>
          DOMAIN c.price_level_maps[l] = {}

\* A new order takes a free slot, and a free level if its price is new.
LEMMA AddOrderKeeps ==
    ASSUME NEW b, BookInv(b), NEW locate, NEW ref, ref \in DOMAIN b.orders => b.orders[ref] = NIL,
           NEW side \in Sides \cup {NoSide}, NEW shares \in 0 .. VolumeModulus - 1,
           NEW price \in Prices,
           AddOrder(b, locate, ref, side, shares, price).status = "running"
    PROVE  /\ BookInv(AddOrder(b, locate, ref, side, shares, price))
           /\ Added(b, AddOrder(b, locate, ref, side, shares, price),
                    locate, ref, side, shares, price)
<1> DEFINE index == Last(b.order_free_list)
           placed == Placed(b, index, ref, side, shares)
           known == b.price_level_maps[locate][price]
           fresh == Last(b.price_level_free_list)
           joined == Joined(placed, index, known, shares)
           opened == Opened(placed, index, locate, price, fresh, shares)
           c == AddOrder(b, locate, ref, side, shares, price)
<1>0. BookType(b) /\ SlotsInv(b) /\ LevelsInv(b) /\ ListsInv(b) /\ VolumesInv(b)
  BY DEF BookInv
<1> shares \in Int
  OBVIOUS
<1>1. /\ b.order_free_list # <<>>
      /\ ref \in DOMAIN b.orders
      /\ locate \in DOMAIN b.price_level_maps
  <2>1. "status" \in DOMAIN b
    BY <1>0 DEF BookType, BookFields
  <2>2. \A how : Ended(b, how).status = how
    BY <2>1 DEF Ended
  <2> QED
    BY <2>2 DEF AddOrder, KnowsRef, KnowsLocate
<1>2. b.orders[ref] = NIL
  BY <1>1
<1>3. index \in OrderSlots
  BY <1>0, <1>1, TakenFromTop DEF BookType
<1>4. /\ BookType(placed)
      /\ placed.order_free_list = Front(b.order_free_list)
      /\ placed.orders = [b.orders EXCEPT ![ref] = index]
      /\ placed.order_pool[index].next = NIL /\ placed.order_pool[index].prev = NIL
      /\ placed.order_pool[index].shares = shares /\ placed.order_pool[index].side = side
      /\ \A i \in OrderSlots \ {index} : placed.order_pool[i] = b.order_pool[i]
      /\ placed.price_level_free_list = b.price_level_free_list
      /\ placed.price_level_pool = b.price_level_pool
      /\ placed.price_level_maps = b.price_level_maps
  <2>1. placed = Placed(b, index, ref, side, shares)
    OBVIOUS
  <2> HIDE DEF index, placed
  <2> QED
    <3>1. /\ BookType(b) /\ b.order_free_list # <<>>
          /\ index \in OrderSlots /\ ref \in DOMAIN b.orders
          /\ side \in Sides \cup {NoSide} /\ shares \in Int
          /\ placed = Placed(b, index, ref, side, shares)
      BY <1>0, <1>1, <1>3, <2>1
    <3>2. BookType(placed) /\ PlacedAs(placed, b, index, ref, side, shares)
      BY <3>1, PlacedFields
    <3> QED
      BY <3>2 DEF PlacedAs
<1>5. placed.order_pool \in [OrderSlots -> OrderRecords]
  BY <1>4 DEF BookType
<1>6. CASE price \in DOMAIN b.price_level_maps[locate]
  <2>1. c = Enqueue(joined, index, known)
    BY <1>1, <1>6 DEF AddOrder, KnowsRef, KnowsLocate
  <2>2. known \in LevelSlots /\ known \in Mapped(b)
    BY <1>0, <1>1, <1>6 DEF BookType, Mapped
  <2> HIDE DEF placed, known
  <2>3. /\ BookType(joined)
        /\ joined.order_free_list = placed.order_free_list
        /\ joined.orders = placed.orders
        /\ joined.order_pool = [placed.order_pool EXCEPT ![index].level = known]
        /\ joined.price_level_free_list = placed.price_level_free_list
        /\ joined.price_level_maps = placed.price_level_maps
        /\ joined.price_level_pool[known].total_volume =
              Wrap(placed.price_level_pool[known].total_volume + shares)
        /\ \A j \in LevelSlots :
              /\ joined.price_level_pool[j].head = placed.price_level_pool[j].head
              /\ joined.price_level_pool[j].tail = placed.price_level_pool[j].tail
              /\ joined.price_level_pool[j].price = placed.price_level_pool[j].price
              /\ j # known => joined.price_level_pool[j].total_volume =
                                 placed.price_level_pool[j].total_volume
    BY <1>3, <1>4, <2>2, JoinedFields, SMTT(40)
  <2> HIDE DEF joined, c
  <2>4. known \in Int
    BY <2>2, PoolAssumption DEF LevelSlots
  <2>5. /\ joined.order_pool[index].next = NIL
        /\ joined.order_pool[index].prev = NIL
        /\ joined.order_pool[index].level = known
        /\ joined.order_pool[index].shares = shares /\ joined.order_pool[index].side = side
        /\ \A i \in OrderSlots \ {index} : joined.order_pool[i] = b.order_pool[i]
    BY <1>3, <1>4, <1>5, <2>3, <2>4, WithLevel
  <2>6. /\ SlotsInv(joined)
        /\ index \in OrderSlots \ Used(b)
        /\ Used(joined) = Used(b) \cup {index}
    BY <1>0, <1>1, <1>2, <1>4, <2>3, SlotTaken
  <2>7. Mapped(joined) = Mapped(b)
    BY <1>4, <2>3 DEF Mapped
  <2> HIDE DEF index
  <2> OffTheList(b, joined, index, known)
    BY <1>4, <2>2, <2>3, <2>5, <2>6, <2>7 DEF OffTheList
  <2>8. /\ BookType(c)
        /\ ListsInv(c)
        /\ c.order_free_list = joined.order_free_list
        /\ c.orders = joined.orders
        /\ c.price_level_free_list = joined.price_level_free_list
        /\ c.price_level_maps = joined.price_level_maps
        /\ SameShares(c, joined)
        /\ AddedTo(b, c, index, known)
        /\ SameVolumes(c, joined)
    BY <1>0, <2>1, <2>3, ListsGrow
  <2>9. SlotsInv(c)
    BY <2>6, <2>8 DEF SlotsInv, Used
  <2>10. LevelsInv(c)
    <3>1. \A j \in LevelSlots : c.price_level_pool[j].price = b.price_level_pool[j].price
      BY <1>4, <2>3, <2>8 DEF SameVolumes
    <3>2. /\ c.price_level_maps = b.price_level_maps
          /\ c.price_level_free_list = b.price_level_free_list
          /\ Mapped(c) = Mapped(b)
      BY <1>4, <2>3, <2>8 DEF Mapped
    <3>3. \A l \in DOMAIN b.price_level_maps : \A p \in DOMAIN b.price_level_maps[l] :
             b.price_level_maps[l][p] \in LevelSlots
      BY <1>0 DEF BookType
    <3> QED
      BY <1>0, <3>1, <3>2, <3>3 DEF LevelsInv
  <2>11. VolumesInv(c)
    <3>1. Used(c) = Used(joined)
      BY <2>8 DEF Used
    <3>2. /\ c.price_level_pool[known].total_volume =
                Wrap(b.price_level_pool[known].total_volume + shares)
          /\ \A j \in LevelSlots \ {known} :
                c.price_level_pool[j].total_volume = b.price_level_pool[j].total_volume
      BY <1>4, <2>2, <2>3, <2>8 DEF SameVolumes
    <3> QED
      BY <1>0, <2>5, <2>8, <3>1, <3>2, VolumesGrow
  <2>12. LevelOpen(b, c, locate, price, known)
    <3>1. c.price_level_maps = b.price_level_maps
      BY <1>4, <2>3, <2>8
    <3> QED
      BY <1>1, <1>6, <3>1 DEF LevelOpen, known
  <2>13. /\ c.order_pool[index].side = side /\ c.order_pool[index].shares = shares
         /\ TermsKept(b, c, Used(b))
    <3>1. Used(b) \subseteq OrderSlots \ {index}
      BY <2>6 DEF Used
    <3> QED
      BY <1>3, <2>5, <2>8, <3>1 DEF TermsKept, SameShares
  <2>14. c.orders = [b.orders EXCEPT ![ref] = index]
    BY <1>4, <2>3, <2>8
  <2>15. Added(b, c, locate, ref, side, shares, price)
    BY <1>1, <1>2, <2>8, <2>12, <2>13, <2>14 DEF Added
  <2> QED
    BY <2>8, <2>9, <2>10, <2>11, <2>15 DEF BookInv, c
<1>7. CASE price \notin DOMAIN b.price_level_maps[locate]
  <2>1. b.price_level_free_list # <<>>
    <3>1. SUFFICES ASSUME b.price_level_free_list = <<>> PROVE FALSE
      OBVIOUS
    <3> DEFINE thrown == [placed EXCEPT !.price_level_maps[locate] = Emplaced(@, price, NIL)]
    <3>2. c = Ended(thrown, "exhausted")
      BY <1>1, <1>7, <3>1 DEF AddOrder, KnowsRef, KnowsLocate
    <3>3. "status" \in DOMAIN thrown
      BY <1>4 DEF BookType, BookFields
    <3> HIDE DEF thrown
    <3>4. c.status = "exhausted"
      BY <3>2, <3>3 DEF Ended
    <3> QED
      BY <3>4
  <2>2. c = Enqueue(opened, index, fresh)
    BY <1>1, <1>7, <2>1 DEF AddOrder, KnowsRef, KnowsLocate
  <2>3. fresh \in LevelSlots
    BY <1>0, <2>1, TakenFromTop DEF BookType
  <2> HIDE DEF placed
  <2>4. /\ BookType(opened)
        /\ opened.order_free_list = placed.order_free_list
        /\ opened.orders = placed.orders
        /\ opened.order_pool = [placed.order_pool EXCEPT ![index].level = fresh]
        /\ opened.price_level_free_list = Front(placed.price_level_free_list)
        /\ opened.price_level_maps =
              [placed.price_level_maps EXCEPT ![locate] = Emplaced(@, price, fresh)]
        /\ opened.price_level_pool[fresh].price = price
        /\ opened.price_level_pool[fresh].total_volume = shares
        /\ OthersKept(opened, placed, fresh)
    <3> HIDE DEF index, fresh
    <3>1. /\ BookType(placed)
          /\ placed.price_level_free_list # <<>>
          /\ locate \in DOMAIN placed.price_level_maps
      BY <1>1, <1>4, <2>1
    <3>2. opened = Opened(placed, index, locate, price, fresh, shares)
      OBVIOUS
    <3> HIDE DEF opened
    <3>3. BookType(opened) /\ OpenedAs(opened, placed, index, locate, price, fresh, shares)
      BY <1>3, <2>3, <3>1, <3>2, OpenedFields
    <3> QED
      BY <3>3 DEF OpenedAs
  <2> HIDE DEF opened, c
  <2>5. fresh \in Int
    BY <2>3, PoolAssumption DEF LevelSlots
  <2>6. /\ opened.order_pool[index].next = NIL
        /\ opened.order_pool[index].prev = NIL
        /\ opened.order_pool[index].level = fresh
        /\ opened.order_pool[index].shares = shares /\ opened.order_pool[index].side = side
        /\ \A i \in OrderSlots \ {index} : opened.order_pool[i] = b.order_pool[i]
    BY <1>3, <1>4, <1>5, <2>4, <2>5, WithLevel
  <2>7. /\ SlotsInv(opened)
        /\ index \in OrderSlots \ Used(b)
        /\ Used(opened) = Used(b) \cup {index}
    BY <1>0, <1>1, <1>2, <1>4, <2>4, SlotTaken
  <2>8. /\ LevelsInv(opened)
        /\ Mapped(opened) = Mapped(b) \cup {fresh}
        /\ fresh \notin Mapped(b)
    <3>1. /\ opened.price_level_free_list = Front(b.price_level_free_list)
          /\ opened.price_level_maps = [b.price_level_maps EXCEPT ![locate] =
                                           Emplaced(@, price, Last(b.price_level_free_list))]
          /\ opened.price_level_pool[Last(b.price_level_free_list)].price = price
          /\ \A j \in LevelSlots \ {Last(b.price_level_free_list)} :
                opened.price_level_pool[j].price = b.price_level_pool[j].price
      BY <1>4, <2>4 DEF OthersKept
    <3>2. /\ LevelsInv(opened)
          /\ Last(b.price_level_free_list) \in LevelSlots \ Mapped(b)
          /\ Mapped(opened) = Mapped(b) \cup {Last(b.price_level_free_list)}
      BY <1>0, <1>1, <1>7, <2>1, <3>1, LevelTaken
    <3> QED
      BY <3>2
  <2> HIDE DEF index, fresh
  <2> OffTheList(b, opened, index, fresh)
    BY <1>4, <2>3, <2>4, <2>6, <2>7, <2>8 DEF OffTheList, OthersKept
  <2>9. /\ BookType(c)
        /\ ListsInv(c)
        /\ c.order_free_list = opened.order_free_list
        /\ c.orders = opened.orders
        /\ c.price_level_free_list = opened.price_level_free_list
        /\ c.price_level_maps = opened.price_level_maps
        /\ SameShares(c, opened)
        /\ AddedTo(b, c, index, fresh)
        /\ SameVolumes(c, opened)
    BY <1>0, <2>2, <2>4, ListsGrow
  <2>10. SlotsInv(c)
    BY <2>7, <2>9 DEF SlotsInv, Used
  <2>11. LevelsInv(c)
    <3>1. \A l \in DOMAIN opened.price_level_maps : \A p \in DOMAIN opened.price_level_maps[l] :
             opened.price_level_maps[l][p] \in LevelSlots
      BY <2>4 DEF BookType
    <3>2. Mapped(c) = Mapped(opened)
      BY <2>9 DEF Mapped
    <3> QED
      BY <2>8, <2>9, <3>1, <3>2 DEF LevelsInv, SameVolumes
  <2>12. VolumesInv(c)
    <3>1. Used(c) = Used(opened)
      BY <2>9 DEF Used
    <3>2. b.price_level_pool[fresh].total_volume = 0
      <4>1. \A i \in Used(b) : b.order_pool[i].level # fresh
        BY <1>0, <2>8 DEF ListsInv
      <4> QED
        BY <1>0, <2>3, <4>1, NoVolumeWithoutOrders
    <3>3. Wrap(0 + shares) = shares
      BY SharesFit
    <3>4. /\ c.price_level_pool[fresh].total_volume =
                Wrap(b.price_level_pool[fresh].total_volume + shares)
          /\ \A j \in LevelSlots \ {fresh} :
                c.price_level_pool[j].total_volume = b.price_level_pool[j].total_volume
      BY <1>4, <2>3, <2>4, <2>9, <3>2, <3>3 DEF SameVolumes, OthersKept
    <3> QED
      BY <1>0, <2>6, <2>9, <3>1, <3>4, VolumesGrow
  <2>13. LevelOpen(b, c, locate, price, fresh)
    <3>1. /\ DOMAIN c.price_level_maps = DOMAIN b.price_level_maps
          /\ \A l \in DOMAIN b.price_level_maps :
                c.price_level_maps[l] =
                   IF l = locate THEN Emplaced(b.price_level_maps[l], price, fresh)
                   ELSE b.price_level_maps[l]
      BY <1>1, <1>4, <2>4, <2>9
    <3>2. \A map : /\ DOMAIN Emplaced(map, price, fresh) = DOMAIN map \cup {price}
                   /\ \A p \in DOMAIN map : Emplaced(map, price, fresh)[p] = map[p]
                   /\ price \notin DOMAIN map => Emplaced(map, price, fresh)[price] = fresh
      BY DEF Emplaced
    <3> QED
      <4>1. locate \in DOMAIN b.price_level_maps
        BY <1>1
      <4>2. price \notin DOMAIN b.price_level_maps[locate] /\ fresh \notin Mapped(b)
        BY <1>7, <2>8
      <4> HIDE DEF fresh, c
      <4>3. ASSUME NEW l \in DOMAIN b.price_level_maps
            PROVE  /\ DOMAIN c.price_level_maps[l] =
                         DOMAIN b.price_level_maps[l] \cup (IF l = locate THEN {price} ELSE {})
                   /\ \A p \in DOMAIN b.price_level_maps[l] :
                         c.price_level_maps[l][p] = b.price_level_maps[l][p]
        BY <3>1, <3>2
      <4>4. c.price_level_maps[locate][price] = fresh
        BY <3>1, <3>2, <4>1, <4>2
      <4> QED
        BY <3>1, <4>1, <4>2, <4>3, <4>4, Zenon DEF LevelOpen
  <2>14. /\ c.order_pool[index].side = side /\ c.order_pool[index].shares = shares
         /\ TermsKept(b, c, Used(b))
    <3>1. Used(b) \subseteq OrderSlots \ {index}
      BY <2>7 DEF Used
    <3> QED
      BY <1>3, <2>6, <2>9, <3>1 DEF TermsKept, SameShares
  <2>15. c.orders = [b.orders EXCEPT ![ref] = index]
    BY <1>4, <2>4, <2>9
  <2>16. Added(b, c, locate, ref, side, shares, price)
    BY <1>1, <1>2, <2>9, <2>13, <2>14, <2>15 DEF Added
  <2> QED
    BY <2>9, <2>10, <2>11, <2>12, <2>16 DEF BookInv, c
<1> QED
  BY <1>6, <1>7

\* An order leaves its level's list and gives its slot back; the level stays.
LEMMA DeleteOrderKeeps ==
    ASSUME NEW b, BookInv(b), NEW ref \in DOMAIN b.orders
    PROVE  LET c == DeleteOrder(b, ref)
           IN  /\ BookInv(c)
               /\ c.status = b.status
               /\ c.orders = [b.orders EXCEPT ![ref] = NIL]
               /\ b.orders[ref] # NIL => Removed(b, c, ref)
<1> DEFINE x == b.orders[ref]
           level == b.order_pool[x].level
           d == Unlink(b, x)
           c == DeleteOrder(b, ref)
<1>0. BookType(b) /\ SlotsInv(b) /\ LevelsInv(b) /\ ListsInv(b) /\ VolumesInv(b)
  BY DEF BookInv
<1>1. /\ b.orders \in [0 .. MaxOrderRef - 1 -> OrderSlots \cup {NIL}]
      /\ ref \in 0 .. MaxOrderRef - 1
  BY <1>0 DEF BookType
<1>2. CASE x = NIL
  <2>1. c = b
    BY <1>2 DEF DeleteOrder, KnowsRef
  <2>2. b.orders = [b.orders EXCEPT ![ref] = NIL]
    BY <1>1, <1>2
  <2> QED
    BY <2>1, <2>2
<1>3. CASE x # NIL
  <2>1. x \in Used(b)
    BY <1>1, <1>3 DEF Used
  <2>2. /\ x \in OrderSlots
        /\ level \in LevelSlots
        /\ b.order_pool[x].next \in (OrderSlots \ {x}) \cup {NIL}
        /\ b.order_pool[x].prev \in (OrderSlots \ {x}) \cup {NIL}
    BY <2>1, LinksOfAnOrder
  <2> DEFINE volume == Wrap(d.price_level_pool[level].total_volume - b.order_pool[x].shares)
             next == b.order_pool[x].next
             prev == b.order_pool[x].prev
  <2>3. c = [d EXCEPT !.price_level_pool[level].total_volume = volume,
                      !.orders[ref] = NIL,
                      !.order_free_list = Append(@, x)]
    BY <1>3 DEF DeleteOrder, KnowsRef
  <2>4. /\ BookType(d)
        /\ d.status = b.status
        /\ d.order_free_list = b.order_free_list
        /\ d.orders = b.orders
        /\ d.price_level_free_list = b.price_level_free_list
        /\ d.price_level_maps = b.price_level_maps
        /\ \A i \in OrderSlots : /\ d.order_pool[i].level = b.order_pool[i].level
                                 /\ d.order_pool[i].shares = b.order_pool[i].shares
                                 /\ d.order_pool[i].side = b.order_pool[i].side
        /\ next # NIL => d.order_pool[next].prev = prev
        /\ \A i \in OrderSlots \ {next} : d.order_pool[i].prev = b.order_pool[i].prev
        /\ prev # NIL => d.order_pool[prev].next = next
        /\ \A i \in OrderSlots \ {prev} : d.order_pool[i].next = b.order_pool[i].next
        /\ d.price_level_pool[level].head =
              IF prev = NIL THEN next ELSE b.price_level_pool[level].head
        /\ d.price_level_pool[level].tail =
              IF next = NIL THEN prev ELSE b.price_level_pool[level].tail
        /\ \A j \in LevelSlots :
              /\ d.price_level_pool[j].price = b.price_level_pool[j].price
              /\ d.price_level_pool[j].total_volume = b.price_level_pool[j].total_volume
        /\ \A j \in LevelSlots \ {level} : d.price_level_pool[j] = b.price_level_pool[j]
    BY <1>0, <2>2, UnlinkFields
  <2>5. volume \in Int
    <3>1. /\ d.price_level_pool[level].total_volume \in Int
          /\ b.order_pool[x].shares \in Int
      BY <1>0, <2>2, <2>4 DEF BookType, OrderRecords, LevelRecords
    <3> QED
      BY <3>1, WrapIsInt
  <2> HIDE DEF c, d, volume, x, level, next, prev
  <2>6. /\ DOMAIN c = BookFields
        /\ c.status = d.status
        /\ c.order_free_list = Append(d.order_free_list, x)
        /\ c.orders = [d.orders EXCEPT ![ref] = NIL]
        /\ c.order_pool = d.order_pool
        /\ c.price_level_free_list = d.price_level_free_list
        /\ c.price_level_pool = [d.price_level_pool EXCEPT ![level].total_volume = volume]
        /\ c.price_level_maps = d.price_level_maps
    BY <2>3, <2>4 DEF BookType, BookFields
  <2>7. /\ c.price_level_pool \in [LevelSlots -> LevelRecords]
        /\ c.price_level_pool[level].total_volume = volume
        /\ \A j \in LevelSlots \ {level} :
              c.price_level_pool[j].total_volume = d.price_level_pool[j].total_volume
        /\ \A j \in LevelSlots :
              /\ c.price_level_pool[j].head = d.price_level_pool[j].head
              /\ c.price_level_pool[j].tail = d.price_level_pool[j].tail
              /\ c.price_level_pool[j].price = d.price_level_pool[j].price
    <3>1. d.price_level_pool \in [LevelSlots -> LevelRecords]
      BY <2>4 DEF BookType
    <3> QED
      BY <2>2, <2>5, <2>6, <3>1, WithTotalVolume
  <2>8. /\ SlotsInv(c)
        /\ c.order_free_list \in Seq(OrderSlots)
        /\ Used(c) = Used(b) \ {x}
    <3>1. /\ c.orders = [b.orders EXCEPT ![ref] = NIL]
          /\ c.order_free_list = Append(b.order_free_list, b.orders[ref])
      BY <2>4, <2>6 DEF x
    <3> QED
      BY <1>0, <1>3, <3>1, SlotGivenBack DEF x
  <2>9. c.orders \in [0 .. MaxOrderRef - 1 -> OrderSlots \cup {NIL}]
    BY <1>1, <2>4, <2>6
  <2>10. BookType(c)
    BY <2>4, <2>6, <2>7, <2>8, <2>9 DEF BookType
  <2>11. Mapped(c) = Mapped(b)
    BY <2>4, <2>6 DEF Mapped
  <2>12. LevelsInv(c)
    <3>1. \A l \in DOMAIN b.price_level_maps : \A p \in DOMAIN b.price_level_maps[l] :
             b.price_level_maps[l][p] \in LevelSlots
      BY <1>0 DEF BookType
    <3>2. \A j \in LevelSlots : c.price_level_pool[j].price = b.price_level_pool[j].price
      BY <2>4, <2>7
    <3> QED
      BY <1>0, <2>4, <2>6, <2>11, <3>1, <3>2 DEF LevelsInv
  <2>13. ListsInv(c)
    <3>1. /\ Nexts(b)[x] = next /\ Prevs(b)[x] = prev /\ Levels(b)[x] = level
          /\ Levels(c) = Levels(b)
      <4>1. Nexts(b)[x] = next /\ Prevs(b)[x] = prev /\ Levels(b)[x] = level
        BY <2>2, Zenon DEF Nexts, Prevs, Levels, next, prev, level
      <4>2. Levels(c) = Levels(b)
        BY <2>4, <2>6 DEF Levels
      <4> QED
        BY <4>1, <4>2, Zenon
    <3>2. /\ next # NIL => Prevs(c)[next] = prev
          /\ \A i \in OrderSlots \ {next} : Prevs(c)[i] = Prevs(b)[i]
          /\ prev # NIL => Nexts(c)[prev] = next
          /\ \A i \in OrderSlots \ {prev} : Nexts(c)[i] = Nexts(b)[i]
      BY <2>2, <2>4, <2>6 DEF Nexts, Prevs, next, prev
    <3>3. /\ Heads(c)[level] = IF prev = NIL THEN next ELSE Heads(b)[level]
          /\ Tails(c)[level] = IF next = NIL THEN prev ELSE Tails(b)[level]
          /\ \A k \in LevelSlots \ {level} : Heads(c)[k] = Heads(b)[k] /\ Tails(c)[k] = Tails(b)[k]
      BY <2>2, <2>4, <2>7 DEF Heads, Tails
    <3>4. Used(b) \in SUBSET OrderSlots
      BY DEF Used
    <3>5. Unlinks(Nexts(b), Prevs(b), Levels(b), Heads(b), Tails(b), Used(b), x,
                  Nexts(c), Prevs(c), Heads(c), Tails(c))
      BY <2>1, <3>1, <3>2, <3>3, <3>4 DEF Unlinks
    <3>6. Linked(Nexts(b), Prevs(b), Levels(b), Heads(b), Tails(b), Used(b))
      BY <1>0 DEF ListsInv
    <3>7. Linked(Nexts(c), Prevs(c), Levels(c), Heads(c), Tails(c), Used(c))
      BY <2>8, <3>1, <3>5, <3>6, UnlinkLinks
    <3>8. \A i \in Used(c) : c.order_pool[i].level \in Mapped(c)
      BY <1>0, <2>4, <2>6, <2>8, <2>11, <3>4 DEF ListsInv
    <3> QED
      BY <3>7, <3>8 DEF ListsInv
  <2>14. VolumesInv(c)
    <3> DEFINE left == b.order_pool[x].shares
    <3>1. left \in Int /\ b.price_level_pool[level].total_volume \in Int
      BY <1>0, <2>2 DEF BookType, OrderRecords, LevelRecords
    <3>2. volume = Wrap(b.price_level_pool[level].total_volume + (0 - left))
      <4>1. b.price_level_pool[level].total_volume + (0 - left)
               = b.price_level_pool[level].total_volume - left
        BY <3>1
      <4> QED
        BY <2>2, <2>4, <4>1 DEF volume
    <3>3. ASSUME NEW j \in LevelSlots, NEW i \in OrderSlots
          PROVE  SharesLeft(c, j)[i] =
                    SharesLeft(b, j)[i] + IF i = x /\ j = level THEN 0 - left ELSE 0
      <4>1. SharesLeft(b, j)[i] \in Int
        BY <1>0, SharesLeftType
      <4>2. CASE i = x
        BY <2>1, <2>8, <3>1, <4>2 DEF SharesLeft, level
      <4>3. CASE i # x
        BY <2>4, <2>6, <2>8, <4>1, <4>3 DEF SharesLeft
      <4> QED
        BY <4>2, <4>3
    <3> HIDE DEF left
    <3>4. VolumeMoves(b, c, x, level, 0 - left)
      BY <2>2, <2>4, <2>7, <3>1, <3>2, <3>3 DEF VolumeMoves
    <3> QED
      BY <1>0, <2>10, <3>4, VolumesFollow
  <2>15. RemovedFrom(b, c, x)
    <3>1. Used(b) \subseteq OrderSlots
      BY DEF Used
    <3>2. /\ \A i \in Used(b) : c.order_pool[i].level = b.order_pool[i].level
          /\ prev # NIL => c.order_pool[prev].next = next
          /\ \A i \in Used(b) \ {prev} : c.order_pool[i].next = b.order_pool[i].next
      BY <2>4, <2>6, <3>1
    <3>3. /\ c.price_level_pool[level].head =
                IF prev = NIL THEN next ELSE b.price_level_pool[level].head
          /\ \A k \in LevelSlots \ {level} :
                c.price_level_pool[k].head = b.price_level_pool[k].head
      BY <2>2, <2>4, <2>7, SMTT(40) DEF level
    <3> QED
      BY <2>1, <2>8, <3>2, <3>3 DEF RemovedFrom, level, prev, next
  <2>16. Removed(b, c, ref)
    <3>1. TermsKept(b, c, Used(b))
      BY <2>4, <2>6 DEF TermsKept, Used
    <3> QED
      BY <2>4, <2>6, <2>15, <3>1 DEF Removed, x
  <2> QED
    BY <2>4, <2>6, <2>8, <2>10, <2>12, <2>13, <2>14, <2>16 DEF BookInv, c
<1> QED
  BY <1>2, <1>3

\* A partial execution or cancellation touches shares and volume only.
LEMMA ReduceOrderSizeKeeps ==
    ASSUME NEW b, BookInv(b), NEW ref, NEW shares \in Int,
           ReduceOrderSize(b, ref, shares).status = "running"
    PROVE  /\ BookInv(ReduceOrderSize(b, ref, shares))
           /\ b.orders[ref] # NIL /\ ~(b.order_pool[b.orders[ref]].shares <= shares) =>
                 Reduced(b, ReduceOrderSize(b, ref, shares), ref, shares)
<1> DEFINE x == b.orders[ref]
           c == ReduceOrderSize(b, ref, shares)
           level == b.order_pool[x].level
<1>0. BookType(b) /\ SlotsInv(b) /\ LevelsInv(b) /\ ListsInv(b) /\ VolumesInv(b)
  BY DEF BookInv
<1>1. ref \in DOMAIN b.orders
  <2>1. "status" \in DOMAIN b
    BY <1>0 DEF BookType, BookFields
  <2>2. Ended(b, "undefined").status = "undefined"
    BY <2>1 DEF Ended
  <2> QED
    BY <2>2 DEF ReduceOrderSize, KnowsRef
<1>2. CASE x = NIL
  BY <1>1, <1>2 DEF ReduceOrderSize, KnowsRef
<1>3. CASE x # NIL /\ b.order_pool[x].shares <= shares
  <2>1. c = DeleteOrder(b, ref)
    BY <1>1, <1>3 DEF ReduceOrderSize, KnowsRef
  <2> QED
    BY <1>1, <1>3, <2>1, DeleteOrderKeeps
<1>4. CASE x # NIL /\ ~(b.order_pool[x].shares <= shares)
  <2>1. x \in Used(b)
    BY <1>0, <1>1, <1>4 DEF Used, BookType
  <2>2. x \in OrderSlots /\ level \in LevelSlots
    BY <2>1, LinksOfAnOrder
  <2>3. /\ b.order_pool \in [OrderSlots -> OrderRecords]
        /\ b.price_level_pool \in [LevelSlots -> LevelRecords]
    BY <1>0 DEF BookType
  <2> DEFINE left == b.order_pool[x].shares - shares
             volume == Wrap(b.price_level_pool[level].total_volume - shares)
  <2>4. left \in Int /\ volume \in Int
    <3>1. b.order_pool[x] \in OrderRecords /\ b.price_level_pool[level] \in LevelRecords
      BY <2>2, <2>3, Zenon
    <3>2. /\ b.order_pool[x].shares \in Int
          /\ b.price_level_pool[level].total_volume \in Int
      BY <3>1, Zenon DEF OrderRecords, LevelRecords
    <3> QED
      <4>1. left \in Int
        BY <3>2
      <4>2. b.price_level_pool[level].total_volume - shares \in Int
        BY <3>2
      <4> QED
        BY <4>1, <4>2, WrapIsInt, Zenon
  <2>5. c = [b EXCEPT !.order_pool[x].shares = left,
                      !.price_level_pool[level].total_volume = volume]
    BY <1>1, <1>4 DEF ReduceOrderSize, KnowsRef
  <2> HIDE DEF c, x, level, left, volume
  <2>6. /\ DOMAIN c = BookFields
        /\ c.order_free_list = b.order_free_list
        /\ c.orders = b.orders
        /\ c.order_pool = [b.order_pool EXCEPT ![x].shares = left]
        /\ c.price_level_free_list = b.price_level_free_list
        /\ c.price_level_pool = [b.price_level_pool EXCEPT ![level].total_volume = volume]
        /\ c.price_level_maps = b.price_level_maps
    BY <1>0, <2>5 DEF BookType, BookFields
  <2>7. /\ c.order_pool \in [OrderSlots -> OrderRecords]
        /\ c.order_pool[x].shares = left
        /\ \A i \in OrderSlots \ {x} : c.order_pool[i] = b.order_pool[i]
        /\ \A i \in OrderSlots : /\ c.order_pool[i].next = b.order_pool[i].next
                                 /\ c.order_pool[i].side = b.order_pool[i].side
                                 /\ c.order_pool[i].prev = b.order_pool[i].prev
                                 /\ c.order_pool[i].level = b.order_pool[i].level
    BY <2>2, <2>3, <2>4, <2>6, WithShares
  <2>8. /\ c.price_level_pool \in [LevelSlots -> LevelRecords]
        /\ c.price_level_pool[level].total_volume = volume
        /\ \A j \in LevelSlots \ {level} : c.price_level_pool[j] = b.price_level_pool[j]
        /\ \A j \in LevelSlots : /\ c.price_level_pool[j].head = b.price_level_pool[j].head
                                 /\ c.price_level_pool[j].tail = b.price_level_pool[j].tail
                                 /\ c.price_level_pool[j].price = b.price_level_pool[j].price
    BY <2>2, <2>3, <2>4, <2>6, WithTotalVolume
  <2>9. BookType(c)
    BY <1>0, <2>6, <2>7, <2>8 DEF BookType
  <2>10. Used(c) = Used(b) /\ Mapped(c) = Mapped(b) /\ Used(b) \subseteq OrderSlots
    BY <2>6 DEF Used, Mapped
  <2>11. SlotsInv(c)
    BY <1>0, <2>6, <2>10 DEF SlotsInv
  <2>12. LevelsInv(c)
    <3>1. \A l \in DOMAIN b.price_level_maps : \A p \in DOMAIN b.price_level_maps[l] :
             b.price_level_maps[l][p] \in LevelSlots
      BY <1>0 DEF BookType
    <3> QED
      BY <1>0, <2>6, <2>8, <2>10, <3>1 DEF LevelsInv
  <2>13. /\ Nexts(c) = Nexts(b) /\ Prevs(c) = Prevs(b) /\ Levels(c) = Levels(b)
         /\ Heads(c) = Heads(b) /\ Tails(c) = Tails(b)
    BY <2>7, <2>8 DEF Nexts, Prevs, Levels, Heads, Tails
  <2>14. ListsInv(c)
    BY <1>0, <2>7, <2>10, <2>13 DEF ListsInv
  <2>15. VolumesInv(c)
    <3>1. /\ b.order_pool[x].shares \in Int /\ left = b.order_pool[x].shares - shares
          /\ b.price_level_pool[level].total_volume \in Int
      BY <2>2, <2>3 DEF OrderRecords, LevelRecords, left
    <3>2. volume = Wrap(b.price_level_pool[level].total_volume + (0 - shares))
      <4>1. b.price_level_pool[level].total_volume + (0 - shares)
               = b.price_level_pool[level].total_volume - shares
        BY <3>1
      <4> QED
        BY <4>1 DEF volume
    <3>3. ASSUME NEW j \in LevelSlots, NEW i \in OrderSlots
          PROVE  SharesLeft(c, j)[i] =
                    SharesLeft(b, j)[i] + IF i = x /\ j = level THEN 0 - shares ELSE 0
      <4>1. SharesLeft(b, j)[i] \in Int
        BY <1>0, SharesLeftType
      <4>2. CASE i = x
        BY <2>1, <2>7, <2>10, <3>1, <4>1, <4>2 DEF SharesLeft, level
      <4>3. CASE i # x
        BY <2>7, <2>10, <4>1, <4>3 DEF SharesLeft
      <4> QED
        BY <4>2, <4>3
    <3>4. VolumeMoves(b, c, x, level, 0 - shares)
      BY <2>2, <2>8, <3>2, <3>3 DEF VolumeMoves
    <3>5. 0 - shares \in Int
      OBVIOUS
    <3> QED
      BY <1>0, <2>9, <3>4, VolumesFollow
  <2>16. Reduced(b, c, ref, shares)
    <3>1. ASSUME NEW i \in OrderSlots
          PROVE  c.order_pool[i].shares = b.order_pool[i].shares - (IF i = x THEN shares ELSE 0)
      <4>1. b.order_pool[i].shares \in Int
        BY <2>3 DEF OrderRecords
      <4>2. CASE i = x
        BY <2>7, <4>2 DEF left
      <4>3. CASE i # x
        BY <2>7, <4>1, <4>3
      <4> QED
        BY <4>2, <4>3
    <3> QED
      BY <2>1, <2>6, <2>7, <2>8, <3>1 DEF Reduced, x
  <2> QED
    BY <2>9, <2>11, <2>12, <2>14, <2>15, <2>16 DEF BookInv, c
<1> QED
  BY <1>2, <1>3, <1>4

\* A replacement is a deletion and an addition, and what the first leaves the second finds.
LEMMA ReplaceOrderKeeps ==
    ASSUME NEW b, BookInv(b), NEW locate, NEW old, NEW ref,
           ref \in DOMAIN b.orders /\ b.orders[ref] # NIL => ref = old,
           NEW shares \in 0 .. VolumeModulus - 1, NEW price \in Prices,
           ReplaceOrder(b, locate, old, ref, shares, price).status = "running"
    PROVE  BookInv(ReplaceOrder(b, locate, old, ref, shares, price))
<1> DEFINE x == b.orders[old]
           gone == DeleteOrder(b, old)
           side == b.order_pool[x].side
           c == ReplaceOrder(b, locate, old, ref, shares, price)
<1>0. BookType(b)
  BY DEF BookInv
<1>1. old \in DOMAIN b.orders
  <2>1. "status" \in DOMAIN b
    BY <1>0 DEF BookType, BookFields
  <2>2. Ended(b, "undefined").status = "undefined"
    BY <2>1 DEF Ended
  <2> QED
    BY <2>2 DEF ReplaceOrder, KnowsRef
<1>2. CASE x = NIL
  BY <1>1, <1>2 DEF ReplaceOrder, KnowsRef
<1>3. CASE x # NIL
  <2>1. c = AddOrder(gone, locate, ref, side, shares, price)
    BY <1>1, <1>3 DEF ReplaceOrder, KnowsRef
  <2>2. x \in OrderSlots
    BY <1>0, <1>1, <1>3 DEF BookType
  <2>3. side \in Sides \cup {NoSide}
    BY <1>0, <2>2 DEF BookType, OrderRecords
  <2>4. BookInv(gone) /\ gone.orders = [b.orders EXCEPT ![old] = NIL]
    BY <1>1, DeleteOrderKeeps
  <2>5. ref \in DOMAIN gone.orders => gone.orders[ref] = NIL
    BY <1>0, <1>1, <2>4 DEF BookType
  <2>6. AddOrder(gone, locate, ref, side, shares, price).status = "running"
    BY <2>1
  <2> HIDE DEF gone, side, x, c
  <2>7. BookInv(AddOrder(gone, locate, ref, side, shares, price))
    BY <2>3, <2>4, <2>5, <2>6, AddOrderKeeps
  <2> QED
    BY <2>1, <2>7 DEF c
<1> QED
  BY <1>2, <1>3

\* The tables grow and the new locates have no levels.
LEMMA MapStockStrKeeps ==
    ASSUME NEW b, BookInv(b), NEW stock, NEW locate
    PROVE  /\ BookInv(MapStockStr(b, stock, locate))
           /\ MapStockStr(b, stock, locate).status = b.status
           /\ Announced(b, MapStockStr(b, stock, locate))
<1> DEFINE c == MapStockStr(b, stock, locate)
           size == Cardinality(DOMAIN b.locate_to_str)
           grown == size * 2 ^ Doublings(size, locate)
           maps == b.price_level_maps
<1>0. BookType(b) /\ SlotsInv(b) /\ LevelsInv(b) /\ ListsInv(b) /\ VolumesInv(b)
  BY DEF BookInv
<1>1. c = [b EXCEPT !.price_level_maps = Resized(@, grown, NoPrices),
                    !.locate_to_str = [Resized(@, grown, NoStock) EXCEPT ![locate] = stock],
                    !.str_to_locate = Emplaced(@, stock, locate)]
  BY DEF MapStockStr
<1> HIDE DEF c, grown
<1>2. /\ DOMAIN c = BookFields
      /\ c.status = b.status
      /\ c.order_free_list = b.order_free_list
      /\ c.orders = b.orders
      /\ c.order_pool = b.order_pool
      /\ c.price_level_free_list = b.price_level_free_list
      /\ c.price_level_pool = b.price_level_pool
      /\ c.price_level_maps = Resized(maps, grown, NoPrices)
  BY <1>0, <1>1 DEF BookType, BookFields
<1>3. /\ c.price_level_maps = [l \in DOMAIN c.price_level_maps |-> c.price_level_maps[l]]
      /\ DOMAIN maps \subseteq DOMAIN c.price_level_maps
      /\ \A l \in DOMAIN maps : c.price_level_maps[l] = maps[l]
      /\ \A l \in DOMAIN c.price_level_maps : l \notin DOMAIN maps =>
            DOMAIN c.price_level_maps[l] = {}
  BY <1>2 DEF Resized, NoPrices
<1>4. BookType(c)
  BY <1>0, <1>2, <1>3 DEF BookType
<1>5. Used(c) = Used(b) /\ Mapped(c) = Mapped(b)
  BY <1>2, <1>3 DEF Used, Mapped
<1>6. SlotsInv(c)
  BY <1>0, <1>2, <1>5 DEF SlotsInv
<1>7. LevelsInv(c)
  BY <1>0, <1>2, <1>3, <1>5 DEF LevelsInv
<1>8. ListsInv(c)
  BY <1>0, <1>2, <1>5 DEF ListsInv, Nexts, Prevs, Levels, Heads, Tails
<1>9. VolumesInv(c)
  <2>1. \A j \in LevelSlots : SharesLeft(c, j) = SharesLeft(b, j)
    BY <1>2, <1>5 DEF SharesLeft
  <2> QED
    BY <1>0, <1>2, <2>1 DEF VolumesInv
<1>10. Announced(b, c)
  BY <1>2, <1>3 DEF Announced
<1> QED
  BY <1>2, <1>4, <1>6, <1>7, <1>8, <1>9, <1>10 DEF BookInv, c

\* A pool's free list starts with every slot once.
LEMMA FreeListIsFull ==
    ASSUME NEW capacity \in Nat
    PROVE  /\ FreeList(capacity) \in Seq(0 .. capacity - 1)
           /\ IsInjective(FreeList(capacity))
           /\ Range(FreeList(capacity)) = 0 .. capacity - 1
<1> DEFINE list == FreeList(capacity)
<1>1. /\ DOMAIN list = 1 .. capacity
      /\ \A k \in 1 .. capacity : list[k] = capacity - k
      /\ list \in [1 .. capacity -> 0 .. capacity - 1]
  BY DEF FreeList
<1> HIDE DEF list
<1>2. list \in Seq(0 .. capacity - 1)
  BY <1>1, IsASeq
<1>3. IsInjective(list)
  BY <1>1 DEF IsInjective
<1>4. \A i \in 0 .. capacity - 1 : capacity - i \in 1 .. capacity /\ list[capacity - i] = i
  <2> TAKE i \in 0 .. capacity - 1
  <2>1. capacity - i \in 1 .. capacity /\ capacity - (capacity - i) = i
    OBVIOUS
  <2> QED
    BY <1>1, <2>1
<1>5. Range(list) = 0 .. capacity - 1
  BY <1>1, <1>4 DEF Range
<1> QED
  BY <1>2, <1>3, <1>5 DEF list

\* A new book is well formed.
LEMMA NewBookKeeps == BookInv(NewBook)
<1> DEFINE b == NewBook
<1>1. /\ DOMAIN b = BookFields
      /\ b.order_pool = [i \in OrderSlots |-> BlankOrder]
      /\ b.order_free_list = FreeList(OrderCapacity)
      /\ b.price_level_pool = [i \in LevelSlots |-> BlankLevel]
      /\ b.price_level_free_list = FreeList(LevelCapacity)
      /\ b.orders = [r \in 0 .. MaxOrderRef - 1 |-> NIL]
      /\ b.price_level_maps = [l \in 0 .. MaxLocates - 1 |-> NoPrices]
  BY DEF NewBook, BookFields
<1>2. /\ BlankOrder \in OrderRecords /\ BlankLevel \in LevelRecords
      /\ BlankLevel.head = NIL /\ BlankLevel.tail = NIL /\ BlankLevel.total_volume = 0
  BY DEF BlankOrder, BlankLevel, OrderRecords, LevelRecords, NIL
<1>3. /\ FreeList(OrderCapacity) \in Seq(OrderSlots)
      /\ IsInjective(FreeList(OrderCapacity))
      /\ Range(FreeList(OrderCapacity)) = OrderSlots
  BY PoolAssumption, FreeListIsFull DEF OrderSlots
<1>4. /\ FreeList(LevelCapacity) \in Seq(LevelSlots)
      /\ IsInjective(FreeList(LevelCapacity))
      /\ Range(FreeList(LevelCapacity)) = LevelSlots
  BY PoolAssumption, FreeListIsFull DEF LevelSlots
<1>5. DOMAIN NoPrices = {}
  BY DEF NoPrices
<1> HIDE DEF b
<1>6. BookType(b)
  BY <1>1, <1>2, <1>3, <1>4, <1>5 DEF BookType
<1>7. Used(b) = {} /\ Mapped(b) = {}
  BY <1>1, <1>5, SlotsAreNotNIL DEF Used, Mapped
<1>8. SlotsInv(b)
  BY <1>1, <1>3, <1>7 DEF SlotsInv
<1>9. LevelsInv(b)
  BY <1>1, <1>4, <1>5, <1>7 DEF LevelsInv
<1>10. ListsInv(b)
  <2>1. \A j \in LevelSlots : Heads(b)[j] = NIL /\ Tails(b)[j] = NIL
    BY <1>1, <1>2 DEF Heads, Tails
  <2>2. EndsLinked(Nexts(b), Prevs(b), Levels(b), Heads(b), Tails(b), {})
    BY <2>1 DEF EndsLinked
  <2>3. OrdersLinked(Nexts(b), Prevs(b), Levels(b), Heads(b), Tails(b), {})
    BY DEF OrdersLinked
  <2>4. Numbered(Prevs(b), {}, [i \in {} |-> 0])
    BY DEF Numbered
  <2> QED
    BY <1>7, <2>2, <2>3, <2>4 DEF ListsInv, Linked
<1>11. VolumesInv(b)
  <2> SUFFICES ASSUME NEW j \in LevelSlots
               PROVE  b.price_level_pool[j].total_volume = Wrap(SumOf(SharesLeft(b, j)))
    BY DEF VolumesInv
  <2>1. SharesLeft(b, j) \in [OrderSlots -> Int]
    BY <1>6, SharesLeftType
  <2>2. \A i \in OrderSlots : SharesLeft(b, j)[i] = 0
    BY <1>7 DEF SharesLeft
  <2>3. SumOf(SharesLeft(b, j)) = 0
    BY <2>1, <2>2, SumOfNothing
  <2>4. 0 \in 0 .. VolumeModulus - 1
    BY FeedAssumption
  <2>5. Wrap(0) = 0
    BY <2>4, SharesFit
  <2> QED
    BY <1>1, <1>2, <2>3, <2>5
<1> QED
  BY <1>6, <1>8, <1>9, <1>10, <1>11 DEF BookInv, b

----
(* What a book means to its readers                                          *)

\* LiveRefs, MappedLevels and LevelAt of any book; the slots of a queue of references.
LiveIn(b) == {r \in DOMAIN b.orders : b.orders[r] # NIL}
LevelsIn(b) == {level \in (DOMAIN b.price_level_maps) \X Prices :
                   level[2] \in DOMAIN b.price_level_maps[level[1]]}
SlotIn(b, level) == b.price_level_maps[level[1]][level[2]]
SlotsOf(b, refs) == [k \in 1 .. Len(refs) |-> b.orders[refs[k]]]

\* The slot of the reference stands for the order.
OrderMeans(b, r, order) ==
    LET slot == b.order_pool[b.orders[r]]
    IN  /\ order = [locate |-> order.locate, price |-> order.price,
                    side |-> slot.side, shares |-> slot.shares]
        /\ <<order.locate, order.price>> \in LevelsIn(b)
        /\ SlotIn(b, <<order.locate, order.price>>) = slot.level

\* The list of the level is that of the references.
QueueMeans(b, level, refs) ==
    /\ refs \in Seq(LiveIn(b))
    /\ IsQueue(b, SlotIn(b, level), SlotsOf(b, refs))

\* The book stands for these live orders, and for these queues.
OrdersMean(b, live) ==
    /\ live = [r \in LiveIn(b) |-> live[r]]
    /\ \A r \in LiveIn(b) : OrderMeans(b, r, live[r])

QueuesMean(b, queue) ==
    /\ queue = [level \in LevelsIn(b) |-> queue[level]]
    /\ \A level \in LevelsIn(b) : QueueMeans(b, level, queue[level])

\* Levels have slots of their own, and orders are on levels that are open.
LEMMA SlotsOfLevels ==
    ASSUME NEW b, BookInv(b)
    PROVE  /\ \A level \in LevelsIn(b) : /\ level = <<level[1], level[2]>>
                                         /\ SlotIn(b, level) \in LevelSlots
                                         /\ SlotIn(b, level) \in Mapped(b)
           /\ \A level, other \in LevelsIn(b) :
                 SlotIn(b, level) = SlotIn(b, other) => level = other
           /\ \A r \in LiveIn(b) : b.orders[r] \in Used(b)
           /\ \A r, s \in LiveIn(b) : b.orders[r] = b.orders[s] => r = s
<1>0. BookType(b) /\ SlotsInv(b) /\ LevelsInv(b)
  BY DEF BookInv
<1>1. ASSUME NEW level \in LevelsIn(b)
      PROVE  /\ level = <<level[1], level[2]>>
             /\ level[1] \in DOMAIN b.price_level_maps
             /\ level[2] \in DOMAIN b.price_level_maps[level[1]]
             /\ SlotIn(b, level) \in LevelSlots
             /\ SlotIn(b, level) \in Mapped(b)
  BY <1>0 DEF LevelsIn, SlotIn, Mapped, BookType
<1>2. ASSUME NEW level \in LevelsIn(b), NEW other \in LevelsIn(b),
             SlotIn(b, level) = SlotIn(b, other)
      PROVE  level = other
  <2>1. level[1] = other[1] /\ level[2] = other[2]
    BY <1>0, <1>1, <1>2 DEF LevelsInv, SlotIn
  <2> QED
    BY <1>1, <2>1
<1>3. \A r \in LiveIn(b) : b.orders[r] \in Used(b)
  BY <1>0 DEF LiveIn, Used, BookType
<1>4. \A r, s \in LiveIn(b) : b.orders[r] = b.orders[s] => r = s
  BY <1>0 DEF LiveIn, SlotsInv
<1> QED
  BY <1>1, <1>2, <1>3, <1>4

\* A level slot nobody has opened has an empty list.
LEMMA FreshLevelIsEmpty ==
    ASSUME NEW b, BookInv(b), NEW j \in LevelSlots, j \notin Mapped(b)
    PROVE  IsQueue(b, j, <<>>)
<1>1. MembersOf(b, j) = {}
  BY DEF MembersOf, BookInv, ListsInv
<1>2. b.price_level_pool[j].head = NIL
  <2>1. EndsLinked(Nexts(b), Prevs(b), Levels(b), Heads(b), Tails(b), Used(b))
    BY DEF BookInv, ListsInv, Linked
  <2>2. Used(b) \subseteq OrderSlots
    BY DEF Used
  <2> QED
    BY <1>1, <2>1, <2>2 DEF EndsLinked, Heads, Levels, MembersOf
<1> QED
  BY <1>1, <1>2 DEF IsQueue

\* Queues of references and of slots grow and shrink together.
LEMMA SlotsOfSeq ==
    ASSUME NEW b, NEW S, NEW refs \in Seq(S), NEW ref
    PROVE  /\ DOMAIN SlotsOf(b, refs) = 1 .. Len(refs)
           /\ Len(SlotsOf(b, refs)) = Len(refs)
           /\ \A k \in 1 .. Len(refs) : SlotsOf(b, refs)[k] = b.orders[refs[k]]
           /\ SlotsOf(b, Append(refs, ref)) = Append(SlotsOf(b, refs), b.orders[ref])
<1> DEFINE s == SlotsOf(b, refs)
           n == Len(refs)
           t == SlotsOf(b, Append(refs, ref))
           T == {s[k] : k \in 1 .. n}
<1>0. n \in Nat
  OBVIOUS
<1>1. /\ DOMAIN s = 1 .. n
      /\ \A k \in 1 .. n : s[k] = b.orders[refs[k]]
  BY DEF SlotsOf
<1>2. s \in [1 .. n -> T]
  BY <1>1 DEF SlotsOf
<1>3. s \in Seq(T) /\ Len(s) = n
  <2> HIDE DEF T
  <2>1. s \in Seq(T)
    BY <1>0, <1>2
  <2> QED
    BY <1>0, <1>1, <2>1
<1>4. t = [k \in 1 .. n + 1 |-> b.orders[Append(refs, ref)[k]]]
  BY DEF SlotsOf
<1>5. /\ Append(s, b.orders[ref]) = [k \in 1 .. n + 1 |-> Append(s, b.orders[ref])[k]]
      /\ \A k \in 1 .. n : Append(s, b.orders[ref])[k] = s[k]
      /\ Append(s, b.orders[ref])[n + 1] = b.orders[ref]
  <2> HIDE DEF T, s, n
  <2>1. Append(s, b.orders[ref]) \in Seq(T \cup {b.orders[ref]})
    BY <1>3
  <2>2. Len(Append(s, b.orders[ref])) = n + 1
    BY <1>3
  <2> QED
    BY <1>3, <2>1, <2>2 DEF n
<1>6. \A k \in 1 .. n + 1 : b.orders[Append(refs, ref)[k]] = Append(s, b.orders[ref])[k]
  <2> SUFFICES ASSUME NEW k \in 1 .. n + 1
               PROVE  b.orders[Append(refs, ref)[k]] = Append(s, b.orders[ref])[k]
    OBVIOUS
  <2>1. k \in 1 .. n \/ k = n + 1
    BY <1>0
  <2>2. /\ k \in 1 .. n => Append(refs, ref)[k] = refs[k]
        /\ k = n + 1 => Append(refs, ref)[k] = ref
    OBVIOUS
  <2> HIDE DEF s
  <2> QED
    BY <1>1, <1>5, <2>1, <2>2
<1> HIDE DEF s, t, n
<1>7. t = Append(s, b.orders[ref])
  BY <1>4, <1>5, <1>6
<1> QED
  BY <1>1, <1>3, <1>7 DEF s, t, n

----
(* What the member functions do to what the book means                       *)

\* More locates change nothing.
LEMMA AnnouncedMeans ==
    ASSUME NEW b, NEW c, Announced(b, c), NEW live, OrdersMean(b, live),
           NEW queue, QueuesMean(b, queue)
    PROVE  OrdersMean(c, live) /\ QueuesMean(c, queue)
<1>1. LiveIn(c) = LiveIn(b) /\ LevelsIn(c) = LevelsIn(b)
  BY DEF Announced, LiveIn, LevelsIn
<1>2. \A level \in LevelsIn(b) : SlotIn(c, level) = SlotIn(b, level)
  BY DEF Announced, LevelsIn, SlotIn
<1>3. Used(c) = Used(b)
  BY DEF Announced, Used
<1>4. \A r \in LiveIn(b) : \A order : OrderMeans(b, r, order) => OrderMeans(c, r, order)
  BY <1>1, <1>2 DEF OrderMeans, Announced
<1>5. \A slot, s : IsQueue(b, slot, s) => IsQueue(c, slot, s)
  BY <1>3 DEF IsQueue, MembersOf, Announced
<1>6. \A refs : SlotsOf(c, refs) = SlotsOf(b, refs)
  BY DEF SlotsOf, Announced
<1>7. \A level \in LevelsIn(b) : \A refs : QueueMeans(b, level, refs) => QueueMeans(c, level, refs)
  BY <1>1, <1>2, <1>5, <1>6 DEF QueueMeans
<1>8. OrdersMean(c, live)
  BY <1>1, <1>4 DEF OrdersMean
<1>9. QueuesMean(c, queue)
  BY <1>1, <1>7 DEF QueuesMean
<1> QED
  BY <1>8, <1>9

OrdersReduced(live, ref, shares) == [live EXCEPT ![ref].shares = @ - shares]

\* Fewer shares of one order are fewer shares of it, and its place stays.
LEMMA ReducedMeans ==
    ASSUME NEW b, BookInv(b), NEW c, NEW ref, NEW shares \in Int, Reduced(b, c, ref, shares),
           ref \in LiveIn(b), NEW live, OrdersMean(b, live), NEW queue, QueuesMean(b, queue)
    PROVE  /\ OrdersMean(c, OrdersReduced(live, ref, shares))
           /\ QueuesMean(c, queue)
<1> DEFINE after == [live EXCEPT ![ref].shares = @ - shares]
<1>1. LiveIn(c) = LiveIn(b) /\ LevelsIn(c) = LevelsIn(b)
  BY DEF Reduced, LiveIn, LevelsIn
<1>2. \A level \in LevelsIn(b) : SlotIn(c, level) = SlotIn(b, level)
  BY DEF Reduced, LevelsIn, SlotIn
<1>3. Used(c) = Used(b) /\ Used(b) \subseteq OrderSlots
  BY DEF Reduced, Used
<1>4. ASSUME NEW r \in LiveIn(b) PROVE OrderMeans(c, r, after[r])
  <2> DEFINE order == live[r]
  <2>1. OrderMeans(b, r, order) /\ live = [s \in LiveIn(b) |-> live[s]]
    BY DEF OrdersMean
  <2>2. /\ b.orders[r] \in Used(b) /\ b.orders[r] \in OrderSlots
        /\ b.orders[r] = b.orders[ref] => r = ref
    BY <1>3, SlotsOfLevels
  <2>3. after[r] = IF r = ref THEN [order EXCEPT !.shares = @ - shares] ELSE order
    BY <2>1
  <2> HIDE DEF after, order
  <2>4. CASE r = ref
    <3> DEFINE less == [order EXCEPT !.shares = @ - shares]
    <3>1. order = [locate |-> order.locate, price |-> order.price,
                   side |-> b.order_pool[b.orders[r]].side,
                   shares |-> b.order_pool[b.orders[r]].shares]
      BY <2>1 DEF OrderMeans
    <3>2. less = [locate |-> order.locate, price |-> order.price,
                  side |-> b.order_pool[b.orders[r]].side,
                  shares |-> b.order_pool[b.orders[r]].shares - shares]
      BY <3>1
    <3> HIDE DEF less
    <3>3. /\ c.orders = b.orders
          /\ c.order_pool[b.orders[r]].shares = b.order_pool[b.orders[r]].shares - shares
          /\ c.order_pool[b.orders[r]].side = b.order_pool[b.orders[r]].side
          /\ c.order_pool[b.orders[r]].level = b.order_pool[b.orders[r]].level
      BY <2>2, <2>4 DEF Reduced
    <3>4. less.locate = order.locate /\ less.price = order.price
      BY <3>2
    <3>5. /\ <<order.locate, order.price>> \in LevelsIn(b)
          /\ SlotIn(b, <<order.locate, order.price>>) = b.order_pool[b.orders[r]].level
      BY <2>1 DEF OrderMeans
    <3>6. OrderMeans(c, r, less)
      BY <1>1, <1>2, <3>2, <3>3, <3>4, <3>5 DEF OrderMeans
    <3> QED
      BY <2>3, <2>4, <3>6 DEF less
  <2>5. CASE r # ref
    <3>1. b.order_pool[b.orders[r]].shares \in Int
      BY <2>2 DEF BookInv, BookType, OrderRecords
    <3>2. /\ c.orders = b.orders
          /\ c.order_pool[b.orders[r]].shares = b.order_pool[b.orders[r]].shares
          /\ c.order_pool[b.orders[r]].side = b.order_pool[b.orders[r]].side
          /\ c.order_pool[b.orders[r]].level = b.order_pool[b.orders[r]].level
      BY <2>2, <2>5, <3>1 DEF Reduced
    <3>3. OrderMeans(c, r, order)
      BY <1>1, <1>2, <2>1, <3>2 DEF OrderMeans
    <3> QED
      BY <2>3, <2>5, <3>3
  <2> QED
    BY <2>4, <2>5
<1>5. OrdersMean(c, after)
  <2>1. live = [r \in LiveIn(b) |-> live[r]]
    BY DEF OrdersMean
  <2>2. after = [r \in LiveIn(b) |-> after[r]]
    BY <2>1
  <2> QED
    BY <1>1, <1>4, <2>2 DEF OrdersMean
<1>6. ASSUME NEW slot \in LevelSlots, NEW s, IsQueue(b, slot, s)
      PROVE  IsQueue(c, slot, s)
  <2>1. MembersOf(c, slot) = MembersOf(b, slot)
    BY <1>3 DEF MembersOf, Reduced
  <2>2. \A k \in 1 .. Len(s) : s[k] \in OrderSlots
    BY <1>6 DEF IsQueue
  <2> QED
    BY <1>6, <2>1, <2>2 DEF IsQueue, Reduced
<1>7. \A refs : SlotsOf(c, refs) = SlotsOf(b, refs)
  BY DEF SlotsOf, Reduced
<1>8. \A level \in LevelsIn(b) : \A refs : QueueMeans(b, level, refs) => QueueMeans(c, level, refs)
  BY <1>1, <1>2, <1>6, <1>7, SlotsOfLevels DEF QueueMeans
<1>9. QueuesMean(c, queue)
  BY <1>1, <1>8 DEF QueuesMean
<1> QED
  BY <1>5, <1>9 DEF OrdersReduced

\* A new order is the newest of its level.
LEMMA AddedMeans ==
    ASSUME NEW b, BookInv(b), NEW c, BookInv(c),
           NEW locate, NEW ref, NEW side, NEW shares, NEW price \in Prices,
           Added(b, c, locate, ref, side, shares, price),
           NEW live, OrdersMean(b, live), NEW queue, QueuesMean(b, queue),
           NEW order, order = [locate |-> locate, price |-> price, side |-> side,
                               shares |-> shares],
           NEW older, older = IF <<locate, price>> \in LevelsIn(b)
                              THEN queue[<<locate, price>>] ELSE <<>>
    PROVE  /\ OrdersMean(c, AbstractBook!With(live, ref, order))
           /\ QueuesMean(c, AbstractBook!With(queue, <<locate, price>>, Append(older, ref)))
<1> DEFINE new == <<locate, price>>
<1>1. PICK x, j :
         /\ AddedTo(b, c, x, j)
         /\ LevelOpen(b, c, locate, price, j)
         /\ ref \in DOMAIN b.orders /\ b.orders[ref] = NIL
         /\ c.orders = [b.orders EXCEPT ![ref] = x]
         /\ c.order_pool[x].side = side /\ c.order_pool[x].shares = shares
         /\ TermsKept(b, c, Used(b))
  BY DEF Added
<1>2. /\ x \in OrderSlots \ Used(b) /\ x # NIL
      /\ j \in LevelSlots
      /\ c.order_pool[x].level = j
      /\ \A i \in Used(b) : c.order_pool[i].level = b.order_pool[i].level
  BY <1>1, SlotsAreNotNIL DEF AddedTo
<1>3. /\ DOMAIN b.orders = 0 .. MaxOrderRef - 1
      /\ b.orders = [r \in 0 .. MaxOrderRef - 1 |-> b.orders[r]]
  BY DEF BookInv, BookType
<1>4. /\ LiveIn(c) = LiveIn(b) \cup {ref}
      /\ ref \notin LiveIn(b)
      /\ c.orders[ref] = x
      /\ \A r \in LiveIn(b) : c.orders[r] = b.orders[r]
  BY <1>1, <1>2, <1>3 DEF LiveIn
<1>5. /\ LevelsIn(c) = LevelsIn(b) \cup {new}
      /\ new \in LevelsIn(c) /\ SlotIn(c, new) = j
      /\ \A level \in LevelsIn(b) : SlotIn(c, level) = SlotIn(b, level)
      /\ new \notin LevelsIn(b) => j \notin Mapped(b)
  <2>1. /\ locate \in DOMAIN b.price_level_maps
        /\ DOMAIN c.price_level_maps = DOMAIN b.price_level_maps
        /\ \A l \in DOMAIN b.price_level_maps :
              /\ DOMAIN c.price_level_maps[l] =
                    DOMAIN b.price_level_maps[l] \cup (IF l = locate THEN {price} ELSE {})
              /\ \A p \in DOMAIN b.price_level_maps[l] :
                    c.price_level_maps[l][p] = b.price_level_maps[l][p]
        /\ c.price_level_maps[locate][price] = j
        /\ price \notin DOMAIN b.price_level_maps[locate] => j \notin Mapped(b)
    BY <1>1 DEF LevelOpen
  <2>2. \A l, p : <<l, p>> \in LevelsIn(c) <=> <<l, p>> \in LevelsIn(b) \/ (l = locate /\ p = price)
    BY <2>1 DEF LevelsIn
  <2>3. \A level : level \in LevelsIn(b) \/ level \in LevelsIn(c) => level = <<level[1], level[2]>>
    BY DEF LevelsIn
  <2>4. LevelsIn(c) = LevelsIn(b) \cup {new}
    BY <2>2, <2>3
  <2>5. \A level \in LevelsIn(b) : SlotIn(c, level) = SlotIn(b, level)
    BY <2>1 DEF LevelsIn, SlotIn
  <2>6. new \notin LevelsIn(b) => price \notin DOMAIN b.price_level_maps[locate]
    BY <2>1 DEF LevelsIn
  <2> QED
    BY <2>1, <2>4, <2>5, <2>6 DEF SlotIn
<1> HIDE DEF new
<1>6. OrdersMean(c, AbstractBook!With(live, ref, order))
  <2> DEFINE after == AbstractBook!With(live, ref, order)
  <2>1. live = [r \in LiveIn(b) |-> live[r]]
    BY DEF OrdersMean
  <2>2. after = [r \in LiveIn(b) \cup {ref} |-> IF r = ref THEN order ELSE live[r]]
    BY <2>1 DEF AbstractBook!With
  <2> HIDE DEF after
  <2>3. OrderMeans(c, ref, order)
    <3>1. order.locate = locate /\ order.price = price
      OBVIOUS
    <3>2. <<order.locate, order.price>> = new
      BY <3>1 DEF new
    <3> QED
      BY <1>1, <1>2, <1>4, <1>5, <3>1, <3>2 DEF OrderMeans
  <2>4. ASSUME NEW r \in LiveIn(b) PROVE OrderMeans(c, r, live[r])
    <3>1. b.orders[r] \in Used(b) /\ c.orders[r] = b.orders[r]
      BY <1>4, SlotsOfLevels
    <3>2. /\ c.order_pool[c.orders[r]].side = b.order_pool[b.orders[r]].side
          /\ c.order_pool[c.orders[r]].shares = b.order_pool[b.orders[r]].shares
          /\ c.order_pool[c.orders[r]].level = b.order_pool[b.orders[r]].level
      BY <1>1, <1>2, <3>1 DEF TermsKept
    <3>3. OrderMeans(b, r, live[r])
      BY DEF OrdersMean
    <3> QED
      BY <1>5, <3>2, <3>3 DEF OrderMeans
  <2>5. \A r \in LiveIn(c) : OrderMeans(c, r, after[r])
    BY <1>4, <2>2, <2>3, <2>4
  <2>6. after = [r \in LiveIn(c) |-> after[r]]
    BY <1>4, <2>2
  <2> QED
    BY <2>5, <2>6 DEF OrdersMean, after
<1>7. QueuesMean(c, AbstractBook!With(queue, new, Append(older, ref)))
  <2> DEFINE after == AbstractBook!With(queue, new, Append(older, ref))
  <2>1. queue = [level \in LevelsIn(b) |-> queue[level]]
    BY DEF QueuesMean
  <2>2. after = [level \in LevelsIn(b) \cup {new} |->
                    IF level = new THEN Append(older, ref) ELSE queue[level]]
    BY <2>1 DEF AbstractBook!With
  <2> HIDE DEF after
  <2>3. older \in Seq(LiveIn(b)) /\ IsQueue(b, j, SlotsOf(b, older))
    <3>1. CASE new \in LevelsIn(b)
      BY <1>5, <3>1 DEF new, QueuesMean, QueueMeans
    <3>2. CASE new \notin LevelsIn(b)
      <4>1. older = <<>>
        BY <3>2 DEF new
      <4>2. SlotsOf(b, <<>>) = <<>>
        BY DEF SlotsOf
      <4>3. IsQueue(b, j, <<>>)
        BY <1>2, <1>5, <3>2, FreshLevelIsEmpty
      <4>4. older \in Seq(LiveIn(b))
        BY <4>1, EmptySeq, Zenon
      <4> QED
        BY <4>1, <4>2, <4>3, <4>4, Zenon
    <3> QED
      BY <3>1, <3>2
  <2>4. ASSUME NEW refs \in Seq(LiveIn(b)) PROVE SlotsOf(c, refs) = SlotsOf(b, refs)
    <3>1. \A k \in 1 .. Len(refs) : refs[k] \in LiveIn(b)
      OBVIOUS
    <3> QED
      BY <1>4, <3>1 DEF SlotsOf
  <2>5. QueueMeans(c, new, Append(older, ref))
    <3>1. Append(older, ref) \in Seq(LiveIn(c))
      <4>1. older \in Seq(LiveIn(c)) /\ ref \in LiveIn(c)
        BY <1>4, <2>3
      <4> QED
        BY <4>1
    <3>2. SlotsOf(c, Append(older, ref)) = Append(SlotsOf(b, older), x)
      <4>1. SlotsOf(c, Append(older, ref)) = Append(SlotsOf(c, older), c.orders[ref])
        BY <2>3, SlotsOfSeq
      <4>2. SlotsOf(c, older) = SlotsOf(b, older)
        BY <2>3, <2>4
      <4> QED
        BY <1>4, <4>1, <4>2, Zenon
    <3>3. IsQueue(c, j, Append(SlotsOf(b, older), x))
      BY <1>1, <1>2, <2>3, QueueGrows
    <3> QED
      BY <1>5, <3>1, <3>2, <3>3 DEF QueueMeans
  <2>6. ASSUME NEW level \in LevelsIn(b), level # new PROVE QueueMeans(c, level, queue[level])
    <3>1. queue[level] \in Seq(LiveIn(b)) /\ IsQueue(b, SlotIn(b, level), SlotsOf(b, queue[level]))
      BY DEF QueuesMean, QueueMeans
    <3>2. SlotIn(b, level) \in LevelSlots /\ SlotIn(b, level) # j
      BY <1>5, <2>6, SlotsOfLevels
    <3>3. IsQueue(c, SlotIn(b, level), SlotsOf(b, queue[level]))
      BY <1>1, <3>1, <3>2, QueueGrows
    <3>4. queue[level] \in Seq(LiveIn(c))
      BY <1>4, <3>1
    <3> QED
      BY <1>5, <2>4, <3>1, <3>3, <3>4 DEF QueueMeans
  <2>7. \A level \in LevelsIn(c) : QueueMeans(c, level, after[level])
    BY <1>5, <2>2, <2>5, <2>6
  <2>8. after = [level \in LevelsIn(c) |-> after[level]]
    BY <1>5, <2>2
  <2> QED
    BY <2>7, <2>8 DEF QueuesMean, after
<1> QED
  BY <1>6, <1>7 DEF new

\* A queue of references without one of them is its list without that slot.
LEMMA WithoutOneReference ==
    ASSUME NEW b, BookInv(b), NEW slot, NEW refs \in Seq(LiveIn(b)), NEW ref \in LiveIn(b),
           IsQueue(b, slot, SlotsOf(b, refs)), b.order_pool[b.orders[ref]].level = slot
    PROVE  \E m \in 1 .. Len(refs) :
              /\ AbstractBook!Without(refs, ref) = Cut(refs, m)
              /\ SlotsOf(b, refs)[m] = b.orders[ref]
              /\ Cut(refs, m) \in Seq(LiveIn(b) \ {ref})
              /\ SlotsOf(b, Cut(refs, m)) = Cut(SlotsOf(b, refs), m)
<1> DEFINE x == b.orders[ref]
           s == SlotsOf(b, refs)
           n == Len(refs)
<1>1. /\ \A r \in LiveIn(b) : b.orders[r] \in Used(b)
      /\ \A r, t \in LiveIn(b) : b.orders[r] = b.orders[t] => r = t
  BY SlotsOfLevels
<1>2. /\ n \in Nat /\ DOMAIN refs = 1 .. n
      /\ \A k \in 1 .. n : refs[k] \in LiveIn(b)
      /\ Len(s) = n
      /\ \A k \in 1 .. n : s[k] = b.orders[refs[k]]
  BY SlotsOfSeq
<1>3. /\ s \in Seq(OrderSlots)
      /\ \A k, m \in 1 .. n : s[k] = s[m] => k = m
      /\ MembersOf(b, slot) = {s[k] : k \in 1 .. n}
  BY <1>2 DEF IsQueue
<1> HIDE DEF s, n
<1>4. PICK m \in 1 .. n : s[m] = x
  BY <1>1, <1>3 DEF MembersOf
<1>5. refs[m] = ref /\ \A k \in 1 .. n : refs[k] = ref => k = m
  BY <1>1, <1>2, <1>3, <1>4
<1>6. AbstractBook!Without(refs, ref) = Cut(refs, m)
  <2> DEFINE k == CHOOSE k \in DOMAIN refs : refs[k] = ref
  <2>1. k = m
    BY <1>2, <1>5
  <2>2. AbstractBook!Without(refs, ref) = SubSeq(refs, 1, k - 1) \o SubSeq(refs, k + 1, Len(refs))
    BY Zenon DEF AbstractBook!Without
  <2> HIDE DEF k
  <2> QED
    BY <2>1, <2>2 DEF Cut
<1>7. /\ Cut(refs, m) \in Seq(LiveIn(b)) /\ Len(Cut(refs, m)) = n - 1
      /\ \A k \in 1 .. n - 1 : Cut(refs, m)[k] = IF k < m THEN refs[k] ELSE refs[k + 1]
  BY CutIs DEF n
<1>8. /\ Cut(s, m) \in Seq(OrderSlots) /\ Len(Cut(s, m)) = n - 1
      /\ \A k \in 1 .. n - 1 : Cut(s, m)[k] = IF k < m THEN s[k] ELSE s[k + 1]
  <2>1. m \in 1 .. Len(s) /\ s \in Seq(OrderSlots)
    BY <1>2, <1>3
  <2>2. /\ Cut(s, m) \in Seq(OrderSlots) /\ Len(Cut(s, m)) = Len(s) - 1
        /\ \A k \in 1 .. Len(s) - 1 : Cut(s, m)[k] = IF k < m THEN s[k] ELSE s[k + 1]
    BY <2>1, CutIs
  <2> QED
    BY <1>2, <2>2
<1> DEFINE at(k) == IF k < m THEN k ELSE k + 1
<1>9. \A k \in 1 .. n - 1 : at(k) \in 1 .. n /\ at(k) # m
  BY <1>2
<1>10. ASSUME NEW k \in 1 .. n - 1
       PROVE  Cut(refs, m)[k] = refs[at(k)] /\ Cut(s, m)[k] = s[at(k)]
  BY <1>7, <1>8
<1> HIDE DEF at
<1>11. Cut(refs, m) \in Seq(LiveIn(b) \ {ref})
  <2>1. \A k \in 1 .. n - 1 : Cut(refs, m)[k] \in LiveIn(b) \ {ref}
    BY <1>2, <1>5, <1>9, <1>10
  <2>2. n - 1 \in Nat
    BY <1>2, <1>4
  <2> QED
    BY <1>7, <2>1, <2>2
<1>12. SlotsOf(b, Cut(refs, m)) = Cut(s, m)
  <2>1. SlotsOf(b, Cut(refs, m)) = [k \in 1 .. n - 1 |-> b.orders[Cut(refs, m)[k]]]
    BY <1>7 DEF SlotsOf
  <2>2. \A k \in 1 .. n - 1 : b.orders[Cut(refs, m)[k]] = Cut(s, m)[k]
    BY <1>2, <1>9, <1>10
  <2>3. Cut(s, m) = [k \in 1 .. n - 1 |-> Cut(s, m)[k]]
    BY <1>8
  <2> QED
    BY <2>1, <2>2, <2>3
<1> QED
  BY <1>4, <1>6, <1>11, <1>12 DEF s, n

\* The abstract book's orders and queues once ref is gone.
OrdersWithout(live, ref) == [r \in DOMAIN live \ {ref} |-> live[r]]
QueuesWithout(live, queue, ref) ==
    [queue EXCEPT ![<<live[ref].locate, live[ref].price>>] = AbstractBook!Without(@, ref)]

\* An order that goes leaves its level, which stays open, perhaps empty.
LEMMA RemovedMeans ==
    ASSUME NEW b, BookInv(b), NEW c, NEW ref, ref \in LiveIn(b), Removed(b, c, ref),
           NEW live, OrdersMean(b, live), NEW queue, QueuesMean(b, queue)
    PROVE  /\ OrdersMean(c, OrdersWithout(live, ref))
           /\ QueuesMean(c, QueuesWithout(live, queue, ref))
<1> DEFINE x == b.orders[ref]
           mine == <<live[ref].locate, live[ref].price>>
           orders == [r \in DOMAIN live \ {ref} |-> live[r]]
           queues == [queue EXCEPT ![mine] = AbstractBook!Without(@, ref)]
<1>1. /\ RemovedFrom(b, c, x)
      /\ c.orders = [b.orders EXCEPT ![ref] = NIL]
      /\ TermsKept(b, c, Used(b))
      /\ c.price_level_maps = b.price_level_maps
      /\ \A i \in Used(b) : c.order_pool[i].level = b.order_pool[i].level
  BY DEF Removed, RemovedFrom
<1>2. /\ live = [r \in LiveIn(b) |-> live[r]]
      /\ queue = [level \in LevelsIn(b) |-> queue[level]]
      /\ \A r \in LiveIn(b) : OrderMeans(b, r, live[r])
  BY DEF OrdersMean, QueuesMean
<1>3. /\ \A r \in LiveIn(b) : b.orders[r] \in Used(b)
      /\ \A r, t \in LiveIn(b) : b.orders[r] = b.orders[t] => r = t
      /\ \A level \in LevelsIn(b) : SlotIn(b, level) \in LevelSlots
      /\ \A level, other \in LevelsIn(b) :
            SlotIn(b, level) = SlotIn(b, other) => level = other
  BY SlotsOfLevels
<1>4. /\ LiveIn(c) = LiveIn(b) \ {ref}
      /\ \A r \in LiveIn(c) : c.orders[r] = b.orders[r]
  <2>1. b.orders = [r \in 0 .. MaxOrderRef - 1 |-> b.orders[r]]
    BY DEF BookInv, BookType
  <2> QED
    BY <1>1, <2>1 DEF LiveIn
<1>5. /\ LevelsIn(c) = LevelsIn(b)
      /\ \A level \in LevelsIn(b) : SlotIn(c, level) = SlotIn(b, level)
  BY <1>1 DEF LevelsIn, SlotIn
<1>6. mine \in LevelsIn(b) /\ SlotIn(b, mine) = b.order_pool[x].level
  BY <1>2 DEF OrderMeans
<1> HIDE DEF mine, x
<1>7. OrdersMean(c, orders)
  <2>1. orders = [r \in LiveIn(c) |-> live[r]]
    BY <1>2, <1>4
  <2>2. ASSUME NEW r \in LiveIn(c) PROVE OrderMeans(c, r, live[r])
    <3>1. r \in LiveIn(b) /\ b.orders[r] \in Used(b) /\ c.orders[r] = b.orders[r]
      BY <1>3, <1>4
    <3>2. /\ c.order_pool[c.orders[r]].side = b.order_pool[b.orders[r]].side
          /\ c.order_pool[c.orders[r]].shares = b.order_pool[b.orders[r]].shares
          /\ c.order_pool[c.orders[r]].level = b.order_pool[b.orders[r]].level
      BY <1>1, <3>1 DEF TermsKept
    <3>3. OrderMeans(b, r, live[r])
      BY <1>2, <3>1
    <3> QED
      BY <1>5, <3>2, <3>3 DEF OrderMeans
  <2> HIDE DEF orders
  <2> QED
    BY <2>1, <2>2 DEF OrdersMean
<1>8. ASSUME NEW S, NEW refs \in Seq(S), S \subseteq LiveIn(c)
      PROVE  SlotsOf(c, refs) = SlotsOf(b, refs)
  <2>1. \A k \in 1 .. Len(refs) : refs[k] \in LiveIn(c)
    BY <1>8
  <2> QED
    BY <1>4, <2>1 DEF SlotsOf
<1>9. QueueMeans(c, mine, AbstractBook!Without(queue[mine], ref))
  <2> DEFINE refs == queue[mine]
             slot == b.order_pool[x].level
  <2>1. refs \in Seq(LiveIn(b)) /\ IsQueue(b, slot, SlotsOf(b, refs))
    BY <1>6 DEF QueuesMean, QueueMeans
  <2> HIDE DEF refs
  <2>2. PICK m \in 1 .. Len(refs) :
           /\ AbstractBook!Without(refs, ref) = Cut(refs, m)
           /\ SlotsOf(b, refs)[m] = x
           /\ Cut(refs, m) \in Seq(LiveIn(b) \ {ref})
           /\ SlotsOf(b, Cut(refs, m)) = Cut(SlotsOf(b, refs), m)
    BY <2>1, WithoutOneReference DEF x
  <2>3. Len(SlotsOf(b, refs)) = Len(refs)
    BY <2>1, SlotsOfSeq
  <2>4. IsQueue(c, slot, Cut(SlotsOf(b, refs), m))
    BY <1>1, <2>1, <2>2, <2>3, QueueShrinks
  <2>5. SlotsOf(c, Cut(refs, m)) = SlotsOf(b, Cut(refs, m))
    BY <1>4, <1>8, <2>2
  <2>6. QueueMeans(c, mine, Cut(refs, m))
    BY <1>4, <1>5, <1>6, <2>2, <2>4, <2>5 DEF QueueMeans
  <2> QED
    BY <2>2, <2>6 DEF refs
<1>10. ASSUME NEW level \in LevelsIn(b), level # mine
       PROVE  QueueMeans(c, level, queue[level])
  <2> DEFINE refs == queue[level]
             slot == SlotIn(b, level)
  <2>1. refs \in Seq(LiveIn(b)) /\ IsQueue(b, slot, SlotsOf(b, refs))
    BY DEF QueuesMean, QueueMeans
  <2>2. slot \in LevelSlots /\ slot # b.order_pool[x].level
    BY <1>3, <1>6, <1>10
  <2> HIDE DEF refs, slot
  <2>3. IsQueue(c, slot, SlotsOf(b, refs))
    BY <1>1, <2>1, <2>2, OtherQueuesStay
  <2>4. /\ Len(SlotsOf(b, refs)) = Len(refs) /\ Len(refs) \in Nat
        /\ \A k \in 1 .. Len(refs) : SlotsOf(b, refs)[k] = b.orders[refs[k]]
        /\ \A k \in 1 .. Len(refs) : refs[k] \in LiveIn(b)
    BY <2>1, SlotsOfSeq
  <2>5. \A k \in 1 .. Len(refs) : refs[k] # ref
    <3>1. \A k \in 1 .. Len(refs) : SlotsOf(b, refs)[k] \in MembersOf(b, slot)
      BY <2>1, <2>4 DEF IsQueue
    <3> QED
      BY <2>2, <2>4, <3>1 DEF MembersOf, x
  <2>6. refs \in Seq(LiveIn(c))
    BY <1>4, <2>1, <2>4, <2>5
  <2>7. SlotsOf(c, refs) = SlotsOf(b, refs)
    BY <1>8, <2>6
  <2>8. SlotIn(c, level) = slot
    BY <1>5 DEF slot
  <2>9. QueueMeans(c, level, refs)
    BY <2>3, <2>6, <2>7, <2>8 DEF QueueMeans
  <2> QED
    BY <2>9 DEF refs
<1>11. QueuesMean(c, queues)
  <2>1. queues = [level \in LevelsIn(c) |->
                     IF level = mine THEN AbstractBook!Without(queue[mine], ref) ELSE queue[level]]
    BY <1>2, <1>5
  <2> HIDE DEF queues
  <2>2. \A level \in LevelsIn(c) : QueueMeans(c, level, queues[level])
    BY <1>5, <1>9, <1>10, <2>1
  <2> QED
    BY <2>1, <2>2 DEF QueuesMean
<1> QED
  BY <1>7, <1>11 DEF mine, OrdersWithout, QueuesWithout

\* Slots held one each by the members of a set and the free ones are all of the pool.
LEMMA HeldAndFree ==
    ASSUME NEW capacity \in Nat, NEW list \in Seq(0 .. capacity - 1), IsInjective(list),
           NEW K, NEW slot,
           slot \in Bijection(K, (0 .. capacity - 1) \ Range(list))
    PROVE  Cardinality(K) = capacity - Len(list)
<1> DEFINE S == 0 .. capacity - 1
           free == Range(list)
<1>1. IsFiniteSet(S) /\ Cardinality(S) = capacity
  <2>1. /\ IsFiniteSet(S)
        /\ Cardinality(S) = IF 0 > capacity - 1 THEN 0 ELSE (capacity - 1) - 0 + 1
    BY FS_Interval
  <2> QED
    BY <2>1
<1>2. Len(list) \in Nat /\ DOMAIN list = 1 .. Len(list) /\ \A k \in DOMAIN list : list[k] \in S
  OBVIOUS
<1>3. IsFiniteSet(1 .. Len(list)) /\ Cardinality(1 .. Len(list)) = Len(list)
  <2>1. PICK n \in Nat : n = Len(list)
    BY <1>2
  <2>2. IsFiniteSet(1 .. n) /\ Cardinality(1 .. n) = IF 1 > n THEN 0 ELSE n - 1 + 1
    BY FS_Interval
  <2>3. IsFiniteSet(1 .. n) /\ Cardinality(1 .. n) = n
    BY <2>2
  <2> QED
    BY <2>1, <2>3
<1>4. free \subseteq S
  BY <1>2 DEF Range
<1>5. list \in Injection(1 .. Len(list), free) /\ list \in Surjection(1 .. Len(list), free)
  BY <1>2 DEF Injection, Surjection, Range
<1> HIDE DEF S, free
<1>6. IsFiniteSet(free) /\ Cardinality(free) = Len(list)
  <2>1. IsFiniteSet(free)
    BY <1>1, <1>4, FS_Subset
  <2> QED
    BY <1>3, <1>5, <2>1, FS_Injection
<1>7. IsFiniteSet(S \ free) /\ Cardinality(S \ free) = capacity - Len(list)
  <2>1. S \cap free = free
    BY <1>4
  <2>2. /\ IsFiniteSet(S \ free)
        /\ Cardinality(S \ free) = Cardinality(S) - Cardinality(S \cap free)
    BY <1>1, FS_Difference
  <2> QED
    BY <1>1, <1>6, <2>1, <2>2
<1>8. slot \in Injection(K, S \ free) /\ slot \in Surjection(K, S \ free)
  BY DEF Bijection, S, free
<1>9. Cardinality(K) = Cardinality(S \ free)
  BY <1>7, <1>8, FS_Injection
<1> QED
  BY <1>2, <1>7, <1>9

\* The slots in use are held one each by the live references and by the open levels, and
\* the free lists have the others.
LEMMA PoolsAreShared ==
    ASSUME NEW b, BookInv(b)
    PROVE  /\ {b.orders[r] : r \in LiveIn(b)} = Used(b)
           /\ Cardinality(LiveIn(b)) = OrderCapacity - Len(b.order_free_list)
           /\ {SlotIn(b, level) : level \in LevelsIn(b)} = Mapped(b)
           /\ Cardinality(LevelsIn(b)) = LevelCapacity - Len(b.price_level_free_list)
<1> DEFINE orderFree == b.order_free_list
           levelFree == b.price_level_free_list
           maps == b.price_level_maps
<1>0. BookType(b) /\ SlotsInv(b) /\ LevelsInv(b)
  BY DEF BookInv
<1>1. /\ orderFree \in Seq(OrderSlots) /\ levelFree \in Seq(LevelSlots)
      /\ b.orders \in [0 .. MaxOrderRef - 1 -> OrderSlots \cup {NIL}]
      /\ \A l \in DOMAIN maps :
            DOMAIN maps[l] \subseteq Prices /\ \A p \in DOMAIN maps[l] : maps[l][p] \in LevelSlots
  BY <1>0 DEF BookType
<1>2. {b.orders[r] : r \in LiveIn(b)} = Used(b)
  BY <1>1, SlotsAreNotNIL DEF LiveIn, Used
<1>3. Cardinality(LiveIn(b)) = OrderCapacity - Len(orderFree)
  <2> DEFINE slot == [r \in LiveIn(b) |-> b.orders[r]]
  <2>1. \A r, s \in LiveIn(b) : b.orders[r] = b.orders[s] => r = s
    BY SlotsOfLevels
  <2>2. slot \in Bijection(LiveIn(b), Used(b))
    <3>1. \A i \in Used(b) : \E r \in LiveIn(b) : b.orders[r] = i
      BY <1>2
    <3>2. \A r \in LiveIn(b) : b.orders[r] \in Used(b)
      BY <1>2
    <3> QED
      BY <2>1, <3>1, <3>2 DEF Bijection, Injection, Surjection, IsInjective
  <2> HIDE DEF slot, orderFree
  <2>3. slot \in Bijection(LiveIn(b), (0 .. OrderCapacity - 1) \ Range(orderFree))
    BY <1>0, <2>2 DEF SlotsInv, OrderSlots, orderFree
  <2>4. OrderCapacity \in Nat /\ IsInjective(orderFree)
    BY <1>0, PoolAssumption DEF SlotsInv, orderFree
  <2> QED
    BY <1>1, <2>3, <2>4, HeldAndFree DEF OrderSlots
<1>4. {SlotIn(b, level) : level \in LevelsIn(b)} = Mapped(b)
  <2>1. \A level \in LevelsIn(b) : SlotIn(b, level) \in Mapped(b)
    BY SlotsOfLevels
  <2>2. ASSUME NEW j \in Mapped(b) PROVE \E level \in LevelsIn(b) : SlotIn(b, level) = j
    <3>1. PICK l \in DOMAIN maps : \E p \in DOMAIN maps[l] : maps[l][p] = j
      BY DEF Mapped
    <3>2. PICK p \in DOMAIN maps[l] : maps[l][p] = j
      BY <3>1
    <3>3. <<l, p>> \in LevelsIn(b) /\ SlotIn(b, <<l, p>>) = j
      BY <1>1, <3>2 DEF LevelsIn, SlotIn
    <3> QED
      BY <3>3
  <2> QED
    BY <2>1, <2>2
<1>5. Cardinality(LevelsIn(b)) = LevelCapacity - Len(levelFree)
  <2> DEFINE slot == [level \in LevelsIn(b) |-> SlotIn(b, level)]
  <2>1. slot \in Bijection(LevelsIn(b), Mapped(b))
    <3>1. \A level, other \in LevelsIn(b) : SlotIn(b, level) = SlotIn(b, other) => level = other
      BY SlotsOfLevels
    <3>2. \A j \in Mapped(b) : \E level \in LevelsIn(b) : SlotIn(b, level) = j
      BY <1>4
    <3>3. \A level \in LevelsIn(b) : SlotIn(b, level) \in Mapped(b)
      BY <1>4
    <3> QED
      BY <3>1, <3>2, <3>3 DEF Bijection, Injection, Surjection, IsInjective
  <2> HIDE DEF slot, levelFree
  <2>2. slot \in Bijection(LevelsIn(b), (0 .. LevelCapacity - 1) \ Range(levelFree))
    BY <1>0, <2>1 DEF LevelsInv, LevelSlots, levelFree
  <2>3. LevelCapacity \in Nat /\ IsInjective(levelFree)
    BY <1>0, PoolAssumption DEF LevelsInv, levelFree
  <2> QED
    BY <1>1, <2>2, <2>3, HeldAndFree DEF LevelSlots
<1> QED
  BY <1>2, <1>3, <1>4, <1>5

\* Placing an order touches no status but where a pool is empty.
LEMMA AddOrderEnds ==
    ASSUME NEW b, BookInv(b), b.status = "running", NEW ref \in DOMAIN b.orders,
           NEW locate \in DOMAIN b.price_level_maps, NEW side, NEW shares, NEW price
    PROVE  AddOrder(b, locate, ref, side, shares, price).status =
              IF \/ b.order_free_list = <<>>
                 \/ /\ price \notin DOMAIN b.price_level_maps[locate]
                    /\ b.price_level_free_list = <<>>
              THEN "exhausted" ELSE "running"
<1> DEFINE index == Last(b.order_free_list)
           placed == Placed(b, index, ref, side, shares)
           known == b.price_level_maps[locate][price]
           fresh == Last(b.price_level_free_list)
           joined == Joined(placed, index, known, shares)
           opened == Opened(placed, index, locate, price, fresh, shares)
           unopened == [placed EXCEPT !.price_level_maps[locate] = Emplaced(@, price, NIL)]
<1>1. "status" \in DOMAIN b
  BY DEF BookInv, BookType, BookFields
<1>2. \A d, how : "status" \in DOMAIN d => Ended(d, how).status = how
  BY DEF Ended
<1>3. "status" \in DOMAIN placed /\ placed.status = b.status
  <2> HIDE DEF index
  <2> QED
    BY <1>1 DEF Placed
<1> HIDE DEF placed, index, known, fresh
<1>4. "status" \in DOMAIN joined /\ joined.status = b.status
  BY <1>3 DEF Joined
<1>5. "status" \in DOMAIN opened /\ opened.status = b.status
  BY <1>3 DEF Opened
<1>6. "status" \in DOMAIN unopened
  BY <1>3
<1> HIDE DEF joined, opened, unopened
<1>7. \A d, i, j : "status" \in DOMAIN d => Enqueue(d, i, j).status = d.status
  BY DEF Enqueue
<1>8. AddOrder(b, locate, ref, side, shares, price) =
         IF b.order_free_list = <<>> THEN Ended(b, "exhausted")
         ELSE IF price \in DOMAIN b.price_level_maps[locate] THEN Enqueue(joined, index, known)
         ELSE IF b.price_level_free_list = <<>> THEN Ended(unopened, "exhausted")
         ELSE Enqueue(opened, index, fresh)
  BY DEF AddOrder, KnowsRef, KnowsLocate, placed, index, known, fresh, joined, opened, unopened
<1> QED
  BY <1>1, <1>2, <1>4, <1>5, <1>6, <1>7, <1>8

\* What the abstract book makes of an order placed.
IsFull(live, queue, level) ==
    \/ Cardinality(DOMAIN live) >= OrderCapacity
    \/ level \notin DOMAIN queue /\ Cardinality(DOMAIN queue) >= LevelCapacity
OrdersPlaced(live, ref, locate, side, shares, price) ==
    AbstractBook!With(live, ref, [locate |-> locate, price |-> price, side |-> side,
                                  shares |-> shares])
QueuesPlaced(queue, ref, level) ==
    AbstractBook!With(queue, level,
                      Append(IF level \in DOMAIN queue THEN queue[level] ELSE <<>>, ref))

\* An order is placed where the abstract book places one, and the pools are exhausted only
\* where orders or levels fill it.
LEMMA PlacingMeans ==
    ASSUME NEW b, BookInv(b), b.status = "running",
           NEW locate, locate \in DOMAIN b.price_level_maps,
           NEW ref, ref \in DOMAIN b.orders, b.orders[ref] = NIL,
           NEW side, side \in Sides \cup {NoSide},
           NEW shares \in 0 .. VolumeModulus - 1, NEW price \in Prices,
           NEW live, OrdersMean(b, live), NEW queue, QueuesMean(b, queue)
    PROVE  IF IsFull(live, queue, <<locate, price>>)
           THEN AddOrder(b, locate, ref, side, shares, price).status # "running"
           ELSE /\ AddOrder(b, locate, ref, side, shares, price).status = "running"
                /\ BookInv(AddOrder(b, locate, ref, side, shares, price))
                /\ OrdersMean(AddOrder(b, locate, ref, side, shares, price),
                              OrdersPlaced(live, ref, locate, side, shares, price))
                /\ QueuesMean(AddOrder(b, locate, ref, side, shares, price),
                              QueuesPlaced(queue, ref, <<locate, price>>))
<1> DEFINE level == <<locate, price>>
           full == IsFull(live, queue, level)
           order == [locate |-> locate, price |-> price, side |-> side, shares |-> shares]
           older == IF level \in DOMAIN queue THEN queue[level] ELSE <<>>
           c == AddOrder(b, locate, ref, side, shares, price)
<1>1. DOMAIN live = LiveIn(b) /\ DOMAIN queue = LevelsIn(b)
  BY DEF OrdersMean, QueuesMean
<1>2. level \in LevelsIn(b) <=> price \in DOMAIN b.price_level_maps[locate]
  BY DEF LevelsIn
<1>3. \A S, list : list \in Seq(S) => (Len(list) = 0 <=> list = <<>>) /\ Len(list) \in Nat
  OBVIOUS
<1>4. /\ Cardinality(LiveIn(b)) >= OrderCapacity <=> b.order_free_list = <<>>
      /\ Cardinality(LevelsIn(b)) >= LevelCapacity <=> b.price_level_free_list = <<>>
  <2>1. /\ Cardinality(LiveIn(b)) = OrderCapacity - Len(b.order_free_list)
        /\ Cardinality(LevelsIn(b)) = LevelCapacity - Len(b.price_level_free_list)
    BY PoolsAreShared
  <2>2. b.order_free_list \in Seq(OrderSlots) /\ b.price_level_free_list \in Seq(LevelSlots)
    BY DEF BookInv, BookType
  <2> QED
    BY <1>3, <2>1, <2>2, PoolAssumption
<1>5. c.status = IF full THEN "exhausted" ELSE "running"
  <2>1. c.status = IF \/ b.order_free_list = <<>>
                      \/ /\ price \notin DOMAIN b.price_level_maps[locate]
                         /\ b.price_level_free_list = <<>>
                   THEN "exhausted" ELSE "running"
    BY AddOrderEnds
  <2> HIDE DEF c
  <2> QED
    BY <1>1, <1>2, <1>4, <2>1, Zenon DEF IsFull
<1>6. ASSUME ~full
      PROVE  /\ BookInv(c)
             /\ OrdersMean(c, AbstractBook!With(live, ref, order))
             /\ QueuesMean(c, AbstractBook!With(queue, level, Append(older, ref)))
  <2>1. c.status = "running"
    BY <1>5, <1>6
  <2>2. BookInv(c) /\ Added(b, c, locate, ref, side, shares, price)
    BY <2>1, AddOrderKeeps
  <2>3. /\ older = IF <<locate, price>> \in LevelsIn(b) THEN queue[<<locate, price>>] ELSE <<>>
        /\ order = [locate |-> locate, price |-> price, side |-> side, shares |-> shares]
    BY <1>1
  <2> HIDE DEF c, order, older
  <2>4. /\ OrdersMean(c, AbstractBook!With(live, ref, order))
        /\ QueuesMean(c, AbstractBook!With(queue, <<locate, price>>, Append(older, ref)))
    BY <2>2, <2>3, AddedMeans
  <2> QED
    BY <2>2, <2>4
<1> HIDE DEF c, full
<1>7. /\ OrdersPlaced(live, ref, locate, side, shares, price) = AbstractBook!With(live, ref, order)
      /\ QueuesPlaced(queue, ref, level) = AbstractBook!With(queue, level, Append(older, ref))
  BY DEF OrdersPlaced, QueuesPlaced
<1> QED
  BY <1>5, <1>6, <1>7 DEF c, full

\* A reduction leaves the rest of the order, in its place, or deletes it.
LEMMA ReductionMeans ==
    ASSUME NEW b, BookInv(b), b.status = "running", NEW ref, ref \in LiveIn(b),
           NEW shares \in Int,
           NEW live, OrdersMean(b, live), NEW queue, QueuesMean(b, queue)
    PROVE  IF live[ref].shares > shares
           THEN /\ ReduceOrderSize(b, ref, shares).status = "running"
                /\ BookInv(ReduceOrderSize(b, ref, shares))
                /\ OrdersMean(ReduceOrderSize(b, ref, shares), OrdersReduced(live, ref, shares))
                /\ QueuesMean(ReduceOrderSize(b, ref, shares), queue)
           ELSE ReduceOrderSize(b, ref, shares) = DeleteOrder(b, ref)
<1> DEFINE x == b.orders[ref]
           order == b.order_pool[x]
           c == ReduceOrderSize(b, ref, shares)
<1>1. /\ ref \in DOMAIN b.orders /\ x # NIL /\ x \in OrderSlots
      /\ order.shares \in Int
      /\ "status" \in DOMAIN b
  BY DEF LiveIn, BookInv, BookType, BookFields, OrderRecords
<1>2. live[ref].shares = order.shares
  <2>1. OrderMeans(b, ref, live[ref])
    BY DEF OrdersMean
  <2> HIDE DEF x
  <2>2. live[ref] = [locate |-> live[ref].locate, price |-> live[ref].price,
                     side |-> order.side, shares |-> order.shares]
    BY <2>1 DEF OrderMeans, x
  <2> QED
    BY <2>2
<1>3. CASE order.shares <= shares
  <2>1. c = DeleteOrder(b, ref)
    BY <1>1, <1>3 DEF ReduceOrderSize, KnowsRef
  <2> QED
    BY <1>1, <1>2, <1>3, <2>1
<1>4. CASE ~(order.shares <= shares)
  <2>1. c = [b EXCEPT !.order_pool[x].shares = @ - shares,
                      !.price_level_pool[order.level].total_volume = Wrap(@ - shares)]
    BY <1>1, <1>4 DEF ReduceOrderSize, KnowsRef
  <2>2. c.status = "running"
    BY <1>1, <2>1
  <2>3. BookInv(c) /\ Reduced(b, c, ref, shares)
    BY <1>1, <1>4, <2>2, ReduceOrderSizeKeeps
  <2>4. OrdersMean(c, OrdersReduced(live, ref, shares)) /\ QueuesMean(c, queue)
    <3> HIDE DEF c
    <3> QED
      BY <2>3, ReducedMeans
  <2> QED
    BY <1>1, <1>2, <1>4, <2>2, <2>3, <2>4
<1> QED
  BY <1>3, <1>4

\* A deletion takes the order from its place, and its level keeps the others.
LEMMA DeletionMeans ==
    ASSUME NEW b, BookInv(b), NEW ref, ref \in LiveIn(b),
           NEW live, OrdersMean(b, live), NEW queue, QueuesMean(b, queue)
    PROVE  /\ DeleteOrder(b, ref).status = b.status
           /\ BookInv(DeleteOrder(b, ref))
           /\ DeleteOrder(b, ref).orders = [b.orders EXCEPT ![ref] = NIL]
           /\ DeleteOrder(b, ref).price_level_maps = b.price_level_maps
           /\ OrdersMean(DeleteOrder(b, ref), OrdersWithout(live, ref))
           /\ QueuesMean(DeleteOrder(b, ref), QueuesWithout(live, queue, ref))
<1> DEFINE c == DeleteOrder(b, ref)
<1>1. ref \in DOMAIN b.orders /\ b.orders[ref] # NIL
  BY DEF LiveIn
<1>2. /\ BookInv(c) /\ c.status = b.status /\ Removed(b, c, ref)
      /\ c.orders = [b.orders EXCEPT ![ref] = NIL]
  BY <1>1, DeleteOrderKeeps
<1> HIDE DEF c
<1>3. c.price_level_maps = b.price_level_maps
  BY <1>2 DEF Removed
<1>4. OrdersMean(c, OrdersWithout(live, ref)) /\ QueuesMean(c, QueuesWithout(live, queue, ref))
  BY <1>2, RemovedMeans
<1> QED
  BY <1>2, <1>3, <1>4 DEF c

----
(* How the book is read                                                      *)

\* A new book means no orders and no levels.
LEMMA NewBookMeans ==
    OrdersMean(NewBook, AbstractBook!NoOrders) /\ QueuesMean(NewBook, AbstractBook!NoLevels)
<1>1. LiveIn(NewBook) = {}
  BY DEF LiveIn, NewBook
<1>2. LevelsIn(NewBook) = {}
  BY DEF LevelsIn, NewBook, NoPrices
<1>3. AbstractBook!NoOrders = [r \in {} |-> AbstractBook!NoOrders[r]]
  BY DEF AbstractBook!NoOrders
<1>4. AbstractBook!NoLevels = [l \in {} |-> AbstractBook!NoLevels[l]]
  BY DEF AbstractBook!NoLevels
<1> QED
  BY <1>1, <1>2, <1>3, <1>4 DEF OrdersMean, QueuesMean

\* The refinement mapping reads from the book what it means.
BookIsRead ==
    Running /\ BookInv(book) =>
        \A orders, queues : OrdersMean(book, orders) /\ QueuesMean(book, queues) =>
                               LiveOrders = orders /\ LevelQueues = queues

\* The references, levels and walks that RefOf, LevelOf and Walk find are the only ones.
LEMMA ReadingTheBook == BookIsRead
<1> SUFFICES ASSUME Running, BookInv(book), NEW orders, NEW queues,
                    OrdersMean(book, orders), QueuesMean(book, queues)
             PROVE  LiveOrders = orders /\ LevelQueues = queues
  BY DEF BookIsRead
<1>1. LiveRefs = LiveIn(book) /\ MappedLevels = LevelsIn(book)
  BY DEF LiveRefs, LiveIn, MappedLevels, LevelsIn
<1>2. \A level : LevelAt(level) = SlotIn(book, level)
  BY DEF LevelAt, SlotIn
<1>3. \A level \in LevelsIn(book) : LevelOf(SlotIn(book, level)) = level
  BY <1>1, <1>2, SlotsOfLevels DEF LevelOf
<1>4. \A r \in LiveIn(book) : RefOf(book.orders[r]) = r
  BY <1>1, SlotsOfLevels DEF RefOf
<1>5. LiveOrders = orders
  <2> DEFINE order(r) == book.order_pool[book.orders[r]]
             read(r) == [locate |-> LevelOf(order(r).level)[1],
                         price |-> LevelOf(order(r).level)[2],
                         side |-> order(r).side, shares |-> order(r).shares]
  <2>1. LiveOrders = [r \in LiveIn(book) |-> read(r)]
    BY <1>1 DEF LiveOrders
  <2>2. ASSUME NEW r \in LiveIn(book) PROVE read(r) = orders[r]
    <3> DEFINE level == <<orders[r].locate, orders[r].price>>
    <3>1. /\ orders[r] = [locate |-> orders[r].locate, price |-> orders[r].price,
                          side |-> order(r).side, shares |-> order(r).shares]
          /\ level \in LevelsIn(book)
          /\ SlotIn(book, level) = order(r).level
      BY DEF OrdersMean, OrderMeans
    <3>2. LevelOf(order(r).level) = level
      BY <1>3, <3>1
    <3> QED
      BY <3>1, <3>2
  <2>3. orders = [r \in LiveIn(book) |-> orders[r]]
    BY DEF OrdersMean
  <2> HIDE DEF read
  <2> QED
    BY <2>1, <2>2, <2>3
<1>6. LevelQueues = queues
  <2> DEFINE read(level) == LET walk == Walk(LevelAt(level))
                            IN  [k \in DOMAIN walk |-> RefOf(walk[k])]
  <2>1. LevelQueues = [level \in LevelsIn(book) |-> read(level)]
    BY <1>1, Zenon DEF LevelQueues
  <2>2. ASSUME NEW level \in LevelsIn(book) PROVE read(level) = queues[level]
    <3> DEFINE refs == queues[level]
               s == SlotsOf(book, refs)
    <3>1. refs \in Seq(LiveIn(book)) /\ IsQueue(book, SlotIn(book, level), s)
      BY DEF QueuesMean, QueueMeans
    <3>2. SlotIn(book, level) \in LevelSlots
      BY SlotsOfLevels
    <3>3. Walk(LevelAt(level)) = s
      <4>1. Walk(SlotIn(book, level)) = WalkIn(book, SlotIn(book, level))
        BY Zenon DEF Walk, WalkIn
      <4> HIDE DEF s
      <4>2. WalkIn(book, SlotIn(book, level)) = s
        BY <3>1, <3>2, WalkIsTheQueue
      <4> QED
        BY <1>2, <4>1, <4>2
    <3>4. read(level) = [k \in DOMAIN s |-> RefOf(s[k])]
      BY <3>3
    <3> HIDE DEF refs
    <3>5. /\ DOMAIN s = 1 .. Len(refs)
          /\ \A k \in 1 .. Len(refs) : s[k] = book.orders[refs[k]]
          /\ \A k \in 1 .. Len(refs) : refs[k] \in LiveIn(book)
          /\ refs = [k \in 1 .. Len(refs) |-> refs[k]]
      BY <3>1, SlotsOfSeq
    <3> HIDE DEF s, read
    <3>6. \A k \in 1 .. Len(refs) : RefOf(s[k]) = refs[k]
      BY <1>4, <3>5
    <3>7. read(level) = refs
      BY <3>4, <3>5, <3>6
    <3> QED
      BY <3>7 DEF refs
  <2>3. queues = [level \in LevelsIn(book) |-> queues[level]]
    BY DEF QueuesMean
  <2> HIDE DEF read
  <2> QED
    BY <2>1, <2>2, <2>3
<1> QED
  BY <1>5, <1>6

\* A book that threw is read as no orders and no queues.
NothingIsRead ==
    ~Running => LiveOrders = AbstractBook!NoOrders /\ LevelQueues = AbstractBook!NoLevels

LEMMA ReadingNothing == NothingIsRead
<1> SUFFICES ASSUME ~Running
             PROVE  LiveOrders = AbstractBook!NoOrders /\ LevelQueues = AbstractBook!NoLevels
  BY DEF NothingIsRead
<1>1. LiveOrders = AbstractBook!NoOrders
  BY DEF LiveOrders, AbstractBook!NoOrders
<1>2. LevelQueues = AbstractBook!NoLevels
  BY DEF LevelQueues, AbstractBook!NoLevels
<1> QED
  BY <1>1, <1>2

\* The same after a step, from what the next book means.
LEMMA ReadingNext ==
    ASSUME BookIsRead', NothingIsRead'
    PROVE  /\ book'.status # "running" =>
                 LiveOrders' = AbstractBook!NoOrders /\ LevelQueues' = AbstractBook!NoLevels
           /\ book'.status = "running" /\ BookInv(book') =>
                 \A orders, queues : OrdersMean(book', orders) /\ QueuesMean(book', queues) =>
                                        LiveOrders' = orders /\ LevelQueues' = queues
<1>1. book'.status # "running" =>
         LiveOrders' = AbstractBook!NoOrders /\ LevelQueues' = AbstractBook!NoLevels
  BY DEF NothingIsRead, Running, AbstractBook!NoOrders, AbstractBook!NoLevels
<1>2. BookInv(book') => BookInv(book)'
  BY DEF BookInv, BookType, SlotsInv, LevelsInv, ListsInv, Used, Mapped, Nexts, Prevs,
         Levels, Heads, Tails, VolumesInv, SharesLeft
<1>3. \A orders : OrdersMean(book', orders) => (OrdersMean(book, orders))'
  BY DEF OrdersMean, OrderMeans, LiveIn, LevelsIn, SlotIn
<1>4. \A queues : QueuesMean(book', queues) => (QueuesMean(book, queues))'
  BY DEF QueuesMean, QueueMeans, LiveIn, LevelsIn, SlotIn, SlotsOf, IsQueue, MembersOf, Used
<1> QED
  BY <1>1, <1>2, <1>3, <1>4 DEF BookIsRead, Running

\* The abstract book counts as the book does.
LEMMA SameCardinality == \A S : AbstractBook!Cardinality(S) = Cardinality(S)
  BY Zenon DEF Cardinality, AbstractBook!Cardinality

----
(* The theorems                                                              *)

\* For every capacity and every feed: until it throws, the book is well formed in every
\* part, whatever the order of the messages, and also where a level empties or a slot is
\* taken again with its old fields in it.
THEOREM BookInvariant == Spec => [](Running => BookInv(book))
<1> DEFINE Inv == Running => BookInv(book)
<1>1. Init => Inv
  BY NewBookKeeps DEF Init
<1>2. Inv /\ [Next]_book => Inv'
  <2> SUFFICES ASSUME Inv, [Next]_book, Running' PROVE BookInv(book')
    BY DEF BookInv, BookType, SlotsInv, LevelsInv, ListsInv, Used, Mapped, Nexts, Prevs,
           Levels, Heads, Tails, VolumesInv, SharesLeft
  <2>0. book'.status = "running"
    BY DEF Running
  <2>1. ASSUME NEW stock \in Stocks, NEW locate \in FeedLocates,
               ParseStockDirectory(stock, locate)
        PROVE  BookInv(book')
    BY <2>1, MapStockStrKeeps DEF ParseStockDirectory
  <2>2. ASSUME NEW locate \in FeedLocates, NEW ref \in FeedRefs, NEW side \in Sides,
               NEW shares \in Shares, NEW price \in Prices,
               ParseAddOrder(locate, ref, side, shares, price)
        PROVE  BookInv(book')
    <3>1. shares \in 0 .. VolumeModulus - 1
      BY FeedAssumption
    <3>2. ref \in DOMAIN book.orders => book.orders[ref] = NIL
      BY <2>2 DEF ParseAddOrder, Live, KnowsRef
    <3>3. BookInv(book) /\ book' = AddOrder(book, locate, ref, side, shares, price)
      BY <2>2 DEF ParseAddOrder
    <3> QED
      BY <2>0, <3>1, <3>2, <3>3, AddOrderKeeps
  <2>3. ASSUME NEW ref \in FeedRefs, NEW shares \in Shares, ParseOrderExecuted(ref, shares)
        PROVE  BookInv(book')
    <3>1. shares \in Int
      BY FeedAssumption
    <3> QED
      BY <2>0, <2>3, <3>1, ReduceOrderSizeKeeps DEF ParseOrderExecuted
  <2>4. ASSUME NEW ref \in FeedRefs, ParseOrderDelete(ref)
        PROVE  BookInv(book')
    <3>1. BookInv(book) /\ book' = DeleteOrder(book, ref)
      BY <2>4 DEF ParseOrderDelete
    <3>2. ref \in DOMAIN book.orders
      <4>1. "status" \in DOMAIN book
        BY <3>1 DEF BookInv, BookType, BookFields
      <4>2. Ended(book, "undefined").status = "undefined"
        BY <4>1 DEF Ended
      <4> QED
        BY <2>0, <3>1, <4>2 DEF DeleteOrder, KnowsRef
    <3> QED
      BY <3>1, <3>2, DeleteOrderKeeps
  <2>5. ASSUME NEW locate \in FeedLocates, NEW old \in FeedRefs, NEW ref \in FeedRefs,
               NEW shares \in Shares, NEW price \in Prices,
               ParseOrderReplace(locate, old, ref, shares, price)
        PROVE  BookInv(book')
    <3>1. shares \in 0 .. VolumeModulus - 1
      BY FeedAssumption
    <3>2. ref \in DOMAIN book.orders /\ book.orders[ref] # NIL => ref = old
      BY <2>5 DEF ParseOrderReplace, Live, KnowsRef
    <3>3. BookInv(book) /\ book' = ReplaceOrder(book, locate, old, ref, shares, price)
      BY <2>5 DEF ParseOrderReplace
    <3> QED
      BY <2>0, <3>1, <3>2, <3>3, ReplaceOrderKeeps
  <2>6. CASE UNCHANGED book
    BY <2>0, <2>6 DEF Running
  <2> QED
    BY <2>1, <2>2, <2>3, <2>4, <2>5, <2>6
       DEF Next, ParseOrderExecutedPrice, ParseOrderCancel, Stopped
<1> QED
  BY <1>1, <1>2, PTL DEF Spec

\* Every order slot is free, once, or one live order's, and every level slot is free, once,
\* or that of one locate and price: no sequence of messages leaks or doubles a slot.
THEOREM PoolsNeverLeak == Spec => []PoolsPartition
<1>1. ASSUME Running, BookInv(book) PROVE PoolsPartition
  <2>0. BookType(book) /\ SlotsInv(book) /\ LevelsInv(book)
    BY <1>1 DEF BookInv
  <2>1. LiveRefs = LiveIn(book) /\ MappedLevels = LevelsIn(book)
    BY DEF LiveRefs, LiveIn, MappedLevels, LevelsIn
  <2>2. \A level : LevelAt(level) = SlotIn(book, level)
    BY DEF LevelAt, SlotIn
  <2>3. /\ Used(book) = InUse(book.order_free_list, OrderSlots)
        /\ Mapped(book) = InUse(book.price_level_free_list, LevelSlots)
        /\ IsInjective(book.order_free_list) /\ IsInjective(book.price_level_free_list)
    BY <2>0 DEF SlotsInv, LevelsInv, InUse
  <2>4. /\ {book.orders[r] : r \in LiveRefs} = Used(book)
        /\ {LevelAt(level) : level \in MappedLevels} = Mapped(book)
    BY <1>1, <2>1, <2>2, PoolsAreShared
  <2>5. /\ Cardinality(LiveRefs) + Len(book.order_free_list) = OrderCapacity
        /\ Cardinality(MappedLevels) + Len(book.price_level_free_list) = LevelCapacity
    <3>1. /\ Cardinality(LiveRefs) = OrderCapacity - Len(book.order_free_list)
          /\ Cardinality(MappedLevels) = LevelCapacity - Len(book.price_level_free_list)
      BY <1>1, <2>1, PoolsAreShared
    <3>2. /\ book.order_free_list \in Seq(OrderSlots)
          /\ book.price_level_free_list \in Seq(LevelSlots)
      BY <2>0 DEF BookType
    <3>3. \A S, list : list \in Seq(S) => Len(list) \in Nat
      OBVIOUS
    <3> QED
      BY <3>1, <3>2, <3>3, PoolAssumption
  <2> QED
    BY <2>3, <2>4, <2>5 DEF PoolsPartition
<1>2. (Running => BookInv(book)) => PoolsPartition
  BY <1>1 DEF PoolsPartition
<1> QED
  BY <1>2, BookInvariant, PTL

\* Each level's list runs both ways through exactly the live orders of that level, and
\* through nothing that was freed, although a freed slot keeps its stale links.
THEOREM ListsStayWellFormed == Spec => []ListsWellFormed
<1>1. ASSUME Running, BookInv(book) PROVE ListsWellFormed
  <2>0. /\ BookType(book) /\ SlotsInv(book) /\ LevelsInv(book)
        /\ EndsLinked(Nexts(book), Prevs(book), Levels(book), Heads(book), Tails(book),
                      Used(book))
        /\ OrdersLinked(Nexts(book), Prevs(book), Levels(book), Heads(book), Tails(book),
                        Used(book))
    BY <1>1 DEF BookInv, ListsInv, Linked
  <2> SUFFICES ASSUME NEW level \in MappedLevels
               PROVE  LET slot == LevelAt(level)
                          members == OrdersOf(slot)
                          pool == book.order_pool
                          ends == book.price_level_pool[slot]
                      IN  /\ ends.price = level[2]
                          /\ (ends.head = NIL) = (members = {})
                          /\ (ends.tail = NIL) = (members = {})
                          /\ members # {} =>
                                /\ ends.head \in members /\ pool[ends.head].prev = NIL
                                /\ ends.tail \in members /\ pool[ends.tail].next = NIL
                          /\ \A i \in members :
                                /\ i # ends.tail =>
                                      pool[i].next \in members /\ pool[pool[i].next].prev = i
                                /\ i # ends.head =>
                                      pool[i].prev \in members /\ pool[pool[i].prev].next = i
    BY DEF ListsWellFormed
  <2> DEFINE slot == LevelAt(level)
             members == OrdersOf(slot)
             pool == book.order_pool
             ends == book.price_level_pool[slot]
  <2>1. slot \in LevelSlots /\ ends.price = level[2]
    BY <2>0 DEF BookType, LevelsInv, MappedLevels, LevelAt
  <2>2. members = {i \in Used(book) : pool[i].level = slot}
    BY <2>0 DEF OrdersOf, InUse, SlotsInv
  <2> HIDE DEF slot, members
  <2>3. \A i \in Used(book) : /\ i \in OrderSlots
                              /\ Nexts(book)[i] = pool[i].next
                              /\ Prevs(book)[i] = pool[i].prev
                              /\ Levels(book)[i] = pool[i].level
    BY DEF Used, Nexts, Prevs, Levels
  <2>4. Heads(book)[slot] = ends.head /\ Tails(book)[slot] = ends.tail
    BY <2>1 DEF Heads, Tails
  <2>5. /\ (ends.head = NIL) <=> (ends.tail = NIL)
        /\ ends.head # NIL => ends.head \in members /\ pool[ends.head].prev = NIL
        /\ ends.tail # NIL => ends.tail \in members /\ pool[ends.tail].next = NIL
    BY <2>0, <2>1, <2>2, <2>3, <2>4 DEF EndsLinked
  <2>6. \A i \in members :
           /\ ends.head # NIL
           /\ i # ends.tail =>
                 pool[i].next \in members /\ pool[pool[i].next].prev = i
           /\ i # ends.head =>
                 pool[i].prev \in members /\ pool[pool[i].prev].next = i
    BY <2>0, <2>2, <2>3, <2>4 DEF OrdersLinked
  <2> QED
    BY <2>1, <2>5, <2>6 DEF slot, members
<1>2. (Running => BookInv(book)) => ListsWellFormed
  BY <1>1 DEF ListsWellFormed
<1> QED
  BY <1>2, BookInvariant, PTL

\* Every level's volume is the sum of what is left of its live orders, in the width of
\* total_volume: whatever wrapped on the way up comes back exact on the way down.
THEOREM VolumesAreSums == Spec => []VolumeIsSumOfShares
<1>1. ASSUME Running, BookInv(book) PROVE VolumeIsSumOfShares
  <2>0. BookType(book) /\ SlotsInv(book) /\ VolumesInv(book)
    BY <1>1 DEF BookInv
  <2> SUFFICES ASSUME NEW level \in MappedLevels
               PROVE  book.price_level_pool[LevelAt(level)].total_volume
                         = Wrap(SharesOn(LevelAt(level)))
    BY DEF VolumeIsSumOfShares
  <2> DEFINE slot == LevelAt(level)
  <2>1. slot \in LevelSlots
    BY <2>0 DEF BookType, MappedLevels, LevelAt
  <2>2. Used(book) = InUse(book.order_free_list, OrderSlots)
    BY <2>0 DEF SlotsInv, InUse
  <2> HIDE DEF slot
  <2>3. SharesLeft(book, slot) =
           [i \in OrderSlots |-> IF i \in OrdersOf(slot) THEN book.order_pool[i].shares ELSE 0]
    BY <2>2 DEF SharesLeft, OrdersOf
  <2>4. SharesOn(slot) = SumOf(SharesLeft(book, slot))
    BY <2>3 DEF SharesOn
  <2> QED
    BY <2>0, <2>1, <2>4 DEF VolumesInv, slot
<1>2. (Running => BookInv(book)) => VolumeIsSumOfShares
  BY <1>1 DEF VolumeIsSumOfShares
<1> QED
  BY <1>2, BookInvariant, PTL

\* Whatever the capacities and the feed, as long as its references are within the table:
\* the orders and queues that slots and links stand for change as the documentation of the
\* book promises, in price-time priority, and the book fails only where it is really full.
THEOREM BookImplementsOrderBook ==
    ASSUME FeedRefs \subseteq 0 .. MaxOrderRef - 1
    PROVE  Spec => ImplementsOrderBook
<1> DEFINE Inv == Running => /\ BookInv(book)
                             /\ OrdersMean(book, LiveOrders)
                             /\ QueuesMean(book, LevelQueues)
<1>1. Init => AbstractBook!Init /\ Inv
  <2> SUFFICES ASSUME Init PROVE AbstractBook!Init /\ Inv
    OBVIOUS
  <2>1. Running /\ BookInv(book)
    BY NewBookKeeps DEF Init, Running, NewBook
  <2>2. OrdersMean(book, AbstractBook!NoOrders) /\ QueuesMean(book, AbstractBook!NoLevels)
    BY NewBookMeans DEF Init
  <2>3. LiveOrders = AbstractBook!NoOrders /\ LevelQueues = AbstractBook!NoLevels
    BY <2>1, <2>2, ReadingTheBook DEF BookIsRead
  <2> QED
    BY <2>1, <2>2, <2>3 DEF AbstractBook!Init
<1>2. ASSUME Inv, [Next]_book, BookIsRead', NothingIsRead'
      PROVE  [AbstractBook!Next]_AbstractBook!bookVars /\ Inv'
  <2>1. ASSUME book'.status # "running"
        PROVE  /\ LiveOrders' = AbstractBook!NoOrders /\ LevelQueues' = AbstractBook!NoLevels
               /\ ~Running' /\ Inv'
    BY <1>2, <2>1, ReadingNext DEF Running
  <2>2. ASSUME NEW orders, NEW queues, book'.status = "running", BookInv(book'),
               OrdersMean(book', orders), QueuesMean(book', queues)
        PROVE  /\ LiveOrders' = orders /\ LevelQueues' = queues
               /\ Running' /\ Inv'
    <3>1. LiveOrders' = orders /\ LevelQueues' = queues
      BY <1>2, <2>2, ReadingNext
    <3>2. BookInv(book)'
      BY <2>2 DEF BookInv, BookType, SlotsInv, LevelsInv, ListsInv, Used, Mapped, Nexts, Prevs,
         Levels, Heads, Tails, VolumesInv, SharesLeft
    <3>3. OrdersMean(book, LiveOrders)'
      BY <2>2, <3>1 DEF OrdersMean, OrderMeans, LiveIn, LevelsIn, SlotIn
    <3>4. QueuesMean(book, LevelQueues)'
      <4>1. QueuesMean(book, queues)'
        BY <2>2 DEF QueuesMean, QueueMeans, LiveIn, LevelsIn, SlotIn, SlotsOf, IsQueue,
           MembersOf, Used
      <4> QED
        BY <3>1, <4>1 DEF QueuesMean
    <3>5. Running'
      BY <2>2 DEF Running
    <3> QED
      BY <3>1, <3>2, <3>3, <3>4, <3>5
  <2>3. CASE ~Running
    <3>1. UNCHANGED book
      BY <1>2, <2>3 DEF Next, ParseStockDirectory, ParseAddOrder, ParseOrderExecuted,
         ParseOrderExecutedPrice, ParseOrderCancel, ParseOrderDelete, ParseOrderReplace, Stopped
    <3>2. book'.status # "running"
      BY <2>3, <3>1 DEF Running
    <3>3. LiveOrders = AbstractBook!NoOrders /\ LevelQueues = AbstractBook!NoLevels
      BY <2>3, ReadingNothing DEF NothingIsRead
    <3> QED
      BY <2>1, <2>3, <3>2, <3>3 DEF AbstractBook!bookVars
  <2>4. CASE Running
    <3> DEFINE live == LiveOrders
               queue == LevelQueues
    <3>0. /\ book.status = "running" /\ BookInv(book)
          /\ OrdersMean(book, live) /\ QueuesMean(book, queue)
      BY <1>2, <2>4 DEF Running
    <3>1. /\ DOMAIN book.orders = 0 .. MaxOrderRef - 1
          /\ DOMAIN live = LiveIn(book)
          /\ DOMAIN queue = LevelsIn(book)
      BY <3>0 DEF BookInv, BookType, OrdersMean, QueuesMean
    <3>2. \A ref \in FeedRefs :
             /\ ref \in DOMAIN book.orders
             /\ (ref \in LiveIn(book)) <=> (book.orders[ref] # NIL)
             /\ Live(ref) <=> (ref \in LiveIn(book))
      BY <3>1 DEF LiveIn, Live, KnowsRef
    <3>3. ASSUME UNCHANGED book
          PROVE  [AbstractBook!Next]_AbstractBook!bookVars /\ Inv'
      BY <2>2, <2>4, <3>0, <3>3 DEF AbstractBook!bookVars
    <3>4. ASSUME NEW stock \in Stocks, NEW locate \in FeedLocates,
                 ParseStockDirectory(stock, locate)
          PROVE  [AbstractBook!Next]_AbstractBook!bookVars /\ Inv'
      <4>1. book' = MapStockStr(book, stock, locate)
        BY <3>4 DEF ParseStockDirectory
      <4>2. BookInv(book') /\ book'.status = "running" /\ Announced(book, book')
        BY <3>0, <4>1, MapStockStrKeeps
      <4>3. OrdersMean(book', live) /\ QueuesMean(book', queue)
        BY <3>0, <4>2, AnnouncedMeans
      <4> QED
        BY <2>2, <2>4, <4>2, <4>3 DEF AbstractBook!bookVars
    <3>5. ASSUME NEW orders, NEW queues, NEW ref, NEW locate, NEW side, NEW shares, NEW price,
                 IF IsFull(orders, queues, <<locate, price>>)
                 THEN book'.status # "running"
                 ELSE /\ book'.status = "running"
                      /\ BookInv(book')
                      /\ OrdersMean(book', OrdersPlaced(orders, ref, locate, side, shares, price))
                      /\ QueuesMean(book', QueuesPlaced(queues, ref, <<locate, price>>))
          PROVE  AbstractBook!Place(orders, queues, ref, locate, side, shares, price) /\ Inv'
      <4> DEFINE level == <<locate, price>>
                 full == IsFull(orders, queues, level)
      <4>1. full <=> \/ AbstractBook!Cardinality(DOMAIN orders) >= OrderCapacity
                     \/ /\ ~(level \in DOMAIN queues)
                        /\ AbstractBook!Cardinality(DOMAIN queues) >= LevelCapacity
        BY SameCardinality DEF IsFull
      <4> HIDE DEF full
      <4>2. CASE full
        <5>1. /\ LiveOrders' = AbstractBook!NoOrders /\ LevelQueues' = AbstractBook!NoLevels
              /\ ~Running' /\ Inv'
          BY <2>1, <3>5, <4>2 DEF full
        <5> QED
          BY <4>1, <4>2, <5>1 DEF AbstractBook!Place
      <4>3. CASE ~full
        <5>1. /\ LiveOrders' = OrdersPlaced(orders, ref, locate, side, shares, price)
              /\ LevelQueues' = QueuesPlaced(queues, ref, level)
              /\ Running' /\ Inv'
          BY <2>2, <3>5, <4>3 DEF full
        <5> QED
          BY <2>4, <4>1, <4>3, <5>1 DEF AbstractBook!Place, OrdersPlaced, QueuesPlaced
      <4> QED
        BY <4>2, <4>3
    <3>6. ASSUME NEW locate \in FeedLocates, NEW ref \in FeedRefs, NEW side \in Sides,
                 NEW shares \in Shares, NEW price \in Prices,
                 ParseAddOrder(locate, ref, side, shares, price)
          PROVE  AbstractBook!Add(ref, locate, side, shares, price) /\ Inv'
      <4>1. /\ book' = AddOrder(book, locate, ref, side, shares, price)
            /\ ref \notin LiveIn(book) /\ ref \in DOMAIN book.orders /\ book.orders[ref] = NIL
            /\ locate \in DOMAIN book.price_level_maps
        BY <3>2, <3>6 DEF ParseAddOrder, KnowsLocate
      <4>2. shares \in 0 .. VolumeModulus - 1
        BY FeedAssumption
      <4>3. IF IsFull(live, queue, <<locate, price>>)
            THEN book'.status # "running"
            ELSE /\ book'.status = "running"
                 /\ BookInv(book')
                 /\ OrdersMean(book', OrdersPlaced(live, ref, locate, side, shares, price))
                 /\ QueuesMean(book', QueuesPlaced(queue, ref, <<locate, price>>))
        BY <3>0, <4>1, <4>2, PlacingMeans
      <4>4. AbstractBook!Place(live, queue, ref, locate, side, shares, price) /\ Inv'
        BY <3>5, <4>3
      <4> QED
        BY <3>1, <4>1, <4>4 DEF AbstractBook!Add
    <3>7. ASSUME NEW ref \in FeedRefs, NEW shares \in Shares, ParseOrderExecuted(ref, shares)
          PROVE  (AbstractBook!Reduce(ref, shares) \/ UNCHANGED book) /\ Inv'
      <4>1. book' = ReduceOrderSize(book, ref, shares) /\ shares \in Int
        BY <3>7, FeedAssumption DEF ParseOrderExecuted
      <4>2. CASE ref \in LiveIn(book)
        <5>1. IF live[ref].shares > shares
              THEN /\ book'.status = "running" /\ BookInv(book')
                   /\ OrdersMean(book', OrdersReduced(live, ref, shares))
                   /\ QueuesMean(book', queue)
              ELSE book' = DeleteOrder(book, ref)
          BY <3>0, <4>1, <4>2, ReductionMeans
        <5>2. CASE live[ref].shares > shares
          <6>1. /\ LiveOrders' = OrdersReduced(live, ref, shares)
                /\ LevelQueues' = queue
                /\ Running' /\ Inv'
            BY <2>2, <5>1, <5>2
          <6> QED
            BY <2>4, <3>1, <4>2, <5>2, <6>1 DEF AbstractBook!Reduce, OrdersReduced
        <5>3. CASE ~(live[ref].shares > shares)
          <6>1. /\ book'.status = "running" /\ BookInv(book')
                /\ OrdersMean(book', OrdersWithout(live, ref))
                /\ QueuesMean(book', QueuesWithout(live, queue, ref))
            <7>1. book' = DeleteOrder(book, ref)
              BY <5>1, <5>3
            <7> QED
              BY <3>0, <4>2, <7>1, DeletionMeans
          <6>2. /\ LiveOrders' = OrdersWithout(live, ref)
                /\ LevelQueues' = QueuesWithout(live, queue, ref)
                /\ Running' /\ Inv'
            BY <2>2, <6>1
          <6> QED
            BY <2>4, <3>1, <4>2, <5>3, <6>2 DEF OrdersWithout, QueuesWithout,
               AbstractBook!Reduce, AbstractBook!LiveWithout, AbstractBook!QueueWithout,
               AbstractBook!Level
        <5> QED
          BY <5>2, <5>3
      <4>3. CASE ref \notin LiveIn(book)
        <5>1. book' = book
          BY <3>2, <4>1, <4>3 DEF ReduceOrderSize, KnowsRef
        <5> QED
          BY <3>3, <5>1
      <4> QED
        BY <4>2, <4>3
    <3>8. ASSUME NEW ref \in FeedRefs, ParseOrderDelete(ref)
          PROVE  (AbstractBook!Remove(ref) \/ UNCHANGED book) /\ Inv'
      <4>1. book' = DeleteOrder(book, ref)
        BY <3>8 DEF ParseOrderDelete
      <4>2. CASE ref \in LiveIn(book)
        <5>1. /\ book'.status = "running" /\ BookInv(book')
              /\ OrdersMean(book', OrdersWithout(live, ref))
              /\ QueuesMean(book', QueuesWithout(live, queue, ref))
          BY <3>0, <4>1, <4>2, DeletionMeans
        <5>2. /\ live' = OrdersWithout(live, ref)
              /\ queue' = QueuesWithout(live, queue, ref)
              /\ Running' /\ Inv'
          BY <2>2, <5>1
        <5> QED
          BY <2>4, <3>1, <4>2, <5>2 DEF OrdersWithout, QueuesWithout, AbstractBook!Remove,
             AbstractBook!LiveWithout, AbstractBook!QueueWithout, AbstractBook!Level
      <4>3. CASE ref \notin LiveIn(book)
        <5>1. book' = book
          BY <3>2, <4>1, <4>3 DEF DeleteOrder, KnowsRef
        <5> QED
          BY <3>3, <5>1
      <4> QED
        BY <4>2, <4>3
    <3>9. ASSUME NEW locate \in FeedLocates, NEW old \in FeedRefs, NEW ref \in FeedRefs,
                 NEW shares \in Shares, NEW price \in Prices,
                 ParseOrderReplace(locate, old, ref, shares, price)
          PROVE  (AbstractBook!Replace(old, ref, locate, shares, price) \/ UNCHANGED book) /\ Inv'
      <4> DEFINE gone == DeleteOrder(book, old)
                 orders == OrdersWithout(live, old)
                 queues == QueuesWithout(live, queue, old)
                 side == live[old].side
      <4>1. CASE old \in LiveIn(book)
        <5>1. /\ book' = ReplaceOrder(book, locate, old, ref, shares, price)
              /\ ref \in LiveIn(book) => ref = old
              /\ locate \in DOMAIN book.price_level_maps
              /\ shares \in 0 .. VolumeModulus - 1
          BY <3>2, <3>9, FeedAssumption DEF ParseOrderReplace, KnowsLocate
        <5>2. side = book.order_pool[book.orders[old]].side /\ side \in Sides \cup {NoSide}
          <6>1. OrderMeans(book, old, live[old])
            BY <3>0, <4>1 DEF OrdersMean
          <6>2. live[old] = [locate |-> live[old].locate, price |-> live[old].price,
                             side |-> book.order_pool[book.orders[old]].side,
                             shares |-> book.order_pool[book.orders[old]].shares]
            BY <6>1 DEF OrderMeans
          <6>3. book.orders[old] \in OrderSlots
            BY <3>0, <3>2, <4>1 DEF BookInv, BookType
          <6>4. book.order_pool[book.orders[old]].side \in Sides \cup {NoSide}
            BY <3>0, <6>3 DEF BookInv, BookType, OrderRecords
          <6> QED
            BY <6>2, <6>4
        <5>3. book' = AddOrder(gone, locate, ref, side, shares, price)
          BY <3>2, <4>1, <5>1, <5>2 DEF ReplaceOrder, KnowsRef
        <5>4. /\ gone.status = "running" /\ BookInv(gone)
              /\ gone.orders = [book.orders EXCEPT ![old] = NIL]
              /\ gone.price_level_maps = book.price_level_maps
              /\ OrdersMean(gone, orders) /\ QueuesMean(gone, queues)
          BY <3>0, <4>1, DeletionMeans
        <5>5. ref \in DOMAIN gone.orders /\ gone.orders[ref] = NIL
          BY <3>2, <4>1, <5>1, <5>4
        <5>6. IF IsFull(orders, queues, <<locate, price>>)
              THEN book'.status # "running"
              ELSE /\ book'.status = "running"
                   /\ BookInv(book')
                   /\ OrdersMean(book', OrdersPlaced(orders, ref, locate, side, shares, price))
                   /\ QueuesMean(book', QueuesPlaced(queues, ref, <<locate, price>>))
          <6> HIDE DEF gone, orders, queues, side
          <6> QED
            <7>1. AddOrder(gone, locate, ref, side, shares, price) = book'
              BY <5>3
            <7> QED
              BY <5>1, <5>2, <5>4, <5>5, <7>1, PlacingMeans
        <5>7. AbstractBook!Place(orders, queues, ref, locate, side, shares, price) /\ Inv'
          <6> HIDE DEF orders, queues, side
          <6> QED
            BY <3>5, <5>6
        <5>8. orders = AbstractBook!LiveWithout(old) /\ queues = AbstractBook!QueueWithout(old)
          BY DEF OrdersWithout, QueuesWithout, AbstractBook!LiveWithout,
             AbstractBook!QueueWithout, AbstractBook!Level
        <5> QED
          BY <3>1, <4>1, <5>1, <5>7, <5>8 DEF AbstractBook!Replace
      <4>2. CASE old \notin LiveIn(book)
        <5>1. book' = book
          BY <3>2, <3>9, <4>2 DEF ParseOrderReplace, ReplaceOrder, KnowsRef
        <5> QED
          BY <3>3, <5>1
      <4> QED
        BY <4>1, <4>2
    <3>10. CASE UNCHANGED book
      BY <3>3, <3>10
    <3> QED
      BY <1>2, <2>4, <3>3, <3>4, <3>6, <3>7, <3>8, <3>9
         DEF Next, ParseOrderExecutedPrice, ParseOrderCancel, Stopped, AbstractBook!Next
  <2> QED
    BY <2>3, <2>4
<1> QED
  <2>1. Inv /\ [Next]_book /\ BookIsRead' /\ NothingIsRead' =>
           [AbstractBook!Next]_AbstractBook!bookVars /\ Inv'
    BY <1>2
  <2> QED
    BY <1>1, <2>1, ReadingTheBook, ReadingNothing, PTL
       DEF Spec, ImplementsOrderBook, AbstractBook!Spec
===============================================================================

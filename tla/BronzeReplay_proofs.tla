-------------------------- MODULE BronzeReplay_proofs --------------------------
(***************************************************************************)
(* Proofs about BronzeReplay for every number of runs, partitions, objects  *)
(* and faults.  The first part is about listings: a finite set of keys has  *)
(* an order, and what validate_object_ranges says of neighbours holds of    *)
(* every two keys.  The second part has one lemma per action for each part  *)
(* of the invariant the action can disturb.                                 *)
(***************************************************************************)
EXTENDS BronzeReplay, TLAPS, FiniteSetTheorems, SequenceTheorems

-----------------------------------------------------------------------------
(* Finite orders *)

\* Counting what is not behind an element numbers a strict total order.
LEMMA RankOfAnOrder ==
    ASSUME NEW S, IsFiniteSet(S), NEW R,
           \A x \in S : <<x, x>> \notin R,
           \A x, y, z \in S : <<x, y>> \in R /\ <<y, z>> \in R => <<x, z>> \in R,
           \A x, y \in S : x = y \/ <<x, y>> \in R \/ <<y, x>> \in R
    PROVE  /\ Cardinality(S) \in Nat
           /\ \E f \in [S -> 1..Cardinality(S)] :
                /\ \A k \in 1..Cardinality(S) : \E x \in S : f[x] = k
                /\ \A x, y \in S : <<x, y>> \in R => f[x] < f[y]
                /\ \A x, y \in S : f[x] = f[y] => x = y
<1> DEFINE n == Cardinality(S)
           Upto(x) == {y \in S : y = x \/ <<y, x>> \in R}
           f == [x \in S |-> Cardinality(Upto(x))]
<1>1. n \in Nat
  BY FS_CardinalityType
<1>2. ASSUME NEW x \in S
      PROVE  IsFiniteSet(Upto(x)) /\ Cardinality(Upto(x)) \in 1..n
  <2>1. Upto(x) \in SUBSET S /\ x \in Upto(x)
    OBVIOUS
  <2>2. IsFiniteSet(Upto(x)) /\ Cardinality(Upto(x)) <= n
    BY <2>1, FS_Subset
  <2>3. Cardinality(Upto(x)) \in Nat /\ Cardinality(Upto(x)) # 0
    BY <2>1, <2>2, FS_CardinalityType, FS_EmptySet
  <2>4. QED
    BY <1>1, <2>2, <2>3
<1>3. ASSUME NEW x \in S, NEW y \in S, <<x, y>> \in R
      PROVE  Cardinality(Upto(x)) < Cardinality(Upto(y))
  <2>1. Upto(x) \in SUBSET Upto(y)
    BY <1>3
  <2>2. y \in Upto(y) /\ y \notin Upto(x)
    BY <1>3
  <2>3. /\ Cardinality(Upto(x)) <= Cardinality(Upto(y))
        /\ Cardinality(Upto(x)) # Cardinality(Upto(y))
    BY <1>2, <2>1, <2>2, FS_Subset
  <2>4. Cardinality(Upto(x)) \in Nat /\ Cardinality(Upto(y)) \in Nat
    BY <1>2
  <2>5. QED
    BY <2>3, <2>4
<1>4. f \in [S -> 1..n] /\ \A x \in S : f[x] = Cardinality(Upto(x))
  BY <1>2
<1> HIDE DEF f, Upto
<1>5. \A x, y \in S : <<x, y>> \in R => f[x] < f[y]
  BY <1>3, <1>4
<1>6. ASSUME NEW x \in S, NEW y \in S, f[x] = f[y]
      PROVE  x = y
  <2>1. f[x] \in Nat /\ f[y] \in Nat
    BY <1>1, <1>4
  <2>2. ~(f[x] < f[y]) /\ ~(f[y] < f[x])
    BY <1>6, <2>1
  <2>3. <<x, y>> \notin R /\ <<y, x>> \notin R
    BY <1>5, <2>2
  <2>4. QED
    BY <2>3
<1>7. f \in Injection(S, 1..n)
  BY <1>4, <1>6 DEF Injection, IsInjective
<1>8. IsFiniteSet(1..n) /\ Cardinality(1..n) = n
  BY <1>1, FS_Interval
<1>9. f \in Surjection(S, 1..n)
  BY <1>7, <1>8, FS_Injection
<1>10. \A k \in 1..n : \E x \in S : f[x] = k
  BY <1>9 DEF Surjection
<1>11. QED
  BY <1>1, <1>4, <1>5, <1>6, <1>10

\* A finite strict total order has a first element ...
LEMMA FirstOfAnOrder ==
    ASSUME NEW S, IsFiniteSet(S), S # {}, NEW R,
           \A x \in S : <<x, x>> \notin R,
           \A x, y, z \in S : <<x, y>> \in R /\ <<y, z>> \in R => <<x, z>> \in R,
           \A x, y \in S : x = y \/ <<x, y>> \in R \/ <<y, x>> \in R
    PROVE  \E x \in S : \A y \in S : x = y \/ <<x, y>> \in R
<1> DEFINE n == Cardinality(S)
<1>1. /\ n \in Nat
      /\ \E f \in [S -> 1..n] :
           /\ \A k \in 1..n : \E x \in S : f[x] = k
           /\ \A x, y \in S : <<x, y>> \in R => f[x] < f[y]
  BY RankOfAnOrder
<1>2. n # 0
  BY FS_EmptySet
<1>3. PICK f \in [S -> 1..n] :
           /\ \A k \in 1..n : \E x \in S : f[x] = k
           /\ \A x, y \in S : <<x, y>> \in R => f[x] < f[y]
  BY <1>1
<1>4. PICK x \in S : f[x] = 1
  BY <1>1, <1>2, <1>3
<1>5. ASSUME NEW y \in S
      PROVE  x = y \/ <<x, y>> \in R
  <2>1. f[y] \in 1..n /\ ~(f[y] < f[x])
    BY <1>1, <1>3, <1>4
  <2>2. <<y, x>> \notin R
    BY <1>3, <2>1
  <2>3. QED
    BY <2>2
<1>6. QED
  BY <1>5

\* ... and the elements of a finite set of numbers make an ascending sequence.
LEMMA InOrderIsSorted ==
    ASSUME NEW offsets, offsets \subseteq Nat, IsFiniteSet(offsets)
    PROVE  InOrder(offsets) \in Seq(offsets)
<1> DEFINE n == Cardinality(offsets)
           R == {e \in offsets \X offsets : e[1] < e[2]}
<1>1. \A x, y \in offsets : <<x, y>> \in R <=> x < y
  OBVIOUS
<1> HIDE DEF R
<1>2. /\ n \in Nat
      /\ \E f \in [offsets -> 1..n] :
           /\ \A k \in 1..n : \E x \in offsets : f[x] = k
           /\ \A x, y \in offsets : <<x, y>> \in R => f[x] < f[y]
           /\ \A x, y \in offsets : f[x] = f[y] => x = y
  <2>1. /\ \A x \in offsets : <<x, x>> \notin R
        /\ \A x, y, z \in offsets : <<x, y>> \in R /\ <<y, z>> \in R => <<x, z>> \in R
        /\ \A x, y \in offsets : x = y \/ <<x, y>> \in R \/ <<y, x>> \in R
    BY <1>1
  <2>2. QED
    BY <2>1, RankOfAnOrder
<1>3. PICK f \in [offsets -> 1..n] :
           /\ \A k \in 1..n : \E x \in offsets : f[x] = k
           /\ \A x, y \in offsets : <<x, y>> \in R => f[x] < f[y]
           /\ \A x, y \in offsets : f[x] = f[y] => x = y
  BY <1>2
<1> DEFINE s == [k \in 1..n |-> CHOOSE x \in offsets : f[x] = k]
<1>4. /\ s \in [1..n -> offsets]
      /\ \A k \in 1..n : f[s[k]] = k
  BY <1>3
<1> HIDE DEF s
<1>5. \A i, j \in DOMAIN s : i < j => s[i] < s[j]
  <2> SUFFICES ASSUME NEW i \in 1..n, NEW j \in 1..n, i < j
               PROVE  s[i] < s[j]
    BY <1>4
  <2>1. /\ s[i] \in offsets /\ s[j] \in offsets
        /\ s[i] \in Nat /\ s[j] \in Nat
        /\ f[s[i]] = i /\ f[s[j]] = j
    BY <1>4
  <2>2. ~(s[j] < s[i])
    <3>1. s[j] < s[i] => f[s[j]] < f[s[i]]
      BY <1>1, <1>3, <2>1
    <3>2. ~(j < i)
      BY <1>2
    <3>3. QED
      BY <2>1, <3>1, <3>2
  <2>3. s[i] # s[j]
    BY <1>2, <2>1
  <2>4. QED
    BY <2>1, <2>2, <2>3
<1>6. InOrder(offsets) \in [1..n -> offsets]
  BY <1>4, <1>5 DEF InOrder
<1>7. QED
  BY <1>2, <1>6

-----------------------------------------------------------------------------
(* Listings *)

Keys(S) == \A x \in S : x.part \in Nat /\ x.lo \in Nat /\ x.hi \in Nat

\* The sort key of list_replay_objects orders keys strictly and totally.
LEMMA BeforeIsAnOrder ==
    ASSUME NEW S, Keys(S)
    PROVE  /\ \A x \in S : ~Before(x, x)
           /\ \A x, y, z \in S : Before(x, y) /\ Before(y, z) => Before(x, z)
           /\ \A x, y \in S : SameKey(x, y) \/ Before(x, y) \/ Before(y, x)
           /\ \A x, y \in S : ~(Before(x, y) /\ Before(y, x))
BY DEF Keys, Before, SameKey

\* Some keys of a listing include a first and a last one.
LEMMA FirstAndLastKey ==
    ASSUME NEW L, Keys(L), OnePerKey(L), NEW S \in SUBSET L, S # {}
    PROVE  /\ \E x \in S : \A y \in S : x = y \/ Before(x, y)
           /\ \E x \in S : \A y \in S : x = y \/ Before(y, x)
<1>1. /\ IsFiniteSet(S)
      /\ \A x, y \in S : SameKey(x, y) => x = y
  BY FS_Subset DEF OnePerKey
<1>2. /\ \A x \in S : ~Before(x, x)
      /\ \A x, y, z \in S : Before(x, y) /\ Before(y, z) => Before(x, z)
      /\ \A x, y \in S : x = y \/ Before(x, y) \/ Before(y, x)
  BY <1>1, BeforeIsAnOrder DEF Keys
<1> DEFINE R == {e \in S \X S : Before(e[1], e[2])}
           Q == {e \in S \X S : Before(e[2], e[1])}
<1>3. \A x, y \in S : (<<x, y>> \in R <=> Before(x, y)) /\ (<<x, y>> \in Q <=> Before(y, x))
  OBVIOUS
<1> HIDE DEF R, Q
<1>4. \E x \in S : \A y \in S : x = y \/ <<x, y>> \in R
  <2>1. /\ \A x \in S : <<x, x>> \notin R
        /\ \A x, y, z \in S : <<x, y>> \in R /\ <<y, z>> \in R => <<x, z>> \in R
        /\ \A x, y \in S : x = y \/ <<x, y>> \in R \/ <<y, x>> \in R
    BY <1>2, <1>3
  <2>2. QED
    BY <1>1, <2>1, FirstOfAnOrder, SMTT(30)
<1>5. \E x \in S : \A y \in S : x = y \/ <<x, y>> \in Q
  <2>1. /\ \A x \in S : <<x, x>> \notin Q
        /\ \A x, y, z \in S : <<x, y>> \in Q /\ <<y, z>> \in Q => <<x, z>> \in Q
        /\ \A x, y \in S : x = y \/ <<x, y>> \in Q \/ <<y, x>> \in Q
    BY <1>2, <1>3
  <2>2. QED
    BY <1>1, <2>1, FirstOfAnOrder, SMTT(30)
<1>6. QED
  BY <1>3, <1>4, <1>5

\* What validate_object_ranges compares are neighbours; no two ranges of an
\* accepted listing overlap.
LEMMA RangesAreSeparate ==
    ASSUME NEW L, Keys(L), OnePerKey(L), NEW r, ValidRanges(r, L),
           NEW x \in L, NEW y \in L, x.part = y.part, Before(x, y)
    PROVE  x.hi < y.lo
<1> DEFINE V == {v \in L : v.part = x.part /\ Before(x, v) /\ v.lo <= x.hi}
<1> SUFFICES ASSUME ~(x.hi < y.lo)
             PROVE  FALSE
  OBVIOUS
<1>1. y \in V
  BY DEF Keys
<1>2. PICK v \in V : \A w \in V : v = w \/ Before(v, w)
  BY <1>1, FirstAndLastKey
<1> DEFINE Z == {z \in L : Before(x, z) /\ Before(z, v)}
<1>3. CASE Z = {}
  <2>1. Neighbours(L, x, v)
    BY <1>2, <1>3 DEF Neighbours
  <2>2. v.lo > x.hi
    BY <2>1 DEF ValidRanges
  <2>3. QED
    BY <1>2, <2>2 DEF Keys
<1>4. CASE Z # {}
  <2>1. PICK p \in Z : \A w \in Z : p = w \/ Before(w, p)
    BY <1>4, FirstAndLastKey
  <2>2. p.part = x.part
    BY <1>2, <2>1 DEF Before, Keys
  <2>3. Neighbours(L, p, v)
    <3>1. ASSUME NEW w \in L, Before(p, w), Before(w, v)
          PROVE  FALSE
      <4>1. w \in Z
        BY <2>1, <3>1, BeforeIsAnOrder
      <4>2. p = w \/ Before(w, p)
        BY <2>1, <4>1
      <4>3. QED
        BY <2>1, <3>1, <4>2, BeforeIsAnOrder
    <3>2. QED
      BY <1>2, <2>1, <2>2, <3>1 DEF Neighbours
  <2>4. v.lo > p.hi
    BY <2>1, <2>3 DEF ValidRanges
  <2>5. p \notin V
    BY <1>2, <2>1, BeforeIsAnOrder
  <2>6. ~(p.lo <= x.hi)
    BY <2>1, <2>2, <2>5
  <2>7. p.lo <= p.hi
    BY <2>1 DEF OnePerKey
  <2>8. v.lo <= x.hi /\ v \in L /\ p \in L
    BY <1>2, <2>1
  <2>9. QED
    BY <2>4, <2>6, <2>7, <2>8 DEF Keys
<1>5. QED
  BY <1>3, <1>4

\* Without --allow-gaps every offset between two objects of a partition belongs
\* to an object.
LEMMA RangesHaveNoHole ==
    ASSUME NEW L, Keys(L), OnePerKey(L),
           NEW r, r \notin AllowingGaps, ValidRanges(r, L),
           NEW x \in L, NEW y \in L, x.part = y.part,
           NEW o \in Nat, x.lo <= o, o <= y.hi
    PROVE  \E z \in L : z.part = x.part /\ z.lo <= o /\ o <= z.hi
<1> DEFINE T == {z \in L : z.part = x.part /\ z.lo <= o}
<1>1. PICK m \in T : \A z \in T : m = z \/ Before(z, m)
  <2>1. x \in T
    OBVIOUS
  <2>2. QED
    BY <2>1, FirstAndLastKey
<1>2. CASE o <= m.hi
  BY <1>1, <1>2
<1>3. CASE ~(o <= m.hi)
  <2>1. y \notin T
    <3>1. y # m
      BY <1>3
    <3>2. ~Before(y, m)
      <4>1. Before(y, m) => y.hi < m.lo
        BY <1>1, RangesAreSeparate
      <4>2. m.lo <= o /\ m \in L
        BY <1>1
      <4>3. QED
        BY <4>1, <4>2 DEF Keys
    <3>3. QED
      BY <1>1, <3>1, <3>2
  <2>2. Before(m, y)
    BY <1>1, <2>1 DEF Before, Keys
  <2> DEFINE W == {w \in L : w.part = m.part /\ Before(m, w)}
  <2>3. PICK n \in W : \A w \in W : n = w \/ Before(n, w)
    <3>1. y \in W
      BY <1>1, <2>2
    <3>2. QED
      BY <3>1, FirstAndLastKey
  <2>4. Neighbours(L, m, n)
    <3>1. ASSUME NEW w \in L, Before(m, w), Before(w, n)
          PROVE  FALSE
      <4>1. w \in W
        BY <1>1, <2>3, <3>1 DEF Before, Keys
      <4>2. QED
        BY <2>3, <3>1, <4>1, BeforeIsAnOrder
    <3>2. QED
      BY <2>3, <3>1 DEF Neighbours
  <2>5. n.lo = m.hi + 1
    BY <1>1, <2>3, <2>4 DEF ValidRanges
  <2>6. n \in T
    BY <1>1, <1>3, <2>3, <2>5 DEF Keys
  <2>7. QED
    BY <1>1, <2>3, <2>6, BeforeIsAnOrder
<1>4. QED
  BY <1>2, <1>3

\* What list_replay_objects returns is a set of references, one per key, each to
\* an object of the bucket.
LEMMA ListingIsSound ==
    ASSUME TypeOK, ListingsAreSound
    PROVE  /\ Listing \subseteq ObjectReference
           /\ OnePerKey(Listing)
           /\ \A ref \in Listing : \E x \in bucket : SameKey(x, ref)
<1> DEFINE T == {y \in bucket : y.part \in Selected}
           f == [x \in T |-> Reference(x)]
<1>1. bucket \subseteq Object /\ OnePerKey(bucket)
  BY DEF TypeOK, ListingsAreSound
<1>2. \A x \in bucket : Reference(x) \in ObjectReference /\ SameKey(x, Reference(x))
  <2> SUFFICES ASSUME NEW x \in bucket
               PROVE  Reference(x) \in ObjectReference /\ SameKey(x, Reference(x))
    OBVIOUS
  <2>1. /\ x.part \in Partitions /\ x.lo \in Nat /\ x.hi \in Nat
        /\ Len(x.body) \in Nat
    BY <1>1 DEF Object
  <2>2. QED
    BY <2>1 DEF Reference, ObjectReference, SameKey
<1>3. Listing \subseteq ObjectReference /\ \A ref \in Listing : \E x \in bucket : SameKey(x, ref)
  BY <1>2 DEF Listing
<1>4. IsFiniteSet(Listing)
  <2>1. IsFiniteSet(T)
    BY <1>1, FS_Subset DEF OnePerKey
  <2>2. f \in Surjection(T, Listing)
    BY DEF Surjection, Listing
  <2>3. QED
    BY <2>1, <2>2, FS_Surjection
<1>5. \A x \in Listing : x.lo <= x.hi
  BY <1>1, <1>3 DEF OnePerKey, SameKey
<1>6. \A x, y \in Listing : SameKey(x, y) => x = y
  <2> SUFFICES ASSUME NEW x \in Listing, NEW y \in Listing, SameKey(x, y)
               PROVE  x = y
    OBVIOUS
  <2>1. PICK a \in T : x = Reference(a)
    BY DEF Listing
  <2>2. PICK b \in T : y = Reference(b)
    BY DEF Listing
  <2>3. SameKey(a, b)
    BY <2>1, <2>2 DEF SameKey, Reference
  <2>4. a = b
    BY <1>1, <2>3 DEF OnePerKey
  <2>5. QED
    BY <2>1, <2>2, <2>4
<1>7. QED
  BY <1>3, <1>4, <1>5, <1>6 DEF OnePerKey

\* What a put may store is a sequence of offsets of the key's range.
LEMMA BodiesAreSequences ==
    ASSUME NEW lo \in Nat, NEW hi \in Nat, lo <= hi, NEW body \in Bodies(lo, hi)
    PROVE  body \in Seq(Nat)
<1>1. ASSUME NEW rows \in EachOnce(lo, hi)
      PROVE  rows \in Seq(Nat)
  <2>1. PICK offsets \in SUBSET (lo..hi) : rows = InOrder(offsets \cup {lo, hi})
    BY DEF EachOnce
  <2>2. IsFiniteSet(lo..hi) /\ lo..hi \subseteq Nat
    BY FS_Interval
  <2>3. offsets \cup {lo, hi} \in SUBSET (lo..hi)
    OBVIOUS
  <2>4. IsFiniteSet(offsets \cup {lo, hi}) /\ offsets \cup {lo, hi} \subseteq Nat
    BY <2>2, <2>3, FS_Subset
  <2>5. rows \in Seq(offsets \cup {lo, hi})
    BY <2>1, <2>4, InOrderIsSorted
  <2>6. QED
    BY <2>4, <2>5, SeqMonotonic
<1>2. \A n \in 0..MaxRepeats : Repeated(n, lo) \in Seq(Nat)
  BY ReplayBounds DEF Repeated
<1>3. PICK n \in 0..MaxRepeats, rows \in EachOnce(lo, hi) :
          body = Repeated(n, lo) \o rows
  BY DEF Bodies
<1>4. Repeated(n, lo) \o rows \in Seq(Nat)
  BY <1>1, <1>2, ConcatProperties
<1>5. QED
  BY <1>3, <1>4

\* Appending the validated rows of an object that comes behind all the others
\* makes a longer copy.
LEMMA CopyGrows ==
    ASSUME NEW rows \in Seq(Row), NEW S \in SUBSET ObjectReference,
           Covers(rows, S), Sorted(rows),
           NEW x \in Object, x.lo <= x.hi, BodyValid(x), NEW ref, SameKey(x, ref),
           \A y \in S : y.part < x.part \/ (y.part = x.part /\ y.hi < x.lo)
    PROVE  /\ rows \o RowsOf(x) \in Seq(Row)
           /\ Covers(rows \o RowsOf(x), S \cup {ref})
           /\ Sorted(rows \o RowsOf(x))
<1> DEFINE n == Len(rows)
           m == x.hi - x.lo + 1
           longer == rows \o RowsOf(x)
<1>1. /\ x.part \in Partitions /\ x.part \in Nat /\ x.lo \in Nat /\ x.hi \in Nat
      /\ m \in Nat
      /\ DOMAIN x.body = 1..m
      /\ n \in Nat /\ DOMAIN rows = 1..n
  <2>1. x.part \in Partitions /\ x.lo \in Nat /\ x.hi \in Nat /\ x.body \in Seq(Nat)
    BY DEF Object
  <2>2. Len(x.body) = m /\ DOMAIN x.body = 1..Len(x.body)
    BY <2>1 DEF BodyValid
  <2>3. n \in Nat /\ DOMAIN rows = 1..n
    OBVIOUS
  <2>4. m \in Nat /\ x.part \in Nat
    <3>1. x.part \in Nat
      BY <2>1, ReplayAssumption
    <3>2. \A a, b \in Nat : a <= b => b - a + 1 \in Nat
      OBVIOUS
    <3>3. QED
      BY <2>1, <3>1, <3>2
  <2>5. QED
    BY <2>1, <2>2, <2>3, <2>4
<1>2. \A i \in 1..n : rows[i] \in Row /\ rows[i].part \in Nat /\ rows[i].off \in Nat
  <2>1. \A i \in 1..n : rows[i] \in Row
    OBVIOUS
  <2>2. QED
    BY <2>1, ReplayAssumption DEF Row
<1>3. /\ RowsOf(x) \in Seq(Row)
      /\ Len(RowsOf(x)) = m
      /\ \A k \in 1..m : RowsOf(x)[k] = [part |-> x.part, off |-> x.lo + k - 1]
  <2> DEFINE R == [k \in 1..m |-> [part |-> x.part, off |-> x.lo + k - 1]]
  <2>1. \A k \in 1..m : x.body[k] = x.lo + k - 1
    BY <1>1 DEF BodyValid
  <2>2. RowsOf(x) = R
    BY <1>1, <2>1 DEF RowsOf
  <2>3. ASSUME NEW k \in 1..m
        PROVE  [part |-> x.part, off |-> x.lo + k - 1] \in Row
    <3>1. x.lo + k - 1 \in Nat
      BY <1>1
    <3>2. QED
      BY <1>1, <3>1 DEF Row
  <2>4. R \in [1..m -> Row]
    BY <2>3
  <2> HIDE DEF m
  <2>5. R \in Seq(Row) /\ Len(R) = m
    BY <1>1, <2>4
  <2>6. QED
    BY <2>2, <2>5
<1>4. /\ longer \in Seq(Row)
      /\ DOMAIN longer = 1..(n + m)
      /\ \A i \in 1..n : longer[i] = rows[i]
      /\ \A k \in 1..m : longer[n + k] = [part |-> x.part, off |-> x.lo + k - 1]
  <2>1. longer \in Seq(Row) /\ Len(longer) = n + m
    <3>1. rows \in Seq(Row) /\ RowsOf(x) \in Seq(Row)
      BY <1>3
    <3>2. longer \in Seq(Row) /\ Len(longer) = Len(rows) + Len(RowsOf(x))
      BY <3>1, ConcatProperties, Zenon
    <3>3. QED
      BY <1>3, <3>2
  <2>2. \A i \in 1..(n + m) : longer[i] = IF i <= n THEN rows[i] ELSE RowsOf(x)[i - n]
    BY <1>1, <1>3
  <2>3. \A k \in 1..m : n + k \in 1..(n + m) /\ ~(n + k <= n) /\ (n + k) - n = k
    BY <1>1
  <2>4. QED
    BY <1>1, <1>3, <2>1, <2>2, <2>3
<1>5. \A i \in 1..(n + m) : i \in 1..n \/ \E k \in 1..m : i = n + k
  <2>1. ASSUME NEW i \in 1..(n + m), i \notin 1..n
        PROVE  i - n \in 1..m /\ i = n + (i - n)
    BY <1>1, <2>1
  <2>2. QED
    BY <2>1
<1> HIDE DEF n, m, longer
<1>6. Covers(longer, S \cup {ref})
  <2> DEFINE P == {<<longer[i].part, longer[i].off>> : i \in DOMAIN longer}
             Q == {<<rows[i].part, rows[i].off>> : i \in DOMAIN rows}
             X == {x.part} \X (x.lo..x.hi)
  <2>1. P \subseteq Q \cup X
    <3>1. ASSUME NEW i \in 1..n
          PROVE  <<longer[i].part, longer[i].off>> \in Q
      BY <1>1, <1>4
    <3>2. ASSUME NEW k \in 1..m
          PROVE  <<longer[n + k].part, longer[n + k].off>> \in X
      <4>1. x.lo + k - 1 \in x.lo..x.hi
        BY <1>1 DEF m
      <4>2. longer[n + k] = [part |-> x.part, off |-> x.lo + k - 1]
        BY <1>4
      <4>3. QED
        BY <4>1, <4>2
    <3>3. QED
      BY <1>4, <1>5, <3>1, <3>2
  <2>2. Q \subseteq P
    BY <1>1, <1>4
  <2>3. X \subseteq P
    <3>1. ASSUME NEW o \in x.lo..x.hi
          PROVE  <<x.part, o>> \in P
      <4>1. o - x.lo + 1 \in 1..m /\ n + (o - x.lo + 1) \in 1..(n + m)
        <5>1. o \in Int /\ x.lo \in Int /\ x.hi \in Int /\ x.lo <= o /\ o <= x.hi
          BY <1>1
        <5>2. o - x.lo + 1 \in 1..m
          BY <5>1 DEF m
        <5>3. QED
          BY <1>1, <5>2
      <4>2. longer[n + (o - x.lo + 1)] = [part |-> x.part, off |-> o]
        <5>1. x.lo + (o - x.lo + 1) - 1 = o
          BY <1>1
        <5>2. longer[n + (o - x.lo + 1)] =
                  [part |-> x.part, off |-> x.lo + (o - x.lo + 1) - 1]
          BY <1>4, <4>1
        <5>3. QED
          BY <5>1, <5>2
      <4>3. QED
        BY <1>4, <4>1, <4>2
    <3>2. QED
      BY <3>1
  <2>4. Q = UNION {{y.part} \X (y.lo..y.hi) : y \in S}
    BY DEF Covers
  <2>5. {ref.part} \X (ref.lo..ref.hi) = X
    BY DEF SameKey
  <2>6. UNION {{y.part} \X (y.lo..y.hi) : y \in S \cup {ref}} =
            (UNION {{y.part} \X (y.lo..y.hi) : y \in S}) \cup
            ({ref.part} \X (ref.lo..ref.hi))
    OBVIOUS
  <2> HIDE DEF P, Q, X
  <2>7. P = UNION {{y.part} \X (y.lo..y.hi) : y \in S \cup {ref}}
    BY <2>1, <2>2, <2>3, <2>4, <2>5, <2>6
  <2>8. QED
    BY <2>7 DEF Covers, P
<1>7. Sorted(longer)
  <2> SUFFICES ASSUME NEW i \in 1..(n + m), NEW j \in 1..(n + m), i < j
               PROVE  \/ longer[i].part < longer[j].part
                      \/ /\ longer[i].part = longer[j].part
                         /\ longer[i].off < longer[j].off
    BY <1>4 DEF Sorted
  <2>1. CASE i \in 1..n /\ j \in 1..n
    <3>1. longer[i] = rows[i] /\ longer[j] = rows[j]
      BY <1>4, <2>1
    <3>2. QED
      BY <1>1, <2>1, <3>1 DEF Sorted
  <2>2. ASSUME NEW k \in 1..m, i \in 1..n, j = n + k
        PROVE  \/ longer[i].part < longer[j].part
               \/ longer[i].part = longer[j].part /\ longer[i].off < longer[j].off
    <3>1. <<rows[i].part, rows[i].off>> \in UNION {{y.part} \X (y.lo..y.hi) : y \in S}
      BY <1>1, <2>2 DEF Covers
    <3>2. PICK y \in S : rows[i].part = y.part /\ rows[i].off \in y.lo..y.hi
      BY <3>1
    <3>3. y.part \in Nat /\ y.lo \in Nat /\ y.hi \in Nat
      BY <3>2, ReplayAssumption DEF ObjectReference
    <3>4. /\ longer[i] = rows[i]
          /\ longer[j].part = x.part /\ longer[j].off = x.lo + k - 1
      <4>1. longer[i] = rows[i] /\ longer[j] = [part |-> x.part, off |-> x.lo + k - 1]
        BY <1>4, <2>2
      <4>2. QED
        BY <4>1
    <3>5. y.part < x.part \/ (y.part = x.part /\ y.hi < x.lo)
      BY <3>2
    <3>6. QED
      BY <1>1, <2>2, <3>2, <3>3, <3>4, <3>5
  <2>3. ASSUME NEW k \in 1..m, NEW l \in 1..m, i = n + k, j = n + l
        PROVE  longer[i].part = longer[j].part /\ longer[i].off < longer[j].off
    <3>1. /\ longer[i] = [part |-> x.part, off |-> x.lo + k - 1]
          /\ longer[j] = [part |-> x.part, off |-> x.lo + l - 1]
      BY <1>4, <2>3
    <3>2. k < l
      BY <1>1, <2>3
    <3>3. QED
      BY <1>1, <3>1, <3>2
  <2>4. \/ i \in 1..n /\ j \in 1..n
        \/ \E k \in 1..m : i \in 1..n /\ j = n + k
        \/ \E k, l \in 1..m : i = n + k /\ j = n + l
    <3>1. CASE j \in 1..n
      BY <1>1, <3>1
    <3>2. CASE j \notin 1..n
      BY <1>5, <3>2
    <3>3. QED
      BY <3>1, <3>2
  <2>5. QED
    BY <2>1, <2>2, <2>3, <2>4
<1>8. QED
  BY <1>4, <1>6, <1>7 DEF longer

-----------------------------------------------------------------------------
(* Steps of one run *)

Labels == {"waiting", "checking", "listing", "paging", "heading", "reading", "replacing",
           "describing", "filling", "publishing", "done", "failed", "killed"}

\* A step of one run leaves the place and the private state of the others alone.
OthersWait(r) ==
    \A s \in Replays \ {r} :
        /\ pc'[s] = pc[s]
        /\ refs'[s] = refs[s]
        /\ done'[s] = done[s]
        /\ temporary'[s] = temporary[s]
        /\ handle'[s] = handle[s]

\* Nothing is under way before the first run is started.
LEMMA InitEstablishesReplayInv == Init => ReplayInv
<1> SUFFICES ASSUME Init
             PROVE  ReplayInv
  OBVIOUS
<1>1. /\ bucket = {} /\ puts = 0 /\ output = Absent
      /\ manifestTemp = Absent /\ manifest = Absent
      /\ published = {} /\ overlapped = FALSE /\ faults = 0
      /\ pc = [r \in Replays |-> "waiting"]
      /\ refs = [r \in Replays |-> {}] /\ done = [r \in Replays |-> {}]
      /\ temporary = [r \in Replays |-> Absent]
      /\ handle = [r \in Replays |-> Absent]
      /\ text = [f \in Replays |-> {}]
  BY DEF Init
<1>2. OnePerKey({})
  BY FS_EmptySet DEF OnePerKey
<1>3. TypeOK
  <2>1. /\ pc \in [Replays -> {"waiting"}]
        /\ refs \in [Replays -> {{}}] /\ done \in [Replays -> {{}}]
        /\ text \in [Replays -> {{}}]
        /\ handle \in [Replays -> {Absent}]
        /\ DOMAIN temporary = Replays /\ \A r \in Replays : temporary[r] = Absent
    BY <1>1
  <2>2. 0 \in 0..MaxPuts /\ 0 \in 0..MaxFaults
    BY ReplayBounds
  <2>3. QED
    BY <1>1, <2>1, <2>2 DEF TypeOK
<1>4. ListingsAreSound /\ CopiesAreSound /\ OutputIsSound /\ TemporaryRemoved
  BY <1>1, <1>2 DEF ListingsAreSound, CopiesAreSound, CopyIsSound, OutputIsSound,
                    TemporaryRemoved
<1>5. FilesAreSound
  BY <1>1, ReplayAssumption DEF FilesAreSound, AfterOutput
<1>6. RunsTakeTurns /\ ManifestDescribesOutput
  BY <1>1 DEF RunsTakeTurns, ManifestDescribesOutput, Ended, BeforeOutput, AfterOutput
<1>7. QED
  BY <1>3, <1>4, <1>5, <1>6 DEF ReplayInv

\* What a run has listed and copied is disturbed by nobody else.
LEMMA CopiesStaySound ==
    ASSUME ReplayInv, NEW r \in Replays, OthersWait(r), bucket' = bucket,
           OnePerKey(refs'[r]),
           \A ref \in refs'[r] : \E x \in bucket : SameKey(x, ref),
           CopyIsSound(r)',
           temporary'[r] # Absent => pc'[r] \in {"heading", "reading", "replacing", "killed"}
    PROVE  ListingsAreSound' /\ CopiesAreSound' /\ TemporaryRemoved'
<1>1. ListingsAreSound'
  BY DEF ReplayInv, ListingsAreSound, OthersWait
<1>2. CopiesAreSound'
  <2> SUFFICES ASSUME NEW s \in Replays, s # r
               PROVE  CopyIsSound(s)'
    BY DEF CopiesAreSound
  <2>1. CopyIsSound(s)
    BY DEF ReplayInv, CopiesAreSound
  <2>2. /\ pc'[s] = pc[s] /\ refs'[s] = refs[s] /\ done'[s] = done[s]
        /\ temporary'[s] = temporary[s]
    BY DEF OthersWait
  <2>3. QED
    BY <2>1, <2>2 DEF CopyIsSound
<1>3. TemporaryRemoved'
  BY DEF ReplayInv, TemporaryRemoved, OthersWait
<1>4. QED
  BY <1>1, <1>2, <1>3

\* A step that touches no file that others can see keeps what is known of those
\* files, if the run goes on towards its output or ends.
LEMMA FilesStaySound ==
    ASSUME ReplayInv, NEW r \in Replays, OthersWait(r), ~Ended(r),
           UNCHANGED <<output, published, manifestTemp, manifest, text, overlapped>>,
           handle'[r] \in {handle[r], Absent},
           \/ /\ pc[r] \in BeforeOutput
              /\ pc'[r] \in BeforeOutput \ {"waiting", "checking"}
              /\ MayWrite(r) \/ pc[r] # "checking"
           \/ pc'[r] \in {"failed", "killed"}
    PROVE  FilesAreSound' /\ RunsTakeTurns' /\ ManifestDescribesOutput'
<1>1. FilesAreSound'
  <2> SUFFICES ASSUME NEW s \in Replays
               PROVE  /\ pc'[s] \in BeforeOutput => s \notin published
                      /\ pc'[s] \in AfterOutput => s \in published
                      /\ pc'[s] \in BeforeOutput \cup {"describing"} =>
                           /\ text[s] = {} /\ manifest # s /\ manifestTemp # s
                           /\ \A q \in Replays : handle'[q] # s
                      /\ pc'[s] = "filling" => handle'[s] # Absent
                      /\ text[s] \subseteq published
    BY DEF ReplayInv, FilesAreSound
  <2>1. \A q \in Replays : handle[q] # s => handle'[q] # s
    BY ReplayAssumption DEF OthersWait
  <2>2. /\ pc[s] \in BeforeOutput => s \notin published
        /\ pc[s] \in AfterOutput => s \in published
        /\ pc[s] \in BeforeOutput \cup {"describing"} =>
             /\ text[s] = {} /\ manifest # s /\ manifestTemp # s
             /\ \A q \in Replays : handle[q] # s
        /\ pc[s] = "filling" => handle[s] # Absent
        /\ text[s] \subseteq published
    BY DEF ReplayInv, FilesAreSound
  <2>3. CASE s = r
    BY <2>1, <2>2, <2>3 DEF BeforeOutput, AfterOutput
  <2>4. CASE s # r
    <3>1. pc'[s] = pc[s] /\ handle'[s] = handle[s]
      BY <2>4 DEF OthersWait
    <3>2. QED
      BY <2>1, <2>2, <3>1
  <2>5. QED
    BY <2>3, <2>4
<1>2. RunsTakeTurns'
  <2> SUFFICES ASSUME ~overlapped
               PROVE  RunsTakeTurns'
    BY DEF RunsTakeTurns
  <2>1. \A s \in Replays : ~Ended(s)' => ~Ended(s)
    BY DEF Ended, OthersWait
  <2>2. \A s, q \in Replays : ~Ended(s)' /\ ~Ended(q)' => s = q
    BY <2>1 DEF ReplayInv, RunsTakeTurns
  <2>3. ASSUME NEW s \in Replays
        PROVE  /\ pc'[s] \in BeforeOutput \ {"waiting", "checking"} => MayWrite(s)
               /\ pc'[s] \in AfterOutput => output # Absent /\ output.by = s
               /\ pc'[s] = "filling" => handle'[s] = manifestTemp /\ text[manifestTemp] = {}
               /\ pc'[s] = "publishing" => manifestTemp # Absent /\ text[manifestTemp] = {s}
    <3>1. /\ pc[s] \in BeforeOutput \ {"waiting", "checking"} => MayWrite(s)
          /\ pc[s] \in AfterOutput => output # Absent /\ output.by = s
          /\ pc[s] = "filling" => handle[s] = manifestTemp /\ text[manifestTemp] = {}
          /\ pc[s] = "publishing" => manifestTemp # Absent /\ text[manifestTemp] = {s}
      BY DEF ReplayInv, RunsTakeTurns
    <3>2. CASE s = r
      BY <3>1, <3>2 DEF BeforeOutput, AfterOutput, Ended
    <3>3. CASE s # r
      <4>1. pc'[s] = pc[s] /\ handle'[s] = handle[s]
        BY <3>3 DEF OthersWait
      <4>2. QED
        BY <3>1, <4>1
    <3>4. QED
      BY <3>2, <3>3
  <2>4. manifest # Absent => \E s \in Replays : text[manifest] = {s}
    BY DEF ReplayInv, RunsTakeTurns
  <2>5. QED
    BY <2>2, <2>3, <2>4 DEF RunsTakeTurns, MayWrite
<1>3. ManifestDescribesOutput'
  <2> SUFFICES ASSUME output # Absent, ~overlapped
               PROVE  \/ manifest # Absent /\ text[manifest] = {output.by}
                      \/ pc'[output.by] \in {"describing", "filling", "publishing",
                                             "failed", "killed"}
    BY DEF ManifestDescribesOutput
  <2>1. output.by \in Replays
    BY DEF ReplayInv, TypeOK, File
  <2>2. \/ manifest # Absent /\ text[manifest] = {output.by}
        \/ pc[output.by] \in {"describing", "filling", "publishing", "failed", "killed"}
    BY DEF ReplayInv, ManifestDescribesOutput
  <2>3. CASE output.by = r
    BY <2>2, <2>3 DEF BeforeOutput, Ended
  <2>4. CASE output.by # r
    BY <2>1, <2>2, <2>4 DEF OthersWait
  <2>5. QED
    BY <2>3, <2>4
<1>4. QED
  BY <1>1, <1>2, <1>3

-----------------------------------------------------------------------------
(* The environment and the steps up to the copy *)

\* Whatever happens to the bucket, the runs only rely on that every key stays and
\* names one object.
LEMMA BucketKeepsReplayInv ==
    ASSUME ReplayInv,
           bucket' \subseteq Object, OnePerKey(bucket)',
           \A ref : (\E x \in bucket : SameKey(x, ref)) => (\E x \in bucket' : SameKey(x, ref)),
           puts' \in 0..MaxPuts, faults' \in 0..MaxFaults,
           UNCHANGED <<pc, refs, done, temporary, output, published, manifestTemp, manifest,
                       handle, text, overlapped>>
    PROVE  ReplayInv'
<1>1. TypeOK'
  BY DEF ReplayInv, TypeOK
<1>2. ListingsAreSound'
  BY DEF ReplayInv, ListingsAreSound, OnePerKey
<1>3. CopiesAreSound' /\ OutputIsSound' /\ TemporaryRemoved'
  BY DEF ReplayInv, CopiesAreSound, CopyIsSound, OutputIsSound, TemporaryRemoved
<1>4. FilesAreSound' /\ RunsTakeTurns' /\ ManifestDescribesOutput'
  BY DEF ReplayInv, FilesAreSound, RunsTakeTurns, ManifestDescribesOutput, MayWrite, Ended
<1>5. QED
  BY <1>1, <1>2, <1>3, <1>4 DEF ReplayInv

\* A put may change what a listed key names; it takes no key away.
LEMMA PutObjectKeepsReplayInv ==
    ASSUME ReplayInv, PutObject
    PROVE  ReplayInv'
<1>0. PICK k \in Ranges : \E b \in Bodies(k.lo, k.hi) :
          bucket' = {x \in bucket : x.part # k.part \/ x.lo # k.lo \/ x.hi # k.hi} \cup
                    {[part |-> k.part, lo |-> k.lo, hi |-> k.hi, body |-> b]}
  BY DEF PutObject
<1>1. PICK body \in Bodies(k.lo, k.hi) :
          bucket' = {x \in bucket : x.part # k.part \/ x.lo # k.lo \/ x.hi # k.hi} \cup
                    {[part |-> k.part, lo |-> k.lo, hi |-> k.hi, body |-> body]}
  BY <1>0
<1>2. /\ puts < MaxPuts /\ puts' = puts + 1
      /\ UNCHANGED <<pc, refs, done, temporary, output, published, manifestTemp, manifest,
                     handle, text, overlapped, faults>>
  BY DEF PutObject, fileVars, outputVars, manifestVars
<1> DEFINE kept == {x \in bucket : x.part # k.part \/ x.lo # k.lo \/ x.hi # k.hi}
           new == [part |-> k.part, lo |-> k.lo, hi |-> k.hi, body |-> body]
<1>3. k.part \in Partitions /\ k.lo \in Nat /\ k.hi \in Nat /\ k.lo <= k.hi
  BY ReplayBounds
<1>4. new \in Object
  <2>1. body \in Seq(Nat)
    BY <1>3, BodiesAreSequences
  <2>2. QED
    BY <1>3, <2>1 DEF Object
<1>5. bucket \subseteq Object /\ OnePerKey(bucket)
  BY DEF ReplayInv, TypeOK, ListingsAreSound
<1>6. bucket' \subseteq Object
  BY <1>1, <1>4, <1>5
<1>7. OnePerKey(bucket)'
  <2>1. IsFiniteSet(kept)
    BY <1>5, FS_Subset DEF OnePerKey
  <2>2. IsFiniteSet(bucket')
    BY <1>1, <2>1, FS_AddElement
  <2>3. \A x \in bucket' : x.lo <= x.hi
    BY <1>1, <1>3, <1>5 DEF OnePerKey
  <2>4. \A x, y \in bucket' : SameKey(x, y) => x = y
    BY <1>1, <1>5 DEF OnePerKey, SameKey
  <2>5. QED
    BY <2>2, <2>3, <2>4 DEF OnePerKey
<1>8. \A ref : (\E x \in bucket : SameKey(x, ref)) => (\E x \in bucket' : SameKey(x, ref))
  <2> SUFFICES ASSUME NEW ref, NEW x \in bucket, SameKey(x, ref)
               PROVE  \E y \in bucket' : SameKey(y, ref)
    OBVIOUS
  <2>1. CASE x \in kept
    BY <1>1, <2>1
  <2>2. CASE x \notin kept
    <3>1. x.part = k.part /\ x.lo = k.lo /\ x.hi = k.hi
      BY <2>2
    <3>2. SameKey(new, ref)
      BY <3>1 DEF SameKey
    <3>3. QED
      BY <1>1, <3>2
  <2>3. QED
    BY <2>1, <2>2
<1>9. puts' \in 0..MaxPuts /\ faults' \in 0..MaxFaults
  BY <1>2, ReplayBounds DEF ReplayInv, TypeOK
<1>10. QED
  BY <1>2, <1>6, <1>7, <1>8, <1>9, BucketKeepsReplayInv

\* A run that starts is the only one under way unless it overlaps another.
LEMMA PreflightKeepsReplayInv ==
    ASSUME ReplayInv, NEW r \in Replays, Preflight(r)
    PROVE  ReplayInv'
<1>1. /\ pc[r] = "waiting"
      /\ pc' = [pc EXCEPT ![r] = "checking"] \/ pc' = [pc EXCEPT ![r] = "done"]
         \/ pc' = [pc EXCEPT ![r] = "failed"]
      /\ overlapped' = (overlapped \/ \E s \in Replays : ~Ended(s))
      /\ UNCHANGED <<bucket, puts, refs, done, temporary, output, published, manifestTemp,
                     manifest, handle, text, faults>>
  BY DEF Preflight, Goto, bucketVars, fileVars, outputVars, manifestVars
<1>2. /\ pc \in [Replays -> Labels]
      /\ pc'[r] \in {"checking", "done", "failed"}
      /\ \A s \in Replays : s # r => pc'[s] = pc[s]
      /\ pc' \in [Replays -> Labels]
  <2>1. pc \in [Replays -> Labels]
    BY DEF ReplayInv, TypeOK, Labels
  <2>2. QED
    BY <1>1, <2>1 DEF Labels
<1>3. TypeOK'
  BY <1>1, <1>2 DEF ReplayInv, TypeOK, Labels
<1>4. done[r] = {} /\ temporary[r] = Absent
  <2>1. pc[r] \notin {"heading", "reading", "replacing", "killed"}
    BY <1>1
  <2>2. QED
    BY <1>1, <2>1 DEF ReplayInv, CopiesAreSound, CopyIsSound, TemporaryRemoved
<1>5. ListingsAreSound' /\ CopiesAreSound' /\ TemporaryRemoved'
  <2>1. OthersWait(r)
    BY <1>1, <1>2 DEF OthersWait
  <2>2. CopyIsSound(r)'
    BY <1>1, <1>2, <1>4 DEF CopyIsSound
  <2>3. /\ OnePerKey(refs'[r])
        /\ \A ref \in refs'[r] : \E x \in bucket : SameKey(x, ref)
    BY <1>1 DEF ReplayInv, ListingsAreSound
  <2>4. QED
    BY <1>1, <1>4, <2>1, <2>2, <2>3, CopiesStaySound
<1>6. OutputIsSound'
  BY <1>1 DEF ReplayInv, OutputIsSound
<1>7. FilesAreSound'
  <2>1. \A s \in Replays :
           /\ pc'[s] \in BeforeOutput => pc[s] \in BeforeOutput
           /\ pc'[s] \in AfterOutput => pc[s] \in AfterOutput
           /\ pc'[s] \in BeforeOutput \cup {"describing"} =>
                 pc[s] \in BeforeOutput \cup {"describing"}
           /\ pc'[s] = "filling" => pc[s] = "filling"
    BY <1>1, <1>2 DEF BeforeOutput, AfterOutput
  <2>2. QED
    BY <1>1, <2>1 DEF ReplayInv, FilesAreSound
<1>8. RunsTakeTurns'
  <2> SUFFICES ASSUME ~overlapped'
               PROVE  RunsTakeTurns'
    BY DEF RunsTakeTurns
  <2>1. ~overlapped /\ \A s \in Replays : Ended(s)
    BY <1>1
  <2>2. \A s \in Replays : s # r => Ended(s)'
    BY <1>2, <2>1 DEF Ended
  <2>3. \A s \in Replays : /\ pc'[s] \notin BeforeOutput \ {"waiting", "checking"}
                           /\ pc'[s] \notin AfterOutput
    BY <1>2, <2>2 DEF Ended, BeforeOutput, AfterOutput
  <2>4. manifest # Absent => \E s \in Replays : text[manifest] = {s}
    BY <2>1 DEF ReplayInv, RunsTakeTurns
  <2>5. QED
    BY <1>1, <2>2, <2>3, <2>4 DEF RunsTakeTurns, AfterOutput
<1>9. ManifestDescribesOutput'
  <2> SUFFICES ASSUME output # Absent, ~overlapped'
               PROVE  \/ manifest # Absent /\ text[manifest] = {output.by}
                      \/ pc'[output.by] \in {"describing", "filling", "publishing",
                                             "failed", "killed"}
    BY <1>1 DEF ManifestDescribesOutput
  <2>1. /\ output.by \in Replays
        /\ \/ manifest # Absent /\ text[manifest] = {output.by}
           \/ pc[output.by] \in {"describing", "filling", "publishing", "failed", "killed"}
    BY <1>1 DEF ReplayInv, TypeOK, File, ManifestDescribesOutput
  <2>2. QED
    BY <1>1, <1>2, <2>1
<1>10. QED
  BY <1>3, <1>5, <1>6, <1>7, <1>8, <1>9 DEF ReplayInv

\* --overwrite is asked for before anything is listed or written.
LEMMA CheckOutputKeepsReplayInv ==
    ASSUME ReplayInv, NEW r \in Replays, CheckOutput(r)
    PROVE  ReplayInv'
<1>1. /\ pc[r] = "checking"
      /\ pc' = [pc EXCEPT ![r] = IF MayWrite(r) THEN "listing" ELSE "failed"]
      /\ UNCHANGED <<bucket, puts, refs, done, temporary, output, published, manifestTemp,
                     manifest, handle, text, overlapped, faults>>
  BY DEF CheckOutput, Goto, bucketVars, fileVars, outputVars, manifestVars
<1>2. /\ pc'[r] = IF MayWrite(r) THEN "listing" ELSE "failed"
      /\ \A s \in Replays : s # r => pc'[s] = pc[s]
      /\ pc' \in [Replays -> Labels]
  <2>1. pc \in [Replays -> Labels]
    BY DEF ReplayInv, TypeOK, Labels
  <2>2. QED
    BY <1>1, <2>1 DEF Labels
<1>3. OthersWait(r)
  BY <1>1, <1>2 DEF OthersWait
<1>4. TypeOK'
  BY <1>1, <1>2 DEF ReplayInv, TypeOK, Labels
<1>5. ListingsAreSound' /\ CopiesAreSound' /\ TemporaryRemoved'
  <2>1. done[r] = {} /\ temporary[r] = Absent
    BY <1>1 DEF ReplayInv, CopiesAreSound, CopyIsSound, TemporaryRemoved
  <2>2. CopyIsSound(r)'
    BY <1>1, <1>2, <2>1 DEF CopyIsSound
  <2>3. /\ OnePerKey(refs'[r])
        /\ \A ref \in refs'[r] : \E x \in bucket : SameKey(x, ref)
    BY <1>1 DEF ReplayInv, ListingsAreSound
  <2>4. QED
    BY <1>1, <1>3, <2>1, <2>2, <2>3, CopiesStaySound
<1>6. OutputIsSound'
  BY <1>1 DEF ReplayInv, OutputIsSound
<1>7. FilesAreSound' /\ RunsTakeTurns' /\ ManifestDescribesOutput'
  <2>1. ~Ended(r) /\ handle'[r] = handle[r] /\ pc[r] \in BeforeOutput
    BY <1>1 DEF Ended, BeforeOutput
  <2>2. \/ pc'[r] \in BeforeOutput \ {"waiting", "checking"} /\ MayWrite(r)
        \/ pc'[r] \in {"failed", "killed"}
    BY <1>2 DEF BeforeOutput
  <2>3. QED
    BY <1>1, <1>3, <2>1, <2>2, FilesStaySound
<1>8. QED
  BY <1>4, <1>5, <1>6, <1>7 DEF ReplayInv

\* What a run lists is its own business until it writes: the two listing steps
\* keep the invariant if what they leave is a sound listing.
LEMMA ListingStep ==
    ASSUME ReplayInv, NEW r \in Replays, pc[r] \in {"listing", "paging"},
           NEW label \in {"paging", "heading", "failed"},
           NEW listing, listing \subseteq ObjectReference, OnePerKey(listing),
           \A ref \in listing : \E x \in bucket : SameKey(x, ref),
           refs' = [refs EXCEPT ![r] = listing],
           pc' = [pc EXCEPT ![r] = label],
           \/ label \in {"paging", "failed"} /\ temporary' = temporary
           \/ /\ label = "heading" /\ temporary' = [temporary EXCEPT ![r] = << >>]
              /\ listing # {} /\ ValidRanges(r, listing),
           UNCHANGED <<bucket, puts, done, output, published, manifestTemp, manifest,
                       handle, text, overlapped, faults>>
    PROVE  ReplayInv'
<1>1. /\ pc' \in [Replays -> Labels]
      /\ pc'[r] = label
      /\ \A s \in Replays : s # r => pc'[s] = pc[s]
  <2>1. pc \in [Replays -> Labels]
    BY DEF ReplayInv, TypeOK, Labels
  <2>2. QED
    BY <2>1 DEF Labels
<1>2. /\ refs' \in [Replays -> SUBSET ObjectReference]
      /\ refs'[r] = listing
      /\ \A s \in Replays : s # r => refs'[s] = refs[s]
  <2>1. refs \in [Replays -> SUBSET ObjectReference]
    BY DEF ReplayInv, TypeOK
  <2>2. QED
    BY <2>1
<1>3. /\ DOMAIN temporary' = Replays
      /\ \A s \in Replays : s # r => temporary'[s] = temporary[s]
      /\ label = "heading" => temporary'[r] = << >>
      /\ label # "heading" => temporary'[r] = temporary[r]
  BY DEF ReplayInv, TypeOK
<1>4. OthersWait(r)
  BY <1>1, <1>2, <1>3 DEF OthersWait
<1>5. done[r] = {} /\ temporary[r] = Absent
  BY DEF ReplayInv, CopiesAreSound, CopyIsSound, TemporaryRemoved
<1>6. TypeOK'
  <2>1. << >> \in Seq(Row)
    OBVIOUS
  <2>2. \A s \in Replays : temporary'[s] = Absent \/ temporary'[s] \in Seq(Row)
    BY <1>3, <2>1 DEF ReplayInv, TypeOK
  <2>3. QED
    BY <1>1, <1>2, <1>3, <2>2 DEF ReplayInv, TypeOK, Labels
<1>7. CopyIsSound(r)'
  <2>1. << >> \in Seq(Row) /\ DOMAIN << >> = {}
    OBVIOUS
  <2>2. Covers(<< >>, {}) /\ Sorted(<< >>)
    BY <2>1 DEF Covers, Sorted
  <2>3. CASE label = "heading"
    <3>1. /\ pc'[r] = "heading" /\ done'[r] = {} /\ refs'[r] = listing
          /\ temporary'[r] = << >>
      BY <1>1, <1>2, <1>3, <1>5, <2>3
    <3>2. listing # {} /\ ValidRanges(r, listing)
      BY <2>3
    <3>3. QED
      BY <2>1, <2>2, <3>1, <3>2 DEF CopyIsSound
  <2>4. CASE label # "heading"
    BY <1>1, <1>5, <2>4 DEF CopyIsSound
  <2>5. QED
    BY <2>3, <2>4
<1>8. ListingsAreSound' /\ CopiesAreSound' /\ TemporaryRemoved'
  <2>1. temporary'[r] # Absent => pc'[r] \in {"heading", "reading", "replacing", "killed"}
    BY <1>1, <1>3, <1>5
  <2>2. QED
    BY <1>2, <1>4, <1>7, <2>1, CopiesStaySound
<1>9. OutputIsSound'
  BY DEF ReplayInv, OutputIsSound
<1>10. FilesAreSound' /\ RunsTakeTurns' /\ ManifestDescribesOutput'
  <2>1. ~Ended(r) /\ handle'[r] = handle[r] /\ pc[r] \in BeforeOutput /\ pc[r] # "checking"
    BY DEF Ended, BeforeOutput
  <2>2. \/ pc'[r] \in BeforeOutput \ {"waiting", "checking"}
        \/ pc'[r] \in {"failed", "killed"}
    BY <1>1 DEF BeforeOutput
  <2>3. QED
    BY <1>4, <2>1, <2>2, FilesStaySound
<1>11. QED
  BY <1>6, <1>8, <1>9, <1>10 DEF ReplayInv

\* A complete listing is accepted, and the temporary file opened, or the run ends.
LEMMA BeginKeepsReplayInv ==
    ASSUME ReplayInv, NEW r \in Replays, pc[r] \in {"listing", "paging"},
           NEW listing, listing \subseteq ObjectReference, OnePerKey(listing),
           \A ref \in listing : \E x \in bucket : SameKey(x, ref),
           Begin(r, listing),
           UNCHANGED <<bucket, puts, done, output, published, manifestTemp, manifest,
                       handle, text, overlapped, faults>>
    PROVE  ReplayInv'
<1>1. CASE listing # {} /\ ValidRanges(r, listing)
  BY <1>1, ListingStep DEF Begin, Goto
<1>2. CASE ~(listing # {} /\ ValidRanges(r, listing))
  <2>1. OnePerKey({})
    BY FS_EmptySet DEF OnePerKey
  <2>2. /\ refs' = [refs EXCEPT ![r] = {}] /\ pc' = [pc EXCEPT ![r] = "failed"]
        /\ temporary' = temporary
    BY <1>2 DEF Begin, Goto
  <2>3. QED
    BY <2>1, <2>2, ListingStep
<1>3. QED
  BY <1>1, <1>2

\* The listing of one request.
LEMMA ListObjectsKeepsReplayInv ==
    ASSUME ReplayInv, NEW r \in Replays, ListObjects(r)
    PROVE  ReplayInv'
<1>1. /\ Listing \subseteq ObjectReference
      /\ OnePerKey(Listing)
      /\ \A ref \in Listing : \E x \in bucket : SameKey(x, ref)
  BY ListingIsSound DEF ReplayInv
<1>2. /\ pc[r] = "listing" /\ Begin(r, Listing)
      /\ UNCHANGED <<bucket, puts, done, output, published, manifestTemp, manifest,
                     handle, text, overlapped, faults>>
  BY DEF ListObjects, bucketVars, outputVars, manifestVars
<1>3. QED
  BY <1>1, <1>2, BeginKeepsReplayInv

\* The first page has the first keys of the listing ...
LEMMA ListFirstPageKeepsReplayInv ==
    ASSUME ReplayInv, NEW r \in Replays, ListFirstPage(r)
    PROVE  ReplayInv'
<1>1. /\ Listing \subseteq ObjectReference
      /\ OnePerKey(Listing)
      /\ \A ref \in Listing : \E x \in bucket : SameKey(x, ref)
  BY ListingIsSound DEF ReplayInv
<1>2. PICK last \in Listing :
          refs' = [refs EXCEPT ![r] = {x \in Listing : x = last \/ Before(x, last)}]
  BY DEF ListFirstPage
<1> DEFINE page == {x \in Listing : x = last \/ Before(x, last)}
<1>3. /\ pc[r] = "listing" /\ pc' = [pc EXCEPT ![r] = "paging"]
      /\ UNCHANGED <<bucket, puts, done, temporary, output, published, manifestTemp,
                     manifest, handle, text, overlapped, faults>>
  BY DEF ListFirstPage, Goto, bucketVars, outputVars, manifestVars
<1>4. page \in SUBSET Listing
  OBVIOUS
<1> HIDE DEF page
<1>5. /\ page \subseteq ObjectReference /\ OnePerKey(page)
      /\ \A ref \in page : \E x \in bucket : SameKey(x, ref)
  BY <1>1, <1>4, FS_Subset DEF OnePerKey
<1>6. refs' = [refs EXCEPT ![r] = page]
  BY <1>2 DEF page
<1>7. QED
  BY <1>3, <1>5, <1>6, ListingStep

\* ... and the last page those behind them, at the time of its request.
LEMMA ListLastPageKeepsReplayInv ==
    ASSUME ReplayInv, NEW r \in Replays, ListLastPage(r)
    PROVE  ReplayInv'
<1>1. /\ Listing \subseteq ObjectReference
      /\ OnePerKey(Listing)
      /\ \A ref \in Listing : \E x \in bucket : SameKey(x, ref)
  BY ListingIsSound DEF ReplayInv
<1>2. /\ refs[r] \subseteq ObjectReference
      /\ OnePerKey(refs[r])
      /\ \A ref \in refs[r] : \E x \in bucket : SameKey(x, ref)
  BY DEF ReplayInv, TypeOK, ListingsAreSound
<1>3. /\ pc[r] = "paging" /\ Begin(r, refs[r] \cup NextPage(r))
      /\ UNCHANGED <<bucket, puts, done, output, published, manifestTemp, manifest,
                     handle, text, overlapped, faults>>
  BY DEF ListLastPage, bucketVars, outputVars, manifestVars
<1> DEFINE all == refs[r] \cup NextPage(r)
<1>4. /\ NextPage(r) \in SUBSET Listing
      /\ \A x \in NextPage(r), y \in refs[r] : Before(y, x)
  BY DEF NextPage
<1>5. all \subseteq ObjectReference /\ \A ref \in all : \E x \in bucket : SameKey(x, ref)
  BY <1>1, <1>2, <1>4
<1>6. OnePerKey(all)
  <2>1. IsFiniteSet(NextPage(r)) /\ IsFiniteSet(all)
    BY <1>1, <1>2, <1>4, FS_Subset, FS_Union DEF OnePerKey
  <2>2. \A x \in all : x.lo <= x.hi
    BY <1>1, <1>2, <1>4 DEF OnePerKey
  <2>3. ASSUME NEW x \in all, NEW y \in all, SameKey(x, y)
        PROVE  x = y
    <3>1. Keys(all)
      BY <1>5, ReplayAssumption DEF Keys, ObjectReference
    <3>2. ~Before(x, y) /\ ~Before(y, x)
      BY <2>3, <3>1 DEF SameKey, Before, Keys
    <3>3. \/ x \in refs[r] /\ y \in refs[r]
          \/ x \in NextPage(r) /\ y \in NextPage(r)
      BY <1>4, <3>2
    <3>4. QED
      BY <1>1, <1>2, <1>4, <2>3, <3>3 DEF OnePerKey
  <2>4. QED
    BY <2>1, <2>2, <2>3 DEF OnePerKey
<1>7. QED
  BY <1>3, <1>5, <1>6, BeginKeepsReplayInv

-----------------------------------------------------------------------------
(* Copying, and the ways a run is stopped *)

\* A run that fails has no temporary file, no open file and no listing left; one
\* that is killed may leave the temporary file.
LEMMA EndKeepsReplayInv ==
    ASSUME ReplayInv, NEW r \in Replays, ~Ended(r),
           NEW label \in {"failed", "killed"}, End(r, label),
           \/ temporary' = [temporary EXCEPT ![r] = Absent]
           \/ temporary' = temporary /\ (label = "killed" \/ temporary[r] = Absent),
           faults' \in 0..MaxFaults,
           UNCHANGED <<bucket, puts, output, published, manifestTemp, manifest, text,
                       overlapped>>
    PROVE  ReplayInv'
<1>1. /\ pc' = [pc EXCEPT ![r] = label]
      /\ handle' = [handle EXCEPT ![r] = Absent]
      /\ refs' = [refs EXCEPT ![r] = {}]
      /\ done' = [done EXCEPT ![r] = {}]
  BY DEF End, Goto
<1>2. /\ pc \in [Replays -> Labels]
      /\ handle \in [Replays -> Replays \cup {Absent}]
      /\ refs \in [Replays -> SUBSET ObjectReference]
      /\ done \in [Replays -> SUBSET ObjectReference]
      /\ DOMAIN temporary = Replays
  BY DEF ReplayInv, TypeOK, Labels
<1>3. /\ pc' \in [Replays -> Labels] /\ pc'[r] = label
      /\ handle' \in [Replays -> Replays \cup {Absent}] /\ handle'[r] = Absent
      /\ refs' \in [Replays -> SUBSET ObjectReference] /\ refs'[r] = {}
      /\ done' \in [Replays -> SUBSET ObjectReference] /\ done'[r] = {}
      /\ DOMAIN temporary' = Replays
      /\ temporary'[r] = Absent \/ (label = "killed" /\ temporary'[r] = temporary[r])
  BY <1>1, <1>2 DEF Labels
<1>4. OthersWait(r)
  BY <1>1, <1>2 DEF OthersWait
<1>5. TypeOK'
  <2>1. \A s \in Replays : temporary'[s] = Absent \/ temporary'[s] \in Seq(Row)
    BY <1>3, <1>4 DEF ReplayInv, TypeOK, OthersWait
  <2>2. QED
    BY <1>3, <2>1 DEF ReplayInv, TypeOK, Labels
<1>6. ListingsAreSound' /\ CopiesAreSound' /\ TemporaryRemoved'
  <2>1. OnePerKey(refs'[r]) /\ \A ref \in refs'[r] : \E x \in bucket : SameKey(x, ref)
    BY <1>3, FS_EmptySet DEF OnePerKey
  <2>2. CopyIsSound(r)'
    BY <1>3 DEF CopyIsSound
  <2>3. QED
    BY <1>3, <1>4, <2>1, <2>2, CopiesStaySound
<1>7. OutputIsSound'
  BY DEF ReplayInv, OutputIsSound
<1>8. FilesAreSound' /\ RunsTakeTurns' /\ ManifestDescribesOutput'
  BY <1>3, <1>4, FilesStaySound
<1>9. QED
  BY <1>5, <1>6, <1>7, <1>8 DEF ReplayInv

\* A call that raises, and a crash or Ctrl-C.
LEMMA StoppedKeepsReplayInv ==
    ASSUME ReplayInv, NEW r \in Replays, CallFails(r) \/ Killed(r)
    PROVE  ReplayInv'
<1>1. faults' \in 0..MaxFaults /\ ~Ended(r)
  BY ReplayBounds DEF ReplayInv, TypeOK, CallFails, Killed
<1>2. CASE CallFails(r)
  BY <1>1, <1>2, EndKeepsReplayInv
     DEF CallFails, Fail, CleanUp, bucketVars, outputVars
<1>3. CASE Killed(r)
  BY <1>1, <1>3, EndKeepsReplayInv DEF Killed, bucketVars, outputVars
<1>4. QED
  BY <1>2, <1>3

\* The loop over the references is at the first one that is not copied, and its
\* key still names an object.
LEMMA CurrentIsNext ==
    ASSUME ReplayInv, NEW r \in Replays, pc[r] \in {"heading", "reading"}
    PROVE  /\ Keys(refs[r]) /\ OnePerKey(refs[r]) /\ ValidRanges(r, refs[r])
           /\ Current(r) \in refs[r] \ done[r]
           /\ \A y \in refs[r] \ done[r] : y = Current(r) \/ Before(Current(r), y)
           /\ \A y \in done[r] : Before(y, Current(r))
           /\ ObjectAt(Current(r)) \in bucket
           /\ SameKey(ObjectAt(Current(r)), Current(r))
<1>1. /\ done[r] \subseteq refs[r] /\ done[r] # refs[r]
      /\ ValidRanges(r, refs[r])
      /\ \A x \in done[r], y \in refs[r] \ done[r] : Before(x, y)
  BY DEF ReplayInv, CopiesAreSound, CopyIsSound
<1>2. /\ refs[r] \subseteq ObjectReference
      /\ OnePerKey(refs[r])
      /\ \A ref \in refs[r] : \E x \in bucket : SameKey(x, ref)
  BY DEF ReplayInv, TypeOK, ListingsAreSound
<1>3. Keys(refs[r])
  BY <1>2, ReplayAssumption DEF Keys, ObjectReference
<1>4. \E x \in refs[r] \ done[r] : \A y \in refs[r] \ done[r] : x = y \/ Before(x, y)
  <2>1. refs[r] \ done[r] \in SUBSET refs[r] /\ refs[r] \ done[r] # {}
    BY <1>1
  <2>2. QED
    BY <1>2, <1>3, <2>1, FirstAndLastKey
<1>5. /\ Current(r) \in refs[r] \ done[r]
      /\ \A y \in refs[r] \ done[r] : Current(r) = y \/ Before(Current(r), y)
  BY <1>4 DEF Current
<1>6. /\ ObjectAt(Current(r)) \in bucket
      /\ SameKey(ObjectAt(Current(r)), Current(r))
  <2>1. \E x \in bucket : x.part = Current(r).part /\ x.lo = Current(r).lo
                          /\ x.hi = Current(r).hi
    BY <1>2, <1>5 DEF SameKey
  <2>2. QED
    BY <2>1 DEF ObjectAt, SameKey
<1>7. QED
  BY <1>1, <1>2, <1>3, <1>5, <1>6

\* A step of the loop: on to the next request, or another object copied.
LEMMA CopyStep ==
    ASSUME ReplayInv, NEW r \in Replays, pc[r] \in {"heading", "reading"},
           NEW label \in {"heading", "reading", "replacing"},
           NEW copied, NEW rows \in Seq(Row),
           copied \subseteq refs[r],
           copied = refs[r] <=> label = "replacing",
           \A x \in copied, y \in refs[r] \ copied : Before(x, y),
           Covers(rows, copied), Sorted(rows),
           pc' = [pc EXCEPT ![r] = label],
           done' = [done EXCEPT ![r] = copied],
           DOMAIN temporary' = Replays, temporary'[r] = rows,
           \A s \in Replays \ {r} : temporary'[s] = temporary[s],
           UNCHANGED <<bucket, puts, refs, output, published, manifestTemp, manifest,
                       handle, text, overlapped, faults>>
    PROVE  ReplayInv'
<1>1. /\ pc \in [Replays -> Labels]
      /\ refs \in [Replays -> SUBSET ObjectReference]
      /\ done \in [Replays -> SUBSET ObjectReference]
      /\ DOMAIN temporary = Replays
  BY DEF ReplayInv, TypeOK, Labels
<1>2. /\ pc' \in [Replays -> Labels] /\ pc'[r] = label
      /\ done' \in [Replays -> SUBSET ObjectReference] /\ done'[r] = copied
      /\ DOMAIN temporary' = Replays /\ temporary'[r] = rows
  BY <1>1 DEF Labels
<1>3. OthersWait(r)
  BY <1>1 DEF OthersWait
<1>4. TypeOK'
  <2>1. \A s \in Replays : temporary'[s] = Absent \/ temporary'[s] \in Seq(Row)
    BY <1>2, <1>3 DEF ReplayInv, TypeOK, OthersWait
  <2>2. QED
    BY <1>2, <2>1 DEF ReplayInv, TypeOK, Labels
<1>5. CopyIsSound(r)'
  <2>1. refs[r] # {} /\ ValidRanges(r, refs[r])
    BY DEF ReplayInv, CopiesAreSound, CopyIsSound
  <2>2. QED
    BY <1>2, <2>1 DEF CopyIsSound
<1>6. ListingsAreSound' /\ CopiesAreSound' /\ TemporaryRemoved'
  <2>1. OnePerKey(refs'[r]) /\ \A ref \in refs'[r] : \E x \in bucket : SameKey(x, ref)
    BY DEF ReplayInv, ListingsAreSound
  <2>2. pc'[r] \in {"heading", "reading", "replacing", "killed"}
    BY <1>2
  <2>3. QED
    BY <1>3, <1>5, <2>1, <2>2, CopiesStaySound
<1>7. OutputIsSound'
  BY DEF ReplayInv, OutputIsSound
<1>8. FilesAreSound' /\ RunsTakeTurns' /\ ManifestDescribesOutput'
  <2>1. /\ ~Ended(r) /\ handle'[r] = handle[r] /\ pc[r] \in BeforeOutput
        /\ pc[r] # "checking" /\ pc'[r] \in BeforeOutput \ {"waiting", "checking"}
    BY <1>2 DEF Ended, BeforeOutput
  <2>2. QED
    BY <1>3, <2>1, FilesStaySound
<1>9. QED
  BY <1>4, <1>6, <1>7, <1>8 DEF ReplayInv

\* HEAD: the object has the size it was listed with, or the run fails.
LEMMA HeadObjectKeepsReplayInv ==
    ASSUME ReplayInv, NEW r \in Replays, HeadObject(r)
    PROVE  ReplayInv'
<1>1. /\ pc[r] = "heading"
      /\ UNCHANGED <<bucket, puts, output, published, manifestTemp, manifest, text,
                     overlapped, faults>>
  BY DEF HeadObject, bucketVars, outputVars
<1>2. CASE Fail(r)
  <2>1. ~Ended(r) /\ faults' \in 0..MaxFaults
    BY <1>1 DEF Ended, ReplayInv, TypeOK
  <2>2. QED
    BY <1>1, <1>2, <2>1, EndKeepsReplayInv DEF Fail, CleanUp
<1>3. CASE Goto(r, "reading") /\ UNCHANGED <<refs, done, temporary, handle>>
  <2>1. /\ done[r] \subseteq refs[r] /\ done[r] # refs[r]
        /\ \A x \in done[r], y \in refs[r] \ done[r] : Before(x, y)
        /\ temporary[r] \in Seq(Row) /\ Covers(temporary[r], done[r]) /\ Sorted(temporary[r])
    BY <1>1 DEF ReplayInv, CopiesAreSound, CopyIsSound
  <2>2. /\ done' = [done EXCEPT ![r] = done[r]]
        /\ pc' = [pc EXCEPT ![r] = "reading"]
        /\ DOMAIN temporary' = Replays /\ temporary' = temporary
    BY <1>3 DEF ReplayInv, TypeOK, Goto
  <2>3. QED
    BY <1>1, <1>3, <2>1, <2>2, CopyStep
<1>4. QED
  BY <1>2, <1>3 DEF HeadObject

\* GET: the body is validated row by row and appended to the temporary file, or
\* the run fails.
LEMMA ReadObjectKeepsReplayInv ==
    ASSUME ReplayInv, NEW r \in Replays, ReadObject(r)
    PROVE  ReplayInv'
<1> DEFINE ref == Current(r)
           x == ObjectAt(ref)
           copied == done[r] \cup {ref}
           rows == temporary[r] \o RowsOf(x)
<1>1. /\ pc[r] = "reading"
      /\ UNCHANGED <<bucket, puts, output, published, manifestTemp, manifest, text,
                     overlapped, faults>>
  BY DEF ReadObject, bucketVars, outputVars
<1>2. CASE Fail(r)
  <2>1. ~Ended(r) /\ faults' \in 0..MaxFaults
    BY <1>1 DEF Ended, ReplayInv, TypeOK
  <2>2. QED
    BY <1>1, <1>2, <2>1, EndKeepsReplayInv DEF Fail, CleanUp
<1>3. CASE /\ BodyValid(x)
           /\ temporary' = [temporary EXCEPT ![r] = @ \o RowsOf(x)]
           /\ done' = [done EXCEPT ![r] = @ \cup {ref}]
           /\ Goto(r, IF refs[r] = done'[r] THEN "replacing" ELSE "heading")
           /\ UNCHANGED <<refs, handle>>
  <2>1. /\ Keys(refs[r]) /\ OnePerKey(refs[r]) /\ ValidRanges(r, refs[r])
        /\ ref \in refs[r] \ done[r]
        /\ \A y \in refs[r] \ done[r] : y = ref \/ Before(ref, y)
        /\ \A y \in done[r] : Before(y, ref)
        /\ x \in bucket
        /\ SameKey(x, ref)
    BY <1>1, CurrentIsNext
  <2>2. /\ done[r] \subseteq refs[r]
        /\ \A y \in done[r], z \in refs[r] \ done[r] : Before(y, z)
        /\ temporary[r] \in Seq(Row) /\ Covers(temporary[r], done[r]) /\ Sorted(temporary[r])
    BY <1>1 DEF ReplayInv, CopiesAreSound, CopyIsSound
  <2>3. x \in Object /\ x.lo <= x.hi /\ done[r] \in SUBSET ObjectReference
    BY <2>1 DEF ReplayInv, TypeOK, ListingsAreSound, OnePerKey
  <2>4. \A y \in done[r] : y.part < x.part \/ (y.part = x.part /\ y.hi < x.lo)
    <3> SUFFICES ASSUME NEW y \in done[r]
                 PROVE  y.part < ref.part \/ (y.part = ref.part /\ y.hi < ref.lo)
      BY <2>1 DEF SameKey
    <3>1. y \in refs[r] /\ ref \in refs[r] /\ Before(y, ref)
      BY <2>1, <2>2
    <3>2. y.part = ref.part => y.hi < ref.lo
      BY <2>1, <3>1, RangesAreSeparate
    <3>3. QED
      BY <3>1, <3>2 DEF Before
  <2> HIDE DEF ref, x
  <2>5. rows \in Seq(Row) /\ Covers(rows, copied) /\ Sorted(rows)
    BY <1>3, <2>1, <2>2, <2>3, <2>4, CopyGrows
  <2>6. /\ copied \subseteq refs[r]
        /\ \A y \in copied, z \in refs[r] \ copied : Before(y, z)
    BY <2>1, <2>2
  <2>7. /\ done' = [done EXCEPT ![r] = copied]
        /\ DOMAIN temporary' = Replays /\ temporary'[r] = rows
        /\ \A s \in Replays \ {r} : temporary'[s] = temporary[s]
        /\ done'[r] = copied
    BY <1>3 DEF ReplayInv, TypeOK
  <2> HIDE DEF copied, rows
  <2>8. CASE refs[r] = copied
    <3>1. pc' = [pc EXCEPT ![r] = "replacing"]
      BY <1>3, <2>7, <2>8 DEF Goto
    <3>2. QED
      BY <1>1, <1>3, <2>5, <2>6, <2>7, <2>8, <3>1, CopyStep
  <2>9. CASE refs[r] # copied
    <3>1. pc' = [pc EXCEPT ![r] = "heading"]
      BY <1>3, <2>7, <2>9 DEF Goto
    <3>2. QED
      BY <1>1, <1>3, <2>5, <2>6, <2>7, <2>9, <3>1, CopyStep
  <2>10. QED
    BY <2>8, <2>9
<1>4. QED
  BY <1>2, <1>3 DEF ReadObject

-----------------------------------------------------------------------------
(* The two os.replace calls and the manifest *)

\* A finished copy is an output file.
LEMMA OutputIsAFile ==
    ASSUME ReplayInv, NEW r \in Replays, ReplaceOutput(r)
    PROVE  output' \in File /\ output' # Absent /\ output'.by = r
<1>1. /\ refs[r] \in SUBSET ObjectReference /\ temporary[r] \in Seq(Row)
      /\ output' = [rows |-> temporary[r], by |-> r, refs |-> refs[r]]
  BY DEF ReplayInv, TypeOK, CopiesAreSound, CopyIsSound, ReplaceOutput
<1>2. output' \in File
  BY <1>1 DEF File
<1>3. QED
  BY <1>1, <1>2, AbsentAssumption

\* os.replace of the output: the copy is finished, and has its place.
LEMMA ReplaceOutputKeepsReplayInv ==
    ASSUME ReplayInv, NEW r \in Replays, ReplaceOutput(r)
    PROVE  ReplayInv'
<1>1. /\ pc[r] = "replacing"
      /\ output' = [rows |-> temporary[r], by |-> r, refs |-> refs[r]]
      /\ published' = published \cup {r}
      /\ temporary' = [temporary EXCEPT ![r] = Absent]
      /\ pc' = [pc EXCEPT ![r] = "describing"]
      /\ UNCHANGED <<bucket, puts, refs, done, manifestTemp, manifest, handle, text,
                     overlapped, faults>>
  BY DEF ReplaceOutput, CleanUp, Goto, bucketVars, manifestVars
<1>2. /\ pc \in [Replays -> Labels]
      /\ refs \in [Replays -> SUBSET ObjectReference]
      /\ DOMAIN temporary = Replays
  BY DEF ReplayInv, TypeOK, Labels
<1>3. /\ refs[r] # {} /\ ValidRanges(r, refs[r])
      /\ temporary[r] \in Seq(Row)
      /\ Covers(temporary[r], refs[r]) /\ Sorted(temporary[r])
      /\ OnePerKey(refs[r])
  BY <1>1 DEF ReplayInv, CopiesAreSound, CopyIsSound, ListingsAreSound
<1>4. output' \in File /\ output' # Absent /\ output'.by = r
  BY OutputIsAFile
<1>5. /\ pc' \in [Replays -> Labels] /\ pc'[r] = "describing"
      /\ DOMAIN temporary' = Replays /\ temporary'[r] = Absent
      /\ OthersWait(r)
  BY <1>1, <1>2 DEF Labels, OthersWait
<1>6. TypeOK'
  <2>1. \A s \in Replays : temporary'[s] = Absent \/ temporary'[s] \in Seq(Row)
    BY <1>5 DEF ReplayInv, TypeOK, OthersWait
  <2>2. QED
    BY <1>1, <1>4, <1>5, <2>1 DEF ReplayInv, TypeOK, Labels
<1>7. ListingsAreSound' /\ CopiesAreSound' /\ TemporaryRemoved'
  <2>1. OnePerKey(refs'[r]) /\ \A ref \in refs'[r] : \E x \in bucket : SameKey(x, ref)
    BY <1>1 DEF ReplayInv, ListingsAreSound
  <2>2. CopyIsSound(r)'
    BY <1>5 DEF CopyIsSound
  <2>3. QED
    BY <1>1, <1>5, <2>1, <2>2, CopiesStaySound
<1>8. OutputIsSound'
  <2>1. output'.refs = refs[r] /\ output'.rows = temporary[r] /\ output'.by = r
    BY <1>1
  <2>2. QED
    BY <1>3, <2>1 DEF OutputIsSound
<1>9. FilesAreSound'
  <2>1. /\ r \in published' /\ published \subseteq published'
        /\ text[r] = {} /\ manifest # r /\ manifestTemp # r
        /\ \A q \in Replays : handle[q] # r
    BY <1>1 DEF ReplayInv, FilesAreSound, BeforeOutput
  <2>2. ASSUME NEW s \in Replays, s # r
        PROVE  pc'[s] = pc[s] /\ (s \in published' <=> s \in published)
    BY <1>1, <1>5, <2>2 DEF OthersWait
  <2>3. QED
    BY <1>1, <1>5, <2>1, <2>2 DEF ReplayInv, FilesAreSound, BeforeOutput, AfterOutput
<1>10. RunsTakeTurns'
  <2> SUFFICES ASSUME ~overlapped
               PROVE  RunsTakeTurns'
    BY <1>1 DEF RunsTakeTurns
  <2>1. \A s \in Replays : s # r => Ended(s)
    BY <1>1 DEF ReplayInv, RunsTakeTurns, Ended
  <2>2. \A s \in Replays : s # r => Ended(s)' /\ pc'[s] \notin AfterOutput
                                  /\ pc'[s] \notin BeforeOutput \ {"waiting", "checking"}
    BY <1>5, <2>1 DEF Ended, OthersWait, AfterOutput, BeforeOutput
  <2>3. pc'[r] \in AfterOutput /\ pc'[r] \notin BeforeOutput
    BY <1>5 DEF AfterOutput, BeforeOutput
  <2>4. manifest # Absent => \E s \in Replays : text[manifest] = {s}
    BY DEF ReplayInv, RunsTakeTurns
  <2>5. \A s \in Replays : pc'[s] \notin {"filling", "publishing"}
    BY <1>5, <2>2 DEF AfterOutput
  <2>6. QED
    BY <1>1, <1>4, <2>2, <2>3, <2>4, <2>5 DEF RunsTakeTurns
<1>11. ManifestDescribesOutput'
  BY <1>4, <1>5 DEF ManifestDescribesOutput
<1>12. QED
  BY <1>6, <1>7, <1>8, <1>9, <1>10, <1>11 DEF ReplayInv

\* A step of a run that has replaced the output leaves the objects, the listings,
\* the copies and the output alone.
LEMMA ManifestStep ==
    ASSUME ReplayInv, NEW r \in Replays, pc[r] \in AfterOutput,
           NEW label \in {"filling", "publishing", "done"},
           pc' = [pc EXCEPT ![r] = label],
           refs' = refs \/ refs' = [refs EXCEPT ![r] = {}],
           done' = done \/ done' = [done EXCEPT ![r] = {}],
           NEW file \in Replays \cup {Absent}, handle' = [handle EXCEPT ![r] = file],
           manifestTemp' \in Replays \cup {Absent}, manifest' \in Replays \cup {Absent},
           text' \in [Replays -> SUBSET Replays],
           UNCHANGED <<bucket, puts, temporary, output, published, overlapped, faults>>
    PROVE  /\ TypeOK' /\ ListingsAreSound' /\ CopiesAreSound' /\ OutputIsSound'
           /\ TemporaryRemoved'
           /\ pc'[r] = label /\ handle'[r] = file /\ OthersWait(r)
           /\ ~overlapped => \A s \in Replays : s # r => Ended(s)'
<1>1. /\ pc \in [Replays -> Labels]
      /\ refs \in [Replays -> SUBSET ObjectReference]
      /\ done \in [Replays -> SUBSET ObjectReference]
      /\ handle \in [Replays -> Replays \cup {Absent}]
  BY DEF ReplayInv, TypeOK, Labels
<1>2. /\ pc' \in [Replays -> Labels] /\ pc'[r] = label
      /\ refs' \in [Replays -> SUBSET ObjectReference]
      /\ done' \in [Replays -> SUBSET ObjectReference]
      /\ handle' \in [Replays -> Replays \cup {Absent}] /\ handle'[r] = file
      /\ refs'[r] = refs[r] \/ refs'[r] = {}
      /\ OthersWait(r)
  BY <1>1 DEF Labels, OthersWait
<1>3. TypeOK'
  BY <1>2 DEF ReplayInv, TypeOK, Labels
<1>4. ListingsAreSound' /\ CopiesAreSound' /\ TemporaryRemoved'
  <2>1. OnePerKey(refs'[r]) /\ \A ref \in refs'[r] : \E x \in bucket : SameKey(x, ref)
    BY <1>2, FS_EmptySet DEF ReplayInv, ListingsAreSound, OnePerKey
  <2>2. CopyIsSound(r)'
    BY <1>2 DEF CopyIsSound
  <2>3. temporary'[r] = Absent
    BY DEF ReplayInv, TemporaryRemoved, AfterOutput
  <2>4. QED
    BY <1>2, <2>1, <2>2, <2>3, CopiesStaySound
<1>5. OutputIsSound'
  BY DEF ReplayInv, OutputIsSound
<1>6. ~overlapped => \A s \in Replays : s # r => Ended(s)'
  BY <1>2 DEF ReplayInv, RunsTakeTurns, Ended, AfterOutput, OthersWait
<1>7. QED
  BY <1>2, <1>3, <1>4, <1>5, <1>6

\* What is known of the manifest's files of a run that is behind its output.
LEMMA ManifestFiles ==
    ASSUME ReplayInv, NEW r \in Replays, pc[r] \in AfterOutput
    PROVE  /\ manifest # Absent => manifest # manifestTemp
           /\ r \in published
           /\ text \in [Replays -> SUBSET Replays]
           /\ \A s \in Replays :
                /\ pc[s] \in BeforeOutput => s \notin published
                /\ pc[s] \in AfterOutput => s \in published
                /\ pc[s] \in BeforeOutput \cup {"describing"} =>
                     /\ text[s] = {} /\ manifest # s /\ manifestTemp # s
                     /\ \A q \in Replays : handle[q] # s
                /\ pc[s] = "filling" => handle[s] # Absent
                /\ text[s] \subseteq published
           /\ ~overlapped =>
                /\ output # Absent /\ output.by = r
                /\ pc[r] = "filling" => handle[r] = manifestTemp /\ text[manifestTemp] = {}
                /\ pc[r] = "publishing" => manifestTemp # Absent /\ text[manifestTemp] = {r}
                /\ manifest # Absent => \E s \in Replays : text[manifest] = {s}
<1>1. /\ manifest # Absent => manifest # manifestTemp
      /\ r \in published
      /\ text \in [Replays -> SUBSET Replays]
  BY DEF ReplayInv, FilesAreSound, TypeOK
<1>2. \A s \in Replays :
         /\ pc[s] \in BeforeOutput => s \notin published
         /\ pc[s] \in AfterOutput => s \in published
         /\ pc[s] \in BeforeOutput \cup {"describing"} =>
              /\ text[s] = {} /\ manifest # s /\ manifestTemp # s
              /\ \A q \in Replays : handle[q] # s
         /\ pc[s] = "filling" => handle[s] # Absent
         /\ text[s] \subseteq published
  BY DEF ReplayInv, FilesAreSound
<1>3. ~overlapped =>
         /\ output # Absent /\ output.by = r
         /\ pc[r] = "filling" => handle[r] = manifestTemp /\ text[manifestTemp] = {}
         /\ pc[r] = "publishing" => manifestTemp # Absent /\ text[manifestTemp] = {r}
         /\ manifest # Absent => \E s \in Replays : text[manifest] = {s}
  BY DEF ReplayInv, RunsTakeTurns
<1>4. QED
  BY <1>1, <1>2, <1>3

\* The manifest's temporary file is created, or the one found there is cut.
LEMMA OpenManifestKeepsReplayInv ==
    ASSUME ReplayInv, NEW r \in Replays, OpenManifest(r)
    PROVE  ReplayInv'
<1> DEFINE file == IF manifestTemp = Absent THEN r ELSE manifestTemp
<1>1. /\ pc[r] = "describing" /\ pc[r] \in AfterOutput
      /\ pc' = [pc EXCEPT ![r] = "filling"]
      /\ handle' = [handle EXCEPT ![r] = file]
      /\ manifestTemp' = file
      /\ text' = text \/ (manifestTemp # Absent /\ text' = [text EXCEPT ![manifestTemp] = {}])
      /\ UNCHANGED <<bucket, puts, refs, done, temporary, output, published, manifest,
                     overlapped, faults>>
  BY DEF OpenManifest, OpenForWriting, Goto, AfterOutput, bucketVars, outputVars
<1>2. /\ manifest # Absent => manifest # manifestTemp
      /\ r \in published
      /\ text \in [Replays -> SUBSET Replays]
      /\ \A s \in Replays :
           /\ pc[s] \in BeforeOutput => s \notin published
           /\ pc[s] \in AfterOutput => s \in published
           /\ pc[s] \in BeforeOutput \cup {"describing"} =>
                /\ text[s] = {} /\ manifest # s /\ manifestTemp # s
                /\ \A q \in Replays : handle[q] # s
           /\ pc[s] = "filling" => handle[s] # Absent
           /\ text[s] \subseteq published
      /\ ~overlapped =>
           /\ output # Absent /\ output.by = r
           /\ manifest # Absent => \E s \in Replays : text[manifest] = {s}
  BY <1>1, ManifestFiles
<1>3. /\ manifestTemp \in Replays \cup {Absent} /\ manifest \in Replays \cup {Absent}
      /\ file \in Replays
  BY DEF ReplayInv, TypeOK
<1>4. /\ text' \in [Replays -> SUBSET Replays]
      /\ text'[file] = {}
      /\ \A s \in Replays : s # manifestTemp => text'[s] = text[s]
      /\ \A s \in Replays : text'[s] \subseteq text[s]
  <2>1. CASE manifestTemp = Absent
    <3>1. text' = text /\ file = r /\ text[r] = {}
      BY <1>1, <1>2, <2>1
    <3>2. QED
      BY <1>2, <3>1
  <2>2. CASE manifestTemp # Absent
    <3>1. text' = [text EXCEPT ![manifestTemp] = {}] /\ file = manifestTemp
      BY <1>1, <2>2 DEF OpenManifest, OpenForWriting
    <3>2. QED
      BY <1>2, <1>3, <3>1
  <2>3. QED
    BY <2>1, <2>2
<1>5. \A s \in Replays : s # r /\ manifestTemp # s => file # s
  OBVIOUS
<1>6. file # Absent /\ (manifest # Absent => manifest # file)
  BY <1>1, <1>2, ReplayAssumption
<1> HIDE DEF file
<1>7. /\ TypeOK' /\ ListingsAreSound' /\ CopiesAreSound' /\ OutputIsSound'
      /\ TemporaryRemoved'
      /\ pc'[r] = "filling" /\ handle'[r] = file /\ OthersWait(r)
      /\ ~overlapped => \A s \in Replays : s # r => Ended(s)'
  BY <1>1, <1>3, <1>4, ManifestStep
<1>8. FilesAreSound'
  <2> SUFFICES ASSUME NEW s \in Replays
               PROVE  /\ pc'[s] \in BeforeOutput => s \notin published
                      /\ pc'[s] \in AfterOutput => s \in published
                      /\ pc'[s] \in BeforeOutput \cup {"describing"} =>
                           /\ text'[s] = {} /\ manifest # s /\ manifestTemp' # s
                           /\ \A q \in Replays : handle'[q] # s
                      /\ pc'[s] = "filling" => handle'[s] # Absent
                      /\ text'[s] \subseteq published
    BY <1>1, <1>6 DEF FilesAreSound
  <2>1. CASE s = r
    BY <1>2, <1>4, <1>6, <1>7, <2>1 DEF BeforeOutput, AfterOutput
  <2>2. CASE s # r
    <3>1. pc'[s] = pc[s] /\ handle'[s] = handle[s] /\ (manifestTemp # s => file # s)
      BY <1>5, <1>7, <2>2 DEF OthersWait
    <3>2. \A q \in Replays : q # r => handle'[q] = handle[q]
      BY <1>7 DEF OthersWait
    <3>3. QED
      BY <1>1, <1>2, <1>4, <1>7, <3>1, <3>2
  <2>3. QED
    BY <2>1, <2>2
<1>9. RunsTakeTurns'
  <2> SUFFICES ASSUME ~overlapped
               PROVE  RunsTakeTurns'
    BY <1>1 DEF RunsTakeTurns
  <2>1. \A s \in Replays : s # r => /\ Ended(s)' /\ pc'[s] \notin AfterOutput
                                    /\ pc'[s] \notin BeforeOutput \ {"waiting", "checking"}
                                    /\ pc'[s] \notin {"filling", "publishing"}
    BY <1>7 DEF Ended, AfterOutput, BeforeOutput
  <2>2. manifest # Absent => \E s \in Replays : text'[manifest] = {s}
    BY <1>2, <1>3, <1>4
  <2>3. pc'[r] \notin BeforeOutput
    BY <1>7 DEF BeforeOutput
  <2>4. QED
    BY <1>1, <1>2, <1>4, <1>7, <2>1, <2>2, <2>3 DEF RunsTakeTurns
<1>10. ManifestDescribesOutput'
  BY <1>1, <1>2, <1>7 DEF ManifestDescribesOutput
<1>11. QED
  BY <1>7, <1>8, <1>9, <1>10 DEF ReplayInv

\* The text is written into the file that was opened.
LEMMA FillManifestKeepsReplayInv ==
    ASSUME ReplayInv, NEW r \in Replays, FillManifest(r)
    PROVE  ReplayInv'
<1> DEFINE file == handle[r]
<1>1. PICK rest \in {{}, text[handle[r]]} : text' = [text EXCEPT ![file] = {r} \cup rest]
  BY DEF FillManifest
<1>2. /\ pc[r] = "filling" /\ pc[r] \in AfterOutput
      /\ pc' = [pc EXCEPT ![r] = "publishing"]
      /\ handle' = [handle EXCEPT ![r] = Absent]
      /\ UNCHANGED <<bucket, puts, refs, done, temporary, output, published, manifestTemp,
                     manifest, overlapped, faults>>
  BY DEF FillManifest, Goto, AfterOutput, bucketVars, outputVars
<1>3. /\ manifest # Absent => manifest # manifestTemp
      /\ r \in published
      /\ text \in [Replays -> SUBSET Replays]
      /\ \A s \in Replays :
           /\ pc[s] \in BeforeOutput => s \notin published
           /\ pc[s] \in AfterOutput => s \in published
           /\ pc[s] \in BeforeOutput \cup {"describing"} =>
                /\ text[s] = {} /\ manifest # s /\ manifestTemp # s
                /\ \A q \in Replays : handle[q] # s
           /\ pc[s] = "filling" => handle[s] # Absent
           /\ text[s] \subseteq published
      /\ ~overlapped =>
           /\ output # Absent /\ output.by = r
           /\ handle[r] = manifestTemp /\ text[manifestTemp] = {}
           /\ manifest # Absent => \E s \in Replays : text[manifest] = {s}
  BY <1>2, ManifestFiles
<1>4. /\ manifestTemp \in Replays \cup {Absent} /\ manifest \in Replays \cup {Absent}
      /\ file \in Replays
  <2>1. file # Absent
    BY <1>2, <1>3
  <2>2. QED
    BY <2>1 DEF ReplayInv, TypeOK
<1>5. /\ text' \in [Replays -> SUBSET Replays]
      /\ text'[file] = {r} \cup rest
      /\ \A s \in Replays : s # file => text'[s] = text[s]
      /\ rest \subseteq text[file]
  BY <1>1, <1>3, <1>4
<1>6. /\ TypeOK' /\ ListingsAreSound' /\ CopiesAreSound' /\ OutputIsSound'
      /\ TemporaryRemoved'
      /\ pc'[r] = "publishing" /\ handle'[r] = Absent /\ OthersWait(r)
      /\ ~overlapped => \A s \in Replays : s # r => Ended(s)'
  BY <1>2, <1>4, <1>5, ManifestStep
<1>7. FilesAreSound'
  <2> SUFFICES ASSUME NEW s \in Replays
               PROVE  /\ pc'[s] \in BeforeOutput => s \notin published
                      /\ pc'[s] \in AfterOutput => s \in published
                      /\ pc'[s] \in BeforeOutput \cup {"describing"} =>
                           /\ text'[s] = {} /\ manifest # s /\ manifestTemp # s
                           /\ \A q \in Replays : handle'[q] # s
                      /\ pc'[s] = "filling" => handle'[s] # Absent
                      /\ text'[s] \subseteq published
    BY <1>2, <1>3 DEF FilesAreSound
  <2>1. text'[s] \subseteq published
    <3>1. CASE s = file
      BY <1>3, <1>5, <3>1
    <3>2. CASE s # file
      BY <1>3, <1>5, <3>2
    <3>3. QED
      BY <3>1, <3>2
  <2>2. CASE s = r
    BY <1>3, <1>6, <2>1, <2>2 DEF BeforeOutput, AfterOutput
  <2>3. CASE s # r
    <3>1. pc'[s] = pc[s] /\ handle'[s] = handle[s]
      BY <1>6, <2>3 DEF OthersWait
    <3>2. \A q \in Replays : handle'[q] = handle[q] \/ handle'[q] = Absent
      BY <1>6 DEF OthersWait
    <3>3. Absent # s
      BY ReplayAssumption
    <3>4. QED
      BY <1>3, <1>5, <2>1, <3>1, <3>2, <3>3
  <2>4. QED
    BY <2>2, <2>3
<1>8. RunsTakeTurns'
  <2> SUFFICES ASSUME ~overlapped
               PROVE  RunsTakeTurns'
    BY <1>2 DEF RunsTakeTurns
  <2>1. \A s \in Replays : s # r => /\ Ended(s)' /\ pc'[s] \notin AfterOutput
                                    /\ pc'[s] \notin BeforeOutput \ {"waiting", "checking"}
                                    /\ pc'[s] \notin {"filling", "publishing"}
    BY <1>6 DEF Ended, AfterOutput, BeforeOutput
  <2>2. manifestTemp = file /\ text'[manifestTemp] = {r} /\ manifestTemp # Absent
    BY <1>3, <1>4, <1>5, ReplayAssumption
  <2>3. manifest # Absent => \E s \in Replays : text'[manifest] = {s}
    BY <1>3, <1>4, <1>5, <2>2
  <2>4. pc'[r] \notin BeforeOutput
    BY <1>6 DEF BeforeOutput
  <2>5. QED
    BY <1>2, <1>3, <1>6, <2>1, <2>2, <2>3, <2>4 DEF RunsTakeTurns
<1>9. ManifestDescribesOutput'
  BY <1>2, <1>3, <1>6 DEF ManifestDescribesOutput
<1>10. QED
  BY <1>6, <1>7, <1>8, <1>9 DEF ReplayInv

\* os.replace of the manifest: the file under the temporary name is in place, or
\* there is none and the run fails.
LEMMA ReplaceManifestKeepsReplayInv ==
    ASSUME ReplayInv, NEW r \in Replays, ReplaceManifest(r)
    PROVE  ReplayInv'
<1>1. /\ pc[r] = "publishing" /\ pc[r] \in AfterOutput
      /\ UNCHANGED <<bucket, puts, temporary, output, published, text, overlapped, faults>>
  BY DEF ReplaceManifest, AfterOutput, bucketVars, outputVars
<1>2. CASE manifestTemp = Absent
  <2>1. End(r, "failed") /\ UNCHANGED <<manifestTemp, manifest>>
    BY <1>2 DEF ReplaceManifest
  <2>2. temporary[r] = Absent /\ faults' \in 0..MaxFaults /\ ~Ended(r)
    BY <1>1 DEF ReplayInv, TemporaryRemoved, TypeOK, Ended
  <2>3. QED
    BY <1>1, <2>1, <2>2, EndKeepsReplayInv
<1>3. CASE manifestTemp # Absent
  <2>1. /\ manifest' = manifestTemp /\ manifestTemp' = Absent
        /\ pc' = [pc EXCEPT ![r] = "done"]
        /\ handle' = [handle EXCEPT ![r] = Absent]
        /\ refs' = [refs EXCEPT ![r] = {}] /\ done' = [done EXCEPT ![r] = {}]
    BY <1>3 DEF ReplaceManifest, End, Goto
  <2>2. /\ text \in [Replays -> SUBSET Replays]
        /\ \A s \in Replays :
             /\ pc[s] \in BeforeOutput => s \notin published
             /\ pc[s] \in AfterOutput => s \in published
             /\ pc[s] \in BeforeOutput \cup {"describing"} =>
                  /\ text[s] = {} /\ manifest # s /\ manifestTemp # s
                  /\ \A q \in Replays : handle[q] # s
             /\ pc[s] = "filling" => handle[s] # Absent
             /\ text[s] \subseteq published
        /\ ~overlapped => output # Absent /\ output.by = r /\ text[manifestTemp] = {r}
    BY <1>1, ManifestFiles
  <2>3. manifestTemp \in Replays
    BY <1>3 DEF ReplayInv, TypeOK
  <2>4. /\ TypeOK' /\ ListingsAreSound' /\ CopiesAreSound' /\ OutputIsSound'
        /\ TemporaryRemoved'
        /\ pc'[r] = "done" /\ handle'[r] = Absent /\ OthersWait(r)
        /\ ~overlapped => \A s \in Replays : s # r => Ended(s)'
    BY <1>1, <2>1, <2>2, <2>3, ManifestStep
  <2>5. FilesAreSound'
    <3> SUFFICES ASSUME NEW s \in Replays
                 PROVE  /\ pc'[s] \in BeforeOutput => s \notin published
                        /\ pc'[s] \in AfterOutput => s \in published
                        /\ pc'[s] \in BeforeOutput \cup {"describing"} =>
                             /\ text[s] = {} /\ manifest' # s /\ manifestTemp' # s
                             /\ \A q \in Replays : handle'[q] # s
                        /\ pc'[s] = "filling" => handle'[s] # Absent
                        /\ text[s] \subseteq published
      BY <1>1, <2>1 DEF FilesAreSound
    <3>1. CASE s = r
      BY <2>2, <2>4, <3>1 DEF BeforeOutput, AfterOutput
    <3>2. CASE s # r
      <4>1. pc'[s] = pc[s] /\ handle'[s] = handle[s]
        BY <2>4, <3>2 DEF OthersWait
      <4>2. \A q \in Replays : handle'[q] = handle[q] \/ handle'[q] = Absent
        BY <2>4 DEF OthersWait
      <4>3. Absent # s
        BY ReplayAssumption
      <4>4. QED
        BY <2>1, <2>2, <4>1, <4>2, <4>3
    <3>3. QED
      BY <3>1, <3>2
  <2>6. RunsTakeTurns'
    <3> SUFFICES ASSUME ~overlapped
                 PROVE  RunsTakeTurns'
      BY <1>1 DEF RunsTakeTurns
    <3>1. \A s \in Replays : /\ Ended(s)' /\ pc'[s] \notin AfterOutput
                             /\ pc'[s] \notin BeforeOutput \ {"waiting", "checking"}
                             /\ pc'[s] \notin {"filling", "publishing"}
      BY <2>4 DEF Ended, AfterOutput, BeforeOutput
    <3>2. text'[manifest'] = {r}
      BY <1>1, <2>1, <2>2
    <3>3. QED
      BY <3>1, <3>2 DEF RunsTakeTurns
  <2>7. ManifestDescribesOutput'
    BY <1>1, <1>3, <2>1, <2>2 DEF ManifestDescribesOutput
  <2>8. QED
    BY <2>4, <2>5, <2>6, <2>7 DEF ReplayInv
<1>4. QED
  BY <1>2, <1>3

-----------------------------------------------------------------------------
(* What holds of every run *)

\* No step of a run breaks the invariant ...
LEMMA StepKeepsReplayInv ==
    ASSUME ReplayInv, NEW r \in Replays, Step(r) \/ CallFails(r) \/ Killed(r)
    PROVE  ReplayInv'
<1>1. CASE Step(r)
  BY <1>1, PreflightKeepsReplayInv, CheckOutputKeepsReplayInv, ListObjectsKeepsReplayInv,
     ListFirstPageKeepsReplayInv, ListLastPageKeepsReplayInv, HeadObjectKeepsReplayInv,
     ReadObjectKeepsReplayInv, ReplaceOutputKeepsReplayInv, OpenManifestKeepsReplayInv,
     FillManifestKeepsReplayInv, ReplaceManifestKeepsReplayInv DEF Step
<1>2. CASE CallFails(r) \/ Killed(r)
  BY <1>2, StoppedKeepsReplayInv
<1>3. QED
  BY <1>1, <1>2

\* ... and no put.
LEMMA NextKeepsReplayInv == ReplayInv /\ [Next]_vars => ReplayInv'
<1> SUFFICES ASSUME ReplayInv, [Next]_vars
             PROVE  ReplayInv'
  OBVIOUS
<1>1. CASE PutObject
  BY <1>1, PutObjectKeepsReplayInv
<1>2. ASSUME NEW r \in Replays, Step(r) \/ CallFails(r) \/ Killed(r)
      PROVE  ReplayInv'
  BY <1>2, StepKeepsReplayInv
<1>3. CASE UNCHANGED vars
  BY <1>3 DEF vars, bucketVars, outputVars, manifestVars, fileVars,
              ReplayInv, TypeOK, ListingsAreSound, CopiesAreSound, CopyIsSound, OutputIsSound,
              TemporaryRemoved, FilesAreSound, RunsTakeTurns, ManifestDescribesOutput,
              MayWrite, Ended
<1>4. QED
  BY <1>1, <1>2, <1>3 DEF Next

\* A run's files and its place in the code always agree with its listing.
THEOREM ReplayInvHolds == Spec => []ReplayInv
BY InitEstablishesReplayInv, NextKeepsReplayInv, PTL DEF Spec

\* Every variable has its type.
THEOREM TypeCorrect == Spec => []TypeOK
<1>1. ReplayInv => TypeOK
  BY DEF ReplayInv
<1>2. QED
  BY <1>1, ReplayInvHolds, PTL

\* The output in place is always a whole replay of one accepted listing
\* (replay_bronze.py:636-706).
THEOREM OutputIsComplete == Spec => []OutputComplete
<1>1. ReplayInv => OutputComplete
  BY DEF ReplayInv, OutputIsSound, OutputComplete
<1>2. QED
  BY <1>1, ReplayInvHolds, PTL

\* A row that a listing calls for lies in the range of one of its keys.
LEMMA RowOfAKey ==
    ASSUME NEW S, NEW part, NEW off,
           <<part, off>> \in UNION {{x.part} \X (x.lo..x.hi) : x \in S}
    PROVE  \E x \in S : part = x.part /\ off \in x.lo..x.hi
<1>1. PICK x \in S : <<part, off>> \in {x.part} \X (x.lo..x.hi)
  OBVIOUS
<1>2. QED
  BY <1>1

\* A finished copy of a listing without gaps has no gap.
LEMMA CompleteIsContiguous == ReplayInv => OutputContiguous
<1> SUFFICES ASSUME ReplayInv, output # Absent, output.by \notin AllowingGaps,
                    NEW i \in DOMAIN output.rows, NEW j \in DOMAIN output.rows,
                    NEW o \in output.rows[i].off..output.rows[j].off,
                    output.rows[i].part = output.rows[j].part
             PROVE  \E k \in DOMAIN output.rows :
                      output.rows[k].part = output.rows[i].part /\ output.rows[k].off = o
  BY DEF OutputContiguous
<1> DEFINE L == output.refs
           rows == output.rows
           Pairs == {<<rows[k].part, rows[k].off>> : k \in DOMAIN rows}
<1>0. o \in rows[i].off..rows[j].off /\ rows[i].part = rows[j].part
  OBVIOUS
<1>1. /\ L \subseteq ObjectReference /\ rows \in Seq(Row)
      /\ OnePerKey(L) /\ ValidRanges(output.by, L)
      /\ Pairs = UNION {{x.part} \X (x.lo..x.hi) : x \in L}
  BY DEF ReplayInv, TypeOK, File, OutputIsSound, Covers
<1>2. Keys(L)
  BY <1>1, ReplayAssumption DEF Keys, ObjectReference
<1>3. rows[i].off \in Nat /\ rows[j].off \in Nat /\ o \in Nat
  <2>1. rows[i] \in Row /\ rows[j] \in Row
    BY <1>1
  <2>2. QED
    BY <2>1 DEF Row
<1>4. <<rows[i].part, rows[i].off>> \in Pairs /\ <<rows[j].part, rows[j].off>> \in Pairs
  OBVIOUS
<1> HIDE DEF L, rows, Pairs
<1>5. PICK x \in L : rows[i].part = x.part /\ rows[i].off \in x.lo..x.hi
  BY <1>1, <1>4, RowOfAKey
<1>6. PICK y \in L : rows[j].part = y.part /\ rows[j].off \in y.lo..y.hi
  BY <1>1, <1>4, RowOfAKey
<1>7. x.part = y.part /\ x.lo <= o /\ o <= y.hi
  <2>1. x.part = y.part
    BY <1>0, <1>5, <1>6
  <2>2. x.lo \in Nat /\ x.hi \in Nat /\ y.lo \in Nat /\ y.hi \in Nat
    BY <1>2 DEF Keys
  <2>3. x.lo <= rows[i].off /\ rows[i].off <= o
    BY <1>0, <1>3, <1>5, <2>2
  <2>4. o <= rows[j].off /\ rows[j].off <= y.hi
    BY <1>0, <1>3, <1>6, <2>2
  <2>5. QED
    BY <1>3, <2>1, <2>2, <2>3, <2>4
<1>8. PICK z \in L : z.part = x.part /\ z.lo <= o /\ o <= z.hi
  BY <1>1, <1>2, <1>3, <1>5, <1>6, <1>7, RangesHaveNoHole
<1>9. <<rows[i].part, o>> \in Pairs
  <2>1. o \in z.lo..z.hi
    BY <1>2, <1>3, <1>8 DEF Keys
  <2>2. <<rows[i].part, o>> \in {z.part} \X (z.lo..z.hi)
    BY <1>5, <1>8, <2>1
  <2>3. QED
    BY <1>1, <1>8, <2>2
<1>10. QED
  BY <1>9 DEF Pairs, rows

\* The offsets of the output of a run without --allow-gaps have no hole
\* (replay_bronze.py:validate_object_ranges).
THEOREM OutputIsContiguous == Spec => []OutputContiguous
BY CompleteIsContiguous, ReplayInvHolds, PTL

\* Only a run that was killed leaves its temporary file behind
\* (replay_bronze.py:708-712).
THEOREM TemporaryIsRemoved == Spec => []TemporaryRemoved
<1>1. ReplayInv => TemporaryRemoved
  BY DEF ReplayInv
<1>2. QED
  BY <1>1, ReplayInvHolds, PTL

\* While runs take turns, the manifest in place describes the output in place,
\* or the run between its two os.replace calls is under way or was stopped
\* (replay_bronze.py:703, 584).
THEOREM ManifestIsOfTheOutput == Spec => []ManifestDescribesOutput
<1>1. ReplayInv => ManifestDescribesOutput
  BY DEF ReplayInv
<1>2. QED
  BY <1>1, ReplayInvHolds, PTL

\* While runs take turns, the manifest in place is one run's text
\* (replay_bronze.py:558-587).
THEOREM ManifestIsWhole == Spec => []ManifestWhole
<1>1. ReplayInv => ManifestWhole
  BY FS_Singleton DEF ReplayInv, RunsTakeTurns, ManifestWhole
<1>2. QED
  BY <1>1, ReplayInvHolds, PTL

-----------------------------------------------------------------------------
(* Steps *)

\* No step but os.replace of the output touches the output.
LEMMA OutputChange ==
    ASSUME [Next]_vars, <<output, published>>' # <<output, published>>
    PROVE  \E r \in Replays : ReplaceOutput(r)
<1>1. ~PutObject /\ ~UNCHANGED vars
  BY DEF PutObject, vars, fileVars, outputVars
<1>2. ASSUME NEW r \in Replays, Step(r)
      PROVE  ReplaceOutput(r)
  BY <1>2 DEF Step, Preflight, CheckOutput, ListObjects, ListFirstPage, ListLastPage,
              HeadObject, ReadObject, OpenManifest, FillManifest, ReplaceManifest,
              fileVars, outputVars
<1>3. \A r \in Replays : ~CallFails(r) /\ ~Killed(r)
  BY DEF CallFails, Killed, outputVars
<1>4. QED
  BY <1>1, <1>2, <1>3 DEF Next

\* While runs take turns, an output in place is replaced only by a run with
\* --overwrite: what it saw when it asked is still true when it replaces
\* (replay_bronze.py:605, 703).
THEOREM OverwriteWasAsked == Spec => OverwriteIsAsked
<1> DEFINE Asked == (output # Absent /\ output' # output /\ ~overlapped) =>
                        output'.by \in Overwriting
<1>1. ReplayInv /\ [Next]_vars => [Asked]_output
  <2> SUFFICES ASSUME ReplayInv, [Next]_vars, output # Absent, output' # output, ~overlapped
               PROVE  output'.by \in Overwriting
    OBVIOUS
  <2>1. PICK r \in Replays : ReplaceOutput(r)
    BY OutputChange
  <2>2. output'.by = r /\ pc[r] = "replacing"
    BY <2>1 DEF ReplaceOutput
  <2>3. MayWrite(r)
    BY <2>2 DEF ReplayInv, RunsTakeTurns, BeforeOutput
  <2>4. QED
    BY <2>2, <2>3 DEF MayWrite
<1>2. QED
  BY <1>1, ReplayInvHolds, PTL DEF Spec, OverwriteIsAsked

\* os.replace of the output publishes a whole, complete replay.
LEMMA PublishingStep ==
    ASSUME ReplayInv, ReplayInv', NEW r \in Replays, ReplaceOutput(r)
    PROVE  Atomic!Publish(r)
<1>1. /\ pc[r] = "replacing"
      /\ published' = published \cup {r}
      /\ UNCHANGED <<manifest, text>>
  BY DEF ReplaceOutput, manifestVars
<1>2. r \notin published
  BY <1>1 DEF ReplayInv, FilesAreSound, BeforeOutput
<1>3. output' # Absent /\ output'.by = r
  BY OutputIsAFile
<1>4. output'.refs # {} /\ Covers(output'.rows, output'.refs) /\ Sorted(output'.rows)
  BY <1>3 DEF ReplayInv, OutputIsSound
<1>5. Atomic!Whole(output')
  BY <1>4 DEF Atomic!Whole, Atomic!Offsets, Covers, Sorted
<1>6. QED
  BY <1>1, <1>2, <1>3, <1>4, <1>5 DEF Atomic!Publish

\* Every step of the runs is a step of the abstract replay, or none.
LEMMA StepSimulation ==
    ASSUME ReplayInv, ReplayInv', [Next]_vars
    PROVE  [Atomic!Next]_(Atomic!vars)
<1>1. CASE UNCHANGED <<output, published>>
  <2> DEFINE after == IF manifest' = Absent THEN {} ELSE text'[manifest']
  <2>1. after \in SUBSET published
    BY <1>1 DEF ReplayInv, TypeOK, FilesAreSound
  <2>2. Atomic!Describe
    BY <1>1, <2>1 DEF Atomic!Describe
  <2>3. QED
    BY <2>2 DEF Atomic!Next
<1>2. CASE ~UNCHANGED <<output, published>>
  BY <1>2, OutputChange, PublishingStep DEF Atomic!Next
<1>3. QED
  BY <1>1, <1>2

\* The runs keep the abstract promise, overlapping or not: the output changes only
\* as a whole, and a manifest is of runs that have published
\* (replay_bronze.py:580-712).
THEOREM Refinement == Spec => ImplementsAtomicReplay
<1>1. Init => Atomic!Init
  BY DEF Init, Atomic!Init
<1>2. ReplayInv /\ ReplayInv' /\ [Next]_vars => [Atomic!Next]_(Atomic!vars)
  BY StepSimulation
<1>3. QED
  BY <1>1, <1>2, ReplayInvHolds, PTL DEF Spec, ImplementsAtomicReplay, Atomic!Spec

===============================================================================

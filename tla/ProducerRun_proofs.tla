-------------------------- MODULE ProducerRun_proofs --------------------------
(***************************************************************************)
(* Proofs about ProducerRun, for every volume, every configuration of rates, *)
(* every partitioner and every fault: first the generator alone, then the    *)
(* publication of what it has generated, with the invariant and the lemmas   *)
(* of EventProducer_proofs.                                                  *)
(***************************************************************************)
EXTENDS ProducerRun, TLAPS, FiniteSetTheorems, SequenceTheorems, WellFoundedInduction

-----------------------------------------------------------------------------
(* Counts *)

\* Integer division.
LEMMA DivisionTruncates ==
    ASSUME NEW q \in Nat, NEW n \in Nat, n > 0
    PROVE  /\ q \div n \in Nat
           /\ (q \div n) * n <= q
           /\ (q \div n + 1) * n >= q
           /\ q % n = 0 => (q \div n) * n = q
<1>1. q \div n \in Nat
  OBVIOUS
<1>2. (q \div n) * n <= q
  OBVIOUS
<1>3. (q \div n + 1) * n > q
  OBVIOUS
<1>4. q % n = 0 => (q \div n) * n = q
  OBVIOUS
<1>5. QED
  BY <1>1, <1>2, <1>3, <1>4

\* int(volume * rate) is the product, less one at most.
LEMMA RateCountIsTruncated ==
    ASSUME NEW r \in 0..Scale
    PROVE  /\ RateCount(r) \in Nat
           /\ RateCount(r) * Scale <= Volume * r
           /\ (RateCount(r) + 1) * Scale >= Volume * r
<1> DEFINE q == Volume * r
           d == q \div Scale
<1>1. q \in Nat /\ Scale \in Nat /\ Scale > 0
  BY GeneratorAssumption
<1>2. r \in Truncated => q > 0
  BY GeneratorAssumption
<1> HIDE DEF q
<1>3. /\ d \in Nat
      /\ d * Scale <= q
      /\ (d + 1) * Scale >= q
      /\ q % Scale = 0 => d * Scale = q
  BY <1>1, DivisionTruncates
<1> HIDE DEF d
<1>4. CASE r \in Truncated /\ q % Scale = 0
  <2>1. RateCount(r) = d - 1
    BY <1>4 DEF RateCount, q, d
  <2>2. d > 0
    BY <1>1, <1>2, <1>3, <1>4
  <2>3. d - 1 \in Nat /\ (d - 1) + 1 = d
    BY <1>3, <2>2
  <2>4. (d - 1) * Scale = d * Scale - Scale
    BY <1>1, <1>3
  <2>5. d * Scale = q
    BY <1>3, <1>4
  <2>6. (d - 1) * Scale <= q
    BY <1>1, <2>4, <2>5
  <2>7. QED
    BY <1>1, <2>1, <2>3, <2>5, <2>6 DEF q
<1>5. CASE ~(r \in Truncated /\ q % Scale = 0)
  <2>1. RateCount(r) = d
    BY <1>5 DEF RateCount, q, d
  <2>2. QED
    BY <2>1, <1>3 DEF q
<1>6. QED
  BY <1>4, <1>5

\* With rates that sum up to one at most, what they leave is not negative, and
\* at least their complement's share.
LEMMA ValidCountIsTheRest ==
    ASSUME config \in Configs
    PROVE  /\ \A s \in Scenarios : Count(s) \in Int
           /\ \A s \in Controlled : Count(s) \in Nat /\ Count(s) = RateCount(config[s])
           /\ ErrorRate \in Nat
           /\ ValidCount * Scale >= Volume * (Scale - ErrorRate)
           /\ ErrorRate <= Scale => ValidCount \in Nat
<1> DEFINE c(s) == RateCount(config[s])
<1>1. config \in [Controlled -> 0..Scale] /\ Scale \in Nat /\ Scale > 0 /\ Volume \in Nat
  BY GeneratorAssumption
<1>2. \A s \in Controlled : c(s) \in Nat /\ c(s) * Scale <= Volume * config[s]
                            /\ config[s] \in Nat
  BY <1>1, RateCountIsTruncated
<1>3. /\ Controlled = {"duplicate", "late", "malformed", "negative_amount",
                       "unsupported_schema_version"}
      /\ "valid" \notin Controlled
  BY DEF Controlled
<1>4. PICK a, b, d, e, f \in Nat :
         /\ a = c("duplicate") /\ b = c("late") /\ d = c("malformed")
         /\ e = c("negative_amount") /\ f = c("unsupported_schema_version")
  BY <1>2, <1>3
<1>5. PICK ra, rb, rd, re, rf \in Nat :
         /\ ra = config["duplicate"] /\ rb = config["late"] /\ rd = config["malformed"]
         /\ re = config["negative_amount"] /\ rf = config["unsupported_schema_version"]
  BY <1>2, <1>3
<1>6. /\ a * Scale <= Volume * ra /\ b * Scale <= Volume * rb
      /\ d * Scale <= Volume * rd /\ e * Scale <= Volume * re
      /\ f * Scale <= Volume * rf
  BY <1>2, <1>3, <1>4, <1>5
<1>7. ControlledCount = a + b + d + e + f
  BY <1>3, <1>4 DEF ControlledCount, Total
<1>8. ErrorRate = ra + rb + rd + re + rf
  BY <1>5 DEF ErrorRate, Total
<1>9. \A s \in Controlled : Count(s) = c(s)
  BY <1>3 DEF Count
<1>10. Count("valid") = ValidCount /\ ValidCount \in Int
  BY <1>1, <1>7 DEF Count, ValidCount
<1> HIDE DEF c
<1>11. (a + b + d + e + f) * Scale = a * Scale + b * Scale + d * Scale + e * Scale + f * Scale
  BY <1>1
<1>12. Volume * (ra + rb + rd + re + rf)
           = Volume * ra + Volume * rb + Volume * rd + Volume * re + Volume * rf
  BY <1>1
<1>13. ControlledCount * Scale <= Volume * ErrorRate
  <2>1. /\ a * Scale \in Nat /\ b * Scale \in Nat /\ d * Scale \in Nat
        /\ e * Scale \in Nat /\ f * Scale \in Nat
        /\ Volume * ra \in Nat /\ Volume * rb \in Nat /\ Volume * rd \in Nat
        /\ Volume * re \in Nat /\ Volume * rf \in Nat
    BY <1>1
  <2>2. QED
    BY <1>6, <1>7, <1>8, <1>11, <1>12, <2>1
<1>14. ControlledCount \in Nat /\ ErrorRate \in Nat
  BY <1>7, <1>8
<1>15. ValidCount * Scale >= Volume * (Scale - ErrorRate)
  <2>1. ValidCount * Scale = Volume * Scale - ControlledCount * Scale
    BY <1>1, <1>14 DEF ValidCount
  <2>2. Volume * (Scale - ErrorRate) = Volume * Scale - Volume * ErrorRate
    BY <1>1, <1>14
  <2>3. Volume * Scale \in Int /\ ControlledCount * Scale \in Int /\ Volume * ErrorRate \in Int
    BY <1>1, <1>14
  <2>4. QED
    BY <1>13, <2>1, <2>2, <2>3
<1>16. ASSUME ErrorRate <= Scale
       PROVE  ValidCount \in Nat
  <2>1. Volume * (Scale - ErrorRate) >= 0
    BY <1>1, <1>14, <1>16
  <2>2. ValidCount * Scale >= 0
    BY <1>15, <2>1, <1>1, <1>10, <1>14
  <2>3. ValidCount >= 0
    BY <2>2, <1>1, <1>10
  <2>4. QED
    BY <2>3, <1>10
<1>17. QED
  BY <1>2, <1>3, <1>9, <1>10, <1>14, <1>15, <1>16 DEF Scenarios, c

\* Two finite sets with a one-to-one correspondence have as many elements.
LEMMA SameNumber ==
    ASSUME NEW A, NEW B, IsFiniteSet(A), NEW f \in [A -> B],
           \A x, y \in A : f[x] = f[y] => x = y,
           \A b \in B : \E a \in A : f[a] = b
    PROVE  Cardinality(A) = Cardinality(B)
<1>1. f \in Bijection(A, B)
  BY DEF Bijection, Injection, Surjection, IsInjective
<1>2. QED
  BY <1>1, FS_Bijection DEF ExistsBijection

-----------------------------------------------------------------------------
(* The generator *)

\* list.index finds an ordinary valid scenario if there is one.
LEMMA FirstValidIsThere ==
    ASSUME NEW S, NEW p \in Seq(S), HasValid(p)
    PROVE  FirstValid(p) \in DOMAIN p /\ p[FirstValid(p)] = "valid"
<1> DEFINE V == {i \in DOMAIN p : p[i] = "valid"}
<1>1. DOMAIN p = 1..Len(p) /\ Len(p) \in Nat
  OBVIOUS
<1>2. V # {} /\ V \subseteq Nat
  BY <1>1 DEF HasValid
<1>3. PICK i \in V : \A j \in V : ~ (<<j, i>> \in OpToRel(<, Nat))
  BY <1>2, WFMin, NatLessThanWellFounded
<1>4. \A j \in V : ~ (j < i)
  BY <1>2, <1>3 DEF OpToRel
<1>5. \A j \in 1..(i - 1) : p[j] # "valid"
  <2> SUFFICES ASSUME NEW j \in 1..(i - 1), p[j] = "valid"
               PROVE  FALSE
    OBVIOUS
  <2>1. i \in 1..Len(p)
    BY <1>1
  <2>2. j \in DOMAIN p /\ j < i
    BY <1>1, <2>1
  <2>3. QED
    BY <1>4, <2>2
<1>6. QED
  BY <1>5 DEF FirstValid

\* Exchanging two places of the plan changes no count.
LEMMA ExchangeKeepsPlan ==
    ASSUME NEW p \in Plans, Len(p) \in Nat, DOMAIN p = 1..Len(p),
           p \in Seq(Scenarios \ {"duplicate"})
    PROVE  /\ IsPlan(Arranged(p))
           /\ Arranged(p) \in Seq(Scenarios \ {"duplicate"})
<1> DEFINE a == Arranged(p)
           f == FirstValid(p)
<1>1. IsPlan(p)
  BY DEF Plans
<1>2. CASE ~(Count("duplicate") > 0 /\ HasValid(p))
  BY <1>1, <1>2 DEF Arranged
<1>3. CASE Count("duplicate") > 0 /\ HasValid(p)
  <2>1. f \in DOMAIN p /\ p[f] = "valid" /\ 1 \in DOMAIN p /\ f \in 1..Len(p)
    BY <1>3, FirstValidIsThere
  <2>2. a = [p EXCEPT ![1] = "valid", ![f] = p[1]]
    BY <1>3 DEF Arranged
  <2> HIDE DEF f
  <2>3. /\ DOMAIN a = DOMAIN p
        /\ a[f] = p[1]
        /\ a[1] = p[f]
        /\ \A i \in DOMAIN p : i # 1 /\ i # f => a[i] = p[i]
    BY <2>1, <2>2
  <2>4. a \in Seq(Scenarios \ {"duplicate"})
    <3>1. "valid" \in Scenarios \ {"duplicate"}
      BY DEF Scenarios, Controlled
    <3>2. QED
      BY <2>1, <2>2, <3>1
  <2> HIDE DEF a
  <2>5. ASSUME NEW s \in Scenarios \ {"duplicate"}
        PROVE  Cardinality({i \in DOMAIN a : a[i] = s}) = Planned(s)
    <3> DEFINE X == {i \in DOMAIN p : p[i] = s}
               Y == {i \in DOMAIN a : a[i] = s}
               g == [i \in X |-> IF i = 1 THEN f ELSE IF i = f THEN 1 ELSE i]
    <3>1. IsFiniteSet(X)
      <4>1. X \in SUBSET (1..Len(p))
        OBVIOUS
      <4>2. IsFiniteSet(1..Len(p))
        BY FS_Interval
      <4>3. QED
        BY <4>1, <4>2, FS_Subset
    <3>2. g \in [X -> Y]
      BY <2>1, <2>3
    <3>3. \A x, y \in X : g[x] = g[y] => x = y
      BY <2>1
    <3>4. \A y \in Y : \E x \in X : g[x] = y
      <4> SUFFICES ASSUME NEW y \in Y
                   PROVE  \E x \in X : g[x] = y
        OBVIOUS
      <4>1. CASE y = 1
        <5>1. f \in X /\ g[f] = 1
          BY <2>1, <2>3, <4>1
        <5>2. QED
          BY <4>1, <5>1
      <4>2. CASE y = f
        <5>1. 1 \in X /\ g[1] = f
          BY <2>1, <2>3, <4>2
        <5>2. QED
          BY <4>2, <5>1
      <4>3. CASE y # 1 /\ y # f
        BY <2>3, <4>3
      <4>4. QED
        BY <4>1, <4>2, <4>3
    <3> HIDE DEF X, Y, g
    <3>5. Cardinality(X) = Cardinality(Y)
      BY <3>1, <3>2, <3>3, <3>4, SameNumber
    <3>6. Cardinality(X) = Planned(s)
      BY <1>1 DEF IsPlan, X
    <3>7. QED
      BY <3>5, <3>6 DEF Y
  <2>6. QED
    BY <2>4, <2>5 DEF IsPlan, a
<1>4. QED
  BY <1>2, <1>3

\* list.insert moves what stands from the place on back by one.
LEMMA InsertionShifts ==
    ASSUME NEW S, NEW s \in Seq(S), NEW e \in S, NEW p \in 1..(Len(s) + 1)
    PROVE  /\ InsertAt(s, p, e) \in Seq(S)
           /\ Len(InsertAt(s, p, e)) = Len(s) + 1
           /\ DOMAIN InsertAt(s, p, e) = 1..(Len(s) + 1)
           /\ InsertAt(s, p, e)[p] = e
           /\ \A i \in DOMAIN s :
                /\ i < p => InsertAt(s, p, e)[i] = s[i]
                /\ i >= p => InsertAt(s, p, e)[i + 1] = s[i]
<1> DEFINE front == SubSeq(s, 1, p - 1)
           back == SubSeq(s, p, Len(s))
<1>1. Len(s) \in Nat /\ DOMAIN s = 1..Len(s)
  OBVIOUS
<1>2. /\ front \in Seq(S) /\ Len(front) = p - 1
      /\ \A i \in 1..(p - 1) : front[i] = s[i]
  BY <1>1
<1>3. /\ back \in Seq(S) /\ Len(back) = Len(s) - p + 1
      /\ \A i \in 1..(Len(s) - p + 1) : back[i] = s[p + i - 1]
  BY <1>1
<1> HIDE DEF front, back
<1>4. InsertAt(s, p, e) = front \o <<e>> \o back
  BY DEF InsertAt, front, back
<1> DEFINE h == front \o <<e>>
<1>5. /\ h \in Seq(S) /\ Len(h) = p
      /\ h[p] = e
      /\ \A i \in 1..(p - 1) : h[i] = s[i]
  BY <1>1, <1>2
<1> HIDE DEF h
<1>6. /\ h \o back \in Seq(S) /\ Len(h \o back) = Len(s) + 1
      /\ (h \o back)[p] = e
      /\ \A i \in 1..(p - 1) : (h \o back)[i] = s[i]
      /\ \A i \in (p + 1)..(Len(s) + 1) : (h \o back)[i] = s[i - 1]
  <2>1. h \o back \in Seq(S) /\ Len(h \o back) = Len(s) + 1
    <3>1. h \o back \in Seq(S)
      BY <1>3, <1>5
    <3>2. Len(h \o back) = Len(h) + Len(back)
      BY <1>3, <1>5, ConcatProperties
    <3>3. QED
      BY <1>1, <1>3, <1>5, <3>1, <3>2
  <2>2. \A i \in 1..p : (h \o back)[i] = h[i]
    BY <1>1, <1>3, <1>5
  <2>3. ASSUME NEW i \in (p + 1)..(Len(s) + 1)
        PROVE  (h \o back)[i] = s[i - 1]
    <3>1. (h \o back)[i] = back[i - p]
      BY <1>1, <1>3, <1>5
    <3>2. i - p \in 1..(Len(s) - p + 1) /\ p + (i - p) - 1 = i - 1
      BY <1>1
    <3>3. QED
      BY <1>3, <3>1, <3>2
  <2>4. QED
    BY <1>1, <1>5, <2>1, <2>2, <2>3
<1>7. \A i \in DOMAIN s : i >= p => (h \o back)[i + 1] = s[i]
  <2> SUFFICES ASSUME NEW i \in DOMAIN s, i >= p
               PROVE  (h \o back)[i + 1] = s[i]
    OBVIOUS
  <2>1. i + 1 \in (p + 1)..(Len(s) + 1) /\ (i + 1) - 1 = i
    BY <1>1
  <2>2. QED
    BY <1>6, <2>1
<1>8. InsertAt(s, p, e) = h \o back
  BY <1>4 DEF h
<1>9. DOMAIN (h \o back) = 1..(Len(s) + 1)
  BY <1>6
<1>10. \A i \in DOMAIN s : i < p => (h \o back)[i] = s[i]
  BY <1>1, <1>6
<1>11. QED
  BY <1>6, <1>7, <1>8, <1>9, <1>10

\* A generated record.
GeneratedRecord == [scenario : Scenarios, id : Nat, key : Orders,
                    source : Nat \cup {NoSource}]

\* What the types say of the two sequences.
LEMMA SequencesAreIndexed ==
    ASSUME GeneratorTypeOK
    PROVE  /\ dataset \in Seq(GeneratedRecord)
           /\ Len(plan) \in Nat /\ DOMAIN plan = 1..Len(plan)
           /\ Len(dataset) \in Nat /\ DOMAIN dataset = 1..Len(dataset)
           /\ \A i \in DOMAIN plan : plan[i] \in Scenarios /\ plan[i] # "duplicate"
           /\ \A i \in DOMAIN dataset :
                /\ dataset[i] \in GeneratedRecord
                /\ dataset[i].scenario \in Scenarios /\ dataset[i].id \in Nat
                /\ dataset[i].key \in Orders
<1>1. dataset \in Seq(GeneratedRecord) /\ plan \in Seq(Scenarios \ {"duplicate"})
  BY DEF GeneratorTypeOK, GeneratedRecord
<1>2. \A i \in DOMAIN dataset : dataset[i] \in GeneratedRecord
  BY <1>1
<1>3. \A r \in GeneratedRecord : r.scenario \in Scenarios /\ r.id \in Nat /\ r.key \in Orders
  BY DEF GeneratedRecord
<1>4. \A i \in DOMAIN plan : plan[i] \in Scenarios \ {"duplicate"}
  BY <1>1
<1>5. QED
  BY <1>1, <1>2, <1>3, <1>4

\* Nothing is generated at first.
LEMMA InitEstablishesGeneratorInv == Init => GeneratorInv
<1> SUFFICES ASSUME Init
             PROVE  GeneratorInv
  OBVIOUS
<1>1. DOMAIN dataset = {} /\ DOMAIN plan = {} /\ Duplicates = {}
  BY DEF Init, Duplicates
<1>2. GeneratorTypeOK /\ PlanIsKept
  BY DEF Init, GeneratorTypeOK, PlanIsKept
<1>3. RecordsFollowPlan /\ DuplicatesFollowOriginals
  BY <1>1 DEF RecordsFollowPlan, DuplicatesFollowOriginals
<1>4. QED
  BY <1>2, <1>3 DEF GeneratorInv

\* What a configuration says does not change after it was chosen.
LEMMA ConfigurationStays ==
    ASSUME UNCHANGED config
    PROVE  /\ ConfigAccepted' = ConfigAccepted
           /\ \A s : Count(s)' = Count(s)
           /\ \A s : Planned(s)' = Planned(s)
           /\ ErrorRate' = ErrorRate
<1>1. /\ \A s : Count(s)' = Count(s)
      /\ ErrorRate' = ErrorRate
      /\ ValidCount' = ValidCount
  BY DEF Count, ErrorRate, ValidCount, ControlledCount
<1>2. QED
  BY <1>1 DEF ConfigAccepted, Planned

\* The shuffle and the exchange of two places make a plan.
LEMMA ShuffleKeepsGeneratorInv ==
    ASSUME GeneratorInv, Shuffle
    PROVE  GeneratorInv'
<1>1. /\ stage = "planning" /\ ConfigAccepted
      /\ stage' \in {"failed", "generating"}
      /\ UNCHANGED <<config, dataset>>
  BY DEF Shuffle
<1>2. PICK p \in Plans : plan' = Arranged(p)
  BY DEF Shuffle
<1>3. dataset = << >> /\ dataset' = << >> /\ DOMAIN dataset' = {} /\ Duplicates' = {}
  BY <1>1 DEF GeneratorInv, PlanIsKept, Duplicates
<1>4. PlanLength \in Nat
  <2>1. config \in Configs
    BY DEF GeneratorInv, GeneratorTypeOK
  <2>2. \A s \in Scenarios : Planned(s) \in Nat
    BY <2>1, ValidCountIsTheRest DEF Planned
  <2>3. /\ "valid" \in Scenarios /\ "duplicate" \in Controlled /\ "late" \in Controlled
        /\ "malformed" \in Controlled /\ "negative_amount" \in Controlled
        /\ "unsupported_schema_version" \in Controlled
        /\ Controlled \subseteq Scenarios
    BY DEF Scenarios, Controlled
  <2>4. PlanLength = Planned("valid") + Planned("late") + Planned("malformed")
                     + Planned("negative_amount") + Planned("unsupported_schema_version")
    BY <2>2, <2>3 DEF PlanLength, Total
  <2>5. QED
    BY <2>2, <2>3, <2>4
<1>5. /\ p \in Seq(Scenarios \ {"duplicate"})
      /\ Len(p) \in Nat /\ DOMAIN p = 1..Len(p)
  BY <1>4 DEF Plans
<1>6. IsPlan(Arranged(p)) /\ Arranged(p) \in Seq(Scenarios \ {"duplicate"})
  BY <1>5, ExchangeKeepsPlan
<1>7. \A q : IsPlan(q)' = IsPlan(q)
  BY <1>1, ConfigurationStays DEF IsPlan
<1>8. GeneratorTypeOK'
  BY <1>1, <1>2, <1>6 DEF GeneratorInv, GeneratorTypeOK
<1>9. PlanIsKept'
  BY <1>1, <1>2, <1>6, <1>7, ConfigurationStays DEF PlanIsKept, IsPlan
<1>10. RecordsFollowPlan'
  <2>1. Len(dataset') = 0
    BY <1>3
  <2>2. \A n \in DOMAIN plan' : ~(n <= Len(dataset'))
    BY <1>2, <1>6, <2>1
  <2>3. QED
    BY <1>3, <2>2 DEF RecordsFollowPlan
<1>11. DuplicatesFollowOriginals'
  BY <1>3 DEF DuplicatesFollowOriginals
<1>12. QED
  BY <1>8, <1>9, <1>10, <1>11 DEF GeneratorInv

\* The rates are refused.
LEMMA RejectConfigKeepsGeneratorInv ==
    ASSUME GeneratorInv, RejectConfig
    PROVE  GeneratorInv'
<1>1. stage' = "failed" /\ UNCHANGED <<config, plan, dataset>>
  BY DEF RejectConfig
<1>2. GeneratorTypeOK' /\ PlanIsKept'
  BY <1>1 DEF GeneratorInv, GeneratorTypeOK, PlanIsKept
<1>3. RecordsFollowPlan' /\ DuplicatesFollowOriginals'
  BY <1>1 DEF GeneratorInv, RecordsFollowPlan, DuplicatesFollowOriginals, Duplicates
<1>4. QED
  BY <1>2, <1>3 DEF GeneratorInv

\* The next record of the plan is appended; there are no copies yet.
LEMMA GenerateRecordKeepsGeneratorInv ==
    ASSUME GeneratorInv, GenerateRecord
    PROVE  GeneratorInv'
<1> DEFINE n == Len(dataset)
<1>1. /\ stage = "generating" /\ n < Len(plan)
      /\ UNCHANGED <<config, stage, plan>>
  BY DEF GenerateRecord
<1>2. PICK order \in Orders :
         dataset' = Append(dataset, [scenario |-> plan[n + 1], id |-> n,
                                     key |-> order, source |-> NoSource])
  BY DEF GenerateRecord, BaseIndex
<1> DEFINE r == [scenario |-> plan[n + 1], id |-> n, key |-> order, source |-> NoSource]
<1>3. /\ dataset \in Seq(GeneratedRecord)
      /\ Len(plan) \in Nat /\ DOMAIN plan = 1..Len(plan)
      /\ n \in Nat /\ DOMAIN dataset = 1..n
      /\ \A i \in DOMAIN plan : plan[i] \in Scenarios /\ plan[i] # "duplicate"
  BY SequencesAreIndexed DEF GeneratorInv
<1>4. n + 1 \in DOMAIN plan
  BY <1>1, <1>3
<1>5. r \in GeneratedRecord
  BY <1>3, <1>4 DEF GeneratedRecord
<1>6. /\ r.id = n /\ r.scenario = plan[n + 1] /\ r.scenario # "duplicate"
  BY <1>3, <1>4
<1> HIDE DEF r
<1>7. dataset' = Append(dataset, r)
  BY <1>2 DEF r
<1>8. /\ dataset' \in Seq(GeneratedRecord)
      /\ Len(dataset') = n + 1
      /\ DOMAIN dataset' = 1..(n + 1)
      /\ dataset'[n + 1] = r
      /\ \A i \in 1..n : dataset'[i] = dataset[i]
  BY <1>3, <1>5, <1>7
<1> HIDE DEF n
<1>9. \A i \in 1..n : dataset[i].id = i - 1 /\ dataset[i].scenario # "duplicate"
  BY <1>1, <1>3 DEF GeneratorInv, RecordsFollowPlan, n
<1>10. \A i \in 1..(n + 1) : dataset'[i].id = i - 1 /\ dataset'[i].scenario # "duplicate"
  <2> SUFFICES ASSUME NEW i \in 1..(n + 1)
               PROVE  dataset'[i].id = i - 1 /\ dataset'[i].scenario # "duplicate"
    OBVIOUS
  <2>1. CASE i = n + 1
    BY <1>3, <1>6, <1>8, <2>1
  <2>2. CASE i \in 1..n
    BY <1>8, <1>9, <2>2
  <2>3. QED
    BY <1>3, <2>1, <2>2
<1>11. Duplicates = {} /\ Duplicates' = {}
  BY <1>3, <1>8, <1>9, <1>10 DEF Duplicates
<1>12. GeneratorTypeOK'
  BY <1>1, <1>8 DEF GeneratorInv, GeneratorTypeOK, GeneratedRecord
<1>13. PlanIsKept'
  BY <1>1, ConfigurationStays DEF GeneratorInv, PlanIsKept, IsPlan
<1>14. RecordsFollowPlan'
  <2>1. ASSUME NEW i \in 1..(n + 1)
        PROVE  /\ dataset'[i].id + 1 \in DOMAIN plan
               /\ dataset'[i].scenario = plan[dataset'[i].id + 1]
    <3>1. CASE i = n + 1
      BY <1>3, <1>4, <1>6, <1>8, <3>1
    <3>2. CASE i \in 1..n
      <4>1. i \in DOMAIN dataset \ Duplicates
        BY <1>3, <1>11, <3>2
      <4>2. /\ dataset[i].id + 1 \in DOMAIN plan
            /\ dataset[i].scenario = plan[dataset[i].id + 1]
        BY <4>1 DEF GeneratorInv, RecordsFollowPlan
      <4>3. QED
        BY <1>8, <3>2, <4>2
    <3>3. QED
      BY <1>3, <3>1, <3>2
  <2>2. \A i, j \in 1..(n + 1) : i < j => dataset'[i].id < dataset'[j].id
    BY <1>3, <1>10
  <2>3. ASSUME NEW m \in DOMAIN plan, m <= n + 1
        PROVE  \E i \in 1..(n + 1) : dataset'[i].id + 1 = m
    <3>1. m \in 1..(n + 1)
      BY <1>3, <2>3
    <3>2. dataset'[m].id + 1 = m
      BY <1>10, <3>1
    <3>3. QED
      BY <3>1, <3>2
  <2>4. QED
    BY <1>1, <1>8, <1>10, <1>11, <2>1, <2>2, <2>3 DEF RecordsFollowPlan
<1>15. DuplicatesFollowOriginals'
  BY <1>11 DEF DuplicatesFollowOriginals
<1>16. QED
  BY <1>12, <1>13, <1>14, <1>15 DEF GeneratorInv

\* A copy is inserted behind its original; what stands from there on moves back
\* by one place, originals and copies alike.
LEMMA InsertDuplicateKeepsGeneratorInv ==
    ASSUME GeneratorInv, InsertDuplicate
    PROVE  GeneratorInv'
<1> DEFINE n == Len(dataset)
<1>1. /\ stage = "generating" /\ n >= Len(plan)
      /\ UNCHANGED <<config, stage, plan>>
  BY DEF InsertDuplicate
<1>2. PICK o \in DOMAIN dataset :
         /\ dataset[o].scenario = "valid"
         /\ \E p \in (o + 1)..(n + 1) : dataset' = InsertAt(dataset, p,
                [dataset[o] EXCEPT !.scenario = "duplicate", !.source = dataset[o].id])
  BY DEF InsertDuplicate, IsOriginal, InsertPositions
<1> DEFINE c == [dataset[o] EXCEPT !.scenario = "duplicate", !.source = dataset[o].id]
<1>3. /\ dataset \in Seq(GeneratedRecord)
      /\ Len(plan) \in Nat /\ DOMAIN plan = 1..Len(plan)
      /\ n \in Nat /\ DOMAIN dataset = 1..n
      /\ dataset[o] \in GeneratedRecord
      /\ o \in 1..n
  BY SequencesAreIndexed DEF GeneratorInv
<1>4. /\ c \in GeneratedRecord
      /\ c.scenario = "duplicate" /\ c.source = dataset[o].id
      /\ c.id = dataset[o].id /\ c.key = dataset[o].key
  <2>1. "duplicate" \in Scenarios
    BY DEF Scenarios, Controlled
  <2>2. QED
    BY <1>3, <2>1 DEF GeneratedRecord
<1>5. PICK p \in (o + 1)..(n + 1) : dataset' = InsertAt(dataset, p, c)
  BY <1>2
<1> HIDE DEF c
<1>6. p \in 1..(n + 1) /\ o < p
  BY <1>3
<1>7. /\ dataset' \in Seq(GeneratedRecord)
      /\ Len(dataset') = n + 1
      /\ DOMAIN dataset' = 1..(n + 1)
      /\ dataset'[p] = c
      /\ \A i \in DOMAIN dataset :
           /\ i < p => dataset'[i] = dataset[i]
           /\ i >= p => dataset'[i + 1] = dataset[i]
  <2>1. dataset \in Seq(GeneratedRecord) /\ c \in GeneratedRecord /\ p \in 1..(Len(dataset) + 1)
    BY <1>3, <1>4, <1>6
  <2> HIDE DEF n
  <2>2. /\ InsertAt(dataset, p, c) \in Seq(GeneratedRecord)
        /\ Len(InsertAt(dataset, p, c)) = Len(dataset) + 1
        /\ DOMAIN InsertAt(dataset, p, c) = 1..(Len(dataset) + 1)
        /\ InsertAt(dataset, p, c)[p] = c
        /\ \A i \in DOMAIN dataset :
             /\ i < p => InsertAt(dataset, p, c)[i] = dataset[i]
             /\ i >= p => InsertAt(dataset, p, c)[i + 1] = dataset[i]
    BY <2>1, InsertionShifts
  <2>3. QED
    BY <2>2, <1>5 DEF n
<1> HIDE DEF n
\* Where a record of the old dataset stands in the new one, and back.
<1> DEFINE new(i) == IF i < p THEN i ELSE i + 1
           old(k) == IF k < p THEN k ELSE k - 1
<1>8. \A i \in 1..n : new(i) \in 1..(n + 1) /\ new(i) # p /\ dataset'[new(i)] = dataset[i]
  <2> SUFFICES ASSUME NEW i \in 1..n
               PROVE  new(i) \in 1..(n + 1) /\ new(i) # p /\ dataset'[new(i)] = dataset[i]
    OBVIOUS
  <2>1. CASE i < p
    BY <1>3, <1>6, <1>7, <2>1
  <2>2. CASE ~(i < p)
    BY <1>3, <1>6, <1>7, <2>2
  <2>3. QED
    BY <2>1, <2>2
<1>9. \A k \in 1..(n + 1) : k # p =>
         old(k) \in 1..n /\ k = new(old(k)) /\ dataset'[k] = dataset[old(k)]
  <2> SUFFICES ASSUME NEW k \in 1..(n + 1), k # p
               PROVE  old(k) \in 1..n /\ k = new(old(k)) /\ dataset'[k] = dataset[old(k)]
    OBVIOUS
  <2>1. old(k) \in 1..n /\ k = new(old(k))
    BY <1>3, <1>6
  <2>2. QED
    BY <1>8, <2>1
<1>10. /\ \A i, j \in 1..n : i < j <=> new(i) < new(j)
      /\ \A k, l \in 1..(n + 1) : k # p /\ l # p => (k < l <=> old(k) < old(l))
  BY <1>3, <1>6
<1> HIDE DEF new, old
<1>11. \A k \in DOMAIN dataset' \ Duplicates' :
          /\ k \in 1..(n + 1) /\ k # p
          /\ old(k) \in DOMAIN dataset \ Duplicates
          /\ dataset'[k] = dataset[old(k)]
  BY <1>3, <1>4, <1>7, <1>9 DEF Duplicates
<1>12. \A i \in DOMAIN dataset \ Duplicates :
          new(i) \in DOMAIN dataset' \ Duplicates' /\ dataset'[new(i)] = dataset[i]
  BY <1>3, <1>7, <1>8 DEF Duplicates
<1>13. GeneratorTypeOK'
  BY <1>1, <1>7 DEF GeneratorInv, GeneratorTypeOK, GeneratedRecord
<1>14. PlanIsKept'
  BY <1>1, ConfigurationStays DEF GeneratorInv, PlanIsKept, IsPlan
<1>15. RecordsFollowPlan'
  <2>1. ~(Len(dataset') <= Len(plan'))
    BY <1>1, <1>3, <1>7 DEF n
  <2>2. ASSUME NEW k \in DOMAIN dataset' \ Duplicates'
        PROVE  /\ dataset'[k].id + 1 \in DOMAIN plan
               /\ dataset'[k].scenario = plan[dataset'[k].id + 1]
    BY <1>11 DEF GeneratorInv, RecordsFollowPlan
  <2>3. ASSUME NEW k \in DOMAIN dataset' \ Duplicates', NEW l \in DOMAIN dataset' \ Duplicates',
               k < l
        PROVE  dataset'[k].id < dataset'[l].id
    <3>1. old(k) < old(l)
      BY <1>10, <1>11, <2>3
    <3>2. QED
      BY <1>11, <3>1 DEF GeneratorInv, RecordsFollowPlan
  <2>4. ASSUME NEW m \in DOMAIN plan
        PROVE  \E k \in DOMAIN dataset' \ Duplicates' : dataset'[k].id + 1 = m
    <3>1. m <= Len(dataset)
      BY <1>1, <1>3 DEF n
    <3>2. PICK i \in DOMAIN dataset \ Duplicates : dataset[i].id + 1 = m
      BY <3>1 DEF GeneratorInv, RecordsFollowPlan
    <3>3. QED
      BY <1>12, <3>2
  <2>5. QED
    BY <1>1, <2>1, <2>2, <2>3, <2>4 DEF RecordsFollowPlan
<1>16. DuplicatesFollowOriginals'
  <2> SUFFICES ASSUME NEW k \in Duplicates'
               PROVE  \E i \in 1..(k - 1) :
                        /\ dataset'[i].scenario = "valid"
                        /\ dataset'[i].id = dataset'[k].source
                        /\ dataset'[i].id = dataset'[k].id
                        /\ dataset'[i].key = dataset'[k].key
    BY DEF DuplicatesFollowOriginals
  <2>1. k \in 1..(n + 1) /\ dataset'[k].scenario = "duplicate"
    BY <1>7 DEF Duplicates
  <2>2. CASE k = p
    <3>1. dataset'[o] = dataset[o] /\ o \in 1..(p - 1)
      BY <1>3, <1>6, <1>7
    <3>2. QED
      BY <1>2, <1>4, <1>7, <2>2, <3>1
  <2>3. CASE k # p
    <3>1. /\ old(k) \in 1..n /\ k = new(old(k)) /\ dataset'[k] = dataset[old(k)]
      BY <1>9, <2>1, <2>3
    <3>2. old(k) \in Duplicates
      BY <1>3, <2>1, <3>1 DEF Duplicates
    <3>3. PICK i \in 1..(old(k) - 1) :
             /\ dataset[i].scenario = "valid"
             /\ dataset[i].id = dataset[old(k)].source
             /\ dataset[i].id = dataset[old(k)].id
             /\ dataset[i].key = dataset[old(k)].key
      BY <3>2 DEF GeneratorInv, DuplicatesFollowOriginals
    <3>4. i \in 1..n /\ i < old(k)
      BY <1>3, <3>1
    <3>5. new(i) < k /\ new(i) \in 1..(n + 1) /\ dataset'[new(i)] = dataset[i]
      BY <1>8, <1>10, <3>1, <3>4
    <3>6. new(i) \in 1..(k - 1)
      BY <2>1, <3>5
    <3>7. QED
      BY <3>1, <3>3, <3>5, <3>6
  <2>4. QED
    BY <2>2, <2>3
<1>17. QED
  BY <1>13, <1>14, <1>15, <1>16 DEF GeneratorInv

\* The dataset is handed over with all its copies, or refused.
LEMMA FinishKeepsGeneratorInv ==
    ASSUME GeneratorInv, Finish
    PROVE  GeneratorInv'
<1>1. /\ stage = "generating" /\ stage' \in {"generated", "failed"}
      /\ Len(dataset) >= Len(plan)
      /\ Cardinality(Duplicates) = Count("duplicate")
      /\ UNCHANGED <<config, plan, dataset>>
  BY DEF Finish
<1>2. Number("duplicate")' = Number("duplicate")
      /\ Number("duplicate") = Count("duplicate")
  BY <1>1 DEF Number, Duplicates
<1>3. GeneratorTypeOK'
  BY <1>1 DEF GeneratorInv, GeneratorTypeOK
<1>4. PlanIsKept'
  BY <1>1, <1>2, ConfigurationStays DEF GeneratorInv, PlanIsKept, IsPlan
<1>5. RecordsFollowPlan' /\ DuplicatesFollowOriginals'
  BY <1>1 DEF GeneratorInv, RecordsFollowPlan, DuplicatesFollowOriginals, Duplicates
<1>6. QED
  BY <1>3, <1>4, <1>5 DEF GeneratorInv

\* Steps of the publication do not touch the generator.
LEMMA GeneratorStutters ==
    ASSUME GeneratorInv, UNCHANGED vars
    PROVE  GeneratorInv'
<1>1. UNCHANGED <<config, stage, plan, dataset>>
  BY DEF vars
<1>2. Number("duplicate")' = Number("duplicate")
  BY <1>1 DEF Number
<1>3. GeneratorTypeOK'
  BY <1>1 DEF GeneratorInv, GeneratorTypeOK
<1>4. PlanIsKept'
  BY <1>1, <1>2, ConfigurationStays DEF GeneratorInv, PlanIsKept, IsPlan
<1>5. RecordsFollowPlan' /\ DuplicatesFollowOriginals'
  BY <1>1 DEF GeneratorInv, RecordsFollowPlan, DuplicatesFollowOriginals, Duplicates
<1>6. QED
  BY <1>3, <1>4, <1>5 DEF GeneratorInv

LEMMA NextKeepsGeneratorInv ==
    ASSUME GeneratorInv, [Next]_vars
    PROVE  GeneratorInv'
BY ShuffleKeepsGeneratorInv, RejectConfigKeepsGeneratorInv, GenerateRecordKeepsGeneratorInv,
   InsertDuplicateKeepsGeneratorInv, FinishKeepsGeneratorInv, GeneratorStutters DEF Next

\* A finished dataset has as many records of each scenario as were planned:
\* those that are no copies correspond one to one to the places of the plan.
LEMMA PlanIsCarriedOut == GeneratorInv => DatasetAsPlanned
<1> SUFFICES ASSUME GeneratorInv, stage = "generated"
             PROVE  /\ \A s \in Scenarios : Number(s) = Count(s)
                    /\ \A i, j \in DOMAIN dataset \ Duplicates :
                         i < j => dataset[i].id < dataset[j].id
  BY DEF DatasetAsPlanned
<1>1. /\ config \in Configs /\ ConfigAccepted /\ IsPlan(plan)
      /\ Len(dataset) >= Len(plan)
      /\ Number("duplicate") = Count("duplicate")
  BY DEF GeneratorInv, GeneratorTypeOK, PlanIsKept
<1>2. /\ Len(plan) \in Nat /\ DOMAIN plan = 1..Len(plan)
      /\ Len(dataset) \in Nat /\ DOMAIN dataset = 1..Len(dataset)
      /\ \A i \in DOMAIN dataset : dataset[i].id \in Nat
  BY SequencesAreIndexed DEF GeneratorInv
<1>3. /\ \A i \in DOMAIN dataset \ Duplicates :
           /\ dataset[i].id + 1 \in DOMAIN plan
           /\ dataset[i].scenario = plan[dataset[i].id + 1]
      /\ \A i, j \in DOMAIN dataset \ Duplicates :
           i < j => dataset[i].id < dataset[j].id
      /\ \A n \in DOMAIN plan : \E i \in DOMAIN dataset \ Duplicates : dataset[i].id + 1 = n
  BY <1>1, <1>2 DEF GeneratorInv, RecordsFollowPlan
<1>4. ASSUME NEW s \in Scenarios \ {"duplicate"}
      PROVE  Number(s) = Count(s)
  <2> DEFINE X == {i \in DOMAIN dataset : dataset[i].scenario = s}
             Y == {n \in DOMAIN plan : plan[n] = s}
             g == [i \in X |-> dataset[i].id + 1]
  <2>1. X \subseteq DOMAIN dataset \ Duplicates
    BY DEF Duplicates
  <2>2. IsFiniteSet(X)
    <3>1. X \in SUBSET (1..Len(dataset)) /\ IsFiniteSet(1..Len(dataset))
      BY <1>2, FS_Interval
    <3>2. QED
      BY <3>1, FS_Subset
  <2>3. g \in [X -> Y]
    BY <1>3, <2>1
  <2>4. \A x, y \in X : g[x] = g[y] => x = y
    <3> SUFFICES ASSUME NEW x \in X, NEW y \in X, x # y
                 PROVE  g[x] # g[y]
      OBVIOUS
    <3>1. x \in 1..Len(dataset) /\ y \in 1..Len(dataset) /\ (x < y \/ y < x)
      BY <1>2
    <3>2. dataset[x].id < dataset[y].id \/ dataset[y].id < dataset[x].id
      BY <1>3, <2>1, <3>1
    <3>3. QED
      BY <1>2, <3>1, <3>2
  <2>5. \A n \in Y : \E i \in X : g[i] = n
    BY <1>3, <2>1
  <2> HIDE DEF X, Y, g
  <2>6. Cardinality(X) = Cardinality(Y)
    BY <2>2, <2>3, <2>4, <2>5, SameNumber
  <2>7. Cardinality(Y) = Planned(s)
    BY <1>1 DEF IsPlan, Y
  <2>8. Count(s) \in Nat
    <3>1. CASE s = "valid"
      BY <1>1, <3>1, ValidCountIsTheRest DEF ConfigAccepted, Count
    <3>2. CASE s \in Controlled
      BY <1>1, <3>2, ValidCountIsTheRest
    <3>3. QED
      BY <3>1, <3>2 DEF Scenarios
  <2>9. QED
    BY <2>6, <2>7, <2>8 DEF Number, X, Planned
<1>5. QED
  BY <1>1, <1>3, <1>4

\* Its mix is the configured one up to the truncation of each product.
LEMMA MixIsTruncated == GeneratorInv => MixAsConfigured
<1> SUFFICES ASSUME GeneratorInv, stage = "generated"
             PROVE  /\ \A s \in Controlled :
                         /\ Number(s) * Scale <= Volume * config[s]
                         /\ (Number(s) + 1) * Scale >= Volume * config[s]
                    /\ Number("valid") * Scale >= Volume * (Scale - ErrorRate)
  BY DEF MixAsConfigured
<1>1. config \in Configs /\ config \in [Controlled -> 0..Scale]
  BY GeneratorAssumption DEF GeneratorInv, GeneratorTypeOK
<1>2. \A s \in Scenarios : Number(s) = Count(s)
  BY PlanIsCarriedOut DEF DatasetAsPlanned
<1>3. \A s \in Controlled : Number(s) = RateCount(config[s])
  BY <1>1, <1>2, ValidCountIsTheRest DEF Scenarios
<1>4. Number("valid") = ValidCount
  BY <1>2 DEF Scenarios, Count
<1>5. QED
  BY <1>1, <1>3, <1>4, RateCountIsTruncated, ValidCountIsTheRest

-----------------------------------------------------------------------------
(* The publication of the generated dataset *)

\* The producer with its proofs; main hands over nothing but the generated
\* dataset.
Published == INSTANCE EventProducer_proofs WITH Datasets <- {}

\* Before the publication, or without one, nothing is in the topic; then the
\* producer's invariant holds of the generated dataset.
PublicationInv ==
    \/ /\ records = << >>
       /\ log = [p \in Published!TopicPartitions |-> << >>]
       /\ pc \in {"idle", "dry", "exited"}
       /\ pc = "idle" => Published!ProducerInv
       /\ pc = "exited" => code # 0
    \/ /\ stage = "generated"
       /\ records = dataset
       /\ pc # "idle"
       /\ Published!ProducerInv

RunInv == GeneratorInv /\ PublicationInv

\* The invariant survives a step of the producer alone.
LEMMA PublishKeepsProducerInv ==
    ASSUME Published!ProducerInv, Published!Publish
    PROVE  Published!ProducerInv'
BY Published!NextKeepsProducerInv, RunAssumption DEF Published!Next

LEMMA ProducerStutters ==
    ASSUME Published!ProducerInv, UNCHANGED producerVars
    PROVE  Published!ProducerInv'
<1>1. UNCHANGED Published!vars
  BY DEF producerVars, countVars, Published!vars, Published!clientVars
<1>2. QED
  BY <1>1, Published!NextKeepsProducerInv, RunAssumption

\* A generated dataset can be published.
LEMMA DatasetIsWellKeyed == GeneratorTypeOK => Published!WellKeyed(dataset)
<1> SUFFICES ASSUME GeneratorTypeOK
             PROVE  Published!WellKeyed(dataset)
  OBVIOUS
<1>1. /\ dataset \in Seq(GeneratedRecord)
      /\ Len(dataset) \in Nat /\ DOMAIN dataset = 1..Len(dataset)
      /\ \A i \in DOMAIN dataset : dataset[i].key \in Orders
  BY SequencesAreIndexed
<1>2. dataset \in Seq({dataset[i] : i \in DOMAIN dataset})
  BY <1>1
<1>3. QED
  BY <1>1, <1>2, RunAssumption DEF Published!WellKeyed

\* The steps of main are those of the producer.
LEMMA StepsAreTheProducers ==
    /\ Producer!Start(dataset) => Published!Start(dataset)
    /\ Producer!Publish => Published!Publish
<1> USE DEF Producer!Exit, Published!Exit, Producer!Fault, Published!Fault
<1>1. Producer!Start(dataset) => Published!Start(dataset)
  BY DEF Producer!Start, Published!Start
<1>2. /\ \A S : Producer!Cardinality(S) = Published!Cardinality(S)
      /\ \A S : Producer!InStatus(S) = Published!InStatus(S)
      /\ Producer!Outstanding = Published!Outstanding
  BY DEF Producer!Cardinality, Published!Cardinality,
         Producer!InStatus, Published!InStatus,
         Producer!Outstanding, Published!Outstanding
<1>3. Producer!Produce => Published!Produce
  BY <1>2 DEF Producer!Produce, Published!Produce
<1>4. Producer!QueueFull => Published!QueueFull
  BY <1>2 DEF Producer!QueueFull, Published!QueueFull,
              Producer!CountRetry, Published!CountRetry
<1>5. Producer!ProduceFails => Published!ProduceFails
  BY DEF Producer!ProduceFails, Published!ProduceFails
<1>6. Producer!ServeReports => Published!ServeReports
  <2>1. \A state : Producer!AfterReport(state) = Published!AfterReport(state)
    BY DEF Producer!AfterReport, Published!AfterReport
  <2>2. QED
    BY <1>2, <2>1 DEF Producer!ServeReports, Published!ServeReports
<1>7. Producer!Poll => Published!Poll
  BY <1>6 DEF Producer!Poll, Published!Poll
<1>8. Producer!FlushServes => Published!FlushServes
  BY <1>2, <1>6 DEF Producer!FlushServes, Published!FlushServes
<1>9. Producer!FlushReturns => Published!FlushReturns
  BY <1>2 DEF Producer!FlushReturns, Published!FlushReturns,
              Producer!Succeeded, Published!Succeeded
<1>10. Producer!Interrupt => Published!Interrupt
  BY DEF Producer!Interrupt, Published!Interrupt
<1>11. ASSUME NEW i
       PROVE  Producer!BrokerAppends(i) => Published!BrokerAppends(i)
  BY DEF Producer!BrokerAppends, Published!BrokerAppends,
         Producer!MayAppend, Published!MayAppend,
         Producer!Idempotence, Published!Idempotence,
         Producer!Copies, Published!Copies,
         Producer!PartitionOf, Published!PartitionOf,
         Producer!clientVars, Published!clientVars
<1>12. ASSUME NEW i
       PROVE  Producer!BrokerAcks(i) => Published!BrokerAcks(i)
  BY DEF Producer!BrokerAcks, Published!BrokerAcks,
         Producer!Copies, Published!Copies,
         Producer!PartitionOf, Published!PartitionOf,
         Producer!clientVars, Published!clientVars
<1>13. ASSUME NEW i
       PROVE  Producer!MessageExpires(i) => Published!MessageExpires(i)
  BY DEF Producer!MessageExpires, Published!MessageExpires,
         Producer!clientVars, Published!clientVars
<1>14. QED
  BY <1>1, <1>3, <1>4, <1>5, <1>7, <1>8, <1>9, <1>10, <1>11, <1>12, <1>13
     DEF Producer!Publish, Published!Publish

\* A publication is of one dataset; without records nothing but an interrupt is
\* left to happen.
LEMMA PublicationGoesOn ==
    ASSUME Published!Publish
    PROVE  /\ records' = records
           /\ pc # "idle" => pc' # "idle"
           /\ records = << >> /\ pc \in {"idle", "dry", "exited"} =>
                pc = "dry" /\ pc' = "exited" /\ code' = 130 /\ log' = log
<1>1. CASE Published!Produce
  BY <1>1 DEF Published!Produce
<1>2. CASE Published!QueueFull
  BY <1>2 DEF Published!QueueFull, Published!Exit
<1>3. CASE Published!ProduceFails
  BY <1>3 DEF Published!ProduceFails, Published!Exit
<1>4. CASE Published!Poll
  BY <1>4 DEF Published!Poll
<1>5. CASE Published!FlushServes
  BY <1>5 DEF Published!FlushServes
<1>6. CASE Published!FlushReturns
  BY <1>6 DEF Published!FlushReturns, Published!Exit
<1>7. CASE Published!Interrupt
  BY <1>7 DEF Published!Interrupt, Published!Exit
<1>8. CASE \E i \in DOMAIN records : Published!BrokerAppends(i)
  BY <1>8 DEF Published!BrokerAppends, Published!clientVars
<1>9. CASE \E i \in DOMAIN records : Published!BrokerAcks(i)
  BY <1>9 DEF Published!BrokerAcks, Published!clientVars
<1>10. CASE \E i \in DOMAIN records : Published!MessageExpires(i)
  BY <1>10 DEF Published!MessageExpires, Published!clientVars
<1>11. QED
  BY <1>1, <1>2, <1>3, <1>4, <1>5, <1>6, <1>7, <1>8, <1>9, <1>10 DEF Published!Publish

\* A run begins with an idle producer and an empty topic.
LEMMA RunInitEstablishesRunInv == RunInit => RunInv
<1> SUFFICES ASSUME RunInit
             PROVE  RunInv
  OBVIOUS
<1>1. GeneratorInv
  BY InitEstablishesGeneratorInv DEF RunInit
<1>2. Published!Init
  BY DEF RunInit, Producer!Init, Published!Init, Producer!TopicPartitions,
         Published!TopicPartitions, Producer!Running, Published!Running
<1>3. Published!ProducerInv
  BY <1>2, Published!InitEstablishesProducerInv, RunAssumption
<1>4. QED
  BY <1>1, <1>2, <1>3 DEF RunInv, PublicationInv, Published!Init

\* Every step of main keeps the invariant.
LEMMA RunNextKeepsRunInv ==
    ASSUME RunInv, [RunNext]_runVars
    PROVE  RunInv'
<1>1. GeneratorInv /\ PublicationInv
  BY DEF RunInv
<1>2. CASE Generate
  <2>1. pc = "idle" /\ Next /\ UNCHANGED producerVars
    BY <1>2 DEF Generate
  <2>2. GeneratorInv'
    BY <1>1, <2>1, NextKeepsGeneratorInv
  <2>3. records = << >> /\ log = [p \in Published!TopicPartitions |-> << >>]
        /\ Published!ProducerInv
    BY <1>1, <2>1 DEF PublicationInv
  <2>4. Published!ProducerInv'
    BY <2>1, <2>3, ProducerStutters
  <2>5. QED
    BY <2>1, <2>2, <2>3, <2>4 DEF RunInv, PublicationInv, producerVars, countVars
<1>3. CASE Publish
  <2>1. stage = "generated" /\ UNCHANGED <<config, stage, plan, dataset>>
    BY <1>3 DEF Publish, generatorVars
  <2>2. GeneratorInv'
    BY <1>1, <2>1, GeneratorStutters DEF vars
  <2>3. CASE Producer!Start(dataset)
    <3>1. Published!Start(dataset)
      BY <2>3, StepsAreTheProducers
    <3>2. pc = "idle" /\ records' = dataset /\ pc' # "idle"
      BY <3>1 DEF Published!Start
    <3>3. Published!ProducerInv
      BY <1>1, <3>2 DEF PublicationInv
    <3>4. Published!ProducerInv'
      BY <1>1, <3>1, <3>3, Published!StartKeepsProducerInv, DatasetIsWellKeyed, RunAssumption
         DEF GeneratorInv
    <3>5. QED
      BY <2>1, <2>2, <3>2, <3>4 DEF RunInv, PublicationInv
  <2>4. CASE Producer!Publish
    <3>1. Published!Publish
      BY <2>4, StepsAreTheProducers
    <3>2. CASE records = << >> /\ log = [p \in Published!TopicPartitions |-> << >>]
               /\ pc \in {"idle", "dry", "exited"}
      <4>1. records' = << >> /\ pc' = "exited" /\ code' = 130 /\ log' = log
        BY <3>1, <3>2, PublicationGoesOn
      <4>2. QED
        BY <2>2, <3>2, <4>1 DEF RunInv, PublicationInv
    <3>3. CASE records = dataset /\ pc # "idle" /\ Published!ProducerInv
      <4>1. Published!ProducerInv' /\ records' = records /\ pc' # "idle"
        BY <3>1, <3>3, PublishKeepsProducerInv, PublicationGoesOn
      <4>2. QED
        BY <2>1, <2>2, <3>3, <4>1 DEF RunInv, PublicationInv
    <3>4. QED
      BY <1>1, <3>2, <3>3 DEF PublicationInv
  <2>5. QED
    BY <1>3, <2>3, <2>4 DEF Publish
<1>4. CASE DryRun
  <2>1. /\ pc = "idle" /\ pc' = "dry"
        /\ UNCHANGED <<records, log>> /\ UNCHANGED vars
    BY <1>4 DEF DryRun, generatorVars, countVars, vars
  <2>2. QED
    BY <1>1, <2>1, GeneratorStutters DEF RunInv, PublicationInv
<1>5. CASE GenerationFails
  <2>1. /\ pc = "idle" /\ pc' = "exited" /\ code' = 1
        /\ UNCHANGED <<records, log>> /\ UNCHANGED vars
    BY <1>5 DEF GenerationFails, generatorVars, countVars, vars
  <2>2. QED
    BY <1>1, <2>1, GeneratorStutters DEF RunInv, PublicationInv
<1>6. CASE UNCHANGED runVars
  <2>1. UNCHANGED vars /\ UNCHANGED producerVars
        /\ UNCHANGED <<stage, dataset, records, log, pc, code>>
    BY <1>6 DEF runVars, generatorVars, producerVars, countVars, vars
  <2>2. Published!ProducerInv => Published!ProducerInv'
    BY <2>1, ProducerStutters
  <2>3. QED
    BY <1>1, <2>1, <2>2, GeneratorStutters DEF RunInv, PublicationInv
<1>7. QED
  BY <1>2, <1>3, <1>4, <1>5, <1>6 DEF RunNext

\* The copy's original is in the same partition and was handed to the client
\* before it; unless its delivery failed it is in the topic, and before.
LEMMA OriginalComesFirst == RunInv => DuplicateAfterOriginalInTopic
<1> SUFFICES ASSUME RunInv, NEW p \in DOMAIN log, NEW n \in DOMAIN log[p],
                    records[log[p][n]].scenario = "duplicate"
             PROVE  \/ \E m \in 1..(n - 1) :
                         /\ records[log[p][m]].scenario = "valid"
                         /\ records[log[p][m]].id = records[log[p][n]].source
                    \/ \E i \in DOMAIN records :
                         /\ records[i].scenario = "valid"
                         /\ records[i].id = records[log[p][n]].source
                         /\ status[i] \in {"failed", "reported"}
  BY DEF DuplicateAfterOriginalInTopic
<1> DEFINE j == log[p][n]
<1>1. /\ GeneratorInv
      /\ records = dataset
      /\ Published!ProducerInv
  BY DEF RunInv, PublicationInv
<1>2. /\ Len(dataset) \in Nat /\ DOMAIN dataset = 1..Len(dataset)
  BY <1>1, SequencesAreIndexed DEF GeneratorInv
<1>3. /\ log \in [Published!TopicPartitions -> Seq(DOMAIN records)]
      /\ status \in [DOMAIN records -> {"new", "queued", "acked", "failed",
                                        "delivered", "reported"}]
      /\ next \in Nat
  <2>1. Published!TypeOK
    BY <1>1 DEF Published!ProducerInv
  <2>2. QED
    BY <1>1, <1>2, <2>1 DEF Published!TypeOK
<1>4. /\ p \in Published!TopicPartitions
      /\ DOMAIN log[p] = 1..Len(log[p]) /\ Len(log[p]) \in Nat
      /\ \A m \in DOMAIN log[p] : log[p][m] \in DOMAIN records
  BY <1>3
<1>5. j \in DOMAIN dataset /\ j \in Duplicates
  BY <1>1, <1>4 DEF Duplicates
<1>6. PICK i \in 1..(j - 1) :
         /\ dataset[i].scenario = "valid"
         /\ dataset[i].id = dataset[j].source
         /\ dataset[i].key = dataset[j].key
  BY <1>1, <1>5 DEF GeneratorInv, DuplicatesFollowOriginals
<1>7. i \in DOMAIN records /\ i < j
  BY <1>1, <1>2, <1>5
<1>8. /\ j < next
      /\ Published!PartitionOf(j) = p
      /\ Published!PartitionOf(i) = p /\ status[i] = "queued" => Published!Copies(i) # {}
  BY <1>1, <1>4 DEF Published!ProducerInv, Published!TopicIsSound
<1>9. Published!PartitionOf(i) = p
  BY <1>1, <1>6, <1>8 DEF Published!PartitionOf
<1>10. status[i] # "new"
  <2>1. status[i] = "new" <=> i >= next
    BY <1>1, <1>7 DEF Published!ProducerInv, Published!ReportsAreCounted
  <2>2. QED
    BY <1>1, <1>2, <1>3, <1>5, <1>7, <1>8, <2>1
<1>11. CASE Published!Copies(i) # {}
  <2>1. PICK m \in DOMAIN log[p] : log[p][m] = i
    BY <1>9, <1>11 DEF Published!Copies
  <2>2. ~(n < m)
    <3>1. n < m => j < i
      BY <1>1, <1>4, <2>1 DEF Published!ProducerInv, Published!PartitionOrderKept
    <3>2. QED
      BY <1>1, <1>2, <1>5, <1>7, <3>1
  <2>3. m # n
    BY <1>1, <1>2, <1>5, <1>7, <2>1
  <2>4. m \in 1..(n - 1)
    BY <1>4, <2>2, <2>3
  <2>5. QED
    BY <1>1, <1>6, <2>1, <2>4
<1>12. CASE Published!Copies(i) = {}
  <2>1. status[i] \notin {"queued", "acked", "delivered"}
    <3>1. i \in Published!InStatus({"acked", "delivered"}) => Published!Copies(i) # {}
      BY <1>1 DEF Published!ProducerInv, Published!TopicIsSound
    <3>2. QED
      BY <1>7, <1>8, <1>9, <1>12, <3>1 DEF Published!InStatus
  <2>2. status[i] \in {"failed", "reported"}
    BY <1>3, <1>7, <1>10, <2>1
  <2>3. QED
    BY <1>1, <1>6, <1>7, <2>2
<1>13. QED
  BY <1>11, <1>12

\* Exit code 0 of a run that was no dry one: the whole dataset, in the
\* configured mix, is in the topic.
MixIsPublished ==
    pc = "exited" /\ code = 0 =>
        /\ stage = "generated" /\ records = dataset
        /\ \A s \in Scenarios : Number(s) = Count(s)
        /\ \A i \in DOMAIN dataset :
             \E n \in DOMAIN log[PartitionFor[dataset[i].key]] :
                 log[PartitionFor[dataset[i].key]][n] = i

LEMMA SuccessPublishesTheMix == RunInv => MixIsPublished
<1> SUFFICES ASSUME RunInv, pc = "exited", code = 0
             PROVE  /\ stage = "generated" /\ records = dataset
                    /\ \A s \in Scenarios : Number(s) = Count(s)
                    /\ \A i \in DOMAIN dataset :
                         \E n \in DOMAIN log[PartitionFor[dataset[i].key]] :
                             log[PartitionFor[dataset[i].key]][n] = i
  BY DEF MixIsPublished
<1>1. /\ GeneratorInv
      /\ stage = "generated" /\ records = dataset
      /\ Published!ProducerInv
  BY DEF RunInv, PublicationInv
<1>2. \A s \in Scenarios : Number(s) = Count(s)
  BY <1>1, PlanIsCarriedOut DEF DatasetAsPlanned
<1>3. Published!ExitZeroMeansPublished
  BY <1>1, Published!SuccessIsPublished, RunAssumption
<1>4. \A i \in DOMAIN records : Published!Copies(i) # {}
  BY <1>3 DEF Published!ExitZeroMeansPublished
<1>5. QED
  BY <1>1, <1>2, <1>4 DEF Published!Copies, Published!PartitionOf

-----------------------------------------------------------------------------
(* Theorems *)

\* The generator's invariant and the producer's hold together in every
\* reachable state of main.
THEOREM RunInvHolds == RunSpec => []RunInv
BY RunInitEstablishesRunInv, RunNextKeepsRunInv, PTL DEF RunSpec

\* Wherever later copies are inserted, each stands behind its original
\* (BadEventGenerator.generate).
THEOREM CopiesFollowOriginals == RunSpec => []DuplicatesFollowOriginals
<1>1. RunInv => DuplicatesFollowOriginals
  BY DEF RunInv, GeneratorInv
<1>2. QED
  BY <1>1, RunInvHolds, PTL

\* A dataset has exactly the planned number of each scenario, in the order of
\* the plan (the shuffle, the exchange and the insertions).
THEOREM PlanIsKeptTo == RunSpec => []DatasetAsPlanned
<1>1. RunInv => DatasetAsPlanned
  BY PlanIsCarriedOut DEF RunInv
<1>2. QED
  BY <1>1, RunInvHolds, PTL

\* The mix is the configured one up to truncation, for every volume and all
\* rates that are accepted (calculate_scenario_counts).
THEOREM MixIsAsConfigured == RunSpec => []MixAsConfigured
<1>1. RunInv => MixAsConfigured
  BY MixIsTruncated DEF RunInv
<1>2. QED
  BY <1>1, RunInvHolds, PTL

\* In the topic as well, a copy comes after its original or the original's
\* delivery failed.
THEOREM CopiesFollowOriginalsInTopic == RunSpec => []DuplicateAfterOriginalInTopic
<1>1. RunInv => DuplicateAfterOriginalInTopic
  BY OriginalComesFirst
<1>2. QED
  BY <1>1, RunInvHolds, PTL

\* Exit code 0 says that the whole configured mix is in the topic.
THEOREM ExitZeroPublishesTheMix == RunSpec => []MixIsPublished
<1>1. RunInv => MixIsPublished
  BY SuccessPublishesTheMix
<1>2. QED
  BY <1>1, RunInvHolds, PTL

=============================================================================

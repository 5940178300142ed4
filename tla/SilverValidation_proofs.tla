----------------------- MODULE SilverValidation_proofs -----------------------
(***************************************************************************)
(* Proofs about SilverValidation for every set of events, with any number   *)
(* of fields off.  The first part turns the ordered list of checks into one *)
(* conditional (ReasonOfEvent) and that into a contract (Conforms); the     *)
(* second compares it with the catalogue of the documentation; the          *)
(* invariant only says what each stage has left behind.                     *)
(***************************************************************************)
EXTENDS SilverValidation, TLAPS, SequenceTheorems, WellFoundedInduction

-----------------------------------------------------------------------------
(* The first broken check of a list *)

\* FirstBroken is the answer of the first check that has one.
LEMMA FirstBrokenIsFirst ==
    ASSUME NEW S, NEW s \in Seq(S)
    PROVE  /\ FirstBroken(s) = None <=> \A n \in 1..Len(s) : s[n] = None
           /\ \A k \in 1..Len(s) :
                 s[k] # None /\ (\A n \in 1..(k - 1) : s[n] = None)
                     => FirstBroken(s) = s[k]
           /\ FirstBroken(s) # None => \E k \in 1..Len(s) :
                 /\ s[k] # None /\ \A n \in 1..(k - 1) : s[n] = None
                 /\ FirstBroken(s) = s[k]
<1> DEFINE B == {n \in DOMAIN s : s[n] # None}
<1>1. Len(s) \in Nat /\ DOMAIN s = 1..Len(s)
  OBVIOUS
<1>2. B = {} <=> \A n \in 1..Len(s) : s[n] = None
  BY <1>1
<1>3. ASSUME NEW k \in 1..Len(s), s[k] # None, \A n \in 1..(k - 1) : s[n] = None
      PROVE  B # {} /\ Min(B) = k
  <2>1. k \in B /\ \A n \in B : k <= n
    BY <1>1, <1>3
  <2>2. Min(B) \in B /\ \A n \in B : Min(B) <= n
    BY <2>1 DEF Min
  <2>3. Min(B) \in Int /\ k \in Int
    BY <1>1, <2>2
  <2> HIDE DEF B
  <2>4. QED
    BY <2>1, <2>2, <2>3
<1>4. ASSUME B # {}
      PROVE  /\ FirstBroken(s) # None
             /\ \E k \in 1..Len(s) :
                   /\ s[k] # None /\ \A n \in 1..(k - 1) : s[n] = None
                   /\ FirstBroken(s) = s[k]
  <2>1. B \subseteq Nat /\ B # {}
    BY <1>1, <1>4
  <2>2. PICK m \in B : \A n \in B : ~ (<<n, m>> \in OpToRel(<, Nat))
    BY <2>1, WFMin, NatLessThanWellFounded
  <2>3. \A n \in B : ~ (n < m)
    BY <2>1, <2>2 DEF OpToRel
  <2>4. \A n \in B : m <= n
    <3> HIDE DEF B
    <3>1. QED
      BY <2>1, <2>3
  <2>5. Min(B) \in B
    BY <2>4 DEF Min
  <2>6. s[Min(B)] # None
    BY <2>5
  <2>7. m \in 1..Len(s) /\ s[m] # None /\ \A n \in 1..(m - 1) : s[n] = None
    <3> SUFFICES ASSUME NEW n \in 1..(m - 1), s[n] # None
                 PROVE  FALSE
      BY <1>1
    <3>1. m \in Nat /\ m <= Len(s)
      BY <1>1
    <3>2. n \in B /\ n < m
      BY <1>1, <3>1
    <3>3. QED
      BY <2>3, <3>2
  <2>8. FirstBroken(s) # None /\ FirstBroken(s) = s[m]
    BY <1>3, <1>4, <2>6, <2>7 DEF FirstBroken
  <2>9. QED
    BY <2>7, <2>8
<1>5. B = {} => FirstBroken(s) = None
  BY DEF FirstBroken
<1>6. \A k \in 1..Len(s) :
          s[k] # None /\ (\A n \in 1..(k - 1) : s[n] = None)
              => FirstBroken(s) = s[k]
  BY <1>3 DEF FirstBroken
<1>7. QED
  BY <1>2, <1>4, <1>5, <1>6

\* In two lists after one another the second counts when nothing is broken in
\* the first.
LEMMA FirstBrokenOfJoin ==
    ASSUME NEW S, NEW s \in Seq(S), NEW t \in Seq(S)
    PROVE  /\ s \o t \in Seq(S)
           /\ FirstBroken(s \o t) =
                 IF FirstBroken(s) = None THEN FirstBroken(t) ELSE FirstBroken(s)
<1> DEFINE j == s \o t
<1>1. /\ Len(s) \in Nat /\ Len(t) \in Nat /\ Len(j) = Len(s) + Len(t)
      /\ DOMAIN s = 1..Len(s) /\ DOMAIN t = 1..Len(t) /\ DOMAIN j = 1..Len(j)
      /\ \A n \in 1..Len(s) : j[n] = s[n]
      /\ \A n \in 1..Len(t) : j[Len(s) + n] = t[n]
      /\ \A n \in 1..Len(j) : n > Len(s) => n - Len(s) \in 1..Len(t) /\ j[n] = t[n - Len(s)]
      /\ j \in Seq(S)
  OBVIOUS
<1> HIDE DEF j
<1>2. CASE FirstBroken(s) # None
  <2>1. PICK k \in 1..Len(s) : /\ s[k] # None /\ \A n \in 1..(k - 1) : s[n] = None
                              /\ FirstBroken(s) = s[k]
    BY <1>2, FirstBrokenIsFirst
  <2>2. k \in 1..Len(j) /\ j[k] = s[k] /\ \A n \in 1..(k - 1) : j[n] = s[n]
    BY <1>1
  <2>3. FirstBroken(j) = j[k]
    BY <1>1, <2>1, <2>2, FirstBrokenIsFirst
  <2>4. QED
    BY <1>1, <1>2, <2>1, <2>2, <2>3 DEF j
<1>3. CASE FirstBroken(s) = None /\ FirstBroken(t) # None
  <2>1. PICK k \in 1..Len(t) : /\ t[k] # None /\ \A n \in 1..(k - 1) : t[n] = None
                              /\ FirstBroken(t) = t[k]
    BY <1>3, FirstBrokenIsFirst
  <2>2. \A n \in 1..Len(s) : s[n] = None
    BY <1>3, FirstBrokenIsFirst
  <2>3. Len(s) + k \in 1..Len(j) /\ j[Len(s) + k] = t[k]
    BY <1>1
  <2>4. ASSUME NEW n \in 1..(Len(s) + k - 1)
        PROVE  j[n] = None
    <3>1. CASE n <= Len(s)
      <4>1. n \in 1..Len(s)
        BY <1>1, <3>1
      <4>2. QED
        BY <1>1, <2>2, <4>1
    <3>2. CASE n > Len(s)
      <4>1. n \in 1..Len(j) /\ n - Len(s) \in 1..(k - 1)
        BY <1>1, <3>2
      <4>2. QED
        BY <1>1, <2>1, <3>2, <4>1
    <3>3. QED
      BY <1>1, <3>1, <3>2
  <2>5. FirstBroken(j) = j[Len(s) + k]
    <3>1. \A i \in 1..Len(j) : j[i] # None /\ (\A n \in 1..(i - 1) : j[n] = None)
              => FirstBroken(j) = j[i]
      BY <1>1, FirstBrokenIsFirst
    <3>2. Len(s) + k \in 1..Len(j) /\ j[Len(s) + k] # None
      BY <2>1, <2>3
    <3>3. QED
      BY <2>4, <3>1, <3>2
  <2>6. QED
    BY <1>1, <1>3, <2>1, <2>3, <2>5 DEF j
<1>4. CASE FirstBroken(s) = None /\ FirstBroken(t) = None
  <2>1. /\ \A n \in 1..Len(s) : s[n] = None
        /\ \A n \in 1..Len(t) : t[n] = None
    BY <1>4, FirstBrokenIsFirst
  <2>2. ASSUME NEW n \in 1..Len(j)
        PROVE  j[n] = None
    <3>1. CASE n <= Len(s)
      <4>1. n \in 1..Len(s)
        BY <1>1, <3>1
      <4>2. QED
        BY <1>1, <2>1, <4>1
    <3>2. CASE n > Len(s)
      BY <1>1, <2>1, <3>2
    <3>3. QED
      BY <1>1, <3>1, <3>2
  <2>3. FirstBroken(j) = None
    BY <1>1, <2>2, FirstBrokenIsFirst
  <2>4. QED
    BY <1>1, <1>4, <2>3 DEF j
<1>5. QED
  BY <1>2, <1>3, <1>4

\* The lists of the code, and their parts, have up to six checks.
LEMMA FirstBrokenOfMore ==
    ASSUME NEW S, NEW c \in S, NEW t \in Seq(S)
    PROVE  /\ <<c>> \o t \in Seq(S)
           /\ FirstBroken(<<c>> \o t) = IF c # None THEN c ELSE FirstBroken(t)
<1>1. /\ <<c>> \in Seq(S)
      /\ FirstBroken(<<c>>) = c
  <2> DEFINE s == <<c>>
  <2>1. s \in Seq(S) /\ Len(s) = 1 /\ s[1] = c
    OBVIOUS
  <2> HIDE DEF s
  <2>2. FirstBroken(s) = c
    <3>1. /\ FirstBroken(s) = None <=> \A n \in 1..1 : s[n] = None
          /\ s[1] # None /\ (\A n \in 1..(1 - 1) : s[n] = None) => FirstBroken(s) = s[1]
      BY <2>1, FirstBrokenIsFirst
    <3>2. QED
      BY <2>1, <3>1
  <2>3. QED
    BY <2>1, <2>2 DEF s
<1>2. QED
  BY <1>1, FirstBrokenOfJoin

LEMMA FirstBrokenOfThree ==
    ASSUME NEW S, NEW a \in S, NEW b \in S, NEW c \in S
    PROVE  /\ <<a, b, c>> \in Seq(S)
           /\ FirstBroken(<<a, b, c>>) =
                 IF a # None THEN a ELSE IF b # None THEN b ELSE c
<1> DEFINE s == <<a, b, c>>
<1>1. s \in Seq(S) /\ Len(s) = 3 /\ s[1] = a /\ s[2] = b /\ s[3] = c
  OBVIOUS
<1> HIDE DEF s
<1>2. FirstBroken(s) = IF a # None THEN a ELSE IF b # None THEN b ELSE c
  BY <1>1, FirstBrokenIsFirst
<1>3. QED
  BY <1>1, <1>2 DEF s

LEMMA FirstBrokenOfSix ==
    ASSUME NEW S, NEW a \in S, NEW b \in S, NEW c \in S,
           NEW d \in S, NEW e \in S, NEW f \in S
    PROVE  /\ <<a, b, c, d, e, f>> \in Seq(S)
           /\ FirstBroken(<<a, b, c, d, e, f>>) =
                 IF a # None THEN a ELSE IF b # None THEN b ELSE IF c # None THEN c
                 ELSE IF d # None THEN d ELSE IF e # None THEN e ELSE f
<1>1. /\ <<a, b, c, d, e, f>> = <<a, b, c>> \o <<d, e, f>>
      /\ <<a, b, c, d, e, f>> \in Seq(S)
  OBVIOUS
<1>2. /\ <<a, b, c>> \in Seq(S) /\ <<d, e, f>> \in Seq(S)
      /\ FirstBroken(<<a, b, c>>) = IF a # None THEN a ELSE IF b # None THEN b ELSE c
      /\ FirstBroken(<<d, e, f>>) = IF d # None THEN d ELSE IF e # None THEN e ELSE f
  BY FirstBrokenOfThree
<1>3. FirstBroken(<<a, b, c>> \o <<d, e, f>>) =
          IF FirstBroken(<<a, b, c>>) = None THEN FirstBroken(<<d, e, f>>)
          ELSE FirstBroken(<<a, b, c>>)
  BY <1>2, FirstBrokenOfJoin
<1>4. QED
  BY <1>1, <1>2, <1>3

LEMMA FirstBrokenOfFour ==
    ASSUME NEW S, NEW c \in S, NEW d \in S, NEW e \in S, NEW f \in S
    PROVE  /\ <<c, d, e, f>> \in Seq(S)
           /\ FirstBroken(<<c, d, e, f>>) =
                 IF c # None THEN c ELSE IF d # None THEN d ELSE IF e # None THEN e ELSE f
<1>1. /\ <<c, d, e, f>> = <<c>> \o <<d, e, f>>
      /\ <<c, d, e, f>> \in Seq(S)
  OBVIOUS
<1>2. /\ <<d, e, f>> \in Seq(S)
      /\ FirstBroken(<<d, e, f>>) = IF d # None THEN d ELSE IF e # None THEN e ELSE f
  BY FirstBrokenOfThree
<1>3. FirstBroken(<<c>> \o <<d, e, f>>) = IF c # None THEN c ELSE FirstBroken(<<d, e, f>>)
  BY <1>2, FirstBrokenOfMore
<1>4. QED
  BY <1>1, <1>2, <1>3

LEMMA FirstBrokenOfFive ==
    ASSUME NEW S, NEW b \in S, NEW c \in S, NEW d \in S, NEW e \in S, NEW f \in S
    PROVE  /\ <<b, c, d, e, f>> \in Seq(S)
           /\ FirstBroken(<<b, c, d, e, f>>) =
                 IF b # None THEN b ELSE IF c # None THEN c
                 ELSE IF d # None THEN d ELSE IF e # None THEN e ELSE f
<1>1. /\ <<b, c, d, e, f>> = <<b>> \o <<c, d, e, f>>
      /\ <<b, c, d, e, f>> \in Seq(S)
  OBVIOUS
<1>2. /\ <<c, d, e, f>> \in Seq(S)
      /\ FirstBroken(<<c, d, e, f>>) =
            IF c # None THEN c ELSE IF d # None THEN d ELSE IF e # None THEN e ELSE f
  BY FirstBrokenOfFour
<1>3. FirstBroken(<<b>> \o <<c, d, e, f>>) =
          IF b # None THEN b ELSE FirstBroken(<<c, d, e, f>>)
  BY <1>2, FirstBrokenOfMore
<1>4. QED
  BY <1>1, <1>2, <1>3

-----------------------------------------------------------------------------
(* validate_event as one conditional *)

\* The reason codes of validate_event.
EventReasons == {
    "MISSING_SCHEMA_VERSION", "UNSUPPORTED_SCHEMA_VERSION", "MISSING_EVENT_ID",
    "INVALID_EVENT_ID", "MISSING_EVENT_TYPE", "INVALID_EVENT_TYPE",
    "MISSING_EVENT_TIME", "INVALID_EVENT_TIME", "MISSING_PRODUCER_TIME",
    "INVALID_PRODUCER_TIME", "PRODUCER_TIME_BEFORE_EVENT_TIME",
    "MISSING_REQUIRED_FIELD", "INVALID_REQUIRED_FIELD",
    "AMOUNT_CURRENCY_MISMATCH", "INVALID_AMOUNT", "NEGATIVE_AMOUNT",
    "INVALID_CURRENCY", "MISSING_PAYMENT_ID", "INVALID_PAYMENT_ID",
    "MISSING_PAYMENT_DETAILS", None}

IdentityReason(e) ==
    IF IsMissing(e.schema_version) THEN "MISSING_SCHEMA_VERSION"
    ELSE IF e.schema_version # "1.0" THEN "UNSUPPORTED_SCHEMA_VERSION"
    ELSE IF IsMissing(e.event_id) THEN "MISSING_EVENT_ID"
    ELSE IF e.event_id # "uuid" THEN "INVALID_EVENT_ID"
    ELSE IF IsMissing(e.event_type) THEN "MISSING_EVENT_TYPE"
    ELSE IF e.event_type \notin {"order", "payment"} THEN "INVALID_EVENT_TYPE"
    ELSE None

LEMMA IdentityChecksGive ==
    ASSUME NEW e
    PROVE  /\ IdentityChecks(e) \in Seq(EventReasons)
           /\ FirstBroken(IdentityChecks(e)) = IdentityReason(e)
<1> DEFINE a == Check(IsMissing(e.schema_version), "MISSING_SCHEMA_VERSION")
           b == Check(e.schema_version # "1.0", "UNSUPPORTED_SCHEMA_VERSION")
           c == Check(IsMissing(e.event_id), "MISSING_EVENT_ID")
           d == Check(e.event_id # "uuid", "INVALID_EVENT_ID")
           f == Check(IsMissing(e.event_type), "MISSING_EVENT_TYPE")
           g == Check(e.event_type \notin {"order", "payment"}, "INVALID_EVENT_TYPE")
<1>1. /\ a \in EventReasons /\ b \in EventReasons /\ c \in EventReasons
      /\ d \in EventReasons /\ f \in EventReasons /\ g \in EventReasons
  BY DEF Check, EventReasons
<1>2. IdentityChecks(e) = <<a, b, c, d, f, g>>
  BY DEF IdentityChecks
<1>3. IdentityReason(e) =
          IF a # None THEN a ELSE IF b # None THEN b ELSE IF c # None THEN c
          ELSE IF d # None THEN d ELSE IF f # None THEN f ELSE g
  BY DEF IdentityReason, Check, None
<1> HIDE DEF a, b, c, d, f, g
<1>4. QED
  BY <1>1, <1>2, <1>3, FirstBrokenOfSix

TimeReason(e) ==
    IF IsMissing(e.event_time) THEN "MISSING_EVENT_TIME"
    ELSE IF e.event_time \notin Times THEN "INVALID_EVENT_TIME"
    ELSE IF IsMissing(e.producer_time) THEN "MISSING_PRODUCER_TIME"
    ELSE IF e.producer_time \notin Times THEN "INVALID_PRODUCER_TIME"
    ELSE IF e.event_time = "late" /\ e.producer_time = "early"
      THEN "PRODUCER_TIME_BEFORE_EVENT_TIME"
    ELSE None

LEMMA TimeChecksGive ==
    ASSUME NEW e
    PROVE  /\ TimeChecks(e) \in Seq(EventReasons)
           /\ FirstBroken(TimeChecks(e)) = TimeReason(e)
<1> DEFINE a == Check(IsMissing(e.event_time), "MISSING_EVENT_TIME")
           b == Check(e.event_time \notin Times, "INVALID_EVENT_TIME")
           c == Check(IsMissing(e.producer_time), "MISSING_PRODUCER_TIME")
           d == Check(e.producer_time \notin Times, "INVALID_PRODUCER_TIME")
           f == Check(e.event_time = "late" /\ e.producer_time = "early",
                      "PRODUCER_TIME_BEFORE_EVENT_TIME")
<1>1. /\ a \in EventReasons /\ b \in EventReasons /\ c \in EventReasons
      /\ d \in EventReasons /\ f \in EventReasons
  BY DEF Check, EventReasons
<1>2. TimeChecks(e) = <<a, b, c, d, f>>
  BY DEF TimeChecks
<1>3. TimeReason(e) =
          IF a # None THEN a ELSE IF b # None THEN b ELSE IF c # None THEN c
          ELSE IF d # None THEN d ELSE f
  BY DEF TimeReason, Check, None
<1> HIDE DEF a, b, c, d, f
<1>4. QED
  BY <1>1, <1>2, <1>3, FirstBrokenOfFive

AmountReason(e) ==
    IF HasAmount(e) # HasCurrency(e) THEN "AMOUNT_CURRENCY_MISMATCH"
    ELSE IF HasAmount(e) /\ e.amount \in {"number", "wrong"} THEN "INVALID_AMOUNT"
    ELSE IF HasAmount(e) /\ e.amount = "negative" THEN "NEGATIVE_AMOUNT"
    ELSE IF HasAmount(e) /\ e.currency # "supported" THEN "INVALID_CURRENCY"
    ELSE None

LEMMA AmountChecksGive ==
    ASSUME NEW e
    PROVE  /\ AmountChecks(e) \in Seq(EventReasons)
           /\ FirstBroken(AmountChecks(e)) = AmountReason(e)
<1> DEFINE a == Check(HasAmount(e) # HasCurrency(e), "AMOUNT_CURRENCY_MISMATCH")
           b == Check(HasAmount(e) /\ e.amount \in {"number", "wrong"}, "INVALID_AMOUNT")
           c == Check(HasAmount(e) /\ e.amount = "negative", "NEGATIVE_AMOUNT")
           d == Check(HasAmount(e) /\ e.currency # "supported", "INVALID_CURRENCY")
<1>1. /\ a \in EventReasons /\ b \in EventReasons /\ c \in EventReasons
      /\ d \in EventReasons
  BY DEF Check, EventReasons
<1>2. AmountChecks(e) = <<a, b, c, d>>
  BY DEF AmountChecks
<1>3. AmountReason(e) =
          IF a # None THEN a ELSE IF b # None THEN b ELSE IF c # None THEN c ELSE d
  BY DEF AmountReason, Check, None
<1> HIDE DEF a, b, c, d
<1>4. QED
  BY <1>1, <1>2, <1>3, FirstBrokenOfFour

PaymentReason(e) ==
    IF e.event_type = "payment" /\ IsMissing(e.payment_id) THEN "MISSING_PAYMENT_ID"
    ELSE IF e.event_type = "payment" /\ ~IsString(e.payment_id) THEN "INVALID_PAYMENT_ID"
    ELSE IF e.event_type = "payment" /\ ~(HasAmount(e) /\ HasCurrency(e))
      THEN "MISSING_PAYMENT_DETAILS"
    ELSE None

LEMMA PaymentChecksGive ==
    ASSUME NEW e
    PROVE  /\ PaymentChecks(e) \in Seq(EventReasons)
           /\ FirstBroken(PaymentChecks(e)) = PaymentReason(e)
<1> DEFINE a == Check(e.event_type = "payment" /\ IsMissing(e.payment_id), "MISSING_PAYMENT_ID")
           b == Check(e.event_type = "payment" /\ ~IsString(e.payment_id), "INVALID_PAYMENT_ID")
           c == Check(e.event_type = "payment" /\ ~(HasAmount(e) /\ HasCurrency(e)),
                      "MISSING_PAYMENT_DETAILS")
<1>1. a \in EventReasons /\ b \in EventReasons /\ c \in EventReasons
  BY DEF Check, EventReasons
<1>2. PaymentChecks(e) = <<a, b, c>>
  BY DEF PaymentChecks
<1>3. PaymentReason(e) = IF a # None THEN a ELSE IF b # None THEN b ELSE c
  BY DEF PaymentReason, Check, None
<1> HIDE DEF a, b, c
<1>4. QED
  BY <1>1, <1>2, <1>3, FirstBrokenOfThree

RequiredFields == {"order_id", "customer_id", "store_id", "idempotency_key", "source"}

\* COMMON_REQUIRED_FIELDS.
LEMMA RequiredIsAList ==
    /\ Len(Required) = 5
    /\ \A n \in 1..5 : Required[n] \in RequiredFields
    /\ \A f \in RequiredFields : \E n \in 1..5 : Required[n] = f
    /\ ToSet(Required) = RequiredFields
<1>1. /\ Len(Required) = 5 /\ DOMAIN Required = 1..5
      /\ Required[1] = "order_id" /\ Required[2] = "customer_id"
      /\ Required[3] = "store_id" /\ Required[4] = "idempotency_key"
      /\ Required[5] = "source"
  BY DEF Required
<1>2. \A n \in 1..5 : Required[n] \in RequiredFields
  BY <1>1 DEF RequiredFields
<1>3. \A f \in RequiredFields : \E n \in 1..5 : Required[n] = f
  BY <1>1 DEF RequiredFields
<1>4. ToSet(Required) = RequiredFields
  BY <1>1, <1>2, <1>3 DEF ToSet
<1>5. QED
  BY <1>1, <1>2, <1>3, <1>4

\* Of the required fields only this is needed: a reason that is given is true of
\* one of them, and without one all of them are texts.
RequiredReason(e) == FirstBroken(RequiredChecks(e))

LEMMA RequiredChecksGive ==
    ASSUME NEW e
    PROVE  /\ RequiredChecks(e) \in Seq(EventReasons)
           /\ RequiredReason(e) \in {"MISSING_REQUIRED_FIELD", "INVALID_REQUIRED_FIELD", None}
           /\ RequiredReason(e) = "MISSING_REQUIRED_FIELD" =>
                 \E f \in RequiredFields : IsMissing(e[f])
           /\ RequiredReason(e) = "INVALID_REQUIRED_FIELD" =>
                 \E f \in RequiredFields : ~IsMissing(e[f]) /\ ~IsString(e[f])
           /\ RequiredReason(e) = None =>
                 \A f \in RequiredFields : ~IsMissing(e[f]) /\ IsString(e[f])
<1> DEFINE s == RequiredChecks(e)
           Field(n) == Required[(n + 1) \div 2]
<1>1. /\ DOMAIN s = 1..10
      /\ \A n \in 1..10 : s[n] =
            IF n % 2 = 1 THEN Check(IsMissing(e[Field(n)]), "MISSING_REQUIRED_FIELD")
                         ELSE Check(~IsString(e[Field(n)]), "INVALID_REQUIRED_FIELD")
  BY RequiredIsAList DEF RequiredChecks
<1>2. \A n \in 1..10 : (n + 1) \div 2 \in 1..5 /\ (n % 2 = 1 \/ n % 2 = 0)
  OBVIOUS
<1>3. \A n \in 1..10 : s[n] \in EventReasons
  BY <1>1, <1>2 DEF Check, EventReasons
<1>4. s \in Seq(EventReasons) /\ Len(s) = 10
  <2>1. s = [n \in 1..10 |-> s[n]]
    BY <1>1 DEF RequiredChecks
  <2>2. QED
    BY <1>1, <1>3, <2>1
<1>5. \A n \in 1..10 :
        /\ s[n] \in {"MISSING_REQUIRED_FIELD", "INVALID_REQUIRED_FIELD", None}
        /\ s[n] = "MISSING_REQUIRED_FIELD" <=> n % 2 = 1 /\ IsMissing(e[Field(n)])
        /\ s[n] = "INVALID_REQUIRED_FIELD" <=> n % 2 = 0 /\ ~IsString(e[Field(n)])
  BY <1>1, <1>2 DEF Check, None
<1>6. ASSUME NEW f \in RequiredFields, \A n \in 1..10 : s[n] = None
      PROVE  ~IsMissing(e[f]) /\ IsString(e[f])
  <2>1. PICK m \in 1..5 : Required[m] = f
    BY RequiredIsAList
  <2>2. /\ 2 * m - 1 \in 1..10 /\ (2 * m - 1 + 1) \div 2 = m /\ (2 * m - 1) % 2 = 1
        /\ 2 * m \in 1..10 /\ (2 * m + 1) \div 2 = m /\ (2 * m) % 2 = 0
    OBVIOUS
  <2>3. s[2 * m - 1] = None /\ s[2 * m] = None
    BY <1>6, <2>2
  <2>4. Field(2 * m - 1) = f /\ Field(2 * m) = f
    BY <2>1, <2>2
  <2>5. QED
    BY <1>5, <2>2, <2>3, <2>4 DEF None
<1>7. ASSUME NEW k \in 1..10, s[k] = "INVALID_REQUIRED_FIELD",
             \A n \in 1..(k - 1) : s[n] = None
      PROVE  ~IsMissing(e[Field(k)])
  <2>1. k % 2 = 0
    BY <1>5, <1>7
  <2>2. /\ k - 1 \in 1..(k - 1) /\ k - 1 \in 1..10 /\ (k - 1) % 2 = 1
        /\ (k - 1 + 1) \div 2 = (k + 1) \div 2
    BY <2>1
  <2>3. s[k - 1] = None /\ Field(k - 1) = Field(k)
    BY <1>7, <2>2
  <2>4. QED
    BY <1>5, <2>2, <2>3 DEF None
<1> HIDE DEF s
<1>8. CASE FirstBroken(s) = None
  <2>1. \A n \in 1..10 : s[n] = None
    BY <1>4, <1>8, FirstBrokenIsFirst
  <2>2. QED
    BY <1>4, <1>6, <1>8, <2>1 DEF s, RequiredReason, None
<1>9. CASE FirstBroken(s) # None
  <2>1. PICK k \in 1..10 : /\ s[k] # None /\ \A n \in 1..(k - 1) : s[n] = None
                          /\ FirstBroken(s) = s[k]
    BY <1>4, <1>9, FirstBrokenIsFirst
  <2>2. Field(k) \in RequiredFields
    BY <1>2, RequiredIsAList
  <2>3. CASE s[k] = "MISSING_REQUIRED_FIELD"
    BY <1>4, <1>5, <2>1, <2>2, <2>3 DEF s, RequiredReason, None
  <2>4. CASE s[k] = "INVALID_REQUIRED_FIELD"
    BY <1>4, <1>5, <1>7, <2>1, <2>2, <2>4 DEF s, RequiredReason, None
  <2>5. QED
    BY <1>5, <2>1, <2>3, <2>4
<1>10. QED
  BY <1>8, <1>9

\* The reason is that of the first list with one.
LEMMA ReasonOfEvent ==
    ASSUME NEW e
    PROVE  ValidateEvent(e) =
               IF IdentityReason(e) # None THEN IdentityReason(e)
               ELSE IF TimeReason(e) # None THEN TimeReason(e)
               ELSE IF RequiredReason(e) # None THEN RequiredReason(e)
               ELSE IF AmountReason(e) # None THEN AmountReason(e)
               ELSE PaymentReason(e)
<1> DEFINE a == IdentityChecks(e)
           b == TimeChecks(e)
           c == RequiredChecks(e)
           d == AmountChecks(e)
           f == PaymentChecks(e)
<1>1. /\ a \in Seq(EventReasons) /\ b \in Seq(EventReasons) /\ c \in Seq(EventReasons)
      /\ d \in Seq(EventReasons) /\ f \in Seq(EventReasons)
      /\ FirstBroken(a) = IdentityReason(e) /\ FirstBroken(b) = TimeReason(e)
      /\ FirstBroken(c) = RequiredReason(e) /\ FirstBroken(d) = AmountReason(e)
      /\ FirstBroken(f) = PaymentReason(e)
  BY IdentityChecksGive, TimeChecksGive, RequiredChecksGive, AmountChecksGive,
     PaymentChecksGive DEF RequiredReason
<1>2. ValidateEvent(e) = FirstBroken((((a \o b) \o c) \o d) \o f)
  BY DEF ValidateEvent, Checks
<1> HIDE DEF a, b, c, d, f
<1>3. /\ a \o b \in Seq(EventReasons)
      /\ FirstBroken(a \o b) = IF FirstBroken(a) = None THEN FirstBroken(b) ELSE FirstBroken(a)
  BY <1>1, FirstBrokenOfJoin
<1>4. /\ (a \o b) \o c \in Seq(EventReasons)
      /\ FirstBroken((a \o b) \o c) =
            IF FirstBroken(a \o b) = None THEN FirstBroken(c) ELSE FirstBroken(a \o b)
  BY <1>1, <1>3, FirstBrokenOfJoin
<1>5. /\ ((a \o b) \o c) \o d \in Seq(EventReasons)
      /\ FirstBroken(((a \o b) \o c) \o d) =
            IF FirstBroken((a \o b) \o c) = None THEN FirstBroken(d)
            ELSE FirstBroken((a \o b) \o c)
  BY <1>1, <1>4, FirstBrokenOfJoin
<1>6. FirstBroken((((a \o b) \o c) \o d) \o f) =
            IF FirstBroken(((a \o b) \o c) \o d) = None THEN FirstBroken(f)
            ELSE FirstBroken(((a \o b) \o c) \o d)
  BY <1>1, <1>5, FirstBrokenOfJoin
<1>7. QED
  BY <1>1, <1>2, <1>3, <1>4, <1>5, <1>6

-----------------------------------------------------------------------------
(* What a valid event is *)

IsText(v) == ~IsMissing(v) /\ IsString(v)

\* The contract, without an order of checks.
Conforms(e) ==
    /\ e.schema_version = "1.0" /\ e.event_id = "uuid"
    /\ e.event_type \in {"order", "payment"}
    /\ e.event_time \in Times /\ e.producer_time \in Times
    /\ ~(e.event_time = "late" /\ e.producer_time = "early")
    /\ \A f \in RequiredFields : IsText(e[f])
    /\ HasAmount(e) <=> HasCurrency(e)
    /\ HasAmount(e) => e.amount \notin {"number", "wrong", "negative"}
                      /\ e.currency = "supported"
    /\ e.event_type = "payment" => IsText(e.payment_id) /\ HasAmount(e)

\* No check is broken exactly when the event conforms.
LEMMA EventIsValid ==
    ASSUME NEW e
    PROVE  ValidateEvent(e) = None <=> Conforms(e)
<1>1. ValidateEvent(e) = None <=>
          /\ IdentityReason(e) = None /\ TimeReason(e) = None
          /\ RequiredReason(e) = None /\ AmountReason(e) = None
          /\ PaymentReason(e) = None
  BY ReasonOfEvent
<1>2. IdentityReason(e) = None <=>
          /\ e.schema_version = "1.0" /\ e.event_id = "uuid"
          /\ e.event_type \in {"order", "payment"}
  BY DEF IdentityReason, None, IsMissing
<1>3. TimeReason(e) = None <=>
          /\ e.event_time \in Times /\ e.producer_time \in Times
          /\ ~(e.event_time = "late" /\ e.producer_time = "early")
  BY DEF TimeReason, None, IsMissing, Times
<1>4. RequiredReason(e) = None <=> \A f \in RequiredFields : IsText(e[f])
  BY RequiredChecksGive DEF None, IsText
<1>5. AmountReason(e) = None <=>
          /\ HasAmount(e) <=> HasCurrency(e)
          /\ HasAmount(e) => e.amount \notin {"number", "wrong", "negative"}
                            /\ e.currency = "supported"
  BY DEF AmountReason, None, HasAmount, HasCurrency
<1>6. PaymentReason(e) = None <=>
          (e.event_type = "payment" =>
              IsText(e.payment_id) /\ HasAmount(e) /\ HasCurrency(e))
  BY DEF PaymentReason, None, IsText
<1>7. QED
  BY <1>1, <1>2, <1>3, <1>4, <1>5, <1>6 DEF Conforms

\* What RetailPaymentEvent accepts and writes conforms.
LEMMA SerialisedConforms ==
    ASSUME NEW e, IsEvent(e), ModelAccepts(e)
    PROVE  Conforms(Serialised(e))
<1> DEFINE w == Serialised(e)
<1>1. {"schema_version", "event_id", "event_type", "event_time", "producer_time",
       "order_id", "customer_id", "store_id", "idempotency_key", "source",
       "amount", "currency", "payment_id"} \subseteq DOMAIN e
  BY DEF IsEvent, Classes
<1>2. /\ w.schema_version = "1.0" /\ w.source = "producer"
      /\ w.event_time = Instant(e.event_time) /\ w.producer_time = Instant(e.producer_time)
      /\ w.amount = SerialisedAmount(e.amount)
      /\ w.currency = IF Unset(e.currency) THEN "null" ELSE e.currency
      /\ w.payment_id = IF Unset(e.payment_id) THEN "null" ELSE e.payment_id
      /\ \A f \in {"event_id", "event_type", "order_id", "customer_id", "store_id",
                   "idempotency_key"} : w[f] = e[f]
  <2>1. \A f \in DOMAIN e : w[f] = SerialisedField(f, e[f])
    BY DEF Serialised
  <2> HIDE DEF w
  <2>2. /\ w.schema_version = "1.0" /\ w.source = "producer"
        /\ w.event_time = Instant(e.event_time) /\ w.producer_time = Instant(e.producer_time)
        /\ w.amount = SerialisedAmount(e.amount)
    BY <1>1, <2>1 DEF SerialisedField
  <2>3. /\ w.currency = IF Unset(e.currency) THEN "null" ELSE e.currency
        /\ w.payment_id = IF Unset(e.payment_id) THEN "null" ELSE e.payment_id
    BY <1>1, <2>1 DEF SerialisedField
  <2>4. \A f \in {"event_id", "event_type", "order_id", "customer_id", "store_id",
                 "idempotency_key"} : w[f] = e[f]
    BY <1>1, <2>1 DEF SerialisedField
  <2>5. QED
    BY <2>2, <2>3, <2>4
<1> HIDE DEF w
<1>3. /\ e.event_id = "uuid" /\ e.event_type \in {"order", "payment"}
      /\ Instant(e.event_time) \in Times /\ Instant(e.producer_time) \in Times
      /\ \A f \in {"order_id", "customer_id", "store_id", "idempotency_key"} : e[f] = "text"
      /\ Unset(e.amount) \/ e.amount \in {"number", "zero", "positive"}
      /\ Unset(e.currency) \/ e.currency = "supported"
      /\ Unset(e.payment_id) \/ e.payment_id = "text"
      /\ ~(Instant(e.event_time) = "late" /\ Instant(e.producer_time) = "early")
      /\ Unset(e.amount) = Unset(e.currency)
      /\ e.event_type = "payment" =>
             ~Unset(e.payment_id) /\ ~Unset(e.amount) /\ ~Unset(e.currency)
  BY DEF ModelAccepts, FieldsAccepted, CrossFieldRules
<1>4. \A f \in RequiredFields : w[f] \in {"text", "producer"}
  BY <1>2, <1>3 DEF RequiredFields
<1>5. \A f \in RequiredFields : IsText(w[f])
  BY <1>4 DEF IsText, IsMissing, IsString
<1>6. /\ w.event_id = "uuid" /\ w.event_type = e.event_type
  BY <1>2, <1>3
<1>7. CASE Unset(e.amount)
  <2>1. w.amount = "null" /\ w.currency = "null" /\ e.event_type # "payment"
    BY <1>2, <1>3, <1>7 DEF Unset, SerialisedAmount
  <2>2. ~HasAmount(w) /\ ~HasCurrency(w)
    BY <2>1 DEF HasAmount, HasCurrency, IsMissing
  <2>3. QED
    BY <1>2, <1>3, <1>5, <1>6, <2>1, <2>2 DEF Conforms, w
<1>8. CASE ~Unset(e.amount)
  <2>1. w.amount \in {"zero", "positive"} /\ w.currency = "supported"
    BY <1>2, <1>3, <1>8 DEF Unset, SerialisedAmount
  <2>2. HasAmount(w) /\ HasCurrency(w)
    BY <2>1 DEF HasAmount, HasCurrency, IsMissing
  <2>3. e.event_type = "payment" => IsText(w.payment_id)
    BY <1>2, <1>3 DEF IsText, IsMissing, IsString, Unset
  <2>4. QED
    BY <1>2, <1>3, <1>5, <1>6, <2>1, <2>2, <2>3 DEF Conforms, w
<1>9. QED
  BY <1>7, <1>8

-----------------------------------------------------------------------------
(* The catalogue of the documentation *)

\* A priority is that of one reason only.
CodeOf(priority) ==
    CASE priority = 200 -> "MISSING_SCHEMA_VERSION"
      [] priority = 210 -> "UNSUPPORTED_SCHEMA_VERSION"
      [] priority = 300 -> "MISSING_EVENT_ID"
      [] priority = 310 -> "INVALID_EVENT_ID"
      [] priority = 320 -> "MISSING_EVENT_TYPE"
      [] priority = 330 -> "INVALID_EVENT_TYPE"
      [] priority = 340 -> "MISSING_EVENT_TIME"
      [] priority = 350 -> "INVALID_EVENT_TIME"
      [] priority = 360 -> "MISSING_PRODUCER_TIME"
      [] priority = 370 -> "INVALID_PRODUCER_TIME"
      [] priority = 380 -> "PRODUCER_TIME_BEFORE_EVENT_TIME"
      [] priority = 400 -> "MISSING_REQUIRED_FIELD"
      [] priority = 410 -> "INVALID_REQUIRED_FIELD"
      [] priority = 500 -> "INVALID_AMOUNT"
      [] priority = 510 -> "NEGATIVE_AMOUNT"
      [] priority = 520 -> "INVALID_CURRENCY"
      [] priority = 530 -> "AMOUNT_CURRENCY_MISMATCH"
      [] priority = 540 -> "MISSING_PAYMENT_ID"
      [] priority = 545 -> "INVALID_PAYMENT_ID"
      [] priority = 550 -> "MISSING_PAYMENT_DETAILS"

\* What each priority says of an event.
Holds(e, priority) ==
    \/ priority = 200 /\ IsMissing(e.schema_version)
    \/ priority = 210 /\ e.schema_version \in {"number", "wrong"}
    \/ priority = 300 /\ IsMissing(e.event_id)
    \/ priority = 310 /\ e.event_id \in {"number", "wrong"}
    \/ priority = 320 /\ IsMissing(e.event_type)
    \/ priority = 330 /\ e.event_type \in {"number", "wrong"}
    \/ priority = 340 /\ IsMissing(e.event_time)
    \/ priority = 350 /\ e.event_time \in {"number", "wrong"}
    \/ priority = 360 /\ IsMissing(e.producer_time)
    \/ priority = 370 /\ e.producer_time \in {"number", "wrong"}
    \/ priority = 380 /\ e.event_time = "late" /\ e.producer_time = "early"
    \/ priority = 400 /\ \E f \in RequiredFields : Unset(e[f])
    \/ priority = 410 /\ \E f \in RequiredFields : e[f] \in {"number", "blank"}
    \/ priority = 500 /\ e.amount \in {"number", "wrong"}
    \/ priority = 510 /\ e.amount = "negative"
    \/ priority = 520 /\ e.currency \in {"number", "wrong"}
    \/ priority = 530 /\ IsMissing(e.amount) # IsMissing(e.currency)
    \/ priority = 540 /\ e.event_type = "payment" /\ Unset(e.payment_id)
    \/ priority = 545 /\ e.event_type = "payment" /\ e.payment_id \in {"number", "blank"}
    \/ priority = 550 /\ e.event_type = "payment"
                      /\ (IsMissing(e.amount) \/ IsMissing(e.currency))

\* The catalogue, and nothing but it.
LEMMA CatalogueIs ==
    ASSUME NEW e, NEW c
    PROVE  c \in Catalogue(e) <=>
               \E p \in Nat : Holds(e, p) /\ c = [priority |-> p, code |-> CodeOf(p)]
<1> DEFINE T == ToSet(Required)
<1>1. T = RequiredFields
  BY RequiredIsAList
<1>2. ASSUME c \in Catalogue(e)
      PROVE  \E p \in Nat : Holds(e, p) /\ c = [priority |-> p, code |-> CodeOf(p)]
  BY <1>1, <1>2 DEF Catalogue, Entry, Holds, CodeOf
<1>3. ASSUME NEW p \in Nat, Holds(e, p), c = [priority |-> p, code |-> CodeOf(p)]
      PROVE  c \in Catalogue(e)
  BY <1>1, <1>3 DEF Catalogue, Entry, Holds, CodeOf
<1>4. QED
  BY <1>2, <1>3

\* The primary reason is the one of the smallest priority that holds.
LEMMA PrimaryIsSmallest ==
    ASSUME NEW e, NEW p \in Nat, Holds(e, p), \A q \in Nat : Holds(e, q) => p <= q
    PROVE  Primary(e) = CodeOf(p)
<1> DEFINE c == [priority |-> p, code |-> CodeOf(p)]
<1>1. c \in Catalogue(e)
  BY CatalogueIs
<1>2. \A d \in Catalogue(e) : c.priority <= d.priority
  BY CatalogueIs
<1>3. PICK x \in Catalogue(e) :
          /\ \A d \in Catalogue(e) : x.priority <= d.priority
          /\ Primary(e) = x.code
  BY <1>1, <1>2 DEF Primary
<1>4. PICK q \in Nat : x = [priority |-> q, code |-> CodeOf(q)]
  BY <1>3, CatalogueIs
<1>5. q <= p /\ p <= q
  BY <1>1, <1>2, <1>3, <1>4
<1>6. q = p
  BY <1>5
<1>7. QED
  BY <1>3, <1>4, <1>6

LEMMA NothingHolds ==
    ASSUME NEW e, \A q \in Nat : ~Holds(e, q)
    PROVE  Primary(e) = None
BY CatalogueIs DEF Primary

\* An event whose text Bronze could encode.
Encoded(e) == \A f \in MetadataFields : e[f] # "surrogate"

\* The classes of the fields that are left then.
LEMMA FieldsOfEvents ==
    ASSUME NEW e, IsEvent(e), Encoded(e)
    PROVE  /\ e.schema_version \in NoText \cup {"wrong", "1.0"}
           /\ e.event_id \in NoText \cup {"wrong", "uuid"}
           /\ e.event_type \in NoText \cup {"wrong", "order", "payment"}
           /\ e.event_time \in NoText \cup {"wrong"} \cup Times
           /\ e.producer_time \in NoText \cup {"wrong"} \cup Times
           /\ \A f \in RequiredFields : e[f] \in NoText \cup {"text", "producer"}
           /\ e.amount \in NoText \cup {"wrong", "negative", "zero", "positive"}
           /\ e.currency \in NoText \cup {"wrong", "supported"}
           /\ e.payment_id \in NoText \cup {"text"}
BY DEF IsEvent, Encoded, Classes, MetadataFields, RequiredFields

\* The cases of ReasonHasPriorityElsewhere, by the list that gives the reason.
LEMMA ReasonIsPrimary ==
    ASSUME NEW e, IsEvent(e), Encoded(e),
           ~(\E f, g \in RequiredFields : Unset(e[f]) /\ e[g] = "number"),
           HasAmount(e) <=> HasCurrency(e),
           \A f \in RequiredFields : e[f] # "blank",
           e.event_type = "payment" => e.payment_id # "blank"
    PROVE  ValidateEvent(e) = Primary(e)
<1>1. CASE IdentityReason(e) # None
  <2>1. \E p \in {200, 210, 300, 310, 320, 330} :
            /\ Holds(e, p) /\ IdentityReason(e) = CodeOf(p)
            /\ \A q \in Nat : Holds(e, q) => p <= q
    BY <1>1, FieldsOfEvents DEF IdentityReason, Holds, CodeOf, NoText, IsMissing, None
  <2>2. QED
    BY <1>1, <2>1, ReasonOfEvent, PrimaryIsSmallest
<1>2. CASE IdentityReason(e) = None /\ TimeReason(e) # None
  <2>1. \E p \in {340, 350, 360, 370, 380} :
            /\ Holds(e, p) /\ TimeReason(e) = CodeOf(p)
            /\ \A q \in Nat : Holds(e, q) => p <= q
    BY <1>2, FieldsOfEvents
       DEF IdentityReason, TimeReason, Holds, CodeOf, NoText, Times, IsMissing, None
  <2>2. QED
    BY <1>2, <2>1, ReasonOfEvent, PrimaryIsSmallest
<1>3. ASSUME IdentityReason(e) = None, TimeReason(e) = None
      PROVE  \A q \in Nat : Holds(e, q) => q >= 400
  BY <1>3, FieldsOfEvents
     DEF IdentityReason, TimeReason, Holds, NoText, Times, IsMissing, None
<1>4. CASE IdentityReason(e) = None /\ TimeReason(e) = None /\ RequiredReason(e) # None
  <2>1. \E p \in {400, 410} :
            /\ Holds(e, p) /\ RequiredReason(e) = CodeOf(p)
            /\ \A q \in Nat : Holds(e, q) => p <= q
    <3>1. CASE RequiredReason(e) = "MISSING_REQUIRED_FIELD"
      <4>1. \E f \in RequiredFields : Unset(e[f])
        BY <3>1, RequiredChecksGive DEF IsMissing, Unset
      <4>2. Holds(e, 400)
        BY <4>1 DEF Holds
      <4>3. CodeOf(400) = RequiredReason(e)
        BY <3>1 DEF CodeOf
      <4>4. QED
        BY <1>3, <1>4, <4>2, <4>3
    <3>2. CASE RequiredReason(e) = "INVALID_REQUIRED_FIELD"
      <4>1. PICK f \in RequiredFields : ~IsMissing(e[f]) /\ ~IsString(e[f])
        BY <3>2, RequiredChecksGive
      <4>2. e[f] = "number"
        BY <4>1 DEF IsMissing, IsString
      <4>3. ~(\E g \in RequiredFields : Unset(e[g]))
        BY <4>2
      <4>4. ~Holds(e, 400)
        BY <4>3 DEF Holds
      <4>5. \A q \in Nat : Holds(e, q) => q # 400 /\ q >= 400
        BY <1>3, <1>4, <4>4
      <4>6. ASSUME NEW q \in Nat, Holds(e, q) PROVE q <= 400 \/ q >= 410
        BY <4>6 DEF Holds
      <4>7. Holds(e, 410)
        BY <4>2 DEF Holds
      <4>8. CodeOf(410) = RequiredReason(e)
        BY <3>2 DEF CodeOf
      <4>9. QED
        BY <4>5, <4>6, <4>7, <4>8
    <3>3. QED
      BY <1>4, <3>1, <3>2, RequiredChecksGive
  <2>2. QED
    BY <1>4, <2>1, ReasonOfEvent, PrimaryIsSmallest
<1>5. ASSUME IdentityReason(e) = None, TimeReason(e) = None, RequiredReason(e) = None
      PROVE  \A q \in Nat : Holds(e, q) => q >= 500
  <2>1. \A f \in RequiredFields : ~Unset(e[f]) /\ e[f] \notin {"number", "blank"}
    BY <1>5, RequiredChecksGive DEF IsString, IsMissing, Unset
  <2>2. QED
    BY <1>3, <1>5, <2>1 DEF Holds
<1>6. CASE /\ IdentityReason(e) = None /\ TimeReason(e) = None /\ RequiredReason(e) = None
           /\ AmountReason(e) # None
  <2>1. \E p \in {500, 510, 520} :
            /\ Holds(e, p) /\ AmountReason(e) = CodeOf(p)
            /\ \A q \in Nat : Holds(e, q) => p <= q
    BY <1>5, <1>6, FieldsOfEvents
       DEF AmountReason, HasAmount, HasCurrency, Holds, CodeOf, NoText, IsMissing, None
  <2>2. QED
    BY <1>6, <2>1, ReasonOfEvent, PrimaryIsSmallest
<1>7. ASSUME IdentityReason(e) = None, TimeReason(e) = None, RequiredReason(e) = None,
             AmountReason(e) = None
      PROVE  \A q \in Nat : Holds(e, q) => q >= 540
  BY <1>5, <1>7, FieldsOfEvents
     DEF AmountReason, HasAmount, HasCurrency, Holds, NoText, IsMissing, None
<1>8. CASE /\ IdentityReason(e) = None /\ TimeReason(e) = None /\ RequiredReason(e) = None
           /\ AmountReason(e) = None /\ PaymentReason(e) # None
  <2>1. \E p \in {540, 545, 550} :
            /\ Holds(e, p) /\ PaymentReason(e) = CodeOf(p)
            /\ \A q \in Nat : Holds(e, q) => p <= q
    BY <1>7, <1>8, FieldsOfEvents
       DEF PaymentReason, HasAmount, HasCurrency, Holds, CodeOf, NoText, IsMissing,
           IsString, Unset, None
  <2>2. QED
    BY <1>8, <2>1, ReasonOfEvent, PrimaryIsSmallest
<1>9. CASE /\ IdentityReason(e) = None /\ TimeReason(e) = None /\ RequiredReason(e) = None
           /\ AmountReason(e) = None /\ PaymentReason(e) = None
  <2>1. \A q \in Nat : ~Holds(e, q)
    BY <1>7, <1>9, FieldsOfEvents
       DEF PaymentReason, HasAmount, HasCurrency, Holds, NoText, IsMissing, IsString,
           Unset, None
  <2>2. QED
    BY <1>9, <2>1, ReasonOfEvent, NothingHolds
<1>10. QED
  BY <1>1, <1>2, <1>4, <1>6, <1>8, <1>9

-----------------------------------------------------------------------------
(* The invariant *)

Kinds == ForeignKinds \cup {"object"}

\* A payload is a generated one or a foreign one; its event has the fields of
\* the schema.
PayloadIsKnown ==
    /\ payload.kind \in Kinds
    /\ IsEvent(payload.event)
    /\ \/ scenario = "foreign"
       \/ scenario \in GeneratorScenarios /\ payload \in Generated(scenario)

\* What each stage has left behind: a Bronze row has the status of its payload,
\* and its payload was loaded and encoded once; a Silver row has the answer of
\* the validator.
StagesAgree ==
    /\ stage \in {"topic", "bronze", "silver", "stuck", "job_failed"}
    /\ stage \in {"bronze", "silver", "job_failed"} =>
          MayLoad(payload) /\ ~Unencodable(payload)
    /\ stage \in {"bronze", "silver"} => parseStatus = ParseStatus(payload)
    /\ stage = "silver" =>
          /\ reason = ValidateBronzeRecord(payload)
          /\ reason = None => branch = "valid" /\ row = Flattened(payload.event)
          /\ reason # None => branch = "invalid"
    /\ stage # "silver" => branch = None
    /\ stage = "stuck" => MayRaiseOther(payload) \/ Unencodable(payload)
    /\ stage = "job_failed" => MayRaiseOther(payload)

SilverInv == PayloadIsKnown /\ StagesAgree

LEMMA PaymentEventIs ==
    /\ DOMAIN PaymentEvent = DOMAIN OrderEvent
    /\ PaymentEvent.event_type = "payment" /\ PaymentEvent.amount = "positive"
    /\ PaymentEvent.currency = "supported" /\ PaymentEvent.payment_id = "text"
    /\ \A f \in DOMAIN OrderEvent \ {"event_type", "amount", "currency", "payment_id"} :
          PaymentEvent[f] = OrderEvent[f]
<1>1. {"event_type", "amount", "currency", "payment_id"} \subseteq DOMAIN OrderEvent
  BY DEF OrderEvent
<1>2. QED
  BY <1>1 DEF PaymentEvent

LEMMA UsualEventsAreEvents == IsEvent(OrderEvent) /\ IsEvent(PaymentEvent)
<1>1. DOMAIN OrderEvent = DOMAIN Classes
  BY DEF OrderEvent, Classes
<1>2. \A f \in DOMAIN OrderEvent : OrderEvent[f] \in Classes[f]
  BY DEF OrderEvent, Classes, NoText, Times
<1>3. DOMAIN PaymentEvent = DOMAIN Classes
  BY <1>1, PaymentEventIs
<1>4. \A f \in DOMAIN PaymentEvent : PaymentEvent[f] \in Classes[f]
  <2>1. /\ "payment" \in Classes.event_type /\ "positive" \in Classes.amount
        /\ "supported" \in Classes.currency /\ "text" \in Classes.payment_id
    BY DEF Classes
  <2>2. QED
    BY <1>1, <1>2, <1>3, <2>1, PaymentEventIs
<1>5. QED
  BY <1>1, <1>2, <1>3, <1>4 DEF IsEvent

\* What the generator makes of them are events as well.
LEMMA ChangedEventIsEvent ==
    ASSUME NEW e, IsEvent(e)
    PROVE  /\ IsEvent([e EXCEPT !.amount = "negative"])
           /\ IsEvent([e EXCEPT !.schema_version = "wrong"])
<1>1. /\ "amount" \in DOMAIN e /\ "schema_version" \in DOMAIN e
      /\ "negative" \in Classes.amount /\ "wrong" \in Classes.schema_version
  BY DEF IsEvent, Classes
<1>2. QED
  BY <1>1 DEF IsEvent

LEMMA GeneratedIsKnown ==
    ASSUME NEW s \in GeneratorScenarios, NEW x \in Generated(s)
    PROVE  x.kind \in {"object", "invalid_json"} /\ IsEvent(x.event)
<1>1. \A e \in BaseEvents : IsEvent(e)
  BY UsualEventsAreEvents DEF BaseEvents
<1>2. CASE s \in {"valid", "duplicate", "late"}
  BY <1>1, <1>2 DEF Generated, Object
<1>3. CASE s = "malformed"
  BY <1>3, UsualEventsAreEvents DEF Generated, Other
<1>4. CASE s = "negative_amount"
  <2>1. PICK e \in NegativeBase : x = Object([e EXCEPT !.amount = "negative"])
    BY <1>4 DEF Generated
  <2>2. IsEvent([e EXCEPT !.amount = "negative"])
    BY <2>1, UsualEventsAreEvents, ChangedEventIsEvent DEF NegativeBase
  <2>3. QED
    BY <2>1, <2>2 DEF Object
<1>5. CASE s = "unsupported_schema_version"
  <2>1. PICK e \in BaseEvents : x = Object([e EXCEPT !.schema_version = "wrong"])
    BY <1>5 DEF Generated
  <2>2. IsEvent([e EXCEPT !.schema_version = "wrong"])
    BY <1>1, <2>1, ChangedEventIsEvent
  <2>3. QED
    BY <2>1, <2>2 DEF Object
<1>6. QED
  BY <1>2, <1>3, <1>4, <1>5 DEF GeneratorScenarios

LEMMA InitEstablishesSilverInv == Init => SilverInv
<1> SUFFICES ASSUME Init PROVE SilverInv
  OBVIOUS
<1>1. PayloadIsKnown
  <2>1. CASE scenario \in GeneratorScenarios /\ payload \in Generated(scenario)
    BY <2>1, GeneratedIsKnown DEF PayloadIsKnown, Kinds, ForeignKinds
  <2>2. CASE scenario = "foreign" /\ payload \in {Object(e) : e \in Events}
    BY <2>2, EventsAssumption DEF PayloadIsKnown, Kinds, Object
  <2>3. CASE scenario = "foreign" /\ payload \in {Other(k) : k \in ForeignKinds}
    BY <2>3, UsualEventsAreEvents DEF PayloadIsKnown, Kinds, Other
  <2>4. QED
    BY <2>1, <2>2, <2>3 DEF Init
<1>2. StagesAgree
  BY DEF Init, StagesAgree
<1>3. QED
  BY <1>1, <1>2 DEF SilverInv

LEMMA NextKeepsSilverInv == SilverInv /\ [Next]_vars => SilverInv'
<1> SUFFICES ASSUME SilverInv, [Next]_vars PROVE SilverInv'
  OBVIOUS
<1>1. PayloadIsKnown'
  BY DEF SilverInv, PayloadIsKnown, Next, vars, Ingest, IngestFails, Transform, TransformFails
<1>2. ASSUME Ingest PROVE StagesAgree'
  BY <1>2 DEF SilverInv, StagesAgree, Ingest, MetadataMayFail, MayRaiseOther, MayLoad
<1>3. ASSUME IngestFails PROVE StagesAgree'
  BY <1>3 DEF SilverInv, StagesAgree, IngestFails, MetadataMayFail
<1>4. ASSUME Transform PROVE StagesAgree'
  BY <1>4 DEF SilverInv, StagesAgree, Transform
<1>5. ASSUME TransformFails PROVE StagesAgree'
  BY <1>5 DEF SilverInv, StagesAgree, TransformFails
<1>6. ASSUME UNCHANGED vars PROVE StagesAgree'
  BY <1>6 DEF SilverInv, StagesAgree, vars
<1>7. StagesAgree'
  BY <1>2, <1>3, <1>4, <1>5, <1>6 DEF Next
<1>8. QED
  BY <1>1, <1>7 DEF SilverInv

-----------------------------------------------------------------------------
(* What the invariant gives *)

\* An event of each scenario and its reason.
LEMMA UsualEventsAreValid == \A e \in BaseEvents : Conforms(e) /\ Encoded(e)
<1>1. /\ DOMAIN OrderEvent = DOMAIN Classes
      /\ RequiredFields \subseteq DOMAIN OrderEvent \ {"event_type", "amount", "currency", "payment_id"}
  BY UsualEventsAreEvents DEF IsEvent, Classes, RequiredFields
<1>2. \A e \in BaseEvents :
        /\ e.schema_version = "1.0" /\ e.event_id = "uuid"
        /\ e.event_type \in {"order", "payment"}
        /\ e.event_time = "early" /\ e.producer_time = "late"
  BY PaymentEventIs, <1>1 DEF BaseEvents, OrderEvent, Classes
<1>3. \A e \in BaseEvents : \A f \in RequiredFields : e[f] \in {"text", "producer"}
  <2>1. \A f \in RequiredFields : OrderEvent[f] \in {"text", "producer"}
    BY DEF OrderEvent, RequiredFields
  <2>2. QED
    BY <1>1, <2>1, PaymentEventIs DEF BaseEvents
<1>4. \A e \in BaseEvents : \A f \in RequiredFields : IsText(e[f])
  BY <1>3 DEF IsText, IsMissing, IsString
<1>5. /\ OrderEvent.amount = "null" /\ OrderEvent.currency = "null"
      /\ OrderEvent.event_type = "order"
  BY DEF OrderEvent
<1>6. Conforms(OrderEvent)
  BY <1>2, <1>4, <1>5 DEF BaseEvents, Conforms, Times, HasAmount, HasCurrency, IsMissing
<1>7. Conforms(PaymentEvent)
  BY <1>2, <1>4, PaymentEventIs
     DEF BaseEvents, Conforms, Times, HasAmount, HasCurrency, IsText, IsMissing, IsString
<1>8. \A e \in BaseEvents : Encoded(e)
  BY <1>2 DEF Encoded, MetadataFields
<1>9. QED
  BY <1>6, <1>7, <1>8 DEF BaseEvents

LEMMA NegativeAmountIsFound ==
    \A e \in NegativeBase :
        ValidateEvent([e EXCEPT !.amount = "negative"]) = "NEGATIVE_AMOUNT"
<1> DEFINE w == [PaymentEvent EXCEPT !.amount = "negative"]
<1>1. Conforms(PaymentEvent)
  BY UsualEventsAreValid DEF BaseEvents
<1>2. DOMAIN PaymentEvent = DOMAIN Classes
  BY UsualEventsAreEvents DEF IsEvent
<1>3. /\ w.amount = "negative"
      /\ \A f \in DOMAIN Classes : f # "amount" => w[f] = PaymentEvent[f]
  BY <1>2 DEF Classes
<1> HIDE DEF w
<1>4. /\ w.schema_version = "1.0" /\ w.event_id = "uuid"
      /\ w.event_type \in {"order", "payment"}
      /\ w.event_time \in Times /\ w.producer_time \in Times
      /\ ~(w.event_time = "late" /\ w.producer_time = "early")
      /\ \A f \in RequiredFields : IsText(w[f])
      /\ w.currency = PaymentEvent.currency
  BY <1>1, <1>3 DEF Conforms, Classes, RequiredFields
<1>5. IdentityReason(w) = None /\ TimeReason(w) = None
  BY <1>4 DEF IdentityReason, TimeReason, IsMissing, Times
<1>6. RequiredReason(w) = None
  BY <1>4, RequiredChecksGive DEF IsText
<1>7. w.currency = "supported"
  BY <1>4, PaymentEventIs
<1>8. AmountReason(w) = "NEGATIVE_AMOUNT"
  BY <1>3, <1>7 DEF AmountReason, HasAmount, HasCurrency, IsMissing
<1>9. ValidateEvent(w) = "NEGATIVE_AMOUNT"
  BY <1>5, <1>6, <1>8, ReasonOfEvent DEF None
<1>10. QED
  BY <1>9 DEF w, NegativeBase

LEMMA UnsupportedVersionIsFound ==
    \A e \in BaseEvents :
        ValidateEvent([e EXCEPT !.schema_version = "wrong"]) = "UNSUPPORTED_SCHEMA_VERSION"
<1> SUFFICES ASSUME NEW e \in BaseEvents
             PROVE  ValidateEvent([e EXCEPT !.schema_version = "wrong"]) =
                        "UNSUPPORTED_SCHEMA_VERSION"
  OBVIOUS
<1> DEFINE w == [e EXCEPT !.schema_version = "wrong"]
<1>1. "schema_version" \in DOMAIN e
  BY UsualEventsAreEvents DEF BaseEvents, IsEvent, Classes
<1>2. w.schema_version = "wrong"
  BY <1>1
<1> HIDE DEF w
<1>3. IdentityReason(w) = "UNSUPPORTED_SCHEMA_VERSION"
  BY <1>2 DEF IdentityReason, IsMissing
<1>4. ValidateEvent(w) = "UNSUPPORTED_SCHEMA_VERSION"
  BY <1>3, ReasonOfEvent DEF None
<1>5. QED
  BY <1>4 DEF w

LEMMA GeneratedIsRouted ==
    ASSUME NEW s \in GeneratorScenarios, NEW x \in Generated(s)
    PROVE  /\ s \in {"valid", "duplicate", "late"} => ValidateBronzeRecord(x) = None
           /\ s = "malformed" => ValidateBronzeRecord(x) = "MALFORMED_JSON"
           /\ s = "negative_amount" => ValidateBronzeRecord(x) = "NEGATIVE_AMOUNT"
           /\ s = "unsupported_schema_version" =>
                  ValidateBronzeRecord(x) = "UNSUPPORTED_SCHEMA_VERSION"
           /\ ~MayRaiseOther(x) /\ ~Unencodable(x)
<1>1. CASE s \in {"valid", "duplicate", "late"}
  <2>1. PICK e \in BaseEvents : x = Object(e)
    BY <1>1 DEF Generated
  <2>2. ValidateBronzeRecord(x) = ValidateEvent(e)
    BY <2>1 DEF Object, ValidateBronzeRecord
  <2>3. \A f \in MetadataFields : e[f] # "surrogate"
    BY UsualEventsAreValid DEF Encoded
  <2>4. QED
    BY <1>1, <2>1, <2>2, <2>3, UsualEventsAreValid, EventIsValid
       DEF Object, MayRaiseOther, Unencodable
<1>2. CASE s = "malformed"
  BY <1>2 DEF Generated, Other, ValidateBronzeRecord, MayRaiseOther, Unencodable
<1>3. CASE s = "negative_amount"
  <2>1. PICK e \in NegativeBase : x = Object([e EXCEPT !.amount = "negative"])
    BY <1>3 DEF Generated
  <2>2. ValidateBronzeRecord(x) = "NEGATIVE_AMOUNT"
    BY <2>1, NegativeAmountIsFound DEF Object, ValidateBronzeRecord
  <2>3. \A f \in MetadataFields : x.event[f] # "surrogate"
    <3>1. Encoded(e) /\ MetadataFields \subseteq DOMAIN e
      BY UsualEventsAreValid, UsualEventsAreEvents
         DEF NegativeBase, BaseEvents, IsEvent, Classes, MetadataFields
    <3>2. x.event = [e EXCEPT !.amount = "negative"]
      BY <2>1 DEF Object
    <3>3. \A f \in MetadataFields : x.event[f] = e[f]
      BY <3>1, <3>2 DEF MetadataFields
    <3>4. QED
      BY <3>1, <3>3 DEF Encoded
  <2>4. QED
    BY <1>3, <2>1, <2>2, <2>3 DEF Object, MayRaiseOther, Unencodable
<1>4. CASE s = "unsupported_schema_version"
  <2>1. PICK e \in BaseEvents : x = Object([e EXCEPT !.schema_version = "wrong"])
    BY <1>4 DEF Generated
  <2>2. ValidateBronzeRecord(x) = "UNSUPPORTED_SCHEMA_VERSION"
    BY <2>1, UnsupportedVersionIsFound DEF Object, ValidateBronzeRecord
  <2>3. \A f \in MetadataFields : x.event[f] # "surrogate"
    <3>1. Encoded(e) /\ MetadataFields \subseteq DOMAIN e
      BY UsualEventsAreValid, UsualEventsAreEvents
         DEF BaseEvents, IsEvent, Classes, MetadataFields
    <3>2. x.event = [e EXCEPT !.schema_version = "wrong"]
      BY <2>1 DEF Object
    <3>3. /\ x.event["schema_version"] = "wrong"
          /\ \A f \in MetadataFields : f # "schema_version" => x.event[f] = e[f]
      BY <3>1, <3>2 DEF MetadataFields
    <3>4. QED
      BY <3>1, <3>3 DEF Encoded
  <2>4. QED
    BY <1>4, <2>1, <2>2, <2>3 DEF Object, MayRaiseOther, Unencodable
<1>5. QED
  BY <1>1, <1>2, <1>3, <1>4 DEF GeneratorScenarios

LEMMA InvRoutes == SilverInv => ScenarioIsRouted
<1> SUFFICES ASSUME SilverInv PROVE ScenarioIsRouted
  OBVIOUS
<1>1. CASE scenario = "foreign"
  BY <1>1 DEF ScenarioIsRouted
<1>2. CASE scenario \in GeneratorScenarios /\ payload \in Generated(scenario)
  <2>1. /\ scenario \in {"valid", "duplicate", "late"} => ValidateBronzeRecord(payload) = None
        /\ scenario = "malformed" => ValidateBronzeRecord(payload) = "MALFORMED_JSON"
        /\ scenario = "negative_amount" => ValidateBronzeRecord(payload) = "NEGATIVE_AMOUNT"
        /\ scenario = "unsupported_schema_version" =>
               ValidateBronzeRecord(payload) = "UNSUPPORTED_SCHEMA_VERSION"
        /\ ~MayRaiseOther(payload) /\ ~Unencodable(payload)
    BY <1>2, GeneratedIsRouted
  <2>2. stage \notin {"stuck", "job_failed"}
    BY <2>1 DEF SilverInv, StagesAgree
  <2>3. QED
    BY <2>1, <2>2 DEF SilverInv, StagesAgree, ScenarioIsRouted
<1>3. QED
  BY <1>1, <1>2 DEF SilverInv, PayloadIsKnown

LEMMA InvAcceptsModelled == SilverInv => ModelledEventIsValid
<1> SUFFICES ASSUME SilverInv, ModelAccepts(payload.event)
             PROVE  ValidateEvent(Serialised(payload.event)) = None
  BY DEF ModelledEventIsValid, Event
<1>1. IsEvent(payload.event)
  BY DEF SilverInv, PayloadIsKnown
<1>2. QED
  BY <1>1, SerialisedConforms, EventIsValid

\* The codes of validate_event are not those of the payload.
LEMMA ReasonOfEventIsKnown ==
    ASSUME NEW e
    PROVE  ValidateEvent(e) \in EventReasons
<1>1. IdentityReason(e) \in EventReasons /\ TimeReason(e) \in EventReasons
  BY DEF IdentityReason, TimeReason, EventReasons
<1>2. RequiredReason(e) \in EventReasons
  BY RequiredChecksGive DEF EventReasons
<1>3. AmountReason(e) \in EventReasons /\ PaymentReason(e) \in EventReasons
  BY DEF AmountReason, PaymentReason, EventReasons
<1>4. QED
  BY <1>1, <1>2, <1>3, ReasonOfEvent

LEMMA InvAgreesOnObjects == SilverInv => ParseStatusAgrees
<1> SUFFICES ASSUME SilverInv, stage = "silver" PROVE ParseStatusAgrees
  BY DEF ParseStatusAgrees
<1>1. /\ payload.kind \in Kinds /\ payload.kind # "huge_number"
      /\ parseStatus = ParseStatus(payload) /\ reason = ValidateBronzeRecord(payload)
  BY DEF SilverInv, PayloadIsKnown, StagesAgree, MayLoad
<1>2. CASE payload.kind \in {"object", "deep"}
  <2>1. parseStatus = "parsed_object" /\ reason = ValidateEvent(payload.event)
    BY <1>1, <1>2 DEF ParseStatus, ValidateBronzeRecord
  <2>2. reason \in EventReasons
    BY <2>1, ReasonOfEventIsKnown
  <2>3. QED
    BY <2>1, <2>2 DEF ParseStatusAgrees, EventReasons, None
<1>3. CASE payload.kind \in {"null", "empty", "invalid_utf8", "invalid_json", "not_object"}
  BY <1>1, <1>3 DEF ParseStatus, ValidateBronzeRecord, ParseStatusAgrees
<1>4. QED
  BY <1>1, <1>2, <1>3 DEF Kinds, ForeignKinds

\* A valid candidate has an event that conforms.
LEMMA ValidConforms ==
    ASSUME SilverInv, branch = "valid"
    PROVE  /\ payload.kind \in {"object", "deep"} /\ IsEvent(payload.event)
           /\ Conforms(payload.event) /\ row = Flattened(payload.event)
<1>1. stage = "silver" /\ reason = None /\ reason = ValidateBronzeRecord(payload)
  BY DEF SilverInv, StagesAgree, None
<1>2. payload.kind \in {"object", "deep"} /\ ValidateEvent(payload.event) = None
  BY <1>1 DEF SilverInv, PayloadIsKnown, StagesAgree, MayLoad, Kinds, ForeignKinds,
              ValidateBronzeRecord, None
<1>3. QED
  BY <1>1, <1>2, EventIsValid DEF SilverInv, PayloadIsKnown, StagesAgree

LEMMA InvCompletes == SilverInv => ValidIsComplete
<1> SUFFICES ASSUME SilverInv, branch = "valid", payload.kind = "object"
             PROVE  /\ Event.event_type = "payment" =>
                           /\ Event.payment_id = "text"
                           /\ Event.amount \in {"zero", "positive"}
                           /\ Event.currency = "supported"
                    /\ HasAmount(Event) <=> HasCurrency(Event)
                    /\ Event.event_time = "late" => Event.producer_time = "late"
  BY DEF ValidIsComplete, Parsed
<1>1. Conforms(Event) /\ IsEvent(Event)
  BY ValidConforms DEF Event
<1>2. /\ Event.payment_id \in NoText \cup {"text"}
      /\ Event.amount \in NoText \cup {"wrong", "negative", "zero", "positive"}
  BY <1>1 DEF IsEvent, Classes
<1>3. QED
  BY <1>1, <1>2 DEF Conforms, NoText, IsText, IsMissing, IsString, HasAmount, Times

LEMMA InvShields == SilverInv => BronzeShieldsSilver
BY DEF SilverInv, StagesAgree, BronzeShieldsSilver, MayRaiseOther, MayLoad

LEMMA InvValidatesColumns == SilverInv => ColumnsAreValidated
<1> SUFFICES ASSUME SilverInv, branch = "valid", NEW f \in Columns, row[f] = "coerced"
             PROVE  f = "payment_id" /\ row.event_type # "payment"
  BY DEF ColumnsAreValidated
<1> DEFINE e == payload.event
<1>1. Conforms(e) /\ IsEvent(e) /\ row = Flattened(e)
  BY ValidConforms
<1>2. \A g \in Columns : row[g] = Column(e[g])
  BY <1>1 DEF Flattened
<1>3. e[f] = "number"
  <2>1. e[f] # "coerced"
    BY <1>1 DEF IsEvent, Columns, Classes, NoText, Times
  <2>2. QED
    BY <1>2, <2>1 DEF Column
<1>4. f = "payment_id"
  BY <1>1, <1>3 DEF Conforms, IsText, IsMissing, IsString, RequiredFields, HasAmount,
                    HasCurrency, Times, Columns, Classes
<1>5. e.event_type # "payment" /\ e.event_type = "order"
  BY <1>1, <1>3, <1>4 DEF Conforms, IsText, IsString
<1>6. row.event_type = "order"
  BY <1>2, <1>5 DEF Column, Columns, Classes
<1>7. QED
  BY <1>4, <1>6

LEMMA InvRanks == SilverInv => ReasonHasPriorityElsewhere
<1> SUFFICES ASSUME SilverInv, stage = "silver", payload.kind = "object",
                    ~(\E f, g \in RequiredFields :
                          Unset(Event[f]) /\ Event[g] = "number"),
                    HasAmount(Event) <=> HasCurrency(Event),
                    \A f \in RequiredFields : Event[f] # "blank",
                    Event.event_type = "payment" => Event.payment_id # "blank"
             PROVE  reason = Primary(Event)
  BY RequiredIsAList DEF ReasonHasPriorityElsewhere, Parsed
<1>1. reason = ValidateEvent(Event)
  BY DEF SilverInv, StagesAgree, ValidateBronzeRecord, Event
<1>2. IsEvent(Event) /\ Encoded(Event)
  BY DEF SilverInv, PayloadIsKnown, StagesAgree, Unencodable, Encoded, Event
<1>3. QED
  BY <1>1, <1>2, ReasonIsPrimary

-----------------------------------------------------------------------------
(* Theorems *)

\* A Bronze row has the status of its payload, a Silver row the answer of the
\* validator, in every reachable state.
THEOREM SilverInvHolds == Spec => []SilverInv
BY InitEstablishesSilverInv, NextKeepsSilverInv, PTL DEF Spec

\* Each of the generator's scenarios ends in its branch with its reason, and
\* stops neither the writer nor the job (BadEventGenerator, validate_event).
THEOREM ScenariosAreRouted == Spec => []ScenarioIsRouted
BY InvRoutes, SilverInvHolds, PTL

\* Whatever RetailPaymentEvent accepts, of all events there are, the validator
\* accepts as it was written (kafka_value, validate_event).
THEOREM ModelledEventsAreValid == Spec => []ModelledEventIsValid
BY InvAcceptsModelled, SilverInvHolds, PTL

\* Bronze's best-effort parse and Silver's strict one agree on what is an object
\* (extract_event_metadata, parse_json_object).
THEOREM ParsesAgree == Spec => []ParseStatusAgrees
BY InvAgreesOnObjects, SilverInvHolds, PTL

\* A valid candidate is complete by the data contract, for any event.
THEOREM ValidCandidatesAreComplete == Spec => []ValidIsComplete
BY InvCompletes, SilverInvHolds, PTL

\* Of the payloads on which the validator raises Bronze lets through only those
\* that are nested too deep (transform_bronze_dataframe).
THEOREM OnlyDepthFailsTheJob == Spec => []BronzeShieldsSilver
BY InvShields, SilverInvHolds, PTL

\* No column of a valid candidate was coerced unseen, but the payment_id of an
\* event that is no payment (_build_valid_candidates).
THEOREM ColumnsWereValidated == Spec => []ColumnsAreValidated
BY InvValidatesColumns, SilverInvHolds, PTL

\* Outside the places named in the property (an empty string in a common field or
\* in the id of a payment, a common field missing beside one of a wrong type, an
\* amount without a currency or the reverse) the reason is the one of highest
\* priority in the documented catalogue, with any number of defects.
THEOREM ReasonsFollowTheCatalogue == Spec => []ReasonHasPriorityElsewhere
BY InvRanks, SilverInvHolds, PTL

=============================================================================

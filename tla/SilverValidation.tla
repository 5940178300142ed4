--------------------------- MODULE SilverValidation ---------------------------
(***************************************************************************)
(* The way of one payload from a Kafka record to a Silver branch: the model *)
(* class a producer serialises (producer/schemas.py) and the generator's    *)
(* corruptions, the parse status Bronze notes (ingestion/bronze_metadata),  *)
(* the validator (quality/validation_rules.py) and the split               *)
(* (processing/silver_transform.py).                                        *)
(*                                                                          *)
(* A field value is its class: "absent" (no key), "null", "blank" (a string *)
(* of white space), "number" (any JSON value that is no string), "wrong" (a *)
(* string the field does not allow), "surrogate" (a string with an escaped  *)
(* half of a surrogate pair) or one of the classes below.                   *)
(***************************************************************************)
EXTENDS Integers, Sequences, FiniteSets, SequencesExt

CONSTANT Events     \* the JSON objects other producers may send

VARIABLES
    scenario,   \* generator scenario, or "foreign" for any other producer
    payload,    \* [kind, event]: the value of the Kafka record
    stage,      \* "topic", "bronze", "silver"; "stuck": the writer raised;
                \* "job_failed": the validation raised
    parseStatus,\* payload_parse_status of the Bronze row
    branch,     \* "valid" or "invalid" candidate
    reason,     \* reason_code, or None
    row         \* the event columns of a valid candidate, or None

vars == <<scenario, payload, stage, parseStatus, branch, reason, row>>

None == "none"

-----------------------------------------------------------------------------
(* Events *)

NoText == {"absent", "null", "blank", "number"}
Required == <<"order_id", "customer_id", "store_id", "idempotency_key", "source">>
Times == {"early", "late"}      \* two instants

\* The classes of each field; "extra" is a key the schema does not know.
Classes == [
    schema_version  |-> NoText \cup {"surrogate", "wrong", "1.0"},
    event_id        |-> NoText \cup {"surrogate", "wrong", "uuid"},
    event_type      |-> NoText \cup {"surrogate", "wrong", "order", "payment"},
    event_time      |-> NoText \cup {"surrogate", "wrong"} \cup Times,
    producer_time   |-> NoText \cup {"surrogate", "wrong"} \cup Times,
    order_id        |-> NoText \cup {"text"},
    customer_id     |-> NoText \cup {"text"},
    store_id        |-> NoText \cup {"text"},
    idempotency_key |-> NoText \cup {"text"},
    source          |-> NoText \cup {"text", "producer"},
    amount          |-> NoText \cup {"wrong", "negative", "zero", "positive"},
    currency        |-> NoText \cup {"wrong", "supported"},
    payment_id      |-> NoText \cup {"text"},
    extra           |-> {"absent", "text"}]

IsEvent(e) == DOMAIN e = DOMAIN Classes /\ \A f \in DOMAIN e : e[f] \in Classes[f]

ASSUME EventsAssumption == \A e \in Events : IsEvent(e)

OrderEvent == [
    schema_version |-> "1.0", event_id |-> "uuid", event_type |-> "order",
    event_time |-> "early", producer_time |-> "late", order_id |-> "text",
    customer_id |-> "text", store_id |-> "text", idempotency_key |-> "text",
    source |-> "producer", amount |-> "null", currency |-> "null",
    payment_id |-> "null", extra |-> "absent"]
PaymentEvent == [OrderEvent EXCEPT
    !.event_type = "payment", !.amount = "positive",
    !.currency = "supported", !.payment_id = "text"]

-----------------------------------------------------------------------------
(* producer/schemas.py *)

Unset(v) == v \in {"absent", "null"}

\* RetailPaymentEvent.model_validate.  Pydantic strips strings, reads numbers
\* as an amount or as an instant (here the early one), fills in the absent
\* version and source, and forbids other keys.
Instant(v) == IF v = "number" THEN "early" ELSE v

FieldsAccepted(e) ==
    /\ e.schema_version \in {"absent", "1.0"}
    /\ e.event_id = "uuid"
    /\ e.event_type \in {"order", "payment"}
    /\ Instant(e.event_time) \in Times /\ Instant(e.producer_time) \in Times
    /\ \A f \in {"order_id", "customer_id", "store_id", "idempotency_key"} : e[f] = "text"
    /\ e.source \in {"absent", "producer"}
    /\ Unset(e.amount) \/ e.amount \in {"number", "zero", "positive"}
    /\ Unset(e.currency) \/ e.currency = "supported"
    /\ Unset(e.payment_id) \/ e.payment_id = "text"
    /\ e.extra = "absent"

CrossFieldRules(e) ==
    /\ ~(Instant(e.event_time) = "late" /\ Instant(e.producer_time) = "early")
    /\ Unset(e.amount) = Unset(e.currency)
    /\ e.event_type = "payment" =>
           ~Unset(e.payment_id) /\ ~Unset(e.amount) /\ ~Unset(e.currency)

ModelAccepts(e) == FieldsAccepted(e) /\ CrossFieldRules(e)

\* kafka_value: model_dump_json writes every field, the amount as a string.
SerialisedAmountAsNumber(v) == IF v = "absent" THEN "null" ELSE v  \* mutant
SerialisedAmount(v) ==
    CASE v = "absent" -> "null"
      [] v = "number" -> "positive"
      [] OTHER        -> v

SerialisedField(f, v) ==
    CASE f = "schema_version"                 -> "1.0"
      [] f = "source"                         -> "producer"
      [] f \in {"event_time", "producer_time"} -> Instant(v)
      [] f = "amount"                         -> SerialisedAmount(v)
      [] f \in {"currency", "payment_id"}     -> IF Unset(v) THEN "null" ELSE v
      [] OTHER                                -> v
Serialised(e) == [f \in DOMAIN e |-> SerialisedField(f, e[f])]

-----------------------------------------------------------------------------
(* producer/bad_event_generator.py: _generate_record *)

Object(e) == [kind |-> "object", event |-> e]
Other(kind) == [kind |-> kind, event |-> OrderEvent]

\* A base event of any type; only a negative amount forces a payment.
BaseEvents == {OrderEvent, PaymentEvent}
NegativeBaseAny == BaseEvents               \* mutant: any event type
NegativeBase == {PaymentEvent}

Generated(s) ==
    CASE s \in {"valid", "duplicate", "late"} -> {Object(e) : e \in BaseEvents}
      [] s = "malformed" -> {Other("invalid_json")}
      [] s = "negative_amount" ->
             {Object([e EXCEPT !.amount = "negative"]) : e \in NegativeBase}
      [] s = "unsupported_schema_version" ->
             {Object([e EXCEPT !.schema_version = "wrong"]) : e \in BaseEvents}

GeneratorScenarios == {"valid", "duplicate", "late", "malformed",
                       "negative_amount", "unsupported_schema_version"}

-----------------------------------------------------------------------------
(* json.loads *)

\* It raises JSONDecodeError for what is no JSON, a plain ValueError for an
\* integer of too many digits, and RecursionError for a deep nesting, where the
\* limit depends on the interpreter and on the stack of the caller.
MayRaiseOther(x) == x.kind \in {"huge_number", "deep"}
MayLoad(x) == x.kind # "huge_number"

-----------------------------------------------------------------------------
(* ingestion/bronze_metadata.py: extract_event_metadata *)

\* An empty value is read as text and is no JSON document.
ParseStatusOfAnyJson(x) ==                  \* mutant: the top level may be a list
    CASE x.kind = "null"         -> "null_payload"
      [] x.kind = "invalid_utf8" -> "invalid_utf8"
      [] x.kind \in {"empty", "invalid_json"} -> "invalid_json"
      [] OTHER                   -> "parsed_object"
ParseStatus(x) ==
    CASE x.kind = "null"         -> "null_payload"
      [] x.kind = "invalid_utf8" -> "invalid_utf8"
      [] x.kind = "not_object"   -> "json_not_object"
      [] x.kind \in {"object", "deep"} -> "parsed_object"
      [] OTHER                   -> "invalid_json"

\* Only JSONDecodeError is caught.
MetadataMayFailOnDepth(x) == x.kind = "deep"    \* mutant: ValueError is caught
MetadataMayFail(x) == MayRaiseOther(x)

\* The fields of the payload that build_bronze_envelope copies as text; the
\* encoding of a JSONL line raises on half a surrogate pair.
MetadataFields == {"event_id", "event_type", "event_time", "producer_time",
                   "schema_version"}
Unencodable(x) ==
    x.kind = "object" /\ \E f \in MetadataFields : x.event[f] = "surrogate"

-----------------------------------------------------------------------------
(* quality/validation_rules.py *)

IsMissing(v) == v \in {"absent", "null", "blank"}
IsString(v) == v \notin {"absent", "null", "number"}

\* The checks of validate_event in the order of the code: each has a reason
\* code if it is broken, and the first of them is the answer.
Check(broken, code) == IF broken THEN code ELSE None

IdentityChecks(e) == <<
    Check(IsMissing(e.schema_version), "MISSING_SCHEMA_VERSION"),
    Check(e.schema_version # "1.0", "UNSUPPORTED_SCHEMA_VERSION"),
    Check(IsMissing(e.event_id), "MISSING_EVENT_ID"),
    Check(e.event_id # "uuid", "INVALID_EVENT_ID"),
    Check(IsMissing(e.event_type), "MISSING_EVENT_TYPE"),
    Check(e.event_type \notin {"order", "payment"}, "INVALID_EVENT_TYPE")>>

TimeChecks(e) == <<
    Check(IsMissing(e.event_time), "MISSING_EVENT_TIME"),
    Check(e.event_time \notin Times, "INVALID_EVENT_TIME"),
    Check(IsMissing(e.producer_time), "MISSING_PRODUCER_TIME"),
    Check(e.producer_time \notin Times, "INVALID_PRODUCER_TIME"),
    Check(e.event_time = "late" /\ e.producer_time = "early",
          "PRODUCER_TIME_BEFORE_EVENT_TIME")>>

\* Field by field: the second field is looked at when the first one is right.
RequiredChecksOfPresence(e) ==              \* mutant: numbers pass for text
    [i \in DOMAIN Required |->
        Check(IsMissing(e[Required[i]]), "MISSING_REQUIRED_FIELD")]
RequiredChecks(e) == [n \in 1..(2 * Len(Required)) |->
    LET value == e[Required[(n + 1) \div 2]] IN
    IF n % 2 = 1 THEN Check(IsMissing(value), "MISSING_REQUIRED_FIELD")
                 ELSE Check(~IsString(value), "INVALID_REQUIRED_FIELD")]

HasAmount(e) == ~IsMissing(e.amount)
HasCurrency(e) == ~IsMissing(e.currency)

AmountChecks(e) == <<
    Check(HasAmount(e) # HasCurrency(e), "AMOUNT_CURRENCY_MISMATCH"),
    Check(HasAmount(e) /\ e.amount \in {"number", "wrong"}, "INVALID_AMOUNT"),
    Check(HasAmount(e) /\ e.amount = "negative", "NEGATIVE_AMOUNT"),
    Check(HasAmount(e) /\ e.currency # "supported", "INVALID_CURRENCY")>>

PaymentChecksNoDetails(e) == <<             \* mutant: the last check is missing
    Check(e.event_type = "payment" /\ IsMissing(e.payment_id), "MISSING_PAYMENT_ID"),
    Check(e.event_type = "payment" /\ ~IsString(e.payment_id), "INVALID_PAYMENT_ID")>>
PaymentChecks(e) == <<
    Check(e.event_type = "payment" /\ IsMissing(e.payment_id), "MISSING_PAYMENT_ID"),
    Check(e.event_type = "payment" /\ ~IsString(e.payment_id), "INVALID_PAYMENT_ID"),
    Check(e.event_type = "payment" /\ ~(HasAmount(e) /\ HasCurrency(e)),
          "MISSING_PAYMENT_DETAILS")>>

ChecksPaymentFirst(e) ==                    \* mutant: swapped order
    IdentityChecks(e) \o TimeChecks(e) \o RequiredChecks(e) \o PaymentChecks(e)
        \o AmountChecks(e)
Checks(e) ==
    IdentityChecks(e) \o TimeChecks(e) \o RequiredChecks(e) \o AmountChecks(e)
        \o PaymentChecks(e)

FirstBroken(checks) ==
    LET broken == {n \in DOMAIN checks : checks[n] # None}
    IN  IF broken = {} THEN None ELSE checks[Min(broken)]
ValidateEvent(e) == FirstBroken(Checks(e))

\* decode_raw_payload and parse_json_object come before validate_event.  The
\* Base64 text of an empty value is the empty string.
ValidateBronzeRecord(x) ==
    CASE x.kind \in {"null", "empty"} -> "MISSING_RAW_PAYLOAD"
      [] x.kind = "invalid_utf8"      -> "INVALID_UTF8"
      [] x.kind = "invalid_json"      -> "MALFORMED_JSON"
      [] x.kind = "not_object"        -> "JSON_NOT_OBJECT"
      [] x.kind \in {"object", "deep"} -> ValidateEvent(x.event)

-----------------------------------------------------------------------------
(* processing/silver_transform.py: _build_valid_candidates *)

\* EVENT_SCHEMA makes a text column of every field it knows: from_json turns a
\* value of any other type into text, and null or no key into null.
Columns == DOMAIN Classes \ {"extra"}
Column(v) ==
    CASE v \in {"absent", "null"} -> "null"
      [] v = "number"             -> "coerced"
      [] OTHER                    -> v
Flattened(e) == [f \in Columns |-> Column(e[f])]

-----------------------------------------------------------------------------
ForeignKinds == {"null", "empty", "invalid_utf8", "invalid_json", "not_object",
                 "huge_number", "deep"}

Init ==
    /\ \/ scenario \in GeneratorScenarios /\ payload \in Generated(scenario)
       \/ scenario = "foreign" /\ payload \in {Object(e) : e \in Events}
       \/ scenario = "foreign" /\ payload \in {Other(k) : k \in ForeignKinds}
    /\ stage = "topic"
    /\ parseStatus = None /\ branch = None /\ reason = None /\ row = None

\* build_bronze_envelope keeps the value and notes what it could read of it.
Ingest ==
    /\ stage = "topic"
    /\ MayLoad(payload) \/ ~MetadataMayFail(payload)
    /\ ~Unencodable(payload)
    /\ stage' = "bronze"
    /\ parseStatus' = ParseStatus(payload)
    /\ UNCHANGED <<scenario, payload, branch, reason, row>>

\* The envelope or its serialisation raises: the batch is not written.
IngestFails ==
    /\ stage = "topic"
    /\ MetadataMayFail(payload) \/ Unencodable(payload)
    /\ stage' = "stuck"
    /\ UNCHANGED <<scenario, payload, parseStatus, branch, reason, row>>

\* transform_bronze_dataframe: the UDF validates value_base64 anew, and the
\* two filters on is_valid make the branches.
Transform ==
    /\ stage = "bronze"
    /\ MayLoad(payload)
    /\ stage' = "silver"
    /\ reason' = ValidateBronzeRecord(payload)
    /\ IF reason' = None
         THEN branch' = "valid" /\ row' = Flattened(payload.event)
         ELSE branch' = "invalid" /\ UNCHANGED row
    /\ UNCHANGED <<scenario, payload, parseStatus>>

\* The UDF raises, and the Spark job ends with all its records.
TransformFails ==
    /\ stage = "bronze"
    /\ MayRaiseOther(payload)
    /\ stage' = "job_failed"
    /\ UNCHANGED <<scenario, payload, parseStatus, branch, reason, row>>

Next == Ingest \/ IngestFails \/ Transform \/ TransformFails

Spec == Init /\ [][Next]_vars

-----------------------------------------------------------------------------
(* Properties *)

Event == payload.event
Parsed == stage = "silver" /\ payload.kind = "object"

\* Each of the generator's scenarios ends in the branch, and with the reason,
\* it is made for (test_silver_transform.py:416), whatever the type of the
\* event it was made from, and none of them stops the writer or the job.
ScenarioIsRouted ==
    /\ stage \in {"stuck", "job_failed"} => scenario = "foreign"
    /\ stage = "silver" =>
        /\ scenario \in {"valid", "duplicate", "late"} => branch = "valid"
        /\ scenario = "malformed" => reason = "MALFORMED_JSON"
        /\ scenario = "negative_amount" => reason = "NEGATIVE_AMOUNT"
        /\ scenario = "unsupported_schema_version" =>
               reason = "UNSUPPORTED_SCHEMA_VERSION"

\* Two independent definitions of a valid event agree in one direction: what
\* RetailPaymentEvent accepts and serialises, the validator accepts.
ModelledEventIsValid ==
    Parsed /\ ModelAccepts(Event) => ValidateEvent(Serialised(Event)) = None

\* The best-effort parse of Bronze and the strict one of Silver agree on
\* whether there is an object to validate.
ParseStatusAgrees ==
    stage = "silver" =>
        ((parseStatus = "parsed_object") <=>
            reason \notin {"MISSING_RAW_PAYLOAD", "INVALID_UTF8", "MALFORMED_JSON",
                           "JSON_NOT_OBJECT"})

\* A valid candidate has what the contract asks of its type
\* (docs/data_contract.md:77-90): a payment has its id, an amount that is no
\* negative number and a currency, and no event has one of the two alone.
ValidIsComplete ==
    Parsed /\ branch = "valid" =>
        /\ Event.event_type = "payment" =>
               /\ Event.payment_id = "text"
               /\ Event.amount \in {"zero", "positive"}
               /\ Event.currency = "supported"
        /\ HasAmount(Event) <=> HasCurrency(Event)
        /\ Event.event_time = "late" => Event.producer_time = "late"

\* A record that Bronze stored fails the job of all records only by its depth
\* (silver_transform.py:332): everything else on which the validator would raise
\* made the writer raise before, so that it never became a Bronze row.
BronzeShieldsSilver == stage = "job_failed" => payload.kind = "deep"

\* No column of a valid candidate is text that from_json made of something that
\* was no text and that no rule looked at, but for the payment_id of an event
\* that is no payment (silver_transform.py:377-409, validation_rules.py:425).
ColumnsAreValidated ==
    branch = "valid" =>
        \A f \in Columns : row[f] = "coerced" =>
            f = "payment_id" /\ row.event_type # "payment"

\* The entries of the catalogue of docs/data_quality.md section 7 that hold of
\* an event: each reason with its priority, independent of the other reasons.  An
\* empty string is missing (line 279) but where the catalogue says otherwise: in a
\* common field and in payment_id it is a wrong value (lines 338, 344, 509-513).
Entry(priority, code, holds) ==
    IF holds THEN {[priority |-> priority, code |-> code]} ELSE {}
Catalogue(e) == UNION {
    Entry(200, "MISSING_SCHEMA_VERSION", IsMissing(e.schema_version)),
    Entry(210, "UNSUPPORTED_SCHEMA_VERSION", e.schema_version \in {"number", "wrong"}),
    Entry(300, "MISSING_EVENT_ID", IsMissing(e.event_id)),
    Entry(310, "INVALID_EVENT_ID", e.event_id \in {"number", "wrong"}),
    Entry(320, "MISSING_EVENT_TYPE", IsMissing(e.event_type)),
    Entry(330, "INVALID_EVENT_TYPE", e.event_type \in {"number", "wrong"}),
    Entry(340, "MISSING_EVENT_TIME", IsMissing(e.event_time)),
    Entry(350, "INVALID_EVENT_TIME", e.event_time \in {"number", "wrong"}),
    Entry(360, "MISSING_PRODUCER_TIME", IsMissing(e.producer_time)),
    Entry(370, "INVALID_PRODUCER_TIME", e.producer_time \in {"number", "wrong"}),
    Entry(380, "PRODUCER_TIME_BEFORE_EVENT_TIME",
          e.event_time = "late" /\ e.producer_time = "early"),
    Entry(400, "MISSING_REQUIRED_FIELD", \E f \in ToSet(Required) : Unset(e[f])),
    Entry(410, "INVALID_REQUIRED_FIELD",
          \E f \in ToSet(Required) : e[f] \in {"number", "blank"}),
    Entry(500, "INVALID_AMOUNT", e.amount \in {"number", "wrong"}),
    Entry(510, "NEGATIVE_AMOUNT", e.amount = "negative"),
    Entry(520, "INVALID_CURRENCY", e.currency \in {"number", "wrong"}),
    Entry(530, "AMOUNT_CURRENCY_MISMATCH", IsMissing(e.amount) # IsMissing(e.currency)),
    Entry(540, "MISSING_PAYMENT_ID", e.event_type = "payment" /\ Unset(e.payment_id)),
    Entry(545, "INVALID_PAYMENT_ID",
          e.event_type = "payment" /\ e.payment_id \in {"number", "blank"}),
    Entry(550, "MISSING_PAYMENT_DETAILS",
          e.event_type = "payment" /\ (IsMissing(e.amount) \/ IsMissing(e.currency)))}

Primary(e) ==
    IF Catalogue(e) = {} THEN None
    ELSE (CHOOSE c \in Catalogue(e) :
              \A d \in Catalogue(e) : c.priority <= d.priority).code

\* "Nếu record sai nhiều rule, validator trả lỗi có priority cao nhất"
\* (docs/data_quality.md:186): of all entries that hold, the reason is the
\* one with the smallest number.
ReasonHasPriority == Parsed => reason = Primary(Event)

\* The same where the code does follow the catalogue: the common fields are
\* well-formed or missing alone, amount and currency come together, and neither a
\* common field nor the id of a payment is an empty string.
ReasonHasPriorityElsewhere ==
    (Parsed
        /\ ~(\E f, g \in ToSet(Required) : Unset(Event[f]) /\ Event[g] = "number")
        /\ (HasAmount(Event) <=> HasCurrency(Event))
        /\ \A f \in ToSet(Required) : Event[f] # "blank"
        /\ (Event.event_type = "payment" => Event.payment_id # "blank"))
    => reason = Primary(Event)

=============================================================================

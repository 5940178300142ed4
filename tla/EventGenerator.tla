---------------------------- MODULE EventGenerator ----------------------------
(***************************************************************************)
(* producer/bad_event_generator.py: BadEventGenerator.generate turns the    *)
(* rates of a ProducerConfig into scenario counts and these into a dataset: *)
(* a shuffled plan, one record per place of the plan, and copies of         *)
(* ordinary valid records inserted behind their originals.                  *)
(*                                                                          *)
(* The seeded random generator is a nondeterministic choice over all it can *)
(* draw.  A record is its scenario, its event_id (the base index it was     *)
(* built for), its key (the order) and source_event_id.                     *)
(***************************************************************************)
EXTENDS Integers, Sequences, FiniteSets, SequencesExt

CONSTANTS
    Volume,         \* data_volume
    Scale,          \* rates are given in fractions of Scale
    Configs,        \* the rates a run can be given, [Controlled -> 0..Scale]
    Truncated,      \* rates r with data_volume * r, in binary, just below a
                    \* whole number: 0.29 for 100 records
    Orders,         \* order ids: kafka_key() values
    NoSource        \* source_event_id of a record that is no duplicate

Controlled == {"duplicate", "late", "malformed", "negative_amount",
               "unsupported_schema_version"}
Scenarios == Controlled \cup {"valid"}

ASSUME GeneratorAssumption ==
    /\ Volume \in Nat \ {0}
    /\ Scale \in Nat \ {0}
    /\ Configs \subseteq [Controlled -> 0..Scale]
    /\ Truncated \subseteq 1..Scale

VARIABLES
    config,         \* the rates of this run
    stage,          \* where generate() is
    plan,           \* non_duplicate_scenarios
    dataset         \* records

vars == <<config, stage, plan, dataset>>

-----------------------------------------------------------------------------
(* Counts *)

\* int(data_volume * rate).
RateCountRounded(r) == (2 * Volume * r + Scale) \div (2 * Scale)    \* mutant
RateCount(r) ==
    IF r \in Truncated /\ (Volume * r) % Scale = 0
      THEN (Volume * r) \div Scale - 1
      ELSE (Volume * r) \div Scale

\* calculate_scenario_counts: what the rates leave is ordinary valid records.
Total(f) == f["duplicate"] + f["late"] + f["malformed"] + f["negative_amount"]
            + f["unsupported_schema_version"]
ControlledCount == Total([s \in Controlled |-> RateCount(config[s])])
ValidCount == Volume - ControlledCount
Count(s) == IF s = "valid" THEN ValidCount ELSE RateCount(config[s])

\* ProducerConfig.validate_scenario_rates: the sum of the rates, then whether
\* there is something to duplicate.  Its tolerance of 1e-12 is less than the
\* rate of one record.
ErrorRate == Total(config)
ConfigAcceptedAnyDuplicates == ErrorRate <= Scale           \* mutant
ConfigAccepted ==
    /\ ErrorRate <= Scale
    /\ Count("duplicate") > 0 => ValidCount >= 1

\* The scenarios that are planned, in any order: list building and shuffle.
\* A list times a negative number is empty.
Planned(s) == IF Count(s) < 0 THEN 0 ELSE Count(s)
PlanLength == Planned("valid") + Total([s \in Controlled |-> Planned(s)]) - Planned("duplicate")
IsPlan(p) ==
    \A s \in Scenarios \ {"duplicate"} :
        Cardinality({i \in DOMAIN p : p[i] = s}) = Planned(s)
Plans == {p \in [1..PlanLength -> Scenarios \ {"duplicate"}] : IsPlan(p)}

-----------------------------------------------------------------------------
Init ==
    /\ config \in Configs
    /\ stage = "planning"
    /\ plan = << >>
    /\ dataset = << >>

\* With duplicates to make, the first ordinary valid record of the shuffled
\* plan changes places with its head.
FirstValid(p) == CHOOSE i \in DOMAIN p :
    p[i] = "valid" /\ \A j \in 1..(i - 1) : p[j] # "valid"
HasValid(p) == \E i \in DOMAIN p : p[i] = "valid"
ArrangedByAssignment(p) ==          \* mutant: the head is overwritten
    IF Count("duplicate") > 0 /\ HasValid(p) THEN [p EXCEPT ![1] = "valid"] ELSE p
Arranged(p) ==
    IF Count("duplicate") > 0 /\ HasValid(p)
      THEN [p EXCEPT ![1] = "valid", ![FirstValid(p)] = p[1]]
      ELSE p

\* rng.shuffle and list.index, which raises when there is nothing to copy.
Shuffle ==
    /\ stage = "planning"
    /\ ConfigAccepted
    /\ \E p \in Plans :
         /\ plan' = Arranged(p)
         /\ stage' = IF Count("duplicate") > 0 /\ ~HasValid(p)
                       THEN "failed" ELSE "generating"
    /\ UNCHANGED <<config, dataset>>

\* ProducerConfig refuses the rates.
RejectConfig ==
    /\ stage = "planning"
    /\ ~ConfigAccepted
    /\ stage' = "failed"
    /\ UNCHANGED <<config, plan, dataset>>

\* One turn of the loop over the plan.
BaseIndex == Len(dataset)

GenerateRecord ==
    /\ stage = "generating"
    /\ Len(dataset) < Len(plan)
    /\ \E order \in Orders :
         dataset' = Append(dataset,
             [scenario |-> plan[Len(dataset) + 1], id |-> BaseIndex,
              key |-> order, source |-> NoSource])
    /\ UNCHANGED <<config, stage, plan>>

Duplicates == {i \in DOMAIN dataset : dataset[i].scenario = "duplicate"}

\* list.insert(position): the copy comes before what is at that place now.
InsertPositionsFromOriginal(i) == i..(Len(dataset) + 1)     \* mutant: no + 1
InsertPositions(i) == (i + 1)..(Len(dataset) + 1)

\* Mutant: any record can be copied, not only an ordinary valid one.
IsOriginalOfAny(i) == dataset[i].scenario # "duplicate"
IsOriginal(i) == dataset[i].scenario = "valid"

\* One turn of the duplicate loop: any original, any place behind it.
InsertDuplicate ==
    /\ stage = "generating"
    /\ Len(dataset) >= Len(plan)
    /\ Cardinality(Duplicates) < Count("duplicate")
    /\ \E i \in DOMAIN dataset :
         /\ IsOriginal(i)
         /\ \E position \in InsertPositions(i) :
              dataset' = InsertAt(dataset, position,
                  [dataset[i] EXCEPT !.scenario = "duplicate", !.source = dataset[i].id])
    /\ UNCHANGED <<config, stage, plan>>

\* The length check, and the dataset is handed over.
Finish ==
    /\ stage = "generating"
    /\ Len(dataset) >= Len(plan)
    /\ Cardinality(Duplicates) = Count("duplicate")
    /\ stage' = IF Len(dataset) = Volume THEN "generated" ELSE "failed"
    /\ UNCHANGED <<config, plan, dataset>>

Next == Shuffle \/ RejectConfig \/ GenerateRecord \/ InsertDuplicate \/ Finish

Spec == Init /\ [][Next]_vars /\ WF_vars(Next)

-----------------------------------------------------------------------------
(* Properties *)

\* A duplicate stands behind the ordinary valid record it repeats, with the
\* same key, wherever later duplicates are inserted
\* (bad_event_generator.py:195-206).
DuplicatesFollowOriginals ==
    \A j \in Duplicates : \E i \in 1..(j - 1) :
        /\ dataset[i].scenario = "valid"
        /\ dataset[i].id = dataset[j].source
        /\ dataset[i].id = dataset[j].id
        /\ dataset[i].key = dataset[j].key

\* Records of a scenario.
Number(s) == Cardinality({i \in DOMAIN dataset : dataset[i].scenario = s})

\* A generated dataset has exactly the planned number of each scenario, and
\* the records that are no duplicates keep the order of their event times.
DatasetAsPlanned ==
    stage = "generated" =>
        /\ \A s \in Scenarios : Number(s) = Count(s)
        /\ \A i, j \in DOMAIN dataset \ Duplicates :
             i < j => dataset[i].id < dataset[j].id

\* The mix is the configured one up to the truncation of each product: every
\* controlled scenario has its share of the volume less one record at most, and
\* what they lose is ordinary valid records, never another scenario
\* (bad_event_generator.py:62-107, config.py:20-25).
MixAsConfigured ==
    stage = "generated" =>
        /\ \A s \in Controlled :
             /\ Number(s) * Scale <= Volume * config[s]
             /\ (Number(s) + 1) * Scale >= Volume * config[s]
        /\ Number("valid") * Scale >= Volume * (Scale - ErrorRate)

\* What the proofs need beside the properties.  Every variable has its type ...
GeneratorTypeOK ==
    /\ config \in Configs
    /\ stage \in {"planning", "generating", "generated", "failed"}
    /\ plan \in Seq(Scenarios \ {"duplicate"})
    /\ dataset \in Seq([scenario : Scenarios, id : Nat, key : Orders,
                        source : Nat \cup {NoSource}])

\* ... the plan has the counts, whatever was exchanged in it ...
PlanIsKept ==
    /\ stage = "planning" => plan = << >> /\ dataset = << >>
    /\ stage \in {"generating", "generated"} => ConfigAccepted /\ IsPlan(plan)
    /\ stage = "generated" =>
         Len(dataset) >= Len(plan) /\ Number("duplicate") = Count("duplicate")

\* ... and the records that are no copies are those of the plan so far, in its
\* order, wherever the copies stand.
RecordsFollowPlan ==
    /\ Len(dataset) <= Len(plan) => \A i \in DOMAIN dataset :
         dataset[i].id = i - 1 /\ dataset[i].scenario # "duplicate"
    /\ \A i \in DOMAIN dataset \ Duplicates :
         /\ dataset[i].id + 1 \in DOMAIN plan
         /\ dataset[i].scenario = plan[dataset[i].id + 1]
    /\ \A i, j \in DOMAIN dataset \ Duplicates :
         i < j => dataset[i].id < dataset[j].id
    /\ \A n \in DOMAIN plan : n <= Len(dataset) =>
         \E i \in DOMAIN dataset \ Duplicates : dataset[i].id + 1 = n

\* The inductive invariant.
GeneratorInv ==
    /\ GeneratorTypeOK
    /\ PlanIsKept
    /\ RecordsFollowPlan
    /\ DuplicatesFollowOriginals

\* An accepted configuration always yields a dataset: the length check never
\* raises and a duplicate always finds an original.
AcceptedIsGenerated == ConfigAccepted ~> (stage = "generated")

=============================================================================

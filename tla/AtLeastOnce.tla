----------------------------- MODULE AtLeastOnce -----------------------------
(***************************************************************************)
(* What the Bronze ingestion promises about one Kafka topic, without any    *)
(* writer, buffer, object or consumer group: offsets may be acknowledged    *)
(* only once everything below them is accounted for.                        *)
(*                                                                          *)
(* An offset is "durable" when an object holding it has been stored and     *)
(* verified, or when the broker deleted it before a writer could read it.   *)
(* Acknowledging is allowed to go backwards: two writers of one group may   *)
(* commit in the wrong order, which costs a second read and loses nothing.  *)
(***************************************************************************)
EXTENDS Integers

CONSTANT Partitions      \* the partitions of the topic

VARIABLES
    produced,            \* [Partitions -> Nat]: the next offset the log will use
    durable,             \* [Partitions -> SUBSET Nat]: offsets accounted for
    acked                \* [Partitions -> Nat]: where a restarted reader resumes

vars == <<produced, durable, acked>>

Init ==
    /\ produced = [p \in Partitions |-> 0]
    /\ durable  = [p \in Partitions |-> {}]
    /\ acked    = [p \in Partitions |-> 0]

\* A producer appends one record to the log of p.
Produce(p) ==
    /\ produced' = [produced EXCEPT ![p] = @ + 1]
    /\ UNCHANGED <<durable, acked>>

\* Offsets that the log really holds become durable; none stops being durable.
Persist ==
    /\ durable' \in [Partitions -> SUBSET Nat]
    /\ \A p \in Partitions :
          /\ durable[p] \subseteq durable'[p]
          /\ \A o \in durable'[p] : o < produced[p]
    /\ UNCHANGED <<produced, acked>>

\* The resume positions change; nothing below any of them is unaccounted for.
Acknowledge ==
    /\ acked' \in [Partitions -> Nat]
    /\ \A p \in Partitions : \A h \in 0..(acked'[p] - 1) : h \in durable[p]
    /\ UNCHANGED <<produced, durable>>

Next ==
    \/ \E p \in Partitions : Produce(p)
    \/ Persist
    \/ Acknowledge

Spec == Init /\ [][Next]_vars

=============================================================================

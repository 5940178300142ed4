-------------------------- MODULE OrderedPublication --------------------------
(***************************************************************************)
(* What event_producer.py promises about one run, with no local queue, no   *)
(* delivery report and no retry: the topic gets records of the dataset, in  *)
(* each partition in the dataset's order and none twice, and the run may    *)
(* end well only when nothing is missing.  A run that ends otherwise may    *)
(* leave any such part of its dataset, and requests that are still under    *)
(* way may be carried out after its end.                                    *)
(***************************************************************************)
EXTENDS Integers, Sequences

CONSTANT Partitions      \* the partitions of the topic

VARIABLES
    length,              \* records of the dataset; 0 before there is one
    topic,               \* [Partitions -> Seq of places]
    outcome              \* "running", "success" or "failure"

vars == <<length, topic, outcome>>

Published(i) == \E p \in Partitions : \E n \in DOMAIN topic[p] : topic[p][n] = i

Init ==
    /\ length = 0
    /\ topic = [p \in Partitions |-> << >>]
    /\ outcome = "running"

Begin ==
    /\ length = 0
    /\ outcome = "running"
    /\ length' \in Nat
    /\ UNCHANGED <<topic, outcome>>

\* A record is appended behind records that precede it in the dataset.
Deliver(p) ==
    /\ \E i \in 1..length :
         /\ ~Published(i)
         /\ \A n \in DOMAIN topic[p] : topic[p][n] < i
         /\ topic' = [topic EXCEPT ![p] = Append(@, i)]
    /\ UNCHANGED <<length, outcome>>

Succeed ==
    /\ outcome = "running"
    /\ \A i \in 1..length : Published(i)
    /\ outcome' = "success"
    /\ UNCHANGED <<length, topic>>

Fail ==
    /\ outcome = "running"
    /\ outcome' = "failure"
    /\ UNCHANGED <<length, topic>>

Next == Begin \/ Succeed \/ Fail \/ \E p \in Partitions : Deliver(p)

Spec == Init /\ [][Next]_vars

=============================================================================

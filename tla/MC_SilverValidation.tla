------------------------- MODULE MC_SilverValidation --------------------------
(* Values for the model-checking runs of SilverValidation. *)
EXTENDS SilverValidation

CONSTANT MaxDefects     \* bound: fields of an event off their usual class

\* All events that differ from a usual one in MaxDefects fields at most.
RECURSIVE Defective(_, _)
Defective(events, n) ==
    IF n = 0 THEN events
    ELSE Defective(events \cup
             UNION {{[e EXCEPT ![f] = v] : v \in Classes[f]} :
                        e \in events, f \in DOMAIN Classes}, n - 1)
DefectiveEvents == Defective({OrderEvent, PaymentEvent}, MaxDefects)

=============================================================================

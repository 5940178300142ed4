---------------------------- MODULE MC_ProducerRun ----------------------------
(* Values for the model-checking runs of ProducerRun. *)
EXTENDS ProducerRun, TLC

CONSTANTS o1, o2

OrderPartitions == (o1 :> 0) @@ (o2 :> 1)

\* Rates in eighths of a volume of four: two eighths are one record.  Some sums
\* exceed one, some configurations leave nothing to duplicate, some products
\* are no whole number, and four eighths stand for a product that the binary
\* arithmetic truncates although it is one.
Rates(d, l, m) ==
    [s \in Controlled |-> CASE s = "duplicate" -> d
                            [] s = "late"      -> l
                            [] s = "malformed" -> m
                            [] OTHER           -> 0]
SomeRates == {Rates(0, 8, 0), Rates(0, 3, 2), Rates(2, 6, 0), Rates(3, 6, 0),
              Rates(3, 3, 2), Rates(3, 4, 0), Rates(5, 0, 2), Rates(5, 3, 0)}
OneProduct == {4}

=============================================================================

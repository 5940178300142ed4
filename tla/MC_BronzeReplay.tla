--------------------------- MODULE MC_BronzeReplay ----------------------------
(* Values for the model-checking runs of BronzeReplay. *)
EXTENDS BronzeReplay

CONSTANTS r1, r2

TwoPartitions == {0, 1}
SecondRun == {r2}

\* Keys that follow one another, overlap, leave a gap and go over partitions.
Key(p, lo, hi) == [part |-> p, lo |-> lo, hi |-> hi]
SomeRanges == {Key(0, 0, 0), Key(0, 0, 1), Key(0, 1, 1), Key(0, 2, 4), Key(1, 0, 1)}

=============================================================================

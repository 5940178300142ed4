------------------------- MODULE MC_BronzeIngestion --------------------------
(* Values for the model-checking runs of BronzeIngestion. *)
EXTENDS BronzeIngestion, TLC

\* Writers differ in nothing but their names.
WriterSymmetry == Permutations(Writers)

NoPoison == {}

\* The payload of the first record of some partition cannot be serialised.
PoisonAtStart == {<<CHOOSE p \in Partitions : TRUE, 0>>}

\* The search of stale_commit is cut down to the behaviours in which the log is
\* full before the first process starts and one writer buffers at most the
\* first record of a partition, which it commits only after another writer has
\* committed the whole log.
StaleWriter == CHOOSE w \in Writers : TRUE
StaleBufferCommitsLast ==
    /\ \A p \in Partitions :
          \/ logEnd[p] = MaxOffset
          \/ \A m \in Members : pc[m] = "down"
    /\ Len(buffer[StaleWriter]) <= 1
    /\ \A i \in DOMAIN buffer[StaleWriter] : buffer[StaleWriter][i].off = 0
    /\ pc[StaleWriter] = "committing" =>
          \A p \in PartitionsOf(buffer[StaleWriter]) : committed[p] = MaxOffset

=============================================================================

---------------------------- MODULE MC_BronzeLake -----------------------------
(* Values for the model-checking run of BronzeLake. *)
EXTENDS BronzeLake

OnePartition == {0}
\* The payload of the last record cannot be serialised.
PoisonAtEnd == {<<0, MaxOffset - 1>>}

=============================================================================

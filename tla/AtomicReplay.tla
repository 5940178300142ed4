----------------------------- MODULE AtomicReplay -----------------------------
(***************************************************************************)
(* What replay_bronze.py promises whoever reads its two files, without any  *)
(* bucket, request or temporary file: the output changes only as a whole,   *)
(* each time to the complete replay of one listing, and a manifest never    *)
(* names a run that has not published an output before.                     *)
(*                                                                          *)
(* Nothing is promised of the order in which runs publish, and the manifest *)
(* may lag behind the output: the two files are replaced one by one.        *)
(***************************************************************************)
EXTENDS Integers, Sequences

CONSTANTS
    Runs,           \* the runs that may publish
    NoOutput        \* before the first one did

VARIABLES
    output,         \* [rows, by, refs]: the rows of run "by", or NoOutput
    published,      \* the runs whose output has been in place
    described       \* the runs whose text the manifest in place holds

vars == <<output, published, described>>

\* The rows a listing calls for, as <<partition, offset>> pairs.
Offsets(refs) == UNION {{x.part} \X (x.lo..x.hi) : x \in refs}

\* Every row of the listing, each once, by partition and offset.
Whole(file) ==
    /\ {<<file.rows[i].part, file.rows[i].off>> : i \in DOMAIN file.rows} =
           Offsets(file.refs)
    /\ \A i, j \in DOMAIN file.rows : i < j =>
           \/ file.rows[i].part < file.rows[j].part
           \/ /\ file.rows[i].part = file.rows[j].part
              /\ file.rows[i].off < file.rows[j].off

Init ==
    /\ output = NoOutput
    /\ published = {}
    /\ described = {}

\* A run publishes once, and never an empty output.
Publish(r) ==
    /\ r \notin published
    /\ output' # NoOutput
    /\ output'.by = r
    /\ output'.refs # {}
    /\ Whole(output')
    /\ published' = published \cup {r}
    /\ UNCHANGED described

Describe ==
    /\ described' \in SUBSET published
    /\ UNCHANGED <<output, published>>

Next == Describe \/ \E r \in Runs : Publish(r)

Spec == Init /\ [][Next]_vars

=============================================================================

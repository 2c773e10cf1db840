------------------------- MODULE MCHistoryMigration -------------------------
(* A small registry for HistoryMigration: decoder versions and machines.    *)
EXTENDS HistoryMigration

CONSTANTS Decoders, Person

MCKindOf == [r \in Records |-> IF r \in Decoders THEN "decoder" ELSE "machine"]
MCFields == [lineage : Records \cup {NoRecord}]
\* One record has no submitter on file.
MCSubmitter == [r \in Records |-> IF r = 1 THEN NoRecord ELSE Person]
=============================================================================

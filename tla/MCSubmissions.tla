---------------------------- MODULE MCSubmissions ----------------------------
(* Small registries for Submissions: the records of each kind are given by *)
(* the configuration, and records of one kind are interchangeable.         *)
EXTENDS Submissions, TLC

CONSTANTS Decoders, Circuits, Results, Machines

MCRecords == Decoders \cup Circuits \cup Results \cup Machines
MCKindOf == [r \in MCRecords |-> IF r \in Decoders THEN "decoder"
                                 ELSE IF r \in Circuits THEN "circuit"
                                 ELSE IF r \in Results THEN "result" ELSE "machine"]
RecordSymmetry == {f \in Permutations(MCRecords) :
                     \A r \in MCRecords : MCKindOf[f[r]] = MCKindOf[r]}
=============================================================================

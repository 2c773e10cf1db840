---------------------- MODULE MCSubmissionTransactions ----------------------
(* Small registries and request mixes for SubmissionTransactions.  The     *)
(* records stored at the start are first versions; a result among them     *)
(* refers to every decoder, circuit and machine among them.                *)
EXTENDS SubmissionTransactions, TLC

CONSTANTS
  Decoders, Circuits, Results, Machines,
  First,      \* the records stored at the start
  Candidates  \* those of them that are pending review

MCRecords == Decoders \cup Circuits \cup Results \cup Machines
MCKindOf == [r \in MCRecords |-> IF r \in Decoders THEN "decoder"
                                 ELSE IF r \in Circuits THEN "circuit"
                                 ELSE IF r \in Results THEN "result" ELSE "machine"]

MCRefs(r) == IF r \in Results THEN First \ Results ELSE {}
MCStoredFields == [r \in First |-> [NoFields EXCEPT !.refs = MCRefs(r)]]
MCPublished == First \ Candidates

\* First versions and successors of any record, without references.
MCForms == {f \in Fields : f.refs = {}}
=============================================================================

----------------------------- MODULE MCPreviews -----------------------------
(* Small sessions for Previews over a registry of first versions.          *)
EXTENDS Previews, TLC

CONSTANTS
  Decoders, Circuits, Results, Machines,
  First,      \* the records stored at the start
  Candidates  \* those of them that are pending review

MCRecords == Decoders \cup Circuits \cup Results \cup Machines
MCKindOf == [r \in MCRecords |-> IF r \in Decoders THEN "decoder"
                                 ELSE IF r \in Circuits THEN "circuit"
                                 ELSE IF r \in Results THEN "result" ELSE "machine"]

MCRefs == First \ (Results \cup Candidates)
MCStoredFields ==
  [r \in First |-> [NoFields EXCEPT !.refs = IF r \in Results THEN MCRefs ELSE {}]]
MCPublished == First \ Candidates

\* Forms with the references that a result needs, or with none.
MCForms == {f \in Fields : f.refs \in {{}, MCRefs}}
PlainForms == {f \in Fields : f.refs = {}}

MCSymmetry ==
  Permutations(Requests) \cup Permutations(PreviewIds) \cup
  {f \in Permutations(MCRecords \ First) :
     \A r \in MCRecords \ First : MCKindOf[f[r]] = MCKindOf[r]}
=============================================================================

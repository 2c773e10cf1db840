---------------------------- MODULE MCCatalogue ----------------------------
(* A small registry whose first records are stored at the start, with one  *)
(* benchmark of two circuits and one attempt at it.                        *)
EXTENDS Workspace, TLC

CONSTANTS d1, d2, d3, c1, c2, m1, m2, r1, r2, told, bare

MCRecords == {d1, d2, d3, c1, c2, m1, m2, r1, r2}
MCKindOf == [r \in MCRecords |-> CASE r \in {d1, d2, d3} -> "decoder"
                                   [] r \in {c1, c2} -> "circuit"
                                   [] r \in {m1, m2} -> "machine"
                                   [] r \in {r1, r2} -> "result"]
\* d2 matches the searched text better, d1 comes first by name, and they tie in the
\* column "published", which stands for those with few values as well.
MCColumnValue ==
  [c \in Columns |-> [r \in MCRecords |->
     CASE c = "relevance" -> IF r \in {d2, c2} THEN 0 ELSE 2
       [] c = "published" -> IF r = d3 THEN 2 ELSE 1
       [] OTHER -> IF r \in {d2, c2, m2, r2} THEN 2 ELSE IF r = d3 THEN 3 ELSE 1]]

\* A text with an unknown column and one named twice, one that sorts by results
\* second, and one without a column to sort by.
MCSortTexts ==
  {<<Ascending("tags"), Ascending("results"), Descending("results")>>,
   <<Descending("published"), Descending("results")>>,
   <<Ascending("tags")>>}

\* Two attempts with a result for each circuit: one at a manifest of both circuits,
\* where the second result may be missing, and one at a manifest of the first
\* circuit alone, whose result may be missing and may be of the other circuit.
Attempts ==
  LET both == {[circuit |-> c1, result |-> r1], [circuit |-> c2, result |-> r2]}
  IN  {<<c1 :> TRUE @@ c2 :> FALSE, both>>, <<c1 :> FALSE, both>>}

\* The published decoder, circuit and machine are described first versions; r1
\* waits for approval, of c1 while c2 waits as well, or of c2.
MCStored == {d1, c1, c2, m1, r1}

MCInit ==
  \E c \in {c1, c2}, attempt \in Attempts :
    LET published == {d1, c1, m1, c}
        first == [r \in MCStored |-> [lineage |-> NoRecord, body |-> told,
                                     refs |-> IF r = r1 THEN {d1, c, m1} ELSE {}]]
    IN  /\ FirstVersions(MCStored, published, first)
        /\ StoredInit(MCStored, published, first)
        /\ BenchmarkInit(attempt[1], attempt[2], d1)
        /\ MembershipsStorable(memberships)

MCSpec == MCInit /\ [][CatalogueNext]_catalogueVars
=============================================================================

----------------------------- MODULE Catalogue -----------------------------
(***************************************************************************)
(* The read side of the registry: the public catalogues, the pages of      *)
(* exact records and the page of a benchmark, as services/decoders,        *)
(* circuits, results, result_detail, benchmarks and histories select what  *)
(* they show from the records that Submissions writes.                     *)
(*                                                                         *)
(* A page is the record it is about; its links are the records its links   *)
(* lead to.  Noise models and evaluator releases are always published      *)
(* here, so that links to them need no record.  One benchmark revision and *)
(* one attempt at it exist, both published; nothing in the repository but  *)
(* the demonstration data writes them, so they are chosen at the start     *)
(* within the constraints of the database.                                 *)
(*                                                                         *)
(* Left out: filters, which only narrow what a page lists; paging; the     *)
(* visibility of events, which is public for every event written.          *)
(***************************************************************************)
EXTENDS Submissions, Integers, Sequences

CONSTANTS
  ColumnValue,  \* ColumnValue[c][r]: the place of a public r in column c, for good
  SortTexts,    \* the sort parameters of an address, cut into terms
  MaxSteps      \* bound: the submissions, edits, publications and withdrawals

\* A public record keeps its name, its version, its publication date and how well
\* it matches a text ("relevance"): exact matches first, then prefixes, then the
\* others.  The date and the name stand for the other columns as well.
Columns == {"id", "relevance", "published", "name"}

\* An address may name any column, "results" among them, and anything else.
Term == [key : STRING, descending : BOOLEAN]

ASSUME CatalogueAssumption ==
  /\ IsFiniteSet(Records)
  /\ ColumnValue \in [Columns -> [Records -> Int]]
  /\ SortTexts \subseteq Seq(Term)

VARIABLES
  manifest,     \* is_required of each circuit revision in the benchmark
  memberships,  \* the rows of BenchmarkAttemptResult of the attempt
  attempted     \* the decoder version of the attempt

benchmarkVars == <<manifest, memberships, attempted>>
catalogueVars == <<vars, benchmarkVars>>

Memberships == [circuit : OfKind("circuit"), result : OfKind("result")]

Reference(r, k) == CHOOSE x \in fields[r].refs : KindOf[x] = k

-----------------------------------------------------------------------------
(* What the pages of exact records show and lead to.                       *)

Public(r) == state[r] \in PublicStates

\* Whether the page of r answers; a result needs public provenance as well.
Shown(r) ==
  /\ Public(r)
  /\ KindOf[r] = "result" => \A x \in fields[r].refs : Public(x)

\* public_result_catalogue in the scope of a decoder, circuit or machine.
PublishedResults(r) ==
  {x \in OfKind("result") : state[x] = "published" /\ r \in fields[x].refs}

\* result_cell_map: a row leads to its result and to what that refers to.
RowLinks(R) == R \cup UNION {fields[x].refs : x \in R}

Successors(r) == {s \in Records : state[s] # "absent" /\ fields[s].lineage = r}
PublicPredecessor(r) == {p \in Records : fields[r].lineage = p /\ Public(p)}

\* Mutant of PublicSuccessor: next_version is linked in whatever state it is.
StoredSuccessor(r) == Successors(r)

PublicSuccessor(r) == {s \in Successors(r) : Public(s)}

\* The records visited on the way from r to a description: r, and what precedes
\* a visited record that has none.
Visited(r) ==
  LET kin == OfKind(KindOf[r])
      Closed(S) == \A x \in S : \/ fields[x].body \in Described
                                \/ fields[x].lineage \in S \cup {NoRecord}
  IN  {x \in kin : \A S \in SUBSET kin : r \in S /\ Closed(S) => x \in S}

\* Mutant of DescriptionSource: only the predecessor is asked.
DescribedByPredecessor(r) ==
  IF fields[r].body \in Described THEN {r}
  ELSE {p \in Records : fields[r].lineage = p /\ fields[p].body \in Described}

\* inherited_description_source, inherited_circuit_description: the nearest
\* record of the lineage with a description, if any.
DescriptionSource(r) == {x \in Visited(r) : fields[x].body \in Described}

\* The time a record was created, as a place in its history.
CreatedAt(r) ==
  (CHOOSE e \in EventsOf(r) : e.action \in {"submitted", "resubmitted"}).sequence

\* _successor: machines may have several, and the one created first is named.
RevisedTo(r) ==
  {s \in Successors(r) : \A t \in Successors(r) : CreatedAt(s) <= CreatedAt(t)}

\* history_view: the links of the events and of the lineage; a record that is
\* not public is named without a link.
HistoryLinks(r) ==
  {x \in Records :
     /\ Public(x)
     /\ \/ x = fields[r].lineage
        \/ x \in RevisedTo(r)
        \/ \E e \in RowsOf(history[r]) :
             e.record = x \/ (e.predecessor = x /\ history[x] = history[r])}

DecoderLinks(r) == PublicPredecessor(r) \cup PublicSuccessor(r)
                   \cup DescriptionSource(r) \cup RowLinks(PublishedResults(r))
CircuitLinks(r) == PublicPredecessor(r) \cup RowLinks(PublishedResults(r))
MachineLinks(r) == RowLinks(PublishedResults(r))
ResultLinks(r) == fields[r].refs

Links(r) ==
  HistoryLinks(r) \cup
  CASE KindOf[r] = "decoder" -> DecoderLinks(r)
    [] KindOf[r] = "circuit" -> CircuitLinks(r)
    [] KindOf[r] = "machine" -> MachineLinks(r)
    [] KindOf[r] = "result"  -> ResultLinks(r)

-----------------------------------------------------------------------------
(* The catalogues and their order.                                         *)

\* The rows of the catalogue of kind k, and of the result explorer.
Listed(k) == {r \in OfKind(k) : state[r] = "published"}

\* Mutant of Activity: the candidates are counted.
StoredActivity(r) ==
  Cardinality({x \in OfKind("result") : state[x] # "absent" /\ r \in fields[x].refs})

\* published_result_count.
Activity(r) == Cardinality(PublishedResults(r))

Ascending(c) == [key |-> c, descending |-> FALSE]
Descending(c) == [key |-> c, descending |-> TRUE]

\* FeaturedPolicy and SearchRelevancePolicy.
Featured == <<Descending("results"), Descending("published"), Ascending("name")>>
SearchRelevance == <<Ascending("relevance"), Ascending("name")>>

\* parse_sort: the terms of sortable columns, each column where it is named first,
\* or the name when no term is left.
ParseSort(sort) ==
  LET sortable == {i \in DOMAIN sort : sort[i].key \in {"results", "published", "name"}}
      first == {i \in sortable : \A j \in sortable : sort[j].key = sort[i].key => i <= j}
  IN  IF first = {} THEN <<Ascending("name")>>
      ELSE [n \in 1..Cardinality(first) |->
              sort[CHOOSE i \in first : Cardinality({j \in first : j <= i}) = n]]

\* select_catalogue_ordering: a sort wins over a search, even if no term is left.
Ordering(sort, searched) ==
  IF sort # <<>> THEN ParseSort(sort)
  ELSE IF searched THEN SearchRelevance ELSE Featured

SortValue(c, r) == IF c = "results" THEN Activity(r) ELSE ColumnValue[c][r]

Precedes(term, q, r) ==
  IF term.descending THEN SortValue(term.key, q) > SortValue(term.key, r)
                     ELSE SortValue(term.key, q) < SortValue(term.key, r)

\* apply_sort and the policies: the terms one after the other, and the id last.
Before(terms, q, r) ==
  LET all == Append(terms, Ascending("id"))
  IN  \E i \in DOMAIN all :
        /\ Precedes(all[i], q, r)
        /\ \A j \in 1..(i - 1) :
             SortValue(all[j].key, q) = SortValue(all[j].key, r)

-----------------------------------------------------------------------------
(* summarise_attempts: an attempt against the manifest of its benchmark.   *)

Required == {c \in DOMAIN manifest : manifest[c]}
PublicItems == {c \in DOMAIN manifest : Public(c)}
HiddenItems == DOMAIN manifest \ PublicItems

\* Mutant of PublicMemberships: a withdrawn result counts no more.
PublishedMemberships ==
  {m \in memberships : Public(m.circuit) /\ state[m.result] = "published"}

PublicMemberships ==
  {m \in memberships : Public(m.circuit) /\ Public(m.result)}

ResultsOf(c) == {m.result : m \in {n \in PublicMemberships : n.circuit = c}}

\* The issue with one position: no result for a required circuit, several
\* results, or a result of another circuit or of another decoder.
ItemIssue(c) ==
  \/ ResultsOf(c) = {} /\ manifest[c]
  \/ Cardinality(ResultsOf(c)) > 1
  \/ \E x \in ResultsOf(c) : \/ Reference(x, "circuit") # c
                             \/ Reference(x, "decoder") # attempted

UnexpectedMemberships == {m \in PublicMemberships : m.circuit \notin PublicItems}

RequiredResults == {c \in PublicItems \cap Required : ~ItemIssue(c)}

IsComplete ==
  /\ HiddenItems = {}
  /\ \A c \in PublicItems : ~ItemIssue(c)
  /\ UnexpectedMemberships = {}
  /\ Cardinality(RequiredResults) = Cardinality(Required)

\* benchmark_detail: the manifest, the attempt with its results, and the table.
BenchmarkLinks ==
  LET results == {m.result : m \in PublicMemberships}
      expected == {x \in results : \E c \in PublicItems : ResultsOf(c) = {x}}
  IN  PublicItems \cup results
      \cup RowLinks({m.result : m \in memberships} \cap Listed("result"))
      \cup UNION {{y \in fields[x].refs : KindOf[y] = "machine"} : x \in expected}

-----------------------------------------------------------------------------
\* What the database lets an attempt hold: one result for each circuit, and no
\* result twice.
MembershipsStorable(M) ==
  /\ M \subseteq Memberships
  /\ \A m, n \in M : m.circuit = n.circuit \/ m.result = n.result => m = n

\* The records stored at the start are first versions the forms accepted when
\* they referred to what is published.
FirstVersions(stored, published, f) ==
  /\ published \subseteq stored /\ stored \subseteq Records
  /\ \A r \in stored :
       /\ f[r] \in Fields /\ f[r].lineage = NoRecord
       /\ f[r].refs \subseteq published
       /\ \A x \in f[r].refs : KindOf[x] \in ReferenceKinds(KindOf[r])
       /\ \A q \in ReferenceKinds(KindOf[r]) :
            \E x \in f[r].refs : KindOf[x] = q /\ \A y \in f[r].refs : KindOf[y] = q => y = x
       /\ FirstIsDescribed(KindOf[r], f[r])
       /\ KindOf[r] = "machine" => r \in published

CatalogueInit ==
  /\ \E stored \in SUBSET Records : \E published \in SUBSET stored, f \in [stored -> Fields] :
       FirstVersions(stored, published, f) /\ StoredInit(stored, published, f)
  /\ \E items \in SUBSET OfKind("circuit") : manifest \in [items -> BOOLEAN]
  /\ MembershipsStorable(memberships)
  /\ attempted \in OfKind("decoder")

BenchmarkInit(items, M, d) ==
  /\ manifest = items
  /\ memberships = M
  /\ attempted = d

Steps == {e \in events : e.action \in {"submitted", "resubmitted", "edited",
                                       "published", "withdrawn"}}

CatalogueNext ==
  /\ Cardinality(Steps) < MaxSteps
  /\ Next
  /\ UNCHANGED benchmarkVars

CatalogueSpec == CatalogueInit /\ [][CatalogueNext]_catalogueVars

-----------------------------------------------------------------------------
\* No page of the site leads to a page that does not answer: neither the pages
\* of records, nor the catalogues, nor the page of the benchmark.  The pages of
\* results, of predecessors and of descriptions check less than they link to,
\* and rely on what the service lets be stored.
PagesResolve ==
  /\ \A r \in Records : Shown(r) => \A x \in Links(r) : Shown(x)
  /\ \A k \in Kinds : \A r \in Listed(k) : Shown(r)
  /\ \A x \in BenchmarkLinks : Shown(x)

\* Every public decoder version and circuit revision has a description to show,
\* its own or that of a public record of its lineage, although only the first
\* of a lineage is asked for one and the lineage of a candidate may be edited.
DescriptionsFound ==
  \A r \in OfKind("decoder") \cup OfKind("circuit") : Public(r) =>
    DescriptionSource(r) # {} /\ \A s \in DescriptionSource(r) : Public(s)

\* The orders that addresses ask for, with or without a sort and a search.
Orders == {Ordering(sort, searched) : sort \in SortTexts \cup {<<>>}, searched \in BOOLEAN}

\* What a step does to the results of r that are listed.
LosesResult(r) == \E x \in PublishedResults(r) : state'[x] = "withdrawn"
GainsResult(r) == \E x \in PublishedResults(r)' : state[x] \in PendingStates

\* An entry that stays listed falls behind another that does only in an order by
\* published results, the featured one or a sort that names them, and only when a
\* result of its own is withdrawn or one of the other's is approved, or the other
\* way round where the fewest results come first.  Whatever order an address asks
\* for, submitting, editing and revising move nothing a reader is paging through.
OrderFollowsResults ==
  [][\A k \in {"decoder", "circuit"} : \A q, r \in Listed(k) \cap Listed(k)' :
       \A terms \in Orders :
         Before(terms, q, r) /\ ~Before(terms, q, r)' =>
           \E i \in DOMAIN terms :
             /\ terms[i].key = "results"
             /\ IF terms[i].descending THEN LosesResult(q) \/ GainsResult(r)
                                       ELSE LosesResult(r) \/ GainsResult(q)]_catalogueVars

\* An attempt that was complete stays complete, whatever is withdrawn or revised
\* later, unless a result or a circuit of a membership that does not belong to
\* it is published: an exact benchmark page may be cited.
CompletenessKept ==
  [][IsComplete /\ ~IsComplete' =>
       \E m \in memberships :
         /\ \E x \in {m.result, m.circuit} :
              state[x] \in PendingStates /\ state'[x] = "published"
         /\ \/ m.circuit \notin DOMAIN manifest
            \/ Reference(m.result, "circuit") # m.circuit
            \/ Reference(m.result, "decoder") # attempted]_catalogueVars
=============================================================================

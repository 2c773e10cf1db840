---------------------------- MODULE Views_proofs ----------------------------
(***************************************************************************)
(* Theorems about what the pages show of the records that Submissions      *)
(* writes: the catalogues and exact pages (Catalogue), the profile, the    *)
(* review queue and the editor (Workspace), and the previews of submission *)
(* views (Previews).                                                       *)
(***************************************************************************)
EXTENDS Workspace, Previews, Submissions_proofs, FiniteSetTheorems, WellFoundedInduction

(* What the forms leave in a stored record, whatever has been withdrawn or  *)
(* described since.                                                        *)
OneOfEach(k, refs) ==
  /\ \A x \in refs : KindOf[x] \in ReferenceKinds(k)
  /\ \A q \in ReferenceKinds(k) :
       \E x \in refs : KindOf[x] = q /\ \A y \in refs : KindOf[y] = q => y = x

FormedFields(k, f) ==
  /\ OneOfEach(k, f.refs)
  /\ FirstIsDescribed(k, f)
  /\ f.lineage # NoRecord => KindOf[f.lineage] = k

Formed(r) ==
  state[r] # "absent" => /\ FormedFields(KindOf[r], fields[r])
                         /\ KindOf[r] = "machine" => state[r] # "pending_review"

RegistryInv ==
  /\ HistoryInv
  /\ ReferencesNeverPrivate
  /\ LifecycleProofs!Inv
  /\ \A r \in Records : Formed(r)

\* What a step of the service does to one record: it leaves its fields alone, or
\* it creates or edits a candidate with fields of a form.
KeepsFields(q) ==
  /\ fields'[q] = fields[q]
  /\ \/ state'[q] = state[q]
     \/ state[q] \in PendingStates /\ state'[q] = "published" /\ fields' = fields
     \/ state[q] = "published" /\ state'[q] = "withdrawn"

TakesFields(q) ==
  /\ FormedFields(KindOf[q], fields'[q])
  /\ \/ /\ state[q] = "absent" /\ state'[q] \in PendingStates \cup {"published"}
        /\ IF KindOf[q] = "machine" THEN state'[q] # "pending_review"
                                    ELSE state'[q] # "published"
     \/ state[q] \in PendingStates /\ state'[q] = state[q]

(* What the forms accept is formed, whatever they exclude.                     *)
LEMMA ValidFieldsFormed ==
  ASSUME NEW k, NEW f \in Fields, NEW reapproval, NEW excluding,
         ValidFields(k, f, reapproval, excluding)
  PROVE  FormedFields(k, f)
BY DEF ValidFields, ReferencesPublished, FormedFields, OneOfEach

(* Every operation does one of the two to every record.                        *)
LEMMA StepOfRecord ==
  ASSUME HistoryInv, [Next]_vars, NEW q \in Records
  PROVE  KeepsFields(q) \/ TakesFields(q)
<1>1. ASSUME NEW a \in Accounts, NEW r \in Records, NEW f \in Fields,
             CreateSubmission(a, r, f)
      PROVE  KeepsFields(q) \/ TakesFields(q)
  <2>1. FormedFields(KindOf[r], f)
    BY <1>1, ValidFieldsFormed DEF CreateSubmission
  <2>2. /\ state[r] = "absent"
        /\ state' = [state EXCEPT ![r] = InitialState(KindOf[r], FALSE)]
        /\ fields' = [fields EXCEPT ![r] = f]
    BY <1>1 DEF CreateSubmission, StoreSubmission, InsertRecord
  <2> QED BY <2>1, <2>2 DEF HistoryInv, TypeOK, InitialState, KeepsFields, TakesFields,
             PendingStates
<1>2. ASSUME NEW a \in Accounts, NEW r \in Records, NEW f \in Fields,
             UpdatePending(a, r, f)
      PROVE  KeepsFields(q) \/ TakesFields(q)
  <2> DEFINE g == PinnedFields(r, f)
  <2>1. g \in Fields
    BY DEF PinnedFields, HistoryInv, TypeOK, Fields
  <2>2. /\ state[r] \in PendingStates /\ state' = state
        /\ fields' = [fields EXCEPT ![r] = g]
        /\ ValidFields(KindOf[r], g, state[r] = "pending_reapproval", {r})
    BY <1>2 DEF UpdatePending, StoreEdit, EditableStates
  <2> HIDE DEF g
  <2>3. FormedFields(KindOf[r], g)
    BY <2>1, <2>2, ValidFieldsFormed
  <2> QED BY <2>2, <2>3 DEF HistoryInv, TypeOK, KeepsFields, TakesFields
<1>3. ASSUME NEW a \in Accounts, NEW r \in Records, NEW f \in Fields,
             NEW source \in Records, CreateSuccessor(a, source, r, f)
      PROVE  KeepsFields(q) \/ TakesFields(q)
  <2>1. FormedFields(KindOf[r], f)
    BY <1>3, ValidFieldsFormed DEF CreateSuccessor
  <2>2. /\ state[r] = "absent"
        /\ state' = [state EXCEPT ![r] = InitialState(KindOf[r], state[source] = "withdrawn")]
        /\ fields' = [fields EXCEPT ![r] = f]
    BY <1>3 DEF CreateSuccessor, StoreSubmission, InsertRecord
  <2> QED BY <2>1, <2>2 DEF HistoryInv, TypeOK, InitialState, KeepsFields, TakesFields,
             PendingStates
<1>4. ASSUME NEW a \in Accounts, NEW r \in Records, NEW f \in Fields,
             NEW source \in Records, ReplaceWithSuccessor(a, source, r, f)
      PROVE  KeepsFields(q) \/ TakesFields(q)
  <2>1. /\ state[r] = "absent" /\ state[source] = "published"
        /\ state' = [state EXCEPT ![source] = "withdrawn", ![r] = "pending_reapproval"]
        /\ fields' = [fields EXCEPT ![r] = f]
        /\ f.lineage = source /\ KindOf[r] = KindOf[source]
        /\ ReferencesPublished(KindOf[r], f.refs)
    BY <1>4 DEF ReplaceWithSuccessor, StoreReplacement, InsertRecord, InitialState
  <2>2. FormedFields(KindOf[r], f)
    BY <2>1, SubmissionsAssumption
       DEF ReferencesPublished, FormedFields, OneOfEach, FirstIsDescribed
  <2> QED BY <2>1, <2>2 DEF HistoryInv, TypeOK, KeepsFields, TakesFields, PendingStates
<1>5. ASSUME NEW a \in Accounts, NEW r \in Records,
             WithdrawSubmission(a, r) \/ ApproveSubmission(a, r)
      PROVE  KeepsFields(q)
  BY <1>5 DEF WithdrawSubmission, StoreWithdrawal, ApproveSubmission, StoreApproval,
     Approvable, HistoryInv, TypeOK, KeepsFields
<1>6. ASSUME NEW a \in Toggled, SetAccountAdmin(a) \/ SetAccountActive(a)
      PROVE  KeepsFields(q)
  BY <1>6 DEF SetAccountAdmin, SetAccountActive, recordVars, KeepsFields
<1>7. ASSUME UNCHANGED vars
      PROVE  KeepsFields(q)
  BY <1>7 DEF vars, recordVars, KeepsFields
<1> QED BY <1>1, <1>2, <1>3, <1>4, <1>5, <1>6, <1>7, NextOperations

(* The invariant of the registry, step by step and from the start.             *)
LEMMA NextRegistryInv == RegistryInv /\ [Next]_vars => RegistryInv'
<1> SUFFICES ASSUME RegistryInv, [Next]_vars PROVE RegistryInv'
  OBVIOUS
<1>1. HistoryInv' /\ ReferencesNeverPrivate'
  BY NextHistoryInv, NextReferencesInv DEF RegistryInv
<1>2. LifecycleProofs!Inv'
  BY StepRefines, SameInstance, LifecycleProofs!NextInv, LifecycleAssumptionHolds
     DEF RegistryInv
<1>3. ASSUME NEW r \in Records PROVE Formed(r)'
  <2>1. KeepsFields(r) \/ TakesFields(r)
    BY StepOfRecord DEF RegistryInv
  <2>2. state[r] \in States /\ Formed(r)
    BY DEF RegistryInv, HistoryInv, TypeOK
  <2>3. CASE KeepsFields(r)
    BY <2>2, <2>3 DEF KeepsFields, Formed, PendingStates, FormedFields, FirstIsDescribed
  <2>4. CASE TakesFields(r)
    BY <2>2, <2>4 DEF TakesFields, Formed, PendingStates, FormedFields, FirstIsDescribed
  <2> QED BY <2>1, <2>3, <2>4
<1> QED BY <1>1, <1>2, <1>3 DEF RegistryInv

LEMMA FirstRegistryInv == CatalogueInit => RegistryInv
<1> SUFFICES ASSUME CatalogueInit PROVE RegistryInv
  OBVIOUS
<1>1. PICK stored \in SUBSET Records :
        \E published \in SUBSET stored : \E f \in [stored -> Fields] :
          FirstVersions(stored, published, f) /\ StoredInit(stored, published, f)
  BY DEF CatalogueInit
<1>2. PICK published \in SUBSET stored : \E f \in [stored -> Fields] :
        FirstVersions(stored, published, f) /\ StoredInit(stored, published, f)
  BY <1>1
<1>3. PICK f \in [stored -> Fields] :
        FirstVersions(stored, published, f) /\ StoredInit(stored, published, f)
  BY <1>2
<1>4. HistoryInv
  BY <1>3, StoredHistoryInv DEF FirstVersions
<1>5. /\ state = [r \in Records |-> IF r \in published THEN "published"
                                   ELSE IF r \in stored THEN "pending_review" ELSE "absent"]
      /\ fields = [r \in Records |-> IF r \in stored THEN f[r] ELSE NoFields]
  BY <1>3 DEF StoredInit
<1>6. ReferencesNeverPrivate
  BY <1>3, <1>5 DEF ReferencesNeverPrivate, FirstVersions, NoFields, PublicStates
<1>7. \A r \in Records : fields[r].lineage = NoRecord
  BY <1>3, <1>5 DEF FirstVersions, NoFields
<1>8. LifecycleProofs!Inv
  BY <1>4, <1>5, <1>7, SubmissionsAssumption
     DEF HistoryInv, TypeOK, States, PendingStates, PublicStates,
         LifecycleProofs!Inv, LifecycleProofs!TypeOK, LifecycleProofs!LineageIsPublic,
         LifecycleProofs!LineageWellFounded, LifecycleProofs!OneSuccessor,
         LifecycleProofs!ReapprovalFollowsWithdrawal, LifecycleProofs!Public
<1>9. ASSUME NEW r \in Records PROVE Formed(r)
  BY <1>3, <1>5, SubmissionsAssumption
     DEF Formed, FormedFields, OneOfEach, FirstVersions
<1> QED BY <1>4, <1>6, <1>8, <1>9 DEF RegistryInv

LEMMA CatalogueRegistryInv == CatalogueSpec => []RegistryInv
<1>1. RegistryInv /\ [CatalogueNext]_catalogueVars => RegistryInv'
  BY NextRegistryInv DEF CatalogueNext, catalogueVars
<1> QED BY <1>1, FirstRegistryInv, PTL DEF CatalogueSpec

-----------------------------------------------------------------------------
(* What the pages rely on without looking: whatever a stored record refers to *)
(* or revises is public.                                                     *)
LEMMA NamedArePublic ==
  ASSUME RegistryInv, NEW r \in Records
  PROVE  /\ fields[r].refs \subseteq Records
         /\ \A x \in fields[r].refs : Public(x)
         /\ fields[r].lineage # NoRecord =>
              /\ fields[r].lineage \in Records /\ Public(fields[r].lineage)
              /\ state[r] # "absent"
              /\ KindOf[fields[r].lineage] = KindOf[r]
<1>1. fields[r] \in Fields
  BY DEF RegistryInv, HistoryInv, TypeOK
<1>2. \A x \in fields[r].refs : Public(x)
  BY DEF RegistryInv, ReferencesNeverPrivate, Public
<1>3. ASSUME fields[r].lineage # NoRecord
      PROVE  /\ fields[r].lineage \in Records /\ Public(fields[r].lineage)
             /\ state[r] # "absent"
  BY <1>1, <1>3 DEF RegistryInv, LifecycleProofs!Inv, LifecycleProofs!TypeOK,
     LifecycleProofs!LineageIsPublic, LifecycleProofs!Public, Public, PublicStates, Fields
<1>4. state[r] # "absent" /\ fields[r].lineage # NoRecord =>
        KindOf[fields[r].lineage] = KindOf[r]
  BY DEF RegistryInv, Formed, FormedFields
<1> QED BY <1>1, <1>2, <1>3, <1>4 DEF Fields

(* So the page of a public record answers, that of a result too.           *)
LEMMA PublicAreShown ==
  ASSUME RegistryInv
  PROVE  \A x \in Records : Public(x) => Shown(x)
BY NamedArePublic DEF Shown

(* From a public record only public records are asked for a description.   *)
LEMMA VisitedArePublic ==
  ASSUME RegistryInv, NEW r \in Records, Public(r)
  PROVE  \A x \in Visited(r) : x \in Records /\ Public(x)
<1> DEFINE kin == OfKind(KindOf[r])
           S == {x \in kin : Public(x)}
<1>1. S \in SUBSET kin /\ r \in S
  BY DEF OfKind
<1>2. \A x \in S : fields[x].lineage \in S \cup {NoRecord}
  BY NamedArePublic DEF OfKind
<1>3. \A x \in Visited(r) : x \in S
  BY <1>1, <1>2 DEF Visited
<1> QED BY <1>3 DEF OfKind

LEMMA VisitedFromPredecessor ==
  ASSUME RegistryInv, NEW r \in Records, fields[r].body \notin Described,
         fields[r].lineage # NoRecord
  PROVE  Visited(fields[r].lineage) \subseteq Visited(r)
<1>1. KindOf[fields[r].lineage] = KindOf[r]
  BY NamedArePublic
<1> QED BY <1>1, Zenon DEF Visited

(* Every stored version of a decoder or circuit reaches a description: the    *)
(* lineage is well founded, and it cannot end without one.                   *)
LEMMA DescriptionReached ==
  ASSUME RegistryInv, NEW r \in OfKind("decoder") \cup OfKind("circuit"),
         state[r] # "absent"
  PROVE  DescriptionSource(r) # {}
<1> DEFINE B == {x \in OfKind("decoder") \cup OfKind("circuit") :
                   state[x] # "absent" /\ DescriptionSource(x) = {}}
<1>1. SUFFICES ASSUME B # {} PROVE FALSE
  OBVIOUS
<1>2. B \in SUBSET Records
  BY DEF OfKind
<1>3. PICK x \in B : fields[x].lineage \notin B
  BY <1>1, <1>2 DEF RegistryInv, LifecycleProofs!Inv, LifecycleProofs!LineageWellFounded
<1>4. /\ x \in Records /\ state[x] # "absent" /\ KindOf[x] \in {"decoder", "circuit"}
      /\ DescriptionSource(x) = {}
  BY DEF OfKind
<1>5. fields[x].body \notin Described
  <2>1. x \in Visited(x)
    BY <1>4 DEF Visited, OfKind
  <2> QED BY <1>4, <2>1 DEF DescriptionSource
<1>6. fields[x].lineage # NoRecord
  BY <1>4, <1>5 DEF RegistryInv, Formed, FormedFields, FirstIsDescribed
<1> DEFINE p == fields[x].lineage
<1>7. /\ p \in Records /\ state[p] # "absent" /\ KindOf[p] = KindOf[x]
  BY <1>4, <1>6, NamedArePublic DEF Public, PublicStates
<1>8. DescriptionSource(p) # {}
  BY <1>3, <1>4, <1>7 DEF OfKind
<1>9. Visited(p) \subseteq Visited(x)
  BY <1>4, <1>5, <1>6, VisitedFromPredecessor
<1> QED BY <1>4, <1>8, <1>9 DEF DescriptionSource

BenchmarkInv ==
  /\ \E items \in SUBSET OfKind("circuit") : manifest \in [items -> BOOLEAN]
  /\ MembershipsStorable(memberships)
  /\ attempted \in OfKind("decoder")

LEMMA CatalogueBenchmarkInv == CatalogueSpec => []BenchmarkInv
<1>1. CatalogueInit => BenchmarkInv
  BY DEF CatalogueInit, BenchmarkInv
<1>2. BenchmarkInv /\ [CatalogueNext]_catalogueVars => BenchmarkInv'
  BY DEF BenchmarkInv, CatalogueNext, catalogueVars, benchmarkVars, MembershipsStorable,
     Memberships
<1> QED BY <1>1, <1>2, PTL DEF CatalogueSpec

(* The rows of a table link to public records, although nothing checks it.    *)
LEMMA RowsLinkPublic ==
  ASSUME RegistryInv, NEW R \in SUBSET Records, \A x \in R : Public(x)
  PROVE  \A x \in RowLinks(R) : x \in Records /\ Public(x)
BY NamedArePublic DEF RowLinks

LEMMA LinksArePublic ==
  ASSUME RegistryInv, NEW r \in Records, Public(r)
  PROVE  \A x \in Links(r) : x \in Records /\ Public(x)
<1>1. \A x \in HistoryLinks(r) : x \in Records /\ Public(x)
  BY DEF HistoryLinks
<1>2. \A x \in PublicPredecessor(r) \cup PublicSuccessor(r) : x \in Records /\ Public(x)
  BY DEF PublicPredecessor, PublicSuccessor, Successors
<1>3. \A x \in DescriptionSource(r) : x \in Records /\ Public(x)
  BY VisitedArePublic DEF DescriptionSource
<1>4. \A x \in RowLinks(PublishedResults(r)) : x \in Records /\ Public(x)
  <2>1. /\ PublishedResults(r) \in SUBSET Records
        /\ \A x \in PublishedResults(r) : Public(x)
    BY DEF PublishedResults, OfKind, Public, PublicStates
  <2> QED BY <2>1, RowsLinkPublic
<1>5. \A x \in fields[r].refs : x \in Records /\ Public(x)
  BY NamedArePublic
<1>6. KindOf[r] \in Kinds
  BY SubmissionsAssumption
<1> QED BY <1>1, <1>2, <1>3, <1>4, <1>5, <1>6
        DEF Links, DecoderLinks, CircuitLinks, MachineLinks, ResultLinks, Kinds

LEMMA BenchmarkLinksArePublic ==
  ASSUME RegistryInv, BenchmarkInv
  PROVE  \A x \in BenchmarkLinks : x \in Records /\ Public(x)
<1> DEFINE results == {m.result : m \in PublicMemberships}
           expected == {x \in results : \E c \in PublicItems : ResultsOf(c) = {x}}
           members == {m.result : m \in memberships} \cap Listed("result")
<1>1. \A m \in memberships : m.result \in Records
  BY DEF BenchmarkInv, MembershipsStorable, Memberships, OfKind
<1>2. \A x \in PublicItems : x \in Records /\ Public(x)
  BY DEF BenchmarkInv, PublicItems, OfKind
<1>3. \A x \in results : x \in Records /\ Public(x)
  BY <1>1 DEF PublicMemberships
<1>4. \A x \in expected : fields[x].refs \subseteq Records /\ \A y \in fields[x].refs : Public(y)
  BY <1>3, NamedArePublic
<1>5. \A x \in RowLinks(members) : x \in Records /\ Public(x)
  <2>1. members \in SUBSET Records /\ \A x \in members : Public(x)
    BY DEF Listed, OfKind, Public, PublicStates
  <2> HIDE DEF members
  <2> QED BY <2>1, RowsLinkPublic
<1>6. BenchmarkLinks = PublicItems \cup results
        \cup RowLinks(members)
        \cup UNION {{y \in fields[x].refs : KindOf[y] = "machine"} : x \in expected}
  BY DEF BenchmarkLinks
<1> HIDE DEF results, expected, members
<1> QED BY <1>2, <1>3, <1>4, <1>5, <1>6

(* No page of the site links to a page that does not answer, whatever is    *)
(* revised and withdrawn: for any registry, benchmark and attempt.           *)
THEOREM PagesAnswer == CatalogueSpec => []PagesResolve
<1>1. RegistryInv /\ BenchmarkInv => PagesResolve
  <2> SUFFICES ASSUME RegistryInv, BenchmarkInv PROVE PagesResolve
    OBVIOUS
  <2>1. \A r \in Records : Shown(r) => \A x \in Links(r) : Shown(x)
    BY LinksArePublic, PublicAreShown DEF Shown
  <2>2. \A k \in Kinds : \A r \in Listed(k) : Shown(r)
    BY PublicAreShown DEF Listed, OfKind, Public, PublicStates
  <2>3. \A x \in BenchmarkLinks : Shown(x)
    BY BenchmarkLinksArePublic, PublicAreShown
  <2> QED BY <2>1, <2>2, <2>3 DEF PagesResolve
<1> QED BY <1>1, CatalogueRegistryInv, CatalogueBenchmarkInv, PTL

(* Every public decoder version and circuit revision has a description, and  *)
(* it is on a public page, although candidates change their lineage.         *)
THEOREM DescriptionsPublic == CatalogueSpec => []DescriptionsFound
<1>1. RegistryInv => DescriptionsFound
  <2> SUFFICES ASSUME RegistryInv, NEW r \in OfKind("decoder") \cup OfKind("circuit"),
                      Public(r)
               PROVE  DescriptionSource(r) # {} /\ \A s \in DescriptionSource(r) : Public(s)
    BY DEF DescriptionsFound
  <2>1. r \in Records /\ state[r] # "absent"
    BY DEF OfKind, Public, PublicStates
  <2> QED BY <2>1, DescriptionReached, VisitedArePublic DEF DescriptionSource
<1> QED BY <1>1, CatalogueRegistryInv, PTL

-----------------------------------------------------------------------------
(* What one step of the registry may do to a record that pages already show.  *)
LEMMA StepKeepsPublic ==
  ASSUME RegistryInv, [Next]_vars, NEW x \in Records, Public(x)
  PROVE  Public(x)' /\ fields'[x] = fields[x]
BY StepFreezesPublic DEF RegistryInv, Frozen, Public

(* A circuit or a result becomes public in one way only: a candidate is       *)
(* published, and nothing is rewritten by the same step.                      *)
LEMMA BecomesPublic ==
  ASSUME RegistryInv, [Next]_vars, NEW x \in Records, KindOf[x] # "machine",
         ~Public(x), Public(x)'
  PROVE  state[x] \in PendingStates /\ state'[x] = "published" /\ fields' = fields
<1>1. KeepsFields(x) \/ TakesFields(x)
  BY StepOfRecord DEF RegistryInv
<1> QED BY <1>1 DEF KeepsFields, TakesFields, Public, PublicStates, PendingStates

(* Fewer published results of a record are a withdrawal, and more an approval. *)
LEMMA ResultsMove ==
  ASSUME RegistryInv, [Next]_vars, NEW q
  PROVE  /\ Activity(q) \in Nat /\ Activity(q)' \in Nat
         /\ Activity(q)' < Activity(q) => LosesResult(q)
         /\ Activity(q)' > Activity(q) => GainsResult(q)
<1> DEFINE R == PublishedResults(q)
<1>1. /\ R \subseteq Records /\ R' \subseteq Records
      /\ \A x \in R : KindOf[x] = "result" /\ state[x] = "published" /\ q \in fields[x].refs
      /\ \A x \in R' : KindOf[x] = "result" /\ state'[x] = "published" /\ q \in fields'[x].refs
  BY DEF PublishedResults, OfKind
<1>2. IsFiniteSet(R) /\ IsFiniteSet(R')
  BY <1>1, CatalogueAssumption, FS_Subset
<1>3. /\ Cardinality(R) \in Nat /\ Cardinality(R') \in Nat
      /\ R \subseteq R' => Cardinality(R) <= Cardinality(R')
      /\ R' \subseteq R => Cardinality(R') <= Cardinality(R)
  BY <1>2, FS_CardinalityType, FS_Subset
<1>4. Activity(q) = Cardinality(R) /\ Activity(q)' = Cardinality(R')
  BY DEF Activity
<1>5. ASSUME NEW x \in R, x \notin R' PROVE state'[x] = "withdrawn"
  <2>1. Public(x) /\ x \in Records
    BY <1>1 DEF Public, PublicStates
  <2>2. Public(x)' /\ fields'[x] = fields[x]
    BY <2>1, StepKeepsPublic
  <2>3. state'[x] # "published"
    BY <1>1, <1>5, <2>2 DEF PublishedResults, OfKind
  <2> QED BY <2>2, <2>3 DEF Public, PublicStates
<1>6. ASSUME NEW x \in R', x \notin R PROVE state[x] \in PendingStates
  <2>1. ~Public(x)
    <3>1. ASSUME Public(x) PROVE FALSE
      <4>1. fields'[x] = fields[x]
        BY <1>1, <3>1, StepKeepsPublic
      <4>2. state[x] # "published"
        BY <1>1, <1>6, <4>1 DEF PublishedResults, OfKind
      <4>3. KeepsFields(x) \/ TakesFields(x)
        BY <1>1, StepOfRecord DEF RegistryInv
      <4> QED BY <1>1, <3>1, <4>2, <4>3
              DEF KeepsFields, TakesFields, Public, PublicStates, PendingStates
    <3> QED BY <3>1
  <2>2. Public(x)'
    BY <1>1 DEF Public, PublicStates
  <2> QED BY <1>1, <2>1, <2>2, BecomesPublic
<1> HIDE DEF R
<1>7. Activity(q)' < Activity(q) => \E x \in R : x \notin R'
  BY <1>3, <1>4
<1>8. Activity(q)' > Activity(q) => \E x \in R' : x \notin R
  BY <1>3, <1>4
<1>9. (\E x \in R : x \notin R') => LosesResult(q)
  BY <1>5 DEF LosesResult, R
<1>10. (\E x \in R' : x \notin R) => GainsResult(q)
  BY <1>6 DEF GainsResult, R
<1> QED BY <1>3, <1>4, <1>7, <1>8, <1>9, <1>10

(* A set of positions has a first one.                                        *)
LEMMA FirstPosition ==
  ASSUME NEW S \in SUBSET Nat, S # {}
  PROVE  \E i \in S : \A j \in S : i <= j
<1> DEFINE R == {p \in Nat \X Nat : p[1] < p[2]}
<1>1. IsWellFoundedOn(R, Nat)
  BY NatLessThanWellFounded, Zenon DEF OpToRel
<1>2. PICK i \in S : \A j \in S : ~ (<<j, i>> \in R)
  <2> HIDE DEF R
  <2> QED BY <1>1, WFMin, Zenon
<1>3. ASSUME NEW j \in S PROVE ~(j < i)
  <2>1. j < i => <<j, i>> \in R
    OBVIOUS
  <2> HIDE DEF R
  <2> QED BY <1>2, <2>1
<1> QED BY <1>3

(* The terms of an order are numbered, and the id comes after them.           *)
LEMMA TermsNumbered ==
  ASSUME NEW terms \in Orders
  PROVE  \E n \in Nat :
           /\ DOMAIN terms = 1..n
           /\ DOMAIN Append(terms, Ascending("id")) = 1..(n + 1)
           /\ \A i \in 1..n : Append(terms, Ascending("id"))[i] = terms[i]
           /\ Append(terms, Ascending("id"))[n + 1] = Ascending("id")
<1>1. \E S : terms \in Seq(S)
  <2>1. PICK sort \in SortTexts \cup {<<>>}, searched \in BOOLEAN :
          terms = Ordering(sort, searched)
    BY DEF Orders
  <2>2. CASE sort # <<>> /\ terms = ParseSort(sort)
    <3> DEFINE sortable == {i \in DOMAIN sort : sort[i].key \in {"results", "published", "name"}}
               first == {i \in sortable : \A j \in sortable : sort[j].key = sort[i].key => i <= j}
               N == Cardinality(first)
               term(n) == sort[CHOOSE i \in first : Cardinality({j \in first : j <= i}) = n]
    <3>1. N \in Nat
      <4>1. first \subseteq 1..Len(sort) /\ Len(sort) \in Nat
        BY <2>2, CatalogueAssumption
      <4> HIDE DEF first
      <4>2. IsFiniteSet(1..Len(sort))
        BY <4>1, FS_Interval
      <4> QED BY <4>1, <4>2, FS_Subset, FS_CardinalityType
    <3>2. terms = IF first = {} THEN <<Ascending("name")>> ELSE [n \in 1..N |-> term(n)]
      BY <2>2, Zenon DEF ParseSort
    <3> HIDE DEF first, N, term
    <3>3. [n \in 1..N |-> term(n)] \in Seq({term(n) : n \in 1..N})
      BY <3>1
    <3>4. <<Ascending("name")>> \in Seq({Ascending("name")})
      OBVIOUS
    <3> QED BY <3>2, <3>3, <3>4
  <2>3. Featured \in Seq({Descending("results"), Descending("published"), Ascending("name")})
    BY DEF Featured
  <2>4. SearchRelevance \in Seq({Ascending("relevance"), Ascending("name")})
    BY DEF SearchRelevance
  <2> QED BY <2>1, <2>2, <2>3, <2>4 DEF Ordering
<1>2. PICK S : terms \in Seq(S)
  BY <1>1
<1> DEFINE last == Ascending("id")
           T == S \cup {last}
<1>3. terms \in Seq(T) /\ last \in T
  BY <1>2
<1> HIDE DEF last, T
<1>4. /\ Len(terms) \in Nat /\ DOMAIN terms = 1..Len(terms)
      /\ DOMAIN Append(terms, last) = 1..(Len(terms) + 1)
      /\ \A i \in 1..Len(terms) : Append(terms, last)[i] = terms[i]
      /\ Append(terms, last)[Len(terms) + 1] = last
  BY <1>3
<1> QED BY <1>4 DEF last

(* The first term that sorts by results decides whether two rows change       *)
(* places, because the others say after a step what they said before.         *)
LEMMA FirstResultsDecide ==
  ASSUME NEW terms \in Orders, NEW q, NEW r,
         Activity(q) \in Nat, Activity(r) \in Nat, Activity(q)' \in Nat, Activity(r)' \in Nat,
         Before(terms, q, r), ~Before(terms, q, r)'
  PROVE  \E i \in DOMAIN terms :
           /\ terms[i].key = "results"
           /\ IF terms[i].descending
              THEN Activity(q)' - Activity(r)' < Activity(q) - Activity(r)
              ELSE Activity(q)' - Activity(r)' > Activity(q) - Activity(r)
<1> DEFINE all == Append(terms, Ascending("id"))
<1>1. PICK n \in Nat : /\ DOMAIN terms = 1..n /\ DOMAIN all = 1..(n + 1)
                       /\ \A i \in 1..n : all[i] = terms[i]
                       /\ all[n + 1] = Ascending("id")
  BY TermsNumbered
<1> DEFINE Ties(i) == SortValue(all[i].key, q) = SortValue(all[i].key, r)
           Ahead(i) == Precedes(all[i], q, r)
<1>2. PICK i \in 1..(n + 1) : Ahead(i) /\ \A j \in 1..(i - 1) : Ties(j)
  BY <1>1 DEF Before
<1>3. \A m \in 1..(n + 1) : ~(Ahead(m)' /\ \A j \in 1..(m - 1) : Ties(j)')
  BY <1>1 DEF Before
<1>4. \A j \in 1..(n + 1) : all[j].key # "results" => (Ties(j)' <=> Ties(j)) /\ (Ahead(j)' <=> Ahead(j))
  BY DEF SortValue, Precedes
<1>5. \A j \in 1..(n + 1) : all[j].key = "results" =>
        /\ Ties(j) <=> Activity(q) = Activity(r)
        /\ Ties(j)' <=> Activity(q)' = Activity(r)'
        /\ Ahead(j) <=> IF all[j].descending THEN Activity(q) > Activity(r)
                                            ELSE Activity(q) < Activity(r)
        /\ Ahead(j)' <=> IF all[j].descending THEN Activity(q)' > Activity(r)'
                                             ELSE Activity(q)' < Activity(r)'
  BY DEF SortValue, Precedes
<1> DEFINE S == {j \in 1..i : all[j].key = "results"}
<1> HIDE DEF all, Ties, Ahead
<1>6. S # {}
  BY <1>2, <1>3, <1>4
<1>7. PICK m \in S : \A j \in S : m <= j
  <2>1. S \in SUBSET Nat
    BY <1>1, <1>2
  <2> HIDE DEF S
  <2> QED BY <1>6, <2>1, FirstPosition
<1>8. m \in 1..n /\ m <= i /\ all[m] = terms[m] /\ terms[m].key = "results"
  <2>1. m # n + 1
    BY <1>1 DEF Ascending
  <2> QED BY <1>1, <1>2, <1>7, <2>1
<1>9. \A j \in 1..(m - 1) : Ties(j)'
  BY <1>2, <1>4, <1>7, <1>8
<1>10. ~Ahead(m)'
  BY <1>3, <1>8, <1>9
<1>11. Activity(q)' = Activity(r)' => Activity(q) # Activity(r)
  <2> SUFFICES ASSUME Activity(q)' = Activity(r)', Activity(q) = Activity(r)
               PROVE  FALSE
    OBVIOUS
  <2>1. \A j \in 1..(i - 1) : Ties(j)'
    BY <1>2, <1>4, <1>5
  <2>2. all[i].key # "results"
    BY <1>2, <1>5
  <2> QED BY <1>2, <1>3, <1>4, <2>1, <2>2
<1>12. m = i \/ Activity(q) = Activity(r)
  BY <1>2, <1>5, <1>8
<1>13. m = i => Ahead(m)
  BY <1>2
<1>14. /\ all[m].key = "results" /\ m \in 1..(n + 1) /\ m \in DOMAIN terms
       /\ terms[m].descending <=> all[m].descending
  BY <1>1, <1>8
<1>15. IF all[m].descending THEN Activity(q)' <= Activity(r)'
                            ELSE Activity(q)' >= Activity(r)'
  BY <1>5, <1>10, <1>14
<1>16. Activity(q) = Activity(r) \/ IF all[m].descending THEN Activity(q) > Activity(r)
                                                        ELSE Activity(q) < Activity(r)
  BY <1>5, <1>12, <1>13, <1>14
<1>17. IF all[m].descending
       THEN Activity(q)' - Activity(r)' < Activity(q) - Activity(r)
       ELSE Activity(q)' - Activity(r)' > Activity(q) - Activity(r)
  BY <1>11, <1>15, <1>16
<1> QED BY <1>8, <1>14, <1>17

(* Submissions, edits and revisions move no row of a catalogue: two rows       *)
(* change places only in an order by published results, and only when a       *)
(* result of the one that falls is withdrawn or one of the other is approved.  *)
THEOREM OrderOnlyFollowsResults == CatalogueSpec => OrderFollowsResults
<1> DEFINE Step ==
             \A k \in {"decoder", "circuit"} : \A q, r \in Listed(k) \cap Listed(k)' :
               \A terms \in Orders :
                 Before(terms, q, r) /\ ~Before(terms, q, r)' =>
                   \E i \in DOMAIN terms :
                     /\ terms[i].key = "results"
                     /\ IF terms[i].descending THEN LosesResult(q) \/ GainsResult(r)
                                               ELSE LosesResult(r) \/ GainsResult(q)
<1>1. RegistryInv /\ [CatalogueNext]_catalogueVars => [Step]_catalogueVars
  <2> SUFFICES ASSUME RegistryInv, [CatalogueNext]_catalogueVars,
                      NEW k \in {"decoder", "circuit"},
                      NEW q \in Listed(k) \cap Listed(k)', NEW r \in Listed(k) \cap Listed(k)',
                      NEW terms \in Orders,
                      Before(terms, q, r), ~Before(terms, q, r)'
               PROVE  \E i \in DOMAIN terms :
                        /\ terms[i].key = "results"
                        /\ IF terms[i].descending THEN LosesResult(q) \/ GainsResult(r)
                                                  ELSE LosesResult(r) \/ GainsResult(q)
    OBVIOUS
  <2>1. [Next]_vars
    BY DEF CatalogueNext, catalogueVars
  <2>2. /\ Activity(q) \in Nat /\ Activity(q)' \in Nat
        /\ Activity(q)' < Activity(q) => LosesResult(q)
        /\ Activity(q)' > Activity(q) => GainsResult(q)
    BY <2>1, ResultsMove
  <2>3. /\ Activity(r) \in Nat /\ Activity(r)' \in Nat
        /\ Activity(r)' < Activity(r) => LosesResult(r)
        /\ Activity(r)' > Activity(r) => GainsResult(r)
    BY <2>1, ResultsMove
  <2>4. PICK i \in DOMAIN terms :
          /\ terms[i].key = "results"
          /\ IF terms[i].descending
             THEN Activity(q)' - Activity(r)' < Activity(q) - Activity(r)
             ELSE Activity(q)' - Activity(r)' > Activity(q) - Activity(r)
    BY <2>2, <2>3, FirstResultsDecide
  <2>5. IF terms[i].descending THEN LosesResult(q) \/ GainsResult(r)
                               ELSE LosesResult(r) \/ GainsResult(q)
    BY <2>2, <2>3, <2>4
  <2> QED BY <2>4, <2>5
<1> QED BY <1>1, CatalogueRegistryInv, PTL DEF CatalogueSpec, OrderFollowsResults

-----------------------------------------------------------------------------
LEMMA AtMostOne ==
  ASSUME NEW S, \A x, y \in S : x = y
  PROVE  ~(Cardinality(S) > 1)
<1>1. CASE S = {}
  BY <1>1, FS_EmptySet
<1>2. CASE S # {}
  <2>1. PICK x : S = {x}
    BY <1>2
  <2>2. Cardinality({x}) = 1
    BY FS_Singleton
  <2> QED BY <2>1, <2>2
<1> QED BY <1>1, <1>2

(* A membership that does not belong to the attempt, and becomes visible.      *)
Misplaced(m) ==
  /\ \E x \in {m.result, m.circuit} : state[x] \in PendingStates /\ state'[x] = "published"
  /\ \/ m.circuit \notin DOMAIN manifest
     \/ Reference(m.result, "circuit") # m.circuit
     \/ Reference(m.result, "decoder") # attempted

LEMMA CompleteUnlessMisplaced ==
  ASSUME RegistryInv, BenchmarkInv, [Next]_vars, UNCHANGED benchmarkVars, IsComplete,
         \A m \in memberships : ~Misplaced(m)
  PROVE  IsComplete'
<1>1. manifest' = manifest /\ memberships' = memberships /\ attempted' = attempted
  BY DEF benchmarkVars
<1>2. \A m \in memberships : /\ m.circuit \in Records /\ KindOf[m.circuit] # "machine"
                             /\ m.result \in Records /\ KindOf[m.result] # "machine"
  BY DEF BenchmarkInv, MembershipsStorable, Memberships, OfKind
<1>3. \A c \in DOMAIN manifest : c \in Records /\ Public(c) /\ Public(c)'
  <2>1. \A c \in DOMAIN manifest : c \in Records /\ Public(c)
    BY DEF IsComplete, HiddenItems, PublicItems, BenchmarkInv, OfKind
  <2> QED BY <2>1, StepKeepsPublic
<1>4. PublicItems = DOMAIN manifest /\ PublicItems' = DOMAIN manifest /\ HiddenItems' = {}
  BY <1>1, <1>3 DEF PublicItems, HiddenItems
<1>5. \A m \in PublicMemberships : m \in memberships /\ m \in PublicMemberships'
  BY <1>1, <1>2, StepKeepsPublic DEF PublicMemberships
<1>6. ASSUME NEW m \in PublicMemberships', m \notin PublicMemberships
      PROVE  /\ m \in memberships /\ fields' = fields
             /\ m.circuit \in DOMAIN manifest
             /\ Reference(m.result, "circuit") = m.circuit
             /\ Reference(m.result, "decoder") = attempted
  <2>1. m \in memberships /\ Public(m.circuit)' /\ Public(m.result)'
    BY <1>1 DEF PublicMemberships
  <2>2. PICK x \in {m.result, m.circuit} : ~Public(x)
    BY <1>6, <2>1 DEF PublicMemberships
  <2>3. state[x] \in PendingStates /\ state'[x] = "published" /\ fields' = fields
    BY <1>2, <2>1, <2>2, BecomesPublic
  <2> QED BY <2>1, <2>2, <2>3 DEF Misplaced
<1>7. UnexpectedMemberships' = {}
  <2>1. ASSUME NEW m \in PublicMemberships' PROVE m.circuit \in DOMAIN manifest
    <3>1. CASE m \in PublicMemberships
      BY <1>4, <3>1 DEF IsComplete, UnexpectedMemberships
    <3>2. CASE m \notin PublicMemberships
      BY <1>6, <3>2
    <3> QED BY <3>1, <3>2
  <2> QED BY <1>4, <2>1 DEF UnexpectedMemberships
<1>8. \A x \in Records : \A k : fields'[x] = fields[x] => Reference(x, k)' = Reference(x, k)
  BY DEF Reference
<1>9. ASSUME NEW c \in DOMAIN manifest PROVE ~ItemIssue(c)'
  <2>1. ~ItemIssue(c)
    BY <1>4 DEF IsComplete
  <2>2. ~(ResultsOf(c)' = {} /\ manifest'[c])
    <3>1. \A x \in ResultsOf(c) : x \in ResultsOf(c)'
      BY <1>5 DEF ResultsOf
    <3> QED BY <1>1, <2>1, <3>1 DEF ItemIssue
  <2>3. ~(Cardinality(ResultsOf(c)') > 1)
    <3>1. \A x, y \in ResultsOf(c)' : x = y
      BY <1>1 DEF ResultsOf, PublicMemberships, BenchmarkInv, MembershipsStorable
    <3> QED BY <3>1, AtMostOne
  <2>4. ASSUME NEW x \in ResultsOf(c)'
        PROVE  Reference(x, "circuit")' = c /\ Reference(x, "decoder")' = attempted'
    <3>1. PICK m \in PublicMemberships' : m.circuit = c /\ m.result = x
      BY DEF ResultsOf
    <3>2. CASE m \in PublicMemberships
      <4>1. x \in ResultsOf(c) /\ x \in Records /\ Public(x)
        BY <1>2, <3>1, <3>2 DEF ResultsOf, PublicMemberships
      <4>2. Reference(x, "circuit") = c /\ Reference(x, "decoder") = attempted
        BY <2>1, <4>1 DEF ItemIssue
      <4> QED BY <1>1, <1>8, <4>1, <4>2, StepKeepsPublic
    <3>3. CASE m \notin PublicMemberships
      BY <1>1, <1>2, <1>6, <1>8, <3>1, <3>3
    <3> QED BY <3>2, <3>3
  <2> QED BY <2>2, <2>3, <2>4 DEF ItemIssue
<1>10. RequiredResults' = Required'
  BY <1>1, <1>4, <1>9 DEF RequiredResults, Required
<1> QED BY <1>4, <1>7, <1>9, <1>10 DEF IsComplete

(* No withdrawal, revision or edit makes a complete attempt incomplete: only  *)
(* the publication of a membership that does not belong to it does.           *)
THEOREM CompleteAttemptsStay == CatalogueSpec => CompletenessKept
<1> DEFINE Step ==
      IsComplete /\ ~IsComplete' =>
        \E m \in memberships :
          /\ \E x \in {m.result, m.circuit} :
               state[x] \in PendingStates /\ state'[x] = "published"
          /\ \/ m.circuit \notin DOMAIN manifest
             \/ Reference(m.result, "circuit") # m.circuit
             \/ Reference(m.result, "decoder") # attempted
<1>1. RegistryInv /\ BenchmarkInv /\ [CatalogueNext]_catalogueVars => [Step]_catalogueVars
  <2> SUFFICES ASSUME RegistryInv, BenchmarkInv, CatalogueNext, IsComplete, ~IsComplete'
               PROVE  \E m \in memberships : Misplaced(m)
    BY DEF Misplaced
  <2>1. [Next]_vars /\ UNCHANGED benchmarkVars
    BY DEF CatalogueNext
  <2> QED BY <2>1, CompleteUnlessMisplaced
<1> QED BY <1>1, CatalogueRegistryInv, CatalogueBenchmarkInv, PTL
        DEF CatalogueSpec, CompletenessKept

-----------------------------------------------------------------------------
(* A form can refer to one published record of every kind that is asked for,   *)
(* when there are any.                                                        *)
LEMMA ReferencesToPick ==
  ASSUME NEW k \in Kinds
  PROVE  /\ ~NothingToReferTo(k) =>
              \E refs \in SUBSET UNION {OfKind(q) : q \in ReferenceKinds(k)} :
                ReferencesPublished(k, refs)
         /\ \A refs \in SUBSET Records :
              ReferencesPublished(k, refs) => ~NothingToReferTo(k)
<1>1. ASSUME ~NothingToReferTo(k)
      PROVE  \E refs \in SUBSET UNION {OfKind(q) : q \in ReferenceKinds(k)} :
               ReferencesPublished(k, refs)
  <2> DEFINE pick(q) == CHOOSE x \in PickerRecords(q) : TRUE
             refs == {pick(q) : q \in ReferenceKinds(k)}
  <2>1. \A q \in ReferenceKinds(k) : pick(q) \in OfKind(q) /\ state[pick(q)] = "published"
    BY <1>1 DEF NothingToReferTo, PickerRecords
  <2> HIDE DEF pick
  <2>2. \A q \in ReferenceKinds(k) : KindOf[pick(q)] = q
    BY <2>1 DEF OfKind
  <2>3. refs \in SUBSET UNION {OfKind(q) : q \in ReferenceKinds(k)}
    BY <2>1
  <2>4. ReferencesPublished(k, refs)
    BY <2>1, <2>2 DEF ReferencesPublished
  <2> QED BY <2>3, <2>4
<1>2. ASSUME NEW refs \in SUBSET Records, ReferencesPublished(k, refs)
      PROVE  ~NothingToReferTo(k)
  BY <1>2 DEF ReferencesPublished, NothingToReferTo, PickerRecords, OfKind
<1> QED BY <1>1, <1>2

(* A row is offered to an account that manages its record.                  *)
LEMMA RowsAreManaged ==
  ASSUME RegistryInv, NEW a \in Accounts, NEW r \in RowsFor(a)
  PROVE  /\ r \in Records /\ KindOf[r] \in Kinds /\ a \in active /\ Manages(a, r)
         /\ state[r] \in PendingStates \cup PublicStates
<1>1. r \in Records /\ a \in active /\ Manages(a, r) /\ state[r] # "absent"
  BY DEF RowsFor, ProfileRows, ReviewRows, Manages, PendingStates
<1> QED BY <1>1, SubmissionsAssumption DEF RegistryInv, HistoryInv, TypeOK, States

LEMMA EditOffered ==
  ASSUME RegistryInv, NEW a \in Accounts, NEW r \in RowsFor(a), state[r] \in PendingStates
  PROVE  Accepted(a, r, "edit") <=> ~Stuck(r, "edit")
<1> DEFINE k == KindOf[r]
<1>1. r \in Records /\ k \in Kinds /\ Manages(a, r)
  BY RowsAreManaged
<1>2. ASSUME NEW f \in FormFields(k), EditAccepted(a, r, f)
      PROVE  ~Stuck(r, "edit")
  <2>1. state[r] # "pending_reapproval"
    BY <1>1, <1>2, SubmissionsAssumption
       DEF EditAccepted, ForceLineage, Locked, ValidFields, LineageStates, FormFields,
           PendingStates, PublicStates
  <2>2. f.refs \in SUBSET Records /\ ReferencesPublished(k, f.refs)
    BY <1>2, <2>1 DEF EditAccepted, ForceLineage, Locked, ValidFields, FormFields, OfKind
  <2> QED BY <1>1, <2>1, <2>2, ReferencesToPick DEF Stuck
<1>3. ASSUME ~Stuck(r, "edit")
      PROVE  \E f \in FormFields(k) : EditAccepted(a, r, f)
  <2>1. state[r] = "pending_review" /\ ~NothingToReferTo(k)
    BY <1>3 DEF Stuck, PendingStates
  <2>2. PICK refs \in SUBSET UNION {OfKind(q) : q \in ReferenceKinds(k)} :
          ReferencesPublished(k, refs)
    BY <1>1, <2>1, ReferencesToPick
  <2>3. PICK body : body \in Described /\ body \in Bodies
    BY WorkspaceAssumption, SubmissionsAssumption
  <2> DEFINE f == [lineage |-> NoRecord, refs |-> refs, body |-> body]
  <2>4. f \in FormFields(k)
    BY <2>2, <2>3 DEF FormFields
  <2>5. ValidFields(k, f, FALSE, {r})
    BY <2>2, <2>3 DEF ValidFields, FirstIsDescribed
  <2>6. ForceLineage("edit", r, f) = f
    BY <2>1 DEF ForceLineage, Locked
  <2> HIDE DEF f
  <2>7. EditAccepted(a, r, f)
    BY <1>1, <2>1, <2>5, <2>6 DEF EditAccepted
  <2> QED BY <2>4, <2>7
<1> QED BY <1>2, <1>3 DEF Accepted

LEMMA SuccessorOffered ==
  ASSUME RegistryInv, NEW a \in Accounts, NEW r \in RowsFor(a), state[r] \in PublicStates
  PROVE  Accepted(a, r, "successor") <=> ~Stuck(r, "successor")
<1> DEFINE k == KindOf[r]
<1>1. r \in Records /\ k \in Kinds /\ Manages(a, r) /\ r # NoRecord
  BY RowsAreManaged, SubmissionsAssumption
<1>2. SuccessorAvailable(k, r, {}) <=> k = "machine" \/ Successors(r) = {}
  <2>1. \A s \in Records : fields[s].lineage = r => state[s] # "absent"
    BY <1>1, NamedArePublic
  <2> QED BY <2>1 DEF SuccessorAvailable, Successors
<1>3. ASSUME NEW f \in FormFields(k)
      PROVE  SuccessorAccepted(a, r, f) <=>
               ReferencesPublished(k, f.refs) /\ SuccessorAvailable(k, r, {})
  <2> DEFINE g == ForceLineage("successor", r, f)
  <2>1. g.lineage = r /\ g.refs = f.refs
    BY DEF ForceLineage, Locked, FormFields
  <2> HIDE DEF g
  <2>2. state[r] \in LineageStates(state[r] = "withdrawn")
    BY DEF LineageStates, PublicStates
  <2>3. ValidFields(k, g, state[r] = "withdrawn", {}) <=>
          ReferencesPublished(k, f.refs) /\ SuccessorAvailable(k, r, {})
    BY <1>1, <2>1, <2>2 DEF ValidFields, FirstIsDescribed
  <2> QED BY <1>1, <2>3 DEF SuccessorAccepted, g
<1>4. ASSUME NEW f \in FormFields(k), SuccessorAccepted(a, r, f)
      PROVE  ~Stuck(r, "successor")
  <2>1. f.refs \in SUBSET Records
    BY DEF FormFields, OfKind
  <2> QED BY <1>1, <1>2, <1>3, <1>4, <2>1, ReferencesToPick DEF Stuck
<1>5. ASSUME ~Stuck(r, "successor")
      PROVE  \E f \in FormFields(k) : SuccessorAccepted(a, r, f)
  <2>1. ~NothingToReferTo(k) /\ SuccessorAvailable(k, r, {})
    BY <1>2, <1>5 DEF Stuck
  <2>2. PICK refs \in SUBSET UNION {OfKind(q) : q \in ReferenceKinds(k)} :
          ReferencesPublished(k, refs)
    BY <1>1, <2>1, ReferencesToPick
  <2>3. PICK body : body \in Bodies
    BY SubmissionsAssumption
  <2> DEFINE f == [lineage |-> NoRecord, refs |-> refs, body |-> body]
  <2>4. f \in FormFields(k) /\ f.refs = refs
    BY <2>2, <2>3 DEF FormFields
  <2> HIDE DEF f
  <2> QED BY <1>3, <2>1, <2>2, <2>4
<1> QED BY <1>4, <1>5 DEF Accepted

LEMMA ApprovalOffered ==
  ASSUME RegistryInv, NEW a \in Accounts, NEW r \in RowsFor(a), state[r] \in PendingStates,
         a \in admins
  PROVE  Accepted(a, r, "approve") <=> ~Stuck(r, "approve")
<1>1. r \in Records /\ a \in active
  BY RowsAreManaged
<1>2. Formed(r) /\ state[r] # "absent"
  BY <1>1 DEF RegistryInv, PendingStates
<1>3. Approvable(r)
  BY <1>2 DEF Approvable, Formed, InitialState
<1>4. Publishable(r) <=> \A x \in fields[r].refs : state[x] = "published"
  <2>1. fields[r].lineage # NoRecord => state[fields[r].lineage] \in PublicStates
    BY <1>1, NamedArePublic DEF Public
  <2>2. FormedFields(KindOf[r], fields[r])
    BY <1>2 DEF Formed
  <2> QED BY <2>1, <2>2 DEF Publishable, ReferencesPublished, FormedFields, OneOfEach
<1> QED BY <1>1, <1>3, <1>4 DEF Accepted, Stuck

(* What the profile and the review queue offer is refused only for the        *)
(* reasons that Stuck names.                                                 *)
THEOREM OffersAreHonoured == CatalogueSpec => []OffersHonoured
<1>1. RegistryInv => OffersHonoured
  <2> SUFFICES ASSUME RegistryInv, NEW a \in Accounts, NEW r \in RowsFor(a),
                      NEW offer \in Offers(a, r)
               PROVE  Accepted(a, r, offer) <=> ~Stuck(r, offer)
    BY DEF OffersHonoured
  <2>1. /\ Manages(a, r) /\ state[r] \in PendingStates \cup PublicStates
    BY RowsAreManaged
  <2>2. \/ offer = "edit" /\ state[r] \in PendingStates
        \/ offer = "successor" /\ state[r] \in PublicStates
        \/ offer = "withdraw" /\ state[r] = "published"
        \/ offer = "approve" /\ a \in admins /\ state[r] \in PendingStates
    BY <2>1 DEF Offers, PendingStates, PublicStates
  <2>3. CASE offer = "withdraw" /\ state[r] = "published"
    BY <2>1, <2>3 DEF Accepted, Stuck
  <2> QED BY <2>2, <2>3, EditOffered, SuccessorOffered, ApprovalOffered
<1> QED BY <1>1, CatalogueRegistryInv, PTL

(* Saving the unchanged page of a candidate keeps its fields, unless its       *)
(* predecessor has been withdrawn in the meantime.                            *)
THEOREM UnchangedEditsKeep == CatalogueSpec => []UnchangedEditKeeps
<1>1. RegistryInv => UnchangedEditKeeps
  <2> SUFFICES ASSUME RegistryInv, NEW a \in Accounts, NEW r \in Records,
                      state[r] = "pending_review", EditAccepted(a, r, RenderedFields(r))
               PROVE  \/ RenderedFields(r) = fields[r]
                      \/ /\ state[fields[r].lineage] = "withdrawn"
                         /\ RenderedFields(r) = [fields[r] EXCEPT !.lineage = NoRecord]
    BY DEF UnchangedEditKeeps
  <2> DEFINE k == KindOf[r]
             f == fields[r]
             g == RenderedFields(r)
             chosen == {p \in Records : p = f.lineage}
             shown == SelectedRecords(k, chosen, LineageStates(FALSE))
  <2>1. f \in Fields /\ OneOfEach(k, f.refs)
    BY DEF RegistryInv, HistoryInv, TypeOK, Formed, FormedFields
  <2> DEFINE kept(q) == SelectedRecords(q, {x \in f.refs : KindOf[x] = q}, {"published"})
             refs == UNION {kept(q) : q \in ReferenceKinds(k)}
             lineage == IF shown = {} THEN NoRecord ELSE CHOOSE p \in shown : TRUE
  <2>2. g = [lineage |-> lineage, refs |-> refs, body |-> f.body]
    BY DEF RenderedFields
  <2>3. g.lineage = lineage
    BY <2>2
  <2>4. \A x : x \in g.refs <=>
          \E q \in ReferenceKinds(k) :
            x \in SelectedRecords(q, {y \in f.refs : KindOf[y] = q}, {"published"})
    <3> HIDE DEF kept
    <3>1. \A x : x \in refs <=> \E q \in ReferenceKinds(k) : x \in kept(q)
      OBVIOUS
    <3> HIDE DEF refs
    <3>2. g.refs = refs
      BY <2>2
    <3> QED BY <3>1, <3>2 DEF kept
  <2>5. g.refs = f.refs
    <3>1. \A x \in g.refs : x \in f.refs
      BY <2>4 DEF SelectedRecords
    <3>2. ForceLineage("edit", r, g) = g
      BY DEF ForceLineage, Locked
    <3>3. ReferencesPublished(k, g.refs)
      BY <3>2 DEF EditAccepted, ValidFields
    <3>4. \A x \in f.refs : x \in g.refs
      BY <2>1, <3>1, <3>3 DEF OneOfEach, ReferencesPublished
    <3> QED BY <3>1, <3>4
  <2>6. \/ g.lineage = f.lineage
        \/ state[f.lineage] = "withdrawn" /\ g.lineage = NoRecord
    <3>1. shown = {p \in chosen : state[p] = "published"}
      BY DEF SelectedRecords, PickerRecords, LineageStates
    <3>2. CASE f.lineage = NoRecord
      BY <2>3, <3>1, <3>2, SubmissionsAssumption
    <3>3. CASE f.lineage # NoRecord
      <4>1. f.lineage \in Records /\ state[f.lineage] \in {"published", "withdrawn"}
        BY <3>3, NamedArePublic DEF Public, PublicStates
      <4> QED BY <2>3, <3>1, <4>1
    <3> QED BY <3>2, <3>3
  <2> HIDE DEF shown, lineage, refs
  <2>7. g = [lineage |-> g.lineage, refs |-> f.refs, body |-> f.body]
    BY <2>2, <2>5
  <2>8. f = [lineage |-> f.lineage, refs |-> f.refs, body |-> f.body]
    BY <2>1 DEF Fields
  <2> HIDE DEF g, f
  <2>9. g = [f EXCEPT !.lineage = g.lineage]
    BY <2>7, <2>8
  <2>10. g = f \/ (state[f.lineage] = "withdrawn" /\ g = [f EXCEPT !.lineage = NoRecord])
    BY <2>6, <2>7, <2>8, <2>9
  <2> QED BY <2>10 DEF f, g
<1> QED BY <1>1, CatalogueRegistryInv, PTL

-----------------------------------------------------------------------------
(* A preview of an edit or of a revision names the record it is about.       *)
Kept == {p \in PreviewSet : p.operation # "create" => p.record \in Records}

PreviewsInv ==
  /\ HistoryInv
  /\ session \in Seq(Kept)
  /\ loaded \in [Requests -> Seq(Kept)]
  /\ phase \in [Requests -> {"idle", "open", "done"}]
  /\ issued \subseteq PreviewIds

LEMMA SequencesOfPreviews ==
  ASSUME NEW S, NEW s \in Seq(S)
  PROVE  /\ Evict(s) \in Seq(S)
         /\ \A i \in DOMAIN s : RemoveAt(s, i) \in Seq(S)
<1>1. \A m, n \in Int : 1 <= m /\ n <= Len(s) => SubSeq(s, m, n) \in Seq(S)
  OBVIOUS
<1>2. ASSUME NEW i \in DOMAIN s PROVE RemoveAt(s, i) \in Seq(S)
  <2>1. i \in 1..Len(s)
    OBVIOUS
  <2>2. SubSeq(s, 1, i - 1) \in Seq(S) /\ SubSeq(s, i + 1, Len(s)) \in Seq(S)
    BY <1>1, <2>1
  <2> QED BY <2>2 DEF RemoveAt
<1>3. Evict(s) \in Seq(S)
  <2> DEFINE m == 1 + (IF Len(s) > PreviewLimit THEN Len(s) - PreviewLimit ELSE 0)
  <2>1. m \in Int /\ 1 <= m /\ Len(s) \in Int
    BY PreviewsAssumption
  <2> HIDE DEF m
  <2>2. SubSeq(s, m, Len(s)) \in Seq(S)
    BY <1>1, <2>1
  <2> QED BY <2>2 DEF Evict, m
<1> QED BY <1>2, <1>3

(* What validation accepts are fields that a form may name.                 *)
LEMMA AcceptedFieldsInForm ==
  ASSUME NEW k, NEW f \in Fields, ReferencesPublished(k, f.refs),
         f.lineage # NoRecord => KindOf[f.lineage] = k
  PROVE  f \in FormFields(k)
<1>1. \A x \in f.refs : x \in OfKind(KindOf[x]) /\ KindOf[x] \in ReferenceKinds(k)
  BY DEF ReferencesPublished, Fields, OfKind
<1>2. f.refs \in SUBSET UNION {OfKind(q) : q \in ReferenceKinds(k)}
  BY <1>1
<1>3. f.lineage \in OfKind(k) \cup {NoRecord}
  BY DEF Fields, OfKind
<1> QED BY <1>2, <1>3 DEF Fields, FormFields

(* What a browser commits is an operation of the service, however old the      *)
(* preview is.                                                               *)
LEMMA CommitsAreServiceCalls ==
  ASSUME HistoryInv, NEW p \in Kept, NEW r \in Records, Perform(p, r)
  PROVE  Next
<1>1. p.fields \in Fields /\ User \in Accounts
  BY PreviewsAssumption DEF Kept, PreviewSet
<1>2. CASE p.operation = "create"
  <2>1. CreateSubmission(User, r, p.fields)
    BY <1>2 DEF Perform
  <2>2. p.fields \in FormFields(KindOf[r])
    BY <1>1, <2>1, AcceptedFieldsInForm DEF CreateSubmission, ValidFields
  <2> QED BY <1>1, <2>1, <2>2 DEF Next
<1>3. CASE p.operation = "edit"
  <2> DEFINE g == PinnedFields(r, p.fields)
  <2>1. UpdatePending(User, r, p.fields)
    BY <1>3 DEF Perform
  <2>2. g \in Fields /\ PinnedFields(r, g) = g
    BY <1>1 DEF PinnedFields, HistoryInv, TypeOK, Fields
  <2> HIDE DEF g
  <2>3. ValidFields(KindOf[r], g, state[r] = "pending_reapproval", {r})
    BY <2>1 DEF UpdatePending, g
  <2>4. g \in FormFields(KindOf[r])
    BY <2>2, <2>3, AcceptedFieldsInForm DEF ValidFields
  <2>5. UpdatePending(User, r, g)
    BY <2>1, <2>2 DEF UpdatePending, g
  <2> QED BY <1>1, <2>4, <2>5 DEF Next
<1>4. CASE p.operation = "successor"
  <2> DEFINE f == p.fields
  <2>1. p.record \in Records /\ p.record # NoRecord
    BY <1>4, SubmissionsAssumption DEF Kept
  <2>2. \/ ReplaceWithSuccessor(User, p.record, r, f)
        \/ CreateSuccessor(User, p.record, r, f)
    BY <1>4 DEF Perform
  <2>3. f.lineage = p.record
    BY <2>2 DEF ReplaceWithSuccessor, CreateSuccessor
  <2>4. ReferencesPublished(KindOf[r], f.refs) /\ KindOf[f.lineage] = KindOf[r]
    BY <2>1, <2>2, <2>3 DEF ReplaceWithSuccessor, CreateSuccessor, ValidFields
  <2>5. f \in FormFields(KindOf[r])
    BY <1>1, <2>4, AcceptedFieldsInForm
  <2> QED BY <1>1, <2>1, <2>2, <2>3, <2>5 DEF Next
<1> QED BY <1>2, <1>3, <1>4 DEF Kept, PreviewSet

LEMMA PreviewsStepRefines ==
  ASSUME PreviewsInv, [PreviewsNext]_previewVars
  PROVE  [Next]_vars
<1>1. CASE UNCHANGED previewVars
  BY <1>1 DEF previewVars
<1>2. CASE Others
  BY <1>2 DEF Others, Next
<1>3. ASSUME NEW t \in Requests,
             Open(t) \/ Close(t) \/ SaveSession(t) \/ PostEditor(t)
      PROVE  UNCHANGED vars
  BY <1>3 DEF Open, Close, SaveSession, PostEditor, StorePreview
<1>4. ASSUME NEW t \in Requests, NEW i \in DOMAIN loaded[t], NEW r \in Records,
             CommitPreview(t, i, r)
      PROVE  Next
  <2>1. loaded[t][i] \in Kept
    BY DEF PreviewsInv
  <2> QED BY <1>4, <2>1, CommitsAreServiceCalls DEF CommitPreview, PreviewsInv
<1> QED BY <1>1, <1>2, <1>3, <1>4 DEF PreviewsNext

LEMMA NextPreviewsInv == PreviewsInv /\ [PreviewsNext]_previewVars => PreviewsInv'
<1> SUFFICES ASSUME PreviewsInv, [PreviewsNext]_previewVars PROVE PreviewsInv'
  OBVIOUS
<1>1. HistoryInv'
  BY PreviewsStepRefines, NextHistoryInv DEF PreviewsInv
<1> DEFINE Web == /\ session' \in Seq(Kept)
                  /\ loaded' \in [Requests -> Seq(Kept)]
                  /\ phase' \in [Requests -> {"idle", "open", "done"}]
                  /\ issued' \subseteq PreviewIds
<1>2. ASSUME UNCHANGED previewVars \/ Others
      PROVE  Web
  BY <1>2 DEF previewVars, webVars, Others, PreviewsInv
<1>3. ASSUME NEW t \in Requests, Open(t) \/ Close(t) \/ SaveSession(t)
      PROVE  Web
  <2>1. CASE Open(t)
    BY <2>1 DEF Open, PreviewsInv
  <2>2. CASE Close(t)
    BY <2>2 DEF Close, PreviewsInv
  <2>3. CASE SaveSession(t)
    BY <2>3 DEF SaveSession, PreviewsInv
  <2> QED BY <1>3, <2>1, <2>2, <2>3
<1>4. ASSUME NEW t \in Requests, NEW id \in PreviewIds, NEW f \in Forms,
             NEW operation \in {"create", "edit", "successor"}, NEW k \in Kinds,
             NEW r \in Records \cup {NoRecord}, operation # "create" => r \in Records,
             NEW mode \in {"alongside", "replace"},
             StorePreview(t, id, operation, k, r, f, mode)
      PROVE  Web
  <2> DEFINE g == ForcedFields(operation, r, f)
             p == [id |-> id, operation |-> operation, kind |-> k, record |-> r,
                   fields |-> g, mode |-> mode]
             s == Append(loaded[t], p)
  <2>1. g \in Fields
    BY <1>4, PreviewsAssumption DEF ForcedFields, Fields
  <2>2. p \in Kept
    <3> HIDE DEF g
    <3> QED BY <1>4, <2>1 DEF Kept, PreviewSet
  <2>3. /\ issued' = issued \cup {id} /\ session' = session
        /\ loaded' = [loaded EXCEPT ![t] = Evict(s)]
        /\ phase' = [phase EXCEPT ![t] = "done"]
    BY <1>4 DEF StorePreview
  <2> HIDE DEF p
  <2>4. s \in Seq(Kept)
    BY <2>2 DEF PreviewsInv
  <2> HIDE DEF s
  <2>5. Evict(s) \in Seq(Kept)
    BY <2>4, SequencesOfPreviews
  <2> QED BY <2>3, <2>5 DEF PreviewsInv
<1>5. ASSUME NEW t \in Requests, PostEditor(t)
      PROVE  Web
  <2>1. ASSUME NEW id \in PreviewIds, NEW f \in Forms, NEW r \in Records,
               StorePreview(t, id, "create", KindOf[r], NoRecord, f, "alongside")
        PROVE  Web
    BY <1>4, <2>1, SubmissionsAssumption
  <2>2. ASSUME NEW id \in PreviewIds, NEW f \in Forms, NEW r \in Records,
               NEW operation \in {"edit", "successor"}, NEW mode \in Modes(operation, r),
               StorePreview(t, id, operation, KindOf[r], r, f, mode)
        PROVE  Web
    <3>1. mode \in {"alongside", "replace"} /\ KindOf[r] \in Kinds
      BY SubmissionsAssumption DEF Modes
    <3> QED BY <1>4, <2>2, <3>1
  <2> HIDE DEF Web
  <2> QED BY <1>5, <2>1, <2>2 DEF PostEditor
<1>6. ASSUME NEW t \in Requests, NEW i \in DOMAIN loaded[t], NEW r \in Records,
             CommitPreview(t, i, r)
      PROVE  Web
  <2>1. /\ loaded' = [loaded EXCEPT ![t] = RemoveAt(loaded[t], i)]
        /\ phase' = [phase EXCEPT ![t] = "done"]
        /\ session' = session /\ issued' = issued
    BY <1>6 DEF CommitPreview
  <2>2. loaded[t] \in Seq(Kept)
    BY DEF PreviewsInv
  <2>3. RemoveAt(loaded[t], i) \in Seq(Kept)
    BY <2>2, SequencesOfPreviews
  <2> QED BY <2>1, <2>3 DEF PreviewsInv
<1>7. Web
  <2> HIDE DEF Web
  <2>1. CASE \E t \in Requests :
               Open(t) \/ Close(t) \/ SaveSession(t) \/ PostEditor(t)
                 \/ \E i \in DOMAIN loaded[t], r \in Records : CommitPreview(t, i, r)
    BY <1>3, <1>5, <1>6, <2>1
  <2>2. CASE UNCHANGED previewVars \/ Others
    BY <1>2, <2>2
  <2> QED BY <2>1, <2>2 DEF PreviewsNext
<1> QED BY <1>1, <1>7 DEF PreviewsInv

LEMMA SpecPreviewsInv == PreviewsSpec => []PreviewsInv
<1>1. PreviewsInit => PreviewsInv
  <2> SUFFICES ASSUME PreviewsInit PROVE PreviewsInv
    OBVIOUS
  <2>1. HistoryInv
    BY PreviewsAssumption, StoredHistoryInv DEF PreviewsInit
  <2> QED BY <2>1 DEF PreviewsInit, PreviewsInv
<1> QED BY <1>1, NextPreviewsInv, PTL DEF PreviewsSpec

(* The session and the requests only ever hold well-formed previews.        *)
THEOREM PreviewsTyped == PreviewsSpec => []PreviewsTypeOK
<1>1. \A s : s \in Seq(Kept) => s \in Seq(PreviewSet)
  <2>1. Kept \subseteq PreviewSet
    BY DEF Kept
  <2> HIDE DEF Kept
  <2> QED BY <2>1
<1>2. PreviewsInv => PreviewsTypeOK
  BY <1>1 DEF PreviewsInv, HistoryInv, PreviewsTypeOK
<1> QED BY <1>2, SpecPreviewsInv, PTL

(* What one operation of the service checks of the fields it writes, and where *)
(* the record then goes.                                                      *)
Validated(q) ==
  fields'[q] # fields[q] =>
    /\ \A x \in fields'[q].refs : state[x] = "published"
    /\ fields'[q].lineage # NoRecord => state[fields'[q].lineage] \in PublicStates

Reapproved(q) ==
  (/\ state[q] = "absent" /\ state'[q] # "absent"
   /\ fields'[q].lineage # NoRecord
   /\ state'[fields'[q].lineage] = "withdrawn")
    => state'[q] = "pending_reapproval"

LEMMA StepValidates ==
  ASSUME HistoryInv, [Next]_vars, NEW q \in Records
  PROVE  Validated(q) /\ Reapproved(q)
<1>1. ASSUME NEW a \in Accounts, NEW r \in Records, NEW f \in Fields,
             CreateSubmission(a, r, f)
      PROVE  Validated(q) /\ Reapproved(q)
  <2>1. /\ state[r] = "absent" /\ ReferencesPublished(KindOf[r], f.refs)
        /\ f.lineage # NoRecord => state[f.lineage] = "published"
        /\ state' = [state EXCEPT ![r] = InitialState(KindOf[r], FALSE)]
        /\ fields' = [fields EXCEPT ![r] = f]
        /\ f.lineage \in Records \cup {NoRecord}
    BY <1>1 DEF CreateSubmission, StoreSubmission, InsertRecord, ValidFields, LineageStates,
       Fields
  <2> QED BY <2>1 DEF Validated, Reapproved, ReferencesPublished, PublicStates, HistoryInv,
          TypeOK
<1>2. ASSUME NEW a \in Accounts, NEW r \in Records, NEW f \in Fields,
             UpdatePending(a, r, f)
      PROVE  Validated(q) /\ Reapproved(q)
  <2> DEFINE g == PinnedFields(r, f)
  <2>1. ValidFields(KindOf[r], g, state[r] = "pending_reapproval", {r})
    BY <1>2 DEF UpdatePending
  <2>2. state' = state /\ fields' = [fields EXCEPT ![r] = g]
    BY <1>2 DEF UpdatePending, StoreEdit
  <2> HIDE DEF g
  <2> QED BY <2>1, <2>2 DEF ValidFields, ReferencesPublished, LineageStates, PublicStates,
          HistoryInv, TypeOK, Validated, Reapproved
<1>3. ASSUME NEW a \in Accounts, NEW r \in Records, NEW f \in Fields,
             NEW source \in Records, CreateSuccessor(a, source, r, f)
      PROVE  Validated(q) /\ Reapproved(q)
  <2>1. /\ state[r] = "absent" /\ ReferencesPublished(KindOf[r], f.refs)
        /\ f.lineage = source /\ state[source] \in PublicStates
        /\ state' = [state EXCEPT ![r] = InitialState(KindOf[r], state[source] = "withdrawn")]
        /\ fields' = [fields EXCEPT ![r] = f]
    BY <1>3 DEF CreateSuccessor, StoreSubmission, InsertRecord, ValidFields
  <2> QED BY <2>1 DEF Validated, Reapproved, ReferencesPublished, PublicStates, InitialState,
          HistoryInv, TypeOK
<1>4. ASSUME NEW a \in Accounts, NEW r \in Records, NEW f \in Fields,
             NEW source \in Records, ReplaceWithSuccessor(a, source, r, f)
      PROVE  Validated(q) /\ Reapproved(q)
  <2>1. /\ state[r] = "absent" /\ ReferencesPublished(KindOf[r], f.refs)
        /\ f.lineage = source /\ state[source] = "published"
        /\ state' = [state EXCEPT ![source] = "withdrawn", ![r] = "pending_reapproval"]
        /\ fields' = [fields EXCEPT ![r] = f]
    BY <1>4 DEF ReplaceWithSuccessor, StoreReplacement, InsertRecord, InitialState
  <2> QED BY <2>1 DEF Validated, Reapproved, ReferencesPublished, PublicStates, HistoryInv,
          TypeOK
<1>5. ASSUME NEW a \in Accounts, NEW r \in Records,
             WithdrawSubmission(a, r) \/ ApproveSubmission(a, r)
      PROVE  Validated(q) /\ Reapproved(q)
  BY <1>5 DEF WithdrawSubmission, StoreWithdrawal, ApproveSubmission, StoreApproval,
     Approvable, PendingStates, HistoryInv, TypeOK, Validated, Reapproved
<1>6. ASSUME NEW a \in Toggled, SetAccountAdmin(a) \/ SetAccountActive(a)
      PROVE  Validated(q) /\ Reapproved(q)
  BY <1>6 DEF SetAccountAdmin, SetAccountActive, recordVars, Validated, Reapproved
<1>7. ASSUME UNCHANGED vars
      PROVE  Validated(q) /\ Reapproved(q)
  BY <1>7 DEF vars, recordVars, Validated, Reapproved
<1> QED BY <1>1, <1>2, <1>3, <1>4, <1>5, <1>6, <1>7, NextOperations

(* However old a preview is when it is committed, what it stores refers to     *)
(* published records and revises a public one.                               *)
THEOREM PreviewsRevalidated == PreviewsSpec => StalePreviewsRevalidated
<1>1. PreviewsInv /\ [PreviewsNext]_previewVars =>
        [\A r \in Records : Validated(r)]_previewVars
  BY PreviewsStepRefines, StepValidates DEF PreviewsInv
<1> QED BY <1>1, SpecPreviewsInv, PTL DEF PreviewsSpec, StalePreviewsRevalidated, Validated

(* A preview of an edit changes nothing once the record is public, and a       *)
(* preview of a revision of what has been withdrawn asks for reapproval.      *)
THEOREM PreviewsRespectState == PreviewsSpec => StalePreviewsRespectState
<1> DEFINE Step ==
      \A r \in Records :
        /\ state[r] \in PublicStates => fields'[r] = fields[r]
        /\ (/\ state[r] = "absent" /\ state'[r] # "absent"
            /\ fields'[r].lineage # NoRecord
            /\ state'[fields'[r].lineage] = "withdrawn")
           => state'[r] = "pending_reapproval"
<1>1. PreviewsInv /\ [PreviewsNext]_previewVars => [Step]_previewVars
  <2> SUFFICES ASSUME PreviewsInv, [PreviewsNext]_previewVars PROVE Step
    OBVIOUS
  <2>1. HistoryInv /\ [Next]_vars
    BY PreviewsStepRefines DEF PreviewsInv
  <2>2. \A r \in Records : state[r] \in PublicStates => fields'[r] = fields[r]
    BY <2>1, StepFreezesPublic DEF Frozen
  <2>3. \A r \in Records : Reapproved(r)
    BY <2>1, StepValidates
  <2> QED BY <2>2, <2>3 DEF Reapproved
<1> QED BY <1>1, SpecPreviewsInv, PTL DEF PreviewsSpec, StalePreviewsRespectState
=============================================================================

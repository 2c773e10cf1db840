-------------------------- MODULE Artifacts_proofs --------------------------
(***************************************************************************)
(* Rows have their objects, equal bytes become one artifact and loads are   *)
(* atomic, for any number of requests, contents and contracts and wherever  *)
(* a request fails or dies.                                                 *)
(***************************************************************************)
EXTENDS Artifacts, WellFoundedInduction, TLAPS

-----------------------------------------------------------------------------
(* The inductive invariant.                                                *)

\* What the phase of a request says about its job and file.
PhaseInv(t) ==
  /\ At(t, "idle") => req[t].job = "upload" /\ req[t].part = "schema"
  /\ ~At(t, "idle") => req[t].file \in Contents
  /\ req[t].phase \in {"check", "create", "commit", "loaded"} => req[t].job = "load"
  /\ req[t].phase \in {"created", "reused"} => req[t].job = "upload"
  /\ At(t, "put") => req[t].backend = "r2"

\* A load has done what it has passed: its artifacts and releases are there
\* for its own transaction.
CourseInv(t) ==
  req[t].job = "load" /\ req[t].phase \in Running =>
    /\ \A k \in req[t].selected \ req[t].left :
         releases[k].by # Nobody /\ releases[k].txn \in {Nobody, t}
    /\ At(t, "commit") => req[t].left = {}
    /\ ~At(t, "commit") =>
         /\ req[t].left # {}
         /\ req[t].part = "schema" => req[t].file = tree[Current(t)].schema
         /\ req[t].part = "definitions" =>
              /\ req[t].file = tree[Current(t)].definitions
              /\ VisibleRow(t, tree[Current(t)].schema)
         /\ req[t].phase \in {"check", "create"} =>
              /\ req[t].part = "definitions"
              /\ VisibleRow(t, tree[Current(t)].definitions)

\* The object of a row is written before it, and nothing removes it.
ObjectInv ==
  /\ \A b \in Backends, c \in Contents \ Fragile : objects[b][c] # "damaged"
  /\ \A c \in Contents : rows[c].id # Nobody => objects[rows[c].backend][c] # "missing"
  /\ \A t \in Requests :
       At(t, "insert") => objects[req[t].backend][req[t].file] # "missing"

\* Uncommitted rows and releases are those of running loads.
OwnerInv ==
  /\ \A c \in Contents : rows[c].txn # Nobody =>
       /\ rows[c].id = rows[c].txn
       /\ req[rows[c].txn].job = "load" /\ req[rows[c].txn].phase \in Running
  /\ \A k \in Contracts : releases[k].txn # Nobody =>
       /\ releases[k].by = releases[k].txn
       /\ req[releases[k].txn].job = "load" /\ req[releases[k].txn].phase \in Running

\* An upload inserts its row at most once, and a row lasts until its load ends.
UploadInv(t) ==
  LET row == rows[req[t].file] IN
  /\ req[t].job = "upload" =>
       \A c \in Contents : rows[c].id = t =>
         req[t].phase \in {"readback", "created", "failed", "crashed"}
  /\ At(t, "readback") =>
       row.id = t /\ row.txn = IF req[t].job = "load" THEN t ELSE Nobody
  /\ At(t, "created") => row.id = t /\ row.txn = Nobody
  /\ At(t, "reused") => row.id \notin {t, Nobody} /\ row.txn = Nobody

\* The artifacts of a release are visible where the release is, and its load
\* ended before anybody else saw it.
ReleaseInv ==
  /\ \A k \in Contracts : releases[k].by # Nobody =>
       \A c \in {releases[k].schema, releases[k].definitions} :
         /\ c \in Contents
         /\ rows[c].id # Nobody /\ rows[c].txn \in {Nobody, releases[k].txn}
  /\ \A k \in Contracts : releases[k].by # Nobody /\ releases[k].txn = Nobody =>
       At(releases[k].by, "loaded")
  /\ \A t \in Requests : At(t, "loaded") =>
       \A k \in req[t].selected : releases[k].by # Nobody /\ releases[k].txn = Nobody

ArtifactsInv ==
  /\ TypeOK
  /\ \A t \in Requests : PhaseInv(t) /\ CourseInv(t) /\ UploadInv(t)
  /\ ObjectInv
  /\ OwnerInv
  /\ ReleaseInv

-----------------------------------------------------------------------------
(* Contracts are numbers, so that a set of them has a first one.           *)

LEMMA FirstIn ==
  ASSUME NEW S \in SUBSET Nat, S # {}
  PROVE  First(S) \in S
<1> DEFINE R == {p \in Nat \X Nat : p[1] < p[2]}
<1>1. IsWellFoundedOn(R, Nat)
  BY NatLessThanWellFounded, Zenon DEF OpToRel
<1>2. PICK k \in S : \A l \in S : ~ (<<l, k>> \in R)
  <2> HIDE DEF R
  <2> QED BY <1>1, WFMin, Zenon
<1>3. ASSUME NEW l \in S PROVE k <= l
  <2>1. k \in Nat /\ l \in Nat
    OBVIOUS
  <2>2. l < k => <<l, k>> \in R
    BY <2>1
  <2>3. ~(l < k)
    <3> HIDE DEF R
    <3> QED BY <1>2, <2>2
  <2> QED BY <2>1, <2>3
<1>4. \E m \in S : \A l \in S : m <= l
  BY <1>3
<1> QED BY <1>4, Zenon DEF First

LEMMA CurrentIn ==
  ASSUME TypeOK, NEW t \in Requests, req[t].left # {}
  PROVE  Current(t) \in req[t].left /\ Current(t) \in Contracts
<1>1. req[t].left \in SUBSET Contracts /\ Contracts \in SUBSET Nat
  BY ArtifactsAssumption DEF TypeOK, RequestRecords
<1> QED BY <1>1, FirstIn DEF Current

LEMMA TreeFiles ==
  ASSUME TypeOK, NEW k \in Contracts
  PROVE  tree[k].schema \in Contents /\ tree[k].definitions \in Contents
BY ArtifactsAssumption DEF TypeOK

-----------------------------------------------------------------------------
(* Type correctness.                                                       *)

LEMMA InitTypeOK ==
  ASSUME Init
  PROVE  TypeOK
<1>1. NoRow \in RowRecords
  BY DEF NoRow, RowRecords, Backends
<1>2. [NoRow EXCEPT !.id = Earlier] \in RowRecords
  BY <1>1 DEF RowRecords
<1>3. NoRelease \in ReleaseRecords
  BY DEF NoRelease, ReleaseRecords
<1>4. NoJob \in RequestRecords
  BY DEF NoJob, RequestRecords, Jobs, Phases, Backends
<1>5. objects \in [Backends -> [Contents -> {"missing", "intact", "damaged"}]]
  BY DEF Init
<1>6. rows \in [Contents -> RowRecords]
  BY <1>1, <1>2 DEF Init
<1>7. releases \in [Contracts -> ReleaseRecords] /\ req \in [Requests -> RequestRecords]
  BY <1>3, <1>4 DEF Init
<1> QED BY <1>5, <1>6, <1>7 DEF Init, TypeOK

(* A step of one request leaves the records of the others alone.           *)
LEMMA SetRequest ==
  ASSUME TypeOK, NEW t \in Requests, NEW X \in RequestRecords, req' = [req EXCEPT ![t] = X]
  PROVE  /\ req' \in [Requests -> RequestRecords]
         /\ req'[t] = X
         /\ \A u \in Requests \ {t} : req'[u] = req[u]
BY DEF TypeOK

LEMMA GotoType ==
  ASSUME TypeOK, NEW t \in Requests, NEW phase \in Phases, Goto(t, phase)
  PROVE  /\ req' \in [Requests -> RequestRecords]
         /\ req'[t] = [req[t] EXCEPT !.phase = phase]
         /\ \A u \in Requests \ {t} : req'[u] = req[u]
<1>1. req[t] \in RequestRecords
  BY DEF TypeOK
<1>2. [req[t] EXCEPT !.phase = phase] \in RequestRecords
  BY <1>1 DEF RequestRecords
<1>3. req' = [req EXCEPT ![t] = [req[t] EXCEPT !.phase = phase]]
  BY DEF Goto, TypeOK
<1> QED BY <1>2, <1>3, SetRequest

LEMMA RollBackType ==
  ASSUME TypeOK, NEW t \in Requests, RollBack(t)
  PROVE  rows' \in [Contents -> RowRecords] /\ releases' \in [Contracts -> ReleaseRecords]
<1>1. NoRow \in RowRecords /\ NoRelease \in ReleaseRecords
  BY DEF NoRow, NoRelease, RowRecords, ReleaseRecords, Backends
<1> QED BY <1>1 DEF TypeOK, RollBack

LEMMA FailType ==
  ASSUME TypeOK, NEW t \in Requests, Fail(t)
  PROVE  TypeOK'
<1>1. "failed" \in Phases
  BY DEF Phases, Ended
<1>2. /\ req' \in [Requests -> RequestRecords]
      /\ \A u \in Requests \ {t} : req'[u] = req[u]
  BY <1>1, GotoType DEF Fail
<1> QED BY <1>2, RollBackType DEF Fail, TypeOK

(* A step that only moves on, without or with a temporary file.            *)
LEMMA OnwardType ==
  ASSUME TypeOK, NEW t \in Requests, NEW phase \in Phases, Goto(t, phase),
         backend' = backend, tree' = tree, objects' \in [Backends -> [Contents -> {"missing", "intact", "damaged"}]],
         rows' \in [Contents -> RowRecords], releases' \in [Contracts -> ReleaseRecords],
         temps' = temps \/ (temps' = temps \cup {t}),
         t \in temps' => phase \in Receiving \cup {"crashed"}
  PROVE  TypeOK'
<1>1. /\ req' \in [Requests -> RequestRecords]
      /\ req'[t] = [req[t] EXCEPT !.phase = phase]
      /\ \A u \in Requests \ {t} : req'[u] = req[u]
  BY GotoType
<1>2. req[t] \in RequestRecords
  BY DEF TypeOK
<1>3. req'[t].phase = phase
  BY <1>1, <1>2 DEF RequestRecords
<1> QED BY <1>1, <1>3 DEF TypeOK

\* A file is stored: its load goes on, if any.
LEMMA StoredType ==
  ASSUME TypeOK, NEW t \in Requests, NEW outcome \in {"created", "reused"},
         req[t].job = "load" => req[t].left # {},
         Stored(t, outcome), UNCHANGED <<backend, tree, store>>
  PROVE  TypeOK'
<1>1. req[t] \in RequestRecords
  BY DEF TypeOK
<1>2. PICK X \in RequestRecords : req' = [req EXCEPT ![t] = X]
  <2>1. CASE req[t].job = "upload"
    <3>1. [req[t] EXCEPT !.phase = outcome] \in RequestRecords
      BY <1>1 DEF RequestRecords, Phases, Ended
    <3>2. req' = [req EXCEPT ![t] = [req[t] EXCEPT !.phase = outcome]]
      BY <2>1 DEF Stored, TypeOK
    <3> QED BY <3>1, <3>2
  <2>2. CASE req[t].job # "upload" /\ req[t].part = "schema"
    <3>1. tree[Current(t)].definitions \in Contents
      <4>1. Current(t) \in Contracts
        BY <1>1, <2>2, CurrentIn DEF RequestRecords, Jobs
      <4> QED BY <4>1, TreeFiles
    <3>2. [req[t] EXCEPT !.phase = "receive", !.part = "definitions",
                         !.file = tree[Current(t)].definitions] \in RequestRecords
      BY <1>1, <3>1 DEF RequestRecords, Phases, Running
    <3>3. req' = [req EXCEPT ![t] =
            [req[t] EXCEPT !.phase = "receive", !.part = "definitions",
                           !.file = tree[Current(t)].definitions]]
      BY <2>2 DEF Stored, TypeOK
    <3> QED BY <3>2, <3>3
  <2>3. CASE req[t].job # "upload" /\ req[t].part # "schema"
    <3>1. [req[t] EXCEPT !.phase = "check"] \in RequestRecords
      BY <1>1 DEF RequestRecords, Phases, Running
    <3>2. req' = [req EXCEPT ![t] = [req[t] EXCEPT !.phase = "check"]]
      BY <2>3 DEF Stored, TypeOK
    <3> QED BY <3>1, <3>2
  <2> QED BY <2>1, <2>2, <2>3
<1>3. /\ req' \in [Requests -> RequestRecords]
      /\ \A u \in Requests \ {t} : req'[u] = req[u]
  BY <1>2, SetRequest
<1> QED BY <1>3 DEF Stored, TypeOK, store

LEMMA NextContractType ==
  ASSUME TypeOK, NEW t \in Requests, NextContract(t),
         backend' = backend, tree' = tree, objects' = objects, rows' = rows, temps' = temps,
         releases' \in [Contracts -> ReleaseRecords],
         req[t].phase \notin Receiving \cup {"crashed"}
  PROVE  TypeOK'
<1> DEFINE left == req[t].left \ {Current(t)}
<1>1. req[t] \in RequestRecords /\ left \subseteq Contracts
  BY DEF TypeOK, RequestRecords
<1>2. PICK X \in RequestRecords : req' = [req EXCEPT ![t] = X]
  <2>1. CASE left = {}
    <3>1. [req[t] EXCEPT !.left = {}, !.phase = "commit"] \in RequestRecords
      BY <1>1 DEF RequestRecords, Phases, Running
    <3>2. req' = [req EXCEPT ![t] = [req[t] EXCEPT !.left = {}, !.phase = "commit"]]
      BY <2>1 DEF NextContract, TypeOK
    <3> QED BY <3>1, <3>2
  <2>2. CASE left # {}
    <3>1. tree[First(left)].schema \in Contents
      <4>1. First(left) \in Contracts
        BY <1>1, <2>2, FirstIn, ArtifactsAssumption
      <4> QED BY <4>1, TreeFiles
    <3>2. [req[t] EXCEPT !.left = left, !.part = "schema", !.phase = "receive",
                         !.file = tree[First(left)].schema] \in RequestRecords
      BY <1>1, <3>1 DEF RequestRecords, Phases, Running
    <3>3. req' = [req EXCEPT ![t] =
            [req[t] EXCEPT !.left = left, !.part = "schema", !.phase = "receive",
                           !.file = tree[First(left)].schema]]
      BY <2>2 DEF NextContract, TypeOK
    <3> QED BY <3>2, <3>3
  <2> QED BY <2>1, <2>2
<1>3. /\ req' \in [Requests -> RequestRecords]
      /\ \A u \in Requests \ {t} : req'[u] = req[u]
  BY <1>2, SetRequest
<1> QED BY <1>3 DEF TypeOK

LEMMA WriteType ==
  ASSUME TypeOK, NEW t \in Requests, req[t].phase \in {"persist", "put"},
         NEW b \in Backends, req[t].file \in Contents, WriteObject(t, b)
  PROVE  TypeOK'
<1>1. objects' \in [Backends -> [Contents -> {"missing", "intact", "damaged"}]]
  BY DEF WriteObject, TypeOK
<1>2. "insert" \in Phases /\ "insert" \in Receiving
  BY DEF Phases, Running, Receiving
<1> QED BY <1>1, <1>2, OnwardType DEF WriteObject, TypeOK

LEMMA VerifyType ==
  ASSUME TypeOK, NEW t \in Requests, NEW c, NEW outcome \in {"created", "reused"},
         req[t].job = "load" => req[t].left # {}, VerifyRow(t, c, outcome)
  PROVE  TypeOK'
BY StoredType, FailType DEF VerifyRow

LEMMA InsertType ==
  ASSUME TypeOK, NEW t \in Requests, At(t, "insert"), req[t].file \in Contents,
         req[t].job = "load" => req[t].left # {}, Insert(t)
  PROVE  TypeOK'
<1> DEFINE c == req[t].file
<1>1. CASE rows[c].id = Nobody
  <2> DEFINE row == [id |-> t, backend |-> req[t].backend,
                     txn |-> IF req[t].job = "load" THEN t ELSE Nobody]
  <2>1. row \in RowRecords
    BY DEF TypeOK, RequestRecords, RowRecords
  <2>2. rows' = [rows EXCEPT ![c] = row]
    BY <1>1 DEF Insert
  <2>3. rows' \in [Contents -> RowRecords]
    <3> HIDE DEF row
    <3> QED BY <2>1, <2>2 DEF TypeOK
  <2>4. "readback" \in Phases /\ "readback" \in Receiving
    BY DEF Phases, Running, Receiving
  <2> QED BY <1>1, <2>3, <2>4, OnwardType DEF Insert, TypeOK
<1>2. CASE rows[c].id # Nobody
  BY <1>2, VerifyType DEF Insert
<1> QED BY <1>1, <1>2

LEMMA CreateType ==
  ASSUME TypeOK, NEW t \in Requests, At(t, "create"), req[t].left # {}, CreateRelease(t)
  PROVE  TypeOK'
<1> DEFINE k == Current(t)
<1>1. k \in Contracts /\ req[t].phase \notin Receiving \cup {"crashed"}
  BY CurrentIn DEF At, Receiving
<1>2. CASE releases[k].by = Nobody
  <2> DEFINE release == [schema |-> tree[k].schema, definitions |-> tree[k].definitions,
                         url |-> req[t].url, by |-> t, txn |-> t]
  <2>1. release \in ReleaseRecords
    BY <1>1, TreeFiles DEF TypeOK, RequestRecords, ReleaseRecords
  <2>2. releases' = [releases EXCEPT ![k] = release]
    BY <1>2 DEF CreateRelease
  <2>3. releases' \in [Contracts -> ReleaseRecords]
    <3> HIDE DEF release
    <3> QED BY <2>1, <2>2 DEF TypeOK
  <2> QED BY <1>1, <1>2, <2>3, NextContractType DEF CreateRelease
<1>3. CASE releases[k].by # Nobody
  BY <1>3, FailType DEF CreateRelease
<1> QED BY <1>2, <1>3

LEMMA CommitType ==
  ASSUME TypeOK, NEW t \in Requests, CommitLoad(t)
  PROVE  TypeOK'
<1>1. rows' \in [Contents -> RowRecords]
  <2>1. \A row \in RowRecords : [row EXCEPT !.txn = Nobody] \in RowRecords
    BY DEF RowRecords
  <2> QED BY <2>1 DEF TypeOK, CommitLoad
<1>2. releases' \in [Contracts -> ReleaseRecords]
  <2>1. \A r \in ReleaseRecords : [r EXCEPT !.txn = Nobody] \in ReleaseRecords
    BY DEF ReleaseRecords
  <2> QED BY <2>1 DEF TypeOK, CommitLoad
<1>3. t \notin temps /\ "loaded" \in Phases
  BY DEF CommitLoad, At, TypeOK, Receiving, Phases, Ended
<1> QED BY <1>1, <1>2, <1>3, OnwardType DEF CommitLoad, TypeOK

-----------------------------------------------------------------------------
(* What a step of one request leaves to the others.                        *)

Keeps(t) ==
  /\ tree' = tree
  /\ \A u \in Requests \ {t} : req'[u] = req[u]
  /\ \A c \in Contents :
       /\ rows[c].id # Nobody /\ rows[c].txn # t => rows'[c] = rows[c]
       /\ rows'[c] # rows[c] => rows'[c].id \in {t, Nobody}
  /\ \A k \in Contracts :
       releases[k].by # Nobody /\ releases[k].txn # t => releases'[k] = releases[k]

LEMMA OthersKeep ==
  ASSUME ArtifactsInv, NEW t \in Requests, NEW u \in Requests \ {t}, Keeps(t)
  PROVE  PhaseInv(u)' /\ CourseInv(u)' /\ UploadInv(u)'
<1>1. req'[u] = req[u] /\ tree' = tree /\ u # Nobody /\ t # Nobody
  BY ArtifactsAssumption DEF Keeps
<1>2. PhaseInv(u)'
  BY <1>1 DEF ArtifactsInv, PhaseInv, At
<1>3. ASSUME NEW c \in Contents, VisibleRow(u, c) PROVE VisibleRow(u, c)'
  BY <1>1, <1>3 DEF Keeps, VisibleRow
<1>4. CourseInv(u)'
  <2> SUFFICES ASSUME req[u].job = "load", req[u].phase \in Running
               PROVE  CourseInv(u)'
    BY <1>1 DEF CourseInv
  <2>1. Current(u)' = Current(u)
    BY <1>1 DEF Current
  <2>2. \A k \in req[u].selected \ req[u].left :
          releases'[k].by # Nobody /\ releases'[k].txn \in {Nobody, u}
    <3>1. req[u].selected \subseteq Contracts
      BY DEF ArtifactsInv, TypeOK, RequestRecords
    <3> QED BY <1>1, <3>1 DEF ArtifactsInv, CourseInv, Keeps
  <2>3. ~At(u, "commit") =>
          tree[Current(u)].schema \in Contents /\ tree[Current(u)].definitions \in Contents
    BY CurrentIn, TreeFiles DEF ArtifactsInv, CourseInv
  <2> QED BY <1>1, <1>3, <2>1, <2>2, <2>3 DEF ArtifactsInv, CourseInv, At
<1>5. UploadInv(u)'
  <2>1. \A c \in Contents : rows'[c].id = u => rows[c].id = u
    BY <1>1 DEF Keeps
  <2>2. req[u].phase \in {"readback", "created", "reused"} =>
          rows'[req[u].file] = rows[req[u].file]
    <3>1. ~At(u, "idle") => req[u].file \in Contents
      BY DEF ArtifactsInv, PhaseInv
    <3> QED BY <1>1, <3>1 DEF ArtifactsInv, UploadInv, Keeps, At
  <2> QED BY <1>1, <2>1, <2>2 DEF ArtifactsInv, UploadInv, At
<1> QED BY <1>2, <1>4, <1>5

(* A step that adds rows and releases, if it touches them.                 *)
Extends(t) ==
  /\ tree' = tree
  /\ \A u \in Requests \ {t} : req'[u] = req[u]
  /\ \A c \in Contents :
       \/ rows'[c] = rows[c]
       \/ /\ rows[c].id = Nobody /\ rows'[c].id = t
          /\ rows'[c].txn = IF req[t].job = "load" THEN t ELSE Nobody
  /\ \A k \in Contracts :
       \/ releases'[k] = releases[k]
       \/ /\ releases[k].by = Nobody /\ releases'[k].by = t /\ releases'[k].txn = t
          /\ req[t].job = "load"
          /\ \A c \in {releases'[k].schema, releases'[k].definitions} :
               c \in Contents /\ VisibleRow(t, c)

LEMMA ExtendsKeeps ==
  ASSUME NEW t \in Requests, Extends(t)
  PROVE  Keeps(t)
BY DEF Extends, Keeps

LEMMA ExtendsTables ==
  ASSUME ArtifactsInv, NEW t \in Requests, Extends(t),
         req[t].phase # "loaded", req'[t].phase # "loaded",
         req[t].job = "load" => req'[t].job = "load" /\ req'[t].phase \in Running
  PROVE  OwnerInv' /\ ReleaseInv'
<1>1. t # Nobody
  BY ArtifactsAssumption
<1>2. OwnerInv'
  <2>1. ASSUME NEW c \in Contents, rows'[c].txn # Nobody
        PROVE  /\ rows'[c].id = rows'[c].txn
               /\ req'[rows'[c].txn].job = "load" /\ req'[rows'[c].txn].phase \in Running
    <3>1. CASE rows'[c] = rows[c]
      <4>1. rows[c].txn \in Requests
        BY <2>1, <3>1 DEF ArtifactsInv, TypeOK, RowRecords
      <4>2. /\ rows[c].id = rows[c].txn
            /\ req[rows[c].txn].job = "load" /\ req[rows[c].txn].phase \in Running
        BY <2>1, <3>1 DEF ArtifactsInv, OwnerInv
      <4> QED BY <3>1, <4>1, <4>2 DEF Extends
    <3>2. CASE rows'[c] # rows[c]
      BY <2>1, <3>2 DEF Extends
    <3> QED BY <3>1, <3>2
  <2>2. ASSUME NEW k \in Contracts, releases'[k].txn # Nobody
        PROVE  /\ releases'[k].by = releases'[k].txn
               /\ req'[releases'[k].txn].job = "load"
               /\ req'[releases'[k].txn].phase \in Running
    <3>1. CASE releases'[k] = releases[k]
      <4>1. releases[k].txn \in Requests
        BY <2>2, <3>1 DEF ArtifactsInv, TypeOK, ReleaseRecords
      <4>2. /\ releases[k].by = releases[k].txn
            /\ req[releases[k].txn].job = "load" /\ req[releases[k].txn].phase \in Running
        BY <2>2, <3>1 DEF ArtifactsInv, OwnerInv
      <4> QED BY <3>1, <4>1, <4>2 DEF Extends
    <3>2. CASE releases'[k] # releases[k]
      BY <2>2, <3>2 DEF Extends
    <3> QED BY <3>1, <3>2
  <2> QED BY <2>1, <2>2 DEF OwnerInv
<1>3. ReleaseInv'
  <2>1. \A c \in Contents : rows[c].id # Nobody => rows'[c] = rows[c]
    BY DEF Extends
  <2>2. \A k \in Contracts : releases'[k].by # Nobody =>
          \A c \in {releases'[k].schema, releases'[k].definitions} :
            /\ c \in Contents
            /\ rows'[c].id # Nobody /\ rows'[c].txn \in {Nobody, releases'[k].txn}
    BY <2>1 DEF ArtifactsInv, ReleaseInv, Extends, VisibleRow
  <2>3. \A k \in Contracts : releases'[k].by # Nobody /\ releases'[k].txn = Nobody =>
          /\ releases'[k] = releases[k]
          /\ req[releases[k].by].phase = "loaded" /\ releases[k].by \in Requests
    BY <1>1 DEF ArtifactsInv, ReleaseInv, Extends, TypeOK, ReleaseRecords, At
  <2>4. \A k \in Contracts : releases'[k].by # Nobody /\ releases'[k].txn = Nobody =>
          req'[releases'[k].by].phase = "loaded"
    BY <2>3 DEF Extends
  <2>5. ASSUME NEW u \in Requests, req'[u].phase = "loaded", NEW k \in req'[u].selected
        PROVE  releases'[k].by # Nobody /\ releases'[k].txn = Nobody
    <3>1. u # t /\ req'[u] = req[u] /\ k \in Contracts
      BY <2>5 DEF Extends, ArtifactsInv, TypeOK, RequestRecords
    <3> QED BY <2>5, <3>1 DEF ArtifactsInv, ReleaseInv, Extends, At
  <2> QED BY <2>2, <2>4, <2>5 DEF ReleaseInv, At
<1> QED BY <1>2, <1>3

LEMMA RollBackKeeps ==
  ASSUME ArtifactsInv, NEW t \in Requests, RollBack(t), tree' = tree,
         \A u \in Requests \ {t} : req'[u] = req[u]
  PROVE  /\ Keeps(t)
         /\ \A c \in Contents : rows'[c] = IF rows[c].txn = t THEN NoRow ELSE rows[c]
         /\ \A k \in Contracts :
              releases'[k] = IF releases[k].txn = t THEN NoRelease ELSE releases[k]
BY DEF RollBack, Keeps, NoRow

LEMMA RollBackTables ==
  ASSUME ArtifactsInv, NEW t \in Requests, RollBack(t), tree' = tree,
         \A u \in Requests \ {t} : req'[u] = req[u],
         req[t].phase # "loaded", req'[t].phase # "loaded"
  PROVE  OwnerInv' /\ ReleaseInv'
<1>1. t # Nobody
  BY ArtifactsAssumption
<1>2. /\ \A c \in Contents : rows'[c] = IF rows[c].txn = t THEN NoRow ELSE rows[c]
      /\ \A k \in Contracts :
           releases'[k] = IF releases[k].txn = t THEN NoRelease ELSE releases[k]
  BY RollBackKeeps
<1>3. /\ NoRow.id = Nobody /\ NoRow.txn = Nobody
      /\ NoRelease.by = Nobody /\ NoRelease.txn = Nobody
  BY DEF NoRow, NoRelease
<1>4. OwnerInv'
  <2>1. ASSUME NEW c \in Contents, rows'[c].txn # Nobody
        PROVE  /\ rows'[c].id = rows'[c].txn
               /\ req'[rows'[c].txn].job = "load" /\ req'[rows'[c].txn].phase \in Running
    <3>1. rows'[c] = rows[c] /\ rows[c].txn \in Requests \ {t}
      BY <1>2, <1>3, <2>1 DEF ArtifactsInv, TypeOK, RowRecords
    <3> QED BY <2>1, <3>1 DEF ArtifactsInv, OwnerInv
  <2>2. ASSUME NEW k \in Contracts, releases'[k].txn # Nobody
        PROVE  /\ releases'[k].by = releases'[k].txn
               /\ req'[releases'[k].txn].job = "load"
               /\ req'[releases'[k].txn].phase \in Running
    <3>1. releases'[k] = releases[k] /\ releases[k].txn \in Requests \ {t}
      BY <1>2, <1>3, <2>2 DEF ArtifactsInv, TypeOK, ReleaseRecords
    <3> QED BY <2>2, <3>1 DEF ArtifactsInv, OwnerInv
  <2> QED BY <2>1, <2>2 DEF OwnerInv
<1>5. ReleaseInv'
  <2>1. \A k \in Contracts : releases'[k].by # Nobody =>
          releases'[k] = releases[k] /\ releases[k].txn # t
    BY <1>2, <1>3
  <2>2. \A k \in Contracts : releases'[k].by # Nobody =>
          \A c \in {releases'[k].schema, releases'[k].definitions} :
            /\ c \in Contents
            /\ rows'[c].id # Nobody /\ rows'[c].txn \in {Nobody, releases'[k].txn}
    BY <1>1, <1>2, <2>1 DEF ArtifactsInv, ReleaseInv
  <2>3. \A k \in Contracts : releases'[k].by # Nobody /\ releases'[k].txn = Nobody =>
          req'[releases'[k].by].phase = "loaded"
    BY <2>1 DEF ArtifactsInv, ReleaseInv, TypeOK, ReleaseRecords, At
  <2>4. ASSUME NEW u \in Requests, req'[u].phase = "loaded", NEW k \in req'[u].selected
        PROVE  releases'[k].by # Nobody /\ releases'[k].txn = Nobody
    <3>1. u # t /\ req'[u] = req[u] /\ k \in Contracts
      BY <2>4 DEF ArtifactsInv, TypeOK, RequestRecords
    <3> QED BY <1>1, <1>2, <2>4, <3>1 DEF ArtifactsInv, ReleaseInv, At
  <2> QED BY <2>2, <2>3, <2>4 DEF ReleaseInv, At
<1> QED BY <1>4, <1>5

(* Objects appear, or are damaged; a new row is the one inserted.          *)
LEMMA ObjectsKeep ==
  ASSUME ArtifactsInv, NEW t \in Requests,
         \A u \in Requests \ {t} : req'[u] = req[u],
         \A b \in Backends, c \in Contents : objects'[b][c] \in {objects[b][c], "intact"},
         \A c \in Contents : rows'[c].id # Nobody =>
           \/ rows[c].id # Nobody /\ rows'[c].backend = rows[c].backend
           \/ /\ At(t, "insert") /\ c = req[t].file
              /\ rows'[c].backend = req[t].backend,
         req'[t].phase = "insert" => objects'[req'[t].backend][req'[t].file] # "missing"
  PROVE  ObjectInv'
<1>1. \A b \in Backends, c \in Contents \ Fragile : objects'[b][c] # "damaged"
  BY DEF ArtifactsInv, ObjectInv
<1>2. \A b \in Backends, c \in Contents :
        objects[b][c] # "missing" => objects'[b][c] # "missing"
  OBVIOUS
<1>3. \A u \in Requests : req[u].backend \in Backends
  BY DEF ArtifactsInv, TypeOK, RequestRecords
<1>4. \A c \in Contents : rows'[c].id # Nobody =>
        objects'[rows'[c].backend][c] # "missing"
  <2>1. \A c \in Contents : rows[c].backend \in Backends
    BY DEF ArtifactsInv, TypeOK, RowRecords
  <2> QED BY <1>2, <1>3, <2>1 DEF ArtifactsInv, ObjectInv
<1>5. ASSUME NEW u \in Requests, req'[u].phase = "insert"
      PROVE  objects'[req'[u].backend][req'[u].file] # "missing"
  <2>1. CASE u # t
    <3>1. req'[u] = req[u] /\ req[u].file \in Contents /\ At(u, "insert")
      BY <1>5, <2>1 DEF ArtifactsInv, PhaseInv, At
    <3> QED BY <1>2, <1>3, <3>1 DEF ArtifactsInv, ObjectInv
  <2> QED BY <1>5, <2>1
<1> QED BY <1>1, <1>4, <1>5 DEF ObjectInv, At

-----------------------------------------------------------------------------
(* The steps, by what they do to the request that takes them.              *)

LEMMA Assemble ==
  ASSUME ArtifactsInv, NEW t \in Requests, Keeps(t), TypeOK',
         PhaseInv(t)', CourseInv(t)', UploadInv(t)', ObjectInv', OwnerInv', ReleaseInv'
  PROVE  ArtifactsInv'
<1>1. \A u \in Requests : PhaseInv(u)' /\ CourseInv(u)' /\ UploadInv(u)'
  BY OthersKeep
<1> QED BY <1>1 DEF ArtifactsInv

\* A request is over without a result.
LEMMA AbortStep ==
  ASSUME ArtifactsInv, NEW t \in Requests, req[t].phase \in Running,
         NEW phase \in {"failed", "crashed"}, Goto(t, phase), RollBack(t), TypeOK',
         tree' = tree, objects' = objects
  PROVE  ArtifactsInv'
<1>1. /\ req'[t] = [req[t] EXCEPT !.phase = phase]
      /\ \A u \in Requests \ {t} : req'[u] = req[u]
  BY GotoType DEF ArtifactsInv, Phases, Ended
<1>2. /\ req'[t].phase = phase /\ req'[t].file = req[t].file
      /\ req[t].phase \notin {"idle", "loaded"}
  BY <1>1 DEF ArtifactsInv, TypeOK, RequestRecords, Running
<1>3. Keeps(t) /\ OwnerInv' /\ ReleaseInv'
  BY <1>1, <1>2, RollBackKeeps, RollBackTables
<1>4. PhaseInv(t)' /\ CourseInv(t)' /\ UploadInv(t)'
  BY <1>2 DEF ArtifactsInv, PhaseInv, CourseInv, UploadInv, At, Running
<1>5. \A c \in Contents : rows'[c].id # Nobody =>
        rows[c].id # Nobody /\ rows'[c].backend = rows[c].backend
  BY RollBackKeeps, <1>1 DEF NoRow
<1>6. ObjectInv'
  BY <1>1, <1>2, <1>5, ObjectsKeep
<1> QED BY <1>3, <1>4, <1>6, Assemble

LEMMA FailStep ==
  ASSUME ArtifactsInv, NEW t \in Requests, req[t].phase \in Running, Fail(t)
  PROVE  ArtifactsInv'
BY FailType, AbortStep DEF Fail, ArtifactsInv

\* A request goes on with the same file.
LEMMA OnwardStep ==
  ASSUME ArtifactsInv, NEW t \in Requests,
         req[t].phase \in {"receive", "lookup", "persist", "put", "insert"},
         NEW phase \in Receiving, Goto(t, phase), TypeOK', ObjectInv', Extends(t),
         phase = "put" => req[t].backend = "r2",
         phase # "readback" => rows' = rows,
         phase = "readback" =>
           /\ rows'[req[t].file].id = t
           /\ rows'[req[t].file].txn = IF req[t].job = "load" THEN t ELSE Nobody
  PROVE  ArtifactsInv'
<1>1. req'[t] = [req[t] EXCEPT !.phase = phase]
  BY GotoType DEF ArtifactsInv, Phases, Receiving, Running
<1>2. /\ req'[t].phase = phase /\ req'[t].file = req[t].file /\ req'[t].job = req[t].job
      /\ req'[t].left = req[t].left /\ req'[t].selected = req[t].selected
      /\ req'[t].part = req[t].part /\ req'[t].backend = req[t].backend
  BY <1>1 DEF ArtifactsInv, TypeOK, RequestRecords
<1>3. phase \in Running /\ phase \notin {"idle", "check", "create", "commit"} \cup Ended
  BY DEF Running, Receiving, Ended
<1>4. OwnerInv' /\ ReleaseInv'
  BY <1>2, <1>3, ExtendsTables DEF Ended
<1>5. PhaseInv(t)'
  BY <1>2, <1>3 DEF ArtifactsInv, PhaseInv, At, Ended
<1>6. CourseInv(t)'
  <2> SUFFICES ASSUME req[t].job = "load"
               PROVE  CourseInv(t)'
    BY <1>2 DEF CourseInv
  <2>1. req[t].phase \in Running /\ req[t].phase # "commit"
    BY DEF Running
  <2>2. Current(t)' = Current(t) /\ tree' = tree
    BY <1>2 DEF Current, Extends
  <2>3. tree[Current(t)].schema \in Contents
    BY <2>1, CurrentIn, TreeFiles DEF ArtifactsInv, CourseInv, At
  <2>4. VisibleRow(t, tree[Current(t)].schema) => VisibleRow(t, tree[Current(t)].schema)'
    BY <2>2, <2>3 DEF Extends, VisibleRow
  <2>5. \A k \in req[t].selected \ req[t].left :
          releases'[k].by # Nobody /\ releases'[k].txn \in {Nobody, t}
    <3>1. req[t].selected \subseteq Contracts
      BY DEF ArtifactsInv, TypeOK, RequestRecords
    <3> QED BY <2>1, <3>1 DEF ArtifactsInv, CourseInv, Extends
  <2> QED BY <1>2, <1>3, <2>1, <2>2, <2>4, <2>5 DEF ArtifactsInv, CourseInv, At
<1>7. UploadInv(t)'
  <2>1. req[t].job = "upload" => \A c \in Contents : rows[c].id # t
    BY DEF ArtifactsInv, UploadInv
  <2> QED BY <1>2, <1>3, <2>1 DEF UploadInv, At, Ended
<1> QED BY <1>4, <1>5, <1>6, <1>7, ExtendsKeeps, Assemble DEF ArtifactsInv

\* A file is stored.
LEMMA VerifyStep ==
  ASSUME ArtifactsInv, NEW t \in Requests, req[t].phase \in Receiving,
         NEW outcome \in {"created", "reused"},
         VisibleRow(t, req[t].file), VerifyRow(t, req[t].file, outcome),
         req[t].job = "upload" /\ outcome = "created" => rows[req[t].file].id = t,
         req[t].job = "upload" /\ outcome = "reused" =>
           /\ rows[req[t].file].id # t
           /\ \A c \in Contents : rows[c].id # t
  PROVE  ArtifactsInv'
<1>1. /\ req[t].phase \in Running /\ req[t].file \in Contents
      /\ req[t].phase \notin Ended \cup {"check", "create", "commit"}
  BY DEF ArtifactsInv, PhaseInv, At, Receiving, Running, Ended
<1>2. CASE Fail(t)
  BY <1>1, <1>2, FailStep
<1>3. CASE Stored(t, outcome) /\ UNCHANGED <<backend, tree, store>>
  <2> DEFINE c == req[t].file
  <2>1. /\ req[t].job = "load" => req[t].left # {}
        /\ req[t].job \in {"load", "upload"}
    BY <1>1 DEF ArtifactsInv, CourseInv, At, TypeOK, RequestRecords, Jobs
  <2>2. TypeOK'
    BY <1>3, <2>1, StoredType DEF ArtifactsInv
  <2>3. /\ tree' = tree /\ objects' = objects /\ rows' = rows /\ releases' = releases
        /\ \A u \in Requests \ {t} : req'[u] = req[u]
    BY <1>3 DEF store, Stored, ArtifactsInv, TypeOK
  <2>4. Extends(t)
    BY <2>3 DEF Extends
  <2>5. CASE req[t].job = "upload"
    <3>1. req'[t] = [req[t] EXCEPT !.phase = outcome]
      BY <1>3, <2>5 DEF Stored, ArtifactsInv, TypeOK
    <3>2. /\ req'[t].phase = outcome /\ req'[t].file = c /\ req'[t].job = "upload"
      BY <2>5, <3>1 DEF ArtifactsInv, TypeOK, RequestRecords
    <3>3. rows[c].txn = Nobody
      BY <1>1, <2>5, ArtifactsAssumption DEF ArtifactsInv, OwnerInv, VisibleRow
    <3>4. OwnerInv' /\ ReleaseInv'
      BY <1>1, <2>4, <2>5, <3>2, ExtendsTables DEF Ended
    <3>5. PhaseInv(t)' /\ CourseInv(t)'
      BY <1>1, <3>2 DEF PhaseInv, CourseInv, At
    <3>6. UploadInv(t)'
      BY <2>3, <2>5, <3>2, <3>3 DEF UploadInv, At, VisibleRow
    <3>7. ObjectInv'
      BY <2>3, <3>2, ObjectsKeep
    <3> QED BY <2>2, <2>4, <3>4, <3>5, <3>6, <3>7, ExtendsKeeps, Assemble
  <2>6. CASE req[t].job = "load"
    <3>1. Current(t) \in Contracts
      BY <2>1, <2>6, CurrentIn DEF ArtifactsInv
    <3>2. /\ req'[t].job = "load" /\ req'[t].left = req[t].left
          /\ req'[t].selected = req[t].selected
          /\ req[t].part = "schema" =>
               /\ req'[t].phase = "receive" /\ req'[t].part = "definitions"
               /\ req'[t].file = tree[Current(t)].definitions
          /\ req[t].part = "definitions" =>
               req'[t].phase = "check" /\ req'[t].part = "definitions" /\ req'[t].file = c
      <4>1. req[t].part = "schema" => req'[t] =
              [req[t] EXCEPT !.phase = "receive", !.part = "definitions",
                             !.file = tree[Current(t)].definitions]
        BY <1>3, <2>6 DEF Stored, ArtifactsInv, TypeOK
      <4>2. req[t].part = "definitions" => req'[t] = [req[t] EXCEPT !.phase = "check"]
        BY <1>3, <2>6 DEF Stored, ArtifactsInv, TypeOK
      <4>3. req[t] \in RequestRecords
        BY DEF ArtifactsInv, TypeOK
      <4> QED BY <2>6, <4>1, <4>2, <4>3 DEF RequestRecords
    <3>3. req[t].part \in {"schema", "definitions"}
      BY DEF ArtifactsInv, TypeOK, RequestRecords
    <3>4. Current(t)' = Current(t)
      BY <3>2 DEF Current
    <3>5. /\ req'[t].phase \in {"receive", "check"} /\ req'[t].phase \in Running
          /\ req'[t].phase \notin Ended
      BY <3>2, <3>3 DEF Running, Ended
    <3>6. OwnerInv' /\ ReleaseInv'
      BY <1>1, <2>4, <3>2, <3>5, ExtendsTables DEF Ended
    <3>7. PhaseInv(t)'
      BY <1>1, <3>1, <3>2, <3>3, <3>5, TreeFiles DEF ArtifactsInv, PhaseInv, At
    <3>8. CourseInv(t)'
      BY <1>1, <2>3, <2>6, <3>2, <3>3, <3>4, <3>5
      DEF ArtifactsInv, CourseInv, At, VisibleRow
    <3>9. UploadInv(t)'
      BY <3>2, <3>5 DEF UploadInv, At
    <3>10. ObjectInv'
      BY <2>3, <3>5, ObjectsKeep
    <3> QED BY <2>2, <2>4, <3>6, <3>7, <3>8, <3>9, <3>10, ExtendsKeeps, Assemble
  <2> QED BY <2>1, <2>5, <2>6
<1> QED BY <1>2, <1>3 DEF VerifyRow

-----------------------------------------------------------------------------
(* One lemma for each action of a request.                                 *)

LEMMA BeginUploadStep ==
  ASSUME ArtifactsInv, NEW t \in Requests, NEW c \in Contents, BeginUpload(t, c)
  PROVE  ArtifactsInv'
<1> DEFINE X == [req[t] EXCEPT !.phase = "receive", !.file = c, !.backend = backend]
<1>1. X \in RequestRecords /\ req' = [req EXCEPT ![t] = X]
  <2>1. "receive" \in Phases /\ backend \in Backends /\ req[t] \in RequestRecords
    BY DEF ArtifactsInv, TypeOK, Phases, Running
  <2>2. X \in RequestRecords
    BY <2>1 DEF RequestRecords
  <2> QED BY <2>2 DEF BeginUpload, ArtifactsInv, TypeOK
<1>2. /\ req' \in [Requests -> RequestRecords] /\ req'[t] = X
      /\ \A u \in Requests \ {t} : req'[u] = req[u]
  <2> HIDE DEF X
  <2> QED BY <1>1, SetRequest DEF ArtifactsInv
<1>3. /\ req'[t].phase = "receive" /\ req'[t].file = c /\ req'[t].job = req[t].job
      /\ req[t].phase = "idle" /\ req[t].job = "upload"
  BY <1>2 DEF ArtifactsInv, TypeOK, RequestRecords, PhaseInv, At, BeginUpload
<1>4. /\ tree' = tree /\ objects' = objects /\ rows' = rows /\ releases' = releases
      /\ backend' = backend /\ temps' = temps
  BY DEF BeginUpload, store
<1>5. TypeOK'
  BY <1>2, <1>3, <1>4 DEF ArtifactsInv, TypeOK, Receiving
<1>6. Extends(t)
  BY <1>2, <1>4 DEF Extends
<1>7. OwnerInv' /\ ReleaseInv'
  BY <1>3, <1>6, ExtendsTables
<1>8. PhaseInv(t)' /\ CourseInv(t)' /\ UploadInv(t)'
  BY <1>3, <1>4 DEF ArtifactsInv, PhaseInv, CourseInv, UploadInv, At
<1>9. ObjectInv'
  BY <1>2, <1>3, <1>4, ObjectsKeep
<1> QED BY <1>5, <1>6, <1>7, <1>8, <1>9, ExtendsKeeps, Assemble

LEMMA BeginLoadStep ==
  ASSUME ArtifactsInv, NEW t \in Requests, NEW selected \in SUBSET Contracts,
         NEW url \in BaseUrls, BeginLoad(t, selected, url)
  PROVE  ArtifactsInv'
<1> DEFINE c == tree[First(selected)].schema
           X == [req[t] EXCEPT !.job = "load", !.phase = "receive", !.file = c,
                               !.selected = selected, !.left = selected, !.url = url,
                               !.backend = backend]
<1>1. c \in Contents
  <2>1. First(selected) \in Contracts
    BY FirstIn, ArtifactsAssumption DEF BeginLoad
  <2> QED BY <2>1, TreeFiles DEF ArtifactsInv
<1>2. X \in RequestRecords /\ req' = [req EXCEPT ![t] = X]
  <2>1. /\ "receive" \in Phases /\ backend \in Backends /\ req[t] \in RequestRecords
        /\ "load" \in Jobs
    BY DEF ArtifactsInv, TypeOK, Phases, Running, Jobs
  <2>2. X \in RequestRecords
    <3> HIDE DEF c
    <3> QED BY <1>1, <2>1 DEF RequestRecords
  <2> QED BY <2>2 DEF BeginLoad, ArtifactsInv, TypeOK
<1>3. /\ req' \in [Requests -> RequestRecords] /\ req'[t] = X
      /\ \A u \in Requests \ {t} : req'[u] = req[u]
  <2> HIDE DEF X
  <2> QED BY <1>2, SetRequest DEF ArtifactsInv
<1>4. /\ req'[t].phase = "receive" /\ req'[t].file = c /\ req'[t].job = "load"
      /\ req'[t].selected = selected /\ req'[t].left = selected
      /\ req'[t].part = "schema"
      /\ req[t].phase = "idle" /\ req[t].job = "upload"
  <2>1. req[t] \in RequestRecords
    BY DEF ArtifactsInv, TypeOK
  <2> HIDE DEF c
  <2> QED BY <1>3, <2>1 DEF RequestRecords, ArtifactsInv, PhaseInv, At, BeginLoad
<1>5. /\ tree' = tree /\ objects' = objects /\ rows' = rows /\ releases' = releases
      /\ backend' = backend /\ temps' = temps
  BY DEF BeginLoad, store
<1>6. TypeOK'
  BY <1>3, <1>4, <1>5 DEF ArtifactsInv, TypeOK, Receiving
<1>7. Extends(t)
  BY <1>3, <1>5 DEF Extends
<1>8. OwnerInv' /\ ReleaseInv'
  BY <1>4, <1>7, ExtendsTables
<1>9. PhaseInv(t)' /\ UploadInv(t)'
  BY <1>1, <1>4 DEF PhaseInv, UploadInv, At
<1>10. CourseInv(t)'
  BY <1>4, <1>5 DEF CourseInv, At, Current, BeginLoad
<1>11. ObjectInv'
  BY <1>3, <1>4, <1>5, ObjectsKeep
<1> QED BY <1>6, <1>7, <1>8, <1>9, <1>10, <1>11, ExtendsKeeps, Assemble

LEMMA ReceiveStep ==
  ASSUME ArtifactsInv, NEW t \in Requests, Receive(t)
  PROVE  ArtifactsInv'
<1>1. req[t].phase = "receive" /\ req[t].phase \in Running
  BY DEF Receive, At, Running
<1>2. CASE Fail(t)
  BY <1>1, <1>2, FailStep
<1>3. CASE Goto(t, "lookup") /\ temps' = temps \cup {t} /\ UNCHANGED <<backend, tree, store>>
  <2>1. "lookup" \in Receiving /\ "lookup" \in Phases
    BY DEF Receiving, Phases, Running
  <2>2. /\ tree' = tree /\ objects' = objects /\ rows' = rows /\ releases' = releases
        /\ \A u \in Requests \ {t} : req'[u] = req[u]
        /\ req'[t].phase = "lookup"
    <3>1. /\ \A u \in Requests \ {t} : req'[u] = req[u]
          /\ req'[t] = [req[t] EXCEPT !.phase = "lookup"]
      BY <1>3, <2>1, GotoType DEF ArtifactsInv
    <3> QED BY <1>3, <3>1 DEF store, ArtifactsInv, TypeOK, RequestRecords
  <2>3. TypeOK'
    BY <1>3, <2>1, <2>2, OnwardType DEF ArtifactsInv, TypeOK
  <2>4. Extends(t)
    BY <2>2 DEF Extends
  <2>5. ObjectInv'
    BY <2>2, ObjectsKeep
  <2> QED BY <1>1, <1>3, <2>1, <2>2, <2>3, <2>4, <2>5, OnwardStep
<1> QED BY <1>2, <1>3 DEF Receive

(* A step that only moves on.                                              *)
LEMMA MoveStep ==
  ASSUME ArtifactsInv, NEW t \in Requests, req[t].phase \in {"lookup", "persist"},
         NEW phase \in {"persist", "put", "insert"}, Goto(t, phase),
         UNCHANGED <<backend, tree, store, temps>>,
         phase = "put" => req[t].backend = "r2",
         phase = "insert" => objects[req[t].backend][req[t].file] # "missing"
  PROVE  ArtifactsInv'
<1>1. phase \in Receiving /\ phase \in Phases
  BY DEF Receiving, Phases, Running
<1>2. /\ tree' = tree /\ objects' = objects /\ rows' = rows /\ releases' = releases
      /\ backend' = backend /\ temps' = temps
  BY DEF store
<1>3. /\ \A u \in Requests \ {t} : req'[u] = req[u]
      /\ req'[t] = [req[t] EXCEPT !.phase = phase]
  BY <1>1, GotoType DEF ArtifactsInv
<1>4. req'[t].phase = phase /\ req'[t].file = req[t].file /\ req'[t].backend = req[t].backend
  BY <1>3 DEF ArtifactsInv, TypeOK, RequestRecords
<1>5. TypeOK'
  BY <1>1, <1>2, OnwardType DEF ArtifactsInv, TypeOK
<1>6. Extends(t)
  BY <1>2, <1>3 DEF Extends
<1>7. ObjectInv'
  BY <1>2, <1>3, <1>4, ObjectsKeep
<1> QED BY <1>1, <1>2, <1>5, <1>6, <1>7, OnwardStep

LEMMA LookupStep ==
  ASSUME ArtifactsInv, NEW t \in Requests, Lookup(t)
  PROVE  ArtifactsInv'
<1>1. req[t].phase = "lookup" /\ req[t].phase \in Receiving
  BY DEF Lookup, At, Receiving
<1>2. CASE VisibleRow(t, req[t].file)
  <2>1. req[t].job = "upload" =>
          rows[req[t].file].id # t /\ \A c \in Contents : rows[c].id # t
    BY <1>1 DEF ArtifactsInv, UploadInv, PhaseInv, At
  <2> QED BY <1>1, <1>2, <2>1, VerifyStep DEF Lookup
<1>3. CASE ~VisibleRow(t, req[t].file)
  BY <1>1, <1>3, MoveStep DEF Lookup
<1> QED BY <1>2, <1>3

LEMMA WriteStep ==
  ASSUME ArtifactsInv, NEW t \in Requests, req[t].phase \in {"persist", "put"},
         WriteObject(t, req[t].backend)
  PROVE  ArtifactsInv'
<1> DEFINE b == req[t].backend
           c == req[t].file
<1>1. b \in Backends /\ c \in Contents
  BY DEF ArtifactsInv, TypeOK, RequestRecords, PhaseInv, At
<1>2. "insert" \in Receiving /\ "insert" \in Phases
  BY DEF Receiving, Phases, Running
<1>3. /\ objects' = [objects EXCEPT ![b][c] = "intact"]
      /\ tree' = tree /\ rows' = rows /\ releases' = releases
  BY DEF WriteObject
<1>4. /\ \A u \in Requests \ {t} : req'[u] = req[u]
      /\ req'[t] = [req[t] EXCEPT !.phase = "insert"]
  BY <1>2, GotoType DEF ArtifactsInv, WriteObject
<1>5. req'[t].phase = "insert" /\ req'[t].file = c /\ req'[t].backend = b
  BY <1>4 DEF ArtifactsInv, TypeOK, RequestRecords
<1>6. /\ objects'[b][c] = "intact"
      /\ \A d \in Backends, e \in Contents : objects'[d][e] \in {objects[d][e], "intact"}
  BY <1>1, <1>3 DEF ArtifactsInv, TypeOK
<1>7. TypeOK'
  BY <1>1, WriteType DEF ArtifactsInv
<1>8. Extends(t)
  BY <1>3, <1>4 DEF Extends
<1>9. ObjectInv'
  BY <1>3, <1>4, <1>5, <1>6, ObjectsKeep
<1> QED BY <1>2, <1>3, <1>7, <1>8, <1>9, OnwardStep DEF WriteObject

LEMMA PersistStep ==
  ASSUME ArtifactsInv, NEW t \in Requests, Link(t) \/ Probe(t) \/ Put(t)
  PROVE  ArtifactsInv'
<1>1. /\ req[t].phase \in {"persist", "put"} /\ req[t].phase \in Running
      /\ req[t].file \in Contents
  BY DEF Link, Probe, Put, At, Running, ArtifactsInv, PhaseInv
<1>2. CASE Fail(t)
  BY <1>1, <1>2, FailStep
<1>3. CASE Link(t)
  <2>1. req[t].phase = "persist" /\ req[t].backend = "local"
    BY <1>3 DEF Link, At
  <2>2. objects["local"][req[t].file] \in {"missing", "intact", "damaged"}
    BY <1>1 DEF ArtifactsInv, TypeOK, Backends
  <2> QED BY <1>2, <1>3, <2>1, <2>2, WriteStep, MoveStep DEF Link
<1>4. CASE Probe(t)
  BY <1>2, <1>4, MoveStep DEF Probe, At
<1>5. CASE Put(t)
  <2>1. req[t].backend = "r2"
    BY <1>5 DEF ArtifactsInv, PhaseInv, Put
  <2> QED BY <1>1, <1>2, <1>5, <2>1, WriteStep DEF Put
<1> QED BY <1>3, <1>4, <1>5

LEMMA InsertStep ==
  ASSUME ArtifactsInv, NEW t \in Requests, Insert(t)
  PROVE  ArtifactsInv'
<1> DEFINE c == req[t].file
<1>1. /\ req[t].phase = "insert" /\ req[t].phase \in Running /\ req[t].phase \in Receiving
      /\ c \in Contents
  BY DEF Insert, At, Running, Receiving, ArtifactsInv, PhaseInv
<1>2. req[t].job = "upload" => \A d \in Contents : rows[d].id # t
  BY <1>1 DEF ArtifactsInv, UploadInv
<1>3. CASE rows[c].id = Nobody
  <2> DEFINE row == [id |-> t, backend |-> req[t].backend,
                     txn |-> IF req[t].job = "load" THEN t ELSE Nobody]
  <2>1. /\ rows' = [rows EXCEPT ![c] = row] /\ Goto(t, "readback")
        /\ tree' = tree /\ objects' = objects /\ releases' = releases
    BY <1>3 DEF Insert
  <2>2. /\ row.id = t /\ row.backend = req[t].backend
        /\ row.txn = IF req[t].job = "load" THEN t ELSE Nobody
    OBVIOUS
  <2>3. rows'[c] = row /\ \A d \in Contents \ {c} : rows'[d] = rows[d]
    <3> HIDE DEF row
    <3> QED BY <1>1, <2>1 DEF ArtifactsInv, TypeOK
  <2>4. "readback" \in Receiving /\ "readback" \in Phases
    BY DEF Receiving, Phases, Running
  <2>5. /\ \A u \in Requests \ {t} : req'[u] = req[u]
        /\ req'[t] = [req[t] EXCEPT !.phase = "readback"]
    BY <2>1, <2>4, GotoType DEF ArtifactsInv
  <2>6. req'[t].phase = "readback"
    BY <2>5 DEF ArtifactsInv, TypeOK, RequestRecords
  <2>7. TypeOK'
    BY <1>1, InsertType DEF ArtifactsInv, CourseInv, Insert, At
  <2> HIDE DEF row
  <2>8. Extends(t)
    BY <1>3, <2>1, <2>2, <2>3, <2>5 DEF Extends
  <2>9. ObjectInv'
    <3>1. \A d \in Contents : rows'[d].id # Nobody =>
            \/ rows[d].id # Nobody /\ rows'[d].backend = rows[d].backend
            \/ At(t, "insert") /\ d = c /\ rows'[d].backend = req[t].backend
      BY <1>1, <2>2, <2>3 DEF At
    <3> QED BY <2>1, <2>5, <2>6, <3>1, ObjectsKeep
  <2> QED BY <1>1, <2>1, <2>2, <2>3, <2>4, <2>7, <2>8, <2>9, OnwardStep
<1>4. CASE rows[c].id # Nobody
  BY <1>1, <1>2, <1>4, VerifyStep DEF Insert, VisibleRow
<1> QED BY <1>3, <1>4

LEMMA ReadBackStep ==
  ASSUME ArtifactsInv, NEW t \in Requests, ReadBack(t)
  PROVE  ArtifactsInv'
<1>1. req[t].phase \in Receiving
  BY DEF ReadBack, At, Receiving
<1>2. rows[req[t].file].id = t /\ VisibleRow(t, req[t].file)
  BY ArtifactsAssumption DEF ReadBack, ArtifactsInv, UploadInv, VisibleRow
<1> QED BY <1>1, <1>2, VerifyStep DEF ReadBack

LEMMA NextContractStep ==
  ASSUME ArtifactsInv, NEW t \in Requests, req[t].phase \in {"check", "create"},
         NextContract(t), Extends(t), TypeOK', rows' = rows, objects' = objects,
         releases'[Current(t)].by # Nobody, releases'[Current(t)].txn \in {Nobody, t}
  PROVE  ArtifactsInv'
<1> DEFINE k == Current(t)
           left == req[t].left \ {k}
<1>1. /\ req[t].job = "load" /\ req[t].phase \in Running /\ req[t].phase # "commit"
      /\ req[t].phase # "loaded" /\ req[t].file \in Contents
  BY DEF ArtifactsInv, PhaseInv, At, Running
<1>2. req[t] \in RequestRecords /\ left \subseteq Contracts
  BY DEF ArtifactsInv, TypeOK, RequestRecords
<1>3. /\ req'[t].job = "load" /\ req'[t].selected = req[t].selected /\ req'[t].left = left
      /\ left = {} => req'[t].phase = "commit" /\ req'[t].file = req[t].file
      /\ left # {} => /\ req'[t].phase = "receive" /\ req'[t].part = "schema"
                      /\ req'[t].file = tree[First(left)].schema
  <2>1. left = {} => req'[t] = [req[t] EXCEPT !.left = {}, !.phase = "commit"]
    BY DEF NextContract, ArtifactsInv, TypeOK
  <2>2. left # {} => req'[t] = [req[t] EXCEPT !.left = left, !.part = "schema",
                                  !.phase = "receive", !.file = tree[First(left)].schema]
    BY DEF NextContract, ArtifactsInv, TypeOK
  <2> HIDE DEF left
  <2> QED BY <1>1, <1>2, <2>1, <2>2 DEF RequestRecords
<1>4. req'[t].phase \in {"receive", "commit"} /\ req'[t].phase \in Running
  BY <1>3 DEF Running
<1>5. OwnerInv' /\ ReleaseInv'
  BY <1>1, <1>3, <1>4, ExtendsTables
<1>6. PhaseInv(t)'
  <2>1. left # {} => tree[First(left)].schema \in Contents
    <3>1. left # {} => First(left) \in Contracts
      BY <1>2, FirstIn, ArtifactsAssumption
    <3> QED BY <3>1, TreeFiles DEF ArtifactsInv
  <2> HIDE DEF left
  <2> QED BY <1>1, <1>3, <1>4, <2>1 DEF PhaseInv, At
<1>7. CourseInv(t)'
  <2>1. \A l \in req[t].selected \ left :
          releases'[l].by # Nobody /\ releases'[l].txn \in {Nobody, t}
    <3>1. \A l \in req[t].selected \ req[t].left :
            /\ l \in Contracts
            /\ releases[l].by # Nobody /\ releases[l].txn \in {Nobody, t}
      BY <1>1, <1>2 DEF ArtifactsInv, CourseInv, RequestRecords
    <3>2. \A l \in req[t].selected \ req[t].left : releases'[l] = releases[l]
      BY <3>1 DEF Extends
    <3> QED BY <3>1, <3>2
  <2>2. Current(t)' = First(left) /\ tree' = tree
    BY <1>3 DEF Current, Extends
  <2> HIDE DEF left
  <2> QED BY <1>3, <1>4, <2>1, <2>2 DEF CourseInv, At
<1>8. UploadInv(t)'
  BY <1>3, <1>4 DEF UploadInv, At
<1>9. ObjectInv'
  BY <1>4, ObjectsKeep DEF Extends
<1> QED BY <1>5, <1>6, <1>7, <1>8, <1>9, ExtendsKeeps, Assemble

LEMMA ReleaseFiles ==
  ASSUME ArtifactsInv, NEW t \in Requests, req[t].phase \in {"check", "create"}
  PROVE  /\ req[t].job = "load" /\ req[t].phase \in Running /\ req[t].left # {}
         /\ Current(t) \in Contracts
         /\ \A c \in {tree[Current(t)].schema, tree[Current(t)].definitions} :
              c \in Contents /\ VisibleRow(t, c)
<1>1. req[t].job = "load" /\ req[t].phase \in Running /\ ~At(t, "commit")
  BY DEF ArtifactsInv, PhaseInv, At, Running
<1>2. req[t].left # {}
  BY <1>1 DEF ArtifactsInv, CourseInv
<1>3. Current(t) \in Contracts
  BY <1>2, CurrentIn DEF ArtifactsInv
<1> QED BY <1>1, <1>2, <1>3, TreeFiles DEF ArtifactsInv, CourseInv

LEMMA CheckStep ==
  ASSUME ArtifactsInv, NEW t \in Requests, CheckRelease(t)
  PROVE  ArtifactsInv'
<1> DEFINE k == Current(t)
<1>1. /\ req[t].phase = "check" /\ req[t].job = "load" /\ req[t].phase \in Running
      /\ req[t].left # {} /\ k \in Contracts
      /\ \A c \in {tree[k].schema, tree[k].definitions} : c \in Contents /\ VisibleRow(t, c)
  BY ReleaseFiles DEF CheckRelease, At
<1>2. CASE Fail(t)
  BY <1>1, <1>2, FailStep
<1>3. CASE /\ NextContract(t) /\ UNCHANGED <<backend, tree, store, temps>>
           /\ releases[k].by # Nobody /\ releases[k].txn = Nobody
  <2>1. /\ tree' = tree /\ objects' = objects /\ rows' = rows /\ releases' = releases
        /\ backend' = backend /\ temps' = temps
    BY <1>3 DEF store
  <2>2. Extends(t)
    BY <1>3, <2>1 DEF Extends, NextContract, ArtifactsInv, TypeOK
  <2>3. TypeOK'
    BY <1>1, <1>3, <2>1, NextContractType DEF ArtifactsInv, TypeOK, Receiving
  <2> QED BY <1>1, <1>3, <2>1, <2>2, <2>3, NextContractStep
<1>4. CASE Goto(t, "create") /\ UNCHANGED <<backend, tree, store, temps>>
  <2>1. /\ tree' = tree /\ objects' = objects /\ rows' = rows /\ releases' = releases
        /\ backend' = backend /\ temps' = temps
    BY <1>4 DEF store
  <2>2. /\ \A u \in Requests \ {t} : req'[u] = req[u]
        /\ req'[t] = [req[t] EXCEPT !.phase = "create"]
    BY <1>4, GotoType DEF ArtifactsInv, Phases, Running
  <2>3. /\ req'[t].phase = "create" /\ req'[t].file = req[t].file /\ req'[t].job = "load"
        /\ req'[t].left = req[t].left /\ req'[t].selected = req[t].selected
        /\ req'[t].part = req[t].part
    BY <1>1, <2>2 DEF ArtifactsInv, TypeOK, RequestRecords
  <2>4. TypeOK'
    <3>1. "create" \in Phases /\ t \notin temps
      BY <1>1 DEF Phases, Running, Receiving, ArtifactsInv, TypeOK
    <3> QED BY <1>4, <2>1, <3>1, OnwardType DEF ArtifactsInv, TypeOK
  <2>5. Extends(t)
    BY <2>1, <2>2 DEF Extends
  <2>6. OwnerInv' /\ ReleaseInv'
    BY <1>1, <2>3, <2>5, ExtendsTables DEF Running
  <2>7. PhaseInv(t)' /\ UploadInv(t)'
    BY <1>1, <2>3 DEF ArtifactsInv, PhaseInv, UploadInv, At
  <2>8. CourseInv(t)'
    <3>1. Current(t)' = k
      BY <2>3 DEF Current
    <3> QED BY <1>1, <2>1, <2>3, <3>1 DEF ArtifactsInv, CourseInv, VisibleRow, At
  <2>9. ObjectInv'
    BY <2>1, <2>2, <2>3, ObjectsKeep
  <2> QED BY <2>4, <2>5, <2>6, <2>7, <2>8, <2>9, ExtendsKeeps, Assemble
<1> QED BY <1>2, <1>3, <1>4 DEF CheckRelease

LEMMA CreateStep ==
  ASSUME ArtifactsInv, NEW t \in Requests, CreateRelease(t)
  PROVE  ArtifactsInv'
<1> DEFINE k == Current(t)
           release == [schema |-> tree[k].schema, definitions |-> tree[k].definitions,
                       url |-> req[t].url, by |-> t, txn |-> t]
<1>1. /\ req[t].phase = "create" /\ req[t].job = "load" /\ req[t].phase \in Running
      /\ req[t].left # {} /\ k \in Contracts
      /\ \A c \in {tree[k].schema, tree[k].definitions} : c \in Contents /\ VisibleRow(t, c)
  BY ReleaseFiles DEF CreateRelease, At
<1>2. CASE releases[k].by = Nobody
  <2>1. /\ releases' = [releases EXCEPT ![k] = release] /\ NextContract(t)
        /\ tree' = tree /\ objects' = objects /\ rows' = rows
    BY <1>2 DEF CreateRelease
  <2>2. /\ release.by = t /\ release.txn = t
        /\ release.schema = tree[k].schema /\ release.definitions = tree[k].definitions
    OBVIOUS
  <2>3. TypeOK'
    BY <1>1, CreateType DEF ArtifactsInv, At
  <2> HIDE DEF release
  <2>4. releases'[k] = release /\ \A l \in Contracts \ {k} : releases'[l] = releases[l]
    BY <1>1, <2>1 DEF ArtifactsInv, TypeOK
  <2>5. Extends(t)
    <3>1. \A u \in Requests \ {t} : req'[u] = req[u]
      BY <2>1 DEF NextContract, ArtifactsInv, TypeOK
    <3> QED BY <1>1, <1>2, <2>1, <2>2, <2>4, <3>1 DEF Extends
  <2> QED BY <1>1, <2>1, <2>2, <2>3, <2>4, <2>5, NextContractStep, ArtifactsAssumption
<1>3. CASE releases[k].by # Nobody
  BY <1>1, <1>3, FailStep DEF CreateRelease
<1> QED BY <1>2, <1>3

LEMMA CommitStep ==
  ASSUME ArtifactsInv, NEW t \in Requests, CommitLoad(t)
  PROVE  ArtifactsInv'
<1>1. /\ req[t].phase = "commit" /\ req[t].phase \in Running /\ req[t].job = "load"
      /\ req[t].left = {} /\ req[t].file \in Contents /\ t # Nobody
  BY ArtifactsAssumption DEF CommitLoad, At, Running, ArtifactsInv, PhaseInv, CourseInv
<1>2. /\ \A u \in Requests \ {t} : req'[u] = req[u]
      /\ req'[t] = [req[t] EXCEPT !.phase = "loaded"]
      /\ tree' = tree /\ objects' = objects
  BY GotoType DEF CommitLoad, ArtifactsInv, Phases, Ended
<1>3. /\ req'[t].phase = "loaded" /\ req'[t].job = "load" /\ req'[t].file = req[t].file
      /\ req'[t].selected = req[t].selected
  BY <1>1, <1>2 DEF ArtifactsInv, TypeOK, RequestRecords
<1>4. \A c \in Contents :
        /\ rows'[c].id = rows[c].id /\ rows'[c].backend = rows[c].backend
        /\ rows[c].txn = t => rows'[c].txn = Nobody
        /\ rows[c].txn # t => rows'[c] = rows[c]
  <2>1. \A row \in RowRecords :
          LET committed == [row EXCEPT !.txn = Nobody] IN
          /\ committed.id = row.id /\ committed.backend = row.backend
          /\ committed.txn = Nobody
    BY DEF RowRecords
  <2> QED BY <2>1 DEF CommitLoad, ArtifactsInv, TypeOK
<1>5. \A k \in Contracts :
        /\ releases'[k].by = releases[k].by
        /\ releases'[k].schema = releases[k].schema
        /\ releases'[k].definitions = releases[k].definitions
        /\ releases[k].txn = t => releases'[k].txn = Nobody
        /\ releases[k].txn # t => releases'[k] = releases[k]
  <2>1. \A r \in ReleaseRecords :
          LET committed == [r EXCEPT !.txn = Nobody] IN
          /\ committed.by = r.by /\ committed.schema = r.schema
          /\ committed.definitions = r.definitions /\ committed.txn = Nobody
    BY DEF ReleaseRecords
  <2> QED BY <2>1 DEF CommitLoad, ArtifactsInv, TypeOK
<1>6. Keeps(t)
  BY <1>1, <1>2, <1>4, <1>5 DEF Keeps, ArtifactsInv, OwnerInv
<1>7. OwnerInv'
  <2>1. \A c \in Contents : rows'[c].txn # Nobody =>
          rows'[c] = rows[c] /\ rows[c].txn \in Requests \ {t}
    BY <1>4 DEF ArtifactsInv, TypeOK, RowRecords
  <2>2. \A k \in Contracts : releases'[k].txn # Nobody =>
          releases'[k] = releases[k] /\ releases[k].txn \in Requests \ {t}
    BY <1>5 DEF ArtifactsInv, TypeOK, ReleaseRecords
  <2> QED BY <1>2, <2>1, <2>2 DEF ArtifactsInv, OwnerInv
<1>8. ReleaseInv'
  <2>1. ASSUME NEW k \in Contracts, releases'[k].by # Nobody,
               NEW c \in {releases'[k].schema, releases'[k].definitions}
        PROVE  c \in Contents /\ rows'[c].id # Nobody
               /\ rows'[c].txn \in {Nobody, releases'[k].txn}
    <3>1. /\ c \in Contents /\ rows[c].id # Nobody
          /\ rows[c].txn \in {Nobody, releases[k].txn}
      BY <1>5, <2>1 DEF ArtifactsInv, ReleaseInv
    <3> QED BY <1>1, <1>4, <1>5, <3>1
  <2>2. ASSUME NEW k \in Contracts, releases'[k].by # Nobody, releases'[k].txn = Nobody
        PROVE  req'[releases'[k].by].phase = "loaded"
    <3>1. CASE releases[k].txn = t
      BY <1>1, <1>3, <1>5, <3>1 DEF ArtifactsInv, OwnerInv
    <3>2. CASE releases[k].txn # t
      <4>1. req[releases[k].by].phase = "loaded" /\ releases[k].by \in Requests
        BY <1>5, <2>2, <3>2 DEF ArtifactsInv, ReleaseInv, At, TypeOK, ReleaseRecords
      <4> QED BY <1>1, <1>2, <1>5, <4>1
    <3> QED BY <3>1, <3>2
  <2>3. ASSUME NEW u \in Requests, req'[u].phase = "loaded", NEW k \in req'[u].selected
        PROVE  releases'[k].by # Nobody /\ releases'[k].txn = Nobody
    <3>1. k \in Contracts
      BY <1>2, <1>3, <2>3 DEF ArtifactsInv, TypeOK, RequestRecords
    <3>2. releases[k].by # Nobody /\ releases[k].txn \in {Nobody, t}
      <4>1. CASE u = t
        <5>1. k \in req[t].selected \ req[t].left
          BY <1>1, <1>3, <2>3, <4>1
        <5> QED BY <1>1, <5>1 DEF ArtifactsInv, CourseInv
      <4>2. CASE u # t
        BY <1>2, <2>3, <4>2 DEF ArtifactsInv, ReleaseInv, At
      <4> QED BY <4>1, <4>2
    <3> QED BY <1>5, <3>1, <3>2
  <2> QED BY <2>1, <2>2, <2>3 DEF ReleaseInv, At
<1>9. PhaseInv(t)' /\ CourseInv(t)' /\ UploadInv(t)'
  BY <1>1, <1>3 DEF PhaseInv, CourseInv, UploadInv, At, Running
<1>10. ObjectInv'
  BY <1>2, <1>3, <1>4, ObjectsKeep
<1> QED BY <1>6, <1>7, <1>8, <1>9, <1>10, CommitType, Assemble DEF ArtifactsInv

LEMMA RequestStep ==
  ASSUME ArtifactsInv, NEW t \in Requests, Step(t)
  PROVE  ArtifactsInv'
BY ReceiveStep, LookupStep, PersistStep, InsertStep, ReadBackStep, CheckStep, CreateStep,
   CommitStep
DEF Step

LEMMA CrashStep ==
  ASSUME ArtifactsInv, NEW t \in Requests, Crash(t)
  PROVE  ArtifactsInv'
<1>1. "crashed" \in Phases
  BY DEF Phases, Ended
<1>2. TypeOK'
  BY <1>1, OnwardType, RollBackType DEF Crash, ArtifactsInv, TypeOK
<1> QED BY <1>2, AbortStep DEF Crash

(* Steps of the surroundings.                                              *)

LEMMA DamageStep ==
  ASSUME ArtifactsInv, NEW b \in Backends, NEW c \in Contents, Damage(b, c)
  PROVE  ArtifactsInv'
<1>1. /\ objects' = [objects EXCEPT ![b][c] = "damaged"] /\ c \in Fragile
      /\ backend' = backend /\ tree' = tree /\ rows' = rows /\ releases' = releases
      /\ req' = req /\ temps' = temps
  BY DEF Damage
<1>2. /\ objects'[b][c] = "damaged"
      /\ \A d \in Backends, e \in Contents :
           d # b \/ e # c => objects'[d][e] = objects[d][e]
  BY <1>1 DEF ArtifactsInv, TypeOK
<1>3. TypeOK'
  BY <1>1 DEF ArtifactsInv, TypeOK
<1>4. \A t \in Requests : PhaseInv(t)' /\ CourseInv(t)' /\ UploadInv(t)'
  BY <1>1 DEF ArtifactsInv, PhaseInv, CourseInv, UploadInv, At, Current, VisibleRow
<1>5. OwnerInv' /\ ReleaseInv'
  BY <1>1 DEF ArtifactsInv, OwnerInv, ReleaseInv, At
<1>6. ObjectInv'
  <2>1. \A t \in Requests : req[t].backend \in Backends
    BY DEF ArtifactsInv, TypeOK, RequestRecords
  <2>2. \A e \in Contents : rows[e].backend \in Backends
    BY DEF ArtifactsInv, TypeOK, RowRecords
  <2>3. \A t \in Requests : At(t, "insert") => req[t].file \in Contents
    BY DEF ArtifactsInv, PhaseInv, At
  <2> QED BY <1>1, <1>2, <2>1, <2>2, <2>3 DEF ArtifactsInv, ObjectInv, At
<1> QED BY <1>3, <1>4, <1>5, <1>6 DEF ArtifactsInv

LEMMA DeployStep ==
  ASSUME ArtifactsInv, NEW b \in Backends, NEW files \in Trees, Deploy(b, files)
  PROVE  ArtifactsInv'
<1>1. /\ \A t \in Requests : req[t].phase \notin Running
      /\ backend' = b /\ tree' = files /\ objects' = objects /\ rows' = rows
      /\ releases' = releases /\ req' = req /\ temps' = temps
  BY DEF Deploy, store
<1>2. TypeOK'
  BY <1>1 DEF ArtifactsInv, TypeOK
<1>3. \A t \in Requests : PhaseInv(t)' /\ CourseInv(t)' /\ UploadInv(t)'
  BY <1>1 DEF ArtifactsInv, PhaseInv, CourseInv, UploadInv, At
<1>4. OwnerInv' /\ ReleaseInv' /\ ObjectInv'
  BY <1>1 DEF ArtifactsInv, OwnerInv, ReleaseInv, ObjectInv, At
<1> QED BY <1>2, <1>3, <1>4 DEF ArtifactsInv

-----------------------------------------------------------------------------
(* The theorems.                                                           *)

LEMMA InitInv ==
  ASSUME Init
  PROVE  ArtifactsInv
<1>1. TypeOK
  BY InitTypeOK
<1>2. \A t \in Requests : PhaseInv(t) /\ CourseInv(t)
  BY DEF Init, NoJob, PhaseInv, CourseInv, At, Running
<1>3. /\ \A c \in Contents :
           /\ rows[c].txn = Nobody /\ rows[c].id \in {Nobody, Earlier}
           /\ rows[c].backend = "local"
           /\ rows[c].id # Nobody => c \in Early
      /\ \A k \in Contracts : releases[k].by = Nobody /\ releases[k].txn = Nobody
      /\ \A t \in Requests : req[t].phase = "idle"
      /\ objects = [b \in Backends |-> [c \in Contents |->
                      IF b = "local" /\ c \in Early THEN "intact" ELSE "missing"]]
  <2>1. /\ NoRow.id = Nobody /\ NoRow.txn = Nobody /\ NoRow.backend = "local"
        /\ [NoRow EXCEPT !.id = Earlier] =
             [id |-> Earlier, backend |-> "local", txn |-> Nobody]
    BY DEF NoRow
  <2> QED BY <2>1 DEF Init, NoRelease, NoJob
<1>4. \A t \in Requests : UploadInv(t)
  BY <1>3, ArtifactsAssumption DEF UploadInv, At
<1>5. ObjectInv
  BY <1>3, ArtifactsAssumption DEF ObjectInv, At, Backends
<1>6. OwnerInv /\ ReleaseInv
  BY <1>3 DEF OwnerInv, ReleaseInv, At
<1> QED BY <1>1, <1>2, <1>4, <1>5, <1>6 DEF ArtifactsInv

LEMMA NextInv ==
  ASSUME ArtifactsInv, [Next]_vars
  PROVE  ArtifactsInv'
<1>1. CASE UNCHANGED vars
  BY <1>1 DEF vars, store, ArtifactsInv, TypeOK, PhaseInv, CourseInv, UploadInv, ObjectInv,
              OwnerInv, ReleaseInv, At, Current, VisibleRow
<1> QED
  BY <1>1, BeginUploadStep, BeginLoadStep, RequestStep, CrashStep, DamageStep, DeployStep
  DEF Next

(* Records have their types, and a temporary file belongs to a request     *)
(* that works on it or has crashed.                                        *)
THEOREM ArtifactsTypeCorrect == Spec => []TypeOK
<1>1. ArtifactsInv => TypeOK
  BY DEF ArtifactsInv
<1> QED BY <1>1, InitInv, NextInv, PTL DEF Spec

(* store_artifact_chunks: whichever step an upload or a load fails or dies *)
(* at, every row names an object that exists.                              *)
THEOREM RowsAreBacked == Spec => []RowsHaveObjects
<1>1. ASSUME ArtifactsInv PROVE RowsHaveObjects
  BY <1>1 DEF ArtifactsInv, TypeOK, RowRecords, ObjectInv, RowsHaveObjects
<1> QED BY <1>1, InitInv, NextInv, PTL DEF Spec

(* The unique digest: of all uploads of the same bytes one says that the   *)
(* artifact is new, and the others found a committed row.                  *)
THEOREM OneArtifact == Spec => []UploadsAgree
<1>1. ASSUME ArtifactsInv PROVE UploadsAgree
  BY <1>1 DEF ArtifactsInv, UploadInv, UploadsAgree
<1> QED BY <1>1, InitInv, NextInv, PTL DEF Spec

(* load_schema_releases: nobody finds a release of an unfinished load, and *)
(* a finished one leaves the releases of all contracts it was asked for.   *)
THEOREM LoadsAllOrNothing == Spec => []LoadsAreAtomic
<1>1. ASSUME ArtifactsInv PROVE LoadsAreAtomic
  BY <1>1 DEF ArtifactsInv, ReleaseInv, LoadsAreAtomic
<1> QED BY <1>1, InitInv, NextInv, PTL DEF Spec
=============================================================================

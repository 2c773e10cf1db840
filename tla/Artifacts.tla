------------------------------ MODULE Artifacts ------------------------------
(***************************************************************************)
(* The artifact store of registry/services/artifacts.py and the command    *)
(* load_schema_releases that fills it from the checked-in contracts.       *)
(*                                                                         *)
(* An upload receives bytes into a temporary file, looks for a row with    *)
(* their digest, writes the object under a key made of the digest, inserts *)
(* the row and reads the object back.  Objects are outside the database:   *)
(* no transaction covers them, and a process may die between any two       *)
(* steps.  An upload inserts its row in a transaction of its own; a load   *)
(* stores all files of its contracts and their releases in one.            *)
(*                                                                         *)
(* Abstracted: bytes are identified with their SHA-256, which is also the  *)
(* object key, so that an object is missing, intact or damaged; chunks,    *)
(* filenames and media types; the files of a load are regular and valid    *)
(* JSON, and do not change under it.                                       *)
(***************************************************************************)
EXTENDS Naturals

CONSTANTS
  Contents,   \* the byte strings that are stored, by digest
  Oversized,  \* those of more than max_bytes
  Fragile,    \* those whose objects may be damaged behind the store's back
  Early,      \* those stored in the local backend at the start
  Contracts,  \* the (record type, version) pairs, numbered in sorted order
  Trees,      \* checkouts: the two files of each contract
  BaseUrls,   \* values of --base-url
  Requests,   \* bound: the uploads and loads that are run
  Earlier,    \* who stored them
  Nobody      \* the transaction of committed rows; no transaction

Backends == {"local", "r2"}

ASSUME ArtifactsAssumption ==
  /\ Oversized \subseteq Contents /\ Fragile \subseteq Contents
  /\ Early \subseteq Contents
  /\ Contracts \subseteq Nat
  /\ Trees \subseteq [Contracts -> [schema : Contents, definitions : Contents]]
  /\ Nobody \notin Requests \cup {Earlier} /\ Earlier \notin Requests

VARIABLES
  backend,   \* ARTIFACT_STORAGE_BACKEND of the running deployment
  tree,      \* the contracts checked in
  objects,   \* the object of each content in each backend
  rows,      \* the Artifact with each sha256, committed or not
  releases,  \* the SchemaRelease of each contract, committed or not
  req,       \* what each request runs and where it is
  temps      \* the requests whose temporary file exists

store == <<objects, rows, releases>>
vars == <<backend, tree, store, req, temps>>

NoRow == [id |-> Nobody, backend |-> "local", txn |-> Nobody]
NoRelease == [schema |-> Nobody, definitions |-> Nobody, url |-> Nobody,
              by |-> Nobody, txn |-> Nobody]

Running == {"receive", "lookup", "persist", "put", "insert", "readback",
            "check", "create", "commit"}
Receiving == {"lookup", "persist", "put", "insert", "readback"}
Ended == {"created", "reused", "loaded", "failed", "crashed"}
Phases == {"idle"} \cup Running \cup Ended
Jobs == {"upload", "load"}

NoJob == [job |-> "upload", phase |-> "idle", file |-> Nobody, selected |-> {},
          left |-> {}, part |-> "schema", url |-> Nobody, backend |-> "local"]

First(S) == CHOOSE k \in S : \A l \in S : k <= l

\* The contract a load is at: they are taken in sorted order.
Current(t) == First(req[t].left)

\* A transaction sees committed rows and its own.
VisibleRow(t, c) == rows[c].id # Nobody /\ rows[c].txn \in {Nobody, t}
-----------------------------------------------------------------------------
Goto(t, phase) == req' = [req EXCEPT ![t].phase = phase]

At(t, phase) == req[t].phase = phase

\* Mutant of RollBack: the artifacts of a load stay.
RollBackReleases(t) ==
  /\ releases' =
       [k \in Contracts |-> IF releases[k].txn = t THEN NoRelease ELSE releases[k]]
  /\ UNCHANGED rows

\* Rows of an open transaction are gone with it.
RollBack(t) ==
  /\ rows' = [c \in Contents |-> IF rows[c].txn = t THEN NoRow ELSE rows[c]]
  /\ releases' =
       [k \in Contracts |-> IF releases[k].txn = t THEN NoRelease ELSE releases[k]]

\* An ArtifactError: the temporary file is unlinked, a load is rolled back.
Fail(t) ==
  /\ Goto(t, "failed")
  /\ temps' = temps \ {t}
  /\ RollBack(t)
  /\ UNCHANGED <<backend, tree, objects>>

\* store_artifact_chunks returns an artifact: the upload is over, a load goes
\* on with the next file of the contract or with its release.
Stored(t, outcome) ==
  /\ temps' = temps \ {t}
  /\ req' = [req EXCEPT ![t] =
       IF @.job = "upload" THEN [@ EXCEPT !.phase = outcome]
       ELSE IF @.part = "schema"
       THEN [@ EXCEPT !.phase = "receive", !.part = "definitions",
                      !.file = tree[Current(t)].definitions]
       ELSE [@ EXCEPT !.phase = "check"]]

\* open_verified_artifact reads the object and compares digest and size.
Verified(b, c) == objects[b][c] = "intact"

\* Reading from the remote backend may fail although the object is intact.
Unverified(b, c) == ~Verified(b, c) \/ b = "r2"

\* verify_artifact of the row of c, which ends the upload either way.
VerifyRow(t, c, outcome) ==
  \/ /\ Verified(rows[c].backend, c)
     /\ Stored(t, outcome)
     /\ UNCHANGED <<backend, tree, store>>
  \/ Unverified(rows[c].backend, c) /\ Fail(t)
-----------------------------------------------------------------------------
BeginUpload(t, c) ==
  /\ At(t, "idle")
  /\ req' = [req EXCEPT ![t] =
       [@ EXCEPT !.phase = "receive", !.file = c, !.backend = backend]]
  /\ UNCHANGED <<backend, tree, store, temps>>

BeginLoad(t, selected, url) ==
  /\ At(t, "idle")
  /\ selected # {}
  /\ req' = [req EXCEPT ![t] =
       [@ EXCEPT !.job = "load", !.phase = "receive", !.file = tree[First(selected)].schema,
                 !.selected = selected, !.left = selected, !.url = url,
                 !.backend = backend]]
  /\ UNCHANGED <<backend, tree, store, temps>>

\* Loads expect no digest.
MeetsExpectation(t, expected) == req[t].job = "load" \/ expected = req[t].file

\* The bytes arrive in a temporary file, at most max_bytes of them, and are
\* compared with the digest that an upload expects, if it names one.
Receive(t) ==
  LET c == req[t].file IN
  /\ At(t, "receive")
  /\ \/ c \notin Oversized /\ Goto(t, "lookup") /\ temps' = temps \cup {t}
        /\ UNCHANGED <<backend, tree, store>>
     \/ c \in Oversized /\ Fail(t)
     \/ \E expected \in Contents : ~MeetsExpectation(t, expected) /\ Fail(t)

Lookup(t) ==
  LET c == req[t].file IN
  /\ At(t, "lookup")
  /\ IF VisibleRow(t, c) THEN VerifyRow(t, c, "reused")
     ELSE Goto(t, "persist") /\ UNCHANGED <<backend, tree, store, temps>>

WriteObject(t, b) ==
  /\ objects' = [objects EXCEPT ![b][req[t].file] = "intact"]
  /\ Goto(t, "insert")
  /\ UNCHANGED <<backend, tree, rows, releases, temps>>

\* _persist_object: os.link makes a local object at once or finds one, which is
\* verified.
Link(t) ==
  LET c == req[t].file IN
  /\ At(t, "persist") /\ req[t].backend = "local"
  /\ CASE objects["local"][c] = "missing" -> WriteObject(t, "local")
       [] objects["local"][c] = "intact"  ->
            Goto(t, "insert") /\ UNCHANGED <<backend, tree, store, temps>>
       [] objects["local"][c] = "damaged" -> Fail(t)

\* Mutant of Probe: the object is left for after the row.
ProbeOnly(t) ==
  /\ At(t, "persist") /\ req[t].backend = "r2"
  /\ Goto(t, "insert")
  /\ UNCHANGED <<backend, tree, store, temps>>

\* A remote object is looked for, and verified if there is one.
Probe(t) ==
  LET c == req[t].file IN
  /\ At(t, "persist") /\ req[t].backend = "r2"
  /\ \/ /\ objects["r2"][c] # "damaged"
        /\ Goto(t, IF objects["r2"][c] = "missing" THEN "put" ELSE "insert")
        /\ UNCHANGED <<backend, tree, store, temps>>
     \/ Fail(t)

\* The upload overwrites what is there by now; it may fail.
Put(t) == At(t, "put") /\ (WriteObject(t, "r2") \/ Fail(t))

\* Mutant of Insert: the row that is there is taken over.
InsertOver(t) ==
  LET c == req[t].file IN
  /\ At(t, "insert")
  /\ rows' = [rows EXCEPT ![c] =
       [id |-> t, backend |-> req[t].backend,
        txn |-> IF req[t].job = "load" THEN t ELSE Nobody]]
  /\ Goto(t, "readback")
  /\ UNCHANGED <<backend, tree, objects, releases, temps>>

\* The unique digest: an insert waits for an uncommitted row of another
\* transaction; an IntegrityError means that somebody else has stored the bytes.
Insert(t) ==
  LET c == req[t].file IN
  /\ At(t, "insert")
  /\ IF rows[c].id = Nobody
     THEN /\ rows' = [rows EXCEPT ![c] =
               [id |-> t, backend |-> req[t].backend,
                txn |-> IF req[t].job = "load" THEN t ELSE Nobody]]
          /\ Goto(t, "readback")
          /\ UNCHANGED <<backend, tree, objects, releases, temps>>
     ELSE rows[c].txn = Nobody /\ VerifyRow(t, c, "reused")

ReadBack(t) == At(t, "readback") /\ VerifyRow(t, req[t].file, "created")
-----------------------------------------------------------------------------
NextContract(t) ==
  LET left == req[t].left \ {Current(t)} IN
  req' = [req EXCEPT ![t] =
    IF left = {} THEN [@ EXCEPT !.left = {}, !.phase = "commit"]
    ELSE [@ EXCEPT !.left = left, !.part = "schema", !.phase = "receive",
                   !.file = tree[First(left)].schema]]

SameContract(t, k) ==
  /\ releases[k].schema = tree[k].schema
  /\ releases[k].definitions = tree[k].definitions
  /\ releases[k].url = req[t].url

\* A release that exists is left as it is, and must be this one.
CheckRelease(t) ==
  LET k == Current(t) IN
  /\ At(t, "check")
  /\ IF releases[k].by # Nobody /\ releases[k].txn = Nobody
     THEN IF SameContract(t, k)
          THEN NextContract(t) /\ UNCHANGED <<backend, tree, store, temps>>
          ELSE Fail(t)
     ELSE Goto(t, "create") /\ UNCHANGED <<backend, tree, store, temps>>

\* Mutant of CreateRelease: each release is committed at once.
CreateReleaseAtOnce(t) ==
  LET k == Current(t) IN
  /\ At(t, "create")
  /\ releases' = [releases EXCEPT ![k] =
       [schema |-> tree[k].schema, definitions |-> tree[k].definitions,
        url |-> req[t].url, by |-> t, txn |-> Nobody]]
  /\ NextContract(t)
  /\ UNCHANGED <<backend, tree, objects, rows, temps>>

\* The unique (record_type, version): a second load waits for the first one to
\* end, and its IntegrityError is not caught.
CreateRelease(t) ==
  LET k == Current(t) IN
  /\ At(t, "create")
  /\ IF releases[k].by = Nobody
     THEN /\ releases' = [releases EXCEPT ![k] =
               [schema |-> tree[k].schema, definitions |-> tree[k].definitions,
                url |-> req[t].url, by |-> t, txn |-> t]]
          /\ NextContract(t)
          /\ UNCHANGED <<backend, tree, objects, rows, temps>>
     ELSE releases[k].txn = Nobody /\ Fail(t)

CommitLoad(t) ==
  /\ At(t, "commit")
  /\ rows' = [c \in Contents |->
                IF rows[c].txn = t THEN [rows[c] EXCEPT !.txn = Nobody] ELSE rows[c]]
  /\ releases' = [k \in Contracts |->
       IF releases[k].txn = t THEN [releases[k] EXCEPT !.txn = Nobody] ELSE releases[k]]
  /\ Goto(t, "loaded")
  /\ UNCHANGED <<backend, tree, objects, temps>>
-----------------------------------------------------------------------------
\* The process dies: nobody unlinks its temporary file.
Crash(t) ==
  /\ req[t].phase \in Running
  /\ Goto(t, "crashed")
  /\ RollBack(t)
  /\ UNCHANGED <<backend, tree, objects, temps>>

\* An object is changed by somebody else, or its medium fails.
Damage(b, c) ==
  /\ c \in Fragile
  /\ objects[b][c] = "intact"
  /\ objects' = [objects EXCEPT ![b][c] = "damaged"]
  /\ UNCHANGED <<backend, tree, rows, releases, req, temps>>

\* A deployment with other settings or contracts; running loads see none of it.
Deploy(b, files) ==
  /\ \A t \in Requests : req[t].phase \notin Running
  /\ backend' = b /\ tree' = files
  /\ UNCHANGED <<store, req, temps>>

Init ==
  /\ backend \in Backends
  /\ tree \in Trees
  /\ objects = [b \in Backends |-> [c \in Contents |->
                  IF b = "local" /\ c \in Early THEN "intact" ELSE "missing"]]
  /\ rows = [c \in Contents |-> IF c \in Early THEN [NoRow EXCEPT !.id = Earlier] ELSE NoRow]
  /\ releases = [k \in Contracts |-> NoRelease]
  /\ req = [t \in Requests |-> NoJob]
  /\ temps = {}

Step(t) ==
  \/ Receive(t) \/ Lookup(t) \/ Link(t) \/ Probe(t) \/ Put(t) \/ Insert(t)
  \/ ReadBack(t) \/ CheckRelease(t) \/ CreateRelease(t) \/ CommitLoad(t)

Next ==
  \/ \E t \in Requests :
       \/ \E c \in Contents : BeginUpload(t, c)
       \/ \E selected \in SUBSET Contracts, url \in BaseUrls : BeginLoad(t, selected, url)
       \/ Step(t) \/ Crash(t)
  \/ \E b \in Backends, c \in Contents : Damage(b, c)
  \/ \E b \in Backends, files \in Trees : Deploy(b, files)

Spec == Init /\ [][Next]_vars

\* A request that can go on does; none waits for a user.
FairSpec == Spec /\ \A t \in Requests : WF_vars(Step(t))
-----------------------------------------------------------------------------
(* Type correctness; temporary files belong to requests that have received *)
(* a file and not stored it yet, and to crashed ones.                      *)
RowRecords == [id : Requests \cup {Earlier, Nobody}, backend : Backends,
               txn : Requests \cup {Nobody}]
ReleaseRecords == [schema : Contents \cup {Nobody}, definitions : Contents \cup {Nobody},
                   url : BaseUrls \cup {Nobody}, by : Requests \cup {Nobody},
                   txn : Requests \cup {Nobody}]
RequestRecords == [job : Jobs, phase : Phases, file : Contents \cup {Nobody},
                   selected : SUBSET Contracts, left : SUBSET Contracts,
                   part : {"schema", "definitions"}, url : BaseUrls \cup {Nobody},
                   backend : Backends]

TypeOK ==
  /\ backend \in Backends /\ tree \in Trees
  /\ objects \in [Backends -> [Contents -> {"missing", "intact", "damaged"}]]
  /\ rows \in [Contents -> RowRecords]
  /\ releases \in [Contracts -> ReleaseRecords]
  /\ req \in [Requests -> RequestRecords]
  /\ temps \subseteq {t \in Requests : req[t].phase \in Receiving \cup {"crashed"}}

\* Whatever is interrupted, and by whomever the bytes were written, the object
\* of a row exists in the backend the row names, and is intact unless it has
\* been damaged since: objects come first and nothing removes or changes one.
RowsHaveObjects ==
  \A c \in Contents : rows[c].id # Nobody =>
    /\ objects[rows[c].backend][c] # "missing"
    /\ c \notin Fragile => objects[rows[c].backend][c] = "intact"

\* Uploads of the same bytes get one artifact, of which exactly the one that
\* inserted it says that it is new.
UploadsAgree ==
  \A t \in Requests :
    LET row == rows[req[t].file] IN
    /\ At(t, "created") => row.id = t /\ row.txn = Nobody
    /\ At(t, "reused") => row.id \notin {t, Nobody}

\* A load is there in full or not at all: its releases are committed only with
\* it, and then the release of every contract selected is committed and names
\* committed artifacts.
LoadsAreAtomic ==
  /\ \A k \in Contracts : releases[k].by # Nobody /\ releases[k].txn = Nobody =>
       /\ At(releases[k].by, "loaded")
       /\ \A c \in {releases[k].schema, releases[k].definitions} :
            rows[c].id # Nobody /\ rows[c].txn = Nobody
  /\ \A t \in Requests : At(t, "loaded") =>
       \A k \in req[t].selected : releases[k].by # Nobody /\ releases[k].txn = Nobody

\* Every upload and load ends, although uploads wait for the rows of loads and
\* loads for each other.
JobsEnd == \A t \in Requests : req[t].phase \in Running ~> req[t].phase \in Ended

=============================================================================

------------------------------ MODULE Previews ------------------------------
(***************************************************************************)
(* The submission views of registry/views_submissions.py: a validated      *)
(* payload is kept as a preview in the session of the browser, and a final *)
(* POST commits it through a service operation of Submissions.             *)
(*                                                                         *)
(* One browser, signed in as User, may have several requests under way.    *)
(* Django reads the session into each request and writes the whole of it   *)
(* back at the end of a request that changed it.  Meanwhile other accounts *)
(* approve and withdraw.  A request that dies is one that never goes on.   *)
(*                                                                         *)
(* Abstracted: uploads, the two ways of entry (both end in the same        *)
(* validation), slugs, and a preview's id is one of PreviewIds.            *)
(***************************************************************************)
EXTENDS Submissions, SequencesExt

CONSTANTS
  User,          \* the account signed in
  Requests,      \* bound: the requests under way at once
  PreviewIds,    \* bound: the previews ever made
  PreviewLimit,  \* SESSION_PREVIEW_LIMIT
  Stored,        \* the records stored at the start
  Published,     \* those of them that are published
  StoredFields,  \* their fields
  Forms          \* the scientific fields that forms are filled in with

ASSUME PreviewsAssumption ==
  /\ User \in Accounts
  /\ PreviewLimit \in Nat \ {0}
  /\ Published \subseteq Stored /\ Stored \subseteq Records
  /\ StoredFields \in [Stored -> Fields]
  /\ \A r \in Stored : StoredFields[r].lineage = NoRecord
  /\ Forms \subseteq Fields

VARIABLES
  session,     \* the previews in the stored session, oldest first
  loaded,      \* the session as each request has read and changed it
  phase,       \* idle, open (session read) or done (session to be saved)
  issued       \* the ids of previews made so far

webVars == <<session, loaded, phase, issued>>
previewVars == <<vars, webVars>>

\* A preview of a new record has the kind in place of an existing record.
PreviewSet ==
  [id : PreviewIds, operation : {"create", "edit", "successor"}, kind : Kinds,
   record : Records \cup {NoRecord}, fields : Fields, mode : {"alongside", "replace"}]

MayOpen(r) == User \in active /\ (owner[r] = User \/ User \in admins)

\* _force_lineage: a fixed lineage is overwritten with the id of the record
\* that is edited or revised.
ForcedFields(operation, r, f) ==
  IF operation = "successor" \/ (operation = "edit" /\ state[r] = "pending_reapproval")
  THEN [f EXCEPT !.lineage = r] ELSE f

\* What the editor puts through validation before it makes a preview.  Whether the
\* lineage has a successor already is asked by the service alone, at the commit:
\* here every record is excluded from the question.
EditorAccepts(operation, k, r, f) ==
  ValidFields(k, ForcedFields(operation, r, f),
              CASE operation = "successor" -> state[r] = "withdrawn"
                [] operation = "edit"      -> state[r] = "pending_reapproval"
                [] operation = "create"    -> FALSE,
              Records)

\* _validated_revision_mode: replacement of published decoders and circuits only.
Modes(operation, r) ==
  IF /\ operation = "successor" /\ state[r] = "published"
     /\ KindOf[r] \in {"decoder", "circuit"}
  THEN {"alongside", "replace"} ELSE {"alongside"}

\* The newest PreviewLimit previews are kept.
Evict(s) == SubSeq(s, 1 + (IF Len(s) > PreviewLimit THEN Len(s) - PreviewLimit ELSE 0), Len(s))
-----------------------------------------------------------------------------
Open(t) ==
  /\ phase[t] = "idle"
  /\ phase' = [phase EXCEPT ![t] = "open"]
  /\ loaded' = [loaded EXCEPT ![t] = session]
  /\ UNCHANGED <<vars, session, issued>>

\* Which pages may be opened for an existing record.
MayEdit(operation, r) ==
  /\ MayOpen(r)
  /\ operation = "edit" => state[r] \in PendingStates
  /\ operation = "successor" => state[r] \in PublicStates

\* The POST of an editor, valid: _store_and_redirect_preview.
StorePreview(t, id, operation, k, r, f, mode) ==
  /\ phase[t] = "open"
  /\ id \notin issued
  /\ EditorAccepts(operation, k, r, f)
  /\ issued' = issued \cup {id}
  /\ loaded' = [loaded EXCEPT ![t] = Evict(Append(@,
       [id |-> id, operation |-> operation, kind |-> k, record |-> r,
        fields |-> ForcedFields(operation, r, f), mode |-> mode]))]
  /\ phase' = [phase EXCEPT ![t] = "done"]
  /\ UNCHANGED <<vars, session>>

\* The service call of submission_commit; r is the new record, if there is one.
Perform(p, r) ==
  CASE p.operation = "edit" -> r = p.record /\ UpdatePending(User, p.record, p.fields)
    [] p.operation = "create" -> KindOf[r] = p.kind /\ CreateSubmission(User, r, p.fields)
    [] p.operation = "successor" ->
         IF p.mode = "replace" THEN ReplaceWithSuccessor(User, p.record, r, p.fields)
         ELSE CreateSuccessor(User, p.record, r, p.fields)

\* submission_commit of the i-th preview, which is deleted after the service has
\* committed.
CommitPreview(t, i, r) ==
  LET p == loaded[t][i] IN
  /\ phase[t] = "open"
  /\ p.record # NoRecord => MayOpen(p.record)
  /\ Perform(p, r)
  /\ loaded' = [loaded EXCEPT ![t] = RemoveAt(@, i)]
  /\ phase' = [phase EXCEPT ![t] = "done"]
  /\ UNCHANGED <<session, issued>>

\* A page is only shown, or the POST is refused: the session is not written.
Close(t) ==
  /\ phase[t] = "open"
  /\ phase' = [phase EXCEPT ![t] = "idle"]
  /\ loaded' = [loaded EXCEPT ![t] = <<>>]
  /\ UNCHANGED <<vars, session, issued>>

\* The session middleware writes the session back.
SaveSession(t) ==
  /\ phase[t] = "done"
  /\ session' = loaded[t]
  /\ phase' = [phase EXCEPT ![t] = "idle"]
  /\ loaded' = [loaded EXCEPT ![t] = <<>>]
  /\ UNCHANGED <<vars, issued>>

PreviewsInit ==
  /\ StoredInit(Stored, Published, StoredFields)
  /\ session = <<>>
  /\ loaded = [t \in Requests |-> <<>>]
  /\ phase = [t \in Requests |-> "idle"]
  /\ issued = {}

PostEditor(t) ==
  \E id \in PreviewIds, f \in Forms :
    \/ \E k \in {KindOf[r] : r \in Records} :
         User \in active /\ StorePreview(t, id, "create", k, NoRecord, f, "alongside")
    \/ \E operation \in {"edit", "successor"}, r \in Records :
         /\ MayEdit(operation, r)
         /\ \E mode \in Modes(operation, r) :
              StorePreview(t, id, operation, KindOf[r], r, f, mode)

Others ==
  /\ \E a \in Accounts, r \in Records : ApproveSubmission(a, r) \/ WithdrawSubmission(a, r)
  /\ UNCHANGED webVars

PreviewsNext ==
  \/ \E t \in Requests :
       \/ Open(t) \/ Close(t) \/ SaveSession(t) \/ PostEditor(t)
       \/ \E i \in DOMAIN loaded[t], r \in Records : CommitPreview(t, i, r)
  \/ Others

PreviewsSpec == PreviewsInit /\ [][PreviewsNext]_previewVars
-----------------------------------------------------------------------------
(* Type correctness.                                                       *)
PreviewsTypeOK ==
  /\ TypeOK
  /\ session \in Seq(PreviewSet)
  /\ loaded \in [Requests -> Seq(PreviewSet)]
  /\ phase \in [Requests -> {"idle", "open", "done"}]
  /\ issued \subseteq PreviewIds

\* "The final POST revalidates the payload inside the creation transaction": a
\* preview may be old, but what it stores refers to published records only and
\* revises a public one.
StalePreviewsRevalidated ==
  [][\A r \in Records : fields'[r] # fields[r] =>
       /\ \A x \in fields'[r].refs : state[x] = "published"
       /\ fields'[r].lineage # NoRecord => state[fields'[r].lineage] \in PublicStates]_previewVars

\* An edit previewed while the candidate was pending changes nothing once it is
\* public, and a revision previewed before a withdrawal is put to reapproval.
StalePreviewsRespectState ==
  [][\A r \in Records :
       /\ state[r] \in PublicStates => fields'[r] = fields[r]
       /\ (/\ state[r] = "absent" /\ state'[r] # "absent"
           /\ fields'[r].lineage # NoRecord
           /\ state'[fields'[r].lineage] = "withdrawn")
          => state'[r] = "pending_reapproval"]_previewVars

\* "Their uploader or an admin can edit scientific fields in place": the editor
\* accepts at least the present fields of a candidate that are still valid.
CandidatesEditable ==
  \A r \in Records :
    (/\ state[r] \in PendingStates
     /\ ValidFields(KindOf[r], fields[r], state[r] = "pending_reapproval", {r}))
      => EditorAccepts("edit", KindOf[r], r, fields[r])
=============================================================================

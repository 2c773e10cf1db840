---------------------------- MODULE Submissions ----------------------------
(***************************************************************************)
(* The write side of the registry: the service operations of               *)
(* registry/services/submissions.py over the records of the four submitted *)
(* kinds, and the append-only histories of registry/services/histories.py. *)
(*                                                                         *)
(* Every service operation is one database transaction (each is decorated  *)
(* with transaction.atomic) and is one action here; the module             *)
(* SubmissionTransactions opens the transactions up into their statements. *)
(* An operation that raises leaves the database as it was, so a refused    *)
(* call is a guard that is false.                                          *)
(*                                                                         *)
(* Abstracted: the scientific fields of a record are its lineage field,    *)
(* the records it refers to and one value "body" for all the others, of    *)
(* which one thing is known, whether the description is blank; a           *)
(* timestamp taken from an event is that event's sequence number; the id   *)
(* of a new history is the id of the record it is created for.  Noise      *)
(* models, evaluator releases and schema releases have no operation in     *)
(* this service and are always published.                                  *)
(***************************************************************************)
EXTENDS Naturals, FiniteSets

CONSTANTS
  Records,      \* the UUIDs that records may be given
  KindOf,       \* the kind a record with that UUID has
  Accounts,     \* the accounts of the registry
  FirstAdmins,  \* the accounts that are admins at the start
  Bodies,       \* values of the scientific fields that are not references
  Described,    \* those of them whose description is not blank
  NoRecord,     \* the null reference
  System,       \* the actor_system of policy decisions
  Toggled,      \* bound: the accounts whose flags are changed
  MaxEdits      \* bound: the edits of one candidate

Kinds == {"decoder", "circuit", "result", "machine"}

ASSUME SubmissionsAssumption ==
  /\ KindOf \in [Records -> Kinds]
  /\ FirstAdmins \subseteq Accounts
  /\ Toggled \subseteq Accounts
  /\ NoRecord \notin Records
  /\ Bodies # {}
  /\ Described \subseteq Bodies
  /\ System \notin Accounts
  /\ MaxEdits \in Nat

VARIABLES
  state,        \* lifecycle state of each record; "absent" before it is stored
  fields,       \* its scientific fields
  owner,        \* its submitted_by
  history,      \* its history_id
  publishedAt,  \* its published_at, 0 when null
  withdrawnAt,  \* its withdrawn_at, 0 when null
  events,       \* the rows of ModerationEvent
  active,       \* the accounts with is_active
  admins        \* the accounts with is_admin

recordVars == <<state, fields, owner, history, publishedAt, withdrawnAt>>
accountVars == <<active, admins>>
vars == <<recordVars, events, accountVars>>

-----------------------------------------------------------------------------
PendingStates == {"pending_review", "pending_reapproval"}
PublicStates == {"published", "withdrawn"}
States == {"absent"} \cup PendingStates \cup PublicStates
Actions == {"revision_created", "submitted", "resubmitted", "edited",
            "approved", "published", "withdrawn"}

Fields == [lineage : Records \cup {NoRecord}, refs : SUBSET Records,
           body : Bodies]
NoFields == [lineage |-> NoRecord, refs |-> {}, body |-> CHOOSE b \in Bodies : TRUE]

OfKind(k) == {r \in Records : KindOf[r] = k}

Rows == [history : Records, sequence : Nat, record : Records,
         action : Actions, actor : Accounts \cup {System},
         predecessor : Records \cup {NoRecord}, projected : States,
         snapshot : Fields, cause : Nat]

\* The rows of one history, and the largest sequence among them (Max, or 0).
RowsOf(h) == {e \in events : e.history = h}
SequencesOf(h) == {e.sequence : e \in RowsOf(h)}
Latest(h) == IF RowsOf(h) = {} THEN 0
             ELSE CHOOSE n \in SequencesOf(h) : \A m \in SequencesOf(h) : m <= n

Row(h, n, r, action, actor) ==
  [history |-> h, sequence |-> n, record |-> r, action |-> action,
   actor |-> actor, predecessor |-> NoRecord, projected |-> "absent",
   snapshot |-> NoFields, cause |-> 0]

-----------------------------------------------------------------------------
\* Mutant of InitialState: the kind is looked at before reapproval.
InitialStateByKind(k, reapproval) ==
  IF k = "machine" THEN "published"
  ELSE IF reapproval THEN "pending_reapproval" ELSE "pending_review"

(* The governance step that follows a valid submission.                    *)
InitialState(k, reapproval) ==
  IF reapproval THEN "pending_reapproval"
  ELSE IF k = "machine" THEN "published" ELSE "pending_review"

\* A revision of a machine may branch: supersedes_machine is not one-to-one.
SuccessorAvailable(k, source, excluding) ==
  k = "machine" \/ \A r \in Records \ excluding : fields[r].lineage # source

\* The states the lineage field of the form offers.
LineageStates(reapproval) ==
  IF reapproval THEN PublicStates ELSE {"published"}

ReferenceKinds(k) ==
  IF k = "result" THEN {"decoder", "circuit", "machine"} ELSE {}

\* The fields a form of kind k may name; it refuses ids of another kind.
FormFields(k) ==
  [lineage : OfKind(k) \cup {NoRecord},
   refs : SUBSET UNION {OfKind(q) : q \in ReferenceKinds(k)}, body : Bodies]

\* Mutant of ReferencesPublished: a reference to a candidate is accepted.
ReferencesStored(k, refs) ==
  /\ \A x \in refs : KindOf[x] \in ReferenceKinds(k) /\ state[x] # "absent"
  /\ \A q \in ReferenceKinds(k) : \E x \in refs : KindOf[x] = q

\* One reference of each kind the form asks for, and every one published.
ReferencesPublished(k, refs) ==
  /\ \A x \in refs : KindOf[x] \in ReferenceKinds(k) /\ state[x] = "published"
  /\ \A q \in ReferenceKinds(k) :
       \E x \in refs : KindOf[x] = q /\ \A y \in refs : KindOf[y] = q => y = x

\* The first version of a decoder or a circuit needs a description; later ones
\* may inherit it.
FirstIsDescribed(k, f) ==
  k \in {"decoder", "circuit"} /\ f.lineage = NoRecord => f.body \in Described

\* What the form accepts for a record of kind k; excluding is the edited record.
ValidFields(k, f, reapproval, excluding) ==
  /\ ReferencesPublished(k, f.refs)
  /\ FirstIsDescribed(k, f)
  /\ f.lineage # NoRecord =>
       /\ KindOf[f.lineage] = k
       /\ state[f.lineage] \in LineageStates(reapproval)
       /\ SuccessorAvailable(k, f.lineage, excluding)

\* An active account may manage what it submitted, an admin everything.
Manages(a, r) == a \in active /\ (owner[r] = a \/ a \in admins)

-----------------------------------------------------------------------------
\* Mutant of CreationRows: every submission projects pending_review.
CreationRowsPending(h, n, r, a, f, reapproval) ==
  LET m == IF f.lineage = NoRecord THEN n ELSE n + 1
  IN  (IF f.lineage = NoRecord THEN {}
       ELSE {[Row(h, m, r, "revision_created", a) EXCEPT !.predecessor = f.lineage]})
      \cup
      {[Row(h, m + 1, r, IF reapproval THEN "resubmitted" ELSE "submitted", a)
          EXCEPT !.projected = "pending_review", !.snapshot = f]}
(* The events a stored submission writes to history h after sequence n.    *)
CreationRows(h, n, r, a, f, reapproval) ==
  LET initial == InitialState(KindOf[r], reapproval)
      m == IF f.lineage = NoRecord THEN n ELSE n + 1
  IN  (IF f.lineage = NoRecord THEN {}
       ELSE {[Row(h, m, r, "revision_created", a) EXCEPT !.predecessor = f.lineage]})
      \cup
      {[Row(h, m + 1, r, IF reapproval THEN "resubmitted" ELSE "submitted", a)
          EXCEPT !.projected = initial, !.snapshot = f]}
      \cup
      (IF initial # "published" THEN {}
       ELSE {[Row(h, m + 2, r, "approved", System) EXCEPT !.cause = m + 1],
             [Row(h, m + 3, r, "published", System) EXCEPT !.cause = m + 2]})

\* published_at of a new record: the time of its published event, if any.
CreationPublishedAt(n, r, f, reapproval) ==
  IF InitialState(KindOf[r], reapproval) # "published" THEN 0
  ELSE IF f.lineage = NoRecord THEN n + 3 ELSE n + 4

\* Mutant of HistoryForNewRecord: a first version gets no history.
HistoryOfPredecessor(r, predecessor) ==
  IF predecessor = NoRecord THEN NoRecord ELSE history[predecessor]

HistoryForNewRecord(r, predecessor) ==
  IF predecessor = NoRecord THEN r ELSE history[predecessor]

-----------------------------------------------------------------------------
(* What each operation writes, given n, the latest sequence number it read *)
(* under the lock of the history it appends to.                            *)

\* _create_submission: the columns of a new record.
InsertRecord(r, a, f, h) ==
  /\ fields' = [fields EXCEPT ![r] = f]
  /\ owner' = [owner EXCEPT ![r] = a]
  /\ history' = [history EXCEPT ![r] = h]
  /\ UNCHANGED accountVars

StoreSubmission(a, r, f, reapproval, h, n) ==
  /\ InsertRecord(r, a, f, h)
  /\ state' = [state EXCEPT ![r] = InitialState(KindOf[r], reapproval)]
  /\ events' = events \cup CreationRows(h, n, r, a, f, reapproval)
  /\ publishedAt' = [publishedAt EXCEPT ![r] = CreationPublishedAt(n, r, f, reapproval)]
  /\ UNCHANGED withdrawnAt

\* The source is withdrawn and its successor stored for reapproval.
StoreReplacement(a, source, r, f, n) ==
  LET h == history[source]
  IN  /\ InsertRecord(r, a, f, h)
      /\ state' = [state EXCEPT ![source] = "withdrawn",
                                ![r] = InitialState(KindOf[r], TRUE)]
      /\ events' = events \cup {Row(h, n + 1, source, "withdrawn", a)}
                          \cup CreationRows(h, n + 1, r, a, f, TRUE)
      /\ withdrawnAt' = [withdrawnAt EXCEPT ![source] = n + 1]
      /\ UNCHANGED publishedAt

\* _update_record sets the fields, the lineage field among them; history_id
\* is not touched, and the one event is "edited".
StoreEdit(a, r, f, n) ==
  /\ fields' = [fields EXCEPT ![r] = f]
  /\ events' = events \cup
       {[Row(history[r], n + 1, r, "edited", a) EXCEPT !.snapshot = f]}
  /\ UNCHANGED <<state, owner, history, publishedAt, withdrawnAt, accountVars>>

StoreWithdrawal(a, r, n) ==
  /\ events' = events \cup {Row(history[r], n + 1, r, "withdrawn", a)}
  /\ state' = [state EXCEPT ![r] = "withdrawn"]
  /\ withdrawnAt' = [withdrawnAt EXCEPT ![r] = n + 1]
  /\ UNCHANGED <<fields, owner, history, publishedAt, accountVars>>

StoreApproval(a, r, n) ==
  /\ events' = events \cup
       {Row(history[r], n + 1, r, "approved", a),
        [Row(history[r], n + 2, r, "published", a) EXCEPT !.cause = n + 1]}
  /\ state' = [state EXCEPT ![r] = "published"]
  /\ publishedAt' = [publishedAt EXCEPT ![r] = n + 2]
  /\ withdrawnAt' = [withdrawnAt EXCEPT ![r] = 0]
  /\ UNCHANGED <<fields, owner, history, accountVars>>

-----------------------------------------------------------------------------
(* The operations, each in one transaction.                                *)

\* create_submission: a first version, or one that names a published lineage.
CreateSubmission(a, r, f) ==
  LET h == HistoryForNewRecord(r, f.lineage)
  IN  /\ state[r] = "absent"
      /\ a \in active
      /\ ValidFields(KindOf[r], f, FALSE, {})
      /\ StoreSubmission(a, r, f, FALSE, h, Latest(h))

\* create_successor_submission with the source left as it is.
CreateSuccessor(a, source, r, f) ==
  LET h == history[source]
      reapproval == state[source] = "withdrawn"
  IN  /\ state[r] = "absent"
      /\ Manages(a, source)
      /\ state[source] \in PublicStates
      /\ f.lineage = source
      /\ ValidFields(KindOf[r], f, reapproval, {})
      /\ StoreSubmission(a, r, f, reapproval, h, Latest(h))

\* create_successor_submission with withdraw_source; the successor is
\* validated after the withdrawal.
ReplaceWithSuccessor(a, source, r, f) ==
  /\ state[r] = "absent"
  /\ Manages(a, source)
  /\ KindOf[source] \in {"decoder", "circuit"}
  /\ state[source] = "published"
  /\ f.lineage = source
  /\ KindOf[r] = KindOf[source]
  /\ ReferencesPublished(KindOf[r], f.refs)
  /\ SuccessorAvailable(KindOf[r], source, {})
  /\ StoreReplacement(a, source, r, f, Latest(history[source]))

\* Mutant of PinnedFields: the submitted lineage is taken.
SubmittedFields(r, f) == f

\* update_pending_submission pins the lineage of a reapproval candidate.
PinnedFields(r, f) ==
  IF state[r] = "pending_reapproval"
  THEN [f EXCEPT !.lineage = fields[r].lineage] ELSE f

\* Mutant of EditableStates: a published record may be edited in place.
EditableOrPublished == PendingStates \cup {"published"}

EditableStates == PendingStates

EditsOf(r) == Cardinality({e \in events : e.record = r /\ e.action = "edited"})

\* update_pending_submission.
UpdatePending(a, r, f) ==
  LET g == PinnedFields(r, f)
  IN  /\ state[r] \in EditableStates
      /\ Manages(a, r)
      /\ ValidFields(KindOf[r], g, state[r] = "pending_reapproval", {r})
      /\ EditsOf(r) < MaxEdits
      /\ StoreEdit(a, r, g, Latest(history[r]))

\* withdraw_submission.
WithdrawSubmission(a, r) ==
  /\ state[r] = "published"
  /\ Manages(a, r)
  /\ StoreWithdrawal(a, r, Latest(history[r]))

\* _revalidate_record_for_publication.
Publishable(r) ==
  /\ ReferencesPublished(KindOf[r], fields[r].refs)
  /\ FirstIsDescribed(KindOf[r], fields[r])
  /\ fields[r].lineage # NoRecord => state[fields[r].lineage] \in PublicStates

\* A machine in pending_review would not need the approval asked for.
Approvable(r) ==
  /\ state[r] \in PendingStates
  /\ ~(state[r] = "pending_review" /\ InitialState(KindOf[r], FALSE) = "published")

\* approve_submission.
ApproveSubmission(a, r) ==
  /\ a \in active \cap admins
  /\ Approvable(r)
  /\ Publishable(r)
  /\ StoreApproval(a, r, Latest(history[r]))

\* The set_account_admin command and the is_admin box of the account admin.
SetAccountAdmin(a) ==
  /\ admins' = IF a \in admins THEN admins \ {a} ELSE admins \cup {a}
  /\ UNCHANGED <<recordVars, events, active>>

\* The is_active box of the account admin.
SetAccountActive(a) ==
  /\ active' = IF a \in active THEN active \ {a} ELSE active \cup {a}
  /\ UNCHANGED <<recordVars, events, admins>>

-----------------------------------------------------------------------------
Init ==
  /\ state = [r \in Records |-> "absent"]
  /\ fields = [r \in Records |-> NoFields]
  /\ owner = [r \in Records |-> System]
  /\ history = [r \in Records |-> r]
  /\ publishedAt = [r \in Records |-> 0]
  /\ withdrawnAt = [r \in Records |-> 0]
  /\ events = {}
  /\ active = Accounts
  /\ admins = FirstAdmins

\* A registry that already holds first versions, as the service has written
\* them: submitted by one account and, if published, approved by an admin.
StoredRows(r, published, f, uploader, admin) ==
  CreationRows(r, 0, r, uploader, f, FALSE) \cup
  (IF published /\ KindOf[r] # "machine"
   THEN {Row(r, 2, r, "approved", admin),
         [Row(r, 3, r, "published", admin) EXCEPT !.cause = 2]}
   ELSE {})

StoredInit(stored, published, f) ==
  /\ state = [r \in Records |-> IF r \in published THEN "published"
                                ELSE IF r \in stored THEN "pending_review" ELSE "absent"]
  /\ fields = [r \in Records |-> IF r \in stored THEN f[r] ELSE NoFields]
  /\ history = [r \in Records |-> r]
  /\ publishedAt = [r \in Records |-> IF r \in published THEN 3 ELSE 0]
  /\ withdrawnAt = [r \in Records |-> 0]
  /\ \E uploader \in Accounts, admin \in FirstAdmins :
       /\ owner = [r \in Records |-> IF r \in stored THEN uploader ELSE System]
       /\ events = UNION {StoredRows(r, r \in published, f[r], uploader, admin) :
                            r \in stored}
  /\ active = Accounts
  /\ admins = FirstAdmins

Next ==
  \/ \E a \in Accounts, r \in Records : \E f \in FormFields(KindOf[r]) :
       \/ CreateSubmission(a, r, f)
       \/ UpdatePending(a, r, f)
       \/ /\ f.lineage # NoRecord
          /\ \/ CreateSuccessor(a, f.lineage, r, f)
             \/ ReplaceWithSuccessor(a, f.lineage, r, f)
  \/ \E a \in Accounts, r \in Records :
       WithdrawSubmission(a, r) \/ ApproveSubmission(a, r)
  \/ \E a \in Toggled : SetAccountAdmin(a) \/ SetAccountActive(a)

Spec == Init /\ [][Next]_vars
-----------------------------------------------------------------------------
(* Type correctness of the stored rows and of the accounts' flags.         *)
TypeOK ==
  /\ state \in [Records -> States]
  /\ fields \in [Records -> Fields]
  /\ owner \in [Records -> Accounts \cup {System}]
  /\ history \in [Records -> Records]
  /\ publishedAt \in [Records -> Nat]
  /\ withdrawnAt \in [Records -> Nat]
  /\ events \subseteq Rows
  /\ active \subseteq Accounts
  /\ admins \subseteq Accounts

EventsOf(r) == {e \in RowsOf(history[r]) : e.record = r}
LastOf(E) == CHOOSE e \in E : \A d \in E : d.sequence <= e.sequence

StateRows(r) == {e \in EventsOf(r) :
                   e.action \in {"submitted", "resubmitted", "published", "withdrawn"}}
StateAfter(e) ==
  IF e.action \in {"published", "withdrawn"} THEN e.action ELSE e.projected

\* Replaying the events of a record gives its state, its published_at and its
\* withdrawn_at, no edit follows a publication, and an approval just before it
\* caused it: what the command validate_histories recomputes for every record.
HistoryProjectsState ==
  \A r \in Records : state[r] # "absent" =>
    /\ StateRows(r) # {}
    /\ StateAfter(LastOf(StateRows(r))) = state[r]
    /\ \A e \in EventsOf(r) :
         /\ e.action = "published" =>
              /\ publishedAt[r] = e.sequence
              /\ \E d \in EventsOf(r) :
                   /\ d.action = "approved" /\ d.actor = e.actor
                   /\ d.sequence = e.cause /\ d.sequence + 1 = e.sequence
         /\ e.action = "withdrawn" => withdrawnAt[r] = e.sequence
         /\ e.action = "edited" /\ state[r] \in PublicStates =>
              e.sequence < publishedAt[r]

\* The sequence numbers of a history are 1, 2, ..., n, each used once, although
\* the records of one lineage append to the same history in any order.
SequencesContinuous ==
  \A h \in Records :
    /\ SequencesOf(h) = 1..Latest(h)
    /\ \A d, e \in RowsOf(h) : d.sequence = e.sequence => d = e

\* A record is never published by policy after the record it revises had been
\* withdrawn: the withdrawal, if any, is later in their common history.
WithdrawnSourceNeedsReview ==
  \A d, e \in events :
    (/\ d.action = "approved" /\ d.actor = System
     /\ e.action = "withdrawn" /\ e.record = fields[d.record].lineage)
      => d.history = e.history /\ d.sequence < e.sequence

\* No stored record, candidate or not, ever refers to a candidate: the queue of
\* pending submissions has no dependencies inside it.
ReferencesNeverPrivate ==
  \A r \in Records : \A x \in fields[r].refs : state[x] \in PublicStates

\* A candidate for reapproval stays in the history of the withdrawn record it
\* revises, whatever edits are made to it, and its history says so.
ReapprovalKeepsLineage ==
  \A r \in Records : state[r] = "pending_reapproval" =>
    LET source == fields[r].lineage
    IN  /\ source \in Records
        /\ state[source] = "withdrawn"
        /\ history[r] = history[source]
        /\ \E e \in EventsOf(r) :
             e.action = "revision_created" /\ e.predecessor = source

\* Once public, the fields of a record, its owner, its history and the time it
\* was published never change again, and it never leaves the public states.
PublicRecordFrozen ==
  [][\A r \in Records : state[r] \in PublicStates =>
       /\ state'[r] \in PublicStates
       /\ state[r] = "withdrawn" => state'[r] = "withdrawn"
       /\ fields'[r] = fields[r] /\ owner'[r] = owner[r]
       /\ history'[r] = history[r] /\ publishedAt'[r] = publishedAt[r]]_vars

\* The refinement mapping: accounts, owners, histories and times are hidden,
\* states and fields are what they are.
Lifecycle == INSTANCE RecordLifecycle WITH
  Records <- Records, KindOf <- KindOf, Fields <- Fields, NoRecord <- NoRecord,
  state <- state, fields <- fields

\* The service implements the abstract lifecycle: accounts, histories, forms
\* and replacement withdrawals together give no step it does not allow.
ImplementsLifecycle == Lifecycle!Spec

\* The lineage relation of the stored records is well founded, although an edit
\* may point the lineage field of a candidate at any published record.
LineageWellFounded == Lifecycle!LineageWellFounded

\* One decoder version, circuit revision or result succeeds another at most.
OneSuccessor == Lifecycle!OneSuccessor

\* What validate_histories checks of every record with a predecessor: the two
\* share a history, and a revision_created event names the predecessor.
LineageAgreesWithHistory ==
  \A r \in Records : fields[r].lineage # NoRecord =>
    /\ history[fields[r].lineage] = history[r]
    /\ \E e \in EventsOf(r) : /\ e.action = "revision_created"
                               /\ e.predecessor = fields[r].lineage
=============================================================================

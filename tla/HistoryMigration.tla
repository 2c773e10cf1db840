-------------------------- MODULE HistoryMigration --------------------------
(***************************************************************************)
(* The two data migrations that gave the records their histories.  A       *)
(* registry that lives the lifecycle of RecordLifecycle, and recorded some *)
(* of its steps as moderation events, is migrated by                       *)
(* registry/migrations/0006_record_histories.py, which groups the records  *)
(* into histories, numbers the recorded events and infers the missing      *)
(* ones, then by 0007_repair_legacy_histories.py.  The command             *)
(* validate_histories replays the outcome.                                 *)
(*                                                                         *)
(* The table of events is a sequence in the order of the primary keys; the *)
(* order of a history is the column "sequence".  The release that ran      *)
(* before 0006 is not in the repository: what it recorded is taken from    *)
(* the cases the two migrations handle.                                    *)
(***************************************************************************)
EXTENDS RecordLifecycle, Naturals, Sequences, FiniteSets, SequencesExt

CONSTANTS
  Submitter,   \* the submitted_by of each record, NoRecord when it has none
  MaxLegacy    \* bound: how many events the old release recorded

\* The UUIDs are numbers, compared as their strings are.
ASSUME MigrationAssumption ==
  /\ Records \subseteq Nat \ {0} /\ IsFiniteSet(Records)
  /\ MaxLegacy \in Nat

\* A null column holds no lifecycle state and no name of an account or process.
ASSUME NullAssumption ==
  NoRecord \notin Public \cup {"pending_review", "pending_reapproval", "person", "system account",
                              "submission_policy", "migration_backfill"}

VARIABLES
  phase,     \* the last migration applied
  created,   \* the records in the order of created_at
  history,   \* the history of each record, NoRecord before 0006
  events     \* the table of moderation events

migrationVars == <<state, fields, phase, created, history, events>>

None == NoRecord
Entered == {"submitted", "resubmitted"}
Account(who) == [type |-> "account", account |-> who, system |-> None]
System(what) == [type |-> "system", account |-> None, system |-> what]

\* What the old release stored: no history, no sequence, no actor type.
Legacy(r, action, who) ==
  [subject |-> r, action |-> action, actor |-> [Account(who) EXCEPT !.type = None],
   history |-> None, sequence |-> 0, inferred |-> FALSE, projected |-> None,
   predecessor |-> None, snapshot |-> None, unavailable |-> FALSE, cause |-> 0]

-----------------------------------------------------------------------------
(* The registry before the migrations: each step of the lifecycle may have *)
(* been recorded, in either order when two events share their time.        *)

PublicationRecords == {<<>>, <<"published">>, <<"approved", "published">>, <<"published", "approved">>}

\* The actions that a step which moves r from state s to state t recorded; an
\* edit that left no event left nothing to migrate.
RecordsOf(r, s, t) ==
  CASE s = "absent" /\ t = "published" ->
         {<<>>} \cup {<<"submitted">> \o p : p \in PublicationRecords}
    [] s = "absent" /\ t = "pending_review"     -> {<<>>, <<"submitted">>}
    [] s = "absent" /\ t = "pending_reapproval" -> {<<>>, <<"resubmitted">>}
    [] s # "absent" /\ t = "published" /\ s # t -> PublicationRecords
    [] s # t /\ t = "withdrawn"                 -> {<<>>, <<"withdrawn">>}
    [] s = t                                    -> {<<"edited">>}

\* The machines published on submission were recorded for the system account.
LegacyActor(r, s, action) ==
  IF s = "absent" /\ action \in {"approved", "published"} THEN "system account" ELSE "person"

Recorded(r, actions) ==
  [i \in 1..Len(actions) |-> Legacy(r, actions[i], LegacyActor(r, state[r], actions[i]))]

\* The source that a step of r withdraws, which is recorded or not.
WithdrawalRecords(r) ==
  LET sources == {q \in Records \ {r} : state'[q] # state[q]}
  IN  {<<>>} \cup {<<Legacy(q, "withdrawn", "person")>> : q \in sources}

LegacyStep(r) ==
  /\ phase = "legacy"
  /\ \/ Publish(r)
     \/ Withdraw(r)
     \/ \E f \in Fields : Revise(r, f)
     \/ \E f \in Fields : Enter(r, f)
     \/ \E f \in Fields, source \in Records : Replace(r, source, f)
  /\ \E withdrawal \in WithdrawalRecords(r), actions \in RecordsOf(r, state[r], state'[r]) :
       events' = events \o withdrawal \o Recorded(r, actions)
  /\ Len(events') <= MaxLegacy
  /\ created' = IF state[r] = "absent" THEN Append(created, r) ELSE created
  /\ UNCHANGED <<phase, history>>

-----------------------------------------------------------------------------
(* 0006: one history for each connected part of the predecessor relation.  *)

Smaller(a, b) == IF a <= b THEN a ELSE b
Larger(a, b) == IF a <= b THEN b ELSE a

\* find: from parent to parent, to a record that is its own.  The code also
\* shortens the paths it climbs, which changes no root.
FindRoot(parent, r) ==
  LET root[q \in Records] == IF parent[q] = q THEN q ELSE root[parent[q]]
  IN  root[r]

\* Mutant of Union: the records are linked, not the parts they are in.
UnionNeighbours(parent, left, right) ==
  [parent EXCEPT ![Larger(left, right)] = Smaller(left, right)]

Union(parent, left, right) ==
  LET a == FindRoot(parent, left)
      b == FindRoot(parent, right)
  IN  IF a = b THEN parent ELSE [parent EXCEPT ![Larger(a, b)] = Smaller(a, b)]

\* _components: the rows are read in the order of their identifiers, here up
\* to the n-th number.
Linked[n \in 0..Max(Records)] ==
  IF n = 0 THEN [r \in Records |-> r]
  ELSE IF n \in Range(created) /\ fields[n].lineage \in Range(created)
       THEN Union(Linked[n - 1], n, fields[n].lineage)
  ELSE Linked[n - 1]

Components ==
  [r \in Records |-> IF r \in Range(created) THEN FindRoot(Linked[Max(Records)], r) ELSE None]

(* The events of a history are numbered as they occurred.                  *)
Numbered(grouped) ==
  [i \in 1..Len(events) |->
    LET e == events[i]
        h == grouped[e.subject]
    IN  [e EXCEPT !.history = h,
                  !.sequence = Cardinality({j \in 1..i : grouped[events[j].subject] = h}),
                  !.inferred = TRUE,
                  !.unavailable = e.action \in {"submitted", "edited", "resubmitted"},
                  !.actor = IF e.actor.account = "system account"
                            THEN System("submission_policy") ELSE Account(e.actor.account)]]

LastSequence(table, h) ==
  Max({0} \cup {table[i].sequence : i \in {j \in DOMAIN table : table[j].history = h}})

\* _append_inferred_event: at the end of the history of the record.
Inferred(r, action, actor, h) ==
  [Legacy(r, action, None) EXCEPT !.history = h, !.inferred = TRUE, !.actor = actor]

AppendAll(table, h, new) ==
  table \o [i \in 1..Len(new) |-> [new[i] EXCEPT !.sequence = LastSequence(table, h) + i]]

\* Mutant of MissingEvents: a withdrawal is taken for a publication.
MissingUnlessWithdrawn(table, r, h) ==
  LET have == {e.action : e \in {x \in Range(table) : x.subject = r}}
      submitter == IF Submitter[r] = None THEN System("migration_backfill") ELSE Account(Submitter[r])
      backfill == System("migration_backfill")
  IN  (IF have \cap Entered # {} THEN <<>> ELSE
         <<[Inferred(r, "submitted", submitter, h) EXCEPT !.projected = state[r], !.snapshot = KindOf[r]]>>)
      \o (IF state[r] # "published" \/ "published" \in have THEN <<>> ELSE
         <<Inferred(r, "approved", backfill, h),
           [Inferred(r, "published", backfill, h) EXCEPT !.cause = 1]>>)

\* What the record and its recorded actions say is missing, in this order.
\* A cause of 1 stands for the event before, whose key is known on insertion.
MissingEvents(table, r, h) ==
  LET have == {e.action : e \in {x \in Range(table) : x.subject = r}}
      submitter == IF Submitter[r] = None THEN System("migration_backfill") ELSE Account(Submitter[r])
      backfill == System("migration_backfill")
      lineage == fields[r].lineage
  IN  (IF lineage = None \/ "revision_created" \in have THEN <<>> ELSE
         <<[Inferred(r, "revision_created", submitter, h) EXCEPT !.predecessor = lineage]>>)
      \o (IF have \cap Entered # {} THEN <<>> ELSE
         <<[Inferred(r, "submitted", submitter, h) EXCEPT !.projected = state[r], !.snapshot = KindOf[r]]>>)
      \o (IF state[r] \notin Public \/ "published" \in have THEN <<>> ELSE
         <<Inferred(r, "approved", backfill, h),
           [Inferred(r, "published", backfill, h) EXCEPT !.cause = 1]>>)
      \o (IF state[r] # "withdrawn" \/ "withdrawn" \in have THEN <<>> ELSE
         <<Inferred(r, "withdrawn", backfill, h)>>)

InferMissing(grouped, table, r) ==
  LET new == MissingEvents(table, r, grouped[r])
  IN  AppendAll(table, grouped[r],
        [i \in 1..Len(new) |-> IF new[i].cause = 0 THEN new[i]
                               ELSE [new[i] EXCEPT !.cause = Len(table) + i - 1]])

\* The records are completed in the order in which they were created.
BackfilledEvents(grouped) ==
  LET completed[n \in 0..Len(created)] ==
        IF n = 0 THEN Numbered(grouped) ELSE InferMissing(grouped, completed[n - 1], created[n])
  IN  completed[Len(created)]

Backfill ==
  /\ phase = "legacy"
  /\ created # <<>>
  /\ phase' = "backfilled"
  /\ history' = Components
  /\ events' = BackfilledEvents(history')
  /\ UNCHANGED <<state, fields, created>>

-----------------------------------------------------------------------------
(* 0007: every publication is given the approval that caused it.           *)

Precedes(e, f) ==
  e.history < f.history \/ (e.history = f.history /\ e.sequence < f.sequence)

\* Some keys of a table, ordered by history and sequence.
InOrder(table, keys) ==
  [n \in 1..Cardinality(keys) |->
    CHOOSE j \in keys : Cardinality({i \in keys : Precedes(table[i], table[j])}) = n - 1]

\* Mutants of Reorder: the approval stays where it is; the events between the
\* two are not renumbered.
ReorderNever(table, approval, publication) == table
ReorderPair(table, approval, publication) ==
  [table EXCEPT ![approval].sequence = table[publication].sequence,
                ![publication].sequence = table[publication].sequence + 1]

\* _resequence: the approval is moved in front of the publication.
Reorder(table, approval, publication) ==
  LET from == table[approval].sequence
      to == table[publication].sequence
  IN  IF from < to THEN table
      ELSE [i \in DOMAIN table |->
              IF table[i].history # table[publication].history THEN table[i]
              ELSE IF i = approval THEN [table[i] EXCEPT !.sequence = to]
              ELSE IF table[i].sequence \in to..(from - 1)
                   THEN [table[i] EXCEPT !.sequence = table[i].sequence + 1]
              ELSE table[i]]

\* The table with one row saved.
Stored(table, i, e) == [j \in DOMAIN table |-> IF j = i THEN e ELSE table[j]]

WithApproval(table, p) ==
  IF \E i \in DOMAIN table : /\ table[i].action = "approved"
                            /\ table[i].subject = table[p].subject
                            /\ table[i].history = table[p].history
  THEN table
  ELSE AppendAll(table, table[p].history,
         <<Inferred(table[p].subject, "approved", System("migration_backfill"), table[p].history)>>)

\* The last approval before the sequence the publication had when the list of
\* publications was read, or else the first one.
CauseOf(table, p, readAs) ==
  LET approvals == {i \in DOMAIN table :
                      /\ table[i].action = "approved"
                      /\ table[i].subject = table[p].subject
                      /\ table[i].history = table[p].history}
      earlier == {i \in approvals : table[i].sequence < readAs}
  IN  IF earlier # {}
      THEN CHOOSE i \in earlier : \A j \in earlier : table[j].sequence <= table[i].sequence
      ELSE CHOOSE i \in approvals : \A j \in approvals : table[i].sequence <= table[j].sequence

RepairPublication(table, p, readAs) ==
  LET marked == Stored(table, p, [table[p] EXCEPT !.inferred = TRUE])
      full == WithApproval(marked, p)
      cause == CauseOf(full, p, readAs)
      caused == Stored(full, p, [full[p] EXCEPT !.cause = cause])
  IN  IF table[p].cause # 0 THEN marked ELSE Reorder(caused, cause, p)

\* repair_legacy_histories.  The publications are listed once, beforehand.
Repaired(table) ==
  LET marked == [i \in DOMAIN table |->
                  IF table[i].action \in Entered \cup {"edited"} /\ table[i].snapshot = None
                  THEN [table[i] EXCEPT !.inferred = TRUE, !.unavailable = TRUE]
                  ELSE table[i]]
      publications == InOrder(table, {i \in DOMAIN table : table[i].action = "published"})
      repaired[n \in 0..Len(publications)] ==
        IF n = 0 THEN marked
        ELSE RepairPublication(repaired[n - 1], publications[n], table[publications[n]].sequence)
  IN  repaired[Len(publications)]

Repair ==
  /\ phase = "backfilled"
  /\ phase' = "repaired"
  /\ events' = Repaired(events)
  /\ UNCHANGED <<state, fields, created, history>>

-----------------------------------------------------------------------------
MigrationInit ==
  /\ Init
  /\ phase = "legacy"
  /\ created = <<>>
  /\ history = [r \in Records |-> None]
  /\ events = <<>>

MigrationNext == Backfill \/ Repair \/ \E r \in Records : LegacyStep(r)

MigrationSpec == MigrationInit /\ [][MigrationNext]_migrationVars

-----------------------------------------------------------------------------
(* validate_histories: what the command complains of.  It compares the      *)
(* timestamps of no event that was migrated or inferred, as all are here.   *)

ActorValid(e) ==
  \/ e.actor.type = "account" /\ e.actor.account # None /\ e.actor.system = None
  \/ e.actor.type = "system" /\ e.actor.account = None /\ e.actor.system # None

SnapshotValid(r, e) ==
  e.action \in Entered \cup {"edited"} =>
    IF e.snapshot = None THEN e.unavailable ELSE e.snapshot = KindOf[r]

CauseValid(e) ==
  e.action = "published" =>
    /\ e.cause # 0
    /\ events[e.cause].action = "approved"
    /\ events[e.cause].history = e.history

\* The events of a record in the order of its history.
Stream(r) ==
  LET keys == InOrder(events, {i \in DOMAIN events : events[i].subject = r})
  IN  [i \in 1..Len(keys) |-> events[keys[i]]]

\* _validate_projection: the state that the events replay to.
Projected(r) ==
  LET replay(s, e) ==
        CASE e.action \in Entered ->
               IF e.projected # None THEN e.projected
               ELSE IF e.action = "resubmitted" THEN "pending_reapproval" ELSE "pending_review"
          [] e.action \in {"published", "restored"} -> "published"
          [] e.action = "withdrawn" -> "withdrawn"
          [] OTHER -> s
  IN  FoldLeft(replay, None, Stream(r))

EditedInPlace(r) ==
  \E i, j \in 1..Len(Stream(r)) :
    i < j /\ Stream(r)[i].action = "published" /\ Stream(r)[j].action = "edited"

Continuous(h) ==
  LET own == {i \in DOMAIN events : events[i].history = h}
  IN  {events[i].sequence : i \in own} = 1..Cardinality(own)

Complaints(r) ==
  LET own == {e \in Range(events) : e.subject = r}
      lineage == fields[r].lineage
  IN  {c \in {"sequences", "actor", "snapshot", "cause", "events", "outside",
              "predecessor", "revision", "projection", "edited"} :
        CASE c = "sequences" -> ~Continuous(history[r])
          [] c = "actor"     -> \E e \in own : ~ActorValid(e)
          [] c = "snapshot"  -> \E e \in own : ~SnapshotValid(r, e)
          [] c = "cause"     -> \E e \in own : ~CauseValid(e)
          [] c = "events"    -> own = {}
          [] c = "outside"   -> \E e \in own : e.history # history[r]
          [] c = "predecessor" -> lineage # None /\ history[lineage] # history[r]
          [] c = "revision"  -> lineage # None /\ ~\E e \in own :
                                  e.action = "revision_created" /\ e.predecessor = lineage
          [] c = "projection" -> Projected(r) \notin {None, state[r]}
          [] c = "edited"    -> EditedInPlace(r)}

\* A withdrawal that the old release recorded, of a publication it did not.
WithdrawnUnannounced(r) ==
  /\ \E e \in Range(events) : e.subject = r /\ e.action = "withdrawn" /\ e.actor.type = "account"
  /\ \E e \in Range(events) : e.subject = r /\ e.action = "published"
                              /\ e.actor = System("migration_backfill")

-----------------------------------------------------------------------------
\* After both migrations the command finds every history sound, whatever the
\* old release left unrecorded, but for one case: 0006 infers a publication at
\* the end of the history, behind the recorded withdrawal it came before, and
\* the events of such a record replay to "published".  A publication comes after
\* the approval it names, of the same record, which the command does not check.
MigratedValidates ==
  phase = "repaired" =>
    /\ \A r \in Range(created) :
         Complaints(r) = IF WithdrawnUnannounced(r) THEN {"projection"} ELSE {}
    /\ \A e \in Range(events) : e.action = "published" =>
         /\ events[e.cause].subject = e.subject
         /\ events[e.cause].sequence < e.sequence

\* 0006 puts two records in one history exactly when a chain of predecessors
\* and successors joins them, the branches of machines included.
OneHistoryPerLineage ==
  LET closed(S) == \A r \in Records :
        fields[r].lineage # None => (r \in S <=> fields[r].lineage \in S)
  IN  phase # "legacy" =>
        \A q, r \in Range(created) :
          history[q] = history[r]
            <=> \A S \in SUBSET Records : closed(S) /\ q \in S => r \in S

\* Neither migration drops, rewrites or reorders what was recorded: only an
\* approval moves, and only in front of the publication it explains.
RecordedOrderKept ==
  [][\A i, j \in DOMAIN events :
       /\ events'[i].subject = events[i].subject
       /\ events'[i].action = events[i].action
       /\ (/\ history'[events[i].subject] = history'[events[j].subject]
           /\ IF phase = "legacy" THEN i < j ELSE events[i].sequence < events[j].sequence
           /\ "approved" \notin {events[i].action, events[j].action}
           /\ phase' # "legacy")
          => events'[i].sequence < events'[j].sequence]_migrationVars
=============================================================================

----------------------- MODULE SubmissionTransactions -----------------------
(***************************************************************************)
(* The operations of Submissions as concurrent PostgreSQL transactions at  *)
(* READ COMMITTED, the isolation level of config/settings.  A request runs *)
(* one service function; its statements take the locks the code asks for   *)
(* (select_for_update on the record, on the RecordHistory) and those the   *)
(* database adds: the entry of a one-to-one lineage field in its unique    *)
(* index, and the share lock on every row a new foreign key names, which   *)
(* Django defers to the commit.  Reads see what is committed and what the  *)
(* transaction itself wrote.  A commit makes all writes visible at once,   *)
(* by the Store operators of Submissions.                                  *)
(*                                                                         *)
(* Abstracted: the references of one record are read by one step, and a    *)
(* transaction takes the history lock once, for its first event.           *)
(***************************************************************************)
EXTENDS Submissions, Sequences

CONSTANTS
  RequestCount, \* bound: the requests served
  Operations,   \* the operations they may run
  Stored,       \* the records stored at the start, one history each
  Published,    \* those of them that are published
  StoredFields, \* their fields
  Forms,        \* the scientific fields that requests submit
  NoRequest     \* holder of a free lock

ASSUME TransactionsAssumption ==
  /\ Operations \subseteq {"create", "successor", "replace",
                            "update", "withdraw", "approve"}
  /\ Stored \subseteq Records /\ Published \subseteq Stored
  /\ StoredFields \in [Stored -> Fields]
  /\ \A r \in Stored : StoredFields[r].lineage = NoRecord
  /\ Forms \subseteq Fields
  /\ RequestCount \in Nat /\ NoRequest \notin Nat

\* The requests, numbered in the order of their arrival.
Requests == 1..RequestCount

VARIABLES
  status,       \* what has become of each request
  call,         \* the operation it runs and its arguments
  at,           \* the next statement of its program
  reapproval,   \* the policy decision it took
  latest,       \* the latest sequence number it read
  rowLock,      \* the request that holds the FOR UPDATE lock of each record
  historyLock   \* the same for each history

requestVars == <<status, call, at, reapproval, latest, rowLock, historyLock>>
txnVars == <<vars, requestVars>>

\* Mutant of Program: a withdrawal locks the history before the record.
ProgramHistoryFirst ==
  [create    |-> <<"validate", "insert", "lockHistory", "commit">>,
   successor |-> <<"lockRow", "validate", "insert", "lockHistory", "commit">>,
   replace   |-> <<"lockRow", "lockHistory", "validate", "insert", "commit">>,
   update    |-> <<"lockRow", "validate", "insert", "lockHistory", "commit">>,
   withdraw  |-> <<"lockHistory", "lockRow", "commit">>,
   approve   |-> <<"lockRow", "validate", "lockHistory", "commit">>]

\* The statements of each service function, in their order.
Program ==
  [create    |-> <<"validate", "insert", "lockHistory", "commit">>,
   successor |-> <<"lockRow", "validate", "insert", "lockHistory", "commit">>,
   replace   |-> <<"lockRow", "lockHistory", "validate", "insert", "commit">>,
   update    |-> <<"lockRow", "validate", "insert", "lockHistory", "commit">>,
   withdraw  |-> <<"lockRow", "lockHistory", "commit">>,
   approve   |-> <<"lockRow", "validate", "lockHistory", "commit">>]

Inserting == {"create", "successor", "replace"}
Succeeding == {"successor", "replace"}
WithoutForm == {"withdraw", "approve"}

Calls == [op : DOMAIN Program, actor : Accounts, record : Records, fields : Fields]
NoCall == [op |-> "none", actor |-> System, record |-> NoRecord, fields |-> NoFields]

\* The source of a successor is what its lineage field names.
Source(c) == c.fields.lineage

Running(t, statement) ==
  status[t] = "running" /\ Program[call[t].op][at[t]] = statement

\* The row the first statement locks, and the history the events go to.
LockedRow(c) == IF c.op \in Succeeding THEN Source(c) ELSE c.record
TargetHistory(c) ==
  IF c.op = "create" THEN HistoryForNewRecord(c.record, c.fields.lineage)
  ELSE history[LockedRow(c)]

-----------------------------------------------------------------------------
(* Who a request waits for.                                                *)

\* It has written its record, in particular the lineage field, but not committed.
HasWritten(u) ==
  /\ status[u] = "running"
  /\ \E i \in 1..(at[u] - 1) : Program[call[u].op][i] = "insert"

LineagesTouched(u) ==
  {call[u].fields.lineage} \cup
  (IF call[u].op = "update" THEN {fields[call[u].record].lineage} ELSE {})

\* The unique index of a one-to-one lineage field makes a second writer wait.
IndexHolders(t) ==
  IF call[t].fields.lineage = NoRecord \/ KindOf[call[t].record] = "machine" THEN {}
  ELSE {u \in Requests \ {t} :
          HasWritten(u) /\ call[t].fields.lineage \in LineagesTouched(u)}

\* The rows named by the foreign keys that t wrote, locked FOR KEY SHARE when
\* the deferred constraints are checked.
ForeignRows(t) ==
  LET c == call[t]
      now == (c.fields.refs \cup {c.fields.lineage}) \ {NoRecord}
  IN  CASE c.op \in Inserting -> now
        [] c.op = "update" -> now \ (fields[c.record].refs \cup {fields[c.record].lineage})
        [] OTHER -> {}

WaitsFor(t) ==
  IF status[t] # "running" THEN {}
  ELSE (CASE Running(t, "lockRow")     -> {rowLock[LockedRow(call[t])]}
          [] Running(t, "insert")      -> IndexHolders(t)
          [] Running(t, "lockHistory") -> {historyLock[TargetHistory(call[t])]}
          [] Running(t, "commit")      -> {rowLock[x] : x \in ForeignRows(t)}
          [] OTHER -> {}) \ {t, NoRequest}

\* The requests of S wait for each other in a circle.
WaitCycle(S) ==
  /\ S # {}
  /\ \A u \in S : WaitsFor(u) \cap S # {}
  /\ \A T \in SUBSET S \ {{}, S} : \E u \in T : WaitsFor(u) \cap T = {}

Deadlocked(t) == \E S \in SUBSET Requests : t \in S /\ WaitCycle(S)

-----------------------------------------------------------------------------
Proceed(t) == at' = [at EXCEPT ![t] = @ + 1] /\ UNCHANGED <<status, vars>>

\* Mutant of Finish: the lock of the history is never released.
FinishKeepsHistory(t, outcome) ==
  /\ status' = [status EXCEPT ![t] = outcome]
  /\ rowLock' = [r \in Records |-> IF rowLock[r] = t THEN NoRequest ELSE rowLock[r]]
  /\ call' = [call EXCEPT ![t] = NoCall]
  /\ at' = [at EXCEPT ![t] = 0]
  /\ reapproval' = [reapproval EXCEPT ![t] = FALSE]
  /\ latest' = [latest EXCEPT ![t] = 0]
  /\ UNCHANGED historyLock

\* The end of a transaction releases every lock it holds.
Finish(t, outcome) ==
  /\ status' = [status EXCEPT ![t] = outcome]
  /\ rowLock' = [r \in Records |-> IF rowLock[r] = t THEN NoRequest ELSE rowLock[r]]
  /\ historyLock' =
       [h \in Records |-> IF historyLock[h] = t THEN NoRequest ELSE historyLock[h]]
  /\ call' = [call EXCEPT ![t] = NoCall]
  /\ at' = [at EXCEPT ![t] = 0]
  /\ reapproval' = [reapproval EXCEPT ![t] = FALSE]
  /\ latest' = [latest EXCEPT ![t] = 0]

Refuse(t, outcome) == Finish(t, outcome) /\ UNCHANGED vars

\* The UUIDs of one kind that no record has and no request is about to store.
Fresh(k) ==
  {r \in Records : /\ KindOf[r] = k /\ state[r] = "absent"
                   /\ \A u \in Requests : status[u] = "running" => call[u].record # r}

\* A POST arrives; a new record gets a fresh UUID, no matter which.
Begin(t, c) ==
  /\ status[t] = "idle"
  /\ \A u \in 1..(t - 1) : status[u] # "idle"
  /\ IF c.op \in Inserting
     THEN LET fresh == Fresh(KindOf[c.record]) IN
          c.record \in fresh /\ c.record = CHOOSE r \in fresh : TRUE
     ELSE state[c.record] # "absent"
  /\ status' = [status EXCEPT ![t] = "running"]
  /\ call' = [call EXCEPT ![t] = c]
  /\ at' = [at EXCEPT ![t] = 1]
  /\ UNCHANGED <<vars, reapproval, latest, rowLock, historyLock>>

\* What each operation requires of the row it has just locked.
RowAdmits(c) ==
  CASE c.op = "withdraw"  -> Manages(c.actor, c.record) /\ state[c.record] = "published"
    [] c.op = "update"    -> Manages(c.actor, c.record) /\ state[c.record] \in EditableStates
    [] c.op = "approve"   -> c.actor \in active \cap admins /\ Approvable(c.record)
    [] c.op = "successor" -> /\ Manages(c.actor, Source(c))
                             /\ state[Source(c)] \in PublicStates
                             /\ SuccessorAvailable(KindOf[Source(c)], Source(c), {})
    [] c.op = "replace"   -> /\ Manages(c.actor, Source(c))
                             /\ state[Source(c)] = "published"
                             /\ SuccessorAvailable(KindOf[Source(c)], Source(c), {})
                             /\ KindOf[Source(c)] \in {"decoder", "circuit"}

\* Mutant of LockRow: the row is read without FOR UPDATE.
ReadRow(t) ==
  /\ Running(t, "lockRow")
  /\ WaitsFor(t) = {}
  /\ IF RowAdmits(call[t])
     THEN Proceed(t) /\ UNCHANGED <<call, reapproval, latest, rowLock, historyLock>>
     ELSE Refuse(t, "refused")

\* SELECT ... FOR UPDATE returns the row as it is once the lock is granted.
LockRow(t) ==
  /\ Running(t, "lockRow")
  /\ WaitsFor(t) = {}
  /\ IF RowAdmits(call[t])
     THEN /\ rowLock' = [rowLock EXCEPT ![LockedRow(call[t])] = t]
          /\ Proceed(t)
          /\ UNCHANGED <<call, reapproval, latest, historyLock>>
     ELSE Refuse(t, "refused")

\* Validation reads other rows without locking them.  A successor submitted
\* with the withdrawal of its source sees that withdrawal.
Validates(c) ==
  LET k == KindOf[c.record] IN
  CASE c.op = "create"    -> c.actor \in active /\ ValidFields(k, c.fields, FALSE, {})
    [] c.op = "successor" -> ValidFields(k, c.fields, state[Source(c)] = "withdrawn", {})
    [] c.op = "replace"   -> /\ ReferencesPublished(k, c.fields.refs)
                             /\ SuccessorAvailable(k, Source(c), {})
    [] c.op = "update"    -> ValidFields(k, PinnedFields(c.record, c.fields),
                                         state[c.record] = "pending_reapproval",
                                         {c.record})
    [] c.op = "approve"   -> Publishable(c.record)

Validate(t) ==
  LET c == call[t] IN
  /\ Running(t, "validate")
  /\ IF Validates(c)
     THEN /\ call' = IF c.op = "update"
                     THEN [call EXCEPT ![t].fields = PinnedFields(c.record, c.fields)]
                     ELSE call
          /\ reapproval' = [reapproval EXCEPT ![t] =
               c.op = "replace" \/ (c.op = "successor" /\ state[Source(c)] = "withdrawn")]
          /\ Proceed(t)
          /\ UNCHANGED <<latest, rowLock, historyLock>>
     ELSE Refuse(t, "refused")

\* The record is written; a second successor of one source is an IntegrityError.
IndexConflict(t) ==
  /\ KindOf[call[t].record] # "machine"
  /\ call[t].fields.lineage # NoRecord
  /\ \E r \in Records \ {call[t].record} : fields[r].lineage = call[t].fields.lineage

Insert(t) ==
  /\ Running(t, "insert")
  /\ WaitsFor(t) = {}
  /\ IF IndexConflict(t) THEN Refuse(t, "failed")
     ELSE /\ Proceed(t)
          /\ UNCHANGED <<call, reapproval, latest, rowLock, historyLock>>

\* Mutant of LockHistory: the sequence number is read without the lock.
ReadHistory(t) ==
  /\ Running(t, "lockHistory")
  /\ WaitsFor(t) = {}
  /\ latest' = [latest EXCEPT ![t] = Latest(TargetHistory(call[t]))]
  /\ Proceed(t)
  /\ UNCHANGED <<call, reapproval, rowLock, historyLock>>

\* append_history_event locks the history and reads its latest sequence number.
LockHistory(t) ==
  LET h == TargetHistory(call[t]) IN
  /\ Running(t, "lockHistory")
  /\ WaitsFor(t) = {}
  /\ historyLock' = [historyLock EXCEPT ![h] = t]
  /\ latest' = [latest EXCEPT ![t] = Latest(h)]
  /\ Proceed(t)
  /\ UNCHANGED <<call, reapproval, rowLock>>

Commit(t) ==
  LET c == call[t]
      n == latest[t]
  IN  /\ Running(t, "commit")
      /\ WaitsFor(t) = {}
      /\ CASE c.op \in {"create", "successor"} ->
                StoreSubmission(c.actor, c.record, c.fields, reapproval[t],
                                TargetHistory(c), n)
           [] c.op = "replace"  -> StoreReplacement(c.actor, Source(c), c.record, c.fields, n)
           [] c.op = "update"   -> StoreEdit(c.actor, c.record, c.fields, n)
           [] c.op = "withdraw" -> StoreWithdrawal(c.actor, c.record, n)
           [] c.op = "approve"  -> StoreApproval(c.actor, c.record, n)
      /\ Finish(t, "committed")

\* PostgreSQL aborts one request of a cycle; the view does not catch the error.
AbortVictim(t) == Deadlocked(t) /\ Refuse(t, "failed")

\* The process or its connection is lost, or a statement raises.
Rollback(t) == status[t] = "running" /\ Refuse(t, "failed")

-----------------------------------------------------------------------------
TxnInit ==
  /\ StoredInit(Stored, Published, StoredFields)
  /\ status = [t \in Requests |-> "idle"]
  /\ call = [t \in Requests |-> NoCall]
  /\ at = [t \in Requests |-> 0]
  /\ reapproval = [t \in Requests |-> FALSE]
  /\ latest = [t \in Requests |-> 0]
  /\ rowLock = [r \in Records |-> NoRequest]
  /\ historyLock = [r \in Records |-> NoRequest]

Statement(t) ==
  LockRow(t) \/ Validate(t) \/ Insert(t) \/ LockHistory(t) \/ Commit(t)

\* The lineage a form may offer is of the kind of the record, and the source of
\* a successor is always given.
TxnNext ==
  \/ \E t \in Requests : Statement(t) \/ AbortVictim(t) \/ Rollback(t)
  \/ \E t \in Requests, a \in Accounts, r \in Records :
       \/ \E op \in Operations \cap WithoutForm :
            Begin(t, [op |-> op, actor |-> a, record |-> r, fields |-> NoFields])
       \/ \E op \in Operations \ WithoutForm, f \in Forms :
            /\ f.lineage # NoRecord => KindOf[f.lineage] = KindOf[r]
            /\ op \in Succeeding => f.lineage # NoRecord
            /\ Begin(t, [op |-> op, actor |-> a, record |-> r, fields |-> f])

TxnSpec == TxnInit /\ [][TxnNext]_txnVars

\* The database does not stand still: while it can, it runs a statement of some
\* request or breaks a deadlock.
FairTxnSpec ==
  TxnSpec /\ WF_txnVars(\E t \in Requests : Statement(t) \/ AbortVictim(t))

-----------------------------------------------------------------------------
(* Type correctness; only a running request holds a lock.                  *)
TxnTypeOK ==
  /\ TypeOK
  /\ status \in [Requests -> {"idle", "running", "committed", "refused", "failed"}]
  /\ call \in [Requests -> Calls \cup {NoCall}]
  /\ \A t \in Requests : status[t] = "running" => at[t] \in DOMAIN Program[call[t].op]
  /\ reapproval \in [Requests -> BOOLEAN]
  /\ latest \in [Requests -> Nat]
  /\ rowLock \in [Records -> Requests \cup {NoRequest}]
  /\ historyLock \in [Records -> Requests \cup {NoRequest}]
  /\ \A r \in Records : rowLock[r] \in Requests => status[rowLock[r]] = "running"
  /\ \A h \in Records : historyLock[h] \in Requests => status[historyLock[h]] = "running"

\* The operations that lock the record they are about before all else.
RowFirst == {"successor", "replace", "withdraw", "approve"}

\* What the request writes or publishes refers to no record outside its lineage.
WithoutReferences(c) ==
  /\ c.op \in Succeeding => c.fields.refs = {}
  /\ c.op = "approve" => fields[c.record].refs = {}

\* Withdrawals, successors, replacements and approvals of records without
\* references serialise: each commit is one atomic operation of Submissions on
\* the database as it then is, whatever was read before other commits,
\* submissions and edits among them.
CommitsAreOperations ==
  [][\A t \in Requests :
       (/\ status[t] = "running" /\ status'[t] = "committed"
        /\ call[t].op \in RowFirst /\ WithoutReferences(call[t]))
         => Next]_txnVars

\* Requests deadlock only with the help of a submission or an edit: these enter
\* the unique index of the lineage field before they hold the record it names.
DeadlocksNeedUnlockedLineage ==
  \A S \in SUBSET Requests :
    WaitCycle(S) => \E t \in S : call[t].op \notin RowFirst

\* Every request is answered, because deadlocks are broken: of finitely many
\* requests there is a time when none is under way.
EveryRequestEnds ==
  (\E t \in Requests : status[t] = "running") ~> \A t \in Requests : status[t] # "running"

\* "If a referenced record has been withdrawn, approval fails": a result is
\* published only while everything it refers to is published.
PublishedWithItsReferences ==
  [][\A r \in Records : state[r] # "published" /\ state'[r] = "published" =>
       \A x \in fields'[r].refs : state[x] = "published"]_vars
=============================================================================


-------------------- MODULE SubmissionTransactions_proofs --------------------
(***************************************************************************)
(* Theorems about SubmissionTransactions: what the row and history locks   *)
(* guarantee for any number of concurrent requests over any registry.      *)
(***************************************************************************)
EXTENDS SubmissionTransactions, Submissions_proofs

(* The invariant says of each running request what the statements it has    *)
(* executed still guarantee, whatever others have committed meanwhile.      *)
Passed(t, statement) ==
  \E i \in 1..(at[t] - 1) : Program[call[t].op][i] = statement

\* The arguments of a call, from its beginning to its commit.
CallInv(t) ==
  LET c == call[t] IN
  /\ c \in Calls
  /\ c.op \in Succeeding => c.fields.lineage \in Records
  /\ c.op \in Inserting <=> state[c.record] = "absent"

\* The lock of the row keeps the state the operation asked for.
RowFact(c) ==
  /\ c.op \in {"withdraw", "replace"} => state[LockedRow(c)] = "published"
  /\ c.op \in {"update", "approve"} => state[LockedRow(c)] \in PendingStates
  /\ c.op = "successor" => state[LockedRow(c)] \in PublicStates
RowInv(t) ==
  Passed(t, "lockRow") => rowLock[LockedRow(call[t])] = t /\ RowFact(call[t])

\* A lineage that was published when it was validated is still public.
LineageFact(c) ==
  c.op = "create" /\ c.fields.lineage # NoRecord =>
    state[c.fields.lineage] \in PublicStates
LineageInv(t) == Passed(t, "validate") => LineageFact(call[t])

\* The lock of the history keeps the sequence number that was read.
NumberInv(t) ==
  Passed(t, "lockHistory") =>
    /\ historyLock[TargetHistory(call[t])] = t
    /\ latest[t] = Latest(TargetHistory(call[t]))

RequestInv(t) ==
  status[t] = "running" =>
    /\ at[t] \in DOMAIN Program[call[t].op]
    /\ CallInv(t) /\ RowInv(t) /\ LineageInv(t) /\ NumberInv(t)

\* No two requests have the same new record.
FreshInv ==
  \A t, u \in Requests :
    (/\ t # u /\ status[t] = "running" /\ status[u] = "running"
     /\ call[t].op \in Inserting) => call[t].record # call[u].record

LocksInv ==
  /\ \A r \in Records : rowLock[r] \in Requests => status[rowLock[r]] = "running"
  /\ \A h \in Records : historyLock[h] \in Requests => status[historyLock[h]] = "running"

RequestTypes ==
  /\ status \in [Requests -> {"idle", "running", "committed", "refused", "failed"}]
  /\ call \in [Requests -> Calls \cup {NoCall}]
  /\ at \in [Requests -> Nat]
  /\ reapproval \in [Requests -> BOOLEAN]
  /\ latest \in [Requests -> Nat]
  /\ rowLock \in [Records -> Requests \cup {NoRequest}]
  /\ historyLock \in [Records -> Requests \cup {NoRequest}]

TxnInv ==
  /\ HistoryInv /\ RequestTypes /\ LocksInv /\ FreshInv
  /\ \A t \in Requests : RequestInv(t)

-----------------------------------------------------------------------------
(* The order of the statements, in the form the proofs use it.              *)
Ops == {"create", "successor", "replace", "update", "withdraw", "approve"}
Before(op, k, statement) == \E i \in 1..(k - 1) : Program[op][i] = statement

LEMMA ProgramOrder ==
  /\ DOMAIN Program = Ops
  /\ \A op \in Ops :
       /\ 1 \in DOMAIN Program[op] /\ DOMAIN Program[op] \subseteq Nat \ {0}
       /\ \A k \in DOMAIN Program[op] :
            /\ Program[op][k] # "commit" => k + 1 \in DOMAIN Program[op]
            /\ op # "create" /\ Program[op][k] # "lockRow" => Before(op, k, "lockRow")
            /\ op = "create" /\ Program[op][k] \in {"lockHistory", "commit"}
                 => Before(op, k, "validate")
            /\ op = "create" => Program[op][k] # "lockRow" /\ ~Before(op, k, "lockRow")
            /\ Program[op][k] = "commit" => Before(op, k, "lockHistory")
            /\ Before(op, k, "lockHistory") =>
                 Before(op, k, IF op = "create" THEN "validate" ELSE "lockRow")
<1> DEFINE Ordered(op) ==
      /\ 1 \in DOMAIN Program[op] /\ DOMAIN Program[op] \subseteq Nat \ {0}
      /\ \A k \in DOMAIN Program[op] :
           /\ Program[op][k] # "commit" => k + 1 \in DOMAIN Program[op]
           /\ op # "create" /\ Program[op][k] # "lockRow" => Before(op, k, "lockRow")
           /\ op = "create" /\ Program[op][k] \in {"lockHistory", "commit"}
                => Before(op, k, "validate")
           /\ op = "create" => Program[op][k] # "lockRow" /\ ~Before(op, k, "lockRow")
           /\ Program[op][k] = "commit" => Before(op, k, "lockHistory")
           /\ Before(op, k, "lockHistory") =>
                Before(op, k, IF op = "create" THEN "validate" ELSE "lockRow")
<1>1. DOMAIN Program = Ops
  BY DEF Program, Ops
<1>2. Program["create"] = <<"validate", "insert", "lockHistory", "commit">>
  BY DEF Program
<1>3. Program["successor"] = <<"lockRow", "validate", "insert", "lockHistory", "commit">>
  BY DEF Program
<1>4. Program["replace"] = <<"lockRow", "lockHistory", "validate", "insert", "commit">>
  BY DEF Program
<1>5. Program["update"] = <<"lockRow", "validate", "insert", "lockHistory", "commit">>
  BY DEF Program
<1>6. Program["withdraw"] = <<"lockRow", "lockHistory", "commit">>
  BY DEF Program
<1>7. Program["approve"] = <<"lockRow", "validate", "lockHistory", "commit">>
  BY DEF Program
<1>8. Ordered("create")
  BY <1>2 DEF Before
<1>9. Ordered("successor")
  BY <1>3 DEF Before
<1>10. Ordered("replace")
  BY <1>4 DEF Before
<1>11. Ordered("update")
  BY <1>5 DEF Before
<1>12. Ordered("withdraw")
  BY <1>6 DEF Before
<1>13. Ordered("approve")
  BY <1>7 DEF Before
<1>14. \A op \in Ops : Ordered(op)
  BY <1>8, <1>9, <1>10, <1>11, <1>12, <1>13 DEF Ops
<1> QED BY <1>1, <1>14

LEMMA PassedBefore ==
  ASSUME NEW t PROVE \A s : Passed(t, s) <=> Before(call[t].op, at[t], s)
BY DEF Passed, Before

(* One statement more: what is passed after it.                             *)
LEMMA PassedNext ==
  ASSUME NEW t, at[t] \in Nat \ {0}, at'[t] = at[t] + 1, call'[t].op = call[t].op,
         NEW s
  PROVE  Passed(t, s)' <=> Passed(t, s) \/ Program[call[t].op][at[t]] = s
<1>1. 1..(at'[t] - 1) = 1..(at[t] - 1) \cup {at[t]}
  OBVIOUS
<1> QED BY <1>1 DEF Passed

-----------------------------------------------------------------------------
(* At the start no request has locked or written anything.                  *)
LEMMA InitTxnInv == TxnInit => TxnInv
<1> SUFFICES ASSUME TxnInit PROVE TxnInv
  OBVIOUS
<1>1. HistoryInv
  BY StoredHistoryInv, TransactionsAssumption DEF TxnInit
<1>2. RequestTypes /\ LocksInv
  BY TransactionsAssumption DEF TxnInit, RequestTypes, LocksInv, Requests
<1>3. FreshInv /\ \A t \in Requests : RequestInv(t)
  BY DEF TxnInit, FreshInv, RequestInv
<1> QED BY <1>1, <1>2, <1>3 DEF TxnInv

-----------------------------------------------------------------------------
(* What a commit does to the tables: its rows continue the history h after  *)
(* n, the records outside "touched" stay, and so does the history of every  *)
(* stored record; a public record stays public and is not changed.          *)
Effect(h, n, touched) ==
  /\ TypeOK'
  /\ \E C : Continues(C, h, n) /\ events' = events \cup C
  /\ \A x \in Records \ touched : state'[x] = state[x] /\ fields'[x] = fields[x]
  /\ \A x \in Records : state[x] # "absent" =>
       state'[x] # "absent" /\ history'[x] = history[x]
  /\ \A x \in Records : Frozen(x)

LEMMA StoreSubmissionEffect ==
  ASSUME HistoryInv, NEW a \in Accounts, NEW r \in Records, NEW f \in Fields,
         NEW again \in BOOLEAN, NEW h \in Records, NEW n \in Nat,
         state[r] = "absent", StoreSubmission(a, r, f, again, h, n)
  PROVE  Effect(h, n, {r})
<1>1. Continues(CreationRows(h, n, r, a, f, again), h, n)
  BY CreationRowsContinue
<1>2. events' = events \cup CreationRows(h, n, r, a, f, again)
  BY DEF StoreSubmission
<1>3. events' \subseteq Rows
  BY <1>1, <1>2 DEF Continues, HistoryInv, TypeOK
<1>4. TypeOK'
  BY <1>3, InitialStateType, CreationPublishedAtType
  DEF StoreSubmission, InsertRecord, HistoryInv, TypeOK, accountVars
<1>5. \A x \in Records : x # r =>
        /\ state'[x] = state[x] /\ fields'[x] = fields[x]
        /\ history'[x] = history[x] /\ owner'[x] = owner[x]
        /\ publishedAt'[x] = publishedAt[x]
  BY DEF StoreSubmission, InsertRecord, HistoryInv, TypeOK
<1>6. \A x \in Records : Frozen(x)
  BY <1>5 DEF Frozen, PublicStates
<1> QED BY <1>1, <1>2, <1>4, <1>5, <1>6 DEF Effect

LEMMA StoreReplacementEffect ==
  ASSUME HistoryInv, NEW a \in Accounts, NEW source \in Records, NEW r \in Records,
         NEW f \in Fields, NEW n \in Nat, state[r] = "absent",
         state[source] = "published", StoreReplacement(a, source, r, f, n)
  PROVE  Effect(history[source], n, {r, source})
<1> DEFINE h == history[source]
           w == Row(h, n + 1, source, "withdrawn", a)
           C == CreationRows(h, n + 1, r, a, f, TRUE)
<1>1. h \in Records /\ n + 1 \in Nat /\ TRUE \in BOOLEAN
  BY DEF HistoryInv, TypeOK
<1>2. Continues(C, h, n + 1)
  <2> HIDE DEF h
  <2> QED BY <1>1, CreationRowsContinue
<1>3. w \in Rows /\ w.history = h /\ w.sequence = n + 1
  BY <1>1, RowType DEF Row, Actions
<1>4. events' = events \cup ({w} \cup C)
  BY DEF StoreReplacement
<1>5. Continues({w} \cup C, h, n)
  <2> HIDE DEF h, w, C
  <2> QED BY <1>1, <1>2, <1>3, RowsBeforeContinue
<1>6. events' \subseteq Rows
  BY <1>4, <1>5 DEF Continues, HistoryInv, TypeOK
<1>7. TypeOK'
  <2>1. "withdrawn" \in States
    BY DEF States, PublicStates
  <2> QED BY <1>1, <1>6, <2>1, InitialStateType
          DEF StoreReplacement, InsertRecord, HistoryInv, TypeOK, accountVars
<1>8. \A x \in Records : x # r =>
        /\ state'[x] = IF x = source THEN "withdrawn" ELSE state[x]
        /\ fields'[x] = fields[x] /\ history'[x] = history[x]
        /\ owner'[x] = owner[x] /\ publishedAt'[x] = publishedAt[x]
  BY DEF StoreReplacement, InsertRecord, HistoryInv, TypeOK
<1>9. \A x \in Records : Frozen(x)
  BY <1>8 DEF Frozen, PublicStates
<1> HIDE DEF w, C
<1> QED BY <1>4, <1>5, <1>7, <1>8, <1>9 DEF Effect

LEMMA StoreEditEffect ==
  ASSUME HistoryInv, NEW a \in Accounts, NEW r \in Records, NEW f \in Fields,
         NEW n \in Nat, state[r] \in PendingStates, StoreEdit(a, r, f, n)
  PROVE  Effect(history[r], n, {r})
<1> DEFINE h == history[r]
           e == [Row(h, n + 1, r, "edited", a) EXCEPT !.snapshot = f]
<1>1. h \in Records
  BY DEF HistoryInv, TypeOK
<1>2. e \in Rows /\ e.history = h /\ e.sequence = n + 1
  <2>1. Row(h, n + 1, r, "edited", a) \in Rows
    BY <1>1, RowType DEF Actions
  <2> QED BY <1>1, <2>1 DEF Row, Rows
<1>3. events' = events \cup {e}
  BY DEF StoreEdit
<1> HIDE DEF e
<1>4. Continues({e}, h, n)
  BY <1>1, <1>2, OneRowContinues
<1>5. TypeOK'
  BY <1>2, <1>3 DEF StoreEdit, HistoryInv, TypeOK, accountVars
<1>6. /\ state' = state /\ history' = history /\ owner' = owner
      /\ publishedAt' = publishedAt
      /\ \A x \in Records : x # r => fields'[x] = fields[x]
  BY DEF StoreEdit
<1>7. \A x \in Records : Frozen(x)
  BY <1>6 DEF Frozen, PublicStates, PendingStates
<1> QED BY <1>3, <1>4, <1>5, <1>6, <1>7 DEF Effect

LEMMA StoreWithdrawalEffect ==
  ASSUME HistoryInv, NEW a \in Accounts, NEW r \in Records, NEW n \in Nat,
         state[r] = "published", StoreWithdrawal(a, r, n)
  PROVE  Effect(history[r], n, {r})
<1> DEFINE h == history[r]
           e == Row(h, n + 1, r, "withdrawn", a)
<1>1. h \in Records
  BY DEF HistoryInv, TypeOK
<1>2. e \in Rows /\ e.history = h /\ e.sequence = n + 1
  BY <1>1, RowType DEF Row, Actions
<1>3. events' = events \cup {e}
  BY DEF StoreWithdrawal
<1> HIDE DEF e
<1>4. Continues({e}, h, n)
  BY <1>1, <1>2, OneRowContinues
<1>5. TypeOK'
  BY <1>2, <1>3
  DEF StoreWithdrawal, HistoryInv, TypeOK, accountVars, States, PublicStates
<1>6. /\ fields' = fields /\ history' = history /\ owner' = owner
      /\ publishedAt' = publishedAt
      /\ \A x \in Records : state'[x] = IF x = r THEN "withdrawn" ELSE state[x]
  BY DEF StoreWithdrawal, HistoryInv, TypeOK
<1>7. \A x \in Records : Frozen(x)
  BY <1>6 DEF Frozen, PublicStates
<1> QED BY <1>3, <1>4, <1>5, <1>6, <1>7 DEF Effect

LEMMA StoreApprovalEffect ==
  ASSUME HistoryInv, NEW a \in Accounts, NEW r \in Records, NEW n \in Nat,
         state[r] \in PendingStates, StoreApproval(a, r, n)
  PROVE  Effect(history[r], n, {r})
<1> DEFINE h == history[r]
           d == Row(h, n + 1, r, "approved", a)
           e == [Row(h, n + 2, r, "published", a) EXCEPT !.cause = n + 1]
<1>1. h \in Records
  BY DEF HistoryInv, TypeOK
<1>2. d \in Rows /\ d.history = h /\ d.sequence = n + 1
  BY <1>1, RowType DEF Row, Actions
<1>3. e \in Rows /\ e.history = h /\ e.sequence = n + 1 + 1
  <2>1. Row(h, n + 2, r, "published", a) \in Rows
    BY <1>1, RowType DEF Actions
  <2> QED BY <1>1, <2>1 DEF Row, Rows
<1>4. events' = events \cup ({d} \cup {e})
  BY DEF StoreApproval
<1> HIDE DEF d, e
<1>5. Continues({d} \cup {e}, h, n)
  <2>1. Continues({e}, h, n + 1)
    BY <1>1, <1>3, OneRowContinues
  <2> QED BY <1>1, <1>2, <2>1, RowsBeforeContinue
<1>6. TypeOK'
  BY <1>2, <1>3, <1>4
  DEF StoreApproval, HistoryInv, TypeOK, accountVars, States, PublicStates
<1>7. /\ fields' = fields /\ history' = history /\ owner' = owner
      /\ \A x \in Records : /\ state'[x] = IF x = r THEN "published" ELSE state[x]
                            /\ x # r => publishedAt'[x] = publishedAt[x]
  BY DEF StoreApproval, HistoryInv, TypeOK
<1>8. \A x \in Records : Frozen(x)
  BY <1>7 DEF Frozen, PublicStates, PendingStates
<1> QED BY <1>4, <1>5, <1>6, <1>7, <1>8 DEF Effect

-----------------------------------------------------------------------------
(* The operation of a running request, and the history it appends to.       *)
LEMMA RunningCall ==
  ASSUME TxnInv, NEW t \in Requests, status[t] = "running"
  PROVE  /\ call[t] \in Calls /\ call[t].op \in Ops /\ at[t] \in Nat \ {0}
         /\ at[t] \in DOMAIN Program[call[t].op]
         /\ call[t].record \in Records /\ call[t].fields \in Fields
         /\ call[t].actor \in Accounts
         /\ LockedRow(call[t]) \in Records /\ TargetHistory(call[t]) \in Records
<1>1. RequestInv(t) /\ HistoryInv
  BY DEF TxnInv
<1>2. call[t] \in Calls /\ at[t] \in DOMAIN Program[call[t].op]
  BY <1>1 DEF RequestInv, CallInv
<1>3. /\ call[t].op \in Ops /\ call[t].record \in Records
      /\ call[t].fields \in Fields /\ call[t].actor \in Accounts
  BY <1>2, ProgramOrder DEF Calls
<1>4. at[t] \in Nat \ {0}
  BY <1>2, <1>3, ProgramOrder
<1>5. LockedRow(call[t]) \in Records
  BY <1>1, <1>3 DEF RequestInv, CallInv, LockedRow, Source
<1>6. TargetHistory(call[t]) \in Records
  BY <1>1, <1>3, <1>5 DEF TargetHistory, HistoryForNewRecord, HistoryInv, TypeOK, Fields
<1> QED BY <1>2, <1>3, <1>4, <1>5, <1>6

(* A request that holds a history knows a stored record that is in it, or   *)
(* is about to start it.                                                    *)
LEMMA TargetStays ==
  ASSUME TxnInv, NEW u \in Requests, status[u] = "running", Passed(u, "lockHistory"),
         \A x \in Records : state[x] # "absent" => history'[x] = history[x],
         call'[u] = call[u]
  PROVE  TargetHistory(call[u])' = TargetHistory(call[u])
<1> DEFINE c == call[u]
<1>1. /\ c.op \in Ops /\ at[u] \in DOMAIN Program[c.op] /\ c.fields \in Fields
      /\ LockedRow(c) \in Records
  BY RunningCall
<1>2. Passed(u, IF c.op = "create" THEN "validate" ELSE "lockRow")
  BY <1>1, ProgramOrder, PassedBefore
<1>3. CASE c.op = "create"
  <2>1. c.fields.lineage # NoRecord =>
          c.fields.lineage \in Records /\ state[c.fields.lineage] # "absent"
    BY <1>1, <1>2, <1>3 DEF TxnInv, RequestInv, LineageInv, LineageFact, PublicStates, Fields
  <2> QED BY <1>3, <2>1 DEF TargetHistory, HistoryForNewRecord
<1>4. CASE c.op # "create"
  <2>1. state[LockedRow(c)] # "absent"
    BY <1>1, <1>2, <1>4
    DEF TxnInv, RequestInv, RowInv, RowFact, PublicStates, PendingStates, Ops
  <2>2. LockedRow(c)' = LockedRow(c)
    BY DEF LockedRow, Source
  <2> QED BY <1>1, <1>4, <2>1, <2>2 DEF TargetHistory
<1> QED BY <1>3, <1>4

(* A request that takes no step keeps its invariant, if the tables keep     *)
(* what its locks protect.                                                  *)
LEMMA OtherRequestKept ==
  ASSUME TxnInv, NEW u \in Requests,
         status'[u] = status[u], call'[u] = call[u], at'[u] = at[u],
         latest'[u] = latest[u],
         \A x \in Records : rowLock[x] = u => rowLock'[x] = u,
         \A h \in Records : historyLock[h] = u =>
           historyLock'[h] = u /\ Latest(h)' = Latest(h),
         \A x \in Records : state[x] # "absent" =>
           state'[x] # "absent" /\ history'[x] = history[x],
         \A x \in Records : state[x] \in PublicStates => state'[x] \in PublicStates,
         status[u] = "running" /\ Passed(u, "lockRow") =>
           state'[LockedRow(call[u])] = state[LockedRow(call[u])],
         status[u] = "running" /\ call[u].op \in Inserting =>
           state'[call[u].record] = state[call[u].record]
  PROVE  RequestInv(u)'
<1> SUFFICES ASSUME status[u] = "running"
             PROVE  RequestInv(u)'
  BY DEF RequestInv
<1>1. /\ call[u].op \in Ops /\ call[u].record \in Records /\ call[u].fields \in Fields
      /\ LockedRow(call[u]) \in Records /\ TargetHistory(call[u]) \in Records
  BY RunningCall
<1>2. RequestInv(u)
  BY DEF TxnInv
<1>3. \A s : Passed(u, s)' <=> Passed(u, s)
  BY DEF Passed
<1>4. CallInv(u)'
  BY <1>1, <1>2 DEF RequestInv, CallInv
<1>5. RowInv(u)'
  <2>1. LockedRow(call[u])' = LockedRow(call[u])
    BY DEF LockedRow, Source
  <2> QED BY <1>1, <1>2, <1>3, <2>1 DEF RequestInv, RowInv, RowFact
<1>6. LineageInv(u)'
  BY <1>1, <1>2, <1>3 DEF RequestInv, LineageInv, LineageFact, Fields
<1>7. NumberInv(u)'
  <2> SUFFICES ASSUME Passed(u, "lockHistory")
               PROVE  /\ historyLock[TargetHistory(call[u])]' = u
                      /\ latest[u]' = Latest(TargetHistory(call[u]))'
    BY <1>3 DEF NumberInv
  <2> DEFINE h == TargetHistory(call[u])
  <2>1. h' = h
    BY TargetStays
  <2>2. historyLock[h] = u /\ latest[u] = Latest(h)
    BY <1>2 DEF RequestInv, NumberInv
  <2>3. Latest(h)' = Latest(h) /\ historyLock'[h] = u
    <3>1. \A g \in Records : historyLock[g] = u =>
            historyLock'[g] = u /\ Latest(g)' = Latest(g)
      OBVIOUS
    <3>2. \A g : g = h => (Latest(h)' = Latest(g)')
      BY <2>1 DEF Latest, SequencesOf, RowsOf
    <3> QED BY <1>1, <2>2, <3>1, <3>2
  <2> QED BY <2>1, <2>2, <2>3
<1> QED BY <1>2, <1>4, <1>5, <1>6, <1>7 DEF RequestInv

(* A step that leaves the tables alone does so for every request.           *)
LEMMA UnchangedTables ==
  ASSUME TxnInv, UNCHANGED vars
  PROVE  /\ HistoryInv' /\ state' = state /\ history' = history /\ fields' = fields
         /\ \A h : Latest(h)' = Latest(h)
<1>1. HistoryInv'
  BY NextHistoryInv DEF TxnInv
<1>2. /\ state' = state /\ history' = history /\ fields' = fields /\ events' = events
  BY DEF vars, recordVars
<1>3. \A h : Latest(h)' = Latest(h)
  BY <1>2 DEF Latest, SequencesOf, RowsOf
<1> QED BY <1>1, <1>2, <1>3

-----------------------------------------------------------------------------
(* The end of a request: its locks are free, the others' are as they were.  *)
LEMMA FinishLocks ==
  ASSUME TxnInv, NEW t \in Requests, status[t] = "running",
         NEW outcome \in {"committed", "refused", "failed"}, Finish(t, outcome)
  PROVE  /\ RequestTypes' /\ LocksInv' /\ FreshInv' /\ RequestInv(t)'
         /\ \A u \in Requests \ {t} :
              /\ status'[u] = status[u] /\ call'[u] = call[u] /\ at'[u] = at[u]
              /\ latest'[u] = latest[u]
              /\ \A x \in Records : /\ rowLock[x] = u => rowLock'[x] = u
                                    /\ historyLock[x] = u => historyLock'[x] = u
<1>1. RequestTypes /\ LocksInv /\ FreshInv
  BY DEF TxnInv
<1>2. \A u \in Requests \ {t} :
        /\ status'[u] = status[u] /\ call'[u] = call[u] /\ at'[u] = at[u]
        /\ latest'[u] = latest[u]
        /\ \A x \in Records : /\ rowLock[x] = u => rowLock'[x] = u
                              /\ historyLock[x] = u => historyLock'[x] = u
  BY <1>1 DEF Finish, RequestTypes
<1>3. status'[t] = outcome
  BY <1>1 DEF Finish, RequestTypes
<1>4. RequestTypes'
  BY <1>1 DEF Finish, RequestTypes
<1>5. LocksInv'
  <2>1. \A x \in Records : rowLock'[x] \in Requests =>
          rowLock'[x] = rowLock[x] /\ rowLock[x] # t
    BY TransactionsAssumption DEF Finish, Requests
  <2>2. \A x \in Records : historyLock'[x] \in Requests =>
          historyLock'[x] = historyLock[x] /\ historyLock[x] # t
    BY TransactionsAssumption DEF Finish, Requests
  <2> QED BY <1>1, <1>2, <2>1, <2>2 DEF LocksInv
<1>6. FreshInv'
  BY <1>1, <1>2, <1>3 DEF FreshInv
<1> QED BY <1>2, <1>3, <1>4, <1>5, <1>6 DEF RequestInv

LEMMA RefuseInv ==
  ASSUME TxnInv, NEW t \in Requests, status[t] = "running",
         NEW outcome \in {"refused", "failed"}, Refuse(t, outcome)
  PROVE  TxnInv'
<1>1. Finish(t, outcome) /\ UNCHANGED vars
  BY DEF Refuse
<1>2. /\ HistoryInv' /\ state' = state /\ history' = history
      /\ \A h : Latest(h)' = Latest(h)
  BY <1>1, UnchangedTables
<1>3. /\ RequestTypes' /\ LocksInv' /\ FreshInv' /\ RequestInv(t)'
      /\ \A u \in Requests \ {t} :
           /\ status'[u] = status[u] /\ call'[u] = call[u] /\ at'[u] = at[u]
           /\ latest'[u] = latest[u]
           /\ \A x \in Records : /\ rowLock[x] = u => rowLock'[x] = u
                                 /\ historyLock[x] = u => historyLock'[x] = u
  BY <1>1, FinishLocks
<1>4. ASSUME NEW u \in Requests, u # t
      PROVE  RequestInv(u)'
  BY <1>2, <1>3, <1>4, OtherRequestKept
<1> QED BY <1>2, <1>3, <1>4 DEF TxnInv

(* A statement that goes on to the next one: it passes with what the        *)
(* invariant asks of it, and takes no lock that another request holds.      *)
LEMMA ProceedInv ==
  ASSUME TxnInv, NEW t \in Requests, status[t] = "running",
         Program[call[t].op][at[t]] # "commit",
         Proceed(t), RequestTypes', LocksInv',
         \A u \in Requests \ {t} : call'[u] = call[u] /\ latest'[u] = latest[u],
         call'[t] \in Calls, call'[t].op = call[t].op,
         call'[t].record = call[t].record,
         call'[t] = call[t] \/ call[t].op = "update",
         \A x \in Records : rowLock[x] \in Requests => rowLock'[x] = rowLock[x],
         \A x \in Records : historyLock[x] \in Requests => historyLock'[x] = historyLock[x],
         Program[call[t].op][at[t]] = "lockRow" =>
           rowLock'[LockedRow(call[t])] = t /\ RowFact(call[t]),
         Program[call[t].op][at[t]] = "validate" => LineageFact(call[t]),
         IF Program[call[t].op][at[t]] = "lockHistory"
         THEN /\ historyLock'[TargetHistory(call[t])] = t
              /\ latest'[t] = Latest(TargetHistory(call[t]))
         ELSE latest'[t] = latest[t]
  PROVE  TxnInv'
<1> DEFINE c == call[t]
           s == Program[c.op][at[t]]
<1>1. /\ c \in Calls /\ c.op \in Ops /\ at[t] \in Nat \ {0}
      /\ at[t] \in DOMAIN Program[c.op]
      /\ LockedRow(c) \in Records /\ TargetHistory(c) \in Records
  BY RunningCall
<1>2. /\ HistoryInv' /\ state' = state /\ history' = history
      /\ \A h : Latest(h)' = Latest(h)
  BY UnchangedTables DEF Proceed
<1>3. /\ status' = status /\ at' = [at EXCEPT ![t] = @ + 1]
      /\ RequestTypes /\ LocksInv /\ FreshInv /\ RequestInv(t)
  BY DEF Proceed, TxnInv
<1>4. at'[t] = at[t] + 1 /\ \A u \in Requests \ {t} : at'[u] = at[u]
  BY <1>3 DEF RequestTypes
<1>5. FreshInv'
  BY <1>3 DEF FreshInv
<1>6. ASSUME NEW u \in Requests, u # t
      PROVE  RequestInv(u)'
  BY <1>2, <1>3, <1>4, <1>6, OtherRequestKept
<1>7. \A p : Passed(t, p)' <=> Passed(t, p) \/ s = p
  BY <1>1, <1>4, PassedNext
<1>8. /\ LockedRow(call[t])' = LockedRow(c)
      /\ TargetHistory(call[t])' = TargetHistory(c)
  <2>1. CASE call'[t] = c
    BY <1>2, <2>1 DEF LockedRow, Source, TargetHistory, HistoryForNewRecord
  <2>2. CASE c.op = "update"
    <3>1. /\ LockedRow(call[t])' = c.record /\ LockedRow(c) = c.record
      BY <2>2 DEF LockedRow, Succeeding
    <3> QED BY <1>2, <2>2, <3>1 DEF TargetHistory
  <2> QED BY <2>1, <2>2
<1>9. RequestInv(t)'
  <2>1. at'[t] \in DOMAIN Program[call'[t].op]
    BY <1>1, <1>4, ProgramOrder
  <2>2. CallInv(t)'
    BY <1>2, <1>3 DEF RequestInv, CallInv, Succeeding
  <2>3. RowInv(t)'
    <3>1. Passed(t, "lockRow")' => rowLock'[LockedRow(c)] = t /\ RowFact(c)
      BY <1>1, <1>3, <1>7 DEF RequestInv, RowInv
    <3>2. RowFact(c) => RowFact(call[t])'
      BY <1>2, <1>8 DEF RowFact
    <3> QED BY <1>8, <3>1, <3>2 DEF RowInv
  <2>4. LineageInv(t)'
    <3>1. Passed(t, "validate")' => LineageFact(c)
      BY <1>3, <1>7 DEF RequestInv, LineageInv
    <3>2. LineageFact(c) => LineageFact(call[t])'
      BY <1>2 DEF LineageFact
    <3> QED BY <3>1, <3>2 DEF LineageInv
  <2>5. NumberInv(t)'
    <3> SUFFICES ASSUME Passed(t, "lockHistory")'
                 PROVE  /\ historyLock'[TargetHistory(c)] = t
                        /\ latest'[t] = Latest(TargetHistory(c))
      <4>1. Latest(TargetHistory(call[t]))' = Latest(TargetHistory(c))
        <5>1. \A g : g = TargetHistory(c) =>
                Latest(TargetHistory(call[t]))' = Latest(g)'
          BY <1>8 DEF Latest, SequencesOf, RowsOf
        <5> QED BY <1>2, <5>1
      <4> QED BY <1>8, <4>1 DEF NumberInv
    <3>1. CASE s = "lockHistory"
      BY <3>1
    <3>2. CASE s # "lockHistory"
      BY <1>1, <1>3, <1>7, <3>2 DEF RequestInv, NumberInv
    <3> QED BY <3>1, <3>2
  <2> QED BY <1>3, <2>1, <2>2, <2>3, <2>4, <2>5 DEF RequestInv
<1> QED BY <1>2, <1>5, <1>6, <1>9 DEF TxnInv

-----------------------------------------------------------------------------
LEMMA LockRowInv ==
  ASSUME TxnInv, NEW t \in Requests, LockRow(t)
  PROVE  TxnInv'
<1> DEFINE c == call[t]
<1>1. /\ status[t] = "running" /\ Program[c.op][at[t]] = "lockRow"
      /\ WaitsFor(t) = {}
  BY DEF LockRow, Running
<1>2. /\ c \in Calls /\ c.op \in Ops /\ LockedRow(c) \in Records
      /\ at[t] \in DOMAIN Program[c.op]
  BY <1>1, RunningCall
<1>3. rowLock[LockedRow(c)] \in {t, NoRequest}
  BY <1>1 DEF WaitsFor, Running
<1>4. CASE RowAdmits(c)
  <2>1. /\ rowLock' = [rowLock EXCEPT ![LockedRow(c)] = t] /\ Proceed(t)
        /\ call' = call /\ reapproval' = reapproval /\ latest' = latest
        /\ historyLock' = historyLock /\ status' = status
    BY <1>4 DEF LockRow, Proceed
  <2>2. RequestTypes /\ LocksInv
    BY DEF TxnInv
  <2>3. RequestTypes'
    BY <1>2, <2>1, <2>2 DEF RequestTypes, Proceed
  <2>4. LocksInv'
    BY <1>1, <2>1, <2>2 DEF RequestTypes, LocksInv
  <2>5. \A x \in Records : rowLock[x] \in Requests => rowLock'[x] = rowLock[x]
    BY <1>3, <2>1, <2>2, TransactionsAssumption DEF RequestTypes, Requests
  <2>6. rowLock'[LockedRow(c)] = t
    BY <1>2, <2>1, <2>2 DEF RequestTypes
  <2>7. RowFact(c)
    <3>1. c.op \in {"withdraw", "update", "approve"} => LockedRow(c) = c.record
      BY DEF LockedRow, Succeeding
    <3>2. c.op \in {"successor", "replace"} => LockedRow(c) = Source(c)
      BY DEF LockedRow, Succeeding
    <3>3. CASE c.op = "withdraw"
      BY <1>4, <3>1, <3>3 DEF RowAdmits, RowFact
    <3>4. CASE c.op = "update"
      BY <1>4, <3>1, <3>4 DEF RowAdmits, RowFact, EditableStates
    <3>5. CASE c.op = "approve"
      BY <1>4, <3>1, <3>5 DEF RowAdmits, RowFact, Approvable
    <3>6. CASE c.op = "successor"
      BY <1>4, <3>2, <3>6 DEF RowAdmits, RowFact
    <3>7. CASE c.op = "replace"
      BY <1>4, <3>2, <3>7 DEF RowAdmits, RowFact
    <3>8. CASE c.op = "create"
      BY <3>8 DEF RowFact
    <3> QED BY <1>2, <3>3, <3>4, <3>5, <3>6, <3>7, <3>8 DEF Ops
  <2> QED BY <1>1, <1>2, <2>1, <2>3, <2>4, <2>5, <2>6, <2>7, ProceedInv
<1>5. CASE ~RowAdmits(c)
  BY <1>1, <1>5, RefuseInv DEF LockRow
<1> QED BY <1>4, <1>5

LEMMA ValidateInv ==
  ASSUME TxnInv, NEW t \in Requests, Validate(t)
  PROVE  TxnInv'
<1> DEFINE c == call[t]
<1>1. status[t] = "running" /\ Program[c.op][at[t]] = "validate"
  BY DEF Validate, Running
<1>2. /\ c \in Calls /\ c.op \in Ops /\ c.fields \in Fields /\ c.record \in Records
  BY <1>1, RunningCall
<1>3. CASE Validates(c)
  <2>1. /\ call' = IF c.op = "update"
                   THEN [call EXCEPT ![t].fields = PinnedFields(c.record, c.fields)]
                   ELSE call
        /\ \E b \in BOOLEAN : reapproval' = [reapproval EXCEPT ![t] = b]
        /\ Proceed(t) /\ latest' = latest /\ rowLock' = rowLock
        /\ historyLock' = historyLock /\ status' = status
    BY <1>3 DEF Validate, Proceed
  <2>2. RequestTypes /\ LocksInv /\ HistoryInv
    BY DEF TxnInv
  <2>3. PinnedFields(c.record, c.fields) \in Fields
    BY <1>2, <2>2 DEF PinnedFields, Fields, HistoryInv, TypeOK
  <2>4. /\ call' \in [Requests -> Calls \cup {NoCall}]
        /\ call'[t] \in Calls /\ call'[t].op = c.op /\ call'[t].record = c.record
        /\ \A u \in Requests \ {t} : call'[u] = call[u]
        /\ call'[t] = c \/ c.op = "update"
    <3>1. CASE c.op = "update"
      <4> DEFINE d == [c EXCEPT !.fields = PinnedFields(c.record, c.fields)]
      <4>1. d \in Calls /\ d.op = c.op /\ d.record = c.record
        BY <1>2, <2>3 DEF Calls
      <4>2. call' = [call EXCEPT ![t] = d]
        BY <2>1, <2>2, <3>1 DEF RequestTypes
      <4> HIDE DEF d
      <4> QED BY <2>2, <3>1, <4>1, <4>2 DEF RequestTypes
    <3>2. CASE c.op # "update"
      BY <1>2, <2>1, <2>2, <3>2 DEF RequestTypes
    <3> QED BY <3>1, <3>2
  <2>5. RequestTypes'
    BY <1>2, <2>1, <2>2, <2>4 DEF RequestTypes, Proceed
  <2>6. LocksInv'
    BY <2>1, <2>2 DEF LocksInv
  <2>7. LineageFact(c)
    BY <1>3 DEF Validates, LineageFact, ValidFields, LineageStates, PublicStates
  <2>8. Program[c.op][at[t]] \notin {"commit", "lockRow", "lockHistory"}
    BY <1>1
  <2> QED BY <1>1, <2>1, <2>4, <2>5, <2>6, <2>7, <2>8, ProceedInv
<1>4. CASE ~Validates(c)
  BY <1>1, <1>4, RefuseInv DEF Validate
<1> QED BY <1>3, <1>4

LEMMA InsertInv ==
  ASSUME TxnInv, NEW t \in Requests, Insert(t)
  PROVE  TxnInv'
<1> DEFINE c == call[t]
<1>1. status[t] = "running" /\ Program[c.op][at[t]] = "insert"
  BY DEF Insert, Running
<1>2. c \in Calls
  BY <1>1, RunningCall
<1>3. CASE ~IndexConflict(t)
  <2>1. /\ Proceed(t) /\ call' = call /\ reapproval' = reapproval /\ latest' = latest
        /\ rowLock' = rowLock /\ historyLock' = historyLock /\ status' = status
    BY <1>3 DEF Insert, Proceed
  <2>2. RequestTypes /\ LocksInv
    BY DEF TxnInv
  <2>3. RequestTypes' /\ LocksInv'
    BY <2>1, <2>2 DEF RequestTypes, LocksInv, Proceed
  <2> QED BY <1>1, <1>2, <2>1, <2>3, ProceedInv
<1>4. CASE IndexConflict(t)
  BY <1>1, <1>4, RefuseInv DEF Insert
<1> QED BY <1>3, <1>4

LEMMA LockHistoryInv ==
  ASSUME TxnInv, NEW t \in Requests, LockHistory(t)
  PROVE  TxnInv'
<1> DEFINE c == call[t]
           h == TargetHistory(c)
<1>1. /\ status[t] = "running" /\ Program[c.op][at[t]] = "lockHistory"
      /\ WaitsFor(t) = {} /\ Proceed(t) /\ call' = call /\ reapproval' = reapproval
      /\ rowLock' = rowLock /\ status' = status
      /\ historyLock' = [historyLock EXCEPT ![h] = t]
      /\ latest' = [latest EXCEPT ![t] = Latest(h)]
  BY DEF LockHistory, Running, Proceed
<1>2. c \in Calls /\ h \in Records
  BY <1>1, RunningCall
<1>3. RequestTypes /\ LocksInv /\ HistoryInv
  BY DEF TxnInv
<1>4. Latest(h) \in Nat
  BY <1>2, <1>3, LatestNat
<1>5. historyLock[h] \in {t, NoRequest}
  BY <1>1 DEF WaitsFor, Running
<1> HIDE DEF h
<1>6. RequestTypes'
  BY <1>1, <1>2, <1>3, <1>4 DEF RequestTypes, Proceed
<1>7. LocksInv'
  BY <1>1, <1>2, <1>3 DEF RequestTypes, LocksInv
<1>8. \A x \in Records : historyLock[x] \in Requests => historyLock'[x] = historyLock[x]
  BY <1>1, <1>3, <1>5, TransactionsAssumption DEF RequestTypes, Requests
<1>9. /\ historyLock'[h] = t /\ latest'[t] = Latest(h)
      /\ \A u \in Requests \ {t} : latest'[u] = latest[u]
  BY <1>1, <1>2, <1>3 DEF RequestTypes
<1> QED BY <1>1, <1>2, <1>6, <1>7, <1>8, <1>9, ProceedInv DEF h

-----------------------------------------------------------------------------
(* A commit: the operation is carried out on the rows it has locked, in the *)
(* state they had when they were locked, and at the end of its history.     *)
Touched(c) == {c.record} \cup (IF c.op \in Succeeding THEN {Source(c)} ELSE {})

LEMMA CommitEffect ==
  ASSUME TxnInv, NEW t \in Requests, Commit(t)
  PROVE  /\ Effect(TargetHistory(call[t]), Latest(TargetHistory(call[t])), Touched(call[t]))
         /\ historyLock[TargetHistory(call[t])] = t
         /\ call[t].op # "create" => Passed(t, "lockRow") /\ RowFact(call[t])
<1> DEFINE c == call[t]
           h == TargetHistory(c)
           n == latest[t]
<1>1. status[t] = "running" /\ Program[c.op][at[t]] = "commit"
  BY DEF Commit, Running
<1>2. /\ c.op \in Ops /\ c.record \in Records /\ c.fields \in Fields
      /\ c.actor \in Accounts /\ at[t] \in DOMAIN Program[c.op]
      /\ LockedRow(c) \in Records /\ h \in Records
  BY <1>1, RunningCall
<1>3. /\ HistoryInv /\ RequestInv(t) /\ reapproval[t] \in BOOLEAN /\ n \in Nat
  BY DEF TxnInv, RequestTypes
<1>4. historyLock[h] = t /\ n = Latest(h)
  <2>1. Passed(t, "lockHistory")
    BY <1>1, <1>2, ProgramOrder, PassedBefore
  <2> QED BY <1>1, <1>3, <2>1 DEF RequestInv, NumberInv
<1>5. c.op # "create" => Passed(t, "lockRow") /\ RowFact(c)
  <2>1. c.op # "create" => Passed(t, "lockRow")
    BY <1>1, <1>2, ProgramOrder, PassedBefore
  <2> QED BY <1>1, <1>3, <2>1 DEF RequestInv, RowInv
<1>6. c.op \in Inserting => state[c.record] = "absent"
  BY <1>1, <1>3 DEF RequestInv, CallInv
<1>7. \A x \in Records : Effect(h, n, {x}) /\ x \in Touched(c) => Effect(h, n, Touched(c))
  BY DEF Effect
<1> HIDE DEF h, n
<1>8. CASE c.op \in {"create", "successor"}
  <2>1. StoreSubmission(c.actor, c.record, c.fields, reapproval[t], h, n)
    BY <1>8 DEF Commit, h, n
  <2>2. Effect(h, n, {c.record})
    BY <1>2, <1>3, <1>6, <1>8, <2>1, StoreSubmissionEffect DEF Inserting
  <2> QED BY <1>2, <1>4, <1>5, <1>7, <2>2 DEF Touched, h
<1>9. CASE c.op = "replace"
  <2>1. StoreReplacement(c.actor, Source(c), c.record, c.fields, n)
    BY <1>9 DEF Commit, n
  <2>2. LockedRow(c) = Source(c) /\ h = history[Source(c)]
    BY <1>9 DEF LockedRow, TargetHistory, Succeeding, h
  <2>3. state[Source(c)] = "published"
    BY <1>5, <1>9, <2>2 DEF RowFact
  <2>4. Effect(h, n, {c.record, Source(c)})
    BY <1>2, <1>3, <1>6, <1>9, <2>1, <2>2, <2>3, StoreReplacementEffect DEF Inserting
  <2>5. Touched(c) = {c.record, Source(c)}
    BY <1>9 DEF Touched, Succeeding
  <2> QED BY <1>4, <1>5, <2>4, <2>5 DEF h
<1>10. CASE c.op \in {"update", "withdraw", "approve"}
  <2>1. LockedRow(c) = c.record /\ h = history[c.record]
    BY <1>10 DEF LockedRow, TargetHistory, Succeeding, h
  <2>2. Effect(h, n, {c.record})
    <3>1. CASE c.op = "update"
      <4>1. StoreEdit(c.actor, c.record, c.fields, n)
        BY <3>1 DEF Commit, n
      <4> QED BY <1>2, <1>3, <1>5, <2>1, <3>1, <4>1, StoreEditEffect DEF RowFact
    <3>2. CASE c.op = "withdraw"
      <4>1. StoreWithdrawal(c.actor, c.record, n)
        BY <3>2 DEF Commit, n
      <4> QED BY <1>2, <1>3, <1>5, <2>1, <3>2, <4>1, StoreWithdrawalEffect DEF RowFact
    <3>3. CASE c.op = "approve"
      <4>1. StoreApproval(c.actor, c.record, n)
        BY <3>3 DEF Commit, n
      <4> QED BY <1>2, <1>3, <1>5, <2>1, <3>3, <4>1, StoreApprovalEffect DEF RowFact
    <3> QED BY <1>10, <3>1, <3>2, <3>3
  <2> QED BY <1>2, <1>4, <1>5, <1>7, <2>2 DEF Touched, h
<1> QED BY <1>2, <1>8, <1>9, <1>10 DEF Ops

LEMMA CommitInv ==
  ASSUME TxnInv, NEW t \in Requests, Commit(t)
  PROVE  TxnInv'
<1> DEFINE c == call[t]
           h == TargetHistory(c)
           n == Latest(h)
<1>1. status[t] = "running" /\ Finish(t, "committed")
  BY DEF Commit, Running
<1>2. /\ c.op \in Ops /\ c.record \in Records /\ h \in Records
  BY <1>1, RunningCall
<1>3. /\ Effect(h, n, Touched(c)) /\ historyLock[h] = t
      /\ c.op # "create" => Passed(t, "lockRow") /\ RowFact(c)
  BY CommitEffect
<1>4. /\ RequestTypes' /\ LocksInv' /\ FreshInv' /\ RequestInv(t)'
      /\ \A u \in Requests \ {t} :
           /\ status'[u] = status[u] /\ call'[u] = call[u] /\ at'[u] = at[u]
           /\ latest'[u] = latest[u]
           /\ \A x \in Records : /\ rowLock[x] = u => rowLock'[x] = u
                                 /\ historyLock[x] = u => historyLock'[x] = u
  BY <1>1, FinishLocks
<1> HIDE DEF h, n
<1>5. PICK C : Continues(C, h, n) /\ events' = events \cup C
  BY <1>3 DEF Effect
<1>6. HistoryInv'
  <2>1. HistoryInv
    BY DEF TxnInv
  <2>2. Continues(C, h, Latest(h))
    BY <1>5 DEF n
  <2>3. \A g \in Records : Numbered(g)' /\ UniqueSequence(g)'
    BY <1>2, <1>5, <2>1, <2>2, HistoryContinues
  <2> QED BY <1>3, <2>3 DEF HistoryInv, Effect
<1>7. \A g \in Records : g # h => Latest(g)' = Latest(g)
  <2> SUFFICES ASSUME NEW g \in Records, g # h
               PROVE  Latest(g)' = Latest(g)
    OBVIOUS
  <2>1. RowsOf(g)' = RowsOf(g)
    BY <1>5 DEF RowsOf, Continues
  <2>2. SequencesOf(g)' = SequencesOf(g)
    BY <2>1 DEF SequencesOf
  <2> QED BY <2>1, <2>2 DEF Latest
<1>8. ASSUME NEW u \in Requests, u # t
      PROVE  RequestInv(u)'
  <2> DEFINE d == call[u]
  <2>1. RequestInv(u) /\ FreshInv
    BY DEF TxnInv
  <2>2. \A g \in Records : historyLock[g] = u => historyLock'[g] = u /\ Latest(g)' = Latest(g)
    BY <1>3, <1>4, <1>7, <1>8
  <2>3. \A x \in Records :
          /\ state[x] # "absent" => state'[x] # "absent" /\ history'[x] = history[x]
          /\ state[x] \in PublicStates => state'[x] \in PublicStates
          /\ x \notin Touched(c) => state'[x] = state[x]
    BY <1>3 DEF Effect, Frozen
  <2>4. c.op \in Inserting => state[c.record] = "absent"
    BY <1>1 DEF TxnInv, RequestInv, CallInv
  <2>5. c.op \in Succeeding =>
          /\ LockedRow(c) = Source(c) /\ state[Source(c)] # "absent"
          /\ rowLock[Source(c)] = t /\ c.op \in Inserting
    BY <1>1, <1>3 DEF TxnInv, RequestInv, RowInv, RowFact, LockedRow, Succeeding,
       Inserting, PublicStates
  <2>6. c.op \notin Inserting => LockedRow(c) = c.record /\ rowLock[c.record] = t
    BY <1>1, <1>3 DEF TxnInv, RequestInv, RowInv, LockedRow, Succeeding, Inserting
  <2>7. status[u] = "running" /\ Passed(u, "lockRow") =>
          state'[LockedRow(d)] = state[LockedRow(d)]
    <3> SUFFICES ASSUME status[u] = "running", Passed(u, "lockRow")
                 PROVE  LockedRow(d) \notin Touched(c)
      BY <2>3, RunningCall
    <3>1. d.op \in Ops /\ rowLock[LockedRow(d)] = u /\ RowFact(d)
      BY <2>1, RunningCall DEF RequestInv, RowInv
    <3>2. d.op # "create"
      BY RunningCall, PassedBefore, ProgramOrder
    <3>3. state[LockedRow(d)] # "absent"
      BY <3>1, <3>2 DEF RowFact, Ops, PublicStates, PendingStates
    <3> QED BY <1>8, <2>4, <2>5, <2>6, <3>1, <3>3 DEF Touched
  <2>8. status[u] = "running" /\ d.op \in Inserting =>
          state'[d.record] = state[d.record]
    <3> SUFFICES ASSUME status[u] = "running", d.op \in Inserting
                 PROVE  d.record \notin Touched(c)
      BY <2>3, RunningCall
    <3>1. d.record # c.record
      BY <1>1, <1>8, <2>1 DEF FreshInv
    <3>2. state[d.record] = "absent"
      BY <2>1 DEF RequestInv, CallInv
    <3> QED BY <2>5, <3>1, <3>2 DEF Touched
  <2> QED BY <1>4, <1>8, <2>2, <2>3, <2>7, <2>8, OtherRequestKept
<1> QED BY <1>4, <1>6, <1>8 DEF TxnInv

-----------------------------------------------------------------------------
LEMMA BeginInv ==
  ASSUME TxnInv, NEW t \in Requests, NEW c \in Calls,
         c.op \in Succeeding => c.fields.lineage # NoRecord, Begin(t, c)
  PROVE  TxnInv'
<1>1. /\ status[t] = "idle" /\ UNCHANGED vars
      /\ status' = [status EXCEPT ![t] = "running"]
      /\ call' = [call EXCEPT ![t] = c] /\ at' = [at EXCEPT ![t] = 1]
      /\ reapproval' = reapproval /\ latest' = latest
      /\ rowLock' = rowLock /\ historyLock' = historyLock
  BY DEF Begin
<1>2. RequestTypes /\ LocksInv /\ FreshInv
  BY DEF TxnInv
<1>3. /\ HistoryInv' /\ state' = state /\ history' = history
      /\ \A h : Latest(h)' = Latest(h)
  BY <1>1, UnchangedTables
<1>4. /\ status'[t] = "running" /\ call'[t] = c /\ at'[t] = 1
      /\ \A u \in Requests \ {t} :
           status'[u] = status[u] /\ call'[u] = call[u] /\ at'[u] = at[u]
  BY <1>1, <1>2 DEF RequestTypes
<1>5. RequestTypes'
  BY <1>1, <1>2 DEF RequestTypes
<1>6. LocksInv'
  BY <1>1, <1>2 DEF LocksInv, RequestTypes
<1>7. IF c.op \in Inserting
      THEN /\ state[c.record] = "absent"
           /\ \A u \in Requests : status[u] = "running" => call[u].record # c.record
      ELSE state[c.record] # "absent"
  BY DEF Begin, Fresh
<1>8. FreshInv'
  <2>1. \A u \in Requests : status[u] = "running" /\ call[u].op \in Inserting =>
          state[call[u].record] = "absent"
    BY DEF TxnInv, RequestInv, CallInv
  <2> QED BY <1>2, <1>4, <1>7, <2>1 DEF FreshInv
<1>9. ASSUME NEW u \in Requests, u # t
      PROVE  RequestInv(u)'
  BY <1>1, <1>3, <1>4, <1>9, OtherRequestKept
<1>10. RequestInv(t)'
  <2>1. c.op \in Ops /\ 1 \in DOMAIN Program[c.op] /\ c.fields \in Fields
    BY ProgramOrder DEF Calls
  <2>2. CallInv(t)'
    BY <1>3, <1>4, <1>7, <2>1 DEF CallInv, Fields
  <2>3. \A s : ~Passed(t, s)'
    BY <1>4 DEF Passed
  <2> QED BY <1>4, <2>1, <2>2, <2>3 DEF RequestInv, RowInv, LineageInv, NumberInv
<1> QED BY <1>3, <1>5, <1>6, <1>8, <1>9, <1>10 DEF TxnInv

(* Only a running request is part of a deadlock.                            *)
LEMMA VictimRuns ==
  ASSUME NEW t \in Requests, Deadlocked(t)
  PROVE  status[t] = "running"
<1>1. PICK S \in SUBSET Requests : t \in S /\ WaitCycle(S)
  BY DEF Deadlocked
<1>2. WaitsFor(t) # {}
  BY <1>1 DEF WaitCycle
<1> QED BY <1>2 DEF WaitsFor

LEMMA NextTxnInv == TxnInv /\ [TxnNext]_txnVars => TxnInv'
<1> SUFFICES ASSUME TxnInv, [TxnNext]_txnVars PROVE TxnInv'
  OBVIOUS
<1>1. ASSUME NEW t \in Requests, Statement(t)
      PROVE  TxnInv'
  BY <1>1, LockRowInv, ValidateInv, InsertInv, LockHistoryInv, CommitInv DEF Statement
<1>2. ASSUME NEW t \in Requests, AbortVictim(t) \/ Rollback(t)
      PROVE  TxnInv'
  <2>1. Refuse(t, "failed")
    BY <1>2 DEF AbortVictim, Rollback
  <2>2. status[t] = "running"
    BY <1>2, VictimRuns DEF AbortVictim, Rollback
  <2> QED BY <2>1, <2>2, RefuseInv
<1>3. ASSUME NEW t \in Requests, NEW a \in Accounts, NEW r \in Records,
             NEW op \in Operations \cap WithoutForm,
             Begin(t, [op |-> op, actor |-> a, record |-> r, fields |-> NoFields])
      PROVE  TxnInv'
  <2> DEFINE c == [op |-> op, actor |-> a, record |-> r, fields |-> NoFields]
  <2>1. NoFields \in Fields
    BY SubmissionsAssumption DEF NoFields, Fields
  <2>2. c \in Calls /\ c.op \notin Succeeding
    BY <2>1, ProgramOrder DEF Calls, WithoutForm, Succeeding, Ops
  <2> HIDE DEF c
  <2>3. Begin(t, c)
    BY <1>3 DEF c
  <2> QED BY <2>2, <2>3, BeginInv
<1>4. ASSUME NEW t \in Requests, NEW a \in Accounts, NEW r \in Records,
             NEW op \in Operations \ WithoutForm, NEW f \in Forms,
             op \in Succeeding => f.lineage # NoRecord,
             Begin(t, [op |-> op, actor |-> a, record |-> r, fields |-> f])
      PROVE  TxnInv'
  <2> DEFINE c == [op |-> op, actor |-> a, record |-> r, fields |-> f]
  <2>1. c \in Calls /\ c.op = op /\ c.fields = f
    BY TransactionsAssumption, ProgramOrder DEF Calls, Ops
  <2> HIDE DEF c
  <2>2. Begin(t, c)
    BY <1>4 DEF c
  <2> QED BY <1>4, <2>1, <2>2, BeginInv
<1>5. CASE UNCHANGED txnVars
  <2>1. UNCHANGED vars /\ UNCHANGED requestVars
    BY <1>5 DEF txnVars
  <2>2. /\ status' = status /\ call' = call /\ at' = at /\ latest' = latest
        /\ reapproval' = reapproval /\ rowLock' = rowLock /\ historyLock' = historyLock
    BY <2>1 DEF requestVars
  <2>3. /\ HistoryInv' /\ state' = state /\ history' = history
        /\ \A h : Latest(h)' = Latest(h)
    BY <2>1, UnchangedTables
  <2>4. RequestTypes' /\ LocksInv' /\ FreshInv'
    BY <2>2 DEF TxnInv, RequestTypes, LocksInv, FreshInv
  <2>5. \A u \in Requests : RequestInv(u)'
    BY <2>2, <2>3, OtherRequestKept
  <2> QED BY <2>3, <2>4, <2>5 DEF TxnInv
<1> QED BY <1>1, <1>2, <1>3, <1>4, <1>5 DEF TxnNext

LEMMA SpecTxnInv == TxnSpec => []TxnInv
BY InitTxnInv, NextTxnInv, PTL DEF TxnSpec

(* Whatever requests are interleaved, aborted and rolled back, the tables   *)
(* and the requests are well typed, and only a running request holds locks. *)
THEOREM TransactionsTypeCorrect == TxnSpec => []TxnTypeOK
<1>1. TxnInv => TxnTypeOK
  BY DEF TxnInv, HistoryInv, RequestTypes, LocksInv, RequestInv, TxnTypeOK
<1> QED BY <1>1, SpecTxnInv, PTL

(* The lock of the history is enough: no two concurrent requests use the    *)
(* same sequence number and none leaves a gap, for any number of requests.  *)
THEOREM ConcurrentHistoriesContinuous == TxnSpec => []SequencesContinuous
<1>1. TxnInv => SequencesContinuous
  BY LatestNat DEF TxnInv, HistoryInv, UniqueSequence, SequencesContinuous
<1> QED BY <1>1, SpecTxnInv, PTL

LEMMA TxnStepFreezes ==
  ASSUME TxnInv, [TxnNext]_txnVars, NEW x \in Records
  PROVE  Frozen(x)
<1>1. ASSUME UNCHANGED vars
      PROVE  Frozen(x)
  BY <1>1 DEF Frozen, vars, recordVars
<1>2. ASSUME NEW t \in Requests, Commit(t)
      PROVE  Frozen(x)
  BY <1>2, CommitEffect DEF Effect
<1>3. [TxnNext]_txnVars => UNCHANGED vars \/ \E t \in Requests : Commit(t)
  BY DEF TxnNext, Statement, LockRow, Validate, Insert, LockHistory, AbortVictim,
     Rollback, Refuse, Begin, Proceed, txnVars
<1> QED BY <1>1, <1>2, <1>3

(* The row lock is enough: no edit or approval that was admitted before a   *)
(* record was published, and no withdrawal, changes it afterwards.          *)
THEOREM ConcurrentRecordsFrozen == TxnSpec => PublicRecordFrozen
<1>1. TxnInv /\ [TxnNext]_txnVars => [\A r \in Records : Frozen(r)]_vars
  BY TxnStepFreezes
<1>2. (\A r \in Records : Frozen(r)) <=>
        \A r \in Records : state[r] \in PublicStates =>
          /\ state'[r] \in PublicStates
          /\ state[r] = "withdrawn" => state'[r] = "withdrawn"
          /\ fields'[r] = fields[r] /\ owner'[r] = owner[r]
          /\ history'[r] = history[r] /\ publishedAt'[r] = publishedAt[r]
  BY DEF Frozen
<1> QED BY <1>1, <1>2, SpecTxnInv, PTL DEF TxnSpec, PublicRecordFrozen

-----------------------------------------------------------------------------
(* What the locks and the unique index guarantee beyond the histories, for  *)
(* the operations that lock the record they are about before all else.      *)
(* Records share their kind with their history and with what they revise.   *)
KindsInv ==
  \A r \in Records :
    /\ KindOf[history[r]] = KindOf[r]
    /\ fields[r].lineage # NoRecord => KindOf[fields[r].lineage] = KindOf[r]
    /\ state[r] = "absent" => fields[r].lineage = NoRecord

\* References of the kinds that records of kind k need, in whatever state.
ReferenceShape(k, refs) ==
  /\ \A x \in refs : KindOf[x] \in ReferenceKinds(k)
  /\ refs = {} => ReferenceKinds(k) = {}

FormKind(c) == c.fields.lineage # NoRecord => KindOf[c.fields.lineage] = KindOf[c.record]

\* A request holds the locks it has asked for, and no other.
HoldsOwn(t) ==
  /\ \A x \in Records : rowLock[x] = t => Passed(t, "lockRow") /\ x = LockedRow(call[t])
  /\ \A h \in Records :
       historyLock[h] = t => Passed(t, "lockHistory") /\ h = TargetHistory(call[t])

\* What the locked row still admits, and what was validated and still holds.
Admitted(c) ==
  /\ c.op \in Succeeding \cup {"withdraw"} => Manages(c.actor, LockedRow(c))
  /\ c.op = "approve" => c.actor \in active \cap admins /\ Approvable(c.record)
  /\ c.op = "replace" => KindOf[Source(c)] \in {"decoder", "circuit"}
Validated(c, again) ==
  /\ c.op \in Succeeding => ReferenceShape(KindOf[c.record], c.fields.refs)
  /\ c.op = "successor" => again = (state[Source(c)] = "withdrawn")
  /\ c.op = "approve" =>
       LET f == fields[c.record] IN
       /\ ReferenceShape(KindOf[c.record], f.refs)
       /\ FirstIsDescribed(KindOf[c.record], f)
       /\ f.lineage # NoRecord => state[f.lineage] \in PublicStates
SerialRequest(t) ==
  status[t] = "running" =>
    /\ FormKind(call[t]) /\ HoldsOwn(t)
    /\ Passed(t, "lockRow") => Admitted(call[t])
    /\ Passed(t, "validate") => Validated(call[t], reapproval[t])

\* The entry in the unique index that t has written, and nobody else.
Indexed(t) ==
  /\ status[t] = "running" /\ Passed(t, "insert")
  /\ call[t].fields.lineage # NoRecord /\ KindOf[call[t].record] # "machine"
IndexFact(t) ==
  Indexed(t) =>
    /\ \A r \in Records \ {call[t].record} : fields[r].lineage # call[t].fields.lineage
    /\ \A u \in Requests \ {t} :
         Indexed(u) => call[u].fields.lineage # call[t].fields.lineage

SerialInv ==
  /\ KindsInv
  /\ \A t \in Requests : SerialRequest(t) /\ IndexFact(t)

(* The kinds of references are a matter of validation, not of time.         *)
LEMMA PublishedShape ==
  ASSUME NEW k, NEW refs, ReferencesPublished(k, refs)
  PROVE  ReferenceShape(k, refs)
BY DEF ReferencesPublished, ReferenceShape

(* More of the order of the statements.                                     *)
LEMMA SerialOrder ==
  ASSUME NEW op \in Ops, NEW k \in DOMAIN Program[op]
  PROVE  /\ Program[op][k] \in {"lockRow", "validate", "insert"} => ~Before(op, k, "insert")
         /\ Program[op][k] \in {"lockRow", "validate"} => ~Before(op, k, "validate")
         /\ Program[op][k] = "lockRow" => ~Before(op, k, "lockRow")
         /\ Program[op][k] = "lockHistory" => ~Before(op, k, "lockHistory")
         /\ Program[op][k] = "commit" /\ op \in Inserting \cup {"update"} =>
              Before(op, k, "insert")
         /\ Program[op][k] = "commit" /\ op # "withdraw" => Before(op, k, "validate")
         /\ Before(op, k, "insert") \/ Program[op][k] = "insert" =>
              op \in Inserting \cup {"update"}
         /\ Program[op][k] = "validate" => op # "withdraw"
         /\ Program[op][k] \in {"lockRow", "validate", "insert", "lockHistory", "commit"}
<1> DEFINE Ordered(o, n) ==
      /\ Program[o][n] \in {"lockRow", "validate", "insert"} => ~Before(o, n, "insert")
      /\ Program[o][n] \in {"lockRow", "validate"} => ~Before(o, n, "validate")
      /\ Program[o][n] = "lockRow" => ~Before(o, n, "lockRow")
      /\ Program[o][n] = "lockHistory" => ~Before(o, n, "lockHistory")
      /\ Program[o][n] = "commit" /\ o \in Inserting \cup {"update"} => Before(o, n, "insert")
      /\ Program[o][n] = "commit" /\ o # "withdraw" => Before(o, n, "validate")
      /\ Before(o, n, "insert") \/ Program[o][n] = "insert" => o \in Inserting \cup {"update"}
      /\ Program[o][n] = "validate" => o # "withdraw"
      /\ Program[o][n] \in {"lockRow", "validate", "insert", "lockHistory", "commit"}
<1>1. Program["create"] = <<"validate", "insert", "lockHistory", "commit">>
  BY DEF Program
<1>2. Program["successor"] = <<"lockRow", "validate", "insert", "lockHistory", "commit">>
  BY DEF Program
<1>3. Program["replace"] = <<"lockRow", "lockHistory", "validate", "insert", "commit">>
  BY DEF Program
<1>4. Program["update"] = <<"lockRow", "validate", "insert", "lockHistory", "commit">>
  BY DEF Program
<1>5. Program["withdraw"] = <<"lockRow", "lockHistory", "commit">>
  BY DEF Program
<1>6. Program["approve"] = <<"lockRow", "validate", "lockHistory", "commit">>
  BY DEF Program
<1>7. \A n \in DOMAIN Program["create"] : Ordered("create", n)
  BY <1>1 DEF Before, Inserting
<1>8. \A n \in DOMAIN Program["successor"] : Ordered("successor", n)
  BY <1>2 DEF Before, Inserting
<1>9. \A n \in DOMAIN Program["replace"] : Ordered("replace", n)
  BY <1>3 DEF Before, Inserting
<1>10. \A n \in DOMAIN Program["update"] : Ordered("update", n)
  BY <1>4 DEF Before, Inserting
<1>11. \A n \in DOMAIN Program["withdraw"] : Ordered("withdraw", n)
  BY <1>5 DEF Before, Inserting
<1>12. \A n \in DOMAIN Program["approve"] : Ordered("approve", n)
  BY <1>6 DEF Before, Inserting
<1>13. Ordered(op, k)
  BY <1>7, <1>8, <1>9, <1>10, <1>11, <1>12 DEF Ops
<1> QED BY <1>13

(* Who has validated has locked the row, if the operation locks one.        *)
LEMMA PassedOrder ==
  ASSUME TxnInv, NEW t \in Requests, status[t] = "running", call[t].op # "create",
         Passed(t, "validate") \/ Passed(t, "insert") \/ Passed(t, "lockHistory")
  PROVE  Passed(t, "lockRow")
<1>1. call[t].op \in Ops /\ at[t] \in DOMAIN Program[call[t].op]
  BY RunningCall
<1> QED BY <1>1, ProgramOrder, SerialOrder, PassedBefore

(* A request that takes no step keeps what it has been admitted to, if the  *)
(* step keeps the row that it has locked.                                   *)
LEMMA OtherSerialKept ==
  ASSUME TxnInv, NEW u \in Requests, SerialRequest(u),
         status'[u] = status[u], call'[u] = call[u], at'[u] = at[u],
         reapproval'[u] = reapproval[u], active' = active, admins' = admins,
         \A x \in Records : rowLock'[x] = u => rowLock[x] = u,
         \A h \in Records : historyLock'[h] = u => historyLock[h] = u,
         \A x \in Records : state[x] # "absent" => history'[x] = history[x],
         \A x \in Records : Frozen(x),
         status[u] = "running" /\ Passed(u, "lockRow") =>
           /\ state'[LockedRow(call[u])] = state[LockedRow(call[u])]
           /\ fields'[LockedRow(call[u])] = fields[LockedRow(call[u])]
  PROVE  SerialRequest(u)'
<1> SUFFICES ASSUME status[u] = "running"
             PROVE  SerialRequest(u)'
  BY DEF SerialRequest
<1> DEFINE c == call[u]
<1>1. /\ c.op \in Ops /\ c.record \in Records /\ c.fields \in Fields
      /\ LockedRow(c) \in Records
  BY RunningCall
<1>2. RequestInv(u)
  BY DEF TxnInv
<1>3. \A s : Passed(u, s)' <=> Passed(u, s)
  BY DEF Passed
<1>4. LockedRow(call[u])' = LockedRow(c) /\ Source(call[u])' = Source(c)
  BY DEF LockedRow, Source
<1>5. FormKind(call[u])'
  BY DEF SerialRequest, FormKind
<1>6. HoldsOwn(u)'
  <2>1. Passed(u, "lockHistory") => TargetHistory(call[u])' = TargetHistory(c)
    BY TargetStays
  <2> QED BY <1>3, <1>4, <2>1 DEF SerialRequest, HoldsOwn
<1>7. ASSUME Passed(u, "lockRow")
      PROVE  Admitted(call[u])'
  <2>1. Admitted(c) /\ RowFact(c)
    BY <1>2, <1>7 DEF SerialRequest, RequestInv, RowInv
  <2>2. c.op \in Succeeding \cup {"withdraw"} => Manages(c.actor, LockedRow(c))'
    <3>1. c.op \in Succeeding \cup {"withdraw"} => owner'[LockedRow(c)] = owner[LockedRow(c)]
      BY <1>1, <2>1 DEF RowFact, PublicStates, Succeeding, Frozen
    <3> QED BY <1>4, <2>1, <3>1 DEF Admitted, Manages
  <2>3. c.op = "approve" => Approvable(c.record)'
    BY <1>7, <2>1 DEF Admitted, Approvable, LockedRow, Succeeding
  <2> QED BY <1>4, <2>1, <2>2, <2>3 DEF Admitted, Manages
<1>8. ASSUME Passed(u, "validate")
      PROVE  Validated(call[u], reapproval[u])'
  <2>1. Validated(c, reapproval[u])
    BY <1>8 DEF SerialRequest
  <2>2. c.op # "create" => Passed(u, "lockRow")
    BY <1>8, PassedOrder
  <2>3. c.op = "approve" => fields'[c.record] = fields[c.record]
    BY <2>2 DEF LockedRow, Succeeding
  <2>4. c.op = "successor" => state'[Source(c)] = state[Source(c)]
    BY <2>2 DEF LockedRow, Succeeding
  <2>5. c.op = "approve" => fields[c.record].lineage \in Records \cup {NoRecord}
    BY <1>1 DEF TxnInv, HistoryInv, TypeOK, Fields
  <2>6. \A x \in Records : state[x] \in PublicStates => state'[x] \in PublicStates
    BY DEF Frozen
  <2> QED BY <1>4, <2>1, <2>3, <2>4, <2>5, <2>6
      DEF Validated, ReferenceShape, FirstIsDescribed
<1> QED BY <1>3, <1>5, <1>6, <1>7, <1>8 DEF SerialRequest

(* A step after which no request has written more and the tables are the    *)
(* same keeps the entries of the index.                                     *)
LEMMA IndexKept ==
  ASSUME SerialInv, fields' = fields,
         \A u \in Requests : Indexed(u)' =>
           /\ Indexed(u) /\ call'[u].record = call[u].record
           /\ call'[u].fields.lineage = call[u].fields.lineage
  PROVE  \A u \in Requests : IndexFact(u)'
BY DEF SerialInv, IndexFact

LEMMA KindsKept ==
  ASSUME SerialInv, UNCHANGED vars
  PROVE  /\ KindsInv' /\ fields' = fields /\ history' = history /\ state' = state
         /\ active' = active /\ admins' = admins /\ \A x \in Records : Frozen(x)
<1>1. /\ fields' = fields /\ history' = history /\ state' = state
      /\ active' = active /\ admins' = admins /\ owner' = owner
      /\ publishedAt' = publishedAt
  BY DEF vars, recordVars, accountVars
<1>2. KindsInv'
  BY <1>1 DEF SerialInv, KindsInv
<1>3. \A x \in Records : Frozen(x)
  BY <1>1 DEF Frozen
<1> QED BY <1>1, <1>2, <1>3

-----------------------------------------------------------------------------
(* A request that ends without a commit.                                    *)
LEMMA RefuseSerial ==
  ASSUME TxnInv, SerialInv, NEW t \in Requests, status[t] = "running",
         NEW outcome \in {"refused", "failed"}, Refuse(t, outcome)
  PROVE  SerialInv'
<1>1. Finish(t, outcome) /\ UNCHANGED vars
  BY DEF Refuse
<1>2. /\ KindsInv' /\ fields' = fields /\ history' = history /\ state' = state
      /\ active' = active /\ admins' = admins /\ \A x \in Records : Frozen(x)
  BY <1>1, KindsKept
<1>3. /\ status'[t] = outcome
      /\ \A u \in Requests \ {t} :
           /\ status'[u] = status[u] /\ call'[u] = call[u] /\ at'[u] = at[u]
           /\ reapproval'[u] = reapproval[u]
      /\ \A x \in Records, u \in Requests :
           /\ rowLock'[x] = u => rowLock[x] = u
           /\ historyLock'[x] = u => historyLock[x] = u
  BY <1>1, TransactionsAssumption DEF Finish, TxnInv, RequestTypes, Requests
<1>4. ASSUME NEW u \in Requests, u # t
      PROVE  SerialRequest(u)'
  BY <1>2, <1>3, <1>4, OtherSerialKept DEF SerialInv
<1>5. SerialRequest(t)'
  BY <1>3 DEF SerialRequest
<1>6. \A u \in Requests : IndexFact(u)'
  <2>1. \A u \in Requests : Indexed(u)' => u # t
    BY <1>3 DEF Indexed
  <2>2. \A u \in Requests : Indexed(u)' =>
          /\ Indexed(u) /\ call'[u].record = call[u].record
          /\ call'[u].fields.lineage = call[u].fields.lineage
    BY <1>3, <2>1 DEF Indexed, Passed
  <2> QED BY <1>2, <2>2, IndexKept
<1> QED BY <1>2, <1>4, <1>5, <1>6 DEF SerialInv

(* A statement other than the commit that is passed.                        *)
LEMMA ProceedSerial ==
  ASSUME TxnInv, SerialInv, NEW t \in Requests, status[t] = "running", Proceed(t),
         \A u \in Requests \ {t} : call'[u] = call[u] /\ reapproval'[u] = reapproval[u],
         call'[t].op = call[t].op, call'[t].record = call[t].record,
         \A u \in Requests \ {t}, x \in Records :
           /\ rowLock'[x] = u => rowLock[x] = u
           /\ historyLock'[x] = u => historyLock[x] = u,
         SerialRequest(t)',
         Indexed(t)' /\ Program[call[t].op][at[t]] # "insert" =>
           Indexed(t) /\ call'[t].fields.lineage = call[t].fields.lineage,
         Indexed(t)' /\ Program[call[t].op][at[t]] = "insert" =>
           /\ call'[t] = call[t]
           /\ \A r \in Records \ {call[t].record} :
                fields[r].lineage # call[t].fields.lineage
           /\ \A u \in Requests \ {t} :
                Indexed(u) => call[u].fields.lineage # call[t].fields.lineage
  PROVE  SerialInv'
<1>1. status' = status /\ UNCHANGED vars /\ at' = [at EXCEPT ![t] = @ + 1]
  BY DEF Proceed
<1>2. /\ KindsInv' /\ fields' = fields /\ history' = history /\ state' = state
      /\ active' = active /\ admins' = admins /\ \A x \in Records : Frozen(x)
  BY <1>1, KindsKept
<1>3. \A u \in Requests \ {t} : at'[u] = at[u]
  BY <1>1 DEF TxnInv, RequestTypes
<1>4. ASSUME NEW u \in Requests, u # t
      PROVE  SerialRequest(u)'
  BY <1>1, <1>2, <1>3, <1>4, OtherSerialKept DEF SerialInv
<1>5. \A u \in Requests \ {t} : Indexed(u)' <=> Indexed(u)
  BY <1>1, <1>3 DEF Indexed, Passed
<1>6. \A u \in Requests : IndexFact(u)'
  <2>1. CASE Indexed(t)' /\ Program[call[t].op][at[t]] = "insert"
    BY <1>2, <1>5, <2>1 DEF SerialInv, IndexFact
  <2>2. CASE ~(Indexed(t)' /\ Program[call[t].op][at[t]] = "insert")
    BY <1>2, <1>5, <2>2, IndexKept
  <2> QED BY <2>1, <2>2
<1> QED BY <1>2, <1>4, <1>6 DEF SerialInv

(* The row is locked and admits the operation.                              *)
LEMMA LockRowSerial ==
  ASSUME TxnInv, SerialInv, NEW t \in Requests, LockRow(t)
  PROVE  SerialInv'
<1> DEFINE c == call[t]
<1>1. status[t] = "running" /\ Program[c.op][at[t]] = "lockRow"
  BY DEF LockRow, Running
<1>2. /\ c.op \in Ops /\ LockedRow(c) \in Records /\ at[t] \in Nat \ {0}
      /\ at[t] \in DOMAIN Program[c.op]
  BY <1>1, RunningCall
<1>3. CASE ~RowAdmits(c)
  BY <1>1, <1>3, RefuseSerial DEF LockRow
<1>4. CASE RowAdmits(c)
  <2>1. /\ rowLock' = [rowLock EXCEPT ![LockedRow(c)] = t] /\ Proceed(t)
        /\ call' = call /\ reapproval' = reapproval /\ historyLock' = historyLock
    BY <1>4 DEF LockRow
  <2>2. /\ at'[t] = at[t] + 1 /\ status' = status /\ UNCHANGED vars
    BY <2>1 DEF Proceed, TxnInv, RequestTypes
  <2>3. /\ fields' = fields /\ history' = history /\ state' = state
        /\ active' = active /\ admins' = admins /\ owner' = owner
    BY <2>2 DEF vars, recordVars, accountVars
  <2>4. \A s : Passed(t, s)' <=> Passed(t, s) \/ s = "lockRow"
    BY <1>1, <1>2, <2>1, <2>2, PassedNext
  <2>5. ~Passed(t, "lockRow") /\ ~Passed(t, "validate") /\ ~Passed(t, "insert")
    BY <1>1, <1>2, SerialOrder, PassedBefore
  <2>6. rowLock' \in [Records -> Requests \cup {NoRequest}]
    BY <1>2, <2>1 DEF TxnInv, RequestTypes
  <2>7. \A x \in Records : rowLock'[x] = t => x = LockedRow(c)
    BY <1>1, <2>1, <2>5 DEF SerialInv, SerialRequest, HoldsOwn, TxnInv, RequestTypes
  <2>8. \A u \in Requests \ {t}, x \in Records : rowLock'[x] = u => rowLock[x] = u
    BY <2>1 DEF TxnInv, RequestTypes
  <2>9. Admitted(c)
    <3>1. c.op \in {"withdraw", "approve"} => LockedRow(c) = c.record
      BY DEF LockedRow, Succeeding
    <3>2. c.op \in Succeeding => LockedRow(c) = Source(c)
      BY DEF LockedRow, Succeeding
    <3>3. CASE c.op = "withdraw"
      BY <1>4, <3>1, <3>3 DEF RowAdmits, Admitted, Succeeding
    <3>4. CASE c.op = "approve"
      BY <1>4, <3>1, <3>4 DEF RowAdmits, Admitted, Succeeding
    <3>5. CASE c.op = "successor"
      BY <1>4, <3>2, <3>5 DEF RowAdmits, Admitted, Succeeding
    <3>6. CASE c.op = "replace"
      BY <1>4, <3>2, <3>6 DEF RowAdmits, Admitted, Succeeding
    <3>7. CASE c.op \in {"create", "update"}
      BY <3>7 DEF Admitted, Succeeding
    <3> QED BY <1>2, <3>3, <3>4, <3>5, <3>6, <3>7 DEF Ops
  <2>10. Admitted(call[t])'
    BY <2>1, <2>3, <2>9 DEF Admitted, Manages, Approvable, LockedRow, Source
  <2>11. HoldsOwn(t)'
    <3>1. LockedRow(call[t])' = LockedRow(c) /\ TargetHistory(call[t])' = TargetHistory(c)
      BY <2>1, <2>3 DEF LockedRow, Source, TargetHistory, HistoryForNewRecord
    <3> QED BY <1>1, <2>1, <2>4, <2>7, <3>1 DEF HoldsOwn, SerialInv, SerialRequest
  <2>12. SerialRequest(t)'
    BY <1>1, <2>1, <2>2, <2>4, <2>5, <2>10, <2>11 DEF SerialInv, SerialRequest, FormKind
  <2>13. ~Indexed(t)'
    BY <2>4, <2>5 DEF Indexed
  <2> QED BY <1>1, <2>1, <2>8, <2>12, <2>13, ProceedSerial
<1> QED BY <1>3, <1>4

(* The form is valid, and what is valid of it for good stays so.            *)
LEMMA ValidateSerial ==
  ASSUME TxnInv, SerialInv, NEW t \in Requests, Validate(t)
  PROVE  SerialInv'
<1> DEFINE c == call[t]
           k == KindOf[c.record]
<1>1. status[t] = "running" /\ Program[c.op][at[t]] = "validate"
  BY DEF Validate, Running
<1>2. /\ c.op \in Ops /\ c.op # "withdraw" /\ c.record \in Records /\ c.fields \in Fields
      /\ LockedRow(c) \in Records /\ at[t] \in Nat \ {0}
      /\ at[t] \in DOMAIN Program[c.op] /\ c \in Calls
  BY <1>1, RunningCall, SerialOrder
<1>3. CASE ~Validates(c)
  BY <1>1, <1>3, RefuseSerial DEF Validate
<1>4. CASE Validates(c)
  <2>1. /\ call' = IF c.op = "update"
                   THEN [call EXCEPT ![t].fields = PinnedFields(c.record, c.fields)]
                   ELSE call
        /\ reapproval' = [reapproval EXCEPT ![t] =
             c.op = "replace" \/ (c.op = "successor" /\ state[Source(c)] = "withdrawn")]
        /\ Proceed(t) /\ rowLock' = rowLock /\ historyLock' = historyLock
    BY <1>4 DEF Validate
  <2>2. /\ call \in [Requests -> Calls \cup {NoCall}] /\ reapproval \in [Requests -> BOOLEAN]
        /\ TypeOK
    BY DEF TxnInv, RequestTypes, HistoryInv
  <2>3. /\ at'[t] = at[t] + 1 /\ status' = status /\ UNCHANGED vars
    BY <2>1 DEF Proceed, TxnInv, RequestTypes
  <2>4. /\ fields' = fields /\ history' = history /\ state' = state
        /\ active' = active /\ admins' = admins /\ owner' = owner
    BY <2>3 DEF vars, recordVars, accountVars
  <2>5. /\ call'[t].op = c.op /\ call'[t].record = c.record /\ call'[t].actor = c.actor
        /\ c.op # "update" => call'[t] = c
        /\ c.op = "update" => call'[t].fields = PinnedFields(c.record, c.fields)
        /\ \A u \in Requests \ {t} : call'[u] = call[u] /\ reapproval'[u] = reapproval[u]
    BY <1>2, <2>1, <2>2 DEF Calls
  <2>6. reapproval'[t] =
          (c.op = "replace" \/ (c.op = "successor" /\ state[Source(c)] = "withdrawn"))
    BY <2>1, <2>2
  <2>7. \A s : Passed(t, s)' <=> Passed(t, s) \/ s = "validate"
    BY <1>1, <1>2, <2>3, <2>5, PassedNext
  <2>8. ~Passed(t, "insert")
    BY <1>1, <1>2, SerialOrder, PassedBefore
  <2>9. FormKind(call[t])'
    <3>1. CASE c.op # "update"
      BY <1>1, <2>5, <3>1 DEF SerialInv, SerialRequest, FormKind
    <3>2. CASE c.op = "update"
      <4>1. FormKind(c) /\ KindsInv
        BY <1>1 DEF SerialInv, SerialRequest
      <4>2. call'[t].fields.lineage \in {c.fields.lineage, fields[c.record].lineage}
        BY <1>2, <2>5, <3>2 DEF PinnedFields, Fields
      <4> QED BY <1>2, <2>5, <4>1, <4>2 DEF FormKind, KindsInv
    <3> QED BY <3>1, <3>2
  <2>10. LockedRow(call[t])' = LockedRow(c) /\ TargetHistory(call[t])' = TargetHistory(c)
    <3>1. CASE c.op # "update"
      BY <2>4, <2>5, <3>1 DEF LockedRow, Source, TargetHistory, HistoryForNewRecord
    <3>2. CASE c.op = "update"
      BY <2>4, <2>5, <3>2 DEF LockedRow, Source, TargetHistory, Succeeding
    <3> QED BY <3>1, <3>2
  <2>11. HoldsOwn(t)'
    BY <1>1, <2>1, <2>7, <2>10 DEF HoldsOwn, SerialInv, SerialRequest
  <2>12. Admitted(c) => Admitted(call[t])'
    BY <2>4, <2>5, <2>10 DEF Admitted, Manages, Approvable, Source, Succeeding
  <2>13. Validated(call[t], reapproval[t])'
    <3>1. CASE c.op = "successor"
      <4>1. ReferenceShape(k, c.fields.refs)
        BY <1>4, <3>1, PublishedShape DEF Validates, ValidFields
      <4> QED BY <2>4, <2>5, <2>6, <3>1, <4>1 DEF Validated, ReferenceShape, Source
    <3>2. CASE c.op = "replace"
      <4>1. ReferenceShape(k, c.fields.refs)
        BY <1>4, <3>2, PublishedShape DEF Validates
      <4> QED BY <2>5, <3>2, <4>1 DEF Validated, ReferenceShape
    <3>3. CASE c.op = "approve"
      <4>1. Publishable(c.record)
        BY <1>4, <3>3 DEF Validates
      <4>2. ReferenceShape(k, fields[c.record].refs)
        BY <4>1, PublishedShape DEF Publishable
      <4> QED BY <2>4, <2>5, <3>3, <4>1, <4>2
          DEF Validated, ReferenceShape, FirstIsDescribed, Publishable, Succeeding
    <3>4. CASE c.op \in {"create", "update"}
      BY <2>5, <3>4 DEF Validated, Succeeding
    <3> QED BY <1>2, <3>1, <3>2, <3>3, <3>4 DEF Ops
  <2>14. SerialRequest(t)'
    BY <1>1, <2>7, <2>9, <2>11, <2>12, <2>13 DEF SerialInv, SerialRequest
  <2>15. ~Indexed(t)'
    BY <2>7, <2>8 DEF Indexed
  <2> QED BY <1>1, <2>1, <2>5, <2>14, <2>15, ProceedSerial
<1> QED BY <1>3, <1>4

(* The entry is made: no record and no other request has one like it.       *)
LEMMA InsertSerial ==
  ASSUME TxnInv, SerialInv, NEW t \in Requests, Insert(t)
  PROVE  SerialInv'
<1> DEFINE c == call[t]
<1>1. status[t] = "running" /\ Program[c.op][at[t]] = "insert" /\ WaitsFor(t) = {}
  BY DEF Insert, Running
<1>2. /\ c.op \in Ops /\ at[t] \in Nat \ {0} /\ at[t] \in DOMAIN Program[c.op]
      /\ LockedRow(c) \in Records
  BY <1>1, RunningCall
<1>3. CASE IndexConflict(t)
  BY <1>1, <1>3, RefuseSerial DEF Insert
<1>4. CASE ~IndexConflict(t)
  <2>1. /\ Proceed(t) /\ call' = call /\ reapproval' = reapproval
        /\ rowLock' = rowLock /\ historyLock' = historyLock
    BY <1>4 DEF Insert
  <2>2. at'[t] = at[t] + 1 /\ status' = status /\ UNCHANGED vars
    BY <2>1 DEF Proceed, TxnInv, RequestTypes
  <2>3. /\ fields' = fields /\ history' = history /\ state' = state
        /\ active' = active /\ admins' = admins /\ owner' = owner
    BY <2>2 DEF vars, recordVars, accountVars
  <2>4. \A s : Passed(t, s)' <=> Passed(t, s) \/ s = "insert"
    BY <1>1, <1>2, <2>1, <2>2, PassedNext
  <2>5. SerialRequest(t)'
    <3>1. LockedRow(call[t])' = LockedRow(c) /\ TargetHistory(call[t])' = TargetHistory(c)
      BY <2>1, <2>3 DEF LockedRow, Source, TargetHistory, HistoryForNewRecord
    <3>2. HoldsOwn(t)'
      BY <1>1, <2>1, <2>4, <3>1 DEF HoldsOwn, SerialInv, SerialRequest
    <3>3. Admitted(c) => Admitted(call[t])'
      BY <2>1, <2>3 DEF Admitted, Manages, Approvable, LockedRow, Source
    <3>4. Validated(c, reapproval[t]) => Validated(call[t], reapproval[t])'
      BY <2>1, <2>3 DEF Validated, ReferenceShape, FirstIsDescribed, Source
    <3> QED BY <1>1, <2>1, <2>4, <3>2, <3>3, <3>4 DEF SerialInv, SerialRequest, FormKind
  <2>6. ASSUME Indexed(t)'
        PROVE  /\ \A r \in Records \ {c.record} : fields[r].lineage # c.fields.lineage
               /\ \A u \in Requests \ {t} :
                    Indexed(u) => call[u].fields.lineage # c.fields.lineage
    <3>1. c.fields.lineage # NoRecord /\ KindOf[c.record] # "machine"
      BY <2>1, <2>6 DEF Indexed
    <3>2. \A r \in Records \ {c.record} : fields[r].lineage # c.fields.lineage
      BY <1>4, <3>1 DEF IndexConflict
    <3>3. ~Running(t, "lockRow") /\ Running(t, "insert")
      BY <1>1 DEF Running
    <3>4. IndexHolders(t) \ {t, NoRequest} = {}
      <4>1. WaitsFor(t) = IndexHolders(t) \ {t, NoRequest}
        BY <1>1 DEF WaitsFor, Running
      <4> QED BY <1>1, <4>1
    <3>5. \A u \in Requests \ {t} :
            HasWritten(u) => c.fields.lineage \notin LineagesTouched(u)
      BY <3>1, <3>4, TransactionsAssumption DEF IndexHolders, Requests
    <3>6. \A u \in Requests : Indexed(u) => HasWritten(u)
      BY DEF Indexed, HasWritten, Passed
    <3> QED BY <3>2, <3>5, <3>6 DEF LineagesTouched
  <2> QED BY <1>1, <2>1, <2>5, <2>6, ProceedSerial
<1> QED BY <1>3, <1>4

(* The history is locked.                                                   *)
LEMMA LockHistorySerial ==
  ASSUME TxnInv, SerialInv, NEW t \in Requests, LockHistory(t)
  PROVE  SerialInv'
<1> DEFINE c == call[t]
<1>1. status[t] = "running" /\ Program[c.op][at[t]] = "lockHistory"
  BY DEF LockHistory, Running
<1>2. /\ c.op \in Ops /\ at[t] \in Nat \ {0} /\ at[t] \in DOMAIN Program[c.op]
      /\ TargetHistory(c) \in Records
  BY <1>1, RunningCall
<1>3. /\ historyLock' = [historyLock EXCEPT ![TargetHistory(c)] = t]
      /\ Proceed(t) /\ call' = call /\ reapproval' = reapproval /\ rowLock' = rowLock
  BY DEF LockHistory
<1>4. at'[t] = at[t] + 1 /\ status' = status /\ UNCHANGED vars
  BY <1>3 DEF Proceed, TxnInv, RequestTypes
<1>5. /\ fields' = fields /\ history' = history /\ state' = state
      /\ active' = active /\ admins' = admins /\ owner' = owner
  BY <1>4 DEF vars, recordVars, accountVars
<1>6. \A s : Passed(t, s)' <=> Passed(t, s) \/ s = "lockHistory"
  BY <1>1, <1>2, <1>3, <1>4, PassedNext
<1>7. ~Passed(t, "lockHistory")
  BY <1>1, <1>2, SerialOrder, PassedBefore
<1>8. \A h \in Records : historyLock'[h] = t => h = TargetHistory(c)
  BY <1>1, <1>3, <1>7 DEF SerialInv, SerialRequest, HoldsOwn, TxnInv, RequestTypes
<1>9. \A u \in Requests \ {t}, h \in Records : historyLock'[h] = u => historyLock[h] = u
  BY <1>3 DEF TxnInv, RequestTypes
<1>10. SerialRequest(t)'
  <2>1. LockedRow(call[t])' = LockedRow(c) /\ TargetHistory(call[t])' = TargetHistory(c)
    BY <1>3, <1>5 DEF LockedRow, Source, TargetHistory, HistoryForNewRecord
  <2>2. HoldsOwn(t)'
    BY <1>1, <1>3, <1>6, <1>8, <2>1 DEF HoldsOwn, SerialInv, SerialRequest
  <2>3. Admitted(c) => Admitted(call[t])'
    BY <1>3, <1>5 DEF Admitted, Manages, Approvable, LockedRow, Source
  <2>4. Validated(c, reapproval[t]) => Validated(call[t], reapproval[t])'
    BY <1>3, <1>5 DEF Validated, ReferenceShape, FirstIsDescribed, Source
  <2> QED BY <1>1, <1>3, <1>6, <2>2, <2>3, <2>4 DEF SerialInv, SerialRequest, FormKind
<1>11. Indexed(t)' => Indexed(t)
  BY <1>3, <1>4, <1>6 DEF Indexed
<1> QED BY <1>1, <1>3, <1>9, <1>10, <1>11, ProceedSerial

-----------------------------------------------------------------------------
(* What a commit writes to the columns that the index and the kinds are     *)
(* about: at most the record of the request.                                *)
LEMMA CommitWrites ==
  ASSUME TxnInv, NEW t \in Requests, Commit(t)
  PROVE  /\ active' = active /\ admins' = admins
         /\ \A x \in Records : fields'[x] # fields[x] =>
              /\ x = call[t].record /\ call[t].op \in Inserting \cup {"update"}
              /\ fields'[x] = call[t].fields /\ state'[x] # "absent"
         /\ \A x \in Records : history'[x] # history[x] =>
              /\ x = call[t].record /\ call[t].op \in Inserting
              /\ history'[x] = TargetHistory(call[t])
         /\ \A x \in Records : state'[x] = "absent" => state[x] = "absent"
<1> DEFINE c == call[t]
<1>1. status[t] = "running"
  BY DEF Commit, Running
<1>2. c.op \in Ops /\ c.record \in Records
  BY <1>1, RunningCall
<1>3. TypeOK
  BY DEF TxnInv, HistoryInv
<1>4. \A x \in Records : state'[x] = "absent" => state[x] = "absent"
  BY CommitEffect DEF Effect
<1>5. CASE c.op \in {"create", "successor"}
  <2>1. StoreSubmission(c.actor, c.record, c.fields, reapproval[t], TargetHistory(c), latest[t])
    BY <1>5 DEF Commit
  <2>2. InitialState(KindOf[c.record], reapproval[t]) # "absent"
    BY DEF InitialState
  <2> QED BY <1>2, <1>3, <1>4, <1>5, <2>1, <2>2
      DEF StoreSubmission, InsertRecord, accountVars, TypeOK, Inserting
<1>6. CASE c.op = "replace"
  <2>1. StoreReplacement(c.actor, Source(c), c.record, c.fields, latest[t])
    BY <1>6 DEF Commit
  <2>2. InitialState(KindOf[c.record], TRUE) # "absent"
    BY DEF InitialState
  <2>3. TargetHistory(c) = history[Source(c)]
    BY <1>6 DEF TargetHistory, LockedRow, Succeeding
  <2> QED BY <1>2, <1>3, <1>4, <1>6, <2>1, <2>2, <2>3
      DEF StoreReplacement, InsertRecord, accountVars, TypeOK, Inserting
<1>7. CASE c.op = "update"
  <2>1. StoreEdit(c.actor, c.record, c.fields, latest[t])
    BY <1>7 DEF Commit
  <2>2. state[c.record] # "absent"
    BY <1>1, <1>7 DEF TxnInv, RequestInv, CallInv, Inserting
  <2> QED BY <1>2, <1>3, <1>4, <1>7, <2>1, <2>2 DEF StoreEdit, accountVars, TypeOK
<1>8. CASE c.op \in {"withdraw", "approve"}
  <2>1. \/ StoreWithdrawal(c.actor, c.record, latest[t])
        \/ StoreApproval(c.actor, c.record, latest[t])
    BY <1>8 DEF Commit
  <2> QED BY <1>4, <2>1 DEF StoreWithdrawal, StoreApproval, accountVars
<1> QED BY <1>2, <1>5, <1>6, <1>7, <1>8 DEF Ops

(* The commit leaves the entry of the request in the table, and whatever    *)
(* the others have locked as it was.                                        *)
LEMMA CommitSerial ==
  ASSUME TxnInv, SerialInv, NEW t \in Requests, Commit(t)
  PROVE  SerialInv'
<1> DEFINE c == call[t]
<1>1. status[t] = "running" /\ Program[c.op][at[t]] = "commit" /\ Finish(t, "committed")
  BY DEF Commit, Running
<1>2. /\ c.op \in Ops /\ c.record \in Records /\ at[t] \in DOMAIN Program[c.op]
      /\ c.fields \in Fields /\ TargetHistory(c) \in Records
  BY <1>1, RunningCall
<1>3. /\ Effect(TargetHistory(c), Latest(TargetHistory(c)), Touched(c))
      /\ c.op # "create" => Passed(t, "lockRow") /\ RowFact(c)
  BY CommitEffect
<1>4. /\ active' = active /\ admins' = admins
      /\ \A x \in Records : fields'[x] # fields[x] =>
           /\ x = c.record /\ c.op \in Inserting \cup {"update"}
           /\ fields'[x] = c.fields /\ state'[x] # "absent"
      /\ \A x \in Records : history'[x] # history[x] =>
           x = c.record /\ c.op \in Inserting /\ history'[x] = TargetHistory(c)
      /\ \A x \in Records : state'[x] = "absent" => state[x] = "absent"
  BY CommitWrites
<1>5. KindsInv /\ FormKind(c)
  BY <1>1 DEF SerialInv, SerialRequest
<1>6. /\ status' = [status EXCEPT ![t] = "committed"] /\ call' = [call EXCEPT ![t] = NoCall]
      /\ at' = [at EXCEPT ![t] = 0] /\ reapproval' = [reapproval EXCEPT ![t] = FALSE]
      /\ rowLock' = [r \in Records |-> IF rowLock[r] = t THEN NoRequest ELSE rowLock[r]]
      /\ historyLock' =
           [h \in Records |-> IF historyLock[h] = t THEN NoRequest ELSE historyLock[h]]
  BY <1>1 DEF Finish
<1>7. /\ status'[t] = "committed"
      /\ \A u \in Requests \ {t} :
           /\ status'[u] = status[u] /\ call'[u] = call[u] /\ at'[u] = at[u]
           /\ reapproval'[u] = reapproval[u]
           /\ \A x \in Records : rowLock'[x] = u => rowLock[x] = u
           /\ \A h \in Records : historyLock'[h] = u => historyLock[h] = u
  BY <1>6, TransactionsAssumption DEF TxnInv, RequestTypes, Requests
<1>8. KindsInv'
  <2>1. c.op \in Inserting => KindOf[TargetHistory(c)] = KindOf[c.record]
    <3>1. c.op \in Succeeding => c.fields.lineage \in Records
      BY <1>1 DEF TxnInv, RequestInv, CallInv
    <3>2. c.fields.lineage \in Records \cup {NoRecord}
      BY <1>2 DEF Fields
    <3>3. c.fields.lineage \in Records =>
            KindOf[history[c.fields.lineage]] = KindOf[c.record]
      BY <1>5, SubmissionsAssumption DEF FormKind, KindsInv
    <3>4. CASE c.op = "create"
      BY <3>2, <3>3, <3>4 DEF TargetHistory, HistoryForNewRecord
    <3>5. CASE c.op \in Succeeding
      BY <3>1, <3>3, <3>5 DEF TargetHistory, LockedRow, Source, Succeeding
    <3> QED BY <3>4, <3>5 DEF Inserting, Succeeding
  <2> QED BY <1>4, <1>5, <2>1 DEF KindsInv, FormKind
<1>9. ASSUME NEW u \in Requests, u # t
      PROVE  SerialRequest(u)'
  <2> DEFINE d == call[u]
  <2>1. RequestInv(u) /\ SerialRequest(u)
    BY DEF TxnInv, SerialInv
  <2>2. \A x \in Records :
          /\ state[x] # "absent" => history'[x] = history[x]
          /\ x \notin Touched(c) => state'[x] = state[x] /\ fields'[x] = fields[x]
          /\ Frozen(x)
    BY <1>3 DEF Effect
  <2>3. c.op \in Inserting => state[c.record] = "absent"
    BY <1>1 DEF TxnInv, RequestInv, CallInv
  <2>4. c.op \in Succeeding =>
          /\ LockedRow(c) = Source(c) /\ state[Source(c)] # "absent"
          /\ rowLock[Source(c)] = t /\ c.op \in Inserting
    BY <1>1, <1>3 DEF TxnInv, RequestInv, RowInv, RowFact, LockedRow, Succeeding,
       Inserting, PublicStates
  <2>5. c.op \notin Inserting => LockedRow(c) = c.record /\ rowLock[c.record] = t
    BY <1>1, <1>3 DEF TxnInv, RequestInv, RowInv, LockedRow, Succeeding, Inserting
  <2>6. ASSUME status[u] = "running", Passed(u, "lockRow")
        PROVE  LockedRow(d) \notin Touched(c) /\ LockedRow(d) \in Records
    <3>1. /\ d.op \in Ops /\ rowLock[LockedRow(d)] = u /\ RowFact(d)
          /\ LockedRow(d) \in Records
      BY <2>1, <2>6, RunningCall DEF RequestInv, RowInv
    <3>2. d.op # "create"
      BY <2>6, RunningCall, PassedBefore, ProgramOrder
    <3>3. state[LockedRow(d)] # "absent"
      BY <3>1, <3>2 DEF RowFact, Ops, PublicStates, PendingStates
    <3> QED BY <1>9, <2>3, <2>4, <2>5, <3>1, <3>3 DEF Touched
  <2> QED BY <1>4, <1>7, <1>9, <2>1, <2>2, <2>6, OtherSerialKept
<1>10. \A u \in Requests : Indexed(u)' => u # t /\ Indexed(u) /\ call'[u] = call[u]
  <2>1. \A u \in Requests : Indexed(u)' => u # t
    BY <1>7 DEF Indexed
  <2> QED BY <1>7, <2>1 DEF Indexed, Passed
<1>11. ASSUME NEW u \in Requests, Indexed(u)'
       PROVE  IndexFact(u)'
  <2> DEFINE d == call[u]
  <2>1. u # t /\ Indexed(u) /\ call'[u] = d /\ IndexFact(u)
    BY <1>10, <1>11 DEF SerialInv
  <2>2. status[u] = "running" /\ d.fields.lineage # NoRecord /\ KindOf[d.record] # "machine"
    BY <2>1 DEF Indexed
  <2>3. KindOf[d.fields.lineage] = KindOf[d.record]
    BY <2>2 DEF SerialInv, SerialRequest, FormKind
  <2>4. c.op \in Inserting \cup {"update"} => Passed(t, "insert")
    BY <1>1, <1>2, SerialOrder, PassedBefore
  <2>5. c.op \in Inserting \cup {"update"} => c.fields.lineage # d.fields.lineage
    BY <1>1, <1>5, <2>1, <2>2, <2>3, <2>4 DEF FormKind, IndexFact, Indexed
  <2>6. \A r \in Records \ {d.record} : fields'[r].lineage # d.fields.lineage
    BY <1>4, <2>1, <2>5 DEF IndexFact
  <2>7. \A v \in Requests \ {u} : Indexed(v)' => call'[v].fields.lineage # d.fields.lineage
    BY <1>10, <2>1 DEF IndexFact
  <2> QED BY <2>1, <2>6, <2>7 DEF IndexFact
<1>12. SerialRequest(t)'
  BY <1>7 DEF SerialRequest
<1>13. \A u \in Requests : IndexFact(u)'
  BY <1>11 DEF IndexFact
<1> QED BY <1>8, <1>9, <1>12, <1>13 DEF SerialInv

(* A request arrives with a lineage of the kind of its record; it holds no  *)
(* lock yet.                                                                *)
LEMMA BeginSerial ==
  ASSUME TxnInv, SerialInv, NEW t \in Requests, NEW c \in Calls, FormKind(c), Begin(t, c)
  PROVE  SerialInv'
<1>1. /\ status[t] = "idle" /\ UNCHANGED vars
      /\ status' = [status EXCEPT ![t] = "running"]
      /\ call' = [call EXCEPT ![t] = c] /\ at' = [at EXCEPT ![t] = 1]
      /\ reapproval' = reapproval /\ rowLock' = rowLock /\ historyLock' = historyLock
  BY DEF Begin
<1>2. /\ KindsInv' /\ fields' = fields /\ history' = history /\ state' = state
      /\ active' = active /\ admins' = admins /\ \A x \in Records : Frozen(x)
  BY <1>1, KindsKept
<1>3. /\ status'[t] = "running" /\ call'[t] = c /\ at'[t] = 1
      /\ \A u \in Requests \ {t} :
           status'[u] = status[u] /\ call'[u] = call[u] /\ at'[u] = at[u]
  BY <1>1 DEF TxnInv, RequestTypes
<1>4. ASSUME NEW u \in Requests, u # t
      PROVE  SerialRequest(u)'
  BY <1>1, <1>2, <1>3, <1>4, OtherSerialKept DEF SerialInv
<1>5. \A s : ~Passed(t, s)'
  BY <1>3 DEF Passed
<1>6. SerialRequest(t)'
  <2>1. HoldsOwn(t)'
    BY <1>1 DEF HoldsOwn, TxnInv, LocksInv
  <2> QED BY <1>3, <1>5, <2>1 DEF SerialRequest, FormKind
<1>7. \A u \in Requests : IndexFact(u)'
  <2>1. \A u \in Requests : Indexed(u)' => u # t
    BY <1>5 DEF Indexed
  <2>2. \A u \in Requests : Indexed(u)' =>
          /\ Indexed(u) /\ call'[u].record = call[u].record
          /\ call'[u].fields.lineage = call[u].fields.lineage
    BY <1>3, <2>1 DEF Indexed, Passed
  <2> QED BY <1>2, <2>2, IndexKept
<1> QED BY <1>2, <1>4, <1>6, <1>7 DEF SerialInv

LEMMA InitSerialInv == TxnInit => SerialInv
<1> SUFFICES ASSUME TxnInit PROVE SerialInv
  OBVIOUS
<1>1. KindsInv
  <2>1. /\ fields = [r \in Records |-> IF r \in Stored THEN StoredFields[r] ELSE NoFields]
        /\ history = [r \in Records |-> r]
    BY DEF TxnInit, StoredInit
  <2> QED BY <2>1, TransactionsAssumption DEF KindsInv, NoFields
<1>2. \A t \in Requests : SerialRequest(t) /\ IndexFact(t)
  BY DEF TxnInit, SerialRequest, IndexFact, Indexed
<1> QED BY <1>1, <1>2 DEF SerialInv

LEMMA NextSerialInv == TxnInv /\ SerialInv /\ [TxnNext]_txnVars => SerialInv'
<1> SUFFICES ASSUME TxnInv, SerialInv, [TxnNext]_txnVars PROVE SerialInv'
  OBVIOUS
<1>1. ASSUME NEW t \in Requests, Statement(t)
      PROVE  SerialInv'
  BY <1>1, LockRowSerial, ValidateSerial, InsertSerial, LockHistorySerial, CommitSerial
  DEF Statement
<1>2. ASSUME NEW t \in Requests, AbortVictim(t) \/ Rollback(t)
      PROVE  SerialInv'
  <2>1. Refuse(t, "failed")
    BY <1>2 DEF AbortVictim, Rollback
  <2>2. status[t] = "running"
    BY <1>2, VictimRuns DEF AbortVictim, Rollback
  <2> QED BY <2>1, <2>2, RefuseSerial
<1>3. ASSUME NEW t \in Requests, NEW a \in Accounts, NEW r \in Records,
             NEW op \in Operations \cap WithoutForm,
             Begin(t, [op |-> op, actor |-> a, record |-> r, fields |-> NoFields])
      PROVE  SerialInv'
  <2> DEFINE c == [op |-> op, actor |-> a, record |-> r, fields |-> NoFields]
  <2>1. NoFields \in Fields /\ NoFields.lineage = NoRecord
    BY SubmissionsAssumption DEF NoFields, Fields
  <2>2. c \in Calls /\ FormKind(c)
    BY <2>1, ProgramOrder DEF Calls, WithoutForm, Ops, FormKind
  <2> HIDE DEF c
  <2>3. Begin(t, c)
    BY <1>3 DEF c
  <2> QED BY <2>2, <2>3, BeginSerial
<1>4. ASSUME NEW t \in Requests, NEW a \in Accounts, NEW r \in Records,
             NEW op \in Operations \ WithoutForm, NEW f \in Forms,
             f.lineage # NoRecord => KindOf[f.lineage] = KindOf[r],
             Begin(t, [op |-> op, actor |-> a, record |-> r, fields |-> f])
      PROVE  SerialInv'
  <2> DEFINE c == [op |-> op, actor |-> a, record |-> r, fields |-> f]
  <2>1. c \in Calls /\ FormKind(c)
    BY <1>4, TransactionsAssumption, ProgramOrder DEF Calls, Ops, FormKind
  <2> HIDE DEF c
  <2>2. Begin(t, c)
    BY <1>4 DEF c
  <2> QED BY <2>1, <2>2, BeginSerial
<1>5. CASE UNCHANGED txnVars
  <2>1. UNCHANGED vars /\ UNCHANGED requestVars
    BY <1>5 DEF txnVars
  <2>2. /\ status' = status /\ call' = call /\ at' = at
        /\ reapproval' = reapproval /\ rowLock' = rowLock /\ historyLock' = historyLock
    BY <2>1 DEF requestVars
  <2>3. /\ KindsInv' /\ fields' = fields /\ history' = history /\ state' = state
        /\ active' = active /\ admins' = admins /\ \A x \in Records : Frozen(x)
    BY <2>1, KindsKept
  <2>4. \A u \in Requests : SerialRequest(u)'
    BY <2>2, <2>3, OtherSerialKept DEF SerialInv
  <2>5. \A u \in Requests : IndexFact(u)'
    BY <2>2, <2>3, IndexKept DEF Indexed, Passed
  <2> QED BY <2>3, <2>4, <2>5 DEF SerialInv
<1> QED BY <1>1, <1>2, <1>3, <1>4, <1>5 DEF TxnNext

LEMMA SpecSerialInv == TxnSpec => [](TxnInv /\ SerialInv)
<1>1. TxnInit => SerialInv
  BY InitSerialInv
<1>2. TxnInv /\ SerialInv /\ [TxnNext]_txnVars => SerialInv'
  BY NextSerialInv
<1> QED BY <1>1, <1>2, SpecTxnInv, PTL DEF TxnSpec

-----------------------------------------------------------------------------
(* Only a commit makes a request committed.                                 *)
LEMMA CommittedByCommit ==
  ASSUME TxnInv, TxnNext, NEW t \in Requests,
         status[t] = "running", status'[t] = "committed"
  PROVE  Commit(t)
<1>1. status \in [Requests -> {"idle", "running", "committed", "refused", "failed"}]
  BY DEF TxnInv, RequestTypes
<1>2. ASSUME NEW u \in Requests, NEW outcome \in {"refused", "failed"}, Refuse(u, outcome)
      PROVE  FALSE
  BY <1>1, <1>2 DEF Refuse, Finish
<1>3. ASSUME NEW u \in Requests, Proceed(u)
      PROVE  FALSE
  BY <1>3 DEF Proceed
<1>4. ASSUME NEW u \in Requests, Statement(u)
      PROVE  Commit(t)
  <2>1. CASE Commit(u)
    BY <1>1, <2>1 DEF Commit, Finish
  <2>2. CASE ~Commit(u)
    BY <1>2, <1>3, <1>4, <2>2 DEF Statement, LockRow, Validate, Insert, LockHistory
  <2> QED BY <2>1, <2>2
<1>5. ASSUME NEW u \in Requests, AbortVictim(u) \/ Rollback(u)
      PROVE  FALSE
  BY <1>2, <1>5 DEF AbortVictim, Rollback
<1>6. ASSUME NEW u \in Requests, NEW c, Begin(u, c)
      PROVE  FALSE
  BY <1>1, <1>6 DEF Begin
<1> QED BY <1>4, <1>5, <1>6 DEF TxnNext

(* What a request that locks its row first knows when it commits.           *)
LEMMA CommitFacts ==
  ASSUME TxnInv, SerialInv, NEW t \in Requests, Commit(t), call[t].op \in RowFirst
  PROVE  /\ RowFact(call[t]) /\ Admitted(call[t]) /\ FormKind(call[t])
         /\ call[t].op # "withdraw" => Validated(call[t], reapproval[t])
         /\ TargetHistory(call[t]) = history[LockedRow(call[t])]
         /\ latest[t] = Latest(TargetHistory(call[t]))
         /\ call[t].op \in Succeeding =>
              /\ state[call[t].record] = "absent" /\ Source(call[t]) \in Records
              /\ SuccessorAvailable(KindOf[call[t].record], Source(call[t]), {})
<1> DEFINE c == call[t]
<1>1. status[t] = "running" /\ Program[c.op][at[t]] = "commit"
  BY DEF Commit, Running
<1>2. c.op \in Ops /\ at[t] \in DOMAIN Program[c.op] /\ c.record \in Records
  BY <1>1, RunningCall
<1>3. c.op # "create" /\ c.op # "update"
  BY DEF RowFirst
<1>4. RowFact(c) /\ Passed(t, "lockRow")
  BY <1>3, CommitEffect
<1>5. Admitted(c) /\ FormKind(c)
  BY <1>1, <1>4 DEF SerialInv, SerialRequest
<1>6. c.op # "withdraw" => Validated(c, reapproval[t])
  BY <1>1, <1>2, SerialOrder, PassedBefore DEF SerialInv, SerialRequest
<1>7. TargetHistory(c) = history[LockedRow(c)]
  BY <1>3 DEF TargetHistory
<1>8. latest[t] = Latest(TargetHistory(c))
  <2>1. Passed(t, "lockHistory")
    BY <1>1, <1>2, ProgramOrder, PassedBefore
  <2> QED BY <1>1, <2>1 DEF TxnInv, RequestInv, NumberInv
<1>9. ASSUME c.op \in Succeeding
      PROVE  /\ state[c.record] = "absent" /\ Source(c) \in Records
             /\ SuccessorAvailable(KindOf[c.record], Source(c), {})
  <2>1. state[c.record] = "absent" /\ Source(c) \in Records
    BY <1>1, <1>9 DEF TxnInv, RequestInv, CallInv, Succeeding, Inserting, Source
  <2>2. Source(c) # NoRecord /\ fields[c.record].lineage = NoRecord
    BY <1>2, <2>1, SubmissionsAssumption DEF SerialInv, KindsInv
  <2>3. Passed(t, "insert")
    BY <1>1, <1>2, <1>9, SerialOrder, PassedBefore DEF Succeeding, Inserting
  <2>4. KindOf[c.record] # "machine" =>
          \A r \in Records \ {c.record} : fields[r].lineage # Source(c)
    BY <1>1, <2>2, <2>3 DEF SerialInv, IndexFact, Indexed, Source
  <2> QED BY <2>1, <2>2, <2>4 DEF SuccessorAvailable
<1> QED BY <1>4, <1>5, <1>6, <1>7, <1>8, <1>9

LEMMA CommitIsOperation ==
  ASSUME TxnInv, SerialInv, NEW t \in Requests, Commit(t),
         call[t].op \in RowFirst, WithoutReferences(call[t])
  PROVE  Next
<1> DEFINE c == call[t]
           r == c.record
           a == c.actor
           f == c.fields
<1>1. status[t] = "running"
  BY DEF Commit, Running
<1>2. r \in Records /\ a \in Accounts /\ f \in Fields
  BY <1>1, RunningCall
<1>3. /\ RowFact(c) /\ Admitted(c) /\ FormKind(c)
      /\ c.op # "withdraw" => Validated(c, reapproval[t])
      /\ TargetHistory(c) = history[LockedRow(c)] /\ latest[t] = Latest(TargetHistory(c))
      /\ c.op \in Succeeding =>
           /\ state[r] = "absent" /\ Source(c) \in Records
           /\ SuccessorAvailable(KindOf[r], Source(c), {})
  BY CommitFacts
<1>4. \A k : ReferenceShape(k, {}) => ReferencesPublished(k, {})
  BY DEF ReferenceShape, ReferencesPublished
<1>5. CASE c.op = "withdraw"
  <2>1. LockedRow(c) = r
    BY <1>5 DEF LockedRow, Succeeding
  <2>2. StoreWithdrawal(a, r, Latest(history[r]))
    BY <1>3, <1>5, <2>1 DEF Commit
  <2>3. WithdrawSubmission(a, r)
    BY <1>3, <1>5, <2>1, <2>2 DEF WithdrawSubmission, RowFact, Admitted
  <2> QED BY <1>2, <2>3 DEF Next
<1>6. CASE c.op = "approve"
  <2>1. LockedRow(c) = r
    BY <1>6 DEF LockedRow, Succeeding
  <2>2. StoreApproval(a, r, Latest(history[r]))
    BY <1>3, <1>6, <2>1 DEF Commit
  <2>3. fields[r].refs = {}
    BY <1>6 DEF WithoutReferences
  <2>4. Publishable(r)
    BY <1>3, <1>4, <1>6, <2>3 DEF Validated, Publishable
  <2>5. ApproveSubmission(a, r)
    BY <1>3, <1>6, <2>2, <2>4 DEF ApproveSubmission, Admitted
  <2> QED BY <1>2, <2>5 DEF Next
<1>7. ASSUME c.op \in Succeeding
      PROVE  /\ f \in FormFields(KindOf[r]) /\ f.lineage = Source(c) /\ f.lineage # NoRecord
             /\ ReferencesPublished(KindOf[r], f.refs) /\ KindOf[f.lineage] = KindOf[r]
             /\ LockedRow(c) = Source(c) /\ Manages(a, Source(c))
  <2>1. f.refs = {} /\ f.lineage = Source(c) /\ LockedRow(c) = Source(c)
    BY <1>7 DEF WithoutReferences, LockedRow, Source
  <2>2. f.lineage # NoRecord /\ KindOf[f.lineage] = KindOf[r]
    BY <1>3, <1>7, <2>1, SubmissionsAssumption DEF FormKind
  <2>3. ReferencesPublished(KindOf[r], f.refs)
    BY <1>3, <1>4, <1>7, <2>1 DEF Validated, Succeeding
  <2>4. f \in FormFields(KindOf[r])
    BY <1>2, <1>3, <1>7, <2>1, <2>2 DEF Fields, FormFields, OfKind
  <2> QED BY <1>3, <1>7, <2>1, <2>2, <2>3, <2>4 DEF Admitted
<1>8. CASE c.op = "successor"
  <2> DEFINE again == state[Source(c)] = "withdrawn"
  <2>1. c.op \in Succeeding
    BY <1>8 DEF Succeeding
  <2>2. /\ state[r] = "absent" /\ Manages(a, Source(c))
        /\ state[Source(c)] \in PublicStates /\ reapproval[t] = again
    BY <1>3, <1>7, <1>8, <2>1 DEF RowFact, Validated
  <2>3. StoreSubmission(a, r, f, again, history[Source(c)], Latest(history[Source(c)]))
    BY <1>3, <1>7, <1>8, <2>1, <2>2 DEF Commit
  <2>4. ValidFields(KindOf[r], f, again, {})
    BY <1>3, <1>7, <2>1, <2>2
    DEF ValidFields, FirstIsDescribed, LineageStates, PublicStates
  <2>5. CreateSuccessor(a, Source(c), r, f)
    BY <1>7, <2>1, <2>2, <2>3, <2>4 DEF CreateSuccessor
  <2> QED BY <1>2, <1>7, <2>1, <2>5 DEF Next
<1>9. CASE c.op = "replace"
  <2>1. c.op \in Succeeding
    BY <1>9 DEF Succeeding
  <2>2. state[Source(c)] = "published" /\ KindOf[Source(c)] \in {"decoder", "circuit"}
    BY <1>3, <1>7, <1>9, <2>1 DEF RowFact, Admitted
  <2>3. StoreReplacement(a, Source(c), r, f, Latest(history[Source(c)]))
    BY <1>3, <1>7, <1>9, <2>1 DEF Commit
  <2>4. ReplaceWithSuccessor(a, Source(c), r, f)
    BY <1>3, <1>7, <2>1, <2>2, <2>3 DEF ReplaceWithSuccessor
  <2> QED BY <1>2, <1>7, <2>1, <2>4 DEF Next
<1> QED BY <1>5, <1>6, <1>8, <1>9 DEF RowFirst

(* For any number of concurrent requests, the withdrawals, successors,      *)
(* replacements and approvals that involve no references serialise: each    *)
(* commit is one operation of the service on the database as it then is,    *)
(* although what it validated was read before other commits.                *)
THEOREM CommitsSerialise == TxnSpec => CommitsAreOperations
<1>1. TxnInv /\ SerialInv /\ [TxnNext]_txnVars =>
        [\A t \in Requests :
           (/\ status[t] = "running" /\ status'[t] = "committed"
            /\ call[t].op \in RowFirst /\ WithoutReferences(call[t]))
             => Next]_txnVars
  BY CommittedByCommit, CommitIsOperation
<1> QED BY <1>1, SpecSerialInv, PTL DEF TxnSpec, CommitsAreOperations

-----------------------------------------------------------------------------
(* In a circle everybody is waited for.                                     *)
LEMMA CyclePredecessor ==
  ASSUME NEW S, WaitCycle(S), NEW v \in S
  PROVE  \E u \in S : v \in WaitsFor(u)
<1>1. /\ \A u \in S : WaitsFor(u) \cap S # {}
      /\ \A T \in SUBSET S \ {{}, S} : \E u \in T : WaitsFor(u) \cap T = {}
  BY DEF WaitCycle
<1>2. v \notin WaitsFor(v)
  BY DEF WaitsFor
<1>3. CASE S = {v}
  <2>1. WaitsFor(v) \cap {v} # {}
    BY <1>1, <1>3
  <2> QED BY <1>2, <2>1
<1>4. CASE S # {v}
  <2>1. PICK T \in SUBSET S : T = S \ {v}
    OBVIOUS
  <2>2. T # {}
    BY <1>4, <2>1
  <2>3. T # S
    BY <2>1
  <2>4. PICK u \in T : WaitsFor(u) \cap T = {}
    BY <1>1, <2>2, <2>3
  <2> QED BY <1>1, <2>1, <2>4
<1> QED BY <1>3, <1>4

(* Whom a request can wait for, when both lock their rows first: for the    *)
(* row before it has one, for the history, or as a result at its commit for *)
(* somebody that has locked a record it refers to.                          *)
LEMMA WaitsOn ==
  ASSUME TxnInv, SerialInv, NEW u \in Requests, NEW v \in Requests, v \in WaitsFor(u),
         call[u].op \in RowFirst, call[v].op \in RowFirst
  PROVE  /\ status[u] = "running" /\ status[v] = "running" /\ Passed(v, "lockRow")
         /\ \/ Program[call[u].op][at[u]] = "lockRow"
            \/ /\ Program[call[u].op][at[u]] = "lockHistory"
               /\ Passed(v, "lockHistory")
               /\ TargetHistory(call[v]) = TargetHistory(call[u])
            \/ /\ Program[call[u].op][at[u]] = "commit"
               /\ KindOf[LockedRow(call[u])] = "result"
               /\ KindOf[LockedRow(call[v])] # "result"
<1> DEFINE c == call[u]
           d == call[v]
           s == Program[c.op][at[u]]
<1>1. status[u] = "running" /\ v # u
  BY DEF WaitsFor
<1>2. /\ c.op \in Ops /\ at[u] \in DOMAIN Program[c.op] /\ c.record \in Records
      /\ LockedRow(c) \in Records /\ TargetHistory(c) \in Records
  BY <1>1, RunningCall
<1>3. \A x \in Records : rowLock[x] = v =>
        status[v] = "running" /\ Passed(v, "lockRow") /\ x = LockedRow(d)
  BY DEF TxnInv, LocksInv, SerialInv, SerialRequest, HoldsOwn
<1>4. c.op # "create" /\ c.op # "update" /\ d.op # "create" /\ d.op # "update"
  BY DEF RowFirst
<1>5. RequestInv(u) /\ SerialRequest(u) /\ RequestInv(v)
  BY DEF TxnInv, SerialInv
<1>6. s \in {"lockRow", "validate", "insert", "lockHistory", "commit"}
  BY <1>2, SerialOrder
<1>7. CASE s = "lockRow"
  <2>1. v = rowLock[LockedRow(c)]
    BY <1>1, <1>7 DEF WaitsFor, Running
  <2> QED BY <1>1, <1>2, <1>3, <1>7, <2>1
<1>8. s # "validate"
  BY <1>1 DEF WaitsFor, Running
<1>9. s # "insert"
  <2> SUFFICES ASSUME s = "insert" PROVE FALSE
    OBVIOUS
  <2>1. v \in IndexHolders(u)
    BY <1>1 DEF WaitsFor, Running
  <2>2. HasWritten(v) /\ c.fields.lineage \in LineagesTouched(v)
    BY <2>1 DEF IndexHolders
  <2>3. c.fields.lineage = d.fields.lineage /\ status[v] = "running" /\ Passed(v, "insert")
    BY <1>4, <2>2 DEF LineagesTouched, HasWritten, Passed
  <2>4. c.op \in Succeeding /\ d.op \in Succeeding
    <3>1. c.op \in Inserting \cup {"update"}
      BY <1>2, SerialOrder
    <3>2. d.op \in Ops /\ at[v] \in DOMAIN Program[d.op]
      BY <2>3, RunningCall
    <3>3. d.op \in Inserting \cup {"update"}
      BY <2>3, <3>2, SerialOrder, PassedBefore
    <3> QED BY <1>4, <3>1, <3>3 DEF Inserting, Succeeding
  <2>5. LockedRow(c) = LockedRow(d)
    BY <2>3, <2>4 DEF LockedRow, Source
  <2>6. Passed(u, "lockRow") /\ Passed(v, "lockRow")
    BY <1>1, <1>2, <1>4, <2>3, PassedOrder, PassedBefore, ProgramOrder
  <2> QED BY <1>1, <1>5, <2>3, <2>5, <2>6 DEF RequestInv, RowInv
<1>10. CASE s = "lockHistory"
  <2>1. v = historyLock[TargetHistory(c)]
    BY <1>1, <1>10 DEF WaitsFor, Running
  <2>2. status[v] = "running"
    BY <1>2, <2>1 DEF TxnInv, LocksInv
  <2>3. Passed(v, "lockHistory") /\ TargetHistory(d) = TargetHistory(c)
    BY <1>2, <2>1, <2>2 DEF SerialInv, SerialRequest, HoldsOwn
  <2>4. Passed(v, "lockRow")
    BY <1>4, <2>2, <2>3, PassedOrder
  <2> QED BY <1>1, <1>10, <2>2, <2>3, <2>4
<1>11. CASE s = "commit"
  <2>1. PICK x \in ForeignRows(u) : v = rowLock[x]
    BY <1>1, <1>11 DEF WaitsFor, Running
  <2>2. c.op \in Succeeding /\ x \in (c.fields.refs \cup {c.fields.lineage}) \ {NoRecord}
    BY <1>4, <2>1 DEF ForeignRows, Inserting, Succeeding
  <2>3. LockedRow(c) = c.fields.lineage /\ Passed(u, "lockRow") /\ Passed(u, "validate")
    <3>1. Passed(u, "validate")
      BY <1>2, <1>4, <1>11, <2>2, SerialOrder, PassedBefore DEF Succeeding
    <3> QED BY <1>1, <1>4, <2>2, <3>1, PassedOrder DEF LockedRow, Source
  <2>4. x # c.fields.lineage
    BY <1>1, <1>5, <2>1, <2>3 DEF RequestInv, RowInv
  <2>5. ReferenceShape(KindOf[c.record], c.fields.refs) /\ FormKind(c)
    BY <1>1, <1>5, <2>2, <2>3 DEF SerialRequest, Validated
  <2>6. KindOf[c.record] = "result" /\ KindOf[x] # "result"
    BY <2>2, <2>4, <2>5 DEF ReferenceShape, ReferenceKinds
  <2>7. KindOf[LockedRow(c)] = "result"
    BY <1>2, <2>3, <2>5, <2>6, SubmissionsAssumption DEF FormKind
  <2>8. x \in Records
    BY <1>1, <2>2, <2>4, RunningCall DEF Fields
  <2> QED BY <1>1, <1>3, <1>11, <2>1, <2>6, <2>7, <2>8
<1> QED BY <1>6, <1>7, <1>8, <1>9, <1>10, <1>11

LEMMA RowFirstNeverCircle ==
  ASSUME TxnInv, SerialInv, NEW S \in SUBSET Requests, WaitCycle(S)
  PROVE  \E t \in S : call[t].op \notin RowFirst
<1> SUFFICES ASSUME \A t \in S : call[t].op \in RowFirst
             PROVE  FALSE
  OBVIOUS
<1> DEFINE At(u, s) == Program[call[u].op][at[u]] = s
<1>1. \A u \in S : \E v \in S : v \in WaitsFor(u)
  BY DEF WaitCycle
<1>2. \A u \in S : /\ status[u] = "running" /\ at[u] \in DOMAIN Program[call[u].op]
                   /\ call[u].op \in Ops /\ call[u].op # "create"
                   /\ LockedRow(call[u]) \in Records
  BY <1>1, WaitsOn, RunningCall DEF RowFirst
<1>3. \A u \in S : ~At(u, "lockRow")
  <2>1. \A v \in S : Passed(v, "lockRow")
    BY CyclePredecessor, WaitsOn
  <2> QED BY <1>2, <2>1, SerialOrder, PassedBefore
<1>4. \A u \in S : At(u, "lockHistory") \/ At(u, "commit")
  BY <1>1, <1>3, WaitsOn
<1>5. \A u \in S : At(u, "commit") => KindOf[LockedRow(call[u])] = "result"
  BY <1>1, WaitsOn
<1>6. \A u \in S : KindOf[TargetHistory(call[u])] = KindOf[LockedRow(call[u])]
  BY <1>2 DEF SerialInv, KindsInv, TargetHistory
<1>7. \A u, v \in S : v \in WaitsFor(u) /\ At(u, "lockHistory") =>
        At(v, "commit") /\ TargetHistory(call[v]) = TargetHistory(call[u])
  <2> SUFFICES ASSUME NEW u \in S, NEW v \in S, v \in WaitsFor(u), At(u, "lockHistory")
               PROVE  At(v, "commit") /\ TargetHistory(call[v]) = TargetHistory(call[u])
    OBVIOUS
  <2>1. Passed(v, "lockHistory") /\ TargetHistory(call[v]) = TargetHistory(call[u])
    BY WaitsOn
  <2>2. ~At(v, "lockHistory")
    BY <1>2, <2>1, SerialOrder, PassedBefore
  <2> QED BY <1>4, <2>1, <2>2
<1>8. \A v \in S : At(v, "lockHistory") => KindOf[LockedRow(call[v])] = "result"
  BY <1>1, <1>5, <1>6, <1>7
<1>9. \A u \in S : ~At(u, "commit")
  <2> SUFFICES ASSUME NEW u \in S, At(u, "commit") PROVE FALSE
    OBVIOUS
  <2>1. PICK v \in S : v \in WaitsFor(u)
    BY <1>1
  <2>2. KindOf[LockedRow(call[v])] # "result"
    BY <2>1, WaitsOn
  <2> QED BY <1>4, <1>5, <1>8, <2>2
<1>10. PICK u \in S : TRUE
  BY DEF WaitCycle
<1> QED BY <1>1, <1>4, <1>7, <1>9, <1>10

(* Any circle of requests, however many there are, contains a submission or *)
(* an edit: the others lock their row, then their history, and wait at the  *)
(* commit only for rows of kinds that no result is.                         *)
THEOREM DeadlockFreedom == TxnSpec => []DeadlocksNeedUnlockedLineage
<1>1. TxnInv /\ SerialInv => DeadlocksNeedUnlockedLineage
  BY RowFirstNeverCircle DEF DeadlocksNeedUnlockedLineage
<1> QED BY <1>1, SpecSerialInv, PTL
=============================================================================

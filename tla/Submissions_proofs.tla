------------------------- MODULE Submissions_proofs -------------------------
(***************************************************************************)
(* Theorems about Submissions, for any sets of records and accounts.       *)
(***************************************************************************)
EXTENDS Submissions, TLAPS

(* The strengthening under which the largest sequence number of a history, *)
(* a CHOOSE in Latest, is a number: every history is numbered 1..n.        *)
Numbered(h) == \E n \in Nat : SequencesOf(h) = 1..n
UniqueSequence(h) == \A d, e \in RowsOf(h) : d.sequence = e.sequence => d = e

HistoryInv ==
  /\ TypeOK
  /\ \A h \in Records : Numbered(h) /\ UniqueSequence(h)

\* The rows C continue a history h that ends at n.
Continues(C, h, n) ==
  /\ C \subseteq Rows
  /\ \A e \in C : e.history = h
  /\ \E k \in Nat : {e.sequence : e \in C} = (n + 1)..(n + k)
  /\ \A d, e \in C : d.sequence = e.sequence => d = e

-----------------------------------------------------------------------------
(* The largest sequence number of a history numbered 1..n is n.            *)
LEMMA LatestOfNumbered ==
  ASSUME NEW h, NEW n \in Nat, SequencesOf(h) = 1..n
  PROVE  Latest(h) = n
<1>1. CASE n = 0
  <2>1. RowsOf(h) = {}
    BY <1>1 DEF SequencesOf
  <2> QED BY <1>1, <2>1 DEF Latest
<1>2. CASE n # 0
  <2>1. n \in SequencesOf(h) /\ \A m \in SequencesOf(h) : m <= n
    BY <1>2
  <2>2. RowsOf(h) # {}
    BY <2>1 DEF SequencesOf
  <2>3. \A p \in SequencesOf(h) :
          (\A m \in SequencesOf(h) : m <= p) => p = n
    BY <2>1
  <2> QED BY <2>1, <2>2, <2>3 DEF Latest
<1> QED BY <1>1, <1>2

LEMMA LatestNat ==
  ASSUME HistoryInv, NEW h \in Records
  PROVE  Latest(h) \in Nat /\ SequencesOf(h) = 1..Latest(h)
BY LatestOfNumbered DEF HistoryInv, Numbered

(* A row built by Row is a row of the table.                               *)
LEMMA RowType ==
  ASSUME NEW h \in Records, NEW n \in Nat, NEW r \in Records,
         NEW action \in Actions, NEW actor \in Accounts \cup {System}
  PROVE  /\ Row(h, n, r, action, actor) \in Rows
         /\ NoFields \in Fields
<1>1. NoFields \in Fields
  BY SubmissionsAssumption DEF NoFields, Fields
<1>2. "absent" \in States
  BY DEF States
<1> QED BY <1>1, <1>2 DEF Row, Rows

(* The events of a new submission continue the history they are put in.    *)
LEMMA CreationRowsContinue ==
  ASSUME NEW h \in Records, NEW n \in Nat, NEW r \in Records,
         NEW a \in Accounts, NEW f \in Fields, NEW reapproval \in BOOLEAN
  PROVE  /\ Continues(CreationRows(h, n, r, a, f, reapproval), h, n)
         /\ \A e \in CreationRows(h, n, r, a, f, reapproval) : e.record = r
<1> DEFINE initial == InitialState(KindOf[r], reapproval)
           m == IF f.lineage = NoRecord THEN n ELSE n + 1
           R == IF f.lineage = NoRecord THEN {}
                ELSE {[Row(h, m, r, "revision_created", a)
                         EXCEPT !.predecessor = f.lineage]}
           s == [Row(h, m + 1, r, IF reapproval THEN "resubmitted" ELSE "submitted", a)
                   EXCEPT !.projected = initial, !.snapshot = f]
           p == [Row(h, m + 2, r, "approved", System) EXCEPT !.cause = m + 1]
           q == [Row(h, m + 3, r, "published", System) EXCEPT !.cause = m + 2]
           P == IF initial # "published" THEN {} ELSE {p, q}
           C == CreationRows(h, n, r, a, f, reapproval)
<1>1. C = R \cup {s} \cup P
  BY DEF CreationRows
<1>2. m \in Nat /\ initial \in States /\ f.lineage \in Records \cup {NoRecord}
  BY DEF InitialState, States, PendingStates, PublicStates, Fields
<1>3. /\ s \in Rows /\ s.history = h /\ s.sequence = m + 1 /\ s.record = r
  <2> DEFINE act == IF reapproval THEN "resubmitted" ELSE "submitted"
             b == Row(h, m + 1, r, act, a)
  <2>1. act \in Actions
    BY DEF Actions
  <2>2. s = [b EXCEPT !.projected = initial, !.snapshot = f]
    OBVIOUS
  <2> HIDE DEF act, m, initial
  <2>3. b \in Rows /\ b.history = h /\ b.sequence = m + 1 /\ b.record = r
    BY <1>2, <2>1, RowType DEF Row
  <2> HIDE DEF b
  <2> QED BY <1>2, <2>2, <2>3 DEF Rows
<1>4. /\ p \in Rows /\ p.history = h /\ p.sequence = m + 2 /\ p.record = r
      /\ q \in Rows /\ q.history = h /\ q.sequence = m + 3 /\ q.record = r
  <2>1. NoFields \in Fields /\ "absent" \in States
    BY RowType DEF States, Actions
  <2> QED BY <1>2, <2>1 DEF Row, Rows, Actions
<1>5. \A e \in R : e \in Rows /\ e.history = h /\ e.sequence = m /\ e.record = r
  <2>1. NoFields \in Fields /\ "absent" \in States
    BY RowType DEF States, Actions
  <2> QED BY <1>2, <2>1 DEF Row, Rows, Actions
<1>6. f.lineage = NoRecord => R = {} /\ m = n
  OBVIOUS
<1>7. f.lineage # NoRecord => m = n + 1 /\ \E e \in R : R = {e} /\ e.sequence = n + 1
  BY <1>5
<1>8. P = {} \/ P = {p, q}
  OBVIOUS
<1> HIDE DEF C, R, s, p, q, P, m, initial
<1>9. C \subseteq Rows /\ \A e \in C : e.history = h /\ e.record = r
  BY <1>1, <1>3, <1>4, <1>5, <1>8
<1>10. \A d, e \in C : d.sequence = e.sequence => d = e
  BY <1>1, <1>2, <1>3, <1>4, <1>5, <1>6, <1>7, <1>8
<1>11. \E k \in Nat : {e.sequence : e \in C} = (n + 1)..(n + k)
  <2>1. CASE f.lineage = NoRecord /\ P = {}
    <3>1. {e.sequence : e \in C} = (n + 1)..(n + 1)
      BY <2>1, <1>1, <1>3, <1>6
    <3> QED BY <3>1
  <2>2. CASE f.lineage = NoRecord /\ P = {p, q}
    <3>1. {e.sequence : e \in C} = (n + 1)..(n + 3)
      BY <2>2, <1>1, <1>3, <1>4, <1>6
    <3> QED BY <3>1
  <2>3. CASE f.lineage # NoRecord /\ P = {}
    <3>1. {e.sequence : e \in C} = (n + 1)..(n + 2)
      BY <2>3, <1>1, <1>3, <1>7
    <3> QED BY <3>1
  <2>4. CASE f.lineage # NoRecord /\ P = {p, q}
    <3>1. {e.sequence : e \in C} = (n + 1)..(n + 4)
      BY <2>4, <1>1, <1>3, <1>4, <1>7
    <3> QED BY <3>1
  <2> QED BY <2>1, <2>2, <2>3, <2>4, <1>8
<1> QED BY <1>9, <1>10, <1>11 DEF Continues, C

(* One event, or an approval and the publication it causes.                *)
LEMMA OneRowContinues ==
  ASSUME NEW h \in Records, NEW n \in Nat, NEW e \in Rows,
         e.history = h, e.sequence = n + 1
  PROVE  Continues({e}, h, n)
<1>1. {d.sequence : d \in {e}} = (n + 1)..(n + 1)
  OBVIOUS
<1> QED BY <1>1 DEF Continues

LEMMA RowsBeforeContinue ==
  ASSUME NEW h \in Records, NEW n \in Nat, NEW e \in Rows, NEW C,
         e.history = h, e.sequence = n + 1, Continues(C, h, n + 1)
  PROVE  Continues({e} \cup C, h, n)
<1>1. PICK k \in Nat : {d.sequence : d \in C} = (n + 2)..(n + 1 + k)
  BY DEF Continues
<1>2. \A d \in C : d.sequence \in (n + 2)..(n + 1 + k)
  BY <1>1
<1>3. {d.sequence : d \in {e} \cup C} = (n + 1)..(n + (k + 1))
  <2>1. {d.sequence : d \in {e} \cup C} = {n + 1} \cup {d.sequence : d \in C}
    OBVIOUS
  <2> QED BY <1>1, <2>1
<1>4. \A d \in C : d.sequence # e.sequence
  BY <1>2
<1> QED BY <1>3, <1>4 DEF Continues

(* Rows that continue a history keep every history numbered 1..n.          *)
LEMMA HistoryContinues ==
  ASSUME HistoryInv, NEW h \in Records, NEW C, Continues(C, h, Latest(h)),
         events' = events \cup C
  PROVE  /\ events' \subseteq Rows
         /\ \A g \in Records : Numbered(g)' /\ UniqueSequence(g)'
<1> DEFINE n == Latest(h)
           D == {e.sequence : e \in C}
<1>1. n \in Nat /\ SequencesOf(h) = 1..n
  BY LatestNat
<1>2. PICK k \in Nat : D = (n + 1)..(n + k)
  BY DEF Continues
<1>3. events' \subseteq Rows
  BY DEF Continues, HistoryInv, TypeOK
<1>4. RowsOf(h)' = RowsOf(h) \cup C
  BY DEF RowsOf, Continues
<1>5. \A g \in Records : g # h => RowsOf(g)' = RowsOf(g)
  BY DEF RowsOf, Continues
<1>6. SequencesOf(h)' = 1..(n + k)
  <2>1. SequencesOf(h)' = SequencesOf(h) \cup D
    BY <1>4 DEF SequencesOf
  <2> HIDE DEF n, D
  <2> QED BY <1>1, <1>2, <2>1
<1>7. UniqueSequence(h)'
  <2>1. \A d \in RowsOf(h) : d.sequence \in 1..n
    BY <1>1 DEF SequencesOf
  <2>2. \A d \in C : d.sequence \in (n + 1)..(n + k)
    BY <1>2
  <2>3. \A d \in RowsOf(h), e \in C : d.sequence # e.sequence
    BY <1>1, <2>1, <2>2
  <2>4. /\ \A d, e \in RowsOf(h) : d.sequence = e.sequence => d = e
        /\ \A d, e \in C : d.sequence = e.sequence => d = e
    BY DEF HistoryInv, UniqueSequence, Continues
  <2> QED BY <1>4, <2>3, <2>4 DEF UniqueSequence
<1>8. \A g \in Records : g # h => Numbered(g)' /\ UniqueSequence(g)'
  BY <1>5 DEF HistoryInv, Numbered, UniqueSequence, SequencesOf
<1>9. Numbered(h)'
  BY <1>1, <1>6 DEF Numbered
<1> QED BY <1>3, <1>7, <1>8, <1>9

-----------------------------------------------------------------------------
LEMMA InitHistoryInv == Init => HistoryInv
<1> SUFFICES ASSUME Init PROVE HistoryInv
  OBVIOUS
<1>1. TypeOK
  BY SubmissionsAssumption DEF Init, TypeOK, States, NoFields, Fields
<1>2. ASSUME NEW h \in Records
      PROVE  Numbered(h) /\ UniqueSequence(h)
  <2>1. RowsOf(h) = {}
    BY DEF Init, RowsOf
  <2>2. SequencesOf(h) = 1..0
    BY <2>1 DEF SequencesOf
  <2> QED BY <2>1, <2>2 DEF Numbered, UniqueSequence
<1> QED BY <1>1, <1>2 DEF HistoryInv

LEMMA InitialStateType ==
  ASSUME NEW k, NEW reapproval
  PROVE  InitialState(k, reapproval) \in States
BY DEF InitialState, States, PendingStates, PublicStates

LEMMA CreationPublishedAtType ==
  ASSUME NEW n \in Nat, NEW r, NEW f, NEW reapproval
  PROVE  CreationPublishedAt(n, r, f, reapproval) \in Nat
BY DEF CreationPublishedAt

(* Every operation keeps the tables typed and the histories numbered.      *)
LEMMA CreateSubmissionHistoryInv ==
  ASSUME HistoryInv, NEW a \in Accounts, NEW r \in Records, NEW f \in Fields,
         CreateSubmission(a, r, f)
  PROVE  HistoryInv'
<1> DEFINE h == HistoryForNewRecord(r, f.lineage)
<1>1. h \in Records
  BY DEF HistoryForNewRecord, HistoryInv, TypeOK, Fields
<1>2. Latest(h) \in Nat
  BY <1>1, LatestNat
<1>3. Continues(CreationRows(h, Latest(h), r, a, f, FALSE), h, Latest(h))
  BY <1>1, <1>2, CreationRowsContinue
<1>4. events' = events \cup CreationRows(h, Latest(h), r, a, f, FALSE)
  BY DEF CreateSubmission, StoreSubmission
<1>5. /\ events' \subseteq Rows
      /\ \A g \in Records : Numbered(g)' /\ UniqueSequence(g)'
  BY <1>1, <1>3, <1>4, HistoryContinues
<1>6. TypeOK'
  BY <1>1, <1>2, <1>5, InitialStateType, CreationPublishedAtType
  DEF CreateSubmission, StoreSubmission, InsertRecord, HistoryInv, TypeOK, accountVars
<1> QED BY <1>5, <1>6 DEF HistoryInv

LEMMA CreateSuccessorHistoryInv ==
  ASSUME HistoryInv, NEW a \in Accounts, NEW source \in Records,
         NEW r \in Records, NEW f \in Fields,
         CreateSuccessor(a, source, r, f)
  PROVE  HistoryInv'
<1> DEFINE h == history[source]
           reapproval == state[source] = "withdrawn"
<1>1. h \in Records /\ reapproval \in BOOLEAN
  BY DEF HistoryInv, TypeOK
<1>2. Latest(h) \in Nat
  BY <1>1, LatestNat
<1>3. Continues(CreationRows(h, Latest(h), r, a, f, reapproval), h, Latest(h))
  BY <1>1, <1>2, CreationRowsContinue
<1>4. events' = events \cup CreationRows(h, Latest(h), r, a, f, reapproval)
  BY DEF CreateSuccessor, StoreSubmission
<1>5. /\ events' \subseteq Rows
      /\ \A g \in Records : Numbered(g)' /\ UniqueSequence(g)'
  BY <1>1, <1>3, <1>4, HistoryContinues
<1>6. TypeOK'
  BY <1>1, <1>2, <1>5, InitialStateType, CreationPublishedAtType
  DEF CreateSuccessor, StoreSubmission, InsertRecord, HistoryInv, TypeOK, accountVars
<1> QED BY <1>5, <1>6 DEF HistoryInv

LEMMA ReplaceWithSuccessorHistoryInv ==
  ASSUME HistoryInv, NEW a \in Accounts, NEW source \in Records,
         NEW r \in Records, NEW f \in Fields,
         ReplaceWithSuccessor(a, source, r, f)
  PROVE  HistoryInv'
<1> DEFINE h == history[source]
           n == Latest(h) + 1
           w == Row(h, n, source, "withdrawn", a)
           C == CreationRows(h, n, r, a, f, TRUE)
<1>1. h \in Records
  BY DEF HistoryInv, TypeOK
<1>2. Latest(h) \in Nat /\ n \in Nat
  BY <1>1, LatestNat
<1>3. Continues(C, h, n)
  BY <1>1, <1>2, CreationRowsContinue
<1>4. w \in Rows /\ w.history = h /\ w.sequence = n
  BY <1>1, <1>2, RowType DEF Row, Actions
<1>5. Continues({w} \cup C, h, Latest(h))
  <2> HIDE DEF h, w, C
  <2> QED BY <1>1, <1>2, <1>3, <1>4, RowsBeforeContinue
<1>6. events' = events \cup ({w} \cup C)
  BY DEF ReplaceWithSuccessor, StoreReplacement
<1>7. /\ events' \subseteq Rows
      /\ \A g \in Records : Numbered(g)' /\ UniqueSequence(g)'
  BY <1>1, <1>5, <1>6, HistoryContinues
<1>8. TypeOK'
  <2>1. "withdrawn" \in States
    BY DEF States, PublicStates
  <2> QED BY <1>1, <1>2, <1>7, <2>1, InitialStateType
          DEF ReplaceWithSuccessor, StoreReplacement, InsertRecord, HistoryInv, TypeOK, accountVars
<1> QED BY <1>7, <1>8 DEF HistoryInv

LEMMA UpdatePendingHistoryInv ==
  ASSUME HistoryInv, NEW a \in Accounts, NEW r \in Records, NEW f \in Fields,
         UpdatePending(a, r, f)
  PROVE  HistoryInv'
<1> DEFINE h == history[r]
           g == PinnedFields(r, f)
           e == [Row(h, Latest(h) + 1, r, "edited", a) EXCEPT !.snapshot = g]
<1>1. h \in Records /\ g \in Fields
  BY DEF HistoryInv, TypeOK, PinnedFields, Fields
<1>2. Latest(h) \in Nat
  BY <1>1, LatestNat
<1>3. e \in Rows /\ e.history = h /\ e.sequence = Latest(h) + 1
  <2>1. Row(h, Latest(h) + 1, r, "edited", a) \in Rows
    BY <1>1, <1>2, RowType DEF Actions
  <2> QED BY <1>1, <2>1 DEF Row, Rows
<1>4. Continues({e}, h, Latest(h))
  <2> HIDE DEF h, e
  <2> QED BY <1>1, <1>2, <1>3, OneRowContinues
<1>5. events' = events \cup {e}
  BY DEF UpdatePending, StoreEdit
<1>6. /\ events' \subseteq Rows
      /\ \A i \in Records : Numbered(i)' /\ UniqueSequence(i)'
  BY <1>1, <1>4, <1>5, HistoryContinues
<1>7. TypeOK'
  BY <1>1, <1>6 DEF UpdatePending, StoreEdit, HistoryInv, TypeOK, accountVars
<1> QED BY <1>6, <1>7 DEF HistoryInv

LEMMA WithdrawSubmissionHistoryInv ==
  ASSUME HistoryInv, NEW a \in Accounts, NEW r \in Records,
         WithdrawSubmission(a, r)
  PROVE  HistoryInv'
<1> DEFINE h == history[r]
           e == Row(h, Latest(h) + 1, r, "withdrawn", a)
<1>1. h \in Records
  BY DEF HistoryInv, TypeOK
<1>2. Latest(h) \in Nat
  BY <1>1, LatestNat
<1>3. e \in Rows /\ e.history = h /\ e.sequence = Latest(h) + 1
  BY <1>1, <1>2, RowType DEF Row, Actions
<1>4. Continues({e}, h, Latest(h))
  <2> HIDE DEF h, e
  <2> QED BY <1>1, <1>2, <1>3, OneRowContinues
<1>5. events' = events \cup {e}
  BY DEF WithdrawSubmission, StoreWithdrawal
<1>6. /\ events' \subseteq Rows
      /\ \A i \in Records : Numbered(i)' /\ UniqueSequence(i)'
  BY <1>1, <1>4, <1>5, HistoryContinues
<1>7. TypeOK'
  BY <1>1, <1>2, <1>6
  DEF WithdrawSubmission, StoreWithdrawal, HistoryInv, TypeOK, accountVars, States, PublicStates
<1> QED BY <1>6, <1>7 DEF HistoryInv

LEMMA ApproveSubmissionHistoryInv ==
  ASSUME HistoryInv, NEW a \in Accounts, NEW r \in Records,
         ApproveSubmission(a, r)
  PROVE  HistoryInv'
<1> DEFINE h == history[r]
           n == Latest(h) + 1
           d == Row(h, n, r, "approved", a)
           e == [Row(h, Latest(h) + 2, r, "published", a) EXCEPT !.cause = n]
<1>1. h \in Records
  BY DEF HistoryInv, TypeOK
<1>2. Latest(h) \in Nat /\ n \in Nat
  BY <1>1, LatestNat
<1>3. d \in Rows /\ d.history = h /\ d.sequence = n
  BY <1>1, <1>2, RowType DEF Row, Actions
<1>4. e \in Rows /\ e.history = h /\ e.sequence = n + 1
  <2>1. Row(h, Latest(h) + 2, r, "published", a) \in Rows
    BY <1>1, <1>2, RowType DEF Actions
  <2> QED BY <1>1, <1>2, <2>1 DEF Row, Rows
<1>5. Continues({d} \cup {e}, h, Latest(h))
  <2>1. Continues({e}, h, n)
    <3> HIDE DEF h, n, e
    <3> QED BY <1>1, <1>2, <1>4, OneRowContinues
  <2> HIDE DEF h, d, e
  <2> QED BY <1>1, <1>2, <1>3, <2>1, RowsBeforeContinue
<1>6. events' = events \cup ({d} \cup {e})
  BY DEF ApproveSubmission, StoreApproval
<1>7. /\ events' \subseteq Rows
      /\ \A i \in Records : Numbered(i)' /\ UniqueSequence(i)'
  BY <1>1, <1>5, <1>6, HistoryContinues
<1>8. TypeOK'
  BY <1>1, <1>2, <1>7
  DEF ApproveSubmission, StoreApproval, HistoryInv, TypeOK, accountVars, States, PublicStates
<1> QED BY <1>7, <1>8 DEF HistoryInv

LEMMA AccountFlagsHistoryInv ==
  ASSUME HistoryInv, NEW a \in Toggled, SetAccountAdmin(a) \/ SetAccountActive(a)
  PROVE  HistoryInv'
<1>1. TypeOK'
  BY SubmissionsAssumption
  DEF HistoryInv, TypeOK, SetAccountAdmin, SetAccountActive, recordVars
<1>2. events' = events
  BY DEF SetAccountAdmin, SetAccountActive
<1> QED BY <1>1, <1>2
        DEF HistoryInv, Numbered, UniqueSequence, SequencesOf, RowsOf

(* The operations of a step, over all values of the fields.                 *)
LEMMA NextOperations ==
  ASSUME Next
  PROVE  \/ \E a \in Accounts, r \in Records, f \in Fields :
              \/ CreateSubmission(a, r, f)
              \/ UpdatePending(a, r, f)
              \/ \E source \in Records : \/ CreateSuccessor(a, source, r, f)
                                         \/ ReplaceWithSuccessor(a, source, r, f)
         \/ \E a \in Accounts, r \in Records :
              WithdrawSubmission(a, r) \/ ApproveSubmission(a, r)
         \/ \E a \in Toggled : SetAccountAdmin(a) \/ SetAccountActive(a)
<1>1. ASSUME NEW k, NEW f \in FormFields(k)
      PROVE  f \in Fields /\ (f.lineage # NoRecord => f.lineage \in Records)
  BY <1>1 DEF FormFields, Fields, OfKind
<1>2. ASSUME NEW a \in Accounts, NEW r \in Records, NEW f \in FormFields(KindOf[r]),
             \/ CreateSubmission(a, r, f)
             \/ UpdatePending(a, r, f)
             \/ /\ f.lineage # NoRecord
                /\ \/ CreateSuccessor(a, f.lineage, r, f)
                   \/ ReplaceWithSuccessor(a, f.lineage, r, f)
      PROVE  \E g \in Fields :
               \/ CreateSubmission(a, r, g)
               \/ UpdatePending(a, r, g)
               \/ \E source \in Records : \/ CreateSuccessor(a, source, r, g)
                                          \/ ReplaceWithSuccessor(a, source, r, g)
  BY <1>1, <1>2
<1> QED BY <1>2 DEF Next

LEMMA NextHistoryInv == HistoryInv /\ [Next]_vars => HistoryInv'
<1> SUFFICES ASSUME HistoryInv, [Next]_vars PROVE HistoryInv'
  OBVIOUS
<1>1. CASE UNCHANGED vars
  BY <1>1 DEF vars, recordVars, accountVars, HistoryInv, TypeOK, Numbered,
     UniqueSequence, SequencesOf, RowsOf
<1>2. CASE Next
  BY <1>2, CreateSubmissionHistoryInv, CreateSuccessorHistoryInv,
     ReplaceWithSuccessorHistoryInv, UpdatePendingHistoryInv,
     WithdrawSubmissionHistoryInv, ApproveSubmissionHistoryInv,
     AccountFlagsHistoryInv, NextOperations
<1> QED BY <1>1, <1>2

LEMMA SpecHistoryInv == Spec => []HistoryInv
BY InitHistoryInv, NextHistoryInv, PTL DEF Spec

(* The stored rows and flags are well typed.                               *)
THEOREM TypeCorrect == Spec => []TypeOK
<1>1. HistoryInv => TypeOK
  BY DEF HistoryInv
<1> QED BY <1>1, SpecHistoryInv, PTL

(* validate_histories finds no gap and no repeated sequence number in any  *)
(* history, however the records of a lineage take turns appending to it.   *)
THEOREM HistoriesContinuous == Spec => []SequencesContinuous
<1>1. HistoryInv => SequencesContinuous
  BY LatestNat DEF HistoryInv, UniqueSequence, SequencesContinuous
<1> QED BY <1>1, SpecHistoryInv, PTL

-----------------------------------------------------------------------------
(* The service implements the abstract lifecycle: every operation is one of *)
(* its steps, or changes no record.                                         *)
LEMMA CreateSubmissionEnters ==
  ASSUME NEW a \in Accounts, NEW r \in Records, NEW f \in Fields,
         CreateSubmission(a, r, f)
  PROVE  Lifecycle!Enter(r, f)
<1>1. /\ state[r] = "absent" /\ ValidFields(KindOf[r], f, FALSE, {})
      /\ fields' = [fields EXCEPT ![r] = f]
      /\ state' = [state EXCEPT ![r] = InitialState(KindOf[r], FALSE)]
  BY DEF CreateSubmission, StoreSubmission, InsertRecord
<1>2. f.lineage # NoRecord =>
        /\ KindOf[f.lineage] = KindOf[r] /\ state[f.lineage] = "published"
        /\ KindOf[r] # "machine" => \A q \in Records : fields[q].lineage # f.lineage
  BY <1>1 DEF ValidFields, LineageStates, SuccessorAvailable
<1>3. Lifecycle!EntryState(r, f) = InitialState(KindOf[r], FALSE)
  BY <1>2 DEF Lifecycle!EntryState, InitialState
<1> QED BY <1>1, <1>2, <1>3 DEF Lifecycle!Enter, Lifecycle!MaySucceed, Lifecycle!Public

LEMMA CreateSuccessorEnters ==
  ASSUME NEW a \in Accounts, NEW source \in Records, NEW r \in Records,
         NEW f \in Fields, CreateSuccessor(a, source, r, f)
  PROVE  Lifecycle!Enter(r, f)
<1> DEFINE reapproval == state[source] = "withdrawn"
<1>1. /\ state[r] = "absent" /\ ValidFields(KindOf[r], f, reapproval, {})
      /\ f.lineage = source /\ state[source] \in PublicStates
      /\ fields' = [fields EXCEPT ![r] = f]
      /\ state' = [state EXCEPT ![r] = InitialState(KindOf[r], reapproval)]
  BY DEF CreateSuccessor, StoreSubmission, InsertRecord
<1>2. source # NoRecord
  BY SubmissionsAssumption
<1>3. KindOf[r] # "machine" => \A q \in Records : fields[q].lineage # source
  BY <1>1, <1>2 DEF ValidFields, SuccessorAvailable
<1>4. Lifecycle!EntryState(r, f) = InitialState(KindOf[r], reapproval)
  BY <1>1, <1>2 DEF Lifecycle!EntryState, InitialState
<1> QED BY <1>1, <1>2, <1>3, <1>4
        DEF Lifecycle!Enter, Lifecycle!MaySucceed, Lifecycle!Public, PublicStates

LEMMA ReplaceWithSuccessorReplaces ==
  ASSUME NEW a \in Accounts, NEW source \in Records, NEW r \in Records,
         NEW f \in Fields, ReplaceWithSuccessor(a, source, r, f)
  PROVE  Lifecycle!Replace(r, source, f)
BY DEF ReplaceWithSuccessor, StoreReplacement, InsertRecord, SuccessorAvailable, InitialState,
   Lifecycle!Replace, Lifecycle!MaySucceed, Lifecycle!Public

LEMMA UpdatePendingRevises ==
  ASSUME NEW a \in Accounts, NEW r \in Records, NEW f \in Fields,
         fields \in [Records -> Fields], UpdatePending(a, r, f)
  PROVE  \E g \in Fields : Lifecycle!Revise(r, g)
<1> DEFINE g == PinnedFields(r, f)
<1>1. g \in Fields
  BY DEF PinnedFields, Fields
<1>2. /\ state[r] \in PendingStates /\ fields' = [fields EXCEPT ![r] = g]
      /\ state' = state
      /\ ValidFields(KindOf[r], g, state[r] = "pending_reapproval", {r})
  BY DEF UpdatePending, StoreEdit, EditableStates
<1>3. state[r] = "pending_reapproval" => g.lineage = fields[r].lineage
  BY DEF PinnedFields, Fields
<1>4. Lifecycle!MaySucceed(r, g)
  <2> HIDE DEF g
  <2> QED BY <1>2 DEF Lifecycle!MaySucceed, ValidFields, LineageStates,
             SuccessorAvailable, PublicStates, Lifecycle!Public
<1>5. Lifecycle!Revise(r, g)
  BY <1>2, <1>3, <1>4 DEF Lifecycle!Revise, PendingStates
<1> QED BY <1>1, <1>5

LEMMA StepRefines ==
  HistoryInv /\ [Next]_vars => [Lifecycle!Next]_(Lifecycle!vars)
<1> SUFFICES ASSUME HistoryInv, [Next]_vars
             PROVE  [Lifecycle!Next]_(Lifecycle!vars)
  OBVIOUS
<1>1. ASSUME NEW a \in Accounts, NEW r \in Records, NEW f \in Fields,
             CreateSubmission(a, r, f)
      PROVE  Lifecycle!Next
  BY <1>1, CreateSubmissionEnters DEF Lifecycle!Next
<1>2. ASSUME NEW a \in Accounts, NEW r \in Records, NEW f \in Fields,
             UpdatePending(a, r, f)
      PROVE  Lifecycle!Next
  BY <1>2, UpdatePendingRevises DEF Lifecycle!Next, HistoryInv, TypeOK
<1>3. ASSUME NEW a \in Accounts, NEW r \in Records, NEW f \in Fields,
             NEW source \in Records,
             \/ CreateSuccessor(a, source, r, f)
             \/ ReplaceWithSuccessor(a, source, r, f)
      PROVE  Lifecycle!Next
  BY <1>3, CreateSuccessorEnters, ReplaceWithSuccessorReplaces DEF Lifecycle!Next
<1>4. ASSUME NEW a \in Accounts, NEW r \in Records,
             WithdrawSubmission(a, r) \/ ApproveSubmission(a, r)
      PROVE  Lifecycle!Next
  BY <1>4 DEF WithdrawSubmission, StoreWithdrawal, ApproveSubmission, StoreApproval,
     Approvable, PendingStates,
     Lifecycle!Next, Lifecycle!Withdraw, Lifecycle!Publish
<1>5. ASSUME NEW a \in Toggled, SetAccountAdmin(a) \/ SetAccountActive(a)
      PROVE  UNCHANGED Lifecycle!vars
  BY <1>5 DEF SetAccountAdmin, SetAccountActive, recordVars, Lifecycle!vars
<1>6. ASSUME UNCHANGED vars
      PROVE  UNCHANGED Lifecycle!vars
  BY <1>6 DEF vars, recordVars, Lifecycle!vars
<1> QED BY <1>1, <1>2, <1>3, <1>4, <1>5, <1>6, NextOperations

LEMMA InitRefines == Init => Lifecycle!Init
BY SubmissionsAssumption DEF Init, Lifecycle!Init, NoFields, Fields

(* For any records, accounts and fields, the submission service implements *)
(* the abstract record lifecycle.                                          *)
THEOREM ServiceImplementsLifecycle == Spec => ImplementsLifecycle
BY InitRefines, StepRefines, SpecHistoryInv, PTL
DEF Spec, Lifecycle!Spec, ImplementsLifecycle

LifecycleProofs == INSTANCE RecordLifecycle_proofs

LEMMA LifecycleAssumptionHolds ==
  NoRecord \notin Records /\ \A f \in Fields : f.lineage \in Records \cup {NoRecord}
BY SubmissionsAssumption DEF Fields

(* The theorems of RecordLifecycle_proofs speak of the instance used there. *)
LEMMA SameInstance ==
  /\ Lifecycle!Init <=> LifecycleProofs!Init
  /\ [Lifecycle!Next]_(Lifecycle!vars) <=> [LifecycleProofs!Next]_(LifecycleProofs!vars)
  /\ LineageWellFounded <=> LifecycleProofs!LineageWellFounded
  /\ OneSuccessor <=> LifecycleProofs!OneSuccessor
<1>1. \A r, f : Lifecycle!MaySucceed(r, f) <=> LifecycleProofs!MaySucceed(r, f)
  BY DEF Lifecycle!MaySucceed, LifecycleProofs!MaySucceed, Lifecycle!Public,
     LifecycleProofs!Public
<1>2. \A r, f : Lifecycle!EntryState(r, f) = LifecycleProofs!EntryState(r, f)
  BY DEF Lifecycle!EntryState, LifecycleProofs!EntryState
<1>3. Lifecycle!Next <=> LifecycleProofs!Next
  BY <1>1, <1>2
  DEF Lifecycle!Next, LifecycleProofs!Next, Lifecycle!Enter, LifecycleProofs!Enter,
      Lifecycle!Replace, LifecycleProofs!Replace, Lifecycle!Revise,
      LifecycleProofs!Revise, Lifecycle!Publish, LifecycleProofs!Publish,
      Lifecycle!Withdraw, LifecycleProofs!Withdraw
<1>4. UNCHANGED Lifecycle!vars <=> UNCHANGED LifecycleProofs!vars
  BY DEF Lifecycle!vars, LifecycleProofs!vars
<1>5. Lifecycle!Init <=> LifecycleProofs!Init
  BY DEF Lifecycle!Init, LifecycleProofs!Init
<1>6. /\ LineageWellFounded <=> LifecycleProofs!LineageWellFounded
      /\ OneSuccessor <=> LifecycleProofs!OneSuccessor
  BY DEF LineageWellFounded, OneSuccessor, Lifecycle!LineageWellFounded,
     LifecycleProofs!LineageWellFounded, Lifecycle!OneSuccessor,
     LifecycleProofs!OneSuccessor
<1> QED BY <1>3, <1>4, <1>5, <1>6

LEMMA SpecIsLifecycle == Spec => LifecycleProofs!Spec
BY ServiceImplementsLifecycle, SameInstance, PTL
DEF ImplementsLifecycle, Lifecycle!Spec, LifecycleProofs!Spec

(* However candidates are edited and approved, no record becomes its own    *)
(* ancestor.                                                                *)
THEOREM LineagesWellFounded == Spec => []LineageWellFounded
<1>1. LifecycleProofs!Spec => []LifecycleProofs!LineageWellFounded
  BY LifecycleProofs!NoLineageCycle, LifecycleAssumptionHolds
<1> QED BY <1>1, SpecIsLifecycle, SameInstance, PTL

(* Two decoder versions, circuit revisions or results never revise the same *)
(* one, whether they are created so or edited to.                           *)
THEOREM SuccessorsUnique == Spec => []OneSuccessor
<1>1. LifecycleProofs!Spec => []LifecycleProofs!OneSuccessor
  BY LifecycleProofs!NoBranching, LifecycleAssumptionHolds
<1> QED BY <1>1, SpecIsLifecycle, SameInstance, PTL

-----------------------------------------------------------------------------
(* What one operation may do to a record that is already public.           *)
Frozen(r) ==
  state[r] \in PublicStates =>
    /\ state'[r] \in PublicStates
    /\ state[r] = "withdrawn" => state'[r] = "withdrawn"
    /\ fields'[r] = fields[r] /\ owner'[r] = owner[r]
    /\ history'[r] = history[r] /\ publishedAt'[r] = publishedAt[r]

LEMMA StepFreezesPublic ==
  ASSUME HistoryInv, [Next]_vars, NEW q \in Records
  PROVE  Frozen(q)
<1>1. ASSUME NEW a \in Accounts, NEW r \in Records, NEW f \in Fields,
             CreateSubmission(a, r, f)
      PROVE  Frozen(q)
  BY <1>1 DEF Frozen, CreateSubmission, StoreSubmission, InsertRecord, HistoryInv, TypeOK, PublicStates
<1>2. ASSUME NEW a \in Accounts, NEW r \in Records, NEW f \in Fields,
             UpdatePending(a, r, f)
      PROVE  Frozen(q)
  BY <1>2 DEF Frozen, UpdatePending, StoreEdit, EditableStates, PendingStates, HistoryInv,
     TypeOK, PublicStates
<1>3. ASSUME NEW a \in Accounts, NEW r \in Records, NEW f \in Fields,
             NEW source \in Records, CreateSuccessor(a, source, r, f)
      PROVE  Frozen(q)
  BY <1>3 DEF Frozen, CreateSuccessor, StoreSubmission, InsertRecord, HistoryInv, TypeOK, PublicStates
<1>4. ASSUME NEW a \in Accounts, NEW r \in Records, NEW f \in Fields,
             NEW source \in Records, ReplaceWithSuccessor(a, source, r, f)
      PROVE  Frozen(q)
  BY <1>4 DEF Frozen, ReplaceWithSuccessor, StoreReplacement, InsertRecord, HistoryInv, TypeOK, PublicStates
<1>5. ASSUME NEW a \in Accounts, NEW r \in Records,
             WithdrawSubmission(a, r) \/ ApproveSubmission(a, r)
      PROVE  Frozen(q)
  BY <1>5 DEF Frozen, WithdrawSubmission, StoreWithdrawal, ApproveSubmission,
     StoreApproval, Approvable, PendingStates,
     HistoryInv, TypeOK, PublicStates
<1>6. ASSUME NEW a \in Toggled, SetAccountAdmin(a) \/ SetAccountActive(a)
      PROVE  Frozen(q)
  BY <1>6 DEF Frozen, SetAccountAdmin, SetAccountActive, recordVars
<1>7. ASSUME UNCHANGED vars
      PROVE  Frozen(q)
  BY <1>7 DEF Frozen, vars, recordVars
<1> QED BY <1>1, <1>2, <1>3, <1>4, <1>5, <1>6, <1>7, NextOperations

(* Published and withdrawn records are immutable: their fields, uploader,   *)
(* history and publication time never change, whatever operation follows.   *)
THEOREM PublicRecordsFrozen == Spec => PublicRecordFrozen
<1>1. HistoryInv /\ [Next]_vars => [\A r \in Records : Frozen(r)]_vars
  BY StepFreezesPublic
<1>2. (\A r \in Records : Frozen(r)) <=>
        \A r \in Records : state[r] \in PublicStates =>
          /\ state'[r] \in PublicStates
          /\ state[r] = "withdrawn" => state'[r] = "withdrawn"
          /\ fields'[r] = fields[r] /\ owner'[r] = owner[r]
          /\ history'[r] = history[r] /\ publishedAt'[r] = publishedAt[r]
  BY DEF Frozen
<1> QED BY <1>1, <1>2, SpecHistoryInv, PTL DEF Spec, PublicRecordFrozen

LEMMA NextReferencesInv ==
  HistoryInv /\ ReferencesNeverPrivate /\ [Next]_vars => ReferencesNeverPrivate'
<1> SUFFICES ASSUME HistoryInv, ReferencesNeverPrivate, [Next]_vars,
                    NEW q \in Records, NEW x \in fields'[q].refs
             PROVE  state'[x] \in PublicStates
  BY DEF ReferencesNeverPrivate
<1>1. \A y \in Records : state[y] \in PublicStates => state'[y] \in PublicStates
  BY StepFreezesPublic DEF Frozen
<1>2. \A r \in Records, g \in Fields :
        ReferencesPublished(KindOf[r], g.refs) =>
          \A y \in g.refs : y \in Records /\ state[y] \in PublicStates
  BY DEF ReferencesPublished, PublicStates, Fields
<1>3. \A y \in fields[q].refs : y \in Records /\ state[y] \in PublicStates
  BY DEF HistoryInv, TypeOK, Fields, ReferencesNeverPrivate
<1>4. fields'[q] = fields[q] \/ \E r \in Records, g \in Fields :
        fields'[q] = g /\ ReferencesPublished(KindOf[r], g.refs)
  <2>1. \A r \in Records, f \in Fields :
          PinnedFields(r, f) \in Fields
    BY DEF PinnedFields, HistoryInv, TypeOK, Fields
  <2> DEFINE Rewritten ==
        fields' = fields \/ \E r \in Records, g \in Fields :
          fields' = [fields EXCEPT ![r] = g] /\ ReferencesPublished(KindOf[r], g.refs)
  <2>a. ASSUME NEW a \in Accounts, NEW r \in Records, NEW f \in Fields,
               CreateSubmission(a, r, f)
        PROVE  Rewritten
    BY <2>a DEF CreateSubmission, StoreSubmission, InsertRecord, ValidFields
  <2>b. ASSUME NEW a \in Accounts, NEW r \in Records, NEW f \in Fields,
               UpdatePending(a, r, f)
        PROVE  Rewritten
    BY <2>b, <2>1 DEF UpdatePending, StoreEdit, ValidFields
  <2>c. ASSUME NEW a \in Accounts, NEW r \in Records, NEW f \in Fields,
               NEW source \in Records,
               \/ CreateSuccessor(a, source, r, f)
               \/ ReplaceWithSuccessor(a, source, r, f)
        PROVE  Rewritten
    BY <2>c DEF CreateSuccessor, StoreSubmission, ReplaceWithSuccessor,
       StoreReplacement, InsertRecord, ValidFields
  <2>d. ASSUME NEW a \in Accounts, NEW r \in Records,
               WithdrawSubmission(a, r) \/ ApproveSubmission(a, r)
        PROVE  Rewritten
    BY <2>d DEF WithdrawSubmission, StoreWithdrawal, ApproveSubmission, StoreApproval
  <2>e. ASSUME NEW a \in Toggled, SetAccountAdmin(a) \/ SetAccountActive(a)
        PROVE  Rewritten
    BY <2>e DEF SetAccountAdmin, SetAccountActive, recordVars
  <2>2. CASE Next
    <3>1. Rewritten
      BY <2>2, <2>a, <2>b, <2>c, <2>d, <2>e, NextOperations
    <3> QED BY <3>1 DEF HistoryInv, TypeOK
  <2>3. CASE UNCHANGED vars
    BY <2>3 DEF vars, recordVars
  <2> QED BY <2>2, <2>3
<1> QED BY <1>1, <1>2, <1>3, <1>4

(* The queue of pending submissions never depends on itself: no record      *)
(* refers to a candidate, for any number of results and edits.              *)
THEOREM NoPrivateReferences == Spec => []ReferencesNeverPrivate
<1>1. Init => ReferencesNeverPrivate
  BY DEF Init, NoFields, ReferencesNeverPrivate
<1> QED BY <1>1, NextReferencesInv, SpecHistoryInv, PTL DEF Spec

-----------------------------------------------------------------------------
(* The replay of validate_histories as a relation between the events E of a *)
(* record, its state s and its times p and w.  Beyond what the command      *)
(* recomputes, a candidate has no publication and no withdrawal behind it,  *)
(* and a published record no withdrawal: that makes the relation inductive. *)
Mine(r) == {e \in events : e.record = r}
SetsState(e) == e.action \in {"submitted", "resubmitted", "published", "withdrawn"}

EndsIn(E, s) ==
  \E e \in E : /\ SetsState(e) /\ StateAfter(e) = s
               /\ \A d \in E : SetsState(d) => d.sequence <= e.sequence
PublishedOnce(E, p) ==
  \A e \in E : e.action = "published" =>
    /\ p = e.sequence
    /\ \E d \in E : /\ d.action = "approved" /\ d.actor = e.actor
                    /\ d.sequence = e.cause /\ d.sequence + 1 = e.sequence
WithdrawnOnce(E, w) == \A e \in E : e.action = "withdrawn" => w = e.sequence
EditedBefore(E, s, p) ==
  \A e \in E : e.action = "edited" /\ s \in PublicStates => e.sequence < p
NotYet(E, s) ==
  \A e \in E : /\ s \in PendingStates => e.action \notin PublicStates
               /\ s = "published" => e.action # "withdrawn"

Replays(E, s, p, w) ==
  /\ EndsIn(E, s)
  /\ PublishedOnce(E, p)
  /\ WithdrawnOnce(E, w)
  /\ EditedBefore(E, s, p)
  /\ NotYet(E, s)

\* The events of a stored record are rows of its own history, and replay to it.
OwnHistory(e) == state[e.record] # "absent" /\ e.history = history[e.record]
Replayed(r) ==
  state[r] # "absent" => Replays(Mine(r), state[r], publishedAt[r], withdrawnAt[r])
ReplayInv ==
  /\ \A e \in events : OwnHistory(e)
  /\ \A r \in Records : Replayed(r)

(* The rows of a new submission replay to its first state.                  *)
LEMMA CreationReplays ==
  ASSUME NEW h \in Records, NEW n \in Nat, NEW r \in Records, NEW a, NEW f,
         NEW reapproval \in BOOLEAN, NEW w
  PROVE  Replays(CreationRows(h, n, r, a, f, reapproval),
                 InitialState(KindOf[r], reapproval),
                 CreationPublishedAt(n, r, f, reapproval), w)
<1> DEFINE initial == InitialState(KindOf[r], reapproval)
           m == IF f.lineage = NoRecord THEN n ELSE n + 1
           R == IF f.lineage = NoRecord THEN {}
                ELSE {[Row(h, m, r, "revision_created", a)
                         EXCEPT !.predecessor = f.lineage]}
           s == [Row(h, m + 1, r, IF reapproval THEN "resubmitted" ELSE "submitted", a)
                   EXCEPT !.projected = initial, !.snapshot = f]
           p == [Row(h, m + 2, r, "approved", System) EXCEPT !.cause = m + 1]
           q == [Row(h, m + 3, r, "published", System) EXCEPT !.cause = m + 2]
           P == IF initial # "published" THEN {} ELSE {p, q}
           C == CreationRows(h, n, r, a, f, reapproval)
           at == CreationPublishedAt(n, r, f, reapproval)
<1>1. C = R \cup {s} \cup P
  BY DEF CreationRows
<1>2. m \in Nat /\ initial \in PendingStates \cup {"published"}
  BY DEF InitialState, PendingStates
<1>3. \A e \in R : e.action = "revision_created"
  BY DEF Row
<1>4. /\ s.action \in {"submitted", "resubmitted"}
      /\ s.sequence = m + 1 /\ s.projected = initial
  BY DEF Row
<1>5. /\ p.action = "approved" /\ p.actor = System /\ p.sequence = m + 2
      /\ q.action = "published" /\ q.actor = System /\ q.sequence = m + 3
      /\ q.cause = m + 2
  BY DEF Row
<1>6. initial # "published" => P = {}
  OBVIOUS
<1>7. initial = "published" => P = {p, q} /\ at = m + 3
  BY DEF CreationPublishedAt
<1> HIDE DEF C, R, s, p, q, P, m, initial, at
<1>8. ~SetsState(p) /\ \A e \in R : ~SetsState(e)
  BY <1>3, <1>5 DEF SetsState
<1>9. SetsState(s) /\ StateAfter(s) = initial /\ SetsState(q) /\ StateAfter(q) = "published"
  BY <1>4, <1>5 DEF SetsState, StateAfter
<1>10. EndsIn(C, initial)
  <2>1. CASE initial = "published"
    BY <2>1, <1>1, <1>2, <1>4, <1>5, <1>7, <1>8, <1>9 DEF EndsIn
  <2>2. CASE initial # "published"
    BY <2>2, <1>1, <1>2, <1>4, <1>6, <1>8, <1>9 DEF EndsIn
  <2> QED BY <2>1, <2>2
<1>11. PublishedOnce(C, at)
  BY <1>1, <1>2, <1>3, <1>4, <1>5, <1>6, <1>7 DEF PublishedOnce
<1>12. WithdrawnOnce(C, w) /\ EditedBefore(C, initial, at)
  BY <1>1, <1>3, <1>4, <1>5, <1>6, <1>7 DEF WithdrawnOnce, EditedBefore
<1>13. NotYet(C, initial)
  BY <1>1, <1>2, <1>3, <1>4, <1>5, <1>6, <1>7 DEF NotYet, PendingStates, PublicStates
<1> QED BY <1>10, <1>11, <1>12, <1>13 DEF Replays, C, initial, at

(* An edit replays to the state the candidate has.                          *)
LEMMA EditReplays ==
  ASSUME NEW E, NEW s \in PendingStates, NEW p, NEW w, NEW e,
         Replays(E, s, p, w), e.action = "edited"
  PROVE  Replays(E \cup {e}, s, p, w)
<1>1. EndsIn(E \cup {e}, s)
  BY DEF Replays, EndsIn, SetsState
<1>2. PublishedOnce(E \cup {e}, p) /\ WithdrawnOnce(E \cup {e}, w)
  BY DEF Replays, PublishedOnce, WithdrawnOnce
<1>3. EditedBefore(E \cup {e}, s, p) /\ NotYet(E \cup {e}, s)
  BY DEF Replays, EditedBefore, NotYet, PendingStates, PublicStates
<1> QED BY <1>1, <1>2, <1>3 DEF Replays

(* A withdrawal after all events of a published record.                     *)
LEMMA WithdrawalReplays ==
  ASSUME NEW E, NEW n \in Nat, NEW p, NEW w, NEW e,
         Replays(E, "published", p, w), \A d \in E : d.sequence \in 1..n,
         e.action = "withdrawn", e.sequence = n + 1
  PROVE  Replays(E \cup {e}, "withdrawn", p, n + 1)
<1>1. EndsIn(E \cup {e}, "withdrawn")
  <2>1. SetsState(e) /\ StateAfter(e) = "withdrawn"
    BY DEF SetsState, StateAfter
  <2>2. \A d \in E \cup {e} : d.sequence <= e.sequence
    OBVIOUS
  <2> QED BY <2>1, <2>2 DEF EndsIn
<1>2. PublishedOnce(E \cup {e}, p)
  BY DEF Replays, PublishedOnce
<1>3. WithdrawnOnce(E \cup {e}, n + 1)
  BY DEF Replays, NotYet, WithdrawnOnce
<1>4. EditedBefore(E \cup {e}, "withdrawn", p)
  BY DEF Replays, EditedBefore, PublicStates
<1>5. NotYet(E \cup {e}, "withdrawn")
  BY DEF NotYet, PendingStates
<1> QED BY <1>1, <1>2, <1>3, <1>4, <1>5 DEF Replays

(* An approval and the publication it causes, after all events.             *)
LEMMA ApprovalReplays ==
  ASSUME NEW E, NEW n \in Nat, NEW s \in PendingStates, NEW p, NEW w, NEW v,
         NEW d, NEW e,
         Replays(E, s, p, w), \A c \in E : c.sequence \in 1..n,
         d.action = "approved", d.sequence = n + 1,
         e.action = "published", e.sequence = n + 2, e.cause = n + 1,
         e.actor = d.actor
  PROVE  Replays(E \cup {d, e}, "published", n + 2, v)
<1>1. \A c \in E : c.action # "published" /\ c.action # "withdrawn"
  BY DEF Replays, NotYet, PublicStates
<1>2. EndsIn(E \cup {d, e}, "published")
  <2>1. SetsState(e) /\ StateAfter(e) = "published"
    BY DEF SetsState, StateAfter
  <2>2. \A c \in E \cup {d, e} : c.sequence <= e.sequence
    OBVIOUS
  <2> QED BY <2>1, <2>2 DEF EndsIn
<1>3. PublishedOnce(E \cup {d, e}, n + 2)
  BY <1>1 DEF PublishedOnce
<1>4. WithdrawnOnce(E \cup {d, e}, v)
  BY <1>1 DEF WithdrawnOnce
<1>5. EditedBefore(E \cup {d, e}, "published", n + 2)
  BY DEF EditedBefore
<1>6. NotYet(E \cup {d, e}, "published")
  BY <1>1 DEF NotYet, PendingStates
<1> QED BY <1>2, <1>3, <1>4, <1>5, <1>6 DEF Replays

(* The events of a stored record are numbered up to the end of its history. *)
LEMMA MineBounded ==
  ASSUME HistoryInv, ReplayInv, NEW r \in Records
  PROVE  \A e \in Mine(r) : e.sequence \in 1..Latest(history[r])
<1>1. history[r] \in Records
  BY DEF HistoryInv, TypeOK
<1>2. \A e \in Mine(r) : e \in RowsOf(history[r])
  BY DEF Mine, ReplayInv, OwnHistory, RowsOf
<1>3. SequencesOf(history[r]) = 1..Latest(history[r])
  BY <1>1, LatestNat
<1> QED BY <1>2, <1>3 DEF SequencesOf

(* A record no new row is about, and whose columns stay, replays as before. *)
LEMMA UntouchedReplays ==
  ASSUME ReplayInv, NEW C, events' = events \cup C,
         NEW q \in Records, \A e \in C : e.record # q,
         state'[q] = state[q], publishedAt'[q] = publishedAt[q],
         withdrawnAt'[q] = withdrawnAt[q]
  PROVE  Replayed(q)'
<1>1. Mine(q)' = Mine(q)
  BY DEF Mine
<1> QED BY <1>1 DEF ReplayInv, Replayed

(* New rows keep the rows in their records' histories.                      *)
LEMMA RowsStayOwn ==
  ASSUME ReplayInv, NEW C, events' = events \cup C,
         \A e \in events : /\ state'[e.record] # "absent"
                           /\ history'[e.record] = history[e.record],
         \A e \in C : OwnHistory(e)'
  PROVE  \A e \in events' : OwnHistory(e)'
<1>1. \A e \in events : OwnHistory(e)'
  BY DEF ReplayInv, OwnHistory
<1> QED BY <1>1

LEMMA StoreSubmissionReplays ==
  ASSUME HistoryInv, ReplayInv, NEW a \in Accounts, NEW r \in Records,
         NEW f \in Fields, NEW reapproval \in BOOLEAN, NEW h \in Records,
         state[r] = "absent", StoreSubmission(a, r, f, reapproval, h, Latest(h))
  PROVE  ReplayInv'
<1> DEFINE n == Latest(h)
           C == CreationRows(h, n, r, a, f, reapproval)
<1>1. /\ events' = events \cup C
      /\ state' = [state EXCEPT ![r] = InitialState(KindOf[r], reapproval)]
      /\ publishedAt' = [publishedAt EXCEPT ![r] = CreationPublishedAt(n, r, f, reapproval)]
      /\ withdrawnAt' = withdrawnAt
      /\ history' = [history EXCEPT ![r] = h]
  BY DEF StoreSubmission, InsertRecord
<1>2. /\ state \in [Records -> States] /\ history \in [Records -> Records]
      /\ publishedAt \in [Records -> Nat] /\ events \subseteq Rows
  BY DEF HistoryInv, TypeOK
<1>3. n \in Nat /\ \A e \in C : e.record = r /\ e.history = h
  BY LatestNat, CreationRowsContinue DEF Continues
<1>4. \A e \in events : e.record \in Records /\ e.record # r
  BY <1>2 DEF ReplayInv, OwnHistory, Rows
<1>5. InitialState(KindOf[r], reapproval) # "absent"
  BY DEF InitialState
<1>6. Replayed(r)'
  <2>1. Mine(r)' = C
    BY <1>1, <1>3, <1>4 DEF Mine
  <2>2. Replays(C, InitialState(KindOf[r], reapproval),
                CreationPublishedAt(n, r, f, reapproval), withdrawnAt'[r])
    BY <1>3, CreationReplays
  <2>3. /\ state'[r] = InitialState(KindOf[r], reapproval)
        /\ publishedAt'[r] = CreationPublishedAt(n, r, f, reapproval)
    BY <1>1, <1>2
  <2> HIDE DEF n, C
  <2> QED BY <2>1, <2>2, <2>3 DEF Replayed
<1> HIDE DEF n, C
<1>7. ASSUME NEW q \in Records, q # r
      PROVE  Replayed(q)'
  BY <1>1, <1>2, <1>3, <1>7, UntouchedReplays
<1>8. \A e \in events' : OwnHistory(e)'
  <2>1. \A e \in C : OwnHistory(e)'
    BY <1>1, <1>2, <1>3, <1>5 DEF OwnHistory
  <2>2. \A e \in events : /\ state'[e.record] # "absent"
                          /\ history'[e.record] = history[e.record]
    BY <1>1, <1>2, <1>4 DEF ReplayInv, OwnHistory
  <2> QED BY <1>1, <2>1, <2>2, RowsStayOwn
<1> QED BY <1>6, <1>7, <1>8 DEF ReplayInv

LEMMA CreateSubmissionReplays ==
  ASSUME HistoryInv, ReplayInv, NEW a \in Accounts, NEW r \in Records,
         NEW f \in Fields, CreateSubmission(a, r, f)
  PROVE  ReplayInv'
<1>1. HistoryForNewRecord(r, f.lineage) \in Records
  BY DEF HistoryForNewRecord, HistoryInv, TypeOK, Fields
<1> QED BY <1>1, StoreSubmissionReplays DEF CreateSubmission

LEMMA CreateSuccessorReplays ==
  ASSUME HistoryInv, ReplayInv, NEW a \in Accounts, NEW source \in Records,
         NEW r \in Records, NEW f \in Fields, CreateSuccessor(a, source, r, f)
  PROVE  ReplayInv'
<1>1. history[source] \in Records
  BY DEF HistoryInv, TypeOK
<1>2. (state[source] = "withdrawn") \in BOOLEAN
  OBVIOUS
<1> QED BY <1>1, <1>2, StoreSubmissionReplays DEF CreateSuccessor

(* The withdrawal of the source comes last for it, first for its successor. *)
LEMMA ReplaceWithSuccessorReplays ==
  ASSUME HistoryInv, ReplayInv, NEW a \in Accounts, NEW source \in Records,
         NEW r \in Records, NEW f \in Fields, ReplaceWithSuccessor(a, source, r, f)
  PROVE  ReplayInv'
<1> DEFINE h == history[source]
           n == Latest(h)
           w == Row(h, n + 1, source, "withdrawn", a)
           C == CreationRows(h, n + 1, r, a, f, TRUE)
           initial == InitialState(KindOf[r], TRUE)
<1>1. /\ state[r] = "absent" /\ state[source] = "published"
      /\ events' = events \cup {w} \cup C
      /\ state' = [state EXCEPT ![source] = "withdrawn", ![r] = initial]
      /\ withdrawnAt' = [withdrawnAt EXCEPT ![source] = n + 1]
      /\ publishedAt' = publishedAt
      /\ history' = [history EXCEPT ![r] = h]
  BY DEF ReplaceWithSuccessor, StoreReplacement, InsertRecord
<1>2. /\ state \in [Records -> States] /\ history \in [Records -> Records]
      /\ withdrawnAt \in [Records -> Nat] /\ events \subseteq Rows /\ h \in Records
  BY DEF HistoryInv, TypeOK
<1>3. n \in Nat /\ n + 1 \in Nat /\ TRUE \in BOOLEAN
  BY <1>2, LatestNat
<1>4. \A e \in C : e.record = r /\ e.history = h
  <2> HIDE DEF h, n
  <2> QED BY <1>2, <1>3, CreationRowsContinue DEF Continues
<1>5. w.record = source /\ w.history = h /\ w.action = "withdrawn" /\ w.sequence = n + 1
  BY DEF Row
<1>6. \A e \in events : e.record \in Records /\ e.record # r
  BY <1>1, <1>2 DEF ReplayInv, OwnHistory, Rows
<1>7. initial = "pending_reapproval"
  BY DEF InitialState
<1>8. Replays(Mine(source), "published", publishedAt[source], withdrawnAt[source])
  BY <1>1 DEF ReplayInv, Replayed
<1>9. \A d \in Mine(source) : d.sequence \in 1..n
  BY MineBounded
<1>10. \A v : Replays(C, initial, CreationPublishedAt(n + 1, r, f, TRUE), v)
  <2> HIDE DEF h, n
  <2> QED BY <1>2, <1>3, CreationReplays
<1>11. \A e \in C : e.action # "published"
  BY <1>7, <1>10 DEF Replays, NotYet, PendingStates, PublicStates
<1> HIDE DEF h, n, w, C, initial
<1>12. Replayed(source)'
  <2>1. Mine(source)' = Mine(source) \cup {w}
    BY <1>1, <1>4, <1>5 DEF Mine
  <2>2. Replays(Mine(source) \cup {w}, "withdrawn", publishedAt[source], n + 1)
    BY <1>3, <1>5, <1>8, <1>9, WithdrawalReplays
  <2>3. state'[source] = "withdrawn" /\ withdrawnAt'[source] = n + 1
    BY <1>1, <1>2
  <2> QED BY <1>1, <2>1, <2>2, <2>3 DEF Replayed
<1>13. Replayed(r)'
  <2>1. Mine(r)' = C
    BY <1>1, <1>4, <1>5, <1>6 DEF Mine
  <2>2. state'[r] = "pending_reapproval"
    BY <1>1, <1>2, <1>7
  <2>3. PublishedOnce(C, publishedAt'[r]) /\ EditedBefore(C, state'[r], publishedAt'[r])
    BY <1>11, <2>2 DEF PublishedOnce, EditedBefore, PublicStates
  <2>4. EndsIn(C, state'[r]) /\ WithdrawnOnce(C, withdrawnAt'[r]) /\ NotYet(C, state'[r])
    BY <1>7, <1>10, <2>2 DEF Replays
  <2> QED BY <2>1, <2>3, <2>4 DEF Replayed, Replays
<1>14. ASSUME NEW q \in Records, q # r, q # source
       PROVE  Replayed(q)'
  <2>1. events' = events \cup ({w} \cup C)
    BY <1>1
  <2>2. \A e \in {w} \cup C : e.record # q
    BY <1>4, <1>5, <1>14
  <2>3. /\ state'[q] = state[q] /\ publishedAt'[q] = publishedAt[q]
        /\ withdrawnAt'[q] = withdrawnAt[q]
    BY <1>1, <1>2, <1>14
  <2> QED BY <2>1, <2>2, <2>3, UntouchedReplays
<1>15. \A e \in events' : OwnHistory(e)'
  <2>1. events' = events \cup ({w} \cup C)
    BY <1>1
  <2>2. \A e \in {w} \cup C : OwnHistory(e)'
    BY <1>1, <1>2, <1>4, <1>5, <1>7 DEF OwnHistory, h
  <2>3. \A e \in events : /\ state'[e.record] # "absent"
                          /\ history'[e.record] = history[e.record]
    BY <1>1, <1>2, <1>6 DEF ReplayInv, OwnHistory
  <2> QED BY <2>1, <2>2, <2>3, RowsStayOwn
<1> QED BY <1>12, <1>13, <1>14, <1>15 DEF ReplayInv

(* The operations that write rows about one stored record.                  *)
LEMMA OneRecordReplays ==
  ASSUME HistoryInv, ReplayInv, NEW r \in Records, state[r] # "absent",
         NEW C, NEW s \in States \ {"absent"}, NEW p, NEW v,
         \A e \in C : e.record = r /\ e.history = history[r],
         events' = events \cup C, history' = history,
         state' = [state EXCEPT ![r] = s],
         publishedAt' = [publishedAt EXCEPT ![r] = p],
         withdrawnAt' = [withdrawnAt EXCEPT ![r] = v],
         Replays(Mine(r) \cup C, s, p, v)
  PROVE  ReplayInv'
<1>1. /\ state \in [Records -> States] /\ publishedAt \in [Records -> Nat]
      /\ withdrawnAt \in [Records -> Nat] /\ events \subseteq Rows
  BY DEF HistoryInv, TypeOK
<1>2. Replayed(r)'
  <2>1. Mine(r)' = Mine(r) \cup C
    BY DEF Mine
  <2>2. state'[r] = s /\ publishedAt'[r] = p /\ withdrawnAt'[r] = v
    BY <1>1
  <2> QED BY <2>1, <2>2 DEF Replayed
<1>3. ASSUME NEW q \in Records, q # r
      PROVE  Replayed(q)'
  <2>1. /\ state'[q] = state[q] /\ publishedAt'[q] = publishedAt[q]
        /\ withdrawnAt'[q] = withdrawnAt[q]
    BY <1>1, <1>3
  <2>2. \A e \in C : e.record # q
    BY <1>3
  <2> QED BY <2>1, <2>2, UntouchedReplays
<1>4. \A e \in events' : OwnHistory(e)'
  <2>1. \A e \in C : OwnHistory(e)'
    BY <1>1 DEF OwnHistory
  <2>2. \A e \in events : /\ state'[e.record] # "absent"
                          /\ history'[e.record] = history[e.record]
    BY <1>1 DEF ReplayInv, OwnHistory, Rows
  <2> QED BY <2>1, <2>2, RowsStayOwn
<1> QED BY <1>2, <1>3, <1>4 DEF ReplayInv

LEMMA UpdatePendingReplays ==
  ASSUME HistoryInv, ReplayInv, NEW a \in Accounts, NEW r \in Records,
         NEW f \in Fields, UpdatePending(a, r, f)
  PROVE  ReplayInv'
<1> DEFINE e == [Row(history[r], Latest(history[r]) + 1, r, "edited", a)
                   EXCEPT !.snapshot = PinnedFields(r, f)]
           C == {e}
           s == state[r]
           p == publishedAt[r]
           w == withdrawnAt[r]
<1>1. /\ state[r] \in PendingStates
      /\ events' = events \cup C /\ history' = history /\ state' = state
      /\ publishedAt' = publishedAt /\ withdrawnAt' = withdrawnAt
  BY DEF UpdatePending, StoreEdit, EditableStates
<1>2. e.record = r /\ e.history = history[r] /\ e.action = "edited"
  BY DEF Row
<1> HIDE DEF e
<1>3. state[r] # "absent" /\ state[r] \in States
  BY <1>1 DEF PendingStates, States
<1>4. Replays(Mine(r), state[r], publishedAt[r], withdrawnAt[r])
  BY <1>3 DEF ReplayInv, Replayed
<1>5. Replays(Mine(r) \cup C, s, p, w)
  BY <1>1, <1>2, <1>4, EditReplays
<1>6. /\ state' = [state EXCEPT ![r] = s]
      /\ publishedAt' = [publishedAt EXCEPT ![r] = p]
      /\ withdrawnAt' = [withdrawnAt EXCEPT ![r] = w]
  BY <1>1 DEF HistoryInv, TypeOK
<1>7. \A d \in C : d.record = r /\ d.history = history[r]
  BY <1>2
<1>8. s \in States \ {"absent"}
  BY <1>3
<1>9. events' = events \cup C /\ history' = history /\ state[r] # "absent"
  BY <1>1, <1>3
<1> HIDE DEF C, s, p, w
<1> QED BY <1>5, <1>6, <1>7, <1>8, <1>9, OneRecordReplays

LEMMA WithdrawSubmissionReplays ==
  ASSUME HistoryInv, ReplayInv, NEW a \in Accounts, NEW r \in Records,
         WithdrawSubmission(a, r)
  PROVE  ReplayInv'
<1> DEFINE n == Latest(history[r])
           e == Row(history[r], n + 1, r, "withdrawn", a)
           C == {e}
<1>1. /\ state[r] = "published"
      /\ events' = events \cup C /\ history' = history
      /\ state' = [state EXCEPT ![r] = "withdrawn"]
      /\ withdrawnAt' = [withdrawnAt EXCEPT ![r] = n + 1]
      /\ publishedAt' = publishedAt
  BY DEF WithdrawSubmission, StoreWithdrawal
<1>2. /\ e.record = r /\ e.history = history[r] /\ e.action = "withdrawn"
      /\ e.sequence = n + 1
  BY DEF Row
<1>3. n \in Nat /\ \A d \in Mine(r) : d.sequence \in 1..n
  BY LatestNat, MineBounded DEF HistoryInv, TypeOK
<1> HIDE DEF e, n
<1>4. Replays(Mine(r), "published", publishedAt[r], withdrawnAt[r])
  BY <1>1 DEF ReplayInv, Replayed
<1>5. Replays(Mine(r) \cup C, "withdrawn", publishedAt[r], n + 1)
  BY <1>2, <1>3, <1>4, WithdrawalReplays
<1>6. publishedAt' = [publishedAt EXCEPT ![r] = publishedAt[r]]
  BY <1>1 DEF HistoryInv, TypeOK
<1>7. \A d \in C : d.record = r /\ d.history = history[r]
  BY <1>2
<1>8. "withdrawn" \in States \ {"absent"}
  BY DEF States, PublicStates
<1>9. state[r] # "absent"
  BY <1>1
<1> HIDE DEF C
<1> QED BY <1>1, <1>5, <1>6, <1>7, <1>8, <1>9, OneRecordReplays

LEMMA ApproveSubmissionReplays ==
  ASSUME HistoryInv, ReplayInv, NEW a \in Accounts, NEW r \in Records,
         ApproveSubmission(a, r)
  PROVE  ReplayInv'
<1> DEFINE n == Latest(history[r])
           d == Row(history[r], n + 1, r, "approved", a)
           e == [Row(history[r], n + 2, r, "published", a) EXCEPT !.cause = n + 1]
           C == {d, e}
<1>1. /\ state[r] \in PendingStates
      /\ events' = events \cup C /\ history' = history
      /\ state' = [state EXCEPT ![r] = "published"]
      /\ publishedAt' = [publishedAt EXCEPT ![r] = n + 2]
      /\ withdrawnAt' = [withdrawnAt EXCEPT ![r] = 0]
  BY DEF ApproveSubmission, StoreApproval, Approvable
<1>2. /\ d.record = r /\ d.history = history[r] /\ d.action = "approved"
      /\ d.sequence = n + 1 /\ d.actor = a
  BY DEF Row
<1>3. /\ e.record = r /\ e.history = history[r] /\ e.action = "published"
      /\ e.sequence = n + 2 /\ e.actor = a /\ e.cause = n + 1
  BY DEF Row
<1>4. n \in Nat /\ \A c \in Mine(r) : c.sequence \in 1..n
  BY LatestNat, MineBounded DEF HistoryInv, TypeOK
<1> HIDE DEF d, e, n
<1>5. state[r] # "absent"
  BY <1>1 DEF PendingStates
<1>6. Replays(Mine(r), state[r], publishedAt[r], withdrawnAt[r])
  BY <1>5 DEF ReplayInv, Replayed
<1>7. Replays(Mine(r) \cup C, "published", n + 2, 0)
  BY <1>1, <1>2, <1>3, <1>4, <1>6, ApprovalReplays
<1>8. \A c \in C : c.record = r /\ c.history = history[r]
  BY <1>2, <1>3
<1>9. "published" \in States \ {"absent"}
  BY DEF States, PublicStates
<1> HIDE DEF C
<1> QED BY <1>1, <1>5, <1>7, <1>8, <1>9, OneRecordReplays

LEMMA NextReplayInv == HistoryInv /\ ReplayInv /\ [Next]_vars => ReplayInv'
<1> SUFFICES ASSUME HistoryInv, ReplayInv, [Next]_vars PROVE ReplayInv'
  OBVIOUS
<1>1. ASSUME UNCHANGED <<recordVars, events>>
      PROVE  ReplayInv'
  BY <1>1 DEF recordVars, ReplayInv, OwnHistory, Replayed, Mine
<1>2. ASSUME NEW a \in Toggled, SetAccountAdmin(a) \/ SetAccountActive(a)
      PROVE  ReplayInv'
  BY <1>1, <1>2 DEF SetAccountAdmin, SetAccountActive
<1>3. CASE UNCHANGED vars
  BY <1>1, <1>3 DEF vars
<1>4. CASE Next
  BY <1>2, <1>4, CreateSubmissionReplays, CreateSuccessorReplays,
     ReplaceWithSuccessorReplays, UpdatePendingReplays,
     WithdrawSubmissionReplays, ApproveSubmissionReplays, NextOperations
<1> QED BY <1>3, <1>4

(* The last row of a set of rows of one history is the row CHOOSE takes.    *)
LEMMA LastOfHistory ==
  ASSUME HistoryInv, NEW h \in Records, NEW E, E \subseteq RowsOf(h),
         NEW e \in E, \A d \in E : d.sequence <= e.sequence
  PROVE  LastOf(E) = e
<1>1. \A d \in E : d.sequence \in Nat
  BY DEF HistoryInv, TypeOK, RowsOf, Rows
<1>2. ASSUME NEW c \in E, \A d \in E : d.sequence <= c.sequence
      PROVE  c = e
  <2>1. c.sequence = e.sequence
    BY <1>1, <1>2
  <2> QED BY <2>1 DEF HistoryInv, UniqueSequence
<1> QED BY <1>2 DEF LastOf

LEMMA ReplayedProjects == HistoryInv /\ ReplayInv => HistoryProjectsState
<1> SUFFICES ASSUME HistoryInv, ReplayInv, NEW r \in Records, state[r] # "absent"
             PROVE  /\ StateRows(r) # {}
                    /\ StateAfter(LastOf(StateRows(r))) = state[r]
                    /\ \A e \in EventsOf(r) :
                         /\ e.action = "published" =>
                              /\ publishedAt[r] = e.sequence
                              /\ \E d \in EventsOf(r) :
                                   /\ d.action = "approved" /\ d.actor = e.actor
                                   /\ d.sequence = e.cause /\ d.sequence + 1 = e.sequence
                         /\ e.action = "withdrawn" => withdrawnAt[r] = e.sequence
                         /\ e.action = "edited" /\ state[r] \in PublicStates =>
                              e.sequence < publishedAt[r]
  BY DEF HistoryProjectsState
<1>1. EventsOf(r) = Mine(r) /\ history[r] \in Records
  BY DEF EventsOf, Mine, RowsOf, ReplayInv, OwnHistory, HistoryInv, TypeOK
<1>2. Replays(Mine(r), state[r], publishedAt[r], withdrawnAt[r])
  BY DEF ReplayInv, Replayed
<1>3. StateRows(r) = {e \in Mine(r) : SetsState(e)}
  BY <1>1 DEF StateRows, SetsState
<1>4. PICK e \in StateRows(r) : /\ StateAfter(e) = state[r]
                                /\ \A d \in StateRows(r) : d.sequence <= e.sequence
  BY <1>2, <1>3 DEF Replays, EndsIn
<1>5. LastOf(StateRows(r)) = e
  <2>1. StateRows(r) \subseteq RowsOf(history[r])
    BY DEF StateRows, EventsOf
  <2> QED BY <1>1, <1>4, <2>1, LastOfHistory
<1>6. \A d \in EventsOf(r) :
        /\ d.action = "published" =>
             /\ publishedAt[r] = d.sequence
             /\ \E c \in EventsOf(r) :
                  /\ c.action = "approved" /\ c.actor = d.actor
                  /\ c.sequence = d.cause /\ c.sequence + 1 = d.sequence
        /\ d.action = "withdrawn" => withdrawnAt[r] = d.sequence
        /\ d.action = "edited" /\ state[r] \in PublicStates =>
             d.sequence < publishedAt[r]
  BY <1>1, <1>2 DEF Replays, PublishedOnce, WithdrawnOnce, EditedBefore
<1> QED BY <1>4, <1>5, <1>6

(* validate_histories finds every record in the state, and with the times,  *)
(* that replaying its events gives, after any sequence of operations.       *)
THEOREM HistoriesReplay == Spec => []HistoryProjectsState
<1>1. Init => ReplayInv
  BY DEF Init, ReplayInv, Replayed
<1> QED BY <1>1, NextReplayInv, ReplayedProjects, SpecHistoryInv, PTL DEF Spec

-----------------------------------------------------------------------------
(* The rows of a submission: no withdrawal, a policy approval only for a     *)
(* record that starts published, and a revision_created row for its lineage. *)
ByPolicy(e) == e.action = "approved" /\ e.actor = System
NamesSource(e, r, h, source) ==
  /\ e.record = r /\ e.history = h
  /\ e.action = "revision_created" /\ e.predecessor = source

LEMMA CreationRowsActions ==
  ASSUME NEW h, NEW n, NEW r, NEW a, NEW f, NEW reapproval
  PROVE  /\ \A e \in CreationRows(h, n, r, a, f, reapproval) :
              /\ e.action # "withdrawn"
              /\ ByPolicy(e) => InitialState(KindOf[r], reapproval) = "published"
         /\ f.lineage # NoRecord =>
              \E e \in CreationRows(h, n, r, a, f, reapproval) :
                NamesSource(e, r, h, f.lineage)
<1> DEFINE initial == InitialState(KindOf[r], reapproval)
           m == IF f.lineage = NoRecord THEN n ELSE n + 1
           v == [Row(h, m, r, "revision_created", a) EXCEPT !.predecessor = f.lineage]
           R == IF f.lineage = NoRecord THEN {} ELSE {v}
           s == [Row(h, m + 1, r, IF reapproval THEN "resubmitted" ELSE "submitted", a)
                   EXCEPT !.projected = initial, !.snapshot = f]
           p == [Row(h, m + 2, r, "approved", System) EXCEPT !.cause = m + 1]
           q == [Row(h, m + 3, r, "published", System) EXCEPT !.cause = m + 2]
           P == IF initial # "published" THEN {} ELSE {p, q}
           C == CreationRows(h, n, r, a, f, reapproval)
<1>1. C = R \cup {s} \cup P
  BY DEF CreationRows
<1>2. NamesSource(v, r, h, f.lineage)
  BY DEF Row, NamesSource
<1>3. s.action \in {"submitted", "resubmitted"} /\ q.action = "published"
  BY DEF Row
<1>4. p.action = "approved"
  BY DEF Row
<1>5. R \subseteq {v} /\ (f.lineage # NoRecord => v \in R)
  OBVIOUS
<1>6. P \subseteq {p, q} /\ (initial # "published" => P = {})
  OBVIOUS
<1> HIDE DEF C, R, v, s, p, q, P, initial
<1>7. \A e \in C : e.action # "withdrawn" /\ (ByPolicy(e) => initial = "published")
  BY <1>1, <1>2, <1>3, <1>4, <1>5, <1>6 DEF ByPolicy, NamesSource
<1>8. f.lineage # NoRecord => \E e \in C : NamesSource(e, r, h, f.lineage)
  BY <1>1, <1>2, <1>5
<1> QED BY <1>7, <1>8 DEF C, initial

(* What an operation does to the records already stored.                    *)
LEMMA StepKeepsStored ==
  ASSUME HistoryInv, [Next]_vars
  PROVE  /\ events \subseteq events'
         /\ \A q \in Records : state[q] # "absent" => history'[q] = history[q]
<1> DEFINE Kept == /\ events \subseteq events'
                   /\ \A q \in Records : state[q] # "absent" => history'[q] = history[q]
<1>1. ASSUME NEW a \in Accounts, NEW r \in Records, NEW f \in Fields,
             CreateSubmission(a, r, f)
      PROVE  Kept
  BY <1>1 DEF CreateSubmission, StoreSubmission, InsertRecord, HistoryInv, TypeOK
<1>2. ASSUME NEW a \in Accounts, NEW r \in Records, NEW f \in Fields,
             UpdatePending(a, r, f)
      PROVE  Kept
  BY <1>2 DEF UpdatePending, StoreEdit
<1>3. ASSUME NEW a \in Accounts, NEW r \in Records, NEW f \in Fields,
             NEW source \in Records,
             \/ CreateSuccessor(a, source, r, f)
             \/ ReplaceWithSuccessor(a, source, r, f)
      PROVE  Kept
  BY <1>3 DEF CreateSuccessor, StoreSubmission, ReplaceWithSuccessor,
     StoreReplacement, InsertRecord, HistoryInv, TypeOK
<1>4. ASSUME NEW a \in Accounts, NEW r \in Records,
             WithdrawSubmission(a, r) \/ ApproveSubmission(a, r)
      PROVE  Kept
  BY <1>4 DEF WithdrawSubmission, StoreWithdrawal, ApproveSubmission, StoreApproval
<1>5. ASSUME NEW a \in Toggled, SetAccountAdmin(a) \/ SetAccountActive(a)
      PROVE  Kept
  BY <1>5 DEF SetAccountAdmin, SetAccountActive, recordVars
<1>6. ASSUME UNCHANGED vars
      PROVE  Kept
  BY <1>6 DEF vars, recordVars
<1> HIDE DEF Kept
<1>7. Kept
  BY <1>1, <1>2, <1>3, <1>4, <1>5, <1>6, NextOperations
<1> QED BY <1>7 DEF Kept

-----------------------------------------------------------------------------
(* A candidate for reapproval is in that state because it was, with the      *)
(* lineage it had, or because it has just been stored after its source was   *)
(* withdrawn.                                                                *)
StaysCandidate(q) ==
  state[q] = "pending_reapproval" /\ fields'[q].lineage = fields[q].lineage
BecomesCandidate(q) ==
  \E source \in Records :
    /\ fields'[q].lineage = source
    /\ state[source] \in PublicStates /\ state'[source] = "withdrawn"
    /\ history'[q] = history[source]
    /\ \E e \in events' : NamesSource(e, q, history[source], source)
CandidateStep(q) ==
  state'[q] = "pending_reapproval" => StaysCandidate(q) \/ BecomesCandidate(q)

LEMMA SuccessorBecomesCandidate ==
  ASSUME HistoryInv, NEW a \in Accounts, NEW source \in Records, NEW r \in Records,
         NEW f \in Fields,
         CreateSuccessor(a, source, r, f) \/ ReplaceWithSuccessor(a, source, r, f)
  PROVE  \A q \in Records : CandidateStep(q)
<1> DEFINE h == history[source]
<1>1. /\ state[r] = "absent" /\ f.lineage = source /\ source # r
      /\ state[source] \in PublicStates
      /\ fields' = [fields EXCEPT ![r] = f]
      /\ history' = [history EXCEPT ![r] = h]
  BY DEF CreateSuccessor, StoreSubmission, ReplaceWithSuccessor, StoreReplacement,
     InsertRecord, PublicStates
<1>2. /\ state \in [Records -> States] /\ fields \in [Records -> Fields]
      /\ history \in [Records -> Records]
  BY DEF HistoryInv, TypeOK
<1>3. f.lineage # NoRecord
  BY <1>1, SubmissionsAssumption
<1>4. ASSUME NEW q \in Records, q # r
      PROVE  CandidateStep(q)
  <2>1. state'[q] = "pending_reapproval" => state[q] = "pending_reapproval"
    BY <1>2, <1>4 DEF CreateSuccessor, StoreSubmission, ReplaceWithSuccessor,
       StoreReplacement
  <2>2. fields'[q] = fields[q]
    BY <1>1, <1>2, <1>4
  <2> QED BY <2>1, <2>2 DEF CandidateStep, StaysCandidate
<1>5. ASSUME state'[r] = "pending_reapproval"
      PROVE  BecomesCandidate(r)
  <2>1. fields'[r].lineage = source /\ history'[r] = h
    BY <1>1, <1>2
  <2>2. state'[source] = "withdrawn"
    <3>1. CASE CreateSuccessor(a, source, r, f)
      <4>1. InitialState(KindOf[r], state[source] = "withdrawn") = "pending_reapproval"
        BY <1>2, <1>5, <3>1 DEF CreateSuccessor, StoreSubmission
      <4>2. state[source] = "withdrawn"
        BY <4>1 DEF InitialState
      <4> QED BY <1>1, <1>2, <3>1, <4>2 DEF CreateSuccessor, StoreSubmission
    <3>2. CASE ReplaceWithSuccessor(a, source, r, f)
      BY <1>1, <1>2, <3>2 DEF ReplaceWithSuccessor, StoreReplacement
    <3> QED BY <3>1, <3>2
  <2>3. \E n, reapproval : CreationRows(h, n, r, a, f, reapproval) \subseteq events'
    BY DEF CreateSuccessor, StoreSubmission, ReplaceWithSuccessor, StoreReplacement
  <2>4. \E e \in events' : NamesSource(e, r, h, source)
    <3> HIDE DEF h
    <3> QED BY <1>1, <1>3, <2>3, CreationRowsActions
  <2> QED BY <1>1, <2>1, <2>2, <2>4 DEF BecomesCandidate
<1> QED BY <1>4, <1>5 DEF CandidateStep

LEMMA NextCandidateStep ==
  ASSUME HistoryInv, [Next]_vars, NEW q \in Records
  PROVE  CandidateStep(q)
<1>1. ASSUME NEW a \in Accounts, NEW r \in Records, NEW f \in Fields,
             CreateSubmission(a, r, f)
      PROVE  CandidateStep(q)
  BY <1>1 DEF CandidateStep, StaysCandidate, CreateSubmission, StoreSubmission,
     InsertRecord, InitialState, HistoryInv, TypeOK
<1>2. ASSUME NEW a \in Accounts, NEW r \in Records, NEW f \in Fields,
             UpdatePending(a, r, f)
      PROVE  CandidateStep(q)
  <2>1. fields' = [fields EXCEPT ![r] = PinnedFields(r, f)] /\ state' = state
    BY <1>2 DEF UpdatePending, StoreEdit
  <2>2. state[r] = "pending_reapproval" => PinnedFields(r, f).lineage = fields[r].lineage
    BY DEF PinnedFields, Fields
  <2> QED BY <2>1, <2>2 DEF CandidateStep, StaysCandidate, HistoryInv, TypeOK
<1>3. ASSUME NEW a \in Accounts, NEW r \in Records,
             WithdrawSubmission(a, r) \/ ApproveSubmission(a, r)
      PROVE  CandidateStep(q)
  BY <1>3 DEF CandidateStep, StaysCandidate, WithdrawSubmission, StoreWithdrawal,
     ApproveSubmission, StoreApproval, HistoryInv, TypeOK
<1>4. ASSUME NEW a \in Toggled, SetAccountAdmin(a) \/ SetAccountActive(a)
      PROVE  CandidateStep(q)
  BY <1>4 DEF CandidateStep, StaysCandidate, SetAccountAdmin, SetAccountActive, recordVars
<1>5. ASSUME UNCHANGED vars
      PROVE  CandidateStep(q)
  BY <1>5 DEF CandidateStep, StaysCandidate, vars, recordVars
<1> QED BY <1>1, <1>2, <1>3, <1>4, <1>5, SuccessorBecomesCandidate, NextOperations

LEMMA NextReapprovalInv ==
  HistoryInv /\ ReapprovalKeepsLineage /\ [Next]_vars => ReapprovalKeepsLineage'
<1> SUFFICES ASSUME HistoryInv, ReapprovalKeepsLineage, [Next]_vars,
                    NEW q \in Records, state'[q] = "pending_reapproval"
             PROVE  LET source == fields'[q].lineage
                    IN  /\ source \in Records
                        /\ state'[source] = "withdrawn"
                        /\ history'[q] = history'[source]
                        /\ \E e \in EventsOf(q)' :
                             e.action = "revision_created" /\ e.predecessor = source
  BY DEF ReapprovalKeepsLineage
<1> DEFINE source == fields'[q].lineage
<1>1. events \subseteq events'
  BY StepKeepsStored
<1>2. ASSUME NEW x \in Records, state[x] \in PublicStates
      PROVE  /\ history'[x] = history[x]
             /\ state[x] = "withdrawn" => state'[x] = "withdrawn"
  BY <1>2, StepFreezesPublic DEF Frozen
<1>3. CASE StaysCandidate(q)
  <2>1. source = fields[q].lineage /\ state[q] = "pending_reapproval"
    BY <1>3 DEF StaysCandidate
  <2>2. /\ source \in Records /\ state[source] = "withdrawn"
        /\ history[q] = history[source]
        /\ \E e \in EventsOf(q) :
             e.action = "revision_created" /\ e.predecessor = source
    BY <2>1 DEF ReapprovalKeepsLineage
  <2>3. history'[q] = history[q]
    BY <2>1, StepKeepsStored
  <2>4. EventsOf(q) \subseteq EventsOf(q)'
    BY <1>1, <2>3 DEF EventsOf, RowsOf
  <2>5. state'[source] = "withdrawn" /\ history'[source] = history[source]
    BY <1>2, <2>2 DEF PublicStates
  <2> QED BY <2>2, <2>3, <2>4, <2>5
<1>4. CASE BecomesCandidate(q)
  <2>1. /\ source \in Records /\ state[source] \in PublicStates
        /\ state'[source] = "withdrawn" /\ history'[q] = history[source]
        /\ \E e \in events' : NamesSource(e, q, history[source], source)
    BY <1>4 DEF BecomesCandidate
  <2>2. history'[source] = history[source]
    BY <1>2, <2>1
  <2>3. \E e \in EventsOf(q)' :
          e.action = "revision_created" /\ e.predecessor = source
    BY <2>1 DEF EventsOf, RowsOf, NamesSource
  <2> QED BY <2>1, <2>2, <2>3
<1> QED BY <1>3, <1>4, NextCandidateStep DEF CandidateStep

(* Whatever edits are made to a reapproval candidate, it revises a withdrawn *)
(* record, shares its history, and the history says so.                      *)
THEOREM ReapprovalInLineage == Spec => []ReapprovalKeepsLineage
<1>1. Init => ReapprovalKeepsLineage
  BY DEF Init, ReapprovalKeepsLineage
<1> QED BY <1>1, NextReapprovalInv, SpecHistoryInv, PTL DEF Spec

-----------------------------------------------------------------------------
(* A record policy has approved is public, so its fields are final, and it   *)
(* is in the history of the public record it revises.                        *)
PolicyInv ==
  \A d \in events : ByPolicy(d) =>
    LET source == fields[d.record].lineage
    IN  /\ state[d.record] \in PublicStates
        /\ source # NoRecord => /\ state[source] \in PublicStates
                                /\ history[source] = history[d.record]

\* What may be said of the rows one operation adds.
NewPolicyRow(d) ==
  ByPolicy(d) =>
    LET source == fields'[d.record].lineage
    IN  /\ state'[d.record] \in PublicStates
        /\ source # NoRecord => /\ source \in Records /\ state[source] = "published"
                                /\ history'[d.record] = history[source]
        /\ \A e \in events' \ events : e.action # "withdrawn"
NewWithdrawalRow(e) ==
  e.action = "withdrawn" =>
    /\ e.record \in Records /\ state[e.record] = "published"
    /\ e.history = history[e.record] /\ e.sequence = Latest(e.history) + 1
NewRow(e) == NewPolicyRow(e) /\ NewWithdrawalRow(e)

LEMMA StoreSubmissionNewRows ==
  ASSUME HistoryInv, NEW a \in Accounts, NEW r \in Records, NEW f \in Fields,
         NEW reapproval \in BOOLEAN, NEW h \in Records,
         StoreSubmission(a, r, f, reapproval, h, Latest(h)),
         ~reapproval /\ f.lineage # NoRecord =>
           state[f.lineage] = "published" /\ h = history[f.lineage]
  PROVE  \A e \in events' \ events : NewRow(e)
<1> DEFINE C == CreationRows(h, Latest(h), r, a, f, reapproval)
<1>1. /\ events' = events \cup C
      /\ fields' = [fields EXCEPT ![r] = f]
      /\ history' = [history EXCEPT ![r] = h]
      /\ state' = [state EXCEPT ![r] = InitialState(KindOf[r], reapproval)]
  BY DEF StoreSubmission, InsertRecord
<1>2. /\ \A e \in C : /\ e.action # "withdrawn"
                      /\ ByPolicy(e) => InitialState(KindOf[r], reapproval) = "published"
  BY CreationRowsActions
<1>3. \A e \in C : e.record = r
  BY LatestNat, CreationRowsContinue
<1> HIDE DEF C
<1>4. fields'[r] = f /\ history'[r] = h /\ state'[r] = InitialState(KindOf[r], reapproval)
  BY <1>1 DEF HistoryInv, TypeOK
<1>5. InitialState(KindOf[r], reapproval) = "published" => ~reapproval
  BY DEF InitialState
<1>6. f.lineage \in Records \cup {NoRecord}
  BY DEF Fields
<1>7. ASSUME NEW e \in C, ByPolicy(e)
      PROVE  NewPolicyRow(e)
  BY <1>1, <1>2, <1>3, <1>4, <1>5, <1>6, <1>7 DEF NewPolicyRow, PublicStates
<1> QED BY <1>1, <1>2, <1>7 DEF NewRow, NewPolicyRow, NewWithdrawalRow

LEMMA NextNewRows ==
  ASSUME HistoryInv, [Next]_vars
  PROVE  \A e \in events' \ events : NewRow(e)
<1> DEFINE Goal == \A e \in events' \ events : NewRow(e)
<1>1. ASSUME NEW a \in Accounts, NEW r \in Records, NEW f \in Fields,
             CreateSubmission(a, r, f)
      PROVE  Goal
  <2>1. HistoryForNewRecord(r, f.lineage) \in Records
    BY DEF HistoryForNewRecord, HistoryInv, TypeOK, Fields
  <2>2. f.lineage # NoRecord =>
          /\ state[f.lineage] = "published"
          /\ HistoryForNewRecord(r, f.lineage) = history[f.lineage]
    BY <1>1 DEF CreateSubmission, ValidFields, LineageStates, HistoryForNewRecord
  <2> QED BY <1>1, <2>1, <2>2, StoreSubmissionNewRows DEF CreateSubmission
<1>2. ASSUME NEW a \in Accounts, NEW r \in Records, NEW f \in Fields,
             NEW source \in Records, CreateSuccessor(a, source, r, f)
      PROVE  Goal
  <2>1. history[source] \in Records /\ (state[source] = "withdrawn") \in BOOLEAN
    BY DEF HistoryInv, TypeOK
  <2>2. f.lineage = source /\ (state[source] # "withdrawn" => state[source] = "published")
    BY <1>2 DEF CreateSuccessor, PublicStates
  <2> QED BY <1>2, <2>1, <2>2, StoreSubmissionNewRows DEF CreateSuccessor
<1>3. ASSUME NEW a \in Accounts, NEW r \in Records, NEW f \in Fields,
             NEW source \in Records, ReplaceWithSuccessor(a, source, r, f)
      PROVE  Goal
  <2> DEFINE h == history[source]
             w == Row(h, Latest(h) + 1, source, "withdrawn", a)
             C == CreationRows(h, Latest(h) + 1, r, a, f, TRUE)
  <2>1. state[source] = "published" /\ events' = events \cup {w} \cup C
    BY <1>3 DEF ReplaceWithSuccessor, StoreReplacement
  <2>2. /\ w.record = source /\ w.history = h /\ w.action = "withdrawn"
        /\ w.sequence = Latest(h) + 1
    BY DEF Row
  <2>3. InitialState(KindOf[r], TRUE) # "published"
    BY DEF InitialState
  <2>4. \A e \in C : e.action # "withdrawn" /\ ~ByPolicy(e)
    BY <2>3, CreationRowsActions
  <2> HIDE DEF w, C
  <2> QED BY <2>1, <2>2, <2>4 DEF NewRow, NewPolicyRow, NewWithdrawalRow, ByPolicy, h
<1>4. ASSUME NEW a \in Accounts, NEW r \in Records, NEW f \in Fields,
             UpdatePending(a, r, f)
      PROVE  Goal
  BY <1>4 DEF UpdatePending, StoreEdit, Row, NewRow, NewPolicyRow, NewWithdrawalRow, ByPolicy
<1>5. ASSUME NEW a \in Accounts, NEW r \in Records, WithdrawSubmission(a, r)
      PROVE  Goal
  BY <1>5 DEF WithdrawSubmission, StoreWithdrawal, Row, NewRow, NewPolicyRow,
     NewWithdrawalRow, ByPolicy
<1>6. ASSUME NEW a \in Accounts, NEW r \in Records, ApproveSubmission(a, r)
      PROVE  Goal
  BY <1>6, SubmissionsAssumption
  DEF ApproveSubmission, StoreApproval, Row, NewRow, NewPolicyRow, NewWithdrawalRow, ByPolicy
<1>7. ASSUME NEW a \in Toggled, SetAccountAdmin(a) \/ SetAccountActive(a)
      PROVE  Goal
  BY <1>7 DEF SetAccountAdmin, SetAccountActive
<1>8. ASSUME UNCHANGED vars
      PROVE  Goal
  BY <1>8 DEF vars
<1> HIDE DEF Goal
<1>9. Goal
  BY <1>1, <1>2, <1>3, <1>4, <1>5, <1>6, <1>7, <1>8, NextOperations
<1> QED BY <1>9 DEF Goal

LEMMA NextPolicyInv ==
  HistoryInv /\ PolicyInv /\ [Next]_vars => PolicyInv'
<1> SUFFICES ASSUME HistoryInv, PolicyInv, [Next]_vars,
                    NEW d \in events', ByPolicy(d)
             PROVE  LET source == fields'[d.record].lineage
                    IN  /\ state'[d.record] \in PublicStates
                        /\ source # NoRecord =>
                             /\ state'[source] \in PublicStates
                             /\ history'[source] = history'[d.record]
  BY DEF PolicyInv, ByPolicy
<1>1. ASSUME NEW x \in Records, state[x] \in PublicStates
      PROVE  /\ state'[x] \in PublicStates /\ fields'[x] = fields[x]
             /\ history'[x] = history[x]
  BY <1>1, StepFreezesPublic DEF Frozen
<1>2. CASE d \in events
  <2>1. d.record \in Records
    BY <1>2 DEF HistoryInv, TypeOK, Rows
  <2>2. fields[d.record].lineage \in Records \cup {NoRecord}
    BY <2>1 DEF HistoryInv, TypeOK, Fields
  <2> QED BY <1>1, <1>2, <2>1, <2>2 DEF PolicyInv
<1>3. CASE d \notin events
  <2>1. NewPolicyRow(d)
    BY <1>3, NextNewRows DEF NewRow
  <2> QED BY <1>1, <2>1 DEF NewPolicyRow, PublicStates
<1> QED BY <1>2, <1>3

LEMMA NextWithdrawnSourceInv ==
  /\ HistoryInv /\ ReplayInv /\ PolicyInv /\ WithdrawnSourceNeedsReview /\ [Next]_vars
    => WithdrawnSourceNeedsReview'
<1> SUFFICES ASSUME HistoryInv, ReplayInv, PolicyInv, WithdrawnSourceNeedsReview,
                    [Next]_vars,
                    NEW d \in events', NEW e \in events', ByPolicy(d),
                    e.action = "withdrawn", e.record = fields'[d.record].lineage
             PROVE  d.history = e.history /\ d.sequence < e.sequence
  BY DEF WithdrawnSourceNeedsReview, ByPolicy
<1>1. HistoryInv'
  BY NextHistoryInv
<1>2. e.record # NoRecord /\ e.record \in Records
  BY <1>1, SubmissionsAssumption DEF HistoryInv, TypeOK, Rows
<1>3. ASSUME d \in events
      PROVE  fields'[d.record] = fields[d.record] /\ d.record \in Records
  <2>1. d.record \in Records /\ state[d.record] \in PublicStates
    BY <1>3 DEF HistoryInv, TypeOK, Rows, PolicyInv
  <2> QED BY <2>1, StepFreezesPublic DEF Frozen
<1>4. CASE d \in events /\ e \in events
  BY <1>3, <1>4 DEF WithdrawnSourceNeedsReview, ByPolicy
<1>5. CASE d \in events /\ e \notin events
  <2>1. e.history = history[e.record] /\ e.sequence = Latest(e.history) + 1
    BY <1>5, NextNewRows DEF NewRow, NewWithdrawalRow
  <2>2. d.history = e.history
    BY <1>2, <1>3, <1>5, <2>1 DEF PolicyInv, ReplayInv, OwnHistory
  <2>3. e.history \in Records
    BY <1>2, <2>1 DEF HistoryInv, TypeOK
  <2>4. Latest(e.history) \in Nat /\ d.sequence \in 1..Latest(e.history)
    BY <1>5, <2>2, <2>3, LatestNat DEF SequencesOf, RowsOf
  <2> QED BY <2>1, <2>2, <2>4
<1>6. CASE d \notin events /\ e \in events
  <2>1. state[e.record] = "published"
    BY <1>2, <1>6, NextNewRows DEF NewRow, NewPolicyRow
  <2>2. NotYet(Mine(e.record), "published")
    BY <1>2, <2>1 DEF ReplayInv, Replayed, Replays
  <2> QED BY <1>6, <2>2 DEF NotYet, Mine
<1>7. CASE d \notin events /\ e \notin events
  BY <1>7, NextNewRows DEF NewRow, NewPolicyRow
<1> QED BY <1>4, <1>5, <1>6, <1>7

(* Policy alone never publishes a record whose source had been withdrawn,    *)
(* for any order of the operations on the two.                               *)
THEOREM WithdrawnSourcesReviewed == Spec => []WithdrawnSourceNeedsReview
<1>1. Init => ReplayInv /\ PolicyInv /\ WithdrawnSourceNeedsReview
  BY DEF Init, ReplayInv, Replayed, PolicyInv, WithdrawnSourceNeedsReview
<1> QED BY <1>1, NextReplayInv, NextPolicyInv, NextWithdrawnSourceInv,
           SpecHistoryInv, PTL DEF Spec

-----------------------------------------------------------------------------
(* The registry at the start: every stored record has a numbered history.   *)
LEMMA FirstRowsContinue ==
  ASSUME NEW r \in Records, NEW published \in BOOLEAN, NEW f \in Fields,
         f.lineage = NoRecord, NEW uploader \in Accounts, NEW admin \in Accounts
  PROVE  Continues(StoredRows(r, published, f, uploader, admin), r, 0)
<1> DEFINE first == CreationRows(r, 0, r, uploader, f, FALSE)
           p == Row(r, 2, r, "approved", admin)
           q == [Row(r, 3, r, "published", admin) EXCEPT !.cause = 2]
           S == StoredRows(r, published, f, uploader, admin)
<1>1. Continues(first, r, 0)
  BY CreationRowsContinue
<1>2. CASE ~(published /\ KindOf[r] # "machine")
  <2>1. S = first
    BY <1>2 DEF StoredRows
  <2> QED BY <1>1, <2>1
<1>3. CASE published /\ KindOf[r] # "machine"
  <2> DEFINE s == [Row(r, 0 + 1, r, "submitted", uploader)
                     EXCEPT !.projected = "pending_review", !.snapshot = f]
  <2>1. InitialState(KindOf[r], FALSE) = "pending_review"
    BY <1>3 DEF InitialState
  <2>2. first = {s}
    BY <2>1 DEF CreationRows
  <2>3. s.sequence = 1
    BY DEF Row
  <2>4. /\ p \in Rows /\ p.history = r /\ p.sequence = 2
    BY RowType DEF Row, Actions
  <2>5. /\ q \in Rows /\ q.history = r /\ q.sequence = 3
    <3>1. Row(r, 3, r, "published", admin) \in Rows
      BY RowType DEF Actions
    <3> QED BY <3>1 DEF Row, Rows
  <2>6. S = {s} \cup ({p} \cup {q})
    BY <1>3, <2>2 DEF StoredRows
  <2>7. s \in Rows /\ s.history = r
    BY <1>1, <2>2 DEF Continues
  <2> HIDE DEF s, p, q, S
  <2>8. Continues({q}, r, 2)
    BY <2>5, OneRowContinues
  <2>9. Continues({p} \cup {q}, r, 1)
    BY <2>4, <2>8, RowsBeforeContinue
  <2>10. Continues({s} \cup ({p} \cup {q}), r, 0)
    BY <2>3, <2>7, <2>9, RowsBeforeContinue
  <2> QED BY <2>6, <2>10 DEF S
<1> QED BY <1>2, <1>3

LEMMA StoredHistoryInv ==
  ASSUME NEW stored \in SUBSET Records, NEW published \in SUBSET stored, NEW first,
         \A r \in stored : first[r] \in Fields /\ first[r].lineage = NoRecord,
         StoredInit(stored, published, first)
  PROVE  HistoryInv
<1>1. PICK uploader \in Accounts, admin \in FirstAdmins :
        /\ owner = [r \in Records |-> IF r \in stored THEN uploader ELSE System]
        /\ events = UNION {StoredRows(r, r \in published, first[r], uploader, admin) :
                             r \in stored}
  BY DEF StoredInit
<1> DEFINE S(r) == StoredRows(r, r \in published, first[r], uploader, admin)
<1>2. ASSUME NEW r \in stored
      PROVE  Continues(S(r), r, 0)
  <2>1. /\ r \in Records /\ (r \in published) \in BOOLEAN /\ first[r] \in Fields
        /\ first[r].lineage = NoRecord /\ admin \in Accounts
    BY SubmissionsAssumption
  <2> QED BY <2>1, FirstRowsContinue
<1> HIDE DEF S
<1>3. events = UNION {S(r) : r \in stored}
  BY <1>1 DEF S
<1>4. \A r \in stored : S(r) \subseteq Rows /\ \A e \in S(r) : e.history = r
  BY <1>2 DEF Continues
<1>5. events \subseteq Rows
  BY <1>3, <1>4
<1>6. TypeOK
  BY <1>1, <1>5, SubmissionsAssumption, RowType
  DEF StoredInit, TypeOK, States, PendingStates, PublicStates, NoFields, Fields
<1>7. ASSUME NEW h \in Records
      PROVE  Numbered(h) /\ UniqueSequence(h)
  <2>1. CASE h \in stored
    <3>1. RowsOf(h) = S(h)
      BY <1>3, <1>4, <2>1 DEF RowsOf
    <3>2. Continues(S(h), h, 0)
      BY <1>2, <2>1
    <3> QED BY <3>1, <3>2 DEF Continues, Numbered, SequencesOf, UniqueSequence
  <2>2. CASE h \notin stored
    <3>1. RowsOf(h) = {}
      BY <1>3, <1>4, <2>2 DEF RowsOf
    <3>2. SequencesOf(h) = 1..0
      BY <3>1 DEF SequencesOf
    <3> QED BY <3>1, <3>2 DEF Numbered, UniqueSequence
  <2> QED BY <2>1, <2>2
<1> QED BY <1>6, <1>7 DEF HistoryInv
=============================================================================

--------------------------- MODULE RecordLifecycle ---------------------------
(***************************************************************************)
(* What the registry promises about an exact record, whoever acts and      *)
(* however its history is kept: the lifecycle of registry/models/common.py *)
(* and the policy of registry/submission_policy.py, stated without         *)
(* accounts, events, references or timestamps.  Submissions implements it. *)
(***************************************************************************)
CONSTANTS
  Records,    \* the UUIDs that records may be given
  KindOf,     \* the kind of each record
  Fields,     \* the values the scientific fields may take, lineage included
  NoRecord    \* the null reference

ASSUME LifecycleAssumption ==
  /\ NoRecord \notin Records
  /\ \A f \in Fields : f.lineage \in Records \cup {NoRecord}

VARIABLES
  state,   \* the lifecycle state of each record
  fields   \* its scientific fields, the lineage field among them

vars == <<state, fields>>

Public == {"published", "withdrawn"}

\* A record is the successor of at most one other, and of no private one.
MaySucceed(r, f) ==
  f.lineage # NoRecord =>
    /\ state[f.lineage] \in Public
    /\ KindOf[r] # "machine" => \A q \in Records \ {r} : fields[q].lineage # f.lineage

\* Only a machine is published unreviewed, and never as the successor of a
\* record that is withdrawn.
EntryState(r, f) ==
  IF f.lineage # NoRecord /\ state[f.lineage] = "withdrawn" THEN "pending_reapproval"
  ELSE IF KindOf[r] = "machine" THEN "published" ELSE "pending_review"

Enter(r, f) ==
  /\ state[r] = "absent"
  /\ MaySucceed(r, f)
  /\ state' = [state EXCEPT ![r] = EntryState(r, f)]
  /\ fields' = [fields EXCEPT ![r] = f]

\* A successor enters while its source leaves the catalogue, in one step.
Replace(r, source, f) ==
  /\ state[r] = "absent"
  /\ state[source] = "published"
  /\ f.lineage = source
  /\ MaySucceed(r, f)
  /\ state' = [state EXCEPT ![source] = "withdrawn", ![r] = "pending_reapproval"]
  /\ fields' = [fields EXCEPT ![r] = f]

\* Only a candidate is rewritten, and a reapproval candidate keeps its lineage.
Revise(r, f) ==
  /\ state[r] \in {"pending_review", "pending_reapproval"}
  /\ MaySucceed(r, f)
  /\ state[r] = "pending_reapproval" => f.lineage = fields[r].lineage
  /\ fields' = [fields EXCEPT ![r] = f]
  /\ UNCHANGED state

Publish(r) ==
  /\ state[r] \in {"pending_review", "pending_reapproval"}
  /\ state' = [state EXCEPT ![r] = "published"]
  /\ UNCHANGED fields

Withdraw(r) ==
  /\ state[r] = "published"
  /\ state' = [state EXCEPT ![r] = "withdrawn"]
  /\ UNCHANGED fields

Init ==
  /\ state = [r \in Records |-> "absent"]
  /\ fields \in [Records -> Fields]
  /\ \A r \in Records : fields[r].lineage = NoRecord

Next ==
  \E r \in Records :
    \/ Publish(r)
    \/ Withdraw(r)
    \/ \E f \in Fields : \/ Enter(r, f)
                         \/ Revise(r, f)
                         \/ \E source \in Records : Replace(r, source, f)

Spec == Init /\ [][Next]_vars

-----------------------------------------------------------------------------
(* Type correctness, and nothing is known of a record before it enters.    *)
TypeOK ==
  /\ state \in [Records -> {"absent", "pending_review", "pending_reapproval"} \cup Public]
  /\ fields \in [Records -> Fields]
  /\ \A r \in Records : state[r] = "absent" => fields[r].lineage = NoRecord

\* No lineage field ever names a candidate: what a record revises is public.
LineageIsPublic ==
  \A r \in Records : fields[r].lineage # NoRecord => state[fields[r].lineage] \in Public

\* The lineage relation is well founded, across revisions that move a candidate
\* from one predecessor to another: every set of records has a member whose
\* predecessor is outside it.
LineageWellFounded ==
  \A S \in SUBSET Records :
    S # {} => \E r \in S : fields[r].lineage \notin S

\* Decoder versions, circuit revisions and results have one successor at most.
OneSuccessor ==
  \A q, r \in Records :
    (/\ KindOf[q] # "machine" /\ KindOf[r] # "machine"
     /\ fields[r].lineage # NoRecord /\ fields[q].lineage = fields[r].lineage)
      => q = r

\* What awaits reapproval revises a record that is, and stays, withdrawn.
ReapprovalFollowsWithdrawal ==
  \A r \in Records : state[r] = "pending_reapproval" =>
    fields[r].lineage \in Records /\ state[fields[r].lineage] = "withdrawn"

\* Once public, a record keeps its fields and its lineage for ever and only
\* ever moves from published to withdrawn.
PublicFrozen ==
  [][\A r \in Records : state[r] \in Public =>
       fields'[r] = fields[r] /\ (state'[r] = state[r] \/ state'[r] = "withdrawn")]_vars
=============================================================================

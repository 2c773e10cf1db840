----------------------- MODULE RecordLifecycle_proofs -----------------------
(***************************************************************************)
(* The abstract lifecycle keeps lineages well founded and unbranched, and  *)
(* what is published as it is, for any set of records.                     *)
(***************************************************************************)
EXTENDS RecordLifecycle, TLAPS

Inv ==
  /\ TypeOK
  /\ LineageIsPublic
  /\ LineageWellFounded
  /\ OneSuccessor
  /\ ReapprovalFollowsWithdrawal

LEMMA InitInv == Init => Inv
BY LifecycleAssumption
DEF Init, Inv, TypeOK, LineageIsPublic, LineageWellFounded, OneSuccessor,
    ReapprovalFollowsWithdrawal, Public

(* Pointing a record nobody points at to another one closes no cycle.      *)
LEMMA WellFoundedAfterMove ==
  ASSUME TypeOK, LineageWellFounded,
         NEW r \in Records, NEW f \in Fields,
         \A q \in Records : fields[q].lineage # r,
         f.lineage # r,
         fields' = [fields EXCEPT ![r] = f]
  PROVE  LineageWellFounded'
<1> SUFFICES ASSUME NEW S \in SUBSET Records, S # {}
             PROVE  \E q \in S : fields'[q].lineage \notin S
  BY DEF LineageWellFounded
<1>1. fields'[r] = f /\ \A q \in Records \ {r} : fields'[q] = fields[q]
  BY DEF TypeOK
<1>2. CASE S \ {r} = {}
  <2>1. S = {r}
    BY <1>2
  <2> QED BY <1>1, <2>1
<1>3. CASE S \ {r} # {}
  <2>1. PICK q \in S \ {r} : fields[q].lineage \notin S \ {r}
    BY <1>3 DEF LineageWellFounded
  <2> QED BY <1>1, <2>1
<1> QED BY <1>2, <1>3

(* A record that is not public is named by no lineage field.               *)
LEMMA PrivateUnnamed ==
  ASSUME Inv, NEW r \in Records, state[r] \notin Public
  PROVE  \A q \in Records : fields[q].lineage # r
BY LifecycleAssumption DEF Inv, LineageIsPublic

LEMMA EnterInv ==
  ASSUME Inv, NEW r \in Records, NEW f \in Fields, Enter(r, f)
  PROVE  Inv'
<1>1. /\ state[r] = "absent" /\ MaySucceed(r, f)
      /\ state' = [state EXCEPT ![r] = EntryState(r, f)]
      /\ fields' = [fields EXCEPT ![r] = f]
  BY DEF Enter
<1>2. \A q \in Records : fields[q].lineage # r
  BY <1>1, PrivateUnnamed DEF Public
<1>3. f.lineage # r
  BY <1>1, LifecycleAssumption DEF MaySucceed, Public
<1>4. TypeOK'
  BY <1>1 DEF Inv, TypeOK, EntryState, Public
<1>5. LineageIsPublic'
  BY <1>1, <1>2, <1>3, LifecycleAssumption
  DEF Inv, TypeOK, LineageIsPublic, MaySucceed, Public
<1>6. LineageWellFounded'
  BY <1>1, <1>2, <1>3, WellFoundedAfterMove DEF Inv
<1>7. OneSuccessor'
  BY <1>1 DEF Inv, TypeOK, OneSuccessor, MaySucceed
<1>8. ReapprovalFollowsWithdrawal'
  BY <1>1, <1>2, <1>3, LifecycleAssumption
  DEF Inv, TypeOK, ReapprovalFollowsWithdrawal, EntryState, Public
<1> QED BY <1>4, <1>5, <1>6, <1>7, <1>8 DEF Inv

LEMMA ReplaceInv ==
  ASSUME Inv, NEW r \in Records, NEW source \in Records, NEW f \in Fields,
         Replace(r, source, f)
  PROVE  Inv'
<1>1. /\ state[r] = "absent" /\ state[source] = "published" /\ r # source
      /\ f.lineage = source /\ MaySucceed(r, f)
      /\ state' = [state EXCEPT ![source] = "withdrawn", ![r] = "pending_reapproval"]
      /\ fields' = [fields EXCEPT ![r] = f]
  BY DEF Replace
<1>2. \A q \in Records : fields[q].lineage # r
  BY <1>1, PrivateUnnamed DEF Public
<1>3. TypeOK'
  BY <1>1 DEF Inv, TypeOK, Public
<1>4. LineageIsPublic'
  BY <1>1, <1>2, LifecycleAssumption
  DEF Inv, TypeOK, LineageIsPublic, Public
<1>5. LineageWellFounded'
  BY <1>1, <1>2, WellFoundedAfterMove DEF Inv
<1>6. OneSuccessor'
  BY <1>1, LifecycleAssumption DEF Inv, TypeOK, OneSuccessor, MaySucceed
<1>7. ReapprovalFollowsWithdrawal'
  BY <1>1, <1>2, LifecycleAssumption
  DEF Inv, TypeOK, ReapprovalFollowsWithdrawal, Public
<1> QED BY <1>3, <1>4, <1>5, <1>6, <1>7 DEF Inv

LEMMA ReviseInv ==
  ASSUME Inv, NEW r \in Records, NEW f \in Fields, Revise(r, f)
  PROVE  Inv'
<1>1. /\ state[r] \in {"pending_review", "pending_reapproval"} /\ MaySucceed(r, f)
      /\ state[r] = "pending_reapproval" => f.lineage = fields[r].lineage
      /\ state' = state
      /\ fields' = [fields EXCEPT ![r] = f]
  BY DEF Revise
<1>2. \A q \in Records : fields[q].lineage # r
  BY <1>1, PrivateUnnamed DEF Public
<1>3. f.lineage # r
  BY <1>1, LifecycleAssumption DEF MaySucceed, Public
<1>4. TypeOK' /\ LineageIsPublic'
  BY <1>1, LifecycleAssumption
  DEF Inv, TypeOK, LineageIsPublic, MaySucceed, Public
<1>5. LineageWellFounded'
  BY <1>1, <1>2, <1>3, WellFoundedAfterMove DEF Inv
<1>6. OneSuccessor'
  BY <1>1 DEF Inv, TypeOK, OneSuccessor, MaySucceed
<1>7. ReapprovalFollowsWithdrawal'
  BY <1>1 DEF Inv, TypeOK, ReapprovalFollowsWithdrawal
<1> QED BY <1>4, <1>5, <1>6, <1>7 DEF Inv

LEMMA PublishInv ==
  ASSUME Inv, NEW r \in Records, Publish(r) \/ Withdraw(r)
  PROVE  Inv'
<1>1. /\ fields' = fields
      /\ \/ /\ state[r] \in {"pending_review", "pending_reapproval"}
            /\ state' = [state EXCEPT ![r] = "published"]
         \/ /\ state[r] = "published"
            /\ state' = [state EXCEPT ![r] = "withdrawn"]
  BY DEF Publish, Withdraw
<1>2. TypeOK'
  BY <1>1 DEF Inv, TypeOK, Public
<1>3. LineageIsPublic' /\ LineageWellFounded' /\ OneSuccessor'
  BY <1>1, LifecycleAssumption
  DEF Inv, TypeOK, LineageIsPublic, LineageWellFounded, OneSuccessor, Public
<1>4. ReapprovalFollowsWithdrawal'
  BY <1>1 DEF Inv, TypeOK, ReapprovalFollowsWithdrawal, Public
<1> QED BY <1>2, <1>3, <1>4 DEF Inv

LEMMA NextInv == Inv /\ [Next]_vars => Inv'
<1> SUFFICES ASSUME Inv, [Next]_vars PROVE Inv'
  OBVIOUS
<1>1. CASE UNCHANGED vars
  BY <1>1 DEF vars, Inv, TypeOK, LineageIsPublic, LineageWellFounded,
     OneSuccessor, ReapprovalFollowsWithdrawal
<1>2. CASE Next
  BY <1>2, EnterInv, ReplaceInv, ReviseInv, PublishInv DEF Next
<1> QED BY <1>1, <1>2

LEMMA SpecInv == Spec => []Inv
BY InitInv, NextInv, PTL DEF Spec

(* The lifecycle is well typed and every lineage field names a public       *)
(* record.                                                                  *)
THEOREM TypeCorrect == Spec => [](TypeOK /\ LineageIsPublic)
<1>1. Inv => TypeOK /\ LineageIsPublic
  BY DEF Inv
<1> QED BY <1>1, SpecInv, PTL

(* No sequence of submissions and edits makes a record its own ancestor.   *)
THEOREM NoLineageCycle == Spec => []LineageWellFounded
<1>1. Inv => LineageWellFounded
  BY DEF Inv
<1> QED BY <1>1, SpecInv, PTL

(* Decoder, circuit and result lineages never branch.                      *)
THEOREM NoBranching == Spec => []OneSuccessor
<1>1. Inv => OneSuccessor
  BY DEF Inv
<1> QED BY <1>1, SpecInv, PTL

(* Reapproval is only ever asked for a revision of a withdrawn record.     *)
THEOREM ReapprovalIsForWithdrawn == Spec => []ReapprovalFollowsWithdrawal
<1>1. Inv => ReapprovalFollowsWithdrawal
  BY DEF Inv
<1> QED BY <1>1, SpecInv, PTL

(* Published and withdrawn records are immutable.                          *)
THEOREM PublicImmutable == Spec => PublicFrozen
<1> DEFINE Frozen ==
      \A r \in Records : state[r] \in Public =>
        fields'[r] = fields[r] /\ (state'[r] = state[r] \/ state'[r] = "withdrawn")
<1>1. Inv /\ [Next]_vars => [Frozen]_vars
  BY DEF Inv, TypeOK, Next, Enter, Replace, Revise, Publish, Withdraw, Public, vars
<1> QED BY <1>1, SpecInv, PTL DEF Spec, PublicFrozen
=============================================================================

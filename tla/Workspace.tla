----------------------------- MODULE Workspace -----------------------------
(***************************************************************************)
(* The account-facing pages: the rows of the profile and of the review     *)
(* queue with the actions they offer (submission_collections,              *)
(* submission_presenters), and the editor page with its record pickers     *)
(* (record_pickers, submission_form_layout, views_submissions), against    *)
(* what the submission service then does with the request.                 *)
(*                                                                         *)
(* The pages keep no state of their own, so that everything here is an     *)
(* operator over the stored records.                                       *)
(***************************************************************************)
EXTENDS Catalogue

\* Some description is not blank.
ASSUME WorkspaceAssumption == Described # {}

-----------------------------------------------------------------------------
(* The rows and what they offer.                                           *)

\* profile: the account's own records; review_dashboard: what waits for an
\* admin, and what was withdrawn of late.
ProfileRows(a) == {r \in Records : state[r] # "absent" /\ owner[r] = a}
ReviewRows(a) == {r \in Records : a \in admins /\ state[r] \in PendingStates \cup {"withdrawn"}}
RowsFor(a) == IF a \in active THEN ProfileRows(a) \cup ReviewRows(a) ELSE {}

\* Mutant of Offers: every public record may be withdrawn.
OffersWithdrawal(a, r) ==
  IF state[r] \in PendingStates THEN {"edit"} ELSE {"successor", "withdraw"}

\* The buttons of a row, of which only an admin gets "approve".
Offers(a, r) ==
  (CASE state[r] \in PendingStates -> {"edit"}
     [] state[r] = "published" -> {"successor", "withdraw"}
     [] state[r] = "withdrawn" -> {"successor"})
  \cup {o \in {"approve"} : a \in admins /\ state[r] \in PendingStates}

-----------------------------------------------------------------------------
(* The editor page.                                                        *)

\* The records a picker finds for a field, in any dialog on the site.
PickerRecords(k) == {r \in OfKind(k) : state[r] = "published"}

\* Mutant of SelectedRecords: only the latest of a lineage is offered.
SelectedLatest(k, chosen, states) ==
  {r \in chosen : state[r] \in states /\ Successors(r) = {}}

\* _field_context: what a field shows as chosen are the chosen records that the
\* picker would find or that the choices of the form contain.
SelectedRecords(k, chosen, states) ==
  (chosen \cap PickerRecords(k)) \cup {r \in chosen : state[r] \in states}

\* _lock_lineage_field: the lineage of a successor and of a candidate for
\* reapproval is not an input of the page.
Locked(operation, r) ==
  operation = "successor" \/ state[r] = "pending_reapproval"

\* _force_lineage: whatever the operation, the record the page is about.
ForceLineage(operation, r, f) ==
  IF Locked(operation, r) THEN [f EXCEPT !.lineage = r] ELSE f

\* The fields that the edit page of r posts when nothing on it is changed.
RenderedFields(r) ==
  LET k == KindOf[r]
      chosen == {p \in Records : p = fields[r].lineage}
      shown == SelectedRecords(k, chosen, LineageStates(FALSE))
  IN  [lineage |-> IF shown = {} THEN NoRecord ELSE CHOOSE p \in shown : TRUE,
       refs |-> UNION {SelectedRecords(q, {x \in fields[r].refs : KindOf[x] = q},
                                       {"published"}) : q \in ReferenceKinds(k)},
       body |-> fields[r].body]

\* Whether the edit page accepts fields f for the candidate r.
EditAccepted(a, r, f) ==
  /\ Manages(a, r)
  /\ ValidFields(KindOf[r], ForceLineage("edit", r, f),
                 state[r] = "pending_reapproval", {r})

\* Whether the successor page accepts fields f for a successor of r.
SuccessorAccepted(a, r, f) ==
  /\ Manages(a, r)
  /\ state[r] \in PublicStates
  /\ ValidFields(KindOf[r], ForceLineage("successor", r, f),
                 state[r] = "withdrawn", {})

\* Whether the request behind an offered button can succeed with some fields.
Accepted(a, r, offer) ==
  CASE offer = "edit" -> \E f \in FormFields(KindOf[r]) : EditAccepted(a, r, f)
    [] offer = "successor" -> \E f \in FormFields(KindOf[r]) : SuccessorAccepted(a, r, f)
    [] offer = "withdraw" -> Manages(a, r) /\ state[r] = "published"
    [] offer = "approve" -> a \in active \cap admins /\ Approvable(r) /\ Publishable(r)

-----------------------------------------------------------------------------
\* A result needs a published record of every kind it refers to.
NothingToReferTo(k) == \E q \in ReferenceKinds(k) : PickerRecords(q) = {}

\* The offers that cannot be taken up, each for a reason the row does not show.
Stuck(r, offer) ==
  \/ offer \in {"edit", "successor"} /\ NothingToReferTo(KindOf[r])
  \/ offer = "edit" /\ state[r] = "pending_reapproval"
  \/ offer = "successor" /\ KindOf[r] # "machine" /\ Successors(r) # {}
  \/ offer = "approve" /\ \E x \in fields[r].refs : state[x] # "published"

\* The buttons of the profile and of the review queue do what they say: a
\* request is refused only for a successor that exists already, for a withdrawn
\* reference, or for the edit page of a candidate for reapproval, which forces
\* the candidate's lineage to be the candidate.
OffersHonoured ==
  \A a \in Accounts : \A r \in RowsFor(a) : \A offer \in Offers(a, r) :
    Accepted(a, r, offer) <=> ~Stuck(r, offer)

\* Saving the edit page of a pending candidate without a change stores what was
\* stored, or is refused, but for one case: a predecessor withdrawn since the
\* submission is no choice of the field, which is optional, and the candidate
\* silently leaves its lineage.
UnchangedEditKeeps ==
  \A a \in Accounts, r \in Records :
    /\ state[r] = "pending_review"
    /\ EditAccepted(a, r, RenderedFields(r))
    => \/ RenderedFields(r) = fields[r]
       \/ /\ state[fields[r].lineage] = "withdrawn"
          /\ RenderedFields(r) = [fields[r] EXCEPT !.lineage = NoRecord]
=============================================================================

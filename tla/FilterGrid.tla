----------------------------- MODULE FilterGrid -----------------------------
(***************************************************************************)
(* A page of filtered records in the browser: the grid of filters with its *)
(* overlays (static/js/filter-grid.js), the tag dialog (explorer.js) and   *)
(* Autoquery (filter-query.js), which submits the form a moment after each *)
(* committed edit.  A submitted form becomes the address of the next page, *)
(* and that the form it starts with.  Of the record dialog only the result *)
(* matters here; RecordPicker has its searches.                            *)
(*                                                                         *)
(* The grid has one cell of each type.  An overlay that retracts stays the *)
(* active overlay until a timer removes it.  The numbers of the range are  *)
(* compared only; Fractions are those that its inputs, which have step 1,  *)
(* do not validate.                                                        *)
(*                                                                         *)
(* Left out: where overlays are placed and how they freeze the cells under *)
(* them, the focus, the scroll position,                                   *)
(* the search words beside the filters, and links that leave the page.     *)
(***************************************************************************)
EXTENDS Naturals

CONSTANTS
  Options,       \* the values of the choice
  AnyOption,     \* that of no filter
  Limits,        \* the numbers typed into the range
  Fractions,     \* those that are no whole numbers
  Tags, Rules,   \* the tags, and how several of them combine: "all", "any"
  Selections,    \* what is chosen in the record dialog
  ReducedMotion, \* whether the reader asked for no animations
  Blank,         \* an empty input, no overlay, no page under way
  MaxEdits       \* bound: the edits committed, with the changes of Autoquery

VARIABLES
  form,        \* the inputs of the form
  tagDialog,   \* the tags as the open tag dialog found them, or Blank
  recordDialog,  \* whether the record dialog is open
  overlay,     \* the active overlay, or Blank
  autoquery,   \* the preference kept in localStorage
  submitTimer, \* whether the form is about to be submitted
  navigation,  \* the page that was asked for, or Blank
  address,     \* the filters of this page
  edits

pageVars == <<form, tagDialog, recordDialog, overlay, autoquery, submitTimer, navigation,
              address, edits>>
dialogs == <<tagDialog, recordDialog>>

Unfiltered == [choice |-> AnyOption, low |-> Blank, high |-> Blank,
               tags |-> {}, match |-> "all", records |-> {}]

Modal == recordDialog \/ tagDialog # Blank

\* What of the form has been committed.
Edited ==
  IF tagDialog = Blank THEN form
  ELSE [form EXCEPT !.tags = tagDialog.tags, !.match = tagDialog.match]

\* requestSubmit validates the inputs first.
Submittable == form.low \notin Fractions /\ form.high \notin Fractions

-----------------------------------------------------------------------------
(* Overlays.                                                               *)

\* openChoice, openRange: whatever overlay is active gives way.
OpenOverlay(type) ==
  /\ ~Modal
  /\ overlay' = [type |-> type, retracting |-> FALSE,
                 low |-> IF form.low = Blank THEN 0 ELSE form.low, high |-> form.high,
                 oldLow |-> form.low, oldHigh |-> form.high]
  /\ UNCHANGED <<form, dialogs, autoquery, submitTimer, navigation, address, edits>>

\* closeOverlay
Retract(o) ==
  IF o = Blank \/ ReducedMotion THEN Blank ELSE [o EXCEPT !.retracting = TRUE]

\* Escape, the cancel buttons, and the pressing of a pointer elsewhere, which is
\* an event before the click.
RetractOverlay ==
  /\ overlay # Blank
  /\ overlay' = Retract(overlay)
  /\ UNCHANGED <<form, dialogs, autoquery, submitTimer, navigation, address, edits>>

\* The timer of finishOverlayRemoval.
RemovalDue ==
  /\ overlay # Blank /\ overlay.retracting
  /\ overlay' = Blank
  /\ UNCHANGED <<form, dialogs, autoquery, submitTimer, navigation, address, edits>>

Active(type) == overlay # Blank /\ overlay.type = type

\* updateRangeOverlay: the input in use gives way to the other.
Minimum(o) == IF o.low = Blank THEN 0 ELSE o.low

EditLimit(kind, v) ==
  /\ ~Modal /\ Active("range")
  /\ LET o == overlay
         value == CASE kind = "low" /\ v # Blank /\ o.high # Blank ->
                         IF v > o.high THEN o.high ELSE v
                    [] kind = "high" /\ v # Blank -> IF Minimum(o) > v THEN Minimum(o) ELSE v
                    [] OTHER -> v
     IN  overlay' = [overlay EXCEPT ![kind] = value]
  /\ UNCHANGED <<form, dialogs, autoquery, submitTimer, navigation, address, edits>>

-----------------------------------------------------------------------------
(* Committed edits.                                                        *)

\* submitAutomatically restarts the timer.
Notify == submitTimer' = (submitTimer \/ autoquery)

Counted == edits < MaxEdits /\ edits' = edits + 1

ChooseOption(v) ==
  /\ Counted /\ ~Modal /\ Active("choice")
  /\ form' = [form EXCEPT !.choice = v]
  /\ overlay' = Retract(overlay)
  /\ IF v = form.choice THEN UNCHANGED submitTimer ELSE Notify
  /\ UNCHANGED <<dialogs, autoquery, navigation, address>>

RangeChanged(o) == o.low # o.oldLow \/ o.high # o.oldHigh

\* commitRangeOverlay
CommitRange(o, closed) ==
  /\ Counted /\ RangeChanged(o)
  /\ form' = [form EXCEPT !.low = IF Minimum(o) > 0 THEN Minimum(o) ELSE Blank,
                          !.high = o.high]
  /\ overlay' = closed
  /\ Notify
  /\ UNCHANGED <<dialogs, autoquery, navigation, address>>

\* The button, or Enter anywhere on the page.
ConfirmRange == Active("range") /\ CommitRange(overlay, Retract(overlay))

\* "Reset limits" is a change even where there was no limit.
ResetRange ==
  /\ ~Modal /\ Active("range")
  /\ LET o == [overlay EXCEPT !.low = 0, !.high = Blank]
     IN  CommitRange(o, Blank)

\* Mutant of ClearCell: the form is not told of a cleared range.
ClearCellQuietly(type) ==
  /\ Counted /\ ~Modal
  /\ overlay' = IF Active(type) THEN Blank ELSE overlay
  /\ form' = CASE type = "choice" -> [form EXCEPT !.choice = AnyOption]
               [] type = "range"  -> [form EXCEPT !.low = Blank, !.high = Blank]
               [] type = "tags"   -> [form EXCEPT !.tags = {}]
               [] type = "records" -> [form EXCEPT !.records = {}]
  /\ IF type = "range" THEN UNCHANGED submitTimer ELSE Notify
  /\ UNCHANGED <<dialogs, autoquery, navigation, address>>

\* The clear button of a cell.
ClearCell(type) ==
  /\ Counted /\ ~Modal
  /\ overlay' = IF Active(type) THEN Blank ELSE overlay
  /\ form' = CASE type = "choice" -> [form EXCEPT !.choice = AnyOption]
               [] type = "range"  -> [form EXCEPT !.low = Blank, !.high = Blank]
               [] type = "tags"   -> [form EXCEPT !.tags = {}]
               [] type = "records" -> [form EXCEPT !.records = {}]
  /\ Notify
  /\ UNCHANGED <<dialogs, autoquery, navigation, address>>

-----------------------------------------------------------------------------
(* Tags: the dialog works on the inputs of the form.                       *)

OpenTags ==
  /\ ~Modal
  /\ tagDialog' = [tags |-> form.tags, match |-> form.match]
  /\ UNCHANGED <<form, recordDialog, overlay, autoquery, submitTimer, navigation, address, edits>>

ToggleTag(t) ==
  /\ tagDialog # Blank
  /\ form' = [form EXCEPT !.tags = IF t \in @ THEN @ \ {t} ELSE @ \cup {t}]
  /\ UNCHANGED <<dialogs, overlay, autoquery, submitTimer, navigation, address, edits>>

CancelTags ==
  /\ tagDialog # Blank
  /\ form' = Edited
  /\ tagDialog' = Blank
  /\ UNCHANGED <<recordDialog, overlay, autoquery, submitTimer, navigation, address, edits>>

ApplyTags(match) ==
  /\ Counted /\ tagDialog # Blank /\ form.tags # {}
  /\ form' = [form EXCEPT !.match = match]
  /\ tagDialog' = Blank
  /\ Notify
  /\ UNCHANGED <<recordDialog, overlay, autoquery, navigation, address>>

\* The cross of a tag in the grid.
RemoveTag(t) ==
  /\ Counted /\ ~Modal /\ t \in form.tags
  /\ form' = [form EXCEPT !.tags = @ \ {t}]
  /\ Notify
  /\ UNCHANGED <<dialogs, overlay, autoquery, navigation, address>>

-----------------------------------------------------------------------------
(* Records: the dialog of RecordPicker, which works on a copy.             *)

OpenRecords ==
  /\ ~Modal
  /\ recordDialog' = TRUE
  /\ UNCHANGED <<form, tagDialog, overlay, autoquery, submitTimer, navigation, address, edits>>

CancelRecords ==
  /\ recordDialog
  /\ recordDialog' = FALSE
  /\ UNCHANGED <<form, tagDialog, overlay, autoquery, submitTimer, navigation, address, edits>>

ApplyRecords(chosen) ==
  /\ Counted /\ recordDialog
  /\ form' = [form EXCEPT !.records = chosen]
  /\ recordDialog' = FALSE
  /\ Notify
  /\ UNCHANGED <<tagDialog, overlay, autoquery, navigation, address>>

-----------------------------------------------------------------------------
(* Queries.                                                                *)

\* draft: whether the form was submitted with tags that are not applied.
Submit ==
  navigation' = IF Submittable
                THEN [page |-> form, draft |-> tagDialog # Blank] ELSE navigation

SubmitDue ==
  /\ submitTimer
  /\ submitTimer' = FALSE
  /\ Submit
  /\ UNCHANGED <<form, dialogs, overlay, autoquery, address, edits>>

\* The search button, and the apply button unless it is disabled.
SubmitByHand ==
  /\ ~Modal
  /\ Submit
  /\ UNCHANGED <<form, dialogs, overlay, autoquery, submitTimer, address, edits>>

\* Switched on, it submits what has been edited meanwhile.
ToggleAutoquery ==
  /\ Counted /\ ~Modal
  /\ autoquery' = ~autoquery
  /\ submitTimer' = (submitTimer \/ autoquery')
  /\ UNCHANGED <<form, dialogs, overlay, navigation, address>>

\* The answer of the server replaces the page and everything on it.
Load ==
  /\ navigation # Blank
  /\ address' = navigation.page /\ form' = navigation.page
  /\ tagDialog' = Blank /\ recordDialog' = FALSE /\ overlay' = Blank
  /\ submitTimer' = FALSE /\ navigation' = Blank
  /\ UNCHANGED <<autoquery, edits>>

PageInit ==
  /\ form = Unfiltered /\ tagDialog = Blank /\ recordDialog = FALSE /\ overlay = Blank
  /\ autoquery \in BOOLEAN /\ submitTimer = FALSE /\ navigation = Blank
  /\ address = Unfiltered
  /\ edits = 0

PageNext ==
  \/ \E type \in {"choice", "range"} : OpenOverlay(type)
  \/ RetractOverlay
  \/ RemovalDue
  \/ \E v \in Options : ChooseOption(v)
  \/ \E kind \in {"low", "high"}, v \in Limits \cup {Blank} : EditLimit(kind, v)
  \/ ConfirmRange
  \/ ResetRange
  \/ \E type \in {"choice", "range", "tags", "records"} : ClearCell(type)
  \/ OpenTags
  \/ \E t \in Tags : ToggleTag(t) \/ RemoveTag(t)
  \/ CancelTags
  \/ \E match \in Rules : ApplyTags(match)
  \/ OpenRecords
  \/ CancelRecords
  \/ \E chosen \in Selections : ApplyRecords(chosen)
  \/ SubmitDue
  \/ SubmitByHand
  \/ ToggleAutoquery
  \/ Load

PageSpec == PageInit /\ [][PageNext]_pageVars

\* Timers fire and servers answer; nothing is assumed of the reader.
FairPageSpec == PageSpec /\ WF_pageVars(SubmitDue) /\ WF_pageVars(Load)

-----------------------------------------------------------------------------
\* "turns every committed filter edit into the same canonical GET that the manual
\* Apply button would send": with Autoquery on, a page comes to show what its form
\* says, unless the form is left with a limit that is no whole number, which the
\* hidden input refuses without a word.
QueryFollowsForm ==
  autoquery /\ Submittable /\ Edited # address
    ~> Edited = address \/ ~autoquery \/ ~Submittable

\* A page that replaces another drops no committed edit and adds none: with
\* Autoquery on it says what the form said, but for an edit so late that the form
\* is due to be submitted again, for tags that were on their way in the open tag
\* dialog when the form was submitted, and for a form that cannot be submitted as
\* it is, because a limit is no whole number (~Submittable): its edits go with the
\* page that replaces it.
EditsNotDropped ==
  [][Load /\ autoquery /\ ~submitTimer /\ Submittable /\ ~navigation.draft
       => form' = Edited]_pageVars
=============================================================================

---------------------------- MODULE RecordPicker ----------------------------
(***************************************************************************)
(* A dialog that searches records for a field or a filter:                 *)
(* static/js/related-record-picker.js in the browser, and the JSON it      *)
(* fetches, which views_pickers answers page by page from record_pickers.  *)
(*                                                                         *)
(* Typing starts a timer, and the timer a request for what the search box  *)
(* says by then; every request aborts the one before.  The script runs     *)
(* between events, so that an event is one action; the answer of a request *)
(* and a failure of it are events as well.                                 *)
(*                                                                         *)
(* The records do not change while the dialog is open.  A selection is a   *)
(* set: the order of its cards is presentation.                            *)
(***************************************************************************)
EXTENDS Naturals, FiniteSets, Sequences, SequencesExt

CONSTANTS
  Found,       \* the records the picker finds for each text, in its order
  NoText,      \* the empty text, which matches all
  PageSize,
  MaximumSelections,   \* 0 is no maximum
  SelectionRequired,
  MaxOpened,   \* bound: how often the dialog is opened
  MaxTyped     \* bound: how often a text is typed, and how far pages are turned

VARIABLES
  committed,   \* the records the hidden inputs of the form hold
  dialog,      \* the dialog, as far as it can be seen
  searchTimer, \* whether a search is due
  requests     \* the requests not aborted that have no answer yet

pickerVars == <<committed, dialog, searchTimer, requests>>

Texts == DOMAIN Found
Pickable == ToSet(Found[NoText])

ASSUME PickerAssumption ==
  /\ NoText \in Texts
  /\ \A text \in Texts : Found[text] \in Seq(Pickable)
  /\ PageSize \in Nat \ {0}

-----------------------------------------------------------------------------
(* picker_records: the page asked for, or the nearest there is.            *)

\* Paginator.get_page
Answer(text, asked) ==
  LET found == Found[text]
      full == (Len(found) + PageSize - 1) \div PageSize
      pages == IF full = 0 THEN 1 ELSE full
      page == IF asked = 0 THEN 1 ELSE IF asked > pages THEN pages ELSE asked
      rest == SubSeq(found, (page - 1) * PageSize + 1, Len(found))
  IN  [results |-> IF Len(rest) > PageSize THEN SubSeq(rest, 1, PageSize) ELSE rest,
       page |-> page, pages |-> pages]

-----------------------------------------------------------------------------
(* The dialog.                                                             *)

\* renderResults: the buttons are as they were when the results were drawn.
Rendered(d) ==
  [d EXCEPT !.buttons = IF d.pages <= 1 THEN {}
                        ELSE {b \in {"previous"} : d.page > 1} \cup
                             {b \in {"next"} : d.page < d.pages}]

\* Mutant of LoadResults: the request before is not aborted.
LoadBesideOthers(d) ==
  /\ requests' = requests \cup {[text |-> d.text, page |-> d.page]}
  /\ dialog' = [d EXCEPT !.status = "searching"]

\* loadResults, up to its first await.
LoadResults(d) ==
  /\ requests' = {[text |-> d.text, page |-> d.page]}
  /\ dialog' = [d EXCEPT !.status = "searching"]

PickerInit(initial) ==
  /\ committed = initial
  /\ dialog = [open |-> FALSE, text |-> NoText, working |-> initial, results |-> <<>>,
               page |-> 1, pages |-> 1, buttons |-> {}, status |-> "initial",
               opened |-> 0, typed |-> 0]
  /\ searchTimer = FALSE
  /\ requests = {}

OpenDialog ==
  /\ ~dialog.open /\ dialog.opened < MaxOpened
  /\ LoadResults([dialog EXCEPT !.open = TRUE, !.text = NoText, !.working = committed,
                                !.results = <<>>, !.page = 1, !.pages = 1,
                                !.buttons = {}, !.opened = @ + 1, !.typed = 0])
  /\ UNCHANGED <<committed, searchTimer>>

TypeText(text) ==
  /\ dialog.open /\ dialog.typed < MaxTyped
  /\ text # dialog.text
  /\ dialog' = [dialog EXCEPT !.text = text, !.typed = @ + 1]
  /\ searchTimer' = TRUE
  /\ UNCHANGED <<committed, requests>>

\* 180 ms after the last input, whether the dialog is still open or not.
SearchDue ==
  /\ searchTimer
  /\ searchTimer' = FALSE
  /\ LoadResults([dialog EXCEPT !.page = 1])
  /\ UNCHANGED committed

TurnPage(button) ==
  /\ dialog.open /\ button \in dialog.buttons
  /\ dialog.page <= MaxTyped /\ dialog.page > 0
  /\ LoadResults([dialog EXCEPT !.page = IF button = "next" THEN @ + 1 ELSE @ - 1])
  /\ UNCHANGED <<committed, searchTimer>>

\* A request is answered with 200.
Answered(request) ==
  /\ request \in requests
  /\ requests' = requests \ {request}
  /\ LET answer == Answer(request.text, request.page) IN
     dialog' = Rendered([dialog EXCEPT !.results = answer.results, !.page = answer.page,
                                       !.pages = answer.pages, !.status = "loaded"])
  /\ UNCHANGED <<committed, searchTimer>>

\* It is answered with anything else, or not at all.
NotAnswered(request) ==
  /\ request \in requests
  /\ requests' = requests \ {request}
  /\ dialog' = Rendered([dialog EXCEPT !.results = <<>>, !.pages = 1, !.status = "failed"])
  /\ UNCHANGED <<committed, searchTimer>>

\* The maximum is kept by starting anew.
Pick(r) ==
  /\ dialog.open /\ r \in ToSet(dialog.results)
  /\ LET chosen == dialog.working
         full == MaximumSelections > 0 /\ Cardinality(chosen) >= MaximumSelections
     IN  dialog' = Rendered([dialog EXCEPT !.working =
           IF r \in chosen THEN chosen \ {r} ELSE IF full THEN {r} ELSE chosen \cup {r}])
  /\ UNCHANGED <<committed, searchTimer, requests>>

RemoveCard(r) ==
  /\ dialog.open /\ r \in dialog.working
  /\ dialog' = Rendered([dialog EXCEPT !.working = @ \ {r}])
  /\ UNCHANGED <<committed, searchTimer, requests>>

\* Cancel, Close and Escape: the request is aborted, the timer is not.
CancelDialog ==
  /\ dialog.open
  /\ requests' = {}
  /\ dialog' = [dialog EXCEPT !.open = FALSE, !.working = committed]
  /\ UNCHANGED <<committed, searchTimer>>

\* Neither is aborted.
ApplyDialog ==
  /\ dialog.open
  /\ SelectionRequired => dialog.working # {}
  /\ committed' = dialog.working
  /\ dialog' = [dialog EXCEPT !.open = FALSE]
  /\ UNCHANGED <<searchTimer, requests>>

\* filtergrid:clear
ClearRecords ==
  /\ ~dialog.open
  /\ committed' = {}
  /\ dialog' = Rendered([dialog EXCEPT !.working = {}])
  /\ UNCHANGED <<searchTimer, requests>>

PickerNext ==
  \/ OpenDialog
  \/ \E text \in Texts : TypeText(text)
  \/ SearchDue
  \/ \E button \in {"previous", "next"} : TurnPage(button)
  \/ \E request \in requests : Answered(request) \/ NotAnswered(request)
  \/ \E r \in Pickable \cup committed \cup dialog.working : Pick(r) \/ RemoveCard(r)
  \/ CancelDialog
  \/ ApplyDialog
  \/ ClearRecords

PickerSpec == (\E initial \in SUBSET Pickable : PickerInit(initial))
              /\ [][PickerNext]_pickerVars

-----------------------------------------------------------------------------
\* Whatever was typed, turned, closed and opened again before, and in whatever
\* order answers and timers come: a dialog with no search due and no request
\* under way says that it failed, or shows the page it names of the answer to
\* the text in its search box, with a button for each page beside it.
SettledDialogAnswers ==
  dialog.open /\ ~searchTimer /\ requests = {} /\ dialog.status # "failed" =>
    LET answer == Answer(dialog.text, dialog.page) IN
    /\ dialog.results = answer.results
    /\ dialog.page = answer.page /\ dialog.pages = answer.pages
    /\ "next" \in dialog.buttons <=> dialog.page < dialog.pages
    /\ "previous" \in dialog.buttons <=> dialog.page > 1
=============================================================================

---------------------------- MODULE Pages_proofs ----------------------------
(***************************************************************************)
(* Theorems about what people do in a browser: they sign in and unlink     *)
(* identities (Identities), set the filters of a table (FilterGrid),       *)
(* search records in a dialog (RecordPicker), edit a candidate             *)
(* (SubmissionForms) and read the plot beside a table (ResultPlots).       *)
(***************************************************************************)
EXTENDS Identities, SubmissionForms, RecordPicker, FilterGrid, ResultPlots,
        FunctionTheorems, FiniteSetTheorems, TLAPS

(* The filters: what their records look like.                              *)
IsForm(f) ==
  f = [choice |-> f.choice, low |-> f.low, high |-> f.high, tags |-> f.tags,
       match |-> f.match, records |-> f.records]
FormsInv == IsForm(form) /\ (navigation # Blank => IsForm(navigation.page))

\* A page under way says what the form says, as long as no submission is due.
UnderWay ==
  autoquery /\ navigation # Blank /\ ~submitTimer /\ Submittable /\ ~navigation.draft
    => navigation.page = Edited

PageInv == FormsInv /\ UnderWay

(* Nothing but the overlays changes.                                       *)
LEMMA FiltersKept ==
  ASSUME PageInv, UNCHANGED <<form, tagDialog, autoquery, submitTimer, navigation>>
  PROVE  PageInv'
BY DEF PageInv, FormsInv, IsForm, UnderWay, Submittable, Edited

(* A committed edit makes a submission due, if Autoquery is on.            *)
LEMMA NotifiedKept ==
  ASSUME PageInv, Notify, IsForm(form)', UNCHANGED <<autoquery, navigation>>
  PROVE  PageInv'
BY DEF PageInv, FormsInv, IsForm, UnderWay, Notify

(* An edit of the tag dialog changes nothing that is committed.            *)
LEMMA DraftKept ==
  ASSUME PageInv, IsForm(form)', Edited' = Edited, Submittable' = Submittable,
         UNCHANGED <<autoquery, submitTimer, navigation>>
  PROVE  PageInv'
BY DEF PageInv, FormsInv, IsForm, UnderWay

(* A form that is submitted says what has been committed, or is a draft.   *)
LEMMA SubmittedKept ==
  ASSUME PageInv, Submit, UNCHANGED <<form, tagDialog, autoquery>>
  PROVE  PageInv'
<1>1. CASE Submittable
  <2>1. navigation' = [page |-> form, draft |-> tagDialog # Blank]
    BY <1>1 DEF Submit
  <2>2. tagDialog = Blank => Edited' = form
    BY DEF Edited
  <2> QED BY <2>1, <2>2 DEF PageInv, FormsInv, IsForm, UnderWay
<1>2. CASE ~Submittable
  BY <1>2 DEF Submit, PageInv, FormsInv, IsForm, UnderWay, Submittable
<1> QED BY <1>1, <1>2

LEMMA NextPageInv == PageInv /\ [PageNext]_pageVars => PageInv'
<1> SUFFICES ASSUME PageInv, [PageNext]_pageVars PROVE PageInv'
  OBVIOUS
<1>1. IsForm(form)
  BY DEF PageInv, FormsInv
<1>2. ASSUME \/ \E type \in {"choice", "range"} : OpenOverlay(type)
             \/ RetractOverlay \/ RemovalDue
             \/ \E kind \in {"low", "high"}, v \in Limits \cup {Blank} : EditLimit(kind, v)
             \/ OpenRecords \/ CancelRecords \/ UNCHANGED pageVars
      PROVE  PageInv'
  BY <1>2, FiltersKept
  DEF OpenOverlay, RetractOverlay, RemovalDue, EditLimit, OpenRecords, CancelRecords,
      pageVars, dialogs
<1>3. ASSUME NEW v \in Options, ChooseOption(v)
      PROVE  PageInv'
  <2>1. form' = [form EXCEPT !.choice = v] /\ IsForm(form)'
    BY <1>1, <1>3 DEF ChooseOption, IsForm
  <2>2. CASE v = form.choice
    BY <1>1, <1>3, <2>1, <2>2, FiltersKept DEF ChooseOption, IsForm, dialogs
  <2>3. CASE v # form.choice
    BY <1>3, <2>1, <2>3, NotifiedKept DEF ChooseOption
  <2> QED BY <2>2, <2>3
<1>4. ASSUME NEW o, NEW closed, CommitRange(o, closed)
      PROVE  PageInv'
  <2>1. IsForm(form)'
    BY <1>1, <1>4 DEF CommitRange, IsForm
  <2> QED BY <1>4, <2>1, NotifiedKept DEF CommitRange
<1>5. ASSUME NEW type \in {"choice", "range", "tags", "records"}, ClearCell(type)
      PROVE  PageInv'
  <2>1. IsForm(form)'
    BY <1>1, <1>5 DEF ClearCell, IsForm
  <2> QED BY <1>5, <2>1, NotifiedKept DEF ClearCell
<1>6. ASSUME OpenTags
      PROVE  PageInv'
  <2>1. form' = form /\ tagDialog = Blank /\ tagDialog' = [tags |-> form.tags, match |-> form.match]
    BY <1>6 DEF OpenTags, Modal
  <2>2. Edited' = Edited
    BY <1>1, <2>1 DEF Edited, IsForm
  <2> QED BY <1>1, <1>6, <2>1, <2>2, DraftKept DEF OpenTags, Submittable, IsForm
<1>7. ASSUME NEW t \in Tags, ToggleTag(t)
      PROVE  PageInv'
  <2>1. /\ tagDialog' = tagDialog /\ tagDialog # Blank
        /\ form' = [form EXCEPT !.tags = IF t \in @ THEN @ \ {t} ELSE @ \cup {t}]
    BY <1>7 DEF ToggleTag, dialogs
  <2>2. IsForm(form)' /\ Edited' = Edited /\ Submittable' = Submittable
    BY <1>1, <2>1 DEF Edited, IsForm, Submittable
  <2> QED BY <1>7, <2>2, DraftKept DEF ToggleTag
<1>8. ASSUME CancelTags
      PROVE  PageInv'
  <2>1. form' = Edited /\ tagDialog' = Blank /\ tagDialog # Blank
    BY <1>8 DEF CancelTags
  <2>2. IsForm(form)' /\ Edited' = Edited /\ Submittable' = Submittable
    BY <1>1, <2>1 DEF Edited, IsForm, Submittable
  <2> QED BY <1>8, <2>2, DraftKept DEF CancelTags
<1>9. ASSUME NEW match \in Rules, ApplyTags(match)
      PROVE  PageInv'
  <2>1. IsForm(form)'
    BY <1>1, <1>9 DEF ApplyTags, IsForm
  <2> QED BY <1>9, <2>1, NotifiedKept DEF ApplyTags
<1>10. ASSUME NEW t \in Tags, RemoveTag(t)
       PROVE  PageInv'
  <2>1. IsForm(form)'
    BY <1>1, <1>10 DEF RemoveTag, IsForm
  <2> QED BY <1>10, <2>1, NotifiedKept DEF RemoveTag
<1>11. ASSUME NEW chosen \in Selections, ApplyRecords(chosen)
       PROVE  PageInv'
  <2>1. IsForm(form)'
    BY <1>1, <1>11 DEF ApplyRecords, IsForm
  <2> QED BY <1>11, <2>1, NotifiedKept DEF ApplyRecords
<1>12. ASSUME SubmitDue \/ SubmitByHand
       PROVE  PageInv'
  BY <1>12, SubmittedKept DEF SubmitDue, SubmitByHand, dialogs
<1>13. ASSUME ToggleAutoquery
       PROVE  PageInv'
  BY <1>13 DEF ToggleAutoquery, PageInv, FormsInv, IsForm, UnderWay
<1>14. ASSUME Load
       PROVE  PageInv'
  BY <1>14 DEF Load, PageInv, FormsInv, IsForm, UnderWay
<1> QED BY <1>2, <1>3, <1>4, <1>5, <1>6, <1>7, <1>8, <1>9, <1>10, <1>11, <1>12,
           <1>13, <1>14 DEF PageNext, ConfirmRange, ResetRange

(* With Autoquery on, whatever is edited, retracted and loaded before, no  *)
(* page that arrives drops a committed edit: for any options, limits, tags *)
(* and selections, and any number of edits.                                *)
THEOREM EditsSurvivePages == PageSpec => EditsNotDropped
<1>1. PageInit => PageInv
  BY DEF PageInit, PageInv, FormsInv, UnderWay, IsForm, Unfiltered
<1>2. PageInv /\ [PageNext]_pageVars =>
        [Load /\ autoquery /\ ~submitTimer /\ Submittable /\ ~navigation.draft
           => form' = Edited]_pageVars
  BY DEF PageInv, UnderWay, Load
<1> QED BY <1>1, <1>2, NextPageInv, PTL DEF PageSpec, EditsNotDropped

-----------------------------------------------------------------------------
(* The record dialog: its state, and the buttons of page p of n.           *)
Dialogs ==
  [open : BOOLEAN, text : Texts, working : SUBSET Pickable, results : Seq(Pickable),
   page : Nat, pages : Nat, buttons : SUBSET {"previous", "next"},
   status : {"initial", "searching", "loaded", "failed"}, opened : Nat, typed : Nat]
DialogTypes ==
  /\ dialog \in Dialogs /\ committed \in SUBSET Pickable
  /\ requests \subseteq [text : Texts, page : Nat]
Buttons(p, n) ==
  IF n <= 1 THEN {} ELSE {b \in {"previous"} : p > 1} \cup {b \in {"next"} : p < n}

\* The dialog shows the page it names of what its text finds.
Shows(d) ==
  LET answer == Answer(d.text, d.page) IN
  /\ d.results = answer.results /\ d.page = answer.page /\ d.pages = answer.pages
  /\ d.buttons = Buttons(d.page, d.pages)

\* With no search due there is one request under way, the one for what the
\* dialog says, or its answer has come.
SettledInv ==
  dialog.open /\ ~searchTimer =>
    \/ requests = {[text |-> dialog.text, page |-> dialog.page]}
    \/ requests = {} /\ (dialog.status = "failed" \/ Shows(dialog))

PickerInv == DialogTypes /\ SettledInv

LEMMA QuotientNat == \A n \in Nat, d \in Nat \ {0} : n \div d \in Nat
OBVIOUS

LEMMA RestOfSequence ==
  ASSUME NEW S, NEW s \in Seq(S), NEW m \in Nat \ {0}
  PROVE  SubSeq(s, m, Len(s)) \in Seq(S)
<1>1. CASE m <= Len(s)
  BY <1>1
<1>2. CASE m > Len(s)
  BY <1>2
<1> QED BY <1>1, <1>2

(* The page that is answered is a page there is, and its own answer.       *)
LEMMA AnswerSettles ==
  ASSUME NEW text \in Texts, NEW asked \in Nat
  PROVE  /\ Answer(text, asked).page \in 1..Answer(text, asked).pages
         /\ Answer(text, asked).pages \in Nat \ {0}
         /\ Answer(text, asked).results \in Seq(Pickable)
         /\ Answer(text, Answer(text, asked).page) = Answer(text, asked)
<1> DEFINE full == (Len(Found[text]) + PageSize - 1) \div PageSize
           pages == IF full = 0 THEN 1 ELSE full
           page(n) == IF n = 0 THEN 1 ELSE IF n > pages THEN pages ELSE n
           rest(n) == SubSeq(Found[text], (page(n) - 1) * PageSize + 1, Len(Found[text]))
           results(n) == IF Len(rest(n)) > PageSize THEN SubSeq(rest(n), 1, PageSize)
                         ELSE rest(n)
           answer(n) == [results |-> results(n), page |-> page(n), pages |-> pages]
<1>1. \A n : Answer(text, n) = answer(n)
  BY DEF Answer
<1>2. Found[text] \in Seq(Pickable) /\ Len(Found[text]) \in Nat /\ PageSize \in Nat \ {0}
  BY PickerAssumption
<1>3. full \in Nat
  <2>1. Len(Found[text]) + PageSize - 1 \in Nat
    BY <1>2
  <2> QED BY <1>2, <2>1, QuotientNat
<1> HIDE DEF full
<1>4. pages \in Nat \ {0}
  BY <1>3
<1> HIDE DEF pages
<1>5. page(asked) \in 1..pages /\ page(page(asked)) = page(asked)
  BY <1>4
<1>6. results(asked) \in Seq(Pickable)
  <2>1. page(asked) - 1 \in Nat
    BY <1>4, <1>5
  <2>2. (page(asked) - 1) * PageSize + 1 \in Nat \ {0}
    BY <1>2, <2>1
  <2>3. rest(asked) \in Seq(Pickable)
    BY <1>2, <2>2, RestOfSequence
  <2> HIDE DEF rest
  <2> QED BY <1>2, <2>3
<1>7. answer(page(asked)) = answer(asked)
  BY <1>5
<1> HIDE DEF page, results
<1>8. /\ answer(asked).page = page(asked) /\ answer(asked).pages = pages
      /\ answer(asked).results = results(asked)
  OBVIOUS
<1> HIDE DEF answer
<1>9. Answer(text, asked) = answer(asked) /\ Answer(text, page(asked)) = answer(page(asked))
  BY <1>1
<1> QED BY <1>4, <1>5, <1>6, <1>7, <1>8, <1>9

(* What the events set, before the buttons are drawn.                      *)
Arrived(d, r, p, n) ==
  [d EXCEPT !.results = r, !.page = p, !.pages = n, !.status = "loaded"]
Failed(d, r, n) == [d EXCEPT !.results = r, !.pages = n, !.status = "failed"]
Opened(d, t, W, r, p, n, b, o, y) ==
  [d EXCEPT !.open = TRUE, !.text = t, !.working = W, !.results = r, !.page = p,
            !.pages = n, !.buttons = b, !.opened = o, !.typed = y]
Typed(d, t, y) == [d EXCEPT !.text = t, !.typed = y]

\* The dialog a is d with page p of n of the results r.
Arrives(a, d, r, p, n) ==
  /\ a \in Dialogs /\ a.open = d.open /\ a.text = d.text
  /\ a.results = r /\ a.page = p /\ a.pages = n

LEMMA ArrivedFields ==
  ASSUME NEW d \in Dialogs, NEW r \in Seq(Pickable), NEW p \in Nat, NEW n \in Nat
  PROVE  Arrives(Arrived(d, r, p, n), d, r, p, n)
BY DEF Dialogs, Arrived, Arrives

LEMMA FailedFields ==
  ASSUME NEW d \in Dialogs, NEW r \in Seq(Pickable), NEW n \in Nat
  PROVE  /\ Failed(d, r, n) \in Dialogs /\ Failed(d, r, n).open = d.open
         /\ Failed(d, r, n).status = "failed"
BY DEF Dialogs, Failed

LEMMA OpenedFields ==
  ASSUME NEW d \in Dialogs, NEW t \in Texts, NEW W \in SUBSET Pickable,
         NEW r \in Seq(Pickable), NEW p \in Nat, NEW n \in Nat,
         NEW b \in SUBSET {"previous", "next"}, NEW o \in Nat, NEW y \in Nat
  PROVE  Opened(d, t, W, r, p, n, b, o, y) \in Dialogs
<1> DEFINE e == [d EXCEPT !.open = TRUE, !.text = t, !.working = W, !.results = r]
<1>1. e \in Dialogs
  BY DEF Dialogs
<1>2. Opened(d, t, W, r, p, n, b, o, y) =
        [e EXCEPT !.page = p, !.pages = n, !.buttons = b, !.opened = o, !.typed = y]
  BY DEF Opened
<1> HIDE DEF e
<1>3. [e EXCEPT !.page = p, !.pages = n, !.buttons = b, !.opened = o, !.typed = y]
        \in Dialogs
  BY <1>1 DEF Dialogs
<1> QED BY <1>2, <1>3

LEMMA TypedFields ==
  ASSUME NEW d \in Dialogs, NEW t \in Texts, NEW y \in Nat
  PROVE  Typed(d, t, y) \in Dialogs
BY DEF Dialogs, Typed

LEMMA RenderedButtons ==
  ASSUME NEW d \in Dialogs
  PROVE  /\ Rendered(d) \in Dialogs /\ Rendered(d).buttons = Buttons(d.page, d.pages)
         /\ Rendered(d).open = d.open /\ Rendered(d).text = d.text
         /\ Rendered(d).results = d.results /\ Rendered(d).page = d.page
         /\ Rendered(d).pages = d.pages /\ Rendered(d).status = d.status
         /\ Rendered(d).working = d.working
<1>1. Buttons(d.page, d.pages) \in SUBSET {"previous", "next"}
  BY DEF Buttons
<1>2. Rendered(d) = [d EXCEPT !.buttons = Buttons(d.page, d.pages)]
  BY DEF Rendered, Buttons
<1> QED BY <1>1, <1>2 DEF Dialogs

(* A request is all there is once it is sent.                              *)
LEMMA LoadKeeps ==
  ASSUME NEW d \in Dialogs, committed' \in SUBSET Pickable, LoadResults(d)
  PROVE  PickerInv'
<1>1. requests' = {[text |-> d.text, page |-> d.page]}
  BY DEF LoadResults
<1>2. dialog' \in Dialogs /\ dialog'.text = d.text /\ dialog'.page = d.page
  BY DEF LoadResults, Dialogs
<1>3. [text |-> d.text, page |-> d.page] \in [text : Texts, page : Nat]
  BY DEF Dialogs
<1> QED BY <1>1, <1>2, <1>3 DEF PickerInv, DialogTypes, SettledInv

(* An answer is shown with its buttons, and answers what the dialog says   *)
(* unless a search is due.                                                 *)
LEMMA AnsweredKeeps ==
  ASSUME PickerInv, NEW asked \in requests, Answered(asked) \/ NotAnswered(asked)
  PROVE  PickerInv'
<1> DEFINE answer == Answer(asked.text, asked.page)
           a == Arrived(dialog, answer.results, answer.page, answer.pages)
           n == Failed(dialog, <<>>, 1)
<1>1. dialog \in Dialogs /\ requests \subseteq [text : Texts, page : Nat]
  BY DEF PickerInv, DialogTypes
<1>2. asked.text \in Texts /\ asked.page \in Nat
  BY <1>1
<1>3. /\ answer.page \in 1..answer.pages /\ answer.pages \in Nat \ {0}
      /\ answer.results \in Seq(Pickable) /\ Answer(asked.text, answer.page) = answer
  BY <1>2, AnswerSettles
<1>4. /\ requests' = requests \ {asked} /\ searchTimer' = searchTimer
      /\ committed' = committed
      /\ dialog.open /\ ~searchTimer => requests = {asked} /\ asked.text = dialog.text
  BY DEF Answered, NotAnswered, PickerInv, SettledInv
<1>5. requests' \subseteq [text : Texts, page : Nat] /\ committed' \in SUBSET Pickable
  BY <1>1, <1>4 DEF PickerInv, DialogTypes
<1> HIDE DEF answer
<1>6. CASE Answered(asked)
  <2>1. dialog' = Rendered(a)
    BY <1>6 DEF Answered, answer, Arrived
  <2>2. /\ a \in Dialogs /\ a.open = dialog.open /\ a.text = dialog.text
        /\ a.results = answer.results /\ a.page = answer.page /\ a.pages = answer.pages
    <3>1. /\ answer.page \in Nat /\ answer.pages \in Nat
          /\ answer.results \in Seq(Pickable)
      BY <1>3
    <3>2. \A d \in Dialogs, r \in Seq(Pickable), p \in Nat, m \in Nat :
            Arrives(Arrived(d, r, p, m), d, r, p, m)
      BY ArrivedFields
    <3>3. Arrives(a, dialog, answer.results, answer.page, answer.pages)
      BY <1>1, <3>1, <3>2
    <3> QED BY <3>3 DEF Arrives
  <2> HIDE DEF a
  <2>3. /\ dialog' \in Dialogs /\ dialog'.open = dialog.open /\ dialog'.text = dialog.text
        /\ dialog'.results = answer.results /\ dialog'.page = answer.page
        /\ dialog'.pages = answer.pages
        /\ dialog'.buttons = Buttons(answer.page, answer.pages)
    BY <2>1, <2>2, RenderedButtons
  <2>4. dialog.open /\ ~searchTimer => requests' = {} /\ Shows(dialog')
    BY <1>3, <1>4, <2>3 DEF Shows
  <2> QED BY <1>4, <1>5, <2>3, <2>4 DEF PickerInv, DialogTypes, SettledInv, Shows
<1>7. CASE NotAnswered(asked)
  <2>1. dialog' = Rendered(n)
    BY <1>7 DEF NotAnswered, Failed
  <2>2. n \in Dialogs /\ n.open = dialog.open /\ n.status = "failed"
    <3>1. <<>> \in Seq(Pickable) /\ 1 \in Nat
      OBVIOUS
    <3> QED BY <1>1, <3>1, FailedFields
  <2> HIDE DEF n
  <2>3. dialog' \in Dialogs /\ dialog'.open = dialog.open /\ dialog'.status = "failed"
    BY <2>1, <2>2, RenderedButtons
  <2> QED BY <1>4, <1>5, <2>3 DEF PickerInv, DialogTypes, SettledInv
<1> QED BY <1>6, <1>7

(* Another selection is drawn as the results were.                         *)
LEMMA SelectionKeeps ==
  ASSUME PickerInv, NEW W \in SUBSET Pickable, dialog' = Rendered([dialog EXCEPT !.working = W]),
         committed' \in SUBSET Pickable, UNCHANGED <<searchTimer, requests>>
  PROVE  PickerInv'
<1> DEFINE d == [dialog EXCEPT !.working = W]
<1>1. dialog \in Dialogs
  BY DEF PickerInv, DialogTypes
<1>2. /\ d \in Dialogs /\ d.open = dialog.open /\ d.text = dialog.text
      /\ d.results = dialog.results /\ d.page = dialog.page /\ d.pages = dialog.pages
      /\ d.status = dialog.status
  BY <1>1 DEF Dialogs
<1> HIDE DEF d
<1>3. /\ dialog' \in Dialogs /\ dialog'.open = dialog.open /\ dialog'.text = dialog.text
      /\ dialog'.results = dialog.results /\ dialog'.page = dialog.page
      /\ dialog'.pages = dialog.pages /\ dialog'.status = dialog.status
      /\ dialog'.buttons = Buttons(dialog.page, dialog.pages)
  BY <1>2, RenderedButtons DEF d
<1> QED BY <1>3 DEF PickerInv, DialogTypes, SettledInv, Shows

LEMMA NextPickerInv == PickerInv /\ [PickerNext]_pickerVars => PickerInv'
<1> SUFFICES ASSUME PickerInv, [PickerNext]_pickerVars PROVE PickerInv'
  OBVIOUS
<1>1. dialog \in Dialogs /\ committed \in SUBSET Pickable
  BY DEF PickerInv, DialogTypes
<1>2. CASE OpenDialog
  <2> DEFINE d == Opened(dialog, NoText, committed, <<>>, 1, 1, {}, dialog.opened + 1, 0)
  <2>1. LoadResults(d) /\ committed' = committed
    BY <1>2 DEF OpenDialog, Opened
  <2>2. d \in Dialogs
    <3>1. /\ <<>> \in Seq(Pickable) /\ 1 \in Nat /\ 0 \in Nat
          /\ {} \in SUBSET {"previous", "next"} /\ dialog.opened + 1 \in Nat
      BY <1>1 DEF Dialogs
    <3> QED BY <1>1, <3>1, PickerAssumption, OpenedFields
  <2> HIDE DEF d
  <2> QED BY <1>1, <2>1, <2>2, LoadKeeps
<1>3. ASSUME NEW text \in Texts, TypeText(text)
      PROVE  PickerInv'
  <2>1. /\ dialog' = Typed(dialog, text, dialog.typed + 1) /\ searchTimer'
        /\ requests' = requests /\ committed' = committed
    BY <1>3 DEF TypeText, Typed
  <2>2. dialog.typed + 1 \in Nat
    BY <1>1 DEF Dialogs
  <2>3. dialog' \in Dialogs
    BY <1>1, <2>1, <2>2, TypedFields
  <2> QED BY <2>1, <2>3 DEF PickerInv, DialogTypes, SettledInv
<1>4. CASE SearchDue
  <2> DEFINE d == [dialog EXCEPT !.page = 1]
  <2>1. LoadResults(d) /\ committed' = committed
    BY <1>4 DEF SearchDue
  <2>2. d \in Dialogs
    BY <1>1 DEF Dialogs
  <2> HIDE DEF d
  <2> QED BY <1>1, <2>1, <2>2, LoadKeeps
<1>5. ASSUME NEW button \in {"previous", "next"}, TurnPage(button)
      PROVE  PickerInv'
  <2> DEFINE q == IF button = "next" THEN dialog.page + 1 ELSE dialog.page - 1
             d == [dialog EXCEPT !.page = q]
  <2>1. q \in Nat
    BY <1>1, <1>5 DEF TurnPage, Dialogs
  <2>2. LoadResults(d) /\ committed' = committed
    BY <1>5 DEF TurnPage
  <2> HIDE DEF q
  <2>3. d \in Dialogs
    BY <1>1, <2>1 DEF Dialogs
  <2> HIDE DEF d
  <2> QED BY <1>1, <2>2, <2>3, LoadKeeps
<1>6. ASSUME NEW asked \in requests, Answered(asked) \/ NotAnswered(asked)
      PROVE  PickerInv'
  BY <1>6, AnsweredKeeps
<1>7. ASSUME NEW r, Pick(r)
      PROVE  PickerInv'
  <2> DEFINE chosen == dialog.working
             full == MaximumSelections > 0 /\ Cardinality(chosen) >= MaximumSelections
             W == IF r \in chosen THEN chosen \ {r} ELSE IF full THEN {r} ELSE chosen \cup {r}
  <2>1. dialog' = Rendered([dialog EXCEPT !.working = W])
        /\ UNCHANGED <<committed, searchTimer, requests>>
    BY <1>7 DEF Pick
  <2>2. r \in Pickable
    BY <1>1, <1>7 DEF Pick, ToSet, Dialogs
  <2> HIDE DEF full
  <2>3. W \in SUBSET Pickable
    BY <1>1, <2>2 DEF Dialogs
  <2> HIDE DEF W
  <2> QED BY <1>1, <2>1, <2>3, SelectionKeeps
<1>8. ASSUME NEW r, RemoveCard(r)
      PROVE  PickerInv'
  <2>1. dialog.working \ {r} \in SUBSET Pickable
    BY <1>1 DEF Dialogs
  <2> QED BY <1>1, <1>8, <2>1, SelectionKeeps DEF RemoveCard
<1>9. CASE CancelDialog
  <2>1. dialog' \in Dialogs /\ ~dialog'.open /\ requests' = {} /\ committed' = committed
    BY <1>1, <1>9 DEF CancelDialog, Dialogs
  <2> QED BY <1>1, <2>1 DEF PickerInv, DialogTypes, SettledInv
<1>10. CASE ApplyDialog
  <2>1. dialog' \in Dialogs /\ ~dialog'.open /\ requests' = requests
        /\ committed' \in SUBSET Pickable
    BY <1>1, <1>10 DEF ApplyDialog, Dialogs
  <2> QED BY <2>1 DEF PickerInv, DialogTypes, SettledInv
<1>11. CASE ClearRecords
  BY <1>11, SelectionKeeps DEF ClearRecords
<1>12. CASE UNCHANGED pickerVars
  BY <1>12 DEF pickerVars, PickerInv, DialogTypes, SettledInv, Shows
<1> QED BY <1>2, <1>3, <1>4, <1>5, <1>6, <1>7, <1>8, <1>9, <1>10, <1>11, <1>12
        DEF PickerNext

LEMMA InitPickerInv ==
  ASSUME NEW initial \in SUBSET Pickable, PickerInit(initial)
  PROVE  PickerInv
<1>1. dialog \in Dialogs /\ ~dialog.open /\ committed \in SUBSET Pickable /\ requests = {}
  BY PickerAssumption DEF PickerInit, Dialogs
<1> QED BY <1>1 DEF PickerInv, DialogTypes, SettledInv

(* In whatever order texts are typed, timers fire and answers come or fail *)
(* to come, over any number of openings: a dialog that has settled answers *)
(* its search box, for any records, page size and maximum.                 *)
THEOREM DialogSettlesOnItsAnswer == PickerSpec => []SettledDialogAnswers
<1>1. (\E initial \in SUBSET Pickable : PickerInit(initial)) => PickerInv
  BY InitPickerInv
<1>2. PickerInv => SettledDialogAnswers
  <2> SUFFICES ASSUME PickerInv, dialog.open, ~searchTimer, requests = {},
                      dialog.status # "failed"
               PROVE  SettledDialogAnswers
    BY DEF SettledDialogAnswers
  <2>1. Shows(dialog) /\ dialog \in Dialogs
    BY DEF PickerInv, DialogTypes, SettledInv
  <2>2. Answer(dialog.text, dialog.page).page \in 1..Answer(dialog.text, dialog.page).pages
    BY <2>1, AnswerSettles DEF Dialogs
  <2>3. dialog.page \in 1..dialog.pages /\ dialog.pages \in Nat
    BY <2>1, <2>2 DEF Shows, Dialogs
  <2>4. /\ "next" \in dialog.buttons <=> dialog.page < dialog.pages
        /\ "previous" \in dialog.buttons <=> dialog.page > 1
    BY <2>1, <2>3 DEF Shows, Buttons
  <2> QED BY <2>1, <2>4 DEF Shows, SettledDialogAnswers
<1> QED BY <1>1, <1>2, NextPickerInv, PTL DEF PickerSpec

-----------------------------------------------------------------------------
(* The editor.  First the decimals of the columns.                         *)

LEMMA Quotient ==
  ASSUME NEW n \in Nat, NEW d \in Nat \ {0}
  PROVE  /\ n \div d \in Nat
         /\ (n \div d) * d <= n
         /\ n < (n \div d) * d + d
OBVIOUS

LEMMA Multiple ==
  ASSUME NEW n \in Nat, NEW d \in Nat \ {0}, n % d = 0
  PROVE  \E k \in Nat : n = k * d
<1>1. n \div d \in Nat /\ n = (n \div d) * d
  OBVIOUS
<1> QED BY <1>1

LEMMA FewerMultiples ==
  ASSUME NEW q \in Nat, NEW k \in Nat, NEW d \in Nat \ {0}
  PROVE  /\ q * d \in Nat
         /\ q <= k => q * d <= k * d
         /\ q < k => q * d + d <= k * d
         /\ q * d = 0 <=> q = 0
<1>1. q <= k => q * d <= k * d
  OBVIOUS
<1>2. q < k => (q + 1) * d <= k * d
  OBVIOUS
<1>3. (q + 1) * d = q * d + d
  OBVIOUS
<1> QED BY <1>1, <1>2, <1>3

\* A rounded decimal is the nearest multiple of the last digit.
LEMMA RoundedDecimal ==
  ASSUME NEW x \in Int
  PROVE  \E q \in Nat :
           /\ Rounded(x) = IF x < 0 THEN -(q * Fine) ELSE q * Fine
           /\ q * Fine \in Nat
           /\ 2 * (q * Fine) <= 2 * Distance(x) + Fine
           /\ 2 * Distance(x) + Fine < 2 * (q * Fine) + 2 * Fine
<1> DEFINE n == 2 * Distance(x) + Fine
           q == n \div (2 * Fine)
<1>1. Fine \in Nat \ {0} /\ 2 * Fine \in Nat \ {0}
  BY FormsAssumption
<1>2. n \in Nat
  BY <1>1 DEF Distance
<1>3. q \in Nat /\ q * (2 * Fine) <= n /\ n < q * (2 * Fine) + 2 * Fine
  <2> HIDE DEF n
  <2> QED BY <1>1, <1>2, Quotient
<1>4. Rounded(x) = IF x < 0 THEN -(q * Fine) ELSE q * Fine
  BY DEF Rounded
<1> HIDE DEF q
<1>5. q * (2 * Fine) = 2 * (q * Fine) /\ q * Fine \in Nat
  BY <1>1, <1>3, FewerMultiples
<1>6. /\ q * Fine \in Nat
      /\ 2 * (q * Fine) <= n
      /\ n < 2 * (q * Fine) + 2 * Fine
      /\ q \in Nat
  <2> HIDE DEF n
  <2> QED BY <1>1, <1>2, <1>3, <1>5
<1> USE <1>6
<1> WITNESS q \in Nat
<1> QED BY <1>4

LEMMA RoundedInt == \A x \in Int : Rounded(x) \in Int
<1> SUFFICES ASSUME NEW x \in Int PROVE Rounded(x) \in Int
  OBVIOUS
<1>1. PICK q \in Nat :
        /\ Rounded(x) = IF x < 0 THEN -(q * Fine) ELSE q * Fine
        /\ q * Fine \in Nat
  BY RoundedDecimal
<1> QED BY <1>1

LEMMA DistanceNat == \A x \in Int : Distance(x) \in Nat
BY DEF Distance

\* A column rounds a decimal to its own limit when it is half a digit below.
LEMMA RoundedBelow ==
  ASSUME NEW x \in Int, NEW limit \in Nat, limit % Fine = 0
  PROVE  Distance(Rounded(x)) < limit <=> 2 * Distance(x) < 2 * limit - Fine
<1>1. Fine \in Nat \ {0}
  BY FormsAssumption
<1>2. PICK k \in Nat : limit = k * Fine
  BY <1>1, Multiple
<1>3. PICK q \in Nat :
        /\ Rounded(x) = IF x < 0 THEN -(q * Fine) ELSE q * Fine
        /\ q * Fine \in Nat
        /\ 2 * (q * Fine) <= 2 * Distance(x) + Fine
        /\ 2 * Distance(x) + Fine < 2 * (q * Fine) + 2 * Fine
  BY RoundedDecimal
<1>4. Distance(Rounded(x)) = q * Fine
  BY <1>3 DEF Distance
<1>5. /\ k <= q => k * Fine <= q * Fine
      /\ q < k => q * Fine + Fine <= k * Fine
  BY <1>1, FewerMultiples
<1>6. CASE q < k
  <2>1. q * Fine + Fine <= limit
    BY <1>2, <1>5, <1>6
  <2> QED BY <2>1, <1>1, <1>3, <1>4, DistanceNat
<1>7. CASE k <= q
  <2>1. limit <= q * Fine
    BY <1>2, <1>5, <1>7
  <2> QED BY <2>1, <1>1, <1>3, <1>4, DistanceNat
<1> QED BY <1>6, <1>7

\* What a column holds is not rounded again.
LEMMA RoundedMultiple ==
  ASSUME NEW x \in Int, Distance(x) % Fine = 0
  PROVE  Rounded(x) = x
<1>1. Fine \in Nat \ {0}
  BY FormsAssumption
<1>2. PICK k \in Nat : Distance(x) = k * Fine
  BY <1>1, Multiple, DistanceNat
<1>3. PICK q \in Nat :
        /\ Rounded(x) = IF x < 0 THEN -(q * Fine) ELSE q * Fine
        /\ q * Fine \in Nat
        /\ 2 * (q * Fine) <= 2 * Distance(x) + Fine
        /\ 2 * Distance(x) + Fine < 2 * (q * Fine) + 2 * Fine
  BY RoundedDecimal
<1>4. /\ k < q => k * Fine + Fine <= q * Fine
      /\ q < k => q * Fine + Fine <= k * Fine
      /\ k * Fine \in Nat
  BY <1>1, FewerMultiples
<1>5. k = q
  BY <1>1, <1>2, <1>3, <1>4
<1> QED BY <1>2, <1>3, <1>5 DEF Distance

LEMMA RoundedAgain == \A x \in Int : Rounded(Rounded(x)) = Rounded(x)
<1> SUFFICES ASSUME NEW x \in Int PROVE Rounded(Rounded(x)) = Rounded(x)
  OBVIOUS
<1>1. PICK q \in Nat :
        /\ Rounded(x) = IF x < 0 THEN -(q * Fine) ELSE q * Fine
        /\ q * Fine \in Nat
  BY RoundedDecimal
<1>2. Distance(Rounded(x)) = q * Fine
  BY <1>1 DEF Distance
<1>3. (q * Fine) % Fine = 0
  BY FormsAssumption
<1> QED BY <1>2, <1>3, RoundedInt, RoundedMultiple

LEMMA RoundedSign ==
  ASSUME NEW x \in Int, x >= 0
  PROVE  Rounded(x) >= 0 /\ (Rounded(x) > 0 <=> 2 * x >= Fine)
<1>1. Fine \in Nat \ {0}
  BY FormsAssumption
<1>2. PICK q \in Nat :
        /\ Rounded(x) = IF x < 0 THEN -(q * Fine) ELSE q * Fine
        /\ q * Fine \in Nat
        /\ 2 * (q * Fine) <= 2 * Distance(x) + Fine
        /\ 2 * Distance(x) + Fine < 2 * (q * Fine) + 2 * Fine
  BY RoundedDecimal
<1>3. /\ Rounded(x) = q * Fine
      /\ 2 * (q * Fine) <= 2 * x + Fine
      /\ 2 * x + Fine < 2 * (q * Fine) + 2 * Fine
  BY <1>2 DEF Distance
<1>4. CASE q = 0
  <2>1. q * Fine = 0
    BY <1>1, <1>4
  <2> QED BY <1>1, <1>3, <2>1
<1>5. CASE q # 0
  <2>1. 0 * Fine + Fine <= q * Fine /\ 0 * Fine = 0
    BY <1>1, <1>5, FewerMultiples
  <2> QED BY <1>1, <1>2, <1>3, <2>1
<1> QED BY <1>4, <1>5

\* The score rows in the order of their definitions are all of them, each once.
LEMMA EveryScoreListed ==
  ASSUME NEW R, IsFiniteSet(R), \A s \in R : s.definition \in Int,
         \A s, t \in R : s.definition = t.definition => s = t
  PROVE  /\ Cardinality(R) \in Nat
         /\ ByDefinition(R) \in [1..Cardinality(R) -> R]
         /\ \A i, j \in 1..Cardinality(R) :
              ByDefinition(R)[i] = ByDefinition(R)[j] => i = j
         /\ \A s \in R : \E i \in 1..Cardinality(R) : ByDefinition(R)[i] = s
         /\ \A i, j \in 1..Cardinality(R) :
              i < j => ByDefinition(R)[i].definition < ByDefinition(R)[j].definition
<1> DEFINE n == Cardinality(R)
           Upto(s) == {t \in R : t.definition <= s.definition}
           rank == [s \in R |-> Cardinality(Upto(s))]
<1>1. n \in Nat /\ IsFiniteSet(1..n) /\ Cardinality(1..n) = n
  BY FS_CardinalityType, FS_Interval
<1>2. ASSUME NEW s \in R
      PROVE  /\ IsFiniteSet(Upto(s)) /\ s \in Upto(s)
             /\ Cardinality(Upto(s)) \in 1..n
  <2>1. Upto(s) \in SUBSET R /\ s \in Upto(s)
    OBVIOUS
  <2>2. IsFiniteSet(Upto(s)) /\ Cardinality(Upto(s)) <= n
    <3> HIDE DEF Upto
    <3> QED BY <2>1, FS_Subset
  <2>3. Cardinality(Upto(s)) \in Nat /\ Cardinality(Upto(s)) # 0
    <3> HIDE DEF Upto
    <3> QED BY <2>1, <2>2, FS_CardinalityType, FS_EmptySet
  <2> HIDE DEF Upto
  <2> QED BY <1>1, <2>1, <2>2, <2>3
<1>3. ASSUME NEW s \in R, NEW t \in R, s.definition < t.definition
      PROVE  Cardinality(Upto(s)) # Cardinality(Upto(t))
  <2>1. Upto(s) \in SUBSET Upto(t) /\ t \notin Upto(s) /\ t \in Upto(t)
    BY <1>3
  <2>2. IsFiniteSet(Upto(t))
    BY <1>2
  <2> HIDE DEF Upto
  <2> QED BY <2>1, <2>2, FS_Subset
<1>4. \A s, t \in R : rank[s] = rank[t] => s = t
  <2> SUFFICES ASSUME NEW s \in R, NEW t \in R, s # t PROVE rank[s] # rank[t]
    OBVIOUS
  <2>1. s.definition < t.definition \/ t.definition < s.definition
    OBVIOUS
  <2>2. Cardinality(Upto(s)) # Cardinality(Upto(t))
    <3> HIDE DEF Upto
    <3> QED BY <1>3, <2>1
  <2> HIDE DEF Upto
  <2> QED BY <2>2
<1>5. rank \in Injection(R, 1..n)
  <2> HIDE DEF Upto
  <2>1. rank \in [R -> 1..n]
    BY <1>2
  <2> HIDE DEF rank
  <2> QED BY <1>4, <2>1 DEF Injection, IsInjective
<1>6. \A i \in 1..n : \E s \in R : Cardinality(Upto(s)) = i
  <2> HIDE DEF rank, n
  <2>1. rank \in Surjection(R, 1..n)
    BY <1>1, <1>5, FS_Injection DEF n
  <2>2. \A i \in 1..n : \E s \in R : rank[s] = i
    BY <2>1 DEF Surjection
  <2> HIDE DEF Upto
  <2> QED BY <2>2 DEF rank
<1>7. \A i \in 1..n : /\ ByDefinition(R)[i] \in R
                      /\ Cardinality(Upto(ByDefinition(R)[i])) = i
  BY <1>6 DEF ByDefinition
<1>8. ByDefinition(R) \in [1..n -> R]
  BY <1>7 DEF ByDefinition
<1>9. ASSUME NEW s \in R PROVE \E i \in 1..n : ByDefinition(R)[i] = s
  <2> DEFINE i == Cardinality(Upto(s))
  <2>1. i \in 1..n
    BY <1>2
  <2>2. ByDefinition(R)[i] \in R /\ Cardinality(Upto(ByDefinition(R)[i])) = i
    BY <1>7, <2>1
  <2>3. ByDefinition(R)[i] = s
    BY <1>4, <2>2
  <2> QED BY <2>1, <2>3
<1>10. \A i, j \in 1..n : ByDefinition(R)[i] = ByDefinition(R)[j] => i = j
  BY <1>7
<1>11. ASSUME NEW i \in 1..n, NEW j \in 1..n, i < j
       PROVE  ByDefinition(R)[i].definition < ByDefinition(R)[j].definition
  <2> DEFINE s == ByDefinition(R)[i]
             t == ByDefinition(R)[j]
  <2>1. s \in R /\ t \in R /\ Cardinality(Upto(s)) = i /\ Cardinality(Upto(t)) = j
    BY <1>7
  <2> HIDE DEF s, t
  <2>2. SUFFICES ASSUME t.definition <= s.definition PROVE FALSE
    BY <2>1 DEF s, t
  <2>3. Upto(t) \in SUBSET Upto(s) /\ IsFiniteSet(Upto(s))
    BY <1>2, <2>1, <2>2
  <2> HIDE DEF Upto
  <2>4. Cardinality(Upto(t)) <= Cardinality(Upto(s))
    BY <2>3, FS_Subset
  <2> QED BY <1>11, <2>1, <2>4
<1> QED BY <1>1, <1>8, <1>9, <1>10, <1>11

\* A sequence of all rows by increasing definition is that list.
LEMMA ListedInOrder ==
  ASSUME NEW R, \A s \in R : s.definition \in Int,
         NEW n \in Nat, NEW f \in [1..n -> R], \A s \in R : \E i \in 1..n : f[i] = s,
         \A i, j \in 1..n : i < j => f[i].definition < f[j].definition
  PROVE  /\ IsFiniteSet(R) /\ Cardinality(R) = n
         /\ \A i \in 1..n : ByDefinition(R)[i] = f[i]
<1> DEFINE Upto(s) == {t \in R : t.definition <= s.definition}
<1>1. \A i, j \in 1..n : f[i].definition <= f[j].definition <=> i <= j
  <2> SUFFICES ASSUME NEW i \in 1..n, NEW j \in 1..n
               PROVE  f[i].definition <= f[j].definition <=> i <= j
    OBVIOUS
  <2>1. f[i].definition \in Int /\ f[j].definition \in Int
    OBVIOUS
  <2>2. i < j \/ i = j \/ j < i
    OBVIOUS
  <2> QED BY <2>1, <2>2
<1>2. \A i, j \in 1..n : f[i] = f[j] => i = j
  <2> SUFFICES ASSUME NEW i \in 1..n, NEW j \in 1..n, f[i] = f[j] PROVE i = j
    OBVIOUS
  <2>1. f[i].definition \in Int
    OBVIOUS
  <2>2. i <= j /\ j <= i
    BY <1>1, <2>1
  <2> QED BY <2>2
<1>3. IsFiniteSet(R) /\ Cardinality(R) = n
  <2>1. f \in Surjection(1..n, R) /\ f \in Injection(1..n, R)
    BY <1>2 DEF Surjection, Injection, IsInjective
  <2> QED BY <2>1, FS_Interval, FS_Surjection
<1>4. ASSUME NEW i \in 1..n PROVE Cardinality(Upto(f[i])) = i
  <2> DEFINE U == Upto(f[i])
             g == [j \in 1..i |-> f[j]]
  <2>1. \A j \in 1..i : j \in 1..n /\ f[j] \in U
    BY <1>1
  <2>2. g \in [1..i -> U]
    BY <2>1
  <2>3. \A s \in U : \E j \in 1..i : g[j] = s
    BY <1>1
  <2>4. \A j, k \in 1..i : g[j] = g[k] => j = k
    BY <1>2, <2>1
  <2> HIDE DEF U, g
  <2>5. g \in Surjection(1..i, U) /\ g \in Injection(1..i, U)
    BY <2>2, <2>3, <2>4 DEF Surjection, Injection, IsInjective
  <2>6. Cardinality(U) = Cardinality(1..i) /\ Cardinality(1..i) = i
    BY <2>5, FS_Interval, FS_Surjection
  <2> QED BY <2>6 DEF U
<1>5. ASSUME NEW i \in 1..n PROVE ByDefinition(R)[i] = f[i]
  <2>1. ByDefinition(R)[i] = CHOOSE s \in R : Cardinality(Upto(s)) = i
    BY <1>3, <1>5 DEF ByDefinition
  <2>2. \A s \in R : Cardinality(Upto(s)) = i => s = f[i]
    <3> SUFFICES ASSUME NEW s \in R, Cardinality(Upto(s)) = i PROVE s = f[i]
      OBVIOUS
    <3>1. PICK k \in 1..n : s = f[k]
      OBVIOUS
    <3> HIDE DEF Upto
    <3>2. k = i
      BY <1>4, <3>1
    <3> QED BY <3>1, <3>2
  <2>3. f[i] \in R /\ Cardinality(Upto(f[i])) = i
    BY <1>4, <1>5
  <2> HIDE DEF Upto
  <2> QED BY <2>1, <2>2, <2>3
<1> QED BY <1>3, <1>5

-----------------------------------------------------------------------------
(* The canonical form of a payload.                                        *)

LEMMA FormattedDecimal ==
  \A d \in Decimals : /\ Formatted(d) \in Decimals
                      /\ Formatted(d).number = d.number
                      /\ Formatted(d).minus = d.minus
                      /\ Formatted(d).style = "plain"
                      /\ Formatted(Formatted(d)) = Formatted(d)
BY DEF Decimals, Formatted, Decimal

LEMMA OptionalFormatted ==
  ASSUME NEW d \in Decimals \cup {Null}
  PROVE  /\ Optional(d, Formatted) \in Decimals \cup {Null}
         /\ Optional(d, Formatted) = IF d = Null THEN Null ELSE Formatted(d)
         /\ Optional(Optional(d, Formatted), Formatted) = Optional(d, Formatted)
<1>1. Null \notin Decimals
  BY FormsAssumption
<1> QED BY <1>1, FormattedDecimal DEF Optional

LEMMA CanonicalScoreFacts ==
  ASSUME NEW s \in Scores
  PROVE  /\ CanonicalScore(s) \in Scores
         /\ CanonicalScore(s).definition = s.definition
         /\ CanonicalScore(s).samples = s.samples
         /\ CanonicalScore(s).value = Formatted(s.value)
         /\ CanonicalScore(s).confidence = Optional(s.confidence, Formatted)
         /\ CanonicalScore(CanonicalScore(s)) = CanonicalScore(s)
<1>1. /\ s.value \in Decimals /\ s.confidence \in Decimals \cup {Null}
      /\ Formatted(s.value) \in Decimals
      /\ Optional(s.confidence, Formatted) \in Decimals \cup {Null}
  BY FormattedDecimal, OptionalFormatted DEF Scores
<1> DEFINE v == Formatted(s.value)
           c == Optional(s.confidence, Formatted)
<1>2. CanonicalScore(s) = [s EXCEPT !.value = v, !.confidence = c]
  BY DEF CanonicalScore
<1> HIDE DEF v, c
<1>3. v \in Decimals /\ c \in Decimals \cup {Null}
  BY <1>1 DEF v, c
<1>4. /\ CanonicalScore(s) \in Scores
      /\ CanonicalScore(s).definition = s.definition
      /\ CanonicalScore(s).samples = s.samples
      /\ CanonicalScore(s).value = v
      /\ CanonicalScore(s).confidence = c
  BY <1>2, <1>3 DEF Scores
<1> DEFINE t == CanonicalScore(s)
           w == Formatted(t.value)
           d == Optional(t.confidence, Formatted)
<1>5. CanonicalScore(t) = [t EXCEPT !.value = w, !.confidence = d]
  BY DEF CanonicalScore
<1>6. w = t.value /\ d = t.confidence
  BY <1>1, <1>4, FormattedDecimal, OptionalFormatted DEF v, c
<1>7. t \in Scores
  BY <1>4
<1> HIDE DEF t, w, d
<1>8. CanonicalScore(t) = t
  BY <1>5, <1>6, <1>7 DEF Scores
<1> QED BY <1>4, <1>8 DEF v, c, t

LEMMA CanonicalResult ==
  ASSUME NEW p \in Results
  PROVE  /\ Canonical(p) \in Results
         /\ \A f \in {"kind", "evaluator", "total", "successful", "failed",
                      "timeouts", "errors", "probability", "latency"} :
              Canonical(p)[f] = p[f]
         /\ Canonical(p).duration = Optional(p.duration, Formatted)
         /\ DOMAIN Canonical(p).scores = DOMAIN p.scores
         /\ \A i \in DOMAIN p.scores :
              Canonical(p).scores[i] = CanonicalScore(p.scores[i])
<1>1. /\ p.kind = "result" /\ p.duration \in Decimals \cup {Null}
      /\ p.scores \in Seq(Scores)
  BY DEF Results
<1> DEFINE d == Optional(p.duration, Formatted)
           q == [i \in DOMAIN p.scores |-> CanonicalScore(p.scores[i])]
<1>2. d \in Decimals \cup {Null}
  BY <1>1, OptionalFormatted
<1>3. q \in Seq(Scores) /\ DOMAIN q = DOMAIN p.scores
  <2>1. PICK n \in Nat : p.scores \in [1..n -> Scores]
    BY <1>1
  <2>2. DOMAIN p.scores = 1..n
    BY <2>1
  <2>3. q \in [1..n -> Scores]
    BY <2>1, <2>2, CanonicalScoreFacts
  <2> HIDE DEF q
  <2> QED BY <2>2, <2>3
<1>4. \A i \in DOMAIN p.scores : q[i] = CanonicalScore(p.scores[i])
  OBVIOUS
<1>5. Canonical(p) = [p EXCEPT !.duration = d, !.scores = q]
  BY <1>1 DEF Canonical
<1> HIDE DEF d, q
<1>6. /\ Canonical(p) \in Results
      /\ Canonical(p).duration = d /\ Canonical(p).scores = q
      /\ Canonical(p).kind = p.kind /\ Canonical(p).evaluator = p.evaluator
      /\ Canonical(p).total = p.total /\ Canonical(p).successful = p.successful
      /\ Canonical(p).failed = p.failed /\ Canonical(p).timeouts = p.timeouts
      /\ Canonical(p).errors = p.errors /\ Canonical(p).probability = p.probability
      /\ Canonical(p).latency = p.latency
  BY <1>2, <1>3, <1>5 DEF Results
<1> QED BY <1>3, <1>4, <1>6 DEF d

LEMMA EqualResults ==
  ASSUME NEW p \in Results, NEW q \in Results,
         p.evaluator = q.evaluator, p.total = q.total, p.successful = q.successful,
         p.failed = q.failed, p.timeouts = q.timeouts, p.errors = q.errors,
         p.probability = q.probability, p.latency = q.latency,
         p.duration = q.duration, p.scores = q.scores
  PROVE  p = q
BY DEF Results

\* The canonical form of what is in canonical form is what it was.
LEMMA CanonicalAgain ==
  ASSUME NEW p \in Results \cup Circuits
  PROVE  /\ Canonical(p) \in Results \cup Circuits
         /\ Canonical(p).kind = p.kind
         /\ Canonical(Canonical(p)) = Canonical(p)
<1>1. CASE p \in Circuits
  BY <1>1 DEF Circuits, Canonical
<1>2. CASE p \in Results
  <2> DEFINE q == Canonical(p)
  <2>1. /\ q \in Results /\ q.kind = p.kind
        /\ q.duration = Optional(p.duration, Formatted)
        /\ DOMAIN q.scores = DOMAIN p.scores
        /\ \A i \in DOMAIN p.scores : q.scores[i] = CanonicalScore(p.scores[i])
    BY <1>2, CanonicalResult
  <2>2. /\ p.duration \in Decimals \cup {Null}
        /\ p.scores \in Seq(Scores)
    BY <1>2 DEF Results
  <2> HIDE DEF q
  <2> DEFINE r == Canonical(q)
  <2>3. /\ r \in Results
        /\ \A f \in {"kind", "evaluator", "total", "successful", "failed",
                     "timeouts", "errors", "probability", "latency"} : r[f] = q[f]
        /\ r.duration = Optional(q.duration, Formatted)
        /\ DOMAIN r.scores = DOMAIN q.scores
        /\ \A i \in DOMAIN q.scores : r.scores[i] = CanonicalScore(q.scores[i])
    BY <2>1, CanonicalResult
  <2> HIDE DEF r
  <2>4. r.duration = q.duration
    BY <2>1, <2>2, <2>3, OptionalFormatted
  <2>5. \A i \in DOMAIN q.scores : r.scores[i] = q.scores[i]
    <3> SUFFICES ASSUME NEW i \in DOMAIN q.scores PROVE r.scores[i] = q.scores[i]
      OBVIOUS
    <3>1. p.scores[i] \in Scores
      BY <2>1, <2>2
    <3>2. CanonicalScore(CanonicalScore(p.scores[i])) = CanonicalScore(p.scores[i])
      BY <3>1, CanonicalScoreFacts
    <3> QED BY <2>1, <2>3, <3>2
  <2>6. r.scores = q.scores
    <3>1. r.scores \in Seq(Scores) /\ q.scores \in Seq(Scores)
      BY <2>1, <2>3 DEF Results
    <3> QED BY <2>3, <2>5, <3>1
  <2>7. r = q
    BY <2>1, <2>3, <2>4, <2>6, EqualResults
  <2> QED BY <2>1, <2>7 DEF q, r
<1> QED BY <1>1, <1>2

\* The form lets a payload through exactly in its canonical form, and what it
\* lets through the schema accepts as well, but for the way a duration is written
\* and the sign of zero.
LEMMA FormDecides ==
  ASSUME NEW p \in Results \cup Circuits
  PROVE  /\ FormAccepts(Canonical(p)) <=> FormAccepts(p)
         /\ Validates(p) <=>
              /\ FormAccepts(p)
              /\ p.kind = "result" => NullOr(p.duration, DurationInSchema)
<1>1. CASE p \in Circuits
  BY <1>1 DEF Circuits, Canonical, Validates, SchemaAccepts
<1>2. CASE p \in Results
  <2> DEFINE q == Canonical(p)
  <2>1. /\ q \in Results
        /\ \A f \in {"kind", "evaluator", "total", "successful", "failed",
                     "timeouts", "errors", "probability", "latency"} : q[f] = p[f]
        /\ q.duration = Optional(p.duration, Formatted)
        /\ DOMAIN q.scores = DOMAIN p.scores
        /\ \A i \in DOMAIN p.scores : q.scores[i] = CanonicalScore(p.scores[i])
    BY <1>2, CanonicalResult
  <2>2. /\ p.kind = "result" /\ p.duration \in Decimals \cup {Null}
        /\ p.scores \in Seq(Scores) /\ q.scores \in Seq(Scores)
    BY <1>2, <2>1 DEF Results
  <2> HIDE DEF q
  <2>3. NullOr(q.duration, DurationAccepted) <=> NullOr(p.duration, DurationAccepted)
    <3>1. CASE p.duration = Null
      BY <2>1, <2>2, <3>1, OptionalFormatted DEF NullOr
    <3>2. CASE p.duration # Null
      <4>1. p.duration \in Decimals /\ q.duration = Formatted(p.duration)
        BY <2>1, <2>2, <3>2, OptionalFormatted
      <4>2. q.duration # Null /\ q.duration.number = p.duration.number
        BY <4>1, FormattedDecimal, FormsAssumption
      <4> QED BY <3>2, <4>2 DEF NullOr, DurationAccepted
    <3> QED BY <3>1, <3>2
  <2>4. ASSUME NEW i \in DOMAIN p.scores
        PROVE  /\ q.scores[i].definition = p.scores[i].definition
               /\ q.scores[i].samples = p.scores[i].samples
               /\ (q.scores[i].confidence = Null) <=> (p.scores[i].confidence = Null)
               /\ p.scores[i].confidence # Null =>
                    q.scores[i].confidence.number = p.scores[i].confidence.number
    <3> DEFINE s == p.scores[i]
    <3>1. s \in Scores
      BY <2>2
    <3>2. q.scores[i] = CanonicalScore(s)
      BY <2>1
    <3> HIDE DEF s
    <3>3. s.confidence \in Decimals \cup {Null}
      BY <3>1 DEF Scores
    <3>4. /\ q.scores[i].definition = s.definition
          /\ q.scores[i].samples = s.samples
          /\ q.scores[i].confidence =
               IF s.confidence = Null THEN Null ELSE Formatted(s.confidence)
      BY <3>1, <3>2, <3>3, CanonicalScoreFacts, OptionalFormatted
    <3>5. s.confidence # Null =>
            /\ Formatted(s.confidence) # Null
            /\ Formatted(s.confidence).number = s.confidence.number
      BY <3>3, FormattedDecimal, FormsAssumption
    <3> QED BY <3>4, <3>5 DEF s
  <2>5. (q.scores = <<>>) <=> (p.scores = <<>>)
    BY <2>1, <2>2
  <2>6. ScoresAccepted(q) <=> ScoresAccepted(p)
    BY <2>1, <2>4, <2>5 DEF ScoresAccepted, NullOr
  <2>7. ResultAccepted(q) <=> ResultAccepted(p)
    BY <2>1, <2>3, <2>6 DEF ResultAccepted, Counts, Outcomes, Completed
  <2>8. SchemaAccepts(p) <=>
          /\ p.total >= 1
          /\ \A n \in Counts(p) \cup {p.probability, p.latency} : n >= 0
          /\ NullOr(p.duration, DurationInSchema)
          /\ p.scores # <<>>
    BY <2>2 DEF SchemaAccepts
  <2>9. ResultAccepted(p) =>
          /\ p.total >= 1
          /\ \A n \in Counts(p) \cup {p.probability, p.latency} : n >= 0
          /\ p.scores # <<>>
    BY DEF ResultAccepted, ScoresAccepted
  <2> QED BY <2>1, <2>2, <2>7, <2>8, <2>9 DEF FormAccepts, Validates, q
<1> QED BY <1>1, <1>2

LEMMA AcceptedIsStoredValid ==
  ASSUME NEW p \in Results \cup Circuits, FormAccepts(p)
  PROVE  /\ ZeroRefused(Canonical(p)) <=> ZeroRefused(p)
         /\ Validates(Canonical(p)) <=> ~ZeroRefused(p)
<1>1. /\ Canonical(p) \in Results \cup Circuits /\ FormAccepts(Canonical(p))
      /\ Canonical(p).kind = p.kind
  BY CanonicalAgain, FormDecides
<1>2. ASSUME p.kind = "result"
      PROVE  /\ ZeroRefused(Canonical(p)) <=> ZeroRefused(p)
             /\ NullOr(Canonical(p).duration, DurationInSchema) <=> ~ZeroRefused(p)
  <2>1. /\ p \in Results /\ p.duration \in Decimals \cup {Null}
        /\ Canonical(p).duration = Optional(p.duration, Formatted)
        /\ NullOr(p.duration, DurationAccepted)
    BY <1>2, CanonicalResult DEF Results, Circuits, FormAccepts, ResultAccepted
  <2>2. CASE p.duration = Null
    BY <1>1, <2>1, <2>2, OptionalFormatted DEF ZeroRefused, NullOr
  <2>3. CASE p.duration # Null
    <3> DEFINE d == p.duration
               c == Canonical(p).duration
    <3>1. /\ d \in Decimals /\ d.number >= 0 /\ c = Formatted(d)
      BY <2>1, <2>3, OptionalFormatted DEF NullOr, DurationAccepted
    <3> HIDE DEF c, d
    <3>2. /\ c \in Decimals /\ c # Null /\ c.number = d.number /\ c.minus = d.minus
          /\ c.style = "plain"
      BY <3>1, FormattedDecimal, FormsAssumption
    <3>3. d.minus <=> NegativeZero(d)
      BY <3>1 DEF Decimals, NegativeZero
    <3>4. NegativeZero(c) <=> NegativeZero(d)
      BY <3>2 DEF NegativeZero
    <3>5. DurationInSchema(c) <=> ~d.minus
      BY <3>2 DEF DurationInSchema
    <3> QED BY <1>1, <1>2, <2>3, <3>2, <3>3, <3>4, <3>5 DEF ZeroRefused, NullOr, c, d
  <2> QED BY <2>2, <2>3
<1> QED BY <1>1, <1>2, FormDecides DEF ZeroRefused

-----------------------------------------------------------------------------
(* What the columns take.                                                  *)

\* The row of a score of a result.
RowOfScore(p, s) ==
  [definition |-> s.definition, evaluator |-> p.evaluator,
   value |-> Stored(s.value), confidence |-> Optional(s.confidence, Stored),
   samples |-> s.samples]

LEMMA ScoreRows ==
  ASSUME NEW p \in Results
  PROVE  ScoreRowsOf(p) = {RowOfScore(p, p.scores[i]) : i \in DOMAIN p.scores}
BY DEF Results, ScoreRowsOf, RowOfScore, ToSet

\* A column of a score takes what is not beyond it.
ScoreBeyond(s) ==
  \/ 2 * Distance(s.value.number) >= 2 * ValueLimit - Fine
  \/ s.samples # Null /\ s.samples > BigMax
  \/ s.confidence # Null /\ \/ 2 * s.confidence.number < Fine
                            \/ 2 * (One - s.confidence.number) <= Fine

LEMMA ScoreStorable ==
  ASSUME NEW p \in Results, NEW s \in Scores,
         NullOr(s.confidence, LAMBDA c : c.number > 0 /\ c.number < One),
         NullOr(s.samples, LAMBDA n : n >= 0)
  PROVE  LET t == RowOfScore(p, s)
         IN  (/\ Distance(t.value) < ValueLimit
              /\ NullOr(t.confidence, LAMBDA c : c > 0 /\ c < One)
              /\ NullOr(t.samples, LAMBDA n : n \in 0..BigMax))
             <=> ~ScoreBeyond(s)
<1> DEFINE t == RowOfScore(p, s)
<1>1. /\ Fine \in Nat \ {0} /\ One \in Nat /\ One % Fine = 0
      /\ ValueLimit \in Nat /\ ValueLimit % Fine = 0 /\ BigMax \in Nat
      /\ Null \notin Int /\ Null \notin Decimals
  BY FormsAssumption
<1>2. /\ s.value.number \in Int /\ s.confidence \in Decimals \cup {Null}
      /\ s.samples \in Int \cup {Null}
  BY DEF Scores, Decimals
<1>3. /\ t.value = Rounded(s.value.number)
      /\ t.confidence = Optional(s.confidence, Stored)
      /\ t.samples = s.samples
  BY DEF RowOfScore, Stored
<1> HIDE DEF t
<1>4. Distance(t.value) < ValueLimit
        <=> ~(2 * Distance(s.value.number) >= 2 * ValueLimit - Fine)
  <2>1. Distance(Rounded(s.value.number)) < ValueLimit
          <=> 2 * Distance(s.value.number) < 2 * ValueLimit - Fine
    BY <1>1, <1>2, RoundedBelow
  <2>2. Distance(s.value.number) \in Nat
    BY <1>2, DistanceNat
  <2> QED BY <1>1, <1>3, <2>1, <2>2
<1>5. NullOr(t.samples, LAMBDA n : n \in 0..BigMax)
        <=> ~(s.samples # Null /\ s.samples > BigMax)
  BY <1>1, <1>2, <1>3 DEF NullOr
<1>6. NullOr(t.confidence, LAMBDA c : c > 0 /\ c < One)
        <=> ~(s.confidence # Null /\ \/ 2 * s.confidence.number < Fine
                                     \/ 2 * (One - s.confidence.number) <= Fine)
  <2>1. CASE s.confidence = Null
    BY <1>3, <2>1 DEF NullOr, Optional
  <2>2. CASE s.confidence # Null
    <3> DEFINE c == s.confidence.number
    <3>1. c \in Int /\ c > 0 /\ c < One
      BY <1>2, <2>2 DEF NullOr, Decimals
    <3>2. t.confidence = Rounded(c)
      BY <1>3, <2>2 DEF Optional, Stored
    <3> HIDE DEF c
    <3>3. Rounded(c) \in Int /\ Rounded(c) >= 0 /\ (Rounded(c) > 0 <=> 2 * c >= Fine)
      BY <3>1, RoundedInt, RoundedSign
    <3>4. Distance(Rounded(c)) < One <=> 2 * Distance(c) < 2 * One - Fine
      BY <1>1, <3>1, RoundedBelow
    <3>5. Rounded(c) < One <=> 2 * c < 2 * One - Fine
      BY <3>1, <3>3, <3>4 DEF Distance
    <3>6. t.confidence # Null
      BY <1>1, <3>2, <3>3
    <3> QED BY <1>1, <2>2, <3>1, <3>2, <3>3, <3>5, <3>6 DEF NullOr, c
  <2> QED BY <2>1, <2>2
<1> QED BY <1>4, <1>5, <1>6 DEF ScoreBeyond, t

LEMMA CircuitsStorable ==
  ASSUME NEW p \in Circuits, FormAccepts(p)
  PROVE  Storable(RowOf(p), ScoreRowsOf(p)) <=> ~BeyondColumns(p)
<1>1. /\ p.kind = "circuit" /\ p.detectors \in Int /\ p.distance \in Int \cup {Null}
      /\ p.css \in BOOLEAN /\ p.xOnly \in BOOLEAN /\ p.zOnly \in BOOLEAN
  BY DEF Circuits
<1>2. BigMax \in Nat /\ IntMax \in Nat /\ Null \notin Int
  BY FormsAssumption
<1>3. CircuitAccepted(p) /\ RowOf(p) = p
  BY <1>1 DEF FormAccepts, RowOf
<1>4. CircuitStorable(p) <=> ~BeyondColumns(p)
  BY <1>1, <1>2, <1>3 DEF CircuitAccepted, CircuitStorable, BeyondColumns, NullOr
<1> QED BY <1>1, <1>3, <1>4 DEF Storable

LEMMA ResultsStorable ==
  ASSUME NEW p \in Results, FormAccepts(p)
  PROVE  Storable(RowOf(p), ScoreRowsOf(p)) <=> ~BeyondColumns(p)
<1> DEFINE r == RowOf(p)
           R == ScoreRowsOf(p)
<1>1. /\ p.kind = "result" /\ p.duration \in Decimals \cup {Null}
      /\ p.scores \in Seq(Scores)
      /\ \A f \in {"total", "successful", "failed", "timeouts", "errors",
                   "probability", "latency"} : p[f] \in Int
  BY DEF Results
<1>2. /\ r.kind = "result" /\ r.evaluator = p.evaluator
      /\ \A f \in {"total", "successful", "failed", "timeouts", "errors",
                   "probability", "latency"} : r[f] = p[f]
      /\ r.duration = Optional(p.duration, Stored)
  BY <1>1 DEF RowOf
<1>3. R = {RowOfScore(p, p.scores[i]) : i \in DOMAIN p.scores}
  BY ScoreRows
<1> HIDE DEF r, R
<1>4. ResultAccepted(p) /\ ScoresAccepted(p)
  BY <1>1 DEF FormAccepts, ResultAccepted
<1>5. BigMax \in Nat /\ Null \notin Int /\ Null \notin Decimals
  BY FormsAssumption
<1>6. NullOr(r.duration, LAMBDA d : d >= 0)
  <2>1. CASE p.duration = Null
    BY <1>2, <2>1 DEF NullOr, Optional
  <2>2. CASE p.duration # Null
    <3>1. p.duration.number \in Int /\ p.duration.number >= 0
      BY <1>1, <1>4, <2>2 DEF ResultAccepted, NullOr, DurationAccepted, Decimals
    <3>2. r.duration = Rounded(p.duration.number)
      BY <1>2, <2>2 DEF Optional, Stored
    <3> QED BY <3>1, <3>2, RoundedSign DEF NullOr
  <2> QED BY <2>1, <2>2
<1>7. ResultStorable(r) <=> ~(p.total > BigMax)
  <2>1. /\ p.total \in Int /\ p.successful \in Int /\ p.failed \in Int
        /\ p.timeouts \in Int /\ p.errors \in Int /\ p.probability \in Int
        /\ p.latency \in Int
    BY <1>1
  <2>2. /\ p.total >= 1 /\ p.successful >= 0 /\ p.failed >= 0 /\ p.timeouts >= 0
        /\ p.errors >= 0 /\ p.probability >= 0 /\ p.latency >= 0
        /\ p.total = p.successful + p.failed + p.timeouts + p.errors
        /\ p.probability <= p.successful + p.failed
        /\ p.latency <= p.successful + p.failed
    BY <1>4 DEF ResultAccepted, Counts, Outcomes, Completed
  <2>3. /\ r.total = p.total /\ r.successful = p.successful /\ r.failed = p.failed
        /\ r.timeouts = p.timeouts /\ r.errors = p.errors
        /\ r.probability = p.probability /\ r.latency = p.latency
    BY <1>2
  <2>4. ResultStorable(r) <=>
          /\ \A n \in {r.successful, r.failed, r.timeouts, r.errors}
                      \cup {r.total, r.probability, r.latency} : n \in 0..BigMax
          /\ r.total >= 1
          /\ r.total = r.successful + r.failed + r.timeouts + r.errors
          /\ r.probability <= r.successful + r.failed
          /\ r.latency <= r.successful + r.failed
    BY <1>6 DEF ResultStorable, Counts, Outcomes, Completed
  <2>5. p.total <= BigMax =>
          \A n \in {p.successful, p.failed, p.timeouts, p.errors}
                    \cup {p.total, p.probability, p.latency} : n \in 0..BigMax
    BY <1>5, <2>1, <2>2
  <2> QED BY <1>5, <2>1, <2>2, <2>3, <2>4, <2>5
<1>8. ASSUME NEW i \in DOMAIN p.scores
      PROVE  LET s == p.scores[i]
                 t == RowOfScore(p, s)
             IN  /\ t.definition = s.definition
                 /\ t.evaluator = p.evaluator /\ EvaluatorOf[t.definition] = t.evaluator
                 /\ (/\ Distance(t.value) < ValueLimit
                     /\ NullOr(t.confidence, LAMBDA c : c > 0 /\ c < One)
                     /\ NullOr(t.samples, LAMBDA n : n \in 0..BigMax))
                    <=> ~ScoreBeyond(s)
  <2> DEFINE s == p.scores[i]
  <2>1. s \in Scores
    BY <1>1
  <2>2. /\ EvaluatorOf[s.definition] = p.evaluator
        /\ NullOr(s.confidence, LAMBDA c : c.number > 0 /\ c.number < One)
        /\ NullOr(s.samples, LAMBDA n : n >= 0)
    BY <1>4 DEF ScoresAccepted
  <2>3. /\ RowOfScore(p, s).definition = s.definition
        /\ RowOfScore(p, s).evaluator = p.evaluator
    BY DEF RowOfScore
  <2> HIDE DEF s
  <2>4. LET t == RowOfScore(p, s)
        IN  (/\ Distance(t.value) < ValueLimit
             /\ NullOr(t.confidence, LAMBDA c : c > 0 /\ c < One)
             /\ NullOr(t.samples, LAMBDA n : n \in 0..BigMax))
            <=> ~ScoreBeyond(s)
    BY <2>1, <2>2, ScoreStorable
  <2> QED BY <2>2, <2>3, <2>4 DEF s
<1>9. \A s, t \in R : s.definition = t.definition => s = t
  <2> SUFFICES ASSUME NEW i \in DOMAIN p.scores, NEW j \in DOMAIN p.scores,
                      RowOfScore(p, p.scores[i]).definition
                        = RowOfScore(p, p.scores[j]).definition
               PROVE  i = j
    BY <1>3
  <2>1. p.scores[i].definition = p.scores[j].definition
    BY DEF RowOfScore
  <2> QED BY <1>4, <2>1 DEF ScoresAccepted
<1>10. ScoresStorable(R, p.evaluator)
         <=> \A i \in DOMAIN p.scores : ~ScoreBeyond(p.scores[i])
  <2> DEFINE Fits(t) ==
        /\ t.evaluator = p.evaluator /\ EvaluatorOf[t.definition] = t.evaluator
        /\ Distance(t.value) < ValueLimit
        /\ NullOr(t.confidence, LAMBDA c : c > 0 /\ c < One)
        /\ NullOr(t.samples, LAMBDA n : n \in 0..BigMax)
  <2>1. ScoresStorable(R, p.evaluator) <=> \A t \in R : Fits(t)
    BY <1>9, Zenon DEF ScoresStorable
  <2>2. \A i \in DOMAIN p.scores :
          Fits(RowOfScore(p, p.scores[i])) <=> ~ScoreBeyond(p.scores[i])
    BY <1>8, Zenon
  <2> HIDE DEF Fits
  <2> QED BY <1>3, <2>1, <2>2
<1>11. BeyondColumns(p) <=> \/ p.total > BigMax
                            \/ \E i \in DOMAIN p.scores : ScoreBeyond(p.scores[i])
  BY <1>1 DEF BeyondColumns, ScoreBeyond, ToSet
<1> QED BY <1>2, <1>7, <1>10, <1>11 DEF Storable, r, R

\* The columns refuse exactly what is beyond them.
LEMMA StoredUnlessBeyond ==
  ASSUME NEW p \in Results \cup Circuits, FormAccepts(p)
  PROVE  Storable(RowOf(p), ScoreRowsOf(p)) <=> ~BeyondColumns(p)
BY CircuitsStorable, ResultsStorable

-----------------------------------------------------------------------------
(* The stored candidate, as the editor shows it.                           *)

ScoreRowType ==
  [definition : Int, evaluator : Evaluators, value : Int,
   confidence : Int \cup {Null}, samples : Int \cup {Null}]

\* A row of a score that its columns returned.
Returned(t) ==
  /\ t \in ScoreRowType
  /\ Rounded(t.value) = t.value
  /\ t.confidence # Null => Rounded(t.confidence) = t.confidence

Listed(t) ==
  [definition |-> t.definition, value |-> Written(t.value),
   confidence |-> Optional(t.confidence, Written), samples |-> t.samples]

LEMMA RowReturned ==
  ASSUME NEW p \in Results, NEW s \in Scores
  PROVE  Returned(RowOfScore(p, s))
<1> DEFINE v == Stored(s.value)
           c == Optional(s.confidence, Stored)
<1>1. /\ s.definition \in Int /\ s.samples \in Int \cup {Null}
      /\ s.value.number \in Int /\ s.confidence \in Decimals \cup {Null}
      /\ p.evaluator \in Evaluators
  BY DEF Scores, Decimals, Results
<1>2. v \in Int /\ Rounded(v) = v
  BY <1>1, RoundedInt, RoundedAgain DEF Stored
<1>3. c \in Int \cup {Null} /\ (c # Null => Rounded(c) = c)
  <2>1. CASE s.confidence = Null
    BY <2>1 DEF Optional
  <2>2. CASE s.confidence # Null
    <3>1. s.confidence.number \in Int /\ c = Rounded(s.confidence.number)
      BY <1>1, <2>2 DEF Optional, Stored, Decimals
    <3> QED BY <3>1, RoundedInt, RoundedAgain
  <2> QED BY <2>1, <2>2
<1>4. RowOfScore(p, s) =
        [definition |-> s.definition, evaluator |-> p.evaluator, value |-> v,
         confidence |-> c, samples |-> s.samples]
  BY DEF RowOfScore
<1> HIDE DEF v, c
<1> QED BY <1>1, <1>2, <1>3, <1>4 DEF Returned, ScoreRowType

LEMMA DecimalTyped ==
  ASSUME NEW x \in Int, NEW style \in {"plain", "exponent", "number"}
  PROVE  /\ Decimal(x, style) \in Decimals
         /\ Decimal(x, style).number = x /\ Decimal(x, style).style = style
         /\ Decimal(x, style).minus <=> x < 0
<1> DEFINE d == Decimal(x, style)
<1>1. d.number = x /\ d.style = style
  BY DEF Decimal
<1>2. d.minus <=> x < 0
  BY DEF Decimal
<1>3. d \in [number : Int, minus : BOOLEAN, style : {"plain", "exponent", "number"}]
  BY DEF Decimal
<1> HIDE DEF d
<1>4. d \in Decimals
  BY <1>1, <1>2, <1>3 DEF Decimals
<1> QED BY <1>1, <1>2, <1>4 DEF d

LEMMA WrittenDecimal ==
  \A x \in Int : /\ Written(x) \in Decimals /\ Written(x).number = x
                 /\ Written(x).minus <=> x < 0
                 /\ ~NegativeZero(Written(x))
                 /\ Written(x).style # "number"
                 /\ Written(x).style = "plain" <=> ~(Distance(x) < Small)
<1> SUFFICES ASSUME NEW x \in Int
             PROVE  /\ Written(x) \in Decimals /\ Written(x).number = x
                    /\ Written(x).minus <=> x < 0
                    /\ ~NegativeZero(Written(x))
                    /\ Written(x).style # "number"
                    /\ Written(x).style = "plain" <=> ~(Distance(x) < Small)
  OBVIOUS
<1> DEFINE style == IF Distance(x) < Small THEN "exponent" ELSE "plain"
<1>1. Written(x) = Decimal(x, style)
  BY DEF Written
<1>2. style \in {"plain", "exponent"} /\ (style = "plain" <=> ~(Distance(x) < Small))
  OBVIOUS
<1> HIDE DEF style
<1>3. /\ Written(x) \in Decimals /\ Written(x).number = x /\ Written(x).style = style
      /\ Written(x).minus <=> x < 0
  BY <1>1, <1>2, DecimalTyped
<1>4. ~NegativeZero(Written(x))
  BY <1>3 DEF NegativeZero
<1> QED BY <1>2, <1>3, <1>4

\* What is shown of a score is stored as the row it was.
LEMMA ListedScore ==
  ASSUME NEW t, Returned(t), NEW q, q.evaluator = t.evaluator
  PROVE  /\ Listed(t) \in Scores
         /\ Listed(t).definition = t.definition
         /\ Listed(t).samples = t.samples
         /\ Listed(t).confidence = Null <=> t.confidence = Null
         /\ t.confidence # Null => Listed(t).confidence.number = t.confidence
         /\ RowOfScore(q, CanonicalScore(Listed(t))) = t
<1>1. /\ t \in ScoreRowType /\ t.definition \in Int /\ t.samples \in Int \cup {Null}
      /\ t.value \in Int /\ t.confidence \in Int \cup {Null}
      /\ Null \notin Int /\ Null \notin Decimals
  BY FormsAssumption DEF Returned, ScoreRowType
<1> DEFINE v == Written(t.value)
           c == Optional(t.confidence, Written)
           s == Listed(t)
<1>2. v \in Decimals /\ v.number = t.value
  BY <1>1, WrittenDecimal
<1>3. /\ c \in Decimals \cup {Null}
      /\ c = Null <=> t.confidence = Null
      /\ t.confidence # Null => c.number = t.confidence
  BY <1>1, WrittenDecimal DEF Optional
<1>4. s = [definition |-> t.definition, value |-> v, confidence |-> c,
           samples |-> t.samples]
  BY DEF Listed
<1> HIDE DEF v, c, s
<1>5. /\ s \in Scores /\ s.definition = t.definition /\ s.samples = t.samples
      /\ s.value = v /\ s.confidence = c
  BY <1>1, <1>2, <1>3, <1>4 DEF Scores
<1> DEFINE k == CanonicalScore(s)
<1>6. /\ k.definition = t.definition /\ k.samples = t.samples
      /\ k.value = Formatted(v)
      /\ k.confidence = IF c = Null THEN Null ELSE Formatted(c)
  <2>1. /\ k.definition = s.definition /\ k.samples = s.samples
        /\ k.value = Formatted(s.value)
        /\ k.confidence = Optional(s.confidence, Formatted)
    BY <1>5, CanonicalScoreFacts
  <2> HIDE DEF k
  <2>2. Optional(c, Formatted) = IF c = Null THEN Null ELSE Formatted(c)
    BY <1>3, OptionalFormatted
  <2> QED BY <1>5, <2>1, <2>2
<1> HIDE DEF k
<1>7. Stored(k.value) = t.value
  BY <1>2, <1>6, FormattedDecimal DEF Stored, Returned
<1>8. Optional(k.confidence, Stored) = t.confidence
  <2>1. CASE t.confidence = Null
    BY <1>3, <1>6, <2>1 DEF Optional
  <2>2. CASE t.confidence # Null
    <3>1. /\ k.confidence = Formatted(c) /\ c \in Decimals /\ k.confidence # Null
          /\ k.confidence.number = t.confidence
      BY <1>1, <1>3, <1>6, <2>2, FormattedDecimal
    <3> QED BY <2>2, <3>1 DEF Optional, Stored, Returned
  <2> QED BY <2>1, <2>2
<1>9. RowOfScore(q, k) =
        [definition |-> t.definition, evaluator |-> t.evaluator,
         value |-> t.value, confidence |-> t.confidence, samples |-> t.samples]
  BY <1>6, <1>7, <1>8 DEF RowOfScore
<1>10. RowOfScore(q, k) = t
  BY <1>1, <1>9 DEF ScoreRowType
<1> QED BY <1>3, <1>5, <1>10 DEF s, k

PreviewInv ==
  preview # Null => /\ preview \in Results \cup Circuits
                    /\ Canonical(preview) = preview
                    /\ FormAccepts(preview)

RowInv ==
  row # Null => /\ snapshot \in Results \cup Circuits
                /\ Canonical(snapshot) = snapshot
                /\ Validates(snapshot) /\ FormAccepts(snapshot)
                /\ row = RowOf(snapshot)
                /\ scoreRows = ScoreRowsOf(snapshot)
                /\ Storable(row, scoreRows)

CandidateInv == PreviewInv /\ RowInv

LEMMA CircuitShown ==
  ASSUME RowInv, row # Null, snapshot \in Circuits
  PROVE  LET p == PayloadForRecord
         IN  /\ p \in Circuits /\ FormAccepts(p)
             /\ RowOf(Canonical(p)) = row /\ ScoreRowsOf(Canonical(p)) = scoreRows
BY DEF RowInv, Circuits, PayloadForRecord, RowOf, Canonical, ScoreRowsOf

LEMMA RowsFinite ==
  ASSUME RowInv, row # Null, snapshot \in Results
  PROVE  IsFiniteSet(scoreRows) /\ scoreRows # {}
<1> DEFINE s == snapshot
<1>1. /\ s.kind = "result" /\ s.scores \in Seq(Scores) /\ s.scores # <<>>
      /\ scoreRows = {RowOfScore(s, s.scores[i]) : i \in DOMAIN s.scores}
  BY ScoreRows DEF RowInv, Results, FormAccepts, ResultAccepted, ScoresAccepted
<1>2. PICK n \in Nat : n # 0 /\ DOMAIN s.scores = 1..n /\ s.scores \in [1..n -> Scores]
  BY <1>1
<1> DEFINE f == [i \in 1..n |-> RowOfScore(s, s.scores[i])]
<1>3. f \in Surjection(1..n, scoreRows)
  BY <1>1, <1>2 DEF Surjection
<1>4. IsFiniteSet(scoreRows)
  <2> HIDE DEF f
  <2> QED BY <1>3, FS_Interval, FS_Surjection
<1>5. RowOfScore(s, s.scores[1]) \in scoreRows
  BY <1>1, <1>2
<1> QED BY <1>4, <1>5

\* What the editor shows of a stored result passes the form and is stored as the
\* rows it came from.
LEMMA ResultShown ==
  ASSUME RowInv, row # Null, snapshot \in Results
  PROVE  LET p == PayloadForRecord
         IN  /\ p \in Results /\ FormAccepts(p)
             /\ row.duration \in Nat \cup {Null}
             /\ p.duration = Optional(row.duration, Written)
             /\ RowOf(Canonical(p)) = row /\ ScoreRowsOf(Canonical(p)) = scoreRows
             /\ p.evaluator = snapshot.evaluator
             /\ \A f \in {"total", "successful", "failed", "timeouts", "errors",
                          "probability", "latency"} : p[f] = snapshot[f]
             /\ DOMAIN p.scores = 1..Cardinality(scoreRows)
             /\ \A i \in 1..Cardinality(scoreRows) :
                  p.scores[i] = Listed(ByDefinition(scoreRows)[i])
             /\ \A t \in scoreRows : Returned(t)
<1> DEFINE s == snapshot
           m == Cardinality(scoreRows)
           ordered == ByDefinition(scoreRows)
           p == PayloadForRecord
           q == Canonical(p)
           count == {"total", "successful", "failed", "timeouts", "errors",
                     "probability", "latency"}
<1>1. /\ s \in Results /\ s.kind = "result"
      /\ \A f \in count : s[f] \in Int
      /\ s.duration \in Decimals \cup {Null}
      /\ s.evaluator \in Evaluators /\ s.scores \in Seq(Scores)
  BY DEF Results
<1>2. /\ ResultAccepted(s) /\ ScoresAccepted(s)
      /\ row = RowOf(s) /\ Storable(row, scoreRows)
  BY <1>1 DEF RowInv, FormAccepts, ResultAccepted
<1>3. row = [kind |-> "result", evaluator |-> s.evaluator, total |-> s.total,
             successful |-> s.successful, failed |-> s.failed,
             timeouts |-> s.timeouts, errors |-> s.errors,
             probability |-> s.probability, latency |-> s.latency,
             duration |-> Optional(s.duration, Stored)]
  BY <1>1, <1>2 DEF RowOf
<1>4. /\ scoreRows = {RowOfScore(s, s.scores[i]) : i \in DOMAIN s.scores}
      /\ ScoresStorable(scoreRows, s.evaluator)
  BY <1>1, <1>2, <1>3, ScoreRows DEF RowInv, Storable
<1>5. Null \notin Int /\ Null \notin Decimals
  BY FormsAssumption
<1>6. PICK n \in Nat : n # 0 /\ DOMAIN s.scores = 1..n /\ s.scores \in [1..n -> Scores]
  BY <1>1, <1>2 DEF ScoresAccepted
<1>7. IsFiniteSet(scoreRows) /\ scoreRows # {}
  BY RowsFinite
<1>8. \A t \in scoreRows :
        /\ Returned(t) /\ t.definition \in Definitions
        /\ t.evaluator = s.evaluator /\ EvaluatorOf[t.definition] = s.evaluator
  <2> SUFFICES ASSUME NEW i \in DOMAIN s.scores
               PROVE  LET t == RowOfScore(s, s.scores[i])
                      IN  /\ Returned(t) /\ t.definition \in Definitions
                          /\ t.evaluator = s.evaluator
                          /\ EvaluatorOf[t.definition] = s.evaluator
    BY <1>4
  <2>1. Returned(RowOfScore(s, s.scores[i]))
    BY <1>1, <1>6, RowReturned
  <2>2. s.scores[i].definition \in Definitions
        /\ EvaluatorOf[s.scores[i].definition] = s.evaluator
    BY <1>2 DEF ScoresAccepted
  <2> QED BY <2>1, <2>2 DEF RowOfScore
<1>9. \A t, u \in scoreRows : t.definition = u.definition => t = u
  BY <1>4 DEF ScoresStorable
<1>10. /\ m \in Nat /\ ordered \in [1..m -> scoreRows]
       /\ \A i, j \in 1..m : ordered[i] = ordered[j] => i = j
       /\ \A t \in scoreRows : \E i \in 1..m : ordered[i] = t
  BY <1>7, <1>8, <1>9, EveryScoreListed DEF Returned, ScoreRowType
<1>11. /\ row.duration = Optional(s.duration, Stored)
       /\ s.duration = Null => row.duration = Null
       /\ s.duration # Null => /\ row.duration = s.duration.number
                               /\ DurationAccepted(s.duration)
                               /\ s.duration.number \in Nat
  <2>1. CASE s.duration = Null
    BY <1>3, <2>1 DEF Optional
  <2>2. CASE s.duration # Null
    <3>1. /\ s.duration \in Decimals /\ s.duration.number \in Int
          /\ DurationAccepted(s.duration)
      BY <1>1, <1>2, <2>2 DEF ResultAccepted, NullOr, Decimals
    <3>2. s.duration.number \in Nat /\ Distance(s.duration.number) % Fine = 0
      BY <3>1 DEF DurationAccepted, Distance
    <3>3. Rounded(s.duration.number) = s.duration.number
      BY <3>1, <3>2, RoundedMultiple
    <3>4. row.duration = s.duration.number
      BY <1>3, <2>2, <3>3 DEF Optional, Stored
    <3> QED BY <1>3, <2>2, <3>1, <3>2, <3>4
  <2> QED BY <2>1, <2>2
<1> DEFINE d == Optional(row.duration, Written)
<1>12. /\ row.duration \in Nat \cup {Null} /\ d \in Decimals \cup {Null}
       /\ NullOr(d, DurationAccepted)
       /\ Optional(Optional(d, Formatted), Stored) = row.duration
  <2>1. CASE s.duration = Null
    BY <1>11, <2>1, <1>5 DEF Optional, NullOr
  <2>2. CASE s.duration # Null
    <3>1. /\ row.duration \in Nat /\ row.duration = s.duration.number
          /\ DurationAccepted(s.duration)
      BY <1>11, <2>2
    <3>2. d = Written(row.duration) /\ d \in Decimals /\ d # Null
          /\ d.number = row.duration
      BY <1>5, <3>1, WrittenDecimal DEF Optional
    <3>3. Distance(row.duration) % Fine = 0
      BY <3>1 DEF Distance, DurationAccepted
    <3>4. Rounded(row.duration) = row.duration
      BY <3>1, <3>3, RoundedMultiple
    <3> HIDE DEF d
    <3>5. Optional(d, Formatted) = Formatted(d) /\ Formatted(d) # Null
          /\ Formatted(d).number = row.duration
      BY <1>5, <3>2, FormattedDecimal DEF Optional
    <3>6. Optional(Optional(d, Formatted), Stored) = row.duration
      BY <3>4, <3>5 DEF Optional, Stored
    <3> QED BY <3>1, <3>2, <3>6 DEF NullOr, DurationAccepted
  <2> QED BY <2>1, <2>2
<1> DEFINE l == [i \in 1..m |-> Listed(ordered[i])]
<1>13. p = [kind |-> "result", evaluator |-> s.evaluator, total |-> s.total,
            successful |-> s.successful, failed |-> s.failed,
            timeouts |-> s.timeouts, errors |-> s.errors,
            probability |-> s.probability, latency |-> s.latency,
            duration |-> d, scores |-> l]
  <2>1. DOMAIN ordered = 1..m
    BY <1>10
  <2>2. /\ row.kind = "result" /\ row.evaluator = s.evaluator
        /\ row.total = s.total /\ row.successful = s.successful
        /\ row.failed = s.failed /\ row.timeouts = s.timeouts
        /\ row.errors = s.errors /\ row.probability = s.probability
        /\ row.latency = s.latency
    BY <1>3
  <2> QED BY <2>1, <2>2 DEF PayloadForRecord, Listed
<1>14. l \in Seq(Scores) /\ DOMAIN l = 1..m /\ l # <<>>
       /\ \A i \in 1..m : l[i] = Listed(ordered[i])
  <2>1. l \in [1..m -> Scores]
    BY <1>8, <1>10, ListedScore
  <2>2. m # 0
    BY <1>7, FS_EmptySet
  <2>3. \A i \in 1..m : l[i] = Listed(ordered[i])
    OBVIOUS
  <2> HIDE DEF l, m
  <2> QED BY <1>10, <2>1, <2>2, <2>3
<1> HIDE DEF l, d, m, ordered, p
<1>15. p \in Results
  BY <1>1, <1>12, <1>13, <1>14 DEF Results
<1>16. /\ p.evaluator = s.evaluator /\ p.scores = l /\ p.duration = d
       /\ p.kind = "result" /\ \A f \in count : p[f] = s[f]
  BY <1>13
<1>17. ScoresAccepted(p)
  <2>1. ASSUME NEW i \in 1..m
        PROVE  /\ l[i].definition \in Definitions
               /\ EvaluatorOf[l[i].definition] = s.evaluator
               /\ l[i].definition = ordered[i].definition
               /\ NullOr(l[i].confidence, LAMBDA c : c.number > 0 /\ c.number < One)
               /\ NullOr(l[i].samples, LAMBDA k : k >= 0)
    <3> DEFINE t == ordered[i]
               w == l[i]
    <3>1. t \in scoreRows /\ w = Listed(t)
      BY <1>10, <1>14
    <3> HIDE DEF t, w
    <3>2. /\ Returned(t) /\ t.definition \in Definitions
          /\ EvaluatorOf[t.definition] = s.evaluator
      BY <1>8, <3>1
    <3>3. /\ NullOr(t.confidence, LAMBDA c : c > 0 /\ c < One)
          /\ NullOr(t.samples, LAMBDA k : k \in 0..BigMax)
      BY <1>4, <3>1 DEF ScoresStorable
    <3>4. /\ w.definition = t.definition /\ w.samples = t.samples
          /\ w.confidence = Null <=> t.confidence = Null
          /\ t.confidence # Null => w.confidence.number = t.confidence
      BY <3>1, <3>2, ListedScore
    <3>5. NullOr(w.confidence, LAMBDA c : c.number > 0 /\ c.number < One)
      BY <3>3, <3>4 DEF NullOr
    <3>6. NullOr(w.samples, LAMBDA k : k >= 0)
      BY <3>3, <3>4 DEF NullOr
    <3> QED BY <3>2, <3>4, <3>5, <3>6 DEF t, w
  <2>2. ASSUME NEW i \in 1..m, NEW j \in 1..m, l[i].definition = l[j].definition
        PROVE  i = j
    <3>1. /\ ordered[i].definition = ordered[j].definition
          /\ ordered[i] \in scoreRows /\ ordered[j] \in scoreRows
      BY <1>10, <2>1, <2>2
    <3> QED BY <1>9, <1>10, <3>1
  <2> QED BY <1>14, <1>16, <2>1, <2>2, Zenon DEF ScoresAccepted
<1>18. ResultAccepted(p)
  <2>1. /\ p.total = s.total /\ p.successful = s.successful /\ p.failed = s.failed
        /\ p.timeouts = s.timeouts /\ p.errors = s.errors
        /\ p.probability = s.probability /\ p.latency = s.latency
    BY <1>16
  <2> QED BY <1>2, <1>12, <1>16, <1>17, <2>1
          DEF ResultAccepted, Counts, Outcomes, Completed
<1>19. /\ q \in Results
       /\ \A f \in {"kind", "evaluator"} \cup count : q[f] = p[f]
       /\ q.duration = Optional(p.duration, Formatted)
       /\ DOMAIN q.scores = DOMAIN p.scores
       /\ \A i \in DOMAIN p.scores : q.scores[i] = CanonicalScore(p.scores[i])
  BY <1>15, CanonicalResult
<1> HIDE DEF q
<1>20. RowOf(q) = row
  <2>1. /\ q.kind = "result" /\ q.evaluator = s.evaluator
        /\ q.total = s.total /\ q.successful = s.successful
        /\ q.failed = s.failed /\ q.timeouts = s.timeouts
        /\ q.errors = s.errors /\ q.probability = s.probability
        /\ q.latency = s.latency
    BY <1>16, <1>19
  <2>2. Optional(q.duration, Stored) = row.duration
    BY <1>12, <1>16, <1>19
  <2>3. Optional(s.duration, Stored) = row.duration
    BY <1>3
  <2> QED BY <1>3, <2>1, <2>2, <2>3 DEF RowOf
<1>21. ScoreRowsOf(q) = scoreRows
  <2>1. ScoreRowsOf(q) = {RowOfScore(q, q.scores[i]) : i \in 1..m}
    BY <1>14, <1>16, <1>19, ScoreRows
  <2>2. ASSUME NEW i \in 1..m
        PROVE  RowOfScore(q, q.scores[i]) = ordered[i]
    <3> DEFINE t == ordered[i]
    <3>1. t \in scoreRows /\ q.scores[i] = CanonicalScore(Listed(t))
      BY <1>10, <1>14, <1>16, <1>19
    <3> HIDE DEF t
    <3>2. Returned(t) /\ q.evaluator = t.evaluator
      BY <1>8, <1>16, <1>19, <3>1
    <3> QED BY <3>1, <3>2, ListedScore DEF t
  <2>3. ScoreRowsOf(q) = {ordered[i] : i \in 1..m}
    BY <2>1, <2>2
  <2> QED BY <1>10, <2>3
<1>22. FormAccepts(p)
  BY <1>16, <1>18 DEF FormAccepts
<1>23. \A t \in scoreRows : Returned(t)
  BY <1>8
<1>24. /\ DOMAIN p.scores = 1..Cardinality(scoreRows)
       /\ \A i \in 1..Cardinality(scoreRows) :
            p.scores[i] = Listed(ByDefinition(scoreRows)[i])
  BY <1>14, <1>16 DEF m, ordered
<1> QED
  BY <1>12, <1>15, <1>16, <1>20, <1>21, <1>22, <1>23, <1>24 DEF p, q, d

LEMMA RecordShown ==
  ASSUME RowInv, row # Null
  PROVE  LET p == PayloadForRecord
         IN  /\ p \in Results \cup Circuits /\ FormAccepts(p)
             /\ RowOf(Canonical(p)) = row /\ ScoreRowsOf(Canonical(p)) = scoreRows
             /\ p.kind = "result" => /\ row.duration \in Nat \cup {Null}
                                     /\ p.duration = Optional(row.duration, Written)
<1>1. CASE snapshot \in Circuits
  BY <1>1, CircuitShown DEF Circuits
<1>2. CASE snapshot \in Results
  BY <1>2, ResultShown
<1> QED BY <1>1, <1>2 DEF RowInv

LEMMA PayloadTypes ==
  ASSUME CandidateInv, NEW p \in Payloads
  PROVE  p \in Results \cup Circuits
<1>1. CASE p \in Drafts
  BY <1>1, FormsAssumption
<1>2. CASE p \in Initials
  BY <1>2, RecordShown DEF Initials, CandidateInv, PreviewInv
<1> QED BY <1>1, <1>2 DEF Payloads

LEMMA NextCandidateInv ==
  ASSUME CandidateInv, [FormsNext]_formVars
  PROVE  CandidateInv'
<1>1. ASSUME NEW mode \in {"structured", "json"}, NEW p \in Payloads, Post(mode, p)
      PROVE  CandidateInv'
  <2>1. p \in Results \cup Circuits
    BY PayloadTypes
  <2>2. FormAccepts(p)
    BY <1>1 DEF Post, Previewable, Validates
  <2>3. /\ Canonical(p) \in Results \cup Circuits
        /\ Canonical(Canonical(p)) = Canonical(p)
        /\ FormAccepts(Canonical(p))
    BY <2>1, <2>2, CanonicalAgain, FormDecides
  <2>4. PreviewInv'
    BY <1>1, <2>3 DEF Post, PreviewInv
  <2>5. RowInv'
    BY <1>1 DEF Post, CandidateInv, RowInv
  <2> QED BY <2>4, <2>5 DEF CandidateInv
<1>2. CASE CommitPreview
  <2>1. /\ preview \in Results \cup Circuits /\ FormAccepts(preview)
        /\ Canonical(preview) = preview /\ Validates(preview)
    BY <1>2 DEF CommitPreview, CandidateInv, PreviewInv
  <2>2. RowInv'
    BY <1>2, <2>1 DEF CommitPreview, ReplacedScores, RowInv
  <2>3. PreviewInv'
    BY <1>2 DEF CommitPreview, PreviewInv
  <2> QED BY <2>2, <2>3 DEF CandidateInv
<1>3. CASE DropPreview
  BY <1>3 DEF DropPreview, CandidateInv, PreviewInv, RowInv
<1>4. CASE UNCHANGED formVars
  BY <1>4 DEF formVars, CandidateInv, PreviewInv, RowInv
<1> QED BY <1>1, <1>2, <1>3, <1>4 DEF FormsNext

LEMMA SpecCandidateInv == FormsSpec => []CandidateInv
<1>1. FormsInit => CandidateInv
  BY DEF FormsInit, CandidateInv, PreviewInv, RowInv
<1>2. CandidateInv /\ [FormsNext]_formVars => CandidateInv'
  BY NextCandidateInv
<1> QED BY <1>1, <1>2, PTL DEF FormsSpec

\* What was previewed is valid for the final post unless its duration is negative
\* zero, and stored by it unless a number is beyond its column: for every payload a
\* user can enter.
THEOREM PreviewsStored == FormsSpec => []PreviewsStorable
<1>1. CandidateInv => PreviewsStorable
  <2> SUFFICES ASSUME CandidateInv, preview # Null
               PROVE  /\ Validates(preview) <=> ~ZeroRefused(preview)
                      /\ Storable(RowOf(preview), ScoreRowsOf(preview))
                           <=> ~BeyondColumns(preview)
    BY DEF PreviewsStorable
  <2>1. /\ preview \in Results \cup Circuits /\ FormAccepts(preview)
        /\ Canonical(preview) = preview
    BY DEF CandidateInv, PreviewInv
  <2> QED BY <2>1, StoredUnlessBeyond, AcceptedIsStoredValid
<1> QED BY <1>1, SpecCandidateInv, PTL

\* A score in canonical form that its columns keep is shown as it was.
LEMMA KeptScore ==
  ASSUME NEW p, NEW s \in Scores, CanonicalScore(s) = s
  PROVE  (Kept(s.value) /\ NullOr(s.confidence, Kept))
           <=> CanonicalScore(Listed(RowOfScore(p, s))) = s
<1> DEFINE t == RowOfScore(p, s)
           v == Stored(s.value)
           c == Optional(s.confidence, Stored)
           k == CanonicalScore(Listed(t))
<1>1. /\ s.value \in Decimals /\ s.value.style = "plain"
      /\ s.confidence \in Decimals \cup {Null}
      /\ s.confidence # Null => s.confidence.style = "plain"
      /\ Null \notin Int /\ Null \notin Decimals
  <2>1. s.value \in Decimals /\ s.confidence \in Decimals \cup {Null}
    BY DEF Scores
  <2>2. s.value = Formatted(s.value) /\ s.confidence = Optional(s.confidence, Formatted)
    BY CanonicalScoreFacts
  <2>3. s.value.style = "plain"
    BY <2>1, <2>2, FormattedDecimal
  <2>4. ASSUME s.confidence # Null PROVE s.confidence.style = "plain"
    <3>1. s.confidence \in Decimals /\ s.confidence = Formatted(s.confidence)
      BY <2>1, <2>2, <2>4 DEF Optional
    <3> QED BY <3>1, FormattedDecimal
  <2> QED BY <2>1, <2>3, <2>4, FormsAssumption
<1>2. \A d \in Decimals : Stored(d) \in Int
  BY RoundedInt DEF Stored, Decimals
<1>3. \A d \in Decimals : d.style = "plain"
        => (Kept(d) <=> Formatted(Written(Stored(d))) = d)
  <2> SUFFICES ASSUME NEW d \in Decimals, d.style = "plain"
               PROVE  Kept(d) <=> Formatted(Written(Stored(d))) = d
    OBVIOUS
  <2> DEFINE x == Stored(d)
             w == Formatted(Written(x))
  <2>1. /\ x \in Int /\ w \in Decimals /\ w.number = x /\ w.style = "plain"
        /\ ~NegativeZero(w)
    BY <1>2, WrittenDecimal, FormattedDecimal DEF NegativeZero
  <2> HIDE DEF x, w
  <2>2. w = d <=> w.number = d.number /\ w.minus = d.minus
    BY <2>1 DEF Decimals
  <2>3. w = d <=> x = d.number /\ ~NegativeZero(d)
    BY <2>1, <2>2 DEF Decimals, NegativeZero
  <2> QED BY <2>3 DEF Kept, x, w
<1>4. v \in Int /\ c \in Int \cup {Null} /\ (c = Null <=> s.confidence = Null)
  BY <1>1, <1>2 DEF Optional
<1>5. Listed(t) = [definition |-> s.definition, value |-> Written(v),
                   confidence |-> Optional(c, Written), samples |-> s.samples]
  BY DEF Listed, RowOfScore
<1>6. /\ Written(v) \in Decimals /\ Optional(c, Written) \in Decimals \cup {Null}
      /\ Optional(c, Written) = IF c = Null THEN Null ELSE Written(c)
  BY <1>4, WrittenDecimal DEF Optional
<1> HIDE DEF v, c, t
<1>7. /\ Listed(t) \in Scores /\ Listed(t).definition = s.definition
      /\ Listed(t).value = Written(v) /\ Listed(t).confidence = Optional(c, Written)
      /\ Listed(t).samples = s.samples
  BY <1>5, <1>6 DEF Scores
<1>8. /\ k \in Scores /\ k.definition = s.definition /\ k.samples = s.samples
      /\ k.value = Formatted(Written(v))
      /\ k.confidence = Optional(Optional(c, Written), Formatted)
  BY <1>7, CanonicalScoreFacts
<1> HIDE DEF k
<1>9. k = s <=> k.value = s.value /\ k.confidence = s.confidence
  <2>1. ASSUME k.value = s.value, k.confidence = s.confidence PROVE k = s
    <3>1. k \in Scores /\ k.definition = s.definition /\ k.samples = s.samples
      BY <1>8
    <3> QED BY <2>1, <3>1 DEF Scores
  <2> QED BY <2>1
<1>10. k.value = s.value <=> Kept(s.value)
  BY <1>1, <1>3, <1>8 DEF v
<1>11. k.confidence = s.confidence <=> NullOr(s.confidence, Kept)
  <2>1. CASE s.confidence = Null
    BY <1>4, <1>6, <1>8, <2>1 DEF Optional, NullOr
  <2>2. CASE s.confidence # Null
    <3>1. c # Null /\ c = Stored(s.confidence) /\ Written(c) # Null
      BY <1>1, <1>4, <2>2, WrittenDecimal DEF c, Optional
    <3>2. k.confidence = Formatted(Written(c))
      BY <1>6, <1>8, <3>1 DEF Optional
    <3> QED BY <1>1, <1>3, <2>2, <3>1, <3>2 DEF NullOr
  <2> QED BY <2>1, <2>2
<1> QED BY <1>9, <1>10, <1>11 DEF k, t

\* The scores that are shown of a result are those of its snapshot, if the tables
\* keep them.
LEMMA ScoresShown ==
  ASSUME RowInv, row # Null, snapshot \in Results
  PROVE  KeptExactly(snapshot)
           <=> Canonical(PayloadForRecord).scores = snapshot.scores
<1> DEFINE s == snapshot
           p == PayloadForRecord
           q == Canonical(p)
           m == Cardinality(scoreRows)
           ordered == ByDefinition(scoreRows)
<1>1. /\ s \in Results /\ s.kind = "result" /\ s.scores \in Seq(Scores)
      /\ Canonical(s) = s /\ ScoresAccepted(s)
      /\ scoreRows = {RowOfScore(s, s.scores[i]) : i \in DOMAIN s.scores}
  BY ScoreRows DEF RowInv, Results, FormAccepts, ResultAccepted
<1>2. PICK n \in Nat : DOMAIN s.scores = 1..n /\ s.scores \in [1..n -> Scores]
  BY <1>1
<1>3. \A i \in 1..n : CanonicalScore(s.scores[i]) = s.scores[i]
  BY <1>1, <1>2, CanonicalResult
<1>4. /\ p \in Results /\ DOMAIN p.scores = 1..m
      /\ \A i \in 1..m : p.scores[i] = Listed(ordered[i])
      /\ \A t \in scoreRows : Returned(t)
  BY ResultShown
<1>5. /\ q.scores \in Seq(Scores) /\ DOMAIN q.scores = 1..m
      /\ \A i \in 1..m : q.scores[i] = CanonicalScore(Listed(ordered[i]))
  <2>1. /\ q \in Results /\ DOMAIN q.scores = DOMAIN p.scores
        /\ \A i \in DOMAIN p.scores : q.scores[i] = CanonicalScore(p.scores[i])
    BY <1>4, CanonicalResult
  <2> HIDE DEF q, p, m, ordered
  <2>2. q.scores \in Seq(Scores)
    BY <2>1 DEF Results
  <2> QED BY <1>4, <2>1, <2>2
<1>6. KeptExactly(s) <=>
        /\ \A i \in 1..n : Kept(s.scores[i].value) /\ NullOr(s.scores[i].confidence, Kept)
        /\ \A i, j \in 1..n : i < j => s.scores[i].definition < s.scores[j].definition
  BY <1>1, <1>2 DEF KeptExactly, ToSet
<1>7. \A i \in 1..n : /\ s.scores[i] \in Scores
                       /\ RowOfScore(s, s.scores[i]).definition = s.scores[i].definition
                       /\ s.scores[i].definition \in Int
                       /\ RowOfScore(s, s.scores[i]) \in scoreRows
  BY <1>1, <1>2 DEF RowOfScore, Scores
<1>8. \A t \in scoreRows : t.definition \in Int /\ t.evaluator = s.evaluator
  <2> SUFFICES ASSUME NEW i \in 1..n
               PROVE  LET t == RowOfScore(s, s.scores[i])
                      IN  t.definition \in Int /\ t.evaluator = s.evaluator
    BY <1>1, <1>2
  <2>1. RowOfScore(s, s.scores[i]).evaluator = s.evaluator
    BY DEF RowOfScore
  <2> QED BY <1>7, <2>1
<1> HIDE DEF q, p, s, m, ordered
<1>9. ASSUME KeptExactly(s) PROVE q.scores = s.scores
  <2> DEFINE f == [i \in 1..n |-> RowOfScore(s, s.scores[i])]
  <2>1. /\ f \in [1..n -> scoreRows]
        /\ \A t \in scoreRows : \E i \in 1..n : f[i] = t
        /\ \A i, j \in 1..n : i < j => f[i].definition < f[j].definition
    BY <1>1, <1>2, <1>6, <1>7, <1>9
  <2>2. \A i \in 1..n : f[i] = RowOfScore(s, s.scores[i])
    OBVIOUS
  <2> HIDE DEF f
  <2>3. m = n /\ \A i \in 1..n : ordered[i] = f[i]
    BY <1>2, <1>8, <2>1, ListedInOrder DEF m, ordered
  <2>4. \A i \in 1..n : q.scores[i] = s.scores[i]
    <3> SUFFICES ASSUME NEW i \in 1..n PROVE q.scores[i] = s.scores[i]
      OBVIOUS
    <3>1. q.scores[i] = CanonicalScore(Listed(RowOfScore(s, s.scores[i])))
      BY <1>5, <2>2, <2>3
    <3>2. /\ s.scores[i] \in Scores /\ CanonicalScore(s.scores[i]) = s.scores[i]
          /\ Kept(s.scores[i].value) /\ NullOr(s.scores[i].confidence, Kept)
      BY <1>3, <1>6, <1>7, <1>9
    <3> QED BY <3>1, <3>2, KeptScore
  <2> QED BY <1>1, <1>2, <1>5, <2>3, <2>4
<1>10. ASSUME q.scores = s.scores PROVE KeptExactly(s)
  <2>1. 1..m = 1..n /\ IsFiniteSet(scoreRows)
    BY <1>2, <1>5, <1>10, RowsFinite DEF s
  <2>2. \A t, u \in scoreRows : t.definition = u.definition => t = u
    <3> SUFFICES ASSUME NEW i \in 1..n, NEW j \in 1..n,
                        s.scores[i].definition = s.scores[j].definition
                 PROVE  i = j
      BY <1>1, <1>2, <1>7
    <3> QED BY <1>1, <1>2 DEF ScoresAccepted
  <2>3. /\ ordered \in [1..m -> scoreRows]
        /\ \A i, j \in 1..m : i < j => ordered[i].definition < ordered[j].definition
    BY <1>8, <2>1, <2>2, EveryScoreListed DEF m, ordered
  <2>4. \A i \in 1..n : /\ ordered[i] \in scoreRows
                         /\ s.scores[i] = CanonicalScore(Listed(ordered[i]))
    BY <1>5, <1>10, <2>1, <2>3
  <2>5. ASSUME NEW i \in 1..n
        PROVE  /\ s.scores[i].definition = ordered[i].definition
               /\ RowOfScore(s, s.scores[i]) = ordered[i]
    <3> DEFINE t == ordered[i]
               l == Listed(t)
    <3>1. Returned(t) /\ s.evaluator = t.evaluator /\ s.scores[i] = CanonicalScore(l)
      BY <1>4, <1>8, <2>4
    <3> HIDE DEF t
    <3>2. l \in Scores /\ l.definition = t.definition
          /\ RowOfScore(s, CanonicalScore(l)) = t
      BY <3>1, ListedScore
    <3> HIDE DEF l
    <3>3. CanonicalScore(l).definition = l.definition
      BY <3>2, CanonicalScoreFacts
    <3> QED BY <3>1, <3>2, <3>3 DEF t
  <2>6. \A i \in 1..n : Kept(s.scores[i].value) /\ NullOr(s.scores[i].confidence, Kept)
    <3> SUFFICES ASSUME NEW i \in 1..n
                 PROVE  Kept(s.scores[i].value) /\ NullOr(s.scores[i].confidence, Kept)
      OBVIOUS
    <3>1. CanonicalScore(Listed(RowOfScore(s, s.scores[i]))) = s.scores[i]
      BY <2>4, <2>5
    <3> QED BY <1>3, <1>7, <3>1, KeptScore
  <2>7. \A i, j \in 1..n : i < j => s.scores[i].definition < s.scores[j].definition
    BY <2>1, <2>3, <2>5
  <2> QED BY <1>6, <2>6, <2>7
<1> QED BY <1>9, <1>10 DEF q, p, s

\* The duration that is shown of a result is that of its snapshot.
LEMMA DurationShown ==
  ASSUME RowInv, row # Null, snapshot \in Results
  PROVE  Optional(Optional(row.duration, Written), Formatted) = snapshot.duration
<1> DEFINE d == snapshot.duration
<1>1. /\ d \in Decimals \cup {Null} /\ Null \notin Int /\ Null \notin Decimals
      /\ row.duration = Optional(d, Stored)
      /\ NullOr(d, DurationAccepted) /\ NullOr(d, DurationInSchema)
      /\ d = Optional(d, Formatted)
  BY FormsAssumption, CanonicalResult
     DEF RowInv, Results, RowOf, FormAccepts, ResultAccepted, Validates, SchemaAccepts
<1> HIDE DEF d
<1>2. CASE d = Null
  BY <1>1, <1>2 DEF Optional, d
<1>3. CASE d # Null
  <2>1. /\ d \in Decimals /\ d.number \in Int /\ d.number >= 0 /\ d.number % Fine = 0
        /\ d.style = "plain" /\ ~d.minus
    BY <1>1, <1>3, OptionalFormatted, FormattedDecimal
       DEF NullOr, DurationAccepted, DurationInSchema, Decimals
  <2>2. Stored(d) = d.number
    BY <2>1, RoundedMultiple DEF Stored, Distance
  <2>3. row.duration = d.number /\ row.duration # Null
    BY <1>1, <1>3, <2>1, <2>2 DEF Optional
  <2> DEFINE w == Formatted(Written(d.number))
  <2>4. /\ w \in Decimals /\ w.number = d.number /\ w.style = "plain"
        /\ w.minus <=> d.number < 0
        /\ Written(d.number) # Null
    BY <1>1, <2>1, WrittenDecimal, FormattedDecimal
  <2> HIDE DEF w
  <2>5. w = d
    BY <2>1, <2>4 DEF Decimals
  <2> QED BY <2>3, <2>4, <2>5 DEF Optional, w, d
<1> QED BY <1>2, <1>3

\* The snapshot of the latest event is what the editor shows, exactly when the
\* tables keep it as it is, after any number of edits.
THEOREM HistoryShowsRecord == FormsSpec => []SnapshotMatchesEditor
<1>1. CandidateInv => SnapshotMatchesEditor
  <2> SUFFICES ASSUME RowInv, row # Null
               PROVE  Canonical(PayloadForRecord) = snapshot <=> KeptExactly(snapshot)
    BY DEF CandidateInv, SnapshotMatchesEditor
  <2>1. CASE snapshot \in Circuits
    <3>1. PayloadForRecord = snapshot /\ snapshot.kind = "circuit"
      BY <2>1 DEF RowInv, RowOf, PayloadForRecord, Circuits
    <3> QED BY <3>1 DEF RowInv, KeptExactly
  <2>2. CASE snapshot \in Results
    <3> DEFINE p == PayloadForRecord
               q == Canonical(p)
    <3>1. /\ p \in Results /\ p.duration = Optional(row.duration, Written)
          /\ p.evaluator = snapshot.evaluator
          /\ \A f \in {"total", "successful", "failed", "timeouts", "errors",
                       "probability", "latency"} : p[f] = snapshot[f]
      BY <2>2, ResultShown
    <3> HIDE DEF p
    <3>2. /\ q \in Results /\ q.duration = snapshot.duration
          /\ q.evaluator = snapshot.evaluator
          /\ q.total = snapshot.total /\ q.successful = snapshot.successful
          /\ q.failed = snapshot.failed /\ q.timeouts = snapshot.timeouts
          /\ q.errors = snapshot.errors /\ q.probability = snapshot.probability
          /\ q.latency = snapshot.latency
      BY <2>2, <3>1, CanonicalResult, DurationShown
    <3>3. KeptExactly(snapshot) <=> q.scores = snapshot.scores
      BY <2>2, ScoresShown DEF p
    <3> HIDE DEF q
    <3>4. q = snapshot <=> q.scores = snapshot.scores
      BY <2>2, <3>2, EqualResults
    <3> QED BY <3>3, <3>4 DEF p, q
  <2> QED BY <2>1, <2>2 DEF RowInv
<1> QED BY <1>1, SpecCandidateInv, PTL

\* Posting the editor as it was shown stores what is stored already, and is refused
\* only for a preview of negative zero, and in the JSON editor for a result whose
\* duration is written with an exponent.
THEOREM RepostsChangeNothing == FormsSpec => []RepostUnchanged
<1>1. CandidateInv => RepostUnchanged
  <2> SUFFICES ASSUME CandidateInv, NEW p \in Initials
               PROVE  /\ Previewable("structured", p) <=> ~ZeroRefused(p)
                      /\ Previewable("json", p) <=>
                           /\ ~ZeroRefused(p)
                           /\ ~(/\ row # Null /\ p = PayloadForRecord
                                /\ p.kind = "result"
                                /\ row.duration # Null /\ row.duration < Small)
                      /\ p # preview => /\ RowOf(Canonical(p)) = row
                                        /\ ScoreRowsOf(Canonical(p)) = scoreRows
                      /\ p = preview => Canonical(p) = preview
    BY DEF RepostUnchanged
  <2> DEFINE Shown == row # Null /\ p = PayloadForRecord
  <2>1. PreviewInv /\ RowInv /\ Null \notin Int /\ Null \notin Decimals /\ Small \in Nat
    BY FormsAssumption DEF CandidateInv
  <2>2. Shown \/ (preview # Null /\ p = preview)
    BY DEF Initials
  <2>3. p \in Results \cup Circuits /\ FormAccepts(p)
    BY <2>1, <2>2, RecordShown DEF PreviewInv
  <2>4. Previewable("structured", p) <=> ~ZeroRefused(p)
    BY <2>3, AcceptedIsStoredValid DEF Previewable
  <2>5. Shown => /\ RowOf(Canonical(p)) = row
                 /\ ScoreRowsOf(Canonical(p)) = scoreRows
    BY <2>1, RecordShown
  <2>6. Previewable("json", p) <=>
          (p.kind = "result" => NullOr(p.duration, DurationInSchema))
    BY <2>3, FormDecides DEF Previewable
  <2>7. ASSUME Shown, p.kind = "result"
        PROVE  /\ ~ZeroRefused(p)
               /\ NullOr(p.duration, DurationInSchema)
                    <=> ~(row.duration # Null /\ row.duration < Small)
    <3>1. /\ row.duration \in Nat \cup {Null}
          /\ p.duration = Optional(row.duration, Written)
      BY <2>1, <2>7, RecordShown
    <3>2. CASE row.duration = Null
      BY <3>1, <3>2 DEF Optional, NullOr, ZeroRefused
    <3>3. CASE row.duration # Null
      <4>1. /\ row.duration \in Nat /\ p.duration = Written(row.duration)
            /\ p.duration # Null /\ ~NegativeZero(p.duration)
        BY <2>1, <3>1, <3>3, WrittenDecimal DEF Optional
      <4>2. DurationInSchema(p.duration) <=> ~(row.duration < Small)
        <5>1. Written(row.duration).style = "plain" <=> ~(row.duration < Small)
          BY <4>1, WrittenDecimal DEF Distance
        <5>2. ~Written(row.duration).minus /\ Written(row.duration).style # "number"
          BY <4>1, WrittenDecimal
        <5> QED BY <4>1, <5>1, <5>2 DEF DurationInSchema
      <4> QED BY <3>3, <4>1, <4>2 DEF NullOr, ZeroRefused
    <3> QED BY <3>2, <3>3
  <2>8. ASSUME p = preview, preview # Null
        PROVE  Canonical(p) = preview /\ (Previewable("json", p) <=> ~ZeroRefused(p))
    <3>1. Canonical(p) = p /\ FormAccepts(p)
      BY <2>1, <2>8 DEF PreviewInv
    <3> QED BY <2>3, <2>8, <3>1, AcceptedIsStoredValid DEF Previewable
  <2>9. p = preview => Canonical(p) = preview
    <3>1. p # Null
      BY <2>3, FormsAssumption
    <3> QED BY <2>8, <3>1
  <2>10. ~Shown \/ p.kind # "result" => ~(/\ Shown /\ p.kind = "result"
                                         /\ row.duration # Null /\ row.duration < Small)
    OBVIOUS
  <2>11. p.kind # "result" => ~ZeroRefused(p)
    BY DEF ZeroRefused
  <2> HIDE DEF Shown
  <2>12. Previewable("json", p) <=>
           /\ ~ZeroRefused(p)
           /\ ~(/\ Shown /\ p.kind = "result"
                /\ row.duration # Null /\ row.duration < Small)
    <3>1. CASE Shown /\ p.kind = "result"
      BY <2>6, <2>7, <3>1
    <3>2. CASE p.kind # "result"
      BY <2>6, <2>11, <3>2
    <3>3. CASE ~Shown
      BY <2>2, <2>8, <3>3
    <3> QED BY <3>1, <3>2, <3>3
  <2> QED BY <2>4, <2>5, <2>2, <2>9, <2>12 DEF Shown
<1> QED BY <1>1, SpecCandidateInv, PTL

-----------------------------------------------------------------------------
(* The plot.  Its limits are numbers, or not to be read as any.            *)
PlotInv ==
  /\ rows \in Seq(DOMAIN Value)
  /\ plotForm.x.min \in Numbers \cup {Unlimited, NotANumber}
  /\ plotForm.x.max \in Numbers \cup {Unlimited, NotANumber}
  /\ plotForm.y.min \in Numbers \cup {Unlimited, NotANumber}
  /\ plotForm.y.max \in Numbers \cup {Unlimited, NotANumber}

LEMMA NumbersAreInts == Numbers \subseteq Int
  BY DEF Numbers

(* The limits that are read are numbers, and positive on a logarithmic axis. *)
LEMMA LimitRead ==
  ASSUME NEW raw \in Numbers \cup {Unlimited, NotANumber}, NEW scale
  PROVE  /\ ReadBound(raw, scale) \in Numbers \cup {Unlimited}
         /\ (scale = "log" /\ ReadBound(raw, scale) # Unlimited) => ReadBound(raw, scale) > 0
<1>1. CASE raw \in {Unlimited, NotANumber}
  BY <1>1 DEF ReadBound
<1>2. CASE raw \notin {Unlimited, NotANumber} /\ scale = "log"
  <2>1. raw \in Int
    BY <1>2, NumbersAreInts
  <2>2. CASE raw <= 0
    BY <1>2, <2>2 DEF ReadBound
  <2>3. CASE raw > 0
    <3>1. ReadBound(raw, scale) = raw
      BY <1>2, <2>1, <2>3 DEF ReadBound
    <3> QED BY <1>2, <2>3, <3>1
  <2> QED BY <2>1, <2>2, <2>3
<1>3. CASE raw \notin {Unlimited, NotANumber} /\ scale # "log"
  BY <1>3 DEF ReadBound
<1> QED BY <1>1, <1>2, <1>3

(* What is read of an axis passes the checks of the declaration.           *)
LEMMA AxisAccepted ==
  ASSUME NEW raw, NEW default \in NumericFields,
         raw.min \in Numbers \cup {Unlimited, NotANumber},
         raw.max \in Numbers \cup {Unlimited, NotANumber}
  PROVE  ~AxisRefused(ReadAxis(raw, default))
<1> DEFINE scale == ReadScale(raw.scale)
           min == ReadBound(raw.min, scale)
           max == ReadBound(raw.max, scale)
           a == ReadAxis(raw, default)
<1>1. /\ min \in Numbers \cup {Unlimited}
      /\ (scale = "log" /\ min # Unlimited) => min > 0
  BY LimitRead
<1>2. /\ max \in Numbers \cup {Unlimited}
      /\ (scale = "log" /\ max # Unlimited) => max > 0
  BY LimitRead
<1>3. a.field \in NumericFields
  BY DEF ReadAxis
<1>4. a.scale = scale /\ scale \in {"linear", "log"}
  BY DEF ReadAxis, ReadScale
<1>5. \/ a.min = min /\ a.max = max /\ (min = Unlimited \/ max = Unlimited \/ min < max)
      \/ a.min = Unlimited /\ a.max = Unlimited
  BY DEF ReadAxis
<1> HIDE DEF scale, min, max, a
<1>6. ~AxisRefused(a)
  <2>1. CASE a.min = Unlimited /\ a.max = Unlimited
    BY <1>3, <1>4, <2>1 DEF AxisRefused
  <2>2. CASE a.min = min /\ a.max = max /\ (min = Unlimited \/ max = Unlimited \/ min < max)
    <3>1. a.scale = "log" => \A b \in {a.min, a.max} : b # Unlimited => ~(b <= 0)
      BY <1>1, <1>2, <1>4, <2>2, NumbersAreInts
    <3>2. (a.min # Unlimited /\ a.max # Unlimited) => ~(a.min >= a.max)
      BY <1>1, <1>2, <2>2, NumbersAreInts
    <3> QED BY <1>3, <1>4, <3>1, <3>2 DEF AxisRefused
  <2> QED BY <1>5, <2>1, <2>2
<1> QED BY <1>6 DEF a

(* Reading an axis gives an axis, and reading it again changes nothing.    *)
LEMMA AxisStable ==
  ASSUME NEW raw, NEW default \in NumericFields,
         raw.min \in Numbers \cup {Unlimited, NotANumber},
         raw.max \in Numbers \cup {Unlimited, NotANumber}
  PROVE  LET a == ReadAxis(raw, default) IN
         /\ a.min \in Numbers \cup {Unlimited} /\ a.max \in Numbers \cup {Unlimited}
         /\ ReadAxis(a, default) = a
<1> DEFINE a == ReadAxis(raw, default)
<1>1. /\ a.min \in Numbers \cup {Unlimited} /\ a.max \in Numbers \cup {Unlimited}
      /\ a.field \in NumericFields /\ a.scale \in {"linear", "log"}
      /\ a.min = Unlimited \/ a.max = Unlimited \/ a.min < a.max
  BY LimitRead DEF ReadAxis, ReadScale
<1>2. ~AxisRefused(a)
  BY AxisAccepted
<1>3. a = [field |-> a.field, scale |-> a.scale, min |-> a.min, max |-> a.max]
  BY DEF ReadAxis
<1> HIDE DEF a
<1>4. ReadScale(a.scale) = a.scale
  BY <1>1 DEF ReadScale
<1>5. ASSUME NEW b \in {a.min, a.max} PROVE ReadBound(b, a.scale) = b
  <2>1. b \in Numbers \cup {Unlimited}
    BY <1>1
  <2>2. CASE b = Unlimited
    BY <2>2 DEF ReadBound
  <2>3. CASE b # Unlimited
    <3>1. b \notin {Unlimited, NotANumber}
      BY <2>1, <2>3, PlotAssumption, NumbersAreInts
    <3>2. ~(a.scale = "log" /\ b <= 0)
      BY <1>2, <2>3 DEF AxisRefused
    <3> QED BY <3>1, <3>2 DEF ReadBound
  <2> QED BY <2>2, <2>3
<1>6. ReadBound(a.min, a.scale) = a.min /\ ReadBound(a.max, a.scale) = a.max
  BY <1>5
<1>7. ReadAxis(a, default) = [field |-> a.field, scale |-> a.scale, min |-> a.min, max |-> a.max]
  BY <1>1, <1>4, <1>6 DEF ReadAxis
<1> QED BY <1>1, <1>3, <1>7 DEF a

LEMMA InitForm == PlotInit => PlotInv
  BY PlotAssumption DEF PlotInit, Unset, PlotInv

LEMMA NextForm == PlotInv /\ [PlotNext]_plotVars => PlotInv'
<1> SUFFICES ASSUME PlotInv, [PlotNext]_plotVars PROVE PlotInv'
  OBVIOUS
<1>1. X.min \in Numbers \cup {Unlimited} /\ X.max \in Numbers \cup {Unlimited}
  BY AxisStable, PlotAssumption DEF X, PlotInv
<1>2. Y.min \in Numbers \cup {Unlimited} /\ Y.max \in Numbers \cup {Unlimited}
  BY AxisStable, PlotAssumption DEF Y, PlotInv
<1>3. CASE UNCHANGED plotVars
  BY <1>3 DEF PlotInv, plotVars
<1>4. ASSUME NEW a \in AxisForms, SetX(a) PROVE PlotInv'
  BY <1>2, <1>4, PlotAssumption DEF PlotInv, SetX, Controls
<1>5. ASSUME NEW a \in AxisForms, SetY(a) PROVE PlotInv'
  BY <1>1, <1>5, PlotAssumption DEF PlotInv, SetY, Controls
<1>6. ASSUME NEW style \in Styles, SetStyle(style) PROVE PlotInv'
  BY <1>1, <1>2, <1>6 DEF PlotInv, SetStyle, Controls
<1> QED BY <1>3, <1>4, <1>5, <1>6 DEF PlotNext

\* An axis that the declaration accepts as it was read.
Axis(a) ==
  /\ a.field \in NumericFields /\ a.scale \in {"linear", "log"}
  /\ a.min \in Numbers \cup {Unlimited} /\ a.max \in Numbers \cup {Unlimited}
  /\ ~AxisRefused(a)

LEMMA AxesRead == PlotInv => \A a \in {X, Y} : Axis(a)
<1> SUFFICES ASSUME PlotInv PROVE Axis(X) /\ Axis(Y)
  OBVIOUS
<1>1. ~AxisRefused(X) /\ X.min \in Numbers \cup {Unlimited} /\ X.max \in Numbers \cup {Unlimited}
  BY AxisAccepted, AxisStable, PlotAssumption DEF X, PlotInv
<1>2. ~AxisRefused(Y) /\ Y.min \in Numbers \cup {Unlimited} /\ Y.max \in Numbers \cup {Unlimited}
  BY AxisAccepted, AxisStable, PlotAssumption DEF Y, PlotInv
<1> QED BY <1>1, <1>2 DEF Axis, AxisRefused

-----------------------------------------------------------------------------
(* Finite sets of numbers.                                                 *)

(* InOrder lists a set from its least element to its greatest.             *)
LEMMA InOrderLists ==
  ASSUME NEW S, IsFiniteSet(S), S \subseteq Int
  PROVE  /\ Cardinality(S) \in Nat
         /\ InOrder(S) \in [1..Cardinality(S) -> S]
         /\ \A s \in S : \E k \in 1..Cardinality(S) : InOrder(S)[k] = s
         /\ \A j, k \in 1..Cardinality(S) : j < k => InOrder(S)[j] < InOrder(S)[k]
<1> DEFINE n == Cardinality(S)
           Upto(s) == {t \in S : t <= s}
           rank == [s \in S |-> Cardinality(Upto(s))]
<1>1. n \in Nat /\ IsFiniteSet(1..n) /\ Cardinality(1..n) = n
  BY FS_CardinalityType, FS_Interval
<1>2. ASSUME NEW s \in S
      PROVE  /\ IsFiniteSet(Upto(s)) /\ s \in Upto(s)
             /\ Cardinality(Upto(s)) \in 1..n
  <2>1. Upto(s) \in SUBSET S /\ s \in Upto(s)
    OBVIOUS
  <2>2. IsFiniteSet(Upto(s)) /\ Cardinality(Upto(s)) <= n
    <3> HIDE DEF Upto
    <3> QED BY <2>1, FS_Subset
  <2>3. Cardinality(Upto(s)) \in Nat /\ Cardinality(Upto(s)) # 0
    <3> HIDE DEF Upto
    <3> QED BY <2>1, <2>2, FS_CardinalityType, FS_EmptySet
  <2> HIDE DEF Upto
  <2> QED BY <1>1, <2>1, <2>2, <2>3
<1>3. ASSUME NEW s \in S, NEW t \in S, s < t
      PROVE  Cardinality(Upto(s)) < Cardinality(Upto(t))
  <2>1. Upto(s) \in SUBSET Upto(t) /\ t \notin Upto(s) /\ t \in Upto(t)
    <3>1. \A x \in S : x \in Int
      OBVIOUS
    <3>2. s \in Int /\ t \in Int /\ t <= t /\ ~(t <= s)
      BY <1>3, <3>1
    <3>3. \A x \in S : x <= s => x <= t
      BY <1>3, <3>1
    <3> QED BY <3>2, <3>3
  <2>2. IsFiniteSet(Upto(t)) /\ Cardinality(Upto(s)) \in 1..n /\ Cardinality(Upto(t)) \in 1..n
    BY <1>2
  <2> HIDE DEF Upto
  <2>3. /\ Cardinality(Upto(s)) <= Cardinality(Upto(t))
        /\ Cardinality(Upto(s)) # Cardinality(Upto(t))
    BY <2>1, <2>2, FS_Subset
  <2> QED BY <1>1, <2>2, <2>3
<1>4. ASSUME NEW s \in S, NEW t \in S, Cardinality(Upto(s)) = Cardinality(Upto(t))
      PROVE  s = t
  <2>1. s < t \/ t < s \/ s = t
    OBVIOUS
  <2>2. Cardinality(Upto(s)) \in Int /\ Cardinality(Upto(t)) \in Int
    BY <1>2
  <2> HIDE DEF Upto
  <2> QED BY <1>3, <1>4, <2>1, <2>2
<1>5. rank \in Injection(S, 1..n)
  <2> HIDE DEF Upto
  <2>1. rank \in [S -> 1..n]
    BY <1>2
  <2>2. \A s, t \in S : rank[s] = rank[t] => s = t
    BY <1>4
  <2> HIDE DEF rank
  <2> QED BY <2>1, <2>2 DEF Injection, IsInjective
<1>6. \A k \in 1..n : \E s \in S : Cardinality(Upto(s)) = k
  <2> HIDE DEF rank, n
  <2>1. rank \in Surjection(S, 1..n)
    BY <1>1, <1>5, FS_Injection DEF n
  <2>2. \A k \in 1..n : \E s \in S : rank[s] = k
    BY <2>1 DEF Surjection
  <2> HIDE DEF Upto
  <2> QED BY <2>2 DEF rank
<1>7. \A k \in 1..n : InOrder(S)[k] \in S /\ Cardinality(Upto(InOrder(S)[k])) = k
  BY <1>6 DEF InOrder
<1>8. InOrder(S) \in [1..n -> S]
  BY <1>7 DEF InOrder
<1> HIDE DEF Upto, rank, n
<1>9. ASSUME NEW s \in S PROVE \E k \in 1..n : InOrder(S)[k] = s
  BY <1>2, <1>4, <1>7
<1>10. ASSUME NEW j \in 1..n, NEW k \in 1..n, j < k
       PROVE  InOrder(S)[j] < InOrder(S)[k]
  <2> DEFINE s == InOrder(S)[j]
             t == InOrder(S)[k]
  <2>1. s \in S /\ t \in S /\ Cardinality(Upto(s)) = j /\ Cardinality(Upto(t)) = k
    BY <1>7
  <2> HIDE DEF s, t
  <2>2. s \in Int /\ t \in Int /\ j \in Int /\ k \in Int
    BY <1>1, <2>1
  <2>3. s # t
    BY <1>10, <2>1, <2>2
  <2>4. ~(t < s)
    BY <1>3, <1>10, <2>1, <2>2
  <2> QED BY <2>2, <2>3, <2>4 DEF s, t
<1> QED BY <1>1, <1>8, <1>9, <1>10 DEF n

LEMMA Extremes ==
  ASSUME NEW S, IsFiniteSet(S), S \subseteq Int, S # {}
  PROVE  /\ LeastOf(S) \in S /\ \A s \in S : LeastOf(S) <= s
         /\ GreatestOf(S) \in S /\ \A s \in S : GreatestOf(S) >= s
<1> DEFINE n == Cardinality(S)
           f == InOrder(S)
<1>1. /\ n \in Nat /\ f \in [1..n -> S]
      /\ \A s \in S : \E k \in 1..n : f[k] = s
      /\ \A j, k \in 1..n : j < k => f[j] < f[k]
  BY InOrderLists
<1> HIDE DEF n, f
<1>2. 1 \in 1..n /\ n \in 1..n
  <2>1. n # 0
    BY FS_EmptySet DEF n
  <2> QED BY <1>1, <2>1
<1>3. f[1] \in S /\ f[n] \in S
  BY <1>1, <1>2
<1>4. ASSUME NEW s \in S PROVE f[1] <= s /\ s <= f[n]
  <2>1. PICK k \in 1..n : f[k] = s
    BY <1>1
  <2>2. (1 < k => f[1] < f[k]) /\ (k < n => f[k] < f[n])
    BY <1>1, <1>2
  <2>3. k = 1 \/ 1 < k
    BY <1>1
  <2>4. k = n \/ k < n
    BY <1>1
  <2>5. f[1] \in Int /\ f[n] \in Int /\ s \in Int
    BY <1>3
  <2> QED BY <2>1, <2>2, <2>3, <2>4, <2>5
<1>5. \E v \in S : \A w \in S : v <= w
  BY <1>3, <1>4
<1>6. \E v \in S : \A w \in S : v >= w
  <2>1. \A w \in S : f[n] >= w
    BY <1>3, <1>4
  <2> QED BY <1>3, <2>1
<1> QED BY <1>5, <1>6, Zenon DEF LeastOf, GreatestOf

-----------------------------------------------------------------------------
(* The range of an axis.                                                   *)

\* A number that an axis with this scale can show.
Placeable(v, scale) == v \in Numbers /\ (scale = "log" => v > 0)

(* Both scales keep the order of the numbers, the linear one strictly.     *)
LEMMA TransformIncreases ==
  ASSUME NEW scale \in {"linear", "log"}, NEW v, NEW w,
         Placeable(v, scale), Placeable(w, scale)
  PROVE  /\ Transform(v, scale) \in Int
         /\ v < w /\ scale = "linear" => Transform(v, scale) < Transform(w, scale)
         /\ v <= w => Transform(v, scale) <= Transform(w, scale)
<1>1. v \in Int /\ w \in Int
  BY NumbersAreInts DEF Placeable
<1>2. CASE scale = "linear"
  BY <1>1, <1>2 DEF Transform, Unit
<1>3. CASE scale = "log"
  <2>1. v \in DOMAIN Logarithm /\ w \in DOMAIN Logarithm
    BY <1>3 DEF Placeable, Numbers
  <2>2. /\ Logarithm[v] \in Int /\ Logarithm[w] \in Int
        /\ v < w => Logarithm[v] <= Logarithm[w]
    BY <2>1, PlotAssumption
  <2>3. Transform(v, scale) = Logarithm[v] /\ Transform(w, scale) = Logarithm[w]
    BY <1>3 DEF Transform
  <2>4. CASE v < w
    BY <1>1, <1>3, <2>2, <2>3, <2>4
  <2>5. CASE v = w
    BY <1>1, <1>3, <2>2, <2>3, <2>5
  <2>6. CASE ~(v <= w)
    BY <1>1, <1>3, <2>2, <2>3, <2>6
  <2> QED BY <1>1, <2>4, <2>5, <2>6
<1> QED BY <1>2, <1>3

LEMMA Twentieth == \A n \in Nat : n \div 20 \in Nat /\ (n >= 20 => n \div 20 > 0)
  OBVIOUS

(* A range of no width does become wider.                                  *)
LEMMA EdgeSpanPositive ==
  ASSUME NEW scale \in {"linear", "log"}, NEW v, Placeable(v, scale)
  PROVE  /\ EdgeSpan(Transform(v, scale), scale) \in Int
         /\ EdgeSpan(Transform(v, scale), scale) > 0
<1>1. CASE scale = "log"
  BY <1>1 DEF EdgeSpan, Unit
<1>2. CASE scale = "linear"
  <2>1. v \in Int /\ Transform(v, scale) = 20000 * v
    BY <1>2, NumbersAreInts DEF Placeable, Transform, Unit
  <2>2. CASE v = 0
    BY <1>2, <2>1, <2>2 DEF EdgeSpan, Unit
  <2>3. CASE v # 0
    <3>1. Magnitude(20000 * v) \in Nat /\ Magnitude(20000 * v) >= 20 /\ 20000 * v # 0
      BY <2>1, <2>3 DEF Magnitude
    <3>2. EdgeSpan(20000 * v, scale) = Magnitude(20000 * v) \div 20
      BY <1>2, <3>1 DEF EdgeSpan
    <3> QED BY <2>1, <3>1, <3>2, Twentieth
  <2> QED BY <2>2, <2>3
<1> QED BY <1>1, <1>2

(* The automatic range has room for all its values.                        *)
LEMMA AutomaticHolds ==
  ASSUME NEW scale, NEW V, IsFiniteSet(V), V \subseteq Int,
         \A x \in V : EdgeSpan(x, scale) \in Int /\ EdgeSpan(x, scale) > 0
  PROVE  LET range == Automatic(V, scale)
         IN  /\ range.low \in Int /\ range.high \in Int /\ range.low < range.high
             /\ \A x \in V : range.low <= x /\ x <= range.high
<1>1. CASE V = {}
  BY <1>1 DEF Automatic, Unit
<1>2. CASE V # {}
  <2> DEFINE low == LeastOf(V)
             high == GreatestOf(V)
             padding == IF low = high THEN EdgeSpan(low, scale) ELSE (high - low) \div 20
  <2>1. low \in V /\ high \in V /\ \A x \in V : low <= x /\ x <= high
    BY <1>2, Extremes
  <2>2. Automatic(V, scale) = [low |-> low - padding, high |-> high + padding]
    BY <1>2 DEF Automatic
  <2> HIDE DEF low, high
  <2>3. low \in Int /\ high \in Int /\ low <= high
    BY <2>1
  <2>4. padding \in Int /\ padding >= 0 /\ (low = high => padding > 0)
    <3>1. CASE low = high
      BY <2>1, <3>1
    <3>2. CASE low # high
      <4>1. high - low \in Nat
        BY <2>3
      <4> QED BY <3>2, <4>1, Twentieth
    <3> QED BY <3>1, <3>2
  <2> HIDE DEF padding
  <2>5. low - padding < high + padding
    BY <2>3, <2>4
  <2>6. ASSUME NEW x \in V PROVE low - padding <= x /\ x <= high + padding
    <3>1. x \in Int /\ low <= x /\ x <= high
      BY <2>1
    <3> QED BY <2>3, <2>4, <3>1
  <2> QED BY <2>2, <2>3, <2>4, <2>5, <2>6
<1> QED BY <1>1, <1>2

(* What is drawn is a number its axis can show, and so is an interval.     *)
LEMMA DrawnPlaceable ==
  ASSUME PlotInv, NEW a \in {X, Y}, NEW i \in Drawn
  PROVE  /\ i \in DOMAIN rows /\ rows[i] \in DOMAIN Value
         /\ Placeable(Value[rows[i]][a.field], a.scale)
         /\ \A v \in StoredInterval(rows[i], a) : Placeable(v, a.scale)
<1> DEFINE r == rows[i]
           stored == Interval[r][a.field]
<1>1. i \in DOMAIN rows /\ r \in DOMAIN Value
  BY DEF Drawn, PlotInv
<1>2. Axis(a)
  BY AxesRead
<1>3. {Value[r][a.field], stored.lower, stored.upper} \subseteq Numbers \cup {NoValue}
  BY <1>1, <1>2, PlotAssumption DEF Axis
<1>4. Drawable(r, a)
  BY DEF Drawn
<1>5. Placeable(Value[r][a.field], a.scale)
  BY <1>3, <1>4 DEF Drawable, Placeable
<1>6. ASSUME NEW v \in StoredInterval(r, a) PROVE Placeable(v, a.scale)
  <2> HIDE DEF r
  <2>1. /\ stored.lower # NoValue /\ stored.upper # NoValue
        /\ ~(stored.lower > stored.upper) /\ ~(a.scale = "log" /\ stored.lower <= 0)
        /\ v \in {stored.lower, stored.upper}
    BY <1>6 DEF StoredInterval, NoInterval
  <2>2. stored.lower \in Numbers /\ stored.upper \in Numbers
    BY <1>3, <2>1
  <2>3. stored.lower \in Int /\ stored.upper \in Int
    BY <2>2, NumbersAreInts
  <2> HIDE DEF stored
  <2> QED BY <2>1, <2>2, <2>3 DEF Placeable
<1> QED BY <1>1, <1>5, <1>6

LEMMA DrawnFinite == PlotInv => IsFiniteSet(Drawn)
<1> SUFFICES ASSUME PlotInv PROVE IsFiniteSet(Drawn)
  OBVIOUS
<1>1. Len(rows) \in Nat /\ DOMAIN rows = 1..Len(rows)
  BY DEF PlotInv
<1>2. IsFiniteSet(DOMAIN rows)
  BY <1>1, FS_Interval
<1>3. Drawn \in SUBSET DOMAIN rows
  BY DEF Drawn
<1> QED BY <1>2, <1>3, FS_Subset

(* The values of a function on a finite set are finitely many.             *)
LEMMA FiniteImage ==
  ASSUME NEW S, IsFiniteSet(S), NEW f, DOMAIN f = S, f = [x \in S |-> f[x]]
  PROVE  IsFiniteSet({f[x] : x \in S})
<1> DEFINE T == {f[x] : x \in S}
<1>1. f \in [S -> T]
  OBVIOUS
<1>2. \A t \in T : \E x \in S : f[x] = t
  OBVIOUS
<1> HIDE DEF T
<1>3. f \in Surjection(S, T)
  BY <1>1, <1>2 DEF Surjection
<1> QED BY <1>3, FS_Surjection DEF T

LEMMA DomainValuesFinite ==
  ASSUME PlotInv, NEW a \in {X, Y}
  PROVE  IsFiniteSet(DomainValues(a))
<1> DEFINE value == [i \in Drawn |-> Transform(Value[rows[i]][a.field], a.scale)]
           lower == [i \in Drawn |-> Transform(Interval[rows[i]][a.field].lower, a.scale)]
           upper == [i \in Drawn |-> Transform(Interval[rows[i]][a.field].upper, a.scale)]
           V == {value[i] : i \in Drawn}
           L == {lower[i] : i \in Drawn}
           U == {upper[i] : i \in Drawn}
<1>1. IsFiniteSet(V) /\ IsFiniteSet(L) /\ IsFiniteSet(U)
  <2>1. IsFiniteSet(V)
    <3>1. DOMAIN value = Drawn /\ value = [i \in Drawn |-> value[i]]
      OBVIOUS
    <3> HIDE DEF value
    <3> QED BY <3>1, DrawnFinite, FiniteImage
  <2>2. IsFiniteSet(L)
    <3>1. DOMAIN lower = Drawn /\ lower = [i \in Drawn |-> lower[i]]
      OBVIOUS
    <3> HIDE DEF lower
    <3> QED BY <3>1, DrawnFinite, FiniteImage
  <2>3. IsFiniteSet(U)
    <3>1. DOMAIN upper = Drawn /\ upper = [i \in Drawn |-> upper[i]]
      OBVIOUS
    <3> HIDE DEF upper
    <3> QED BY <3>1, DrawnFinite, FiniteImage
  <2> QED BY <2>1, <2>2, <2>3
<1>2. IsFiniteSet(V \cup L \cup U)
  <2> HIDE DEF V, L, U
  <2> QED BY <1>1, FS_Union
<1>3. ASSUME NEW t \in DomainValues(a) PROVE t \in V \cup L \cup U
  <2>1. PICK v \in {Value[rows[i]][a.field] : i \in Drawn} \cup
                   (IF ShowsUncertainty THEN UNION {StoredInterval(rows[i], a) : i \in Drawn} ELSE {}) :
             t = Transform(v, a.scale)
    BY DEF DomainValues
  <2>2. CASE v \in {Value[rows[i]][a.field] : i \in Drawn}
    <3>1. PICK i \in Drawn : v = Value[rows[i]][a.field]
      BY <2>2
    <3>2. t = value[i]
      BY <2>1, <3>1
    <3> HIDE DEF value
    <3> QED BY <3>2
  <2>3. CASE v \notin {Value[rows[i]][a.field] : i \in Drawn}
    <3>1. PICK i \in Drawn : v \in StoredInterval(rows[i], a)
      BY <2>1, <2>3
    <3>2. v \in {Interval[rows[i]][a.field].lower, Interval[rows[i]][a.field].upper}
      BY <3>1 DEF StoredInterval, NoInterval
    <3>3. t = lower[i] \/ t = upper[i]
      BY <2>1, <3>2
    <3> HIDE DEF lower, upper
    <3> QED BY <3>3
  <2> QED BY <2>2, <2>3
<1> HIDE DEF V, L, U
<1>4. DomainValues(a) \in SUBSET (V \cup L \cup U)
  BY <1>3
<1> QED BY <1>2, <1>4, FS_Subset

LEMMA DomainValuesTyped ==
  ASSUME PlotInv, NEW a \in {X, Y}, NEW t \in DomainValues(a)
  PROVE  t \in Int /\ EdgeSpan(t, a.scale) \in Int /\ EdgeSpan(t, a.scale) > 0
<1>1. PICK v \in {Value[rows[i]][a.field] : i \in Drawn} \cup
                 (IF ShowsUncertainty THEN UNION {StoredInterval(rows[i], a) : i \in Drawn} ELSE {}) :
           t = Transform(v, a.scale)
  BY DEF DomainValues
<1>2. \E i \in Drawn : v = Value[rows[i]][a.field] \/ v \in StoredInterval(rows[i], a)
  BY <1>1
<1>3. Placeable(v, a.scale)
  BY <1>2, DrawnPlaceable
<1>4. a.scale \in {"linear", "log"}
  BY AxesRead DEF Axis
<1> QED BY <1>1, <1>3, <1>4, TransformIncreases, EdgeSpanPositive

(* The range of an axis is empty for merged limits alone, and has room for *)
(* every result that lies within the limits.                               *)
LEMMA DomainHolds ==
  ASSUME PlotInv, NEW a \in {X, Y}
  PROVE  /\ Domain(a).low \in Int /\ Domain(a).high \in Int
         /\ Domain(a).low < Domain(a).high <=> ~LimitsMerge(a)
         /\ \A i \in Drawn : WithinBounds(Value[rows[i]][a.field], a) =>
              LET t == Transform(Value[rows[i]][a.field], a.scale)
              IN  t \in Int /\ Domain(a).low <= t /\ t <= Domain(a).high
<1> DEFINE auto == Automatic(DomainValues(a), a.scale)
           low == IF a.min = Unlimited THEN auto.low ELSE Transform(a.min, a.scale)
           high == IF a.max = Unlimited THEN auto.high ELSE Transform(a.max, a.scale)
           drawn(i) == Value[rows[i]][a.field]
           place(i) == Transform(drawn(i), a.scale)
<1>1. Axis(a)
  BY AxesRead
<1>2. /\ auto.low \in Int /\ auto.high \in Int /\ auto.low < auto.high
      /\ \A t \in DomainValues(a) : auto.low <= t /\ t <= auto.high
  BY DomainValuesFinite, DomainValuesTyped, AutomaticHolds
<1>3. /\ a.scale \in {"linear", "log"}
      /\ a.min # Unlimited => Placeable(a.min, a.scale)
      /\ a.max # Unlimited => Placeable(a.max, a.scale)
      /\ a.min # Unlimited /\ a.max # Unlimited => a.min < a.max
  <2>1. /\ a.min # Unlimited => a.min \in Numbers /\ a.min \in Int
        /\ a.max # Unlimited => a.max \in Numbers /\ a.max \in Int
    BY <1>1, NumbersAreInts DEF Axis
  <2> QED BY <1>1, <2>1 DEF Axis, AxisRefused, Placeable
<1>4. ASSUME NEW i \in Drawn
      PROVE  /\ Placeable(drawn(i), a.scale) /\ drawn(i) \in Int
             /\ place(i) \in Int /\ auto.low <= place(i) /\ place(i) <= auto.high
  <2>1. Placeable(drawn(i), a.scale)
    BY DrawnPlaceable
  <2>2. place(i) \in DomainValues(a)
    BY DEF DomainValues
  <2> HIDE DEF drawn
  <2> QED BY <1>2, <1>3, <2>1, <2>2, TransformIncreases, NumbersAreInts DEF Placeable
<1>5. /\ a.min # Unlimited => /\ low = Transform(a.min, a.scale) /\ low \in Int
                              /\ EdgeSpan(low, a.scale) \in Int /\ EdgeSpan(low, a.scale) > 0
      /\ a.min = Unlimited => low = auto.low
  BY <1>3, TransformIncreases, EdgeSpanPositive
<1>6. /\ a.max # Unlimited => /\ high = Transform(a.max, a.scale) /\ high \in Int
                              /\ EdgeSpan(high, a.scale) \in Int /\ EdgeSpan(high, a.scale) > 0
      /\ a.max = Unlimited => high = auto.high
  BY <1>3, TransformIncreases, EdgeSpanPositive
<1>7. a.min # Unlimited /\ a.max # Unlimited =>
        low <= high /\ (low < high <=> ~LimitsMerge(a))
  <2> SUFFICES ASSUME a.min # Unlimited, a.max # Unlimited
               PROVE  low <= high /\ (low < high <=> ~LimitsMerge(a))
    OBVIOUS
  <2>1. a.min \in Int /\ a.max \in Int /\ a.min < a.max
    BY <1>3, NumbersAreInts DEF Placeable
  <2>2. Transform(a.min, a.scale) <= Transform(a.max, a.scale)
    BY <1>3, <2>1, TransformIncreases
  <2>3. CASE a.scale = "linear"
    <3>1. Transform(a.min, a.scale) < Transform(a.max, a.scale)
      BY <1>3, <2>1, <2>3, TransformIncreases
    <3> QED BY <1>5, <1>6, <2>3, <3>1 DEF LimitsMerge
  <2>4. CASE a.scale = "log"
    <3>1. Transform(a.min, a.scale) = Logarithm[a.min] /\ Transform(a.max, a.scale) = Logarithm[a.max]
      BY <2>4 DEF Transform
    <3> QED BY <1>5, <1>6, <2>2, <2>4, <3>1 DEF LimitsMerge
  <2> QED BY <1>3, <2>3, <2>4
<1>8. ASSUME NEW i \in Drawn, WithinBounds(drawn(i), a)
      PROVE  /\ a.min # Unlimited => low <= place(i)
             /\ a.max # Unlimited => place(i) <= high
  <2>1. a.min # Unlimited => a.min \in Int /\ a.min <= drawn(i)
    BY <1>3, <1>4, <1>8, NumbersAreInts DEF WithinBounds, Placeable
  <2>2. a.max # Unlimited => a.max \in Int /\ drawn(i) <= a.max
    BY <1>3, <1>4, <1>8, NumbersAreInts DEF WithinBounds, Placeable
  <2>3. Placeable(drawn(i), a.scale)
    BY <1>4
  <2> HIDE DEF drawn
  <2>4. a.min # Unlimited => Transform(a.min, a.scale) <= place(i)
    BY <1>3, <2>1, <2>3, TransformIncreases
  <2>5. a.max # Unlimited => place(i) <= Transform(a.max, a.scale)
    BY <1>3, <2>2, <2>3, TransformIncreases
  <2> QED BY <1>5, <1>6, <2>4, <2>5
<1>9. /\ low < high => Domain(a) = [low |-> low, high |-> high]
      /\ ~(low < high) /\ a.min # Unlimited /\ a.max = Unlimited =>
           Domain(a) = [low |-> low, high |-> low + EdgeSpan(low, a.scale)]
      /\ ~(low < high) /\ a.min = Unlimited /\ a.max # Unlimited =>
           Domain(a) = [low |-> high - EdgeSpan(high, a.scale), high |-> high]
      /\ ~(low < high) /\ a.min # Unlimited /\ a.max # Unlimited =>
           Domain(a) = [low |-> low, high |-> high]
      /\ LimitsMerge(a) => a.min # Unlimited /\ a.max # Unlimited
  BY DEF Domain, LimitsMerge
<1> HIDE DEF auto, low, high, drawn, place
<1>10. low \in Int /\ high \in Int
  BY <1>2, <1>5, <1>6
<1>11. CASE low < high
  <2>1. ASSUME NEW i \in Drawn, WithinBounds(drawn(i), a)
        PROVE  low <= place(i) /\ place(i) <= high
    BY <1>4, <1>5, <1>6, <1>8, <2>1
  <2> QED BY <1>4, <1>7, <1>9, <1>10, <1>11, <2>1 DEF drawn, place
<1>12. CASE ~(low < high) /\ a.min # Unlimited /\ a.max = Unlimited
  <2>1. high = auto.high
    BY <1>6, <1>12
  <2>2. ASSUME NEW i \in Drawn, WithinBounds(drawn(i), a)
        PROVE  low <= place(i) /\ place(i) <= low + EdgeSpan(low, a.scale)
    <3>1. low <= place(i) /\ place(i) <= high /\ place(i) \in Int
      BY <1>4, <1>8, <1>12, <2>1, <2>2
    <3> QED BY <1>5, <1>10, <1>12, <3>1
  <2>3. low + EdgeSpan(low, a.scale) \in Int /\ low < low + EdgeSpan(low, a.scale)
    BY <1>5, <1>10, <1>12
  <2> QED BY <1>4, <1>9, <1>10, <1>12, <2>2, <2>3 DEF drawn, place
<1>13. CASE ~(low < high) /\ a.min = Unlimited /\ a.max # Unlimited
  <2>1. low = auto.low
    BY <1>5, <1>13
  <2>2. ASSUME NEW i \in Drawn, WithinBounds(drawn(i), a)
        PROVE  high - EdgeSpan(high, a.scale) <= place(i) /\ place(i) <= high
    <3>1. low <= place(i) /\ place(i) <= high /\ place(i) \in Int
      BY <1>4, <1>8, <1>13, <2>1, <2>2
    <3> QED BY <1>6, <1>10, <1>13, <3>1
  <2>3. high - EdgeSpan(high, a.scale) \in Int /\ high - EdgeSpan(high, a.scale) < high
    BY <1>6, <1>10, <1>13
  <2> QED BY <1>4, <1>9, <1>10, <1>13, <2>2, <2>3 DEF drawn, place
<1>14. CASE ~(low < high) /\ a.min = Unlimited /\ a.max = Unlimited
  BY <1>2, <1>5, <1>6, <1>14
<1>15. CASE ~(low < high) /\ a.min # Unlimited /\ a.max # Unlimited
  BY <1>4, <1>7, <1>8, <1>9, <1>10, <1>15 DEF drawn, place
<1> QED BY <1>11, <1>12, <1>13, <1>14, <1>15

LEMMA SpecForm == PlotSpec => []PlotInv
  BY InitForm, NextForm, PTL DEF PlotSpec

LEMMA FormDeclared == PlotInv => PlotsDeclared
<1> SUFFICES ASSUME PlotInv PROVE PlotsDeclared
  OBVIOUS
<1>1. ReadAxis(X, DefaultX) = X
  BY AxisStable, PlotAssumption DEF X, PlotInv
<1>2. ReadAxis(Y, DefaultY) = Y
  BY AxisStable, PlotAssumption DEF Y, PlotInv
<1>3. \A a \in {X, Y} : ~AxisRefused(a) /\ (RangeRefused(a) <=> LimitsMerge(a))
  BY AxesRead, DomainHolds DEF Axis, RangeRefused
<1> QED BY <1>1, <1>2, <1>3 DEF PlotsDeclared, Refused, Controls

(* A form a reader sends is declared without an error, unless its limits   *)
(* have one logarithm, and it is read back as it was.                      *)
THEOREM EveryPlotDeclared == PlotSpec => []PlotsDeclared
BY SpecForm, FormDeclared, PTL

-----------------------------------------------------------------------------
(* The points.                                                             *)

LEMMA OmissionReasons ==
  ASSUME NEW i
  PROVE  (Omission(i) = "none") <=> (i \in Drawn /\ InLimits(rows[i]))
<1> DEFINE unreported == \E a \in {X, Y} : Value[rows[i]][a.field] = NoValue
           refused == i \notin Drawn /\ \A a \in {X, Y} : Value[rows[i]][a.field] # NoValue
           outside == i \in Drawn /\ ~InLimits(rows[i])
<1>1. i \in Drawn => ~unreported
  BY DEF Drawn, Drawable
<1>2. refused <=> i \notin Drawn /\ ~unreported
  OBVIOUS
<1>3. Omission(i) = CASE unreported -> "null"
                      [] refused -> "nonpositive"
                      [] outside -> "outside"
                      [] OTHER -> "none"
  BY DEF Omission
<1> HIDE DEF unreported, refused
<1>4. CASE unreported
  <2>1. ~refused /\ ~outside
    BY <1>1, <1>2, <1>4
  <2> QED BY <1>1, <1>3, <1>4, <2>1
<1>5. CASE refused
  BY <1>2, <1>3, <1>5
<1>6. CASE outside
  BY <1>1, <1>2, <1>3, <1>6
<1>7. CASE ~unreported /\ ~refused /\ ~outside
  BY <1>2, <1>3, <1>7
<1> QED BY <1>4, <1>5, <1>6, <1>7

(* A whisker that contains its point still does when it is cut to the frame. *)
LEMMA WhiskersReach ==
  ASSUME PlotInv, NEW a \in {X, Y}, NEW i \in Drawn, ShowsUncertainty,
         WithinBounds(Value[rows[i]][a.field], a),
         NEW v \in StoredInterval(rows[i], a), NEW w \in StoredInterval(rows[i], a),
         v <= Value[rows[i]][a.field], Value[rows[i]][a.field] <= w
  PROVE  LET t == Transform(Value[rows[i]][a.field], a.scale)
         IN  \E low, high \in IntervalDrawn(rows[i], a) : low <= t /\ t <= high
<1> DEFINE x == Value[rows[i]][a.field]
           t == Transform(x, a.scale)
           range == Domain(a)
           cut(u) == Clamped(Transform(u, a.scale), range)
<1>1. a.scale \in {"linear", "log"} /\ Placeable(x, a.scale)
      /\ Placeable(v, a.scale) /\ Placeable(w, a.scale)
  BY AxesRead, DrawnPlaceable DEF Axis
<1>2. /\ t \in Int /\ Transform(v, a.scale) \in Int /\ Transform(w, a.scale) \in Int
      /\ Transform(v, a.scale) <= t /\ t <= Transform(w, a.scale)
  BY <1>1, TransformIncreases
<1>3. /\ range.low \in Int /\ range.high \in Int /\ range.low <= t /\ t <= range.high
  BY DomainHolds
<1>4. cut(v) <= t
  BY <1>2, <1>3 DEF Clamped
<1>5. t <= cut(w)
  BY <1>2, <1>3 DEF Clamped
<1>6. cut(v) \in IntervalDrawn(rows[i], a) /\ cut(w) \in IntervalDrawn(rows[i], a)
  BY DEF IntervalDrawn
<1> HIDE DEF cut
<1> QED BY <1>4, <1>5, <1>6

(* Every result of the page is a point in the frame, in the order of the   *)
(* page and with its whiskers, or is left out for one reason: for all      *)
(* numbers, intervals, pages of results and limits of the axes.            *)
THEOREM PointsAreThePage == PlotSpec => []PointsShowPage
<1>1. PlotInv => PointsShowPage
  <2> SUFFICES ASSUME PlotInv PROVE PointsShowPage
    OBVIOUS
  <2> DEFINE S == {i \in Drawn : InLimits(rows[i])}
             n == Cardinality(S)
  <2>1. Points = InOrder(S)
    BY DEF Points
  <2>2. IsFiniteSet(S) /\ S \subseteq DOMAIN rows /\ DOMAIN rows \subseteq Int
    <3>1. S \in SUBSET Drawn
      OBVIOUS
    <3>2. Drawn \subseteq DOMAIN rows /\ DOMAIN rows \subseteq Int
      BY DEF Drawn, PlotInv
    <3> HIDE DEF S
    <3> QED BY <3>1, <3>2, DrawnFinite, FS_Subset
  <2>3. /\ n \in Nat /\ DOMAIN Points = 1..n
        /\ \A k \in 1..n : Points[k] \in S
        /\ \A s \in S : \E k \in 1..n : Points[k] = s
        /\ \A j, k \in 1..n : j < k => Points[j] < Points[k]
    <3> HIDE DEF S
    <3>1. S \subseteq Int
      BY <2>2
    <3> QED BY <2>1, <2>2, <3>1, InOrderLists
  <2>4. \A i \in DOMAIN rows :
          (Omission(i) = "none") <=> (\E k \in DOMAIN Points : Points[k] = i)
    <3>1. \A i : Omission(i) = "none" <=> i \in S
      BY OmissionReasons
    <3> HIDE DEF S
    <3> QED BY <2>3, <3>1
  <2>5. ASSUME NEW k \in DOMAIN Points, NEW a \in {X, Y}
        PROVE  LET i == Points[k]
                   v == Value[rows[i]][a.field]
                   t == Transform(v, a.scale)
               IN  /\ Domain(a).low <= t /\ t <= Domain(a).high
                   /\ (\E u, w \in StoredInterval(rows[i], a) : u <= v /\ v <= w)
                      /\ ShowsUncertainty
                      => \E u, w \in IntervalDrawn(rows[i], a) : u <= t /\ t <= w
    <3> DEFINE i == Points[k]
    <3>1. i \in Drawn /\ InLimits(rows[i])
      BY <2>3
    <3> HIDE DEF i
    <3>2. WithinBounds(Value[rows[i]][a.field], a)
      BY <3>1 DEF InLimits
    <3>3. /\ Domain(a).low <= Transform(Value[rows[i]][a.field], a.scale)
          /\ Transform(Value[rows[i]][a.field], a.scale) <= Domain(a).high
      BY <3>1, <3>2, DomainHolds
    <3>4. ASSUME ShowsUncertainty, NEW u \in StoredInterval(rows[i], a),
                 NEW w \in StoredInterval(rows[i], a),
                 u <= Value[rows[i]][a.field], Value[rows[i]][a.field] <= w
          PROVE  LET t == Transform(Value[rows[i]][a.field], a.scale)
                 IN  \E low, high \in IntervalDrawn(rows[i], a) : low <= t /\ t <= high
      BY <3>1, <3>2, <3>4, WhiskersReach
    <3> QED BY <3>3, <3>4 DEF i
  <2> HIDE DEF n
  <2> QED BY <2>3, <2>4, <2>5 DEF PointsShowPage
<1> QED BY <1>1, SpecForm, PTL

-----------------------------------------------------------------------------
(* Identities: both tables keep their rows with stored accounts, and only *)
(* a first sync that overlaps another one hands a projection over.         *)

LEMMA InitTypeOK == IdentitiesInit => IdentitiesTypeOK
BY IdentitiesAssumption DEF IdentitiesInit, IdentitiesTypeOK, Idle, Request, Steps

(* What a request in the middle of its work knows.                         *)
LEMMA BusyRequest ==
  ASSUME IdentitiesTypeOK
  PROVE  \A t \in Requests :
           request[t].step \notin {"idle", "signup", "joining"}
             => /\ request[t].account \in accounts /\ request[t].account # Nobody
                /\ request[t].identity \in Identities
BY IdentitiesAssumption DEF IdentitiesTypeOK

(* Steps of requests that work for a stored account, or for none yet.      *)
LEMMA BecomeTypeOK ==
  ASSUME IdentitiesTypeOK, accounts' = accounts,
         social' \in [Identities -> accounts \cup {Nobody}],
         external' \in [Identities -> accounts \cup {Nobody}],
         NEW t \in Requests, NEW step \in Steps \ {"idle", "joining"}, NEW i \in Identities,
         NEW a \in accounts \cup {Nobody},
         a = Nobody <=> step = "signup",
         Become(t, step, a, i)
  PROVE  IdentitiesTypeOK'
<1>1. \A u \in Requests :
        request'[u] = IF u = t THEN [step |-> step, account |-> a, identity |-> i]
                               ELSE request[u]
  BY DEF Become, Request, IdentitiesTypeOK
<1>2. request' \in [Requests -> [step : Steps, account : Accounts \cup {Nobody},
                                 identity : Identities \cup {Nobody}]]
  BY DEF Become, Request, IdentitiesTypeOK
<1>3. Nobody \notin accounts
  BY IdentitiesAssumption DEF IdentitiesTypeOK
<1>4. \A u \in Requests :
        /\ request'[u].identity = Nobody <=> request'[u].step = "idle"
        /\ request'[u].account = Nobody <=> request'[u].step \in {"idle", "signup"}
        /\ request'[u].account \in accounts
             <=> request'[u].step \notin {"idle", "signup", "joining"}
  BY <1>1, <1>3, IdentitiesAssumption DEF IdentitiesTypeOK
<1>5. \A u, v \in Requests :
        request'[u].step = "joining" /\ request'[u].account = request'[v].account => u = v
  <2>1. \A u \in Requests : request[u].step = "joining"
          => request[u].account \notin accounts /\ request[u].account # Nobody
    BY DEF IdentitiesTypeOK
  <2> QED BY <1>1, <2>1 DEF IdentitiesTypeOK
<1> QED BY <1>2, <1>4, <1>5 DEF IdentitiesTypeOK

LEMMA EndTypeOK ==
  ASSUME IdentitiesTypeOK, NEW t \in Requests, End(t),
         accounts' = accounts,
         social' \in [Identities -> accounts \cup {Nobody}],
         external' \in [Identities -> accounts \cup {Nobody}]
  PROVE  IdentitiesTypeOK'
<1>1. \A u \in Requests : request'[u] = IF u = t THEN Idle ELSE request[u]
  BY DEF End, IdentitiesTypeOK
<1>2. request' \in [Requests -> [step : Steps, account : Accounts \cup {Nobody},
                                 identity : Identities \cup {Nobody}]]
  BY DEF End, Idle, Request, Steps, IdentitiesTypeOK
<1>3. \A u \in Requests :
        /\ request'[u].identity = Nobody <=> request'[u].step = "idle"
        /\ request'[u].account = Nobody <=> request'[u].step \in {"idle", "signup"}
        /\ request'[u].account \in accounts
             <=> request'[u].step \notin {"idle", "signup", "joining"}
  BY <1>1, IdentitiesAssumption DEF IdentitiesTypeOK, Idle, Request
<1>4. \A u, v \in Requests :
        request'[u].step = "joining" /\ request'[u].account = request'[v].account => u = v
  BY <1>1, <1>3, IdentitiesAssumption DEF IdentitiesTypeOK, Idle, Request
<1> QED BY <1>2, <1>3, <1>4 DEF IdentitiesTypeOK

LEMMA SignUpTypeOK ==
  ASSUME IdentitiesTypeOK, NEW t \in Requests, NEW a \in Accounts, SignUp(t, a)
  PROVE  IdentitiesTypeOK'
<1> DEFINE i == request[t].identity
<1>1. i \in Identities /\ a # Nobody
  BY IdentitiesAssumption DEF IdentitiesTypeOK, SignUp
<1>2. request'[t] = [step |-> "joining", account |-> a, identity |-> i]
  BY DEF SignUp, Become, Request, IdentitiesTypeOK
<1>3. \A u \in Requests \ {t} : request'[u] = request[u]
  BY DEF SignUp, Become, IdentitiesTypeOK
<1>4. request' \in [Requests -> [step : Steps, account : Accounts \cup {Nobody},
                                 identity : Identities \cup {Nobody}]]
  BY <1>1 DEF SignUp, Become, Request, Steps, IdentitiesTypeOK
<1>5. a \notin accounts /\ \A u \in Requests : request[u].account # a
  BY DEF SignUp
<1>6. \A u \in Requests :
        /\ request'[u].identity = Nobody <=> request'[u].step = "idle"
        /\ request'[u].account = Nobody <=> request'[u].step \in {"idle", "signup"}
        /\ request'[u].account \in accounts
             <=> request'[u].step \notin {"idle", "signup", "joining"}
  BY <1>1, <1>2, <1>3, <1>5, IdentitiesAssumption DEF IdentitiesTypeOK
<1>7. \A u, v \in Requests :
        request'[u].step = "joining" /\ request'[u].account = request'[v].account => u = v
  BY <1>2, <1>3, <1>5 DEF IdentitiesTypeOK
<1> QED BY <1>4, <1>6, <1>7 DEF IdentitiesTypeOK, SignUp

LEMMA JoinTypeOK ==
  ASSUME IdentitiesTypeOK, NEW t \in Requests, Join(t)
  PROVE  IdentitiesTypeOK'
<1> DEFINE i == request[t].identity
           a == request[t].account
<1>1. i \in Identities /\ a \in Accounts /\ a # Nobody /\ a \notin accounts
  BY DEF IdentitiesTypeOK, Join
<1>2. /\ accounts' = accounts \cup {a}
      /\ social' = [social EXCEPT ![i] = a]
      /\ external' = [external EXCEPT ![i] = a]
  BY DEF Join
<1>3. /\ social' \in [Identities -> accounts' \cup {Nobody}]
      /\ external' \in [Identities -> accounts' \cup {Nobody}]
      /\ accounts' \subseteq Accounts
  BY <1>1, <1>2 DEF IdentitiesTypeOK
<1>4. request'[t] = [step |-> "login", account |-> a, identity |-> i]
  BY DEF Join, Become, Request, IdentitiesTypeOK
<1>5. \A u \in Requests \ {t} : request'[u] = request[u]
  BY DEF Join, Become, IdentitiesTypeOK
<1>6. request' \in [Requests -> [step : Steps, account : Accounts \cup {Nobody},
                                 identity : Identities \cup {Nobody}]]
  BY <1>1 DEF Join, Become, Request, Steps, IdentitiesTypeOK
<1>7. \A u \in Requests \ {t} : request[u].account # a
  BY DEF IdentitiesTypeOK, Join
<1>8. \A u \in Requests :
        /\ request'[u].identity = Nobody <=> request'[u].step = "idle"
        /\ request'[u].account = Nobody <=> request'[u].step \in {"idle", "signup"}
        /\ request'[u].account \in accounts'
             <=> request'[u].step \notin {"idle", "signup", "joining"}
  BY <1>1, <1>2, <1>4, <1>5, <1>7, IdentitiesAssumption DEF IdentitiesTypeOK
<1>9. \A u, v \in Requests :
        request'[u].step = "joining" /\ request'[u].account = request'[v].account => u = v
  BY <1>4, <1>5, <1>7 DEF IdentitiesTypeOK
<1> HIDE DEF i, a
<1> QED BY <1>3, <1>6, <1>8, <1>9 DEF IdentitiesTypeOK

LEMMA NextTypeOK ==
  ASSUME IdentitiesTypeOK, [IdentitiesNext]_identityVars
  PROVE  IdentitiesTypeOK'
<1>1. ASSUME NEW t \in Requests, Authenticated(t) PROVE IdentitiesTypeOK'
  <2>2. CASE End(t)
    BY <1>1, <2>2, EndTypeOK DEF Authenticated, IdentitiesTypeOK
  <2>3. CASE Become(t, "sync", request[t].account, request[t].identity)
    BY <1>1, BusyRequest, <2>3, BecomeTypeOK DEF Authenticated, Steps, IdentitiesTypeOK
  <2> QED BY <1>1, <2>2, <2>3 DEF Authenticated
<1>2. ASSUME NEW t \in Requests, InsertSocial(t) PROVE IdentitiesTypeOK'
  <2>1. social' \in [Identities -> accounts \cup {Nobody}]
    BY <1>2, BusyRequest DEF InsertSocial, IdentitiesTypeOK
  <2> QED BY <1>2, BusyRequest, <2>1, BecomeTypeOK DEF InsertSocial, Steps, IdentitiesTypeOK
<1>3. ASSUME NEW t \in Requests, SyncCheck(t) PROVE IdentitiesTypeOK'
  <2>1. PICK step \in {"update", "create"} :
          Become(t, step, request[t].account, request[t].identity)
    BY <1>3 DEF SyncCheck
  <2> QED BY <1>3, BusyRequest, <2>1, BecomeTypeOK DEF SyncCheck, Steps, IdentitiesTypeOK
<1>4. ASSUME NEW t \in Requests, SyncWrite(t) PROVE IdentitiesTypeOK'
  <2>1. external' \in [Identities -> accounts \cup {Nobody}]
    BY <1>4, BusyRequest DEF SyncWrite, IdentitiesTypeOK
  <2> QED BY <1>4, <2>1, EndTypeOK DEF SyncWrite, IdentitiesTypeOK
<1>5. ASSUME NEW t \in Requests, DeleteSocial(t) PROVE IdentitiesTypeOK'
  <2>1. social' \in [Identities -> accounts \cup {Nobody}]
    BY <1>5 DEF DeleteSocial, IdentitiesTypeOK
  <2> QED BY <1>5, BusyRequest, <2>1, BecomeTypeOK DEF DeleteSocial, Steps, IdentitiesTypeOK
<1>6. ASSUME NEW t \in Requests, RemoveExternal(t) PROVE IdentitiesTypeOK'
  <2>1. external' \in [Identities -> accounts \cup {Nobody}]
    BY <1>6 DEF RemoveExternal, IdentitiesTypeOK
  <2> QED BY <1>6, <2>1, EndTypeOK DEF RemoveExternal, IdentitiesTypeOK
<1>7. ASSUME NEW t \in Requests, Abandon(t) PROVE IdentitiesTypeOK'
  BY <1>7, EndTypeOK DEF Abandon, IdentitiesTypeOK
<1>8. ASSUME NEW t \in Requests, NEW a \in Accounts, SignUp(t, a) PROVE IdentitiesTypeOK'
  BY <1>8, SignUpTypeOK
<1>9. ASSUME NEW t \in Requests, Join(t) PROVE IdentitiesTypeOK'
  BY <1>9, JoinTypeOK
<1>10. ASSUME NEW t \in Requests, NEW i \in Identities, LoginCallback(t, i)
       PROVE  IdentitiesTypeOK'
  <2>1. social[i] \in accounts \cup {Nobody}
    BY DEF IdentitiesTypeOK
  <2>2. PICK step \in {"signup", "login"} :
          Become(t, step, social[i], i) /\ (step = "signup" <=> social[i] = Nobody)
    BY <1>10 DEF LoginCallback
  <2> QED BY <1>10, <2>1, <2>2, BecomeTypeOK DEF LoginCallback, Steps, IdentitiesTypeOK
<1>11. ASSUME NEW t \in Requests, NEW a \in Accounts, NEW i \in Identities,
              ConnectCallback(t, a, i) \/ DisconnectForm(t, a, i)
       PROVE  IdentitiesTypeOK'
  <2>1. a # Nobody
    BY IdentitiesAssumption
  <2> QED BY <1>11, <2>1, BecomeTypeOK
          DEF ConnectCallback, DisconnectForm, Steps, IdentitiesTypeOK
<1>12. ASSUME NEW a \in Accounts, NEW i \in Identities, Unlink(a, i)
       PROVE  IdentitiesTypeOK'
  BY <1>12 DEF Unlink, IdentitiesTypeOK
<1>13. CASE UNCHANGED identityVars
  BY <1>13 DEF identityVars, IdentitiesTypeOK
<1> QED
  BY <1>1, <1>2, <1>3, <1>4, <1>5, <1>6, <1>7, <1>8, <1>9, <1>10, <1>11, <1>12, <1>13
  DEF IdentitiesNext

(* The rows of both tables belong to stored accounts, and a request holds  *)
(* the account it works for.                                               *)
THEOREM TypeCorrect == IdentitiesSpec => []IdentitiesTypeOK
BY InitTypeOK, NextTypeOK, PTL DEF IdentitiesSpec

(***************************************************************************)
(* The row locks: what a sync has found stays.                             *)
(***************************************************************************)

LEMMA NextFound ==
  ASSUME IdentitiesTypeOK, FoundStaysOwned, [IdentitiesNext]_identityVars
  PROVE  FoundStaysOwned'
<1> DEFINE StillOwned(t) == request[t].step = "update"
                              => external[request[t].identity] = request[t].account
<1>0. \A t \in Requests : StillOwned(t)
  BY DEF FoundStaysOwned
<1>1. ASSUME NEW t \in Requests, SyncCheck(t), NEW u \in Requests PROVE StillOwned(u)'
  <2>1. CASE u = t
    BY <1>1, <2>1 DEF SyncCheck, Become, Request, IdentitiesTypeOK
  <2>2. CASE u # t
    BY <1>0, <1>1, <2>2 DEF SyncCheck, Become, IdentitiesTypeOK
  <2> QED BY <2>1, <2>2
<1>2. ASSUME NEW t \in Requests, SyncWrite(t), NEW u \in Requests PROVE StillOwned(u)'
  <2>1. CASE u = t
    BY <1>2, <2>1 DEF SyncWrite, End, Idle, Request, IdentitiesTypeOK
  <2>2. CASE u # t
    BY <1>0, <1>2, <2>2 DEF SyncWrite, End, Within, IdentitiesTypeOK
  <2> QED BY <2>1, <2>2
<1>3. ASSUME NEW t \in Requests, Join(t), NEW u \in Requests PROVE StillOwned(u)'
  <2>1. CASE u = t
    BY <1>3, <2>1 DEF Join, Become, Request, IdentitiesTypeOK
  <2>2. CASE u # t
    BY <1>0, <1>3, <2>2 DEF Join, Become, RowLocked, Within, IdentitiesTypeOK
  <2> QED BY <2>1, <2>2
<1>4. ASSUME NEW t \in Requests, RemoveExternal(t), NEW u \in Requests PROVE StillOwned(u)'
  <2>1. CASE u = t
    BY <1>4, <2>1 DEF RemoveExternal, End, Idle, Request, IdentitiesTypeOK
  <2>2. CASE u # t
    BY <1>0, <1>4, <2>2 DEF RemoveExternal, End, RowLocked, Within, IdentitiesTypeOK
  <2> QED BY <2>1, <2>2
<1>5. ASSUME NEW a \in Accounts, NEW i \in Identities, Unlink(a, i),
             NEW u \in Requests
      PROVE  StillOwned(u)'
  BY <1>0, <1>5 DEF Unlink, AccountLocked, IdentitiesTypeOK
<1>6. ASSUME NEW t \in Requests,
             Authenticated(t) \/ InsertSocial(t) \/ DeleteSocial(t) \/ Abandon(t),
             NEW u \in Requests
      PROVE  StillOwned(u)'
  <2>1. external' = external
    BY <1>6 DEF Authenticated, InsertSocial, DeleteSocial, Abandon
  <2>2. u # t => request'[u] = request[u]
    BY <1>6 DEF Authenticated, InsertSocial, DeleteSocial, Abandon, Become, End,
                IdentitiesTypeOK
  <2>3. request'[t].step # "update"
    BY <1>6 DEF Authenticated, InsertSocial, DeleteSocial, Abandon, Become, End, Idle,
                Request, IdentitiesTypeOK
  <2> QED BY <1>0, <2>1, <2>2, <2>3
<1>7. ASSUME NEW t \in Requests, NEW a \in Accounts, SignUp(t, a), NEW u \in Requests
      PROVE  StillOwned(u)'
  BY <1>0, <1>7 DEF SignUp, Become, Request, IdentitiesTypeOK
<1>8. ASSUME NEW t \in Requests, NEW i \in Identities, LoginCallback(t, i),
             NEW u \in Requests
      PROVE  StillOwned(u)'
  BY <1>0, <1>8 DEF LoginCallback, Become, Request, IdentitiesTypeOK
<1>9. ASSUME NEW t \in Requests, NEW a \in Accounts, NEW i \in Identities,
              ConnectCallback(t, a, i) \/ DisconnectForm(t, a, i),
              NEW u \in Requests
       PROVE  StillOwned(u)'
  BY <1>0, <1>9 DEF ConnectCallback, DisconnectForm, Become, Request, IdentitiesTypeOK
<1>10. CASE UNCHANGED identityVars
  BY <1>10 DEF identityVars, FoundStaysOwned
<1>11. ASSUME IdentitiesNext, NEW u \in Requests PROVE StillOwned(u)'
  <2> HIDE DEF StillOwned
  <2> QED
    BY <1>1, <1>2, <1>3, <1>4, <1>5, <1>6, <1>7, <1>8, <1>9, <1>11 DEF IdentitiesNext
<1> QED BY <1>10, <1>11 DEF FoundStaysOwned

(* Check and write of a sync that found its projection are one: the row    *)
(* stays its account's in between.                                         *)
THEOREM LockedRowsStay == IdentitiesSpec => []FoundStaysOwned
<1>1. IdentitiesInit => FoundStaysOwned
  BY DEF IdentitiesInit, FoundStaysOwned, Idle, Request
<1> QED BY <1>1, NextFound, TypeCorrect, PTL DEF IdentitiesSpec

(***************************************************************************)
(* The tables of one step, whatever the step is.                           *)
(***************************************************************************)

Unmoved(i) ==
  /\ social[i] # Nobody => social'[i] \in {social[i], Nobody}
  /\ external[i] # Nobody =>
       external'[i] \in {external[i], Nobody}
                        \cup {request[t].account : t \in Within({"create", "joining"}, i)}

LEMMA StepUnmoved ==
  ASSUME IdentitiesTypeOK, FoundStaysOwned, [IdentitiesNext]_identityVars,
         NEW i \in Identities
  PROVE  Unmoved(i)
<1>1. ASSUME NEW t \in Requests, InsertSocial(t) PROVE Unmoved(i)
  BY <1>1 DEF InsertSocial, IdentitiesTypeOK, Unmoved
<1>2. ASSUME NEW t \in Requests, SyncWrite(t) PROVE Unmoved(i)
  <2>1. social' = social
    BY <1>2 DEF SyncWrite
  <2>2. CASE request[t].identity # i
    BY <1>2, <2>1, <2>2 DEF SyncWrite, IdentitiesTypeOK, Unmoved
  <2>3. CASE request[t].identity = i /\ request[t].step = "update"
    BY <1>2, <2>1, <2>3 DEF SyncWrite, FoundStaysOwned, IdentitiesTypeOK, Unmoved
  <2>4. CASE request[t].identity = i /\ request[t].step = "create"
    BY <1>2, <2>1, <2>4 DEF SyncWrite, Within, IdentitiesTypeOK, Unmoved
  <2> QED BY <1>2, <2>2, <2>3, <2>4 DEF SyncWrite
<1>3. ASSUME NEW t \in Requests, DeleteSocial(t) PROVE Unmoved(i)
  BY <1>3 DEF DeleteSocial, IdentitiesTypeOK, Unmoved
<1>4. ASSUME NEW t \in Requests, RemoveExternal(t) PROVE Unmoved(i)
  BY <1>4 DEF RemoveExternal, IdentitiesTypeOK, Unmoved
<1>5. ASSUME NEW t \in Requests, Join(t) PROVE Unmoved(i)
  BY <1>5 DEF Join, Within, IdentitiesTypeOK, Unmoved
<1>6. ASSUME NEW a \in Accounts, NEW j \in Identities, Unlink(a, j) PROVE Unmoved(i)
  BY <1>6 DEF Unlink, IdentitiesTypeOK, Unmoved
<1>7. CASE UNCHANGED <<social, external>>
  BY <1>7 DEF Unmoved
<1> QED
  BY <1>1, <1>2, <1>3, <1>4, <1>5, <1>6, <1>7
  DEF IdentitiesNext, identityVars, Authenticated, SyncCheck, SignUp, Abandon,
      LoginCallback, ConnectCallback, DisconnectForm

(* No SocialAccount is handed over, and a projection only by a first sync  *)
(* or a sign-up that looked before the projection was there.               *)
THEOREM IdentitiesStay == IdentitiesSpec => IdentitiesKeepOwner
<1>1. IdentitiesTypeOK /\ FoundStaysOwned /\ [IdentitiesNext]_identityVars
        => [\A i \in Identities : Unmoved(i)]_identityVars
  BY StepUnmoved
<1>2. [\A i \in Identities : Unmoved(i)]_identityVars
        => [\A i \in Identities :
              /\ social[i] # Nobody => social'[i] \in {social[i], Nobody}
              /\ external[i] # Nobody =>
                   external'[i] \in {external[i], Nobody}
                     \cup {request[t].account : t \in Within({"create", "joining"}, i)}
           ]_identityVars
  BY DEF Unmoved
<1> QED BY <1>1, <1>2, TypeCorrect, LockedRowsStay, PTL DEF IdentitiesSpec, IdentitiesKeepOwner

LEMMA NextOneSubject ==
  ASSUME IdentitiesTypeOK, OneSubjectPerProvider, [IdentitiesNext]_identityVars
  PROVE  OneSubjectPerProvider'
<1>1. ASSUME NEW t \in Requests, SyncWrite(t) PROVE OneSubjectPerProvider'
  BY <1>1 DEF SyncWrite, OtherSubject, IdentitiesTypeOK, OneSubjectPerProvider
<1>2. ASSUME NEW t \in Requests, RemoveExternal(t) PROVE OneSubjectPerProvider'
  BY <1>2 DEF RemoveExternal, IdentitiesTypeOK, OneSubjectPerProvider
<1>3. ASSUME NEW t \in Requests, Join(t) PROVE OneSubjectPerProvider'
  <2>1. \A i \in Identities : external[i] # request[t].account
    BY <1>3 DEF Join, IdentitiesTypeOK
  <2> QED BY <1>3, <2>1 DEF Join, IdentitiesTypeOK, OneSubjectPerProvider
<1>4. ASSUME NEW a \in Accounts, NEW i \in Identities, Unlink(a, i)
      PROVE  OneSubjectPerProvider'
  BY <1>4 DEF Unlink, IdentitiesTypeOK, OneSubjectPerProvider
<1>5. CASE UNCHANGED external
  BY <1>5 DEF OneSubjectPerProvider
<1> QED
  BY <1>1, <1>2, <1>3, <1>4, <1>5
  DEF IdentitiesNext, identityVars, Authenticated, InsertSocial, SyncCheck, SignUp,
      DeleteSocial, Abandon, LoginCallback, ConnectCallback, DisconnectForm

(* An account shows one identity of each provider.                         *)
THEOREM OneSubject == IdentitiesSpec => []OneSubjectPerProvider
<1>1. IdentitiesInit => OneSubjectPerProvider
  BY DEF IdentitiesInit, OneSubjectPerProvider
<1> QED BY <1>1, NextOneSubject, TypeCorrect, PTL DEF IdentitiesSpec

(***************************************************************************)
(* Only a disconnect takes the last SocialAccount away.                    *)
(***************************************************************************)

LEMMA StepLoss ==
  ASSUME IdentitiesTypeOK, [IdentitiesNext]_identityVars, NEW a \in accounts
  PROVE  LossIsDisconnect(a)
<1> DEFINE Disconnects == \E t \in Requests : /\ request[t].step = "disconnect"
                                              /\ request[t].account = a
                                              /\ request'[t].step = "removed"
<1> SUFFICES ASSUME Owned(social, a) # {}, Owned(social', a) = {}
             PROVE  Disconnects
  BY DEF LossIsDisconnect
<1>1. PICK i \in Identities : social[i] = a /\ social'[i] # a
  BY DEF Owned
<1>2. a # Nobody
  BY IdentitiesAssumption DEF IdentitiesTypeOK
<1>3. ASSUME NEW t \in Requests, InsertSocial(t) PROVE Disconnects
  BY <1>1, <1>2, <1>3 DEF InsertSocial, IdentitiesTypeOK
<1>4. ASSUME NEW t \in Requests, DeleteSocial(t) PROVE Disconnects
  <2>1. request[t].account = a
    BY <1>1, <1>4 DEF DeleteSocial, IdentitiesTypeOK
  <2>2. request'[t].step = "removed"
    BY <1>4 DEF DeleteSocial, Become, Request, IdentitiesTypeOK
  <2> QED BY <1>4, <2>1, <2>2 DEF DeleteSocial
<1>5. ASSUME NEW t \in Requests, Join(t) PROVE Disconnects
  BY <1>1, <1>2, <1>5 DEF Join, IdentitiesTypeOK
<1>6. ASSUME NEW b \in Accounts, NEW j \in Identities, Unlink(b, j) PROVE Disconnects
  <2>1. j = i /\ b = a
    BY <1>1, <1>2, <1>6 DEF Unlink, IdentitiesTypeOK
  <2>2. PICK k \in Identities \ {i} : social[k] = a
    BY <1>1, <1>6, <2>1 DEF Unlink, Another, Owned
  <2>3. social'[k] = a
    BY <1>6, <2>1, <2>2 DEF Unlink, IdentitiesTypeOK
  <2> QED BY <2>3 DEF Owned
<1>7. CASE UNCHANGED social
  BY <1>1, <1>7
<1> QED
  BY <1>3, <1>4, <1>5, <1>6, <1>7
  DEF IdentitiesNext, identityVars, Authenticated, SyncCheck, SyncWrite, SignUp,
      RemoveExternal, Abandon, LoginCallback, ConnectCallback, DisconnectForm

(* The page of the application never takes the last way to sign in away.   *)
THEOREM UnlinkIsSafe == IdentitiesSpec => UnlinkKeepsSignIn
<1>1. IdentitiesTypeOK /\ [IdentitiesNext]_identityVars
        => [\A a \in accounts : LossIsDisconnect(a)]_identityVars
  BY StepLoss
<1> QED BY <1>1, TypeCorrect, PTL DEF IdentitiesSpec, UnlinkKeepsSignIn
=============================================================================

------------------------------ MODULE MCPages ------------------------------
(* A user fills in one of three pages: the editor of a candidate, the      *)
(* dialog that searches records, or the filters of a table.                *)
EXTENDS SubmissionForms, RecordPicker, FilterGrid, TLC

CONSTANTS p1, p2, p3

VARIABLE page   \* the one of the three that is in use

-----------------------------------------------------------------------------
(* The editor: a result with two evaluators, or a circuit.  For every check *)
(* of the forms there is a draft that meets it barely and one that barely   *)
(* does not, for every column a number at its limit and beyond.             *)

MCEvaluatorOf == 1 :> "e1" @@ 2 :> "e1" @@ 3 :> "e2"

\* Total, successful, failed, timeouts, errors, probability and latency shots.
ShotCounts ==
  {<<3, 1, 1, 1, 0, 2, 2>>, <<3, 1, 1, 0, 1, 3, 0>>, <<3, 1, 1, 0, 1, 0, 3>>,
   <<3, 1, 1, 0, 0, 1, 1>>, <<0, 0, 0, 0, 0, 0, 0>>, <<9, 9, 0, 0, 0, 9, 0>>,
   <<10, 9, 0, 1, 0, 0, 9>>}

MinusZero(style) == [number |-> 0, minus |-> TRUE, style |-> style]

Durations == {Null, Decimal(0, "plain"), MinusZero("plain"), MinusZero("number"),
              Decimal(-4, "number"), Decimal(4, "number"), Decimal(8, "exponent"),
              Decimal(8, "plain"), Decimal(9, "plain"), Decimal(400, "plain")}

Score(d, v, c, n) == [definition |-> d, value |-> v, confidence |-> c, samples |-> n]

Plain(x) == Decimal(x, "plain")

Entered ==
  {<<>>,
   <<Score(1, Decimal(6, "exponent"), Null, Null)>>,
   <<Score(2, Plain(-6), Plain(10), 9), Score(1, Plain(5), Plain(30), 0)>>,
   <<Score(1, Plain(6), Null, Null), Score(1, Plain(7), Null, Null)>>,
   <<Score(2, Decimal(8, "exponent"), Plain(20), Null)>>,
   <<Score(1, Plain(-4), Null, 0), Score(2, Plain(0), Plain(12), Null)>>,
   <<Score(1, MinusZero("number"), Null, Null)>>,
   <<Score(3, Decimal(4, "number"), Plain(2), 10)>>,
   <<Score(3, Plain(0), Plain(1), Null)>>,
   <<Score(3, Plain(0), Plain(37), Null)>>,
   <<Score(3, Plain(0), Plain(38), Null)>>,
   <<Score(1, Plain(197), Null, Null)>>,
   <<Score(1, Plain(198), Plain(40), Null)>>,
   <<Score(2, Plain(-197), Null, Null)>>}

ResultDraft(e, c, d, s) ==
  [kind |-> "result", evaluator |-> e, total |-> c[1], successful |-> c[2],
   failed |-> c[3], timeouts |-> c[4], errors |-> c[5], probability |-> c[6],
   latency |-> c[7], duration |-> d, scores |-> s]

MCDrafts ==
  {ResultDraft(e, c, d, <<Score(1, Decimal(6, "exponent"), Null, Null)>>) :
     e \in {"e1", "e2"}, c \in ShotCounts, d \in {Null, Decimal(4, "number")}}
  \cup {ResultDraft(e, <<3, 1, 1, 1, 0, 2, 2>>, d, s) :
          e \in {"e1", "e2"}, d \in Durations, s \in Entered}
  \cup {[kind |-> "circuit", css |-> css, xOnly |-> x, zOnly |-> z,
         detectors |-> n, distance |-> m] :
          css, x, z \in BOOLEAN, n \in {0, 1, 10}, m \in {Null, 0, 1, 6}}
-----------------------------------------------------------------------------
(* The dialog: three records, of which some match.                          *)
MCFound == "" :> <<p1, p2, p3>> @@ "a" :> <<p2>> @@ "z" :> <<>>

-----------------------------------------------------------------------------
MCVars == <<page, formVars, pickerVars, pageVars>>

MCInit ==
  /\ page \in {"editor", "dialog", "filters"}
  /\ FormsInit
  /\ \E initial \in SUBSET Pickable :
       PickerInit(initial) /\ (page # "dialog" => initial = {})
  /\ PageInit /\ (page # "filters" => autoquery)

MCNext ==
  /\ UNCHANGED page
  /\ \/ page = "editor" /\ FormsNext /\ UNCHANGED <<pickerVars, pageVars>>
     \/ page = "dialog" /\ PickerNext /\ UNCHANGED <<formVars, pageVars>>
     \/ page = "filters" /\ PageNext /\ UNCHANGED <<formVars, pickerVars>>

MCSpec == MCInit /\ [][MCNext]_MCVars /\ WF_pageVars(SubmitDue) /\ WF_pageVars(Load)
=============================================================================

----------------------------- MODULE MCExplorer -----------------------------
(* Four results with four public fields, and a reader of a page without a  *)
(* column for the identifier.                                              *)
EXTENDS Explorer, ResultPlots, TLC

CONSTANTS r1, r2, r3, r4

MCResults == {r1, r2, r3, r4}
MCWords == STRING
MCFieldNames == {"id", "machine_slug", "shots_total", "score"}
MCKind == [id |-> "uuid", machine_slug |-> "string", shots_total |-> "integer", score |-> "decimal"]
MCNullableFields == {"machine_slug", "score"}
MCMetricFields == {"score"}
MCRow == (r1 :> [id |-> 1, machine_slug |-> 1, shots_total |-> 2, score |-> Null]) @@
         (r2 :> [id |-> 2, machine_slug |-> Null, shots_total |-> 2, score |-> 1]) @@
         (r3 :> [id |-> 3, machine_slug |-> 2, shots_total |-> 1, score |-> 2]) @@
         (r4 :> [id |-> 4, machine_slug |-> Null, shots_total |-> 1, score |-> Null])
MCSubstrings == {<<1, 1>>, <<2, 2>>, <<2, 1>>}
MCAmpersands == {3}
MCDefaultSelect == <<"id", "shots_total">>
MCDefaultOrder == <<<<"shots_total", "desc">>>>

MCFacts ==
  (r1 :> [words |-> {"w"}, tags |-> {"t"}, noise |-> "si1000", css |-> TRUE,
          machine |-> "cpu", distance |-> 3]) @@
  (r2 :> [words |-> {}, tags |-> {"t", "u"}, noise |-> "uniform", css |-> TRUE,
          machine |-> Null, distance |-> Null]) @@
  (r3 :> [words |-> {"w"}, tags |-> {"u"}, noise |-> "si1000", css |-> FALSE,
          machine |-> "gpu", distance |-> 5]) @@
  (r4 :> [words |-> {}, tags |-> {}, noise |-> "uniform", css |-> FALSE,
          machine |-> Null, distance |-> 5])
MCTableFields == MCFieldNames
MCColumns == MCFieldNames \ {"id"}
MCNarrowView == {"shots_total", "machine_slug"}
MCDefaultSort == <<<<"score", "desc">>>>
MCDefaultDirection == [f \in MCFieldNames |-> IF f = "shots_total" THEN "desc" ELSE "asc"]

MCFilterSets ==
  {NoFilters,
   [NoFilters EXCEPT !.q = "w", !.tags = {"t", "u"}, !.match = "any", !.machine = "cpu"],
   [NoFilters EXCEPT !.noise = {"uniform"}, !.css = "yes", !.machine = "unreported"]}

Shots(op, v) == <<Word("shots_total"), Word(op), Num(v)>>
Machine(op, v) == <<Word("machine_slug"), Word(op), Str(v)>>
Score == <<Word("score"), Word("lt"), Num(2)>>
IsUnset == <<Word("machine_slug"), Word("eq"), Word("null")>>
MCChunks ==
  {<<Word("and")>>, <<Word("or")>>, <<Word("not")>>, <<Close>>, Score, IsUnset, Machine("ne", 1),
   <<Word("contains"), Open, Word("machine_slug"), Comma, Str(1), Close>>,
   Parenthesised(Shots("ge", 2) \o <<Word("or")>> \o Machine("ne", 1)),
   Parenthesised(<<Word("not")>> \o IsUnset),
   Parenthesised(Score \o <<Word("and")>> \o Shots("ge", 2))}

MCScripts ==
  {[Options(Machine("ne", 1), <<<<"score">>>>) EXCEPT !.top = 2],
   [Options(<<>>, <<<<"shots_total", "desc">>, <<"machine_slug">>>>)
      EXCEPT !.skip = 1, !.top = 2, !.select = <<"score", "id", "score">>],
   Options(<<>>, <<<<"id", "desc">>>>),
   Options(Machine("eq", 3), <<>>),
   Options(<<Word("machine_slug"), Word("lt"), Word("null")>>, <<>>),
   Options(<<>>, <<<<"score">>, <<"score", "desc">>>>)}

MCDeepLinks ==
  {Blank,
   [Blank EXCEPT !.direct = [Options(<<>>, <<<<"machine_slug", "desc">>>>) EXCEPT !.count = "true"]],
   [Blank EXCEPT !.direct = [Options(<<>>, <<>>) EXCEPT !.top = MaxPageSize + 1],
                 !.filters.low = 4, !.sort = <<<<"shots_total", "asc">>>>],
   [Blank EXCEPT !.filters.machine = "quantum", !.filters.match = "some",
                 !.filters.tags = {"t", "u"}, !.filters.low = -1,
                 !.sort = <<<<"id", "asc">>, <<"shots_total", "desc">>,
                            <<"shots_total", "asc">>>>],
   [Blank EXCEPT !.filters.noise = {"unknown"}],
   [Blank EXCEPT !.filters.noise = {"unknown", "uniform"},
                 !.odata = Options(Machine("eq", 1), <<>>)]}
-----------------------------------------------------------------------------
(* The plot of the results, while the page stays as it is.                 *)

MCValue ==
  (r1 :> [time |-> 20, ler |-> 5]) @@ (r2 :> [time |-> 3000, ler |-> 0]) @@
  (r3 :> [time |-> 20, ler |-> 7]) @@ (r4 :> [time |-> NoValue, ler |-> 60])
Unstored == [lower |-> NoValue, upper |-> NoValue]
MCInterval ==
  (r1 :> [time |-> Unstored, ler |-> [lower |-> 2, upper |-> 9]]) @@
  (r2 :> [time |-> Unstored, ler |-> [lower |-> 0, upper |-> 40]]) @@
  (r3 :> [time |-> Unstored, ler |-> [lower |-> 9, upper |-> 6]]) @@
  (r4 :> [time |-> Unstored, ler |-> [lower |-> 50, upper |-> NoValue]])
\* Numbers with one significant digit, and one too close to another to have a
\* logarithm of its own.
MCLogarithm ==
  [v \in {d * Power[k] : d \in 1..9, k \in 0..4} |->
     LET k == CHOOSE k \in 0..4 : v \in {d * Power[k] : d \in 1..9}
     IN  k * Unit + Digits[v \div Power[k]]] @@ (2001 :> 3 * Unit + Digits[2])
MCPopulations == {<<>>, <<r4, r1>>, <<r2, r3, r4, r1>>}
MCAxisForms ==
  {[field |-> f, scale |-> s, min |-> low, max |-> high] :
     f \in {"time", "ler"}, s \in {"linear", "log"},
     low \in {Unlimited, 4, 2000}, high \in {Unlimited, 6}} \cup
  {[field |-> "words", scale |-> "cubic", min |-> NotANumber, max |-> 6],
   [field |-> "ler", scale |-> "log", min |-> 0, max |-> Unlimited],
   [field |-> "time", scale |-> "log", min |-> 2000, max |-> 2001]}
MCStyles == {"none", "dots"}

MCInit == Init /\ PlotInit
MCNext ==
  \/ Next /\ plotForm.style = "bars" /\ plotForm.x = Unset(DefaultX) /\ plotForm.y = Unset(DefaultY)
     /\ rows = <<>> /\ UNCHANGED plotVars
  \/ PlotNext /\ url = Blank /\ box = <<>> /\ UNCHANGED vars
MCSpec == MCInit /\ [][MCNext]_<<vars, plotVars>>
=============================================================================

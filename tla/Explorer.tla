------------------------------ MODULE Explorer ------------------------------
(***************************************************************************)
(* A page that lists results, as a reader meets it: what the address of    *)
(* the page means, the forms and headings that lead to the next address,   *)
(* and the machine-readable links beside the rows.                         *)
(*                                                                         *)
(* Everything a page shows is a function of its address, so the address is *)
(* the state; box is the text in the script area of a bare page, where it  *)
(* is edited.  A column is named by its public field.  The results do not  *)
(* change while a reader looks.                                            *)
(***************************************************************************)
EXTENDS ResultQuery

CONSTANTS
  Facts,         \* what the filters look at in each result
  NoiseModels,   \* the noise models with a public record
  Classes,       \* the machine classes
  TableFields,   \* the fields with a table key
  Columns,       \* those with a column on this page, all sortable
  DefaultColumns,  \* those shown unless some are chosen
  NarrowView,    \* a choice of columns
  DefaultSort,   \* the order of the table unless one is given
  DefaultDirection,  \* the direction a column prefers
  KeepsSort,     \* whether the search form carries the sort parameter
  FilterSets,    \* the filters a reader sets
  Chunks,        \* what a reader types at once
  MaxTyped,      \* bound on the tokens typed
  Scripts,       \* the scripts a reader runs
  DeepLinks,     \* the addresses a reader comes from elsewhere with
  MaxSortKeys,   \* bound on the sort keys a reader accumulates
  NoScript

VARIABLES url, box

vars == <<url, box>>

NoFilters == [q |-> "", tags |-> {}, match |-> "all", noise |-> {}, machine |-> "",
              css |-> "", low |-> Absent, high |-> Absent]

Blank == [filters |-> NoFilters, sort |-> <<>>, columns |-> {},
          odata |-> NoScript, last |-> NoScript, direct |-> NoScript]

FilterRecords ==
  [q : Words, tags : SUBSET Words, match : Words, noise : SUBSET Words,
   machine : Words, css : Words, low : Int \cup {Absent}, high : Int \cup {Absent}]

SortKeyLists == Seq(Words \X {"asc", "desc"})

Addresses ==
  [filters : FilterRecords, sort : SortKeyLists, columns : SUBSET Words,
   odata : OptionRecords \cup {NoScript}, last : OptionRecords \cup {NoScript},
   direct : OptionRecords \cup {NoScript}]

ASSUME ExplorerAssumption ==
  /\ Columns \subseteq TableFields /\ TableFields \subseteq FieldNames
  /\ DefaultColumns \subseteq Columns /\ NarrowView \subseteq Columns
  /\ DefaultSort \in Seq(TableFields \X {"asc", "desc"}) \ {<<>>}
  /\ \A i, j \in DOMAIN DefaultSort : DefaultSort[i][1] = DefaultSort[j][1] => i = j
  /\ DefaultDirection \in [FieldNames -> {"asc", "desc"}]
  /\ FilterSets \subseteq FilterRecords /\ DeepLinks \subseteq Addresses
  /\ Chunks \subseteq Seq(Tokens) /\ Scripts \subseteq OptionRecords
  /\ NoScript \notin OptionRecords

-----------------------------------------------------------------------------
(* The filters of an address.                                              *)

\* The service arguments: what is no valid value filters nothing.
FilterState(f) ==
  [f EXCEPT !.match = IF @ \in {"all", "any"} THEN @ ELSE "all",
            !.machine = IF @ \in Classes \cup {"unreported"} THEN @ ELSE "",
            !.low = IF @ # Absent /\ @ < 0 THEN Absent ELSE @,
            !.high = IF @ # Absent /\ @ < 0 THEN Absent ELSE @]

HasTags(f, facts) ==
  \/ f.tags = {}
  \/ f.match = "any" /\ f.tags \cap facts.tags # {}
  \/ f.match = "all" /\ f.tags \subseteq facts.tags

InRange(f, value) ==
  /\ f.low # Absent => value # Null /\ value >= f.low
  /\ f.high # Absent => value # Null /\ value <= f.high

\* public_result_catalogue
Population(f) ==
  {r \in Results :
     LET facts == Facts[r] IN
     /\ f.q = "" \/ f.q \in facts.words
     /\ HasTags(f, facts)
     /\ f.noise = {} \/ facts.noise \in f.noise
     /\ f.css \notin {"yes", "no"} \/ facts.css = (f.css = "yes")
     /\ InRange(f, facts.distance)
     /\ CASE f.machine = "" -> TRUE
          [] f.machine = "unreported" -> facts.machine = Null
          [] OTHER -> facts.machine = f.machine}

\* The page resolves the noise models it filters by.
PageFilters(u) ==
  [FilterState(u.filters) EXCEPT !.noise = @ \cap NoiseModels]

-----------------------------------------------------------------------------
(* The query, the rows and the headings of a page.                         *)

ParseSort(raw) ==
  LET kept == Kept(raw, {i \in DOMAIN raw : /\ raw[i][1] \in Columns
                                            /\ \A j \in 1..(i - 1) : raw[j][1] # raw[i][1]})
  IN  IF kept = <<>> THEN DefaultSort ELSE kept

TableOptions(keys) == [Options(<<>>, keys) EXCEPT !.top = MaxPageSize]

Valid(script) == script # NoScript /\ QueryFault(script) = "none"

Script(u) == IF u.odata # NoScript THEN u.odata ELSE u.direct

\* An invalid script falls back to the last valid one, if the address has it.
QueryOptions(u) ==
  IF Valid(Script(u)) THEN Script(u)
  ELSE IF Script(u) # NoScript /\ Valid(u.last) THEN u.last
  ELSE TableOptions(ParseSort(u.sort))

Query(u) == ParseQuery(QueryOptions(u))

\* The sort keys the headings show: those of a valid script with a table key.
ShownOf(visible, u) == IF Valid(Script(u)) /\ visible # <<>> THEN visible ELSE ParseSort(u.sort)

\* The keys of an order on some fields.
KeysOn(order, fields) == Kept(order, {i \in DOMAIN order : order[i][1] \in fields})

ShownSort(u) == ShownOf(KeysOn(OrderOf(Script(u).orderby), TableFields), u)

VisibleColumns(u) ==
  IF u.columns \cap Columns = {} THEN DefaultColumns ELSE u.columns \cap Columns

\* The marks of the visible headings, in the order of their numbers.
RenderedSort(u) == KeysOn(ShownSort(u), VisibleColumns(u))

HasAmpersand(q) ==
  \E leaf \in Leaves[q.filter] : Kind[leaf.field] = "string" /\ leaf.value \in Ampersands

\* No page: too many table keys, a key without a column, a link cut at "&".
Fails(u) ==
  \/ QueryFault(QueryOptions(u)) # "none"
  \/ \E key \in ToSet(ShownSort(u)) : key[1] \notin Columns
  \/ HasAmpersand(Query(u))

\* Mutant of LastValid: the last script is remembered whatever it says.
LastValidAny(u) == IF Script(u) # NoScript THEN u.odata ELSE u.last

\* What the search form carries as the last valid script.
LastValid(u) == IF Valid(Script(u)) THEN u.odata ELSE u.last

-----------------------------------------------------------------------------
(* The machine-readable answers.                                           *)

\* Mutant of Link: the way tags are matched is no public filter.
LinkWithoutMatch(u) ==
  [filters |-> [u.filters EXCEPT !.match = "all"], direct |-> Canonical(Query(u))]

\* The link of a page: the filters as the address has them and the query.
Link(u) == [filters |-> u.filters, direct |-> Canonical(Query(u))]

\* The pages that a query over population P may be answered with.
Pages(q, P) == {PageOf(q, s) : s \in Answers(q, P)}

\* The records an API request may be answered with.
ApiAnswers(request) ==
  Pages(ParseQuery(request.direct), Population(FilterState(request.filters)))

\* The link an API answer carries to itself and to its other format.
SelfLink(request) == [request EXCEPT !.direct = Canonical(ParseQuery(request.direct))]

PageRows(u) == Pages(Query(u), Population(PageFilters(u)))

-----------------------------------------------------------------------------
(* What a reader does.                                                     *)

Init == url = Blank /\ box = <<>>

Go(u) == url' = u /\ box' = <<>>

\* Whether the text can still become a filter: a reader types no further otherwise.
Viable(text) == ParseFilter(text).error # "none" => ParseFilter(text).at > Len(text)

Type(chunk) ==
  /\ url = Blank
  /\ Viable(box) /\ Len(box) + Len(chunk) <= MaxTyped
  /\ box' = box \o chunk
  /\ UNCHANGED url

Visit(u) == Go(u)

\* The search form: the controls hold the filters as the page understood them.
Submit(f, text) ==
  Go([Blank EXCEPT !.filters = f, !.odata = text, !.last = LastValid(url),
                   !.sort = IF KeepsSort THEN url.sort ELSE <<>>,
                   !.columns = IF KeepsSort THEN url.columns ELSE {}])

RunScript(text) == Submit(PageFilters(url), text)

SetFilters(f) == Submit(f, url.odata)

Reverse1(key) == <<key[1], IF key[2] = "desc" THEN "asc" ELSE "desc">>

Sorted(keys) ==
  [url EXCEPT !.sort = keys, !.odata = NoScript, !.last = NoScript, !.direct = NoScript]

CurrentSort == IF url.sort # <<>> THEN url.sort ELSE RenderedSort(url)

\* A key in front is reversed; another field takes over in its own direction.
Clicked(current, field, direction) ==
  IF current # <<>> /\ current[1][1] = field THEN <<Reverse1(current[1])>>
  ELSE <<<<field, direction>>>>

\* A heading of the table, clicked with the page's script running.
Click(field) ==
  /\ field \in VisibleColumns(url)
  /\ Go(Sorted(Clicked(CurrentSort, field, "asc")))

\* Mutant of ShiftClicked: a key clicked again moves to the end.
ShiftClickedLast(current, field) ==
  LET others == SelectSeq(current, LAMBDA key : key[1] # field)
      same == SelectSeq(current, LAMBDA key : key[1] = field)
  IN  IF same = <<>> THEN Append(current, <<field, "asc">>)
      ELSE Append(others, Reverse1(same[1]))

ShiftClicked(current, field) ==
  LET same == {i \in DOMAIN current : current[i][1] = field} IN
  IF same = {} THEN Append(current, <<field, "asc">>)
  ELSE LET first == CHOOSE i \in same : \A j \in same : i <= j
       IN  [current EXCEPT ![first] = Reverse1(@)]

\* A reader who has as many keys as MaxSortKeys adds no other.
ShiftClick(field) ==
  /\ field \in VisibleColumns(url)
  /\ \E keys \in {ShiftClicked(CurrentSort, field)} : Len(keys) <= MaxSortKeys /\ Go(Sorted(keys))

\* The link of a heading, followed without the page's script.
FollowHeading(field) ==
  /\ field \in VisibleColumns(url)
  /\ Go(Sorted(Clicked(ShownSort(url), field, DefaultDirection[field])))

ResetSort == url.sort # <<>> /\ Go([url EXCEPT !.sort = <<>>])

ChooseColumns(choice) == Go([url EXCEPT !.columns = choice])

\* What a page offers that is there.
UsePage ==
  \/ \E text \in Scripts \cup {NoScript} : RunScript(text)
  \/ \E f \in FilterSets : SetFilters(f)
  \/ \E field \in Columns : Click(field) \/ ShiftClick(field) \/ FollowHeading(field)
  \/ ResetSort
  \/ \E choice \in {{}, NarrowView} : ChooseColumns(choice)

Next ==
  \/ \E chunk \in Chunks : Type(chunk)
  \/ \E u \in DeepLinks : Visit(u)
  \/ ~Fails(url) /\ UsePage

Spec == Init /\ [][Next]_vars

-----------------------------------------------------------------------------
(* Whatever valid filter is typed, with whatever order a script has beside it. *)

Drafts ==
  IF QueryFault(Options(box, <<>>)) # "none" THEN {}
  ELSE {ParseQuery([script EXCEPT !.filter = box]) : script \in {s \in Scripts : Valid(s)}}

\* canonical_query: the text that links and answers carry is accepted again, is
\* canonical itself, and selects what the query selects, null or not.
DraftsKeepMeaning == \A q \in Drafts : CanonicalMeansSame(q)

\* _compile_filter over nullable columns and subqueries: "not" of a filter
\* selects exactly the results that the filter leaves out, and a client that
\* reads either of them page after page ($skip, $top) gets every match once.
DraftsDivide == \A q \in Drafts : NegationDivides(q) /\ PagesDivide(q, Results)

-----------------------------------------------------------------------------
(* Pages and links.                                                        *)

SameAnswers(rows, link) ==
  /\ QueryFault(link.direct) = "none"
  /\ Cardinality(rows \cup ApiAnswers(link) \cup ApiAnswers(SelfLink(link))) = 1

\* "Same population: JSON CSV": the links of a page, and the links in their
\* answers, return the rows of the page in its order, whatever else the address
\* says, if every noise model it names has a public record: the page drops the
\* others, and its links keep them.
LinksAnswerPage ==
  (~Fails(url) /\ url.filters.noise \subseteq NoiseModels) => SameAnswers(PageRows(url), Link(url))

\* "Last valid results remain visible.": whatever faults follow one another in
\* the script area, the query stays the last valid one that was run from there.
LastValidSurvives ==
  [][(/\ url.odata # NoScript /\ url'.odata # NoScript /\ url'.last = LastValid(url)
      /\ Valid(url.odata) \/ Valid(url.last)
      /\ ~Valid(url'.odata) /\ ~Fails(url))
     => Query(url') = Query(url)]_vars

\* "Shift-clicking the primary column changes its direction without deleting its
\* secondary keys": a click goes by the numbered marks of the headings, and not by
\* an order hidden in the address, unless a sorted column is hidden, a script runs
\* beside a sort parameter, or that has keys the page passes over: the script of
\* the page reads it raw, and takes a key without a column for the primary one.
ClicksFollowMarks ==
  [][LET before == ShownSort(url)
         after == ShownSort(url')
     IN  (/\ url.sort = <<>> \/ (Script(url) = NoScript /\ url.sort = before)
          /\ RenderedSort(url) = before /\ ~Fails(url) /\ ~Fails(url')) =>
           \A field \in Columns :
             LET Marked(i) == before[i][1] = field IN
             /\ Click(field) =>
                  /\ Len(after) = 1 /\ after[1][1] = field
                  /\ Marked(1) => after[1] = Reverse1(before[1])
             /\ ShiftClick(field) =>
                  IF \E i \in DOMAIN before : Marked(i)
                  THEN after = [i \in DOMAIN before |->
                                  IF Marked(i) THEN Reverse1(before[i]) ELSE before[i]]
                  ELSE after = Append(before, <<field, "asc">>)]_vars
=============================================================================

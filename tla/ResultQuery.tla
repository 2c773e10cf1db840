---------------------------- MODULE ResultQuery ----------------------------
(***************************************************************************)
(* The public query contract over result records: how the options of a    *)
(* query are parsed, what they select, in which order, and the canonical   *)
(* text that links carry.                                                  *)
(*                                                                         *)
(* A filter is a sequence of tokens; the characters of a token, their      *)
(* positions and the wording of errors are left out.  A value is its rank  *)
(* among the values of its kind.  MAX_FILTER_LENGTH counts tokens here.    *)
(***************************************************************************)
EXTENDS Integers, FiniteSets, Sequences, SequencesExt

CONSTANTS
  Words,           \* the words there are
  FieldNames,      \* the public fields
  Kind,            \* the kind of each: string, integer, decimal, boolean, datetime or uuid
  NullableFields,  \* those that may be null
  MetricFields,    \* those that are scores, read by a subquery
  Results,         \* the result records
  Row,             \* the value of each field of each result
  Null,            \* no value
  Substrings,      \* the pairs of strings of which the first contains the second
  Ampersands,      \* the strings with a "&" in them
  DefaultSelect,   \* the fields of a record unless some are selected
  DefaultOrder,    \* the order unless one is given
  DefaultPageSize, MaxPageSize, MaxFilterNodes, MaxFilterLength, MaxOrderFields,
  Absent           \* an option that is not given

ASSUME QueryAssumption ==
  /\ Kind \in [FieldNames ->
               {"string", "integer", "decimal", "boolean", "datetime", "uuid"}]
  /\ NullableFields \subseteq FieldNames /\ MetricFields \subseteq NullableFields
  /\ "id" \in FieldNames \ NullableFields
  /\ FieldNames \subseteq Words \ {"not"}
  /\ IsFiniteSet(Results) /\ Row \in [Results -> [FieldNames -> Int \cup {Null}]]
  /\ \A r \in Results, f \in FieldNames : Row[r][f] = Null => f \in NullableFields
  /\ \A r, s \in Results : Row[r]["id"] = Row[s]["id"] => r = s
  /\ Null \notin Int /\ Absent \notin Int
  /\ MaxPageSize \in Nat /\ DefaultPageSize \in 0..MaxPageSize
  /\ MaxFilterNodes \in Nat /\ MaxFilterLength \in Nat \ {0} /\ MaxOrderFields \in Nat

-----------------------------------------------------------------------------
(* Tokens and syntax trees.                                                *)

Eof == [kind |-> "eof", text |-> "", value |-> 0]
Word(w) == [kind |-> "ident", text |-> w, value |-> 0]
Open == [kind |-> "lparen", text |-> "", value |-> 0]
Close == [kind |-> "rparen", text |-> "", value |-> 0]
Comma == [kind |-> "comma", text |-> "", value |-> 0]
Str(v) == [kind |-> "string", text |-> "", value |-> v]
Num(v) == [kind |-> "number", text |-> "", value |-> v]
Bool(v) == [kind |-> "ident", text |-> IF v = 1 THEN "true" ELSE "false", value |-> v]

Tokens == [kind : {"ident", "lparen", "rparen", "comma", "string", "number"},
           text : Words, value : Int]

NoNode == [node |-> "none"]
Compare(op, f, v) == [node |-> "compare", op |-> op, field |-> f, value |-> v]
Function(name, f, v) == [node |-> "function", op |-> name, field |-> f, value |-> v]
Logic(op, children) == [node |-> "logic", op |-> op, children |-> children]
Not(child) == [node |-> "not", child |-> child]

Comparisons == {"eq", "ne", "gt", "ge", "lt", "le"}
Functions3 == {"contains", "startswith", "endswith"}

ASSUME WordsAssumption ==
  {"", "not", "and", "or", "null", "true", "false", "all", "asc", "desc"}
    \cup Comparisons \cup Functions3 \subseteq Words

LeafNodes ==
  {NoNode} \cup
  [node : {"compare"}, op : Comparisons, field : FieldNames, value : Int \cup {Null}] \cup
  [node : {"function"}, op : Functions3, field : FieldNames, value : Int]

\* The trees of a depth of at most d.
Trees[d \in 0..MaxFilterLength] ==
  IF d = 0 THEN LeafNodes
  ELSE LET below == Trees[d - 1] IN
       LeafNodes \cup [node : {"not"}, child : below]
                 \cup [node : {"logic"}, op : {"and", "or"},
                       children : {s \in Seq(below) : Len(s) > 1}]

\* A filter is deep only if it is long.
FilterTrees == Trees[MaxFilterLength]

Total(numbers) ==
  LET total[i \in 0..Len(numbers)] == IF i = 0 THEN 0 ELSE total[i - 1] + numbers[i]
  IN  total[Len(numbers)]

Size[n \in FilterTrees] ==
  CASE n.node = "logic" -> 1 + Total([i \in DOMAIN n.children |-> Size[n.children[i]]])
    [] n.node = "not"   -> 1 + Size[n.child]
    [] n.node = "none"  -> 0
    [] OTHER            -> 1

Leaves[n \in FilterTrees] ==
  CASE n.node = "logic" -> UNION {Leaves[n.children[i]] : i \in DOMAIN n.children}
    [] n.node = "not"   -> Leaves[n.child]
    [] n.node = "none"  -> {}
    [] OTHER            -> {n}

-----------------------------------------------------------------------------
(* Parsing.                                                                *)

At(text, i) == IF i > Len(text) THEN Eof ELSE text[i]

\* Operands that are read, up to a position, and what is wrong there.
Parsed(nodes, i) == [error |-> "none", nodes |-> nodes, at |-> i]
Fault(code, i) == [error |-> code, nodes |-> <<NoNode>>, at |-> i]

Converts(kind, token) ==
  CASE kind = "integer" -> token.kind = "number"
    [] kind = "decimal" -> token.kind = "number"
    [] kind = "boolean" -> token.kind = "ident" /\ token.text \in {"true", "false"}
    [] OTHER            -> token.kind = "string"

IsNull(token) == token.kind = "ident" /\ token.text = "null"
LiteralValue(token) == IF IsNull(token) THEN Null ELSE token.value

\* What is wrong with the literal at i for field f.
LiteralFault(f, text, i) ==
  LET token == At(text, i) IN
  IF token.kind \notin {"string", "number", "ident"} THEN "expected_literal"
  ELSE IF IsNull(token) \/ Converts(Kind[f], token) THEN "none"
  ELSE "type_mismatch"

ComparisonFault(op, f, value) ==
  IF value = Null /\ op \notin {"eq", "ne"} THEN "null_comparison"
  ELSE IF value = Null /\ f \notin NullableFields THEN "nonnullable_field"
  ELSE IF Kind[f] \in {"boolean", "uuid"} /\ op \notin {"eq", "ne"} THEN "unsupported_operator"
  ELSE "none"

ParseFunction(text, i) ==
  LET f == At(text, i + 2).text IN
  IF At(text, i).text \notin Functions3 THEN Fault("unsupported_function", i)
  ELSE IF At(text, i + 2).kind # "ident" THEN Fault("unexpected_token", i + 2)
  ELSE IF f \notin FieldNames THEN Fault("unknown_field", i + 2)
  ELSE IF Kind[f] # "string" THEN Fault("type_mismatch", i + 2)
  ELSE IF At(text, i + 3).kind # "comma" THEN Fault("unexpected_token", i + 3)
  ELSE IF LiteralFault(f, text, i + 4) # "none" THEN Fault(LiteralFault(f, text, i + 4), i + 4)
  ELSE IF IsNull(At(text, i + 4)) THEN Fault("type_mismatch", i + 2)
  ELSE IF At(text, i + 5).kind # "rparen" THEN Fault("unexpected_token", i + 5)
  ELSE Parsed(<<Function(At(text, i).text, f, At(text, i + 4).value)>>, i + 6)

ParseComparison(text, i) ==
  LET f == At(text, i).text
      op == At(text, i + 1).text
      value == LiteralValue(At(text, i + 2))
  IN  IF f \notin FieldNames THEN Fault("unknown_field", i)
      ELSE IF At(text, i + 1).kind # "ident" THEN Fault("unexpected_token", i + 1)
      ELSE IF op \notin Comparisons THEN Fault("unsupported_operator", i + 1)
      ELSE IF LiteralFault(f, text, i + 2) # "none" THEN Fault(LiteralFault(f, text, i + 2), i + 2)
      ELSE IF ComparisonFault(op, f, value) # "none" THEN Fault(ComparisonFault(op, f, value), i)
      ELSE Parsed(<<Compare(op, f, value)>>, i + 3)

\* The operands that op joins, as one node.
Combined(op, parsed) ==
  IF parsed.error # "none" \/ Len(parsed.nodes) = 1 THEN parsed
  ELSE Parsed(<<Logic(op, parsed.nodes)>>, parsed.at)

\* An operand of op, and those that follow it.
ParseChain(op, text, first, parse) ==
  IF first.error # "none" \/ At(text, first.at) # Word(op) THEN first
  ELSE [parse[<<op, first.at + 1>>] EXCEPT !.nodes = first.nodes \o @]

Enclosed(text, inner) ==
  IF inner.error # "none" THEN inner
  ELSE IF At(text, inner.at).kind # "rparen" THEN Fault("unexpected_token", inner.at)
  ELSE [inner EXCEPT !.at = @ + 1]

ParsePrimary(text, i, parse) ==
  IF At(text, i).kind = "lparen" THEN Enclosed(text, Combined("or", parse[<<"or", i + 1>>]))
  ELSE IF At(text, i).kind # "ident" THEN Fault("unexpected_token", i)
  ELSE IF At(text, i + 1).kind = "lparen" THEN ParseFunction(text, i)
  ELSE ParseComparison(text, i)

Negated(child) ==
  IF child.error # "none" THEN child ELSE Parsed(<<Not(child.nodes[1])>>, child.at)

ParseNot(text, i, parse) ==
  IF At(text, i) = Word("not") THEN Negated(parse[<<"not", i + 1>>])
  ELSE ParsePrimary(text, i, parse)

\* What is read from a position: the operands of a chain of "or" or of "and", of
\* which "or" binds its own weaker, or one operand.
Parse(text) ==
  LET parse[goal \in {"or", "and", "not"} \X (1..(Len(text) + 1))] ==
        CASE goal[1] = "or" ->
               ParseChain("or", text, Combined("and", parse[<<"and", goal[2]>>]), parse)
          [] goal[1] = "and" -> ParseChain("and", text, parse[<<"not", goal[2]>>], parse)
          [] goal[1] = "not" -> ParseNot(text, goal[2], parse)
  IN  parse

\* The verdict on a text of which whole is the parsed part.
Complete(text, whole) ==
  IF whole.error # "none" THEN whole
  ELSE IF At(text, whole.at) # Eof THEN Fault("unexpected_token", whole.at)
  ELSE IF Size[whole.nodes[1]] > MaxFilterNodes THEN Fault("filter_too_complex", 1)
  ELSE whole

ParseFilter(text) ==
  IF text = <<>> THEN Parsed(<<NoNode>>, 1)
  ELSE IF Len(text) > MaxFilterLength THEN Fault("filter_too_long", 1)
  ELSE Complete(text, Combined("or", Parse(text)[<<"or", 1>>]))

\* An item of $orderby is one or two words.
OrderItemFault(items, i) ==
  LET item == items[i] IN
  IF Len(item) \notin {1, 2} THEN "invalid_orderby"
  ELSE IF item[1] \notin FieldNames THEN "unknown_field"
  ELSE IF Len(item) = 2 /\ item[2] \notin {"asc", "desc"} THEN "invalid_order_direction"
  ELSE IF \E j \in 1..(i - 1) : items[j] # <<>> /\ items[j][1] = item[1]
       THEN "duplicate_order_field"
  ELSE "none"

\* The first of the faults found, in the order they are looked for.
FirstFault(codes) ==
  IF \A i \in DOMAIN codes : codes[i] = "none" THEN "none"
  ELSE codes[CHOOSE i \in DOMAIN codes : codes[i] # "none" /\ \A j \in 1..(i - 1) : codes[j] = "none"]

OrderFault(items) ==
  FirstFault(Append([i \in DOMAIN items |-> OrderItemFault(items, i)],
                    IF Len(items) > MaxOrderFields THEN "too_many_order_fields" ELSE "none"))

OrderOf(items) ==
  IF items = <<>> THEN DefaultOrder
  ELSE [i \in DOMAIN items |->
          <<items[i][1], IF Len(items[i]) = 2 THEN items[i][2] ELSE "asc">>]

\* The elements of s at the positions K.
Kept(s, K) ==
  LET kept[i \in 0..Len(s)] ==
        IF i = 0 THEN <<>> ELSE IF i \in K THEN Append(kept[i - 1], s[i]) ELSE kept[i - 1]
  IN  kept[Len(s)]

\* The selected fields, each once, in the order of their first mention.
SelectOf(names) ==
  IF names = <<>> THEN DefaultSelect
  ELSE Kept(names, {i \in DOMAIN names : \A j \in 1..(i - 1) : names[j] # names[i]})

BoundedFault(value, bounded) ==
  IF value = Absent THEN "none"
  ELSE IF value < 0 THEN "invalid_integer"
  ELSE IF bounded /\ value > MaxPageSize THEN "page_size_too_large"
  ELSE "none"

\* The options of a query, as a request or a script gives them.
Options(filter, orderby) ==
  [filter |-> filter, orderby |-> orderby, select |-> <<>>, top |-> Absent,
   skip |-> Absent, count |-> "", unsupported |-> FALSE, repeated |-> FALSE]

\* The first fault of the options, in the order the parser looks for them.
QueryFault(o) ==
  FirstFault(<<IF o.unsupported THEN "unsupported_option" ELSE "none",
               IF o.repeated THEN "duplicate_option" ELSE "none",
               ParseFilter(o.filter).error,
               OrderFault(o.orderby),
               IF ToSet(o.select) \subseteq FieldNames THEN "none" ELSE "unknown_field",
               BoundedFault(o.top, TRUE),
               BoundedFault(o.skip, FALSE),
               IF o.count \in {"", "true", "false"} THEN "none" ELSE "invalid_count">>)

OptionRecords ==
  [filter : Seq(Tokens), orderby : Seq(Seq(Words)), select : Seq(Words),
   top : Int \cup {Absent}, skip : Int \cup {Absent}, count : Words,
   unsupported : BOOLEAN, repeated : BOOLEAN]

ASSUME DefaultsAssumption ==
  /\ DefaultOrder \in Seq(FieldNames \X {"asc", "desc"}) \ {<<>>}
  /\ Len(DefaultOrder) <= MaxOrderFields
  /\ \A i, j \in DOMAIN DefaultOrder : DefaultOrder[i][1] = DefaultOrder[j][1] => i = j
  /\ DefaultSelect \in Seq(FieldNames) \ {<<>>}
  /\ \A i, j \in DOMAIN DefaultSelect : DefaultSelect[i] = DefaultSelect[j] => i = j

ParseQuery(o) ==
  [filter |-> ParseFilter(o.filter).nodes[1],
   order  |-> OrderOf(o.orderby),
   select |-> SelectOf(o.select),
   top    |-> IF o.top = Absent THEN DefaultPageSize ELSE o.top,
   skip   |-> IF o.skip = Absent THEN 0 ELSE o.skip,
   count  |-> o.count = "true"]

-----------------------------------------------------------------------------
(* What a filter matches.  Under an odd number of negations Django adds     *)
(* "is not null" to a comparison of a nullable column, which makes it false *)
(* of a null; a subquery stays unknown, and so do columns elsewhere.        *)

Kleene(b) == IF b THEN "true" ELSE "false"
Negation(v) == CASE v = "true" -> "false" [] v = "false" -> "true" [] OTHER -> "unknown"
Conjunction(V) ==
  IF "false" \in V THEN "false" ELSE IF "unknown" \in V THEN "unknown" ELSE "true"
Disjunction(V) ==
  IF "true" \in V THEN "true" ELSE IF "unknown" \in V THEN "unknown" ELSE "false"

Joint(op, V) == IF op = "and" THEN Conjunction(V) ELSE Disjunction(V)

Relates(op, a, b) ==
  CASE op \in {"eq", "ne"} -> a = b
    [] op = "gt" -> a > b
    [] op = "ge" -> a >= b
    [] op = "lt" -> a < b
    [] op = "le" -> a <= b
    [] OTHER -> <<a, b>> \in Substrings

\* Mutant of Lookup: a null is unknown whatever stands around the comparison.
LookupUnguarded(n, r, negated) ==
  LET value == Row[r][n.field] IN
  IF n.value = Null THEN Kleene(value = Null)
  ELSE IF value = Null THEN "unknown"
  ELSE Kleene(Relates(n.op, value, n.value))

\* One lookup in row r, under an odd number of negations if negated.
Lookup(n, r, negated) ==
  LET value == Row[r][n.field] IN
  IF n.value = Null THEN Kleene(value = Null)
  ELSE IF value = Null
       THEN IF negated /\ n.field \notin MetricFields THEN "false" ELSE "unknown"
  ELSE Kleene(Relates(n.op, value, n.value))

\* The value of a node in row r, under an odd number of negations if odd, from
\* the values of the nodes below it.
Valued(n, r, values) ==
  [odd \in BOOLEAN |->
     CASE n.node = "none" -> "true"
       [] n.node = "not"  -> Negation(values[n.child][~odd])
       [] n.node = "logic" -> Joint(n.op, {values[n.children[i]][odd] : i \in DOMAIN n.children})
       [] n.node = "compare" /\ n.op = "ne" -> Negation(Lookup(n, r, ~odd))
       [] OTHER -> Lookup(n, r, odd)]

\* The value of a tree in row r, under an odd number of negations if negated.
Evaluate(tree, r, negated) ==
  LET values[n \in FilterTrees] == Valued(n, r, values)
  IN  values[tree][negated]

Matches(n, r) == Evaluate(n, r, FALSE) = "true"

-----------------------------------------------------------------------------
(* Order, pages and records.                                               *)

\* a stands before b under one key: nulls are last in either direction.
KeyPrecedes(key, a, b) ==
  LET u == Row[a][key[1]]
      v == Row[b][key[1]]
  IN  IF u = Null \/ v = Null THEN u # Null /\ v = Null
      ELSE IF key[2] = "desc" THEN u > v ELSE u < v

\* The identifier decides unless the order says something about it.
SortKeys(order) ==
  IF \E i \in DOMAIN order : order[i][1] = "id" THEN order
  ELSE Append(order, <<"id", "asc">>)

Precedes(order, a, b) ==
  LET keys == SortKeys(order) IN
  \E i \in DOMAIN keys :
    /\ KeyPrecedes(keys[i], a, b)
    /\ \A j \in 1..(i - 1) : ~KeyPrecedes(keys[j], a, b) /\ ~KeyPrecedes(keys[j], b, a)

\* The sequences of the results R that respect an order.
Sequences(order, R) ==
  {s \in SetToSeqs(R) : \A i, j \in DOMAIN s : i < j => ~Precedes(order, s[j], s[i])}

\* What the database may return for query q over population P.
Answers(q, P) == Sequences(q.order, {r \in P : Matches(q.filter, r)})

Slice(s, first, last) == SubSeq(s, first, IF last > Len(s) THEN Len(s) ELSE last)

PageOf(q, s) == Slice(s, q.skip + 1, q.skip + q.top)

-----------------------------------------------------------------------------
(* The canonical text of a query, as the options a reader parses again.    *)

LiteralToken(f, v) ==
  IF v = Null THEN Word("null")
  ELSE CASE Kind[f] \in {"integer", "decimal"} -> Num(v)
         [] Kind[f] = "boolean" -> Bool(v)
         [] OTHER -> Str(v)

Parenthesised(text) == <<Open>> \o text \o <<Close>>

Conjoined(op, texts) ==
  LET joined[i \in DOMAIN texts] ==
        IF i = 1 THEN texts[1] ELSE joined[i - 1] \o <<Word(op)>> \o texts[i]
  IN  joined[Len(texts)]

\* Mutant of RenderLogic: an "or" inside an "and" or a "not" keeps no parentheses.
RenderLogicBare(op, texts, outer) == Conjoined(op, texts)

RenderLogic(op, texts, outer) ==
  IF outer > (IF op = "or" THEN 1 ELSE 2) THEN Parenthesised(Conjoined(op, texts))
  ELSE Conjoined(op, texts)

\* The text of a node from the texts of the nodes below it.  outer is the
\* precedence of the operator around it: or 1, and 2, not 3.
RenderedIn(n, outer, texts) ==
  CASE n.node = "none" -> <<>>
    [] n.node = "compare" -> <<Word(n.field), Word(n.op), LiteralToken(n.field, n.value)>>
    [] n.node = "function" ->
         <<Word(n.op), Open, Word(n.field), Comma, LiteralToken(n.field, n.value), Close>>
    [] n.node = "not" -> <<Word("not")>> \o texts[n.child][3]
    [] n.node = "logic" ->
         RenderLogic(n.op, [i \in DOMAIN n.children |->
                              texts[n.children[i]][IF n.op = "or" THEN 1 ELSE 2]], outer)

Rendered(n, texts) == [outer \in 0..3 |-> RenderedIn(n, outer, texts)]

Render[n \in FilterTrees] == Rendered(n, Render)

Canonical(q) ==
  [filter |-> Render[q.filter][0], orderby |-> q.order,
   select |-> IF q.select = DefaultSelect THEN <<>> ELSE q.select,
   top |-> q.top, skip |-> IF q.skip = 0 THEN Absent ELSE q.skip,
   count |-> IF q.count THEN "true" ELSE "",
   unsupported |-> FALSE, repeated |-> FALSE]

-----------------------------------------------------------------------------
(* What the language promises of a valid query q.                          *)

\* Query again selects, orders and pages as q does.
ReadsAs(q, again) ==
  /\ [again EXCEPT !.filter = q.filter] = q
  /\ \A r \in Results : /\ Matches(again.filter, r) <=> Matches(q.filter, r)
                        /\ Matches(Not(again.filter), r) <=> Matches(Not(q.filter), r)

\* A canonical text is accepted, is canonical, and means what the query meant.
StaysCanonical(q, text) ==
  /\ QueryFault(text) = "none"
  /\ Canonical(ParseQuery(text)) = text
  /\ ReadsAs(q, ParseQuery(text))

CanonicalMeansSame(q) == StaysCanonical(q, Canonical(q))

\* A filter and its negation divide the results between them, whatever is null,
\* unless the filter reads a metric, of which nothing is known where it is null.
NegationDivides(q) ==
  (\A leaf \in Leaves[q.filter] : leaf.field \notin MetricFields) =>
    \A r \in Results : Matches(q.filter, r) <=> ~Matches(Not(q.filter), r)

\* Two requests for neighbouring pages return every match once between them,
\* however the database orders what the query leaves open.
PagesDivide(q, P) ==
  \A s, t \in Answers(q, P) :
    LET next == [q EXCEPT !.skip = q.skip + q.top]
        both == PageOf(q, s) \o PageOf(next, t)
    IN  both = Slice(s, q.skip + 1, q.skip + 2 * q.top)
=============================================================================

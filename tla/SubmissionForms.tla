-------------------------- MODULE SubmissionForms --------------------------
(***************************************************************************)
(* The numbers of a candidate on their way through the submission pages:   *)
(* typed into the structured form or the JSON editor, checked by the JSON  *)
(* Schema (submission_specs) and by the form (forms_submissions), kept in  *)
(* the session in canonical form, stored in columns of limited width under *)
(* the constraints of the database (models/evaluations, models/circuits),  *)
(* recorded as a snapshot, and read back for the next edit.                *)
(*                                                                         *)
(* A decimal is an integer number of units finer than its column, which    *)
(* keeps the multiples of Fine, and the way it is written down: whether    *)
(* with a minus sign, which zero may have as well, and as a plain text, as *)
(* a text with an exponent, or as a JSON number.  An exponent stands for   *)
(* every text that is a number but not in plain digits.                    *)
(*                                                                         *)
(* One candidate is submitted and edited; its lineage, its references and  *)
(* the accounts are those of Submissions and are left out, with the texts  *)
(* and the boolean options that no constraint mentions.                    *)
(***************************************************************************)
EXTENDS Integers, Sequences, FiniteSets, SequencesExt

CONSTANTS
  EvaluatorOf,  \* the evaluator of each score definition
  Drafts,       \* bound: what users type
  Fine,         \* units in the last digit that a column keeps
  Small,        \* decimals below are written with an exponent
  One,          \* the decimal 1
  ValueLimit,   \* the decimals a score cannot hold begin here
  DurationLimit, \* the same of a duration
  IntMax, BigMax, \* the largest values of the two integer columns
  Null

VARIABLES
  row,          \* the row of the candidate, or Null
  scoreRows,    \* its rows of ResultScore
  snapshot,     \* the payload of its latest event
  preview       \* the payload of a preview in the session, or Null

formVars == <<row, scoreRows, snapshot, preview>>

Definitions == DOMAIN EvaluatorOf

-----------------------------------------------------------------------------
(* What a payload consists of.                                             *)

Decimals ==
  {d \in [number : Int, minus : BOOLEAN, style : {"plain", "exponent", "number"}] :
     d.number # 0 => (d.minus <=> d.number < 0)}

Evaluators ==
  {EvaluatorOf[d] : d \in Definitions}
    \cup {p.evaluator : p \in {q \in Drafts : q.kind = "result"}}

Scores ==
  [definition : Int, value : Decimals, confidence : Decimals \cup {Null},
   samples : Int \cup {Null}]

Results ==
  [kind : {"result"}, evaluator : Evaluators, total : Int, successful : Int,
   failed : Int, timeouts : Int, errors : Int, probability : Int, latency : Int,
   duration : Decimals \cup {Null}, scores : Seq(Scores)]

Circuits ==
  [kind : {"circuit"}, css : BOOLEAN, xOnly : BOOLEAN, zOnly : BOOLEAN,
   detectors : Int, distance : Int \cup {Null}]

\* Identifiers are ordered, and the limits have no more digits than the columns.
ASSUME FormsAssumption ==
  /\ Definitions \subseteq Int
  /\ Drafts \subseteq Results \cup Circuits
  /\ Fine \in Nat \ {0}
  /\ One \in Nat /\ One % Fine = 0
  /\ ValueLimit \in Nat /\ ValueLimit % Fine = 0
  /\ {Small, DurationLimit, IntMax, BigMax} \subseteq Nat
  /\ Null \notin Int \cup Decimals \cup Results \cup Circuits

-----------------------------------------------------------------------------
(* Decimals.                                                               *)

Distance(x) == IF x < 0 THEN -x ELSE x

\* How PostgreSQL stores a decimal with too many digits: half away from zero.
Rounded(x) ==
  LET size == ((2 * Distance(x) + Fine) \div (2 * Fine)) * Fine
  IN  IF x < 0 THEN -size ELSE size

Decimal(x, style) == [number |-> x, minus |-> x < 0, style |-> style]
Stored(d) == Rounded(d.number)

\* str(Decimal(...)) of a decimal that a column returns, which has no negative zero.
Written(x) == Decimal(x, IF Distance(x) < Small THEN "exponent" ELSE "plain")

\* Mutant of Formatted: the decimal is written as it came.
FormattedByStr(d) == IF d.style = "number" THEN Written(d.number) ELSE d

\* format(value, "f"), which keeps the sign of zero.
Formatted(d) == [d EXCEPT !.style = "plain"]

Optional(x, Convert(_)) == IF x = Null THEN Null ELSE Convert(x)
NullOr(x, P(_)) == IF x = Null THEN TRUE ELSE P(x)

-----------------------------------------------------------------------------
(* The checks of a submitted payload.                                      *)

Counts(p) == {p.successful, p.failed, p.timeouts, p.errors}
Outcomes(p) == p.successful + p.failed + p.timeouts + p.errors
Completed(p) == p.successful + p.failed

\* A duration in the schema: a number from 0 on, which negative zero is, or a text
\* in plain digits without a sign.
DurationInSchema(d) ==
  IF d.style = "number" THEN d.number >= 0 ELSE d.style = "plain" /\ ~d.minus

\* The schema of a result; a circuit has nothing the form does not check.
SchemaAccepts(p) ==
  p.kind = "result" =>
    /\ p.total >= 1
    /\ \A n \in Counts(p) \cup {p.probability, p.latency} : n >= 0
    /\ NullOr(p.duration, DurationInSchema)
    /\ p.scores # <<>>

\* _normalise_scores.
ScoresAccepted(p) ==
  /\ p.scores # <<>>
  /\ \A i \in DOMAIN p.scores :
       LET s == p.scores[i] IN
       /\ s.definition \in Definitions /\ EvaluatorOf[s.definition] = p.evaluator
       /\ NullOr(s.confidence, LAMBDA c : c.number > 0 /\ c.number < One)
       /\ NullOr(s.samples, LAMBDA n : n >= 0)
  /\ \A i, j \in DOMAIN p.scores : p.scores[i].definition = p.scores[j].definition => i = j

\* DecimalField of the form: neither negative nor with digits to spare.
DurationAccepted(d) ==
  d.number >= 0 /\ d.number % Fine = 0 /\ d.number < DurationLimit

\* Mutant of ResultAccepted: the latency shots are taken from all shots.
ResultAcceptedTotal(p) ==
  /\ p.total >= 1 /\ \A n \in Counts(p) : n >= 0
  /\ p.total = Outcomes(p)
  /\ p.probability \in 0..Completed(p) /\ p.latency \in 0..p.total
  /\ NullOr(p.duration, DurationAccepted) /\ ScoresAccepted(p)

\* ResultSubmissionForm.
ResultAccepted(p) ==
  /\ p.total >= 1
  /\ \A n \in Counts(p) \cup {p.probability, p.latency} : n >= 0
  /\ NullOr(p.duration, DurationAccepted)
  /\ p.total = Outcomes(p)
  /\ p.probability <= Completed(p) /\ p.latency <= Completed(p)
  /\ ScoresAccepted(p)

\* CircuitSubmissionForm.
CircuitAccepted(p) ==
  /\ p.detectors >= 0
  /\ NullOr(p.distance, LAMBDA n : n >= 1)
  /\ p.xOnly \/ p.zOnly => p.css
  /\ ~(p.detectors # 0 /\ p.xOnly /\ p.zOnly)

FormAccepts(p) == IF p.kind = "result" THEN ResultAccepted(p) ELSE CircuitAccepted(p)

\* _normalise_scores, of what it accepts.
CanonicalScore(s) ==
  [s EXCEPT !.value = Formatted(@), !.confidence = Optional(@, Formatted)]

\* canonical_payload.
Canonical(p) ==
  IF p.kind # "result" THEN p
  ELSE [p EXCEPT
          !.duration = Optional(@, Formatted),
          !.scores = [i \in DOMAIN @ |-> CanonicalScore(@[i])]]

\* validate_submission_payload: the schema and then the form.
Validates(p) == SchemaAccepts(p) /\ FormAccepts(p)

\* What a post in one of the two modes of the editor needs for a preview: the
\* JSON editor is checked as it is, the structured form once it is canonical.
Previewable(mode, p) ==
  IF mode = "json" THEN Validates(p)
  ELSE FormAccepts(p) /\ Validates(Canonical(p))

-----------------------------------------------------------------------------
(* The tables.                                                             *)

\* The cleaned data of the form of p, as the columns of the record keep them.
RowOf(p) ==
  IF p.kind # "result" THEN p
  ELSE [kind |-> "result", evaluator |-> p.evaluator, total |-> p.total,
        successful |-> p.successful, failed |-> p.failed, timeouts |-> p.timeouts,
        errors |-> p.errors, probability |-> p.probability, latency |-> p.latency,
        duration |-> Optional(p.duration, Stored)]

\* _create_result_scores: a row for each score, of the evaluator of the result.
ScoreRowsOf(p) ==
  IF p.kind # "result" THEN {}
  ELSE {[definition |-> s.definition, evaluator |-> p.evaluator,
         value |-> Stored(s.value), confidence |-> Optional(s.confidence, Stored),
         samples |-> s.samples] : s \in ToSet(p.scores)}

\* The columns and constraints of a result. In an edit full_clean checks most of
\* them first; the view catches neither its error nor that of the database.
ResultStorable(r) ==
  /\ \A n \in Counts(r) \cup {r.total, r.probability, r.latency} : n \in 0..BigMax
  /\ r.total >= 1
  /\ r.total = Outcomes(r)
  /\ r.probability <= Completed(r) /\ r.latency <= Completed(r)
  /\ NullOr(r.duration, LAMBDA d : d >= 0)

CircuitStorable(r) ==
  /\ r.detectors \in 0..BigMax
  /\ NullOr(r.distance, LAMBDA n : n \in 1..IntMax)
  /\ r.css \/ (~r.xOnly /\ ~r.zOnly)
  /\ r.detectors = 0 \/ ~r.xOnly \/ ~r.zOnly

\* The score rows R of a result of evaluator e, with the two deferred foreign
\* keys and the primary key.
ScoresStorable(R, e) ==
  /\ \A s \in R :
       /\ s.evaluator = e /\ EvaluatorOf[s.definition] = s.evaluator
       /\ Distance(s.value) < ValueLimit
       /\ NullOr(s.confidence, LAMBDA c : c > 0 /\ c < One)
       /\ NullOr(s.samples, LAMBDA n : n \in 0..BigMax)
  /\ \A s, t \in R : s.definition = t.definition => s = t

Storable(r, R) ==
  IF r.kind = "result" THEN ResultStorable(r) /\ ScoresStorable(R, r.evaluator)
  ELSE CircuitStorable(r)

\* The score rows R in the order of their definitions.
ByDefinition(R) ==
  [i \in 1..Cardinality(R) |->
     CHOOSE s \in R : Cardinality({t \in R : t.definition <= s.definition}) = i]

\* submission_payload_for_record: what the editor shows of the stored candidate.
PayloadForRecord ==
  IF row.kind # "result" THEN row
  ELSE LET Listed(s) == [definition |-> s.definition, value |-> Written(s.value),
                         confidence |-> Optional(s.confidence, Written),
                         samples |-> s.samples]
           ordered == ByDefinition(scoreRows)
       IN  [kind |-> "result", evaluator |-> row.evaluator, total |-> row.total,
            successful |-> row.successful, failed |-> row.failed,
            timeouts |-> row.timeouts, errors |-> row.errors,
            probability |-> row.probability, latency |-> row.latency,
            duration |-> Optional(row.duration, Written),
            scores |-> [i \in DOMAIN ordered |-> Listed(ordered[i])]]

\* What the pages of the editor are filled with before the user types: the
\* stored candidate, or the preview the user comes back from.
Initials ==
  {PayloadForRecord : r \in {row} \ {Null}} \cup ({preview} \ {Null})

\* What may be posted: that, or anything of the kind of the candidate.
Payloads == Initials \cup {p \in Drafts : row # Null => p.kind = row.kind}

-----------------------------------------------------------------------------
(* The operations.                                                         *)

FormsInit ==
  /\ row = Null
  /\ scoreRows = {}
  /\ snapshot = Null
  /\ preview = Null

\* The editor is posted with something typed, or as it was shown.
Post(mode, p) ==
  /\ Previewable(mode, p)
  /\ preview' = Canonical(p)
  /\ UNCHANGED <<row, scoreRows, snapshot>>

\* Mutant of ReplacedScores: the scores of the last edit stay.
AddedScores(p) == scoreRows \cup ScoreRowsOf(p)

\* The scores of a result are deleted and written again.
ReplacedScores(p) == ScoreRowsOf(p)

\* create_submission, or update_pending_submission of the candidate: the preview
\* is validated and made canonical once more, its form fills the tables, and the
\* event records the payload itself.  Where a check or the database refuses,
\* nothing is stored and the preview stays.
CommitPreview ==
  LET payload == Canonical(preview) IN
  /\ preview # Null
  /\ Validates(preview) /\ FormAccepts(payload)
  /\ Storable(RowOf(payload), ReplacedScores(payload))
  /\ row' = RowOf(payload)
  /\ scoreRows' = ReplacedScores(payload)
  /\ snapshot' = payload
  /\ preview' = Null

\* The session expires, or another candidate takes the place of the preview.
DropPreview ==
  /\ preview # Null
  /\ preview' = Null
  /\ UNCHANGED <<row, scoreRows, snapshot>>

FormsNext ==
  \/ \E mode \in {"structured", "json"}, p \in Payloads : Post(mode, p)
  \/ CommitPreview
  \/ DropPreview

FormsSpec == FormsInit /\ [][FormsNext]_formVars

-----------------------------------------------------------------------------
\* The numbers that the forms let through and no column holds: counts beyond
\* the integer columns, scores that need a further digit, and confidence levels
\* that a column of fewer digits takes for 0 or 1.
BeyondColumns(p) ==
  IF p.kind = "circuit"
  THEN p.detectors > BigMax \/ (p.distance # Null /\ p.distance > IntMax)
  ELSE \/ p.total > BigMax
       \/ \E s \in ToSet(p.scores) :
            \/ 2 * Distance(s.value.number) >= 2 * ValueLimit - Fine
            \/ s.samples # Null /\ s.samples > BigMax
            \/ s.confidence # Null /\ \/ 2 * s.confidence.number < Fine
                                      \/ 2 * (One - s.confidence.number) <= Fine

\* A duration of zero with a minus sign, which is a number of the schema and no
\* text of it.
NegativeZero(d) == d.number = 0 /\ d.minus
ZeroRefused(p) == p.kind = "result" /\ p.duration # Null /\ NegativeZero(p.duration)

\* What was previewed is stored by the final post, in whatever mode it was
\* entered: it is valid for a second validation, but for a duration of negative
\* zero, whose canonical text the schema refuses; and the constraints of the
\* database ask for no more than the forms did, but for the numbers above, with
\* which the post ends in an uncaught database error.
PreviewsStorable ==
  preview # Null =>
    /\ Validates(preview) <=> ~ZeroRefused(preview)
    /\ Storable(RowOf(preview), ScoreRowsOf(preview)) <=> ~BeyondColumns(preview)

\* A payload that the tables keep as it is: its scores have no digits to spare, no
\* negative zero, and the order in which they are read back.
Kept(d) == Stored(d) = d.number /\ ~NegativeZero(d)
KeptExactly(p) ==
  p.kind = "result" =>
    /\ \A s \in ToSet(p.scores) : Kept(s.value) /\ NullOr(s.confidence, Kept)
    /\ \A i, j \in DOMAIN p.scores : i < j => p.scores[i].definition < p.scores[j].definition

\* The history shows the numbers that the editor shows: the snapshot of the latest
\* event, which is taken from the payload, and what is read back of the record,
\* which is filled from the form, are the same canonical payload exactly when the
\* tables keep it as it is.  So whatever was edited before, nothing is lost, left
\* over or converted on the way but digits, signs of zero and the order of scores.
SnapshotMatchesEditor ==
  row # Null => (Canonical(PayloadForRecord) = snapshot <=> KeptExactly(snapshot))

\* Posting the editor as it was shown changes nothing.  It is refused for a preview
\* with a duration of negative zero, and by the JSON editor for a stored duration
\* below a millionth, which the page writes with an exponent.
RepostUnchanged ==
  \A p \in Initials :
    /\ Previewable("structured", p) <=> ~ZeroRefused(p)
    /\ Previewable("json", p) <=>
         /\ ~ZeroRefused(p)
         /\ ~(/\ row # Null /\ p = PayloadForRecord /\ p.kind = "result"
              /\ row.duration # Null /\ row.duration < Small)
    /\ p # preview => /\ RowOf(Canonical(p)) = row
                      /\ ScoreRowsOf(Canonical(p)) = scoreRows
    /\ p = preview => Canonical(p) = preview
=============================================================================

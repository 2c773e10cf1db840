---------------------------- MODULE ResultPlots ----------------------------
(***************************************************************************)
(* The scatter plot beside a table of results: what the plot form is       *)
(* understood to ask, which results are points and why the others are      *)
(* left out, the range of each axis and its marks.                         *)
(*                                                                         *)
(* Numbers are integers, and the range of a linear axis is in units of     *)
(* 1/Unit.  A logarithm is in units of 1/Unit of a decade, and marks are   *)
(* found by a table of the digits, linear between them.  The map from a    *)
(* range to the pixels of the frame is linear and left out, as are labels  *)
(* and links.  So are numbers beyond the exponents that decimals compute   *)
(* with: a limit such as 1E+5000000 is read, and fails in the arithmetic.  *)
(***************************************************************************)
EXTENDS Integers, FiniteSets, Sequences

CONSTANTS
  NumericFields,   \* the public fields that are numbers
  Value,           \* the value of each in each result, or NoValue
  Interval,        \* the stored bounds of the scores: [lower, upper], either may be NoValue
  DefaultX, DefaultY,
  Populations,     \* the pages of results a plot is drawn of
  AxisForms,       \* what a reader asks of an axis
  Styles,          \* and of the uncertainty
  Logarithm,       \* the logarithms of positive numbers, in units of 1/Unit
  NoValue, Unlimited, NotANumber

\* The numbers there are: every positive one has a logarithm.
Numbers == {v \in Int : v > 0 => v \in DOMAIN Logarithm}

\* A logarithm has 50 digits, so that numbers close enough to each other share one.
ASSUME PlotAssumption ==
  /\ DefaultX \in NumericFields /\ DefaultY \in NumericFields
  /\ Unlimited \notin Int /\ NotANumber \notin Int /\ NoValue \notin Int
  /\ \A a \in AxisForms : {a.min, a.max} \subseteq Numbers \cup {Unlimited, NotANumber}
  /\ Populations \subseteq Seq(DOMAIN Value)
  /\ \A r \in DOMAIN Value, f \in NumericFields :
       {Value[r][f], Interval[r][f].lower, Interval[r][f].upper} \subseteq Numbers \cup {NoValue}
  /\ DOMAIN Logarithm \subseteq Nat
  /\ \A v, w \in DOMAIN Logarithm :
       Logarithm[v] \in Int /\ (v < w => Logarithm[v] <= Logarithm[w])

VARIABLES
  rows,      \* the page of results
  plotForm   \* what the reader asks of the plot

plotVars == <<rows, plotForm>>

-----------------------------------------------------------------------------
(* What the form is understood to ask; faults are reported and replaced.   *)

ReadScale(raw) == IF raw \in {"linear", "log"} THEN raw ELSE "linear"

ReadBound(raw, scale) ==
  IF raw \in {Unlimited, NotANumber} THEN Unlimited
  ELSE IF scale = "log" /\ raw <= 0 THEN Unlimited
  ELSE raw

\* A minimum that is not less than the maximum: neither is used.
ReadAxis(raw, default) ==
  LET scale == ReadScale(raw.scale)
      min == ReadBound(raw.min, scale)
      max == ReadBound(raw.max, scale)
      ordered == min = Unlimited \/ max = Unlimited \/ min < max
  IN  [field |-> IF raw.field \in NumericFields THEN raw.field ELSE default,
       scale |-> scale,
       min |-> IF ordered THEN min ELSE Unlimited,
       max |-> IF ordered THEN max ELSE Unlimited]

ReadStyle(raw) == IF raw \in {"bars", "areas", "none"} THEN raw ELSE "bars"

X == ReadAxis(plotForm.x, DefaultX)
Y == ReadAxis(plotForm.y, DefaultY)
ShowsUncertainty == ReadStyle(plotForm.style) # "none"

-----------------------------------------------------------------------------
(* Which results are points.                                               *)

Drawable(r, a) ==
  Value[r][a.field] # NoValue /\ (a.scale = "log" => Value[r][a.field] > 0)

NoInterval == {}

\* The two ends of a complete interval, or none.
StoredInterval(r, a) ==
  LET stored == Interval[r][a.field] IN
  IF stored.lower = NoValue \/ stored.upper = NoValue THEN NoInterval
  ELSE IF stored.lower > stored.upper \/ (a.scale = "log" /\ stored.lower <= 0) THEN NoInterval
  ELSE {stored.lower, stored.upper}

Drawn == {i \in DOMAIN rows : Drawable(rows[i], X) /\ Drawable(rows[i], Y)}

WithinBounds(v, a) == (a.min = Unlimited \/ v >= a.min) /\ (a.max = Unlimited \/ v <= a.max)

\* Mutant of InLimits: only the horizontal limits are looked at.
InLimitsAcross(r) == WithinBounds(Value[r][X.field], X)

InLimits(r) == WithinBounds(Value[r][X.field], X) /\ WithinBounds(Value[r][Y.field], Y)

\* Why a result of the page is no point.
Omission(i) ==
  CASE \E a \in {X, Y} : Value[rows[i]][a.field] = NoValue -> "null"
    [] i \notin Drawn /\ \A a \in {X, Y} : Value[rows[i]][a.field] # NoValue -> "nonpositive"
    [] i \in Drawn /\ ~InLimits(rows[i]) -> "outside"
    [] OTHER -> "none"

\* The numbers of a finite set, the k-th being the one with k of them up to it.
InOrder(S) ==
  [k \in 1..Cardinality(S) |-> CHOOSE i \in S : Cardinality({j \in S : j <= i}) = k]

\* Where the points stand on the page, in its order.
Points == InOrder({i \in Drawn : InLimits(rows[i])})

-----------------------------------------------------------------------------
(* The range of an axis.                                                   *)

Unit == 20000

\* The logarithms of the digits, and of ten.
Digits == <<0, 6020, 9540, 12040, 13980, 15560, 16900, 18060, 19080, Unit>>

Power == [k \in 0..4 |-> <<1, 10, 100, 1000, 10000>>[k + 1]]

\* The number with logarithm t, in units of 1/Unit; t is above -3 decades.
Exp(t) ==
  LET k == t \div Unit
      d == CHOOSE d \in 1..9 : Digits[d] <= t - k * Unit /\ t - k * Unit < Digits[d + 1]
      digit == Unit * d + (Unit * (t - k * Unit - Digits[d])) \div (Digits[d + 1] - Digits[d])
  IN  IF k >= 0 THEN Power[k] * digit ELSE digit \div Power[-k]

Transform(v, scale) == IF scale = "linear" THEN Unit * v ELSE Logarithm[v]

Magnitude(t) == IF t < 0 THEN -t ELSE t

LeastOf(V) == CHOOSE v \in V : \A w \in V : v <= w
GreatestOf(V) == CHOOSE v \in V : \A w \in V : v >= w

\* A range of no width is widened by 5% of its edge, or by one.
EdgeSpan(edge, scale) ==
  IF scale = "log" THEN Unit \div 20
  ELSE IF edge = 0 THEN Unit ELSE Magnitude(edge) \div 20

\* The range of the values V alone.
Automatic(V, scale) ==
  LET low == LeastOf(V)
      high == GreatestOf(V)
      padding == IF low = high THEN EdgeSpan(low, scale) ELSE (high - low) \div 20
  IN  IF V = {} THEN [low |-> 0, high |-> Unit] ELSE [low |-> low - padding, high |-> high + padding]

\* What the range of an axis is made of: the values and the intervals shown.
DomainValues(a) ==
  {Transform(v, a.scale) :
     v \in {Value[rows[i]][a.field] : i \in Drawn} \cup
           (IF ShowsUncertainty THEN UNION {StoredInterval(rows[i], a) : i \in Drawn} ELSE {})}

\* The explicit limits, the automatic ones elsewhere; widened on the free side
\* when a limit lies beyond every value.
Domain(a) ==
  LET auto == Automatic(DomainValues(a), a.scale)
      low == IF a.min = Unlimited THEN auto.low ELSE Transform(a.min, a.scale)
      high == IF a.max = Unlimited THEN auto.high ELSE Transform(a.max, a.scale)
  IN  IF low < high THEN [low |-> low, high |-> high]
      ELSE IF a.max = Unlimited /\ a.min # Unlimited
           THEN [low |-> low, high |-> low + EdgeSpan(low, a.scale)]
      ELSE IF a.min = Unlimited /\ a.max # Unlimited
           THEN [low |-> high - EdgeSpan(high, a.scale), high |-> high]
      ELSE [low |-> low, high |-> high]

\* The declaration is refused, and with it the page.
AxisRefused(a) ==
  \/ a.field \notin NumericFields \/ a.scale \notin {"linear", "log"}
  \/ a.scale = "log" /\ \E b \in {a.min, a.max} : b # Unlimited /\ b <= 0
  \/ a.min # Unlimited /\ a.max # Unlimited /\ a.min >= a.max

\* So is a range that its limits and values leave empty.
RangeRefused(a) == ~(Domain(a).low < Domain(a).high)

Refused == \E a \in {X, Y} : AxisRefused(a) \/ RangeRefused(a)

Clamped(t, range) == IF t < range.low THEN range.low ELSE IF t > range.high THEN range.high ELSE t

\* The bar or area of a point along an axis.
IntervalDrawn(r, a) ==
  IF ~ShowsUncertainty THEN NoInterval
  ELSE {Clamped(Transform(v, a.scale), Domain(a)) : v \in StoredInterval(r, a)}

-----------------------------------------------------------------------------
(* The marks of an axis, as numbers in units of 1/Unit.                    *)

Ceiling(a, b) == -((-a) \div b)

Multiples(low, high, step) == {k * step : k \in Ceiling(low, step)..(high \div step)}

Magnitudes == {20, 200, 2000, 20000, 200000, 2000000, 20000000, 200000000}

\* Mutant of NiceStep: the next power of ten.
CoarseStep(span, intervals) ==
  10 * CHOOSE m \in Magnitudes : m * intervals <= span /\ span \div 10 < m * intervals

\* The step of 1, 2, 5 or 10 nearest to a part of the span.
NiceStep(span, intervals) ==
  LET m == CHOOSE m \in Magnitudes : m * intervals <= span /\ span \div 10 < m * intervals
  IN  CASE 2 * span < 3 * intervals * m -> m
        [] 2 * span >= 3 * intervals * m /\ span < 3 * intervals * m -> 2 * m
        [] span >= 3 * intervals * m /\ span < 7 * intervals * m -> 5 * m
        [] OTHER -> 10 * m

MinorStep(step) == IF \E m \in Magnitudes : step = 2 * m THEN step \div 4 ELSE step \div 5

LinearTicks(low, high, intervals) ==
  LET step == NiceStep(high - low, intervals)
      major == Multiples(low, high, step)
  IN  [major |-> major, minor |-> Multiples(low, high, MinorStep(step)) \ major]

\* The digits d of the decades between low and high.
Subdivisions(low, high, digits) ==
  {Exp(t) : t \in {e * Unit + Digits[d] : e \in (low \div Unit)..(high \div Unit), d \in digits}
                  \cap low..high}

LogTicks(low, high) ==
  LET span == high - low
      major == Subdivisions(low, high, IF 2 * span < 5 * Unit THEN {1, 2, 5} ELSE {1})
  IN  IF span < Unit THEN LinearTicks(Exp(low), Exp(high), 6)
      ELSE [major |-> major, minor |-> Subdivisions(low, high, 1..9) \ major]

Ticks(a) ==
  LET range == Domain(a) IN
  IF a.scale = "log" THEN LogTicks(range.low, range.high)
  ELSE LinearTicks(range.low, range.high, 4)

-----------------------------------------------------------------------------
(* The form.                                                               *)

Unset(field) == [field |-> field, scale |-> "linear", min |-> Unlimited, max |-> Unlimited]

PlotInit ==
  /\ rows \in Populations
  /\ plotForm = [x |-> Unset(DefaultX), y |-> Unset(DefaultY), style |-> "bars"]

\* The controls hold what was understood of the form.
Controls == [x |-> X, y |-> Y, style |-> ReadStyle(plotForm.style)]

\* The form is sent with one control changed.
SetX(a) == plotForm' = [x |-> a, y |-> Controls.y, style |-> Controls.style] /\ UNCHANGED rows

SetY(a) == plotForm' = [x |-> Controls.x, y |-> a, style |-> Controls.style] /\ UNCHANGED rows

SetStyle(style) ==
  plotForm' = [x |-> Controls.x, y |-> Controls.y, style |-> style] /\ UNCHANGED rows

PlotNext ==
  \/ \E a \in AxisForms : SetX(a) \/ SetY(a)
  \/ \E style \in Styles : SetStyle(style)

PlotSpec == PlotInit /\ [][PlotNext]_plotVars

-----------------------------------------------------------------------------
\* Two limits that differ, but whose logarithms do not.
LimitsMerge(a) ==
  /\ a.scale = "log" /\ a.min # Unlimited /\ a.max # Unlimited
  /\ Logarithm[a.min] = Logarithm[a.max]

\* result_comparison._plot_options repairs every form, but for limits that merge on
\* a logarithmic axis: only for those is the declaration refused, which checks the
\* same again, and the range it ends up with, and has no handler.  What the
\* controls then hold is understood as it was, so that no limit drifts.
PlotsDeclared ==
  /\ Refused <=> \E a \in {X, Y} : LimitsMerge(a)
  /\ ReadAxis(Controls.x, DefaultX) = X /\ ReadAxis(Controls.y, DefaultY) = Y

\* "Points retain the caller's result order": every result of the page is a point
\* inside the frame, or left out for one stated reason.
PointsShowPage ==
  /\ \A i \in DOMAIN rows :
       (Omission(i) = "none") <=> (\E k \in DOMAIN Points : Points[k] = i)
  /\ \A j, k \in DOMAIN Points : j < k => Points[j] < Points[k]
  /\ \A k \in DOMAIN Points : \A a \in {X, Y} :
       LET t == Transform(Value[rows[Points[k]]][a.field], a.scale) IN
       /\ Domain(a).low <= t /\ t <= Domain(a).high
       \* a whisker reaches its point unless the stored interval leaves it out
       /\ (\E v, w \in StoredInterval(rows[Points[k]], a) :
             v <= Value[rows[Points[k]]][a.field] /\ Value[rows[Points[k]]][a.field] <= w)
          /\ ShowsUncertainty
          => \E u, v \in IntervalDrawn(rows[Points[k]], a) : u <= t /\ t <= v

\* Every axis that is drawn can be read: at least two numbers label it, and not
\* many more than its decades or ten, and they lie inside the range.
AxesReadable ==
  ~Refused => \A a \in {X, Y} :
    LET range == Domain(a)
        ticks == Ticks(a)
        low == IF a.scale = "log" THEN Exp(range.low) ELSE range.low
        high == IF a.scale = "log" THEN Exp(range.high) ELSE range.high
        decades == IF a.scale = "log" THEN (range.high - range.low) \div Unit ELSE 0
    IN  /\ Cardinality(ticks.major) >= 2
        /\ Cardinality(ticks.major) <= (IF decades > 9 THEN decades + 1 ELSE 10)
        /\ \A v \in ticks.major \cup ticks.minor : low <= v /\ v <= high
=============================================================================

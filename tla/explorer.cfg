\* Filters typed into a bare page, and a reader who filters, sorts and scripts.
SPECIFICATION MCSpec
CONSTANTS
  r1 = r1
  r2 = r2
  r3 = r3
  r4 = r4
  Null = Null
  Absent = Absent
  NoScript = NoScript
  NotANumber = NotANumber
  NoValue = NoValue
  Unlimited = Unlimited
  NumericFields = {"time", "ler"}
  Value <- MCValue
  Interval <- MCInterval
  Logarithm <- MCLogarithm
  DefaultX = "time"
  DefaultY = "ler"
  Populations <- MCPopulations
  AxisForms <- MCAxisForms
  Styles <- MCStyles
  Words <- MCWords
  FieldNames <- MCFieldNames
  Kind <- MCKind
  NullableFields <- MCNullableFields
  MetricFields <- MCMetricFields
  Results <- MCResults
  Row <- MCRow
  Substrings <- MCSubstrings
  Ampersands <- MCAmpersands
  DefaultSelect <- MCDefaultSelect
  DefaultOrder <- MCDefaultOrder
  DefaultPageSize = 3
  MaxPageSize = 4
  MaxFilterNodes = 5
  MaxFilterLength = 40
  MaxOrderFields = 2
  Facts <- MCFacts
  NoiseModels = {"si1000", "uniform"}
  Classes = {"cpu", "gpu"}
  TableFields <- MCTableFields
  Columns <- MCColumns
  DefaultColumns <- MCColumns
  NarrowView <- MCNarrowView
  DefaultSort <- MCDefaultSort
  DefaultDirection <- MCDefaultDirection
  KeepsSort = TRUE
  FilterSets <- MCFilterSets
  Chunks <- MCChunks
  MaxTyped = 12
  Scripts <- MCScripts
  DeepLinks <- MCDeepLinks
  MaxSortKeys = 2
CHECK_DEADLOCK FALSE
INVARIANTS
  DraftsKeepMeaning
  DraftsDivide
  LinksAnswerPage
  PointsShowPage
  AxesReadable
PROPERTIES
  LastValidSurvives
  ClicksFollowMarks

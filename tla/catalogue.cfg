\* A decoder, two circuits, a machine and a result, revised, reviewed and
\* withdrawn, with a benchmark and an attempt at it.
SPECIFICATION MCSpec
CONSTANTS
  d1 = d1
  d2 = d2
  d3 = d3
  c1 = c1
  c2 = c2
  m1 = m1
  m2 = m2
  r1 = r1
  r2 = r2
  told = told
  bare = bare
  Accounts = {root}
  FirstAdmins = {root}
  Bodies = {told, bare}
  Described = {told}
  Toggled = {}
  MaxEdits = 1
  MaxSteps = 12
  Records <- MCRecords
  KindOf <- MCKindOf
  ColumnValue <- MCColumnValue
  SortTexts <- MCSortTexts
  NoRecord = NoRecord
  System = System
CHECK_DEADLOCK FALSE
INVARIANTS
  PagesResolve
  DescriptionsFound
  OffersHonoured
  UnchangedEditKeeps
  WithdrawnSourceNeedsReview
PROPERTIES
  OrderFollowsResults
  CompletenessKept

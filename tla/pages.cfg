\* The editor: the candidate is a result or a circuit; 9 is the largest value of
\* a BIGINT, 5 of an INTEGER, 40 the decimal 1, and columns keep multiples of 4.
\* The dialog: pages of one record.  The filters: 1 stands for a limit that is no
\* whole number and 2 for one that is.
SPECIFICATION MCSpec
CONSTANTS
  EvaluatorOf <- MCEvaluatorOf
  Drafts <- MCDrafts
  Fine = 4
  Small = 8
  One = 40
  ValueLimit = 200
  DurationLimit = 400
  IntMax = 5
  BigMax = 9
  Null = Null
  p1 = p1
  p2 = p2
  p3 = p3
  Found <- MCFound
  NoText = ""
  PageSize = 1
  MaximumSelections = 2
  SelectionRequired = FALSE
  MaxOpened = 2
  MaxTyped = 3
  Options = {"", "yes"}
  AnyOption = ""
  Limits = {1, 2}
  Fractions = {1}
  Tags = {"t"}
  Rules = {"any"}
  Selections = {{"p"}}
  ReducedMotion = FALSE
  Blank = Blank
  MaxEdits = 2
CHECK_DEADLOCK FALSE
INVARIANTS
  PreviewsStorable
  SnapshotMatchesEditor
  RepostUnchanged
  SettledDialogAnswers
PROPERTIES
  EditsNotDropped
  QueryFollowsForm

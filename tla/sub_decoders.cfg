\* Three decoder versions in one or several histories, and one account that
\* submits them, whose flags change.
SPECIFICATION Spec
CONSTANTS
  Decoders = {d1, d2, d3}
  Circuits = {}
  Results = {}
  Machines = {}
  Accounts = {root}
  FirstAdmins = {root}
  Bodies = {b1}
  Described = {b1}
  Toggled = {root}
  MaxEdits = 2
  Records <- MCRecords
  KindOf <- MCKindOf
  NoRecord = NoRecord
  System = System
SYMMETRY RecordSymmetry
CHECK_DEADLOCK FALSE
INVARIANTS
  TypeOK
  HistoryProjectsState
  ReapprovalKeepsLineage
PROPERTIES
  ImplementsLifecycle

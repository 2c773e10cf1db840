\* The agreement validate_histories checks, refuted.
SPECIFICATION Spec
CONSTANTS
  Decoders = {d1, d2}
  Circuits = {}
  Results = {}
  Machines = {}
  Accounts = {root}
  FirstAdmins = {root}
  Bodies = {b1}
  Described = {b1}
  Toggled = {}
  MaxEdits = 1
  Records <- MCRecords
  KindOf <- MCKindOf
  NoRecord = NoRecord
  System = System
SYMMETRY RecordSymmetry
CHECK_DEADLOCK FALSE
INVARIANTS
  LineageAgreesWithHistory

\* The editor refuses every edit of a candidate for reapproval.
SPECIFICATION PreviewsSpec
CONSTANTS
  Decoders = {d1, d2}
  Circuits = {}
  Results = {}
  Machines = {}
  First = {d1}
  Candidates = {}
  Requests = {t1}
  PreviewIds = {p1}
  Accounts = {root}
  FirstAdmins = {root}
  Bodies = {b1}
  Described = {b1}
  Toggled = {}
  User = root
  PreviewLimit = 2
  MaxEdits = 1
  Records <- MCRecords
  KindOf <- MCKindOf
  Stored <- First
  Published <- MCPublished
  StoredFields <- MCStoredFields
  Forms <- PlainForms
  NoRecord = NoRecord
  System = System
SYMMETRY MCSymmetry
CHECK_DEADLOCK FALSE
INVARIANTS
  CandidatesEditable

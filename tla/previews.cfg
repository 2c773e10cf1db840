\* Two requests of one browser over a candidate result and what it refers to.
SPECIFICATION PreviewsSpec
CONSTANTS
  Decoders = {d1}
  Circuits = {c1}
  Results = {r1, r2}
  Machines = {m1}
  First = {d1, c1, m1, r1}
  Candidates = {r1}
  Requests = {t1, t2}
  PreviewIds = {p1, p2}
  Accounts = {root}
  FirstAdmins = {root}
  Bodies = {b1}
  Described = {b1}
  Toggled = {}
  User = root
  PreviewLimit = 1
  MaxEdits = 1
  Records <- MCRecords
  KindOf <- MCKindOf
  Stored <- First
  Published <- MCPublished
  StoredFields <- MCStoredFields
  Forms <- MCForms
  NoRecord = NoRecord
  System = System
SYMMETRY MCSymmetry
CHECK_DEADLOCK FALSE
PROPERTIES
  StalePreviewsRespectState
  StalePreviewsRevalidated

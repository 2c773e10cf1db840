\* An approval and a withdrawal of a record it refers to.
SPECIFICATION TxnSpec
CONSTANTS
  Decoders = {d1}
  Circuits = {c1}
  Results = {r1}
  Machines = {m1}
  First = {d1, c1, r1, m1}
  Candidates = {r1}
  RequestCount = 2
  Accounts = {root}
  FirstAdmins = {root}
  Bodies = {b1}
  Described = {b1}
  Toggled = {}
  Operations = {"withdraw", "approve"}
  MaxEdits = 9
  Records <- MCRecords
  KindOf <- MCKindOf
  Stored <- First
  Published <- MCPublished
  StoredFields <- MCStoredFields
  Forms <- MCForms
  NoRecord = NoRecord
  NoRequest = NoRequest
  System = System
CHECK_DEADLOCK FALSE
PROPERTIES
  PublishedWithItsReferences

\* Three requests of every kind on a published decoder version, a candidate and
\* two records to come.
SPECIFICATION FairTxnSpec
CONSTANTS
  Decoders = {d1, d2, d3, d4}
  Circuits = {}
  Results = {}
  Machines = {}
  First = {d1, d2}
  Candidates = {d2}
  RequestCount = 3
  Accounts = {root}
  FirstAdmins = {root}
  Bodies = {b1}
  Described = {b1}
  Toggled = {}
  Operations = {"create", "successor", "replace", "update", "withdraw", "approve"}
  MaxEdits = 9
  Records <- MCRecords
  KindOf <- MCKindOf
  Stored <- First
  Published <- MCPublished
  StoredFields <- MCStoredFields
  Forms <- MCForms
  NoRecord = NoRecord
  NoRequest = NoRequest
  System = System
CHECK_DEADLOCK FALSE
INVARIANTS
  DeadlocksNeedUnlockedLineage
  SequencesContinuous
PROPERTIES
  CommitsAreOperations
  PublicRecordFrozen
  EveryRequestEnds

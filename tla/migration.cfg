\* Three records whose steps were recorded or not, migrated twice and validated.
SPECIFICATION MigrationSpec
CONSTANTS
  Records = {1, 2, 3}
  Decoders = {1}
  Person = Person
  NoRecord = NoRecord
  KindOf <- MCKindOf
  Fields <- MCFields
  Submitter <- MCSubmitter
  MaxLegacy = 3
CHECK_DEADLOCK FALSE
INVARIANTS
  MigratedValidates
  OneHistoryPerLineage
PROPERTIES
  RecordedOrderKept

SPECIFICATION Spec
CHECK_DEADLOCK FALSE
INVARIANTS
     SharingBackrefsMatch
  ConvertRollbackRestores RaidReadsBack ScrubRecordIsTrue
PROPERTY SharingSnapshotsAreKept

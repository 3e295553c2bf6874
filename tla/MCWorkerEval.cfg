SPECIFICATION FairSpec
CONSTANTS
  MaxEvents = 3
  Versions <- MCVersions
  RuleCount <- MCRuleCount
INVARIANTS
  NoStaleCancel
  BlameIsRight
  MemoPerEvent
  OneSnapshotPerEvent
PROPERTIES
  EventFinishes

CONSTANTS
  t1 = t1
  t2 = t2
  Coordinator = Coordinator
  MaxShards = 2
  ShardCounts = {2}
  Template = {t1}
  Faults <- AnyWait
SPECIFICATION FairSpec
PROPERTY ReportedGetsAdded
CHECK_DEADLOCK FALSE

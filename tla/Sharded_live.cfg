CONSTANTS
  t1 = t1
  t2 = t2
  Coordinator = Coordinator
  MaxShards = 1
  ShardCounts = {0,1}
  Template = {t1}
  Faults <- CrashEdit
SPECIFICATION FairSpec
PROPERTIES SignalArrives CoordinatorFinishes Converges
CHECK_DEADLOCK FALSE

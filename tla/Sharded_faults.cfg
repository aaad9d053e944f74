CONSTANTS
  t1 = t1
  t2 = t2
  Coordinator = Coordinator
  MaxShards = 2
  ShardCounts = {1,2}
  Template = {t1,t2}
  Faults <- OneAndTouch
SPECIFICATION Spec
INVARIANTS TypeOK JoinedUnlessFault RestMeansDone
PROPERTY MembershipSpec
CHECK_DEADLOCK FALSE

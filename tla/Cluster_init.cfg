CONSTANTS
  MaxPods = 2
  Instances = {0,1,2}
  Sharded = {TRUE,FALSE}
  NoPod = NoPod
  Faults <- OneFault
SPECIFICATION FairSpec
INVARIANTS TypeOK BootstrappedOnce
PROPERTIES UpdatesKept EventuallyInitialized NodesFollow

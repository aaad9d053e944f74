CONSTANTS
  MaxPods = 1
  Instances = {0,1}
  Sharded = {FALSE}
  NoPod = NoPod
  Faults <- Edited
SPECIFICATION FairSpec
PROPERTY NodesObserved

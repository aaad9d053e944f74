CONSTANTS
  Op = {s1}
  Kind = {restart, vacuum}
  MaxWorkers = 2
  NoKind = NoKind
  NoOp = NoOp
  Faults <- TwoFaults
SPECIFICATION FairSpec
INVARIANTS TypeOK ProgressIsReal NoRequestDropped
PROPERTIES LedgersKept EveryClusterServed

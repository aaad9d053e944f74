CONSTANTS
  o1 = o1
  o2 = o2
  p1 = p1
  p2 = p2
  NoOp = NoOp
  Op = {o1}
  RestartOp = {o1}
  AnnotatedOp = {}
  Pod = {p1,p2}
  Initialized <- AlreadyInitialized
  Budget <- FaultFree
SPECIFICATION HSpec
INVARIANT TypeOK
PROPERTIES CompletedMeansActed OncePerPosting LedgerSpec
SYMMETRY PodSymmetry

CONSTANTS
  o1 = o1
  o2 = o2
  p1 = p1
  p2 = p2
  NoOp = NoOp
  Op = {o1,o2}
  RestartOp = {o1}
  AnnotatedOp = {}
  Pod = {p1}
  Initialized <- NotInitialized
  Budget <- OneError
SPECIFICATION HSpec
INVARIANT NoRequestLost
PROPERTIES OncePerPosting LedgerSpec

CONSTANTS
  o1 = o1
  o2 = o2
  p1 = p1
  p2 = p2
  NoOp = NoOp
  Op = {o1,o2}
  RestartOp = {o1}
  AnnotatedOp = {o1,o2}
  Pod = {p1}
  Initialized <- AlreadyInitialized
  Budget <- NoTouch
SPECIFICATION LiveSpec
PROPERTIES CompletedMeansActed OpCompletes RestartsStop

CONSTANTS
  Pass <- OneOfEachKind
  Pod = {p1}
  MaxBeats = 2
  MaxTries = 2
  Faults <- OneFault
SPECIFICATION FairSpec
INVARIANTS TypeOK SecretOwnedAtRest PodsShare KeptAwake
PROPERTIES PatroniDataKept StaysInOrder CleanedUp
CHECK_DEADLOCK FALSE

CONSTANTS
  Pass <- SetAndSecret
  Pod = {p1}
  MaxBeats = 2
  MaxTries = 2
  Faults <- NoFault
SPECIFICATION Spec
PROPERTY PasswordsKept

SPECIFICATION Spec
CONSTANTS
  IdentMax = 6
  MaxAttempts = 3
  Openings <- MCInvalid
INVARIANTS
  InvalidRefused

CONSTANTS
  Limbs = 3
  Bits = 4
  Fold = 3
  Word = 12
  A24 = 67
  Order = 521
  RandomKeys <- MCRandomKeys
  Strangers <- MCStrangers
  Sha512 <- MCSha512
  Seeds = {1234, 0}
  Messages = {7, 8}
  ForeignKeys <- MCForeignKeys
  ForeignPoints <- MCForeignPoints
SPECIFICATION Spec
CHECK_DEADLOCK FALSE
INVARIANT LadderKeepsMultiples
INVARIANT LadderIsRfc7748
INVARIANT AgreedSecret
INVARIANT SignaturesVerify
INVARIANT VerdictIsRfc8032

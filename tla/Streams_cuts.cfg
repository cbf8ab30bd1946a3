SPECIFICATION Spec
CONSTANTS
  Sha256 <- MCSha256
  Sha512 <- MCSha512
  DigestSize = 2
  MacKeyLens = {0, 3, 4, 5, 9}
  Secrets <- MCSecrets
  KeyLens = {0, 1, 2, 3, 4, 5, 6}
  AES_BLOCK_SIZE = 3
  CtrBase = 2
  Texts <- MCTexts
  MaxLen = 13
INVARIANTS
  DigestOfWhole
  MacOfWhole
  KeyOfRfc4253
  StreamPosition
  Base64OfRfc4648

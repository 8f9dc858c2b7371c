SPECIFICATION CryptoSpec
CONSTANTS
  here = here
  abroad = abroad
  s1 = s1
  s2 = s2
  d1 = d1
  d2 = d2
  p1 = p1
  p2 = p2
  Pair <- Pairs
  Foreign <- ForeignPairs
  Secret <- Secrets
  Data <- Texts
  Param <- Params
  MaxKeys = 3
INVARIANTS KeysAreNative ExportsAreStandard OutputsAreStandard VerifyIsRight DecryptsAesGcm

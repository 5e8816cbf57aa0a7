SPECIFICATION Spec
CONSTANTS
  tA = tA
  tB = tB
  tSlash = tSlash
  tDot = tDot
  tShort = tShort
  sGood = sGood
  sBad = sBad
  sLong = sLong
  Unset = Unset
  Texts <- MCTexts
  Secrets <- MCSecrets
  Malformed <- MCMalformed
  Reading <- MCReading
  Totp <- MCTotp
  UserPins <- MCUserPins
  Layouts <- MCLayouts
  MaxUpdates = 3
  MaxInFlight = 2
  MaxTime = 1
  MaxLaunch = 2
INVARIANTS
  TypeOK
  AutoCodeIsConfigured
  EnvPinOnce
  KeptPinSameSource
PROPERTIES
  NoAutoRetry
  NoAutoAfterRefusal
  KeepsContract
CHECK_DEADLOCK FALSE

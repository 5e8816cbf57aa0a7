SPECIFICATION MCSpec
CONSTANTS
  tA = tA
  acc = acc
  Unset = Unset
  Empty = Empty
  Absent = Absent
  Texts <- MCTexts
  Secrets <- MCSecrets
  Malformed <- MCSecrets
  Reading <- MCReading
  Totp <- MCTotp
  UserPins <- MCUserPins
  Layouts <- MCLayouts
  MaxUpdates = 2
  MaxInFlight = 1
  MaxTime = 1
  LoginTexts <- MCLoginTexts
  LoginReading <- MCLoginReading
  Remembered = acc
  Typed <- MCTyped
  MaxRequests = 2
  MaxTyped = 1
  MaxLaunch = 2
PROPERTIES
  PinSpec
  NoAutoRetry
  NoAutoAfterRefusal
  FirstPinAnswered
CHECK_DEADLOCK FALSE

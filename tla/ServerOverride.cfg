SPECIFICATION Spec
CONSTANTS
  t302 = t302
  t70000 = t70000
  tWord = tWord
  tLong = tLong
  gText = gText
  Empty = Empty
  NotANumber = NotANumber
  Addresses <- MCAddresses
  Numerals <- MCNumerals
  Reading <- MCReading
  Stoi <- MCStoi
  GameTexts <- MCGameTexts
  GamePorts <- MCGamePorts
  GameIds <- MCGameIds
  MaxRequests = 2
INVARIANTS
  TypeOK
  TextsAsConfigured
  NumbersAsConfigured
  OnlyTheIdIsFixed
PROPERTIES
  RepeatedAlike
CHECK_DEADLOCK FALSE

SPECIFICATION Spec
CONSTANTS
  tOne = tOne
  tZero = tZero
  tWord = tWord
  tLong = tLong
  Absent = Absent
  NotANumber = NotANumber
  Number <- MCNumber
  Layouts <- MCLayouts
  Cases <- MCCases
  MaxNotify = 2
  MaxFailing = 1
INVARIANTS
  TypeOK
  HooksOnce
  RequestEndsFirstrun
  ArgumentsAsMeant
  SwitchesAsMeant
CHECK_DEADLOCK FALSE

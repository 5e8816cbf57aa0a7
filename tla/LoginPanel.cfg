SPECIFICATION FairSpec
CONSTANTS
  acc = acc
  pwd = pwd
  long = long
  Empty = Empty
  Absent = Absent
  Texts <- MCTexts
  Reading <- MCReading
  Remembered = acc
  Typed <- MCTyped
  MaxRequests = 2
  MaxTyped = 2
  MaxLaunch = 2
INVARIANTS
  TypeOK
  LoginFromOneSource
  EnvLoginOnce
  AutoOnlyFirst
  AutoSendsLogin
PROPERTIES
  AutoLogin
CHECK_DEADLOCK FALSE

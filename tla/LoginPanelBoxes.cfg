SPECIFICATION Spec
CONSTANTS
  acc = acc
  pwd = pwd
  long = long
  Empty = Empty
  Absent = Absent
  Texts <- MCTexts
  Reading <- MCReading
  Remembered = acc
  Typed <- MCTyped
  MaxRequests = 2
  MaxTyped = 2
  MaxLaunch = 1
PROPERTY OpenLeavesBoxes
CHECK_DEADLOCK FALSE

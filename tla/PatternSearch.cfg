SPECIFICATION Spec
CONSTANTS
  Nibbles <- MCNibbles
  Zero = 0
  Any = Any
  Other = Other
  MaxPattern = 5
  MaxData = 3
INVARIANTS
  FindsFirst
CHECK_DEADLOCK FALSE

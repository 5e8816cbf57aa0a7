SPECIFICATION Spec
CONSTANTS
  Plain <- MCPlain
  Arbitrary <- MCArbitrary
  Jobs <- MCJobs
  Unasked = Unasked
INVARIANTS
  RoundTrip
  DecodesDigits
  PaddingAsEncoded
  ScheduleIsSHA1
  CodesAsTested
  PinIsCode
CHECK_DEADLOCK FALSE

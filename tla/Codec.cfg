SPECIFICATION Spec
CONSTANTS
  Radix = 3
  Inputs <- MCInputs
  BufSizes = {7, 90}
  MaxCount = 1
INVARIANTS TypeOK AnnouncedIsWritten RoundTrip OwnBytesOnly
CHECK_DEADLOCK FALSE

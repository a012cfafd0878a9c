SPECIFICATION Spec
CONSTANTS
  Radix = 3
  Inputs <- MCSubacks
  BufSizes = {7}
  MaxCount = 1
INVARIANTS GrantedFit
CHECK_DEADLOCK FALSE

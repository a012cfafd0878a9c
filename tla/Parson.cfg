SPECIFICATION Spec
CONSTANTS
  Values = {v1, v2, v3, v4}
  Names <- MCNames
  Scalars <- MCScalars
  Texts <- MCTexts
  Epsilon = 2
  Plenty = 30
  StartCapacity = 1
  MaxNesting = 2
  MaxHeld = 2
  NULL = NULL
  Stale = Stale
SYMMETRY MCSymmetry
INVARIANTS TypeOK TreeInv NothingLost EqualsIsSame RoundTrip DotNamesAgree NewIsTold
PROPERTIES Promise

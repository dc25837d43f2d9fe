SPECIFICATION Spec
CONSTANTS
  MaxImages = 3
INVARIANTS
  ImageHasItsTime

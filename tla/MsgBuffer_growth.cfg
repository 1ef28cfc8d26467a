CONSTANTS
  InitialSize = 4
  ExtraSize = 3
  Chunks = {0, 1, 2, 3, 5}
  MaxBytes = 12
SPECIFICATION Spec
INVARIANT ReadsBack

SPECIFICATION Spec
CONSTANTS
  Sections <- MCSections
  Allocates = {TRUE, FALSE}
  CodeLengths <- MCCodeLengths
INVARIANTS Decompresses StaysInside TablesDecode

SPECIFICATION Spec
CONSTANTS
  MaxIndexRK = 1
  FieldsPerFlush = 2
  MaxRegs = 20
  Programs <- MCPrograms
INVARIANTS MeansTheSame CodeSound RefusesTheIllegal
PROPERTY Ends

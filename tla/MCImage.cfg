SPECIFICATION Spec
CONSTANTS
  Bootstrapped <- MCKernel
  ClassSlots = 6
  SpecialSlots = 3
  HeapCap = 14
  ImmCap = 11
  Immediates <- MCImmediates
  Names <- MCNames
  Slots = {1}
  Foreign <- MCForeign
  Elsewhere <- MCElsewhere
  MaxOps = 5
CONSTRAINT Bound
CHECK_DEADLOCK FALSE
INVARIANTS ImageReadsBack DamagedIsRejected SymbolsInterned
PROPERTY FailedLoadIsConfined

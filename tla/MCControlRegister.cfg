SPECIFICATION Spec
CONSTANTS
  Writes <- MCWrites
  Registers <- MCRegisters
INVARIANT TypeOK
PROPERTIES
  ImplementsPacked
  ReadsBackWrites

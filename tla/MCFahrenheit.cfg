SPECIFICATION Spec
CONSTANTS
  Writes <- FahrenheitWrites
  Registers <- MCRegisters
PROPERTY ReadsBackWrites

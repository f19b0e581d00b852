CONSTANTS
  Symbol <- MCSymbol
  SizeModulus = 1000000000
  Crc <- MCCrc
  Inputs <- MCInputs
SPECIFICATION Spec
INVARIANTS
  
  
  NegativeNumbersAreLarge
  
  
  LogIsReadUpToTheCut
  OffsetsLeadToRecords
CHECK_DEADLOCK FALSE

\* Two instructions, over registers of eight bits.
SPECIFICATION ALUSpec
CONSTANTS
  WordSize = 8
  Instructions <- MCInstructions
  MaxExecuted = 2
PROPERTIES
  DoesAsCommented
\* A program ends.
CHECK_DEADLOCK FALSE

\* Every kind of register at the edges of its type, its limits and its flag.
SPECIFICATION Spec
CONSTANTS
  Registers <- MCRegisters
  Content <- MCContent
  Asked <- MCAsked
  None = None
INVARIANTS TypeOK ReadsAndWritesAgree
PROPERTIES MenuKeepsValue WriteBackKeepsWords

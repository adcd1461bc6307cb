CONSTANTS
  HighBytes <- Bytes
  Inputs <- Everything
  Root <- Main
  Library <- Lib
  Depth = 5
SPECIFICATION LoadSpec
INVARIANTS TokensExact TreesExact ProgramsKept ModulesExact
CHECK_DEADLOCK FALSE

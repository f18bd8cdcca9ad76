SPECIFICATION Spec
CHECK_DEADLOCK FALSE
CONSTANTS
  Trees <- Mixes
  Symbols <- ASymbols
  Stems <- AStems
  MaxRuns = 2
INVARIANTS Complete OrderDecidesNothing FreshWorkspace

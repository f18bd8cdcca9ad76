CONSTANTS
  Rows <- MCRows
  Grids <- MCGrids
  Callees <- MCCallees
  Jobs <- MCJobs
SPECIFICATION Spec
CHECK_DEADLOCK FALSE
INVARIANTS
  SharingKept
  MarksParams
  EmittedCompiles
  ReadOnlyAccepted

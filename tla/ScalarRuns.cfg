SPECIFICATION PSpec
CONSTANTS
  Half = 8
  Bits = 4
  Callees <- CalleesDef
  Jobs <- JobsDef
  Programs <- ProgramsDef
  Fuel = 3
  Pending = FALSE
INVARIANTS CompilesAlike GuardsFire LiftMeans RoundTrips
CHECK_DEADLOCK FALSE

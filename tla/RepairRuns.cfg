SPECIFICATION FairSpec
CONSTANTS
  f = f
  g = g
  u64 = u64
  u32 = u32
  repr = repr
  Bare = bare
  Symbols = {f, g}
  Forms = {u64, u32, repr}
  Programs <- AllPrograms
  Flaky = FALSE
INVARIANTS FailClosed CountsAgree RepairsWhatItCan
PROPERTY Ends
CHECK_DEADLOCK FALSE

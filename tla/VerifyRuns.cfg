SPECIFICATION FairHSpec
CONSTANTS
  f = f
  g = g
  u64 = u64
  u32 = u32
  Bare = bare
  Symbols = {f, g}
  Forms = {u64, u32}
  Programs <- Bodies
  Jobs <- AllJobs
  Flaky = TRUE
INVARIANTS HonestExit NoSilentAgreement NothingLeft
PROPERTY HEnds
CHECK_DEADLOCK FALSE

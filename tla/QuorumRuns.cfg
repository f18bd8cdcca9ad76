SPECIFICATION FairSpec
CONSTANTS
  t1 = t1
  t2 = t2
  Lowerings = {t1, t2}
  NaN = NaN
  NoText = none
  Texts <- AllTexts
  Prints <- MCPrints
  Expected <- MCExpected
  RustcKernel = "right"
  Tolerance = 0
  Jobs <- MCJobs
INVARIANTS VotersRan VerdictIsOwn
PROPERTY Ends
CHECK_DEADLOCK FALSE

SPECIFICATION Spec
CONSTANTS
  PageWords = 11
  HeapBase = 1
  KeyKind = "Int"
  Keys <- IntKeys
  Vals <- IntVals
  Content <- NoText
  Callers = {d}
  Callees = {c}
  Params = {p, q}
  SetNames = {}
  NoName = NoName
  Slack = 1
  MaxItems = 1
  ForeignBytes = {}
  Removals = TRUE
  EmptyAlgebra = FALSE
  NestedSetDefault = FALSE
VIEW ReadableView
INVARIANTS RecordsInside ReadsExact OneOwner TrapOnlyWhenFull
PROPERTY ImplementsPython

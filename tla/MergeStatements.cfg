SPECIFICATION Spec
CONSTANTS
  PageWords = 13
  HeapBase = 1
  KeyKind = "Int"
  Keys <- IntKeys
  Vals <- IntVals
  Content <- NoText
  Callers = {d}
  Callees = {}
  Params = {}
  SetNames = {}
  NoName = NoName
  Slack = 1
  MaxItems = 2
  ForeignBytes = {4, 12}
  Removals = FALSE
  EmptyAlgebra = FALSE
  NestedSetDefault = FALSE
VIEW ReadableView
INVARIANTS RecordsApart ForeignIntact
PROPERTIES ImplementsPython OrderKept

SPECIFICATION Spec
CONSTANTS
  PageWords = 12
  HeapBase = 1
  KeyKind = "Int"
  Keys <- IntKeys
  Vals <- ZeroOnly
  Content <- NoText
  Callers = {s, t}
  Callees = {}
  Params = {}
  SetNames = {s, t}
  NoName = NoName
  Slack = 1
  MaxItems = 1
  ForeignBytes = {}
  Removals = TRUE
  EmptyAlgebra = TRUE
  NestedSetDefault = FALSE
VIEW ReadableView
INVARIANT GrowthMakesRoom

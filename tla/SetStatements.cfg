SPECIFICATION FairSpec
CONSTANTS
  PageWords = 14
  HeapBase = 1
  KeyKind = "Str"
  Keys <- StrKeys
  Vals <- ZeroOnly
  Content <- StrText
  Callers = {s, t}
  Callees = {}
  Params = {}
  SetNames = {s, t}
  NoName = NoName
  Slack = 1
  MaxItems = 1
  ForeignBytes = {}
  Removals = TRUE
  EmptyAlgebra = FALSE
  NestedSetDefault = FALSE
VIEW ReadableView
INVARIANTS ReadsExact KeysDistinct
PROPERTIES ImplementsPython LoopsEnd

SPECIFICATION Spec
CONSTANTS
  PageWords = 12
  HeapBase = 1
  KeyKind = "Int"
  Keys <- TwoVals
  Vals <- TwoVals
  Content <- NoText
  Growable = {a, p}
  Others = {b}
  Params = {p}
  NoName = NoName
  ListSlack = 1
  Idx <- SomeIdx
  MaxLit = 1
  Given <- PassedTwo
  Spare = {1}
  Table <- OneEntry
  SelfPops = FALSE
VIEW ListView
INVARIANTS ListsInside ListsApart
PROPERTY ImplementsPython

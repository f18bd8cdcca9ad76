SPECIFICATION Spec
CONSTANTS
  Half = 8
  Bits = 4
  Bodies <- OneOrTwo
  Orders <- ElementOrders
  StartEnv <- Locals
  MixedFolds = FALSE
INVARIANTS LoopAgrees TrapsWhenDue
CHECK_DEADLOCK FALSE

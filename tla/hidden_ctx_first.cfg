SPECIFICATION Spec
CONSTANTS
  ParamLists <- UpToThreeParams
  ActLists <- UpToTwoActs
  Unset = Unset
INVARIANTS CtxFirstReads
CHECK_DEADLOCK FALSE

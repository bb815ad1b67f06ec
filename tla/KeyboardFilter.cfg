SPECIFICATION Spec
CONSTANTS
  Keys = {"lshift", "lalt", "caps", "fn", "a", "x"}
  Physical = {"lshift", "lalt", "caps", "fn", "a"}
  NoKey = NoKey
  FnFunctionMap <- NoMap  FnMap <- MCFnMap  CtrlMap <- NoMap  NumLockMap <- NoMap
  UserMaps <- MCUserMaps
  OptionSets <- MCOptionSets
  Settable = {"caps"}
  Restore = FALSE
  MaxHeld = 3
  MaxBlocks = 1
CONSTRAINT
  Claimed
INVARIANTS
  TypeOK
  NothingStuck
PROPERTIES
  KeysAccounted
CHECK_DEADLOCK FALSE

SPECIFICATION Spec
CONSTANTS
  Bottles = {steam, extra}
  SteamBottle = steam
  WithSteam = {steam, extra}
  Removable = {steam}
  Foreign = {old}
  Workers = {w1, w2}
CHECK_DEADLOCK FALSE
INVARIANTS
  OneOperationAtATime
  ActsOnShownSelection
PROPERTIES
  ReplacedDriverKept

SPECIFICATION Spec
CONSTANTS
  Shape <- TallAndLow
  Loads <- Anywhere
  Skips = {0}
  Races = {1}
INVARIANT SameKeysAfterReboot
CHECK_DEADLOCK FALSE

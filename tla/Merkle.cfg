SPECIFICATION Spec
CONSTANTS
  Shape <- ThreeLevels
  Loads <- NotAtTheEnd
  Skips = {0, 5}
  Races = {0, 1}
INVARIANTS TypeOK ActivePopulated SameKeysAfterReboot
PROPERTIES SignsAsPromised ReloadIsInvisible
CHECK_DEADLOCK FALSE

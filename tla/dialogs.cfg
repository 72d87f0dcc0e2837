SPECIFICATION Spec
CONSTANTS
  Places = 3
  MaxWindows = 2
  MaxEntries = 2
  MaxPoints = 2
  MaxSteps = 1
  MaxTargets = 2
  Users <- SomeUsers
INVARIANTS
  DialogsTypeOK
  TargetFollowsText
  ZoneCornersConfirmed
  DuplicatesNeedAFailure
  WritesOwnSteps
  KeysTakenOnlyWhenArmed

SPECIFICATION Spec
CONSTANTS
  Scripts = {blank, a}
  Values = {blank, a}
  Blank = blank
  Other = other
  None = none
  MaxHubs = 2
INVARIANTS
  HubTypeOK
  ScriptFollowsEditor
  OnlyKnownAreUnsaved
PROPERTIES
  PreservedOnClose

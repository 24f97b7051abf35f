SPECIFICATION Spec
CONSTANTS
  NumFiles = 4
  Old <- MCOld
  Content <- MCContent
  Checked <- MCChecked
  Options <- MCOptions
  MaxRuns = 3
INVARIANTS
  Md5AlwaysSound
CHECK_DEADLOCK FALSE

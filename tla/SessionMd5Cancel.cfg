SPECIFICATION Spec
CONSTANTS
  NumFiles = 4
  Old <- MCOld
  Content <- MCContent
  Checked <- MCChecked
  Options <- MCOptions
  MaxRuns = 3
PROPERTIES
  CancelKeepsIndices
CHECK_DEADLOCK FALSE

SPECIFICATION FairSpec
CONSTANTS
  Controls <- MCControls
  Pages <- MCPages
  On <- MCOn
  Key <- MCKey
  Path <- MCPath
  Blocked = {"refused"}
  Fields = {"name"}
  Password = {"password"}
  Costly = {}
  Withheld = {}
  LabelClass <- MCLabelClass
  Named <- MCNamed
  MaxSteps = 3
  MaxScrolls = 2
  MaxQuestions = 1
  None = None
INVARIANTS
  AutopilotInv
  RunningIsDriven
  NoSecondClick
  HandedBack
PROPERTIES
  ComesToRest
CHECK_DEADLOCK FALSE

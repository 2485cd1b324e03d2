SPECIFICATION Spec
CONSTANTS
  MaxAnswers = 2
  UserKinds = {"none"}
  Shapes <- MCShapes
  Asks <- MCAsks
INVARIANT
  GeminiResultsNamed

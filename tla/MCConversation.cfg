SPECIFICATION Spec
CONSTANTS
  MaxAnswers = 2
  UserKinds = {"none", "image", "remote", "audio"}
  Shapes <- MCShapes
  Asks <- MCAsks
INVARIANTS
  TypeOK
  ProviderHearsAll
  HeardInOrder
  ResultsFindTheirCalls
  RequestIsLegal
  ParametersHeard
  ClientGetsAnswer

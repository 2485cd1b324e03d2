SPECIFICATION Spec
CONSTANTS
  Providers <- MCProviders
  MaxEvents = 6
  MaxCalls = 3
INVARIANTS
  TypeOK
  AnthropicGrammar
  AssembledIsWhole
  ClientSeesWhole
  NothingInvented
  OutcomeReported
CHECK_DEADLOCK FALSE

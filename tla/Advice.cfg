SPECIFICATION Spec
CONSTANTS
  Presses <- MCPresses
  Kind <- MCKind
  Things <- MCThings
  OffAnswers <- MCOffAnswers
  Deciders <- MCDeciders
  Scopes <- MCScopes
CHECK_DEADLOCK FALSE
INVARIANTS
  AdviceLedgered
  DecidedOnce
  Grounded

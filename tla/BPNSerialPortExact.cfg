SPECIFICATION Spec
CONSTANTS
  SeqMax = 3
  MaxCommands = 8
  MaxFailures = 3
  Faults <- TelegramFails
INVARIANT AnswerMatches
INVARIANT RecoversSoon
INVARIANT SuccessIsAccepted

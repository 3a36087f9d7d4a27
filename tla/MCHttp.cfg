SPECIFICATION Spec
CONSTANTS
  Names = {gain, offset}
  Asked <- SomeCommands
  Nothing = Nothing
SYMMETRY Symmetry
INVARIANTS
  SentIsRequested
  AnswerSaysWhatHappened

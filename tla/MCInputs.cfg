SPECIFICATION SpecPart
CONSTANTS
  Children <- SomeChildren
  Definitions <- SomeDefinitions
  Values = {0, 1}
  Missing = Missing
  Void = Void
  AnyName = AnyName
  Word = 4
  MaxSignals = 3
  MaxParameters = 2
  MaxLength = 5
  MaxChars = 5
  MaxTokens = 9
INVARIANTS
  SignalsInTheirPlaces
  ParametersFollowConfiguration
  SanitizeKeepsText
  NothingIsLost
  VerdictsAreMeant
  DamagedCodeEnds
CHECK_DEADLOCK FALSE

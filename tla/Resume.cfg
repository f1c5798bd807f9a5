CONSTANTS
  Sessions <- MCSessions
  Projects = {1, 2}
  MaxNodes = 3
  MaxCommands = 1
  Ledgers <- MCLedgers
  Dependencies <- MCDependencies
SPECIFICATION FairSpec
INVARIANTS
  AnswerIsCurrent
  OfferIsFresh
PROPERTY WorkGetsDone

SPECIFICATION FairSpec
CONSTANTS
  Answers <- AllAnswers
  MaxFaults = 5
INVARIANTS
  TypeOK
  OneConnection
  AnswersAreFresh
  FaultsBeforeFailure
PROPERTIES
  ImplementsHttpCall
  CallAdvances
  CallEnds
CHECK_DEADLOCK FALSE

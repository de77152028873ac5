SPECIFICATION FairSpec
CONSTANTS
  MaxExecutions = 3
  MaxEvents = 2
  MaxCommands = 2
  MaxFaults = 2
INVARIANTS
  TypeOK
  DeletedWasExecuted
  RepetitionsHaveCause
PROPERTIES
  ImplementsOutbox
  CommandsGetThrough
  EventsGetThrough
CHECK_DEADLOCK FALSE

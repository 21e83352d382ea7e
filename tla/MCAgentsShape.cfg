CONSTANTS Journeys <- AgentJourney
          MaxWrites = 0
          MaxFails = 0
          MaxMoves = 2
SPECIFICATION Spec
INVARIANT EntriesReadable
CHECK_DEADLOCK FALSE

CONSTANTS Journeys <- MCJourneys
          MaxWrites = 2
          MaxFails = 1
          MaxMoves = 2
SPECIFICATION Spec
INVARIANT OwnWriteSeen
PROPERTY EventuallyFresh
CHECK_DEADLOCK FALSE

SPECIFICATION FairSpec
CONSTANTS
  Call = {c1, c2}
  NoCall = NoCall
  MaxEvents = 3
  MaxToolRounds = 1
  MaxCodeRounds = 1
  Server = {s1, s2}
  MaxStops = 1
  MaxTurns = 2
CHECK_DEADLOCK FALSE
INVARIANTS DoneIsSaved StoppedIsSaved UnstoppedRequestsArePaired 
PROPERTIES  StoredResultsAreKept EveryAnswerEnds

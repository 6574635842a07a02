SPECIFICATION MCSpec
CONSTANTS
  OctetBase = 4
  Octets = 2
  Forever = 100
  DayLength = 10
  Today = 2
  Traces <- MCTraces
  Live <- MCLive
  Sentences <- MCSentences
  Commands <- MCCommands
  MaxCommands = 2
  FirstTexts <- MCFirstTexts
  LaterTexts <- MCLaterTexts
  MaxScans = 2
  ANY = ANY
  NULL = NULL
  out1 = out1
  out2 = out2
INVARIANTS
  RequestOfCommand
  ResultOfFilter
  ResultMatches
  
  LongestMatch
CHECK_DEADLOCK FALSE

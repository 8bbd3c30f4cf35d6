CONSTANTS
  c1 = c1
  c2 = c2
  c3 = c3
  s1 = s1
  s2 = s2
  Commands <- MCCommands
  Stations <- MCStations
  NoCommand = NoCommand
  MaxOutages = 1
SPECIFICATION FairSpec
INVARIANTS
  SentArrivesOnce
  LaterCommandWins
PROPERTY StationsFollow
CHECK_DEADLOCK FALSE

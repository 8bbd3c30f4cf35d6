CONSTANTS
  Environments <- MCEnvironments
  ConfigFiles <- MCFiles
SPECIFICATION ConfigSpec
INVARIANTS
  LastLineWins
  ProgramsAgree
CHECK_DEADLOCK FALSE

CONSTANTS
  Main = main
  Played = {player}
  MaxBinds = 2
  None = None
  MaxReceived = 2
SPECIFICATION LiveSpec
CHECK_DEADLOCK FALSE
PROPERTIES
  StopReturns
  KeepsFlowing

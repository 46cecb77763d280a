CONSTANTS
  Handlers = {h1, h2}
  Probed = {h1, h2}
  None = None
  DeviceSets = {NoDevices, one}
  NoDevices = NoDevices
  MaxChanges = 1
  MaxFailures = 0
  DebugServer = FALSE
SPECIFICATION LiveSpec
PROPERTIES
  PluggedInShowsUp

CONSTANTS
  NrChannels = 2
  ServicesOf <- MCServicesOf
  WatchedRow = 1
  RetriggerLimit = 1
  MaxPosted = 1
  MaxRestarts = 1
  ResetWhileScanning = FALSE
SPECIFICATION Spec
PROPERTY NoRereadOfKnownChannel

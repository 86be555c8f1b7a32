CONSTANTS
  NrChannels = 2
  ServicesOf <- MCServicesOf
  WatchedRow = 0
  RetriggerLimit = 1
  MaxPosted = 1
  MaxRestarts = 1
  ResetWhileScanning = FALSE
SPECIFICATION Spec
INVARIANTS TypeOK NoServiceWhileScanning ServiceOfChannel ListedUnderItsChannel ScanInStep TimerWhileScanning
PROPERTY ScanTerminates

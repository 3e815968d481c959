CONSTANTS
  stdout = stdout
  stderr = stderr
  h1 = h1
  h2 = h2
  Publishers = {stdout, stderr}
  Handlers = {h1}
  BufferSize = 2
  Policies = {"drop-oldest", "drop-newest"}
  MaxEvents = 2
SPECIFICATION FairBusSpec
CHECK_DEADLOCK FALSE
INVARIANTS
  PerScannerOrder
  LossIsRecorded
PROPERTIES
  NoCallAfterRemoval
  RemovalReturns
  CloseReturns

CONSTANTS
  stdout = stdout
  stderr = stderr
  chatlogger = chatlogger
  announcer = announcer
  Publishers = {stdout}
  Handlers = {chatlogger, announcer}
  BufferSize = 1
  Policies = {"drop-oldest"}
  MaxEvents = 1
SPECIFICATION LiveSpec
CHECK_DEADLOCK FALSE
PROPERTIES
  FeedPromise
  ShutdownCompletes

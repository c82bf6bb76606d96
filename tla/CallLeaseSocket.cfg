SPECIFICATION Spec
CONSTANTS
  MaxCalls = 2
  MaxAttempts = 2
INVARIANT SocketComesBack
CHECK_DEADLOCK FALSE

SPECIFICATION Spec
CONSTANTS
  Reliable = TRUE
  MaxFaults = 0
  HeaderLen = 1
  MaxPayload = 3
  RecvLen = 4
  MaxRetries = 1
  Isn <- MCIsn
  Script <- LongScript
  Closers <- Endpoint
PROPERTIES  CloseEnds
CHECK_DEADLOCK FALSE

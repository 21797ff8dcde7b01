SPECIFICATION Spec
CONSTANTS
  Reliable = FALSE
  MaxFaults = 3
  HeaderLen = 20
  MaxPayload = 536
  RecvLen = 3072
  MaxRetries = 1
  Isn <- MCIsn
  Script <- MixScript
  Closers <- ActiveOnly
INVARIANT EofMeansAllData
CHECK_DEADLOCK FALSE

SPECIFICATION Spec
CONSTANTS
  Reliable = FALSE
  MaxFaults = 1
  HeaderLen = 20
  MaxPayload = 536
  RecvLen = 3072
  MaxRetries = 1
  Isn <- MCIsn
  Script <- ThreeScript
  Closers <- NoEndpoints
INVARIANTS InOrderDelivery AckedIsDelivered NumbersAgree
PROPERTY EverythingArrives
CHECK_DEADLOCK FALSE

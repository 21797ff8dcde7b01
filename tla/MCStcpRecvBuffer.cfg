SPECIFICATION BufferSpec
CONSTANTS
  HeaderLen = 20
  MaxPayload = 536
  RecvLen = 3072
  PacketLens = {20, 276, 536}
  MaxFins = 2
INVARIANTS BufferBounds
PROPERTY ShortOnlyAtTheEnd

SPECIFICATION CFairSpec
CONSTANTS
  Byte <- CaptureBytes
  MaxLine = 2
  BufSize = 2
  Streams <- CaptureStreams
  MaxResults = 8
  PacketLimit = 2
INVARIANTS WritesThePackets
PROPERTY CaptureEnds

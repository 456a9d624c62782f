SPECIFICATION FairSpec
CONSTANTS
  Byte <- ByteClass
  MaxLine = 3
  BufSize = 3
  Streams <- SomeStreams
  MaxResults = 11
INVARIANTS TypeOK BufferHoldsLine EndRepliesAtEnd RepliesAreTheLines
PROPERTIES ImplementsLineStream LinesAnswered CallsReturn

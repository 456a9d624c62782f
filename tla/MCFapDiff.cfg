SPECIFICATION FairSpec
CONSTANTS
  Tolerance = 1
  PayloadSizes = {2}
  Packets <- DiffPackets
  MaxPackets = 2
  PipeSize = 2
INVARIANTS SummaryIsTrue EveryDifferenceIsCounted ReportsBearItOut
PROPERTY RunEnds

SPECIFICATION FairSpec
CONSTANTS
  BodyLengths <- Boundaries
INVARIANTS TypeOK NoPanic NothingDecodedIsLost TypeFollowsIdentifier RepairIsLastResort
PROPERTY ParseEnds

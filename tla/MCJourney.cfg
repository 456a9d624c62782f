SPECIFICATION JSpec
CONSTANTS
  FEND = FEND
  FESC = FESC
  TFEND = TFEND
  TFESC = TFESC
  Other = Other
  Space = Space
  Port0 = Port0
  UI = UI
  NoLayer3 = NoLayer3
  Octet <- Bytes
  Raw <- Bytes
  Byte <- Cells
  Packets <- Sent
  Bases <- GoodBases
  BadBases = {"bad", "n0call", "N0_CALL", "N~CALL"}
  Capitals <- Small
  LooseSources = {"N0_CALL", "N~CALL"}
  LoosePaths = {"N0_CALL"}
  Messages <- Sample
  Envelope <- Blank
  Gateway <- Gatewayed
  MaxLinks = 3
INVARIANTS OneFrameOnTheWire ReadsWhatWasSent PacketComesBack CopiesAreDuplicates HopsAreCounted LinksAndParserAgree MessageComesBack

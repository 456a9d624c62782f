CONSTANTS
  Words <- OtherLetters
  Marks <- OtherMarks
  Texts <- SomeTexts
SPECIFICATION Spec
INVARIANTS PositionsStayValid ReadingsAreWhole ProseIsKept TelemetryIsKept
PROPERTY ScanAdvances

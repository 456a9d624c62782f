SPECIFICATION Spec
CONSTANTS
  BodyLengths <- Boundaries
INVARIANT PhgGivesRadioRange

SPECIFICATION RSpec
CONSTANTS
  Starts <- Instants
  Skews = {0, 600, 86400}
  Foreign <- TextsOrNone
  Delay = 86400
  MaxDays = 26
  Positions <- SomePositions
  Ordinary <- Plain
  UsualStart <- FirstDay
  Radios <- MiceRadios
  Others <- OtherTexts
  MaxRelays = 2
INVARIANTS CalendarIsGregorian MomentIsRecovered NeverInTheFuture PositionComesBack RelaysKeepPosition ExtensionsComeBack

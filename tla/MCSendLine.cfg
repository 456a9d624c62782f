SPECIFICATION SendSpec
CONSTANTS
  Line = {a, b}
  Dirty = {d}
  MaxSends = 4
INVARIANT SentLinesArriveInOrder

\* The bus: every buffer with up to five bytes behind its header, and messages with
\* up to two entries.  The packets: names around the widths of their fields, and
\* the corners of a position.
SPECIFICATION FormatsSpec
CONSTANTS
  Base = 3
  Word = 2
  Messages <- SomeMessages
  Tails <- SomeTails
  Garbage <- SomeGarbage
  NameLengths <- SomeNames
  Coordinates <- SomeBytes
  TokenLength = 16
INVARIANTS
  RoundTrip
  DecodesFramesOnly
  ClientKeepsItsPlace
  OnePlace
\* A buffer is decoded once.
CHECK_DEADLOCK FALSE

CONSTANTS
  Size = 16
  Chance = 9
  Length <- MCLength
  Layouts <- MCLayouts
  Tags = 2
  Chunks = {4, 8}
  Pages = {5, 6, 7, 18, 20}
  Pieces = {5, 8}
  Stalls = FALSE
  Gaps = FALSE
SPECIFICATION TransmitSpec
INVARIANTS FrameExact SentCommitted KeptUntilSent WordExact
PROPERTIES CompleteSent AllCommitted

\* Columns of one to four elements.
CONSTANTS
  Parts = {"logical"}
  WordSizes = {64}
  Vectors = 64
  LaneCount <- MCLaneCount
  ElementCount <- MCElementCount
  ColumnsOf <- AllWidths
  Packers <- MCPackers
  Word = 4
  FrameSize = 2
  Schemes = {"delta"}
  Provenances = {"compress"}
  Columns <- MCColumns
  DataCounts = {1, 2, 3, 4}
SPECIFICATION MCSpec
INVARIANT RoundTrip

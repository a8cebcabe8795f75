\* Columns of two frames.
CONSTANTS
  Parts = {"logical"}
  WordSizes = {64}
  Vectors = 64
  LaneCount <- MCLaneCount
  ElementCount <- MCElementCount
  ColumnsOf <- AllWidths
  Packers <- MCPackers
  Word = 4
  FrameSize = 2
  Schemes = {"for"}
  Provenances = {"compress"}
  Columns <- MCColumns
  DataCounts = {4}
SPECIFICATION MCSpec
INVARIANT RoundTrip

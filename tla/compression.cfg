\* Both word sizes; frames of two, columns of one or two frames or a part more.
CONSTANTS
  Parts = {"packing", "logical"}
  WordSizes = {32, 64}
  Vectors = 64
  LaneCount <- MCLaneCount
  ElementCount <- MCElementCount
  ColumnsOf <- AllWidths
  Packers <- MCPackers
  Word = 4
  FrameSize = 2
  Schemes = {"delta", "for"}
  Provenances = {"compress", "elsewhere"}
  Columns <- MCColumns
  DataCounts = {1, 2, 3, 4}
SPECIFICATION MCSpec
INVARIANTS
  CompressionTypeOK
  LayoutKept
  PackedExactly
  DeltasAndMinimaKept
  ForDecompressionInverts

SPECIFICATION DataSpec
CONSTANTS
  Parts = {"tests", "string", "escaped", "document", "text", "object", "json", "binary", "clone",
           "words", "bytes", "base64", "uuid", "enum", "file", "stream",
           "device", "rect", "picture", "crop", "bounds", "blend", "collection"}
  SizeWidth = 1024
  LineBuffer = 2
  NewLine = 10
  Bytes = {7, 10}
  MaxLength = 4
  Rectangles <- SmallEdges
  Sizes <- SmallSizes
  Ratios <- SomeRatios
  Scanned <- SparsePictures
  Sources <- SmallSources
  Images <- SmallImages
  Lengths <- SmallLengths
  Crops <- SmallCrops
  Places <- SmallPlaces
  Blends <- SomeBlends
  MaxInt = 100
  Outside = 1000
  Unordered = {"picture"}
  Targets = {"scene", "light"}
  Depths = {"depth"}
  Planes <- TwoPlanes
  Mips <- TwoLevels
  Slots <- TwoLevels
  UnorderedSlots = {0}
  TargetSlots <- TwoLevels
  Formats = {"unknown", "other"}
  Keys <- FourKeys
  NoView = NoView
INVARIANTS DocumentsReadBack ObjectsReadBack ValidIsRead BinaryReadsBack TextReadsBack
  ShownRight
 
CHECK_DEADLOCK FALSE

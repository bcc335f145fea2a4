SPECIFICATION Spec
CONSTANTS
  Pages = 3
  Lists = {}
  Chunk = 2
  MaxTids = 6
  MaxMappings = 3
  MapsFiles <- AllFiles
INVARIANTS TypeOK RoomForTerminator ParsedWritable ParsedIsMappingList SizeIsCovered

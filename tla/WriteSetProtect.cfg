SPECIFICATION Spec
CONSTANTS
  Pages = {0, 1}
  LinesPerPage = 1
  TableSize = 2
  Values = {0, 1}
  Clean = 0
  Unreadable = {}
  Protects = TRUE
  MaxSnapshots = 4
  Lists <- LivingLists
PROPERTY NoWriteSkipped

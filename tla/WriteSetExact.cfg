SPECIFICATION Spec
CONSTANTS
  Pages = {0, 1, 2}
  LinesPerPage = 2
  TableSize = 2
  Values = {0, 1}
  Clean = 0
  Unreadable = {1}
  Protects = FALSE
  MaxSnapshots = 3
  Lists <- BaseLists
INVARIANTS TypeOK OneRowPerPage
PROPERTIES ReportsWriteSet CopiesBelowEnd

\* Messages of four records: lists that fill them, and that do not.
SPECIFICATION PagingSpec
CONSTANTS
  PageSize = 4
  MaxTotal = 21
INVARIANTS
  PagesHoldAll
  LastSplitTells
CHECK_DEADLOCK FALSE

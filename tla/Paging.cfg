SPECIFICATION PagingSpec
CONSTANTS
    MaxInt = 7
    DefaultPageSize = 1
    MaxPageSize = 2
    DefaultListLimit = 1
    MaxListLimit = 3
    MaxRows = 4
INVARIANTS
    PageShowsItsRows
    WalkMissesNothing

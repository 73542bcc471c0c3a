SPECIFICATION Spec
CONSTANTS
    Keys <- FieldKeys
    Lists <- ShortLists
    Heights = {8, 11}
    Widths = {35}
    Plain = 2
    Hidden <- MCHidden
    MaxNodeNum = 1
    Align <- MCAlign
    Title <- MCTitle
    BandDigits = {2}
    HaveResctrl = TRUE
    MaxBegin = 10
CHECK_DEADLOCK FALSE
INVARIANT TypeOK
INVARIANT FilterHolds
INVARIANT FilterCells
PROPERTY ColumnsPassed
PROPERTY LeftFindsColumn

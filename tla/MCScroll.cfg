SPECIFICATION Spec
CONSTANTS
    Keys <- ScrollKeys
    Lists <- MCLists
    Heights = {5, 6, 8}
    Widths = {30, 40}
    Plain = 1
    Hidden <- MCHidden
    MaxNodeNum = 1
    Align <- MCAlign
    Title <- MCTitle
    BandDigits = {2, 8}
    HaveResctrl = TRUE
    MaxBegin = 10
CHECK_DEADLOCK FALSE
INVARIANT FrameFits
PROPERTY PagingCovers
PROPERTY ScrollFindsTasks

SPECIFICATION Spec
CONSTANTS
    Captures = 3
    Begin = 2
    Page = 1
    LogPage = 3
    Events = 2
    Nothing = Nothing
CHECK_DEADLOCK FALSE
PROPERTIES
    GoneStaysGone

SPECIFICATION TrackingSpec
CONSTANTS
    AppId = {a}
    NoOperation = NoOperation
    Published = FALSE
    MaxOperations = 1
    MaxBreaks = 0
CHECK_DEADLOCK FALSE
PROPERTIES
    OperationsAreFollowed

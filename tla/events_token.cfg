CONSTANTS
    NoToken = NoToken
    MaxSequence = 2
SPECIFICATION EventsSpec
PROPERTIES
    NilIsTheEnd
CHECK_DEADLOCK FALSE

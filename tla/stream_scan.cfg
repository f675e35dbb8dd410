CONSTANTS
    HasConsumer = TRUE
    PollPeriod = 2
    MaxId = 3
    MaxRollbacks = 1
    MaxFaults = 1
SPECIFICATION FairSpec
INVARIANTS
    NothingMissed
PROPERTIES
    NoRepeats
    NoFalseAlarm
    OutsideIsReported
    EventsArrive
CHECK_DEADLOCK FALSE

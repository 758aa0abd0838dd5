SPECIFICATION FairSpec
CONSTANTS
    t1 = t1
    t2 = t2
    i1 = i1
    i2 = i2
    i3 = i3
    Tables = {t1, t2}
    Timers = {i1, i2}
    MaxEdits = 1
    MaxResyncs = 0
    MaxRestarts = 0
    MaxErrors = 1
    StatusAnswers = {"notFound"}
PROPERTIES
    EventuallyBatched
CHECK_DEADLOCK FALSE

SPECIFICATION Spec
CONSTANTS
    t1 = t1
    t2 = t2
    i1 = i1
    i2 = i2
    i3 = i3
    Tables = {t1, t2}
    Timers = {i1, i2, i3}
    MaxEdits = 1
    MaxResyncs = 0
    MaxRestarts = 1
    MaxErrors = 0
    StatusAnswers = {"ok", "notFound"}
SYMMETRY Symmetry
INVARIANTS
    TypeOK
    PendingIsWatched
    NoTableForgotten
CHECK_DEADLOCK FALSE

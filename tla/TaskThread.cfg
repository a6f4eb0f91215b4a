CONSTANTS
    Clients = {c1, c2}
    Tasks = {t1, t2, t3}
    SyncTasks = {t3}
    Delays = {0, 2}
    MaxTime = 3
    EarlyStart = FALSE
SPECIFICATION Spec
INVARIANTS TypeOK NoLostWakeup
PROPERTIES RunsInTimeOrder PostedTasksRun
CHECK_DEADLOCK FALSE

SPECIFICATION Spec
CONSTANTS
    Tasks = {t1}
    Waits = {w1, w2}
    NoTask = NoTask
    MaxOutputLines = 1
    LineCounts = {1, 2}
    MayDeny = TRUE
    MaxLines = 2
INVARIANTS
    NoMissedWakeup
    AnswersAreEarned
    LivingChildIsListed
PROPERTIES
    NoSilentLoss
    EveryWaitEnds
    EndedTasksAreForgotten

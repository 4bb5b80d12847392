SPECIFICATION QueuesSpec
CONSTANTS
    p1 = p1
    p2 = p2
    w1 = w1
    w2 = w2
    c1 = c1
    c2 = c2
    v1 = v1
    Producers = {p1, p2}
    Workers = {w1, w2}
    Pollers = {c1}
    NoTask = NoTask
    Tasks = 2
    Capacity = 2
    Word = 4
INVARIANTS WorkersDrain NoLostWakeup
PROPERTIES ImplementsFifo EveryTaskRuns ShutsDown RetriesLose

SPECIFICATION Spec
CONSTANTS
    t1 = t1
    t2 = t2
    t3 = t3
    c1 = c1
    c2 = c2
    Task <- TwoTasks
    Call <- TwoCalls
    Moves <- NoMoves
    AskedIn <- BeforeBacklog
    Budget = 0
INVARIANTS
    Acyclic
CHECK_DEADLOCK FALSE

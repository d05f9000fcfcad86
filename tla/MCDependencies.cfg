SPECIFICATION Spec
CONSTANTS
    t1 = t1
    t2 = t2
    t3 = t3
    c1 = c1
    c2 = c2
    Task <- ThreeTasks
    Call <- TwoCalls
    Moves <- Lifetime
    AskedIn <- BeforeBacklog
    Budget = 1
SYMMETRY Symmetry
INVARIANTS
    TypeOK
    AcyclicUnlessRaced
    WalkDecides
    GateUnlessLate
    OpenedIsNoticed
CHECK_DEADLOCK FALSE

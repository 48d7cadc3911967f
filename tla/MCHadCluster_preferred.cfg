\* n1 has the higher priority; one link.
SPECIFICATION Spec
CONSTANTS
    n1 = n1
    n2 = n2
    Node = {n1, n2}
    NoNode = NoNode
    Link = {"up"}
    Mon = {}
    Prio <- MCPrio
    Preempt <- MCPreempt
    Addr <- MCAddr
    AdverInt = 1
    DownCount = 3
    BackDown = {}
    Portal = TRUE
    WrapTicks = 1
    MaxFaults = 2
INVARIANTS TypeOK DualMasterBounded VacancyBounded
PROPERTIES PreferredMasterEventually

\* Uplink and downlink configured, no tracked gateway.
SPECIFICATION MCSpec
CONSTANTS
    n1 = n1
    n2 = n2
    Node = {n1, n2}
    NoNode = NoNode
    Self = n1
    Link = {"up", "down"}
    Mon = {}
    Prio <- MCPrio
    Preempt <- MCPreempt
    Addr <- MCAddr
    AdverInt = 1
    DownCount = 1
    BackDown = {"up"}
    Portal = FALSE
    WrapTicks = 3
    EnvMax = 1
INVARIANTS RivalsOfThisMastership

\* Equal priorities, the larger address decides; two links.
SPECIFICATION Spec
CONSTANTS
    n1 = n1
    n2 = n2
    Node = {n1, n2}
    NoNode = NoNode
    Link = {"up", "down"}
    Mon = {}
    Prio <- MCSamePrio
    Preempt <- MCPreempt
    Addr <- MCAddr
    AdverInt = 1
    DownCount = 3
    BackDown = {}
    Portal = TRUE
    WrapTicks = 1
    MaxFaults = 1
INVARIANTS DualMasterBounded

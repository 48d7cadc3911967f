\* Only an uplink, with tracked gateway and layer-2 uplink.
SPECIFICATION MCSpec
CONSTANTS
    n1 = n1
    n2 = n2
    Node = {n1, n2}
    NoNode = NoNode
    Self = n1
    Link = {"up"}
    Mon = {"l2", "vgw"}
    Prio <- MCPrio
    Preempt <- MCPreempt
    Addr <- MCAddr
    AdverInt = 1
    DownCount = 1
    BackDown = {"up"}
    Portal = TRUE
    WrapTicks = 3
    EnvMax = 5
INVARIANTS TypeOK RoleConsistent ServiceOffAtRest
PROPERTIES WarnedBeforeTakeover QuietBeforeSelfPromotion KeepsProtocol

SPECIFICATION Spec
CONSTANTS
    x = x
    p = p
    q = q
    b = b
    NoIface = NoIface
    Iface <- MCIface
    Bridge = {b}
    Member <- MCMember
    UplinkPort <- MCUplinkPort
    Sensitive = {x, p}
    Slot <- MCSlot
    Heartbeat = x
    MultiDetect = TRUE
    CheckTimes = 2
    QueueMax = 2
    MaxChange = 3
    MaxLost = 1
INVARIANTS
    TypeOK
    DrainedAgrees
    HeartbeatDrained
PROPERTIES
    LinksFollowed

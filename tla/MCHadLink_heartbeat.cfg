SPECIFICATION Spec
CONSTANTS
    x = x
    p = p
    q = q
    b = b
    NoIface = NoIface
    Iface <- MCIface
    Bridge = {b}
    Member <- MCMember
    UplinkPort <- MCUplinkPort
    Sensitive = {x, p}
    Slot <- MCSlot
    Heartbeat = x
    MultiDetect = FALSE
    CheckTimes = 2
    QueueMax = 1
    MaxChange = 1
    MaxLost = 1
PROPERTIES
    HeartbeatPolled

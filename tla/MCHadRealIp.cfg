SPECIFICATION Spec
CONSTANTS
    a1 = a1
    a2 = a2
    a3 = a3
    v = v
    NoAddr = NoAddr
    Addr = {a1, a2, a3, v}
    Vip = v
    MAX_IP_COUNT = 2
    QueueMax = 4
    MaxLost = 1
SYMMETRY RealAddrs
INVARIANTS
    RealIsThere
    RealIsFound
    NeverVip

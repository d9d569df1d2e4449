SPECIFICATION Spec
CONSTANTS
    Fds = {3, 4}
    MaxClients = 3
    MaxFrames = 1
    MaxBeats = 1
    Tops = {t0, t1}
    EmptyTop = t0
    NoTop = none
INVARIANTS ConnectionsExact MarketDataCurrent

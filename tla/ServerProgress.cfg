SPECIFICATION FairSpec
CONSTANTS
    Fds = {3, 4}
    MaxClients = 2
    MaxFrames = 2
    MaxBeats = 0
    Tops = {t0, t1}
    EmptyTop = t0
    NoTop = none
PROPERTIES ClientsCatchUp FramesHandled

SPECIFICATION Spec
CONSTANTS
    p1 = p1 p2 = p2 d1 = d1 d2 = d2 s1 = s1 s2 = s2 s3 = s3
    Senders = {p1, p2}
    Socks = {s1, s2}
    Devices = {d1}
    DeviceOf <- MCDeviceOf
    QueueCap = 1
    Depth = 1
    WriteCap = 1
    ReplayCap = 1
    PageCap = 1
    Events = {"drop", "stall", "trim"}
    MaxEvents = 1
    MaxEnds = 1
INVARIANTS Recoverable SeqUnique 
CHECK_DEADLOCK FALSE

SYMMETRY MCSymmetry

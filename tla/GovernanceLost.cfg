SPECIFICATION Spec
CONSTANTS
    Instances = {i1, i2}
    Families = {"scope policies"}
    Readers = {}
    Faults = {}
    MaxHandlers = 2
    MaxFaults = 0
    MaxTimers = 0
PROPERTY SnapshotsCatchUp
CHECK_DEADLOCK FALSE

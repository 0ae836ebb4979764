\* Three callers of Init and Remove, three devices; two mounts share a lun.
SPECIFICATION Spec
CONSTANTS
    p1 = p1  p2 = p2  p3 = p3
    d1 = d1  d2 = d2  d3 = d3
    u1 = u1
    A = A  B = B  X = X
    dirA = dirA  dirA2 = dirA2  dirB = dirB  dirC = dirC  dirD = dirD  dirE = dirE
    None = None
    Procs = {p1, p2, p3}
    Devices = {d1, d2, d3}
    Uploads = {u1}
    Luns <- MCLuns
    Dirs <- MCDirs
    Mounts <- MCMounts
    Partitions <- MCPartitions
SYMMETRY Symmetry
INVARIANTS RegisteredIsWhole StoreNeverLoses NothingLeaks CommitOnOwnDevice
CHECK_DEADLOCK FALSE

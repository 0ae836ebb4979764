--------------------------- MODULE MCDeviceRegistry ---------------------------
(***************************************************************************)
(* Three callers on six mounts: two good devices, a second mount with the  *)
(* base name of the first, a disk with three partitions, a mount of        *)
(* partition 2 and a file system that is not on a partition.               *)
(***************************************************************************)
EXTENDS DeviceRegistry, TLC

CONSTANTS p1, p2, p3, d1, d2, d3, u1, A, B, X, dirA, dirA2, dirB, dirC, dirD, dirE

\* An unknown lun is X.
MCLuns == {A, B, X}
MCDirs == {dirA, dirA2, dirB, dirC, dirD, dirE}

MCPartitions ==
    "sda1" :> [disk |-> "sda", number |-> 1] @@ "sda2" :> [disk |-> "sda", number |-> 2] @@
    "sdb1" :> [disk |-> "sdb", number |-> 1] @@ "sdb2" :> [disk |-> "sdb", number |-> 2] @@
    "sdc1" :> [disk |-> "sdc", number |-> 1] @@ "sdc2" :> [disk |-> "sdc", number |-> 2] @@
    "sdd1" :> [disk |-> "sdd", number |-> 1] @@ "sdd2" :> [disk |-> "sdd", number |-> 2] @@
    "sdd3" :> [disk |-> "sdd", number |-> 3]

MCMounts == <<
    [dir |-> dirC, lun |-> X, fs |-> TRUE, source |-> "sdd1"],
    [dir |-> dirA, lun |-> A, fs |-> TRUE, source |-> "sda1"],
    [dir |-> dirA2, lun |-> A, fs |-> TRUE, source |-> "sdb1"],
    [dir |-> dirD, lun |-> B, fs |-> TRUE, source |-> "sdc2"],
    [dir |-> dirE, lun |-> B, fs |-> FALSE, source |-> None],
    [dir |-> dirB, lun |-> B, fs |-> TRUE, source |-> "sdc1"] >>

Symmetry == Permutations({p1, p2, p3}) \cup Permutations({d1, d2, d3})
==============================================================================

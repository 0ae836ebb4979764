---------------------------- MODULE DeviceRegistry ----------------------------
(***************************************************************************)
(* Opening and closing block devices: the scan of the mounted file systems *)
(* and the registry deviceMap (internal/fs/block_device_scan.go), the open *)
(* of a device with its undo paths (block_device.go), the registry         *)
(* batchMap (batch_pebble.go), and what main.go and the upload path do     *)
(* with the two registries.                                                *)
(*                                                                         *)
(* Callers run Init and Remove concurrently.  main serves only when its    *)
(* Init has returned without error, and nothing opens or closes a device   *)
(* after that.  Pebble is external: a directory it has open is locked.     *)
(* Any open, any size query and any initialisation may fail.               *)
(***************************************************************************)
EXTENDS Integers, Sequences, FiniteSets

CONSTANTS
    Procs,       \* callers of Init and Remove
    Devices,     \* *BlockDevice values
    Uploads,     \* upload streams
    Luns,        \* names of devices, mounted or not
    Dirs,        \* mount points
    Mounts,      \* mountinfo: a sequence of [dir, lun, fs, source]
    Partitions,  \* /sys/class/block: name -> [disk, number]
    None

\* mountInfo, with lun the base name of the mount point, fs whether the name
\* has the prefix fs-SP0-, and source a partition or None.
MountInfo == [dir : Dirs, lun : Luns, fs : BOOLEAN, source : DOMAIN Partitions \cup {None}]

ASSUME RegistryAssumption ==
    /\ Mounts \in Seq(MountInfo)
    /\ None \notin Luns \cup Dirs \cup Devices \cup DOMAIN Partitions

\* A directory has one file system on top, so it is in the table once.
ASSUME MountedOnce == \A i, j \in 1 .. Len(Mounts) : Mounts[i].dir = Mounts[j].dir => i = j

VARIABLES
    deviceMap,  \* lun -> registered device
    batchMap,   \* lun -> device whose DB its BatchPebble writes to
    locked,     \* directories of open Pebble DBs
    dbOpen,     \* devices whose DB is open
    running,    \* devices whose BatchPebble has not been stopped
    fileOpen,   \* devices whose data partition is open
    mount,      \* device -> index of its mount
    pc, todo, cur, stopping, err,  \* per caller
    default,    \* ErasureServer.device
    req, used, committed           \* per upload: Lun, device, device whose DB took the commit

open == <<locked, dbOpen, mount>>
upload == <<default, req, used, committed>>
vars == <<deviceMap, batchMap, locked, dbOpen, running, fileOpen, mount,
          pc, todo, cur, stopping, err, default, req, used, committed>>

----------------------------------------------------------------------------
(* The scan                                                                *)

Lun(i) == Mounts[i].lun
Dir(i) == Mounts[i].dir

\* diskPartitions
Parts(disk) == {p \in DOMAIN Partitions : Partitions[p].disk = disk}

\* A mount of partition 1 of a disk with exactly the partitions 1 and 2.
IsDevice(i) ==
    /\ Mounts[i].fs /\ Mounts[i].source # None
    /\ LET part == Partitions[Mounts[i].source]
       IN  /\ part.number = 1 /\ Cardinality(Parts(part.disk)) = 2
           /\ \E p \in Parts(part.disk) : Partitions[p].number = 2

\* Mutation of Candidates: a lun is not looked up in seen.
Candidates_NotSeen == {i \in 1 .. Len(Mounts) : IsDevice(i)}

\* ScanBlockDeviceCandidates: the first device mount of every lun.
Candidates == {i \in 1 .. Len(Mounts) :
                  IsDevice(i) /\ \A j \in 1 .. (i - 1) : IsDevice(j) => Lun(j) # Lun(i)}

----------------------------------------------------------------------------

Init ==
    /\ deviceMap = [l \in Luns |-> None] /\ batchMap = [l \in Luns |-> None]
    /\ locked = {} /\ dbOpen = {} /\ running = {} /\ fileOpen = {}
    /\ mount = [d \in Devices |-> 0]
    /\ pc = [p \in Procs |-> "idle"] /\ todo = [p \in Procs |-> {}]
    /\ cur = [p \in Procs |-> None] /\ stopping = [p \in Procs |-> None]
    /\ err = [p \in Procs |-> FALSE]
    /\ default = None /\ req = [u \in Uploads |-> None]
    /\ used = [u \in Uploads |-> None] /\ committed = [u \in Uploads |-> None]

Goto(p, l) == pc' = [pc EXCEPT ![p] = l]
Fail(p) == err' = [err EXCEPT ![p] = TRUE]

\* The mount that a caller's Init is at: the first one left.
At(p) == CHOOSE i \in todo[p] : \A j \in todo[p] : i <= j
\* The lun of the device a caller has in hand.
Mine(p) == Lun(mount[cur[p]])

\* Init, up to its loop: scan, and keep what matches testMountdir (None: all).
\* A mountinfo or size that cannot be read ends the scan and Init.
InitScan(p, dir) ==
    /\ pc[p] = "idle" /\ default = None
    /\ \/ /\ todo' = [todo EXCEPT ![p] = {i \in Candidates : dir \in {None, Dir(i)}}]
          /\ err' = [err EXCEPT ![p] = FALSE]
          /\ Goto(p, "next")
       \/ Fail(p) /\ UNCHANGED <<todo, pc>>
    /\ UNCHANGED <<deviceMap, batchMap, open, running, fileOpen, cur, stopping, upload>>

\* The head of the loop, with deviceMap.Load; or Init returns.
InitNext(p) ==
    /\ pc[p] = "next"
    /\ IF todo[p] = {} THEN Goto(p, "idle") /\ UNCHANGED todo
       ELSE IF deviceMap[Lun(At(p))] # None
       THEN todo' = [todo EXCEPT ![p] = @ \ {At(p)}] /\ UNCHANGED pc
       ELSE Goto(p, "open") /\ UNCHANGED todo
    /\ UNCHANGED <<deviceMap, batchMap, open, running, fileOpen, cur, stopping, err, upload>>

\* Mutation of OpenDataDB: Pebble does not lock its directory.
OpenDataDB_NoLock(p) ==
    /\ pc[p] = "open"
    /\ todo' = [todo EXCEPT ![p] = @ \ {At(p)}]
    /\ \/ \E d \in Devices \ dbOpen :
            /\ locked' = locked \cup {Dir(At(p))}
            /\ dbOpen' = dbOpen \cup {d} /\ mount' = [mount EXCEPT ![d] = At(p)]
            /\ cur' = [cur EXCEPT ![p] = d]
            /\ Goto(p, "batch") /\ UNCHANGED err
       \/ Goto(p, "next") /\ Fail(p) /\ UNCHANGED <<open, cur>>
    /\ UNCHANGED <<deviceMap, batchMap, running, fileOpen, stopping, upload>>

\* OpenPartitionBlockDevice: the size, then OpenDataDB.
OpenDataDB(p) ==
    /\ pc[p] = "open"
    /\ todo' = [todo EXCEPT ![p] = @ \ {At(p)}]
    /\ \/ /\ Dir(At(p)) \notin locked
          /\ \E d \in Devices \ dbOpen :
               /\ locked' = locked \cup {Dir(At(p))}
               /\ dbOpen' = dbOpen \cup {d} /\ mount' = [mount EXCEPT ![d] = At(p)]
               /\ cur' = [cur EXCEPT ![p] = d]
          /\ Goto(p, "batch") /\ UNCHANGED err
       \/ Goto(p, "next") /\ Fail(p) /\ UNCHANGED <<open, cur>>
    /\ UNCHANGED <<deviceMap, batchMap, running, fileOpen, stopping, upload>>

\* AddDataBatch starts the processor and stores it, whatever is there.
AddDataBatch(p) ==
    /\ pc[p] = "batch"
    /\ running' = running \cup {cur[p]}
    /\ batchMap' = [batchMap EXCEPT ![Mine(p)] = cur[p]]
    /\ Goto(p, "file")
    /\ UNCHANGED <<deviceMap, open, fileOpen, todo, cur, stopping, err, upload>>

\* Mutation of OpenFile: the error return forgets closeDB.
OpenFile_NoUndo(p) ==
    /\ pc[p] = "file"
    /\ \/ /\ fileOpen' = fileOpen \cup {cur[p]}
          /\ Goto(p, "build") /\ UNCHANGED <<cur, err>>
       \/ Goto(p, "next") /\ Fail(p) /\ cur' = [cur EXCEPT ![p] = None] /\ UNCHANGED fileOpen
    /\ UNCHANGED <<deviceMap, batchMap, open, running, todo, stopping, upload>>

OpenFile(p) ==
    /\ pc[p] = "file"
    /\ \/ /\ fileOpen' = fileOpen \cup {cur[p]}
          /\ Goto(p, "build") /\ UNCHANGED err
       \/ Goto(p, "remove") /\ Fail(p) /\ UNCHANGED fileOpen
    /\ UNCHANGED <<deviceMap, batchMap, open, running, todo, cur, stopping, upload>>

\* newBlockDevice: tryInitBlockSpace, loadAllocator and NewAioChannel succeed,
\* or one fails and file and DB are closed.
NewBlockDevice(p) ==
    /\ pc[p] = "build"
    /\ \/ Goto(p, "store") /\ UNCHANGED <<fileOpen, err>>
       \/ /\ fileOpen' = fileOpen \ {cur[p]}
          /\ Goto(p, "remove") /\ Fail(p)
    /\ UNCHANGED <<deviceMap, batchMap, open, running, todo, cur, stopping, upload>>

\* deviceMap.LoadOrStore; the device is closed if another one is there.
LoadOrStore(p) ==
    /\ pc[p] = "store"
    /\ IF deviceMap[Mine(p)] = None
         THEN /\ deviceMap' = [deviceMap EXCEPT ![Mine(p)] = cur[p]]
              /\ cur' = [cur EXCEPT ![p] = None]
              /\ Goto(p, "next")
         ELSE Goto(p, "close") /\ UNCHANGED <<deviceMap, cur>>
    /\ UNCHANGED <<batchMap, open, running, fileOpen, todo, stopping, err, upload>>

\* Remove: deviceMap.LoadAndDelete.
Remove(p, l) ==
    /\ pc[p] = "idle" /\ default = None /\ deviceMap[l] # None
    /\ cur' = [cur EXCEPT ![p] = deviceMap[l]]
    /\ deviceMap' = [deviceMap EXCEPT ![l] = None]
    /\ Goto(p, "close")
    /\ UNCHANGED <<batchMap, open, running, fileOpen, todo, stopping, err, upload>>

\* BlockDevice.Close: the channel, and with it the file.
CloseChannel(p) ==
    /\ pc[p] = "close"
    /\ fileOpen' = fileOpen \ {cur[p]}
    /\ Goto(p, "remove")
    /\ UNCHANGED <<deviceMap, batchMap, open, running, todo, cur, stopping, err, upload>>

\* RemoveBatch: whatever BatchPebble is registered under the lun.
RemoveBatch(p) ==
    /\ pc[p] = "remove"
    /\ stopping' = [stopping EXCEPT ![p] = batchMap[Mine(p)]]
    /\ batchMap' = [batchMap EXCEPT ![Mine(p)] = None]
    /\ Goto(p, "stop")
    /\ UNCHANGED <<deviceMap, open, running, fileOpen, todo, cur, err, upload>>

StopBatch(p) ==
    /\ pc[p] = "stop"
    /\ running' = running \ {stopping[p]}
    /\ stopping' = [stopping EXCEPT ![p] = None]
    /\ Goto(p, "db")
    /\ UNCHANGED <<deviceMap, batchMap, open, fileOpen, todo, cur, err, upload>>

\* db.Close releases the lock; back to the loop, or Remove returns.
CloseDB(p) ==
    /\ pc[p] = "db"
    /\ dbOpen' = dbOpen \ {cur[p]} /\ locked' = locked \ {Dir(mount[cur[p]])}
    /\ cur' = [cur EXCEPT ![p] = None]
    /\ Goto(p, "next")
    /\ UNCHANGED <<deviceMap, batchMap, running, fileOpen, mount, todo, stopping, err, upload>>

----------------------------------------------------------------------------
(* main and the upload path                                                *)

\* main's Init has returned: any registered device becomes the default.
Serve(p) ==
    /\ \A q \in Procs : pc[q] = "idle"
    /\ ~ err[p] /\ default = None
    /\ \E l \in Luns : deviceMap[l] # None /\ default' = deviceMap[l]
    /\ UNCHANGED <<deviceMap, batchMap, open, running, fileOpen, pc, todo, cur, stopping, err,
                   req, used, committed>>

\* startHandler: the device of the lun, or the default (None: no lun given).
StartHandler(u, l) ==
    /\ default # None /\ used[u] = None
    /\ req' = [req EXCEPT ![u] = l]
    /\ used' = [used EXCEPT ![u] = IF l # None /\ deviceMap[l] # None THEN deviceMap[l] ELSE default]
    /\ UNCHANGED <<deviceMap, batchMap, open, running, fileOpen, pc, todo, cur, stopping, err,
                   default, committed>>

\* Mutation of CommitLun: the commit goes to the default device's DB.
CommitLun_Default(u) == Lun(mount[default])

\* complete: the lun the metadata is committed under.
CommitLun(u) == IF req[u] = None THEN Lun(mount[used[u]]) ELSE req[u]

\* submitRequest: fails if nothing is registered under the lun.
SubmitRequest(u) ==
    /\ used[u] # None /\ committed[u] = None
    /\ batchMap[CommitLun(u)] # None
    /\ committed' = [committed EXCEPT ![u] = batchMap[CommitLun(u)]]
    /\ UNCHANGED <<deviceMap, batchMap, open, running, fileOpen, pc, todo, cur, stopping, err,
                   default, req, used>>

----------------------------------------------------------------------------

OpenStep(p) == InitNext(p) \/ OpenDataDB(p) \/ AddDataBatch(p) \/ OpenFile(p)
                  \/ NewBlockDevice(p) \/ LoadOrStore(p)
CloseStep(p) == CloseChannel(p) \/ RemoveBatch(p) \/ StopBatch(p) \/ CloseDB(p)

Next == \/ \E p \in Procs : \/ OpenStep(p) \/ CloseStep(p) \/ Serve(p)
                            \/ \E dir \in Dirs \cup {None} : InitScan(p, dir)
                            \/ \E l \in Luns : Remove(p, l)
        \/ \E u \in Uploads : \/ \E l \in Luns \cup {None} : StartHandler(u, l)
                              \/ SubmitRequest(u)

Spec == Init /\ [][Next]_vars

----------------------------------------------------------------------------
(* Properties                                                              *)

TypeOK ==
    /\ deviceMap \in [Luns -> Devices \cup {None}] /\ batchMap \in [Luns -> Devices \cup {None}]
    /\ locked \subseteq Dirs /\ dbOpen \subseteq Devices
    /\ running \subseteq Devices /\ fileOpen \subseteq Devices
    /\ mount \in [Devices -> 0 .. Len(Mounts)]
    /\ pc \in [Procs -> {"idle", "next", "open", "batch", "file", "build", "store",
                         "close", "remove", "stop", "db"}]
    /\ todo \in [Procs -> SUBSET Candidates] /\ cur \in [Procs -> Devices \cup {None}]
    /\ stopping \in [Procs -> Devices \cup {None}] /\ err \in [Procs -> BOOLEAN]
    /\ default \in Devices \cup {None} /\ req \in [Uploads -> Luns \cup {None}]
    /\ used \in [Uploads -> Devices \cup {None}] /\ committed \in [Uploads -> Devices \cup {None}]

(* A registered device is whole: what Get hands out under a lun is a device *)
(* of that lun whose file and DB are open and whose own BatchPebble, still  *)
(* running, is the one registered under the lun, whoever else opens, fails  *)
(* to open or removes the same lun meanwhile.                               *)
RegisteredIsWhole ==
    \A l \in Luns : deviceMap[l] # None =>
       LET d == deviceMap[l]
       IN  d \in dbOpen \cap running \cap fileOpen /\ Lun(mount[d]) = l /\ batchMap[l] = d

(* LoadOrStore never finds another device: Pebble's lock has already turned *)
(* away the second opener of a lun, so the Close after a lost race, which   *)
(* would stop the winner's BatchPebble, is never reached.                   *)
StoreNeverLoses == \A p \in Procs : pc[p] = "store" => deviceMap[Mine(p)] = None

(* Every error return of an open and every Remove gives everything back:    *)
(* what no caller has in hand is registered or closed, down to the lock and *)
(* the entry in batchMap.                                                   *)
NothingLeaks ==
    LET kept == {deviceMap[l] : l \in Luns} \cup {cur[p] : p \in Procs}
    IN  /\ dbOpen \cup running \cup fileOpen \subseteq kept
        /\ \A l \in Luns : batchMap[l] \in kept \cup {None}
        /\ locked = {Dir(mount[d]) : d \in dbOpen}

(* The metadata of an upload goes to the DB of the device that holds its    *)
(* data, also when the lun of the request is unknown and the default device *)
(* takes the data: the commit then finds no BatchPebble.                    *)
CommitOnOwnDevice == \A u \in Uploads : committed[u] # None => committed[u] = used[u]

==============================================================================

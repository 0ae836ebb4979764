------------------------ MODULE DeviceRegistryProofs ------------------------
(***************************************************************************)
(* The properties of DeviceRegistry, for every mount table, every number of*)
(* callers and uploads: the inductive invariant, one lemma per action, and *)
(* the theorems.                                                           *)
(***************************************************************************)
EXTENDS DeviceRegistry, WellFoundedInduction, TLAPS

----------------------------------------------------------------------------
(* The inductive invariant                                                 *)

\* A caller has a device in hand from the open of its DB to its registration
\* or the close of its DB.
HeldInv ==
    /\ \A p \in Procs : cur[p] # None <=> pc[p] \in {"batch", "file", "build", "store",
                                                       "close", "remove", "stop", "db"}
    /\ \A p \in Procs : pc[p] = "open" => todo[p] # {}

\* Pebble's lock makes an open device the only one of its lun.
LockInv ==
    /\ \A d \in dbOpen : mount[d] \in Candidates
    /\ \A c, d \in dbOpen : Lun(mount[c]) = Lun(mount[d]) => c = d
    /\ locked = {Dir(mount[d]) : d \in dbOpen}

\* An open device is registered or in the hand of one caller.
OwnerInv ==
    /\ \A p \in Procs : cur[p] # None => cur[p] \in dbOpen
    /\ \A p, q \in Procs : cur[p] # None /\ cur[p] = cur[q] => p = q
    /\ \A p \in Procs : \A l \in Luns : deviceMap[l] # None => deviceMap[l] # cur[p]
    /\ \A l \in Luns : deviceMap[l] # None =>
          deviceMap[l] \in dbOpen /\ Lun(mount[deviceMap[l]]) = l
    /\ \A d \in dbOpen : (\E l \in Luns : deviceMap[l] = d) \/ (\E p \in Procs : cur[p] = d)

\* How far the device in a caller's hand is.
BatchInv ==
    /\ running \cup fileOpen \subseteq dbOpen
    /\ \A l \in Luns : batchMap[l] # None =>
          batchMap[l] \in dbOpen /\ Lun(mount[batchMap[l]]) = l
    /\ \A p \in Procs : pc[p] \in {"file", "build", "store", "close", "remove"} =>
          batchMap[Mine(p)] = cur[p]
    /\ \A p \in Procs : pc[p] \in {"batch", "stop", "db"} => batchMap[Mine(p)] = None
    /\ \A p \in Procs : pc[p] = "stop" => stopping[p] = cur[p]
    /\ \A p \in Procs : cur[p] \in running <=>
          pc[p] \in {"file", "build", "store", "close", "remove", "stop"}
    /\ \A p \in Procs : cur[p] \in fileOpen <=> pc[p] \in {"build", "store", "close"}

\* Nothing opens or closes while uploads run.
ServeInv ==
    /\ default # None => (\A p \in Procs : pc[p] = "idle") /\ \E l \in Luns : deviceMap[l] = default
    /\ \A u \in Uploads : used[u] # None =>
          /\ default # None /\ \E l \in Luns : deviceMap[l] = used[u]
          /\ req[u] # None /\ deviceMap[req[u]] # None => used[u] = deviceMap[req[u]]

IInv == TypeOK /\ HeldInv /\ LockInv /\ OwnerInv /\ BatchInv /\ RegisteredIsWhole
           /\ ServeInv /\ CommitOnOwnDevice

----------------------------------------------------------------------------
(* The scan                                                                *)

(* A lun has one candidate, and so has a directory.                        *)
LEMMA CandidateFacts ==
    /\ Candidates \subseteq 1 .. Len(Mounts)
    /\ \A i \in Candidates : Lun(i) \in Luns /\ Dir(i) \in Dirs
    /\ \A i, j \in Candidates : Lun(i) = Lun(j) => i = j
    /\ \A i, j \in Candidates : Dir(i) = Dir(j) => i = j
<1>1. Len(Mounts) \in Nat /\ \A i \in 1 .. Len(Mounts) : Lun(i) \in Luns /\ Dir(i) \in Dirs
  <2>1. Len(Mounts) \in Nat /\ \A i \in 1 .. Len(Mounts) : Mounts[i] \in MountInfo
    BY RegistryAssumption
  <2> QED BY <2>1, Zenon DEF Lun, Dir, MountInfo
<1>2. ASSUME NEW i \in Candidates, NEW j \in Candidates, Lun(i) = Lun(j) PROVE i = j
  BY <1>1, <1>2 DEF Candidates
<1>3. ASSUME NEW i \in Candidates, NEW j \in Candidates, Dir(i) = Dir(j) PROVE i = j
  BY <1>1, <1>3, MountedOnce, Zenon DEF Candidates, Dir
<1> QED BY <1>1, <1>2, <1>3, Zenon DEF Candidates

(* None is nothing else.                                                   *)
LEMMA NoneFact == None \notin Luns \cup Dirs \cup Devices \cup DOMAIN Partitions
BY RegistryAssumption, Zenon

(* The loop of Init is at one of its candidates.                           *)
LEMMA AtFacts ==
    ASSUME TypeOK, NEW p \in Procs, todo[p] # {}
    PROVE  At(p) \in todo[p] /\ At(p) \in Candidates
<1>1. todo[p] \subseteq Candidates /\ todo[p] \subseteq Nat
  BY CandidateFacts, RegistryAssumption DEF TypeOK
<1>2. \E i \in todo[p] : \A j \in todo[p] : ~ (<<j, i>> \in OpToRel(<, Nat))
  BY <1>1, WFMin, NatLessThanWellFounded, Zenon
<1>3. PICK i \in todo[p] : \A j \in todo[p] : ~ (<<j, i>> \in OpToRel(<, Nat))
  BY <1>2, Zenon
<1>4. \A j \in todo[p] : i <= j
  <2> SUFFICES ASSUME NEW j \in todo[p] PROVE i <= j
    BY Zenon
  <2>1. ~ (j < i)
    BY <1>1, <1>3, Zenon DEF OpToRel
  <2> QED BY <1>1, <2>1
<1> QED BY <1>1, <1>4, Zenon DEF At

(* What a caller has in hand is a device of a known lun.                   *)
LEMMA MineFacts ==
    ASSUME IInv, NEW p \in Procs, cur[p] # None
    PROVE  cur[p] \in Devices /\ cur[p] \in dbOpen /\ Mine(p) \in Luns
BY CandidateFacts, Zenon DEF IInv, TypeOK, LockInv, OwnerInv, Mine

----------------------------------------------------------------------------
(* One lemma for each action                                               *)

(* A caller with no device in hand moves through Init's loop.              *)
LEMMA FreeMoveStep ==
    ASSUME IInv, NEW p \in Procs, NEW x \in {"idle", "next", "open"},
           pc[p] \in {"idle", "next", "open"}, default = None, Goto(p, x),
           todo' \in [Procs -> SUBSET Candidates],
           \A q \in Procs : todo'[q] = todo[q] \/ q = p, x = "open" => todo'[p] # {},
           err' \in [Procs -> BOOLEAN],
           UNCHANGED <<deviceMap, batchMap, locked, dbOpen, mount, running, fileOpen, cur, stopping, default, req, used, committed>>
    PROVE  IInv'
<1> USE NoneFact DEF IInv, Goto, Fail, open, upload, Mine
<1>1. TypeOK'
  BY CandidateFacts, Zenon DEF TypeOK
<1>2. HeldInv'
  BY CandidateFacts, ZenonT(60) DEF TypeOK, HeldInv
<1>3. LockInv'
  BY CandidateFacts DEF TypeOK, HeldInv, LockInv
<1>4. OwnerInv'
  BY CandidateFacts, Zenon DEF TypeOK, HeldInv, LockInv, OwnerInv
<1>5. BatchInv'
  BY CandidateFacts DEF TypeOK, HeldInv, LockInv, OwnerInv, BatchInv
<1>6. RegisteredIsWhole'
  BY CandidateFacts, Zenon DEF TypeOK, HeldInv, LockInv, OwnerInv, BatchInv, RegisteredIsWhole
<1>7. ServeInv'
  BY CandidateFacts, Zenon DEF TypeOK, HeldInv, ServeInv, OwnerInv
<1>8. CommitOnOwnDevice'
  BY CandidateFacts, Zenon DEF TypeOK, ServeInv, CommitOnOwnDevice
<1> QED BY <1>1, <1>2, <1>3, <1>4, <1>5, <1>6, <1>7, <1>8, Zenon

(* A DB is opened in a directory that was not locked.                      *)
LEMMA OpenOkStep ==
    ASSUME IInv, NEW p \in Procs, pc[p] = "open",
           todo' = [todo EXCEPT ![p] = @ \ {At(p)}], Dir(At(p)) \notin locked,
           NEW d \in Devices \ dbOpen, locked' = locked \cup {Dir(At(p))},
           dbOpen' = dbOpen \cup {d}, mount' = [mount EXCEPT ![d] = At(p)],
           cur' = [cur EXCEPT ![p] = d], Goto(p, "batch"),
           UNCHANGED <<deviceMap, batchMap, running, fileOpen, stopping, err, default, req, used, committed>>
    PROVE  IInv'
<1> USE NoneFact DEF IInv, Goto, Fail, open, upload, Mine
<1>0. At(p) \in Candidates
  BY AtFacts, Zenon DEF HeldInv
<1>9. mount'[d] = At(p) /\ d \notin dbOpen /\ d # None /\ \A c \in dbOpen : mount'[c] = mount[c]
  BY Zenon DEF TypeOK
<1>1. TypeOK'
  BY CandidateFacts, <1>0, <1>9 DEF TypeOK
<1>2. HeldInv'
  BY CandidateFacts, <1>0, <1>9 DEF TypeOK, HeldInv
<1>3. LockInv'
  <2>1. ASSUME NEW c \in dbOpen PROVE Lun(mount[c]) # Lun(At(p))
    <3>1. Dir(mount[c]) \in locked /\ mount[c] \in Candidates
      BY Zenon DEF LockInv
    <3> QED BY <1>0, <3>1, CandidateFacts, Zenon
  <2>2. locked' = {Dir(mount'[c]) : c \in dbOpen'}
    BY <1>9 DEF LockInv
  <2> QED BY <1>0, <1>9, <2>1, <2>2 DEF LockInv
<1>4. OwnerInv'
  <2>1. /\ cur'[p] = d /\ \A q \in Procs : q # p => cur'[q] = cur[q]
        /\ cur[p] = None /\ deviceMap' = deviceMap /\ dbOpen' = dbOpen \cup {d}
    BY Zenon DEF TypeOK, HeldInv
  <2> HIDE DEF Goto
  <2>2. \A q \in Procs : cur'[q] # None => cur'[q] \in dbOpen'
    BY <2>1, Zenon DEF OwnerInv
  <2>3. \A q, r \in Procs : cur'[q] # None /\ cur'[q] = cur'[r] => q = r
    BY <1>9, <2>1 DEF OwnerInv
  <2>4. \A l \in Luns : deviceMap'[l] # None => deviceMap'[l] \in dbOpen' /\ Lun(mount'[deviceMap'[l]]) = l
    BY <1>9, <2>1 DEF OwnerInv
  <2>5. \A q \in Procs : \A l \in Luns : deviceMap'[l] # None => deviceMap'[l] # cur'[q]
    BY <1>9, <2>1 DEF OwnerInv
  <2>6. \A c \in dbOpen' : (\E l \in Luns : deviceMap'[l] = c) \/ (\E q \in Procs : cur'[q] = c)
    <3> SUFFICES ASSUME NEW c \in dbOpen'
                 PROVE  (\E l \in Luns : deviceMap'[l] = c) \/ (\E q \in Procs : cur'[q] = c)
      BY Zenon
    <3>1. CASE c = d
      BY <2>1, <3>1, Zenon
    <3>2. CASE c \in dbOpen
      <4>1. c # None
        BY <3>2, Zenon DEF TypeOK
      <4> QED BY <2>1, <3>2, <4>1 DEF OwnerInv
    <3> QED BY <2>1, <3>1, <3>2, Zenon
  <2> QED BY <2>2, <2>3, <2>4, <2>5, <2>6, Zenon DEF OwnerInv
<1>5. BatchInv'
  BY CandidateFacts, <1>0, <1>9 DEF TypeOK, HeldInv, LockInv, OwnerInv, BatchInv
<1>6. RegisteredIsWhole'
  BY CandidateFacts, <1>0, <1>9 DEF TypeOK, HeldInv, LockInv, OwnerInv, BatchInv, RegisteredIsWhole
<1>7. ServeInv'
  BY CandidateFacts, <1>0, <1>9, Zenon DEF TypeOK, HeldInv, ServeInv, OwnerInv
<1>8. CommitOnOwnDevice'
  BY CandidateFacts, <1>0, <1>9, Zenon DEF TypeOK, ServeInv, CommitOnOwnDevice
<1> QED BY <1>1, <1>2, <1>3, <1>4, <1>5, <1>6, <1>7, <1>8, Zenon

(* The new processor replaces no other.                                    *)
LEMMA AddDataBatchStep ==
    ASSUME IInv, NEW p \in Procs, AddDataBatch(p)
    PROVE  IInv'
<1> USE NoneFact DEF IInv, AddDataBatch, Goto, Fail, open, upload, Mine
<1>0. cur[p] # None /\ cur[p] \in Devices /\ cur[p] \in dbOpen /\ Lun(mount[cur[p]]) \in Luns
  BY MineFacts, Zenon DEF HeldInv, Mine
<1>1. TypeOK'
  BY CandidateFacts, <1>0, Zenon DEF TypeOK
<1>2. HeldInv'
  BY CandidateFacts, <1>0, ZenonT(60) DEF TypeOK, HeldInv
<1>3. LockInv'
  BY CandidateFacts, <1>0 DEF TypeOK, HeldInv, LockInv
<1>4. OwnerInv'
  BY CandidateFacts, <1>0, ZenonT(60) DEF TypeOK, HeldInv, LockInv, OwnerInv
<1>5. BatchInv'
  BY CandidateFacts, <1>0 DEF TypeOK, HeldInv, LockInv, OwnerInv, BatchInv
<1>6. RegisteredIsWhole'
  BY CandidateFacts, <1>0 DEF TypeOK, HeldInv, LockInv, OwnerInv, BatchInv, RegisteredIsWhole
<1>7. ServeInv'
  BY CandidateFacts, <1>0, Zenon DEF TypeOK, HeldInv, ServeInv, OwnerInv
<1>8. CommitOnOwnDevice'
  BY CandidateFacts, <1>0, Zenon DEF TypeOK, ServeInv, CommitOnOwnDevice
<1> QED BY <1>1, <1>2, <1>3, <1>4, <1>5, <1>6, <1>7, <1>8, Zenon

(* The file of a device in hand is opened and closed again.                *)
LEMMA HandMoveStep ==
    ASSUME IInv, NEW p \in Procs,
           NEW x \in {"file", "build", "store", "close", "remove"},
           pc[p] \in {"file", "build", "store", "close", "remove"}, Goto(p, x),
           fileOpen' = IF x \in {"build", "store", "close"} THEN fileOpen \cup {cur[p]} ELSE fileOpen \ {cur[p]},
           err' \in [Procs -> BOOLEAN],
           UNCHANGED <<deviceMap, batchMap, locked, dbOpen, mount, running, todo, cur, stopping, default, req, used, committed>>
    PROVE  IInv'
<1> USE NoneFact DEF IInv, Goto, Fail, open, upload, Mine
<1>0. cur[p] # None /\ cur[p] \in Devices /\ cur[p] \in dbOpen /\ Lun(mount[cur[p]]) \in Luns
  BY MineFacts, Zenon DEF HeldInv, Mine
<1>1. TypeOK'
  BY CandidateFacts, <1>0, Zenon DEF TypeOK
<1>2. HeldInv'
  BY CandidateFacts, <1>0 DEF TypeOK, HeldInv
<1>3. LockInv'
  BY CandidateFacts, <1>0 DEF TypeOK, HeldInv, LockInv
<1>4. OwnerInv'
  BY CandidateFacts, <1>0, ZenonT(60) DEF TypeOK, HeldInv, LockInv, OwnerInv
<1>5. BatchInv'
  BY CandidateFacts, <1>0 DEF TypeOK, HeldInv, LockInv, OwnerInv, BatchInv
<1>6. RegisteredIsWhole'
  BY CandidateFacts, <1>0 DEF TypeOK, HeldInv, LockInv, OwnerInv, BatchInv, RegisteredIsWhole
<1>7. ServeInv'
  BY CandidateFacts, <1>0, Zenon DEF TypeOK, HeldInv, ServeInv, OwnerInv
<1>8. CommitOnOwnDevice'
  BY CandidateFacts, <1>0, Zenon DEF TypeOK, ServeInv, CommitOnOwnDevice
<1> QED BY <1>1, <1>2, <1>3, <1>4, <1>5, <1>6, <1>7, <1>8, Zenon

(* The registry takes the device over.                                     *)
LEMMA StoredStep ==
    ASSUME IInv, NEW p \in Procs, pc[p] = "store", deviceMap[Mine(p)] = None,
           deviceMap' = [deviceMap EXCEPT ![Mine(p)] = cur[p]],
           cur' = [cur EXCEPT ![p] = None], Goto(p, "next"),
           UNCHANGED <<batchMap, locked, dbOpen, mount, running, fileOpen, todo, stopping, err, default, req, used, committed>>
    PROVE  IInv'
<1> USE NoneFact DEF IInv, Goto, Fail, open, upload, Mine
<1>0. cur[p] # None /\ cur[p] \in Devices /\ cur[p] \in dbOpen /\ Lun(mount[cur[p]]) \in Luns
  BY MineFacts, Zenon DEF HeldInv, Mine
<1>1. TypeOK'
  BY CandidateFacts, <1>0, Zenon DEF TypeOK
<1>2. HeldInv'
  BY CandidateFacts, <1>0 DEF TypeOK, HeldInv
<1>3. LockInv'
  BY CandidateFacts, <1>0 DEF TypeOK, HeldInv, LockInv
<1>4. OwnerInv'
  BY CandidateFacts, <1>0, SMTT(30) DEF TypeOK, HeldInv, LockInv, OwnerInv
<1>5. BatchInv'
  BY CandidateFacts, <1>0 DEF TypeOK, HeldInv, LockInv, OwnerInv, BatchInv
<1>6. RegisteredIsWhole'
  BY CandidateFacts, <1>0 DEF TypeOK, HeldInv, LockInv, OwnerInv, BatchInv, RegisteredIsWhole
<1>7. ServeInv'
  BY CandidateFacts, <1>0, Zenon DEF TypeOK, HeldInv, ServeInv, OwnerInv
<1>8. CommitOnOwnDevice'
  BY CandidateFacts, <1>0, Zenon DEF TypeOK, ServeInv, CommitOnOwnDevice
<1> QED BY <1>1, <1>2, <1>3, <1>4, <1>5, <1>6, <1>7, <1>8, ZenonT(60)

----------------------------------------------------------------------------
(* The caller takes the device over from the registry.                     *)
LEMMA RemoveStep ==
    ASSUME IInv, NEW p \in Procs, NEW l \in Luns, Remove(p, l)
    PROVE  IInv'
<1> USE NoneFact DEF IInv, Remove, Goto, Fail, open, upload, Mine
<1>0. /\ deviceMap[l] \in Devices \cap dbOpen /\ deviceMap[l] \in running \cap fileOpen
      /\ Lun(mount[deviceMap[l]]) = l /\ batchMap[l] = deviceMap[l]
      /\ cur[p] = None /\ pc[p] = "idle"
  BY Zenon DEF TypeOK, HeldInv, OwnerInv, RegisteredIsWhole
<1>9. /\ cur'[p] = deviceMap[l] /\ \A q \in Procs : q # p => cur'[q] = cur[q] /\ pc'[q] = pc[q]
      /\ pc'[p] = "close"
      /\ deviceMap'[l] = None /\ \A m \in Luns : m # l => deviceMap'[m] = deviceMap[m]
  BY DEF TypeOK
<1>1. TypeOK'
  BY CandidateFacts, Zenon DEF TypeOK
<1>2. HeldInv'
  BY CandidateFacts DEF TypeOK, HeldInv
<1>3. LockInv'
  BY CandidateFacts DEF TypeOK, HeldInv, LockInv
<1>4. OwnerInv'
  <2>1. \A m \in Luns : deviceMap'[m] # None => m # l /\ deviceMap'[m] # deviceMap[l]
    BY <1>0, <1>9, SMTT(30) DEF OwnerInv
  <2> QED BY <1>0, <1>9, <2>1 DEF OwnerInv
<1>5. BatchInv'
  BY <1>0, <1>9, SMTT(30) DEF BatchInv
<1>6. RegisteredIsWhole'
  BY CandidateFacts DEF TypeOK, HeldInv, LockInv, OwnerInv, BatchInv, RegisteredIsWhole
<1>7. ServeInv'
  BY CandidateFacts, Zenon DEF TypeOK, HeldInv, ServeInv, OwnerInv
<1>8. CommitOnOwnDevice'
  BY CandidateFacts, Zenon DEF TypeOK, ServeInv, CommitOnOwnDevice
<1> QED BY <1>1, <1>2, <1>3, <1>4, <1>5, <1>6, <1>7, <1>8, Zenon

(* The batch found under the lun is the device's own.                      *)
LEMMA RemoveBatchStep ==
    ASSUME IInv, NEW p \in Procs, RemoveBatch(p)
    PROVE  IInv'
<1> USE NoneFact DEF IInv, RemoveBatch, Goto, Fail, open, upload, Mine
<1>0. cur[p] # None /\ cur[p] \in Devices /\ cur[p] \in dbOpen /\ Lun(mount[cur[p]]) \in Luns
  BY MineFacts, Zenon DEF HeldInv, Mine
<1>1. TypeOK'
  BY CandidateFacts, <1>0, Zenon DEF TypeOK
<1>2. HeldInv'
  BY CandidateFacts, <1>0, Zenon DEF TypeOK, HeldInv
<1>3. LockInv'
  BY CandidateFacts, <1>0 DEF TypeOK, HeldInv, LockInv
<1>4. OwnerInv'
  BY CandidateFacts, <1>0, Zenon DEF TypeOK, HeldInv, LockInv, OwnerInv
<1>5. BatchInv'
  BY CandidateFacts, <1>0 DEF TypeOK, HeldInv, LockInv, OwnerInv, BatchInv
<1>6. RegisteredIsWhole'
  BY CandidateFacts, <1>0 DEF TypeOK, HeldInv, LockInv, OwnerInv, BatchInv, RegisteredIsWhole
<1>7. ServeInv'
  BY CandidateFacts, <1>0, Zenon DEF TypeOK, HeldInv, ServeInv, OwnerInv
<1>8. CommitOnOwnDevice'
  BY CandidateFacts, <1>0, Zenon DEF TypeOK, ServeInv, CommitOnOwnDevice
<1> QED BY <1>1, <1>2, <1>3, <1>4, <1>5, <1>6, <1>7, <1>8, Zenon

(* Its processor stops.                                                    *)
LEMMA StopBatchStep ==
    ASSUME IInv, NEW p \in Procs, StopBatch(p)
    PROVE  IInv'
<1> USE NoneFact DEF IInv, StopBatch, Goto, Fail, open, upload, Mine
<1>0. cur[p] # None /\ cur[p] \in Devices /\ cur[p] \in dbOpen /\ Lun(mount[cur[p]]) \in Luns
  BY MineFacts, ZenonT(60) DEF HeldInv, Mine
<1>1. TypeOK'
  BY CandidateFacts, <1>0, Zenon DEF TypeOK
<1>2. HeldInv'
  BY CandidateFacts, <1>0 DEF TypeOK, HeldInv
<1>3. LockInv'
  BY CandidateFacts, <1>0 DEF TypeOK, HeldInv, LockInv
<1>4. OwnerInv'
  BY CandidateFacts, <1>0, Zenon DEF TypeOK, HeldInv, LockInv, OwnerInv
<1>5. BatchInv'
  BY CandidateFacts, <1>0 DEF TypeOK, HeldInv, LockInv, OwnerInv, BatchInv
<1>6. RegisteredIsWhole'
  BY CandidateFacts, <1>0 DEF TypeOK, HeldInv, LockInv, OwnerInv, BatchInv, RegisteredIsWhole
<1>7. ServeInv'
  BY CandidateFacts, <1>0, Zenon DEF TypeOK, HeldInv, ServeInv, OwnerInv
<1>8. CommitOnOwnDevice'
  BY CandidateFacts, <1>0, Zenon DEF TypeOK, ServeInv, CommitOnOwnDevice
<1> QED BY <1>1, <1>2, <1>3, <1>4, <1>5, <1>6, <1>7, <1>8, ZenonT(60)

(* The lock goes with the DB.                                              *)
LEMMA CloseDBStep ==
    ASSUME IInv, NEW p \in Procs, CloseDB(p)
    PROVE  IInv'
<1> USE NoneFact DEF IInv, CloseDB, Goto, Fail, open, upload, Mine
<1>0. cur[p] # None /\ cur[p] \in Devices /\ cur[p] \in dbOpen /\ Lun(mount[cur[p]]) \in Luns
  BY MineFacts, Zenon DEF HeldInv, Mine
<1>1. TypeOK'
  BY CandidateFacts, <1>0, Zenon DEF TypeOK
<1>2. HeldInv'
  BY CandidateFacts, <1>0 DEF TypeOK, HeldInv
<1>3. LockInv'
  BY CandidateFacts, <1>0 DEF TypeOK, HeldInv, LockInv
<1>4. OwnerInv'
  BY CandidateFacts, <1>0, SMTT(30) DEF TypeOK, HeldInv, LockInv, OwnerInv
<1>5. BatchInv'
  BY CandidateFacts, <1>0 DEF TypeOK, HeldInv, LockInv, OwnerInv, BatchInv
<1>6. RegisteredIsWhole'
  BY CandidateFacts, <1>0, Zenon DEF TypeOK, HeldInv, LockInv, OwnerInv, BatchInv, RegisteredIsWhole
<1>7. ServeInv'
  BY CandidateFacts, <1>0, Zenon DEF TypeOK, HeldInv, ServeInv, OwnerInv
<1>8. CommitOnOwnDevice'
  BY CandidateFacts, <1>0, Zenon DEF TypeOK, ServeInv, CommitOnOwnDevice
<1> QED BY <1>1, <1>2, <1>3, <1>4, <1>5, <1>6, <1>7, <1>8, ZenonT(60)

(* main starts to serve.                                                   *)
LEMMA ServeStep ==
    ASSUME IInv, NEW p \in Procs, Serve(p)
    PROVE  IInv'
<1> USE NoneFact DEF IInv, Serve, Goto, Fail, open, upload, Mine
<1>1. TypeOK'
  BY CandidateFacts DEF TypeOK
<1>2. HeldInv'
  BY CandidateFacts, Zenon DEF TypeOK, HeldInv
<1>3. LockInv'
  BY CandidateFacts DEF TypeOK, HeldInv, LockInv
<1>4. OwnerInv'
  BY CandidateFacts, Zenon DEF TypeOK, HeldInv, LockInv, OwnerInv
<1>5. BatchInv'
  BY CandidateFacts, Zenon DEF TypeOK, HeldInv, LockInv, OwnerInv, BatchInv
<1>6. RegisteredIsWhole'
  BY CandidateFacts, Zenon DEF TypeOK, HeldInv, LockInv, OwnerInv, BatchInv, RegisteredIsWhole
<1>7. ServeInv'
  BY CandidateFacts, Zenon DEF TypeOK, HeldInv, ServeInv, OwnerInv
<1>8. CommitOnOwnDevice'
  BY CandidateFacts, Zenon DEF TypeOK, ServeInv, CommitOnOwnDevice
<1> QED BY <1>1, <1>2, <1>3, <1>4, <1>5, <1>6, <1>7, <1>8, Zenon

(* An upload gets its device.                                              *)
LEMMA StartHandlerStep ==
    ASSUME IInv, NEW u \in Uploads, NEW l \in Luns \cup {None}, StartHandler(u, l)
    PROVE  IInv'
<1> USE NoneFact DEF IInv, StartHandler, Goto, Fail, open, upload, Mine
<1>1. TypeOK'
  BY CandidateFacts, Zenon DEF TypeOK
<1>2. HeldInv'
  BY CandidateFacts, Zenon DEF TypeOK, HeldInv
<1>3. LockInv'
  BY CandidateFacts DEF TypeOK, HeldInv, LockInv
<1>4. OwnerInv'
  BY CandidateFacts, ZenonT(60) DEF TypeOK, HeldInv, LockInv, OwnerInv
<1>5. BatchInv'
  BY CandidateFacts, Zenon DEF TypeOK, HeldInv, LockInv, OwnerInv, BatchInv
<1>6. RegisteredIsWhole'
  BY CandidateFacts, Zenon DEF TypeOK, HeldInv, LockInv, OwnerInv, BatchInv, RegisteredIsWhole
<1>7. ServeInv'
  BY CandidateFacts DEF TypeOK, HeldInv, ServeInv, OwnerInv
<1>8. CommitOnOwnDevice'
  BY CandidateFacts DEF TypeOK, ServeInv, CommitOnOwnDevice
<1> QED BY <1>1, <1>2, <1>3, <1>4, <1>5, <1>6, <1>7, <1>8, ZenonT(60)

(* Its commit goes where its lun is registered.                            *)
LEMMA SubmitRequestStep ==
    ASSUME IInv, NEW u \in Uploads, SubmitRequest(u)
    PROVE  IInv'
<1> DEFINE d == used[u]
<1>0. /\ TypeOK /\ HeldInv /\ LockInv /\ OwnerInv /\ BatchInv /\ RegisteredIsWhole
      /\ ServeInv /\ CommitOnOwnDevice
  BY Zenon DEF IInv
<1>1. /\ deviceMap' = deviceMap /\ batchMap' = batchMap /\ locked' = locked /\ dbOpen' = dbOpen
      /\ running' = running /\ fileOpen' = fileOpen /\ mount' = mount /\ pc' = pc /\ todo' = todo
      /\ cur' = cur /\ stopping' = stopping /\ err' = err /\ default' = default /\ req' = req
      /\ used' = used /\ committed' = [committed EXCEPT ![u] = batchMap[CommitLun(u)]]
  BY Zenon DEF SubmitRequest, open
<1>2. d # None /\ batchMap[CommitLun(u)] # None
  BY Zenon DEF SubmitRequest
<1>3. PICK l \in Luns : deviceMap[l] = d
  BY <1>0, <1>2, Zenon DEF ServeInv
<1>4. Lun(mount[d]) = l /\ batchMap[l] = d
  BY <1>0, <1>2, <1>3, Zenon DEF RegisteredIsWhole
<1>5. batchMap[CommitLun(u)] = d
  <2>1. CASE req[u] = None
    BY <1>4, <2>1, Zenon DEF CommitLun
  <2>2. CASE req[u] # None
    <3> DEFINE b == batchMap[req[u]]
    <3>1. req[u] \in Luns /\ CommitLun(u) = req[u] /\ b # None
      BY <1>0, <1>2, <2>2, Zenon DEF TypeOK, CommitLun
    <3>2. b \in dbOpen /\ Lun(mount[b]) = req[u]
      BY <1>0, <3>1, Zenon DEF BatchInv
    <3>3. \A p \in Procs : cur[p] = None
      BY <1>0, <1>2, Zenon DEF ServeInv, HeldInv
    <3>4. PICK k \in Luns : deviceMap[k] = b
      BY <1>0, <3>1, <3>2, <3>3, Zenon DEF OwnerInv
    <3>5. k = req[u]
      BY <1>0, <3>1, <3>2, <3>4, Zenon DEF OwnerInv
    <3>6. deviceMap[req[u]] = d
      BY <1>0, <1>2, <2>2, <3>1, <3>4, <3>5, Zenon DEF ServeInv
    <3> QED BY <3>1, <3>4, <3>5, <3>6, Zenon
  <2> QED BY <2>1, <2>2, Zenon
<1>6. d \in Devices
  BY <1>0, <1>2, Zenon DEF TypeOK
<1>7. TypeOK'
  BY <1>0, <1>1, <1>5, <1>6, Zenon DEF TypeOK
<1>8. HeldInv' /\ LockInv'
  BY <1>0, <1>1, Zenon DEF HeldInv, LockInv
<1>9. OwnerInv'
  BY <1>0, <1>1, Zenon DEF OwnerInv
<1>10. BatchInv'
  BY <1>0, <1>1, Zenon DEF BatchInv, Mine
<1>11. RegisteredIsWhole'
  BY <1>0, <1>1, Zenon DEF RegisteredIsWhole
<1>12. ServeInv'
  BY <1>0, <1>1, Zenon DEF ServeInv
<1>13. CommitOnOwnDevice'
  BY <1>0, <1>1, <1>5, Zenon DEF TypeOK, CommitOnOwnDevice
<1> QED BY <1>7, <1>8, <1>9, <1>10, <1>11, <1>12, <1>13, ZenonT(60) DEF IInv

(* The invariant holds initially.                                          *)
LEMMA InitIInv == Init => IInv
<1> SUFFICES ASSUME Init PROVE IInv
  BY Zenon
<1> USE NoneFact, CandidateFacts DEF Init
<1>1. TypeOK
  BY RegistryAssumption DEF TypeOK
<1>2. HeldInv /\ LockInv /\ OwnerInv /\ BatchInv
  BY Zenon DEF HeldInv, LockInv, OwnerInv, BatchInv, Mine
<1>3. RegisteredIsWhole /\ ServeInv /\ CommitOnOwnDevice
  BY Zenon DEF RegisteredIsWhole, ServeInv, CommitOnOwnDevice
<1> QED BY <1>1, <1>2, <1>3, Zenon DEF IInv

(* Every step keeps it.                                                    *)
LEMMA NextIInv == IInv /\ [Next]_vars => IInv'
<1> SUFFICES ASSUME IInv, [Next]_vars PROVE IInv'
  BY Zenon
<1> USE DEF IInv, Goto, Fail, open, upload
<1>1. ASSUME NEW p \in Procs, NEW dir \in Dirs \cup {None}, InitScan(p, dir) PROVE IInv'
  <2>1. pc[p] = "idle" /\ default = None /\ todo \in [Procs -> SUBSET Candidates]
    BY <1>1, Zenon DEF InitScan, TypeOK
  <2>2. CASE Fail(p) /\ UNCHANGED <<todo, pc>>
    <3>1. pc' = [pc EXCEPT ![p] = "idle"] /\ err' \in [Procs -> BOOLEAN]
      BY <2>1, <2>2, Zenon DEF TypeOK
    <3> QED BY <1>1, <2>1, <2>2, <3>1, FreeMoveStep, Zenon DEF InitScan
  <2>3. CASE ~ (Fail(p) /\ UNCHANGED <<todo, pc>>)
    <3>1. /\ pc' = [pc EXCEPT ![p] = "next"] /\ err' \in [Procs -> BOOLEAN]
          /\ todo' = [todo EXCEPT ![p] = {i \in Candidates : dir \in {None, Dir(i)}}]
      BY <1>1, <2>3, Zenon DEF InitScan, TypeOK
    <3>2. todo' \in [Procs -> SUBSET Candidates] /\ \A q \in Procs : todo'[q] = todo[q] \/ q = p
      BY <2>1, <3>1, Zenon
    <3> QED BY <1>1, <2>1, <3>1, <3>2, FreeMoveStep, Zenon DEF InitScan
  <2> QED BY <2>2, <2>3, Zenon
<1>2. ASSUME NEW p \in Procs, InitNext(p) PROVE IInv'
  <2>1. /\ pc[p] = "next" /\ default = None
        /\ todo' \in [Procs -> SUBSET Candidates] /\ \A q \in Procs : todo'[q] = todo[q] \/ q = p
        /\ err' \in [Procs -> BOOLEAN]
    BY <1>2 DEF InitNext, TypeOK, ServeInv
  <2>2. \E x \in {"idle", "next", "open"} : Goto(p, x) /\ (x = "open" => todo'[p] # {})
    BY <1>2, Zenon DEF InitNext, TypeOK
  <2> QED BY <1>2, <2>1, <2>2, FreeMoveStep, ZenonT(60) DEF InitNext
<1>3. ASSUME NEW p \in Procs, OpenDataDB(p) PROVE IInv'
  <2>1. CASE Goto(p, "next") /\ Fail(p) /\ UNCHANGED <<open, cur>>
    <3>1. /\ pc[p] = "open" /\ default = None
          /\ todo' \in [Procs -> SUBSET Candidates] /\ \A q \in Procs : todo'[q] = todo[q] \/ q = p
          /\ err' \in [Procs -> BOOLEAN]
      BY <1>3, <2>1, Zenon DEF OpenDataDB, TypeOK, ServeInv
    <3> QED BY <1>3, <2>1, <3>1, FreeMoveStep, ZenonT(60) DEF OpenDataDB
  <2> QED BY <1>3, <2>1, OpenOkStep, Zenon DEF OpenDataDB
<1>4. ASSUME NEW p \in Procs, OpenFile(p) PROVE IInv'
  <2>1. err' \in [Procs -> BOOLEAN] /\ (fileOpen' = fileOpen => fileOpen' = fileOpen \ {cur[p]})
    BY <1>4, ZenonT(60) DEF OpenFile, TypeOK, BatchInv
  <2> QED BY <1>4, <2>1, HandMoveStep, Zenon DEF OpenFile
<1>5. ASSUME NEW p \in Procs, NewBlockDevice(p) PROVE IInv'
  <2>1. err' \in [Procs -> BOOLEAN] /\ fileOpen = fileOpen \cup {cur[p]}
    BY <1>5, ZenonT(60) DEF NewBlockDevice, TypeOK, BatchInv
  <2> QED BY <1>5, <2>1, HandMoveStep, Zenon DEF NewBlockDevice
<1>6. ASSUME NEW p \in Procs, LoadOrStore(p) PROVE IInv'
  <2>1. err' \in [Procs -> BOOLEAN] /\ fileOpen = fileOpen \cup {cur[p]}
    BY <1>6 DEF LoadOrStore, TypeOK, BatchInv
  <2> QED BY <1>6, <2>1, StoredStep, HandMoveStep, Zenon DEF LoadOrStore
<1>12. ASSUME NEW p \in Procs, CloseChannel(p) PROVE IInv'
  <2>1. err' \in [Procs -> BOOLEAN]
    BY <1>12, Zenon DEF CloseChannel, TypeOK
  <2> QED BY <1>12, <2>1, HandMoveStep, Zenon DEF CloseChannel
<1>7. ASSUME NEW p \in Procs, AddDataBatch(p) \/ CloseStep(p) \/ Serve(p) PROVE IInv'
  BY <1>7, <1>12, AddDataBatchStep, RemoveBatchStep, StopBatchStep, CloseDBStep,
     ServeStep, Zenon DEF CloseStep
<1>8. ASSUME NEW p \in Procs, NEW l \in Luns, Remove(p, l) PROVE IInv'
  BY <1>8, RemoveStep, Zenon
<1>9. ASSUME NEW u \in Uploads, NEW l \in Luns \cup {None}, StartHandler(u, l) PROVE IInv'
  BY <1>9, StartHandlerStep, Zenon
<1>10. ASSUME NEW u \in Uploads, SubmitRequest(u) PROVE IInv'
  BY <1>10, SubmitRequestStep, Zenon
<1>11. CASE UNCHANGED vars
  <2>1. TypeOK' /\ HeldInv' /\ LockInv'
    BY <1>11, SMTT(30) DEF vars, TypeOK, HeldInv, LockInv
  <2>2. OwnerInv' /\ BatchInv'
    BY <1>11 DEF vars, OwnerInv, BatchInv, Mine
  <2>3. RegisteredIsWhole' /\ ServeInv' /\ CommitOnOwnDevice'
    BY <1>11, Zenon DEF vars, RegisteredIsWhole, ServeInv, CommitOnOwnDevice
  <2> QED BY <2>1, <2>2, <2>3, Zenon
<1> QED
  BY <1>1, <1>2, <1>3, <1>4, <1>5, <1>6, <1>7, <1>8, <1>9, <1>10, <1>11, Zenon DEF Next, OpenStep

----------------------------------------------------------------------------
(* Theorems                                                                *)

(* The inductive invariant of the registries.                              *)
THEOREM Invariant == Spec => []IInv
BY InitIInv, NextIInv, PTL DEF Spec

(* The variables keep their types.                                         *)
THEOREM TypeCorrect == Spec => []TypeOK
<1>1. IInv => TypeOK
  BY Zenon DEF IInv
<1> QED BY <1>1, Invariant, PTL

(* What Get returns is open and is the device its lun commits to.          *)
THEOREM RegisteredDevicesAreWhole == Spec => []RegisteredIsWhole
<1>1. IInv => RegisteredIsWhole
  BY Zenon DEF IInv
<1> QED BY <1>1, Invariant, PTL

(* The branch of LoadOrStore that closes the new device is dead.           *)
THEOREM StoreDoesNotLose == Spec => []StoreNeverLoses
<1>1. IInv => StoreNeverLoses
  <2> SUFFICES ASSUME IInv, NEW p \in Procs, pc[p] = "store", deviceMap[Mine(p)] # None
               PROVE  FALSE
    BY Zenon DEF StoreNeverLoses
  <2>1. cur[p] # None
    BY ZenonT(60) DEF IInv, HeldInv
  <2>2. cur[p] \in dbOpen /\ Mine(p) \in Luns
    BY <2>1, MineFacts, Zenon
  <2> QED BY <2>1, <2>2 DEF IInv, LockInv, OwnerInv, Mine
<1> QED BY <1>1, Invariant, PTL

(* Failed opens and Remove leave nothing open, running, locked or          *)
(* registered.                                                             *)
THEOREM NoLeaks == Spec => []NothingLeaks
<1>1. IInv => NothingLeaks
  BY DEF IInv, LockInv, OwnerInv, BatchInv, NothingLeaks
<1> QED BY <1>1, Invariant, PTL

(* An upload's metadata and data are on one device.                        *)
THEOREM CommitsOnOwnDevice == Spec => []CommitOnOwnDevice
<1>1. IInv => CommitOnOwnDevice
  BY Zenon DEF IInv
<1> QED BY <1>1, Invariant, PTL

=============================================================================

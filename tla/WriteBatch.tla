------------------------------ MODULE WriteBatch ------------------------------
(***************************************************************************)
(* Object metadata in WriteBatch.go and the typed handlers of              *)
(* batch_pebble.go.  The metadata of an object is stored under its key,    *)
(* which begins with a digit, or, when it is a delete marker, under "~"    *)
(* and the key.  Every operation is a sequence of plain Sets and Deletes   *)
(* on one indexed batch, each of which may fail; flush then clears the     *)
(* batch, otherwise it commits it.                                         *)
(***************************************************************************)
EXTENDS Integers, Sequences, FiniteSetsExt

CONSTANTS
    Objects,      \* keys that begin with a digit
    Values,       \* metadata of existing objects
    Markers,      \* metadata with deleteMark
    None,         \* no value
    MaxPuts,      \* bound on the keys of a PutOnly or a DeleteAndPut
    MaxRequests   \* bound on the requests of one flush

ASSUME WriteBatchAssumption ==
    /\ Values \cap Markers = {} /\ None \notin Values \cup Markers
    /\ MaxPuts \in Nat \ {0} /\ MaxRequests \in Nat \ {0}

Metas == Values \cup Markers
Plain(o) == [prefix |-> "", obj |-> o]

getDeleteMarkKey(o) == [prefix |-> "~", obj |-> o]

\* TransferAndPut's key: "~" instead of the first digit.  Where the rest of
\* the key is an object's key too, this is that object's delete marker key;
\* the model leaves such pairs of objects out (nobody calls TransferAndPut).
TransferKey(o) == [prefix |-> "~-", obj |-> o]

MetaKeys == [prefix : {"", "~", "~-"}, obj : Objects]

VARIABLES
    stored,    \* what is committed: a value or None for every key
    view,      \* the indexed batch over it: what Get on the batch returns
    handled,   \* number of requests handled in this flush
    failed,    \* flush's batchErr # nil
    latest,    \* history: the last metadata put for each object, in this batch too
    durable    \* history: the same at the last commit

batchVars == <<stored, view, handled, failed, latest, durable>>

BatchInit ==
    /\ stored = [k \in MetaKeys |-> None] /\ view = stored
    /\ handled = 0 /\ failed = FALSE
    /\ latest = [o \in Objects |-> None] /\ durable = latest

----------------------------------------------------------------------------
(* The batch operations, as sequences of writes                            *)

Set(k, v) == [key |-> k, value |-> v]
Del(k) == [key |-> k, value |-> None]

isDeleteMarker(v) == v \in Markers

\* Mutation of delete: the delete marker key is left.
delete_PlainOnly(o) == <<Del(Plain(o)), Del(Plain(o))>>

delete(o) == <<Del(getDeleteMarkKey(o)), Del(Plain(o))>>

put(o, v) ==
    delete(o) \o <<Set(IF isDeleteMarker(v) THEN getDeleteMarkKey(o) ELSE Plain(o), v)>>

TransferAndPut(o, v) == delete(o) \o <<Set(TransferKey(o), v)>>

\* The writes of several operations of n writes each, one after another.
InTurn(ops, n) ==
    [i \in 1 .. n * Len(ops) |-> ops[((i - 1) \div n) + 1][((i - 1) % n) + 1]]

handlePutOnly(pairs) == InTurn([i \in DOMAIN pairs |-> put(pairs[i].obj, pairs[i].value)], 3)

\* All keys are deleted and, if there is a value, the last one is put again.
handleDeleteAndPut(objs, v) ==
    InTurn([i \in DOMAIN objs |-> delete(objs[i])], 2)
       \o (IF v = None THEN <<>> ELSE put(objs[Len(objs)], v))

getFromBatchAndDB(store, o) ==
    IF store[Plain(o)] # None THEN store[Plain(o)] ELSE store[getDeleteMarkKey(o)]

----------------------------------------------------------------------------
(* flush                                                                   *)

\* An indexed batch reads the last write of a key, or the database.
Apply(store, writes) ==
    [k \in MetaKeys |-> LET hits == {i \in DOMAIN writes : writes[i].key = k}
                        IN  IF hits = {} THEN store[k] ELSE writes[Max(hits)].value]

\* handleRequest: all the writes of a request, or some of them and an error.
Handle(writes, outcome) ==
    /\ ~ failed /\ handled < MaxRequests
    /\ handled' = handled + 1
    /\ \/ view' = Apply(view, writes) /\ latest' = outcome /\ UNCHANGED failed
       \/ \E n \in 0 .. Len(writes) - 1 : view' = Apply(view, SubSeq(writes, 1, n))
          /\ failed' = TRUE /\ UNCHANGED latest
    /\ UNCHANGED <<stored, durable>>

Put(o, v) == Handle(put(o, v), [latest EXCEPT ![o] = v])

Delete(o) == Handle(delete(o), [latest EXCEPT ![o] = None])

Transfer(o, v) == Handle(TransferAndPut(o, v), [latest EXCEPT ![o] = None])

PutOnly(pairs) ==
    Handle(handlePutOnly(pairs),
           [o \in Objects |-> LET mine == {i \in DOMAIN pairs : pairs[i].obj = o}
                             IN  IF mine = {} THEN latest[o] ELSE pairs[Max(mine)].value])

DeleteAndPut(objs, v) ==
    Handle(handleDeleteAndPut(objs, v),
           [o \in Objects |-> IF o = objs[Len(objs)] THEN v
                              ELSE IF o \in Range(objs) THEN None ELSE latest[o]])

\* handleCompareAndPut is not implemented and always fails.  So do a PutOnly
\* with more keys than values, or fewer, and a DeleteAndPut of a value without
\* a key; none of them writes.
CompareAndPut ==
    /\ ~ failed /\ handled < MaxRequests
    /\ handled' = handled + 1 /\ failed' = TRUE
    /\ UNCHANGED <<stored, view, latest, durable>>

\* Commit makes the batch durable; it, or a handler before it, may have
\* failed.  In both cases the deferred Clear empties the batch.
CommitBatch ==
    /\ ~ failed /\ handled > 0
    /\ stored' = view /\ durable' = latest
    /\ handled' = 0
    /\ UNCHANGED <<view, latest, failed>>

\* Mutation of Clear: the batch is not reset.
Clear_KeepsBatch ==
    /\ handled > 0
    /\ latest' = durable
    /\ handled' = 0 /\ failed' = FALSE
    /\ UNCHANGED <<stored, view, durable>>

Clear ==
    /\ handled > 0
    /\ view' = stored /\ latest' = durable
    /\ handled' = 0 /\ failed' = FALSE
    /\ UNCHANGED <<stored, durable>>

Pairs == [obj : Objects, value : Metas]

BatchNext ==
    \/ \E o \in Objects, v \in Metas : Put(o, v) \/ Transfer(o, v)
    \/ \E o \in Objects : Delete(o)
    \/ \E n \in 0 .. MaxPuts : \E pairs \in [1 .. n -> Pairs] : PutOnly(pairs)
    \/ \E n \in 1 .. MaxPuts : \E objs \in [1 .. n -> Objects], v \in Metas \cup {None} :
          DeleteAndPut(objs, v)
    \/ CompareAndPut
    \/ CommitBatch
    \/ Clear

BatchSpec == BatchInit /\ [][BatchNext]_batchVars

----------------------------------------------------------------------------
(* Properties                                                              *)

(* An object never has metadata under both of its keys (put: "old and new  *)
(* state must not coexist"), in the database or in a batch, whatever mix   *)
(* of existing and deleted versions was put before and in however many     *)
(* batches.                                                                *)
NoCoexistence ==
    \A o \in Objects : \A store \in {stored, view} :
       store[Plain(o)] = None \/ store[getDeleteMarkKey(o)] = None

(* Reading an object gives the metadata last put for it: what this batch   *)
(* has staged, from whichever of its two keys, or what was last committed, *)
(* never a version that was replaced or deleted, and nothing of a flush    *)
(* that failed.                                                            *)
GetIsLatest ==
    \A o \in Objects :
       /\ getFromBatchAndDB(stored, o) = durable[o]
       /\ ~ failed => getFromBatchAndDB(view, o) = latest[o]

==============================================================================

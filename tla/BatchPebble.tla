----------------------------- MODULE BatchPebble -----------------------------
(***************************************************************************)
(* The group-commit processor of internal/database/pebble/batch_pebble.go: *)
(* callers put requests on a bounded channel, one goroutine takes as many  *)
(* as it finds (at most MaxBatch), runs their consumers on one indexed     *)
(* batch, commits it once and tells every caller the outcome.  A caller    *)
(* submits one request and waits for its result channel.                   *)
(*                                                                         *)
(* A consumer is code of the caller.  Two shapes are modelled: one Sets    *)
(* its key and Merges 1 into a counter, as the upload handler does; the    *)
(* other looks its key up in batch and database first                      *)
(* (WriteBatch.GetFromBatchAndDB) and does nothing if it is there.  (The   *)
(* handler's own check looks under another key than the one it writes; see *)
(* UploadServer.)  It may fail anywhere.  Database and batch are the       *)
(* sequences of the operations applied to them.                            *)
(***************************************************************************)
EXTENDS Integers, Sequences, FiniteSets

CONSTANTS
    Callers,      \* each submits one request
    Keys,         \* file keys
    KeyOf,        \* the key a caller's request is about
    LowPriority,  \* callers of CustomizeOperateDataLowPriority
    NoGet,        \* callers whose consumer does not look before it writes
    MaxBatch,     \* maxBatchSize
    QueueCap      \* capacity of dataProc

ASSUME BatchAssumption ==
    /\ KeyOf \in [Callers -> Keys]
    /\ LowPriority \subseteq Callers /\ NoGet \subseteq Callers
    /\ MaxBatch \in Nat \ {0} /\ QueueCap \in Nat \ {0}

VARIABLES
    registered,  \* batchMap has the lun
    stopClosed,  \* stopCh is closed
    dbOpen,      \* db.Close has not been called
    remover,     \* where closeDB is: "none", "removed", "stopping", "closed"
    queue,       \* dataProc
    proc,        \* where runProcessor is
    requests,    \* the requests of this flush, in arrival order
    todo,        \* which of them, by position, flush has still to handle
    batchErr,    \* flush's batchErr # nil
    batch,       \* operations in the indexed batch
    db,          \* operations committed
    pc,          \* where each caller is
    result       \* what its result channel delivered

remove == <<registered, stopClosed, dbOpen, remover>>
flushing == <<requests, todo, batchErr, batch>>
vars == <<registered, stopClosed, dbOpen, remover, queue, proc, requests, todo,
          batchErr, batch, db, pc, result>>

SetOp(c) == [op |-> "set", by |-> c]
NumOp(c) == [op |-> "num", by |-> c]
Ops == [op : {"set", "num"}, by : Callers]

\* GetFromBatchAndDB finds key k after the operations of log.
Holds(log, k) == \E i \in DOMAIN log : log[i].op = "set" /\ KeyOf[log[i].by] = k

Init ==
    /\ registered = FALSE /\ stopClosed = FALSE /\ dbOpen = TRUE /\ remover = "none"
    /\ queue = <<>> /\ proc = "new"
    /\ requests = <<>> /\ todo = {} /\ batchErr = FALSE /\ batch = <<>> /\ db = <<>>
    /\ pc = [c \in Callers |-> "idle"]
    /\ result = [c \in Callers |-> "none"]

AddDataBatch ==
    /\ proc = "new"
    /\ proc' = "wait" /\ registered' = TRUE
    /\ UNCHANGED <<stopClosed, dbOpen, remover, queue, flushing, db, pc, result>>

----------------------------------------------------------------------------
(* Callers                                                                 *)

\* submitRequest: find the processor; without one the request fails at once.
SubmitRequest(c) ==
    /\ pc[c] = "idle"
    /\ pc' = [pc EXCEPT ![c] = IF registered THEN "dispatch" ELSE "done"]
    /\ result' = [result EXCEPT ![c] = IF registered THEN @ ELSE "unregistered"]
    /\ UNCHANGED <<remove, queue, proc, flushing, db>>

\* dispatch's select: both cases may be ready, and then either is taken.
DispatchSend(c) ==
    /\ pc[c] = "dispatch" /\ Len(queue) < QueueCap
    /\ queue' = Append(queue, c)
    /\ pc' = [pc EXCEPT ![c] = "waiting"]
    /\ UNCHANGED <<remove, proc, flushing, db, result>>

DispatchStopped(c) ==
    /\ pc[c] = "dispatch" /\ stopClosed
    /\ pc' = [pc EXCEPT ![c] = "done"]
    /\ result' = [result EXCEPT ![c] = "stopped"]
    /\ UNCHANGED <<remove, queue, proc, flushing, db>>

\* The caller receives from its result channel.
Receive(c) ==
    /\ pc[c] = "waiting" /\ result[c] # "none"
    /\ pc' = [pc EXCEPT ![c] = "done"]
    /\ UNCHANGED <<remove, queue, proc, flushing, db, result>>

----------------------------------------------------------------------------
(* runProcessor                                                            *)

TakeFirst ==
    /\ proc = "wait" /\ queue # <<>>
    /\ requests' = <<Head(queue)>> /\ queue' = Tail(queue)
    /\ proc' = "drain"
    /\ UNCHANGED <<remove, todo, batchErr, batch, db, pc, result>>

\* Mutation of SeeStop: stopCh is only looked at after a flush.
SeeStop_AfterFlush ==
    /\ proc = "check" /\ stopClosed
    /\ proc' = "draining"
    /\ UNCHANGED <<remove, queue, flushing, db, pc, result>>

\* The first select, and the one after a flush, both lead to drainOnStop.
SeeStop ==
    /\ proc \in {"wait", "check"} /\ stopClosed
    /\ proc' = "draining"
    /\ UNCHANGED <<remove, queue, flushing, db, pc, result>>

NoStop ==
    /\ proc = "check" /\ ~stopClosed
    /\ proc' = "wait"
    /\ UNCHANGED <<remove, queue, flushing, db, pc, result>>

\* Take one more request, or start the flush when the channel is empty or
\* the batch is full.
Drain ==
    /\ proc = "drain"
    /\ IF queue # <<>> /\ Len(requests) < MaxBatch
         THEN /\ requests' = Append(requests, Head(queue)) /\ queue' = Tail(queue)
              /\ UNCHANGED <<proc, todo>>
         ELSE /\ todo' = DOMAIN requests
              /\ proc' = "handle"
              /\ UNCHANGED <<requests, queue>>
    /\ UNCHANGED <<remove, batchErr, batch, db, pc, result>>

\* Mutation of DrainOnStop: the processor exits without failing what is queued.
DrainOnStop_Forgets ==
    /\ proc = "draining"
    /\ proc' = "exited"
    /\ UNCHANGED <<remove, queue, flushing, db, pc, result>>

\* drainOnStop: fail what is queued, then exit.
DrainOnStop ==
    /\ proc = "draining"
    /\ IF queue # <<>>
         THEN /\ result' = [result EXCEPT ![Head(queue)] = "stopped"]
              /\ queue' = Tail(queue)
              /\ UNCHANGED proc
         ELSE /\ proc' = "exited"
              /\ UNCHANGED <<result, queue>>
    /\ UNCHANGED <<remove, flushing, db, pc>>

----------------------------------------------------------------------------
(* flush                                                                   *)

\* Mutation of Writes: the consumer reads the database, not the batch.
Writes_DbOnly(c, log) ==
    IF c \notin NoGet /\ Holds(db, KeyOf[c])
    THEN <<>> ELSE <<SetOp(c), NumOp(c)>>

\* The operations the consumer of c adds when it finds what it reads in log.
Writes(c, log) ==
    IF c \notin NoGet /\ Holds(log, KeyOf[c])
    THEN <<>> ELSE <<SetOp(c), NumOp(c)>>

\* The two loops of flush: normal requests in their order, then the others.
Before(i, j) ==
    \/ requests[i] \notin LowPriority /\ requests[j] \in LowPriority
    \/ (requests[i] \in LowPriority <=> requests[j] \in LowPriority) /\ i < j

NextUp(i) == i \in todo /\ \A j \in todo \ {i} : Before(i, j)

\* One consumer runs: all of its writes, or some of them and then an error,
\* which ends the loop.
HandleRequest ==
    /\ proc = "handle"
    /\ \E i \in todo :
          LET w == Writes(requests[i], db \o batch)
          IN /\ NextUp(i)
             /\ \/ /\ batch' = batch \o w
                   /\ todo' = todo \ {i}
                   /\ UNCHANGED <<proc, batchErr>>
                \/ \E n \in 0 .. Len(w) :
                      /\ batch' = batch \o SubSeq(w, 1, n)
                      /\ batchErr' = TRUE /\ todo' = {}
                      /\ proc' = "notify"
    /\ UNCHANGED <<remove, queue, requests, db, pc, result>>

\* Mutation of Commit: the error of batch.Commit is dropped.
Commit_ErrorDropped ==
    /\ proc = "handle" /\ todo = {}
    /\ proc' = "notify"
    /\ db' \in {db, db \o batch}
    /\ UNCHANGED <<remove, queue, requests, todo, batchErr, batch, pc, result>>

Commit ==
    /\ proc = "handle" /\ todo = {}
    /\ proc' = "notify"
    /\ \/ db' = db \o batch /\ UNCHANGED batchErr
       \/ batchErr' = TRUE /\ UNCHANGED db
    /\ UNCHANGED <<remove, queue, requests, todo, batch, pc, result>>

Notify ==
    /\ proc = "notify" /\ requests # <<>>
    /\ result' = [result EXCEPT ![Head(requests)] = IF batchErr THEN "failed" ELSE "ok"]
    /\ requests' = Tail(requests)
    /\ UNCHANGED <<remove, queue, proc, todo, batchErr, batch, db, pc>>

\* Mutation of FlushReturn: the batch is not cleared.
FlushReturn_NoClear ==
    /\ proc = "notify" /\ requests = <<>>
    /\ batchErr' = FALSE
    /\ proc' = "check"
    /\ UNCHANGED <<remove, queue, requests, todo, batch, db, pc, result>>

\* flush returns; its deferred Clear empties the batch for the next one.
FlushReturn ==
    /\ proc = "notify" /\ requests = <<>>
    /\ batch' = <<>> /\ batchErr' = FALSE
    /\ proc' = "check"
    /\ UNCHANGED <<remove, queue, requests, todo, db, pc, result>>

----------------------------------------------------------------------------
(* closeDB of OpenPartitionBlockDevice: RemoveBatch, then db.Close         *)

RemoveBatch ==
    /\ remover = "none" /\ registered
    /\ registered' = FALSE /\ remover' = "removed"
    /\ UNCHANGED <<stopClosed, dbOpen, queue, proc, flushing, db, pc, result>>

StopClose ==
    /\ remover = "removed"
    /\ stopClosed' = TRUE /\ remover' = "stopping"
    /\ UNCHANGED <<registered, dbOpen, queue, proc, flushing, db, pc, result>>

\* Mutation of StopWait: stop does not wait for the processor.
StopWait_NoWait ==
    /\ remover = "stopping"
    /\ remover' = "closed" /\ dbOpen' = FALSE
    /\ UNCHANGED <<registered, stopClosed, queue, proc, flushing, db, pc, result>>

\* stop's wg.Wait returns, and the database is closed.
StopWait ==
    /\ remover = "stopping" /\ proc = "exited"
    /\ remover' = "closed" /\ dbOpen' = FALSE
    /\ UNCHANGED <<registered, stopClosed, queue, proc, flushing, db, pc, result>>

----------------------------------------------------------------------------

Processor == TakeFirst \/ SeeStop \/ NoStop \/ Drain \/ DrainOnStop
                \/ HandleRequest \/ Commit \/ Notify \/ FlushReturn
Caller(c) == SubmitRequest(c) \/ DispatchSend(c) \/ DispatchStopped(c) \/ Receive(c)
Remover == RemoveBatch \/ StopClose \/ StopWait

Next == AddDataBatch \/ Processor \/ Remover \/ \E c \in Callers : Caller(c)

\* Goroutines that can run do run.  Nothing obliges anyone to open or to
\* remove the device, or a caller to start, but a removal once begun goes on.
Fairness ==
    /\ WF_vars(Processor)
    /\ WF_vars(StopClose \/ StopWait)
    /\ \A c \in Callers : WF_vars(DispatchSend(c) \/ DispatchStopped(c) \/ Receive(c))

Spec == Init /\ [][Next]_vars /\ Fairness

----------------------------------------------------------------------------
(* Properties                                                              *)

OpsOf(c, log) == {i \in DOMAIN log : log[i].by = c}

(* No partial commit is ever made: of the operations of one consumer the   *)
(* database has all or none, also when the consumer failed half way into a *)
(* batch that is then used again (flush's deferred batch.Clear).           *)
AllOrNothing == \A c \in Callers : Cardinality(OpsOf(c, db)) \in {0, 2}

(* The answer tells the caller what is in the database: after nil its key  *)
(* is there, written by it or by whoever came first; after an error        *)
(* nothing of its request is, whichever request of the batch failed.       *)
AnswerMatchesStore ==
    \A c \in Callers :
       /\ result[c] = "ok" => Holds(db, KeyOf[c])
       /\ result[c] \in {"failed", "stopped", "unregistered"} => OpsOf(c, db) = {}

(* A consumer that looks before it writes never overwrites, whether the    *)
(* other write is in the database or earlier in the same batch             *)
(* (GetFromBatchAndDB on the indexed batch).                               *)
PutIfAbsent ==
    \A i, j \in DOMAIN db :
       i < j /\ db[i].op = "set" /\ db[j].op = "set" /\ KeyOf[db[i].by] = KeyOf[db[j].by]
          => db[j].by \in NoGet

(* Nothing is committed to a database that has been closed: closeDB waits  *)
(* for the processor, which may be in the middle of a flush.               *)
CommitsOnOpenDb == [][db' # db => dbOpen]_vars

(* Callers are served: none stays in dispatch, even when the channel is    *)
(* full and the processor gone, and a request that is on the channel while *)
(* the processor has not exited is answered, whether or not the device is  *)
(* removed in the meantime.                                                *)
CallersServed ==
    \A c \in Callers :
       /\ pc[c] = "dispatch" ~> pc[c] # "dispatch"
       /\ (proc \notin {"new", "exited"} /\ \E i \in DOMAIN queue : queue[i] = c)
             ~> result[c] # "none"

(* RemoveBatch returns: the processor notices the stop whatever it is      *)
(* doing, and nobody can keep it busy for ever.                            *)
StopReturns == remover = "stopping" ~> remover = "closed"

(* dispatch's comment: "If the processor is already stopped the request is *)
(* immediately failed."  The select in it takes either ready case.         *)
DispatchAfterStopFails ==
    [][\A c \in Callers :
          proc = "exited" /\ pc[c] = "dispatch" /\ pc'[c] # "dispatch"
             => result'[c] = "stopped"]_vars

==============================================================================

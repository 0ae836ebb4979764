----------------------------- MODULE UploadServer -----------------------------
(***************************************************************************)
(* Uploads that share one block device: ErasureServer.RequestChannel       *)
(* (internal/network/rsocket) drives one AioUploadServerHandler            *)
(* (internal/ec/server) per upload, whose flushes allocate blocks, write   *)
(* them and whose Complete commits bitmap, metadata and counters in one    *)
(* batch.  The process may crash and restart.                              *)
(*                                                                         *)
(* The parts below are used by what they promise: the allocator is a pool  *)
(* of free blocks (BlockPool, which AllocatorV3 implements), a batch is    *)
(* committed as a whole or not at all (BatchPebble), a restart finds the   *)
(* committed bitmap (SpaceBitmap), and a write is submitted and later done *)
(* by the kernel (AioChannel).  Sizes are in blocks.                       *)
(***************************************************************************)
EXTENDS Integers, Sequences, FiniteSets

CONSTANTS
    Uploads,      \* request channels, one upload each
    Blocks,       \* blocks of the device
    ChunkSizes,   \* sizes of the chunks clients send
    MaxChunks,    \* bound on the chunks of an upload
    MinAllocSize, \* pending data at which Put flushes
    Names,
    NameOf,       \* the object name of an upload
    NoGet,        \* uploads with NoGet set
    Cancellable,  \* uploads whose channel context may be cancelled
    MaxCrashes,   \* bound on the number of crashes
    None

\* What the metadata of a file has: who wrote it, and its blocks.
Files == [by : Uploads, blocks : SUBSET Blocks]

ASSUME UploadAssumption ==
    /\ IsFiniteSet(Blocks) /\ ChunkSizes \subseteq Nat
    /\ MinAllocSize \in Nat \ {0}
    /\ NameOf \in [Uploads -> Names]
    /\ NoGet \subseteq Uploads /\ Cancellable \subseteq Uploads
    /\ None \notin Uploads \cup Blocks \cup Files

VARIABLES
    \* volatile
    up,        \* the process runs
    free,      \* free blocks of the allocator
    inflight,  \* <<upload, block>>: writes the kernel has
    pc,        \* where RequestChannel's goroutine is, per upload
    h,         \* the handler's fields, per upload
    flush,     \* the flush goroutine, per upload
    rolling,   \* tokens rollbackCompletedFlushes still has to release
    cancelled, \* uploads whose context is done
    \* persistent
    disk,      \* block -> the upload whose data it has
    bitmap,    \* blocks marked in the space bitmap
    meta,      \* metadata key -> a file, or None
    used,      \* the counter of used space
    \* what the client saw, and history
    answer,    \* last SUCCESS or ERROR of an upload
    crashes

pool == <<free, inflight, disk>>
persistent == <<bitmap, meta, used>>
vars == <<up, free, inflight, pc, h, flush, rolling, cancelled, disk, bitmap, meta, used,
          answer, crashes>>

NewHandler == [pending |-> 0, fileSize |-> 0, chunks |-> 0, infos |-> <<>>,
               finalized |-> FALSE, flushErr |-> FALSE, oneShot |-> FALSE]
NoFlush == [at |-> "none", want |-> 0, got |-> {}, todo |-> {}, cur |-> None, res |-> "none"]

\* Complete looks under one key and writes under another.
fileMetaKey(n) == <<"meta/file/", n>>
GetKey(n) == <<"#", n>>
MetaKeys == {fileMetaKey(n) : n \in Names} \cup {GetKey(n) : n \in Names}

Init ==
    /\ up = TRUE /\ free = Blocks /\ inflight = {}
    /\ pc = [u \in Uploads |-> "first"]
    /\ h = [u \in Uploads |-> NewHandler]
    /\ flush = [u \in Uploads |-> NoFlush]
    /\ rolling = [u \in Uploads |-> <<>>]
    /\ cancelled = {}
    /\ disk = [b \in Blocks |-> None]
    /\ bitmap = {} /\ meta = [k \in MetaKeys |-> None] /\ used = 0
    /\ answer = [u \in Uploads |-> "none"] /\ crashes = 0

Goto(u, l) == pc' = [pc EXCEPT ![u] = l]
Answer(u, a) == Goto(u, "done") /\ answer' = [answer EXCEPT ![u] = a]

----------------------------------------------------------------------------
(* Put and Complete                                                        *)

\* The handler and the flush goroutine after startFlush of the data pending.
StartFlush(u, hu, at) ==
    /\ h' = [h EXCEPT ![u] = [hu EXCEPT !.pending = 0]]
    /\ flush' = [flush EXCEPT ![u] = [NoFlush EXCEPT !.at = "alloc", !.want = hu.pending]]
    /\ Goto(u, at)

\* h.Put(data) on handler fields hu.  The goroutine goes to next when the
\* answer is immediate, else it waits for the flush to answer.
Put(u, n, hu, next) ==
    IF hu.flushErr \/ hu.finalized
    THEN /\ h' = [h EXCEPT ![u] = hu]
         /\ Answer(u, "error")
         /\ UNCHANGED flush
    ELSE LET hn == [hu EXCEPT !.pending = @ + n, !.fileSize = @ + n, !.chunks = @ + 1]
         IN /\ IF n > 0 /\ hn.pending >= MinAllocSize
                 THEN StartFlush(u, hn, "put")
                 ELSE /\ h' = [h EXCEPT ![u] = hn]
                      /\ Goto(u, next)
                      /\ UNCHANGED flush
            /\ UNCHANGED answer

\* Mutation of BeginRollback: the handler keeps its tokens.
BeginRollback_KeepsTokens(u) ==
    /\ rolling' = [rolling EXCEPT ![u] = [i \in DOMAIN h[u].infos |-> h[u].infos[i].token]]
    /\ h' = [h EXCEPT ![u].finalized = TRUE, ![u].pending = 0]

\* The tokens of the completed flushes are taken from the handler and then
\* released one by one.
BeginRollback(u) ==
    /\ rolling' = [rolling EXCEPT ![u] = [i \in DOMAIN h[u].infos |-> h[u].infos[i].token]]
    /\ h' = [h EXCEPT ![u].infos = [i \in DOMAIN @ |-> [@[i] EXCEPT !.token = {}]],
                      ![u].finalized = TRUE, ![u].pending = 0]

\* h.Complete(ctx) up to the wait for the flushes.
Complete(u) ==
    /\ up /\ pc[u] = "complete"
    /\ LET hf == [h[u] EXCEPT !.finalized = TRUE]
       IN CASE h[u].flushErr ->
                 /\ BeginRollback(u)
                 /\ Goto(u, "rollback")
                 /\ UNCHANGED <<flush, answer>>
            [] ~ h[u].flushErr /\ (h[u].finalized \/ h[u].fileSize = 0) ->
                 /\ h' = [h EXCEPT ![u] = hf]
                 /\ Answer(u, "error")
                 /\ UNCHANGED <<flush, rolling>>
            [] OTHER ->
                 /\ IF h[u].pending # 0
                      THEN StartFlush(u, hf, "final")
                      ELSE /\ h' = [h EXCEPT ![u] = hf]
                           /\ Goto(u, "commit")
                           /\ UNCHANGED flush
                 /\ UNCHANGED <<answer, rolling>>
    /\ UNCHANGED <<up, pool, cancelled, persistent, crashes>>

----------------------------------------------------------------------------
(* RequestChannel: one action per kind of payload                          *)

StartPutObject(u) ==
    /\ up /\ pc[u] = "first"
    /\ Goto(u, "next")
    /\ UNCHANGED <<up, pool, h, flush, rolling, cancelled, persistent, answer, crashes>>

PutAndCompleteObject(u, n) ==
    /\ up /\ pc[u] = "first"
    /\ Put(u, n, [h[u] EXCEPT !.oneShot = TRUE], "complete")
    /\ UNCHANGED <<up, pool, rolling, cancelled, persistent, crashes>>

PutObject(u, n) ==
    /\ up /\ pc[u] = "next" /\ h[u].chunks < MaxChunks
    /\ Put(u, n, h[u], "next")
    /\ UNCHANGED <<up, pool, rolling, cancelled, persistent, crashes>>

CompletePutObject(u) ==
    /\ up /\ pc[u] = "next"
    /\ Goto(u, "complete")
    /\ UNCHANGED <<up, pool, h, flush, rolling, cancelled, persistent, answer, crashes>>

\* An ERROR payload: TimeOut.
TimeOut(u) ==
    /\ up /\ pc[u] = "next"
    /\ BeginRollback(u)
    /\ Goto(u, "rollback")
    /\ UNCHANGED <<up, pool, flush, cancelled, persistent, answer, crashes>>

\* The payloads end, or one that is not understood comes: the goroutine
\* returns, with or without an ERROR, and leaves the handler as it is.
EndOfPayloads(u) ==
    /\ up /\ pc[u] \in {"first", "next"}
    /\ \E a \in {"none", "error"} : Answer(u, a)
    /\ UNCHANGED <<up, pool, h, flush, rolling, cancelled, persistent, crashes>>

\* Only the final flush reads the context, so one that is done earlier is as
\* one that is done when that flush starts.
CancelContext(u) ==
    /\ up /\ u \in Cancellable \ cancelled /\ pc[u] = "final"
    /\ cancelled' = cancelled \cup {u}
    /\ UNCHANGED <<up, pool, pc, h, flush, rolling, persistent, answer, crashes>>

----------------------------------------------------------------------------
(* runFlush                                                                *)

\* Mutation of FlushFails: earlier flushes of the upload are not rolled back.
FlushFails_OnlyThis(u) ==
    /\ h' = [h EXCEPT ![u].flushErr = TRUE]
    /\ flush' = [flush EXCEPT ![u] = NoFlush]
    /\ Goto(u, "rollback")
    /\ UNCHANGED rolling

\* Both kinds of flush that fail end in rollbackCompletedFlushes and ERROR.
FlushFails(u) ==
    /\ rolling' = [rolling EXCEPT ![u] = [i \in DOMAIN h[u].infos |-> h[u].infos[i].token]]
    /\ h' = [h EXCEPT ![u].infos = [i \in DOMAIN @ |-> [@[i] EXCEPT !.token = {}]],
                      ![u].flushErr = TRUE]
    /\ flush' = [flush EXCEPT ![u] = NoFlush]
    /\ Goto(u, "rollback")

FlushAlloc(u) ==
    /\ up /\ flush[u].at = "alloc"
    /\ IF flush[u].want <= Cardinality(free)
         THEN \E S \in {T \in SUBSET free : Cardinality(T) = flush[u].want} :
                 /\ free' = free \ S
                 /\ flush' = [flush EXCEPT ![u].at = "write", ![u].got = S, ![u].todo = S]
                 /\ UNCHANGED <<pc, h, rolling>>
         ELSE FlushFails(u) /\ UNCHANGED free
    /\ UNCHANGED <<up, inflight, disk, cancelled, persistent, answer, crashes>>

\* Only the final flush runs under the channel's context.
FlushCancelled(u) == pc[u] = "final" /\ u \in cancelled

FlushSubmit(u) ==
    /\ up /\ flush[u].at = "write" /\ flush[u].cur = None /\ ~ FlushCancelled(u)
    /\ \E b \in flush[u].todo :
          /\ inflight' = inflight \cup {<<u, b>>}
          /\ flush' = [flush EXCEPT ![u].cur = b]
    /\ UNCHANGED <<up, free, disk, pc, h, rolling, cancelled, persistent, answer, crashes>>

\* The kernel ends a write, with the data on the disk or with an error after
\* which it may or may not be; it tells the goroutine if that still waits.
KernelWrite(u, b) ==
    /\ up /\ <<u, b>> \in inflight
    /\ inflight' = inflight \ {<<u, b>>}
    /\ \E ok \in BOOLEAN :
          /\ disk' \in IF ok THEN {[disk EXCEPT ![b] = u]} ELSE {disk, [disk EXCEPT ![b] = u]}
          /\ flush' = IF flush[u].cur = b
                      THEN [flush EXCEPT ![u].res = IF ok THEN "ok" ELSE "error"]
                      ELSE flush
    /\ UNCHANGED <<up, free, pc, h, rolling, cancelled, persistent, answer, crashes>>

FlushSegmentDone(u) ==
    /\ up /\ flush[u].res = "ok"
    /\ flush' = [flush EXCEPT ![u].todo = @ \ {flush[u].cur}, ![u].cur = None, ![u].res = "none"]
    /\ UNCHANGED <<up, pool, pc, h, rolling, cancelled, persistent, answer, crashes>>

\* Mutation of FlushWriteError: an error that the kernel reports is not noticed.
FlushWriteError_OnlyCancel(u) ==
    /\ up /\ flush[u].at = "write" /\ flush[u].todo # {}
    /\ FlushCancelled(u)
    /\ free' = free \cup flush[u].got
    /\ FlushFails(u)
    /\ UNCHANGED <<up, inflight, disk, cancelled, persistent, answer, crashes>>

\* WriteAllocated returns an error: the write failed, or the context is done
\* before a submission or while the write is in the kernel.
FlushWriteError(u) ==
    /\ up /\ flush[u].at = "write" /\ flush[u].todo # {}
    /\ flush[u].res = "error" \/ FlushCancelled(u)
    /\ free' = free \cup flush[u].got
    /\ FlushFails(u)
    /\ UNCHANGED <<up, inflight, disk, cancelled, persistent, answer, crashes>>

\* Mutation of CompleteFlush: it does not wait for all segments.
CompleteFlush_Early(u) ==
    /\ up /\ flush[u].at = "write"
    /\ h' = [h EXCEPT ![u].infos = Append(@, [results |-> flush[u].got, token |-> flush[u].got])]
    /\ flush' = [flush EXCEPT ![u] = NoFlush]
    /\ Goto(u, CASE pc[u] = "final" -> "commit"
                 [] pc[u] = "put" /\ h[u].oneShot -> "complete"
                 [] OTHER -> "next")
    /\ UNCHANGED <<up, pool, rolling, cancelled, persistent, answer, crashes>>

\* completeFlush, and the answer that lets the goroutine go on.
CompleteFlush(u) ==
    /\ up /\ flush[u].at = "write" /\ flush[u].todo = {}
    /\ h' = [h EXCEPT ![u].infos = Append(@, [results |-> flush[u].got, token |-> flush[u].got])]
    /\ flush' = [flush EXCEPT ![u] = NoFlush]
    /\ Goto(u, CASE pc[u] = "final" -> "commit"
                 [] pc[u] = "put" /\ h[u].oneShot -> "complete"
                 [] OTHER -> "next")
    /\ UNCHANGED <<up, pool, rolling, cancelled, persistent, answer, crashes>>

\* rollbackCompletedFlushes' loop, and the response after it.
Rollback(u) ==
    /\ up /\ pc[u] \in {"rollback", "exists"}
    /\ IF rolling[u] # <<>>
         THEN /\ free' = free \cup Head(rolling[u])
              /\ rolling' = [rolling EXCEPT ![u] = Tail(@)]
              /\ UNCHANGED <<pc, answer>>
         ELSE /\ Answer(u, IF pc[u] = "exists" THEN "success" ELSE "error")
              /\ UNCHANGED <<free, rolling>>
    /\ UNCHANGED <<up, inflight, disk, h, flush, cancelled, persistent, crashes>>

----------------------------------------------------------------------------
(* The commit of Complete                                                  *)

Results(u) == UNION {h[u].infos[i].results : i \in DOMAIN h[u].infos}

\* Mutation of SumOfResults: only the first flush is counted.
SumOfResults_First(u) == Cardinality(h[u].infos[1].results)

\* The sizes of the results of all flushes, added up: a block that two flushes
\* had would count twice.
SumOfResults(u) ==
    Cardinality(UNION {{i} \X h[u].infos[i].results : i \in DOMAIN h[u].infos})

\* The batch with the consumer of u is committed, the caller not yet told.
CommitBatch(u) ==
    /\ up /\ pc[u] = "commit"
    /\ IF u \notin NoGet /\ meta[fileMetaKey(NameOf[u])] # None
         THEN Goto(u, "found") /\ UNCHANGED persistent
         ELSE /\ bitmap' = bitmap \cup Results(u)
              /\ meta' = [meta EXCEPT ![GetKey(NameOf[u])] = [by |-> u, blocks |-> Results(u)]]
              /\ used' = used + SumOfResults(u)
              /\ Goto(u, "committed")
    /\ UNCHANGED <<up, pool, h, flush, rolling, cancelled, answer, crashes>>

\* Mutation of CommitFails: the error of the batch is ignored.
CommitFails_Ignored(u) ==
    /\ up /\ pc[u] = "commit"
    /\ Answer(u, "success")
    /\ UNCHANGED <<up, pool, h, flush, rolling, cancelled, persistent, crashes>>

\* The batch failed, because of this or another of its requests.
CommitFails(u) ==
    /\ up /\ pc[u] = "commit"
    /\ BeginRollback(u)
    /\ Goto(u, "rollback")
    /\ UNCHANGED <<up, pool, flush, cancelled, persistent, answer, crashes>>

\* Complete hears nil.
CommitAck(u) ==
    /\ up /\ pc[u] \in {"committed", "found"}
    /\ IF pc[u] = "found"
         THEN BeginRollback(u) /\ Goto(u, "exists") /\ UNCHANGED answer
         ELSE Answer(u, "success") /\ UNCHANGED <<h, rolling>>
    /\ UNCHANGED <<up, pool, flush, cancelled, persistent, crashes>>

----------------------------------------------------------------------------
(* Crash and restart                                                       *)

\* The kernel finishes some of the writes it has and drops the others.
Crash ==
    /\ up /\ crashes < MaxCrashes
    /\ up' = FALSE /\ crashes' = crashes + 1
    /\ \E S \in SUBSET inflight :
          disk' \in {d \in [Blocks -> Uploads \cup {None}] :
                       \A b \in Blocks : LET ws == {w \in S : w[2] = b}
                                         IN IF ws = {} THEN d[b] = disk[b]
                                            ELSE \E w \in ws : d[b] = w[1]}
    /\ inflight' = {} /\ free' = {} /\ cancelled' = {}
    /\ pc' = [u \in Uploads |-> IF pc[u] = "first" THEN "first" ELSE "done"]
    /\ h' = [u \in Uploads |-> NewHandler]
    /\ flush' = [u \in Uploads |-> NoFlush]
    /\ rolling' = [u \in Uploads |-> <<>>]
    /\ UNCHANGED <<persistent, answer>>

Restart ==
    /\ ~ up
    /\ up' = TRUE
    /\ free' = Blocks \ bitmap
    /\ UNCHANGED <<inflight, disk, pc, h, flush, rolling, cancelled, persistent, answer, crashes>>

----------------------------------------------------------------------------

Client(u) ==
    \/ StartPutObject(u) \/ CompletePutObject(u) \/ TimeOut(u) \/ EndOfPayloads(u)
    \/ \E n \in ChunkSizes : PutAndCompleteObject(u, n) \/ PutObject(u, n)

Handler(u) ==
    \/ Complete(u) \/ FlushAlloc(u) \/ FlushSubmit(u) \/ FlushSegmentDone(u)
    \/ FlushWriteError(u) \/ CompleteFlush(u) \/ Rollback(u)
    \/ CommitBatch(u) \/ CommitFails(u) \/ CommitAck(u)

Kernel == \E u \in Uploads, b \in Blocks : KernelWrite(u, b)

Next ==
    \/ \E u \in Uploads : Client(u) \/ Handler(u) \/ CancelContext(u)
    \/ Kernel \/ Crash \/ Restart

\* Goroutines and the kernel go on; clients need not send anything.
Fairness == (\A u \in Uploads : WF_vars(Handler(u))) /\ WF_vars(Kernel)

Spec == Init /\ [][Next]_vars /\ Fairness

----------------------------------------------------------------------------
(* Properties                                                              *)

\* Blocks an upload has taken from the allocator and not given back.
Held(u) == flush[u].got \cup UNION ({h[u].infos[i].token : i \in DOMAIN h[u].infos}
                                      \cup {rolling[u][i] : i \in DOMAIN rolling[u]})

(* Ownership: while the server runs, a block is free, or held by exactly   *)
(* one upload; blocks of the bitmap are never free, whatever flushes,      *)
(* failures, rollbacks and restarts came before; and the only blocks that  *)
(* are neither free, nor committed, are those an upload still holds.       *)
OneOwner ==
    up => /\ \A u, v \in Uploads : u # v => Held(u) \cap Held(v) = {}
          /\ \A u \in Uploads : Held(u) \cap free = {}
          /\ bitmap \cap free = {}
          /\ Blocks \ free = bitmap \cup UNION {Held(u) : u \in Uploads}

(* What is committed is what was written: every block of a file in the     *)
(* metadata has that file's data and no write to it is in the kernel.  The *)
(* exception is an upload whose context was cancelled while the kernel had *)
(* its write: the block is released and may be a later file's before the   *)
(* write is done.                                                          *)
CommittedDataIntact ==
    \A k \in MetaKeys : meta[k] # None =>
       \A b \in meta[k].blocks :
          /\ disk[b] \in {meta[k].by} \cup Cancellable
          /\ \A u \in Uploads : <<u, b>> \in inflight => u \in cancelled

(* SUCCESS is durable: from the answer on, across crashes, the object's    *)
(* key has a file whose blocks the bitmap protects.                        *)
SuccessIsDurable ==
    \A u \in Uploads : answer[u] = "success" =>
       \E k \in MetaKeys : /\ k[2] = NameOf[u] /\ meta[k] # None
                           /\ meta[k].blocks # {} /\ meta[k].blocks \subseteq bitmap

(* The used-space counter agrees with the bitmap: no block is committed    *)
(* twice, and none is marked that was not counted.                         *)
UsedExact == used = Cardinality(bitmap)

(* A handler that reports an error has given everything back: after a      *)
(* failed flush, a failed commit or a time-out no block stays allocated.   *)
FailureReleasesAll ==
    [][\A u \in Uploads :
          pc[u] = "rollback" /\ pc'[u] = "done" /\ up' => Held(u)' = {}]_vars

(* Every request that needs the device is answered: the goroutine comes    *)
(* back for the next payload or ends, unless the process crashes.          *)
RequestsAnswered ==
    \A u \in Uploads : pc[u] \notin {"first", "next", "done"} ~> pc[u] \in {"next", "done"}

==============================================================================

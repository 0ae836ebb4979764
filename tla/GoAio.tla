-------------------------------- MODULE GoAio --------------------------------
(***************************************************************************)
(* goaio's requests by id (internal/third_party/goaio/aio.go): WriteAt and *)
(* ReadAt submit and return a RequestId, WaitFor waits for that request    *)
(* and acknowledges it.  Nobody owns the completions: whoever holds wmtx   *)
(* calls io_getevents and files what it gets, its own or not, in requests. *)
(* AioChannel models the other half of the package, which shares the iocbs *)
(* and the semaphore but has one completion loop.                          *)
(*                                                                         *)
(* Workers are the goroutines of cmd/io_uring_test (goaioWorker), which    *)
(* submit and wait for their request in rounds.  They may also call        *)
(* WaitAny, Wait and Flush, which the benchmark does not do.               *)
(***************************************************************************)
EXTENDS Integers, FiniteSets, Functions

CONSTANTS
    Workers,  \* goroutines
    Slots,    \* the iocbs; QueueDepth of them
    Rounds,   \* bound on the calls of each worker
    Free      \* a mutex is not held

ASSUME GoAioAssumption ==
    /\ IsFiniteSet(Slots) /\ Slots # {} /\ Rounds \in [Workers -> Nat]
    /\ Free \notin Workers \cup Slots

VARIABLES
    sem, avail,      \* tokens in slotSem; avail
    active,          \* active: iocb -> id
    requests,        \* requests: id -> "pending", "ok" or "error"
    reqId,           \* reqId
    dmtx, wmtx,      \* holders, when held over more than one step
    ctxOpen,         \* a.ctx # 0; the workers are not stopped
    kernel,          \* iocbs the kernel is working on -> <<worker, its round>>
    events,          \* iocb -> result, completed and not reaped
    limit, evts, waitErr,  \* of the wait under wmtx: activeLen, events to verify, err
    pc, round, held, \* per worker: place, calls made, iocb in hand
    id, call,        \* the request it waits for; WaitFor, WaitAny, Wait or Flush
    fate             \* history: what the kernel did with the worker's last request

slots == <<sem, avail, active>>
krn == <<kernel, events, ctxOpen, fate>>
waiting == <<limit, evts, waitErr>>
local == <<round, held, id, call>>
vars == <<sem, avail, active, requests, reqId, dmtx, wmtx, ctxOpen, kernel, events,
          limit, evts, waitErr, pc, round, held, id, call, fate>>

QueueDepth == Cardinality(Slots)
Empty == [x \in {} |-> "ok"]
Without(f, x) == Restrict(f, DOMAIN f \ {x})
With(f, x, y) == [z \in DOMAIN f \cup {x} |-> IF z = x THEN y ELSE f[z]]

Init ==
    /\ sem = QueueDepth /\ avail = Slots /\ active = Empty
    /\ requests = Empty /\ reqId = 1
    /\ dmtx = Free /\ wmtx = Free
    /\ ctxOpen = TRUE /\ kernel = Empty /\ events = Empty
    /\ limit = 0 /\ evts = Empty /\ waitErr = FALSE
    /\ pc = [p \in Workers |-> "idle"] /\ round = [p \in Workers |-> 0]
    /\ held = [p \in Workers |-> Free] /\ id = [p \in Workers |-> 0]
    /\ call = [p \in Workers |-> "WaitFor"]
    /\ fate = [p \in Workers |-> "none"]

Released(n) == IF n < QueueDepth THEN n + 1 ELSE n

Goto(p, l) == pc' = [pc EXCEPT ![p] = l]
Return(p) == /\ Goto(p, "idle")
             /\ id' = [id EXCEPT ![p] = 0] /\ call' = [call EXCEPT ![p] = "WaitFor"]

----------------------------------------------------------------------------
(* WriteAt and ReadAt                                                      *)

\* The worker's loop: another request, which starts with a token.
TakeToken(p) ==
    /\ pc[p] = "idle" /\ ctxOpen /\ round[p] < Rounds[p] /\ sem > 0
    /\ sem' = sem - 1
    /\ round' = [round EXCEPT ![p] = @ + 1]
    /\ fate' = [fate EXCEPT ![p] = "none"]
    /\ Goto(p, "ready")
    /\ UNCHANGED <<avail, active, requests, reqId, dmtx, wmtx, ctxOpen, kernel, events,
                   waiting, held, id, call>>

GetNextReady(p) ==
    /\ pc[p] = "ready" /\ dmtx = Free
    /\ IF avail = {}
         THEN /\ sem' = Released(sem)
              /\ Return(p)
              /\ UNCHANGED <<avail, held>>
         ELSE \E cb \in avail :
              /\ avail' = avail \ {cb}
              /\ held' = [held EXCEPT ![p] = cb]
              /\ Goto(p, "submit")
              /\ UNCHANGED <<sem, id, call>>
    /\ UNCHANGED <<active, requests, reqId, dmtx, wmtx, krn, waiting, round>>

\* io_submit, under the dmtx that Track gives back: the kernel may be done
\* with the request before the id exists.
SubmitOk(p) ==
    /\ pc[p] = "submit" /\ dmtx = Free
    /\ dmtx' = p
    /\ kernel' = With(kernel, held[p], <<p, round[p]>>)
    /\ Goto(p, "track")
    /\ UNCHANGED <<slots, requests, reqId, wmtx, ctxOpen, events, fate, waiting, local>>

\* Mutation of SubmitError: the iocb is given back and the token is not.
SubmitError_KeepsToken(p) ==
    /\ pc[p] = "submit" /\ dmtx = Free
    /\ avail' = avail \cup {held[p]} /\ sem' = sem
    /\ held' = [held EXCEPT ![p] = Free]
    /\ Return(p)
    /\ UNCHANGED <<active, requests, reqId, dmtx, wmtx, krn, waiting, round>>

SubmitError(p) ==
    /\ pc[p] = "submit" /\ dmtx = Free
    /\ avail' = avail \cup {held[p]} /\ sem' = Released(sem)
    /\ held' = [held EXCEPT ![p] = Free]
    /\ Return(p)
    /\ UNCHANGED <<active, requests, reqId, dmtx, wmtx, krn, waiting, round>>

Track(p) ==
    /\ pc[p] = "track"
    /\ reqId' = reqId + 1
    /\ id' = [id EXCEPT ![p] = reqId']
    /\ active' = With(active, held[p], reqId')
    /\ requests' = With(requests, reqId', "pending")
    /\ held' = [held EXCEPT ![p] = Free]
    /\ dmtx' = Free
    /\ Goto(p, "check")
    /\ UNCHANGED <<sem, avail, wmtx, krn, waiting, round, call>>

----------------------------------------------------------------------------
(* The kernel                                                              *)

KernelDone(cb) ==
    /\ cb \in DOMAIN kernel
    /\ kernel' = Without(kernel, cb)
    /\ LET w == kernel[cb][1]
       IN  \E r \in {"ok", "short", "error"} :
              /\ events' = With(events, cb, r)
              /\ fate' = [fate EXCEPT ![w] = IF round[w] = kernel[cb][2] THEN r ELSE @]
    /\ UNCHANGED <<slots, requests, reqId, dmtx, wmtx, ctxOpen, waiting, pc, local>>

----------------------------------------------------------------------------
(* WaitFor                                                                 *)

IdDone(p) == requests[id[p]] # "pending"

\* The check without wmtx.
Check(p) ==
    /\ pc[p] = "check" /\ dmtx = Free
    /\ Goto(p, IF IdDone(p) THEN "ack" ELSE "lock")
    /\ UNCHANGED <<slots, requests, reqId, dmtx, wmtx, krn, waiting, local>>

\* wmtx and the check again; only the holder of wmtx changes a request.
Lock(p) ==
    /\ pc[p] = "lock" /\ wmtx = Free /\ dmtx = Free
    /\ IF IdDone(p) THEN Goto(p, "ack") /\ UNCHANGED wmtx
                    ELSE Goto(p, "wait") /\ wmtx' = p
    /\ UNCHANGED <<slots, requests, reqId, dmtx, krn, waiting, local>>

Ack(p) ==
    /\ pc[p] = "ack" /\ dmtx = Free
    /\ requests' = Without(requests, id[p])
    /\ Return(p)
    /\ UNCHANGED <<slots, reqId, dmtx, wmtx, krn, waiting, round, held>>

----------------------------------------------------------------------------
(* WaitAny, Wait and Flush                                                 *)

\* WaitAny looks for an active request, Wait for an available iocb, before
\* they take wmtx.
Reap(p) ==
    /\ pc[p] = "idle" /\ ctxOpen /\ round[p] < Rounds[p] /\ dmtx = Free
    /\ round' = [round EXCEPT ![p] = @ + 1]
    /\ \/ DOMAIN active = {} /\ Return(p)
       \/ avail # {} /\ Return(p)
       \/ \E c \in {"WaitAny", "Wait", "Flush"} :
             /\ c = "WaitAny" => DOMAIN active # {}
             /\ c = "Wait" => avail = {}
             /\ call' = [call EXCEPT ![p] = c]
             /\ Goto(p, "reap") /\ UNCHANGED id
    /\ UNCHANGED <<slots, requests, reqId, dmtx, wmtx, krn, waiting, held>>

LockReaper(p) ==
    /\ pc[p] = "reap" /\ wmtx = Free
    /\ wmtx' = p
    /\ Goto(p, IF call[p] = "Flush" THEN "all" ELSE "wait")
    /\ UNCHANGED <<slots, requests, reqId, dmtx, krn, waiting, local>>

\* waitAll's loop, then Sync; len(a.active) is read without dmtx.
WaitAll(p) ==
    /\ pc[p] = "all"
    /\ IF DOMAIN active = {}
         THEN Return(p) /\ wmtx' = Free
         ELSE Goto(p, "wait") /\ UNCHANGED <<wmtx, id, call>>
    /\ UNCHANGED <<slots, requests, reqId, dmtx, krn, waiting, round, held>>

----------------------------------------------------------------------------
(* wait, under wmtx                                                        *)

\* activeLen, read before every io_getevents.
ActiveLen(p) ==
    /\ pc[p] = "wait" /\ dmtx = Free
    /\ limit' = Cardinality(DOMAIN active)
    /\ Goto(p, IF DOMAIN active = {} THEN "back" ELSE "getevents")
    /\ UNCHANGED <<slots, requests, reqId, dmtx, wmtx, krn, evts, waitErr, local>>

\* io_getevents blocks for one event and takes at most activeLen.
GetEvents(p) ==
    /\ pc[p] = "getevents"
    /\ \E got \in SUBSET DOMAIN events :
          /\ got # {} /\ Cardinality(got) <= limit
          /\ evts' = Restrict(events, got) /\ events' = Restrict(events, DOMAIN events \ got)
    /\ Goto(p, "verify")
    /\ UNCHANGED <<slots, requests, reqId, dmtx, wmtx, ctxOpen, kernel, fate, limit, waitErr, local>>

\* EINTR: once more.
Interrupted(p) ==
    /\ pc[p] = "getevents"
    /\ Goto(p, "wait")
    /\ UNCHANGED <<slots, requests, reqId, dmtx, wmtx, krn, waiting, local>>

GetEventsError(p) ==
    /\ pc[p] = "getevents"
    /\ waitErr' = TRUE
    /\ Goto(p, "back")
    /\ UNCHANGED <<slots, requests, reqId, dmtx, wmtx, krn, limit, evts, local>>

\* Mutation of FreeEvent: the error of the request is not kept.
FreeEvent_NoErr(cb) ==
    /\ active' = Without(active, cb) /\ avail' = avail \cup {cb}
    /\ IF active[cb] \in DOMAIN requests
         THEN /\ requests' = [requests EXCEPT ![active[cb]] = "ok"]
              /\ sem' = Released(sem) /\ UNCHANGED waitErr
         ELSE waitErr' = TRUE /\ UNCHANGED <<requests, sem>>

\* freeEvent: an id that is not in requests costs a token.
FreeEvent(cb) ==
    /\ active' = Without(active, cb) /\ avail' = avail \cup {cb}
    /\ IF active[cb] \in DOMAIN requests
         THEN /\ requests' = [requests EXCEPT ![active[cb]] = evts[cb]]
              /\ sem' = Released(sem) /\ UNCHANGED waitErr
         ELSE waitErr' = TRUE /\ UNCHANGED <<requests, sem>>

\* verifyResult for one event.  A short transfer is reported to whoever
\* waits; its iocb stays in active and its request pending.
VerifyResult(p) ==
    /\ pc[p] = "verify" /\ dmtx = Free
    /\ \E cb \in DOMAIN evts :
          /\ IF cb \notin DOMAIN active \/ evts[cb] = "short"
               THEN waitErr' = TRUE /\ UNCHANGED <<slots, requests>>
               ELSE FreeEvent(cb)
          /\ evts' = Without(evts, cb)
          /\ Goto(p, IF DOMAIN evts = {cb} THEN "back" ELSE "verify")
    /\ UNCHANGED <<reqId, dmtx, wmtx, krn, limit, local>>

\* Mutation of Back: WaitFor returns an error with wmtx locked.
Back_KeepsLock(p) ==
    /\ pc[p] = "back"
    /\ waitErr' = FALSE /\ limit' = 0
    /\ IF ~ waitErr /\ call[p] \in {"WaitFor", "Flush"}
         THEN Goto(p, IF call[p] = "Flush" THEN "all" ELSE "check") /\ UNCHANGED <<id, call>>
         ELSE Return(p)
    /\ wmtx' = IF waitErr \/ call[p] = "Flush" THEN wmtx ELSE Free
    /\ UNCHANGED <<slots, requests, reqId, dmtx, krn, evts, round, held>>

\* The callers: WaitFor unlocks and, without an error, looks at its request
\* again; Flush goes on waiting; the others return.
Back(p) ==
    /\ pc[p] = "back"
    /\ waitErr' = FALSE /\ limit' = 0
    /\ IF ~ waitErr /\ call[p] \in {"WaitFor", "Flush"}
         THEN Goto(p, IF call[p] = "Flush" THEN "all" ELSE "check") /\ UNCHANGED <<id, call>>
         ELSE Return(p)
    /\ wmtx' = IF ~ waitErr /\ call[p] = "Flush" THEN wmtx ELSE Free
    /\ UNCHANGED <<slots, requests, reqId, dmtx, krn, evts, round, held>>

----------------------------------------------------------------------------

\* runGoAIO stops the workers and closes when they have returned; io_destroy
\* waits for the kernel, and what is still active is given back.
Close ==
    /\ ctxOpen /\ \A p \in Workers : pc[p] = "idle"
    /\ kernel = Empty
    /\ ctxOpen' = FALSE /\ events' = Empty
    /\ avail' = avail \cup DOMAIN active /\ active' = Empty
    /\ sem' = IF sem + Cardinality(DOMAIN active) < QueueDepth
              THEN sem + Cardinality(DOMAIN active) ELSE QueueDepth
    /\ UNCHANGED <<requests, reqId, dmtx, wmtx, kernel, fate, waiting, pc, local>>

Submit(p) == TakeToken(p) \/ GetNextReady(p) \/ SubmitOk(p) \/ SubmitError(p) \/ Track(p)
WaitFor(p) == Check(p) \/ Lock(p) \/ Ack(p)
Wait(p) == Reap(p) \/ LockReaper(p) \/ WaitAll(p) \/ ActiveLen(p) \/ VerifyResult(p) \/ Back(p)

Next == \/ \E p \in Workers : Submit(p) \/ WaitFor(p) \/ Wait(p)
                               \/ GetEvents(p) \/ Interrupted(p) \/ GetEventsError(p)
        \/ \E cb \in Slots : KernelDone(cb)
        \/ Close

\* The kernel finishes requests and runnable goroutines run; signals do not
\* interrupt io_getevents for ever.
Fairness ==
    /\ \A p \in Workers : WF_vars(Submit(p) \/ WaitFor(p) \/ Wait(p)) /\ SF_vars(GetEvents(p))
    /\ \A cb \in Slots : WF_vars(KernelDone(cb))

Spec == Init /\ [][Next]_vars /\ Fairness

----------------------------------------------------------------------------
(* Properties                                                              *)

Holding == {p \in Workers : held[p] # Free}
Waiting == {p \in Workers : call[p] = "WaitFor" /\ pc[p] \notin {"idle", "ready", "submit", "track"}}

\* iocbs that are active although nothing is going to complete them.
Lost == DOMAIN active \ (DOMAIN kernel \cup DOMAIN events \cup DOMAIN evts)

(* The result is the caller's own: when WaitFor finds its request done and  *)
(* acknowledges it, what it hands out is what the kernel did with that very *)
(* request, whoever reaped the event, and never a short transfer.           *)
OwnResult ==
    \A w \in Waiting : ~ IdDone(w) \/ (fate[w] # "short" /\ requests[id[w]] = fate[w])

(* The three books agree, whoever files whose event and whatever failed:   *)
(* every iocb is available, active or in one submitter's hand, and there   *)
(* is a token for each available one; the kernel's requests are active, or *)
(* their submitter is still inside dmtx; pending requests are the active   *)
(* ones, one iocb each; and a request that is waited for is not forgotten, *)
(* so ErrNotFound and ErrWhatTheHell are not reached.                      *)
BooksAgree ==
    /\ avail \cap DOMAIN active = {}
    /\ \A p \in Holding : held[p] \notin avail \cup DOMAIN active
    /\ \A p, q \in Holding : held[p] = held[q] => p = q
    /\ avail \cup DOMAIN active \cup {held[p] : p \in Holding} = Slots
    /\ sem + Cardinality({p \in Workers : pc[p] = "ready"}) = Cardinality(avail)
    /\ \A cb \in DOMAIN kernel \cup DOMAIN events \cup DOMAIN evts :
          cb \in DOMAIN active \/ \E p \in Workers : dmtx = p /\ held[p] = cb
    /\ ctxOpen => Range(active) = {n \in DOMAIN requests : requests[n] = "pending"}
    /\ \A a, b \in DOMAIN active : active[a] = active[b] => a = b
    /\ \A w \in Waiting : id[w] \in DOMAIN requests

(* WaitFor returns, although its own event may be reaped by another before *)
(* or after it looked, and although all but one wait for wmtx and not for  *)
(* the kernel.  Only a short transfer breaks this: its iocb stays active   *)
(* for ever.                                                               *)
WaitForReturns == \A w \in Workers : w \in Waiting ~> w \notin Waiting \/ Lost # {}

==============================================================================

------------------------------ MODULE AioChannel ------------------------------
(***************************************************************************)
(* The asynchronous write path: AioChannel.WriteAllocated in               *)
(* internal/fs/aio_channel.go on top of goaio's WriteAtNotify,             *)
(* WaitAnyNotify and Close (internal/third_party/goaio).                   *)
(*                                                                         *)
(* Writers are goroutines in one WriteAllocated call each.  A write needs  *)
(* a token of slotSem, then an iocb of avail, and goes to the kernel under *)
(* dmtx; the completion loop reaps events, gives the iocb and the token    *)
(* back and sends the result on the segment's own channel of capacity 1.   *)
(* Close stops the loop, destroys the kernel context and fails what is     *)
(* still active.  The kernel is external: a request it has taken ends with *)
(* success, a short write or an error.                                     *)
(***************************************************************************)
EXTENDS Integers, FiniteSets, Functions

CONSTANTS
    Writers,      \* goroutines in WriteAllocated
    Slots,        \* the iocbs; QueueDepth of them
    Segments,     \* number of segments of a writer's call
    Invalid,      \* writers whose buffer or results may fail validation
    Cancellable,  \* writers whose ctx can be cancelled
    Free          \* dmtx is not held

ASSUME AioAssumption ==
    /\ IsFiniteSet(Slots) /\ Slots # {} /\ IsFiniteSet(Writers)
    /\ Segments \in [Writers -> Nat \ {0}]
    /\ Invalid \subseteq Writers /\ Cancellable \subseteq Writers
    /\ Free \notin Writers \cup Slots

VARIABLES
    sem,       \* tokens in slotSem
    avail,     \* avail
    active,    \* active: iocb -> <<writer, segment>>
    dmtx,      \* holder of dmtx, when it is held over more than one step
    kernel,    \* iocbs the kernel is working on
    events,    \* iocb -> result, completed and not reaped
    ctxOpen,   \* a.ctx # 0
    loop,      \* where completionLoop is
    evts,      \* reaped events still to verify: iocb -> result
    notifies,  \* results still to send: <<writer, segment>> -> result
    closer,    \* where Close is
    pc, seg, held, ret,  \* per writer: place, segment, iocb, returned value
    ctxDone,   \* writers whose ctx is done
    resCh      \* <<writer, segment>> -> result on its channel

slots == <<sem, avail, active>>
krn == <<kernel, events, ctxOpen>>
reaper == <<loop, evts, notifies>>
goroutine == <<pc, seg, held, ret, ctxDone>>
vars == <<sem, avail, active, dmtx, kernel, events, ctxOpen, loop, evts, notifies,
          closer, pc, seg, held, ret, ctxDone, resCh>>

QueueDepth == Cardinality(Slots)
Empty == [x \in {} |-> "ok"]
Outcomes == {"ok", "short", "error"}
Channels == UNION {{<<w, s>> : s \in 1 .. Segments[w]} : w \in Writers}

Without(f, x) == Restrict(f, DOMAIN f \ {x})
With(f, x, y) == [z \in DOMAIN f \cup {x} |-> IF z = x THEN y ELSE f[z]]

Init ==
    /\ sem = QueueDepth /\ avail = Slots /\ active = Empty /\ dmtx = Free
    /\ kernel = {} /\ events = Empty /\ ctxOpen = TRUE
    /\ loop = "select" /\ evts = Empty /\ notifies = Empty
    /\ closer = "none"
    /\ pc = [w \in Writers |-> "idle"] /\ seg = [w \in Writers |-> 1]
    /\ held = [w \in Writers |-> Free] /\ ret = [w \in Writers |-> "none"]
    /\ ctxDone = {} /\ resCh = Empty

\* Mutation of Released: the token is not given back.
Released_Lost(n) == n

\* releaseSlot: never more tokens than slots.
Released(n) == IF n < QueueDepth THEN n + 1 ELSE n
ReleasedAll(n, k) == IF n + k < QueueDepth THEN n + k ELSE QueueDepth

----------------------------------------------------------------------------
(* Writers                                                                 *)

Return(w, r) == pc' = [pc EXCEPT ![w] = "done"] /\ ret' = [ret EXCEPT ![w] = r]
Goto(w, l) == pc' = [pc EXCEPT ![w] = l] /\ UNCHANGED ret

\* WriteAllocated up to the first submission.
WriteAllocated(w) ==
    /\ pc[w] = "idle"
    /\ IF closer = "closed" THEN Return(w, "uninitialized")
       ELSE \/ w \in Invalid /\ Return(w, "invalid")
            \/ Goto(w, "segment")
    /\ UNCHANGED <<slots, dmtx, krn, reaper, closer, seg, held, ctxDone, resCh>>

\* The loop over the segments.  submitAndWait reads c.aio again, and calls a
\* method of a nil *AIO if Close has cleared it meanwhile.
NextSegment(w) ==
    /\ pc[w] = "segment"
    /\ IF seg[w] > Segments[w] THEN Return(w, "ok")
       ELSE IF w \in ctxDone THEN Return(w, "cancelled")
       ELSE IF closer = "closed" THEN Return(w, "panic")
       ELSE Goto(w, "token")
    /\ UNCHANGED <<slots, dmtx, krn, reaper, closer, seg, held, ctxDone, resCh>>

TakeToken(w) ==
    /\ pc[w] = "token" /\ sem > 0
    /\ sem' = sem - 1
    /\ Goto(w, "ready")
    /\ UNCHANGED <<avail, active, dmtx, krn, reaper, closer, seg, held, ctxDone, resCh>>

\* getNextReady with the token in hand.
GetNextReady(w) ==
    /\ pc[w] = "ready" /\ dmtx = Free
    /\ IF avail = {}
         THEN /\ sem' = Released(sem)
              /\ Return(w, "noslot")
              /\ UNCHANGED <<avail, held>>
         ELSE \E cb \in avail :
              /\ avail' = avail \ {cb}
              /\ held' = [held EXCEPT ![w] = cb]
              /\ Goto(w, "submit")
              /\ UNCHANGED sem
    /\ UNCHANGED <<active, dmtx, krn, reaper, closer, seg, ctxDone, resCh>>

\* Mutation of SubmitOk: dmtx is released before the request is in active.
SubmitOk_Unlocked(w) ==
    /\ pc[w] = "submit" /\ dmtx = Free /\ ctxOpen
    /\ kernel' = kernel \cup {held[w]}
    /\ Goto(w, "track")
    /\ UNCHANGED <<slots, dmtx, events, ctxOpen, reaper, closer, seg, held, ctxDone, resCh>>

\* WriteAtNotify: io_submit under dmtx.  The kernel may finish the request
\* before it is in active, but dmtx is held until it is.
SubmitOk(w) ==
    /\ pc[w] = "submit" /\ dmtx = Free /\ ctxOpen
    /\ dmtx' = w
    /\ kernel' = kernel \cup {held[w]}
    /\ Goto(w, "track")
    /\ UNCHANGED <<slots, events, ctxOpen, reaper, closer, seg, held, ctxDone, resCh>>

\* io_submit may refuse any request, and refuses all once ctx is 0.
SubmitError(w) ==
    /\ pc[w] = "submit" /\ dmtx = Free
    /\ avail' = avail \cup {held[w]} /\ sem' = Released(sem)
    /\ held' = [held EXCEPT ![w] = Free]
    /\ Return(w, "error")
    /\ UNCHANGED <<active, dmtx, krn, reaper, closer, seg, ctxDone, resCh>>

Track(w) ==
    /\ pc[w] = "track"
    /\ active' = With(active, held[w], <<w, seg[w]>>)
    /\ held' = [held EXCEPT ![w] = Free]
    /\ dmtx' = Free
    /\ Goto(w, "waiting")
    /\ UNCHANGED <<sem, avail, krn, reaper, closer, seg, ctxDone, resCh>>

\* Mutation of Completed: a short write counts as success.
Completed_ShortIsOk(w) ==
    /\ pc[w] = "waiting" /\ <<w, seg[w]>> \in DOMAIN resCh
    /\ IF resCh[<<w, seg[w]>>] # "error"
         THEN Goto(w, "segment") /\ seg' = [seg EXCEPT ![w] = @ + 1]
         ELSE Return(w, resCh[<<w, seg[w]>>]) /\ UNCHANGED seg
    /\ UNCHANGED <<slots, dmtx, krn, reaper, closer, held, ctxDone, resCh>>

\* submitAndWait's select.
Completed(w) ==
    /\ pc[w] = "waiting" /\ <<w, seg[w]>> \in DOMAIN resCh
    /\ IF resCh[<<w, seg[w]>>] = "ok"
         THEN Goto(w, "segment") /\ seg' = [seg EXCEPT ![w] = @ + 1]
         ELSE Return(w, resCh[<<w, seg[w]>>]) /\ UNCHANGED seg
    /\ UNCHANGED <<slots, dmtx, krn, reaper, closer, held, ctxDone, resCh>>

CtxDone(w) ==
    /\ pc[w] = "waiting" /\ w \in ctxDone
    /\ Return(w, "cancelled")
    /\ UNCHANGED <<slots, dmtx, krn, reaper, closer, seg, held, ctxDone, resCh>>

Cancel(w) ==
    /\ w \in Cancellable \ ctxDone /\ pc[w] # "done"
    /\ ctxDone' = ctxDone \cup {w}
    /\ UNCHANGED <<slots, dmtx, krn, reaper, closer, pc, seg, held, ret, resCh>>

----------------------------------------------------------------------------
(* The kernel                                                              *)

KernelDone(cb) ==
    /\ cb \in kernel
    /\ kernel' = kernel \ {cb}
    /\ \E r \in Outcomes : events' = With(events, cb, r)
    /\ UNCHANGED <<slots, dmtx, ctxOpen, reaper, closer, goroutine, resCh>>

----------------------------------------------------------------------------
(* completionLoop                                                          *)

\* Mutation of LoopSelect: the loop does not look at the stop channel.
LoopSelect_NoStop ==
    /\ loop = "select"
    /\ loop' = "wait"
    /\ UNCHANGED <<slots, dmtx, krn, evts, notifies, closer, goroutine, resCh>>

LoopSelect ==
    /\ loop = "select"
    /\ loop' = IF closer # "none" THEN "exited" ELSE "wait"
    /\ UNCHANGED <<slots, dmtx, krn, evts, notifies, closer, goroutine, resCh>>

\* io_getevents: what is there, or nothing after a second.
WaitAnyNotify ==
    /\ loop = "wait"
    /\ evts' = events /\ events' = Empty
    /\ loop' = IF events = Empty THEN "select" ELSE "verify"
    /\ UNCHANGED <<slots, dmtx, kernel, ctxOpen, notifies, closer, goroutine, resCh>>

\* verifyResultPro and finishEventLocked for one event; an event that is not
\* in active ends WaitAnyNotify and the results collected are not sent.
VerifyResult ==
    /\ loop = "verify" /\ dmtx = Free
    /\ \E cb \in DOMAIN evts :
         IF cb \notin DOMAIN active
         THEN /\ loop' = "select" /\ evts' = Empty /\ notifies' = Empty
              /\ UNCHANGED slots
         ELSE /\ active' = Without(active, cb)
              /\ avail' = avail \cup {cb} /\ sem' = Released(sem)
              /\ notifies' = With(notifies, active[cb], evts[cb])
              /\ evts' = Without(evts, cb)
              /\ loop' = IF DOMAIN evts = {cb} THEN "notify" ELSE "verify"
    /\ UNCHANGED <<dmtx, krn, closer, goroutine, resCh>>

\* Mutation of Notify: a result that was sent stays in the list.
Notify_Twice ==
    /\ loop = "notify"
    /\ \E ch \in DOMAIN notifies \ DOMAIN resCh :
         /\ resCh' = With(resCh, ch, notifies[ch])
         /\ loop' = IF DOMAIN notifies = {ch} THEN "select" ELSE "notify"
    /\ UNCHANGED <<slots, dmtx, krn, evts, notifies, closer, goroutine>>

\* Send one result; the channel has room for one.
Notify ==
    /\ loop = "notify"
    /\ \E ch \in DOMAIN notifies \ DOMAIN resCh :
         /\ resCh' = With(resCh, ch, notifies[ch])
         /\ notifies' = Without(notifies, ch)
         /\ loop' = IF DOMAIN notifies = {ch} THEN "select" ELSE "notify"
    /\ UNCHANGED <<slots, dmtx, krn, evts, closer, goroutine>>

----------------------------------------------------------------------------
(* Close                                                                   *)

CloseStop ==
    /\ closer = "none"
    /\ closer' = "stopping"
    /\ UNCHANGED <<slots, dmtx, krn, reaper, goroutine, resCh>>

\* loopWG.Wait has returned; AIO.Close clears ctx under dmtx.
CloseCtx ==
    /\ closer = "stopping" /\ loop = "exited" /\ dmtx = Free
    /\ ctxOpen' = FALSE
    /\ closer' = "destroy"
    /\ UNCHANGED <<slots, dmtx, kernel, events, reaper, goroutine, resCh>>

\* io_destroy returns when the kernel has finished; its events are gone.
IoDestroy ==
    /\ closer = "destroy" /\ kernel = {}
    /\ events' = Empty
    /\ closer' = "clean"
    /\ UNCHANGED <<slots, dmtx, kernel, ctxOpen, reaper, goroutine, resCh>>

\* Mutation of CloseClean: the waiting writers are not told.
CloseClean_Silent ==
    /\ closer = "clean" /\ dmtx = Free
    /\ avail' = avail \cup DOMAIN active
    /\ sem' = ReleasedAll(sem, Cardinality(DOMAIN active))
    /\ active' = Empty
    /\ closer' = "cleaned"
    /\ UNCHANGED <<dmtx, krn, reaper, goroutine, resCh>>

\* Fail what is active, without blocking on its channel.
CloseClean ==
    /\ closer = "clean" /\ dmtx = Free
    /\ avail' = avail \cup DOMAIN active
    /\ sem' = ReleasedAll(sem, Cardinality(DOMAIN active))
    /\ resCh' = [ch \in DOMAIN resCh \cup Range(active) |->
                    IF ch \in DOMAIN resCh THEN resCh[ch] ELSE "closed"]
    /\ active' = Empty
    /\ closer' = "cleaned"
    /\ UNCHANGED <<dmtx, krn, reaper, goroutine>>

\* c.aio = nil
CloseNil ==
    /\ closer = "cleaned"
    /\ closer' = "closed"
    /\ UNCHANGED <<slots, dmtx, krn, reaper, goroutine, resCh>>

----------------------------------------------------------------------------

WriterStep(w) == WriteAllocated(w) \/ NextSegment(w) \/ TakeToken(w) \/ GetNextReady(w)
                    \/ SubmitOk(w) \/ SubmitError(w) \/ Track(w) \/ Completed(w) \/ CtxDone(w)
Loop == LoopSelect \/ WaitAnyNotify \/ VerifyResult \/ Notify
Close == CloseCtx \/ IoDestroy \/ CloseClean \/ CloseNil

Next == \/ \E w \in Writers : WriterStep(w) \/ Cancel(w)
        \/ \E cb \in Slots : KernelDone(cb)
        \/ Loop \/ CloseStop \/ Close

\* The kernel finishes requests and runnable goroutines run.  The others take
\* a token or dmtx only finitely often, so a goroutine waiting for one needs no
\* more.  Nothing is cancelled or closed by force.
Fairness ==
    /\ \A w \in Writers : WF_vars(WriterStep(w))
    /\ \A cb \in Slots : WF_vars(KernelDone(cb))
    /\ WF_vars(Loop) /\ WF_vars(Close)

Spec == Init /\ [][Next]_vars /\ Fairness

----------------------------------------------------------------------------
(* Properties                                                              *)

TypeOK ==
    /\ sem \in 0 .. QueueDepth /\ avail \subseteq Slots
    /\ DOMAIN active \subseteq Slots /\ Range(active) \subseteq Channels
    /\ dmtx \in Writers \cup {Free}
    /\ kernel \subseteq Slots /\ DOMAIN events \subseteq Slots /\ Range(events) \subseteq Outcomes
    /\ ctxOpen \in BOOLEAN
    /\ loop \in {"select", "wait", "verify", "notify", "exited"}
    /\ DOMAIN evts \subseteq Slots /\ Range(evts) \subseteq Outcomes
    /\ DOMAIN notifies \subseteq Channels /\ Range(notifies) \subseteq Outcomes
    /\ closer \in {"none", "stopping", "destroy", "clean", "cleaned", "closed"}
    /\ pc \in [Writers -> {"idle", "segment", "token", "ready", "submit", "track", "waiting", "done"}]
    /\ seg \in [Writers -> Nat] /\ held \in [Writers -> Slots \cup {Free}]
    /\ ret \in [Writers -> Outcomes \cup {"none", "uninitialized", "invalid", "cancelled",
                                           "panic", "noslot", "closed"}]
    /\ ctxDone \subseteq Writers
    /\ DOMAIN resCh \subseteq Channels /\ Range(resCh) \subseteq Outcomes \cup {"closed"}

Holding == {w \in Writers : held[w] # Free}
Ready == {w \in Writers : pc[w] = "ready"}

(* slotSem and avail agree: every iocb is in exactly one of avail, active  *)
(* and the hands of one writer, and there is an iocb for every token,      *)
(* whether it is in the semaphore or taken, so getNextReady's "should not  *)
(* get here" is not reached and no slot leaks on errors, cancels or Close. *)
SlotsConserved ==
    /\ avail \cap DOMAIN active = {}
    /\ \A w \in Holding : held[w] \notin avail \cup DOMAIN active
    /\ \A v, w \in Holding : held[v] = held[w] => v = w
    /\ avail \cup DOMAIN active \cup {held[w] : w \in Holding} = Slots
    /\ sem + Cardinality(Ready) = Cardinality(avail)

(* What the kernel has is tracked: an iocb that is in the kernel, completed *)
(* or being verified has its entry in active, which keeps its buffer alive, *)
(* or its submitter still holds dmtx.  So the iocb is not used again, the   *)
(* loop meets no untracked event, and no collected result is dropped.       *)
KernelTracked ==
    \A cb \in kernel \cup DOMAIN events \cup DOMAIN evts :
       cb \in DOMAIN active \/ \E w \in Writers : dmtx = w /\ held[w] = cb

(* The completion loop never blocks on a result channel, although a writer  *)
(* whose ctx was cancelled has left: every channel gets at most one result. *)
LoopNeverBlocks == \A ch \in DOMAIN notifies : ch \notin DOMAIN resCh

(* nil means written: WriteAllocated returns without error only when every  *)
(* segment's own request was completed in full by the kernel.               *)
OkIsWritten ==
    \A w \in Writers : ret[w] = "ok" =>
       \A s \in 1 .. Segments[w] : <<w, s>> \in DOMAIN resCh /\ resCh[<<w, s>>] = "ok"

Answered(w) == pc[w] = "done" /\ ret[w] # "panic"
CutOff(w) == closer = "closed" /\ pc[w] = "segment" /\ seg[w] <= Segments[w]

(* Every call of WriteAllocated returns to its caller: with all slots       *)
(* taken, when others were cancelled, and when the channel is closed while  *)
(* it waits for a token, for dmtx or for its completion.  The one exception *)
(* is a call that Close has overtaken when it comes to its next segment     *)
(* (aio_channel.go:256): the submission goes to a nil *AIO and panics,      *)
(* where the comment at aio.go:208 expects ErrNotInit.                      *)
WritesReturn ==
    \A w \in Writers : pc[w] \notin {"idle", "done"} ~> Answered(w) \/ CutOff(w)

(* Close returns whatever the writers are doing.                            *)
CloseReturns == closer = "stopping" ~> closer = "closed"

(* The comment of WriteAllocated: it "submits all segments concurrently ... *)
(* and waits for all completions".                                          *)
WaitsForCompletions ==
    \A w \in Writers : pc[w] = "done" =>
       \A cb \in kernel : ~ (cb \in DOMAIN active /\ active[cb][1] = w)

==============================================================================

-------------------------- MODULE AioChannelProofs --------------------------
(***************************************************************************)
(* The safety properties of AioChannel, for every number of writers,       *)
(* segments and iocbs: the inductive invariant, one lemma per action, and  *)
(* the theorems.                                                           *)
(***************************************************************************)
EXTENDS AioChannel, FiniteSetTheorems, TLAPS

----------------------------------------------------------------------------
(* The inductive invariant                                                 *)

\* TypeOK without the bound of sem, which SlotsConserved gives.
Types ==
    /\ sem \in Nat /\ avail \subseteq Slots
    /\ DOMAIN active \subseteq Slots /\ Range(active) \subseteq Channels
    /\ dmtx \in Writers \cup {Free}
    /\ kernel \subseteq Slots /\ DOMAIN events \subseteq Slots /\ Range(events) \subseteq Outcomes
    /\ ctxOpen \in BOOLEAN
    /\ loop \in {"select", "wait", "verify", "notify", "exited"}
    /\ DOMAIN evts \subseteq Slots /\ Range(evts) \subseteq Outcomes
    /\ DOMAIN notifies \subseteq Channels /\ Range(notifies) \subseteq Outcomes
    /\ closer \in {"none", "stopping", "destroy", "clean", "cleaned", "closed"}
    /\ pc \in [Writers -> {"idle", "segment", "token", "ready", "submit", "track", "waiting", "done"}]
    /\ seg \in [Writers -> Nat] /\ held \in [Writers -> Slots \cup {Free}]
    /\ ret \in [Writers -> Outcomes \cup {"none", "uninitialized", "invalid", "cancelled",
                                           "panic", "noslot", "closed"}]
    /\ ctxDone \subseteq Writers
    /\ DOMAIN resCh \subseteq Channels /\ Range(resCh) \subseteq Outcomes \cup {"closed"}

\* Who holds an iocb or dmtx is told by the place of the writer.
PlacesInv ==
    /\ \A w \in Writers : held[w] # Free <=> pc[w] \in {"submit", "track"}
    /\ \A w \in Writers : dmtx = w <=> pc[w] = "track"
    /\ \A w \in Writers : pc[w] \in {"token", "ready", "submit", "track", "waiting"}
                             => seg[w] <= Segments[w]

\* A request is in one place of the kernel's path at a time.
KernelInv ==
    /\ kernel \cap DOMAIN events = {}
    /\ kernel \cap DOMAIN evts = {}
    /\ DOMAIN events \cap DOMAIN evts = {}

\* A result channel is used by one request, and only once the writer has come
\* to its segment and submitted it.
Used(w, s) ==
    \/ \E cb \in DOMAIN active : active[cb] = <<w, s>>
    \/ <<w, s>> \in DOMAIN notifies
    \/ <<w, s>> \in DOMAIN resCh

ChannelInv ==
    /\ \A a, b \in DOMAIN active : active[a] = active[b] => a = b
    /\ \A a \in DOMAIN active : active[a] \notin DOMAIN notifies \cup DOMAIN resCh
    /\ \A w \in Writers : \A s \in 1 .. Segments[w] :
          Used(w, s) => /\ s <= seg[w]
                        /\ s = seg[w] => pc[w] \in {"waiting", "done"}

\* The segments a writer has left behind were written in full.
PassedInv ==
    /\ \A w \in Writers : seg[w] \in Nat \ {0}
    /\ \A w \in Writers : \A s \in 1 .. Segments[w] :
          s < seg[w] => <<w, s>> \in DOMAIN resCh /\ resCh[<<w, s>>] = "ok"
    /\ \A w \in Writers : ret[w] = "ok" => seg[w] > Segments[w]

\* The loop has let go of every event before Close destroys the context, and
\* nothing is submitted or completed after that.
CloserInv ==
    /\ closer \notin {"none", "stopping"} => loop = "exited" /\ ~ ctxOpen
    /\ loop # "verify" => DOMAIN evts = {}
    /\ closer \in {"clean", "cleaned", "closed"} => kernel = {} /\ DOMAIN events = {}

IInv == /\ Types /\ PlacesInv /\ SlotsConserved /\ KernelInv /\ KernelTracked
        /\ ChannelInv /\ LoopNeverBlocks /\ PassedInv /\ CloserInv

----------------------------------------------------------------------------
(* Lemmas                                                                  *)

(* A segment of a writer has its channel.                                  *)
LEMMA InChannels == \A w \in Writers : \A s \in 1 .. Segments[w] : <<w, s>> \in Channels
BY DEF Channels

(* Every channel is that of a segment.                                     *)
LEMMA ChannelPair == \A ch \in Channels : \E w \in Writers : \E s \in 1 .. Segments[w] : ch = <<w, s>>
BY Zenon DEF Channels

(* What With does to a map whose values are in S.                          *)
LEMMA WithFacts ==
    ASSUME NEW f, NEW x, NEW y, NEW S, Range(f) \subseteq S, y \in S
    PROVE  /\ DOMAIN With(f, x, y) = DOMAIN f \cup {x}
           /\ Range(With(f, x, y)) \subseteq S
BY Zenon DEF With, Range

(* The same for Without.                                                   *)
LEMMA WithoutFacts ==
    ASSUME NEW f, NEW x, NEW S, Range(f) \subseteq S
    PROVE  /\ DOMAIN Without(f, x) = DOMAIN f \ {x}
           /\ Range(Without(f, x)) \subseteq S
BY Zenon DEF Without, Restrict, Range

(* The sets that are counted are finite, and an iocb outside avail leaves  *)
(* room for a token.                                                       *)
LEMMA Counts ==
    ASSUME IInv
    PROVE  /\ IsFiniteSet(Ready) /\ Cardinality(Ready) \in Nat
           /\ IsFiniteSet(avail) /\ Cardinality(avail) \in Nat
           /\ QueueDepth \in Nat /\ Cardinality(avail) <= QueueDepth
           /\ sem \in Nat /\ sem <= Cardinality(avail)
<1>0. Types /\ SlotsConserved
  BY Zenon DEF IInv
<1>1. Ready \subseteq Writers /\ avail \subseteq Slots /\ sem \in Nat
  BY <1>0, Zenon DEF Ready, Types
<1>2. IsFiniteSet(Ready) /\ IsFiniteSet(avail) /\ Cardinality(avail) <= QueueDepth
  BY <1>1, AioAssumption, FS_Subset, Zenon DEF QueueDepth
<1>3. Cardinality(Ready) \in Nat /\ Cardinality(avail) \in Nat /\ QueueDepth \in Nat
  BY <1>2, AioAssumption, FS_CardinalityType, Zenon DEF QueueDepth
<1>4. sem + Cardinality(Ready) = Cardinality(avail)
  BY <1>0, Zenon DEF SlotsConserved
<1> QED BY <1>1, <1>2, <1>3, <1>4

(* Giving an iocb and its token back.                                      *)
LEMMA GiveBack ==
    ASSUME IInv, NEW cb \in Slots \ avail
    PROVE  Released(sem) = sem + 1 /\ Cardinality(avail \cup {cb}) = Cardinality(avail) + 1
<1>0. Types
  BY Zenon DEF IInv
<1>1. Cardinality(avail \cup {cb}) = Cardinality(avail) + 1
  BY Counts, FS_AddElement, Zenon
<1>2. avail \cup {cb} \subseteq Slots
  BY <1>0, Zenon DEF Types
<1>3. Cardinality(avail \cup {cb}) <= QueueDepth
  BY <1>2, AioAssumption, FS_Subset, Zenon DEF QueueDepth
<1>4. sem < QueueDepth
  BY <1>1, <1>3, Counts
<1> QED BY <1>1, <1>4, Zenon DEF Released

----------------------------------------------------------------------------
(* One lemma for each action                                               *)

(* Validation moves one writer only.                                       *)
LEMMA WriteAllocatedStep == ASSUME IInv, NEW w \in Writers, WriteAllocated(w) PROVE IInv'
<1>0. /\ Types /\ PlacesInv /\ SlotsConserved /\ KernelInv /\ KernelTracked
      /\ ChannelInv /\ LoopNeverBlocks /\ PassedInv /\ CloserInv
  BY Zenon DEF IInv
<1> USE <1>0, AioAssumption DEF WriteAllocated, slots, krn, reaper, goroutine, Return, Goto, Empty
<1>1. Types'
  BY InChannels DEF Types, PlacesInv, Outcomes
<1>2. PlacesInv'
  BY DEF Types, PlacesInv
<1>3. SlotsConserved'
  <2>1. Ready' = Ready
    BY DEF Types, Ready
  <2> QED BY <2>1 DEF Types, PlacesInv, SlotsConserved, Holding
<1>4. KernelInv'
  BY Zenon DEF Types, PlacesInv, SlotsConserved, KernelInv, KernelTracked, Holding, CloserInv
<1>5. KernelTracked'
  BY Zenon DEF Types, PlacesInv, SlotsConserved, KernelInv, KernelTracked, Holding, CloserInv
<1>6. ChannelInv'
  BY DEF Types, PlacesInv, ChannelInv, Used
<1>7. LoopNeverBlocks'
  BY Zenon DEF Types, PlacesInv, ChannelInv, LoopNeverBlocks, Used
<1>8. PassedInv'
  BY DEF Types, PlacesInv, ChannelInv, PassedInv, Used
<1>9. CloserInv'
  BY Zenon DEF Types, CloserInv
<1> QED BY <1>1, <1>2, <1>3, <1>4, <1>5, <1>6, <1>7, <1>8, <1>9, Zenon DEF IInv

(* Going to a segment, or returning, moves one writer only.                *)
LEMMA NextSegmentStep == ASSUME IInv, NEW w \in Writers, NextSegment(w) PROVE IInv'
<1>0. /\ Types /\ PlacesInv /\ SlotsConserved /\ KernelInv /\ KernelTracked
      /\ ChannelInv /\ LoopNeverBlocks /\ PassedInv /\ CloserInv
  BY Zenon DEF IInv
<1> USE <1>0, AioAssumption DEF NextSegment, slots, krn, reaper, goroutine, Return, Goto, Empty
<1>1. Types'
  BY InChannels DEF Types, PlacesInv, Outcomes
<1>2. PlacesInv'
  BY DEF Types, PlacesInv
<1>3. SlotsConserved'
  <2>1. Ready' = Ready
    BY DEF Types, Ready
  <2> QED BY <2>1 DEF Types, PlacesInv, SlotsConserved, Holding
<1>4. KernelInv'
  BY Zenon DEF Types, PlacesInv, SlotsConserved, KernelInv, KernelTracked, Holding, CloserInv
<1>5. KernelTracked'
  BY Zenon DEF Types, PlacesInv, SlotsConserved, KernelInv, KernelTracked, Holding, CloserInv
<1>6. ChannelInv'
  BY DEF Types, PlacesInv, ChannelInv, Used
<1>7. LoopNeverBlocks'
  BY Zenon DEF Types, PlacesInv, ChannelInv, LoopNeverBlocks, Used
<1>8. PassedInv'
  BY DEF Types, PlacesInv, ChannelInv, PassedInv, Used
<1>9. CloserInv'
  BY Zenon DEF Types, CloserInv
<1> QED BY <1>1, <1>2, <1>3, <1>4, <1>5, <1>6, <1>7, <1>8, <1>9, Zenon DEF IInv

(* A token leaves slotSem and counts for the writer that has it.           *)
LEMMA TakeTokenStep == ASSUME IInv, NEW w \in Writers, TakeToken(w) PROVE IInv'
<1>0. /\ Types /\ PlacesInv /\ SlotsConserved /\ KernelInv /\ KernelTracked
      /\ ChannelInv /\ LoopNeverBlocks /\ PassedInv /\ CloserInv
  BY Zenon DEF IInv
<1> USE <1>0, AioAssumption DEF TakeToken, slots, krn, reaper, goroutine, Return, Goto, Empty
<1>1. Types'
  BY InChannels DEF Types, PlacesInv, Goto
<1>2. PlacesInv'
  BY DEF Types, PlacesInv
<1>3. SlotsConserved'
  <2>1. Ready' = Ready \cup {w} /\ w \notin Ready
    BY DEF Types, Ready
  <2>2. Cardinality(Ready') = Cardinality(Ready) + 1
    BY <2>1, Counts, FS_AddElement, Zenon
  <2> QED BY <2>2, Counts DEF Types, PlacesInv, SlotsConserved, Holding
<1>4. KernelInv'
  BY Zenon DEF Types, PlacesInv, SlotsConserved, KernelInv, KernelTracked, Holding, CloserInv
<1>5. KernelTracked'
  BY Zenon DEF Types, PlacesInv, SlotsConserved, KernelInv, KernelTracked, Holding, CloserInv
<1>6. ChannelInv'
  BY DEF Types, PlacesInv, ChannelInv, Used
<1>7. LoopNeverBlocks'
  BY Zenon DEF Types, PlacesInv, ChannelInv, LoopNeverBlocks, Used
<1>8. PassedInv'
  BY ZenonT(60) DEF Types, PlacesInv, ChannelInv, PassedInv, Used
<1>9. CloserInv'
  BY Zenon DEF Types, CloserInv
<1> QED BY <1>1, <1>2, <1>3, <1>4, <1>5, <1>6, <1>7, <1>8, <1>9, Zenon DEF IInv

(* A writer with a token finds an iocb.                                    *)
LEMMA GetNextReadyStep == ASSUME IInv, NEW w \in Writers, GetNextReady(w) PROVE IInv'
<1>0. /\ Types /\ PlacesInv /\ SlotsConserved /\ KernelInv /\ KernelTracked
      /\ ChannelInv /\ LoopNeverBlocks /\ PassedInv /\ CloserInv
  BY Zenon DEF IInv
<1> USE <1>0, AioAssumption DEF GetNextReady, slots, krn, reaper, goroutine, Return, Goto, Empty
<1>1. Types'
  BY InChannels DEF Types, PlacesInv, Released
<1>2. PlacesInv'
  BY DEF Types, PlacesInv
<1>3. SlotsConserved'
  <2>1. Ready' = Ready \ {w} /\ w \in Ready
    BY DEF Types, Ready
  <2>2. Cardinality(Ready') = Cardinality(Ready) - 1 /\ Cardinality(Ready') \in Nat
    BY <2>1, Counts, FS_RemoveElement, FS_CardinalityType, Zenon
  <2>3. avail # {}
    BY <2>2, Counts, FS_EmptySet DEF SlotsConserved, Types
  <2>4. PICK cb \in avail : avail' = avail \ {cb} /\ held' = [held EXCEPT ![w] = cb] /\ sem' = sem
    BY <2>3, Zenon
  <2>5. Cardinality(avail') = Cardinality(avail) - 1
    BY <2>4, Counts, FS_RemoveElement, Zenon
  <2>6. sem' + Cardinality(Ready') = Cardinality(avail')
    BY <2>2, <2>4, <2>5, Counts DEF SlotsConserved, Types
  <2> QED BY <2>3, <2>4, <2>6 DEF Types, PlacesInv, SlotsConserved, Holding
<1>4. KernelInv'
  BY Zenon DEF Types, PlacesInv, SlotsConserved, KernelInv, KernelTracked, Holding, CloserInv
<1>5. KernelTracked'
  BY DEF Types, PlacesInv, SlotsConserved, KernelInv, KernelTracked, Holding, CloserInv
<1>6. ChannelInv'
  BY DEF Types, PlacesInv, ChannelInv, Used
<1>7. LoopNeverBlocks'
  BY Zenon DEF Types, PlacesInv, ChannelInv, LoopNeverBlocks, Used
<1>8. PassedInv'
  BY DEF Types, PlacesInv, ChannelInv, PassedInv, Used
<1>9. CloserInv'
  BY Zenon DEF Types, CloserInv
<1> QED BY <1>1, <1>2, <1>3, <1>4, <1>5, <1>6, <1>7, <1>8, <1>9, Zenon DEF IInv

(* The kernel gets an iocb that its writer holds with dmtx.                *)
LEMMA SubmitOkStep == ASSUME IInv, NEW w \in Writers, SubmitOk(w) PROVE IInv'
<1>0. /\ Types /\ PlacesInv /\ SlotsConserved /\ KernelInv /\ KernelTracked
      /\ ChannelInv /\ LoopNeverBlocks /\ PassedInv /\ CloserInv
  BY Zenon DEF IInv
<1> USE <1>0, AioAssumption DEF SubmitOk, slots, krn, reaper, goroutine, Return, Goto, Empty
<1>1. Types'
  BY InChannels DEF Types, PlacesInv, Goto
<1>2. PlacesInv'
  BY DEF Types, PlacesInv
<1>3. SlotsConserved'
  <2>1. Ready' = Ready
    BY Zenon DEF Types, Ready
  <2> QED BY <2>1 DEF Types, PlacesInv, SlotsConserved, Holding
<1>4. KernelInv'
  BY DEF Types, PlacesInv, SlotsConserved, KernelInv, KernelTracked, Holding, CloserInv
<1>5. KernelTracked'
  BY DEF Types, PlacesInv, SlotsConserved, KernelInv, KernelTracked, Holding, CloserInv
<1>6. ChannelInv'
  BY DEF Types, PlacesInv, ChannelInv, Used
<1>7. LoopNeverBlocks'
  BY Zenon DEF Types, PlacesInv, ChannelInv, LoopNeverBlocks, Used
<1>8. PassedInv'
  BY ZenonT(60) DEF Types, PlacesInv, ChannelInv, PassedInv, Used
<1>9. CloserInv'
  BY Zenon DEF Types, CloserInv
<1> QED BY <1>1, <1>2, <1>3, <1>4, <1>5, <1>6, <1>7, <1>8, <1>9, Zenon DEF IInv

(* A refused request gives iocb and token back.                            *)
LEMMA SubmitErrorStep == ASSUME IInv, NEW w \in Writers, SubmitError(w) PROVE IInv'
<1>0. /\ Types /\ PlacesInv /\ SlotsConserved /\ KernelInv /\ KernelTracked
      /\ ChannelInv /\ LoopNeverBlocks /\ PassedInv /\ CloserInv
  BY Zenon DEF IInv
<1> USE <1>0, AioAssumption DEF SubmitError, slots, krn, reaper, goroutine, Return, Goto, Empty
<1>1. Types'
  BY InChannels DEF Types, PlacesInv, Released, Outcomes
<1>2. PlacesInv'
  BY DEF Types, PlacesInv
<1>3. SlotsConserved'
  <2>1. Ready' = Ready
    BY Zenon DEF Types, Ready
  <2>2. held[w] \in Slots \ avail
    BY Zenon DEF Types, PlacesInv, SlotsConserved, Holding
  <2>3. sem' + Cardinality(Ready') = Cardinality(avail')
    BY <2>1, <2>2, GiveBack, Counts DEF SlotsConserved, Types
  <2> QED BY <2>3 DEF Types, PlacesInv, SlotsConserved, Holding
<1>4. KernelInv'
  BY Zenon DEF Types, PlacesInv, SlotsConserved, KernelInv, KernelTracked, Holding, CloserInv
<1>5. KernelTracked'
  BY Zenon DEF Types, PlacesInv, SlotsConserved, KernelInv, KernelTracked, Holding, CloserInv
<1>6. ChannelInv'
  BY DEF Types, PlacesInv, ChannelInv, Used
<1>7. LoopNeverBlocks'
  BY Zenon DEF Types, PlacesInv, ChannelInv, LoopNeverBlocks, Used
<1>8. PassedInv'
  BY DEF Types, PlacesInv, ChannelInv, PassedInv, Used
<1>9. CloserInv'
  BY Zenon DEF Types, CloserInv
<1> QED BY <1>1, <1>2, <1>3, <1>4, <1>5, <1>6, <1>7, <1>8, <1>9, Zenon DEF IInv

(* The request enters active before dmtx is released.                      *)
LEMMA TrackStep == ASSUME IInv, NEW w \in Writers, Track(w) PROVE IInv'
<1>0. /\ Types /\ PlacesInv /\ SlotsConserved /\ KernelInv /\ KernelTracked
      /\ ChannelInv /\ LoopNeverBlocks /\ PassedInv /\ CloserInv
  BY Zenon DEF IInv
<1> USE <1>0, AioAssumption DEF Track, slots, krn, reaper, goroutine, Return, Goto, Empty
<1>1. Types'
  <2>1. <<w, seg[w]>> \in Channels /\ held[w] \in Slots
    BY InChannels DEF Types, PlacesInv, PassedInv
  <2>2. Range(active) \subseteq Channels /\ DOMAIN active \subseteq Slots
    BY Zenon DEF Types
  <2>3. DOMAIN active' \subseteq Slots /\ Range(active') \subseteq Channels
    <3>1. /\ DOMAIN With(active, held[w], <<w, seg[w]>>) = DOMAIN active \cup {held[w]}
          /\ Range(With(active, held[w], <<w, seg[w]>>)) \subseteq Channels
      BY <2>1, <2>2, WithFacts, ZenonT(60)
    <3> QED BY <2>1, <2>2, <3>1, Zenon
  <2> QED BY <2>3, Zenon DEF Types
<1>2. PlacesInv'
  BY SMTT(30) DEF Types, PlacesInv, With, Without, Restrict, Range
<1>3. SlotsConserved'
  <2>1. Ready' = Ready
    BY Zenon DEF Types, Ready
  <2> QED BY <2>1 DEF Types, PlacesInv, SlotsConserved, Holding, With
<1>4. KernelInv'
  BY Zenon DEF Types, PlacesInv, SlotsConserved, KernelInv, KernelTracked, Holding,
       CloserInv, With, Without, Restrict, Range
<1>5. KernelTracked'
  BY ZenonT(60) DEF Types, PlacesInv, SlotsConserved, KernelInv, KernelTracked, Holding,
       CloserInv, With, Without, Restrict, Range
<1>6. ChannelInv'
  <2>1. /\ seg[w] \in 1 .. Segments[w] /\ ~ Used(w, seg[w])
        /\ held[w] \notin DOMAIN active
    BY DEF Types, PlacesInv, PassedInv, ChannelInv, SlotsConserved, Holding
  <2>2. DOMAIN active' = DOMAIN active \cup {held[w]}
    BY Zenon DEF With
  <2>3. active'[held[w]] = <<w, seg[w]>> /\ \A cb \in DOMAIN active : active'[cb] = active[cb]
    BY <2>1, Zenon DEF With
  <2>4. \A v \in Writers : \A s \in 1 .. Segments[v] : Used(v, s)' => Used(v, s) \/ <<v, s>> = <<w, seg[w]>>
    BY <2>2, <2>3, Zenon DEF Used
  <2>5. \A v \in Writers : \A s \in 1 .. Segments[v] :
          Used(v, s)' => s <= seg'[v] /\ (s = seg'[v] => pc'[v] \in {"waiting", "done"})
    BY <2>1, <2>4 DEF Types, ChannelInv
  <2> QED BY <2>1, <2>2, <2>3, <2>5, SMTT(30) DEF ChannelInv, Used
<1>7. LoopNeverBlocks'
  BY Zenon DEF Types, PlacesInv, ChannelInv, LoopNeverBlocks, Used, With, Without, Restrict,
       Range
<1>8. PassedInv'
  BY ZenonT(60) DEF Types, PlacesInv, ChannelInv, PassedInv, Used, With, Without, Restrict, Range
<1>9. CloserInv'
  BY Zenon DEF Types, CloserInv, With, Without, Restrict, Range
<1> QED BY <1>1, <1>2, <1>3, <1>4, <1>5, <1>6, <1>7, <1>8, <1>9, ZenonT(60) DEF IInv

(* A writer moves on after a full write and returns otherwise.             *)
LEMMA CompletedStep == ASSUME IInv, NEW w \in Writers, Completed(w) PROVE IInv'
<1>0. /\ Types /\ PlacesInv /\ SlotsConserved /\ KernelInv /\ KernelTracked
      /\ ChannelInv /\ LoopNeverBlocks /\ PassedInv /\ CloserInv
  BY Zenon DEF IInv
<1> USE <1>0, AioAssumption DEF Completed, slots, krn, reaper, goroutine, Return, Goto, Empty
<1>1. Types'
  <2>1. resCh[<<w, seg[w]>>] \in Outcomes \cup {"closed"}
    BY DEF Types, Range
  <2> QED BY <2>1, SMTT(30) DEF Types
<1>2. PlacesInv'
  BY SMTT(30) DEF Types, PlacesInv
<1>3. SlotsConserved'
  <2>1. Ready' = Ready
    BY ZenonT(60) DEF Types, Ready
  <2> QED BY <2>1 DEF Types, PlacesInv, SlotsConserved, Holding
<1>4. KernelInv'
  BY Zenon DEF Types, PlacesInv, SlotsConserved, KernelInv, KernelTracked, Holding, CloserInv
<1>5. KernelTracked'
  BY Zenon DEF Types, PlacesInv, SlotsConserved, KernelInv, KernelTracked, Holding, CloserInv
<1>6. ChannelInv'
  BY DEF Types, PlacesInv, ChannelInv, Used
<1>7. LoopNeverBlocks'
  BY Zenon DEF Types, PlacesInv, ChannelInv, LoopNeverBlocks, Used
<1>8. PassedInv'
  <2>1. seg[w] \in 1 .. Segments[w] /\ seg \in [Writers -> Nat] /\ DOMAIN ret = Writers
    BY SMTT(30) DEF Types, PlacesInv, PassedInv
  <2>2. CASE resCh[<<w, seg[w]>>] = "ok"
    BY <2>1, <2>2 DEF PassedInv
  <2>3. CASE resCh[<<w, seg[w]>>] # "ok"
    BY <2>1, <2>3, Zenon DEF PassedInv
  <2> QED BY <2>2, <2>3, Zenon
<1>9. CloserInv'
  BY Zenon DEF Types, CloserInv
<1> QED BY <1>1, <1>2, <1>3, <1>4, <1>5, <1>6, <1>7, <1>8, <1>9, Zenon DEF IInv

(* A cancelled writer leaves its request behind.                           *)
LEMMA CtxDoneStep == ASSUME IInv, NEW w \in Writers, CtxDone(w) PROVE IInv'
<1>0. /\ Types /\ PlacesInv /\ SlotsConserved /\ KernelInv /\ KernelTracked
      /\ ChannelInv /\ LoopNeverBlocks /\ PassedInv /\ CloserInv
  BY Zenon DEF IInv
<1> USE <1>0, AioAssumption DEF CtxDone, slots, krn, reaper, goroutine, Return, Goto, Empty
<1>1. Types'
  BY InChannels, Zenon DEF Types, PlacesInv, Goto
<1>2. PlacesInv'
  BY SMTT(30) DEF Types, PlacesInv
<1>3. SlotsConserved'
  <2>1. Ready' = Ready
    BY Zenon DEF Types, Ready
  <2> QED BY <2>1 DEF Types, PlacesInv, SlotsConserved, Holding
<1>4. KernelInv'
  BY Zenon DEF Types, PlacesInv, SlotsConserved, KernelInv, KernelTracked, Holding, CloserInv
<1>5. KernelTracked'
  BY Zenon DEF Types, PlacesInv, SlotsConserved, KernelInv, KernelTracked, Holding, CloserInv
<1>6. ChannelInv'
  BY SMTT(30) DEF Types, PlacesInv, ChannelInv, Used
<1>7. LoopNeverBlocks'
  BY Zenon DEF Types, PlacesInv, ChannelInv, LoopNeverBlocks, Used
<1>8. PassedInv'
  BY DEF Types, PlacesInv, ChannelInv, PassedInv, Used
<1>9. CloserInv'
  BY Zenon DEF Types, CloserInv
<1> QED BY <1>1, <1>2, <1>3, <1>4, <1>5, <1>6, <1>7, <1>8, <1>9, Zenon DEF IInv

----------------------------------------------------------------------------
(* Cancelling touches ctxDone only.                                        *)
LEMMA CancelStep == ASSUME IInv, NEW w \in Writers, Cancel(w) PROVE IInv'
<1>0. /\ Types /\ PlacesInv /\ SlotsConserved /\ KernelInv /\ KernelTracked
      /\ ChannelInv /\ LoopNeverBlocks /\ PassedInv /\ CloserInv
  BY Zenon DEF IInv
<1> USE <1>0, AioAssumption DEF Cancel, slots, krn, reaper, goroutine, Return, Goto, Empty
<1>1. Types'
  BY InChannels DEF Types, PlacesInv, Goto
<1>2. PlacesInv'
  BY Zenon DEF Types, PlacesInv
<1>3. SlotsConserved'
  BY DEF Types, PlacesInv, SlotsConserved, Holding, Ready
<1>4. KernelInv'
  BY Zenon DEF Types, PlacesInv, SlotsConserved, KernelInv, KernelTracked, Holding, CloserInv
<1>5. KernelTracked'
  BY Zenon DEF Types, PlacesInv, SlotsConserved, KernelInv, KernelTracked, Holding, CloserInv
<1>6. ChannelInv'
  BY ZenonT(60) DEF Types, PlacesInv, ChannelInv, Used
<1>7. LoopNeverBlocks'
  BY Zenon DEF Types, PlacesInv, ChannelInv, LoopNeverBlocks, Used
<1>8. PassedInv'
  BY Zenon DEF Types, PlacesInv, ChannelInv, PassedInv, Used
<1>9. CloserInv'
  BY Zenon DEF Types, CloserInv
<1> QED BY <1>1, <1>2, <1>3, <1>4, <1>5, <1>6, <1>7, <1>8, <1>9, ZenonT(60) DEF IInv

(* A request moves from the kernel to the events.                          *)
LEMMA KernelDoneStep == ASSUME IInv, NEW cb \in Slots, KernelDone(cb) PROVE IInv'
<1>0. /\ Types /\ PlacesInv /\ SlotsConserved /\ KernelInv /\ KernelTracked
      /\ ChannelInv /\ LoopNeverBlocks /\ PassedInv /\ CloserInv
  BY Zenon DEF IInv
<1> USE <1>0, AioAssumption DEF KernelDone, slots, krn, reaper, goroutine, Return, Goto, Empty
<1>1. Types'
  <2>1. Range(events) \subseteq Outcomes /\ DOMAIN events \subseteq Slots
    BY Zenon DEF Types
  <2>2. PICK r \in Outcomes : events' = With(events, cb, r)
    BY Zenon
  <2>3. DOMAIN events' \subseteq Slots /\ Range(events') \subseteq Outcomes
    <3>1. /\ DOMAIN With(events, cb, r) = DOMAIN events \cup {cb}
          /\ Range(With(events, cb, r)) \subseteq Outcomes
      BY <2>1, <2>2, WithFacts, ZenonT(60)
    <3> QED BY <2>1, <2>2, <3>1, Zenon
  <2> QED BY <2>3, Zenon DEF Types
<1>2. PlacesInv'
  BY Zenon DEF Types, PlacesInv, With, Without, Restrict, Range
<1>3. SlotsConserved'
  BY SMTT(30) DEF Types, PlacesInv, SlotsConserved, Holding, Ready, With, Without, Restrict,
       Range
<1>4. KernelInv'
  BY SMTT(30) DEF Types, PlacesInv, SlotsConserved, KernelInv, KernelTracked, Holding,
       CloserInv, With, Without, Restrict, Range
<1>5. KernelTracked'
  BY SMTT(30) DEF Types, PlacesInv, SlotsConserved, KernelInv, KernelTracked, Holding,
       CloserInv, With, Without, Restrict, Range
<1>6. ChannelInv'
  BY InChannels, ChannelPair DEF Types, PlacesInv, ChannelInv, Used, With, Without,
       Restrict, Range
<1>7. LoopNeverBlocks'
  BY Zenon DEF Types, PlacesInv, ChannelInv, LoopNeverBlocks, Used, With, Without, Restrict,
       Range
<1>8. PassedInv'
  BY ZenonT(60) DEF Types, PlacesInv, ChannelInv, PassedInv, Used, With, Without, Restrict, Range
<1>9. CloserInv'
  BY Zenon DEF Types, CloserInv, With, Without, Restrict, Range
<1> QED BY <1>1, <1>2, <1>3, <1>4, <1>5, <1>6, <1>7, <1>8, <1>9, Zenon DEF IInv

(* The loop goes on or exits.                                              *)
LEMMA LoopSelectStep == ASSUME IInv, LoopSelect PROVE IInv'
<1>0. /\ Types /\ PlacesInv /\ SlotsConserved /\ KernelInv /\ KernelTracked
      /\ ChannelInv /\ LoopNeverBlocks /\ PassedInv /\ CloserInv
  BY Zenon DEF IInv
<1> USE <1>0, AioAssumption DEF LoopSelect, slots, krn, reaper, goroutine, Return, Goto, Empty
<1>1. Types'
  BY InChannels, Zenon DEF Types, PlacesInv, Goto
<1>2. PlacesInv'
  BY Zenon DEF Types, PlacesInv
<1>3. SlotsConserved'
  BY DEF Types, PlacesInv, SlotsConserved, Holding, Ready
<1>4. KernelInv'
  BY Zenon DEF Types, PlacesInv, SlotsConserved, KernelInv, KernelTracked, Holding, CloserInv
<1>5. KernelTracked'
  BY Zenon DEF Types, PlacesInv, SlotsConserved, KernelInv, KernelTracked, Holding, CloserInv
<1>6. ChannelInv'
  BY DEF Types, PlacesInv, ChannelInv, Used
<1>7. LoopNeverBlocks'
  BY Zenon DEF Types, PlacesInv, ChannelInv, LoopNeverBlocks, Used
<1>8. PassedInv'
  BY ZenonT(60) DEF Types, PlacesInv, ChannelInv, PassedInv, Used
<1>9. CloserInv'
  BY Zenon DEF Types, CloserInv
<1> QED BY <1>1, <1>2, <1>3, <1>4, <1>5, <1>6, <1>7, <1>8, <1>9, Zenon DEF IInv

(* Reaped events move to the loop.                                         *)
LEMMA WaitAnyNotifyStep == ASSUME IInv, WaitAnyNotify PROVE IInv'
<1>0. /\ Types /\ PlacesInv /\ SlotsConserved /\ KernelInv /\ KernelTracked
      /\ ChannelInv /\ LoopNeverBlocks /\ PassedInv /\ CloserInv
  BY Zenon DEF IInv
<1> USE <1>0, AioAssumption DEF WaitAnyNotify, slots, krn, reaper, goroutine, Return, Goto, Empty
<1>1. Types'
  BY InChannels DEF Types, PlacesInv, Range
<1>2. PlacesInv'
  BY Zenon DEF Types, PlacesInv, With, Without, Restrict, Range
<1>3. SlotsConserved'
  BY DEF Types, PlacesInv, SlotsConserved, Holding, Ready, With, Without, Restrict,
       Range
<1>4. KernelInv'
  BY DEF Types, PlacesInv, SlotsConserved, KernelInv, KernelTracked, Holding,
       CloserInv, With, Without, Restrict, Range
<1>5. KernelTracked'
  BY Zenon DEF Types, PlacesInv, SlotsConserved, KernelInv, KernelTracked, Holding,
       CloserInv, With, Without, Restrict, Range
<1>6. ChannelInv'
  BY InChannels, ChannelPair DEF Types, PlacesInv, ChannelInv, Used, With, Without,
       Restrict, Range
<1>7. LoopNeverBlocks'
  BY Zenon DEF Types, PlacesInv, ChannelInv, LoopNeverBlocks, Used, With, Without, Restrict,
       Range
<1>8. PassedInv'
  BY ZenonT(60) DEF Types, PlacesInv, ChannelInv, PassedInv, Used, With, Without, Restrict, Range
<1>9. CloserInv'
  BY Zenon DEF Types, CloserInv, With, Without, Restrict, Range
<1> QED BY <1>1, <1>2, <1>3, <1>4, <1>5, <1>6, <1>7, <1>8, <1>9, Zenon DEF IInv

(* A verified event gives iocb and token back and keeps its result.        *)
LEMMA VerifyResultStep == ASSUME IInv, VerifyResult PROVE IInv'
<1>0. /\ Types /\ PlacesInv /\ SlotsConserved /\ KernelInv /\ KernelTracked
      /\ ChannelInv /\ LoopNeverBlocks /\ PassedInv /\ CloserInv
  BY Zenon DEF IInv
<1> USE <1>0, AioAssumption DEF VerifyResult, slots, krn, reaper, goroutine, Return, Goto, Empty
<1>1. Types'
  BY InChannels DEF Types, PlacesInv, Released, Range, Without, With, Restrict
<1>2. PlacesInv'
  BY ZenonT(60) DEF Types, PlacesInv, With, Without, Restrict, Range
<1>3. SlotsConserved'
  <2>1. PICK cb \in DOMAIN evts : IF cb \notin DOMAIN active THEN UNCHANGED slots
                                  ELSE /\ active' = Without(active, cb)
                                       /\ avail' = avail \cup {cb} /\ sem' = Released(sem)
    BY Zenon
  <2>2. Ready' = Ready /\ Holding' = Holding /\ held' = held
    BY ZenonT(60) DEF Ready, Holding
  <2>3. CASE cb \in DOMAIN active
    <3>1. cb \in Slots \ avail
      BY <2>3, Zenon DEF Types, SlotsConserved
    <3>4. sem' = sem + 1 /\ Cardinality(avail') = Cardinality(avail) + 1
      BY <2>1, <2>3, <3>1, GiveBack, Zenon
    <3>2. sem' + Cardinality(Ready') = Cardinality(avail')
      BY <2>2, <3>4, Counts DEF SlotsConserved
    <3>3. DOMAIN active' = DOMAIN active \ {cb}
      BY <2>1, <2>3, Zenon DEF Without, Restrict
    <3> QED BY <2>1, <2>2, <2>3, <3>2, <3>3 DEF SlotsConserved
  <2> QED BY <2>1, <2>2, <2>3 DEF SlotsConserved
<1>4. KernelInv'
  <2>1. PICK cb \in DOMAIN evts : evts' = Empty \/ evts' = Without(evts, cb)
    BY Zenon
  <2>2. DOMAIN evts' \subseteq DOMAIN evts /\ kernel' = kernel /\ events' = events
    BY <2>1, Zenon DEF Without, Restrict
  <2> QED BY <2>2, Zenon DEF KernelInv
<1>5. KernelTracked'
  <2>1. PICK cb \in DOMAIN evts : IF cb \notin DOMAIN active THEN evts' = Empty /\ active' = active
                                  ELSE /\ active' = Without(active, cb)
                                       /\ evts' = Without(evts, cb)
    BY Zenon
  <2>2. DOMAIN evts' \subseteq DOMAIN evts
    BY <2>1 DEF Without, Restrict
  <2>3. CASE cb \in DOMAIN active
    <3>1. DOMAIN active' = DOMAIN active \ {cb} /\ DOMAIN evts' = DOMAIN evts \ {cb}
      BY <2>1, <2>3, Zenon DEF Without, Restrict
    <3> QED BY <3>1 DEF KernelInv, KernelTracked
  <2> QED BY <2>1, <2>2, <2>3, Zenon DEF KernelTracked
<1>6. ChannelInv'
  BY InChannels, ChannelPair DEF Types, PlacesInv, ChannelInv, Used, With, Without,
       Restrict, Range
<1>7. LoopNeverBlocks'
  BY DEF Types, PlacesInv, ChannelInv, LoopNeverBlocks, Used, With, Without, Restrict,
       Range
<1>8. PassedInv'
  BY Zenon DEF Types, PlacesInv, ChannelInv, PassedInv, Used, With, Without, Restrict, Range
<1>9. CloserInv'
  BY ZenonT(60) DEF Types, CloserInv, With, Without, Restrict, Range
<1> QED BY <1>1, <1>2, <1>3, <1>4, <1>5, <1>6, <1>7, <1>8, <1>9, Zenon DEF IInv

(* A result goes to its channel.                                           *)
LEMMA NotifyStep == ASSUME IInv, Notify PROVE IInv'
<1>0. /\ Types /\ PlacesInv /\ SlotsConserved /\ KernelInv /\ KernelTracked
      /\ ChannelInv /\ LoopNeverBlocks /\ PassedInv /\ CloserInv
  BY Zenon DEF IInv
<1> USE <1>0, AioAssumption DEF Notify, slots, krn, reaper, goroutine, Return, Goto, Empty
<1>1. Types'
  <2>1. PICK ch \in DOMAIN notifies : /\ resCh' = With(resCh, ch, notifies[ch])
                                      /\ notifies' = Without(notifies, ch)
    BY ZenonT(60)
  <2>2. /\ ch \in Channels /\ notifies[ch] \in Outcomes \cup {"closed"}
        /\ DOMAIN resCh \subseteq Channels /\ Range(resCh) \subseteq Outcomes \cup {"closed"}
        /\ DOMAIN notifies \subseteq Channels /\ Range(notifies) \subseteq Outcomes
    BY DEF Types, Range
  <2>3. DOMAIN resCh' \subseteq Channels /\ Range(resCh') \subseteq Outcomes \cup {"closed"}
    <3>1. /\ DOMAIN With(resCh, ch, notifies[ch]) = DOMAIN resCh \cup {ch}
          /\ Range(With(resCh, ch, notifies[ch])) \subseteq Outcomes \cup {"closed"}
      BY <2>1, <2>2, WithFacts, Zenon
    <3> QED BY <2>1, <2>2, <3>1, Zenon
  <2>4. DOMAIN notifies' \subseteq Channels /\ Range(notifies') \subseteq Outcomes
    <3>1. /\ DOMAIN Without(notifies, ch) = DOMAIN notifies \ {ch}
          /\ Range(Without(notifies, ch)) \subseteq Outcomes
      BY <2>1, <2>2, WithoutFacts, ZenonT(60)
    <3> QED BY <2>1, <2>2, <3>1, Zenon
  <2> QED BY <2>3, <2>4, Zenon DEF Types
<1>2. PlacesInv'
  BY Zenon DEF Types, PlacesInv, With, Without, Restrict, Range
<1>3. SlotsConserved'
  BY DEF Types, PlacesInv, SlotsConserved, Holding, Ready, With, Without, Restrict,
       Range
<1>4. KernelInv'
  BY Zenon DEF Types, PlacesInv, SlotsConserved, KernelInv, KernelTracked, Holding,
       CloserInv, With, Without, Restrict, Range
<1>5. KernelTracked'
  BY Zenon DEF Types, PlacesInv, SlotsConserved, KernelInv, KernelTracked, Holding,
       CloserInv, With, Without, Restrict, Range
<1>6. ChannelInv'
  BY InChannels, ChannelPair DEF Types, PlacesInv, ChannelInv, Used, With, Without,
       Restrict, Range
<1>7. LoopNeverBlocks'
  BY Zenon DEF Types, PlacesInv, ChannelInv, LoopNeverBlocks, Used, With, Without, Restrict,
       Range
<1>8. PassedInv'
  BY DEF Types, PlacesInv, ChannelInv, PassedInv, Used, With, Without, Restrict, Range
<1>9. CloserInv'
  BY Zenon DEF Types, CloserInv, With, Without, Restrict, Range
<1> QED BY <1>1, <1>2, <1>3, <1>4, <1>5, <1>6, <1>7, <1>8, <1>9, Zenon DEF IInv

(* Close asks the loop to stop.                                            *)
LEMMA CloseStopStep == ASSUME IInv, CloseStop PROVE IInv'
<1>0. /\ Types /\ PlacesInv /\ SlotsConserved /\ KernelInv /\ KernelTracked
      /\ ChannelInv /\ LoopNeverBlocks /\ PassedInv /\ CloserInv
  BY Zenon DEF IInv
<1> USE <1>0, AioAssumption DEF CloseStop, slots, krn, reaper, goroutine, Return, Goto, Empty
<1>1. Types'
  BY InChannels, Zenon DEF Types, PlacesInv, Goto
<1>2. PlacesInv'
  BY Zenon DEF Types, PlacesInv
<1>3. SlotsConserved'
  BY DEF Types, PlacesInv, SlotsConserved, Holding, Ready
<1>4. KernelInv'
  BY Zenon DEF Types, PlacesInv, SlotsConserved, KernelInv, KernelTracked, Holding, CloserInv
<1>5. KernelTracked'
  BY Zenon DEF Types, PlacesInv, SlotsConserved, KernelInv, KernelTracked, Holding, CloserInv
<1>6. ChannelInv'
  BY DEF Types, PlacesInv, ChannelInv, Used
<1>7. LoopNeverBlocks'
  BY Zenon DEF Types, PlacesInv, ChannelInv, LoopNeverBlocks, Used
<1>8. PassedInv'
  BY ZenonT(60) DEF Types, PlacesInv, ChannelInv, PassedInv, Used
<1>9. CloserInv'
  BY Zenon DEF Types, CloserInv
<1> QED BY <1>1, <1>2, <1>3, <1>4, <1>5, <1>6, <1>7, <1>8, <1>9, Zenon DEF IInv

(* Close clears ctx once the loop is gone.                                 *)
LEMMA CloseCtxStep == ASSUME IInv, CloseCtx PROVE IInv'
<1>0. /\ Types /\ PlacesInv /\ SlotsConserved /\ KernelInv /\ KernelTracked
      /\ ChannelInv /\ LoopNeverBlocks /\ PassedInv /\ CloserInv
  BY Zenon DEF IInv
<1> USE <1>0, AioAssumption DEF CloseCtx, slots, krn, reaper, goroutine, Return, Goto, Empty
<1>1. Types'
  BY InChannels, ZenonT(60) DEF Types, PlacesInv, Goto
<1>2. PlacesInv'
  BY Zenon DEF Types, PlacesInv
<1>3. SlotsConserved'
  BY DEF Types, PlacesInv, SlotsConserved, Holding, Ready
<1>4. KernelInv'
  BY Zenon DEF Types, PlacesInv, SlotsConserved, KernelInv, KernelTracked, Holding, CloserInv
<1>5. KernelTracked'
  BY Zenon DEF Types, PlacesInv, SlotsConserved, KernelInv, KernelTracked, Holding, CloserInv
<1>6. ChannelInv'
  BY DEF Types, PlacesInv, ChannelInv, Used
<1>7. LoopNeverBlocks'
  BY Zenon DEF Types, PlacesInv, ChannelInv, LoopNeverBlocks, Used
<1>8. PassedInv'
  BY ZenonT(60) DEF Types, PlacesInv, ChannelInv, PassedInv, Used
<1>9. CloserInv'
  BY Zenon DEF Types, CloserInv
<1> QED BY <1>1, <1>2, <1>3, <1>4, <1>5, <1>6, <1>7, <1>8, <1>9, Zenon DEF IInv

(* The kernel is done and its events are dropped.                          *)
LEMMA IoDestroyStep == ASSUME IInv, IoDestroy PROVE IInv'
<1>0. /\ Types /\ PlacesInv /\ SlotsConserved /\ KernelInv /\ KernelTracked
      /\ ChannelInv /\ LoopNeverBlocks /\ PassedInv /\ CloserInv
  BY Zenon DEF IInv
<1> USE <1>0, AioAssumption DEF IoDestroy, slots, krn, reaper, goroutine, Return, Goto, Empty
<1>1. Types'
  BY InChannels DEF Types, PlacesInv, Range
<1>2. PlacesInv'
  BY Zenon DEF Types, PlacesInv, With, Without, Restrict, Range
<1>3. SlotsConserved'
  BY DEF Types, PlacesInv, SlotsConserved, Holding, Ready, With, Without, Restrict,
       Range
<1>4. KernelInv'
  BY Zenon DEF Types, PlacesInv, SlotsConserved, KernelInv, KernelTracked, Holding,
       CloserInv, With, Without, Restrict, Range
<1>5. KernelTracked'
  BY Zenon DEF Types, PlacesInv, SlotsConserved, KernelInv, KernelTracked, Holding,
       CloserInv, With, Without, Restrict, Range
<1>6. ChannelInv'
  BY InChannels, ChannelPair DEF Types, PlacesInv, ChannelInv, Used, With, Without,
       Restrict, Range
<1>7. LoopNeverBlocks'
  BY Zenon DEF Types, PlacesInv, ChannelInv, LoopNeverBlocks, Used, With, Without, Restrict,
       Range
<1>8. PassedInv'
  BY ZenonT(60) DEF Types, PlacesInv, ChannelInv, PassedInv, Used, With, Without, Restrict, Range
<1>9. CloserInv'
  BY ZenonT(60) DEF Types, CloserInv, With, Without, Restrict, Range
<1> QED BY <1>1, <1>2, <1>3, <1>4, <1>5, <1>6, <1>7, <1>8, <1>9, Zenon DEF IInv

(* Close gives back what is active and fails its channels.                 *)
LEMMA CloseCleanStep == ASSUME IInv, CloseClean PROVE IInv'
<1>0. /\ Types /\ PlacesInv /\ SlotsConserved /\ KernelInv /\ KernelTracked
      /\ ChannelInv /\ LoopNeverBlocks /\ PassedInv /\ CloserInv
  BY Zenon DEF IInv
<1> USE <1>0, AioAssumption DEF CloseClean, slots, krn, reaper, goroutine, Return, Goto, Empty
<1>1. Types'
  <2>1. sem' \in Nat
    <3>1. IsFiniteSet(DOMAIN active)
      BY FS_Subset, Zenon DEF Types
    <3> QED BY <3>1, Counts, FS_CardinalityType DEF ReleasedAll
  <2>2. /\ DOMAIN resCh \subseteq Channels /\ Range(resCh) \subseteq Outcomes \cup {"closed"}
        /\ Range(active) \subseteq Channels
    BY Zenon DEF Types
  <2>3. DOMAIN resCh' = DOMAIN resCh \cup Range(active)
    BY Zenon
  <2>4. \A ch \in DOMAIN resCh' : resCh'[ch] \in Outcomes \cup {"closed"}
    BY <2>2, Zenon DEF Range
  <2>5. DOMAIN resCh' \subseteq Channels /\ Range(resCh') \subseteq Outcomes \cup {"closed"}
    BY <2>2, <2>3, <2>4 DEF Range
  <2>6. DOMAIN active' = {} /\ Range(active') = {}
    BY Zenon DEF Range
  <2> QED BY <2>1, <2>5, <2>6, ZenonT(60) DEF Types
<1>2. PlacesInv'
  BY ZenonT(60) DEF Types, PlacesInv, With, Without, Restrict, Range
<1>3. SlotsConserved'
  <2>1. Ready' = Ready /\ Holding' = Holding /\ held' = held /\ DOMAIN active' = {}
    BY Zenon DEF Ready, Holding
  <2>2. IsFiniteSet(DOMAIN active) /\ Cardinality(DOMAIN active) \in Nat
    BY FS_Subset, FS_CardinalityType, Zenon DEF Types
  <2>3. avail \cap DOMAIN active = {} /\ avail' \subseteq Slots
    BY Zenon DEF SlotsConserved, Types
  <2>8. Cardinality(avail \cup DOMAIN active)
           = Cardinality(avail) + Cardinality(DOMAIN active) - Cardinality(avail \cap DOMAIN active)
    BY <2>2, Counts, FS_Union, Zenon
  <2>9. Cardinality(avail \cap DOMAIN active) = 0
    BY <2>3, FS_EmptySet, Zenon
  <2>4. Cardinality(avail') = Cardinality(avail) + Cardinality(DOMAIN active)
    BY <2>8, <2>9, <2>2, Counts
  <2>5. Cardinality(avail') <= QueueDepth
    BY <2>3, FS_Subset, Zenon DEF QueueDepth
  <2>6. sem' = sem + Cardinality(DOMAIN active)
    BY <2>2, <2>4, <2>5, Counts, SMTT(30) DEF ReleasedAll
  <2>7. sem' + Cardinality(Ready') = Cardinality(avail')
    BY <2>1, <2>2, <2>4, <2>6, Counts DEF SlotsConserved
  <2> QED BY <2>1, <2>7, ZenonT(60) DEF SlotsConserved
<1>4. KernelInv'
  BY Zenon DEF Types, PlacesInv, SlotsConserved, KernelInv, KernelTracked, Holding,
       CloserInv, With, Without, Restrict, Range
<1>5. KernelTracked'
  BY ZenonT(60) DEF KernelTracked, CloserInv
<1>6. ChannelInv'
  <2>1. DOMAIN active' = {} /\ DOMAIN resCh' = DOMAIN resCh \cup Range(active)
    BY Zenon
  <2>2. \A w \in Writers : \A s \in 1 .. Segments[w] : Used(w, s)' => Used(w, s)
    BY <2>1, ZenonT(60) DEF Used, Range
  <2> QED BY <2>1, <2>2, Zenon DEF ChannelInv
<1>7. LoopNeverBlocks'
  <2>1. DOMAIN resCh' = DOMAIN resCh \cup Range(active) /\ notifies' = notifies
    BY ZenonT(60)
  <2>2. \A ch \in Range(active) : ch \notin DOMAIN notifies
    BY DEF ChannelInv, Range
  <2> QED BY <2>1, <2>2, Zenon DEF LoopNeverBlocks
<1>8. PassedInv'
  BY ZenonT(60) DEF Types, PlacesInv, ChannelInv, PassedInv, Used, With, Without, Restrict, Range
<1>9. CloserInv'
  BY ZenonT(60) DEF Types, CloserInv, With, Without, Restrict, Range
<1> QED BY <1>1, <1>2, <1>3, <1>4, <1>5, <1>6, <1>7, <1>8, <1>9, Zenon DEF IInv

(* Close ends.                                                             *)
LEMMA CloseNilStep == ASSUME IInv, CloseNil PROVE IInv'
<1>0. /\ Types /\ PlacesInv /\ SlotsConserved /\ KernelInv /\ KernelTracked
      /\ ChannelInv /\ LoopNeverBlocks /\ PassedInv /\ CloserInv
  BY Zenon DEF IInv
<1> USE <1>0, AioAssumption DEF CloseNil, slots, krn, reaper, goroutine, Return, Goto, Empty
<1>1. Types'
  BY InChannels, ZenonT(60) DEF Types, PlacesInv, Goto
<1>2. PlacesInv'
  BY Zenon DEF Types, PlacesInv
<1>3. SlotsConserved'
  BY DEF Types, PlacesInv, SlotsConserved, Holding, Ready
<1>4. KernelInv'
  BY Zenon DEF Types, PlacesInv, SlotsConserved, KernelInv, KernelTracked, Holding, CloserInv
<1>5. KernelTracked'
  BY Zenon DEF Types, PlacesInv, SlotsConserved, KernelInv, KernelTracked, Holding, CloserInv
<1>6. ChannelInv'
  BY ZenonT(60) DEF Types, PlacesInv, ChannelInv, Used
<1>7. LoopNeverBlocks'
  BY Zenon DEF Types, PlacesInv, ChannelInv, LoopNeverBlocks, Used
<1>8. PassedInv'
  BY ZenonT(60) DEF Types, PlacesInv, ChannelInv, PassedInv, Used
<1>9. CloserInv'
  BY Zenon DEF Types, CloserInv
<1> QED BY <1>1, <1>2, <1>3, <1>4, <1>5, <1>6, <1>7, <1>8, <1>9, Zenon DEF IInv

(* The invariant holds initially.                                          *)
LEMMA InitIInv == Init => IInv
<1> SUFFICES ASSUME Init PROVE IInv
  BY Zenon
<1> USE AioAssumption DEF Init, Empty
<1>1. Types
  BY FS_CardinalityType, Zenon DEF Types, Range, QueueDepth
<1>2. SlotsConserved
  <2>1. Ready = {} /\ Holding = {}
    BY Zenon DEF Ready, Holding
  <2> QED BY <2>1, FS_EmptySet, FS_CardinalityType DEF SlotsConserved, QueueDepth
<1>3. PlacesInv /\ KernelInv /\ KernelTracked /\ ChannelInv /\ LoopNeverBlocks /\ CloserInv
  BY Zenon DEF PlacesInv, KernelInv, KernelTracked, ChannelInv, Used, LoopNeverBlocks,
       CloserInv
<1>4. PassedInv
  BY DEF PassedInv
<1> QED BY <1>1, <1>2, <1>3, <1>4, Zenon DEF IInv

(* Every step keeps it.                                                    *)
LEMMA NextIInv == IInv /\ [Next]_vars => IInv'
<1> SUFFICES ASSUME IInv, [Next]_vars PROVE IInv'
  BY Zenon
<1>1. ASSUME NEW w \in Writers, WriterStep(w) \/ Cancel(w) PROVE IInv'
  BY <1>1, WriteAllocatedStep, NextSegmentStep, TakeTokenStep, GetNextReadyStep,
       SubmitOkStep,
     SubmitErrorStep, TrackStep, CompletedStep, CtxDoneStep, CancelStep, Zenon DEF WriterStep
<1>2. ASSUME NEW cb \in Slots, KernelDone(cb) PROVE IInv'
  BY <1>2, KernelDoneStep, Zenon
<1>3. CASE Loop \/ CloseStop \/ Close
  BY <1>3, LoopSelectStep, WaitAnyNotifyStep, VerifyResultStep, NotifyStep,
       CloseStopStep,
     CloseCtxStep, IoDestroyStep, CloseCleanStep, CloseNilStep, Zenon DEF Loop, Close
<1>4. CASE UNCHANGED vars
  <2>4. /\ Types /\ PlacesInv /\ SlotsConserved /\ KernelInv /\ KernelTracked
        /\ ChannelInv /\ LoopNeverBlocks /\ PassedInv /\ CloserInv
    BY Zenon DEF IInv
  <2> USE <1>4, <2>4 DEF vars
  <2>1. Types' /\ PlacesInv' /\ PassedInv' /\ CloserInv'
    BY ZenonT(60) DEF Types, PlacesInv, PassedInv, CloserInv
  <2>2. SlotsConserved' /\ KernelInv' /\ KernelTracked'
    BY ZenonT(60) DEF SlotsConserved, KernelInv, KernelTracked, Holding, Ready
  <2>3. ChannelInv' /\ LoopNeverBlocks'
    BY Zenon DEF ChannelInv, LoopNeverBlocks, Used
  <2> QED BY <2>1, <2>2, <2>3, Zenon DEF IInv
<1> QED BY <1>1, <1>2, <1>3, <1>4, Zenon DEF Next

----------------------------------------------------------------------------
(* Theorems                                                                *)

(* The inductive invariant of the write path.                              *)
THEOREM Invariant == Spec => []IInv
BY InitIInv, NextIInv, PTL DEF Spec

(* The types, with slotSem never above its capacity.                       *)
THEOREM TypeCorrect == Spec => []TypeOK
<1>1. IInv => Types /\ sem \in 0 .. QueueDepth
  BY Counts DEF IInv
<1>2. Types /\ sem \in 0 .. QueueDepth => TypeOK
  BY Zenon DEF Types, TypeOK
<1> QED BY <1>1, <1>2, Invariant, PTL

(* Tokens and iocbs agree at every step, whatever fails, is cancelled or   *)
(* is closed.                                                              *)
THEOREM SlotsAreConserved == Spec => []SlotsConserved
<1>1. IInv => SlotsConserved
  BY Zenon DEF IInv
<1> QED BY <1>1, Invariant, PTL

(* No iocb is free while the kernel may still write through its buffer.    *)
THEOREM KernelIsTracked == Spec => []KernelTracked
<1>1. IInv => KernelTracked
  BY Zenon DEF IInv
<1> QED BY <1>1, Invariant, PTL

(* The completion loop has room on every channel it sends on.              *)
THEOREM LoopDoesNotBlock == Spec => []LoopNeverBlocks
<1>1. IInv => LoopNeverBlocks
  BY Zenon DEF IInv
<1> QED BY <1>1, Invariant, PTL

(* A nil error means that every segment was written in full.               *)
THEOREM OkWasWritten == Spec => []OkIsWritten
<1>1. IInv => PassedInv
  BY Zenon DEF IInv
<1>2. PassedInv => OkIsWritten
  BY AioAssumption DEF PassedInv, OkIsWritten
<1> QED BY <1>1, <1>2, Invariant, PTL

==============================================================================

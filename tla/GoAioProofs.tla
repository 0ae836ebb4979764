---------------------------- MODULE GoAioProofs ----------------------------
(***************************************************************************)
(* OwnResult and BooksAgree of GoAio, for every number of workers, iocbs   *)
(* and rounds.                                                             *)
(***************************************************************************)
EXTENDS GoAio, FiniteSetTheorems, TLAPS

----------------------------------------------------------------------------
(* The inductive invariant                                                 *)

Calls == {"WaitFor", "WaitAny", "Wait", "Flush"}
Ready == {p \in Workers : pc[p] = "ready"}

\* The places of a worker that holds wmtx, of one that looks at its request,
\* and of one that has no request to wait for.
Locked == {"all", "wait", "getevents", "verify", "back"}
Looking == {"check", "lock", "ack"}
Submitting == {"idle", "ready", "submit", "track"}

Types ==
    /\ sem \in Nat /\ avail \subseteq Slots
    /\ DOMAIN active \subseteq Slots
    /\ reqId \in Nat
    /\ DOMAIN kernel \subseteq Slots /\ DOMAIN events \subseteq Slots /\ DOMAIN evts \subseteq Slots
    /\ \A cb \in DOMAIN events : events[cb] \in {"ok", "short", "error"}
    /\ \A cb \in DOMAIN evts : evts[cb] \in {"ok", "short", "error"}
    /\ dmtx \in Workers \cup {Free} /\ wmtx \in Workers \cup {Free}
    /\ pc \in [Workers -> Locked \cup Looking \cup Submitting \cup {"reap"}]
    /\ round \in [Workers -> Nat] /\ held \in [Workers -> Slots \cup {Free}]
    /\ id \in [Workers -> Nat] /\ call \in [Workers -> Calls]
    /\ fate \in [Workers -> {"none", "ok", "short", "error"}]

\* Who holds an iocb or a mutex, and for what, is told by its place.
Places ==
    /\ \A p \in Workers : held[p] # Free <=> pc[p] \in {"submit", "track"}
    /\ \A p \in Workers : dmtx = p <=> pc[p] = "track"
    /\ \A p \in Workers : wmtx = p <=> pc[p] \in Locked
    /\ \A p \in Workers : pc[p] \in Looking \cup Submitting => call[p] = "WaitFor"
    /\ \A p \in Workers : pc[p] \in {"reap", "all"} => call[p] # "WaitFor"
    /\ DOMAIN evts # {} => \E p \in Workers : pc[p] = "verify"
    /\ ~ ctxOpen => /\ DOMAIN kernel = {} /\ DOMAIN events = {}
                    /\ \A p \in Workers : pc[p] = "idle"

\* A request is in one place of the kernel's path at a time.
OnePlace ==
    /\ DOMAIN kernel \cap DOMAIN events = {}
    /\ DOMAIN kernel \cap DOMAIN evts = {}
    /\ DOMAIN events \cap DOMAIN evts = {}

\* Ids are given once, and a request that is waited for has one waiter.
Ids ==
    /\ \A n \in DOMAIN requests : n \in Nat /\ n <= reqId
    /\ \A p, q \in Waiting : id[p] = id[q] => p = q
    /\ \A p \in Workers : pc[p] = "ack" => IdDone(p)
    /\ IsFiniteSet(Ready)

\* The iocb that carries the request of p.
Carries(cb, p) ==
    \/ pc[p] = "track" /\ held[p] = cb
    \/ p \in Waiting /\ cb \in DOMAIN active /\ active[cb] = id[p]

\* What the kernel works on for the present round of p is its request.
Rounded ==
    /\ \A cb \in DOMAIN kernel : kernel[cb] \in Workers \X Nat
    /\ \A cb \in DOMAIN kernel : \A p \in Workers :
          kernel[cb][1] = p =>
             /\ kernel[cb][2] <= round[p]
             /\ kernel[cb][2] = round[p] => /\ pc[p] \notin {"ready", "submit"}
                                            /\ pc[p] = "track" \/ p \in Waiting => Carries(cb, p)

\* The event of a request says what the kernel did with it.
Told ==
    \A cb \in Slots : \A p \in Workers :
       Carries(cb, p) =>
          /\ cb \in DOMAIN kernel => kernel[cb] = <<p, round[p]>>
          /\ cb \in DOMAIN events => events[cb] = fate[p]
          /\ cb \in DOMAIN evts => evts[cb] = fate[p]

\* The conjuncts of BooksAgree.
Shares ==
    /\ avail \cap DOMAIN active = {}
    /\ \A p \in Holding : held[p] \notin avail \cup DOMAIN active
    /\ \A p, q \in Holding : held[p] = held[q] => p = q
    /\ avail \cup DOMAIN active \cup {held[p] : p \in Holding} = Slots

Tokens == sem + Cardinality(Ready) = Cardinality(avail)

Tracked ==
    \A cb \in DOMAIN kernel \cup DOMAIN events \cup DOMAIN evts :
       cb \in DOMAIN active \/ \E p \in Workers : dmtx = p /\ held[p] = cb

Pending ==
    /\ ctxOpen => Range(active) = {n \in DOMAIN requests : requests[n] = "pending"}
    /\ \A a, b \in DOMAIN active : active[a] = active[b] => a = b

Known == \A w \in Waiting : id[w] \in DOMAIN requests

IInv == /\ Types /\ Places /\ OnePlace /\ Ids /\ Rounded /\ Told
        /\ Shares /\ Tokens /\ Tracked /\ Pending /\ Known /\ OwnResult

----------------------------------------------------------------------------
(* Lemmas                                                                  *)

(* The sets that are counted are finite.                                   *)
LEMMA Counts ==
    ASSUME IInv
    PROVE  /\ IsFiniteSet(Ready) /\ Cardinality(Ready) \in Nat
           /\ IsFiniteSet(avail) /\ Cardinality(avail) \in Nat
           /\ QueueDepth \in Nat /\ Cardinality(avail) <= QueueDepth
           /\ sem \in Nat /\ sem + Cardinality(Ready) = Cardinality(avail)
<1>1. IsFiniteSet(Ready) /\ avail \subseteq Slots /\ sem \in Nat
  BY Zenon DEF IInv, Ids, Types
<1>2. IsFiniteSet(avail) /\ Cardinality(avail) <= QueueDepth
  BY <1>1, GoAioAssumption, FS_Subset, Zenon DEF QueueDepth
<1>3. Cardinality(Ready) \in Nat /\ Cardinality(avail) \in Nat /\ QueueDepth \in Nat
  BY <1>1, <1>2, GoAioAssumption, FS_CardinalityType, Zenon DEF QueueDepth
<1>4. sem + Cardinality(Ready) = Cardinality(avail)
  BY Zenon DEF IInv, Tokens
<1> QED BY <1>1, <1>2, <1>3, <1>4, Zenon

(* An iocb outside avail leaves room for its token.                        *)
LEMMA GiveBack ==
    ASSUME IInv, NEW cb \in Slots \ avail
    PROVE  Released(sem) = sem + 1 /\ Cardinality(avail \cup {cb}) = Cardinality(avail) + 1
<1>1. Cardinality(avail \cup {cb}) = Cardinality(avail) + 1
  BY Counts, FS_AddElement, Zenon
<1>2. avail \cup {cb} \subseteq Slots
  BY Zenon DEF IInv, Types
<1>3. Cardinality(avail \cup {cb}) <= QueueDepth
  BY <1>2, GoAioAssumption, FS_Subset, Zenon DEF QueueDepth
<1>4. sem < QueueDepth
  BY <1>1, <1>3, Counts
<1> QED BY <1>1, <1>4, Zenon DEF Released

----------------------------------------------------------------------------
(* The life of a request                                                   *)

(* What verifying an event changes whatever its result is.                 *)
LEMMA VerifyFrame ==
    ASSUME IInv, NEW p \in Workers, NEW c \in DOMAIN evts, pc[p] = "verify", dmtx = Free,
           evts' = Without(evts, c),
           Goto(p, IF DOMAIN evts = {c} THEN "back" ELSE "verify"),
           UNCHANGED <<reqId, dmtx, wmtx, ctxOpen, kernel, events, fate, round, held, id, call>>
    PROVE  /\ c \in Slots /\ c \in DOMAIN active /\ ctxOpen
           /\ c \notin DOMAIN kernel /\ c \notin DOMAIN events
           /\ DOMAIN evts' = DOMAIN evts \ {c} /\ \A z \in DOMAIN evts' : evts'[z] = evts[z]
           /\ Waiting' = Waiting /\ Ready' = Ready /\ Holding' = Holding
           /\ \A q \in Workers : pc'[q] \in {"ready", "submit", "track", "ack"} => pc'[q] = pc[q]
           /\ pc' \in [Workers -> Locked \cup Looking \cup Submitting \cup {"reap"}]
           /\ Places' /\ OnePlace'
<1>0. /\ Types /\ Places /\ OnePlace /\ Ids /\ Rounded /\ Told
      /\ Shares /\ Tokens /\ Tracked /\ Pending /\ Known /\ OwnResult
  BY Zenon DEF IInv
<1> USE <1>0
<1>1. /\ reqId' = reqId /\ dmtx' = dmtx /\ wmtx' = wmtx /\ ctxOpen' = ctxOpen /\ kernel' = kernel
      /\ events' = events /\ fate' = fate /\ round' = round /\ held' = held /\ id' = id /\ call' = call
  BY Zenon
<1>2. DOMAIN evts' = DOMAIN evts \ {c} /\ \A z \in DOMAIN evts' : evts'[z] = evts[z]
  BY Zenon DEF Without, Restrict
<1>3. c \in Slots /\ c \in DOMAIN active /\ ctxOpen /\ c \notin DOMAIN kernel /\ c \notin DOMAIN events
  BY GoAioAssumption DEF Types, Tracked, Places, OnePlace
<1>4. /\ pc' = [pc EXCEPT ![p] = pc'[p]]
      /\ pc'[p] = IF DOMAIN evts = {c} THEN "back" ELSE "verify"
  BY Zenon DEF Goto, Types
<1>5. \A q \in Workers : q # p => pc'[q] = pc[q]
  BY Zenon DEF Goto, Types
<1>6. Waiting' = Waiting
  BY <1>1, <1>4, <1>5, Zenon DEF Waiting
<1>7. Ready' = Ready
  BY <1>4, <1>5, Zenon DEF Ready
<1>8. Holding' = Holding
  BY <1>1, Zenon DEF Holding
<1>9. \A q \in Workers : pc'[q] \in {"ready", "submit", "track", "ack"} => pc'[q] = pc[q]
  BY <1>4, <1>5, Zenon
<1>10. pc' \in [Workers -> Locked \cup Looking \cup Submitting \cup {"reap"}]
  BY <1>4, Zenon DEF Types, Locked
<1>11. Places'
  <2>1. DOMAIN evts' # {} => \E q \in Workers : pc'[q] = "verify"
    BY <1>2, <1>4, Zenon
  <2>2. \A q \in Workers : pc'[q] \in Locked <=> pc[q] \in Locked
    BY <1>4, <1>5, Zenon DEF Locked
  <2>3. \A q \in Workers : /\ pc'[q] \in Looking \cup Submitting => pc[q] = pc'[q]
                           /\ pc'[q] \in {"reap", "all"} => pc[q] = pc'[q]
    BY <1>4, <1>5, Zenon DEF Looking, Submitting
  <2>4. \A q \in Workers : pc[q] \in {"submit", "track"} => pc'[q] = pc[q]
    BY <1>5, Zenon
  <2> QED BY <1>1, <1>3, <1>9, <2>1, <2>2, <2>3, <2>4 DEF Places
<1>12. OnePlace'
  BY <1>1, <1>2, Zenon DEF OnePlace
<1> QED BY <1>2, <1>3, <1>6, <1>7, <1>8, <1>9, <1>10, <1>11, <1>12, Zenon

(* A short transfer is reported and its request stays as it was; another   *)
(* one is filed, and its iocb and token are given back.                    *)
LEMMA VerifyResultStep == ASSUME IInv, NEW p \in Workers, VerifyResult(p) PROVE IInv'
<1>0. /\ Types /\ Places /\ OnePlace /\ Ids /\ Rounded /\ Told
      /\ Shares /\ Tokens /\ Tracked /\ Pending /\ Known /\ OwnResult
  BY Zenon DEF IInv
<1> USE <1>0
<1>1. PICK c \in DOMAIN evts :
         /\ IF c \notin DOMAIN active \/ evts[c] = "short"
              THEN waitErr' = TRUE /\ UNCHANGED <<slots, requests>>
              ELSE FreeEvent(c)
         /\ evts' = Without(evts, c)
         /\ Goto(p, IF DOMAIN evts = {c} THEN "back" ELSE "verify")
  BY Zenon DEF VerifyResult
<1>2. /\ pc[p] = "verify" /\ dmtx = Free /\ reqId' = reqId /\ dmtx' = dmtx /\ wmtx' = wmtx
      /\ ctxOpen' = ctxOpen /\ kernel' = kernel /\ events' = events /\ fate' = fate
      /\ round' = round /\ held' = held /\ id' = id /\ call' = call
  BY Zenon DEF VerifyResult, krn, local
<1>3. /\ c \in Slots /\ c \in DOMAIN active /\ ctxOpen
      /\ c \notin DOMAIN kernel /\ c \notin DOMAIN events
      /\ DOMAIN evts' = DOMAIN evts \ {c} /\ \A z \in DOMAIN evts' : evts'[z] = evts[z]
      /\ Waiting' = Waiting /\ Ready' = Ready /\ Holding' = Holding
      /\ \A q \in Workers : pc'[q] \in {"ready", "submit", "track", "ack"} => pc'[q] = pc[q]
      /\ pc' \in [Workers -> Locked \cup Looking \cup Submitting \cup {"reap"}]
      /\ Places' /\ OnePlace'
  BY <1>1, <1>2, VerifyFrame, Zenon
<1>4. CASE evts[c] = "short"
  <2>1. sem' = sem /\ avail' = avail /\ active' = active /\ requests' = requests
    BY <1>1, <1>4, Zenon DEF slots
  <2>2. Types'
    BY <1>2, <1>3, <2>1, Zenon DEF Types
  <2>3. Ids'
    BY <1>2, <1>3, <2>1, ZenonT(60) DEF Ids, IdDone
  <2>4. \A cb, q : q \in Workers =>
           /\ Carries(cb, q)' => Carries(cb, q)
           /\ Carries(cb, q) /\ (pc'[q] = "track" \/ q \in Waiting') => Carries(cb, q)'
    BY <1>2, <1>3, <2>1, Zenon DEF Carries, Waiting
  <2>5. Rounded'
    BY <1>2, <1>3, <2>4 DEF Rounded
  <2>6. Told'
    BY <1>2, <1>3, <2>4, Zenon DEF Told
  <2>7. Shares' /\ Tokens' /\ Pending' /\ Known'
    BY <1>2, <1>3, <2>1 DEF Shares, Tokens, Pending, Known
  <2>8. Tracked'
    BY <1>2, <1>3, <2>1, Zenon DEF Tracked
  <2>9. OwnResult'
    BY <1>2, <1>3, <2>1, Zenon DEF OwnResult, IdDone
  <2> QED BY <1>3, <2>2, <2>3, <2>5, <2>6, <2>7, <2>8, <2>9, Zenon DEF IInv
<1>5. CASE evts[c] # "short"
  <2> DEFINE n == active[c]
  <2>1. FreeEvent(c)
    BY <1>1, <1>3, <1>5, Zenon
  <2>2. n \in DOMAIN requests /\ requests[n] = "pending"
    BY <1>3 DEF Pending, Range
  <2>3. /\ active' = Without(active, c) /\ avail' = avail \cup {c} /\ sem' = Released(sem)
        /\ requests' = [requests EXCEPT ![n] = evts[c]]
    BY <2>1, <2>2, Zenon DEF FreeEvent
  <2>4. c \notin avail /\ evts[c] \in {"ok", "error"}
    BY <1>3, <1>5, Zenon DEF Shares, Types
  <2>5. sem' = sem + 1 /\ Cardinality(avail') = Cardinality(avail) + 1
    BY <1>3, <2>3, <2>4, GiveBack, Zenon
  <2> HIDE DEF n
  <2>6. /\ DOMAIN active' = DOMAIN active \ {c}
        /\ \A z \in DOMAIN active' : active'[z] = active[z] /\ active[z] # n
    <3>1. active' = Without(active, c)
      BY <2>3, Zenon
    <3>2. \A z \in DOMAIN active : z # c => active[z] # n
      BY <1>3, Zenon DEF Pending, n
    <3> QED BY <3>1, <3>2, Zenon DEF Without, Restrict
  <2>7. /\ DOMAIN requests' = DOMAIN requests /\ requests'[n] = evts[c]
        /\ \A m \in DOMAIN requests : m # n => requests'[m] = requests[m]
    BY <2>2, <2>3, Zenon
  <2>8. Types'
    BY <1>2, <1>3, <2>3, <2>5, <2>6 DEF Types
  <2>9. Ids'
    <3>1. ASSUME NEW q \in Workers, pc'[q] = "ack" PROVE IdDone(q)'
      <4>1. pc[q] = "ack" /\ IdDone(q) /\ q \in Waiting
        BY <1>3, <3>1 DEF Ids, Places, Waiting, Looking
      <4>2. id[q] \in DOMAIN requests
        BY <4>1, Zenon DEF Known
      <4> QED BY <1>2, <2>2, <2>7, <4>1, <4>2, Zenon DEF IdDone
    <3> QED BY <1>2, <1>3, <2>7, <3>1, ZenonT(60) DEF Ids
  <2>10. \A cb, q : q \in Workers => (Carries(cb, q)' => Carries(cb, q) /\ cb # c)
    <3> TAKE cb, q
    <3> HAVE q \in Workers
    <3>1. pc'[q] # "track" /\ pc[q] # "track"
      BY <1>2, <1>3, GoAioAssumption DEF Places
    <3> QED BY <1>2, <1>3, <2>6, <3>1, Zenon DEF Carries
  <2>11. \A cb, q : q \in Workers /\ cb # c =>
            (Carries(cb, q) /\ (pc'[q] = "track" \/ q \in Waiting') => Carries(cb, q)')
    BY <1>2, <1>3, <2>6, Zenon DEF Carries, Waiting
  <2>12. Rounded'
    <3>1. \A cb \in DOMAIN kernel : cb # c
      BY <1>3, Zenon
    <3> QED BY <1>2, <1>3, <2>11, <3>1 DEF Rounded
  <2>13. Told'
    BY <1>2, <1>3, <2>10, Zenon DEF Told
  <2>14. Shares'
    BY <1>2, <1>3, <2>3, <2>4, <2>6 DEF Shares, Holding
  <2>15. Tokens'
    BY <1>3, <2>5, Counts DEF Tokens
  <2>16. Tracked'
    BY <1>2, <1>3, <2>6, GoAioAssumption, Zenon DEF Tracked
  <2>17. Pending'
    <3>1. Range(active) = Range(active') \cup {n} /\ n \notin Range(active')
      BY <1>3, <2>6 DEF Range, n
    <3>2. {m \in DOMAIN requests : requests[m] = "pending"}
             = {m \in DOMAIN requests' : requests'[m] = "pending"} \cup {n}
      BY <2>2, <2>4, <2>7, Zenon
    <3>3. n \notin {m \in DOMAIN requests' : requests'[m] = "pending"}
      BY <2>4, <2>7, Zenon
    <3>4. Range(active) = {m \in DOMAIN requests : requests[m] = "pending"}
      BY <1>3, Zenon DEF Pending
    <3>5. Range(active') = {m \in DOMAIN requests' : requests'[m] = "pending"}
      BY <3>1, <3>2, <3>3, <3>4, Zenon
    <3> QED BY <2>6, <3>5, Zenon DEF Pending
  <2>18. Known'
    BY <1>2, <1>3, <2>7, Zenon DEF Known
  <2>19. OwnResult'
    <3>1. ASSUME NEW q \in Waiting, requests'[id[q]] # "pending"
          PROVE  fate[q] # "short" /\ requests'[id[q]] = fate[q]
      <4>1. id[q] \in DOMAIN requests /\ q \in Workers
        BY Zenon DEF Known, Waiting
      <4>2. CASE id[q] = n
        <5>1. Carries(c, q)
          BY <1>3, <4>2, Zenon DEF Carries, n
        <5>2. evts[c] = fate[q]
          BY <1>3, <4>1, <5>1, Zenon DEF Told
        <5> QED BY <2>4, <2>7, <4>2, <5>2, Zenon
      <4>3. CASE id[q] # n
        BY <2>7, <3>1, <4>1, <4>3, Zenon DEF OwnResult, IdDone
      <4> QED BY <4>2, <4>3, Zenon
    <3> QED BY <1>2, <1>3, <3>1, Zenon DEF OwnResult, IdDone
  <2> QED BY <1>3, <2>8, <2>9, <2>12, <2>13, <2>14, <2>15, <2>16, <2>17, <2>18, <2>19, Zenon
    DEF IInv
<1> QED BY <1>4, <1>5, Zenon

(* The request gets its id and enters active and requests before dmtx is   *)
(* released.                                                               *)
LEMMA TrackStep == ASSUME IInv, NEW p \in Workers, Track(p) PROVE IInv'
<1>0. /\ Types /\ Places /\ OnePlace /\ Ids /\ Rounded /\ Told
      /\ Shares /\ Tokens /\ Tracked /\ Pending /\ Known /\ OwnResult
  BY Zenon DEF IInv
<1> USE <1>0
<1> DEFINE c == held[p]
           n == reqId + 1
<1>1. /\ pc[p] = "track" /\ dmtx' = Free /\ reqId' = n /\ id' = [id EXCEPT ![p] = n]
      /\ active' = With(active, c, n) /\ requests' = With(requests, n, "pending")
      /\ held' = [held EXCEPT ![p] = Free] /\ pc' = [pc EXCEPT ![p] = "check"]
      /\ sem' = sem /\ avail' = avail /\ wmtx' = wmtx /\ kernel' = kernel /\ events' = events
      /\ ctxOpen' = ctxOpen /\ fate' = fate /\ evts' = evts /\ round' = round /\ call' = call
  BY Zenon DEF Track, Goto, krn, waiting
<1>2. /\ c \in Slots /\ c \notin DOMAIN active /\ c \notin avail /\ p \in Holding
      /\ dmtx = p /\ ctxOpen /\ call[p] = "WaitFor"
  BY <1>1, ZenonT(60) DEF Types, Places, Shares, Holding, Submitting
<1>3. n \in Nat /\ n \notin DOMAIN requests /\ \A m \in DOMAIN requests : m <= n
  BY DEF Types, Ids
<1>4. c = held[p]
  BY Zenon
<1> HIDE DEF c, n
<1>5. /\ DOMAIN active' = DOMAIN active \cup {c} /\ active'[c] = n
      /\ \A z \in DOMAIN active : z # c /\ active'[z] = active[z]
  <2>1. active' = With(active, c, n) /\ c \notin DOMAIN active
    BY <1>1, <1>2, Zenon
  <2> QED BY <2>1, Zenon DEF With
<1>6. /\ DOMAIN requests' = DOMAIN requests \cup {n} /\ requests'[n] = "pending"
      /\ \A z \in DOMAIN requests : z # n /\ requests'[z] = requests[z]
  <2>1. requests' = With(requests, n, "pending") /\ n \notin DOMAIN requests
    BY <1>1, <1>3, Zenon
  <2> QED BY <2>1, Zenon DEF With
<1>7. \A z \in DOMAIN active : active[z] \in DOMAIN requests /\ active[z] # n
  BY <1>2, <1>3, Zenon DEF Pending, Range
<1>8. \A q \in Workers : IF q = p THEN pc'[q] = "check" /\ id'[q] = n /\ held'[q] = Free
                         ELSE /\ pc'[q] = pc[q] /\ id'[q] = id[q] /\ held'[q] = held[q]
                              /\ pc[q] # "track"
  BY <1>1, <1>2 DEF Types, Places
<1>9. /\ Waiting' = Waiting \cup {p} /\ p \notin Waiting
      /\ \A q \in Waiting : q \in Workers /\ q # p /\ id'[q] = id[q] /\ id[q] \in DOMAIN requests /\ id[q] # n
  <2>1. Waiting' = Waiting \cup {p} /\ p \notin Waiting
    BY <1>1, <1>2, <1>8, Zenon DEF Waiting
  <2>2. \A q \in Waiting : q \in Workers /\ q # p
    BY <2>1, Zenon DEF Waiting
  <2> QED BY <1>3, <1>8, <2>1, <2>2, Zenon DEF Known
<1>10. Ready' = Ready
  BY <1>1, <1>8, Zenon DEF Ready
<1>11. Types'
  BY <1>1, <1>2, <1>3, <1>5, Zenon DEF Types, Looking
<1>12. Places'
  BY <1>1, <1>2, <1>8, GoAioAssumption DEF Places, Locked, Looking, Submitting
<1>13. OnePlace'
  BY <1>1, Zenon DEF OnePlace
<1>14. Ids'
  <2>1. \A m \in DOMAIN requests' : m \in Nat /\ m <= reqId'
    BY <1>1, <1>3, <1>6 DEF Ids
  <2>2. \A q, r \in Waiting' : id'[q] = id'[r] => q = r
    BY <1>8, <1>9 DEF Ids
  <2>3. ASSUME NEW q \in Workers, pc'[q] = "ack" PROVE IdDone(q)'
    <3>1. q # p /\ pc[q] = "ack"
      BY <1>8, <2>3, Zenon
    <3>2. IdDone(q) /\ q \in Waiting
      BY <3>1, Zenon DEF Ids, Places, Waiting, Looking
    <3> QED BY <1>6, <1>9, <3>2, Zenon DEF IdDone
  <2> QED BY <1>10, <2>1, <2>2, <2>3, Zenon DEF Ids
<1>15. \A cb, q : q \in Workers /\ q # p => (Carries(cb, q)' <=> Carries(cb, q))
  BY <1>5, <1>8, <1>9, ZenonT(60) DEF Carries
<1>16. \A cb : (Carries(cb, p)' <=> cb = c) /\ (Carries(cb, p) <=> cb = c)
  <2> TAKE cb
  <2>1. Carries(cb, p) <=> cb = c
    BY <1>1, <1>4, <1>9, Zenon DEF Carries
  <2>2. Carries(cb, p)' <=> cb = c
    BY <1>5, <1>7, <1>8, <1>9, Zenon DEF Carries
  <2> QED BY <2>1, <2>2, Zenon
<1>17. Rounded'
  <2>1. ASSUME NEW cb \in DOMAIN kernel, NEW q \in Workers, kernel[cb][1] = q
        PROVE  /\ kernel[cb][2] <= round[q]
               /\ kernel[cb][2] = round[q] =>
                     /\ pc'[q] \notin {"ready", "submit"}
                     /\ pc'[q] = "track" \/ q \in Waiting' => Carries(cb, q)'
    <3>1. /\ kernel[cb][2] <= round[q]
          /\ kernel[cb][2] = round[q] =>
                /\ pc[q] \notin {"ready", "submit"}
                /\ pc[q] = "track" \/ q \in Waiting => Carries(cb, q)
      BY <2>1, Zenon DEF Rounded
    <3>2. CASE q = p
      BY <1>1, <1>8, <1>16, <3>1, <3>2, Zenon
    <3>3. CASE q # p
      BY <1>8, <1>9, <1>15, <3>1, <3>3, Zenon
    <3> QED BY <3>2, <3>3, Zenon
  <2> QED BY <1>1, <2>1, Zenon DEF Rounded
<1>18. Told'
  <2>1. \A cb, q : q \in Workers /\ Carries(cb, q)' => Carries(cb, q)
    BY <1>15, <1>16, Zenon
  <2> QED BY <1>1, <2>1, Zenon DEF Told
<1>19. Shares'
  <2>1. Holding' = Holding \ {p} /\ \A q \in Holding' : held'[q] = held[q]
    BY <1>8, Zenon DEF Holding
  <2>2. {held[q] : q \in Holding} = {held'[q] : q \in Holding'} \cup {c}
    BY <1>2, <1>4, <2>1, Zenon
  <2>3. avail' \cup DOMAIN active' \cup {held'[q] : q \in Holding'} = Slots
    BY <1>1, <1>5, <2>2, Zenon DEF Shares
  <2>4. \A q \in Holding' : held'[q] \notin avail' \cup DOMAIN active'
    BY <1>1, <1>2, <1>4, <1>5, <2>1 DEF Shares
  <2>5. \A q, r \in Holding' : held'[q] = held'[r] => q = r
    BY <2>1, Zenon DEF Shares
  <2>6. avail' \cap DOMAIN active' = {}
    BY <1>1, <1>2, <1>5, Zenon DEF Shares
  <2> QED BY <2>3, <2>4, <2>5, <2>6, Zenon DEF Shares
<1>20. Tokens'
  BY <1>1, <1>10, Zenon DEF Tokens
<1>21. Tracked'
  BY <1>1, <1>2, <1>4, <1>5, ZenonT(60) DEF Tracked
<1>22. Pending'
  <2>1. Range(active') = Range(active) \cup {n}
    BY <1>5, Zenon DEF Range
  <2>2. {m \in DOMAIN requests' : requests'[m] = "pending"}
           = {m \in DOMAIN requests : requests[m] = "pending"} \cup {n}
    BY <1>6, Zenon
  <2>3. \A a, b \in DOMAIN active' : active'[a] = active'[b] => a = b
    BY <1>5, <1>7, Zenon DEF Pending
  <2> QED BY <1>2, <2>1, <2>2, <2>3, Zenon DEF Pending
<1>23. Known'
  BY <1>6, <1>8, <1>9, Zenon DEF Known
<1>24. OwnResult'
  <2>1. ~ IdDone(p)'
    BY <1>6, <1>8, Zenon DEF IdDone
  <2>2. ASSUME NEW q \in Waiting, IdDone(q)'
        PROVE  fate'[q] # "short" /\ requests'[id'[q]] = fate'[q]
    BY <1>1, <1>6, <1>9, <2>2 DEF OwnResult, IdDone
  <2> QED BY <1>9, <2>1, <2>2, Zenon DEF OwnResult
<1> QED BY <1>11, <1>12, <1>13, <1>14, <1>17, <1>18, <1>19, <1>20, <1>21, <1>22, <1>23, <1>24, Zenon DEF IInv

(* The kernel gets an iocb that its worker holds with dmtx, and that no    *)
(* other request is in.                                                    *)
LEMMA SubmitOkStep == ASSUME IInv, NEW p \in Workers, SubmitOk(p) PROVE IInv'
<1>0. /\ Types /\ Places /\ OnePlace /\ Ids /\ Rounded /\ Told
      /\ Shares /\ Tokens /\ Tracked /\ Pending /\ Known /\ OwnResult
  BY Zenon DEF IInv
<1> USE <1>0
<1> DEFINE c == held[p]
<1>1. /\ pc[p] = "submit" /\ dmtx = Free /\ dmtx' = p
      /\ kernel' = With(kernel, c, <<p, round[p]>>) /\ pc' = [pc EXCEPT ![p] = "track"]
      /\ sem' = sem /\ avail' = avail /\ active' = active /\ requests' = requests /\ reqId' = reqId
      /\ wmtx' = wmtx /\ ctxOpen' = ctxOpen /\ events' = events /\ evts' = evts /\ fate' = fate
      /\ round' = round /\ held' = held /\ id' = id /\ call' = call
  BY Zenon DEF SubmitOk, Goto, slots, waiting, local
<1>2. c \in Slots /\ c \notin DOMAIN active
  BY <1>1, ZenonT(60) DEF Types, Places, Shares, Holding
<1>3. c \notin DOMAIN kernel \cup DOMAIN events \cup DOMAIN evts
  BY <1>1, <1>2, GoAioAssumption, Zenon DEF Tracked
<1> HIDE DEF c
<1>4. /\ DOMAIN kernel' = DOMAIN kernel \cup {c} /\ kernel'[c] = <<p, round[p]>>
      /\ \A z \in DOMAIN kernel : kernel'[z] = kernel[z]
  <2>1. kernel' = With(kernel, c, <<p, round[p]>>) /\ c \notin DOMAIN kernel
    BY <1>1, <1>3, Zenon
  <2> QED BY <2>1, Zenon DEF With
<1>5. /\ pc'[p] = "track" /\ held'[p] = c /\ p \notin Waiting /\ p \notin Waiting'
      /\ \A q \in Workers : q # p => pc'[q] = pc[q] /\ pc[q] # "track"
      /\ Waiting' = Waiting /\ Ready' = Ready
  <2>1. \A q \in Workers : IF q = p THEN pc'[q] = "track" ELSE pc'[q] = pc[q]
    BY <1>1, Zenon DEF Types
  <2>2. \A q \in Workers : pc[q] # "track"
    BY <1>1, GoAioAssumption, Zenon DEF Places
  <2>3. Waiting' = Waiting /\ p \notin Waiting
    BY <1>1, <2>1, Zenon DEF Waiting
  <2>4. Ready' = Ready
    BY <1>1, <2>1, Zenon DEF Ready
  <2> QED BY <1>1, <2>1, <2>2, <2>3, <2>4, Zenon DEF c
<1>6. Types'
  BY <1>1, <1>2, <1>4, ZenonT(60) DEF Types, Submitting
<1>7. Places'
  BY <1>1, <1>4, <1>5, GoAioAssumption, SMTT(30) DEF Types, Places, Locked, Looking, Submitting
<1>8. OnePlace'
  BY <1>1, <1>3, <1>4, Zenon DEF OnePlace
<1>9. Ids'
  <2>1. \A q \in Workers : pc'[q] = "ack" => IdDone(q)'
    BY <1>1, <1>5, Zenon DEF Ids, IdDone
  <2> QED BY <1>1, <1>5, <2>1, Zenon DEF Ids
<1>10. \A cb, q : q \in Workers /\ q # p => (Carries(cb, q)' <=> Carries(cb, q)) /\ (Carries(cb, q) => cb # c)
  BY <1>1, <1>2, <1>5, Zenon DEF Carries
<1>11. \A cb : Carries(cb, p)' <=> cb = c
  BY <1>5, Zenon DEF Carries
<1>12. Rounded'
  <2>1. \A cb \in DOMAIN kernel' : kernel'[cb] \in Workers \X Nat
    <3>1. <<p, round[p]>> \in Workers \X Nat
      BY Zenon DEF Types
    <3>2. \A cb \in DOMAIN kernel : kernel[cb] \in Workers \X Nat
      BY Zenon DEF Rounded
    <3> QED BY <1>4, <3>1, <3>2, Zenon
  <2>2. ASSUME NEW cb \in DOMAIN kernel', NEW q \in Workers, kernel'[cb][1] = q
        PROVE  /\ kernel'[cb][2] <= round'[q]
               /\ kernel'[cb][2] = round'[q] =>
                     /\ pc'[q] \notin {"ready", "submit"}
                     /\ pc'[q] = "track" \/ q \in Waiting' => Carries(cb, q)'
    <3>1. CASE cb = c
      <4>1. q = p /\ kernel'[cb][2] = round[p] /\ round[p] \in Nat
        BY <1>4, <2>2, <3>1 DEF Types
      <4>2. kernel'[cb][2] <= round'[q]
        BY <1>1, <4>1
      <4>3. pc'[q] = "track" /\ Carries(cb, q)'
        BY <1>5, <1>11, <3>1, <4>1, Zenon
      <4> QED BY <4>2, <4>3, Zenon
    <3>2. CASE cb # c
      <4>1. cb \in DOMAIN kernel /\ kernel'[cb] = kernel[cb] /\ kernel[cb][1] = q
        BY <1>4, <2>2, <3>2, Zenon
      <4>2. /\ kernel[cb][2] <= round[q]
            /\ kernel[cb][2] = round[q] =>
                  /\ pc[q] \notin {"ready", "submit"}
                  /\ pc[q] = "track" \/ q \in Waiting => Carries(cb, q)
        BY <4>1, Zenon DEF Rounded
      <4>3. CASE q = p
        BY <1>1, <4>1, <4>2, <4>3, Zenon
      <4>4. CASE q # p
        BY <1>1, <1>5, <1>10, <4>1, <4>2, <4>4, Zenon
      <4> QED BY <4>3, <4>4, Zenon
    <3> QED BY <3>1, <3>2, ZenonT(60)
  <2> QED BY <2>1, <2>2, Zenon DEF Rounded
<1>13. Told'
  <2>1. ASSUME NEW cb \in Slots, NEW q \in Workers, Carries(cb, q)'
        PROVE  /\ cb \in DOMAIN kernel' => kernel'[cb] = <<q, round'[q]>>
               /\ cb \in DOMAIN events' => events'[cb] = fate'[q]
               /\ cb \in DOMAIN evts' => evts'[cb] = fate'[q]
    <3>1. CASE q = p
      BY <1>1, <1>3, <1>4, <1>11, <2>1, <3>1, Zenon
    <3>2. CASE q # p
      BY <1>1, <1>4, <1>10, <2>1, <3>2, Zenon DEF Told
    <3> QED BY <3>1, <3>2, Zenon
  <2> QED BY <2>1, Zenon DEF Told
<1>14. Shares' /\ Tokens'
  BY <1>1, <1>5, Zenon DEF Shares, Holding, Tokens
<1>15. Tracked'
  BY <1>1, <1>4, <1>5, GoAioAssumption DEF Tracked
<1>16. Pending' /\ Known'
  BY <1>1, <1>5, Zenon DEF Pending, Known
<1>17. OwnResult'
  BY <1>1, <1>5, Zenon DEF OwnResult, IdDone
<1> QED BY <1>6, <1>7, <1>8, <1>9, <1>12, <1>13, <1>14, <1>15, <1>16, <1>17, Zenon DEF IInv

(* A worker has one iocb at most.                                          *)
LEMMA OneIocb ==
    ASSUME IInv, NEW p \in Workers, NEW a, NEW b, Carries(a, p), Carries(b, p)
    PROVE  a = b
<1>1. p \in Waiting => pc[p] # "track"
  BY Zenon DEF Waiting
<1> QED BY <1>1, Zenon DEF Carries, IInv, Pending

(* An iocb of a waiter carries a pending request.                          *)
LEMMA CarriedIsPending ==
    ASSUME IInv, NEW p \in Waiting, NEW cb, Carries(cb, p)
    PROVE  ~ IdDone(p)
<1>1. p \in Workers /\ pc[p] \notin {"idle", "track"}
  BY Zenon DEF Waiting
<1>2. ctxOpen
  BY <1>1, Zenon DEF IInv, Places
<1>3. cb \in DOMAIN active /\ active[cb] = id[p]
  BY <1>1, Zenon DEF Carries
<1>4. id[p] \in Range(active)
  BY <1>3, Zenon DEF Range
<1>5. Range(active) = {n \in DOMAIN requests : requests[n] = "pending"}
  BY <1>2, Zenon DEF IInv, Pending
<1> QED BY <1>4, <1>5, Zenon DEF IdDone

(* The kernel is done with a request: its fate is told to its worker, if   *)
(* that still waits for it, and to nobody else.                            *)
LEMMA KernelDoneStep == ASSUME IInv, NEW c \in Slots, KernelDone(c) PROVE IInv'
<1>0. /\ Types /\ Places /\ OnePlace /\ Ids /\ Rounded /\ Told
      /\ Shares /\ Tokens /\ Tracked /\ Pending /\ Known /\ OwnResult
  BY Zenon DEF IInv
<1> USE <1>0
<1> DEFINE w == kernel[c][1]
<1>1. PICK r \in {"ok", "short", "error"} :
         /\ events' = With(events, c, r)
         /\ fate' = [fate EXCEPT ![w] = IF round[w] = kernel[c][2] THEN r ELSE @]
  BY Zenon DEF KernelDone
<1>2. /\ c \in DOMAIN kernel /\ kernel' = Without(kernel, c)
      /\ sem' = sem /\ avail' = avail /\ active' = active /\ requests' = requests /\ reqId' = reqId
      /\ dmtx' = dmtx /\ wmtx' = wmtx /\ ctxOpen' = ctxOpen /\ evts' = evts /\ pc' = pc
      /\ round' = round /\ held' = held /\ id' = id /\ call' = call
  BY Zenon DEF KernelDone, slots, waiting, local
<1>3. /\ w \in Workers /\ kernel[c][2] \in Nat /\ kernel[c] = <<w, kernel[c][2]>>
      /\ c \notin DOMAIN events /\ c \notin DOMAIN evts /\ ctxOpen
  BY <1>2 DEF Rounded, OnePlace, Places
<1> HIDE DEF w
<1>4. DOMAIN kernel' = DOMAIN kernel \ {c} /\ \A z \in DOMAIN kernel' : kernel'[z] = kernel[z]
  <2>1. kernel' = Without(kernel, c)
    BY <1>2, Zenon
  <2> QED BY <2>1, Zenon DEF Without, Restrict
<1>5. /\ DOMAIN events' = DOMAIN events \cup {c} /\ events'[c] = r
      /\ \A z \in DOMAIN events : z # c /\ events'[z] = events[z]
  BY <1>1, <1>3, Zenon DEF With
<1>6. \A q \in Workers : fate'[q] = IF q = w /\ round[q] = kernel[c][2] THEN r ELSE fate[q]
  BY <1>1, <1>3, Zenon DEF Types
<1>7. Waiting' = Waiting /\ Ready' = Ready /\ Holding' = Holding
  BY <1>2, Zenon DEF Waiting, Ready, Holding
<1>8. \A cb, q : Carries(cb, q)' <=> Carries(cb, q)
  BY <1>2, <1>7, Zenon DEF Carries
<1>9. Types'
  <2>1. fate' \in [Workers -> {"none", "ok", "short", "error"}]
    BY <1>1, <1>3, Zenon DEF Types
  <2>2. \A cb \in DOMAIN events' : events'[cb] \in {"ok", "short", "error"}
    BY <1>5, Zenon DEF Types
  <2> QED BY <1>2, <1>4, <1>5, <2>1, <2>2, Zenon DEF Types
<1>10. Places'
  BY <1>2, <1>3, Zenon DEF Places
<1>11. OnePlace'
  BY <1>2, <1>3, <1>4, <1>5, Zenon DEF OnePlace
<1>12. Ids'
  BY <1>2, <1>7, Zenon DEF Ids, IdDone
<1>13. Rounded'
  BY <1>2, <1>4, <1>7, <1>8, Zenon DEF Rounded
<1>14. \A q \in Workers : (pc[q] = "track" \/ q \in Waiting) /\ fate'[q] # fate[q] => Carries(c, q)
  BY <1>2, <1>3, <1>6, Zenon DEF Rounded, w
<1>15. Told'
  <2>1. ASSUME NEW cb \in Slots, NEW q \in Workers, Carries(cb, q)
        PROVE  /\ cb \in DOMAIN kernel' => kernel'[cb] = <<q, round[q]>>
               /\ cb \in DOMAIN events' => events'[cb] = fate'[q]
               /\ cb \in DOMAIN evts => evts[cb] = fate'[q]
    <3>1. /\ cb \in DOMAIN kernel => kernel[cb] = <<q, round[q]>>
          /\ cb \in DOMAIN events => events[cb] = fate[q]
          /\ cb \in DOMAIN evts => evts[cb] = fate[q]
      BY <2>1, Zenon DEF Told
    <3>2. CASE cb = c
      <4>1. kernel[c][1] = q /\ kernel[c][2] = round[q]
        BY <1>2, <3>1, <3>2
      <4>2. fate'[q] = r
        BY <1>6, <4>1, Zenon DEF w
      <4> QED BY <1>3, <1>4, <1>5, <3>2, <4>2, Zenon
    <3>3. CASE cb # c
      <4>1. pc[q] = "track" \/ q \in Waiting
        BY <2>1, Zenon DEF Carries
      <4>2. fate'[q] = fate[q]
        BY <1>14, <2>1, <3>3, <4>1, OneIocb, Zenon
      <4> QED BY <1>4, <1>5, <3>1, <3>3, <4>2, Zenon
    <3> QED BY <3>2, <3>3, Zenon
  <2> QED BY <1>2, <1>8, <2>1, Zenon DEF Told
<1>16. Shares' /\ Tokens' /\ Pending' /\ Known'
  BY <1>2, <1>7 DEF Shares, Tokens, Pending, Known
<1>17. Tracked'
  BY <1>2, <1>4, <1>5, Zenon DEF Tracked
<1>18. OwnResult'
  <2>1. ASSUME NEW q \in Waiting, IdDone(q) PROVE fate'[q] = fate[q]
    <3>1. q \in Workers
      BY Zenon DEF Waiting
    <3> QED BY <1>14, <2>1, <3>1, CarriedIsPending, Zenon
  <2> QED BY <1>2, <1>7, <2>1, Zenon DEF OwnResult, IdDone
<1> QED BY <1>9, <1>10, <1>11, <1>12, <1>13, <1>15, <1>16, <1>17, <1>18, Zenon DEF IInv

(* The waiter acknowledges its request, which was done, and nobody else's. *)
LEMMA AckStep == ASSUME IInv, NEW p \in Workers, Ack(p) PROVE IInv'
<1>0. /\ Types /\ Places /\ OnePlace /\ Ids /\ Rounded /\ Told
      /\ Shares /\ Tokens /\ Tracked /\ Pending /\ Known /\ OwnResult
  BY Zenon DEF IInv
<1> USE <1>0
<1>1. /\ pc[p] = "ack" /\ pc' = [pc EXCEPT ![p] = "idle"] /\ id' = [id EXCEPT ![p] = 0]
      /\ call' = [call EXCEPT ![p] = "WaitFor"] /\ requests' = Without(requests, id[p])
      /\ sem' = sem /\ avail' = avail /\ active' = active /\ reqId' = reqId
      /\ dmtx' = dmtx /\ wmtx' = wmtx /\ ctxOpen' = ctxOpen /\ kernel' = kernel /\ events' = events
      /\ evts' = evts /\ round' = round /\ held' = held /\ fate' = fate
  BY Zenon DEF Ack, Goto, Return, slots, waiting, krn
<1>2. /\ IdDone(p) /\ p \in Waiting
  BY <1>1, Zenon DEF Ids, Places, Waiting, Looking
<1>3. /\ DOMAIN requests' = DOMAIN requests \ {id[p]}
      /\ \A n \in DOMAIN requests' : requests'[n] = requests[n]
  <2>1. requests' = Without(requests, id[p])
    BY <1>1, Zenon
  <2> QED BY <2>1, Zenon DEF Without, Restrict
<1>4. \A q \in Workers : IF q = p THEN pc'[q] = "idle" /\ id'[q] = 0 /\ call'[q] = "WaitFor"
                         ELSE pc'[q] = pc[q] /\ id'[q] = id[q] /\ call'[q] = call[q]
  BY <1>1, Zenon DEF Types
<1>5. Waiting' = Waiting \ {p} /\ Ready' = Ready /\ Holding' = Holding
  <2>1. Waiting' = Waiting \ {p}
    BY <1>4, Zenon DEF Waiting
  <2>2. Ready' = Ready
    BY <1>1, <1>4, Zenon DEF Ready
  <2> QED BY <1>1, <2>1, <2>2, Zenon DEF Holding
<1>6. \A q \in Waiting' : /\ q \in Waiting /\ q \in Workers /\ id'[q] = id[q] /\ id[q] # id[p]
                          /\ id[q] \in DOMAIN requests' /\ requests'[id[q]] = requests[id[q]]
  <2> TAKE q \in Waiting'
  <2>1. q \in Waiting /\ q # p /\ q \in Workers
    BY <1>5, Zenon DEF Waiting
  <2>2. id[q] # id[p] /\ id[q] \in DOMAIN requests
    BY <1>2, <2>1, Zenon DEF Ids, Known
  <2> QED BY <1>3, <1>4, <2>1, <2>2, Zenon
<1>7. Types'
  BY <1>1, ZenonT(60) DEF Types, Submitting, Calls
<1>8. Places'
  BY <1>1, <1>4, GoAioAssumption DEF Places, Locked, Looking, Submitting
<1>9. OnePlace' /\ Tracked'
  BY <1>1, Zenon DEF OnePlace, Tracked
<1>10. Ids'
  <2>1. ASSUME NEW q \in Workers, pc'[q] = "ack" PROVE IdDone(q)'
    <3>1. q # p /\ pc[q] = "ack" /\ call[q] = "WaitFor"
      BY <1>4, <2>1, ZenonT(60) DEF Places, Looking
    <3>2. q \in Waiting' /\ IdDone(q)
      BY <1>5, <3>1, Zenon DEF Waiting, Ids
    <3> QED BY <1>6, <3>2, Zenon DEF IdDone
  <2>2. \A q, r \in Waiting' : id'[q] = id'[r] => q = r
    BY <1>6 DEF Ids
  <2>3. \A n \in DOMAIN requests' : n \in Nat /\ n <= reqId'
    BY <1>1, <1>3, Zenon DEF Ids
  <2> QED BY <1>5, <2>1, <2>2, <2>3, Zenon DEF Ids
<1>11. \A cb, q : q \in Workers =>
          /\ Carries(cb, q)' => Carries(cb, q)
          /\ Carries(cb, q) /\ (pc'[q] = "track" \/ q \in Waiting') => Carries(cb, q)'
  BY <1>1, <1>4, <1>5, <1>6, Zenon DEF Carries
<1>12. Rounded'
  <2>1. \A q \in Workers : /\ pc'[q] \in {"ready", "submit"} => pc'[q] = pc[q]
                           /\ pc'[q] = "track" \/ q \in Waiting' => pc[q] = "track" \/ q \in Waiting
    BY <1>4, <1>5, Zenon
  <2> QED BY <1>1, <1>11, <2>1, ZenonT(60) DEF Rounded
<1>13. Told'
  BY <1>1, <1>11, Zenon DEF Told
<1>14. Shares' /\ Tokens'
  BY <1>1, <1>5, Zenon DEF Shares, Tokens
<1>15. Pending'
  <2>1. {n \in DOMAIN requests' : requests'[n] = "pending"}
           = {n \in DOMAIN requests : requests[n] = "pending"}
    BY <1>2, <1>3, Zenon DEF IdDone
  <2> QED BY <1>1, <2>1, Zenon DEF Pending
<1>16. Known'
  BY <1>6, Zenon DEF Known
<1>17. OwnResult'
  BY <1>1, <1>6, Zenon DEF OwnResult, IdDone
<1> QED BY <1>7, <1>8, <1>9, <1>10, <1>12, <1>13, <1>14, <1>15, <1>16, <1>17, Zenon DEF IInv

(* io_getevents moves events to the one who verifies them.                 *)
LEMMA GetEventsStep == ASSUME IInv, NEW p \in Workers, GetEvents(p) PROVE IInv'
<1>0. /\ Types /\ Places /\ OnePlace /\ Ids /\ Rounded /\ Told
      /\ Shares /\ Tokens /\ Tracked /\ Pending /\ Known /\ OwnResult
  BY Zenon DEF IInv
<1> USE <1>0
<1>1. PICK got \in SUBSET DOMAIN events :
         evts' = Restrict(events, got) /\ events' = Restrict(events, DOMAIN events \ got)
  BY Zenon DEF GetEvents
<1>2. /\ pc[p] = "getevents" /\ pc' = [pc EXCEPT ![p] = "verify"]
      /\ sem' = sem /\ avail' = avail /\ active' = active /\ requests' = requests /\ reqId' = reqId
      /\ dmtx' = dmtx /\ wmtx' = wmtx /\ ctxOpen' = ctxOpen /\ kernel' = kernel /\ fate' = fate
      /\ round' = round /\ held' = held /\ id' = id /\ call' = call
  BY Zenon DEF GetEvents, Goto, slots, local
<1>3. /\ DOMAIN evts' = got /\ DOMAIN events' = DOMAIN events \ got
      /\ \A z \in DOMAIN evts' : z \in DOMAIN events /\ evts'[z] = events[z]
      /\ \A z \in DOMAIN events' : z \in DOMAIN events /\ events'[z] = events[z]
  BY <1>1, Zenon DEF Restrict
<1>4. \A q \in Workers : IF q = p THEN pc'[q] = "verify" ELSE pc'[q] = pc[q]
  BY <1>2, Zenon DEF Types
<1>5. Waiting' = Waiting /\ Ready' = Ready /\ Holding' = Holding
  <2>1. Waiting' = Waiting
    BY <1>2, <1>4, Zenon DEF Waiting
  <2>2. Ready' = Ready
    BY <1>2, <1>4, Zenon DEF Ready
  <2> QED BY <1>2, <2>1, <2>2, Zenon DEF Holding
<1>6. \A cb, q : q \in Workers => (Carries(cb, q)' <=> Carries(cb, q))
  BY <1>2, <1>4, <1>5, Zenon DEF Carries
<1>7. Types'
  BY <1>2, <1>3, Zenon DEF Types, Locked
<1>8. Places'
  BY <1>2, <1>3, <1>4 DEF Places, Locked, Looking, Submitting
<1>9. OnePlace'
  BY <1>2, <1>3, Zenon DEF OnePlace
<1>10. Ids'
  BY <1>2, <1>4, <1>5, Zenon DEF Ids, IdDone
<1>11. Rounded'
  BY <1>2, <1>4, <1>5, <1>6 DEF Rounded
<1>12. Told'
  BY <1>2, <1>3, <1>6, Zenon DEF Told
<1>13. Shares' /\ Tokens' /\ Pending' /\ Known'
  BY <1>2, <1>5 DEF Shares, Tokens, Pending, Known
<1>14. Tracked'
  BY <1>2, <1>3, Zenon DEF Tracked
<1>15. OwnResult'
  BY <1>2, <1>5, Zenon DEF OwnResult, IdDone
<1> QED BY <1>7, <1>8, <1>9, <1>10, <1>11, <1>12, <1>13, <1>14, <1>15, Zenon DEF IInv

----------------------------------------------------------------------------
(* Close, and the start                                                    *)

(* When nobody is inside, what is still active gets its token back.        *)
LEMMA CloseStep == ASSUME IInv, Close PROVE IInv'
<1>0. /\ Types /\ Places /\ OnePlace /\ Ids /\ Rounded /\ Told
      /\ Shares /\ Tokens /\ Tracked /\ Pending /\ Known /\ OwnResult
  BY Zenon DEF IInv
<1> USE <1>0
<1>1. /\ ctxOpen /\ (\A p \in Workers : pc[p] = "idle") /\ kernel = Empty
      /\ ctxOpen' = FALSE /\ events' = Empty /\ avail' = avail \cup DOMAIN active /\ active' = Empty
      /\ requests' = requests /\ reqId' = reqId /\ dmtx' = dmtx /\ wmtx' = wmtx /\ kernel' = kernel
      /\ fate' = fate /\ evts' = evts /\ pc' = pc /\ round' = round /\ held' = held /\ id' = id
      /\ call' = call
  BY Zenon DEF Close, waiting, local
<1>2. /\ DOMAIN kernel' = {} /\ DOMAIN events' = {} /\ DOMAIN active' = {}
  BY <1>1, Zenon DEF Empty
<1>3. DOMAIN evts' = {}
  BY <1>1, Zenon DEF Places
<1>4. Waiting = {} /\ Waiting' = {} /\ Ready = {} /\ Ready' = {} /\ Holding = {} /\ Holding' = {}
  BY <1>1, Zenon DEF Waiting, Ready, Holding, Places
<1>5. avail' = Slots /\ avail \cap DOMAIN active = {} /\ DOMAIN active \subseteq Slots
  BY <1>1, <1>4 DEF Shares, Types
<1>6. sem' = Cardinality(Slots) /\ Cardinality(Slots) \in Nat
  <2>1. /\ IsFiniteSet(avail) /\ IsFiniteSet(DOMAIN active) /\ IsFiniteSet(Slots)
        /\ avail \cup DOMAIN active = Slots
    BY <1>1, <1>5, Counts, GoAioAssumption, FS_Subset, Zenon
  <2>2. /\ Cardinality(avail) \in Nat /\ Cardinality(DOMAIN active) \in Nat
        /\ Cardinality(Slots) \in Nat
    BY <2>1, FS_CardinalityType, Zenon
  <2>3. Cardinality(Slots) = Cardinality(avail) + Cardinality(DOMAIN active)
    <3>1. Cardinality(avail \cup DOMAIN active)
            = Cardinality(avail) + Cardinality(DOMAIN active) - Cardinality(avail \cap DOMAIN active)
      BY <2>1, FS_Union, Zenon
    <3>2. Cardinality(avail \cap DOMAIN active) = 0
      BY <1>5, FS_EmptySet, Zenon
    <3>3. Cardinality(Slots) = Cardinality(avail \cup DOMAIN active)
      BY <2>1, Zenon
    <3> QED BY <2>2, <3>1, <3>2, <3>3
  <2>4. sem = Cardinality(avail)
    <3>1. Cardinality(Ready) = 0
      BY <1>4, FS_EmptySet, Zenon
    <3> QED BY <3>1, Counts
  <2>5. sem' = IF sem + Cardinality(DOMAIN active) < QueueDepth
               THEN sem + Cardinality(DOMAIN active) ELSE QueueDepth
    BY Zenon DEF Close
  <2> QED BY <2>2, <2>3, <2>4, <2>5, Zenon DEF QueueDepth
<1>7. Types'
  BY <1>1, <1>2, <1>3, <1>5, <1>6, Zenon DEF Types
<1>8. Places'
  BY <1>1, <1>2, <1>3, Zenon DEF Places
<1>9. OnePlace' /\ Rounded' /\ Told' /\ Tracked'
  BY <1>2, <1>3, Zenon DEF OnePlace, Rounded, Told, Tracked
<1>10. Ids'
  <2>1. IsFiniteSet(Ready')
    BY <1>4, FS_EmptySet, Zenon
  <2> QED BY <1>1, <1>4, <2>1, Zenon DEF Ids
<1>11. Shares'
  BY <1>2, <1>4, <1>5, Zenon DEF Shares
<1>12. Tokens'
  <2>1. Cardinality(Ready') = 0
    BY <1>4, FS_EmptySet, Zenon
  <2> QED BY <1>5, <1>6, <2>1 DEF Tokens
<1>13. Pending' /\ Known' /\ OwnResult'
  BY <1>1, <1>2, <1>4, Zenon DEF Pending, Known, OwnResult
<1> QED BY <1>7, <1>8, <1>9, <1>10, <1>11, <1>12, <1>13, Zenon DEF IInv

(* At the start everything is available and nobody has called.             *)
LEMMA InitInv == ASSUME Init PROVE IInv
<1>1. /\ DOMAIN active = {} /\ DOMAIN requests = {} /\ DOMAIN kernel = {} /\ DOMAIN events = {}
      /\ DOMAIN evts = {} /\ Range(active) = {}
  BY Zenon DEF Init, Empty, Range
<1>2. Waiting = {} /\ Ready = {} /\ Holding = {}
  BY Zenon DEF Init, Waiting, Ready, Holding
<1>3. Cardinality(Slots) \in Nat /\ IsFiniteSet(Ready) /\ Cardinality(Ready) = 0
  BY <1>2, GoAioAssumption, FS_CardinalityType, FS_EmptySet, Zenon
<1>4. Types
  BY <1>1, <1>3, Zenon DEF Init, Types, QueueDepth, Submitting, Calls
<1>5. Places
  BY <1>1, GoAioAssumption, Zenon DEF Init, Places, Locked, Looking, Submitting
<1>6. OnePlace /\ Rounded /\ Told /\ Tracked
  BY <1>1, Zenon DEF OnePlace, Rounded, Told, Tracked
<1>7. Ids
  BY <1>1, <1>2, <1>3, Zenon DEF Init, Ids
<1>8. Shares /\ Tokens
  BY <1>1, <1>2, <1>3 DEF Init, Shares, Tokens, QueueDepth
<1>9. Pending /\ Known /\ OwnResult
  BY <1>1, <1>2, Zenon DEF Pending, Known, OwnResult
<1> QED BY <1>4, <1>5, <1>6, <1>7, <1>8, <1>9, Zenon DEF IInv

(* A step that changes nothing.                                            *)
LEMMA StutterStep == ASSUME IInv, UNCHANGED vars PROVE IInv'
<1>1. /\ sem' = sem /\ avail' = avail /\ active' = active /\ requests' = requests /\ reqId' = reqId
      /\ dmtx' = dmtx /\ wmtx' = wmtx /\ ctxOpen' = ctxOpen /\ kernel' = kernel /\ events' = events
      /\ evts' = evts /\ pc' = pc /\ round' = round /\ held' = held /\ id' = id /\ call' = call
      /\ fate' = fate
  BY Zenon DEF vars
<1>2. Waiting' = Waiting /\ Ready' = Ready /\ Holding' = Holding
  BY <1>1, Zenon DEF Waiting, Ready, Holding
<1>3. /\ Types /\ Places /\ OnePlace /\ Ids /\ Rounded /\ Told
      /\ Shares /\ Tokens /\ Tracked /\ Pending /\ Known /\ OwnResult
  BY Zenon DEF IInv
<1>4. Types'
  BY <1>1, <1>3, Zenon DEF Types
<1>5. Places'
  BY <1>1, <1>3, Zenon DEF Places
<1>6. OnePlace' /\ Ids'
  BY <1>1, <1>2, <1>3, Zenon DEF OnePlace, Ids, IdDone
<1>7. Rounded' /\ Told'
  <2>1. \A cb, q : Carries(cb, q)' <=> Carries(cb, q)
    BY <1>1, <1>2, Zenon DEF Carries
  <2> QED BY <1>1, <1>2, <1>3, <2>1, Zenon DEF Rounded, Told
<1>8. Shares' /\ Tokens' /\ Tracked'
  BY <1>1, <1>2, <1>3, Zenon DEF Shares, Tokens, Tracked
<1>9. Pending' /\ Known' /\ OwnResult'
  BY <1>1, <1>2, <1>3, Zenon DEF Pending, Known, OwnResult, IdDone
<1> QED BY <1>4, <1>5, <1>6, <1>7, <1>8, <1>9, Zenon DEF IInv

----------------------------------------------------------------------------
(* Steps before io_submit                                                  *)

(* What is in the kernel stays in its round if no round goes back and the  *)
(* workers of the present rounds keep their iocbs.                         *)
LEMMA RoundedKept ==
    ASSUME Rounded,
           \A cb \in DOMAIN kernel' : cb \in DOMAIN kernel /\ kernel'[cb] = kernel[cb],
           \A q \in Workers :
              /\ round[q] \in Nat /\ round'[q] \in Nat /\ round'[q] >= round[q]
              /\ round'[q] = round[q] =>
                    /\ pc'[q] \in {"ready", "submit"} => pc[q] \in {"ready", "submit"}
                    /\ pc'[q] = "track" \/ q \in Waiting' => pc[q] = "track" \/ q \in Waiting
                    /\ pc'[q] = "track" \/ q \in Waiting' =>
                          \A cb : Carries(cb, q) => Carries(cb, q)'
    PROVE  Rounded'
<1>1. \A cb \in DOMAIN kernel' : kernel'[cb] \in Workers \X Nat
  BY Zenon DEF Rounded
<1>2. ASSUME NEW cb \in DOMAIN kernel', NEW q \in Workers, kernel'[cb][1] = q
      PROVE  /\ kernel'[cb][2] <= round'[q]
             /\ kernel'[cb][2] = round'[q] =>
                   /\ pc'[q] \notin {"ready", "submit"}
                   /\ pc'[q] = "track" \/ q \in Waiting' => Carries(cb, q)'
  <2>1. /\ kernel[cb][2] <= round[q] /\ kernel[cb][2] \in Nat
        /\ kernel[cb][2] = round[q] =>
              /\ pc[q] \notin {"ready", "submit"}
              /\ pc[q] = "track" \/ q \in Waiting => Carries(cb, q)
    BY <1>1, <1>2, Zenon DEF Rounded
  <2>2. /\ kernel[cb][2] <= round'[q]
        /\ kernel[cb][2] = round'[q] => round'[q] = round[q] /\ kernel[cb][2] = round[q]
    BY <2>1
  <2> QED BY <2>1, <2>2, Zenon
<1> QED BY <1>1, <1>2, Zenon DEF Rounded

(* Before io_submit a worker deals with avail and slotSem only, which are  *)
(* left to each step.                                                      *)
LEMMA PrepareStep ==
    ASSUME IInv, NEW p \in Workers,
           UNCHANGED <<active, requests, reqId, dmtx, kernel, events, evts, ctxOpen>>,
           Types', Places', Shares', Tokens', IsFiniteSet(Ready'),
           \A q \in Workers : q # p => /\ pc'[q] = pc[q] /\ call'[q] = call[q]
                                       /\ id'[q] = id[q] /\ round'[q] = round[q]
                                       /\ held'[q] = held[q] /\ fate'[q] = fate[q],
           pc[p] \in {"idle", "ready", "submit"}, pc'[p] \in {"idle", "ready", "submit"},
           round'[p] >= round[p],
           pc[p] = "idle" => round'[p] > round[p]
    PROVE  IInv'
<1>0. /\ Types /\ Places /\ OnePlace /\ Ids /\ Rounded /\ Told
      /\ Shares /\ Tokens /\ Tracked /\ Pending /\ Known /\ OwnResult
  BY Zenon DEF IInv
<1> USE <1>0
<1>1. /\ active' = active /\ requests' = requests /\ reqId' = reqId /\ dmtx' = dmtx
      /\ kernel' = kernel /\ events' = events /\ evts' = evts /\ ctxOpen' = ctxOpen
  BY Zenon
<1>2. /\ Waiting' = Waiting /\ p \notin Waiting
      /\ \A q \in Waiting : q \in Workers /\ id'[q] = id[q] /\ round'[q] = round[q] /\ fate'[q] = fate[q]
  BY Zenon DEF Waiting
<1>3. \A cb, q : q \in Workers => (Carries(cb, q)' <=> Carries(cb, q)) /\ (Carries(cb, q) => q # p)
  BY <1>1, <1>2, Zenon DEF Carries
<1>4. OnePlace'
  BY <1>1, Zenon DEF OnePlace
<1>5. Ids'
  <2>1. \A q \in Workers : pc'[q] = "ack" => IdDone(q)'
    BY <1>1, ZenonT(60) DEF Ids, IdDone
  <2> QED BY <1>1, <1>2, <2>1 DEF Ids
<1>6. Rounded'
  <2>1. \A q \in Workers : /\ round[q] \in Nat /\ round'[q] \in Nat /\ round'[q] >= round[q]
                           /\ round'[q] = round[q] /\ pc'[q] \in {"ready", "submit"} =>
                                 pc[q] \in {"ready", "submit"}
                           /\ pc'[q] = "track" => pc[q] = "track"
    <3>1. \A q \in Workers : round[q] \in Nat /\ round'[q] \in Nat
      BY Zenon DEF Types
    <3> QED BY <3>1
  <2> QED BY <1>1, <1>2, <1>3, <2>1, RoundedKept, Zenon
<1>7. Told'
  <2>1. \A cb, q : q \in Workers /\ Carries(cb, q)' =>
           Carries(cb, q) /\ round'[q] = round[q] /\ fate'[q] = fate[q]
    BY <1>3, Zenon
  <2> QED BY <1>1, <2>1 DEF Told
<1>8. Tracked'
  <2>1. \A q \in Workers : dmtx = q => held'[q] = held[q]
    BY SMTT(30) DEF Places
  <2> QED BY <1>1, <2>1, SMTT(30) DEF Tracked
<1>9. Pending'
  BY <1>1 DEF Pending
<1>10. Known'
  BY <1>1, <1>2, Zenon DEF Known
<1>11. OwnResult'
  BY <1>1, <1>2 DEF OwnResult, IdDone
<1> QED BY <1>4, <1>5, <1>6, <1>7, <1>8, <1>9, <1>10, <1>11, Zenon DEF IInv

(* A token leaves slotSem and counts for the worker that has it.           *)
LEMMA TakeTokenStep == ASSUME IInv, NEW p \in Workers, TakeToken(p) PROVE IInv'
<1>0. Types /\ Places /\ Shares /\ Tokens /\ Ids
  BY Zenon DEF IInv
<1> USE <1>0
<1>1. /\ pc[p] = "idle" /\ ctxOpen /\ sem > 0 /\ sem' = sem - 1
      /\ pc' = [pc EXCEPT ![p] = "ready"] /\ round' = [round EXCEPT ![p] = @ + 1]
      /\ fate' = [fate EXCEPT ![p] = "none"]
      /\ avail' = avail /\ active' = active /\ requests' = requests /\ reqId' = reqId
      /\ dmtx' = dmtx /\ wmtx' = wmtx /\ ctxOpen' = ctxOpen /\ kernel' = kernel /\ events' = events
      /\ evts' = evts /\ held' = held /\ id' = id /\ call' = call
  BY Zenon DEF TakeToken, Goto, waiting
<1>2. Types'
  BY <1>1, SMTT(30) DEF Types, Submitting
<1>3. Places'
  BY <1>1 DEF Types, Places, Locked, Looking, Submitting
<1>4. Ready' = Ready \cup {p} /\ p \notin Ready
  BY <1>1, Zenon DEF Types, Ready
<1>5. IsFiniteSet(Ready') /\ Cardinality(Ready') = Cardinality(Ready) + 1
  BY <1>4, Counts, FS_AddElement, Zenon
<1>6. Tokens'
  BY <1>1, <1>5, Counts DEF Tokens
<1>7. Shares'
  BY <1>1, Zenon DEF Shares, Holding
<1>8. \A q \in Workers : q # p => /\ pc'[q] = pc[q] /\ call'[q] = call[q]
                                  /\ id'[q] = id[q] /\ round'[q] = round[q]
                                  /\ held'[q] = held[q] /\ fate'[q] = fate[q]
  BY <1>1, Zenon DEF Types
<1>9. pc'[p] = "ready" /\ round'[p] > round[p] /\ round'[p] >= round[p]
  BY <1>1 DEF Types
<1> QED BY <1>1, <1>2, <1>3, <1>5, <1>6, <1>7, <1>8, <1>9, PrepareStep, Zenon

(* A worker with a token finds an iocb.                                    *)
LEMMA GetNextReadyStep == ASSUME IInv, NEW p \in Workers, GetNextReady(p) PROVE IInv'
<1>0. Types /\ Places /\ Shares /\ Tokens /\ Ids
  BY Zenon DEF IInv
<1> USE <1>0
<1>1. p \in Ready
  BY Zenon DEF GetNextReady, Ready
<1>2. /\ IsFiniteSet(Ready \ {p}) /\ Cardinality(Ready \ {p}) = Cardinality(Ready) - 1
      /\ Cardinality(Ready \ {p}) \in Nat
  BY <1>1, Counts, FS_RemoveElement, FS_CardinalityType, Zenon
<1>3. avail # {}
  BY <1>2, Counts, FS_EmptySet
<1>4. PICK cb \in avail : avail' = avail \ {cb} /\ held' = [held EXCEPT ![p] = cb]
                          /\ Goto(p, "submit") /\ UNCHANGED <<sem, id, call>>
  BY <1>3, Zenon DEF GetNextReady
<1>5. /\ pc[p] = "ready" /\ pc' = [pc EXCEPT ![p] = "submit"] /\ sem' = sem /\ id' = id /\ call' = call
      /\ active' = active /\ requests' = requests /\ reqId' = reqId
      /\ dmtx' = dmtx /\ wmtx' = wmtx /\ ctxOpen' = ctxOpen /\ kernel' = kernel /\ events' = events
      /\ evts' = evts /\ round' = round /\ fate' = fate
  BY <1>4, Zenon DEF GetNextReady, Goto, waiting, krn
<1>6. Types'
  BY <1>4, <1>5, ZenonT(60) DEF Types, Submitting
<1>7. Places'
  BY <1>4, <1>5, GoAioAssumption DEF Types, Places, Locked, Looking, Submitting
<1>8. Ready' = Ready \ {p}
  BY <1>5, Zenon DEF Types, Ready
<1>9. Cardinality(avail') = Cardinality(avail) - 1
  BY <1>4, Counts, FS_RemoveElement, Zenon
<1>10. Tokens' /\ IsFiniteSet(Ready')
  BY <1>2, <1>5, <1>8, <1>9, Counts DEF Tokens
<1>11. Shares'
  <2>1. held[p] = Free
    BY <1>5, Zenon DEF Places
  <2>2. cb \in Slots /\ cb # Free
    BY GoAioAssumption, Zenon DEF Types
  <2>3. Holding' = Holding \cup {p} /\ p \notin Holding
    BY <1>4, <2>1, <2>2, Zenon DEF Holding, Types
  <2>4. held'[p] = cb /\ \A q \in Holding : held'[q] = held[q]
    BY <1>4, <2>3, Zenon DEF Types, Holding
  <2>5. {held'[q] : q \in Holding'} = {held[q] : q \in Holding} \cup {cb}
    BY <2>3, <2>4, Zenon
  <2>6. avail' \cup DOMAIN active' \cup {held'[q] : q \in Holding'} = Slots
    BY <1>4, <1>5, <2>5, ZenonT(60) DEF Shares
  <2>7. \A q \in Holding' : held'[q] \notin avail' \cup DOMAIN active'
    <3>1. cb \notin avail' \cup DOMAIN active'
      BY <1>4, <1>5, Zenon DEF Shares
    <3>2. \A q \in Holding : held[q] \notin avail' \cup DOMAIN active'
      BY <1>4, <1>5, Zenon DEF Shares
    <3> QED BY <2>3, <2>4, <3>1, <3>2, Zenon
  <2>8. \A q, r \in Holding' : held'[q] = held'[r] => q = r
    <3>1. \A q \in Holding : held[q] # cb
      BY <1>4, Zenon DEF Shares
    <3>2. \A q, r \in Holding : held[q] = held[r] => q = r
      BY Zenon DEF Shares
    <3> QED BY <2>3, <2>4, <3>1, <3>2, Zenon
  <2>9. avail' \cap DOMAIN active' = {}
    BY <1>4, <1>5, Zenon DEF Shares
  <2> QED BY <2>6, <2>7, <2>8, <2>9, Zenon DEF Shares
<1>12. \A q \in Workers : q # p => /\ pc'[q] = pc[q] /\ call'[q] = call[q]
                                  /\ id'[q] = id[q] /\ round'[q] = round[q]
                                  /\ held'[q] = held[q] /\ fate'[q] = fate[q]
  BY <1>4, <1>5, Zenon DEF Types
<1>13. pc'[p] = "submit" /\ round'[p] >= round[p]
  BY <1>5 DEF Types
<1> QED BY <1>5, <1>6, <1>7, <1>10, <1>11, <1>12, <1>13, PrepareStep, Zenon

(* A refused request gives iocb and token back.                            *)
LEMMA SubmitErrorStep == ASSUME IInv, NEW p \in Workers, SubmitError(p) PROVE IInv'
<1>0. Types /\ Places /\ Shares /\ Tokens /\ Ids
  BY Zenon DEF IInv
<1> USE <1>0
<1>1. /\ pc[p] = "submit" /\ pc' = [pc EXCEPT ![p] = "idle"] /\ id' = [id EXCEPT ![p] = 0]
      /\ call' = [call EXCEPT ![p] = "WaitFor"] /\ held' = [held EXCEPT ![p] = Free]
      /\ avail' = avail \cup {held[p]} /\ sem' = Released(sem)
      /\ active' = active /\ requests' = requests /\ reqId' = reqId
      /\ dmtx' = dmtx /\ wmtx' = wmtx /\ ctxOpen' = ctxOpen /\ kernel' = kernel /\ events' = events
      /\ evts' = evts /\ round' = round /\ fate' = fate
  BY Zenon DEF SubmitError, Goto, Return, waiting, krn
<1>2. p \in Holding /\ held[p] \in Slots \ avail
  BY <1>1, ZenonT(60) DEF Types, Places, Shares, Holding
<1>3. sem' = sem + 1 /\ Cardinality(avail') = Cardinality(avail) + 1
  BY <1>1, <1>2, GiveBack, Zenon
<1>4. Types'
  <2>1. sem \in Nat /\ held[p] \in Slots
    BY <1>2, Zenon DEF Types
  <2>2. sem' \in Nat
    BY <1>3, <2>1
  <2> QED BY <1>1, <2>1, <2>2, ZenonT(60) DEF Types, Submitting, Calls
<1>5. Places'
  BY <1>1, GoAioAssumption, SMTT(30) DEF Types, Places, Locked, Looking, Submitting
<1>6. Ready' = Ready
  BY <1>1, Zenon DEF Types, Ready
<1>7. Tokens' /\ IsFiniteSet(Ready')
  BY <1>3, <1>6, Counts DEF Tokens
<1>8. Shares'
  <2>1. Holding' = Holding \ {p} /\ \A q \in Holding' : held'[q] = held[q]
    BY <1>1, <1>2, Zenon DEF Holding, Types
  <2>2. {held[q] : q \in Holding} = {held'[q] : q \in Holding'} \cup {held[p]}
    BY <1>2, <2>1, Zenon
  <2>3. avail' \cup DOMAIN active' \cup {held'[q] : q \in Holding'} = Slots
    BY <1>1, <2>2, Zenon DEF Shares
  <2>4. \A q \in Holding' : held'[q] \notin avail' \cup DOMAIN active'
    BY <1>1, <1>2, <2>1 DEF Shares
  <2>5. \A q, r \in Holding' : held'[q] = held'[r] => q = r
    BY <2>1, Zenon DEF Shares
  <2>6. avail' \cap DOMAIN active' = {}
    BY <1>1, <1>2, Zenon DEF Shares
  <2> QED BY <2>3, <2>4, <2>5, <2>6, Zenon DEF Shares
<1>9. \A q \in Workers : q # p => /\ pc'[q] = pc[q] /\ call'[q] = call[q]
                                  /\ id'[q] = id[q] /\ round'[q] = round[q]
                                  /\ held'[q] = held[q] /\ fate'[q] = fate[q]
  BY <1>1, Zenon DEF Types
<1>10. pc'[p] = "idle" /\ round'[p] >= round[p]
  BY <1>1 DEF Types
<1> QED BY <1>1, <1>4, <1>5, <1>7, <1>8, <1>9, <1>10, PrepareStep, Zenon

----------------------------------------------------------------------------
(* Steps that touch no book                                                *)

(* A step that moves one worker between places where it has neither token  *)
(* nor iocb nor an event to verify, and touches no book.                   *)
Moves(p, l, c, i, k) ==
    /\ UNCHANGED <<sem, avail, active, requests, reqId, dmtx, kernel, events, evts,
                   fate, ctxOpen, held>>
    /\ pc' = [pc EXCEPT ![p] = l] /\ call' = [call EXCEPT ![p] = c]
    /\ id' = [id EXCEPT ![p] = i] /\ round' = [round EXCEPT ![p] = k]
    /\ \/ wmtx' = wmtx /\ (l \in Locked <=> pc[p] \in Locked)
       \/ wmtx \in {p, Free} /\ wmtx' = p /\ l \in Locked
       \/ wmtx = p /\ wmtx' = Free /\ l \notin Locked
    /\ ctxOpen /\ pc[p] \notin {"ready", "submit", "track", "verify"}
    /\ l \in (Locked \cup Looking \cup {"idle", "reap"}) \ {"verify"}
    /\ c \in Calls /\ i \in Nat /\ k \in Nat /\ k >= round[p]
    /\ l \in Looking \cup {"idle"} => c = "WaitFor"
    /\ l \in {"reap", "all"} => c # "WaitFor"
    /\ l # "idle" /\ c = "WaitFor" => p \in Waiting /\ i = id[p] /\ k = round[p]
    /\ l = "ack" => IdDone(p)

(* It keeps the books and the results.                                     *)
LEMMA MoveStep ==
    ASSUME IInv, NEW p \in Workers, NEW l, NEW c, NEW i, NEW k, Moves(p, l, c, i, k)
    PROVE  IInv'
<1>0. /\ Types /\ Places /\ OnePlace /\ Ids /\ Rounded /\ Told
      /\ Shares /\ Tokens /\ Tracked /\ Pending /\ Known /\ OwnResult
  BY Zenon DEF IInv
<1> USE <1>0
<1>1. /\ sem' = sem /\ avail' = avail /\ active' = active /\ requests' = requests
      /\ reqId' = reqId /\ dmtx' = dmtx /\ kernel' = kernel /\ events' = events
      /\ evts' = evts /\ fate' = fate /\ ctxOpen' = ctxOpen /\ held' = held
  BY Zenon DEF Moves
<1>2. /\ l \notin {"ready", "submit", "track", "verify"}
      /\ pc[p] \notin {"ready", "submit", "track", "verify"} /\ ctxOpen
  BY Zenon DEF Moves, Locked, Looking
<1>3. /\ l \in Looking \cup {"idle"} => c = "WaitFor"
      /\ l \in {"reap", "all"} => c # "WaitFor"
      /\ l # "idle" /\ c = "WaitFor" => p \in Waiting /\ i = id[p] /\ k = round[p]
      /\ l = "ack" => IdDone(p)
  BY Zenon DEF Moves
<1>4. \A q \in Workers : IF q = p THEN pc'[q] = l /\ call'[q] = c /\ id'[q] = i /\ round'[q] = k
                          ELSE /\ pc'[q] = pc[q] /\ call'[q] = call[q]
                               /\ id'[q] = id[q] /\ round'[q] = round[q]
  BY Zenon DEF Moves, Types
<1>5. Types'
  <2>1. /\ pc' \in [Workers -> Locked \cup Looking \cup Submitting \cup {"reap"}]
        /\ round' \in [Workers -> Nat] /\ id' \in [Workers -> Nat] /\ call' \in [Workers -> Calls]
        /\ wmtx' \in Workers \cup {Free}
    BY Zenon DEF Moves, Types, Submitting
  <2> QED BY <1>1, <2>1, Zenon DEF Types
<1>6. Places'
  <2>1. \A q \in Workers : wmtx' = q <=> pc'[q] \in Locked
    <3>1. \A q \in Workers : wmtx = q <=> pc[q] \in Locked
      BY Zenon DEF Places
    <3>2. \/ wmtx' = wmtx /\ (l \in Locked <=> pc[p] \in Locked)
          \/ wmtx \in {p, Free} /\ wmtx' = p /\ l \in Locked
          \/ wmtx = p /\ wmtx' = Free /\ l \notin Locked
      BY Zenon DEF Moves
    <3>3. ASSUME NEW q \in Workers PROVE wmtx' = q <=> pc'[q] \in Locked
      <4>1. Free \notin Workers
        BY GoAioAssumption, Zenon
      <4>2. CASE q = p
        BY <1>4, <3>1, <3>2, <4>1, <4>2, ZenonT(60)
      <4>3. CASE q # p
        BY <1>4, <3>1, <3>2, <4>1, <4>3, ZenonT(60)
      <4> QED BY <4>2, <4>3, Zenon
    <3> QED BY <3>3, Zenon
  <2>2. \A q \in Workers : /\ held'[q] # Free <=> pc'[q] \in {"submit", "track"}
                           /\ dmtx' = q <=> pc'[q] = "track"
    <3>1. \A q \in Workers : /\ held[q] # Free <=> pc[q] \in {"submit", "track"}
                             /\ dmtx = q <=> pc[q] = "track"
      BY ZenonT(60) DEF Places
    <3> QED BY <1>1, <1>2, <1>4, <3>1, Zenon
  <2>3. \A q \in Workers : /\ pc'[q] \in Looking \cup Submitting => call'[q] = "WaitFor"
                           /\ pc'[q] \in {"reap", "all"} => call'[q] # "WaitFor"
    <3>1. l \in Looking \cup Submitting => l \in Looking \cup {"idle"}
      BY <1>2, Zenon DEF Submitting
    <3>2. \A q \in Workers : /\ pc[q] \in Looking \cup Submitting => call[q] = "WaitFor"
                             /\ pc[q] \in {"reap", "all"} => call[q] # "WaitFor"
      BY Zenon DEF Places
    <3>3. ASSUME NEW q \in Workers
          PROVE  /\ pc'[q] \in Looking \cup Submitting => call'[q] = "WaitFor"
                 /\ pc'[q] \in {"reap", "all"} => call'[q] # "WaitFor"
      <4>1. CASE q = p
        <5>1. pc'[q] = l /\ call'[q] = c
          BY <1>4, <4>1, Zenon
        <5>2. l \in Looking \cup Submitting => c = "WaitFor"
          BY <1>3, <3>1, Zenon
        <5>3. l \in {"reap", "all"} => c # "WaitFor"
          BY <1>3, Zenon
        <5> QED BY <5>1, <5>2, <5>3, Zenon
      <4>2. CASE q # p
        <5>1. pc'[q] = pc[q] /\ call'[q] = call[q]
          BY <1>4, <4>2, Zenon
        <5> QED BY <3>2, <5>1, ZenonT(60)
      <4> QED BY <4>1, <4>2, Zenon
    <3> QED BY <3>3, Zenon
  <2>4. DOMAIN evts' # {} => \E q \in Workers : pc'[q] = "verify"
    BY <1>1, <1>2, <1>4, Zenon DEF Places
  <2> QED BY <1>1, <1>2, <2>1, <2>2, <2>3, <2>4, ZenonT(60) DEF Places
<1>7. Ready' = Ready
  BY <1>2, <1>4, Zenon DEF Ready
<1>8. /\ Waiting' \subseteq Waiting
      /\ \A q \in Waiting' : id'[q] = id[q] /\ round'[q] = round[q]
  BY <1>3, <1>4, Zenon DEF Waiting
<1>9. Ids'
  <2>1. ASSUME NEW q \in Workers, pc'[q] = "ack" PROVE IdDone(q)'
    <3>1. q \in Waiting'
      BY <1>6, <2>1, Zenon DEF Places, Waiting, Looking
    <3>2. IdDone(q)
      BY <1>3, <1>4, <2>1, Zenon DEF Ids
    <3> QED BY <1>1, <1>8, <3>1, <3>2, Zenon DEF IdDone
  <2> QED BY <1>1, <1>7, <1>8, <2>1, Zenon DEF Ids
<1>10. \A q \in Workers : /\ pc'[q] \in {"ready", "submit", "track"} => pc'[q] = pc[q] /\ round'[q] = round[q]
                          /\ pc[q] = "track" => pc'[q] = "track"
  BY <1>2, <1>4, Zenon
<1>11. \A cb, q : q \in Workers =>
          /\ Carries(cb, q)' => Carries(cb, q) /\ round'[q] = round[q]
          /\ Carries(cb, q) /\ (pc'[q] = "track" \/ q \in Waiting') => Carries(cb, q)'
  BY <1>1, <1>8, <1>10, ZenonT(60) DEF Carries, Waiting
<1>12. Rounded'
  <2>1. \A q \in Workers : round[q] \in Nat /\ round'[q] \in Nat /\ round'[q] >= round[q]
    <3>1. k \in Nat /\ k >= round[p]
      BY Zenon DEF Moves
    <3>2. \A q \in Workers : round[q] \in Nat /\ (q = p => round'[q] = k) /\ (q # p => round'[q] = round[q])
      BY <1>4, Zenon DEF Types
    <3> QED BY <3>1, <3>2
  <2> QED BY <1>1, <1>8, <1>10, <1>11, <2>1, RoundedKept, Zenon
<1>13. Told'
  BY <1>1, <1>11, ZenonT(60) DEF Told
<1>14. OnePlace' /\ Tracked' /\ Tokens' /\ Pending'
  BY <1>1, <1>7, Zenon DEF OnePlace, Tracked, Tokens, Pending
<1>15. Shares'
  BY <1>1, ZenonT(60) DEF Shares, Holding
<1>16. Known' /\ OwnResult'
  BY <1>1, <1>8, Zenon DEF Known, OwnResult, IdDone
<1> QED BY <1>5, <1>6, <1>9, <1>12, <1>13, <1>14, <1>15, <1>16, Zenon DEF IInv

(* The looks at a request, the walk to io_getevents and the way back.      *)
LEMMA WalkStep ==
    ASSUME IInv, NEW p \in Workers,
           \/ Check(p) \/ Lock(p) \/ LockReaper(p) \/ WaitAll(p) \/ ActiveLen(p)
           \/ Interrupted(p) \/ GetEventsError(p) \/ Back(p) \/ Reap(p)
    PROVE  IInv'
<1>0. Types /\ Places
  BY Zenon DEF IInv
<1>1. /\ pc = [pc EXCEPT ![p] = pc[p]] /\ call = [call EXCEPT ![p] = call[p]]
      /\ id = [id EXCEPT ![p] = id[p]] /\ round = [round EXCEPT ![p] = round[p]]
      /\ call[p] \in Calls /\ id[p] \in Nat /\ round[p] \in Nat
  BY <1>0, Zenon DEF Types
<1>2. /\ pc[p] # "idle" => ctxOpen
      /\ pc[p] \in Locked => wmtx = p
      /\ pc[p] \in {"check", "lock"} => call[p] = "WaitFor"
      /\ pc[p] \in {"reap", "all"} => call[p] # "WaitFor"
  BY <1>0, Zenon DEF Places, Looking
<1>3. CASE Check(p)
  <2>1. Moves(p, IF IdDone(p) THEN "ack" ELSE "lock", call[p], id[p], round[p])
    BY <1>1, <1>2, <1>3 DEF Check, Moves, slots, krn, waiting, local, Goto, Locked, Looking, Waiting
  <2> QED BY <2>1, MoveStep, ZenonT(60)
<1>4. CASE Lock(p)
  <2>1. Moves(p, IF IdDone(p) THEN "ack" ELSE "wait", call[p], id[p], round[p])
    BY <1>1, <1>2, <1>4 DEF Lock, Moves, slots, krn, waiting, local, Goto, Locked, Looking, Waiting
  <2> QED BY <2>1, MoveStep, ZenonT(60)
<1>5. CASE LockReaper(p)
  <2>1. Moves(p, IF call[p] = "Flush" THEN "all" ELSE "wait", call[p], id[p], round[p])
    BY <1>1, <1>2, <1>5
      DEF LockReaper, Moves, slots, krn, waiting, local, Goto, Locked, Looking, Waiting
  <2> QED BY <2>1, MoveStep, ZenonT(60)
<1>6. CASE ActiveLen(p)
  <2>1. Moves(p, IF DOMAIN active = {} THEN "back" ELSE "getevents", call[p], id[p], round[p])
    BY <1>1, <1>2, <1>6
      DEF ActiveLen, Moves, slots, krn, waiting, local, Goto, Locked, Looking, Waiting
  <2> QED BY <2>1, MoveStep, Zenon
<1>7. CASE Interrupted(p)
  <2>1. Moves(p, "wait", call[p], id[p], round[p])
    BY <1>1, <1>2, <1>7
      DEF Interrupted, Moves, slots, krn, waiting, local, Goto, Locked, Looking, Waiting
  <2> QED BY <2>1, MoveStep, Zenon
<1>8. CASE GetEventsError(p)
  <2>1. Moves(p, "back", call[p], id[p], round[p])
    BY <1>1, <1>2, <1>8 DEF GetEventsError, Moves, slots, krn, waiting, local, Goto, Locked, Looking, Waiting
  <2> QED BY <2>1, MoveStep, Zenon
<1>9. CASE WaitAll(p)
  <2>1. CASE DOMAIN active = {}
    <3>1. Moves(p, "idle", "WaitFor", 0, round[p])
      BY <1>1, <1>2, <1>9, <2>1, SMTT(30)
        DEF WaitAll, Moves, slots, krn, waiting, Goto, Return, Locked, Looking, Calls
    <3> QED BY <3>1, MoveStep, Zenon
  <2>2. CASE DOMAIN active # {}
    <3>1. Moves(p, "wait", call[p], id[p], round[p])
      BY <1>1, <1>2, <1>9, <2>2 DEF WaitAll, Moves, slots, krn, waiting, Goto, Locked, Looking
    <3> QED BY <3>1, MoveStep, Zenon
  <2> QED BY <2>1, <2>2, Zenon
<1>10. CASE Back(p)
  <2>1. CASE waitErr \/ call[p] \notin {"WaitFor", "Flush"}
    <3>1. Moves(p, "idle", "WaitFor", 0, round[p])
      BY <1>1, <1>2, <1>10, <2>1 DEF Back, Moves, slots, krn, Goto, Return, Locked, Looking, Calls
    <3> QED BY <3>1, MoveStep, Zenon
  <2>2. CASE ~ waitErr /\ call[p] \in {"WaitFor", "Flush"}
    <3>1. Moves(p, IF call[p] = "Flush" THEN "all" ELSE "check", call[p], id[p], round[p])
      BY <1>1, <1>2, <1>10, <2>2 DEF Back, Moves, slots, krn, Goto, Locked, Looking, Waiting
    <3> QED BY <3>1, MoveStep, ZenonT(60)
  <2> QED BY <2>1, <2>2, ZenonT(60)
<1>11. CASE Reap(p)
  <2>1. /\ pc[p] = "idle" /\ ctxOpen /\ round[p] + 1 >= round[p]
        /\ round' = [round EXCEPT ![p] = round[p] + 1]
        /\ UNCHANGED <<sem, avail, active, requests, reqId, dmtx, wmtx, kernel, events, evts,
                       fate, ctxOpen, held>>
    BY <1>1, <1>11 DEF Reap, slots, krn, waiting
  <2>2. CASE Return(p)
    <3>1. Moves(p, "idle", "WaitFor", 0, round[p] + 1)
      BY <1>1, <2>1, <2>2 DEF Moves, Goto, Return, Locked, Looking, Calls
    <3> QED BY <3>1, MoveStep, Zenon
  <2>3. CASE \E c \in {"WaitAny", "Wait", "Flush"} :
               call' = [call EXCEPT ![p] = c] /\ Goto(p, "reap") /\ UNCHANGED id
    <3>1. PICK c \in {"WaitAny", "Wait", "Flush"} :
               call' = [call EXCEPT ![p] = c] /\ Goto(p, "reap") /\ UNCHANGED id
      BY <2>3, Zenon
    <3>2. Moves(p, "reap", c, id[p], round[p] + 1)
      BY <1>1, <2>1, <3>1 DEF Moves, Goto, Locked, Looking, Calls
    <3> QED BY <3>2, MoveStep, Zenon
  <2> QED BY <1>11, <2>2, <2>3, ZenonT(60) DEF Reap
<1> QED BY <1>3, <1>4, <1>5, <1>6, <1>7, <1>8, <1>9, <1>10, <1>11, Zenon

----------------------------------------------------------------------------
(* The theorems                                                            *)

(* The books of goaio are kept by every step.                              *)
THEOREM GoAioInvariant == Spec => []IInv
<1>1. Init => IInv
  BY InitInv, Zenon
<1>2. IInv /\ [Next]_vars => IInv'
  <2> SUFFICES ASSUME IInv, [Next]_vars PROVE IInv'
    BY Zenon
  <2>1. ASSUME NEW p \in Workers, Submit(p) PROVE IInv'
    BY <2>1, TakeTokenStep, GetNextReadyStep, SubmitOkStep, SubmitErrorStep, TrackStep, Zenon
      DEF Submit
  <2>2. ASSUME NEW p \in Workers, WaitFor(p) PROVE IInv'
    BY <2>2, WalkStep, AckStep, Zenon DEF WaitFor
  <2>3. ASSUME NEW p \in Workers, Wait(p) PROVE IInv'
    BY <2>3, WalkStep, VerifyResultStep, Zenon DEF Wait
  <2>4. ASSUME NEW p \in Workers, GetEvents(p) \/ Interrupted(p) \/ GetEventsError(p) PROVE IInv'
    BY <2>4, WalkStep, GetEventsStep, Zenon
  <2>5. ASSUME NEW cb \in Slots, KernelDone(cb) PROVE IInv'
    BY <2>5, KernelDoneStep, Zenon
  <2>6. CASE Close
    BY <2>6, CloseStep, Zenon
  <2>7. CASE UNCHANGED vars
    BY <2>7, StutterStep, Zenon
  <2> QED BY <2>1, <2>2, <2>3, <2>4, <2>5, <2>6, <2>7, Zenon DEF Next
<1> QED BY <1>1, <1>2, PTL DEF Spec

(* BooksAgree: avail, slotSem, active and requests tell the same story     *)
(* whoever reaps whose event and whatever fails, so a token always finds   *)
(* an iocb and a request that is waited for is never forgotten.            *)
THEOREM BooksAlwaysAgree == Spec => []BooksAgree
<1>1. IInv => BooksAgree
  BY Zenon DEF IInv, Shares, Tokens, Tracked, Pending, Known, Ready, BooksAgree
<1> QED BY <1>1, GoAioInvariant, PTL

(* OwnResult: WaitFor hands out what the kernel did with the request of    *)
(* its caller, whoever filed it.                                           *)
THEOREM ResultsAreOwn == Spec => []OwnResult
<1>1. IInv => OwnResult
  BY Zenon DEF IInv
<1> QED BY <1>1, GoAioInvariant, PTL

=============================================================================

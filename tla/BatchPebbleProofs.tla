-------------------------- MODULE BatchPebbleProofs --------------------------
(***************************************************************************)
(* The safety properties of BatchPebble for any set of callers and keys,   *)
(* any batch and channel size: what the processor commits is whole, what   *)
(* it answers is true of the database, a consumer that looks before it     *)
(* writes never overwrites, and nothing is committed to a closed database. *)
(* And those of WriteBatch, the batch that the typed handlers of a flush   *)
(* fill.                                                                   *)
(***************************************************************************)
EXTENDS BatchPebble, WriteBatch, FiniteSetTheorems, WellFoundedInduction, TLAPS

----------------------------------------------------------------------------
(* The inductive invariant                                                 *)

TypeOK ==
    /\ registered \in BOOLEAN /\ stopClosed \in BOOLEAN /\ dbOpen \in BOOLEAN
    /\ remover \in {"none", "removed", "stopping", "closed"}
    /\ queue \in Seq(Callers) /\ requests \in Seq(Callers)
    /\ proc \in {"new", "wait", "drain", "handle", "notify", "check", "draining", "exited"}
    /\ todo \subseteq DOMAIN requests
    /\ batchErr \in BOOLEAN
    /\ batch \in Seq(Ops) /\ db \in Seq(Ops)
    /\ pc \in [Callers -> {"idle", "dispatch", "waiting", "done"}]
    /\ result \in [Callers -> {"none", "unregistered", "stopped", "failed", "ok"}]

\* What a flush uses is empty outside of it, and it never runs on a closed
\* database.
Phases ==
    /\ proc # "handle" => todo = {}
    /\ proc \notin {"drain", "handle", "notify"} => requests = <<>>
    /\ proc \notin {"handle", "notify"} => batch = <<>>
    /\ proc # "notify" => ~ batchErr
    /\ dbOpen \/ proc = "exited"

Occurs(c, s) == \E i \in DOMAIN s : s[i] = c
Distinct(s) == \A i, j \in DOMAIN s : s[i] = s[j] => i = j

\* A request is on the channel or in the flush, in one place, and not
\* answered.
InOnePlace ==
    /\ Distinct(queue) /\ Distinct(requests)
    /\ \A c \in Callers :
          /\ ~ (Occurs(c, queue) /\ Occurs(c, requests))
          /\ Occurs(c, queue) \/ Occurs(c, requests) => pc[c] = "waiting" /\ result[c] = "none"
          /\ pc[c] \in {"idle", "dispatch"} => result[c] = "none"

\* Handled in this flush.
Handled(c) == \E j \in DOMAIN requests \ todo : requests[j] = c

\* Whose operations are where.
Authors ==
    /\ \A i \in DOMAIN db :
          \/ result[db[i].by] = "ok"
          \/ proc = "notify" /\ ~ batchErr /\ Occurs(db[i].by, requests)
    /\ proc = "handle" => \A i \in DOMAIN batch : Handled(batch[i].by)

\* The operations of c in log are none, or the two of one run of its consumer.
Paired(c, log) == OpsOf(c, log) = {} \/ \E i \in DOMAIN log : OpsOf(c, log) = {i, i + 1}

Whole == \A c \in Callers : Paired(c, db) /\ (proc = "handle" => Paired(c, batch))

\* The keys of requests that are handled, committed or answered are there.
Found ==
    /\ \A c \in Callers : result[c] = "ok" => Holds(db, KeyOf[c])
    /\ proc = "handle" => \A c \in Callers : Handled(c) => Holds(db \o batch, KeyOf[c])
    /\ proc = "notify" /\ ~ batchErr
          => \A c \in Callers : Occurs(c, requests) => Holds(db, KeyOf[c])

NoOverwrite(log) ==
    \A i, j \in DOMAIN log :
       i < j /\ log[i].op = "set" /\ log[j].op = "set" /\ KeyOf[log[i].by] = KeyOf[log[j].by]
          => log[j].by \in NoGet

Absent == NoOverwrite(db) /\ (proc = "handle" => NoOverwrite(db \o batch))

\* The invariant.  The properties are about db and result; they follow only
\* because of what holds of the batch, of the requests that are not answered
\* yet and of the place each of them is in.
Inv == TypeOK /\ Phases /\ InOnePlace /\ Authors /\ Whole /\ Found /\ Absent

----------------------------------------------------------------------------
(* Sequences                                                               *)

(* Where the elements of a concatenation come from.                        *)
LEMMA Concat ==
  ASSUME NEW S, NEW s \in Seq(S), NEW t \in Seq(S)
  PROVE  /\ s \o t \in Seq(S)
         /\ \A i \in DOMAIN s : i \in DOMAIN (s \o t) /\ (s \o t)[i] = s[i]
         /\ \A i \in DOMAIN t :
               i + Len(s) \in DOMAIN (s \o t) /\ (s \o t)[i + Len(s)] = t[i]
         /\ \A i \in DOMAIN (s \o t) :
               \/ i \in DOMAIN s
               \/ i > Len(s) /\ i - Len(s) \in DOMAIN t /\ (s \o t)[i] = t[i - Len(s)]
  OBVIOUS

(* Nothing is changed by an empty rest.                                    *)
LEMMA ConcatEmpty ==
  ASSUME NEW S, NEW s \in Seq(S)
  PROVE  s \o <<>> = s
  OBVIOUS

(* Taking the head off a sequence without repetitions: what is left has    *)
(* none, and is the rest without the head.                                 *)
LEMMA TakeHead ==
  ASSUME NEW s \in Seq(Callers), s # <<>>, Distinct(s)
  PROVE  /\ Head(s) \in Callers /\ Tail(s) \in Seq(Callers) /\ Distinct(Tail(s))
         /\ Occurs(Head(s), s)
         /\ \A c \in Callers : Occurs(c, Tail(s)) <=> Occurs(c, s) /\ c # Head(s)
<1>1. /\ Head(s) \in Callers /\ Tail(s) \in Seq(Callers) /\ Head(s) = s[1]
      /\ 1 \in DOMAIN s /\ DOMAIN s = 1 .. Len(s) /\ DOMAIN Tail(s) = 1 .. Len(s) - 1
      /\ \A i \in DOMAIN Tail(s) : i + 1 \in DOMAIN s /\ Tail(s)[i] = s[i + 1]
  OBVIOUS
<1>2. Distinct(Tail(s))
  BY <1>1, SMT DEF Distinct
<1>3. Occurs(Head(s), s)
  BY <1>1, Zenon DEF Occurs
<1>4. ASSUME NEW c \in Callers, Occurs(c, Tail(s))
      PROVE  Occurs(c, s) /\ c # Head(s)
  BY <1>1, <1>4, SMT DEF Distinct, Occurs
<1>5. ASSUME NEW c \in Callers, Occurs(c, s), c # Head(s)
      PROVE  Occurs(c, Tail(s))
  <2>1. PICK i \in DOMAIN s : s[i] = c
    BY <1>5, Zenon DEF Occurs
  <2>2. i - 1 \in DOMAIN Tail(s) /\ Tail(s)[i - 1] = s[i]
    BY <1>1, <1>5, <2>1, SMT
  <2>3. QED
    BY <2>1, <2>2, Zenon DEF Occurs
<1>6. QED
  BY <1>1, <1>2, <1>3, <1>4, <1>5, Zenon

(* Appending something new keeps a sequence without repetitions.           *)
LEMMA AppendNew ==
  ASSUME NEW s \in Seq(Callers), NEW c \in Callers, ~ Occurs(c, s), Distinct(s)
  PROVE  /\ Append(s, c) \in Seq(Callers) /\ Distinct(Append(s, c))
         /\ \A d \in Callers : Occurs(d, Append(s, c)) <=> Occurs(d, s) \/ d = c
<1>1. /\ Append(s, c) \in Seq(Callers) /\ DOMAIN s = 1 .. Len(s)
      /\ DOMAIN Append(s, c) = 1 .. Len(s) + 1 /\ Append(s, c)[Len(s) + 1] = c
      /\ \A i \in DOMAIN s : i \in DOMAIN Append(s, c) /\ Append(s, c)[i] = s[i]
      /\ Len(s) \in Nat
  OBVIOUS
<1>2. \A i \in DOMAIN Append(s, c) : i \in DOMAIN s \/ i = Len(s) + 1
  BY <1>1, SMT
<1>3. Distinct(Append(s, c))
  BY <1>1, <1>2, Zenon DEF Distinct, Occurs
<1>4. Len(s) + 1 \in DOMAIN Append(s, c)
  BY <1>1, SMT
<1>5. \A d \in Callers : Occurs(d, Append(s, c)) <=> Occurs(d, s) \/ d = c
  BY <1>1, <1>2, <1>4, Zenon DEF Occurs
<1>6. QED
  BY <1>1, <1>3, <1>5, Zenon

----------------------------------------------------------------------------
(* Logs of operations                                                      *)

(* Every operation has an author.                                          *)
LEMMA OpAuthor ==
  ASSUME NEW s \in Seq(Ops)
  PROVE  \A i \in DOMAIN s : s[i].by \in Callers
<1>1. \A i \in DOMAIN s : s[i] \in Ops
  OBVIOUS
<1>2. QED
  BY <1>1, Zenon DEF Ops

(* What a consumer adds to the batch: nothing, or its two operations.      *)
LEMMA WritesShape ==
  ASSUME NEW c \in Callers, NEW log
  PROVE  /\ Writes(c, log) \in Seq(Ops)
         /\ \/ Writes(c, log) = <<>> /\ Holds(log, KeyOf[c])
            \/ /\ Writes(c, log) = <<SetOp(c), NumOp(c)>>
               /\ c \in NoGet \/ ~ Holds(log, KeyOf[c])
<1>1. SetOp(c) \in Ops /\ NumOp(c) \in Ops
  BY Zenon DEF SetOp, NumOp, Ops
<1>2. <<>> \in Seq(Ops) /\ <<SetOp(c), NumOp(c)>> \in Seq(Ops)
  BY <1>1, SMT
<1>3. QED
  BY <1>2, Zenon DEF Writes

(* The elements of the two-operation sequence.                             *)
LEMMA TwoOps ==
  ASSUME NEW c \in Callers
  PROVE  LET w == <<SetOp(c), NumOp(c)>>
         IN  /\ w \in Seq(Ops) /\ DOMAIN w = {1, 2}
             /\ w[1].op = "set" /\ w[2].op = "num" /\ w[1].by = c /\ w[2].by = c
<1>1. SetOp(c) \in Ops /\ NumOp(c) \in Ops
  BY Zenon DEF SetOp, NumOp, Ops
<1>2. QED
  BY <1>1, SMT DEF SetOp, NumOp

(* What one run of a consumer adds is whole, for it and for the others.    *)
LEMMA WritesPaired ==
  ASSUME NEW c \in Callers, NEW d \in Callers, NEW log
  PROVE  /\ Paired(d, Writes(c, log))
         /\ d # c => OpsOf(d, Writes(c, log)) = {}
<1>1. CASE Writes(c, log) = <<>>
  <2>1. DOMAIN Writes(c, log) = {}
    BY <1>1, SMT
  <2>2. QED
    BY <2>1, Zenon DEF Paired, OpsOf
<1>2. CASE Writes(c, log) = <<SetOp(c), NumOp(c)>>
  <2>1. d # c => OpsOf(d, Writes(c, log)) = {}
    BY <1>2, TwoOps, SMT DEF OpsOf
  <2>2. d = c => OpsOf(d, Writes(c, log)) = {1, 1 + 1} /\ 1 \in DOMAIN Writes(c, log)
    BY <1>2, TwoOps, SMT DEF OpsOf
  <2>3. QED
    BY <2>1, <2>2, Zenon DEF Paired
<1>3. QED
  BY <1>1, <1>2, WritesShape, Zenon

(* The operations of a caller in a concatenation.                          *)
LEMMA OpsOfConcat ==
  ASSUME NEW a \in Seq(Ops), NEW b \in Seq(Ops), NEW c \in Callers
  PROVE  /\ OpsOf(c, b) = {} => OpsOf(c, a \o b) = OpsOf(c, a)
         /\ OpsOf(c, a) = {} => OpsOf(c, a \o b) = {i + Len(a) : i \in OpsOf(c, b)}
<1>1. ASSUME OpsOf(c, b) = {} PROVE OpsOf(c, a \o b) = OpsOf(c, a)
  BY <1>1, Concat, SMT DEF OpsOf
<1>2. ASSUME OpsOf(c, a) = {} PROVE OpsOf(c, a \o b) = {i + Len(a) : i \in OpsOf(c, b)}
  <2> DEFINE shifted == {i + Len(a) : i \in OpsOf(c, b)}
  <2>1. ASSUME NEW j \in OpsOf(c, a \o b) PROVE j \in shifted
    <3>1. j \in DOMAIN (a \o b) /\ (a \o b)[j].by = c
      BY Zenon DEF OpsOf
    <3>2. j \notin DOMAIN a
      BY <1>2, <3>1, Concat, SMT DEF OpsOf
    <3>3. j - Len(a) \in DOMAIN b /\ (a \o b)[j] = b[j - Len(a)] /\ j = (j - Len(a)) + Len(a)
      BY <3>1, <3>2, Concat, SMT
    <3>4. QED
      BY <3>1, <3>3, Zenon DEF OpsOf
  <2>2. ASSUME NEW j \in shifted PROVE j \in OpsOf(c, a \o b)
    BY Concat, SMT DEF OpsOf
  <2>3. QED
    BY <2>1, <2>2, Zenon
<1>3. QED
  BY <1>1, <1>2, Zenon

(* Whole logs stay whole when one that holds nothing of c is put before or *)
(* after the other.                                                        *)
LEMMA PairedConcat ==
  ASSUME NEW a \in Seq(Ops), NEW b \in Seq(Ops), NEW c \in Callers,
         Paired(c, a), Paired(c, b), OpsOf(c, a) = {} \/ OpsOf(c, b) = {}
  PROVE  Paired(c, a \o b)
<1>1. CASE OpsOf(c, b) = {}
  <2>1. OpsOf(c, a \o b) = OpsOf(c, a)
    BY <1>1, OpsOfConcat, Zenon
  <2>2. \A i \in DOMAIN a : i \in DOMAIN (a \o b)
    BY Concat, Zenon
  <2>3. QED
    BY <2>1, <2>2, Zenon DEF Paired
<1>2. CASE OpsOf(c, a) = {} /\ OpsOf(c, b) # {}
  <2>1. PICK i \in DOMAIN b : OpsOf(c, b) = {i, i + 1}
    BY <1>2, Zenon DEF Paired
  <2>2. OpsOf(c, a \o b) = {j + Len(a) : j \in OpsOf(c, b)}
    BY <1>2, OpsOfConcat, Zenon
  <2>3. i \in Int /\ Len(a) \in Int
    OBVIOUS
  <2>4. OpsOf(c, a \o b) = {i + Len(a), (i + Len(a)) + 1}
    BY <2>1, <2>2, <2>3, SMT
  <2>5. i + Len(a) \in DOMAIN (a \o b)
    BY <2>1, Concat, Zenon
  <2>6. QED
    BY <2>4, <2>5, Zenon DEF Paired
<1>3. QED
  BY <1>1, <1>2, Zenon

(* A key is found in a concatenation when it is in one of the parts.       *)
LEMMA HoldsConcat ==
  ASSUME NEW a \in Seq(Ops), NEW b \in Seq(Ops), NEW k
  PROVE  Holds(a \o b, k) <=> Holds(a, k) \/ Holds(b, k)
<1>1. ASSUME Holds(a, k) PROVE Holds(a \o b, k)
  <2>1. \A i \in DOMAIN a : i \in DOMAIN (a \o b) /\ (a \o b)[i] = a[i]
    BY Concat
  <2>2. QED
    BY <1>1, <2>1, Zenon DEF Holds
<1>2. ASSUME Holds(b, k) PROVE Holds(a \o b, k)
  <2>1. PICK i \in DOMAIN b : b[i].op = "set" /\ KeyOf[b[i].by] = k
    BY <1>2, Zenon DEF Holds
  <2>2. i + Len(a) \in DOMAIN (a \o b) /\ (a \o b)[i + Len(a)] = b[i]
    BY Concat
  <2>3. QED
    BY <2>1, <2>2, Zenon DEF Holds
<1>3. ASSUME Holds(a \o b, k) PROVE Holds(a, k) \/ Holds(b, k)
  <2>1. PICK i \in DOMAIN (a \o b) : (a \o b)[i].op = "set" /\ KeyOf[(a \o b)[i].by] = k
    BY <1>3, Zenon DEF Holds
  <2>2. \/ i \in DOMAIN a /\ (a \o b)[i] = a[i]
        \/ i - Len(a) \in DOMAIN b /\ (a \o b)[i] = b[i - Len(a)]
    BY Concat
  <2>3. QED
    BY <2>1, <2>2, Zenon DEF Holds
<1>4. QED
  BY <1>1, <1>2, <1>3, Zenon

(* After a consumer has run, the key of its request is found.              *)
LEMMA WritesHold ==
  ASSUME NEW c \in Callers, NEW log \in Seq(Ops)
  PROVE  Holds(log \o Writes(c, log), KeyOf[c])
<1>1. CASE Writes(c, log) = <<SetOp(c), NumOp(c)>>
  <2>1. Holds(Writes(c, log), KeyOf[c])
    BY <1>1, TwoOps, SMT DEF Holds
  <2>2. QED
    BY <2>1, WritesShape, HoldsConcat, Zenon
<1>2. CASE Holds(log, KeyOf[c])
  BY <1>2, WritesShape, HoldsConcat, Zenon
<1>3. QED
  BY <1>1, <1>2, WritesShape, Zenon

(* A consumer does not overwrite unless it does not look.                  *)
LEMMA WritesAbsent ==
  ASSUME NEW c \in Callers, NEW log \in Seq(Ops), NoOverwrite(log)
  PROVE  NoOverwrite(log \o Writes(c, log))
<1> DEFINE w == Writes(c, log)
           all == log \o w
<1>1. CASE w = <<>>
  BY <1>1, ConcatEmpty, Zenon
<1>2. CASE w = <<SetOp(c), NumOp(c)>> /\ (c \in NoGet \/ ~ Holds(log, KeyOf[c]))
  <2> SUFFICES ASSUME NEW i \in DOMAIN all, NEW j \in DOMAIN all,
                      i < j, all[i].op = "set", all[j].op = "set",
                      KeyOf[all[i].by] = KeyOf[all[j].by]
               PROVE  all[j].by \in NoGet
    BY Zenon DEF NoOverwrite
  <2>0. w \in Seq(Ops) /\ DOMAIN w = {1, 2} /\ w[2].op = "num" /\ w[1].by = c
    BY <1>2, TwoOps
  <2>1. CASE j \in DOMAIN log
    <3>1. i \in DOMAIN log
      BY <2>1, <2>0, Concat, SMT
    <3>2. all[i] = log[i] /\ all[j] = log[j]
      BY <2>1, <3>1, <2>0, Concat
    <3>3. QED
      BY <2>1, <3>1, <3>2, Zenon DEF NoOverwrite
  <2>2. CASE j \notin DOMAIN log
    <3>1. j - Len(log) \in DOMAIN w /\ all[j] = w[j - Len(log)]
      BY <2>2, <2>0, Concat
    <3>2. j - Len(log) = 1 /\ all[j].by = c
      BY <3>1, <2>0, Zenon
    <3>3. i \in DOMAIN log /\ all[i] = log[i]
      BY <3>2, <2>0, Concat, SMT
    <3>4. Holds(log, KeyOf[c])
      BY <3>2, <3>3, Zenon DEF Holds
    <3>5. QED
      BY <1>2, <3>2, <3>4, Zenon
  <2>3. QED
    BY <2>1, <2>2, Zenon
<1>3. QED
  BY <1>1, <1>2, WritesShape, Zenon

----------------------------------------------------------------------------
(* Steps outside a flush                                                   *)

(* The database part of the invariant does not change when neither the     *)
(* database nor the batch does, no answer becomes or stops being nil, and  *)
(* the processor is not in a flush or stays where it is in it.             *)
LEMMA NoFlush ==
  ASSUME Inv, UNCHANGED <<batch, db>>,
         \/ proc' = proc /\ UNCHANGED <<requests, todo, batchErr>>
         \/ proc \notin {"handle", "notify"} /\ proc' \notin {"handle", "notify"},
         \A c \in Callers : result'[c] = "ok" <=> result[c] = "ok"
  PROVE  (Authors /\ Whole /\ Found /\ Absent)'
<1>1. Authors'
  <2>0. db \in Seq(Ops)
    BY Zenon DEF Inv, TypeOK
  <2>1. \A i \in DOMAIN db : db[i].by \in Callers
    BY <2>0, OpAuthor, Zenon
  <2>2. CASE proc' = proc /\ UNCHANGED <<requests, todo, batchErr>>
    BY <2>1, <2>2, Zenon DEF Inv, Authors, Handled, Occurs
  <2>3. CASE proc \notin {"handle", "notify"} /\ proc' \notin {"handle", "notify"}
    BY <2>1, <2>3, Zenon DEF Inv, Authors
  <2>4. QED
    BY <2>2, <2>3, Zenon
<1>2. Whole'
  BY Zenon DEF Inv, Whole
<1>3. Found'
  <2>2. CASE proc' = proc /\ UNCHANGED <<requests, todo, batchErr>>
    BY <2>2, Zenon DEF Inv, Found, Handled, Occurs
  <2>3. CASE proc \notin {"handle", "notify"} /\ proc' \notin {"handle", "notify"}
    BY <2>3, Zenon DEF Inv, Found
  <2>4. QED
    BY <2>2, <2>3, Zenon
<1>4. Absent'
  BY Zenon DEF Inv, Absent
<1>5. QED
  BY <1>1, <1>2, <1>3, <1>4, Zenon

(* A request stays in its one place when channel and flush do not change   *)
(* and nothing happens to the callers in them.                             *)
LEMMA NoMove ==
  ASSUME Inv, UNCHANGED <<queue, requests>>,
         \A c \in Callers :
            \/ pc'[c] = pc[c] /\ result'[c] = result[c]
            \/ /\ ~ Occurs(c, queue) /\ ~ Occurs(c, requests)
               /\ pc'[c] \in {"idle", "dispatch"} => result'[c] = "none"
  PROVE  InOnePlace'
  BY DEF Inv, InOnePlace, Distinct, Occurs

(* The processor is started.                                               *)
LEMMA AddDataBatchStep == ASSUME Inv, AddDataBatch PROVE Inv'
<1> USE DEF AddDataBatch, flushing
<1>1. TypeOK' /\ Phases'
  BY Zenon DEF Inv, TypeOK, Phases
<1>2. InOnePlace'
  BY NoMove, Zenon
<1>3. (Authors /\ Whole /\ Found /\ Absent)'
  BY NoFlush, Zenon
<1>4. QED
  BY <1>1, <1>2, <1>3, Zenon DEF Inv

(* A caller that is not waiting has no request on the channel or in the    *)
(* flush.                                                                  *)
LEMMA NotPlaced ==
  ASSUME Inv, NEW c \in Callers, pc[c] # "waiting" \/ result[c] # "none"
  PROVE  ~ Occurs(c, queue) /\ ~ Occurs(c, requests)
  BY Zenon DEF Inv, InOnePlace

(* submitRequest finds the processor or answers at once.                   *)
LEMMA SubmitRequestStep ==
  ASSUME Inv, NEW c \in Callers, SubmitRequest(c) PROVE Inv'
<1> USE DEF SubmitRequest, flushing, remove
<1>0. result[c] = "none"
  BY Zenon DEF Inv, InOnePlace
<1>1. TypeOK' /\ Phases'
  BY Zenon DEF Inv, TypeOK, Phases
<1>2. ASSUME NEW d \in Callers
      PROVE  /\ d # c => pc'[d] = pc[d] /\ result'[d] = result[d]
             /\ d = c /\ pc'[d] \in {"idle", "dispatch"} => result'[d] = "none"
             /\ result'[d] = "ok" <=> result[d] = "ok"
  BY <1>0, Zenon DEF Inv, TypeOK
<1>3. InOnePlace'
  BY <1>2, NotPlaced, NoMove, Zenon
<1>4. (Authors /\ Whole /\ Found /\ Absent)'
  BY <1>2, NoFlush, Zenon
<1>5. QED
  BY <1>1, <1>3, <1>4, Zenon DEF Inv

(* dispatch puts the request on the channel.                               *)
LEMMA DispatchSendStep ==
  ASSUME Inv, NEW c \in Callers, DispatchSend(c) PROVE Inv'
<1> USE DEF DispatchSend, flushing, remove
<1>0. ~ Occurs(c, queue) /\ ~ Occurs(c, requests) /\ result[c] = "none"
  BY NotPlaced, Zenon DEF Inv, InOnePlace
<1>1. /\ queue' \in Seq(Callers) /\ Distinct(queue')
      /\ \A d \in Callers : Occurs(d, queue') <=> Occurs(d, queue) \/ d = c
  BY <1>0, AppendNew, Zenon DEF Inv, TypeOK, InOnePlace
<1>2. TypeOK' /\ Phases'
  BY <1>1, Zenon DEF Inv, TypeOK, Phases
<1>3. \A d \in Callers : pc'[d] = IF d = c THEN "waiting" ELSE pc[d]
  BY Zenon DEF Inv, TypeOK
<1>4. Distinct(requests') /\ \A d \in Callers : Occurs(d, requests') <=> Occurs(d, requests)
  BY Zenon DEF Inv, InOnePlace, Distinct, Occurs
<1>5. InOnePlace'
  BY <1>0, <1>1, <1>3, <1>4, Zenon DEF Inv, InOnePlace
<1>6. (Authors /\ Whole /\ Found /\ Absent)'
  BY NoFlush, Zenon
<1>7. QED
  BY <1>2, <1>5, <1>6, Zenon DEF Inv

(* dispatch finds stopCh closed.                                           *)
LEMMA DispatchStoppedStep ==
  ASSUME Inv, NEW c \in Callers, DispatchStopped(c) PROVE Inv'
<1> USE DEF DispatchStopped, flushing, remove
<1>0. result[c] = "none"
  BY Zenon DEF Inv, InOnePlace
<1>1. TypeOK' /\ Phases'
  BY Zenon DEF Inv, TypeOK, Phases
<1>2. ASSUME NEW d \in Callers
      PROVE  /\ d # c => pc'[d] = pc[d] /\ result'[d] = result[d]
             /\ d = c => pc'[d] = "done"
             /\ result'[d] = "ok" <=> result[d] = "ok"
  BY <1>0, Zenon DEF Inv, TypeOK
<1>3. InOnePlace'
  BY <1>2, NotPlaced, NoMove, Zenon
<1>4. (Authors /\ Whole /\ Found /\ Absent)'
  BY <1>2, NoFlush, Zenon
<1>5. QED
  BY <1>1, <1>3, <1>4, Zenon DEF Inv

(* The caller receives its answer.                                         *)
LEMMA ReceiveStep ==
  ASSUME Inv, NEW c \in Callers, Receive(c) PROVE Inv'
<1> USE DEF Receive, flushing, remove
<1>1. TypeOK' /\ Phases'
  BY Zenon DEF Inv, TypeOK, Phases
<1>2. ASSUME NEW d \in Callers
      PROVE  /\ d # c => pc'[d] = pc[d] /\ result'[d] = result[d]
             /\ d = c => pc'[d] = "done"
  BY Zenon DEF Inv, TypeOK
<1>3. InOnePlace'
  BY <1>2, NotPlaced, NoMove, Zenon
<1>4. (Authors /\ Whole /\ Found /\ Absent)'
  BY NoFlush, Zenon
<1>5. QED
  BY <1>1, <1>3, <1>4, Zenon DEF Inv

(* The processor takes the first request of a batch.                       *)
LEMMA TakeFirstStep == ASSUME Inv, TakeFirst PROVE Inv'
<1> USE DEF TakeFirst, remove
<1>0. requests = <<>> /\ todo = {}
  BY Zenon DEF Inv, Phases
<1>1. /\ Head(queue) \in Callers /\ queue' \in Seq(Callers) /\ Distinct(queue')
      /\ Occurs(Head(queue), queue)
      /\ \A c \in Callers : Occurs(c, queue') <=> Occurs(c, queue) /\ c # Head(queue)
  BY TakeHead, Zenon DEF Inv, TypeOK, InOnePlace
<1>2. requests' \in Seq(Callers) /\ DOMAIN requests' = {1} /\ requests'[1] = Head(queue)
  BY <1>1, SMT
<1>3. TypeOK' /\ Phases'
  BY <1>0, <1>1, <1>2, Zenon DEF Inv, TypeOK, Phases
<1>4. Distinct(requests') /\ \A c \in Callers : Occurs(c, requests') <=> c = Head(queue)
  BY <1>2, Zenon DEF Distinct, Occurs
<1>5. InOnePlace'
  BY <1>1, <1>4, Zenon DEF Inv, InOnePlace
<1>6. (Authors /\ Whole /\ Found /\ Absent)'
  BY NoFlush, Zenon
<1>7. QED
  BY <1>3, <1>5, <1>6, Zenon DEF Inv

(* The processor looks at stopCh.                                          *)
LEMMA StopStep == ASSUME Inv, SeeStop \/ NoStop PROVE Inv'
<1> USE DEF SeeStop, NoStop, remove, flushing
<1>1. TypeOK' /\ Phases'
  BY DEF Inv, TypeOK, Phases
<1>2. InOnePlace'
  BY NoMove, Zenon
<1>3. (Authors /\ Whole /\ Found /\ Absent)'
  BY NoFlush, Zenon
<1>4. QED
  BY <1>1, <1>2, <1>3, Zenon DEF Inv

(* drainOnStop answers a queued request, of which nothing was written, or  *)
(* the processor exits.                                                    *)
LEMMA DrainOnStopStep == ASSUME Inv, DrainOnStop PROVE Inv'
<1> USE DEF DrainOnStop, remove, flushing
<1>1. CASE queue # <<>>
  <2>0. requests = <<>> /\ DOMAIN requests = {}
    BY DEF Inv, Phases
  <2>1. /\ Head(queue) \in Callers /\ queue' \in Seq(Callers) /\ Distinct(queue')
        /\ Occurs(Head(queue), queue)
        /\ \A c \in Callers : Occurs(c, queue') <=> Occurs(c, queue) /\ c # Head(queue)
    <3>1. queue \in Seq(Callers) /\ Distinct(queue) /\ queue' = Tail(queue)
      BY <1>1, Zenon DEF Inv, TypeOK, InOnePlace
    <3>2. QED
      BY <1>1, <3>1, TakeHead, Zenon
  <2>2. pc[Head(queue)] = "waiting" /\ result[Head(queue)] = "none"
    BY <2>1, Zenon DEF Inv, InOnePlace
  <2>3. \A c \in Callers : result'[c] = IF c = Head(queue) THEN "stopped" ELSE result[c]
    BY <1>1, <2>1, Zenon DEF Inv, TypeOK
  <2>4. TypeOK' /\ Phases'
    <3>1. result' \in [Callers -> {"none", "unregistered", "stopped", "failed", "ok"}]
      <4>1. result \in [Callers -> {"none", "unregistered", "stopped", "failed", "ok"}]
        BY Zenon DEF Inv, TypeOK
      <4>2. result' = [result EXCEPT ![Head(queue)] = "stopped"]
        BY <1>1, Zenon
      <4>3. QED
        BY <2>1, <4>1, <4>2, Zenon
    <3>2. TypeOK'
      BY <1>1, <2>1, <3>1, Zenon DEF Inv, TypeOK
    <3>3. Phases'
      BY <1>1, Zenon DEF Inv, Phases
    <3>4. QED
      BY <3>2, <3>3, Zenon
  <2>5. ~ \E c \in Callers : Occurs(c, requests')
    BY <2>0, Zenon DEF Occurs
  <2>6. Distinct(requests')
    BY <2>0, Zenon DEF Distinct
  <2>7. InOnePlace'
    BY <2>1, <2>2, <2>3, <2>5, <2>6, Zenon DEF Inv, InOnePlace
  <2>8. (Authors /\ Whole /\ Found /\ Absent)'
    BY <1>1, <2>2, <2>3, NoFlush, Zenon
  <2>9. QED
    BY <2>4, <2>7, <2>8, Zenon DEF Inv
<1>2. CASE queue = <<>>
  <2>1. TypeOK' /\ Phases'
    BY <1>2, Zenon DEF Inv, TypeOK, Phases
  <2>2. InOnePlace'
    BY <1>2, NoMove, Zenon
  <2>3. (Authors /\ Whole /\ Found /\ Absent)'
    BY <1>2, NoFlush, Zenon
  <2>4. QED
    BY <2>1, <2>2, <2>3, Zenon DEF Inv
<1>3. QED
  BY <1>1, <1>2, Zenon

(* The device is removed; stop closes the database behind the processor.   *)
LEMMA RemoverStep == ASSUME Inv, Remover PROVE Inv'
<1>0. UNCHANGED <<queue, proc, requests, todo, batchErr, batch, db, pc, result>>
  BY Zenon DEF Remover, RemoveBatch, StopClose, StopWait, flushing
<1>1. TypeOK' /\ Phases'
  <2>1. /\ registered' \in BOOLEAN /\ stopClosed' \in BOOLEAN /\ dbOpen' \in BOOLEAN
        /\ remover' \in {"none", "removed", "stopping", "closed"}
        /\ dbOpen' \/ proc' = "exited"
    <3>1. CASE RemoveBatch \/ StopClose
      BY <3>1, ZenonT(30) DEF Inv, TypeOK, Phases, RemoveBatch, StopClose
    <3>2. CASE StopWait
      BY <3>2, ZenonT(30) DEF Inv, TypeOK, Phases, StopWait
    <3>3. QED
      BY <3>1, <3>2, Zenon DEF Remover
  <2>2. TypeOK'
    BY <1>0, <2>1, Zenon DEF Inv, TypeOK
  <2>3. Phases'
    BY <1>0, <2>1, Zenon DEF Inv, Phases
  <2>4. QED
    BY <2>2, <2>3, Zenon
<1>2. InOnePlace'
  BY <1>0, NoMove, Zenon
<1>3. (Authors /\ Whole /\ Found /\ Absent)'
  BY <1>0, NoFlush, Zenon
<1>4. QED
  BY <1>1, <1>2, <1>3, Zenon DEF Inv

(* Another request is taken into the batch, or the flush begins with all   *)
(* of them to do.                                                          *)
LEMMA DrainStep == ASSUME Inv, Drain PROVE Inv'
<1> USE DEF Drain, remove
<1>1. CASE queue # <<>> /\ Len(requests) < MaxBatch
  <2>0. /\ queue \in Seq(Callers) /\ requests \in Seq(Callers) /\ Distinct(queue) /\ Distinct(requests)
        /\ queue' = Tail(queue) /\ requests' = Append(requests, Head(queue))
        /\ todo = {} /\ UNCHANGED <<proc, todo>>
    BY <1>1, Zenon DEF Inv, TypeOK, InOnePlace, Phases
  <2>1. /\ Head(queue) \in Callers /\ queue' \in Seq(Callers) /\ Distinct(queue')
        /\ Occurs(Head(queue), queue)
        /\ \A c \in Callers : Occurs(c, queue') <=> Occurs(c, queue) /\ c # Head(queue)
    BY <1>1, <2>0, TakeHead, Zenon
  <2>2. ~ Occurs(Head(queue), requests)
    BY <2>1, Zenon DEF Inv, InOnePlace
  <2>3. /\ requests' \in Seq(Callers) /\ Distinct(requests')
        /\ \A c \in Callers : Occurs(c, requests') <=> Occurs(c, requests) \/ c = Head(queue)
    BY <2>0, <2>1, <2>2, AppendNew, Zenon
  <2>4. TypeOK' /\ Phases'
    BY <2>0, <2>1, <2>3, Zenon DEF Inv, TypeOK, Phases
  <2>5. InOnePlace'
    BY <2>1, <2>3, Zenon DEF Inv, InOnePlace
  <2>6. (Authors /\ Whole /\ Found /\ Absent)'
    BY <2>0, NoFlush, Zenon
  <2>7. QED
    BY <2>4, <2>5, <2>6, Zenon DEF Inv
<1>2. CASE ~ (queue # <<>> /\ Len(requests) < MaxBatch)
  <2>0. /\ proc = "drain" /\ proc' = "handle" /\ todo' = DOMAIN requests
        /\ UNCHANGED <<requests, queue, batchErr, batch, db, pc, result>>
    BY <1>2, Zenon
  <2>1. batch = <<>> /\ batch' = <<>> /\ DOMAIN batch' = {}
    BY <2>0 DEF Inv, Phases
  <2>2. TypeOK' /\ Phases'
    BY <1>2, Zenon DEF Inv, TypeOK, Phases
  <2>3. InOnePlace'
    BY <2>0, NoMove, Zenon
  <2>4. Authors'
    BY <2>0, <2>1, Zenon DEF Inv, Authors
  <2>5. Whole'
    BY <2>0, <2>1 DEF Inv, Whole, Paired, OpsOf
  <2>6. ~ \E c \in Callers : Handled(c)'
    BY <2>0, Zenon DEF Handled
  <2>7. Found'
    BY <2>0, <2>6, Zenon DEF Inv, Found
  <2>8. (db \o batch)' = db
    BY <2>0, <2>1, ConcatEmpty, Zenon DEF Inv, TypeOK
  <2>9. Absent'
    BY <2>0, <2>8, Zenon DEF Inv, Absent
  <2>10. QED
    BY <2>2, <2>3, <2>4, <2>5, <2>7, <2>9, Zenon DEF Inv
<1>3. QED
  BY <1>1, <1>2, Zenon

----------------------------------------------------------------------------
(* The flush                                                               *)

(* A consumer runs to its end: its operations are new to the database and  *)
(* to the batch.                                                           *)
LEMMA HandledWhole ==
  ASSUME Inv, proc = "handle", NEW i \in todo,
         NEW c, c = requests[i], NEW w, w = Writes(c, db \o batch),
         batch' = batch \o w, todo' = todo \ {i},
         UNCHANGED <<proc, batchErr, remove, queue, requests, db, pc, result>>
  PROVE  Inv'
<1> DEFINE Now(d) == \E k \in DOMAIN requests \ todo' : requests[k] = d
<1>u. /\ proc' = proc /\ batchErr' = batchErr /\ requests' = requests
      /\ db' = db /\ result' = result
  BY Zenon
<1>0. /\ requests \in Seq(Callers) /\ batch \in Seq(Ops) /\ db \in Seq(Ops)
      /\ todo \subseteq DOMAIN requests /\ i \in DOMAIN requests /\ Distinct(requests)
  BY Zenon DEF Inv, TypeOK, InOnePlace
<1>1. c \in Callers /\ Occurs(c, requests)
  BY <1>0 DEF Occurs
<1>2. result[c] = "none"
  BY <1>1, Zenon DEF Inv, InOnePlace
<1>3. w \in Seq(Ops) /\ db \o batch \in Seq(Ops) /\ batch \o w \in Seq(Ops)
  <2>1. w \in Seq(Ops)
    BY <1>1, WritesShape, Zenon
  <2>2. QED
    BY <1>0, <2>1, Concat, Zenon
<1>4. (db \o batch)' = (db \o batch) \o w
  <2>1. db \o (batch \o w) = (db \o batch) \o w
    <3>1. batch \in Seq(Ops) /\ db \in Seq(Ops) /\ w \in Seq(Ops)
      BY <1>0, <1>3, Zenon
    <3>2. QED
      BY <3>1, SMTT(30)
  <2>2. db' \o batch' = db \o (batch \o w)
    BY <1>u, Zenon
  <2>3. QED
    BY <2>1, <2>2, Zenon
<1>5. ~ Handled(c) /\ \A d \in Callers : Now(d) <=> Handled(d) \/ d = c
  BY <1>1, <1>0, Zenon DEF Handled, Distinct
<1>6. \A d \in Callers : OpsOf(d, w) # {} => d = c
  BY <1>1, WritesPaired, Zenon
<1>7. OpsOf(c, batch) = {} /\ OpsOf(c, db) = {}
  BY <1>2, <1>5, Zenon DEF Inv, Authors, OpsOf
<1>8. TypeOK' /\ Phases'
  BY <1>3, Zenon DEF Inv, TypeOK, Phases, remove
<1>9. InOnePlace'
  BY NoMove, Zenon
<1>10. Authors'
  <2>1. ASSUME NEW j \in DOMAIN batch' PROVE Now(batch'[j].by)
    <3>0. \/ j \in DOMAIN batch /\ batch'[j] = batch[j]
          \/ j - Len(batch) \in DOMAIN w /\ batch'[j] = w[j - Len(batch)]
      BY <1>0, <1>3, Concat, SMTT(30)
    <3>1. CASE j \in DOMAIN batch /\ batch'[j] = batch[j]
      <4>1. batch[j].by \in Callers
        BY <1>0, <3>1, OpAuthor, Zenon
      <4>2. Handled(batch[j].by)
        BY <3>1, Zenon DEF Inv, Authors
      <4>3. QED
        BY <3>1, <4>1, <4>2, <1>1, <1>5, Zenon
    <3>2. CASE j - Len(batch) \in DOMAIN w /\ batch'[j] = w[j - Len(batch)]
      <4>1. w[j - Len(batch)].by \in Callers
        BY <1>3, <3>2, OpAuthor, Zenon
      <4>2. w[j - Len(batch)].by = c
        BY <1>6, <3>2, <4>1, Zenon DEF OpsOf
      <4>3. QED
        BY <3>2, <4>2, <1>1, <1>5, ZenonT(60)
    <3>3. QED
      BY <3>0, <3>1, <3>2, Zenon
  <2>2. \A j \in DOMAIN db' :
          \/ result'[db'[j].by] = "ok"
          \/ proc' = "notify" /\ ~ batchErr' /\ Occurs(db[j].by, requests)'
    BY <1>u, Zenon DEF Inv, Authors, Occurs
  <2>3. QED
    BY <1>u, <2>1, <2>2, SMT DEF Authors, Occurs, Handled
<1>11. Whole'
  <2>1. ASSUME NEW d \in Callers PROVE Paired(d, batch \o w)
    <3>1. Paired(d, batch) /\ Paired(d, w)
      BY <1>1, WritesPaired, Zenon DEF Inv, Whole
    <3>2. OpsOf(d, batch) = {} \/ OpsOf(d, w) = {}
      BY <1>6, <1>7, Zenon
    <3>3. QED
      BY <1>0, <1>3, <3>1, <3>2, PairedConcat, Zenon
  <2>2. QED
    <3>1. \A d \in Callers : Paired(d, db') <=> Paired(d, db)
      BY <1>u, Zenon
    <3>2. \A d \in Callers : Paired(d, batch')
      BY <2>1, Zenon
    <3>3. QED
      BY <3>1, <3>2, Zenon DEF Inv, Whole
<1>12. Found'
  <2>1. ASSUME NEW d \in Callers, Now(d) PROVE Holds((db \o batch) \o w, KeyOf[d])
    <3>1. CASE d = c
      BY <1>1, <1>3, <3>1, WritesHold, Zenon
    <3>2. CASE d # c
      <4>1. Holds(db \o batch, KeyOf[d])
        BY <1>5, <2>1, <3>2, Zenon DEF Inv, Found
      <4>2. QED
        BY <1>3, <4>1, HoldsConcat, Zenon
    <3>3. QED
      BY <3>1, <3>2, Zenon
  <2>2. QED
    <3>1. \A d \in Callers : Holds(db', KeyOf[d]) <=> Holds(db, KeyOf[d])
      BY <1>u, Zenon
    <3>2. \A d \in Callers : Now(d) => Holds((db \o batch)', KeyOf[d])
      BY <1>4, <2>1, Zenon
    <3>3. \A d \in Callers : Handled(d)' <=> Now(d)
      BY <1>u, Zenon DEF Handled
    <3>4. QED
      BY <1>u, <3>1, <3>2, <3>3, Zenon DEF Inv, Found
<1>13. Absent'
  <2>1. NoOverwrite((db \o batch) \o w)
    BY <1>1, <1>3, WritesAbsent, Zenon DEF Inv, Absent
  <2>2. QED
    <3>1. NoOverwrite((db \o batch)') /\ (NoOverwrite(db') <=> NoOverwrite(db))
      BY <1>u, <1>4, <2>1, Zenon
    <3>2. QED
      BY <3>1, Zenon DEF Inv, Absent
<1>14. QED
  BY <1>8, <1>9, <1>10, <1>11, <1>12, <1>13, Zenon DEF Inv

(* The flush has failed, in a consumer or in batch.Commit: nothing of it   *)
(* is in the database, whatever is left in the batch.                      *)
LEMMA FlushFails ==
  ASSUME Inv, proc = "handle", proc' = "notify", batchErr' = TRUE, todo' = {},
         batch' \in Seq(Ops), UNCHANGED <<remove, queue, requests, db, pc, result>>
  PROVE  Inv'
<1>0. db' = db /\ result' = result /\ proc' # "handle" /\ batchErr'
  BY Zenon
<1>1. TypeOK' /\ Phases'
  BY Zenon DEF Inv, TypeOK, Phases, remove
<1>2. InOnePlace'
  BY NoMove, Zenon
<1>3. Authors'
  BY Zenon DEF Inv, Authors
<1>4. Whole'
  BY <1>0, Zenon DEF Inv, Whole
<1>5. Found'
  BY <1>0, Zenon DEF Inv, Found
<1>6. Absent'
  BY <1>0, Zenon DEF Inv, Absent
<1>7. QED
  BY <1>1, <1>2, <1>3, <1>4, <1>5, <1>6, Zenon DEF Inv

(* One consumer runs, to its end or to an error.                           *)
LEMMA HandleRequestStep == ASSUME Inv, HandleRequest PROVE Inv'
<1>0. proc = "handle" /\ UNCHANGED <<remove, queue, requests, db, pc, result>>
  BY Zenon DEF HandleRequest
<1>1. PICK i \in todo :
         \/ /\ batch' = batch \o Writes(requests[i], db \o batch)
            /\ todo' = todo \ {i} /\ UNCHANGED <<proc, batchErr>>
         \/ \E n \in 0 .. Len(Writes(requests[i], db \o batch)) :
               /\ batch' = batch \o SubSeq(Writes(requests[i], db \o batch), 1, n)
               /\ batchErr' = TRUE /\ todo' = {} /\ proc' = "notify"
  BY Zenon DEF HandleRequest
<1>2. CASE /\ batch' = batch \o Writes(requests[i], db \o batch)
           /\ todo' = todo \ {i} /\ UNCHANGED <<proc, batchErr>>
  <2>1. UNCHANGED <<proc, batchErr, remove, queue, requests, db, pc, result>>
    BY <1>0, <1>2, Zenon
  <2>2. QED
    BY <1>0, <1>2, <2>1, HandledWhole, Zenon
<1>3. CASE \E n \in 0 .. Len(Writes(requests[i], db \o batch)) :
               /\ batch' = batch \o SubSeq(Writes(requests[i], db \o batch), 1, n)
               /\ batchErr' = TRUE /\ todo' = {} /\ proc' = "notify"
  <2>1. PICK n \in 0 .. Len(Writes(requests[i], db \o batch)) :
               /\ batch' = batch \o SubSeq(Writes(requests[i], db \o batch), 1, n)
               /\ batchErr' = TRUE /\ todo' = {} /\ proc' = "notify"
    BY <1>3, Zenon
  <2>2. requests[i] \in Callers /\ batch \in Seq(Ops)
    BY DEF Inv, TypeOK
  <2>3. Writes(requests[i], db \o batch) \in Seq(Ops)
    BY <2>2, WritesShape, Zenon
  <2>4. SubSeq(Writes(requests[i], db \o batch), 1, n) \in Seq(Ops)
    BY <2>3, SMT
  <2>5. batch' \in Seq(Ops)
    BY <2>1, <2>2, <2>4, Concat, Zenon
  <2>6. QED
    BY <1>0, <2>1, <2>5, FlushFails, Zenon
<1>4. QED
  BY <1>1, <1>2, <1>3, Zenon

(* The batch is committed, all of it, or the commit fails.                 *)
LEMMA CommitStep == ASSUME Inv, Commit PROVE Inv'
<1>0. /\ proc = "handle" /\ todo = {} /\ proc' = "notify"
      /\ UNCHANGED <<remove, queue, requests, todo, batch, pc, result>>
      /\ \/ db' = db \o batch /\ batchErr' = batchErr
         \/ batchErr' = TRUE /\ db' = db
  BY Zenon DEF Commit
<1>1. batch \in Seq(Ops) /\ db \in Seq(Ops) /\ ~ batchErr /\ requests \in Seq(Callers)
  BY <1>0, Zenon DEF Inv, TypeOK, Phases
<1>2. CASE batchErr' = TRUE /\ db' = db
  BY <1>0, <1>1, <1>2, FlushFails, Zenon
<1>3. CASE db' = db \o batch /\ batchErr' = batchErr
  <2>0. \A c \in Callers : Handled(c) <=> Occurs(c, requests)
    BY <1>0, Zenon DEF Handled, Occurs
  <2>1. db' \in Seq(Ops) /\ ~ batchErr' /\ batch' = batch /\ requests' = requests
    BY <1>0, <1>1, <1>3, Concat, Zenon
  <2>2. TypeOK' /\ Phases'
    BY <1>0, <2>1, Zenon DEF Inv, TypeOK, Phases, remove
  <2>3. InOnePlace'
    BY <1>0, NoMove, Zenon
  <2>4. \A j \in DOMAIN batch : batch[j].by \in Callers /\ Occurs(batch[j].by, requests)
    <3>1. \A j \in DOMAIN batch : batch[j].by \in Callers
      BY <1>1, OpAuthor, Zenon
    <3>2. \A j \in DOMAIN batch : Handled(batch[j].by)
      BY <1>0, Zenon DEF Inv, Authors
    <3>3. QED
      BY <2>0, <3>1, <3>2, Zenon
  <2>5. \A j \in DOMAIN db : result[db[j].by] = "ok"
    BY <1>0, Zenon DEF Inv, Authors
  <2>6. Authors'
    <3>1. ASSUME NEW j \in DOMAIN db'
          PROVE  result[db'[j].by] = "ok" \/ Occurs(db'[j].by, requests)
      <4>1. \/ j \in DOMAIN db /\ db'[j] = db[j]
            \/ j - Len(db) \in DOMAIN batch /\ db'[j] = batch[j - Len(db)]
        BY <1>1, <1>3, Concat
      <4>2. QED
        BY <4>1, <2>4, <2>5, Zenon
    <3>2. QED
      BY <1>0, <2>1, <3>1, Zenon DEF Authors, Occurs
  <2>7. Whole'
    <3>1. ASSUME NEW c \in Callers PROVE Paired(c, db \o batch)
      <4>1. Paired(c, db) /\ Paired(c, batch)
        BY <1>0, Zenon DEF Inv, Whole
      <4>2. OpsOf(c, db) # {} => result[c] = "ok"
        BY <2>5, Zenon DEF OpsOf
      <4>3. OpsOf(c, batch) # {} => result[c] = "none"
        BY <2>4, Zenon DEF OpsOf, Inv, InOnePlace
      <4>4. QED
        BY <1>1, <4>1, <4>2, <4>3, PairedConcat, Zenon
    <3>2. QED
      BY <1>0, <1>3, <3>1, Zenon DEF Whole, Paired, OpsOf
  <2>8. Found'
    <3>1. \A c \in Callers : result[c] = "ok" => Holds(db', KeyOf[c])
      BY <1>1, <1>3, HoldsConcat, Zenon DEF Inv, Found
    <3>2. \A c \in Callers : Occurs(c, requests) => Holds(db', KeyOf[c])
      BY <1>0, <1>3, <2>0, Zenon DEF Inv, Found
    <3>3. QED
      BY <1>0, <2>1, <3>1, <3>2, Zenon DEF Found, Occurs, Holds
  <2>9. Absent'
    BY <1>0, <1>3, Zenon DEF Inv, Absent
  <2>10. QED
    BY <2>2, <2>3, <2>6, <2>7, <2>8, <2>9, Zenon DEF Inv
<1>4. QED
  BY <1>0, <1>2, <1>3, Zenon

(* A caller is told the outcome.                                           *)
LEMMA NotifyStep == ASSUME Inv, Notify PROVE Inv'
<1> DEFINE r == IF batchErr THEN "failed" ELSE "ok"
           h == Head(requests)
<1>0. /\ proc = "notify" /\ requests # <<>> /\ result' = [result EXCEPT ![h] = r]
      /\ requests' = Tail(requests)
      /\ UNCHANGED <<remove, queue, proc, todo, batchErr, batch, db, pc>>
  BY Zenon DEF Notify
<1>1. /\ requests \in Seq(Callers) /\ Distinct(requests) /\ todo = {}
      /\ result \in [Callers -> {"none", "unregistered", "stopped", "failed", "ok"}]
      /\ db \in Seq(Ops)
  BY <1>0, Zenon DEF Inv, TypeOK, Phases, InOnePlace
<1>2. /\ h \in Callers /\ requests' \in Seq(Callers) /\ Distinct(requests')
      /\ Occurs(h, requests)
      /\ \A c \in Callers : Occurs(c, requests') <=> Occurs(c, requests) /\ c # h
  BY <1>0, <1>1, TakeHead, Zenon
<1>3. result[h] = "none"
  BY <1>2, Zenon DEF Inv, InOnePlace
<1>4. \A c \in Callers : result'[c] = IF c = h THEN r ELSE result[c]
  BY <1>0, <1>1, Zenon
<1>5. result' \in [Callers -> {"none", "unregistered", "stopped", "failed", "ok"}]
  BY <1>0, <1>1, <1>2, Zenon
<1>6. TypeOK' /\ Phases'
  BY <1>0, <1>1, <1>2, <1>5, Zenon DEF Inv, TypeOK, Phases, remove
<1>7. InOnePlace'
  <2>1. Distinct(queue') /\ \A c \in Callers : Occurs(c, queue') <=> Occurs(c, queue)
    BY <1>0, Zenon DEF Inv, InOnePlace, Distinct, Occurs
  <2>2. pc[h] = "waiting"
    BY <1>2, Zenon DEF Inv, InOnePlace
  <2>3. ~ Occurs(h, queue)
    BY <1>2, Zenon DEF Inv, InOnePlace
  <2>4. QED
    BY <1>0, <1>2, <1>4, <2>1, <2>2, <2>3, Zenon DEF Inv, InOnePlace
<1>8. \A j \in DOMAIN db : db[j].by \in Callers
  BY <1>1, OpAuthor, Zenon
<1>9. Authors'
  <2>1. ASSUME NEW j \in DOMAIN db
        PROVE  result'[db[j].by] = "ok" \/ (~ batchErr /\ Occurs(db[j].by, requests'))
    <3>1. result[db[j].by] = "ok" \/ (~ batchErr /\ Occurs(db[j].by, requests))
      BY <2>1, Zenon DEF Inv, Authors
    <3>2. db[j].by \in Callers
      BY <1>8, <2>1, Zenon
    <3>3. QED
      BY <1>2, <1>3, <1>4, <3>1, <3>2, Zenon
  <2>2. QED
    BY <1>0, <2>1, Zenon DEF Authors, Occurs
<1>10. Whole'
  BY <1>0, Zenon DEF Inv, Whole
<1>11. Found'
  <2>1. \A c \in Callers : result'[c] = "ok" => Holds(db, KeyOf[c])
    BY <1>0, <1>2, <1>4 DEF Inv, Found
  <2>2. ~ batchErr => \A c \in Callers : Occurs(c, requests') => Holds(db, KeyOf[c])
    BY <1>0, <1>2, Zenon DEF Inv, Found
  <2>3. QED
    BY <1>0, <2>1, <2>2, Zenon DEF Found, Holds, Occurs
<1>12. Absent'
  BY <1>0, Zenon DEF Inv, Absent
<1>13. QED
  BY <1>6, <1>7, <1>9, <1>10, <1>11, <1>12, Zenon DEF Inv

(* flush returns with everybody told and the batch cleared.                *)
LEMMA FlushReturnStep == ASSUME Inv, FlushReturn PROVE Inv'
<1>0. /\ proc = "notify" /\ requests = <<>> /\ batch' = <<>> /\ batchErr' = FALSE
      /\ proc' = "check" /\ UNCHANGED <<remove, queue, requests, todo, db, pc, result>>
  BY Zenon DEF FlushReturn
<1>1. batch' \in Seq(Ops) /\ DOMAIN requests = {}
  BY <1>0, SMT
<1>2. TypeOK' /\ Phases'
  <2>1. TypeOK'
    BY <1>0, <1>1, Zenon DEF Inv, TypeOK, remove
  <2>2. Phases'
    BY <1>0, Zenon DEF Inv, Phases, remove
  <2>3. QED
    BY <2>1, <2>2, Zenon
<1>3. InOnePlace'
  BY <1>0, NoMove, Zenon
<1>4. Authors'
  BY <1>0, <1>1, Zenon DEF Inv, Authors, Occurs
<1>5. Whole'
  BY <1>0, Zenon DEF Inv, Whole
<1>6. Found'
  BY <1>0, Zenon DEF Inv, Found
<1>7. Absent'
  BY <1>0, Zenon DEF Inv, Absent
<1>8. QED
  BY <1>2, <1>3, <1>4, <1>5, <1>6, <1>7, Zenon DEF Inv

----------------------------------------------------------------------------
(* The theorems                                                            *)

(* The invariant holds initially: nothing is queued, staged or stored.     *)
LEMMA InitInv == Init => Inv
<1> SUFFICES ASSUME Init PROVE Inv
  BY Zenon
<1>1. /\ queue = <<>> /\ requests = <<>> /\ batch = <<>> /\ db = <<>> /\ todo = {}
      /\ DOMAIN queue = {} /\ DOMAIN requests = {} /\ DOMAIN batch = {} /\ DOMAIN db = {}
  BY DEF Init
<1>2. TypeOK
  <2>1. /\ queue \in Seq(Callers) /\ requests \in Seq(Callers)
        /\ batch \in Seq(Ops) /\ db \in Seq(Ops)
    BY <1>1, SMT
  <2>2. QED
    BY <2>1, Zenon DEF Init, TypeOK
<1>3. Phases
  BY Zenon DEF Init, Phases
<1>4. InOnePlace
  BY <1>1, Zenon DEF Init, InOnePlace, Distinct, Occurs
<1>5. Authors
  BY <1>1, Zenon DEF Init, Authors
<1>6. Whole
  BY <1>1, Zenon DEF Init, Whole, Paired, OpsOf
<1>7. Found
  BY Zenon DEF Init, Found
<1>8. Absent
  BY <1>1, Zenon DEF Init, Absent, NoOverwrite
<1>9. QED
  BY <1>2, <1>3, <1>4, <1>5, <1>6, <1>7, <1>8, Zenon DEF Inv

(* A step that changes nothing.                                            *)
LEMMA StutterStep == ASSUME Inv, UNCHANGED vars PROVE Inv'
<1>1. UNCHANGED <<registered, stopClosed, dbOpen, remover, queue, proc, requests, todo,
                  batchErr, batch, db, pc, result>>
  BY Zenon DEF vars
<1>2. TypeOK' /\ Phases'
  <2>1. TypeOK'
    BY <1>1, Zenon DEF Inv, TypeOK
  <2>2. Phases'
    BY <1>1, Zenon DEF Inv, Phases
  <2>3. QED
    BY <2>1, <2>2, Zenon
<1>3. InOnePlace'
  BY <1>1, NoMove, Zenon
<1>4. (Authors /\ Whole /\ Found /\ Absent)'
  BY <1>1, NoFlush, Zenon
<1>5. QED
  BY <1>2, <1>3, <1>4, Zenon DEF Inv

(* Every step of callers, processor and remover keeps the invariant.       *)
LEMMA Inductive == Inv /\ [Next]_vars => Inv'
<1> SUFFICES ASSUME Inv, [Next]_vars PROVE Inv'
  BY Zenon
<1>1. CASE AddDataBatch
  BY <1>1, AddDataBatchStep, Zenon
<1>2. CASE Processor
  BY <1>2, TakeFirstStep, StopStep, DrainStep, DrainOnStopStep, HandleRequestStep,
     CommitStep, NotifyStep, FlushReturnStep, Zenon DEF Processor
<1>3. CASE Remover
  BY <1>3, RemoverStep, Zenon
<1>4. ASSUME NEW c \in Callers, Caller(c) PROVE Inv'
  BY <1>4, SubmitRequestStep, DispatchSendStep, DispatchStoppedStep, ReceiveStep, Zenon
     DEF Caller
<1>5. CASE UNCHANGED vars
  BY <1>5, StutterStep, Zenon
<1>6. QED
  BY <1>1, <1>2, <1>3, <1>4, <1>5, Zenon DEF Next

(* The inductive invariant holds in every reachable state.                 *)
THEOREM BatchInvariant == Spec => []Inv
  BY InitInv, Inductive, PTL DEF Spec

(* The answer a caller gets is true of the database from then on: its key  *)
(* is there after nil, and nothing of its request is after an error.       *)
THEOREM AnswersAreTrue == Spec => []AnswerMatchesStore
<1>1. Inv => AnswerMatchesStore
  <2> SUFFICES ASSUME Inv, NEW c \in Callers
               PROVE  /\ result[c] = "ok" => Holds(db, KeyOf[c])
                      /\ result[c] \in {"failed", "stopped", "unregistered"} => OpsOf(c, db) = {}
    BY Zenon DEF AnswerMatchesStore
  <2>1. result[c] = "ok" => Holds(db, KeyOf[c])
    BY Zenon DEF Inv, Found
  <2>2. ASSUME result[c] \in {"failed", "stopped", "unregistered"}, NEW i \in OpsOf(c, db)
        PROVE  FALSE
    <3>1. i \in DOMAIN db /\ db[i].by = c
      BY Zenon DEF OpsOf
    <3>2. Occurs(c, requests)
      BY <2>2, <3>1, Zenon DEF Inv, Authors
    <3>3. QED
      BY <2>2, <3>2, Zenon DEF Inv, InOnePlace
  <2>3. QED
    BY <2>1, <2>2, Zenon
<1>2. QED
  BY <1>1, BatchInvariant, PTL

(* A consumer that looks its key up before it writes never overwrites,     *)
(* whether the other write is committed or earlier in its own batch.       *)
THEOREM LookersDoNotOverwrite == Spec => []PutIfAbsent
<1>1. Inv => PutIfAbsent
  BY Zenon DEF Inv, Absent, NoOverwrite, PutIfAbsent
<1>2. QED
  BY <1>1, BatchInvariant, PTL

(* closeDB does not pull the database away under a flush: whenever a step  *)
(* changes what is stored, db.Close has not been called.                   *)
THEOREM NoCommitAfterClose == Spec => CommitsOnOpenDb
<1>1. Inv /\ [Next]_vars => [db' # db => dbOpen]_vars
  <2> SUFFICES ASSUME Inv, Next, db' # db PROVE dbOpen
    BY Zenon
  <2>1. Commit
    BY Zenon DEF Next, Processor, Remover, Caller, AddDataBatch, TakeFirst, SeeStop, NoStop, Drain,
           DrainOnStop, HandleRequest, Notify, FlushReturn, RemoveBatch, StopClose, StopWait,
           SubmitRequest, DispatchSend, DispatchStopped, Receive
  <2>2. QED
    BY <2>1, Zenon DEF Commit, Inv, Phases
<1>2. QED
  BY <1>1, BatchInvariant, PTL DEF Spec, CommitsOnOpenDb

(* No partial commit is ever made, for any number of callers and any batch *)
(* size: of the operations of one consumer the database has all or none.   *)
THEOREM CommitsAreWhole == Spec => []AllOrNothing
<1>1. Inv => AllOrNothing
  <2> SUFFICES ASSUME Inv, NEW c \in Callers PROVE Cardinality(OpsOf(c, db)) \in {0, 2}
    BY Zenon DEF AllOrNothing
  <2>1. Paired(c, db) /\ db \in Seq(Ops)
    BY Zenon DEF Inv, Whole, TypeOK
  <2>2. CASE OpsOf(c, db) = {}
    BY <2>2, FS_EmptySet, Zenon
  <2>3. CASE \E i \in DOMAIN db : OpsOf(c, db) = {i, i + 1}
    <3>1. PICK i \in DOMAIN db : OpsOf(c, db) = {i, i + 1}
      BY <2>3, Zenon
    <3>2. i \in Int /\ i # i + 1
      BY <2>1, SMT
    <3>3. IsFiniteSet({i}) /\ Cardinality({i}) = 1
      BY FS_Singleton, Zenon
    <3>4. i + 1 \notin {i}
      BY <3>2, SMT
    <3>5. Cardinality({i} \cup {i + 1}) = 1 + 1
      BY <3>3, <3>4, FS_AddElement, Zenon
    <3>6. {i, i + 1} = {i} \cup {i + 1} /\ 1 + 1 = 2
      OBVIOUS
    <3>7. QED
      BY <3>1, <3>5, <3>6, Zenon
  <2>4. QED
    BY <2>1, <2>2, <2>3, Zenon DEF Paired
<1>2. QED
  BY <1>1, BatchInvariant, PTL

----------------------------------------------------------------------------
(* Least and greatest elements                                             *)

(* A set of naturals that is not empty has its least element.              *)
LEMMA MinNat ==
  ASSUME NEW S, S \subseteq Nat, S # {}
  PROVE  \E x \in S : \A y \in S : x <= y
<1> DEFINE R == OpToRel(<, Nat)
<1>1. IsWellFoundedOn(R, Nat)
  BY NatLessThanWellFounded, Zenon
<1>2. \A x, y \in Nat : x < y => <<x, y>> \in R
  BY Zenon DEF OpToRel
<1> HIDE DEF R
<1>3. PICK x \in S : \A y \in S : ~(<<y, x>> \in R)
  BY <1>1, WFMin, Zenon
<1>4. ASSUME NEW y \in S PROVE x <= y
  <2>1. x \in Nat /\ y \in Nat
    BY Zenon
  <2>2. ~(y < x)
    BY <1>2, <1>3, <2>1, Zenon
  <2> QED BY <2>1, <2>2
<1> QED BY <1>4, Zenon

(* And its greatest, if it is bounded.                                     *)
LEMMA MaxNat ==
  ASSUME NEW S, S \subseteq Nat, S # {}, NEW n \in Nat, \A x \in S : x <= n
  PROVE  \E x \in S : \A y \in S : y <= x
<1> DEFINE D == {d \in 0 .. n : n - d \in S}
<1>1. \A x \in S : n - x \in D
  <2> TAKE x \in S
  <2>1. x \in Nat /\ x <= n
    BY Zenon
  <2>2. n - (n - x) = x /\ n - x \in 0 .. n
    BY <2>1
  <2> QED BY <2>2, Zenon
<1>2. D \subseteq Nat /\ D # {}
  <2>1. D \subseteq Nat
    OBVIOUS
  <2> QED BY <1>1, <2>1, Zenon
<1>3. PICK d \in D : \A y \in D : d <= y
  BY <1>2, MinNat, Zenon
<1>4. n - d \in S /\ d \in Nat
  BY <1>2
<1>5. ASSUME NEW y \in S PROVE y <= n - d
  <2>1. d <= n - y
    BY <1>1, <1>3, Zenon
  <2> QED BY <1>4, <2>1
<1> QED BY <1>4, <1>5, Zenon

----------------------------------------------------------------------------
(* The metadata batch                                                      *)

Contents == Metas \cup {None}

----------------------------------------------------------------------------
(* The inductive invariant                                                 *)

BatchInv ==
    /\ stored \in [MetaKeys -> Contents] /\ view \in [MetaKeys -> Contents]
    /\ latest \in [Objects -> Contents] /\ durable \in [Objects -> Contents]
    /\ failed \in BOOLEAN
    /\ NoCoexistence /\ GetIsLatest

(* FiniteSetsExt's Max of a set of naturals that is bounded.               *)
LEMMA MaxIs ==
  ASSUME NEW S, S \subseteq Nat, S # {}, NEW n \in Nat, \A x \in S : x <= n
  PROVE  Max(S) \in S /\ \A y \in S : Max(S) >= y
<1>1. \E x \in S : \A y \in S : y <= x
  BY MaxNat, Zenon
<1>2. PICK x \in S : \A y \in S : x >= y
  BY <1>1
<1> QED BY <1>2, Zenon DEF Max

----------------------------------------------------------------------------
(* Keys and writes                                                         *)

Entries == [key : MetaKeys, value : Contents]
WriteSeqs == Seq(Entries)

\* The write at i is the last one of its key.
LastWrite(w, i) == \A j \in DOMAIN w : j > i => w[j].key # w[i].key

(* The keys of an object are different, and differ from another's.         *)
LEMMA KeyFacts ==
  /\ \A o \in Objects : Plain(o) \in MetaKeys /\ getDeleteMarkKey(o) \in MetaKeys /\ TransferKey(o) \in MetaKeys
  /\ \A o, p \in Objects :
        /\ Plain(o) # getDeleteMarkKey(p) /\ Plain(o) # TransferKey(p)
        /\ getDeleteMarkKey(o) # TransferKey(p)
        /\ Plain(o) = Plain(p) => o = p
        /\ getDeleteMarkKey(o) = getDeleteMarkKey(p) => o = p
  BY Zenon DEF Plain, getDeleteMarkKey, TransferKey, MetaKeys

(* What a Delete and a Set write.                                          *)
LEMMA WriteFacts ==
  /\ \A k : Del(k).key = k /\ Del(k).value = None
  /\ \A k, v : Set(k, v).key = k /\ Set(k, v).value = v
  /\ \A k \in MetaKeys : Del(k) \in Entries
  /\ \A k \in MetaKeys : \A v \in Contents : Set(k, v) \in Entries
  BY DEF Del, Set, Entries, Contents

(* A write has a key and a value or None.                                  *)
LEMMA EntryFacts ==
  ASSUME NEW w \in WriteSeqs
  PROVE  /\ Len(w) \in Nat /\ DOMAIN w = 1 .. Len(w)
         /\ \A i \in DOMAIN w : w[i].key \in MetaKeys /\ w[i].value \in Contents
<1>1. Len(w) \in Nat /\ DOMAIN w = 1 .. Len(w) /\ \A i \in DOMAIN w : w[i] \in Entries
  BY DEF WriteSeqs
<1> QED BY <1>1, Zenon DEF Entries

(* What a batch reads under a key: its last write, or the database.        *)
LEMMA ApplyReads ==
  ASSUME NEW st, NEW w \in WriteSeqs, NEW k \in MetaKeys
  PROVE  /\ (\A i \in DOMAIN w : w[i].key # k) => Apply(st, w)[k] = st[k]
         /\ \A i \in DOMAIN w : w[i].key = k /\ LastWrite(w, i) => Apply(st, w)[k] = w[i].value
         /\ \/ \A i \in DOMAIN w : w[i].key # k
            \/ \E i \in DOMAIN w : w[i].key = k /\ LastWrite(w, i)
<1> DEFINE hits == {i \in DOMAIN w : w[i].key = k}
<1>1. Apply(st, w)[k] = IF hits = {} THEN st[k] ELSE w[Max(hits)].value
  BY Zenon DEF Apply
<1>2. Len(w) \in Nat /\ DOMAIN w = 1 .. Len(w)
  BY DEF WriteSeqs
<1>3. ASSUME hits # {} PROVE Max(hits) \in hits /\ \A y \in hits : Max(hits) >= y
  <2>1. hits \subseteq Nat /\ \A x \in hits : x <= Len(w)
    BY <1>2
  <2> HIDE DEF hits
  <2> QED BY <1>2, <1>3, <2>1, MaxIs, Zenon
<1>4. ASSUME hits # {} PROVE LastWrite(w, Max(hits)) /\ Max(hits) \in DOMAIN w /\ w[Max(hits)].key = k
  <2> DEFINE m == Max(hits)
  <2>1. m \in DOMAIN w /\ w[m].key = k /\ \A y \in hits : m >= y
    BY <1>3, <1>4, Zenon
  <2> HIDE DEF m
  <2>2. ASSUME NEW j \in DOMAIN w, j > m PROVE w[j].key # w[m].key
    <3>1. ~(m >= j)
      BY <1>2, <2>1, <2>2
    <3> QED BY <2>1, <3>1, Zenon
  <2> QED BY <2>1, <2>2, Zenon DEF LastWrite, m
<1>5. ASSUME NEW i \in DOMAIN w, w[i].key = k, LastWrite(w, i) PROVE Apply(st, w)[k] = w[i].value
  <2>1. hits # {} /\ i \in hits
    BY <1>5, Zenon
  <2>2. Max(hits) \in DOMAIN w /\ w[Max(hits)].key = k /\ Max(hits) >= i
    BY <1>3, <2>1, Zenon
  <2>3. ~(Max(hits) > i)
    BY <1>5, <2>2, Zenon DEF LastWrite
  <2> HIDE DEF hits
  <2>4. Max(hits) = i
    BY <1>2, <2>2, <2>3
  <2> QED BY <1>1, <2>1, <2>4, Zenon
<1>6. (\A i \in DOMAIN w : w[i].key # k) => hits = {}
  BY Zenon
<1>7. hits = {} => \A i \in DOMAIN w : w[i].key # k
  BY Zenon
<1> QED BY <1>1, <1>4, <1>5, <1>6, <1>7, Zenon

(* A batch with more writes is a store again.                              *)
LEMMA ApplyType ==
  ASSUME NEW st \in [MetaKeys -> Contents], NEW w \in WriteSeqs
  PROVE  Apply(st, w) \in [MetaKeys -> Contents]
<1>1. ASSUME NEW k \in MetaKeys PROVE Apply(st, w)[k] \in Contents
  <2>1. \A i \in DOMAIN w : w[i].value \in Contents
    BY EntryFacts, Zenon
  <2>2. (\A i \in DOMAIN w : w[i].key # k) => Apply(st, w)[k] = st[k]
    BY ApplyReads, SMTT(30)
  <2>3. \A i \in DOMAIN w : w[i].key = k /\ LastWrite(w, i) => Apply(st, w)[k] = w[i].value
    BY ApplyReads
  <2>4. \/ \A i \in DOMAIN w : w[i].key # k
        \/ \E i \in DOMAIN w : w[i].key = k /\ LastWrite(w, i)
    BY ApplyReads, Zenon
  <2> QED BY <2>1, <2>2, <2>3, <2>4, Zenon
<1>2. Apply(st, w) = [k \in MetaKeys |-> Apply(st, w)[k]]
  BY Zenon DEF Apply
<1> QED BY <1>1, <1>2, Zenon

----------------------------------------------------------------------------
(* What the writes of a request have in common                             *)

\* A value is put for an object only after both of its keys are deleted.
Tidy(w) ==
    \A o \in Objects : \A i \in DOMAIN w :
       w[i].key \in {Plain(o), getDeleteMarkKey(o)} /\ w[i].value # None =>
          i > 2 /\ w[i - 2] = Del(getDeleteMarkKey(o)) /\ w[i - 1] = Del(Plain(o))

\* The writes leave an object alone, or v is read for it after them.
Untouched(w, o) == \A i \in DOMAIN w : w[i].key \notin {Plain(o), getDeleteMarkKey(o)}

Gives(w, o, v) ==
    \E i, j \in DOMAIN w :
       /\ w[i].key = Plain(o) /\ LastWrite(w, i)
       /\ w[j].key = getDeleteMarkKey(o) /\ LastWrite(w, j)
       /\ v = IF w[i].value # None THEN w[i].value ELSE w[j].value

Apart(st, o) == st[Plain(o)] = None \/ st[getDeleteMarkKey(o)] = None

(* Of the last writes of an object's two keys one is a Delete.             *)
LEMMA TidyLast ==
  ASSUME NEW w \in WriteSeqs, Tidy(w), NEW o \in Objects, NEW i \in DOMAIN w, NEW j \in DOMAIN w,
         w[i].key = Plain(o), LastWrite(w, i), w[j].key = getDeleteMarkKey(o), LastWrite(w, j)
  PROVE  w[i].value = None \/ w[j].value = None
<1> SUFFICES ASSUME w[i].value # None, w[j].value # None PROVE FALSE
  OBVIOUS
<1>1. DOMAIN w = 1 .. Len(w) /\ Len(w) \in Nat /\ i \in Nat /\ j \in Nat
  BY EntryFacts
<1>2. /\ i > 2 /\ w[i - 2] = Del(getDeleteMarkKey(o)) /\ w[i - 1] = Del(Plain(o))
      /\ j > 2 /\ w[j - 1] = Del(Plain(o))
  BY Zenon DEF Tidy
<1>3. i - 2 \in DOMAIN w /\ i - 1 \in DOMAIN w /\ j - 1 \in DOMAIN w
  BY <1>1, <1>2
<1>4. /\ w[i - 2].key = getDeleteMarkKey(o) /\ w[i - 2].value = None
      /\ w[i - 1].key = Plain(o) /\ w[j - 1].key = Plain(o) /\ w[j - 1].value = None
  BY <1>2, WriteFacts, Zenon
<1>5. ~(i - 2 > j) /\ ~(j - 1 > i)
  BY <1>3, <1>4, Zenon DEF LastWrite
<1>6. Plain(o) # getDeleteMarkKey(o)
  BY KeyFacts, Zenon
<1>7. j # i /\ j # i - 1 /\ j # i - 2 /\ j - 1 # i
  BY <1>4, <1>6, Zenon
<1> QED BY <1>1, <1>5, <1>7

(* Such writes, all or some of them, keep the keys of an object apart.     *)
LEMMA TidyKeepsApart ==
  ASSUME NEW st, NEW w \in WriteSeqs, Tidy(w), NEW o \in Objects, Apart(st, o)
  PROVE  Apart(Apply(st, w), o)
<1> DEFINE P == Plain(o)
           D == getDeleteMarkKey(o)
           s == Apply(st, w)
<1>1. P \in MetaKeys /\ D \in MetaKeys
  BY KeyFacts, ZenonT(60)
<1>2. \A k \in MetaKeys : (\A i \in DOMAIN w : w[i].key # k) => s[k] = st[k]
  BY ApplyReads, SMTT(30)
<1>3. \A k \in MetaKeys : \A i \in DOMAIN w : w[i].key = k /\ LastWrite(w, i) => s[k] = w[i].value
  BY ApplyReads
<1>4. \A k \in MetaKeys : \/ \A i \in DOMAIN w : w[i].key # k
                      \/ \E i \in DOMAIN w : w[i].key = k /\ LastWrite(w, i)
  BY ApplyReads, Zenon
<1>5. DOMAIN w = 1 .. Len(w) /\ Len(w) \in Nat
  BY EntryFacts
<1> HIDE DEF s
<1>6. ASSUME NEW i \in DOMAIN w, w[i].key \in {P, D}, w[i].value # None
      PROVE  /\ \E j \in DOMAIN w : w[j].key = P
             /\ \E j \in DOMAIN w : w[j].key = D
  <2>1. i > 2 /\ w[i - 2] = Del(D) /\ w[i - 1] = Del(P)
    BY <1>6, Zenon DEF Tidy
  <2>2. i - 2 \in DOMAIN w /\ i - 1 \in DOMAIN w
    BY <1>5, <2>1
  <2>3. w[i - 2].key = D /\ w[i - 1].key = P
    BY <2>1, WriteFacts, Zenon
  <2> QED BY <2>2, <2>3, Zenon
<1>7. CASE \A i \in DOMAIN w : w[i].key # P /\ w[i].key # D
  <2>1. s[P] = st[P] /\ s[D] = st[D]
    BY <1>1, <1>2, <1>7, Zenon
  <2> QED BY <2>1, Zenon DEF Apart, s
<1>8. ASSUME NEW i \in DOMAIN w, w[i].key = P, LastWrite(w, i), w[i].value = None PROVE s[P] = None
  BY <1>1, <1>3, <1>8, Zenon
<1>9. ASSUME NEW i \in DOMAIN w, w[i].key = D, LastWrite(w, i), w[i].value = None PROVE s[D] = None
  BY <1>1, <1>3, <1>9, Zenon
<1>10. CASE \E i \in DOMAIN w : w[i].key \in {P, D}
  <2>1. CASE \A i \in DOMAIN w : w[i].key # D
    <3>1. PICK i \in DOMAIN w : w[i].key = P /\ LastWrite(w, i)
      BY <1>1, <1>4, <1>10, <2>1, Zenon
    <3> QED BY <1>6, <1>8, <2>1, <3>1, Zenon DEF Apart, s
  <2>2. CASE \A i \in DOMAIN w : w[i].key # P
    <3>1. PICK i \in DOMAIN w : w[i].key = D /\ LastWrite(w, i)
      BY <1>1, <1>4, <1>10, <2>2, Zenon
    <3> QED BY <1>6, <1>9, <2>2, <3>1, Zenon DEF Apart, s
  <2>3. CASE (\E i \in DOMAIN w : w[i].key = P) /\ (\E i \in DOMAIN w : w[i].key = D)
    <3>1. PICK i \in DOMAIN w : w[i].key = P /\ LastWrite(w, i)
      BY <1>1, <1>4, <2>3, Zenon
    <3>2. PICK j \in DOMAIN w : w[j].key = D /\ LastWrite(w, j)
      BY <1>1, <1>4, <2>3, Zenon
    <3>3. w[i].value = None \/ w[j].value = None
      BY <3>1, <3>2, TidyLast, Zenon
    <3> QED BY <1>8, <1>9, <3>1, <3>2, <3>3, Zenon DEF Apart, s
  <2> QED BY <2>1, <2>2, <2>3, Zenon
<1> QED BY <1>7, <1>10, Zenon

(* The first n writes of tidy writes are tidy.                             *)
LEMMA TidyPrefix ==
  ASSUME NEW w \in WriteSeqs, Tidy(w), NEW n \in 0 .. Len(w) - 1
  PROVE  SubSeq(w, 1, n) \in WriteSeqs /\ Tidy(SubSeq(w, 1, n))
<1> DEFINE u == SubSeq(w, 1, n)
<1>1. /\ u \in WriteSeqs /\ DOMAIN u = 1 .. n /\ n \in Nat /\ \A i \in 1 .. n : u[i] = w[i]
      /\ DOMAIN w = 1 .. Len(w) /\ \A i \in 1 .. n : i \in DOMAIN w
  BY DEF WriteSeqs
<1> HIDE DEF u
<1>2. ASSUME NEW o \in Objects, NEW i \in DOMAIN u,
             u[i].key \in {Plain(o), getDeleteMarkKey(o)}, u[i].value # None
      PROVE  i > 2 /\ u[i - 2] = Del(getDeleteMarkKey(o)) /\ u[i - 1] = Del(Plain(o))
  <2>1. u[i] = w[i] /\ i \in DOMAIN w
    BY <1>1, Zenon
  <2>2. i > 2 /\ w[i - 2] = Del(getDeleteMarkKey(o)) /\ w[i - 1] = Del(Plain(o))
    BY <1>2, <2>1, Zenon DEF Tidy
  <2>3. i - 2 \in 1 .. n /\ i - 1 \in 1 .. n
    BY <1>1, <2>2
  <2> QED BY <1>1, <2>2, <2>3, Zenon
<1> QED BY <1>1, <1>2, ZenonT(60) DEF Tidy, u

(* What is read after writes that give an object v, or leave it alone.     *)
LEMMA GivesRead ==
  ASSUME NEW st, NEW w \in WriteSeqs, NEW o \in Objects
  PROVE  /\ Untouched(w, o) => getFromBatchAndDB(Apply(st, w), o) = getFromBatchAndDB(st, o)
         /\ \A v : Gives(w, o, v) => getFromBatchAndDB(Apply(st, w), o) = v
<1> DEFINE P == Plain(o)
           D == getDeleteMarkKey(o)
           s == Apply(st, w)
<1>1. P \in MetaKeys /\ D \in MetaKeys
  BY KeyFacts, Zenon
<1>2. \A k \in MetaKeys : (\A i \in DOMAIN w : w[i].key # k) => s[k] = st[k]
  BY ApplyReads, SMTT(30)
<1>3. \A k \in MetaKeys : \A i \in DOMAIN w : w[i].key = k /\ LastWrite(w, i) => s[k] = w[i].value
  BY ApplyReads
<1> HIDE DEF s
<1>4. ASSUME Untouched(w, o) PROVE getFromBatchAndDB(s, o) = getFromBatchAndDB(st, o)
  <2>1. s[P] = st[P] /\ s[D] = st[D]
    BY <1>1, <1>2, <1>4, Zenon DEF Untouched
  <2> QED BY <2>1, Zenon DEF getFromBatchAndDB
<1>5. ASSUME NEW v, Gives(w, o, v) PROVE getFromBatchAndDB(s, o) = v
  <2>1. PICK i, j \in DOMAIN w :
           /\ w[i].key = P /\ LastWrite(w, i)
           /\ w[j].key = D /\ LastWrite(w, j)
           /\ v = IF w[i].value # None THEN w[i].value ELSE w[j].value
    BY <1>5, Zenon DEF Gives
  <2>2. s[P] = w[i].value /\ s[D] = w[j].value
    BY <1>1, <1>3, <2>1, Zenon
  <2> QED BY <2>1, <2>2, Zenon DEF getFromBatchAndDB
<1> QED BY <1>4, <1>5, Zenon DEF s

----------------------------------------------------------------------------
(* Steps                                                                   *)

(* A request whose writes are tidy and give the outcome preserves the      *)
(* invariant, whether all its writes succeed or only some.                 *)
LEMMA HandleStep ==
  ASSUME BatchInv, NEW w \in WriteSeqs, Tidy(w), NEW outcome \in [Objects -> Contents],
         \A o \in Objects : \/ Untouched(w, o) /\ outcome[o] = latest[o]
                            \/ Gives(w, o, outcome[o]),
         Handle(w, outcome)
  PROVE  BatchInv'
<1>1. /\ stored' = stored /\ durable' = durable /\ ~ failed
      /\ view \in [MetaKeys -> Contents] /\ \A o \in Objects : Apart(stored, o) /\ Apart(view, o)
  BY Zenon DEF Handle, BatchInv, NoCoexistence, Apart
<1>2. \A o \in Objects : getFromBatchAndDB(stored, o) = durable[o] /\ getFromBatchAndDB(view, o) = latest[o]
  BY <1>1, Zenon DEF BatchInv, GetIsLatest
<1>3. CASE view' = Apply(view, w) /\ latest' = outcome /\ UNCHANGED failed
  <2>1. view' \in [MetaKeys -> Contents]
    BY <1>1, <1>3, ApplyType, Zenon
  <2>2. \A o \in Objects : Apart(view', o)
    BY <1>1, <1>3, TidyKeepsApart, ZenonT(60)
  <2>3. \A o \in Objects : getFromBatchAndDB(view', o) = latest'[o]
    BY <1>2, <1>3, GivesRead
  <2> QED BY <1>1, <1>2, <1>3, <2>1, <2>2, <2>3, ZenonT(60) DEF BatchInv, NoCoexistence, GetIsLatest, Apart
<1>4. ASSUME NEW n \in 0 .. Len(w) - 1, view' = Apply(view, SubSeq(w, 1, n)), failed' = TRUE,
             UNCHANGED latest
      PROVE  BatchInv'
  <2>1. SubSeq(w, 1, n) \in WriteSeqs /\ Tidy(SubSeq(w, 1, n))
    BY TidyPrefix, Zenon
  <2>2. view' \in [MetaKeys -> Contents]
    BY <1>1, <1>4, <2>1, ApplyType, Zenon
  <2>3. \A o \in Objects : Apart(view', o)
    BY <1>1, <1>4, <2>1, TidyKeepsApart, Zenon
  <2> QED BY <1>1, <1>2, <1>4, <2>2, <2>3, Zenon DEF BatchInv, NoCoexistence, GetIsLatest, Apart
<1> QED BY <1>3, <1>4, Zenon DEF Handle

(* The three writes of a put, and the key it puts under.                   *)
PutKey(o, v) == IF isDeleteMarker(v) THEN getDeleteMarkKey(o) ELSE Plain(o)

LEMMA OperationFacts ==
  ASSUME NEW o \in Objects
  PROVE  /\ delete(o) \in WriteSeqs /\ Len(delete(o)) = 2
         /\ delete(o)[1] = Del(getDeleteMarkKey(o)) /\ delete(o)[2] = Del(Plain(o))
         /\ \A v \in Metas :
              /\ put(o, v) \in WriteSeqs /\ Len(put(o, v)) = 3
              /\ put(o, v)[1] = Del(getDeleteMarkKey(o)) /\ put(o, v)[2] = Del(Plain(o))
              /\ put(o, v)[3] = Set(PutKey(o, v), v)
              /\ TransferAndPut(o, v) \in WriteSeqs /\ Len(TransferAndPut(o, v)) = 3
              /\ TransferAndPut(o, v)[1] = Del(getDeleteMarkKey(o))
              /\ TransferAndPut(o, v)[2] = Del(Plain(o))
              /\ TransferAndPut(o, v)[3] = Set(TransferKey(o), v)
<1> DEFINE a == Del(getDeleteMarkKey(o))
           b == Del(Plain(o))
<1>1. a \in Entries /\ b \in Entries
  BY KeyFacts, WriteFacts, Zenon
<1>2. \A v \in Metas : /\ Set(PutKey(o, v), v) \in Entries /\ Set(TransferKey(o), v) \in Entries
  BY KeyFacts, WriteFacts, Zenon DEF PutKey, Contents
<1>3. /\ delete(o) = <<a, b>>
      /\ \A v : put(o, v) = <<a, b>> \o <<Set(PutKey(o, v), v)>>
      /\ \A v : TransferAndPut(o, v) = <<a, b>> \o <<Set(TransferKey(o), v)>>
  BY Zenon DEF delete, put, TransferAndPut, PutKey
<1>4. /\ <<a, b>> \in Seq(Entries) /\ Len(<<a, b>>) = 2 /\ <<a, b>>[1] = a /\ <<a, b>>[2] = b
  BY <1>1
<1> HIDE DEF a, b
<1>5. ASSUME NEW c \in Entries
      PROVE  /\ <<a, b>> \o <<c>> \in Seq(Entries) /\ Len(<<a, b>> \o <<c>>) = 3
             /\ (<<a, b>> \o <<c>>)[1] = a /\ (<<a, b>> \o <<c>>)[2] = b
             /\ (<<a, b>> \o <<c>>)[3] = c
  BY <1>1
<1>6. delete(o) \in WriteSeqs /\ Len(delete(o)) = 2 /\ delete(o)[1] = a /\ delete(o)[2] = b
  BY <1>3, <1>4, Zenon DEF WriteSeqs
<1>7. ASSUME NEW v \in Metas
      PROVE  /\ put(o, v) \in WriteSeqs /\ Len(put(o, v)) = 3
             /\ put(o, v)[1] = a /\ put(o, v)[2] = b /\ put(o, v)[3] = Set(PutKey(o, v), v)
  <2> DEFINE c == Set(PutKey(o, v), v)
  <2>1. c \in Entries /\ put(o, v) = <<a, b>> \o <<c>>
    BY <1>2, <1>3, Zenon
  <2> HIDE DEF c
  <2> QED BY <1>5, <2>1, Zenon DEF WriteSeqs, c
<1>8. ASSUME NEW v \in Metas
      PROVE  /\ TransferAndPut(o, v) \in WriteSeqs /\ Len(TransferAndPut(o, v)) = 3
             /\ TransferAndPut(o, v)[1] = a /\ TransferAndPut(o, v)[2] = b
             /\ TransferAndPut(o, v)[3] = Set(TransferKey(o), v)
  <2> DEFINE c == Set(TransferKey(o), v)
  <2>1. c \in Entries /\ TransferAndPut(o, v) = <<a, b>> \o <<c>>
    BY <1>2, <1>3, Zenon
  <2> HIDE DEF c
  <2> QED BY <1>5, <2>1, Zenon DEF WriteSeqs, c
<1> QED BY <1>6, <1>7, <1>8, Zenon DEF a, b

----------------------------------------------------------------------------
(* Several puts                                                            *)

\* w holds the writes of the puts of these pairs, one after another.
Puts(w, pairs, n) ==
    /\ w \in WriteSeqs /\ Len(w) = 3 * n
    /\ \A g \in 1 .. n :
          /\ w[3 * g - 2] = Del(getDeleteMarkKey(pairs[g].obj))
          /\ w[3 * g - 1] = Del(Plain(pairs[g].obj))
          /\ w[3 * g] = Set(PutKey(pairs[g].obj, pairs[g].value), pairs[g].value)

(* A position is one of the three of a put.                                *)
LEMMA BlockOfThree ==
  ASSUME NEW n \in Nat, NEW i \in 1 .. 3 * n
  PROVE  \E g \in 1 .. n : i = 3 * g - 2 \/ i = 3 * g - 1 \/ i = 3 * g
<1> DEFINE g == ((i - 1) \div 3) + 1
<1>1. g \in 1 .. n /\ (i = 3 * g - 2 \/ i = 3 * g - 1 \/ i = 3 * g)
  OBVIOUS
<1> QED BY <1>1, Zenon

(* A write under a key of an object belongs to a put of that object.       *)
LEMMA PutsOwn ==
  ASSUME NEW n \in Nat, NEW pairs \in [1 .. n -> Pairs], NEW w, Puts(w, pairs, n),
         NEW o \in Objects, NEW i \in DOMAIN w, w[i].key \in {Plain(o), getDeleteMarkKey(o)}
  PROVE  \E g \in 1 .. n : /\ pairs[g].obj = o
                           /\ \/ i = 3 * g - 2 /\ w[i].value = None
                              \/ i = 3 * g - 1 /\ w[i].value = None
                              \/ i = 3 * g
<1>1. w \in WriteSeqs /\ Len(w) = 3 * n
  BY Zenon DEF Puts
<1>2. i \in 1 .. 3 * n
  BY <1>1, EntryFacts
<1>3. PICK g \in 1 .. n : i = 3 * g - 2 \/ i = 3 * g - 1 \/ i = 3 * g
  BY <1>2, BlockOfThree, Zenon
<1> DEFINE p == pairs[g].obj
           v == pairs[g].value
<1>4. p \in Objects /\ v \in Metas
  <2>1. pairs[g] \in Pairs
    BY Zenon
  <2> QED BY <2>1, Zenon DEF Pairs
<1>5. /\ w[3 * g - 2] = Del(getDeleteMarkKey(p))
      /\ w[3 * g - 1] = Del(Plain(p))
      /\ w[3 * g] = Set(PutKey(p, v), v)
  BY Zenon DEF Puts
<1> HIDE DEF p, v
<1>6. PutKey(p, v) \in {Plain(p), getDeleteMarkKey(p)}
  BY Zenon DEF PutKey
<1>7. w[i].key \in {Plain(p), getDeleteMarkKey(p)}
  <2>1. CASE i = 3 * g - 2
    BY <1>5, <2>1, WriteFacts, Zenon
  <2>2. CASE i = 3 * g - 1
    BY <1>5, <2>2, WriteFacts, Zenon
  <2>3. CASE i = 3 * g
    <3>1. w[i].key = PutKey(p, v)
      BY <1>5, <2>3 DEF Set
    <3> QED BY <1>6, <3>1, ZenonT(60)
  <2> QED BY <1>3, <2>1, <2>2, <2>3, Zenon
<1>8. p = o
  BY <1>4, <1>7, KeyFacts, Zenon
<1>9. (i = 3 * g - 2 \/ i = 3 * g - 1) => w[i].value = None
  <2>1. CASE i = 3 * g - 2
    BY <1>5, <2>1, WriteFacts, Zenon
  <2>2. CASE i = 3 * g - 1
    BY <1>5, <2>2, WriteFacts, Zenon
  <2> QED BY <2>1, <2>2, Zenon
<1> QED BY <1>3, <1>8, <1>9, Zenon DEF p

(* Puts are tidy.                                                          *)
LEMMA PutsTidy ==
  ASSUME NEW n \in Nat, NEW pairs \in [1 .. n -> Pairs], NEW w, Puts(w, pairs, n)
  PROVE  Tidy(w)
<1> SUFFICES ASSUME NEW o \in Objects, NEW i \in DOMAIN w,
                    w[i].key \in {Plain(o), getDeleteMarkKey(o)}, w[i].value # None
             PROVE  i > 2 /\ w[i - 2] = Del(getDeleteMarkKey(o)) /\ w[i - 1] = Del(Plain(o))
  BY Zenon DEF Tidy
<1>1. PICK g \in 1 .. n : pairs[g].obj = o /\ i = 3 * g
  <2>1. \E g \in 1 .. n : /\ pairs[g].obj = o
                             /\ \/ i = 3 * g - 2 /\ w[i].value = None
                                \/ i = 3 * g - 1 /\ w[i].value = None
                                \/ i = 3 * g
    BY PutsOwn
  <2> QED BY <2>1, Zenon
<1>2. w[3 * g - 2] = Del(getDeleteMarkKey(o)) /\ w[3 * g - 1] = Del(Plain(o))
  BY <1>1, Zenon DEF Puts
<1>3. i > 2 /\ i - 2 = 3 * g - 2 /\ i - 1 = 3 * g - 1
  BY <1>1
<1> QED BY <1>2, <1>3, Zenon

(* The last put of an object is what is read for it.                       *)
LEMMA PutsGive ==
  ASSUME NEW n \in Nat, NEW pairs \in [1 .. n -> Pairs], NEW w, Puts(w, pairs, n),
         NEW o \in Objects, NEW g \in 1 .. n, pairs[g].obj = o,
         \A h \in 1 .. n : pairs[h].obj = o => g >= h
  PROVE  Gives(w, o, pairs[g].value)
<1> DEFINE v == pairs[g].value
           P == Plain(o)
           D == getDeleteMarkKey(o)
<1>1. v \in Metas /\ v # None
  <2>1. pairs[g] \in Pairs
    BY Zenon
  <2> QED BY <2>1, WriteBatchAssumption, Zenon DEF Pairs, Metas
<1>2. w[3 * g - 2] = Del(D) /\ w[3 * g - 1] = Del(P) /\ w[3 * g] = Set(PutKey(o, v), v)
  BY Zenon DEF Puts
<1>3. 3 * g - 2 \in DOMAIN w /\ 3 * g - 1 \in DOMAIN w /\ 3 * g \in DOMAIN w
  BY EntryFacts DEF Puts
<1>4. \A i \in DOMAIN w : w[i].key \in {P, D} => ~(i > 3 * g)
  <2> SUFFICES ASSUME NEW i \in DOMAIN w, w[i].key \in {P, D} PROVE ~(i > 3 * g)
    BY Zenon
  <2>1. PICK h \in 1 .. n : pairs[h].obj = o /\ (i = 3 * h - 2 \/ i = 3 * h - 1 \/ i = 3 * h)
    <3>1. \E h \in 1 .. n : /\ pairs[h].obj = o
                             /\ \/ i = 3 * h - 2 /\ w[i].value = None
                                \/ i = 3 * h - 1 /\ w[i].value = None
                                \/ i = 3 * h
      BY PutsOwn, SMTT(30)
    <3> QED BY <3>1, Zenon
  <2>2. g >= h
    BY <2>1, Zenon
  <2> QED BY <2>1, <2>2
<1>5. P # D
  BY KeyFacts, Zenon
<1>6. \A i \in DOMAIN w : i \in Nat
  BY EntryFacts DEF Puts
<1>7. /\ \A i \in Nat : i > 3 * g - 1 => i = 3 * g \/ i > 3 * g
      /\ \A i \in Nat : i > 3 * g - 2 => i = 3 * g - 1 \/ i = 3 * g \/ i > 3 * g
  OBVIOUS
<1> HIDE DEF v, P, D
<1>8. CASE isDeleteMarker(v)
  <2>1. /\ w[3 * g].key = D /\ w[3 * g].value = v
        /\ w[3 * g - 1].key = P /\ w[3 * g - 1].value = None
    <3>1. PutKey(o, v) = D
      BY <1>8, Zenon DEF PutKey, D
    <3> QED BY <1>2, <3>1 DEF Set, Del
  <2>2. LastWrite(w, 3 * g)
    BY <1>4, <2>1, Zenon DEF LastWrite
  <2>3. LastWrite(w, 3 * g - 1)
    BY <1>4, <1>5, <1>6, <1>7, <2>1, Zenon DEF LastWrite
  <2> QED BY <1>3, <2>1, <2>2, <2>3, ZenonT(60) DEF Gives, v, P, D
<1>9. CASE ~ isDeleteMarker(v)
  <2>1. /\ w[3 * g].key = P /\ w[3 * g].value = v
        /\ w[3 * g - 1].key = P
        /\ w[3 * g - 2].key = D /\ w[3 * g - 2].value = None
    <3>1. PutKey(o, v) = P
      BY <1>9, Zenon DEF PutKey, P
    <3> QED BY <1>2, <3>1 DEF Set, Del
  <2>2. LastWrite(w, 3 * g)
    BY <1>4, <2>1, Zenon DEF LastWrite
  <2>3. LastWrite(w, 3 * g - 2)
    BY <1>4, <1>5, <1>6, <1>7, <2>1, Zenon DEF LastWrite
  <2> QED BY <1>1, <1>3, <2>1, <2>2, <2>3, ZenonT(60) DEF Gives, v, P, D
<1> QED BY <1>8, <1>9, Zenon

----------------------------------------------------------------------------
(* Several deletes and a put                                               *)

\* w holds the writes of deletes of these objects and of a put of the last.
Deletes(w, objs, n, v) ==
    /\ w \in WriteSeqs /\ Len(w) = 2 * n + (IF v = None THEN 0 ELSE 3)
    /\ \A g \in 1 .. n :
          /\ w[2 * g - 1] = Del(getDeleteMarkKey(objs[g]))
          /\ w[2 * g] = Del(Plain(objs[g]))
    /\ v # None => /\ w[2 * n + 1] = Del(getDeleteMarkKey(objs[n]))
                   /\ w[2 * n + 2] = Del(Plain(objs[n]))
                   /\ w[2 * n + 3] = Set(PutKey(objs[n], v), v)

(* A position is one of the two of a delete, or one of the three of the    *)
(* put.                                                                    *)
LEMMA BlockOfTwo ==
  ASSUME NEW n \in Nat, NEW t \in {0, 3}, NEW i \in 1 .. 2 * n + t
  PROVE  \/ \E g \in 1 .. n : i = 2 * g - 1 \/ i = 2 * g
         \/ t = 3 /\ i \in {2 * n + 1, 2 * n + 2, 2 * n + 3}
<1>1. CASE i <= 2 * n
  <2> DEFINE g == ((i - 1) \div 2) + 1
  <2>1. g \in 1 .. n /\ (i = 2 * g - 1 \/ i = 2 * g)
    BY <1>1
  <2> QED BY <2>1, Zenon
<1>2. CASE ~(i <= 2 * n)
  BY <1>2
<1> QED BY <1>1, <1>2, Zenon

(* A write under a key of an object belongs to a delete of that object, or *)
(* to the put if it is the last one.                                       *)
LEMMA DeletesOwn ==
  ASSUME NEW n \in Nat \ {0}, NEW objs \in [1 .. n -> Objects], NEW v \in Contents, NEW w,
         Deletes(w, objs, n, v),
         NEW o \in Objects, NEW i \in DOMAIN w, w[i].key \in {Plain(o), getDeleteMarkKey(o)}
  PROVE  \/ \E g \in 1 .. n : objs[g] = o /\ (i = 2 * g - 1 \/ i = 2 * g) /\ w[i].value = None
         \/ /\ v # None /\ objs[n] = o
            /\ \/ i \in {2 * n + 1, 2 * n + 2} /\ w[i].value = None
               \/ i = 2 * n + 3
<1> DEFINE t == IF v = None THEN 0 ELSE 3
<1>1. w \in WriteSeqs /\ Len(w) = 2 * n + t /\ t \in {0, 3} /\ (t = 3 => v # None)
  BY DEF Deletes
<1>2. i \in 1 .. 2 * n + t
  BY <1>1, EntryFacts, SMTT(30)
<1> HIDE DEF t
<1>3. \/ \E g \in 1 .. n : i = 2 * g - 1 \/ i = 2 * g
      \/ v # None /\ i \in {2 * n + 1, 2 * n + 2, 2 * n + 3}
  <2>1. \/ \E g \in 1 .. n : i = 2 * g - 1 \/ i = 2 * g
        \/ t = 3 /\ i \in {2 * n + 1, 2 * n + 2, 2 * n + 3}
    BY <1>1, <1>2, BlockOfTwo, ZenonT(60)
  <2> QED BY <1>1, <2>1, Zenon
<1>4. \A g \in 1 .. n : objs[g] \in Objects
  BY Zenon
<1>5. ASSUME NEW g \in 1 .. n, i = 2 * g - 1 \/ i = 2 * g
      PROVE  objs[g] = o /\ w[i].value = None
  <2>1. w[2 * g - 1] = Del(getDeleteMarkKey(objs[g])) /\ w[2 * g] = Del(Plain(objs[g]))
    BY Zenon DEF Deletes
  <2>2. w[i].key \in {Plain(objs[g]), getDeleteMarkKey(objs[g])} /\ w[i].value = None
    <3>1. CASE i = 2 * g
      BY <2>1, <3>1, SMTT(30) DEF Del
    <3>2. CASE i = 2 * g - 1
      BY <2>1, <3>2, SMTT(30) DEF Del
    <3> QED BY <1>5, <3>1, <3>2, ZenonT(60)
  <2> QED BY <1>4, <2>2, KeyFacts, Zenon
<1>6. ASSUME v # None, i \in {2 * n + 1, 2 * n + 2, 2 * n + 3}
      PROVE  objs[n] = o /\ (i # 2 * n + 3 => w[i].value = None)
  <2>0. n \in 1 .. n
    OBVIOUS
  <2>1. /\ w[2 * n + 1] = Del(getDeleteMarkKey(objs[n])) /\ w[2 * n + 2] = Del(Plain(objs[n]))
        /\ w[2 * n + 3] = Set(PutKey(objs[n], v), v)
    BY <1>6, Zenon DEF Deletes
  <2>2. PutKey(objs[n], v) \in {Plain(objs[n]), getDeleteMarkKey(objs[n])}
    BY Zenon DEF PutKey
  <2>3. w[i].key \in {Plain(objs[n]), getDeleteMarkKey(objs[n])} /\ (i # 2 * n + 3 => w[i].value = None)
    <3>1. CASE i = 2 * n + 1
      BY <2>1, <3>1, SMTT(30) DEF Del
    <3>2. CASE i = 2 * n + 2
      BY <2>1, <3>2 DEF Del
    <3>3. CASE i = 2 * n + 3
      <4>1. w[i].key = PutKey(objs[n], v)
        BY <2>1, <3>3 DEF Set
      <4> QED BY <2>2, <3>3, <4>1, ZenonT(60)
    <3> QED BY <1>6, <3>1, <3>2, <3>3, ZenonT(60)
  <2>4. objs[n] \in Objects
    BY <1>4, <2>0, Zenon
  <2>5. objs[n] = o
    <3> DEFINE p == objs[n]
    <3>1. p \in Objects /\ w[i].key \in {Plain(p), getDeleteMarkKey(p)}
      BY <2>3, <2>4, ZenonT(60)
    <3> HIDE DEF p
    <3>2. p = o
      BY <3>1, KeyFacts, Zenon
    <3> QED BY <3>2, Zenon DEF p
  <2> QED BY <2>3, <2>5, Zenon
<1> QED BY <1>3, <1>5, <1>6, ZenonT(60)

(* Deletes and a put are tidy.                                             *)
LEMMA DeletesTidy ==
  ASSUME NEW n \in Nat \ {0}, NEW objs \in [1 .. n -> Objects], NEW v \in Contents, NEW w,
         Deletes(w, objs, n, v)
  PROVE  Tidy(w)
<1> SUFFICES ASSUME NEW o \in Objects, NEW i \in DOMAIN w,
                    w[i].key \in {Plain(o), getDeleteMarkKey(o)}, w[i].value # None
             PROVE  i > 2 /\ w[i - 2] = Del(getDeleteMarkKey(o)) /\ w[i - 1] = Del(Plain(o))
  BY Zenon DEF Tidy
<1>1. v # None /\ objs[n] = o /\ i = 2 * n + 3
  BY DeletesOwn
<1>2. w[2 * n + 1] = Del(getDeleteMarkKey(o)) /\ w[2 * n + 2] = Del(Plain(o))
  BY <1>1, Zenon DEF Deletes
<1>3. i > 2 /\ i - 2 = 2 * n + 1 /\ i - 1 = 2 * n + 2
  BY <1>1
<1> QED BY <1>2, <1>3, Zenon

(* An object that is deleted and not put again is not read.                *)
LEMMA DeletesGiveNone ==
  ASSUME NEW n \in Nat \ {0}, NEW objs \in [1 .. n -> Objects], NEW v \in Contents, NEW w,
         Deletes(w, objs, n, v),
         NEW o \in Objects, o \in Range(objs), v = None \/ objs[n] # o
  PROVE  Gives(w, o, None)
<1> DEFINE mine == {g \in 1 .. n : objs[g] = o}
           P == Plain(o)
           D == getDeleteMarkKey(o)
<1>1. mine \subseteq Nat /\ mine # {} /\ \A x \in mine : x <= n
  <2>1. DOMAIN objs = 1 .. n
    BY Zenon
  <2>2. mine # {}
    BY <2>1, Zenon DEF Range
  <2> QED BY <2>2
<1>2. PICK g \in mine : \A h \in mine : g >= h
  <2> HIDE DEF mine
  <2> QED BY <1>1, MaxIs, Zenon
<1>3. w[2 * g - 1] = Del(D) /\ w[2 * g] = Del(P)
  BY Zenon DEF Deletes
<1>4. 2 * g - 1 \in DOMAIN w /\ 2 * g \in DOMAIN w /\ \A i \in DOMAIN w : i \in Nat
  BY EntryFacts DEF Deletes
<1>5. \A i \in DOMAIN w : w[i].key \in {P, D} => ~(i > 2 * g)
  <2> SUFFICES ASSUME NEW i \in DOMAIN w, w[i].key \in {P, D} PROVE ~(i > 2 * g)
    BY Zenon
  <2>1. PICK h \in 1 .. n : objs[h] = o /\ (i = 2 * h - 1 \/ i = 2 * h)
    BY DeletesOwn
  <2>2. g >= h
    BY <1>2, <2>1, Zenon
  <2> QED BY <2>1, <2>2
<1>6. P # D
  BY KeyFacts, Zenon
<1>7. \A i \in Nat : i > 2 * g - 1 => i = 2 * g \/ i > 2 * g
  BY SMTT(30)
<1> HIDE DEF P, D
<1>8. /\ w[2 * g].key = P /\ w[2 * g].value = None
      /\ w[2 * g - 1].key = D /\ w[2 * g - 1].value = None
  BY <1>3 DEF Del
<1>9. LastWrite(w, 2 * g)
  BY <1>5, <1>8, Zenon DEF LastWrite
<1>10. LastWrite(w, 2 * g - 1)
  BY <1>4, <1>5, <1>6, <1>7, <1>8, Zenon DEF LastWrite
<1> QED BY <1>4, <1>8, <1>9, <1>10, ZenonT(60) DEF Gives, P, D

(* The object that is put again is read with its new value.                *)
LEMMA DeletesGiveLast ==
  ASSUME NEW n \in Nat \ {0}, NEW objs \in [1 .. n -> Objects], NEW v \in Metas, NEW w,
         Deletes(w, objs, n, v)
  PROVE  Gives(w, objs[n], v)
<1> DEFINE o == objs[n]
           m == 2 * n + 3
           P == Plain(o)
           D == getDeleteMarkKey(o)
<1>1. o \in Objects /\ v # None
  <2>1. n \in 1 .. n
    OBVIOUS
  <2> QED BY <2>1, WriteBatchAssumption, Zenon DEF Metas
<1>2. w[m - 2] = Del(D) /\ w[m - 1] = Del(P) /\ w[m] = Set(PutKey(o, v), v)
  <2>1. m - 2 = 2 * n + 1 /\ m - 1 = 2 * n + 2
    OBVIOUS
  <2>2. w[2 * n + 1] = Del(D) /\ w[2 * n + 2] = Del(P) /\ w[2 * n + 3] = Set(PutKey(o, v), v)
    BY <1>1, Zenon DEF Deletes
  <2> QED BY <2>1, <2>2, Zenon
<1>3. DOMAIN w = 1 .. m /\ m \in Nat /\ m > 2
  BY <1>1, EntryFacts DEF Deletes
<1>4. P # D
  BY <1>1, KeyFacts, Zenon
<1> HIDE DEF o, m, P, D
<1>5. m \in DOMAIN w /\ m - 1 \in DOMAIN w /\ m - 2 \in DOMAIN w
  BY <1>3
<1>6. /\ \A i \in DOMAIN w : ~(i > m)
      /\ \A i \in DOMAIN w : i > m - 1 => i = m
      /\ \A i \in DOMAIN w : i > m - 2 => i = m - 1 \/ i = m
  BY <1>3
<1>7. CASE isDeleteMarker(v)
  <2>1. w[m].key = D /\ w[m].value = v /\ w[m - 1].key = P /\ w[m - 1].value = None
    <3>1. PutKey(o, v) = D
      BY <1>7, Zenon DEF PutKey, D
    <3> QED BY <1>2, <3>1 DEF Set, Del
  <2>2. LastWrite(w, m)
    BY <1>6, Zenon DEF LastWrite
  <2>3. LastWrite(w, m - 1)
    BY <1>4, <1>6, <2>1, Zenon DEF LastWrite
  <2> QED BY <1>5, <2>1, <2>2, <2>3, ZenonT(60) DEF Gives, o, P, D
<1>8. CASE ~ isDeleteMarker(v)
  <2>1. /\ w[m].key = P /\ w[m].value = v /\ w[m - 1].key = P
        /\ w[m - 2].key = D /\ w[m - 2].value = None
    <3>1. PutKey(o, v) = P
      BY <1>8, Zenon DEF PutKey, P
    <3> QED BY <1>2, <3>1 DEF Set, Del
  <2>2. LastWrite(w, m)
    BY <1>6, Zenon DEF LastWrite
  <2>3. LastWrite(w, m - 2)
    BY <1>4, <1>6, <2>1, Zenon DEF LastWrite
  <2> QED BY <1>1, <1>5, <2>1, <2>2, <2>3, ZenonT(60) DEF Gives, o, P, D
<1> QED BY <1>7, <1>8, Zenon DEF o

(* What concatenation gives.                                               *)
LEMMA ConcatGives ==
  ASSUME NEW S, NEW s \in Seq(S), NEW t \in Seq(S)
  PROVE  /\ s \o t \in Seq(S) /\ Len(s \o t) = Len(s) + Len(t)
         /\ \A i \in 1 .. Len(s) : (s \o t)[i] = s[i]
         /\ \A i \in 1 .. Len(t) : (s \o t)[Len(s) + i] = t[i]
  OBVIOUS

----------------------------------------------------------------------------
(* The writes of the handlers                                              *)

(* The writes of operations of n writes each, one after another.           *)
LEMMA ThreeInTurn ==
  ASSUME NEW n \in Nat, NEW ops, DOMAIN ops = 1 .. n, Len(ops) = n,
         \A g \in 1 .. n : ops[g] \in WriteSeqs /\ Len(ops[g]) = 3
  PROVE  /\ InTurn(ops, 3) \in WriteSeqs /\ Len(InTurn(ops, 3)) = 3 * n
         /\ \A g \in 1 .. n : /\ InTurn(ops, 3)[3 * g - 2] = ops[g][1]
                              /\ InTurn(ops, 3)[3 * g - 1] = ops[g][2]
                              /\ InTurn(ops, 3)[3 * g] = ops[g][3]
<1> DEFINE e(i) == ops[((i - 1) \div 3) + 1][((i - 1) % 3) + 1]
<1>1. InTurn(ops, 3) = [i \in 1 .. 3 * n |-> e(i)]
  BY Zenon DEF InTurn
<1>2. \A g \in 1 .. n : \A r \in 1 .. 3 : ops[g][r] \in Entries
  BY DEF WriteSeqs
<1>3. \A i \in 1 .. 3 * n : ((i - 1) \div 3) + 1 \in 1 .. n /\ ((i - 1) % 3) + 1 \in 1 .. 3
  OBVIOUS
<1>4. \A i \in 1 .. 3 * n : e(i) \in Entries
  BY <1>2, <1>3, Zenon
<1>5. ASSUME NEW g \in 1 .. n
      PROVE  /\ 3 * g - 2 \in 1 .. 3 * n /\ 3 * g - 1 \in 1 .. 3 * n /\ 3 * g \in 1 .. 3 * n
             /\ e(3 * g - 2) = ops[g][1] /\ e(3 * g - 1) = ops[g][2] /\ e(3 * g) = ops[g][3]
  <2>1. /\ ((3 * g - 2 - 1) \div 3) + 1 = g /\ ((3 * g - 2 - 1) % 3) + 1 = 1
        /\ ((3 * g - 1 - 1) \div 3) + 1 = g /\ ((3 * g - 1 - 1) % 3) + 1 = 2
        /\ ((3 * g - 1) \div 3) + 1 = g /\ ((3 * g - 1) % 3) + 1 = 3
    OBVIOUS
  <2>2. 3 * g - 2 \in 1 .. 3 * n /\ 3 * g - 1 \in 1 .. 3 * n /\ 3 * g \in 1 .. 3 * n
    OBVIOUS
  <2> QED BY <2>1, <2>2, Zenon
<1> HIDE DEF e
<1>6. 3 * n \in Nat
  OBVIOUS
<1>7. InTurn(ops, 3) \in Seq(Entries) /\ Len(InTurn(ops, 3)) = 3 * n
  BY <1>1, <1>4, <1>6, SMTT(30)
<1> QED BY <1>1, <1>5, <1>7, ZenonT(60) DEF WriteSeqs

(* The same for operations of two writes.                                  *)
LEMMA TwoInTurn ==
  ASSUME NEW n \in Nat, NEW ops, DOMAIN ops = 1 .. n, Len(ops) = n,
         \A g \in 1 .. n : ops[g] \in WriteSeqs /\ Len(ops[g]) = 2
  PROVE  /\ InTurn(ops, 2) \in WriteSeqs /\ Len(InTurn(ops, 2)) = 2 * n
         /\ \A g \in 1 .. n : /\ InTurn(ops, 2)[2 * g - 1] = ops[g][1]
                              /\ InTurn(ops, 2)[2 * g] = ops[g][2]
<1> DEFINE e(i) == ops[((i - 1) \div 2) + 1][((i - 1) % 2) + 1]
<1>1. InTurn(ops, 2) = [i \in 1 .. 2 * n |-> e(i)]
  BY Zenon DEF InTurn
<1>2. \A g \in 1 .. n : \A r \in 1 .. 2 : ops[g][r] \in Entries
  BY DEF WriteSeqs
<1>3. \A i \in 1 .. 2 * n : ((i - 1) \div 2) + 1 \in 1 .. n /\ ((i - 1) % 2) + 1 \in 1 .. 2
  OBVIOUS
<1>4. \A i \in 1 .. 2 * n : e(i) \in Entries
  BY <1>2, <1>3, Zenon
<1>5. ASSUME NEW g \in 1 .. n
      PROVE  /\ 2 * g - 1 \in 1 .. 2 * n /\ 2 * g \in 1 .. 2 * n
             /\ e(2 * g - 1) = ops[g][1] /\ e(2 * g) = ops[g][2]
  <2>1. /\ ((2 * g - 1 - 1) \div 2) + 1 = g /\ ((2 * g - 1 - 1) % 2) + 1 = 1
        /\ ((2 * g - 1) \div 2) + 1 = g /\ ((2 * g - 1) % 2) + 1 = 2
    OBVIOUS
  <2>2. 2 * g - 1 \in 1 .. 2 * n /\ 2 * g \in 1 .. 2 * n
    OBVIOUS
  <2> QED BY <2>1, <2>2, Zenon
<1> HIDE DEF e
<1>6. 2 * n \in Nat
  OBVIOUS
<1>7. InTurn(ops, 2) \in Seq(Entries) /\ Len(InTurn(ops, 2)) = 2 * n
  BY <1>1, <1>4, <1>6, SMTT(30)
<1> QED BY <1>1, <1>5, <1>7, Zenon DEF WriteSeqs

(* handlePutOnly writes puts.                                              *)
LEMMA PutOnlyWrites ==
  ASSUME NEW n \in Nat, NEW pairs \in [1 .. n -> Pairs]
  PROVE  Puts(handlePutOnly(pairs), pairs, n)
<1> DEFINE ops == [i \in DOMAIN pairs |-> put(pairs[i].obj, pairs[i].value)]
<1>1. DOMAIN pairs = 1 .. n
  BY Zenon
<1>2. DOMAIN ops = 1 .. n /\ \A g \in 1 .. n : ops[g] = put(pairs[g].obj, pairs[g].value)
  BY <1>1, Zenon
<1>3. Len(ops) = n
  BY <1>1
<1>4. ASSUME NEW g \in 1 .. n
      PROVE  /\ ops[g] \in WriteSeqs /\ Len(ops[g]) = 3
             /\ ops[g][1] = Del(getDeleteMarkKey(pairs[g].obj)) /\ ops[g][2] = Del(Plain(pairs[g].obj))
             /\ ops[g][3] = Set(PutKey(pairs[g].obj, pairs[g].value), pairs[g].value)
  <2> DEFINE o == pairs[g].obj
             v == pairs[g].value
  <2>1. o \in Objects /\ v \in Metas
    <3>1. pairs[g] \in Pairs
      BY Zenon
    <3> QED BY <3>1, Zenon DEF Pairs
  <2>2. ops[g] = put(o, v)
    BY <1>2, Zenon
  <2> HIDE DEF o, v, ops
  <2>3. /\ put(o, v) \in WriteSeqs /\ Len(put(o, v)) = 3
        /\ put(o, v)[1] = Del(getDeleteMarkKey(o)) /\ put(o, v)[2] = Del(Plain(o))
        /\ put(o, v)[3] = Set(PutKey(o, v), v)
    BY <2>1, OperationFacts, Zenon
  <2> QED BY <2>2, <2>3, Zenon DEF o, v
<1>5. handlePutOnly(pairs) = InTurn(ops, 3)
  BY Zenon DEF handlePutOnly
<1> HIDE DEF ops
<1>6. /\ InTurn(ops, 3) \in WriteSeqs /\ Len(InTurn(ops, 3)) = 3 * n
      /\ \A g \in 1 .. n : /\ InTurn(ops, 3)[3 * g - 2] = ops[g][1]
                           /\ InTurn(ops, 3)[3 * g - 1] = ops[g][2]
                           /\ InTurn(ops, 3)[3 * g] = ops[g][3]
  <2>1. \A g \in 1 .. n : ops[g] \in WriteSeqs /\ Len(ops[g]) = 3
    BY <1>4, Zenon
  <2> QED BY <1>2, <1>3, <2>1, ThreeInTurn, SMTT(30)
<1> QED BY <1>4, <1>5, <1>6, Zenon DEF Puts

(* handleDeleteAndPut writes deletes and a put.                            *)
LEMMA DeleteAndPutWrites ==
  ASSUME NEW n \in Nat \ {0}, NEW objs \in [1 .. n -> Objects], NEW v \in Contents
  PROVE  Deletes(handleDeleteAndPut(objs, v), objs, n, v)
<1> DEFINE ops == [i \in DOMAIN objs |-> delete(objs[i])]
           front == InTurn(ops, 2)
           back == IF v = None THEN <<>> ELSE put(objs[n], v)
           w == handleDeleteAndPut(objs, v)
<1>1. DOMAIN objs = 1 .. n /\ \A g \in 1 .. n : objs[g] \in Objects
  BY Zenon
<1>2. DOMAIN ops = 1 .. n /\ \A g \in 1 .. n : ops[g] = delete(objs[g])
  BY <1>1, Zenon
<1>3. Len(ops) = n /\ Len(objs) = n
  BY <1>1
<1> HIDE DEF ops
<1>4. ASSUME NEW g \in 1 .. n
      PROVE  /\ ops[g] \in WriteSeqs /\ Len(ops[g]) = 2
             /\ ops[g][1] = Del(getDeleteMarkKey(objs[g])) /\ ops[g][2] = Del(Plain(objs[g]))
  <2> DEFINE o == objs[g]
  <2>1. o \in Objects /\ ops[g] = delete(o)
    BY <1>1, <1>2, Zenon
  <2> HIDE DEF o
  <2>2. /\ delete(o) \in WriteSeqs /\ Len(delete(o)) = 2
        /\ delete(o)[1] = Del(getDeleteMarkKey(o)) /\ delete(o)[2] = Del(Plain(o))
    BY <2>1, OperationFacts, Zenon
  <2> QED BY <2>1, <2>2, Zenon DEF o
<1>5. /\ front \in WriteSeqs /\ Len(front) = 2 * n
      /\ \A g \in 1 .. n : front[2 * g - 1] = ops[g][1] /\ front[2 * g] = ops[g][2]
  BY <1>2, <1>3, <1>4, TwoInTurn, ZenonT(60)
<1>6. w = front \o back
  BY <1>3, Zenon DEF handleDeleteAndPut, ops
<1>7. /\ back \in WriteSeqs /\ Len(back) = IF v = None THEN 0 ELSE 3
      /\ v # None => /\ back[1] = Del(getDeleteMarkKey(objs[n])) /\ back[2] = Del(Plain(objs[n]))
                     /\ back[3] = Set(PutKey(objs[n], v), v)
  <2>0. n \in 1 .. n
    OBVIOUS
  <2>1. CASE v = None
    BY <2>1 DEF WriteSeqs
  <2>2. CASE v # None
    <3>1. v \in Metas /\ objs[n] \in Objects
      BY <1>1, <2>0, <2>2, Zenon DEF Contents
    <3>2. back = put(objs[n], v)
      BY <2>2, Zenon
    <3>3. /\ put(objs[n], v) \in WriteSeqs /\ Len(put(objs[n], v)) = 3
          /\ put(objs[n], v)[1] = Del(getDeleteMarkKey(objs[n])) /\ put(objs[n], v)[2] = Del(Plain(objs[n]))
          /\ put(objs[n], v)[3] = Set(PutKey(objs[n], v), v)
      BY <3>1, OperationFacts, Zenon
    <3> QED BY <2>2, <3>2, <3>3, Zenon
  <2> QED BY <2>1, <2>2, Zenon
<1> HIDE DEF front, back, w
<1> DEFINE t == IF v = None THEN 0 ELSE 3
<1>8. /\ w \in WriteSeqs /\ Len(w) = 2 * n + Len(back) /\ Len(back) \in Nat
      /\ \A i \in 1 .. 2 * n : w[i] = front[i]
      /\ \A i \in 1 .. Len(back) : w[2 * n + i] = back[i]
  <2>1. front \in Seq(Entries) /\ back \in Seq(Entries)
    BY <1>5, <1>7, Zenon DEF WriteSeqs
  <2>2. Len(back) \in Nat /\ 2 * n \in Nat
    BY <2>1
  <2>3. /\ w \in Seq(Entries) /\ Len(w) = Len(front) + Len(back)
        /\ \A i \in 1 .. Len(front) : w[i] = front[i]
        /\ \A i \in 1 .. Len(back) : w[Len(front) + i] = back[i]
    <3>1. /\ front \o back \in Seq(Entries) /\ Len(front \o back) = Len(front) + Len(back)
          /\ \A i \in 1 .. Len(front) : (front \o back)[i] = front[i]
          /\ \A i \in 1 .. Len(back) : (front \o back)[Len(front) + i] = back[i]
      BY <2>1, ConcatGives
    <3> QED BY <1>6, <3>1, Zenon
  <2> QED BY <1>5, <2>2, <2>3, Zenon DEF WriteSeqs
<1>9. \A g \in 1 .. n : 2 * g - 1 \in 1 .. 2 * n /\ 2 * g \in 1 .. 2 * n
  OBVIOUS
<1>10. \A g \in 1 .. n : /\ w[2 * g - 1] = Del(getDeleteMarkKey(objs[g])) /\ w[2 * g] = Del(Plain(objs[g]))
  BY <1>4, <1>5, <1>8, <1>9, ZenonT(60)
<1>11. v # None => 1 \in 1 .. Len(back) /\ 2 \in 1 .. Len(back) /\ 3 \in 1 .. Len(back)
  BY <1>7
<1>12. v # None => w[2 * n + 1] = back[1] /\ w[2 * n + 2] = back[2] /\ w[2 * n + 3] = back[3]
  BY <1>8, <1>11, Zenon
<1> QED BY <1>7, <1>8, <1>10, <1>12, ZenonT(60) DEF Deletes, w

----------------------------------------------------------------------------
(* The steps                                                               *)

\* outcome is latest after these puts: the last one of an object counts.
AfterPuts(outcome, pairs, n) ==
    \A o \in Objects : \/ (\A g \in 1 .. n : pairs[g].obj # o) /\ outcome[o] = latest[o]
                       \/ \E g \in 1 .. n : /\ pairs[g].obj = o /\ outcome[o] = pairs[g].value
                                            /\ \A h \in 1 .. n : pairs[h].obj = o => g >= h

\* outcome is latest after these deletes and a put of v, or none, at the end.
AfterDeletes(outcome, objs, n, v) ==
    \A o \in Objects : outcome[o] = IF o = objs[n] THEN v
                                   ELSE IF o \in Range(objs) THEN None ELSE latest[o]

(* A request that puts pairs.                                              *)
LEMMA PutsStep ==
  ASSUME BatchInv, NEW n \in Nat, NEW pairs \in [1 .. n -> Pairs], NEW w, Puts(w, pairs, n),
         NEW outcome \in [Objects -> Contents],
         AfterPuts(outcome, pairs, n),
         Handle(w, outcome)
  PROVE  BatchInv'
<1>1. w \in WriteSeqs /\ Tidy(w)
  BY PutsTidy, Zenon DEF Puts
<1>2. ASSUME NEW o \in Objects
      PROVE  (Untouched(w, o) /\ outcome[o] = latest[o]) \/ Gives(w, o, outcome[o])
  <2>1. CASE (\A g \in 1 .. n : pairs[g].obj # o) /\ outcome[o] = latest[o]
    <3>1. Untouched(w, o)
      BY <2>1, PutsOwn DEF Untouched
    <3> QED BY <2>1, <3>1, ZenonT(60)
  <2>2. ASSUME NEW g \in 1 .. n, pairs[g].obj = o, outcome[o] = pairs[g].value,
               \A h \in 1 .. n : pairs[h].obj = o => g >= h
        PROVE  Gives(w, o, outcome[o])
    <3>1. Gives(w, o, pairs[g].value)
      BY <2>2, PutsGive
    <3> QED BY <2>2, <3>1, Zenon
  <2> QED BY <2>1, <2>2, Zenon DEF AfterPuts
<1> QED BY <1>1, <1>2, HandleStep, Zenon

(* A request that deletes objects and may put the last of them.            *)
LEMMA DeletesStep ==
  ASSUME BatchInv, NEW n \in Nat \ {0}, NEW objs \in [1 .. n -> Objects], NEW v \in Contents,
         NEW w, Deletes(w, objs, n, v), NEW outcome \in [Objects -> Contents],
         AfterDeletes(outcome, objs, n, v), Handle(w, outcome)
  PROVE  BatchInv'
<1>0. \A o \in Objects : outcome[o] = IF o = objs[n] THEN v
                                     ELSE IF o \in Range(objs) THEN None ELSE latest[o]
  BY Zenon DEF AfterDeletes
<1>1. w \in WriteSeqs /\ Tidy(w)
  BY DeletesTidy, Zenon DEF Deletes
<1>2. n \in 1 .. n /\ DOMAIN objs = 1 .. n
  OBVIOUS
<1>3. objs[n] \in Range(objs)
  BY <1>2, Zenon DEF Range
<1>4. ASSUME NEW o \in Objects
      PROVE  (Untouched(w, o) /\ outcome[o] = latest[o]) \/ Gives(w, o, outcome[o])
  <2>1. CASE o \notin Range(objs)
    <3>1. \A g \in 1 .. n : objs[g] # o
      BY <1>2, <2>1, Zenon DEF Range
    <3>2. Untouched(w, o)
      BY <1>2, <3>1, DeletesOwn DEF Untouched
    <3>3. outcome[o] = latest[o]
      BY <1>0, <1>3, <2>1, Zenon
    <3> QED BY <3>2, <3>3, Zenon
  <2>2. CASE o \in Range(objs) /\ (v = None \/ objs[n] # o)
    <3>1. Gives(w, o, None)
      BY <2>2, DeletesGiveNone, Zenon
    <3>2. outcome[o] = None
      BY <1>0, <2>2, Zenon
    <3> QED BY <3>1, <3>2, Zenon
  <2>3. CASE v # None /\ objs[n] = o
    <3>1. v \in Metas
      BY <2>3, Zenon DEF Contents
    <3>2. Gives(w, objs[n], v)
      BY <3>1, DeletesGiveLast, Zenon
    <3>3. outcome[o] = v
      BY <1>0, <2>3, Zenon
    <3> QED BY <2>3, <3>2, <3>3, Zenon
  <2> QED BY <2>1, <2>2, <2>3, Zenon
<1> QED BY <1>1, <1>4, HandleStep, Zenon

(* A put of one object.                                                    *)
LEMMA PutStep ==
  ASSUME BatchInv, NEW o \in Objects, NEW v \in Metas, Put(o, v)
  PROVE  BatchInv'
<1> DEFINE p == [obj |-> o, value |-> v]
           pairs == [i \in 1 .. 1 |-> p]
           outcome == [latest EXCEPT ![o] = v]
<1>1. p \in Pairs /\ p.obj = o /\ p.value = v
  BY DEF Pairs
<1>2. pairs \in [1 .. 1 -> Pairs] /\ \A g \in 1 .. 1 : pairs[g] = p
  BY <1>1, Zenon
<1>3. \A g \in 1 .. 1 : g = 1 /\ 3 * g - 2 = 1 /\ 3 * g - 1 = 2 /\ 3 * g = 3
  OBVIOUS
<1>4. /\ put(o, v) \in WriteSeqs /\ Len(put(o, v)) = 3
      /\ put(o, v)[1] = Del(getDeleteMarkKey(o)) /\ put(o, v)[2] = Del(Plain(o))
      /\ put(o, v)[3] = Set(PutKey(o, v), v)
  BY OperationFacts, Zenon
<1> HIDE DEF p, pairs
<1>5. 3 * 1 = 3 /\ 1 \in Nat /\ 1 \in 1 .. 1 /\ \A g, h \in 1 .. 1 : g >= h
  OBVIOUS
<1>6. Puts(put(o, v), pairs, 1)
  BY <1>1, <1>2, <1>3, <1>4, <1>5, Zenon DEF Puts
<1>7. outcome \in [Objects -> Contents]
  BY Zenon DEF BatchInv, Contents
<1>8. \A q \in Objects : outcome[q] = IF q = o THEN v ELSE latest[q]
  BY Zenon DEF BatchInv
<1> HIDE DEF outcome
<1>9. AfterPuts(outcome, pairs, 1)
  BY <1>1, <1>2, <1>5, <1>8, Zenon DEF AfterPuts
<1>10. Handle(put(o, v), outcome)
  BY Zenon DEF Put, outcome
<1>11. ASSUME NEW n \in Nat, n = 1 PROVE BatchInv'
  <2>1. /\ pairs \in [1 .. n -> Pairs] /\ Puts(put(o, v), pairs, n)
        /\ AfterPuts(outcome, pairs, n)
    BY <1>2, <1>6, <1>9, <1>11, Zenon
  <2> QED BY <1>7, <1>10, <2>1, PutsStep, Zenon
<1> QED BY <1>11

(* A delete of one object.                                                 *)
LEMMA DeleteStep ==
  ASSUME BatchInv, NEW o \in Objects, Delete(o)
  PROVE  BatchInv'
<1> DEFINE objs == [i \in 1 .. 1 |-> o]
           outcome == [latest EXCEPT ![o] = None]
<1>1. objs \in [1 .. 1 -> Objects] /\ \A g \in 1 .. 1 : objs[g] = o
  BY Zenon
<1>2. /\ \A g \in 1 .. 1 : g = 1 /\ 2 * g - 1 = 1 /\ 2 * g = 2
      /\ 2 * 1 + 0 = 2 /\ 1 \in Nat \ {0} /\ 1 \in 1 .. 1
  OBVIOUS
<1>3. /\ delete(o) \in WriteSeqs /\ Len(delete(o)) = 2
      /\ delete(o)[1] = Del(getDeleteMarkKey(o)) /\ delete(o)[2] = Del(Plain(o))
  BY OperationFacts, Zenon
<1> HIDE DEF objs
<1>4. Deletes(delete(o), objs, 1, None)
  BY <1>1, <1>2, <1>3, Zenon DEF Deletes
<1>5. outcome \in [Objects -> Contents] /\ None \in Contents
  BY Zenon DEF BatchInv, Contents
<1>6. \A q \in Objects : outcome[q] = IF q = o THEN None ELSE latest[q]
  BY Zenon DEF BatchInv
<1> HIDE DEF outcome
<1>7. \A q \in Objects : q \in Range(objs) <=> q = o
  BY <1>1, <1>2, Zenon DEF Range
<1>8. AfterDeletes(outcome, objs, 1, None)
  BY <1>1, <1>2, <1>6, <1>7, Zenon DEF AfterDeletes
<1>9. Handle(delete(o), outcome)
  BY Zenon DEF Delete, outcome
<1>10. ASSUME NEW n \in Nat \ {0}, n = 1 PROVE BatchInv'
  <2>1. /\ objs \in [1 .. n -> Objects] /\ Deletes(delete(o), objs, n, None)
        /\ AfterDeletes(outcome, objs, n, None)
    BY <1>1, <1>4, <1>8, <1>10, ZenonT(60)
  <2> QED BY <1>5, <1>9, <2>1, DeletesStep, Zenon
<1> QED BY <1>10

(* A transfer: the object is deleted and a value put under another key.    *)
LEMMA TransferStep ==
  ASSUME BatchInv, NEW o \in Objects, NEW v \in Metas, Transfer(o, v)
  PROVE  BatchInv'
<1> DEFINE w == TransferAndPut(o, v)
           outcome == [latest EXCEPT ![o] = None]
           P == Plain(o)
           D == getDeleteMarkKey(o)
<1>1. /\ w \in WriteSeqs /\ Len(w) = 3
      /\ w[1] = Del(D) /\ w[2] = Del(P) /\ w[3] = Set(TransferKey(o), v)
  BY OperationFacts, Zenon
<1>2. DOMAIN w = 1 .. 3 /\ \A i \in 1 .. 3 : i = 1 \/ i = 2 \/ i = 3
  BY <1>1, EntryFacts, SMTT(30)
<1>3. /\ w[1].key = D /\ w[1].value = None /\ w[2].key = P /\ w[2].value = None
      /\ w[3].key = TransferKey(o)
  BY <1>1 DEF Del, Set
<1>4. outcome \in [Objects -> Contents] /\ None \in Contents
  BY Zenon DEF BatchInv, Contents
<1>5. \A q \in Objects : outcome[q] = IF q = o THEN None ELSE latest[q]
  BY Zenon DEF BatchInv
<1>6. Handle(w, outcome)
  BY Zenon DEF Transfer
<1> HIDE DEF w, outcome
<1>7. Tidy(w)
  BY <1>2, <1>3, KeyFacts, Zenon DEF Tidy
<1>8. Gives(w, o, None)
  <2>1. 1 \in DOMAIN w /\ 2 \in DOMAIN w /\ \A i \in DOMAIN w : (i > 1 => i = 2 \/ i = 3) /\ (i > 2 => i = 3)
    BY <1>2
  <2>2. P # D /\ D # TransferKey(o) /\ P # TransferKey(o)
    BY KeyFacts, Zenon
  <2>3. LastWrite(w, 1) /\ LastWrite(w, 2)
    BY <1>3, <2>1, <2>2, Zenon DEF LastWrite
  <2> QED BY <1>3, <2>1, <2>3, Zenon DEF Gives
<1>9. \A q \in Objects : q # o => Untouched(w, q)
  BY <1>2, <1>3, KeyFacts, Zenon DEF Untouched
<1>10. \A q \in Objects : (Untouched(w, q) /\ outcome[q] = latest[q]) \/ Gives(w, q, outcome[q])
  BY <1>5, <1>8, <1>9, Zenon
<1> QED BY <1>1, <1>4, <1>6, <1>7, <1>10, HandleStep, SMTT(30)

(* A PutOnly request.                                                      *)
LEMMA PutOnlyStep ==
  ASSUME BatchInv, NEW n \in Nat, NEW pairs \in [1 .. n -> Pairs], PutOnly(pairs)
  PROVE  BatchInv'
<1> DEFINE mine(o) == {i \in DOMAIN pairs : pairs[i].obj = o}
           outcome == [o \in Objects |-> IF mine(o) = {} THEN latest[o] ELSE pairs[Max(mine(o))].value]
<1>1. DOMAIN pairs = 1 .. n /\ \A g \in 1 .. n : pairs[g].value \in Contents
  <2>1. DOMAIN pairs = 1 .. n /\ \A g \in 1 .. n : pairs[g] \in Pairs
    BY Zenon
  <2> QED BY <2>1, Zenon DEF Pairs, Contents
<1>2. Puts(handlePutOnly(pairs), pairs, n)
  BY PutOnlyWrites, Zenon
<1>3. Handle(handlePutOnly(pairs), outcome)
  BY Zenon DEF PutOnly
<1>4. ASSUME NEW o \in Objects, mine(o) # {}
      PROVE  Max(mine(o)) \in mine(o) /\ \A h \in mine(o) : Max(mine(o)) >= h
  <2>1. mine(o) \subseteq Nat /\ \A x \in mine(o) : x <= n
    BY <1>1
  <2> HIDE DEF mine
  <2> QED BY <1>4, <2>1, MaxIs, Zenon
<1>5. \A o \in Objects : outcome[o] \in Contents
  BY <1>1, <1>4, Zenon DEF BatchInv
<1>6. outcome \in [Objects -> Contents]
  BY <1>5, Zenon
<1>7. ASSUME NEW o \in Objects
      PROVE  \/ (\A g \in 1 .. n : pairs[g].obj # o) /\ outcome[o] = latest[o]
             \/ \E g \in 1 .. n : /\ pairs[g].obj = o /\ outcome[o] = pairs[g].value
                                  /\ \A h \in 1 .. n : pairs[h].obj = o => g >= h
  <2>1. CASE mine(o) = {}
    BY <1>1, <2>1, Zenon
  <2>2. CASE mine(o) # {}
    <3>1. Max(mine(o)) \in mine(o) /\ \A h \in mine(o) : Max(mine(o)) >= h
      BY <1>4, <2>2, Zenon
    <3> QED BY <1>1, <2>2, <3>1, Zenon
  <2> QED BY <2>1, <2>2, Zenon
<1> HIDE DEF outcome
<1>8. AfterPuts(outcome, pairs, n)
  BY <1>7, Zenon DEF AfterPuts
<1> QED BY <1>2, <1>3, <1>6, <1>8, PutsStep, Zenon

(* A DeleteAndPut request.                                                 *)
LEMMA DeleteAndPutStep ==
  ASSUME BatchInv, NEW n \in Nat \ {0}, NEW objs \in [1 .. n -> Objects], NEW v \in Contents,
         DeleteAndPut(objs, v)
  PROVE  BatchInv'
<1> DEFINE outcome == [o \in Objects |-> IF o = objs[Len(objs)] THEN v
                                        ELSE IF o \in Range(objs) THEN None ELSE latest[o]]
<1>1. Len(objs) = n
  OBVIOUS
<1>2. Deletes(handleDeleteAndPut(objs, v), objs, n, v)
  BY DeleteAndPutWrites, Zenon
<1>3. Handle(handleDeleteAndPut(objs, v), outcome)
  BY Zenon DEF DeleteAndPut
<1>4. outcome \in [Objects -> Contents]
  BY Zenon DEF BatchInv, Contents
<1>5. AfterDeletes(outcome, objs, n, v)
  BY <1>1, Zenon DEF AfterDeletes
<1> HIDE DEF outcome
<1> QED BY <1>2, <1>3, <1>4, <1>5, DeletesStep, ZenonT(60)

----------------------------------------------------------------------------
(* The theorems                                                            *)

(* The invariant holds of the empty database.                              *)
LEMMA BatchInitInv == BatchInit => BatchInv
<1> SUFFICES ASSUME BatchInit PROVE BatchInv
  OBVIOUS
<1>1. \A o \in Objects : stored[Plain(o)] = None /\ stored[getDeleteMarkKey(o)] = None
  BY KeyFacts, Zenon DEF BatchInit
<1>2. \A o \in Objects : latest[o] = None
  BY Zenon DEF BatchInit
<1>3. NoCoexistence
  BY <1>1, Zenon DEF BatchInit, NoCoexistence
<1>4. GetIsLatest
  BY <1>1, <1>2, Zenon DEF BatchInit, GetIsLatest, getFromBatchAndDB
<1>5. /\ stored \in [MetaKeys -> Contents] /\ view \in [MetaKeys -> Contents]
      /\ latest \in [Objects -> Contents] /\ durable \in [Objects -> Contents]
      /\ failed \in BOOLEAN
  BY Zenon DEF BatchInit, Contents
<1> QED BY <1>3, <1>4, <1>5, Zenon DEF BatchInv

(* Every request, a commit and a Clear preserve the invariant.             *)
LEMMA BatchNextInv == BatchInv /\ [BatchNext]_batchVars => BatchInv'
<1> SUFFICES ASSUME BatchInv, [BatchNext]_batchVars PROVE BatchInv'
  OBVIOUS
<1>1. CASE UNCHANGED batchVars
  BY <1>1, Zenon DEF batchVars, BatchInv, NoCoexistence, GetIsLatest
<1>2. ASSUME NEW o \in Objects, NEW v \in Metas, Put(o, v) \/ Transfer(o, v) PROVE BatchInv'
  BY <1>2, PutStep, TransferStep, Zenon
<1>3. ASSUME NEW o \in Objects, Delete(o) PROVE BatchInv'
  BY <1>3, DeleteStep, Zenon
<1>4. ASSUME NEW n \in 0 .. MaxPuts, NEW pairs \in [1 .. n -> Pairs], PutOnly(pairs) PROVE BatchInv'
  <2>1. n \in Nat
    BY WriteBatchAssumption
  <2> QED BY <1>4, <2>1, PutOnlyStep, Zenon
<1>5. ASSUME NEW n \in 1 .. MaxPuts, NEW objs \in [1 .. n -> Objects], NEW v \in Metas \cup {None},
             DeleteAndPut(objs, v)
      PROVE  BatchInv'
  <2>1. n \in Nat \ {0}
    BY WriteBatchAssumption
  <2> QED BY <1>5, <2>1, DeleteAndPutStep, Zenon DEF Contents
<1>6. CASE CompareAndPut
  BY <1>6, Zenon DEF CompareAndPut, BatchInv, NoCoexistence, GetIsLatest
<1>7. CASE CommitBatch
  BY <1>7, Zenon DEF CommitBatch, BatchInv, NoCoexistence, GetIsLatest
<1>8. CASE Clear
  BY <1>8, Zenon DEF Clear, BatchInv, NoCoexistence, GetIsLatest
<1> QED BY <1>1, <1>2, <1>3, <1>4, <1>5, <1>6, <1>7, <1>8, ZenonT(60) DEF BatchNext

(* An object never has metadata under both of its keys, in the database or *)
(* in a batch.                                                             *)
THEOREM KeysNeverCoexist == BatchSpec => []NoCoexistence
<1>1. BatchInv => NoCoexistence
  BY Zenon DEF BatchInv
<1> QED BY <1>1, BatchInitInv, BatchNextInv, PTL DEF BatchSpec

(* What is read for an object is what was last put for it.                 *)
THEOREM ReadsAreLatest == BatchSpec => []GetIsLatest
<1>1. BatchInv => GetIsLatest
  BY Zenon DEF BatchInv
<1> QED BY <1>1, BatchInitInv, BatchNextInv, PTL DEF BatchSpec

==============================================================================

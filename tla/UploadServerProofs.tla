-------------------------- MODULE UploadServerProofs --------------------------
(***************************************************************************)
(* The inductive invariant of UploadServer and its properties: ownership   *)
(* of blocks, integrity of committed data, durability of answers and the   *)
(* used-space counter, for any number of uploads, blocks, chunks and       *)
(* crashes.                                                                *)
(***************************************************************************)
EXTENDS UploadServer, FiniteSetTheorems, TLAPS

----------------------------------------------------------------------------
(* Types                                                                   *)

Info == [results : SUBSET Blocks, token : SUBSET Blocks]
Handlers == [pending : Nat, fileSize : Nat, chunks : Nat, infos : Seq(Info),
             finalized : BOOLEAN, flushErr : BOOLEAN, oneShot : BOOLEAN]
Flushes == [at : {"none", "alloc", "write"}, want : Nat, got : SUBSET Blocks,
            todo : SUBSET Blocks, cur : Blocks \cup {None}, res : {"none", "ok", "error"}]
Places == {"first", "next", "put", "complete", "final", "commit", "committed", "found",
           "rollback", "exists", "done"}

Types ==
    /\ up \in BOOLEAN /\ free \subseteq Blocks /\ inflight \subseteq Uploads \X Blocks
    /\ pc \in [Uploads -> Places] /\ h \in [Uploads -> Handlers]
    /\ flush \in [Uploads -> Flushes] /\ rolling \in [Uploads -> Seq(SUBSET Blocks)]
    /\ cancelled \subseteq Cancellable /\ disk \in [Blocks -> Uploads \cup {None}]
    /\ bitmap \subseteq Blocks /\ meta \in [MetaKeys -> Files \cup {None}]
    /\ answer \in [Uploads -> {"none", "success", "error"}]

----------------------------------------------------------------------------
(* The inductive invariant                                                 *)

\* The blocks of a list of flushes, of its tokens and of a list of tokens.
Res(is) == UNION {is[i].results : i \in DOMAIN is}
Tok(is) == UNION {is[i].token : i \in DOMAIN is}
Rol(r) == UNION {r[i] : i \in DOMAIN r}
HeldOf(hu, f, r) == f.got \cup Tok(hu.infos) \cup Rol(r)
Mine(u) == HeldOf(h[u], flush[u], rolling[u])

\* A name has metadata under one of its keys.
Stored(n) == \E k \in MetaKeys : k[2] = n /\ meta[k] # None

\* What holds of one upload, given its place p, handler hu, flush f, tokens r
\* to roll back and answer a.  The flush goroutine runs while the goroutine of
\* the channel waits for it.
LControl(p, hu, f, r) ==
    /\ f.at # "none" <=> p \in {"put", "final"}
    /\ f.at = "none" => f = NoFlush
    /\ f.at = "alloc" => f.got = {} /\ f.todo = {} /\ f.cur = None /\ f.want > 0
    /\ f.at = "write" => f.got # {}
    /\ f.todo \subseteq f.got /\ f.cur \in f.todo \cup {None}
    /\ f.res # "none" => f.cur # None
    /\ r # <<>> => p \in {"rollback", "exists"}
    /\ p \in {"rollback", "exists"} => Tok(hu.infos) = {}
    /\ p = "first" => hu = NewHandler

\* No block is in two of its lists, and none is committed before its commit.
LTokens(p, hu, f, r) ==
    /\ \A i, j \in DOMAIN hu.infos : i # j => hu.infos[i].token \cap hu.infos[j].token = {}
    /\ \A i, j \in DOMAIN r : i # j => r[i] \cap r[j] = {}
    /\ f.got \cap Tok(hu.infos) = {}
    /\ p \notin {"committed", "done"} => HeldOf(hu, f, r) \cap bitmap = {}
    /\ p \notin {"rollback", "exists", "done"} => Res(hu.infos) = Tok(hu.infos)

\* What is written is on the disk.
LData(u, hu, f) ==
    /\ \A b \in (f.got \ f.todo) \cup Tok(hu.infos) : disk[b] \in {u} \cup Cancellable
    /\ f.res = "ok" => disk[f.cur] \in {u} \cup Cancellable

\* Data that is not pending any more has blocks, or is being flushed.
LFilled(p, hu, f) ==
    /\ p \notin {"rollback", "exists", "done"} /\ hu.fileSize > hu.pending
          => Tok(hu.infos) # {} \/ f.at # "none"
    /\ p \in {"final", "commit"} => hu.fileSize > hu.pending

LStored(u, p, a) ==
    p \in {"committed", "found", "exists"} \/ a = "success" => Stored(NameOf[u])

Local(u, p, hu, f, r, a) ==
    /\ LControl(p, hu, f, r) /\ LTokens(p, hu, f, r) /\ LData(u, hu, f)
    /\ LFilled(p, hu, f) /\ LStored(u, p, a)

UploadInv(u) == Local(u, pc[u], h[u], flush[u], rolling[u], answer[u])

\* While the server runs every block is free, committed or held, and held once.
OwnerInv ==
    /\ \A u \in Uploads : Mine(u) \subseteq Blocks /\ Mine(u) \cap free = {}
    /\ \A u, v \in Uploads : u # v => Mine(u) \cap Mine(v) = {}
    /\ bitmap \cap free = {}
    /\ up => \A b \in Blocks : b \in free \/ b \in bitmap \/ \E u \in Uploads : b \in Mine(u)

\* The kernel has at most the write its flush waits for, or a cancelled one.
InflightInv ==
    \A u \in Uploads : \A b \in Blocks : <<u, b>> \in inflight =>
       u \in cancelled \/ (flush[u].cur = b /\ flush[u].res = "none")

MetaInv == \A k \in MetaKeys : meta[k] # None =>
              meta[k] \in Files /\ meta[k].blocks # {} /\ meta[k].blocks \subseteq bitmap

\* A crash leaves nothing of the volatile state.
DownInv == ~ up => /\ inflight = {} /\ free = {}
                   /\ \A u \in Uploads : /\ pc[u] \in {"first", "done"} /\ h[u] = NewHandler
                                         /\ flush[u] = NoFlush /\ rolling[u] = <<>>

IInv == /\ Types /\ (\A u \in Uploads : UploadInv(u)) /\ OwnerInv /\ InflightInv
        /\ MetaInv /\ CommittedDataIntact /\ DownInv

----------------------------------------------------------------------------
(* Lists of flushes and of tokens                                          *)

(* completeFlush adds the blocks of its flush to results and tokens.       *)
LEMMA AppendInfo ==
    ASSUME NEW is \in Seq(Info), NEW g \in SUBSET Blocks, NEW is2,
           is2 = Append(is, [results |-> g, token |-> g])
    PROVE  /\ is2 \in Seq(Info)
           /\ Tok(is2) = Tok(is) \cup g /\ Res(is2) = Res(is) \cup g
           /\ /\ \A i, j \in DOMAIN is : i # j => is[i].token \cap is[j].token = {}
              /\ g \cap Tok(is) = {}
              => \A i, j \in DOMAIN is2 : i # j => is2[i].token \cap is2[j].token = {}
<1> DEFINE x == [results |-> g, token |-> g]
<1>1. x \in Info /\ x.results = g /\ x.token = g
  BY Zenon DEF Info
<1> HIDE DEF x
<1>2. /\ is2 \in Seq(Info) /\ Len(is) \in Nat /\ DOMAIN is = 1 .. Len(is)
      /\ DOMAIN is2 = 1 .. Len(is) + 1 /\ is2[Len(is) + 1] = x
      /\ \A i \in 1 .. Len(is) : is2[i] = is[i]
  BY <1>1 DEF x
<1>3. \A i \in DOMAIN is2 : (i \in DOMAIN is /\ is2[i] = is[i]) \/ (i = Len(is) + 1 /\ is2[i] = x)
  BY <1>2
<1>4. DOMAIN is \subseteq DOMAIN is2 /\ Len(is) + 1 \in DOMAIN is2
  BY <1>2
<1>5. Tok(is2) = Tok(is) \cup g
  BY <1>1, <1>2, <1>3, <1>4 DEF Tok
<1>6. Res(is2) = Res(is) \cup g
  BY <1>1, <1>2, <1>3, <1>4 DEF Res
<1>7. ASSUME \A i, j \in DOMAIN is : i # j => is[i].token \cap is[j].token = {},
             g \cap Tok(is) = {}, NEW i \in DOMAIN is2, NEW j \in DOMAIN is2, i # j
      PROVE  is2[i].token \cap is2[j].token = {}
  <2>1. \A k \in DOMAIN is : is[k].token \cap g = {}
    BY <1>7 DEF Tok
  <2> QED BY <1>1, <1>3, <1>7, <2>1, Zenon
<1> QED BY <1>2, <1>5, <1>6, <1>7, Zenon

(* rollbackCompletedFlushes takes the tokens out of the list as they are.  *)
LEMMA TakeTokens ==
    ASSUME NEW is \in Seq(Info), NEW r, NEW is2,
           r = [i \in DOMAIN is |-> is[i].token],
           is2 = [i \in DOMAIN is |-> [is[i] EXCEPT !.token = {}]]
    PROVE  /\ is2 \in Seq(Info) /\ r \in Seq(SUBSET Blocks)
           /\ Tok(is2) = {} /\ Rol(r) = Tok(is)
           /\ (\A i, j \in DOMAIN is : i # j => is[i].token \cap is[j].token = {})
              => \A i, j \in DOMAIN r : i # j => r[i] \cap r[j] = {}
<1>1. Len(is) \in Nat /\ DOMAIN is = 1 .. Len(is) /\ \A i \in DOMAIN is : is[i] \in Info
  OBVIOUS
<1>2. \A x \in Info : x.token \in SUBSET Blocks /\ [x EXCEPT !.token = {}] \in Info
                       /\ [x EXCEPT !.token = {}].token = {}
  BY Zenon DEF Info
<1>3. /\ r \in [1 .. Len(is) -> SUBSET Blocks] /\ DOMAIN r = DOMAIN is
      /\ \A i \in DOMAIN is : r[i] = is[i].token
  BY <1>1, <1>2, Zenon
<1>4. /\ is2 \in [1 .. Len(is) -> Info] /\ DOMAIN is2 = DOMAIN is
      /\ \A i \in DOMAIN is : is2[i].token = {}
  BY <1>1, <1>2, Zenon
<1>5. r \in Seq(SUBSET Blocks) /\ is2 \in Seq(Info)
  BY <1>1, <1>3, <1>4
<1>6. Tok(is2) = {}
  BY <1>4 DEF Tok
<1>7. Rol(r) = Tok(is)
  BY <1>3, Zenon DEF Rol, Tok
<1> QED BY <1>3, <1>5, <1>6, <1>7, Zenon

(* One round of its loop gives back the first token.                       *)
LEMMA FirstToken ==
    ASSUME NEW r \in Seq(SUBSET Blocks), r # <<>>,
           \A i, j \in DOMAIN r : i # j => r[i] \cap r[j] = {}
    PROVE  /\ Tail(r) \in Seq(SUBSET Blocks) /\ Rol(r) = Head(r) \cup Rol(Tail(r))
           /\ Head(r) \cap Rol(Tail(r)) = {}
           /\ \A i, j \in DOMAIN Tail(r) : i # j => Tail(r)[i] \cap Tail(r)[j] = {}
<1>1. /\ Len(r) \in Nat \ {0} /\ DOMAIN r = 1 .. Len(r) /\ Head(r) = r[1]
      /\ Tail(r) \in Seq(SUBSET Blocks) /\ DOMAIN Tail(r) = 1 .. Len(r) - 1
      /\ \A i \in 1 .. Len(r) - 1 : Tail(r)[i] = r[i + 1]
  OBVIOUS
<1>2. \A i \in DOMAIN r : i = 1 \/ (i - 1 \in DOMAIN Tail(r) /\ Tail(r)[i - 1] = r[i])
  BY <1>1
<1>3. \A i \in DOMAIN Tail(r) : i + 1 \in DOMAIN r /\ Tail(r)[i] = r[i + 1] /\ i + 1 # 1
  BY <1>1
<1>4. 1 \in DOMAIN r
  BY <1>1
<1>5. Rol(r) = Head(r) \cup Rol(Tail(r))
  <2>1. \A b : b \in Rol(r) <=> \E i \in DOMAIN r : b \in r[i]
    BY Zenon DEF Rol
  <2>2. \A b : b \in Rol(Tail(r)) <=> \E i \in DOMAIN Tail(r) : b \in Tail(r)[i]
    BY Zenon DEF Rol
  <2>3. \A b : b \in Rol(r) => b \in Head(r) \cup Rol(Tail(r))
    <3> SUFFICES ASSUME NEW b \in Rol(r), b \notin Head(r) PROVE b \in Rol(Tail(r))
      BY Zenon
    <3>1. PICK i \in DOMAIN r : b \in r[i]
      BY <2>1, Zenon
    <3>2. i # 1
      BY <1>1, <3>1, Zenon
    <3> QED BY <1>2, <2>2, <3>1, <3>2, Zenon
  <2>4. \A b : b \in Head(r) \cup Rol(Tail(r)) => b \in Rol(r)
    BY <1>1, <1>3, <1>4, <2>1, <2>2
  <2> QED BY <2>3, <2>4, Zenon
<1>6. Head(r) \cap Rol(Tail(r)) = {}
  BY <1>1, <1>3, <1>4 DEF Rol
<1>7. \A i, j \in DOMAIN Tail(r) : i # j => i + 1 # j + 1
  BY <1>1
<1>8. \A i, j \in DOMAIN Tail(r) : i # j => Tail(r)[i] \cap Tail(r)[j] = {}
  BY <1>3, <1>7, Zenon
<1> QED BY <1>1, <1>5, <1>6, <1>8, Zenon

(* Empty lists.                                                            *)
LEMMA EmptyLists == /\ Tok(<<>>) = {} /\ Res(<<>>) = {} /\ Rol(<<>>) = {}
                    /\ <<>> \in Seq(Info) /\ <<>> \in Seq(SUBSET Blocks)
BY DEF Tok, Res, Rol

(* NewHandler and NoFlush are a handler and a flush that hold nothing.     *)
LEMMA NothingHeld ==
    /\ NewHandler \in Handlers /\ NoFlush \in Flushes
    /\ NewHandler.infos = <<>> /\ NewHandler.fileSize = 0 /\ NewHandler.pending = 0
    /\ NoFlush.at = "none" /\ NoFlush.got = {} /\ NoFlush.todo = {} /\ NoFlush.cur = None
    /\ NoFlush.res = "none"
    /\ HeldOf(NewHandler, NoFlush, <<>>) = {}
BY EmptyLists, Zenon DEF NewHandler, NoFlush, Handlers, Flushes, HeldOf

(* Held is the union of the three.                                         *)
LEMMA HeldIsMine == \A u \in Uploads : Held(u) = Mine(u)
BY Zenon DEF Held, Mine, HeldOf, Tok, Rol

----------------------------------------------------------------------------
(* Steps of one upload                                                     *)

\* The other uploads stay as they are.
Others(u) == \A v \in Uploads \ {u} :
    /\ pc'[v] = pc[v] /\ h'[v] = h[v] /\ flush'[v] = flush[v]
    /\ rolling'[v] = rolling[v] /\ answer'[v] = answer[v]

(* What the others hold is what they held.                                 *)
LEMMA OthersHold ==
    ASSUME NEW u \in Uploads, Others(u)
    PROVE  \A v \in Uploads \ {u} : Mine(v)' = Mine(v)
BY DEF Others, Mine, HeldOf, Tok, Rol

(* The steps below say what holds of an upload with its primed values as   *)
(* arguments.                                                              *)
LEMMA PrimedControl ==
    ASSUME NEW v \in Uploads, LControl(pc'[v], h'[v], flush'[v], rolling'[v])
    PROVE  LControl(pc[v], h[v], flush[v], rolling[v])'
BY Zenon DEF LControl, Tok, NoFlush, NewHandler

(* The same for its tokens.                                                *)
LEMMA PrimedTokens ==
    ASSUME NEW v \in Uploads, UNCHANGED bitmap,
           LTokens(pc'[v], h'[v], flush'[v], rolling'[v])
    PROVE  LTokens(pc[v], h[v], flush[v], rolling[v])'
BY ZenonT(60) DEF LTokens, HeldOf, Tok, Res, Rol

(* The same for all of it, when disk and DB stay as they are.              *)
LEMMA Primed ==
    ASSUME NEW v \in Uploads, UNCHANGED <<disk, bitmap, meta>>,
           Local(v, pc'[v], h'[v], flush'[v], rolling'[v], answer'[v])
    PROVE  UploadInv(v)'
<1>1. LControl(pc[v], h[v], flush[v], rolling[v])'
  BY PrimedControl, Zenon DEF Local
<1>2. LTokens(pc[v], h[v], flush[v], rolling[v])'
  BY PrimedTokens, Zenon DEF Local
<1>3. LData(v, h[v], flush[v])'
  BY Zenon DEF Local, LData, Tok
<1>4. LFilled(pc[v], h[v], flush[v])'
  BY Zenon DEF Local, LFilled, Tok
<1>5. LStored(v, pc[v], answer[v])'
  BY Zenon DEF Local, LStored, Stored
<1> QED BY <1>1, <1>2, <1>3, <1>4, <1>5, Zenon DEF UploadInv, Local

(* A step of one upload that leaves disk and DB alone and moves blocks, if *)
(* at all, between what is free and what it holds.                         *)
LEMMA Frame ==
    ASSUME IInv, up, NEW u \in Uploads, Types', Others(u),
           UNCHANGED <<up, inflight, disk, cancelled, bitmap, meta>>,
           Local(u, pc'[u], h'[u], flush'[u], rolling'[u], answer'[u]),
           free' \cup Mine(u)' = free \cup Mine(u), free' \cap Mine(u)' = {},
           bitmap \cap free' = {},
           \A b \in Blocks : <<u, b>> \in inflight =>
              u \in cancelled \/ (flush'[u].cur = b /\ flush'[u].res = "none")
    PROVE  IInv'
<1>0. /\ Types /\ (\A v \in Uploads : UploadInv(v)) /\ OwnerInv /\ InflightInv
      /\ MetaInv /\ CommittedDataIntact
  BY Zenon DEF IInv
<1>1. ASSUME NEW v \in Uploads PROVE UploadInv(v)'
  <2>1. Local(v, pc'[v], h'[v], flush'[v], rolling'[v], answer'[v])
    BY <1>0, Zenon DEF Others, UploadInv
  <2> QED BY <2>1, Primed, Zenon
<1>2. OwnerInv'
  <2>1. \A v \in Uploads \ {u} : Mine(v)' = Mine(v)
    BY OthersHold, Zenon
  <2>2. /\ \A v \in Uploads : Mine(v) \subseteq Blocks /\ Mine(v) \cap free = {}
        /\ \A v, w \in Uploads : v # w => Mine(v) \cap Mine(w) = {}
        /\ \A b \in Blocks : b \in free \/ b \in bitmap \/ \E v \in Uploads : b \in Mine(v)
        /\ free \subseteq Blocks
    BY <1>0, Zenon DEF OwnerInv, Types
  <2>3. \A v \in Uploads : Mine(v)' \subseteq Blocks /\ Mine(v)' \cap free' = {}
    BY <2>1, <2>2
  <2>4. \A v, w \in Uploads : v # w => Mine(v)' \cap Mine(w)' = {}
    BY <2>1, <2>2
  <2>5. \A b \in Blocks : b \in free' \/ b \in bitmap \/ \E v \in Uploads : b \in Mine(v)'
    BY <2>1, <2>2
  <2> QED BY <2>3, <2>4, <2>5, Zenon DEF OwnerInv
<1>3. InflightInv'
  BY <1>0 DEF InflightInv, Others
<1>4. MetaInv' /\ CommittedDataIntact' /\ DownInv'
  BY <1>0, Zenon DEF MetaInv, CommittedDataIntact, DownInv
<1> QED BY <1>1, <1>2, <1>3, <1>4, Zenon DEF IInv

\* The step with the new values named.
Moves(u, q, hu, f, r, a) ==
    /\ up /\ UNCHANGED <<up, inflight, disk, cancelled, bitmap, meta>>
    /\ pc' = [pc EXCEPT ![u] = q] /\ h' = [h EXCEPT ![u] = hu]
    /\ flush' = [flush EXCEPT ![u] = f] /\ rolling' = [rolling EXCEPT ![u] = r]
    /\ answer' = [answer EXCEPT ![u] = a]

(* Frame for such a step.                                                  *)
LEMMA Step ==
    ASSUME IInv, NEW u \in Uploads, NEW q \in Places, NEW hu \in Handlers, NEW f \in Flushes,
           NEW r \in Seq(SUBSET Blocks), NEW a \in {"none", "success", "error"},
           Moves(u, q, hu, f, r, a), Local(u, q, hu, f, r, a),
           free' \cup HeldOf(hu, f, r) = free \cup Mine(u), free' \cap HeldOf(hu, f, r) = {},
           bitmap \cap free' = {},
           \A b \in Blocks : <<u, b>> \in inflight =>
              u \in cancelled \/ (f.cur = b /\ f.res = "none")
    PROVE  IInv'
<1>0. Types /\ free \cup Mine(u) \subseteq Blocks
  BY Zenon DEF IInv, OwnerInv, Types
<1>1. pc'[u] = q /\ h'[u] = hu /\ flush'[u] = f /\ rolling'[u] = r /\ answer'[u] = a
  BY <1>0, Zenon DEF Types, Moves
<1>2. Others(u)
  BY <1>0, Zenon DEF Types, Others, Moves
<1>3. Types'
  BY <1>0, Zenon DEF Types, Moves
<1>4. Mine(u)' = HeldOf(hu, f, r)
  BY <1>1 DEF Mine, HeldOf, Tok, Rol
<1>5. up /\ UNCHANGED <<up, inflight, disk, cancelled, bitmap, meta>>
  BY Zenon DEF Moves
<1> QED BY <1>1, <1>2, <1>3, <1>4, <1>5, Frame, Zenon

\* The premises of Step, in one.
Fits(u, q, hu, f, r, a) ==
    /\ q \in Places /\ hu \in Handlers /\ f \in Flushes
    /\ r \in Seq(SUBSET Blocks) /\ a \in {"none", "success", "error"}
    /\ Moves(u, q, hu, f, r, a) /\ Local(u, q, hu, f, r, a)
    /\ free' \cup HeldOf(hu, f, r) = free \cup Mine(u)
    /\ free' \cap HeldOf(hu, f, r) = {} /\ bitmap \cap free' = {}
    /\ \A b \in Blocks : <<u, b>> \in inflight =>
          u \in cancelled \/ (f.cur = b /\ f.res = "none")

(* A step that fits keeps the invariant.                                   *)
LEMMA FitStep ==
    ASSUME IInv, NEW u \in Uploads, NEW q, NEW hu, NEW f, NEW r, NEW a, Fits(u, q, hu, f, r, a)
    PROVE  IInv'
BY Step, ZenonT(60) DEF Fits

(* What the invariant says of the upload that takes a step.                *)
LEMMA HereTypes ==
    ASSUME IInv, NEW u \in Uploads
    PROVE  /\ Types /\ pc[u] \in Places /\ h[u] \in Handlers /\ flush[u] \in Flushes
           /\ rolling[u] \in Seq(SUBSET Blocks) /\ answer[u] \in {"none", "success", "error"}
           /\ h[u].infos \in Seq(Info) /\ h[u].pending \in Nat /\ h[u].fileSize \in Nat
           /\ flush[u].got \subseteq Blocks /\ flush[u].want \in Nat
<1>1. Types
  BY Zenon DEF IInv
<1>2. pc[u] \in Places /\ h[u] \in Handlers /\ flush[u] \in Flushes
      /\ rolling[u] \in Seq(SUBSET Blocks) /\ answer[u] \in {"none", "success", "error"}
  BY <1>1, Zenon DEF Types
<1>3. /\ h[u].infos \in Seq(Info) /\ h[u].pending \in Nat /\ h[u].fileSize \in Nat
      /\ flush[u].got \subseteq Blocks /\ flush[u].want \in Nat
  BY <1>2, Zenon DEF Handlers, Flushes
<1> QED BY <1>1, <1>2, <1>3, Zenon

(* Its place, its flush and its rollback.                                  *)
LEMMA HereControl ==
    ASSUME IInv, NEW u \in Uploads
    PROVE  LControl(pc[u], h[u], flush[u], rolling[u])
BY Zenon DEF IInv, UploadInv, Local

(* Its tokens and results.                                                 *)
LEMMA HereTokens ==
    ASSUME IInv, NEW u \in Uploads
    PROVE  LTokens(pc[u], h[u], flush[u], rolling[u])
BY Zenon DEF IInv, UploadInv, Local

(* Its data on the disk.                                                   *)
LEMMA HereData ==
    ASSUME IInv, NEW u \in Uploads
    PROVE  LData(u, h[u], flush[u])
BY Zenon DEF IInv, UploadInv, Local

(* The blocks of its data, and the metadata of its name.                   *)
LEMMA HereStored ==
    ASSUME IInv, NEW u \in Uploads
    PROVE  LFilled(pc[u], h[u], flush[u]) /\ LStored(u, pc[u], answer[u])
BY Zenon DEF IInv, UploadInv, Local

(* The blocks it holds.                                                    *)
LEMMA HereHeld ==
    ASSUME IInv, NEW u \in Uploads
    PROVE  /\ Mine(u) = HeldOf(h[u], flush[u], rolling[u])
           /\ Mine(u) \subseteq Blocks /\ Mine(u) \cap free = {} /\ bitmap \cap free = {}
<1>1. Mine(u) = HeldOf(h[u], flush[u], rolling[u])
  BY Zenon DEF Mine
<1>2. Mine(u) \subseteq Blocks /\ Mine(u) \cap free = {} /\ bitmap \cap free = {}
  BY Zenon DEF IInv, OwnerInv
<1> QED BY <1>1, <1>2, Zenon

(* The writes the kernel has for it.                                       *)
LEMMA HereKernel ==
    ASSUME IInv, NEW u \in Uploads
    PROVE  \A b \in Blocks : <<u, b>> \in inflight =>
              u \in cancelled \/ (flush[u].cur = b /\ flush[u].res = "none")
BY Zenon DEF IInv, InflightInv

(* A step that only moves the goroutine on, and may answer.                *)
LEMMA PlaceStep ==
    ASSUME IInv, up, NEW u \in Uploads, NEW q \in Places, NEW a \in {"none", "success", "error"},
           pc' = [pc EXCEPT ![u] = q], answer' = [answer EXCEPT ![u] = a],
           UNCHANGED <<up, pool, h, flush, rolling, cancelled, bitmap, meta>>,
           Local(u, q, h[u], flush[u], rolling[u], a)
    PROVE  IInv'
<1>1. /\ h' = [h EXCEPT ![u] = h[u]] /\ flush' = [flush EXCEPT ![u] = flush[u]]
      /\ rolling' = [rolling EXCEPT ![u] = rolling[u]]
  BY HereTypes, Zenon DEF Types
<1>2. free' = free /\ UNCHANGED <<up, inflight, disk, cancelled, bitmap, meta>>
  BY Zenon DEF pool
<1>3. /\ h[u] \in Handlers /\ flush[u] \in Flushes /\ rolling[u] \in Seq(SUBSET Blocks)
      /\ free' \cup HeldOf(h[u], flush[u], rolling[u]) = free \cup Mine(u)
      /\ free' \cap HeldOf(h[u], flush[u], rolling[u]) = {} /\ bitmap \cap free' = {}
      /\ \A b \in Blocks : <<u, b>> \in inflight =>
            u \in cancelled \/ (flush[u].cur = b /\ flush[u].res = "none")
  BY <1>2, HereTypes, HereHeld, HereKernel, Zenon
<1>4. Moves(u, q, h[u], flush[u], rolling[u], a)
  BY <1>1, <1>2, ZenonT(60) DEF Moves
<1> QED BY <1>3, <1>4, Step, Zenon

(* RequestChannel: START, COMPLETE and the end of the payloads.            *)
LEMMA ClientStep ==
    ASSUME IInv, NEW u \in Uploads, StartPutObject(u) \/ CompletePutObject(u) \/ EndOfPayloads(u)
    PROVE  IInv'
<1> USE DEF Places
<1>1. /\ up /\ UNCHANGED <<up, pool, h, flush, rolling, cancelled, bitmap, meta>>
      /\ pc[u] \in {"first", "next"}
  BY Zenon DEF StartPutObject, CompletePutObject, EndOfPayloads, persistent
<1>2. PICK q \in {"next", "complete", "done"}, a \in {"none", "success", "error"} :
         /\ pc' = [pc EXCEPT ![u] = q] /\ answer' = [answer EXCEPT ![u] = a]
         /\ a = "success" => a = answer[u]
  <2>1. answer = [answer EXCEPT ![u] = answer[u]] /\ answer[u] \in {"none", "success", "error"}
    BY HereTypes, Zenon DEF Types
  <2> QED BY <2>1, Zenon DEF StartPutObject, CompletePutObject, EndOfPayloads, Goto, Answer
<1>3. LControl(q, h[u], flush[u], rolling[u])
  BY <1>1, HereControl, Zenon DEF LControl
<1>4. LTokens(q, h[u], flush[u], rolling[u])
  BY <1>1, HereTokens, HereHeld, Zenon DEF LTokens
<1>5. LFilled(q, h[u], flush[u])
  BY <1>1, HereStored, Zenon DEF LFilled
<1>6. LStored(u, q, a)
  BY <1>1, <1>2, HereStored, Zenon DEF LStored
<1>7. Local(u, q, h[u], flush[u], rolling[u], a) /\ q \in Places
  BY <1>2, <1>3, <1>4, <1>5, <1>6, HereData, Zenon DEF Local
<1> QED BY <1>1, <1>2, <1>7, PlaceStep, ZenonT(60)

(* Every way into rollbackCompletedFlushes: the blocks of a running flush  *)
(* are given back, the tokens of the completed ones are to be.             *)
LEMMA RollbackStep ==
    ASSUME IInv, NEW u \in Uploads, NEW q \in {"rollback", "exists"}, NEW hu \in Handlers,
           NEW r \in Seq(SUBSET Blocks), Tok(hu.infos) = {}, Rol(r) = Tok(h[u].infos),
           \A i, j \in DOMAIN r : i # j => r[i] \cap r[j] = {},
           Moves(u, q, hu, NoFlush, r, answer[u]), free' = free \cup flush[u].got,
           pc[u] \notin {"rollback", "exists", "committed", "done"},
           q = "exists" => Stored(NameOf[u]),
           \A b \in Blocks : <<u, b>> \in inflight => u \in cancelled
    PROVE  IInv'
<1>1. HeldOf(hu, NoFlush, r) = Tok(h[u].infos)
  BY NothingHeld, Zenon DEF HeldOf
<1>3. /\ Rol(rolling[u]) = {} /\ Mine(u) = flush[u].got \cup Tok(h[u].infos)
      /\ flush[u].got \cap Tok(h[u].infos) = {} /\ Mine(u) \cap bitmap = {}
      /\ Mine(u) \cap free = {} /\ bitmap \cap free = {}
  <2>1. rolling[u] = <<>>
    BY HereControl, ZenonT(60) DEF LControl
  <2> QED BY <2>1, HereTokens, HereHeld, EmptyLists, ZenonT(60) DEF HeldOf, LTokens
<1>4. LControl(q, hu, NoFlush, r)
  BY NothingHeld, Zenon DEF LControl
<1>5. LTokens(q, hu, NoFlush, r)
  <2>1. \A i \in DOMAIN hu.infos : hu.infos[i].token = {}
    BY DEF Tok
  <2>2. HeldOf(hu, NoFlush, r) \cap bitmap = {} /\ NoFlush.got \cap Tok(hu.infos) = {}
    BY <1>1, <1>3, Zenon
  <2> QED BY <2>1, <2>2, Zenon DEF LTokens
<1>6. LData(u, hu, NoFlush)
  BY NothingHeld, Zenon DEF LData
<1>7. LFilled(q, hu, NoFlush)
  BY Zenon DEF LFilled
<1>8. LStored(u, q, answer[u])
  BY HereStored, Zenon DEF LStored
<1>9. /\ free' \cup HeldOf(hu, NoFlush, r) = free \cup Mine(u)
      /\ free' \cap HeldOf(hu, NoFlush, r) = {} /\ bitmap \cap free' = {}
  BY <1>1, <1>3, Zenon
<1>10. q \in Places /\ NoFlush \in Flushes /\ answer[u] \in {"none", "success", "error"}
  BY HereTypes, NothingHeld, Zenon DEF Places
<1>11. Local(u, q, hu, NoFlush, r, answer[u])
  BY <1>4, <1>5, <1>6, <1>7, <1>8, Zenon DEF Local
<1>12. \A b \in Blocks : <<u, b>> \in inflight =>
          u \in cancelled \/ (NoFlush.cur = b /\ NoFlush.res = "none")
  BY Zenon
<1> QED BY <1>9, <1>10, <1>11, <1>12, Step

(* BeginRollback from a place without a flush.                             *)
LEMMA BeginRollbackStep ==
    ASSUME IInv, up, NEW u \in Uploads, NEW q \in {"rollback", "exists"},
           BeginRollback(u), Goto(u, q),
           UNCHANGED <<up, pool, flush, cancelled, persistent, answer>>,
           pc[u] \in {"next", "complete", "commit", "found"}, q = "exists" => pc[u] = "found"
    PROVE  IInv'
<1> DEFINE is2 == [i \in DOMAIN h[u].infos |-> [h[u].infos[i] EXCEPT !.token = {}]]
           r   == [i \in DOMAIN h[u].infos |-> h[u].infos[i].token]
           hu  == [h[u] EXCEPT !.infos = is2, !.finalized = TRUE, !.pending = 0]
<1>1. /\ is2 \in Seq(Info) /\ r \in Seq(SUBSET Blocks)
      /\ Tok(is2) = {} /\ Rol(r) = Tok(h[u].infos)
      /\ \A i, j \in DOMAIN r : i # j => r[i] \cap r[j] = {}
  BY HereTypes, HereTokens, HereHeld, TakeTokens, ZenonT(60) DEF LTokens
<1>2. hu \in Handlers /\ hu.infos = is2
  BY <1>1, HereTypes, ZenonT(60) DEF Handlers
<1>3. /\ h' = [h EXCEPT ![u] = hu] /\ rolling' = [rolling EXCEPT ![u] = r]
      /\ pc' = [pc EXCEPT ![u] = q]
  BY HereTypes, ZenonT(60) DEF BeginRollback, Goto, Types
<1>4. flush[u] = NoFlush
  BY HereControl, Zenon DEF LControl
<1>5. flush' = [flush EXCEPT ![u] = NoFlush] /\ answer' = [answer EXCEPT ![u] = answer[u]]
  BY <1>4, HereTypes, Zenon DEF Types
<1>6. Moves(u, q, hu, NoFlush, r, answer[u])
  BY <1>3, <1>5, ZenonT(60) DEF Moves, pool, persistent
<1>7. free' = free \cup flush[u].got
  BY <1>4, NothingHeld, Zenon DEF pool
<1>8. \A b \in Blocks : <<u, b>> \in inflight => u \in cancelled
  BY <1>4, HereTypes, HereKernel, NothingHeld, UploadAssumption, Zenon
<1>9. q = "exists" => Stored(NameOf[u])
  BY HereStored, Zenon DEF LStored
<1> HIDE DEF is2, r, hu
<1> QED BY <1>1, <1>2, <1>6, <1>7, <1>8, <1>9, RollbackStep, Zenon

(* TimeOut, a failed commit and an object that exists.                     *)
LEMMA GiveUpStep ==
    ASSUME IInv, NEW u \in Uploads,
           TimeOut(u) \/ CommitFails(u) \/ (CommitAck(u) /\ pc[u] = "found")
    PROVE  IInv'
<1>1. CASE TimeOut(u) \/ CommitFails(u)
  BY <1>1, BeginRollbackStep, Zenon DEF TimeOut, CommitFails
<1>2. CASE CommitAck(u) /\ pc[u] = "found"
  BY <1>2, BeginRollbackStep, Zenon DEF CommitAck
<1> QED BY <1>1, <1>2, Zenon

(* Put and Complete on an upload without a flush: data is added, finalized *)
(* is set, an error is answered or a flush of the pending data begins.     *)
LEMMA IdleStep ==
    ASSUME IInv, NEW u \in Uploads,
           NEW q \in {"next", "complete", "put", "final", "commit", "done"},
           NEW hu \in Handlers, NEW f \in Flushes, NEW a \in {"none", "success", "error"},
           hu.infos = h[u].infos, Moves(u, q, hu, f, rolling[u], a), free' = free,
           pc[u] \in {"first", "next", "complete"},
           f.got = {}, f.todo = {}, f.cur = None, f.res = "none", f.at # "write",
           f.at # "none" <=> q \in {"put", "final"}, f.at = "none" => f = NoFlush,
           f.at = "alloc" => f.want > 0,
           a = "success" => answer[u] = "success", LFilled(q, hu, f)
    PROVE  IInv'
<1>1. flush[u] = NoFlush /\ rolling[u] = <<>> /\ Rol(rolling[u]) = {} /\ flush[u].got = {}
  BY HereControl, NothingHeld, EmptyLists, Zenon DEF LControl
<1>2. /\ HeldOf(hu, f, rolling[u]) = Tok(h[u].infos) /\ Mine(u) = Tok(h[u].infos)
      /\ Mine(u) \cap bitmap = {}
  <2>1. HeldOf(hu, f, rolling[u]) = Tok(h[u].infos)
    BY <1>1, ZenonT(60) DEF HeldOf
  <2>2. HeldOf(h[u], flush[u], rolling[u]) = Tok(h[u].infos)
    BY <1>1, Zenon DEF HeldOf
  <2>3. HeldOf(h[u], flush[u], rolling[u]) \cap bitmap = {}
    BY HereTokens, HereHeld, Zenon DEF LTokens
  <2> QED BY <2>1, <2>2, <2>3, HereTypes, HereHeld, Zenon
<1>3. LControl(q, hu, f, rolling[u])
  BY <1>1, Zenon DEF LControl
<1>4. LTokens(q, hu, f, rolling[u])
  <2>1. /\ \A i, j \in DOMAIN hu.infos : i # j => hu.infos[i].token \cap hu.infos[j].token = {}
        /\ \A i, j \in DOMAIN rolling[u] : i # j => rolling[u][i] \cap rolling[u][j] = {}
        /\ Res(hu.infos) = Tok(hu.infos)
    BY HereTokens, HereHeld, ZenonT(60) DEF LTokens
  <2> QED BY <1>2, <2>1, ZenonT(60) DEF LTokens
<1>5. LData(u, hu, f)
  BY HereData, ZenonT(60) DEF LData
<1>6. LStored(u, q, a)
  BY HereStored, ZenonT(60) DEF LStored
<1>7. Local(u, q, hu, f, rolling[u], a)
  BY <1>3, <1>4, <1>5, <1>6, ZenonT(60) DEF Local
<1>8. /\ free' \cup HeldOf(hu, f, rolling[u]) = free \cup Mine(u)
      /\ free' \cap HeldOf(hu, f, rolling[u]) = {} /\ bitmap \cap free' = {}
  BY <1>2, HereHeld, Zenon
<1>9. \A b \in Blocks : <<u, b>> \in inflight => u \in cancelled \/ (f.cur = b /\ f.res = "none")
  BY <1>1, HereTypes, HereKernel, NothingHeld, Zenon
<1>10. q \in Places /\ rolling[u] \in Seq(SUBSET Blocks)
  BY HereTypes, Zenon DEF Places
<1> QED BY <1>7, <1>8, <1>9, <1>10, Step

\* What startFlush makes of a flush of n blocks.
Flushing(n) == [NoFlush EXCEPT !.at = "alloc", !.want = n]

(* It holds nothing yet.                                                   *)
LEMMA NewFlush ==
    ASSUME NEW n \in Nat
    PROVE  /\ Flushing(n) \in Flushes /\ Flushing(n).at = "alloc" /\ Flushing(n).want = n
           /\ Flushing(n).got = {} /\ Flushing(n).todo = {} /\ Flushing(n).cur = None
           /\ Flushing(n).res = "none"
BY ZenonT(60) DEF Flushing, NoFlush, Flushes

(* startFlush from a place without one.                                    *)
LEMMA StartFlushStep ==
    ASSUME IInv, up, NEW u \in Uploads, NEW q \in {"put", "final"}, NEW hu \in Handlers,
           hu.infos = h[u].infos, hu.pending > 0, hu.fileSize > 0, StartFlush(u, hu, q),
           UNCHANGED <<up, pool, rolling, cancelled, persistent, answer>>,
           pc[u] \in {"first", "next", "complete"}
    PROVE  IInv'
<1> DEFINE h2 == [hu EXCEPT !.pending = 0]
<1>1. h2 \in Handlers /\ h2.infos = h[u].infos /\ h2.pending = 0 /\ h2.fileSize > 0
  BY Zenon DEF Handlers
<1>2. hu.pending \in Nat
  BY Zenon DEF Handlers
<1>3. answer[u] \in {"none", "success", "error"}
  BY HereTypes, Zenon
<1>4. /\ h' = [h EXCEPT ![u] = h2] /\ flush' = [flush EXCEPT ![u] = Flushing(hu.pending)]
      /\ pc' = [pc EXCEPT ![u] = q]
  BY Zenon DEF StartFlush, Goto, Flushing
<1>5. rolling' = [rolling EXCEPT ![u] = rolling[u]] /\ answer' = [answer EXCEPT ![u] = answer[u]]
  BY HereTypes, Zenon DEF Types
<1> HIDE DEF h2
<1>6. Moves(u, q, h2, Flushing(hu.pending), rolling[u], answer[u]) /\ free' = free
  BY <1>4, <1>5, ZenonT(60) DEF Moves, pool, persistent
<1>7. LFilled(q, h2, Flushing(hu.pending))
  BY <1>1, <1>2, NewFlush, Zenon DEF LFilled
<1>8. /\ Flushing(hu.pending) \in Flushes /\ Flushing(hu.pending).at = "alloc"
      /\ Flushing(hu.pending).want > 0 /\ Flushing(hu.pending).got = {}
      /\ Flushing(hu.pending).todo = {} /\ Flushing(hu.pending).cur = None
      /\ Flushing(hu.pending).res = "none"
  BY <1>2, NewFlush, Zenon
<1> QED BY <1>1, <1>3, <1>6, <1>7, <1>8, IdleStep

(* A step of Put or Complete that starts no flush.                         *)
LEMMA NoFlushStep ==
    ASSUME IInv, up, NEW u \in Uploads, NEW q \in {"next", "complete", "commit", "done"},
           NEW hu \in Handlers, NEW a \in {"none", "success", "error"}, hu.infos = h[u].infos,
           pc' = [pc EXCEPT ![u] = q], h' = [h EXCEPT ![u] = hu],
           answer' = [answer EXCEPT ![u] = a], a = "success" => answer[u] = "success",
           UNCHANGED <<up, pool, flush, rolling, cancelled, persistent>>,
           pc[u] \in {"first", "next", "complete"},
           q \in {"next", "complete"} => hu.fileSize - hu.pending = h[u].fileSize - h[u].pending,
           q = "commit" => hu.fileSize > 0 /\ hu.pending = 0 /\ h[u].pending = 0
                           /\ hu.fileSize = h[u].fileSize
    PROVE  IInv'
<1>1. flush[u] = NoFlush
  BY HereControl, Zenon DEF LControl
<1>2. flush' = [flush EXCEPT ![u] = NoFlush] /\ rolling' = [rolling EXCEPT ![u] = rolling[u]]
  BY <1>1, HereTypes, Zenon DEF Types
<1>3. Moves(u, q, hu, NoFlush, rolling[u], a) /\ free' = free
  BY <1>2, ZenonT(60) DEF Moves, pool, persistent
<1>4. /\ hu.fileSize \in Nat /\ hu.pending \in Nat /\ h[u].fileSize \in Nat /\ h[u].pending \in Nat
  BY HereTypes, Zenon DEF Handlers
<1>5. h[u].fileSize > h[u].pending => Tok(h[u].infos) # {}
  BY <1>1, HereStored, NothingHeld, Zenon DEF LFilled
<1>6. q # "done" /\ hu.fileSize > hu.pending => h[u].fileSize > h[u].pending
  BY <1>4
<1>7. q = "commit" => hu.fileSize > hu.pending
  BY <1>4, Zenon
<1>8. LFilled(q, hu, NoFlush)
  BY <1>5, <1>6, <1>7, Zenon DEF LFilled
<1>9. /\ NoFlush \in Flushes /\ NoFlush.at = "none" /\ NoFlush.got = {} /\ NoFlush.todo = {}
      /\ NoFlush.cur = None /\ NoFlush.res = "none"
  BY NothingHeld, Zenon
<1> QED BY <1>3, <1>8, <1>9, IdleStep

(* Put: an error, data that waits for more, or data that is flushed.       *)
LEMMA PutStep ==
    ASSUME IInv, up, NEW u \in Uploads, NEW n \in ChunkSizes, NEW hu \in Handlers,
           NEW next \in {"next", "complete"}, hu.infos = h[u].infos,
           hu.pending = h[u].pending, hu.fileSize = h[u].fileSize,
           Put(u, n, hu, next), UNCHANGED <<up, pool, rolling, cancelled, persistent>>,
           pc[u] \in {"first", "next"}
    PROVE  IInv'
<1> DEFINE hn == [hu EXCEPT !.pending = @ + n, !.fileSize = @ + n, !.chunks = @ + 1]
<1>1. n \in Nat /\ MinAllocSize \in Nat /\ MinAllocSize > 0
  BY UploadAssumption
<1>2. /\ hn \in Handlers /\ hn.infos = h[u].infos
      /\ hn.pending = h[u].pending + n /\ hn.fileSize = h[u].fileSize + n
      /\ hn.fileSize - hn.pending = h[u].fileSize - h[u].pending
      /\ h[u].pending \in Nat /\ h[u].fileSize \in Nat
  <2>1. h[u].pending \in Nat /\ h[u].fileSize \in Nat
    BY HereTypes, Zenon
  <2>2. /\ hu.pending + n \in Nat /\ hu.fileSize + n \in Nat /\ hu.chunks + 1 \in Nat
    BY <1>1 DEF Handlers
  <2>3. PICK p \in Nat, s \in Nat, c \in Nat :
           p = hu.pending + n /\ s = hu.fileSize + n /\ c = hu.chunks + 1
    BY <2>2, Zenon
  <2>4. /\ hn \in Handlers /\ hn.infos = hu.infos
        /\ hn.pending = hu.pending + n /\ hn.fileSize = hu.fileSize + n
    <3>1. hn = [hu EXCEPT !.pending = p, !.fileSize = s, !.chunks = c]
      BY <2>3, ZenonT(60)
    <3> HIDE DEF hn
    <3>2. hn \in Handlers /\ hn.infos = hu.infos /\ hn.pending = p /\ hn.fileSize = s
      BY <3>1, ZenonT(60) DEF Handlers
    <3> QED BY <2>3, <3>2, Zenon
  <2> HIDE DEF hn
  <2> QED BY <1>1, <2>1, <2>4
<1>3. CASE hu.flushErr \/ hu.finalized
  BY <1>3, NoFlushStep, Zenon DEF Put, Answer, Goto
<1>4. CASE ~ (hu.flushErr \/ hu.finalized) /\ n > 0 /\ hn.pending >= MinAllocSize
  <2>1. StartFlush(u, hn, "put") /\ UNCHANGED answer
    BY <1>4, Zenon DEF Put
  <2> HIDE DEF hn
  <2>2. hn.pending > 0 /\ hn.fileSize > 0
    BY <1>1, <1>2, <1>4
  <2> QED BY <1>2, <2>1, <2>2, StartFlushStep, Zenon
<1>5. CASE ~ (hu.flushErr \/ hu.finalized) /\ ~ (n > 0 /\ hn.pending >= MinAllocSize)
  <2>1. /\ h' = [h EXCEPT ![u] = hn] /\ pc' = [pc EXCEPT ![u] = next]
        /\ UNCHANGED <<flush, answer>>
    BY <1>5, Zenon DEF Put, Goto
  <2>2. answer' = [answer EXCEPT ![u] = answer[u]] /\ answer[u] \in {"none", "success", "error"}
    BY <2>1, HereTypes, Zenon DEF Types
  <2> HIDE DEF hn
  <2> QED BY <1>2, <2>1, <2>2, NoFlushStep, ZenonT(60)
<1> QED BY <1>3, <1>4, <1>5, Zenon

(* The two kinds of payload that carry data.                               *)
LEMMA DataStep ==
    ASSUME IInv, NEW u \in Uploads, NEW n \in ChunkSizes,
           PutAndCompleteObject(u, n) \/ PutObject(u, n)
    PROVE  IInv'
<1>1. CASE PutObject(u, n)
  BY <1>1, HereTypes, HereHeld, PutStep, ZenonT(60) DEF PutObject
<1>2. CASE PutAndCompleteObject(u, n)
  <2> DEFINE hu == [h[u] EXCEPT !.oneShot = TRUE]
  <2>1. /\ hu \in Handlers /\ hu.infos = h[u].infos
        /\ hu.pending = h[u].pending /\ hu.fileSize = h[u].fileSize
    BY HereTypes, ZenonT(60) DEF Handlers
  <2>2. /\ up /\ pc[u] = "first" /\ Put(u, n, hu, "complete")
        /\ UNCHANGED <<up, pool, rolling, cancelled, persistent>>
    BY <1>2, Zenon DEF PutAndCompleteObject
  <2> HIDE DEF hu
  <2> QED BY <2>1, <2>2, PutStep, Zenon
<1> QED BY <1>1, <1>2, Zenon

(* Complete: a rollback, an error, the final flush or the commit.          *)
LEMMA CompleteStep ==
    ASSUME IInv, NEW u \in Uploads, Complete(u)
    PROVE  IInv'
<1> DEFINE hf == [h[u] EXCEPT !.finalized = TRUE]
<1>1. /\ hf \in Handlers /\ hf.infos = h[u].infos
      /\ hf.pending = h[u].pending /\ hf.fileSize = h[u].fileSize
  BY HereTypes, ZenonT(60) DEF Handlers
<1>2. /\ up /\ pc[u] = "complete" /\ UNCHANGED <<up, pool, cancelled, persistent>>
      /\ answer = [answer EXCEPT ![u] = answer[u]] /\ answer[u] \in {"none", "success", "error"}
      /\ h[u].pending \in Nat /\ h[u].fileSize \in Nat
  BY HereTypes, Zenon DEF Complete, Types
<1>3. CASE h[u].flushErr
  BY <1>2, <1>3, BeginRollbackStep, Zenon DEF Complete
<1>4. CASE ~ h[u].flushErr /\ (h[u].finalized \/ h[u].fileSize = 0)
  <2>1. /\ h' = [h EXCEPT ![u] = hf] /\ pc' = [pc EXCEPT ![u] = "done"]
        /\ answer' = [answer EXCEPT ![u] = "error"] /\ UNCHANGED <<flush, rolling>>
    BY <1>4, Zenon DEF Complete, Answer, Goto
  <2> HIDE DEF hf
  <2> QED BY <1>1, <1>2, <2>1, NoFlushStep, ZenonT(60)
<1>5. CASE ~ h[u].flushErr /\ ~ (h[u].finalized \/ h[u].fileSize = 0) /\ h[u].pending # 0
  <2>1. StartFlush(u, hf, "final") /\ UNCHANGED <<answer, rolling>>
    BY <1>5, Zenon DEF Complete
  <2> HIDE DEF hf
  <2> QED BY <1>1, <1>2, <1>5, <2>1, StartFlushStep
<1>6. CASE ~ h[u].flushErr /\ ~ (h[u].finalized \/ h[u].fileSize = 0) /\ h[u].pending = 0
  <2>1. /\ h' = [h EXCEPT ![u] = hf] /\ pc' = [pc EXCEPT ![u] = "commit"]
        /\ UNCHANGED <<flush, rolling, answer>>
    BY <1>6, Zenon DEF Complete, Goto
  <2>2. answer' = [answer EXCEPT ![u] = answer[u]]
    BY <1>2, <2>1, Zenon
  <2> HIDE DEF hf
  <2>3. /\ hf.fileSize > 0 /\ hf.pending = 0 /\ hf.fileSize = h[u].fileSize
    BY <1>1, <1>2, <1>6
  <2> QED BY <1>1, <1>2, <1>6, <2>1, <2>2, <2>3, NoFlushStep, ZenonT(60)
<1> QED BY <1>3, <1>4, <1>5, <1>6, Zenon

----------------------------------------------------------------------------
(* Steps of a flush                                                        *)

(* A step of runFlush that is not its end.                                 *)
LEMMA FlushStep ==
    ASSUME IInv, up, NEW u \in Uploads, NEW f \in Flushes,
           flush' = [flush EXCEPT ![u] = f],
           UNCHANGED <<up, inflight, disk, pc, h, rolling, cancelled, bitmap, meta, answer>>,
           f.at = "write", f.got # {}, f.todo \subseteq f.got, f.cur = None, f.res = "none",
           flush[u].at # "none", free' \cup f.got = free \cup flush[u].got, free' \cap f.got = {},
           flush[u].got \subseteq f.got,
           \A b \in f.got \ f.todo : disk[b] \in {u} \cup Cancellable,
           flush[u].cur = None \/ flush[u].res # "none"
    PROVE  IInv'
<1>1. /\ h' = [h EXCEPT ![u] = h[u]] /\ pc' = [pc EXCEPT ![u] = pc[u]]
      /\ rolling' = [rolling EXCEPT ![u] = rolling[u]] /\ answer' = [answer EXCEPT ![u] = answer[u]]
  BY HereTypes, Zenon DEF Types
<1>2. Moves(u, pc[u], h[u], f, rolling[u], answer[u])
  BY <1>1, ZenonT(60) DEF Moves
<1>3. pc[u] \in {"put", "final"} /\ rolling[u] = <<>> /\ Rol(rolling[u]) = {}
  BY HereControl, EmptyLists, ZenonT(60) DEF LControl
<1>4. /\ HeldOf(h[u], f, rolling[u]) = f.got \cup Tok(h[u].infos)
      /\ Mine(u) = flush[u].got \cup Tok(h[u].infos)
      /\ Mine(u) \cap bitmap = {} /\ flush[u].got \cap Tok(h[u].infos) = {}
      /\ Mine(u) \cap free = {} /\ bitmap \cap free = {}
  BY <1>3, HereTokens, HereHeld, ZenonT(60) DEF HeldOf, LTokens
<1>5. /\ free' \cup HeldOf(h[u], f, rolling[u]) = free \cup Mine(u)
      /\ free' \cap HeldOf(h[u], f, rolling[u]) = {} /\ bitmap \cap free' = {}
      /\ HeldOf(h[u], f, rolling[u]) \cap bitmap = {} /\ f.got \cap Tok(h[u].infos) = {}
  BY <1>4, ZenonT(60)
<1>6. LControl(pc[u], h[u], f, rolling[u])
  BY <1>3, HereControl, Zenon DEF LControl
<1>7. LTokens(pc[u], h[u], f, rolling[u])
  BY <1>5, HereTokens, HereHeld, ZenonT(60) DEF LTokens
<1>8. LData(u, h[u], f)
  BY HereData, Zenon DEF LData
<1>9. LFilled(pc[u], h[u], f)
  BY <1>3, HereStored, Zenon DEF LFilled
<1>10. Local(u, pc[u], h[u], f, rolling[u], answer[u])
  BY <1>6, <1>7, <1>8, <1>9, HereData, HereStored, ZenonT(60) DEF Local
<1>11. \A b \in Blocks : <<u, b>> \in inflight => u \in cancelled \/ (f.cur = b /\ f.res = "none")
  BY HereKernel, UploadAssumption, Zenon
<1>12. /\ pc[u] \in Places /\ h[u] \in Handlers /\ rolling[u] \in Seq(SUBSET Blocks)
       /\ answer[u] \in {"none", "success", "error"}
  BY HereTypes, Zenon
<1>13. free' \cup HeldOf(h[u], f, rolling[u]) = free \cup Mine(u)
  BY <1>5, Zenon
<1>14. free' \cap HeldOf(h[u], f, rolling[u]) = {} /\ bitmap \cap free' = {}
  BY <1>5, Zenon
<1>15. Fits(u, pc[u], h[u], f, rolling[u], answer[u])
  BY <1>2, <1>10, <1>11, <1>12, <1>13, <1>14, ZenonT(60) DEF Fits
<1> QED BY <1>15, FitStep, ZenonT(60)

(* FlushFails gives back the blocks of the flush.                          *)
LEMMA FlushFailsStep ==
    ASSUME IInv, up, NEW u \in Uploads, FlushFails(u), flush[u].at # "none",
           free' = free \cup flush[u].got,
           UNCHANGED <<up, inflight, disk, cancelled, persistent, answer>>,
           \A b \in Blocks : <<u, b>> \in inflight => u \in cancelled
    PROVE  IInv'
<1> DEFINE is2 == [i \in DOMAIN h[u].infos |-> [h[u].infos[i] EXCEPT !.token = {}]]
           r   == [i \in DOMAIN h[u].infos |-> h[u].infos[i].token]
           hu  == [h[u] EXCEPT !.infos = is2, !.flushErr = TRUE]
<1>1. /\ is2 \in Seq(Info) /\ r \in Seq(SUBSET Blocks)
      /\ Tok(is2) = {} /\ Rol(r) = Tok(h[u].infos)
      /\ \A i, j \in DOMAIN r : i # j => r[i] \cap r[j] = {}
  BY HereTypes, HereTokens, HereHeld, TakeTokens, ZenonT(60) DEF LTokens
<1>2. hu \in Handlers /\ hu.infos = is2
  BY <1>1, HereTypes, ZenonT(60) DEF Handlers
<1>3. /\ h' = [h EXCEPT ![u] = hu] /\ rolling' = [rolling EXCEPT ![u] = r]
      /\ pc' = [pc EXCEPT ![u] = "rollback"] /\ flush' = [flush EXCEPT ![u] = NoFlush]
  BY HereTypes, ZenonT(60) DEF FlushFails, Goto, Types
<1>4. answer' = [answer EXCEPT ![u] = answer[u]]
  BY HereTypes, Zenon DEF Types
<1>5. Moves(u, "rollback", hu, NoFlush, r, answer[u])
  BY <1>3, <1>4, ZenonT(60) DEF Moves, persistent
<1>6. pc[u] \in {"put", "final"}
  BY HereControl, Zenon DEF LControl
<1> HIDE DEF is2, r, hu
<1> QED BY <1>1, <1>2, <1>5, <1>6, RollbackStep, ZenonT(60)

----------------------------------------------------------------------------
(* The allocation of a flush and its segments                              *)

(* An allocation of at least one block is not empty.                       *)
LEMMA EmptyCard == Cardinality({}) = 0
BY Zenon DEF Cardinality

(* The allocation of a flush: blocks that were free, or a failure.         *)
LEMMA FlushAllocStep ==
    ASSUME IInv, NEW u \in Uploads, FlushAlloc(u)
    PROVE  IInv'
<1>1. /\ up /\ flush[u].at = "alloc"
      /\ UNCHANGED <<up, inflight, disk, cancelled, persistent, answer>>
      /\ flush[u].got = {} /\ flush[u].todo = {} /\ flush[u].cur = None /\ flush[u].want > 0
      /\ flush[u].res = "none" /\ flush[u] \in Flushes
  BY HereTypes, HereControl, Zenon DEF FlushAlloc, LControl, Flushes
<1>2. CASE flush[u].want <= Cardinality(free)
  <2>1. PICK S \in SUBSET free :
           /\ Cardinality(S) = flush[u].want /\ free' = free \ S /\ UNCHANGED <<pc, h, rolling>>
           /\ flush' = [flush EXCEPT ![u].at = "write", ![u].got = S, ![u].todo = S]
    BY <1>2, ZenonT(60) DEF FlushAlloc
  <2> DEFINE f == [flush[u] EXCEPT !.at = "write", !.got = S, !.todo = S]
  <2>2. S \subseteq Blocks /\ free \subseteq Blocks
    BY HereTypes, HereHeld, Zenon DEF Types
  <2>4. /\ f \in Flushes /\ f.at = "write" /\ f.got = S /\ f.todo = S /\ f.cur = None
        /\ f.res = "none"
    BY <1>1, <2>2, Zenon DEF Flushes
  <2>3. S # {}
    BY <1>1, <2>1, EmptyCard, SMTT(30)
  <2>5. flush' = [flush EXCEPT ![u] = f]
    BY <2>1, HereTypes, Zenon DEF Types
  <2> HIDE DEF f
  <2>6. /\ free' \cup f.got = free \cup flush[u].got /\ free' \cap f.got = {}
        /\ flush[u].got \subseteq f.got /\ f.got \ f.todo = {}
        /\ f.todo \subseteq f.got
    BY <1>1, <2>1, <2>4, Zenon
  <2>7. UNCHANGED <<up, inflight, disk, pc, h, rolling, cancelled, bitmap, meta, answer>>
    BY <1>1, <2>1, Zenon DEF persistent
  <2> QED BY <1>1, <2>3, <2>4, <2>5, <2>6, <2>7, FlushStep, Zenon
<1>3. CASE ~ (flush[u].want <= Cardinality(free))
  <2>1. FlushFails(u) /\ free' = free \cup flush[u].got
    BY <1>1, <1>3, Zenon DEF FlushAlloc
  <2>2. \A b \in Blocks : <<u, b>> \in inflight => u \in cancelled
    BY <1>1, HereTypes, HereKernel, UploadAssumption, Zenon
  <2> QED BY <1>1, <2>1, <2>2, FlushFailsStep, Zenon
<1> QED BY <1>2, <1>3, Zenon

(* A segment that is written, and one that is not.                         *)
LEMMA SegmentStep ==
    ASSUME IInv, NEW u \in Uploads, FlushSegmentDone(u) \/ FlushWriteError(u)
    PROVE  IInv'
<1>1. CASE FlushSegmentDone(u)
  <2> DEFINE f == [flush[u] EXCEPT !.todo = @ \ {flush[u].cur}, !.cur = None, !.res = "none"]
  <2>1. /\ up /\ flush[u].res = "ok" /\ flush' = [flush EXCEPT ![u] = f]
        /\ UNCHANGED <<up, pool, pc, h, rolling, cancelled, persistent, answer>>
    BY <1>1, HereTypes, ZenonT(60) DEF FlushSegmentDone, Types
  <2>2. /\ flush[u].cur # None /\ flush[u].cur \in flush[u].todo
        /\ flush[u].todo \subseteq flush[u].got /\ flush[u] \in Flushes
    BY <2>1, HereTypes, HereControl, Zenon DEF LControl
  <2>3. flush[u].at = "write"
    <3>1. flush[u].at \in {"none", "alloc", "write"}
      BY <2>2, Zenon DEF Flushes
    <3>2. flush[u].at # "none"
      BY <2>1, HereControl, NothingHeld, Zenon DEF LControl
    <3>3. flush[u].at # "alloc"
      BY <2>2, HereControl, Zenon DEF LControl
    <3> QED BY <3>1, <3>2, <3>3, Zenon
  <2>4. /\ f \in Flushes /\ f.at = "write" /\ f.got = flush[u].got /\ f.cur = None
        /\ f.res = "none" /\ f.todo = flush[u].todo \ {flush[u].cur}
    BY <2>2, <2>3, ZenonT(60) DEF Flushes
  <2> HIDE DEF f
  <2>5. \A b \in f.got \ f.todo : disk[b] \in {u} \cup Cancellable
    BY <2>1, <2>4, HereData, Zenon DEF LData
  <2>6. f.todo \subseteq f.got /\ f.got # {}
    BY <2>2, <2>3, <2>4, HereControl, Zenon DEF LControl
  <2>7. free' \cup f.got = free \cup flush[u].got /\ free' \cap f.got = {}
    BY <2>1, <2>4, HereHeld, Zenon DEF pool, HeldOf
  <2>8. UNCHANGED <<up, inflight, disk, pc, h, rolling, cancelled, bitmap, meta, answer>>
    BY <2>1, Zenon DEF pool, persistent
  <2> QED BY <2>1, <2>3, <2>4, <2>5, <2>6, <2>7, <2>8, FlushStep, ZenonT(60)
<1>2. CASE FlushWriteError(u)
  <2>1. /\ up /\ flush[u].at = "write" /\ (flush[u].res = "error" \/ u \in cancelled)
        /\ FlushFails(u) /\ free' = free \cup flush[u].got
        /\ UNCHANGED <<up, inflight, disk, cancelled, persistent, answer>>
    BY <1>2, ZenonT(60) DEF FlushWriteError, FlushCancelled
  <2>2. \A b \in Blocks : <<u, b>> \in inflight => u \in cancelled
    BY <2>1, HereTypes, HereKernel, Zenon
  <2> QED BY <2>1, <2>2, FlushFailsStep, ZenonT(60)
<1> QED BY <1>1, <1>2, Zenon

----------------------------------------------------------------------------
(* The end of a flush, and the rollback                                    *)

(* completeFlush: the blocks of the flush become a token of the handler.   *)
LEMMA CompleteFlushStep ==
    ASSUME IInv, NEW u \in Uploads, CompleteFlush(u)
    PROVE  IInv'
<1> DEFINE g   == flush[u].got
           is2 == Append(h[u].infos, [results |-> g, token |-> g])
           hu  == [h[u] EXCEPT !.infos = is2]
           q   == CASE pc[u] = "final" -> "commit"
                    [] pc[u] = "put" /\ h[u].oneShot -> "complete"
                    [] OTHER -> "next"
<1>1. /\ up /\ flush[u].at = "write" /\ flush[u].todo = {}
      /\ UNCHANGED <<up, pool, rolling, cancelled, persistent, answer>>
      /\ flush' = [flush EXCEPT ![u] = NoFlush] /\ pc' = [pc EXCEPT ![u] = q]
  BY Zenon DEF CompleteFlush, Goto
<1>2. h' = [h EXCEPT ![u] = hu]
  BY HereTypes, Zenon DEF CompleteFlush, Types
<1>3. /\ pc[u] \in {"put", "final"} /\ rolling[u] = <<>> /\ Rol(rolling[u]) = {}
      /\ flush[u].cur = None /\ flush[u].res = "none"
  BY <1>1, HereTypes, HereControl, EmptyLists, Zenon DEF LControl, Flushes
<1>4. q \in {"commit", "complete", "next"} /\ (q = "commit" <=> pc[u] = "final")
  BY <1>3, Zenon
<1>5. /\ is2 \in Seq(Info) /\ Tok(is2) = Tok(h[u].infos) \cup g /\ Res(is2) = Res(h[u].infos) \cup g
      /\ \A i, j \in DOMAIN is2 : i # j => is2[i].token \cap is2[j].token = {}
  <2>1. h[u].infos \in Seq(Info) /\ g \in SUBSET Blocks /\ g \cap Tok(h[u].infos) = {}
        /\ \A i, j \in DOMAIN h[u].infos :
              i # j => h[u].infos[i].token \cap h[u].infos[j].token = {}
    BY HereTypes, HereTokens, HereHeld, Zenon DEF LTokens
  <2> QED BY <2>1, AppendInfo, ZenonT(60)
<1>6. /\ hu \in Handlers /\ hu.infos = is2 /\ hu.fileSize = h[u].fileSize
      /\ hu.pending = h[u].pending
  BY <1>5, HereTypes, ZenonT(60) DEF Handlers
<1> HIDE DEF hu, is2, q
<1>7. rolling' = [rolling EXCEPT ![u] = rolling[u]] /\ answer' = [answer EXCEPT ![u] = answer[u]]
  BY <1>1, <1>3, HereTypes, Zenon DEF Types
<1>8. Moves(u, q, hu, NoFlush, rolling[u], answer[u]) /\ free' = free
  BY <1>1, <1>2, <1>7, ZenonT(60) DEF Moves, pool, persistent
<1>9. /\ HeldOf(hu, NoFlush, rolling[u]) = Mine(u) /\ Mine(u) = Tok(is2) /\ Mine(u) \cap bitmap = {}
  BY <1>3, <1>5, <1>6, HereTokens, HereHeld, NothingHeld, EmptyLists, ZenonT(60) DEF HeldOf, LTokens
<1>10. LControl(q, hu, NoFlush, rolling[u])
  BY <1>3, <1>4, NothingHeld, Zenon DEF LControl
<1>11. LTokens(q, hu, NoFlush, rolling[u])
  <2>1. Res(is2) = Tok(is2)
    BY <1>3, <1>5, HereTokens, HereHeld, ZenonT(60) DEF LTokens
  <2>2. /\ \A i, j \in DOMAIN rolling[u] : i # j => rolling[u][i] \cap rolling[u][j] = {}
        /\ NoFlush.got = {}
    BY HereTokens, HereHeld, NothingHeld, Zenon DEF LTokens
  <2> QED BY <1>5, <1>6, <1>9, <2>1, <2>2, ZenonT(60) DEF LTokens
<1>12. LData(u, hu, NoFlush)
  BY <1>1, <1>5, <1>6, HereData, NothingHeld, Zenon DEF LData
<1>13. LFilled(q, hu, NoFlush)
  <2>0. g # {}
    BY <1>1, HereControl, Zenon DEF LControl
  <2>1. Tok(is2) # {}
    BY <1>5, <2>0, Zenon
  <2> QED BY <1>4, <1>6, <2>1, HereStored, ZenonT(60) DEF LFilled
<1>14. LStored(u, q, answer[u])
  BY <1>4, HereStored, Zenon DEF LStored
<1>15. Local(u, q, hu, NoFlush, rolling[u], answer[u])
  BY <1>10, <1>11, <1>12, <1>13, <1>14, ZenonT(60) DEF Local
<1>16. \A b \in Blocks : <<u, b>> \in inflight =>
          u \in cancelled \/ (NoFlush.cur = b /\ NoFlush.res = "none")
  BY <1>3, HereTypes, HereKernel, UploadAssumption, Zenon
<1>17. /\ free' \cup HeldOf(hu, NoFlush, rolling[u]) = free \cup Mine(u)
       /\ free' \cap HeldOf(hu, NoFlush, rolling[u]) = {} /\ bitmap \cap free' = {}
  BY <1>8, <1>9, HereHeld, Zenon
<1>18. /\ q \in Places /\ NoFlush \in Flushes /\ rolling[u] \in Seq(SUBSET Blocks)
       /\ answer[u] \in {"none", "success", "error"}
  BY <1>4, HereTypes, NothingHeld, Zenon DEF Places
<1>19. Fits(u, q, hu, NoFlush, rolling[u], answer[u])
  BY <1>6, <1>8, <1>15, <1>16, <1>17, <1>18, ZenonT(60) DEF Fits
<1> QED BY <1>19, FitStep, Zenon

(* The loop of rollbackCompletedFlushes and its answer.                    *)
LEMMA RollStep ==
    ASSUME IInv, NEW u \in Uploads, Rollback(u)
    PROVE  IInv'
<1>1. /\ up /\ pc[u] \in {"rollback", "exists"} /\ flush[u] = NoFlush
      /\ UNCHANGED <<up, inflight, disk, h, flush, cancelled, bitmap, meta>>
      /\ Tok(h[u].infos) = {} /\ Mine(u) = Rol(rolling[u]) /\ Mine(u) \cap bitmap = {}
      /\ rolling[u] \in Seq(SUBSET Blocks)
      /\ \A i, j \in DOMAIN rolling[u] : i # j => rolling[u][i] \cap rolling[u][j] = {}
  <2>1. /\ up /\ pc[u] \in {"rollback", "exists"}
        /\ UNCHANGED <<up, inflight, disk, h, flush, cancelled, bitmap, meta>>
    BY Zenon DEF Rollback, persistent
  <2>2. flush[u] = NoFlush /\ Tok(h[u].infos) = {}
    BY <2>1, HereControl, Zenon DEF LControl
  <2>3. Mine(u) = Rol(rolling[u])
    <3>1. Mine(u) = flush[u].got \cup Tok(h[u].infos) \cup Rol(rolling[u])
      BY Zenon DEF Mine, HeldOf
    <3> QED BY <2>2, <3>1, NothingHeld, Zenon
  <2>4. /\ Mine(u) \cap bitmap = {} /\ rolling[u] \in Seq(SUBSET Blocks)
        /\ \A i, j \in DOMAIN rolling[u] : i # j => rolling[u][i] \cap rolling[u][j] = {}
    BY <2>1, HereTypes, HereTokens, HereHeld, Zenon DEF LTokens
  <2> QED BY <2>1, <2>2, <2>3, <2>4, ZenonT(60)
<1>2. CASE rolling[u] # <<>>
  <2> DEFINE r == Tail(rolling[u])
             t == Head(rolling[u])
  <2>1. /\ r \in Seq(SUBSET Blocks) /\ Rol(rolling[u]) = t \cup Rol(r) /\ t \cap Rol(r) = {}
        /\ \A i, j \in DOMAIN r : i # j => r[i] \cap r[j] = {}
    BY <1>1, <1>2, FirstToken, Zenon
  <2>2. /\ free' = free \cup t /\ rolling' = [rolling EXCEPT ![u] = r] /\ UNCHANGED <<pc, answer>>
    BY <1>2, HereTypes, Zenon DEF Rollback, Types
  <2> HIDE DEF r, t
  <2>3. /\ h' = [h EXCEPT ![u] = h[u]] /\ pc' = [pc EXCEPT ![u] = pc[u]]
        /\ flush' = [flush EXCEPT ![u] = NoFlush] /\ answer' = [answer EXCEPT ![u] = answer[u]]
    BY <1>1, <2>2, HereTypes, Zenon DEF Types
  <2>4. Moves(u, pc[u], h[u], NoFlush, r, answer[u])
    BY <1>1, <2>2, <2>3, ZenonT(60) DEF Moves
  <2>5. HeldOf(h[u], NoFlush, r) = Rol(r)
    BY <1>1, NothingHeld, Zenon DEF HeldOf
  <2>6. /\ free' \cup Rol(r) = free \cup Mine(u) /\ free' \cap Rol(r) = {} /\ bitmap \cap free' = {}
        /\ Rol(r) \cap bitmap = {}
    BY <1>1, <2>1, <2>2, HereHeld, SMTT(30)
  <2>7. LControl(pc[u], h[u], NoFlush, r)
    BY <1>1, NothingHeld, Zenon DEF LControl
  <2>8. LTokens(pc[u], h[u], NoFlush, r)
    BY <1>1, <2>1, <2>5, <2>6, HereTokens, HereHeld, ZenonT(60) DEF LTokens
  <2>9. Local(u, pc[u], h[u], NoFlush, r, answer[u])
    BY <1>1, <2>7, <2>8, HereData, HereStored, ZenonT(60) DEF Local
  <2>10. \A b \in Blocks : <<u, b>> \in inflight =>
            u \in cancelled \/ (NoFlush.cur = b /\ NoFlush.res = "none")
    BY <1>1, HereTypes, HereKernel, Zenon
  <2>11. /\ pc[u] \in Places /\ h[u] \in Handlers /\ NoFlush \in Flushes
         /\ answer[u] \in {"none", "success", "error"}
    BY HereTypes, NothingHeld, Zenon
  <2>12. /\ free' \cup HeldOf(h[u], NoFlush, r) = free \cup Mine(u)
         /\ free' \cap HeldOf(h[u], NoFlush, r) = {}
    BY <2>5, <2>6, Zenon
  <2>13. Fits(u, pc[u], h[u], NoFlush, r, answer[u])
    BY <2>1, <2>4, <2>6, <2>9, <2>10, <2>11, <2>12, ZenonT(60) DEF Fits
  <2> QED BY <2>13, FitStep, Zenon
<1>3. CASE rolling[u] = <<>>
  <2> DEFINE a == IF pc[u] = "exists" THEN "success" ELSE "error"
  <2>1. /\ pc' = [pc EXCEPT ![u] = "done"] /\ answer' = [answer EXCEPT ![u] = a]
        /\ UNCHANGED <<free, rolling>>
    BY <1>3, Zenon DEF Rollback, Answer, Goto
  <2>2. a \in {"none", "success", "error"} /\ (a = "success" => pc[u] = "exists")
    BY Zenon
  <2> HIDE DEF a
  <2>3. LControl("done", h[u], flush[u], rolling[u])
    BY <1>1, <1>3, NothingHeld, Zenon DEF LControl
  <2>4. LTokens("done", h[u], flush[u], rolling[u])
    BY <1>1, HereTokens, HereHeld, Zenon DEF LTokens
  <2>5. LFilled("done", h[u], flush[u])
    BY Zenon DEF LFilled
  <2>6. LStored(u, "done", a)
    BY <2>2, HereStored, Zenon DEF LStored
  <2>7. Local(u, "done", h[u], flush[u], rolling[u], a)
    BY <2>3, <2>4, <2>5, <2>6, HereData, HereStored, Zenon DEF Local
  <2>8. "done" \in Places /\ UNCHANGED <<up, pool, h, flush, rolling, cancelled, bitmap, meta>>
    BY <1>1, <2>1, Zenon DEF Places, pool
  <2> QED BY <1>1, <2>1, <2>2, <2>7, <2>8, PlaceStep, ZenonT(60)
<1> QED BY <1>2, <1>3, Zenon

----------------------------------------------------------------------------
(* The kernel                                                              *)

(* A block the kernel has a write for is held by its upload, or that was   *)
(* cancelled.                                                              *)
LEMMA InKernel ==
    ASSUME IInv, NEW u \in Uploads, NEW b \in Blocks, <<u, b>> \in inflight
    PROVE  u \in cancelled \/ (b \in flush[u].todo /\ b \in Mine(u) /\ flush[u].cur = b)
<1>1. CASE flush[u].cur = b
  <2>1. b \in flush[u].todo /\ b \in flush[u].got
    BY <1>1, HereControl, UploadAssumption, Zenon DEF LControl
  <2> QED BY <1>1, <2>1, HereHeld, Zenon DEF HeldOf
<1> QED BY <1>1, HereKernel, Zenon

(* What is unchanged when nothing an upload or the allocator has changes.  *)
LEMMA SameHeld ==
    ASSUME UNCHANGED <<h, rolling>>, \A v \in Uploads : flush'[v].got = flush[v].got
    PROVE  \A v \in Uploads : Mine(v)' = Mine(v)
BY DEF Mine, HeldOf, Tok, Rol

(* A write is given to the kernel: its block is not a committed one.       *)
LEMMA FlushSubmitStep ==
    ASSUME IInv, NEW u \in Uploads, FlushSubmit(u)
    PROVE  IInv'
<1>0. /\ Types /\ (\A v \in Uploads : UploadInv(v)) /\ OwnerInv /\ InflightInv
      /\ MetaInv /\ CommittedDataIntact
  BY Zenon DEF IInv
<1>1. /\ up /\ flush[u].at = "write" /\ flush[u].cur = None
      /\ UNCHANGED <<up, free, disk, pc, h, rolling, cancelled, bitmap, meta, answer>>
  BY Zenon DEF FlushSubmit, persistent
<1>2. PICK b \in flush[u].todo : /\ inflight' = inflight \cup {<<u, b>>}
                                 /\ flush' = [flush EXCEPT ![u].cur = b]
  BY Zenon DEF FlushSubmit
<1> DEFINE f == [flush[u] EXCEPT !.cur = b]
<1>3. /\ b \in Blocks /\ b \in flush[u].got /\ b \in Mine(u) /\ b \notin bitmap
      /\ flush[u].res = "none" /\ flush[u] \in Flushes /\ pc[u] \in {"put", "final"}
  <2>1. flush[u] \in Flushes /\ b \in flush[u].got /\ pc[u] \in {"put", "final"} /\ b \in Blocks
    BY <1>1, <1>2, HereTypes, HereControl, Zenon DEF LControl
  <2>2. flush[u].res = "none"
    BY <1>1, HereControl, Zenon DEF LControl
  <2>3. b \in Mine(u) /\ b \notin bitmap
    BY <2>1, HereTokens, HereHeld, Zenon DEF HeldOf, LTokens
  <2> QED BY <2>1, <2>2, <2>3, Zenon
<1>4. /\ f \in Flushes /\ f.at = "write" /\ f.got = flush[u].got /\ f.todo = flush[u].todo
      /\ f.cur = b /\ f.res = "none"
  BY <1>1, <1>3, Zenon DEF Flushes
<1>5. flush' = [flush EXCEPT ![u] = f]
  BY <1>0, <1>2, Zenon DEF Types
<1> HIDE DEF f
<1>6. flush'[u] = f /\ \A v \in Uploads \ {u} : flush'[v] = flush[v]
  BY <1>0, <1>5, Zenon DEF Types
<1>7. Types'
  <2>1. flush' \in [Uploads -> Flushes]
    BY <1>0, <1>4, <1>5, Zenon DEF Types
  <2>2. inflight' \subseteq Uploads \X Blocks
    BY <1>0, <1>2, <1>3 DEF Types
  <2> QED BY <1>0, <1>1, <2>1, <2>2, Zenon DEF Types
<1>8. ASSUME NEW v \in Uploads PROVE UploadInv(v)'
  <2>1. CASE v # u
    <3>1. Local(v, pc'[v], h'[v], flush'[v], rolling'[v], answer'[v])
      BY <1>0, <1>1, <1>6, <2>1, Zenon DEF UploadInv
    <3> QED BY <1>1, <3>1, Primed, Zenon
  <2>2. CASE v = u
    <3>1. LControl(pc[u], h[u], f, rolling[u])
      BY <1>1, <1>2, <1>3, <1>4, HereControl, Zenon DEF LControl
    <3>2. LTokens(pc[u], h[u], f, rolling[u])
      BY <1>4, HereTokens, HereHeld, ZenonT(60) DEF LTokens, HeldOf
    <3>3. LData(u, h[u], f)
      BY <1>4, HereData, Zenon DEF LData
    <3>4. LFilled(pc[u], h[u], f)
      BY <1>4, HereStored, Zenon DEF LFilled
    <3>5. Local(u, pc[u], h[u], f, rolling[u], answer[u])
      BY <3>1, <3>2, <3>3, <3>4, HereData, HereStored, ZenonT(60) DEF Local
    <3>6. Local(u, pc'[u], h'[u], flush'[u], rolling'[u], answer'[u])
      BY <1>1, <1>6, <3>5, ZenonT(60)
    <3> QED BY <1>1, <2>2, <3>6, Primed, Zenon
  <2> QED BY <2>1, <2>2, Zenon
<1>9. OwnerInv'
  <2>1. \A v \in Uploads : Mine(v)' = Mine(v)
    BY <1>1, <1>4, <1>6, SameHeld, Zenon
  <2> QED BY <1>0, <1>1, <2>1, SMTT(30) DEF OwnerInv
<1>10. InflightInv'
  <2> SUFFICES ASSUME NEW v \in Uploads, NEW c \in Blocks, <<v, c>> \in inflight'
               PROVE  v \in cancelled' \/ (flush'[v].cur = c /\ flush'[v].res = "none")
    BY Zenon DEF InflightInv
  <2>1. CASE v = u /\ c = b
    BY <1>4, <1>6, <2>1, Zenon
  <2>2. CASE ~ (v = u /\ c = b)
    <3>1. <<v, c>> \in inflight
      BY <1>2, <2>2, Zenon
    <3>2. v \in cancelled \/ (flush[v].cur = c /\ flush[v].res = "none")
      BY <1>0, <3>1, Zenon DEF InflightInv
    <3>3. v = u => flush[v].cur # c
      BY <1>1, UploadAssumption, Zenon
    <3> QED BY <1>1, <1>6, <3>2, <3>3, Zenon
  <2> QED BY <2>1, <2>2, Zenon
<1>11. CommittedDataIntact'
  <2>1. \A k \in MetaKeys : meta[k] # None => b \notin meta[k].blocks
    BY <1>0, <1>3, Zenon DEF MetaInv
  <2> QED BY <1>0, <1>1, <1>2, <2>1, Zenon DEF CommittedDataIntact
<1>12. MetaInv' /\ DownInv'
  BY <1>0, <1>1, Zenon DEF MetaInv, DownInv
<1> QED BY <1>7, <1>8, <1>9, <1>10, <1>11, <1>12, Zenon DEF IInv

(* The kernel ends a write: whoever has or had the block keeps its data,   *)
(* unless the write was of a cancelled upload.                             *)
LEMMA KernelStep ==
    ASSUME IInv, NEW u \in Uploads, NEW b \in Blocks, KernelWrite(u, b)
    PROVE  IInv'
<1>0. /\ Types /\ (\A v \in Uploads : UploadInv(v)) /\ OwnerInv /\ InflightInv
      /\ MetaInv /\ CommittedDataIntact
  BY Zenon DEF IInv
<1>1. /\ up /\ <<u, b>> \in inflight /\ inflight' = inflight \ {<<u, b>>}
      /\ UNCHANGED <<up, free, pc, h, rolling, cancelled, bitmap, meta, answer>>
  BY Zenon DEF KernelWrite, persistent
<1>2. PICK ok \in BOOLEAN :
         /\ disk' \in IF ok THEN {[disk EXCEPT ![b] = u]} ELSE {disk, [disk EXCEPT ![b] = u]}
         /\ flush' = IF flush[u].cur = b
                     THEN [flush EXCEPT ![u].res = IF ok THEN "ok" ELSE "error"]
                     ELSE flush
  BY Zenon DEF KernelWrite
<1>3. /\ disk' \in [Blocks -> Uploads \cup {None}] /\ \A c \in Blocks \ {b} : disk'[c] = disk[c]
      /\ disk'[b] \in {disk[b], u} /\ (ok => disk'[b] = u)
  BY <1>0, <1>2, ZenonT(60) DEF Types
<1>4. /\ \A v \in Uploads \ {u} : flush'[v] = flush[v]
      /\ \A v \in Uploads : /\ flush'[v] \in Flushes /\ flush'[v].at = flush[v].at
                            /\ flush'[v].want = flush[v].want /\ flush'[v].got = flush[v].got
                            /\ flush'[v].todo = flush[v].todo /\ flush'[v].cur = flush[v].cur
      /\ flush' \in [Uploads -> Flushes]
      /\ flush[u].cur # b => flush'[u] = flush[u]
      /\ flush[u].cur = b => flush'[u].res = IF ok THEN "ok" ELSE "error"
  <2>1. flush \in [Uploads -> Flushes]
    BY <1>0, Zenon DEF Types
  <2>2. CASE flush[u].cur = b
    <3> DEFINE f == [flush[u] EXCEPT !.res = IF ok THEN "ok" ELSE "error"]
    <3>1. flush' = [flush EXCEPT ![u] = f]
      BY <1>2, <2>1, <2>2, Zenon
    <3>2. /\ f \in Flushes /\ f.at = flush[u].at /\ f.want = flush[u].want
          /\ f.got = flush[u].got /\ f.todo = flush[u].todo /\ f.cur = flush[u].cur
          /\ f.res = IF ok THEN "ok" ELSE "error"
      BY <2>1, Zenon DEF Flushes
    <3> HIDE DEF f
    <3> QED BY <2>1, <2>2, <3>1, <3>2, Zenon
  <2>3. CASE flush[u].cur # b
    BY <1>2, <2>1, <2>3, Zenon
  <2> QED BY <2>2, <2>3, Zenon
<1>5. u \in cancelled \/ (b \in flush[u].todo /\ b \in Mine(u) /\ flush[u].cur = b)
  BY <1>1, InKernel, Zenon
<1>6. u \in cancelled => u \in Cancellable
  BY <1>0, Zenon DEF Types
<1>7. Types'
  BY <1>0, <1>1, <1>3, <1>4, Zenon DEF Types
<1>8. \A v \in Uploads : Mine(v)' = Mine(v)
  BY <1>1, <1>4, SameHeld, Zenon
<1>9. ASSUME NEW v \in Uploads, NEW c \in Mine(v), disk[c] \in {v} \cup Cancellable
      PROVE  disk'[c] \in {v} \cup Cancellable
  <2>1. c \in Blocks
    BY <1>0, Zenon DEF OwnerInv
  <2>2. CASE c = b /\ disk'[b] = u
    <3>1. u \in Cancellable \/ u = v
      BY <1>0, <1>5, <1>6, <2>2, Zenon DEF OwnerInv
    <3> QED BY <2>2, <3>1, Zenon
  <2> QED BY <1>3, <1>9, <2>1, <2>2, Zenon
<1>10. ASSUME NEW v \in Uploads PROVE UploadInv(v)'
  <2>1. LControl(pc[v], h[v], flush'[v], rolling[v])
    <3>1. flush[v].at = "none" => flush'[v] = flush[v]
      <4>1. flush[v].at = "none" => flush[v] = NoFlush
        BY HereControl, Zenon DEF LControl
      <4>2. NoFlush.cur = None /\ b # None
        BY NothingHeld, UploadAssumption, Zenon
      <4> QED BY <1>4, <4>1, <4>2, Zenon
    <3>2. flush'[v].res # "none" => flush[v].cur # None
      BY <1>4, HereControl, UploadAssumption DEF LControl
    <3>3. /\ flush'[v].at = flush[v].at /\ flush'[v].want = flush[v].want
          /\ flush'[v].got = flush[v].got /\ flush'[v].todo = flush[v].todo
          /\ flush'[v].cur = flush[v].cur
      BY <1>4, Zenon
    <3>4. LControl(pc[v], h[v], flush[v], rolling[v])
      BY HereControl, Zenon
    <3> QED BY <3>1, <3>2, <3>3, <3>4, ZenonT(60) DEF LControl
  <2>2. LTokens(pc[v], h[v], flush'[v], rolling[v])
    BY <1>4, HereTokens, HereHeld, ZenonT(60) DEF LTokens, HeldOf
  <2>3. \A c \in (flush'[v].got \ flush'[v].todo) \cup Tok(h[v].infos) :
           disk'[c] \in {v} \cup Cancellable
    BY <1>4, <1>9, HereData, HereHeld, SMTT(30) DEF LData, HeldOf
  <2>4. flush'[v].res = "ok" => disk'[flush'[v].cur] \in {v} \cup Cancellable
    <3> SUFFICES ASSUME flush'[v].res = "ok" PROVE disk'[flush'[v].cur] \in {v} \cup Cancellable
      BY Zenon
    <3>1. CASE v = u /\ flush[u].cur = b
      BY <1>3, <1>4, <3>1, Zenon
    <3>2. CASE ~ (v = u /\ flush[u].cur = b)
      <4>1. flush'[v] = flush[v]
        BY <1>4, <3>2, Zenon
      <4>2. flush[v].cur \in Mine(v)
        BY <4>1, HereControl, HereHeld, Zenon DEF LControl, HeldOf
      <4>3. disk[flush[v].cur] \in {v} \cup Cancellable
        BY <4>1, HereData, Zenon DEF LData
      <4> QED BY <1>9, <4>1, <4>2, <4>3, Zenon
    <3> QED BY <3>1, <3>2, Zenon
  <2>5. LFilled(pc[v], h[v], flush'[v])
    BY <1>4, HereStored, Zenon DEF LFilled
  <2>6. LStored(v, pc[v], answer[v])
    BY HereStored, Zenon
  <2>7. LControl(pc[v], h[v], flush[v], rolling[v])'
    <3>1. LControl(pc'[v], h'[v], flush'[v], rolling'[v])
      BY <1>1, <2>1, Zenon
    <3> QED BY <3>1, PrimedControl, Zenon
  <2>8. LTokens(pc[v], h[v], flush[v], rolling[v])'
    <3>1. LTokens(pc'[v], h'[v], flush'[v], rolling'[v])
      BY <1>1, <2>2, Zenon
    <3> QED BY <1>1, <3>1, PrimedTokens, Zenon
  <2>9. LData(v, h[v], flush[v])'
    BY <1>1, <2>3, <2>4, Zenon DEF LData, Tok
  <2>10. LFilled(pc[v], h[v], flush[v])' /\ LStored(v, pc[v], answer[v])'
    BY <1>1, <2>5, <2>6, Zenon DEF LFilled, LStored, Stored, Tok
  <2> QED BY <2>7, <2>8, <2>9, <2>10, Zenon DEF UploadInv, Local
<1>11. OwnerInv'
  BY <1>0, <1>1, <1>8 DEF OwnerInv
<1>12. InflightInv'
  <2> SUFFICES ASSUME NEW v \in Uploads, NEW c \in Blocks, <<v, c>> \in inflight'
               PROVE  v \in cancelled' \/ (flush'[v].cur = c /\ flush'[v].res = "none")
    BY Zenon DEF InflightInv
  <2>1. <<v, c>> \in inflight /\ ~ (v = u /\ c = b)
    BY <1>1, Zenon
  <2>2. v \in cancelled \/ (flush[v].cur = c /\ flush[v].res = "none")
    BY <1>0, <2>1, Zenon DEF InflightInv
  <2>3. flush[v].cur = c => flush'[v] = flush[v]
    BY <1>4, <2>1, Zenon
  <2> QED BY <1>1, <2>2, <2>3, Zenon
<1>13. CommittedDataIntact'
  <2> SUFFICES ASSUME NEW k \in MetaKeys, meta[k] # None, NEW c \in meta[k].blocks
               PROVE  /\ disk'[c] \in {meta[k].by} \cup Cancellable
                      /\ \A v \in Uploads : <<v, c>> \in inflight' => v \in cancelled
    BY <1>1, Zenon DEF CommittedDataIntact
  <2>1. /\ disk[c] \in {meta[k].by} \cup Cancellable /\ c \in Blocks
        /\ \A v \in Uploads : <<v, c>> \in inflight => v \in cancelled
    BY <1>0, Zenon DEF CommittedDataIntact, MetaInv, Types
  <2>2. c = b => u \in Cancellable
    BY <1>1, <1>6, <2>1, Zenon
  <2> QED BY <1>1, <1>3, <2>1, <2>2, Zenon
<1>14. MetaInv' /\ DownInv'
  BY <1>0, <1>1, Zenon DEF MetaInv, DownInv
<1> QED BY <1>7, <1>10, <1>11, <1>12, <1>13, <1>14, ZenonT(60) DEF IInv

----------------------------------------------------------------------------
(* The commit                                                              *)

(* The batch is committed: the blocks of the upload become those of a file *)
(* and everything the kernel had to write for them is written.             *)
LEMMA CommitStep ==
    ASSUME IInv, NEW u \in Uploads, CommitBatch(u)
    PROVE  IInv'
<1>0. /\ Types /\ (\A v \in Uploads : UploadInv(v)) /\ OwnerInv /\ InflightInv
      /\ MetaInv /\ CommittedDataIntact /\ NameOf[u] \in Names
  BY UploadAssumption, Zenon DEF IInv
<1>1. /\ up /\ pc[u] = "commit" /\ UNCHANGED <<up, pool, h, flush, rolling, cancelled, answer>>
      /\ flush[u] = NoFlush /\ rolling[u] = <<>>
  BY HereControl, ZenonT(60) DEF CommitBatch, LControl
<1>2. \A n \in Names : /\ fileMetaKey(n) \in MetaKeys /\ GetKey(n) \in MetaKeys
                       /\ fileMetaKey(n)[2] = n /\ GetKey(n)[2] = n
  BY Zenon DEF fileMetaKey, GetKey, MetaKeys
<1>3. CASE u \notin NoGet /\ meta[fileMetaKey(NameOf[u])] # None
  <2>1. pc' = [pc EXCEPT ![u] = "found"] /\ UNCHANGED <<bitmap, meta>>
    BY <1>3, Zenon DEF CommitBatch, Goto, persistent
  <2>2. answer' = [answer EXCEPT ![u] = answer[u]] /\ answer[u] \in {"none", "success", "error"}
    BY <1>1, HereTypes, Zenon DEF Types
  <2>3. LControl("found", h[u], flush[u], rolling[u])
    BY <1>1, NothingHeld, Zenon DEF LControl
  <2>4. LTokens("found", h[u], flush[u], rolling[u])
    BY <1>1, HereTokens, HereHeld, Zenon DEF LTokens
  <2>5. LFilled("found", h[u], flush[u])
    BY <1>1, HereStored, Zenon DEF LFilled
  <2>6. LStored(u, "found", answer[u])
    BY <1>0, <1>2, <1>3, Zenon DEF LStored, Stored
  <2>7. Local(u, "found", h[u], flush[u], rolling[u], answer[u]) /\ "found" \in Places
    BY <2>3, <2>4, <2>5, <2>6, HereTypes, HereData, HereStored, ZenonT(60) DEF Local, Places
  <2> QED BY <1>1, <2>1, <2>2, <2>7, PlaceStep, ZenonT(60)
<1>4. CASE ~ (u \notin NoGet /\ meta[fileMetaKey(NameOf[u])] # None)
  <2> DEFINE R == Results(u)
             g == GetKey(NameOf[u])
             x == [by |-> u, blocks |-> R]
  <2>1. /\ bitmap' = bitmap \cup R /\ meta' = [meta EXCEPT ![g] = x]
        /\ pc' = [pc EXCEPT ![u] = "committed"]
    BY <1>4, Zenon DEF CommitBatch, Goto
  <2>2. R = Tok(h[u].infos) /\ R = Mine(u)
    <3>1. R = Res(h[u].infos)
      BY Zenon DEF Results, Res
    <3>2. Res(h[u].infos) = Tok(h[u].infos)
      BY <1>1, HereTokens, HereHeld, Zenon DEF LTokens
    <3>3. Mine(u) = flush[u].got \cup Tok(h[u].infos) \cup Rol(rolling[u])
      BY Zenon DEF Mine, HeldOf
    <3> QED BY <1>1, <3>1, <3>2, <3>3, NothingHeld, EmptyLists, ZenonT(60)
  <2>3. R # {} /\ R \subseteq Blocks
    <3>1. h[u].fileSize > h[u].pending => Tok(h[u].infos) # {}
      BY <1>1, HereStored, NothingHeld, ZenonT(60) DEF LFilled
    <3>2. h[u].fileSize > h[u].pending
      BY <1>1, HereStored, Zenon DEF LFilled
    <3> QED BY <2>2, <3>1, <3>2, HereHeld, Zenon
  <2>4. x \in Files /\ x # None /\ x.blocks = R /\ x.by = u
    BY <2>3, UploadAssumption DEF Files
  <2> HIDE DEF R, g, x
  <2>5. g \in MetaKeys /\ g[2] = NameOf[u]
    BY <1>0, <1>2, Zenon DEF g
  <2>6. /\ meta'[g] = x /\ meta'[g] # None /\ \A k \in MetaKeys \ {g} : meta'[k] = meta[k]
        /\ meta' \in [MetaKeys -> Files \cup {None}]
    BY <1>0, <2>1, <2>4, <2>5, Zenon DEF Types
  <2>7. pc'[u] = "committed" /\ \A v \in Uploads \ {u} : pc'[v] = pc[v]
    BY <1>0, <2>1, Zenon DEF Types
  <2>8. Types'
    BY <1>0, <1>1, <2>1, <2>3, <2>6, Zenon DEF Types, Places, pool
  <2>9. \A v \in Uploads : Mine(v)' = Mine(v)
    BY <1>1, SameHeld, Zenon
  <2>10. \A n \in Names : Stored(n) => Stored(n)'
    BY <2>6, Zenon DEF Stored
  <2>11. Stored(NameOf[u])'
    BY <2>5, <2>6, Zenon DEF Stored
  <2>12. ASSUME NEW v \in Uploads PROVE UploadInv(v)'
    <3>1. LControl(pc'[v], h[v], flush[v], rolling[v])
      BY <1>1, <2>7, HereControl, NothingHeld, ZenonT(60) DEF LControl
    <3>2. /\ \A i, j \in DOMAIN h[v].infos :
                i # j => h[v].infos[i].token \cap h[v].infos[j].token = {}
          /\ \A i, j \in DOMAIN rolling[v] : i # j => rolling[v][i] \cap rolling[v][j] = {}
          /\ flush[v].got \cap Tok(h[v].infos) = {}
          /\ pc'[v] \notin {"rollback", "exists", "done"} => Res(h[v].infos) = Tok(h[v].infos)
      BY <1>1, <2>7, HereTokens, HereHeld, ZenonT(60) DEF LTokens
    <3>3. pc'[v] \notin {"committed", "done"}
             => HeldOf(h[v], flush[v], rolling[v]) \cap bitmap' = {}
      <4> SUFFICES ASSUME pc'[v] \notin {"committed", "done"}
                   PROVE  Mine(v) \cap bitmap' = {}
        BY HereHeld, Zenon
      <4>1. v # u /\ Mine(v) \cap bitmap = {}
        BY <2>7, HereTokens, HereHeld, Zenon DEF LTokens
      <4>2. Mine(v) \cap R = {}
        BY <1>0, <2>2, <4>1, ZenonT(60) DEF OwnerInv
      <4> QED BY <2>1, <4>1, <4>2, Zenon
    <3>4. LData(v, h[v], flush[v])
      BY HereData, Zenon
    <3>5. LFilled(pc'[v], h[v], flush[v])
      BY <1>1, <2>7, HereStored, ZenonT(60) DEF LFilled
    <3>6. pc'[v] \in {"committed", "found", "exists"} \/ answer[v] = "success"
             => Stored(NameOf[v])'
      <4>1. NameOf[v] \in Names
        BY UploadAssumption, Zenon
      <4> QED BY <2>7, <2>10, <2>11, <4>1, HereStored, ZenonT(60) DEF LStored
    <3>7. LControl(pc[v], h[v], flush[v], rolling[v])'
      <4>1. LControl(pc'[v], h'[v], flush'[v], rolling'[v])
        BY <1>1, <3>1, Zenon
      <4> QED BY <4>1, PrimedControl, Zenon
    <3>8. LTokens(pc[v], h[v], flush[v], rolling[v])'
      <4>1. /\ Tok(h[v].infos)' = Tok(h[v].infos) /\ Res(h[v].infos)' = Res(h[v].infos)
            /\ HeldOf(h[v], flush[v], rolling[v])' = HeldOf(h[v], flush[v], rolling[v])
        BY <1>1, SMTT(30) DEF HeldOf, Tok, Res, Rol
      <4> QED BY <1>1, <3>2, <3>3, <4>1, ZenonT(60) DEF LTokens
    <3>9. LData(v, h[v], flush[v])'
      BY <1>1, <3>4, SMTT(30) DEF LData, Tok, pool
    <3>10. LFilled(pc[v], h[v], flush[v])' /\ LStored(v, pc[v], answer[v])'
      BY <1>1, <3>5, <3>6, ZenonT(60) DEF LFilled, LStored, Tok
    <3> QED BY <3>7, <3>8, <3>9, <3>10, ZenonT(60) DEF UploadInv, Local
  <2>13. OwnerInv'
    <3>1. R \cap free = {} /\ free' = free
      BY <1>0, <1>1, <2>2, ZenonT(60) DEF OwnerInv, pool
    <3> QED BY <1>0, <1>1, <2>1, <2>9, <3>1, SMTT(30) DEF OwnerInv
  <2>14. InflightInv'
    BY <1>0, <1>1, Zenon DEF InflightInv, pool
  <2>15. MetaInv'
    <3>1. \A k \in MetaKeys \ {g} : meta'[k] = meta[k]
      BY <2>6, Zenon
    <3> QED BY <1>0, <2>1, <2>3, <2>4, <2>6, Zenon DEF MetaInv
  <2>16. CommittedDataIntact'
    <3> SUFFICES ASSUME NEW k \in MetaKeys, meta'[k] # None, NEW b \in meta'[k].blocks
                 PROVE  /\ disk[b] \in {meta'[k].by} \cup Cancellable
                        /\ \A v \in Uploads : <<v, b>> \in inflight => v \in cancelled
      BY <1>1, Zenon DEF CommittedDataIntact, pool
    <3>1. CASE k # g
      BY <1>0, <2>6, <3>1, Zenon DEF CommittedDataIntact
    <3>2. CASE k = g
      <4>1. b \in R /\ meta'[k].by = u /\ b \in Blocks
        BY <2>3, <2>4, <2>6, <3>2, ZenonT(60)
      <4>2. disk[b] \in {u} \cup Cancellable
        BY <2>2, <4>1, HereData, ZenonT(60) DEF LData
      <4>3. ASSUME NEW v \in Uploads, <<v, b>> \in inflight PROVE v \in cancelled
        <5>1. v \in cancelled \/ (b \in Mine(v) /\ flush[v].cur = b)
          BY <4>1, <4>3, InKernel, Zenon
        <5>2. b \in Mine(v) => v = u
          BY <1>0, <2>2, <4>1, Zenon DEF OwnerInv
        <5>3. flush[u].cur # b
          BY <1>1, <4>1, NothingHeld, UploadAssumption, ZenonT(60)
        <5> QED BY <5>1, <5>2, <5>3, Zenon
      <4> QED BY <4>1, <4>2, <4>3, Zenon
    <3> QED BY <3>1, <3>2, Zenon
  <2>17. DownInv'
    BY <1>1, Zenon DEF DownInv
  <2> QED BY <2>8, <2>12, <2>13, <2>14, <2>15, <2>16, <2>17, ZenonT(60) DEF IInv
<1> QED BY <1>3, <1>4, Zenon

(* The commit is answered.                                                 *)
LEMMA CommitAckStep ==
    ASSUME IInv, NEW u \in Uploads, CommitAck(u)
    PROVE  IInv'
<1>1. CASE pc[u] = "found"
  BY <1>1, GiveUpStep, Zenon
<1>2. CASE pc[u] # "found"
  <2>1. /\ up /\ pc[u] = "committed" /\ pc' = [pc EXCEPT ![u] = "done"]
        /\ answer' = [answer EXCEPT ![u] = "success"]
        /\ UNCHANGED <<up, pool, h, flush, rolling, cancelled, bitmap, meta>>
    BY <1>2, Zenon DEF CommitAck, Answer, Goto, persistent
  <2>2. LControl("done", h[u], flush[u], rolling[u])
    BY <2>1, HereControl, Zenon DEF LControl
  <2>3. LTokens("done", h[u], flush[u], rolling[u])
    BY HereTokens, HereHeld, ZenonT(60) DEF LTokens
  <2>4. LFilled("done", h[u], flush[u])
    BY Zenon DEF LFilled
  <2>5. LStored(u, "done", "success")
    BY <2>1, HereStored, ZenonT(60) DEF LStored
  <2>6. Local(u, "done", h[u], flush[u], rolling[u], "success") /\ "done" \in Places
    BY <2>2, <2>3, <2>4, <2>5, HereTypes, HereData, HereStored, ZenonT(60) DEF Local, Places
  <2> QED BY <2>1, <2>6, PlaceStep, ZenonT(60)
<1> QED BY <1>1, <1>2, Zenon

----------------------------------------------------------------------------
(* Steps of the environment                                                *)

(* A context is cancelled.                                                 *)
LEMMA CancelStep ==
    ASSUME IInv, NEW u \in Uploads, CancelContext(u)
    PROVE  IInv'
<1>0. /\ Types /\ (\A v \in Uploads : UploadInv(v)) /\ OwnerInv /\ InflightInv
      /\ MetaInv /\ CommittedDataIntact
  BY Zenon DEF IInv
<1>1. /\ up /\ cancelled' = cancelled \cup {u} /\ u \in Cancellable
      /\ UNCHANGED <<up, free, inflight, disk, pc, h, flush, rolling, bitmap, meta, answer>>
  BY Zenon DEF CancelContext, pool, persistent
<1>2. Types'
  BY <1>0, <1>1, Zenon DEF Types
<1>3. ASSUME NEW v \in Uploads PROVE UploadInv(v)'
  <2>1. Local(v, pc'[v], h'[v], flush'[v], rolling'[v], answer'[v])
    BY <1>0, <1>1, Zenon DEF UploadInv
  <2> QED BY <1>1, <2>1, Primed, Zenon
<1>4. OwnerInv'
  <2>1. \A v \in Uploads : Mine(v)' = Mine(v)
    BY <1>1, SameHeld, Zenon
  <2> QED BY <1>0, <1>1, <2>1 DEF OwnerInv
<1>5. InflightInv' /\ CommittedDataIntact'
  BY <1>0, <1>1, ZenonT(60) DEF InflightInv, CommittedDataIntact
<1>6. MetaInv' /\ DownInv'
  BY <1>0, <1>1, ZenonT(60) DEF MetaInv, DownInv
<1> QED BY <1>2, <1>3, <1>4, <1>5, <1>6, ZenonT(60) DEF IInv

(* An upload without anything, as it is at the start and after a crash.    *)
LEMMA Fresh ==
    ASSUME NEW u \in Uploads, NEW p \in {"first", "done"}, NEW a,
           a = "success" => Stored(NameOf[u])
    PROVE  Local(u, p, NewHandler, NoFlush, <<>>, a)
<1>1. LControl(p, NewHandler, NoFlush, <<>>)
  BY NothingHeld, Zenon DEF LControl
<1>2. LTokens(p, NewHandler, NoFlush, <<>>)
  <2>1. DOMAIN <<>> = {}
    OBVIOUS
  <2> QED BY <2>1, NothingHeld, EmptyLists, Zenon DEF LTokens
<1>3. LData(u, NewHandler, NoFlush)
  BY NothingHeld, EmptyLists, Zenon DEF LData
<1>4. LFilled(p, NewHandler, NoFlush)
  BY NothingHeld DEF LFilled
<1>5. LStored(u, p, a)
  BY Zenon DEF LStored
<1> QED BY <1>1, <1>2, <1>3, <1>4, <1>5, ZenonT(60) DEF Local

(* A crash: committed blocks have at most writes of cancelled uploads.     *)
LEMMA CrashStep ==
    ASSUME IInv, Crash
    PROVE  IInv'
<1>0. /\ Types /\ (\A v \in Uploads : UploadInv(v)) /\ OwnerInv /\ MetaInv
      /\ CommittedDataIntact
  BY Zenon DEF IInv
<1>1. /\ up' = FALSE /\ inflight' = {} /\ free' = {} /\ cancelled' = {}
      /\ UNCHANGED <<bitmap, meta, answer>>
      /\ pc' = [u \in Uploads |-> IF pc[u] = "first" THEN "first" ELSE "done"]
      /\ h' = [u \in Uploads |-> NewHandler] /\ flush' = [u \in Uploads |-> NoFlush]
      /\ rolling' = [u \in Uploads |-> <<>>]
  BY Zenon DEF Crash, persistent
<1>2. PICK S \in SUBSET inflight :
         disk' \in {d \in [Blocks -> Uploads \cup {None}] :
                      \A b \in Blocks : LET ws == {w \in S : w[2] = b}
                                        IN IF ws = {} THEN d[b] = disk[b]
                                           ELSE \E w \in ws : d[b] = w[1]}
  BY Zenon DEF Crash
<1>3. /\ disk' \in [Blocks -> Uploads \cup {None}]
      /\ \A b \in Blocks : disk'[b] = disk[b]
                           \/ \E w \in inflight : w[2] = b /\ disk'[b] = w[1]
  BY <1>2, Zenon
<1>4. \A u \in Uploads : /\ pc'[u] \in {"first", "done"} /\ h'[u] = NewHandler
                         /\ flush'[u] = NoFlush /\ rolling'[u] = <<>>
  BY <1>1, Zenon
<1>5. Types'
  <2>1. pc' \in [Uploads -> Places]
    BY <1>1, Zenon DEF Places
  <2>2. h' \in [Uploads -> Handlers] /\ flush' \in [Uploads -> Flushes]
        /\ rolling' \in [Uploads -> Seq(SUBSET Blocks)]
    BY <1>1, NothingHeld, EmptyLists, Zenon
  <2> QED BY <1>0, <1>1, <1>3, <2>1, <2>2, ZenonT(60) DEF Types
<1>6. ASSUME NEW u \in Uploads PROVE UploadInv(u)'
  <2>1. answer[u] = "success" => Stored(NameOf[u])'
    BY <1>0, <1>1, ZenonT(60) DEF UploadInv, Local, LStored, Stored
  <2>2. /\ h'[u].infos = <<>> /\ h'[u].fileSize = 0 /\ h'[u].pending = 0 /\ DOMAIN <<>> = {}
        /\ flush'[u].at = "none" /\ flush'[u].got = {} /\ flush'[u].todo = {}
        /\ flush'[u].cur = None /\ flush'[u].res = "none"
    <3>1. h'[u] = NewHandler /\ flush'[u] = NoFlush
      BY <1>4, Zenon
    <3> QED BY <3>1, NothingHeld, SMTT(30)
  <2>3. LControl(pc[u], h[u], flush[u], rolling[u])'
    BY <1>4, <2>2, Zenon DEF LControl, Tok, NoFlush, NewHandler
  <2>4. LTokens(pc[u], h[u], flush[u], rolling[u])'
    BY <1>4, <2>2, ZenonT(60) DEF LTokens, Tok, Res, Rol, HeldOf
  <2>5. LData(u, h[u], flush[u])' /\ LFilled(pc[u], h[u], flush[u])'
    BY <1>4, <2>2 DEF LData, LFilled, Tok
  <2>6. LStored(u, pc[u], answer[u])'
    BY <1>1, <1>4, <2>1, Zenon DEF LStored
  <2> QED BY <2>3, <2>4, <2>5, <2>6, ZenonT(60) DEF UploadInv, Local
<1>7. OwnerInv'
  <2>1. \A u \in Uploads : Mine(u)' = {}
    BY <1>4, NothingHeld DEF Mine, HeldOf, Tok, Rol
  <2> QED BY <1>1, <2>1, ZenonT(60) DEF OwnerInv
<1>8. InflightInv' /\ MetaInv' /\ DownInv'
  BY <1>0, <1>1, <1>4, ZenonT(60) DEF InflightInv, MetaInv, DownInv
<1>9. CommittedDataIntact'
  <2> SUFFICES ASSUME NEW k \in MetaKeys, meta[k] # None, NEW b \in meta[k].blocks
               PROVE  disk'[b] \in {meta[k].by} \cup Cancellable
    BY <1>1, Zenon DEF CommittedDataIntact
  <2>1. /\ disk[b] \in {meta[k].by} \cup Cancellable /\ b \in Blocks
        /\ \A v \in Uploads : <<v, b>> \in inflight => v \in cancelled
    BY <1>0, Zenon DEF CommittedDataIntact, MetaInv, Types
  <2>2. CASE disk'[b] # disk[b]
    <3>1. PICK w \in inflight : w[2] = b /\ disk'[b] = w[1]
      BY <1>3, <2>1, <2>2, ZenonT(60)
    <3>2. w = <<w[1], b>> /\ w[1] \in Uploads
      BY <1>0, <3>1, SMTT(30) DEF Types
    <3>3. w[1] \in Cancellable
      BY <1>0, <2>1, <3>1, <3>2, Zenon DEF Types
    <3> QED BY <3>1, <3>3, Zenon
  <2> QED BY <2>1, <2>2, Zenon
<1> QED BY <1>5, <1>6, <1>7, <1>8, <1>9, ZenonT(60) DEF IInv

(* A restart: what the bitmap does not have is free.                       *)
LEMMA RestartStep ==
    ASSUME IInv, Restart
    PROVE  IInv'
<1>0. /\ Types /\ (\A v \in Uploads : UploadInv(v)) /\ MetaInv /\ InflightInv
      /\ CommittedDataIntact /\ DownInv
  BY Zenon DEF IInv
<1>1. /\ ~ up /\ up' = TRUE /\ free' = Blocks \ bitmap
      /\ UNCHANGED <<inflight, disk, pc, h, flush, rolling, cancelled, bitmap, meta, answer>>
  BY Zenon DEF Restart, persistent
<1>2. Types'
  BY <1>0, <1>1, Zenon DEF Types
<1>3. ASSUME NEW v \in Uploads PROVE UploadInv(v)'
  <2>1. Local(v, pc'[v], h'[v], flush'[v], rolling'[v], answer'[v])
    BY <1>0, <1>1, ZenonT(60) DEF UploadInv
  <2> QED BY <1>1, <2>1, Primed, Zenon
<1>4. OwnerInv'
  <2>1. \A v \in Uploads : Mine(v)' = {}
    <3>1. \A v \in Uploads : Mine(v) = {}
      BY <1>0, <1>1, NothingHeld, Zenon DEF DownInv, Mine
    <3> QED BY <1>1, <3>1, SameHeld, ZenonT(60)
  <2> QED BY <1>1, <2>1, Zenon DEF OwnerInv
<1>5. InflightInv' /\ CommittedDataIntact' /\ MetaInv' /\ DownInv'
  BY <1>0, <1>1, Zenon DEF InflightInv, CommittedDataIntact, MetaInv, DownInv
<1> QED BY <1>2, <1>3, <1>4, <1>5, ZenonT(60) DEF IInv

(* Initially.                                                              *)
LEMMA InitInv ==
    ASSUME Init
    PROVE  IInv
<1>1. /\ up = TRUE /\ free = Blocks /\ inflight = {} /\ cancelled = {} /\ bitmap = {}
      /\ disk = [b \in Blocks |-> None] /\ meta = [k \in MetaKeys |-> None]
      /\ \A u \in Uploads : /\ pc[u] = "first" /\ h[u] = NewHandler /\ flush[u] = NoFlush
                            /\ rolling[u] = <<>> /\ answer[u] = "none"
  BY Zenon DEF Init
<1>2. Types
  <2>1. /\ pc \in [Uploads -> Places] /\ answer \in [Uploads -> {"none", "success", "error"}]
        /\ h \in [Uploads -> Handlers] /\ flush \in [Uploads -> Flushes]
        /\ rolling \in [Uploads -> Seq(SUBSET Blocks)]
    BY NothingHeld, EmptyLists, Zenon DEF Init, Places
  <2>2. disk \in [Blocks -> Uploads \cup {None}] /\ meta \in [MetaKeys -> Files \cup {None}]
    BY <1>1, Zenon
  <2> QED BY <1>1, <2>1, <2>2, ZenonT(60) DEF Types
<1>3. \A u \in Uploads : UploadInv(u)
  BY <1>1, Fresh, Zenon DEF UploadInv
<1>4. OwnerInv
  <2>1. \A u \in Uploads : Mine(u) = {}
    BY <1>1, NothingHeld, Zenon DEF Mine
  <2> QED BY <1>1, <2>1, Zenon DEF OwnerInv
<1>5. InflightInv /\ MetaInv /\ CommittedDataIntact /\ DownInv
  BY <1>1, Zenon DEF InflightInv, MetaInv, CommittedDataIntact, DownInv
<1> QED BY <1>2, <1>3, <1>4, <1>5, Zenon DEF IInv

(* A step that changes nothing.                                            *)
LEMMA StutterStep ==
    ASSUME IInv, UNCHANGED vars
    PROVE  IInv'
<1>1. UNCHANGED <<up, free, inflight, pc, h, flush, rolling, cancelled, disk, bitmap, meta, answer>>
  BY Zenon DEF vars
<1>2. ASSUME NEW v \in Uploads PROVE UploadInv(v)'
  <2>1. Local(v, pc'[v], h'[v], flush'[v], rolling'[v], answer'[v])
    BY <1>1, Zenon DEF IInv, UploadInv
  <2> QED BY <1>1, <2>1, Primed, ZenonT(60)
<1>3. OwnerInv'
  <2>1. \A v \in Uploads : Mine(v)' = Mine(v)
    BY <1>1, SameHeld, Zenon
  <2> QED BY <1>1, <2>1 DEF IInv, OwnerInv
<1>4. Types' /\ InflightInv' /\ MetaInv' /\ CommittedDataIntact' /\ DownInv'
  BY <1>1, ZenonT(60) DEF IInv, Types, InflightInv, MetaInv, CommittedDataIntact, DownInv
<1> QED BY <1>2, <1>3, <1>4, ZenonT(60) DEF IInv

----------------------------------------------------------------------------
(* Theorems                                                                *)

(* Every step of the server, the kernel, its clients and its environment   *)
(* keeps the inductive invariant.                                          *)
LEMMA Inductive ==
    ASSUME IInv, [Next]_vars
    PROVE  IInv'
<1>1. CASE \E u \in Uploads : Client(u)
  BY <1>1, ClientStep, GiveUpStep, DataStep, Zenon DEF Client
<1>2. CASE \E u \in Uploads : Handler(u)
  BY <1>2, CompleteStep, FlushAllocStep, FlushSubmitStep, SegmentStep, CompleteFlushStep,
     RollStep, CommitStep, GiveUpStep, CommitAckStep, ZenonT(60) DEF Handler
<1>3. CASE \E u \in Uploads : CancelContext(u)
  BY <1>3, CancelStep, Zenon
<1>4. CASE Kernel
  BY <1>4, KernelStep, Zenon DEF Kernel
<1>5. CASE Crash
  BY <1>5, CrashStep, Zenon
<1>6. CASE Restart
  BY <1>6, RestartStep, Zenon
<1>7. CASE UNCHANGED vars
  BY <1>7, StutterStep, Zenon
<1> QED BY <1>1, <1>2, <1>3, <1>4, <1>5, <1>6, <1>7, ZenonT(60) DEF Next

(* The inductive invariant holds: types, what each goroutine knows at its  *)
(* place, who owns which block, and what the kernel may still write.       *)
THEOREM UploadInvariant == Spec => []IInv
<1>1. Init => IInv
  BY InitInv, Zenon
<1>2. IInv /\ [Next]_vars => IInv'
  BY Inductive, Zenon
<1> QED BY <1>1, <1>2, PTL DEF Spec

(* OneOwner: while the server runs a block is free, committed or held, and *)
(* never held twice, for any number of uploads, blocks and crashes.        *)
THEOREM BlocksHaveOneOwner == Spec => []OneOwner
<1>1. IInv => OneOwner
  <2> SUFFICES ASSUME IInv, up PROVE OneOwner
    BY Zenon DEF OneOwner
  <2>1. /\ \A u \in Uploads : Mine(u) \subseteq Blocks /\ Mine(u) \cap free = {}
        /\ \A u, v \in Uploads : u # v => Mine(u) \cap Mine(v) = {}
        /\ bitmap \cap free = {} /\ bitmap \subseteq Blocks
        /\ \A b \in Blocks : b \in free \/ b \in bitmap \/ \E u \in Uploads : b \in Mine(u)
    BY Zenon DEF IInv, OwnerInv, Types
  <2>2. \A u \in Uploads : Held(u) = Mine(u)
    BY HeldIsMine, Zenon
  <2>3. Blocks \ free = bitmap \cup UNION {Held(u) : u \in Uploads}
    <3>1. \A b : b \in UNION {Held(u) : u \in Uploads} <=> \E u \in Uploads : b \in Mine(u)
      BY <2>2, Zenon
    <3> QED BY <2>1, <3>1, Zenon
  <2> QED BY <2>1, <2>2, <2>3, Zenon DEF OneOwner
<1> QED BY <1>1, UploadInvariant, PTL

(* CommittedDataIntact: the blocks of a committed file have its data, and  *)
(* only a write of a cancelled upload can still reach them.                *)
THEOREM CommittedDataStays == Spec => []CommittedDataIntact
<1>1. IInv => CommittedDataIntact
  BY Zenon DEF IInv
<1> QED BY <1>1, UploadInvariant, PTL

(* SuccessIsDurable: an upload answered with SUCCESS has a file under one  *)
(* of its keys, through any number of crashes.                             *)
THEOREM SuccessStays == Spec => []SuccessIsDurable
<1>1. IInv => SuccessIsDurable
  <2> SUFFICES ASSUME IInv, NEW u \in Uploads, answer[u] = "success"
               PROVE  \E k \in MetaKeys : /\ k[2] = NameOf[u] /\ meta[k] # None
                                          /\ meta[k].blocks # {} /\ meta[k].blocks \subseteq bitmap
    BY Zenon DEF SuccessIsDurable
  <2>1. Stored(NameOf[u])
    BY HereStored, Zenon DEF LStored
  <2> QED BY <2>1, ZenonT(60) DEF Stored, IInv, MetaInv
<1> QED BY <1>1, UploadInvariant, PTL

----------------------------------------------------------------------------
(* The used-space counter                                                  *)

\* Until it gives its tokens back a handler has results and tokens alike.
Kept(p, hu) ==
    p \notin {"rollback", "exists", "done"} =>
       \A i \in DOMAIN hu.infos : hu.infos[i].results = hu.infos[i].token
CountInv == UsedExact /\ \A u \in Uploads : Kept(pc[u], h[u])

(* A handler whose place and fields alone change.                          *)
LEMMA KeptHere ==
    ASSUME Types, CountInv, NEW u \in Uploads, NEW q, NEW hu, Kept(q, hu),
           pc' = [pc EXCEPT ![u] = q], h' = [h EXCEPT ![u] = hu]
    PROVE  \A v \in Uploads : Kept(pc'[v], h'[v])
<1>1. /\ pc'[u] = q /\ h'[u] = hu
      /\ \A v \in Uploads \ {u} : pc'[v] = pc[v] /\ h'[v] = h[v]
  BY Zenon DEF Types
<1> QED BY <1>1, Zenon DEF CountInv

(* A goroutine that goes on and leaves the handler as it is.               *)
LEMMA KeptGoto ==
    ASSUME Types, CountInv, NEW u \in Uploads, NEW q, pc' = [pc EXCEPT ![u] = q], h' = h,
           q = "done" \/ pc[u] \notin {"rollback", "exists", "done"}
    PROVE  \A v \in Uploads : Kept(pc'[v], h'[v])
<1>1. Kept(q, h[u])
  BY Zenon DEF CountInv, Kept
<1>2. h' = [h EXCEPT ![u] = h[u]]
  BY Zenon DEF Types
<1> QED BY <1>1, <1>2, KeptHere, Zenon

(* A handler that changes other fields than its flushes.                   *)
LEMMA KeptFields ==
    ASSUME Types, CountInv, NEW u \in Uploads, NEW q, NEW hu, hu.infos = h[u].infos,
           pc' = [pc EXCEPT ![u] = q], h' = [h EXCEPT ![u] = hu],
           pc[u] \notin {"rollback", "exists", "done"}
    PROVE  \A v \in Uploads : Kept(pc'[v], h'[v])
<1>1. Kept(q, hu)
  BY Zenon DEF CountInv, Kept
<1> QED BY <1>1, KeptHere, Zenon

(* A handler that starts to give its tokens back.                          *)
LEMMA KeptRollback ==
    ASSUME Types, CountInv, NEW u \in Uploads, NEW q \in {"rollback", "exists"},
           pc' = [pc EXCEPT ![u] = q], BeginRollback(u) \/ FlushFails(u)
    PROVE  \A v \in Uploads : Kept(pc'[v], h'[v])
<1>1. pc'[u] = q /\ \A v \in Uploads \ {u} : pc'[v] = pc[v] /\ h'[v] = h[v]
  BY Zenon DEF Types, BeginRollback, FlushFails
<1>2. Kept(pc'[u], h'[u])
  BY <1>1, Zenon DEF Kept
<1>3. \A v \in Uploads \ {u} : Kept(pc'[v], h'[v])
  BY <1>1, Zenon DEF CountInv
<1> QED BY <1>2, <1>3, Zenon

(* startFlush, with or without the end of the upload.                      *)
LEMMA KeptStartFlush ==
    ASSUME Types, CountInv, NEW u \in Uploads, NEW hu \in Handlers, hu.infos = h[u].infos,
           NEW q, StartFlush(u, hu, q), pc[u] \notin {"rollback", "exists", "done"}
    PROVE  \A v \in Uploads : Kept(pc'[v], h'[v])
<1> DEFINE hp == [hu EXCEPT !.pending = 0]
<1>1. hp.infos = h[u].infos
  BY Zenon DEF Handlers
<1>2. h' = [h EXCEPT ![u] = hp] /\ pc' = [pc EXCEPT ![u] = q]
  BY Zenon DEF StartFlush, Goto
<1> HIDE DEF hp
<1> QED BY <1>1, <1>2, KeptFields, ZenonT(60)

(* Put: the data is counted, and maybe flushed.                            *)
LEMMA KeptPut ==
    ASSUME Types, CountInv, NEW u \in Uploads, NEW hu \in Handlers, hu.infos = h[u].infos,
           NEW n \in Nat, NEW q, Put(u, n, hu, q), pc[u] \notin {"rollback", "exists", "done"}
    PROVE  \A v \in Uploads : Kept(pc'[v], h'[v])
<1> DEFINE hn == [hu EXCEPT !.pending = @ + n, !.fileSize = @ + n, !.chunks = @ + 1]
<1>1. hn \in Handlers /\ hn.infos = h[u].infos
  <2>1. hu.pending + n \in Nat /\ hu.fileSize + n \in Nat /\ hu.chunks + 1 \in Nat
    BY DEF Handlers
  <2>2. PICK a \in Nat, b \in Nat, c \in Nat :
           a = hu.pending + n /\ b = hu.fileSize + n /\ c = hu.chunks + 1
    BY <2>1, Zenon
  <2>3. hn = [hu EXCEPT !.pending = a, !.fileSize = b, !.chunks = c]
    BY <2>2, ZenonT(60)
  <2> HIDE DEF hn
  <2> QED BY <2>3, ZenonT(60) DEF Handlers
<1>2. CASE hu.flushErr \/ hu.finalized
  BY <1>2, KeptFields, Zenon DEF Put, Answer, Goto
<1>3. CASE ~ (hu.flushErr \/ hu.finalized) /\ n > 0 /\ hn.pending >= MinAllocSize
  <2>1. StartFlush(u, hn, "put")
    BY <1>3, Zenon DEF Put
  <2> HIDE DEF hn
  <2> QED BY <1>1, <2>1, KeptStartFlush, Zenon
<1>4. CASE ~ (hu.flushErr \/ hu.finalized) /\ ~ (n > 0 /\ hn.pending >= MinAllocSize)
  <2>1. h' = [h EXCEPT ![u] = hn] /\ pc' = [pc EXCEPT ![u] = q]
    BY <1>4, Zenon DEF Put, Goto
  <2> HIDE DEF hn
  <2> QED BY <1>1, <2>1, KeptFields, ZenonT(60)
<1> QED BY <1>2, <1>3, <1>4, ZenonT(60)

(* The payloads of a client.                                               *)
LEMMA KeptClient ==
    ASSUME Types, CountInv, NEW u \in Uploads, Client(u)
    PROVE  \A v \in Uploads : Kept(pc'[v], h'[v])
<1>1. CASE StartPutObject(u) \/ CompletePutObject(u) \/ EndOfPayloads(u)
  <2>1. /\ pc[u] \in {"first", "next"} /\ h' = h
        /\ \E q \in {"next", "complete", "done"} : pc' = [pc EXCEPT ![u] = q]
    BY <1>1, Zenon DEF StartPutObject, CompletePutObject, EndOfPayloads, Answer, Goto
  <2> QED BY <2>1, KeptGoto, Zenon
<1>2. CASE TimeOut(u)
  BY <1>2, KeptRollback, Zenon DEF TimeOut, Goto
<1>3. CASE \E n \in ChunkSizes : PutAndCompleteObject(u, n) \/ PutObject(u, n)
  <2>1. PICK n \in ChunkSizes : PutAndCompleteObject(u, n) \/ PutObject(u, n)
    BY <1>3, Zenon
  <2> DEFINE ho == [h[u] EXCEPT !.oneShot = TRUE]
  <2>2. h[u] \in Handlers /\ ho \in Handlers /\ ho.infos = h[u].infos /\ n \in Nat
    <3>1. h[u] \in Handlers
      BY Zenon DEF Types
    <3>2. n \in Nat
      BY UploadAssumption, Zenon
    <3> QED BY <3>1, <3>2, ZenonT(60) DEF Handlers
  <2>3. /\ pc[u] \notin {"rollback", "exists", "done"}
        /\ Put(u, n, ho, "complete") \/ Put(u, n, h[u], "next")
    BY <2>1, Zenon DEF PutAndCompleteObject, PutObject
  <2> HIDE DEF ho
  <2> QED BY <2>2, <2>3, KeptPut, ZenonT(60)
<1> QED BY <1>1, <1>2, <1>3, ZenonT(60) DEF Client

(* Complete, up to the wait for the flushes.                               *)
LEMMA KeptComplete ==
    ASSUME Types, CountInv, NEW u \in Uploads, Complete(u)
    PROVE  \A v \in Uploads : Kept(pc'[v], h'[v])
<1> DEFINE hf == [h[u] EXCEPT !.finalized = TRUE]
<1>1. pc[u] = "complete"
  BY Zenon DEF Complete
<1>2. hf \in Handlers /\ hf.infos = h[u].infos
  BY ZenonT(60) DEF Types, Handlers
<1>3. \/ BeginRollback(u) /\ pc' = [pc EXCEPT ![u] = "rollback"]
      \/ h' = [h EXCEPT ![u] = hf] /\ pc' = [pc EXCEPT ![u] = "done"]
      \/ StartFlush(u, hf, "final")
      \/ h' = [h EXCEPT ![u] = hf] /\ pc' = [pc EXCEPT ![u] = "commit"]
  BY ZenonT(60) DEF Complete, Answer, Goto
<1> HIDE DEF hf
<1> QED BY <1>1, <1>2, <1>3, KeptRollback, KeptFields, KeptStartFlush, ZenonT(60)

(* completeFlush: the blocks of the flush are results and token.           *)
LEMMA KeptCompleteFlush ==
    ASSUME IInv, CountInv, NEW u \in Uploads, CompleteFlush(u)
    PROVE  \A v \in Uploads : Kept(pc'[v], h'[v])
<1> DEFINE g   == flush[u].got
           x   == [results |-> g, token |-> g]
           is2 == Append(h[u].infos, x)
           hu  == [h[u] EXCEPT !.infos = is2]
           q   == CASE pc[u] = "final" -> "commit"
                    [] pc[u] = "put" /\ h[u].oneShot -> "complete"
                    [] OTHER -> "next"
<1>1. Types /\ pc[u] \in {"put", "final"} /\ h[u].infos \in Seq(Info) /\ x \in Info
  BY HereTypes, HereControl, ZenonT(60) DEF CompleteFlush, LControl, Info
<1>2. h' = [h EXCEPT ![u] = hu] /\ pc' = [pc EXCEPT ![u] = q]
  BY <1>1, Zenon DEF CompleteFlush, Goto, Types
<1>3. x.results = x.token
  BY Zenon
<1>4. hu.infos = is2
  BY <1>1, HereTypes, ZenonT(60) DEF Handlers
<1> HIDE DEF q, hu, x
<1>5. \A i \in DOMAIN is2 : (i \in DOMAIN h[u].infos /\ is2[i] = h[u].infos[i]) \/ is2[i] = x
  BY <1>1
<1> HIDE DEF is2
<1>6. \A i \in DOMAIN h[u].infos : h[u].infos[i].results = h[u].infos[i].token
  BY <1>1, Zenon DEF CountInv, Kept
<1>7. Kept(q, hu)
  BY <1>3, <1>4, <1>5, <1>6, ZenonT(60) DEF Kept
<1> QED BY <1>1, <1>2, <1>7, KeptHere, Zenon

(* Every step of a handler but its commit.                                 *)
LEMMA KeptHandler ==
    ASSUME IInv, CountInv, NEW u \in Uploads, Handler(u)
    PROVE  \A v \in Uploads : Kept(pc'[v], h'[v])
<1>0. Types
  BY Zenon DEF IInv
<1>1. CASE Complete(u) \/ CompleteFlush(u)
  BY <1>0, <1>1, KeptComplete, KeptCompleteFlush, ZenonT(60)
<1>2. CASE FlushAlloc(u) \/ FlushWriteError(u) \/ CommitFails(u)
  <2>1. \/ UNCHANGED <<pc, h>>
        \/ (BeginRollback(u) \/ FlushFails(u)) /\ pc' = [pc EXCEPT ![u] = "rollback"]
    BY <1>2, Zenon DEF FlushAlloc, FlushWriteError, CommitFails, FlushFails, Goto
  <2> QED BY <1>0, <2>1, KeptRollback, Zenon DEF CountInv
<1>3. CASE FlushSubmit(u) \/ FlushSegmentDone(u)
  BY <1>3, Zenon DEF FlushSubmit, FlushSegmentDone, CountInv
<1>4. CASE Rollback(u)
  <2>1. h' = h /\ (pc' = pc \/ pc' = [pc EXCEPT ![u] = "done"])
    BY <1>4, Zenon DEF Rollback, Answer, Goto
  <2> QED BY <1>0, <2>1, KeptGoto, Zenon DEF CountInv
<1>5. CASE CommitBatch(u)
  <2>1. h' = h /\ pc[u] = "commit" /\ \E q : pc' = [pc EXCEPT ![u] = q]
    BY <1>5, Zenon DEF CommitBatch, Goto
  <2> QED BY <1>0, <2>1, KeptGoto, Zenon
<1>6. CASE CommitAck(u)
  <2>1. \/ BeginRollback(u) /\ pc' = [pc EXCEPT ![u] = "exists"]
        \/ h' = h /\ pc' = [pc EXCEPT ![u] = "done"]
    BY <1>6, Zenon DEF CommitAck, Answer, Goto
  <2> QED BY <1>0, <2>1, KeptRollback, KeptGoto, Zenon
<1> QED BY <1>1, <1>2, <1>3, <1>4, <1>5, <1>6, ZenonT(60) DEF Handler

(* Before its commit no two flushes of a handler have a block in common:   *)
(* what commit adds to the counter is the number of blocks it marks, and   *)
(* none of those was marked before.                                        *)
LEMMA SumIsSize ==
    ASSUME IInv, CountInv, NEW u \in Uploads, pc[u] = "commit"
    PROVE  /\ IsFiniteSet(Results(u)) /\ Results(u) \cap bitmap = {}
           /\ SumOfResults(u) = Cardinality(Results(u))
<1> DEFINE is == h[u].infos
           T  == UNION {{i} \X is[i].results : i \in DOMAIN is}
           f  == [t \in T |-> t[2]]
<1>1. is \in Seq(Info) /\ \A i \in DOMAIN is : is[i].results \subseteq Blocks
  <2>1. is \in Seq(Info)
    BY HereTypes, Zenon
  <2>2. \A i \in DOMAIN is : is[i] \in Info
    BY <2>1
  <2> QED BY <2>1, <2>2, Zenon DEF Info
<1>2. /\ \A i \in DOMAIN is : is[i].results = is[i].token
      /\ \A i, j \in DOMAIN is : i # j => is[i].token \cap is[j].token = {}
      /\ Res(is) = Tok(is) /\ Tok(is) \cap bitmap = {}
  BY HereTokens, ZenonT(60) DEF CountInv, Kept, LTokens, HeldOf
<1>3. Results(u) = Res(is) /\ SumOfResults(u) = Cardinality(T)
  BY Zenon DEF Results, Res, SumOfResults
<1>4. IsFiniteSet((DOMAIN is) \X Blocks)
  <2>1. DOMAIN is = 1 .. Len(is) /\ Len(is) \in Nat
    BY <1>1, SMTT(30)
  <2>2. IsFiniteSet(1 .. Len(is))
    BY <2>1, FS_Interval, SMTT(30)
  <2> QED BY <2>1, <2>2, UploadAssumption, FS_Product, ZenonT(60)
<1> HIDE DEF is
<1>5. \A t \in T : \E i \in DOMAIN is : \E b \in is[i].results : t = <<i, b>>
  <2> SUFFICES ASSUME NEW t \in T PROVE \E i \in DOMAIN is : \E b \in is[i].results : t = <<i, b>>
    BY Zenon
  <2>1. PICK i \in DOMAIN is : t \in {i} \X is[i].results
    BY Zenon
  <2> QED BY <2>1, SMTT(30)
<1>6. \A i \in DOMAIN is : \A b \in is[i].results : <<i, b>> \in T
  <2> SUFFICES ASSUME NEW i \in DOMAIN is, NEW b \in is[i].results PROVE <<i, b>> \in T
    BY Zenon
  <2>1. <<i, b>> \in {i} \X is[i].results
    OBVIOUS
  <2> QED BY <2>1, Zenon
<1> HIDE DEF T
<1>7. IsFiniteSet(T)
  <2>1. T \subseteq (DOMAIN is) \X Blocks
    BY <1>1, <1>5
  <2> QED BY <1>4, <2>1, FS_Subset, Zenon
<1>8. f \in Surjection(T, Res(is))
  <2>1. \A t \in T : t[2] \in Res(is)
    BY <1>5 DEF Res
  <2>2. \A b \in Res(is) : \E t \in T : t[2] = b
    <3> SUFFICES ASSUME NEW b \in Res(is) PROVE \E t \in T : t[2] = b
      BY Zenon
    <3>1. PICK i \in DOMAIN is : b \in is[i].results
      BY Zenon DEF Res
    <3>2. <<i, b>> \in T /\ <<i, b>>[2] = b
      BY <1>6, <3>1
    <3> QED BY <3>2, Zenon
  <2> QED BY <2>1, <2>2, ZenonT(60) DEF Surjection
<1>9. f \in Injection(T, Res(is))
  <2>1. ASSUME NEW s \in T, NEW t \in T, s[2] = t[2] PROVE s = t
    <3>1. PICK i \in DOMAIN is : \E b \in is[i].results : s = <<i, b>>
      BY <1>5, Zenon
    <3>2. PICK j \in DOMAIN is : \E b \in is[j].results : t = <<j, b>>
      BY <1>5, Zenon
    <3>3. s = <<i, s[2]>> /\ t = <<j, s[2]>> /\ s[2] \in is[i].results /\ s[2] \in is[j].results
      BY <2>1, <3>1, <3>2, SMTT(30)
    <3>4. i = j
      BY <1>2, <3>3, ZenonT(60)
    <3> QED BY <3>3, <3>4, ZenonT(60)
  <2>2. f \in [T -> Res(is)]
    BY <1>8, ZenonT(60) DEF Surjection
  <2>3. \A s, t \in T : f[s] = f[t] => s = t
    BY <2>1, SMTT(30)
  <2> QED BY <2>2, <2>3, ZenonT(60) DEF Injection, IsInjective
<1> HIDE DEF f
<1>10. IsFiniteSet(Res(is)) /\ Cardinality(Res(is)) = Cardinality(T)
  BY <1>7, <1>8, <1>9, FS_Surjection, ZenonT(60)
<1> QED BY <1>2, <1>3, <1>10, Zenon

(* The commit: the counter grows by as many blocks as the bitmap does.     *)
LEMMA CommitCounts ==
    ASSUME IInv, CountInv, NEW u \in Uploads, CommitBatch(u)
    PROVE  UsedExact'
<1>1. pc[u] = "commit" /\ used = Cardinality(bitmap) /\ IsFiniteSet(bitmap)
  <2>1. pc[u] = "commit" /\ used = Cardinality(bitmap) /\ bitmap \subseteq Blocks
    BY Zenon DEF CommitBatch, CountInv, UsedExact, IInv, Types
  <2> QED BY <2>1, UploadAssumption, FS_Subset, ZenonT(60)
<1>2. \/ UNCHANGED <<bitmap, used>>
      \/ bitmap' = bitmap \cup Results(u) /\ used' = used + SumOfResults(u)
  BY Zenon DEF CommitBatch, persistent
<1>3. /\ IsFiniteSet(Results(u)) /\ bitmap \cap Results(u) = {}
      /\ SumOfResults(u) = Cardinality(Results(u))
  BY <1>1, SumIsSize, Zenon
<1>4. Cardinality(bitmap \cup Results(u)) = Cardinality(bitmap) + Cardinality(Results(u))
  <2>1. Cardinality(bitmap \cup Results(u))
           = Cardinality(bitmap) + Cardinality(Results(u)) - Cardinality({})
    BY <1>1, <1>3, FS_Union, SMTT(30)
  <2>2. /\ Cardinality(bitmap) \in Nat /\ Cardinality(Results(u)) \in Nat
        /\ Cardinality({}) = 0
    BY <1>1, <1>3, FS_CardinalityType, FS_EmptySet, Zenon
  <2> QED BY <2>1, <2>2, SMTT(30)
<1> QED BY <1>1, <1>2, <1>3, <1>4, ZenonT(60) DEF UsedExact

(* Every step keeps the counter exact.                                     *)
LEMMA CountStep ==
    ASSUME IInv, CountInv, [Next]_vars
    PROVE  CountInv'
<1>0. Types
  BY Zenon DEF IInv
<1>1. \A v \in Uploads : Kept(pc'[v], h'[v])
  <2>1. CASE \E u \in Uploads : Client(u)
    BY <1>0, <2>1, KeptClient, Zenon
  <2>2. CASE \E u \in Uploads : Handler(u)
    BY <2>2, KeptHandler, Zenon
  <2>3. CASE (\E u \in Uploads : CancelContext(u)) \/ Kernel \/ Restart \/ UNCHANGED vars
    <3>1. UNCHANGED <<pc, h>>
      BY <2>3, Zenon DEF CancelContext, Kernel, KernelWrite, Restart, vars
    <3> QED BY <3>1, Zenon DEF CountInv
  <2>4. CASE Crash
    <3>1. h' = [u \in Uploads |-> NewHandler] /\ NewHandler.infos = <<>>
      BY <2>4, Zenon DEF Crash, NewHandler
    <3>2. \A v \in Uploads : DOMAIN (h'[v].infos) = {}
      BY <3>1
    <3> QED BY <3>2, Zenon DEF Kept
  <2> QED BY <2>1, <2>2, <2>3, <2>4, ZenonT(60) DEF Next
<1>2. UsedExact'
  <2>1. CASE \E u \in Uploads : CommitBatch(u)
    BY <2>1, CommitCounts, Zenon
  <2>2. CASE ~ \E u \in Uploads : CommitBatch(u)
    <3>1. UNCHANGED <<bitmap, used>>
      <4>1. CASE \E u \in Uploads : Client(u)
        BY <4>1, ZenonT(60) DEF Client, StartPutObject, CompletePutObject, TimeOut,
           EndOfPayloads, PutAndCompleteObject, PutObject, persistent
      <4>2. CASE \E u \in Uploads : Handler(u)
        BY <2>2, <4>2, ZenonT(60) DEF Handler, Complete, FlushAlloc, FlushSubmit,
           FlushSegmentDone, FlushWriteError, CompleteFlush, Rollback, CommitFails, CommitAck,
           persistent
      <4>3. CASE (\E u \in Uploads : CancelContext(u)) \/ Kernel \/ Crash \/ Restart
        BY <4>3, ZenonT(60) DEF CancelContext, Kernel, KernelWrite, Crash, Restart, persistent
      <4>4. CASE UNCHANGED vars
        BY <4>4, Zenon DEF vars
      <4> QED BY <4>1, <4>2, <4>3, <4>4, ZenonT(60) DEF Next
    <3> QED BY <3>1, Zenon DEF CountInv, UsedExact
  <2> QED BY <2>1, <2>2, Zenon
<1>3. (\A v \in Uploads : Kept(pc[v], h[v]))'
  BY <1>1, Zenon DEF Kept
<1> QED BY <1>2, <1>3, Zenon DEF CountInv

(* UsedExact: the used-space counter is the number of blocks the bitmap    *)
(* marks, through failures, rollbacks and crashes: no commit marks a block *)
(* that was marked before, and none counts a block twice.                  *)
THEOREM UsedStaysExact == Spec => []UsedExact
<1>1. Init => CountInv
  <2> SUFFICES ASSUME Init PROVE CountInv
    BY Zenon
  <2>1. UsedExact
    BY EmptyCard, Zenon DEF Init, UsedExact
  <2>2. \A v \in Uploads : h[v].infos = <<>>
    BY Zenon DEF Init, NewHandler
  <2>3. \A v \in Uploads : DOMAIN (h[v].infos) = {}
    BY <2>2
  <2> QED BY <2>1, <2>3, ZenonT(60) DEF CountInv, Kept
<1>2. IInv /\ CountInv /\ [Next]_vars => CountInv'
  BY CountStep, Zenon
<1>3. CountInv => UsedExact
  BY Zenon DEF CountInv
<1> QED BY <1>1, <1>2, <1>3, UploadInvariant, PTL DEF Spec

(* A step of one upload moves no other.                                    *)
LEMMA OthersStay ==
    ASSUME NEW v \in Uploads, Client(v) \/ Handler(v), pc \in [Uploads -> Places]
    PROVE  \A u \in Uploads \ {v} : pc'[u] = pc[u]
<1>1. CASE Client(v)
  <2>1. pc' = pc \/ \E q : pc' = [pc EXCEPT ![v] = q]
    BY <1>1, ZenonT(60) DEF Client, StartPutObject, CompletePutObject, TimeOut, EndOfPayloads,
       PutAndCompleteObject, PutObject, Put, StartFlush, Answer, Goto
  <2> QED BY <2>1, Zenon
<1>2. CASE Complete(v)
  <2>1. \E q : pc' = [pc EXCEPT ![v] = q]
    BY <1>2, ZenonT(60) DEF Complete, StartFlush, Answer, Goto
  <2> QED BY <2>1, Zenon
<1>3. CASE FlushAlloc(v) \/ FlushWriteError(v) \/ CompleteFlush(v)
  <2>1. pc' = pc \/ \E q : pc' = [pc EXCEPT ![v] = q]
    BY <1>3, ZenonT(60) DEF FlushAlloc, FlushWriteError, CompleteFlush, FlushFails, Goto
  <2> QED BY <2>1, Zenon
<1>4. CASE FlushSubmit(v) \/ FlushSegmentDone(v)
  BY <1>4, ZenonT(60) DEF FlushSubmit, FlushSegmentDone
<1>5. CASE Rollback(v) \/ CommitBatch(v) \/ CommitFails(v) \/ CommitAck(v)
  <2>1. pc' = pc \/ \E q : pc' = [pc EXCEPT ![v] = q]
    BY <1>5, ZenonT(60) DEF Rollback, CommitBatch, CommitFails, CommitAck, Answer, Goto
  <2> QED BY <2>1, Zenon
<1> QED BY <1>1, <1>2, <1>3, <1>4, <1>5, ZenonT(60) DEF Handler

(* The last step of a rollback leaves the upload without a block.          *)
LEMMA RollbackEnds ==
    ASSUME IInv, [Next]_vars, NEW u \in Uploads, pc[u] = "rollback", pc'[u] = "done", up'
    PROVE  Held(u)' = {}
<1>1. pc \in [Uploads -> Places] /\ flush[u] = NoFlush /\ Tok(h[u].infos) = {}
  BY HereTypes, HereControl, ZenonT(60) DEF Types, LControl
<1>2. Rollback(u)
  <2>1. ~ Crash /\ ~ Restart /\ ~ Kernel /\ ~ UNCHANGED vars
    BY Zenon DEF Crash, Restart, Kernel, KernelWrite, vars
  <2>2. \A v \in Uploads : ~ CancelContext(v)
    BY ZenonT(60) DEF CancelContext
  <2>3. PICK v \in Uploads : Client(v) \/ Handler(v)
    BY <2>1, <2>2, Zenon DEF Next
  <2>4. v = u
    BY <1>1, <2>3, OthersStay, ZenonT(60)
  <2>5. flush[u].at = "none" /\ flush[u].res = "none"
    BY <1>1, NothingHeld, ZenonT(60)
  <2>6. ~ Client(u)
    BY Zenon DEF Client, StartPutObject, CompletePutObject, TimeOut, EndOfPayloads,
           PutAndCompleteObject, PutObject
  <2> QED BY <2>3, <2>4, <2>5, <2>6, ZenonT(60) DEF Handler, Complete, FlushAlloc, FlushSubmit,
             FlushSegmentDone, FlushWriteError, CompleteFlush, CommitBatch, CommitFails, CommitAck
<1>3. rolling[u] = <<>> /\ UNCHANGED <<h, flush, rolling>>
  BY <1>2, Zenon DEF Rollback
<1>4. Mine(u) = {}
  BY <1>1, <1>3, NothingHeld, EmptyLists, ZenonT(60) DEF Mine, HeldOf
<1>5. Held(u)' = Held(u)
  BY <1>3, ZenonT(60) DEF Held
<1> QED BY <1>4, <1>5, HeldIsMine, ZenonT(60)

(* FailureReleasesAll: a handler that has rolled back and answers an error *)
(* has given back every block it ever took.                                *)
THEOREM FailuresRelease == Spec => FailureReleasesAll
<1>1. IInv /\ [Next]_vars =>
         [\A u \in Uploads : pc[u] = "rollback" /\ pc'[u] = "done" /\ up' => Held(u)' = {}]_vars
  BY RollbackEnds, Zenon
<1> QED BY <1>1, UploadInvariant, PTL DEF Spec, FailureReleasesAll

==============================================================================

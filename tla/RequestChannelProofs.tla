-------------------------- MODULE RequestChannelProofs --------------------------
(***************************************************************************)
(* Proofs about one request channel: the answers arrive in order, and the  *)
(* client's verdict is the server's.                                       *)
(***************************************************************************)
EXTENDS RequestChannel, FiniteSetTheorems, TLAPS

----------------------------------------------------------------------------
(* Sequences                                                               *)

(* What Append gives.                                                      *)
LEMMA AppendGives ==
  ASSUME NEW S, NEW seq \in Seq(S), NEW elt \in S
  PROVE  /\ Append(seq, elt) \in Seq(S)
         /\ Append(seq, elt) # <<>>
         /\ Len(Append(seq, elt)) = Len(seq) + 1
         /\ \A i \in 1 .. Len(seq) : Append(seq, elt)[i] = seq[i]
         /\ Append(seq, elt)[Len(seq) + 1] = elt
  OBVIOUS

(* Head and Tail of a sequence that is not empty.                          *)
LEMMA HeadTailGive ==
  ASSUME NEW S, NEW seq \in Seq(S), seq # <<>>
  PROVE  /\ Head(seq) \in S
         /\ Tail(seq) \in Seq(S)
         /\ Len(Tail(seq)) = Len(seq) - 1
         /\ \A i \in 1 .. Len(Tail(seq)) : Tail(seq)[i] = seq[i + 1]
  OBVIOUS

(* Concatenation.                                                          *)
LEMMA ConcatGives ==
  ASSUME NEW S, NEW s1 \in Seq(S), NEW s2 \in Seq(S)
  PROVE  /\ s1 \o s2 \in Seq(S)
         /\ Len(s1 \o s2) = Len(s1) + Len(s2)
         /\ \A i \in 1 .. Len(s1) + Len(s2) :
               (s1 \o s2)[i] = IF i <= Len(s1) THEN s1[i] ELSE s2[i - Len(s1)]
  OBVIOUS

----------------------------------------------------------------------------
(* The inductive invariant                                                 *)

Contains(s, e) == \E i \in 1 .. Len(s) : s[i] = e

Says == {"CONTINUE", "SUCCESS", "ERROR"}
Ends == {"BROKEN", "COMPLETE"}

Types ==
    /\ sent \in Seq(Kinds) /\ incoming \in Seq(Kinds) /\ requests \in Seq(Kinds)
    /\ pump \in {"select", "send", "finish", "exited"}
    /\ inHand \in Kinds \cup {"none"}
    /\ pump = "select" => inHand = "none"
    /\ pump = "send" => inHand # "none"
    /\ server \in {"first", "range", "respond", "exited"} /\ last \in BOOLEAN
    /\ server # "respond" => pending = <<>>
    /\ pending \in Seq(Says) /\ out \in Seq(Says) /\ answered \in Seq(Says)
    /\ sink \in Seq(Says \cup Ends)
    /\ once \in {"free", "running", "done"}

\* What the server has answered is in the sink, in out or pending, in this order.
Flow ==
    /\ Len(answered) = Delivered + Len(out) + Len(pending)
    /\ \A i \in DOMAIN out : out[i] = answered[Delivered + i]
    /\ \A i \in DOMAIN pending : pending[i] = answered[Delivered + Len(out) + i]

\* The sink has the answers in the order in which they were given.
InOrder ==
    \A i \in Answers(Len(sink)) : sink[i] = answered[Cardinality(Answers(i))]

\* Who finishes the sink, and what is left when it is the responder.
Finish ==
    /\ once = "running" <=> pump = "finish"
    /\ once = "running" => Contains(sink, "BROKEN")
    /\ once = "free" => ~ Contains(sink, "BROKEN")
    /\ Contains(sink, "COMPLETE") => once = "done"
    /\ \A i, j \in DOMAIN sink : sink[i] = "COMPLETE" /\ sink[j] = "COMPLETE" => i = j
    /\ ~ Contains(sink, "BROKEN") =>
          \A c \in DOMAIN sink : sink[c] = "COMPLETE" =>
             /\ c = Len(sink) /\ responder = "exited"
             /\ server = "exited" /\ out = <<>>

\* The server has taken the first k payloads of the client; requests, the
\* pump and rsocket-go have the next ones.
Hand == IF inHand = "none" THEN 0 ELSE 1

Taken(k) ==
    /\ k + Len(requests) + Hand + Len(incoming) <= Len(sent)
    /\ pump \in {"select", "send"} => k + Len(requests) + Hand + Len(incoming) = Len(sent)
    /\ \A i \in DOMAIN requests : requests[i] = sent[k + i]
    /\ inHand # "none" => inHand = sent[k + Len(requests) + 1]
    /\ \A i \in DOMAIN incoming : incoming[i] = sent[Len(sent) - Len(incoming) + i]

\* What it has answered to them: so far only that it goes on; an error; or,
\* to a whole upload, success.
Going(k) ==
    /\ server = "first" => k = 0
    /\ k = 0 => server \in {"first", "exited"}
    /\ Len(answered) = IF k = 0 THEN 0 ELSE k - 1
    /\ \A i \in DOMAIN answered : answered[i] = "CONTINUE"
    /\ k > 0 => sent[1] = "start"
    /\ \A i \in 2 .. k : sent[i] = "put"
    /\ ~ last

Stored(k) ==
    /\ k >= 2 /\ sent[1] = "start" /\ sent[k] = "complete"
    /\ \A i \in 2 .. k - 1 : sent[i] = "put"
    /\ Len(answered) = k - 1 /\ answered[k - 1] = "SUCCESS"
    /\ \A i \in 1 .. k - 2 : answered[i] = "CONTINUE"

Story(k) ==
    \/ Going(k)
    \/ /\ k > 0 /\ server \in {"respond", "exited"} /\ last
       /\ \/ ~ Contains(answered, "SUCCESS")
          \/ sent[1] = "both"
          \/ Stored(k)

Path == \E k \in 0 .. Len(sent) : Taken(k) /\ Story(k)

IInv == Types /\ Flow /\ InOrder /\ Finish /\ Path

(* An entry of a sequence has a position.                                  *)
LEMMA InRange ==
  ASSUME NEW S, NEW s \in Seq(S), NEW e
  PROVE  e \in Range(s) <=> Contains(s, e)
<1>1. DOMAIN s = 1 .. Len(s)
  OBVIOUS
<1> QED BY <1>1, Zenon DEF Range, Contains

----------------------------------------------------------------------------
(* The answers in a sink                                                   *)

AnswersOf(s, n) == {i \in 1 .. n : s[i] \notin Ends}

(* Answers are counted by the position of the last one.                    *)
LEMMA CountAnswers ==
  ASSUME NEW s, NEW n \in Nat
  PROVE  /\ IsFiniteSet(AnswersOf(s, n))
         /\ Cardinality(AnswersOf(s, n)) \in 0 .. n
         /\ \A i \in AnswersOf(s, n) : Cardinality(AnswersOf(s, i)) \in 1 .. Cardinality(AnswersOf(s, n))
<1>1. IsFiniteSet(1 .. n) /\ Cardinality(1 .. n) = n
  BY FS_Interval
<1>2. AnswersOf(s, n) \subseteq 1 .. n
  BY Zenon DEF AnswersOf
<1>3. IsFiniteSet(AnswersOf(s, n)) /\ Cardinality(AnswersOf(s, n)) <= n
  BY <1>1, <1>2, FS_Subset
<1>4. Cardinality(AnswersOf(s, n)) \in Nat
  BY <1>3, FS_CardinalityType, Zenon
<1>5. ASSUME NEW i \in AnswersOf(s, n)
      PROVE  Cardinality(AnswersOf(s, i)) \in 1 .. Cardinality(AnswersOf(s, n))
  <2>1. i \in 1 .. n /\ i \in AnswersOf(s, i)
    BY DEF AnswersOf
  <2>2. AnswersOf(s, i) \subseteq AnswersOf(s, n)
    BY <2>1 DEF AnswersOf
  <2>3. IsFiniteSet(AnswersOf(s, i)) /\ Cardinality(AnswersOf(s, i)) <= Cardinality(AnswersOf(s, n))
    BY <1>3, <2>2, FS_Subset, Zenon
  <2>4. Cardinality(AnswersOf(s, i)) \in Nat /\ Cardinality(AnswersOf(s, i)) # 0
    BY <2>1, <2>3, FS_CardinalityType, FS_EmptySet, Zenon
  <2> QED BY <1>4, <2>3, <2>4
<1> QED BY <1>3, <1>4, <1>5

(* What is appended to a sink is its last answer, or none.                 *)
LEMMA CountAppend ==
  ASSUME NEW S, NEW s \in Seq(S), NEW r \in S
  PROVE  /\ \A n \in 0 .. Len(s) : AnswersOf(Append(s, r), n) = AnswersOf(s, n)
         /\ AnswersOf(Append(s, r), Len(s) + 1) =
               IF r \in Ends THEN AnswersOf(s, Len(s)) ELSE AnswersOf(s, Len(s)) \cup {Len(s) + 1}
         /\ Cardinality(AnswersOf(Append(s, r), Len(s) + 1)) =
               Cardinality(AnswersOf(s, Len(s))) + IF r \in Ends THEN 0 ELSE 1
<1> DEFINE t == Append(s, r)
           m == Len(s)
<1>1. /\ m \in Nat /\ Len(t) = m + 1 /\ t[m + 1] = r
      /\ \A i \in 1 .. m : t[i] = s[i]
  BY AppendGives
<1> HIDE DEF t, m
<1>2. \A n \in 0 .. m : AnswersOf(t, n) = AnswersOf(s, n)
  BY <1>1 DEF AnswersOf
<1>3. AnswersOf(t, m + 1) = IF r \in Ends THEN AnswersOf(s, m) ELSE AnswersOf(s, m) \cup {m + 1}
  BY <1>1 DEF AnswersOf
<1>4. IsFiniteSet(AnswersOf(s, m)) /\ m + 1 \notin AnswersOf(s, m) /\ Cardinality(AnswersOf(s, m)) \in Nat
  <2>1. m + 1 \notin AnswersOf(s, m)
    BY <1>1 DEF AnswersOf
  <2> QED BY <1>1, <2>1, CountAnswers
<1>5. Cardinality(AnswersOf(s, m) \cup {m + 1}) = Cardinality(AnswersOf(s, m)) + 1
  BY <1>4, FS_AddElement, Zenon
<1>6. Cardinality(AnswersOf(t, m + 1)) = Cardinality(AnswersOf(s, m)) + IF r \in Ends THEN 0 ELSE 1
  BY <1>3, <1>4, <1>5
<1> QED BY <1>2, <1>3, <1>6, Zenon DEF t, m

(* The same for the sink of the model.                                     *)
LEMMA DeliveredCount ==
  ASSUME Types
  PROVE  /\ Delivered \in 0 .. Len(sink)
         /\ \A i \in Answers(Len(sink)) : Cardinality(Answers(i)) \in 1 .. Delivered
<1>1. Len(sink) \in Nat
  BY DEF Types
<1>2. \A n : Answers(n) = AnswersOf(sink, n)
  BY Zenon DEF Answers, AnswersOf, Ends
<1> QED BY <1>1, <1>2, CountAnswers, Zenon DEF Delivered

(* A step that gives the sink one more entry.                              *)
LEMMA SinkGrows ==
  ASSUME Types, NEW r \in Says \cup Ends, sink' = Append(sink, r)
  PROVE  /\ Len(sink') = Len(sink) + 1 /\ sink' \in Seq(Says \cup Ends) /\ sink'[Len(sink')] = r
         /\ \A i \in 1 .. Len(sink) : sink'[i] = sink[i] /\ Answers(i)' = Answers(i)
         /\ Delivered' = Delivered + IF r \in Ends THEN 0 ELSE 1
         /\ Answers(Len(sink))' = IF r \in Ends THEN Answers(Len(sink))
                                  ELSE Answers(Len(sink)) \cup {Len(sink) + 1}
<1>1. sink \in Seq(Says \cup Ends) /\ Len(sink) \in Nat
  BY DEF Types
<1>2. \A n : Answers(n) = AnswersOf(sink, n) /\ Answers(n)' = AnswersOf(sink', n)
  BY Zenon DEF Answers, AnswersOf, Ends
<1>3. /\ Len(sink') = Len(sink) + 1 /\ sink' \in Seq(Says \cup Ends) /\ sink'[Len(sink')] = r
      /\ \A i \in 1 .. Len(sink) : sink'[i] = sink[i]
  BY <1>1, AppendGives
<1>4. /\ \A n \in 0 .. Len(sink) : AnswersOf(sink', n) = AnswersOf(sink, n)
      /\ AnswersOf(sink', Len(sink) + 1) =
            IF r \in Ends THEN AnswersOf(sink, Len(sink)) ELSE AnswersOf(sink, Len(sink)) \cup {Len(sink) + 1}
      /\ Cardinality(AnswersOf(sink', Len(sink) + 1)) =
            Cardinality(AnswersOf(sink, Len(sink))) + IF r \in Ends THEN 0 ELSE 1
  BY <1>1, CountAppend, ZenonT(60)
<1>5. Answers(Len(sink))' = AnswersOf(sink', Len(sink) + 1)
  BY <1>3, Zenon DEF Answers, AnswersOf, Ends
<1>6. Delivered' = Delivered + IF r \in Ends THEN 0 ELSE 1
  BY <1>2, <1>4, <1>5, Zenon DEF Delivered
<1>7. \A i \in 1 .. Len(sink) : Answers(i)' = Answers(i)
  BY <1>1, <1>2, <1>4
<1> QED BY <1>2, <1>3, <1>4, <1>5, <1>6, <1>7, Zenon

----------------------------------------------------------------------------
(* Steps of the client and of the pump                                     *)

(* Flow and InOrder are about the sink, out and the answers.               *)
LEMMA FlowKept ==
  ASSUME Flow, InOrder, UNCHANGED <<sink, out, pending, answered>>
  PROVE  Flow' /\ InOrder'
BY ZenonT(60) DEF Flow, InOrder, Delivered, Answers

(* Finish is about the sink and who may still write to it.                 *)
LEMMA FinishKept ==
  ASSUME Finish, UNCHANGED <<sink, once>>, pump' = "finish" <=> pump = "finish",
         responder = "exited" => responder' = "exited",
         server = "exited" => server' = "exited" /\ out' = out
  PROVE  Finish'
BY Zenon DEF Finish, Contains

(* An entry that is no answer leaves the answers where they are.           *)
LEMMA EndKeepsFlow ==
  ASSUME Types, Flow, InOrder, NEW r \in Ends, sink' = Append(sink, r),
         UNCHANGED <<out, pending, answered>>
  PROVE  Flow' /\ InOrder'
<1>1. Delivered' = Delivered /\ Answers(Len(sink))' = Answers(Len(sink))
  <2>1. Delivered \in Nat
    BY DeliveredCount
  <2>2. r \in Says \cup Ends
    BY Zenon
  <2>3. Delivered' = Delivered + 0 /\ Answers(Len(sink))' = Answers(Len(sink))
    BY <2>2, SinkGrows, Zenon
  <2> QED BY <2>1, <2>3
<1>2. Flow'
  BY <1>1, Zenon DEF Flow
<1>3. ASSUME NEW i \in Answers(Len(sink)) PROVE sink'[i] = sink[i] /\ Answers(i)' = Answers(i)
  <2>1. i \in 1 .. Len(sink)
    BY Zenon DEF Answers
  <2> QED BY <2>1, SinkGrows, Zenon
<1>4. InOrder'
  BY <1>1, <1>3, Zenon DEF InOrder
<1> QED BY <1>2, <1>4, Zenon

(* The story of the first k payloads is not changed by later ones.         *)
LEMMA StoryKept ==
  ASSUME Types, NEW k \in 0 .. Len(sent), Story(k), UNCHANGED <<server, last, answered>>,
         \A i \in 1 .. Len(sent) : sent'[i] = sent[i]
  PROVE  Story(k)'
<1>1. Len(sent) \in Nat
  BY DEF Types
<1>2. k > 0 => sent'[1] = sent[1]
  BY <1>1
<1>3. \A i \in 2 .. k : sent'[i] = sent[i]
  BY <1>1
<1>4. CASE Going(k)
  BY <1>2, <1>3, <1>4, Zenon DEF Story, Going
<1>5. CASE ~ Going(k)
  <2>1. k > 0 /\ server \in {"respond", "exited"} /\ last
    BY <1>5, Zenon DEF Story
  <2>2. Stored(k) => Stored(k)'
    BY <1>1, <1>2, <1>3 DEF Stored
  <2>3. Contains(answered, "SUCCESS")' <=> Contains(answered, "SUCCESS")
    BY Zenon DEF Contains
  <2> QED BY <1>2, <1>5, <2>1, <2>2, <2>3, Zenon DEF Story
<1> QED BY <1>4, <1>5, Zenon

(* The client sends one more payload.                                      *)
LEMMA SendStep ==
  ASSUME IInv, NEW p \in Payloads, Send(p)
  PROVE  IInv'
<1>1. /\ sent \in Seq(Kinds) /\ incoming \in Seq(Kinds) /\ p \in Kinds
      /\ sent' = Append(sent, p) /\ incoming' = Append(incoming, p)
      /\ UNCHANGED <<once, pump, inHand, requests, server, pending, last, answered, out, responder, sink>>
  BY ChannelAssumption, Zenon DEF IInv, Types, Send, pumpVars, serverVars
<1>2. /\ sent' \in Seq(Kinds) /\ Len(sent') = Len(sent) + 1 /\ sent'[Len(sent) + 1] = p
      /\ \A i \in 1 .. Len(sent) : sent'[i] = sent[i]
      /\ incoming' \in Seq(Kinds) /\ Len(incoming') = Len(incoming) + 1 /\ incoming'[Len(incoming) + 1] = p
      /\ \A i \in 1 .. Len(incoming) : incoming'[i] = incoming[i]
  BY <1>1, AppendGives
<1>3. Types' /\ Flow' /\ InOrder' /\ Finish'
  BY <1>1, <1>2, FlowKept, FinishKept, ZenonT(60) DEF IInv, Types
<1>4. PICK k \in 0 .. Len(sent) : Taken(k) /\ Story(k)
  BY Zenon DEF IInv, Path
<1>5. Story(k)'
  BY <1>1, <1>2, <1>4, StoryKept, Zenon DEF IInv
<1>6. Len(requests) \in Nat /\ Len(sent) \in Nat /\ Len(incoming) \in Nat /\ requests \in Seq(Kinds)
  BY <1>1 DEF IInv, Types
<1>7. Taken(k)'
  <2>1. Hand' = Hand /\ Hand \in {0, 1} /\ (inHand # "none" => Hand = 1)
    BY <1>1, Zenon DEF Hand
  <2>2. \A i \in DOMAIN requests : requests'[i] = sent'[k + i]
    BY <1>1, <1>2, <1>4, <1>6, <2>1 DEF Taken
  <2>3. inHand # "none" => inHand = sent'[k + Len(requests) + 1]
    BY <1>1, <1>2, <1>4, <1>6, <2>1 DEF Taken
  <2>4. \A i \in DOMAIN incoming' : incoming'[i] = sent'[Len(sent') - Len(incoming') + i]
    BY <1>1, <1>2, <1>4, <1>6, <2>1, SMTT(30) DEF Taken
  <2>5. /\ k + Len(requests') + Hand' + Len(incoming') <= Len(sent')
        /\ pump' \in {"select", "send"} =>
              k + Len(requests') + Hand' + Len(incoming') = Len(sent')
    BY <1>1, <1>2, <1>4, <1>6, <2>1 DEF Taken
  <2> QED BY <1>1, <2>2, <2>3, <2>4, <2>5, Zenon DEF Taken
<1>8. k \in 0 .. Len(sent')
  BY <1>2, <1>6
<1> QED BY <1>3, <1>5, <1>7, <1>8, ZenonT(60) DEF IInv, Path

(* The end of the stream and of the context touch nothing of this.         *)
LEMMA ClientStep ==
  ASSUME IInv, EndStream \/ CancelContext
  PROVE  IInv'
<1>1. UNCHANGED <<sent, incoming, once, pump, inHand, requests, server, pending, last,
                  answered, out, responder, sink>>
  BY Zenon DEF EndStream, CancelContext, pumpVars, serverVars
<1>2. Types' /\ Flow' /\ InOrder' /\ Finish'
  BY <1>1, FlowKept, FinishKept, Zenon DEF IInv, Types
<1>3. Path'
  BY <1>1 DEF IInv, Path, Taken, Hand, Story, Going, Stored, Contains
<1> QED BY <1>2, <1>3, Zenon DEF IInv

(* A step of the pump that ends it, and drops what it has in hand.         *)
LEMMA PathWhenPumpEnds ==
  ASSUME IInv, pump' \notin {"select", "send"},
         UNCHANGED <<sent, inHand, requests, server, last, answered>>,
         incoming' = incoming \/ (incoming # <<>> /\ incoming' = Tail(incoming))
  PROVE  Path' /\ incoming' \in Seq(Kinds)
<1>1. /\ incoming \in Seq(Kinds) /\ sent \in Seq(Kinds) /\ requests \in Seq(Kinds)
      /\ Len(requests) \in Nat /\ Len(sent) \in Nat /\ Len(incoming) \in Nat
  BY DEF IInv, Types
<1>2. PICK k \in 0 .. Len(sent) : Taken(k) /\ Story(k)
  BY Zenon DEF IInv, Path
<1>3. Story(k)'
  BY <1>2, StoryKept, Zenon DEF IInv
<1>4. CASE incoming' = incoming
  BY <1>1, <1>2, <1>3, <1>4, Zenon DEF Path, Taken, Hand
<1>5. CASE incoming # <<>> /\ incoming' = Tail(incoming)
  <2>1. /\ incoming' \in Seq(Kinds) /\ Len(incoming') = Len(incoming) - 1
        /\ \A i \in 1 .. Len(incoming') : incoming'[i] = incoming[i + 1]
    BY <1>1, <1>5, HeadTailGive, Zenon
  <2>2. Hand' = Hand /\ Hand \in {0, 1}
    BY Zenon DEF Hand
  <2>3. \A i \in DOMAIN incoming' : incoming'[i] = sent'[Len(sent') - Len(incoming') + i]
    <3>0. DOMAIN incoming = 1 .. Len(incoming)
      BY <1>1
    <3>1. \A i \in 1 .. Len(incoming) : incoming[i] = sent[Len(sent) - Len(incoming) + i]
      BY <1>2, <3>0, Zenon DEF Taken
    <3>2. DOMAIN incoming' = 1 .. Len(incoming) - 1
      BY <2>1
    <3>3. \A i \in 1 .. Len(incoming) - 1 : /\ i + 1 \in 1 .. Len(incoming) /\ incoming'[i] = incoming[i + 1]
                                           /\ Len(sent) - Len(incoming) + (i + 1) = Len(sent') - Len(incoming') + i
      BY <1>1, <2>1
    <3> QED BY <3>1, <3>2, <3>3, ZenonT(60)
  <2>4. k + Len(requests') + Hand' + Len(incoming') <= Len(sent')
    BY <1>1, <1>2, <2>1, <2>2 DEF Taken
  <2>5. Taken(k)'
    BY <1>2, <2>3, <2>4, Zenon DEF Taken
  <2> QED BY <1>2, <1>3, <2>1, <2>5, Zenon DEF Path
<1> QED BY <1>4, <1>5, Zenon

(* emitError: the entry is not an answer, and the sink had none such.      *)
LEMMA EmitErrorStep ==
  ASSUME IInv, EmitError, pump = "select", UNCHANGED <<server, pending, answered, out, responder>>
  PROVE  /\ Flow' /\ InOrder' /\ Finish' /\ sink' \in Seq(Says \cup Ends)
         /\ once' \in {"free", "running", "done"} /\ pump' \in {"finish", "exited"}
<1>0. Types /\ Flow /\ InOrder /\ Finish
  BY Zenon DEF IInv
<1>1. CASE once = "free"
  <2>1. once' = "running" /\ sink' = Append(sink, "BROKEN") /\ pump' = "finish"
    BY <1>1, Zenon DEF EmitError
  <2>2. "BROKEN" \in Ends /\ "BROKEN" \in Says \cup Ends /\ "BROKEN" # "COMPLETE"
    BY Zenon DEF Ends
  <2>3. Flow' /\ InOrder'
    BY <1>0, <2>1, <2>2, EndKeepsFlow, Zenon
  <2>4. /\ Len(sink') = Len(sink) + 1 /\ sink' \in Seq(Says \cup Ends) /\ sink'[Len(sink')] = "BROKEN"
        /\ \A i \in 1 .. Len(sink) : sink'[i] = sink[i]
    BY <1>0, <2>1, <2>2, SinkGrows, Zenon
  <2>5. sink \in Seq(Says \cup Ends) /\ Len(sink) \in Nat
    BY <1>0 DEF Types
  <2>6. \A c \in 1 .. Len(sink) : sink[c] # "COMPLETE"
    BY <1>0, <1>1, Zenon DEF Finish, Contains
  <2>7. \A c \in DOMAIN sink' : sink'[c] # "COMPLETE"
    BY <2>2, <2>4, <2>5, <2>6
  <2>8. Contains(sink, "BROKEN")'
    BY <2>4, <2>5 DEF Contains
  <2>9. Finish'
    BY <2>1, <2>4, <2>7, <2>8 DEF Finish, Contains
  <2> QED BY <2>1, <2>3, <2>4, <2>9, Zenon
<1>2. CASE once # "free"
  <2>1. UNCHANGED <<once, sink>> /\ pump' = "exited"
    BY <1>2, Zenon DEF EmitError
  <2>2. Flow' /\ InOrder'
    BY <1>0, <2>1, FlowKept, Zenon
  <2>3. Finish'
    BY <1>0, <2>1, FinishKept, Zenon
  <2> QED BY <1>0, <2>1, <2>2, <2>3, Zenon DEF Types
<1> QED BY <1>1, <1>2, Zenon

(* The pump completes the sink after its ERROR.                            *)
LEMMA PumpFinishStep ==
  ASSUME IInv, PumpFinish
  PROVE  IInv'
<1>0. Types /\ Flow /\ InOrder /\ Finish
  BY Zenon DEF IInv
<1>1. /\ pump = "finish" /\ once' = "done" /\ sink' = Append(sink, "COMPLETE") /\ pump' = "exited"
      /\ UNCHANGED <<sent, incoming, inHand, requests, server, pending, last, answered, out, responder>>
  BY Zenon DEF PumpFinish, client, serverVars
<1>2. "COMPLETE" \in Ends /\ "COMPLETE" \in Says \cup Ends
  BY Zenon DEF Ends
<1>3. Flow' /\ InOrder'
  BY <1>0, <1>1, <1>2, EndKeepsFlow, Zenon
<1>4. /\ Len(sink') = Len(sink) + 1 /\ sink' \in Seq(Says \cup Ends) /\ sink'[Len(sink')] = "COMPLETE"
      /\ \A i \in 1 .. Len(sink) : sink'[i] = sink[i]
  BY <1>0, <1>1, <1>2, SinkGrows, Zenon
<1>5. sink \in Seq(Says \cup Ends) /\ Len(sink) \in Nat
  BY <1>0 DEF Types
<1>6. Contains(sink, "BROKEN") /\ \A c \in 1 .. Len(sink) : sink[c] # "COMPLETE"
  BY <1>0, <1>1, Zenon DEF Finish, Contains
<1>7. Contains(sink, "BROKEN")'
  BY <1>4, <1>5, <1>6 DEF Contains
<1>8. \A c \in DOMAIN sink' : sink'[c] = "COMPLETE" => c = Len(sink')
  BY <1>4, <1>5, <1>6
<1>9. Finish'
  BY <1>1, <1>4, <1>7, <1>8, Zenon DEF Finish
<1>10. Path'
  BY <1>1, PathWhenPumpEnds, Zenon
<1>11. Types'
  BY <1>0, <1>1, <1>4, Zenon DEF Types
<1> QED BY <1>3, <1>9, <1>10, <1>11, Zenon DEF IInv

(* The pump returns on the context or on finished.                         *)
LEMMA PumpStopStep ==
  ASSUME IInv, PumpStop
  PROVE  IInv'
<1>0. Types /\ Flow /\ InOrder /\ Finish
  BY Zenon DEF IInv
<1>1. /\ pump \in {"select", "send"} /\ pump' = "exited"
      /\ UNCHANGED <<sent, incoming, once, inHand, requests, server, pending, last, answered, out,
                     responder, sink>>
  BY Zenon DEF PumpStop, client, serverVars
<1>2. Flow' /\ InOrder'
  BY <1>0, <1>1, FlowKept, Zenon
<1>3. Finish'
  BY <1>0, <1>1, FinishKept, Zenon
<1>4. Path'
  BY <1>1, PathWhenPumpEnds, Zenon
<1>5. Types'
  BY <1>0, <1>1, Zenon DEF Types
<1> QED BY <1>2, <1>3, <1>4, <1>5, Zenon DEF IInv

(* The pump takes a payload, which it may fail to decode.                  *)
LEMMA PumpReceiveStep ==
  ASSUME IInv, PumpReceive
  PROVE  IInv'
<1>0. Types /\ Flow /\ InOrder /\ Finish
  BY Zenon DEF IInv
<1>1. /\ pump = "select" /\ incoming # <<>> /\ incoming' = Tail(incoming)
      /\ UNCHANGED <<sent, requests, server, pending, last, answered, out, responder>>
  BY Zenon DEF PumpReceive, serverVars
<1>2. inHand = "none"
  BY <1>0, <1>1, Zenon DEF Types
<1>3. CASE Head(incoming) = "broken"
  <2>1. EmitError /\ inHand' = inHand
    BY <1>3, Zenon DEF PumpReceive
  <2>2. /\ Flow' /\ InOrder' /\ Finish' /\ sink' \in Seq(Says \cup Ends)
        /\ once' \in {"free", "running", "done"} /\ pump' \in {"finish", "exited"}
    BY <1>1, <2>1, EmitErrorStep, Zenon
  <2>3. Path' /\ incoming' \in Seq(Kinds)
    BY <1>1, <2>1, <2>2, PathWhenPumpEnds, Zenon
  <2>4. Types'
    BY <1>0, <1>1, <2>1, <2>2, <2>3, Zenon DEF Types
  <2> QED BY <2>2, <2>3, <2>4, Zenon DEF IInv
<1>4. CASE Head(incoming) # "broken"
  <2>1. pump' = "send" /\ inHand' = Head(incoming) /\ UNCHANGED <<once, sink>>
    BY <1>4, Zenon DEF PumpReceive
  <2>2. /\ incoming \in Seq(Kinds) /\ sent \in Seq(Kinds) /\ requests \in Seq(Kinds)
        /\ Len(requests) \in Nat /\ Len(sent) \in Nat /\ Len(incoming) \in Nat
    BY <1>0 DEF Types
  <2>3. /\ incoming' \in Seq(Kinds) /\ Len(incoming') = Len(incoming) - 1 /\ Len(incoming) > 0
        /\ \A i \in 1 .. Len(incoming') : incoming'[i] = incoming[i + 1]
        /\ inHand' = incoming[1] /\ inHand' \in Kinds
    BY <1>1, <2>1, <2>2, HeadTailGive
  <2>4. inHand' # "none" /\ Hand' = 1 /\ Hand = 0
    BY <1>2, <2>3, Zenon DEF Hand, Kinds
  <2>5. Types'
    BY <1>0, <1>1, <2>1, <2>3, <2>4, Zenon DEF Types
  <2>6. Flow' /\ InOrder'
    BY <1>0, <1>1, <2>1, FlowKept, Zenon
  <2>7. Finish'
    BY <1>0, <1>1, <2>1, FinishKept, Zenon
  <2>8. PICK k \in 0 .. Len(sent) : Taken(k) /\ Story(k)
    BY Zenon DEF IInv, Path
  <2>9. Story(k)'
    BY <1>0, <1>1, <2>8, StoryKept, Zenon
  <2>10. /\ k + Len(requests) + Len(incoming) = Len(sent)
         /\ Len(sent) - Len(incoming) + 1 = k + Len(requests) + 1
    <3>1. k + Len(requests) + Hand + Len(incoming) = Len(sent)
      BY <1>1, <2>8, Zenon DEF Taken
    <3> QED BY <2>2, <2>4, <3>1
  <2>11. \A i \in 1 .. Len(incoming) : incoming[i] = sent[Len(sent) - Len(incoming) + i]
    BY <2>2, <2>8 DEF Taken
  <2>12. inHand' = sent'[k + Len(requests') + 1]
    <3>1. 1 \in 1 .. Len(incoming)
      BY <2>2, <2>3
    <3>2. inHand' = sent[k + Len(requests) + 1]
      BY <2>3, <2>10, <2>11, <3>1, Zenon
    <3> QED BY <1>1, <3>2, Zenon
  <2>13. \A i \in DOMAIN incoming' : incoming'[i] = sent'[Len(sent') - Len(incoming') + i]
    <3>1. DOMAIN incoming' = 1 .. Len(incoming) - 1
      BY <2>3
    <3>2. \A i \in 1 .. Len(incoming) - 1 : /\ i + 1 \in 1 .. Len(incoming) /\ incoming'[i] = incoming[i + 1]
                                           /\ Len(sent) - Len(incoming) + (i + 1) = Len(sent') - Len(incoming') + i
      BY <1>1, <2>2, <2>3
    <3> QED BY <1>1, <2>11, <3>1, <3>2, SMTT(30)
  <2>14. k + Len(requests') + Hand' + Len(incoming') = Len(sent')
    BY <1>1, <2>2, <2>3, <2>4, <2>10
  <2>15. \A i \in DOMAIN requests' : requests'[i] = sent'[k + i]
    BY <1>1, <2>8, Zenon DEF Taken
  <2>16. Len(sent') <= Len(sent')
    BY <1>1, <2>2
  <2>17. Taken(k)'
    BY <2>12, <2>13, <2>14, <2>15, <2>16, Zenon DEF Taken
  <2> QED BY <1>1, <2>5, <2>6, <2>7, <2>8, <2>9, <2>17, Zenon DEF IInv, Path
<1> QED BY <1>3, <1>4, Zenon

(* The pump returns at the end of the stream or on its error.              *)
LEMMA PumpEndStep ==
  ASSUME IInv, PumpEnd
  PROVE  IInv'
<1>0. Types /\ Flow /\ InOrder /\ Finish
  BY Zenon DEF IInv
<1>1. /\ pump = "select"
      /\ UNCHANGED <<sent, incoming, inHand, requests, server, pending, last, answered, out, responder>>
  BY Zenon DEF PumpEnd, client, serverVars
<1>2. /\ Flow' /\ InOrder' /\ Finish' /\ sink' \in Seq(Says \cup Ends)
      /\ once' \in {"free", "running", "done"} /\ pump' \in {"finish", "exited"}
  <2>1. CASE EmitError
    BY <1>1, <2>1, EmitErrorStep, Zenon
  <2>2. CASE ~ EmitError
    <3>1. pump' = "exited" /\ UNCHANGED <<once, sink>>
      BY <2>2, Zenon DEF PumpEnd
    <3>2. Flow' /\ InOrder'
      BY <1>0, <1>1, <3>1, FlowKept, Zenon
    <3>3. Finish'
      BY <1>0, <1>1, <3>1, FinishKept, Zenon
    <3> QED BY <1>0, <3>1, <3>2, <3>3, Zenon DEF Types
  <2> QED BY <2>1, <2>2, Zenon
<1>3. Path'
  BY <1>1, <1>2, PathWhenPumpEnds, Zenon
<1>4. Types'
  BY <1>0, <1>1, <1>2, Zenon DEF Types
<1> QED BY <1>2, <1>3, <1>4, Zenon DEF IInv

(* The pump gives the request in its hand to the server.                   *)
LEMMA PumpSendStep ==
  ASSUME IInv, PumpSend
  PROVE  IInv'
<1>0. Types /\ Flow /\ InOrder /\ Finish
  BY Zenon DEF IInv
<1>1. /\ pump = "send" /\ requests' = Append(requests, inHand) /\ pump' = "select" /\ inHand' = "none"
      /\ UNCHANGED <<sent, incoming, once, server, pending, last, answered, out, responder, sink>>
  BY Zenon DEF PumpSend, client, serverVars
<1>2. /\ incoming \in Seq(Kinds) /\ sent \in Seq(Kinds) /\ requests \in Seq(Kinds)
      /\ Len(requests) \in Nat /\ Len(sent) \in Nat /\ Len(incoming) \in Nat
      /\ inHand \in Kinds /\ inHand # "none"
  BY <1>0, <1>1 DEF Types
<1>3. /\ requests' \in Seq(Kinds) /\ Len(requests') = Len(requests) + 1
      /\ requests'[Len(requests) + 1] = inHand /\ \A i \in 1 .. Len(requests) : requests'[i] = requests[i]
  BY <1>1, <1>2, AppendGives
<1>4. Types'
  BY <1>0, <1>1, <1>3, Zenon DEF Types
<1>5. Flow' /\ InOrder'
  BY <1>0, <1>1, FlowKept, Zenon
<1>6. Finish'
  BY <1>0, <1>1, FinishKept, Zenon
<1>7. PICK k \in 0 .. Len(sent) : Taken(k) /\ Story(k)
  BY Zenon DEF IInv, Path
<1>8. Story(k)'
  BY <1>0, <1>1, <1>7, StoryKept, Zenon
<1>9. Hand = 1 /\ Hand' = 0
  BY <1>1, <1>2, Zenon DEF Hand
<1>10. /\ \A i \in 1 .. Len(requests) : requests[i] = sent[k + i]
       /\ inHand = sent[k + Len(requests) + 1]
       /\ k + Len(requests) + 1 + Len(incoming) = Len(sent)
  <2>1. DOMAIN requests = 1 .. Len(requests)
    BY <1>2
  <2>2. k + Len(requests) + Hand + Len(incoming) = Len(sent)
    BY <1>1, <1>7, Zenon DEF Taken
  <2> QED BY <1>2, <1>7, <1>9, <2>1, <2>2, Zenon DEF Taken
<1>11. \A i \in DOMAIN requests' : requests'[i] = sent'[k + i]
  <2>1. DOMAIN requests' = 1 .. Len(requests) + 1 /\ k + (Len(requests) + 1) = k + Len(requests) + 1
    BY <1>2, <1>3
  <2>2. \A i \in 1 .. Len(requests) + 1 : i \in 1 .. Len(requests) \/ i = Len(requests) + 1
    BY <1>2
  <2>3. sent' = sent
    BY <1>1, Zenon
  <2> QED BY <1>3, <1>10, <2>1, <2>2, <2>3, Zenon
<1>12. k + Len(requests') + Hand' + Len(incoming') = Len(sent') /\ Len(sent') <= Len(sent')
  BY <1>1, <1>2, <1>3, <1>9, <1>10
<1>13. \A i \in DOMAIN incoming' : incoming'[i] = sent'[Len(sent') - Len(incoming') + i]
  BY <1>1, <1>7, Zenon DEF Taken
<1>14. Taken(k)'
  BY <1>1, <1>11, <1>12, <1>13, Zenon DEF Taken
<1> QED BY <1>1, <1>4, <1>5, <1>6, <1>7, <1>8, <1>14, Zenon DEF IInv, Path

----------------------------------------------------------------------------
(* Steps of the server                                                     *)

(* What the server says, by what it was asked.                             *)
LEMMA RepliesFacts ==
  ASSUME NEW at \in {"first", "range"}, NEW p \in Kinds, NEW r \in Replies(at, p)
  PROVE  /\ r.say \in Seq(Says) /\ r.return \in BOOLEAN
         /\ ~ r.return => \/ at = "first" /\ p = "start" /\ r.say = <<>>
                          \/ at = "range" /\ p = "put" /\ r.say = <<"CONTINUE">>
         /\ r.return => \/ \A i \in DOMAIN r.say : r.say[i] # "SUCCESS"
                        \/ at = "first" /\ p = "both"
                        \/ at = "range" /\ p = "complete" /\ r.say = <<"SUCCESS">>
<1>1. /\ <<>> \in Seq(Says) /\ <<"ERROR">> \in Seq(Says) /\ <<"CONTINUE">> \in Seq(Says)
      /\ <<"SUCCESS">> \in Seq(Says)
      /\ <<"CONTINUE", "SUCCESS">> \in Seq(Says) /\ <<"CONTINUE", "ERROR">> \in Seq(Says)
  BY DEF Says
<1>2. /\ \A i \in DOMAIN <<"ERROR">> : <<"ERROR">>[i] # "SUCCESS"
      /\ \A i \in DOMAIN <<"CONTINUE", "ERROR">> : <<"CONTINUE", "ERROR">>[i] # "SUCCESS"
  OBVIOUS
<1>3. \/ at = "first" /\ p = "start" /\ r = [say |-> <<>>, return |-> FALSE]
      \/ at = "range" /\ p = "put" /\ r = [say |-> <<"CONTINUE">>, return |-> FALSE]
      \/ r = [say |-> <<"ERROR">>, return |-> TRUE]
      \/ r = [say |-> <<"CONTINUE", "ERROR">>, return |-> TRUE]
      \/ at = "first" /\ p = "both" /\ r = [say |-> <<"CONTINUE", "SUCCESS">>, return |-> TRUE]
      \/ at = "range" /\ p = "complete" /\ r = [say |-> <<"SUCCESS">>, return |-> TRUE]
  BY Zenon DEF Replies
<1>4. CASE at = "first" /\ p = "start" /\ r = [say |-> <<>>, return |-> FALSE]
  BY <1>1, <1>4, Zenon
<1>5. CASE at = "range" /\ p = "put" /\ r = [say |-> <<"CONTINUE">>, return |-> FALSE]
  BY <1>1, <1>5, Zenon
<1>6. CASE r = [say |-> <<"ERROR">>, return |-> TRUE]
  BY <1>1, <1>2, <1>6, Zenon
<1>7. CASE r = [say |-> <<"CONTINUE", "ERROR">>, return |-> TRUE]
  BY <1>1, <1>2, <1>7, Zenon
<1>8. CASE at = "first" /\ p = "both" /\ r = [say |-> <<"CONTINUE", "SUCCESS">>, return |-> TRUE]
  BY <1>1, <1>8, Zenon
<1>9. CASE at = "range" /\ p = "complete" /\ r = [say |-> <<"SUCCESS">>, return |-> TRUE]
  BY <1>1, <1>9, Zenon
<1> QED BY <1>3, <1>4, <1>5, <1>6, <1>7, <1>8, <1>9, ZenonT(60)

(* The story goes on with the answer to one more payload.                  *)
LEMMA StoryGrows ==
  ASSUME Types, Types', NEW k \in 0 .. Len(sent), Story(k), k + 1 <= Len(sent),
         server \in {"first", "range"}, server' = "respond", sent' = sent,
         NEW r \in Replies(server, sent[k + 1]), last' = r.return, answered' = answered \o r.say
  PROVE  Story(k + 1)'
<1>1. sent \in Seq(Kinds) /\ Len(sent) \in Nat /\ answered \in Seq(Says) /\ k \in Nat
  BY DEF Types
<1>2. sent[k + 1] \in Kinds
  BY <1>1
<1>3. Going(k)
  BY Zenon DEF Story
<1>4. /\ r.say \in Seq(Says) /\ r.return \in BOOLEAN
      /\ ~ r.return => \/ server = "first" /\ sent[k + 1] = "start" /\ r.say = <<>>
                       \/ server = "range" /\ sent[k + 1] = "put" /\ r.say = <<"CONTINUE">>
      /\ r.return => \/ \A i \in DOMAIN r.say : r.say[i] # "SUCCESS"
                     \/ server = "first" /\ sent[k + 1] = "both"
                     \/ server = "range" /\ sent[k + 1] = "complete" /\ r.say = <<"SUCCESS">>
  <2> DEFINE p == sent[k + 1]
  <2>1. p \in Kinds /\ r \in Replies(server, p)
    BY <1>2, Zenon
  <2> HIDE DEF p
  <2>2. /\ r.say \in Seq(Says) /\ r.return \in BOOLEAN
        /\ ~ r.return => \/ server = "first" /\ p = "start" /\ r.say = <<>>
                         \/ server = "range" /\ p = "put" /\ r.say = <<"CONTINUE">>
        /\ r.return => \/ \A i \in DOMAIN r.say : r.say[i] # "SUCCESS"
                       \/ server = "first" /\ p = "both"
                       \/ server = "range" /\ p = "complete" /\ r.say = <<"SUCCESS">>
    BY <2>1, RepliesFacts, Zenon
  <2> QED BY <2>2, Zenon DEF p
<1>5. /\ Len(answered') = Len(answered) + Len(r.say)
      /\ \A i \in 1 .. Len(answered) : answered'[i] = answered[i]
      /\ \A i \in 1 .. Len(r.say) : answered'[Len(answered) + i] = r.say[i]
      /\ \A j \in 1 .. Len(answered') : \/ j \in 1 .. Len(answered)
                                        \/ j - Len(answered) \in 1 .. Len(r.say)
                                           /\ answered'[j] = r.say[j - Len(answered)]
  BY <1>1, <1>4, ConcatGives, SMTT(30)
<1>6. /\ \A i \in 1 .. Len(answered) : answered[i] = "CONTINUE"
      /\ k > 0 => sent[1] = "start"
      /\ \A i \in 2 .. k : sent[i] = "put"
      /\ server = "first" => k = 0 /\ Len(answered) = 0
      /\ server = "range" => k > 0 /\ Len(answered) = k - 1
  BY <1>1, <1>3 DEF Going
<1>7. CASE ~ r.return /\ server = "first" /\ sent[k + 1] = "start" /\ r.say = <<>>
  <2>1. k = 0 /\ Len(answered') = 0 /\ sent'[1] = "start"
    BY <1>5, <1>6, <1>7
  <2>2. Going(k + 1)'
    BY <1>7, <2>1 DEF Going
  <2> QED BY <2>2, Zenon DEF Story
<1>8. CASE ~ r.return /\ server = "range" /\ sent[k + 1] = "put" /\ r.say = <<"CONTINUE">>
  <2>1. k > 0 /\ Len(answered') = k /\ Len(answered) = k - 1 /\ answered'[k] = "CONTINUE"
    BY <1>1, <1>5, <1>6, <1>8, SMTT(30)
  <2>2. \A i \in 1 .. k : answered'[i] = "CONTINUE"
    BY <1>1, <1>5, <1>6, <2>1, SMTT(30)
  <2>3. \A i \in 2 .. k + 1 : sent'[i] = "put"
    BY <1>1, <1>6, <1>8
  <2>4. DOMAIN answered' = 1 .. k
    BY <2>1 DEF Types
  <2>5. k + 1 # 0 /\ k + 1 - 1 = k /\ server' # "first" /\ sent'[1] = "start" /\ ~ last'
    BY <1>1, <1>6, <1>8, <2>1
  <2>6. Going(k + 1)'
    BY <2>1, <2>2, <2>3, <2>4, <2>5 DEF Going
  <2> QED BY <2>6, Zenon DEF Story
<1>9. CASE r.return
  <2>1. k + 1 > 0 /\ server' \in {"respond", "exited"} /\ last'
    BY <1>1, <1>9
  <2>2. CASE \A i \in DOMAIN r.say : r.say[i] # "SUCCESS"
    <3>1. ~ Contains(answered, "SUCCESS")'
      BY <1>4, <1>5, <1>6, <2>2 DEF Contains
    <3> QED BY <2>1, <3>1, Zenon DEF Story
  <2>3. CASE server = "first" /\ sent[k + 1] = "both"
    <3>1. sent'[1] = "both"
      BY <1>6, <2>3
    <3> QED BY <2>1, <3>1, Zenon DEF Story
  <2>4. CASE server = "range" /\ sent[k + 1] = "complete" /\ r.say = <<"SUCCESS">>
    <3>1. k > 0 /\ Len(answered') = k /\ Len(answered) = k - 1 /\ answered'[k] = "SUCCESS"
      BY <1>1, <1>5, <1>6, <2>4
    <3>2. \A i \in 1 .. k - 1 : answered'[i] = "CONTINUE"
      BY <1>1, <1>5, <1>6, <3>1
    <3>3. Stored(k + 1)'
      BY <1>1, <1>6, <2>4, <3>1, <3>2 DEF Stored
    <3> QED BY <2>1, <3>3, Zenon DEF Story
  <2> QED BY <1>4, <1>9, <2>2, <2>3, <2>4, Zenon
<1> QED BY <1>4, <1>7, <1>8, <1>9, ZenonT(60)

(* The server takes a request and makes its answers.                       *)
LEMMA ServerReceiveStep ==
  ASSUME IInv, ServerReceive
  PROVE  IInv'
<1>0. Types /\ Flow /\ InOrder /\ Finish
  BY Zenon DEF IInv
<1>1. /\ server \in {"first", "range"} /\ requests # <<>> /\ requests' = Tail(requests) /\ server' = "respond"
      /\ UNCHANGED <<sent, incoming, once, pump, inHand, out, responder, sink>>
  BY Zenon DEF ServerReceive, client
<1>2. PICK r \in Replies(server, Head(requests)) :
         pending' = r.say /\ last' = r.return /\ answered' = answered \o r.say
  BY Zenon DEF ServerReceive
<1>3. /\ sent \in Seq(Kinds) /\ requests \in Seq(Kinds) /\ answered \in Seq(Says) /\ out \in Seq(Says)
      /\ Len(requests) \in Nat /\ Len(sent) \in Nat /\ Len(incoming) \in Nat /\ Len(answered) \in Nat
      /\ pending = <<>>
  BY <1>0, <1>1 DEF Types
<1>4. /\ requests' \in Seq(Kinds) /\ Len(requests') = Len(requests) - 1 /\ Len(requests) > 0
      /\ \A i \in 1 .. Len(requests') : requests'[i] = requests[i + 1]
      /\ Head(requests) = requests[1] /\ Head(requests) \in Kinds
  BY <1>1, <1>3, HeadTailGive
<1>5. r.say \in Seq(Says) /\ r.return \in BOOLEAN
  BY <1>1, <1>4, RepliesFacts, Zenon
<1>6. /\ answered' \in Seq(Says) /\ Len(answered') = Len(answered) + Len(r.say)
      /\ \A i \in 1 .. Len(answered) : answered'[i] = answered[i]
      /\ \A i \in 1 .. Len(r.say) : answered'[Len(answered) + i] = r.say[i]
  BY <1>2, <1>3, <1>5, ConcatGives
<1>7. Types'
  BY <1>0, <1>1, <1>2, <1>4, <1>5, <1>6, Zenon DEF Types
<1>8. /\ Len(answered) = Delivered + Len(out) /\ Delivered \in Nat /\ Delivered' = Delivered
      /\ Len(out) \in Nat
  <2>1. Delivered \in Nat
    BY <1>0, <1>3, DeliveredCount DEF Types
  <2>2. Delivered' = Delivered
    BY <1>1, Zenon DEF Delivered, Answers
  <2>3. Len(<<>>) = 0
    BY Zenon
  <2> QED BY <1>0, <1>3, <2>1, <2>2, <2>3 DEF Flow
<1>9. Flow'
  <2>1. \A i \in DOMAIN out' : out'[i] = answered'[Delivered' + i]
    <3>1. \A i \in DOMAIN out : out[i] = answered[Delivered + i]
      BY <1>0, Zenon DEF Flow
    <3>2. \A i \in DOMAIN out : Delivered + i \in 1 .. Len(answered)
      BY <1>3, <1>8, SMTT(30)
    <3> QED BY <1>1, <1>6, <1>8, <3>1, <3>2, Zenon
  <2>2. \A i \in DOMAIN pending' : pending'[i] = answered'[Delivered' + Len(out') + i]
    <3>1. DOMAIN pending' = 1 .. Len(r.say)
      BY <1>2, <1>5
    <3>2. Delivered' + Len(out') = Len(answered)
      BY <1>1, <1>8, Zenon
    <3> QED BY <1>2, <1>6, <3>1, <3>2, Zenon
  <2>3. Len(answered') = Delivered' + Len(out') + Len(pending')
    BY <1>1, <1>2, <1>5, <1>6, <1>8, Zenon
  <2> QED BY <2>1, <2>2, <2>3, Zenon DEF Flow
<1>10. InOrder'
  <2>1. Answers(Len(sink))' = Answers(Len(sink))
    BY <1>1, Zenon DEF Answers
  <2>2. ASSUME NEW i \in Answers(Len(sink))
        PROVE  sink'[i] = answered'[Cardinality(Answers(i)')]
    <3>1. Cardinality(Answers(i)) \in 1 .. Delivered
      BY <1>0, DeliveredCount, Zenon
    <3>2. Cardinality(Answers(i)) \in 1 .. Len(answered)
      BY <1>8, <3>1
    <3>3. Answers(i)' = Answers(i) /\ sink' = sink
      BY <1>1, Zenon DEF Answers
    <3> QED BY <1>0, <1>6, <3>2, <3>3, Zenon DEF InOrder
  <2> QED BY <2>1, <2>2, Zenon DEF InOrder
<1>11. Finish'
  BY <1>0, <1>1, FinishKept, Zenon
<1>12. PICK k \in 0 .. Len(sent) : Taken(k) /\ Story(k)
  BY Zenon DEF IInv, Path
<1>13. \A i \in 1 .. Len(requests) : requests[i] = sent[k + i]
  <2>1. DOMAIN requests = 1 .. Len(requests)
    BY <1>3
  <2> QED BY <1>12, <2>1, Zenon DEF Taken
<1>14. k + Len(requests) + Hand + Len(incoming) <= Len(sent) /\ Hand \in {0, 1} /\ Hand' = Hand
  BY <1>1, <1>12, Zenon DEF Taken, Hand
<1>15. k \in Nat /\ k + 1 <= Len(sent) /\ k + 1 \in 0 .. Len(sent) /\ 1 \in 1 .. Len(requests)
  <2>1. k \in Nat /\ 1 \in 1 .. Len(requests)
    BY <1>3, <1>4
  <2> DEFINE a == Len(requests)
             b == Len(sent)
             c == Len(incoming)
  <2>2. a \in Nat \ {0} /\ b \in Nat /\ c \in Nat /\ k + a + Hand + c <= b /\ Hand \in {0, 1}
    BY <1>3, <1>4, <1>14
  <2> HIDE DEF a, b, c
  <2>3. k + 1 <= b /\ k + 1 \in 0 .. b
    BY <2>1, <2>2
  <2> QED BY <2>1, <2>3, Zenon DEF b
<1>16. Head(requests) = sent[k + 1]
  BY <1>4, <1>13, <1>15, Zenon
<1>17. Story(k + 1)'
  BY <1>0, <1>1, <1>2, <1>7, <1>12, <1>15, <1>16, StoryGrows, ZenonT(60)
<1>18. Taken(k + 1)'
  <2>1. k + 1 + Len(requests') = k + Len(requests)
    BY <1>3, <1>4, <1>15
  <2>2. \A i \in DOMAIN requests' : requests'[i] = sent'[(k + 1) + i]
    <3>1. DOMAIN requests' = 1 .. Len(requests) - 1
      BY <1>3, <1>4
    <3>2. \A i \in 1 .. Len(requests) - 1 : requests'[i] = requests[i + 1]
      BY <1>3, <1>4, Zenon
    <3>3. \A n \in Nat : \A i \in 1 .. n - 1 : i + 1 \in 1 .. n /\ k + (i + 1) = (k + 1) + i
      BY <1>15
    <3> QED BY <1>1, <1>3, <1>13, <3>1, <3>2, <3>3, ZenonT(60)
  <2> QED BY <1>1, <1>12, <1>14, <2>1, <2>2, Zenon DEF Taken
<1> QED BY <1>1, <1>7, <1>9, <1>10, <1>11, <1>15, <1>17, <1>18, ZenonT(60) DEF IInv, Path

(* The server sends an answer on out, or goes on.                          *)
LEMMA ServerRespondStep ==
  ASSUME IInv, ServerRespond
  PROVE  IInv'
<1>0. Types /\ Flow /\ InOrder /\ Finish
  BY Zenon DEF IInv
<1>1. /\ server = "respond"
      /\ UNCHANGED <<sent, incoming, once, pump, inHand, requests, last, answered, responder, sink>>
  BY Zenon DEF ServerRespond, client, pumpVars
<1>2. Delivered' = Delivered /\ Delivered \in Nat /\ Len(out) \in Nat
  <2>1. Delivered' = Delivered
    BY <1>1, Zenon DEF Delivered, Answers
  <2> QED BY <1>0, <2>1, DeliveredCount DEF Types
<1>3. InOrder'
  BY <1>0, <1>1, Zenon DEF InOrder, Answers
<1>4. Finish'
  BY <1>0, <1>1, FinishKept, Zenon
<1>5. PICK k \in 0 .. Len(sent) : Taken(k) /\ Story(k)
  BY Zenon DEF IInv, Path
<1>6. Taken(k)'
  BY <1>1, <1>5, Zenon DEF Taken, Hand
<1>7. CASE pending # <<>> /\ out' = Append(out, Head(pending)) /\ pending' = Tail(pending) /\ server' = server
  <2>1. pending \in Seq(Says) /\ out \in Seq(Says)
    BY <1>0, Zenon DEF Types
  <2>2. /\ Head(pending) = pending[1] /\ pending[1] \in Says /\ pending' \in Seq(Says)
        /\ Len(pending') = Len(pending) - 1 /\ Len(pending) \in Nat /\ Len(pending) > 0
        /\ \A i \in 1 .. Len(pending') : pending'[i] = pending[i + 1]
    BY <1>7, <2>1, HeadTailGive
  <2>3. /\ out' \in Seq(Says) /\ Len(out') = Len(out) + 1 /\ out'[Len(out) + 1] = pending[1]
        /\ \A i \in 1 .. Len(out) : out'[i] = out[i]
    BY <1>7, <2>1, <2>2, AppendGives
  <2>4. /\ \A i \in 1 .. Len(out) : out[i] = answered[Delivered + i]
        /\ \A i \in 1 .. Len(pending) : pending[i] = answered[Delivered + Len(out) + i]
        /\ Len(answered) = Delivered + Len(out) + Len(pending)
    BY <1>0, <2>1, SMTT(30) DEF Flow
  <2>5. \A i \in DOMAIN out' : out'[i] = answered'[Delivered' + i]
    <3>1. pending[1] = answered[Delivered + (Len(out) + 1)]
      BY <1>2, <2>2, <2>4
    <3>2. \A i \in DOMAIN out' : i \in 1 .. Len(out) \/ i = Len(out) + 1
      BY <1>2, <2>3
    <3> QED BY <1>1, <1>2, <2>3, <2>4, <3>1, <3>2, Zenon
  <2>6. \A i \in DOMAIN pending' : pending'[i] = answered'[Delivered' + Len(out') + i]
    <3>1. \A i \in 1 .. Len(pending) - 1 : pending'[i] = pending[i + 1]
      BY <2>2, Zenon
    <3>3. \A a, b, n \in Nat : \A i \in 1 .. n - 1 : i + 1 \in 1 .. n /\ a + b + (i + 1) = a + (b + 1) + i
      OBVIOUS
    <3>2. DOMAIN pending' = 1 .. Len(pending) - 1
      BY <2>2
    <3>4. \A i \in 1 .. Len(pending) - 1 :
             i + 1 \in 1 .. Len(pending) /\ Delivered + Len(out) + (i + 1) = Delivered + (Len(out) + 1) + i
      BY <1>2, <2>2, <3>3, ZenonT(60)
    <3>5. \A i \in 1 .. Len(pending) - 1 : pending'[i] = answered[Delivered + (Len(out) + 1) + i]
      BY <2>4, <3>1, <3>4, ZenonT(60)
    <3> QED BY <1>1, <1>2, <2>3, <3>2, <3>5, Zenon
  <2>7. Len(answered') = Delivered' + Len(out') + Len(pending')
    BY <1>1, <1>2, <2>2, <2>3, <2>4
  <2>8. Flow'
    BY <2>5, <2>6, <2>7, Zenon DEF Flow
  <2>9. Types'
    BY <1>0, <1>1, <1>7, <2>2, <2>3, Zenon DEF Types
  <2>10. Story(k)'
    BY <1>0, <1>1, <1>5, <1>7, StoryKept, Zenon
  <2> QED BY <1>1, <1>3, <1>4, <1>5, <1>6, <2>8, <2>9, <2>10, Zenon DEF IInv, Path
<1>8. CASE pending = <<>> /\ server' = (IF last THEN "exited" ELSE "range") /\ UNCHANGED <<out, pending>>
  <2>1. Flow'
    BY <1>0, <1>1, <1>8, FlowKept, Zenon
  <2>2. Types'
    BY <1>0, <1>1, <1>8, Zenon DEF Types
  <2>3. Story(k)'
    <3>1. CASE Going(k)
      <4>1. k # 0 /\ server' = "range"
        BY <1>1, <1>8, <3>1, Zenon DEF Going
      <4> QED BY <1>1, <3>1, <4>1, Zenon DEF Story, Going
    <3>2. CASE ~ Going(k)
      <4>1. last /\ server' = "exited"
        BY <1>5, <1>8, <3>2, Zenon DEF Story
      <4>2. Stored(k)' <=> Stored(k)
        BY <1>1, Zenon DEF Stored
      <4>3. Contains(answered, "SUCCESS")' <=> Contains(answered, "SUCCESS")
        BY <1>1, Zenon DEF Contains
      <4> QED BY <1>1, <1>5, <3>2, <4>1, <4>2, <4>3, ZenonT(60) DEF Story
    <3> QED BY <3>1, <3>2, Zenon
  <2> QED BY <1>1, <1>3, <1>4, <1>5, <1>6, <2>1, <2>2, <2>3, Zenon DEF IInv, Path
<1> QED BY <1>7, <1>8, Zenon DEF ServerRespond

(* The server returns when requests is closed and empty.                   *)
LEMMA ServerEndStep ==
  ASSUME IInv, ServerEnd
  PROVE  IInv'
<1>0. Types /\ Flow /\ InOrder /\ Finish
  BY Zenon DEF IInv
<1>1. /\ server \in {"first", "range"} /\ server' = "exited"
      /\ UNCHANGED <<sent, incoming, once, pump, inHand, requests, pending, last, answered, out, responder, sink>>
  BY Zenon DEF ServerEnd, client, pumpVars
<1>2. Types' /\ Flow' /\ InOrder'
  BY <1>0, <1>1, FlowKept, Zenon DEF Types
<1>3. Finish'
  BY <1>0, <1>1, FinishKept, Zenon
<1>4. PICK k \in 0 .. Len(sent) : Taken(k) /\ Story(k)
  BY Zenon DEF IInv, Path
<1>5. Taken(k)'
  BY <1>1, <1>4, Zenon DEF Taken, Hand
<1>6. Going(k)
  BY <1>1, <1>4, Zenon DEF Story
<1>7. Story(k)'
  BY <1>1, <1>6, Zenon DEF Story, Going
<1> QED BY <1>1, <1>2, <1>3, <1>4, <1>5, <1>7, Zenon DEF IInv, Path

----------------------------------------------------------------------------
(* Steps of the responder                                                  *)

(* Path is not about the responder.                                        *)
LEMMA PathKept ==
  ASSUME Path, UNCHANGED <<sent, incoming, pump, inHand, requests, server, last, answered>>
  PROVE  Path'
BY DEF Path, Taken, Hand, Story, Going, Stored, Contains

(* The responder returns on the context or on finished.                    *)
LEMMA ResponderStopStep ==
  ASSUME IInv, ResponderStop
  PROVE  IInv'
<1>1. /\ responder' = "exited"
      /\ UNCHANGED <<sent, incoming, once, pump, inHand, requests, server, pending, last, answered,
                     out, sink>>
  BY Zenon DEF ResponderStop, client, pumpVars, serverVars
<1>2. Types' /\ Flow' /\ InOrder' /\ Path'
  BY <1>1, FlowKept, PathKept, ZenonT(60) DEF IInv, Types
<1>3. Finish'
  BY <1>1, FinishKept, Zenon DEF IInv
<1> QED BY <1>2, <1>3, Zenon DEF IInv

(* The responder gives an answer to the sink.                              *)
LEMMA ResponderNextStep ==
  ASSUME IInv, ResponderNext
  PROVE  IInv'
<1>0. Types /\ Flow /\ InOrder /\ Finish
  BY Zenon DEF IInv
<1>1. /\ responder = "select" /\ out # <<>> /\ sink' = Append(sink, Head(out)) /\ out' = Tail(out)
      /\ UNCHANGED <<sent, incoming, once, pump, inHand, requests, server, pending, last, answered, responder>>
  BY Zenon DEF ResponderNext, client, pumpVars, serverVars
<1>2. out \in Seq(Says) /\ sink \in Seq(Says \cup Ends) /\ Len(sink) \in Nat /\ pending \in Seq(Says)
  BY <1>0 DEF Types
<1>3. /\ Head(out) = out[1] /\ out[1] \in Says /\ out' \in Seq(Says)
      /\ Len(out') = Len(out) - 1 /\ Len(out) \in Nat /\ Len(out) > 0
      /\ \A i \in 1 .. Len(out') : out'[i] = out[i + 1]
  BY <1>1, <1>2, HeadTailGive
<1>4. Head(out) \in Says \cup Ends /\ Head(out) \notin Ends
  BY <1>3, Zenon DEF Says, Ends
<1>5. Delivered \in Nat
  BY <1>0, <1>2, DeliveredCount
<1>6. /\ Len(sink') = Len(sink) + 1 /\ sink' \in Seq(Says \cup Ends) /\ sink'[Len(sink')] = out[1]
      /\ \A i \in 1 .. Len(sink) : sink'[i] = sink[i] /\ Answers(i)' = Answers(i)
      /\ Delivered' = Delivered + 1
      /\ Answers(Len(sink))' = Answers(Len(sink)) \cup {Len(sink) + 1}
  <2>1. Delivered' = Delivered + (IF Head(out) \in Ends THEN 0 ELSE 1)
    BY <1>0, <1>1, <1>4, SinkGrows, Zenon
  <2>2. Delivered' = Delivered + 1
    BY <1>4, <2>1, Zenon
  <2> QED BY <1>0, <1>1, <1>3, <1>4, <2>2, SinkGrows, Zenon
<1>7. Types'
  BY <1>0, <1>1, <1>3, <1>6, Zenon DEF Types
<1>8. /\ \A i \in 1 .. Len(out) : out[i] = answered[Delivered + i]
      /\ \A i \in 1 .. Len(pending) : pending[i] = answered[Delivered + Len(out) + i]
      /\ Len(answered) = Delivered + Len(out) + Len(pending)
  BY <1>0, <1>2 DEF Flow
<1>9. Flow'
  <2>1. \A n \in Nat : \A i \in 1 .. n - 1 : i + 1 \in 1 .. n /\ Delivered + (i + 1) = (Delivered + 1) + i
    BY <1>5
  <2>2. \A i \in 1 .. Len(out) - 1 : i + 1 \in 1 .. Len(out) /\ Delivered + (i + 1) = (Delivered + 1) + i
    BY <1>3, <2>1, Zenon
  <2>3. DOMAIN out' = 1 .. Len(out) - 1
    BY <1>3
  <2>4. \A i \in DOMAIN out' : out'[i] = answered'[Delivered' + i]
    <3>1. \A i \in 1 .. Len(out) - 1 : out'[i] = out[i + 1]
      BY <1>3, Zenon
    <3>2. answered' = answered
      BY <1>1, Zenon
    <3> QED BY <1>6, <1>8, <2>2, <2>3, <3>1, <3>2, ZenonT(60)
  <2>5. Delivered' + Len(out') = Delivered + Len(out)
    BY <1>3, <1>5, <1>6
  <2>6. DOMAIN pending = 1 .. Len(pending)
    BY <1>2
  <2> QED BY <1>1, <1>8, <2>4, <2>5, <2>6, Zenon DEF Flow
<1>10. InOrder'
  <2>1. ASSUME NEW i \in Answers(Len(sink))' PROVE sink'[i] = answered'[Cardinality(Answers(i)')]
    <3>1. CASE i = Len(sink) + 1
      <4>1. Answers(i)' = Answers(Len(sink))'
        BY <1>6, <3>1, Zenon DEF Answers
      <4>2. Cardinality(Answers(i)') = Delivered + 1
        BY <1>6, <4>1, ZenonT(60) DEF Delivered
      <4>3. out[1] = answered[Delivered + 1]
        BY <1>3, <1>8
      <4> QED BY <1>1, <1>6, <3>1, <4>2, <4>3, Zenon
    <3>2. CASE i # Len(sink) + 1
      <4>1. i \in Answers(Len(sink))
        BY <1>6, <3>2, Zenon
      <4>2. i \in 1 .. Len(sink)
        BY <4>1, Zenon DEF Answers
      <4> QED BY <1>0, <1>1, <1>6, <4>1, <4>2, Zenon DEF InOrder
    <3> QED BY <3>1, <3>2, Zenon
  <2> QED BY <2>1, Zenon DEF InOrder
<1>11. Finish'
  <2>1. DOMAIN sink = 1 .. Len(sink) /\ DOMAIN sink' = 1 .. Len(sink) + 1
    BY <1>2, <1>6
  <2>2. \A i \in DOMAIN sink' : i \in DOMAIN sink \/ i = Len(sink) + 1
    BY <1>2, <2>1
  <2>3. \A i \in DOMAIN sink' : sink'[i] \in Ends => i \in DOMAIN sink /\ sink[i] = sink'[i]
    BY <1>3, <1>4, <1>6, <2>1, <2>2, ZenonT(60)
  <2>4. \A i \in DOMAIN sink : i \in DOMAIN sink' /\ sink'[i] = sink[i]
    BY <1>2, <1>6, <2>1
  <2>5. "BROKEN" \in Ends /\ "COMPLETE" \in Ends
    BY Zenon DEF Ends
  <2>6. Contains(sink, "BROKEN")' <=> Contains(sink, "BROKEN")
    BY <1>6, <2>1, <2>3, <2>4, <2>5, Zenon DEF Contains
  <2>7. Contains(sink, "COMPLETE")' <=> Contains(sink, "COMPLETE")
    BY <1>6, <2>1, <2>3, <2>4, <2>5, Zenon DEF Contains
  <2>8. ~ Contains(sink, "BROKEN") => \A c \in DOMAIN sink : sink[c] # "COMPLETE"
    BY <1>0, <1>1, Zenon DEF Finish
  <2>9. ~ Contains(sink, "BROKEN")' => \A c \in DOMAIN sink' : sink'[c] # "COMPLETE"
    BY <2>3, <2>5, <2>6, <2>8, Zenon
  <2>10. \A i, j \in DOMAIN sink' : sink'[i] = "COMPLETE" /\ sink'[j] = "COMPLETE" => i = j
    BY <1>0, <2>3, <2>5, Zenon DEF Finish
  <2> QED BY <1>0, <1>1, <2>6, <2>7, <2>9, <2>10, ZenonT(60) DEF Finish
<1>12. Path'
  BY <1>1, PathKept, Zenon DEF IInv
<1> QED BY <1>7, <1>9, <1>10, <1>11, <1>12, ZenonT(60) DEF IInv

(* The responder completes the sink when out is closed and empty.          *)
LEMMA ResponderCompleteStep ==
  ASSUME IInv, ResponderComplete
  PROVE  IInv'
<1>0. Types /\ Flow /\ InOrder /\ Finish
  BY Zenon DEF IInv
<1>1. /\ responder = "select" /\ out = <<>> /\ server = "exited" /\ once # "running"
      /\ responder' = "exited" /\ once' = "done"
      /\ sink' = IF once = "done" THEN sink ELSE Append(sink, "COMPLETE")
      /\ UNCHANGED <<sent, incoming, pump, inHand, requests, server, pending, last, answered, out>>
  BY Zenon DEF ResponderComplete, client, pumpVars, serverVars
<1>2. Path'
  BY <1>1, PathKept, Zenon DEF IInv
<1>3. CASE once = "done"
  <2>1. sink' = sink
    BY <1>1, <1>3, Zenon
  <2>2. Types' /\ Flow' /\ InOrder'
    BY <1>0, <1>1, <1>3, <2>1, FlowKept, Zenon DEF Types
  <2>3. Finish'
    BY <1>0, <1>1, <1>3, <2>1, FinishKept, Zenon
  <2> QED BY <1>2, <2>2, <2>3, Zenon DEF IInv
<1>4. CASE once # "done"
  <2>1. sink' = Append(sink, "COMPLETE") /\ once = "free"
    BY <1>0, <1>1, <1>4, Zenon DEF Types
  <2>2. "COMPLETE" \in Ends /\ "COMPLETE" \in Says \cup Ends
    BY Zenon DEF Ends
  <2>3. Flow' /\ InOrder'
    BY <1>0, <1>1, <2>1, <2>2, EndKeepsFlow, Zenon
  <2>4. /\ Len(sink') = Len(sink) + 1 /\ sink' \in Seq(Says \cup Ends) /\ sink'[Len(sink')] = "COMPLETE"
        /\ \A i \in 1 .. Len(sink) : sink'[i] = sink[i]
    BY <1>0, <2>1, <2>2, SinkGrows, Zenon
  <2>5. sink \in Seq(Says \cup Ends) /\ Len(sink) \in Nat
    BY <1>0 DEF Types
  <2>6. \A c \in 1 .. Len(sink) : sink[c] # "COMPLETE" /\ sink[c] # "BROKEN"
    BY <1>0, <2>1, Zenon DEF Finish, Contains
  <2>7. ~ Contains(sink, "BROKEN")'
    BY <2>4, <2>5, <2>6 DEF Contains
  <2>8. \A c \in DOMAIN sink' : sink'[c] = "COMPLETE" => c = Len(sink')
    BY <2>4, <2>5, <2>6
  <2>9. pump # "finish"
    BY <1>0, <1>1, Zenon DEF Finish
  <2>10. Finish'
    BY <1>1, <2>7, <2>8, <2>9, Zenon DEF Finish
  <2>11. Types'
    BY <1>0, <1>1, <2>4, Zenon DEF Types
  <2> QED BY <1>2, <2>3, <2>10, <2>11, Zenon DEF IInv
<1> QED BY <1>3, <1>4, Zenon

----------------------------------------------------------------------------
(* The theorems                                                            *)

(* The invariant holds before the first payload.                           *)
LEMMA InitInv == Init => IInv
<1> SUFFICES ASSUME Init PROVE IInv
  BY Zenon
<1>1. \A S : <<>> \in Seq(S) /\ Len(<<>>) = 0 /\ DOMAIN <<>> = {}
  OBVIOUS
<1>2. Types
  BY <1>1, Zenon DEF Init, Types
<1>3. Delivered = 0
  <2>1. Answers(Len(sink)) = {}
    BY <1>1 DEF Init, Answers
  <2> QED BY <2>1, FS_EmptySet, Zenon DEF Delivered
<1>4. Flow /\ InOrder
  BY <1>1, <1>3 DEF Init, Flow, InOrder, Answers
<1>5. Finish
  BY <1>1 DEF Init, Finish, Contains
<1>6. Taken(0) /\ Going(0) /\ 0 \in 0 .. Len(sent)
  BY <1>1 DEF Init, Taken, Hand, Going
<1> QED BY <1>2, <1>4, <1>5, <1>6, Zenon DEF IInv, Path, Story

(* Every step of the four parties preserves the invariant.                 *)
LEMMA NextInv == IInv /\ [Next]_vars => IInv'
<1> SUFFICES ASSUME IInv, [Next]_vars PROVE IInv'
  BY Zenon
<1>1. CASE UNCHANGED vars
  <2>1. Types' /\ Flow' /\ InOrder' /\ Path'
    BY <1>1, FlowKept, PathKept, ZenonT(60) DEF vars, IInv, Types
  <2>2. Finish'
    BY <1>1, FinishKept, Zenon DEF vars, IInv
  <2> QED BY <2>1, <2>2, Zenon DEF IInv
<1>2. ASSUME NEW p \in Payloads, Send(p) PROVE IInv'
  BY <1>2, SendStep, Zenon
<1>3. CASE EndStream \/ CancelContext
  BY <1>3, ClientStep, Zenon
<1>4. CASE Pump
  BY <1>4, PumpStopStep, PumpFinishStep, PumpReceiveStep, PumpEndStep, PumpSendStep, Zenon DEF Pump
<1>5. CASE Server
  BY <1>5, ServerReceiveStep, ServerRespondStep, ServerEndStep, Zenon DEF Server
<1>6. CASE Responder
  BY <1>6, ResponderStopStep, ResponderNextStep, ResponderCompleteStep, Zenon DEF Responder
<1> QED BY <1>1, <1>2, <1>3, <1>4, <1>5, <1>6, Zenon DEF Next

(* The invariant holds of every channel, with any payloads, capacities and *)
(* number of payloads.                                                     *)
THEOREM ChannelInvariant == Spec => []IInv
<1> QED BY InitInv, NextInv, PTL DEF Spec

(* The server's answers reach the sink in order, none twice and none       *)
(* skipped, the sink is completed once, and before the last answer only    *)
(* when the pump has reported an error.                                    *)
THEOREM AnswersArriveInOrder == Spec => []AnswersInOrder
<1>1. IInv => AnswersInOrder
  <2> SUFFICES ASSUME IInv PROVE AnswersInOrder
    BY Zenon
  <2>0. Types /\ Flow /\ InOrder /\ Finish
    BY Zenon DEF IInv
  <2>1. /\ Len(answered) = Delivered + Len(out) + Len(pending)
        /\ Delivered \in Nat /\ Len(out) \in Nat /\ Len(pending) \in Nat
    BY <2>0, DeliveredCount DEF Flow, Types
  <2>2. \A i \in Answers(Len(sink)) :
           Cardinality(Answers(i)) <= Len(answered) /\ sink[i] = answered[Cardinality(Answers(i))]
    BY <2>0, <2>1, DeliveredCount DEF InOrder
  <2>3. ASSUME Contains(sink, "COMPLETE"), ~ Contains(sink, "BROKEN") PROVE Delivered = Len(answered)
    <3>1. PICK c \in DOMAIN sink : sink[c] = "COMPLETE"
      BY <2>0, <2>3 DEF Contains, Types
    <3>2. server = "exited" /\ out = <<>>
      BY <2>0, <2>3, <3>1, Zenon DEF Finish
    <3>3. pending = <<>>
      BY <2>0, <3>2, Zenon DEF Types
    <3>4. Len(<<>>) = 0
      BY Zenon
    <3> QED BY <2>1, <3>2, <3>3, <3>4
  <2>4. \A i, j \in DOMAIN sink : sink[i] = "COMPLETE" /\ sink[j] = "COMPLETE" => i = j
    BY <2>0, Zenon DEF Finish
  <2>5. \A e : e \in Range(sink) <=> Contains(sink, e)
    BY <2>0, InRange, Zenon DEF Types
  <2> QED BY <2>2, <2>3, <2>4, <2>5, Zenon DEF AnswersInOrder
<1> QED BY <1>1, ChannelInvariant, PTL

(* What uploadOnce wants is a sequence: n CONTINUE and a SUCCESS.          *)
LEMMA UploadShape ==
  ASSUME NEW n \in Nat
  PROVE  /\ Len(Upload(n)) = n + 2 /\ Upload(n)[1] = "start" /\ Upload(n)[n + 2] = "complete"
         /\ \A i \in 2 .. n + 1 : Upload(n)[i] = "put"
         /\ Wanted(n) \in Seq(Says) /\ Len(Wanted(n)) = n + 1 /\ Wanted(n)[n + 1] = "SUCCESS"
         /\ \A i \in 1 .. n : Wanted(n)[i] = "CONTINUE"
<1> DEFINE puts == [i \in 1 .. n |-> "put"]
           conts == [i \in 1 .. n |-> "CONTINUE"]
<1>1. puts \in Seq(Kinds) /\ Len(puts) = n /\ \A i \in 1 .. n : puts[i] = "put"
  BY DEF Kinds
<1>2. conts \in Seq(Says) /\ Len(conts) = n /\ \A i \in 1 .. n : conts[i] = "CONTINUE"
  BY DEF Says
<1>3. <<"start">> \in Seq(Kinds) /\ <<"complete">> \in Seq(Kinds) /\ <<"SUCCESS">> \in Seq(Says)
  BY DEF Kinds, Says
<1> HIDE DEF puts, conts
<1>4. /\ <<"start">> \o puts \in Seq(Kinds) /\ Len(<<"start">> \o puts) = n + 1
      /\ (<<"start">> \o puts)[1] = "start"
      /\ \A i \in 2 .. n + 1 : (<<"start">> \o puts)[i] = "put"
  BY <1>1, <1>3, ConcatGives
<1> DEFINE front == <<"start">> \o puts
<1> HIDE DEF front
<1>5. /\ front \in Seq(Kinds) /\ Len(front) = n + 1 /\ front[1] = "start"
      /\ \A i \in 2 .. n + 1 : front[i] = "put"
  BY <1>4, Zenon DEF front
<1>6. Upload(n) = front \o <<"complete">> /\ Wanted(n) = conts \o <<"SUCCESS">>
  BY Zenon DEF Upload, Wanted, front, puts, conts
<1>7. /\ Len(front \o <<"complete">>) = n + 2 /\ (front \o <<"complete">>)[n + 2] = "complete"
      /\ \A i \in 1 .. n + 1 : (front \o <<"complete">>)[i] = front[i]
  BY <1>3, <1>5, ConcatGives
<1>8. /\ conts \o <<"SUCCESS">> \in Seq(Says) /\ Len(conts \o <<"SUCCESS">>) = n + 1
      /\ (conts \o <<"SUCCESS">>)[n + 1] = "SUCCESS"
      /\ \A i \in 1 .. n : (conts \o <<"SUCCESS">>)[i] = "CONTINUE"
  BY <1>2, <1>3, ConcatGives
<1>9. 1 \in 1 .. n + 1 /\ \A i \in 2 .. n + 1 : i \in 1 .. n + 1
  OBVIOUS
<1> QED BY <1>5, <1>6, <1>7, <1>8, <1>9, ZenonT(60)

(* uploadOnce returns nil only if the server has answered SUCCESS.         *)
LEMMA NilOnlyIfStored ==
  ASSUME IInv, NEW n \in Nat, NEW c \in DOMAIN sink, SubSeq(sink, 1, c - 1) = Wanted(n)
  PROVE  Contains(answered, "SUCCESS")
<1>1. /\ Types /\ Flow /\ InOrder /\ sink \in Seq(Says \cup Ends)
      /\ Len(sink) \in Nat /\ DOMAIN sink = 1 .. Len(sink) /\ c \in 1 .. Len(sink)
  BY DEF IInv, Types
<1>2. Len(SubSeq(sink, 1, c - 1)) = c - 1 /\ \A i \in 1 .. c - 1 : SubSeq(sink, 1, c - 1)[i] = sink[i]
  BY <1>1
<1>3. c - 1 = n + 1 /\ sink[n + 1] = "SUCCESS" /\ n + 1 \in 1 .. Len(sink)
  <2>1. c - 1 = n + 1
    BY <1>2, UploadShape, Zenon
  <2>2. n + 1 \in 1 .. c - 1 /\ n + 1 \in 1 .. Len(sink)
    BY <1>1, <2>1
  <2>3. Wanted(n)[n + 1] = "SUCCESS"
    BY UploadShape, Zenon
  <2>4. SubSeq(sink, 1, c - 1)[n + 1] = sink[n + 1]
    BY <1>2, <2>2, Zenon
  <2> QED BY <2>1, <2>2, <2>3, <2>4, Zenon
<1>4. n + 1 \in Answers(Len(sink))
  BY <1>3, Zenon DEF Answers
<1> DEFINE k == Cardinality(Answers(n + 1))
<1>5. answered[k] = "SUCCESS"
  BY <1>1, <1>3, <1>4, Zenon DEF InOrder
<1>6. k \in 1 .. Delivered /\ Delivered \in Nat
  <2>1. k \in 1 .. Delivered /\ Delivered \in 0 .. Len(sink)
    BY <1>1, <1>4, DeliveredCount, ZenonT(60)
  <2> QED BY <1>1, <2>1
<1>7. Delivered <= Len(answered) /\ Len(answered) \in Nat
  BY <1>1, <1>6 DEF Flow, Types
<1>8. k \in 1 .. Len(answered)
  BY <1>6, <1>7
<1> QED BY <1>5, <1>8, Zenon DEF Contains

(* When the server has stored the object and the pump met no error,        *)
(* uploadOnce gets what it wants.                                          *)
LEMMA StoredGivesNil ==
  ASSUME IInv, NEW n \in Nat, sent = Upload(n), NEW c \in DOMAIN sink, sink[c] = "COMPLETE",
         Contains(answered, "SUCCESS"), ~ Contains(sink, "BROKEN")
  PROVE  SubSeq(sink, 1, c - 1) = Wanted(n)
<1>1. /\ Types /\ Flow /\ InOrder /\ Finish /\ Path
      /\ sink \in Seq(Says \cup Ends) /\ answered \in Seq(Says) /\ Len(answered) \in Nat
      /\ Len(sink) \in Nat /\ DOMAIN sink = 1 .. Len(sink) /\ c \in 1 .. Len(sink)
  BY DEF IInv, Types
<1>2. c = Len(sink) /\ out = <<>> /\ server = "exited"
  BY <1>1, Zenon DEF Finish
<1>3. pending = <<>>
  BY <1>1, <1>2, Zenon DEF Types
<1>4. Delivered = Len(answered)
  BY <1>1, <1>2, <1>3, DeliveredCount DEF Flow
<1>5. Len(answered) = n + 1 /\ answered[n + 1] = "SUCCESS" /\ \A i \in 1 .. n : answered[i] = "CONTINUE"
  <2>1. PICK k \in 0 .. Len(sent) : Story(k)
    BY <1>1, Zenon DEF Path
  <2>2. PICK j \in 1 .. Len(answered) : answered[j] = "SUCCESS"
    BY Zenon DEF Contains
  <2>3. DOMAIN answered = 1 .. Len(answered)
    BY <1>1
  <2>4. ~ Going(k)
    BY <2>2, <2>3, Zenon DEF Going
  <2>5. Len(sent) = n + 2 /\ sent[1] = "start" /\ \A i \in 2 .. n + 1 : sent[i] = "put"
    BY UploadShape, Zenon
  <2>6. sent[1] # "both"
    BY <2>5, Zenon
  <2>7. Stored(k)
    BY <2>1, <2>4, <2>6, Zenon DEF Story
  <2>8. k \in 2 .. n + 2
    BY <2>1, <2>5, <2>7 DEF Stored
  <2>9. k \notin 2 .. n + 1
    BY <2>5, <2>7, Zenon DEF Stored
  <2>10. k = n + 2
    BY <2>8, <2>9
  <2> QED BY <2>7, <2>10 DEF Stored
<1>6. \A i \in 1 .. c - 1 : sink[i] \notin Ends
  <2> SUFFICES ASSUME NEW i \in 1 .. c - 1 PROVE sink[i] \notin Ends
    BY Zenon
  <2>1. i \in 1 .. Len(sink) /\ i # c
    BY <1>1
  <2>2. sink[i] # "COMPLETE"
    BY <1>1, <2>1, Zenon DEF Finish
  <2>3. sink[i] # "BROKEN"
    BY <2>1, Zenon DEF Contains
  <2> QED BY <2>2, <2>3, Zenon DEF Ends
<1>7. \A i \in 1 .. c - 1 : Answers(i) = 1 .. i /\ Cardinality(Answers(i)) = i
  <2> SUFFICES ASSUME NEW i \in 1 .. c - 1 PROVE Answers(i) = 1 .. i /\ Cardinality(Answers(i)) = i
    BY Zenon
  <2>1. Answers(i) = 1 .. i
    BY <1>1, <1>6 DEF Answers, Ends
  <2> QED BY <2>1, FS_Interval
<1>8. Answers(Len(sink)) = 1 .. c - 1
  BY <1>1, <1>2, <1>6 DEF Answers, Ends
<1>9. Delivered = c - 1
  <2>1. c - 1 \in Nat
    BY <1>1
  <2>2. Cardinality(1 .. c - 1) = c - 1
    BY <2>1, FS_Interval
  <2> QED BY <1>8, <2>2, Zenon DEF Delivered
<1>10. c - 1 = n + 1 /\ \A i \in 1 .. n + 1 : sink[i] = answered[i]
  <2>1. c - 1 = n + 1
    BY <1>4, <1>5, <1>9, Zenon
  <2> QED BY <1>1, <1>7, <1>8, <2>1, Zenon DEF InOrder
<1>11. /\ SubSeq(sink, 1, c - 1) \in Seq(Says \cup Ends) /\ Len(SubSeq(sink, 1, c - 1)) = n + 1
       /\ \A i \in 1 .. n + 1 : SubSeq(sink, 1, c - 1)[i] = sink[i]
  BY <1>1, <1>10
<1>12. \A i \in 1 .. n + 1 : answered[i] = Wanted(n)[i]
  <2>1. \A i \in 1 .. n + 1 : i \in 1 .. n \/ i = n + 1
    OBVIOUS
  <2>2. Wanted(n)[n + 1] = "SUCCESS" /\ \A i \in 1 .. n : Wanted(n)[i] = "CONTINUE"
    BY UploadShape, Zenon
  <2> QED BY <1>5, <2>1, <2>2, Zenon
<1>13. Wanted(n) \in Seq(Says) /\ Len(Wanted(n)) = n + 1
  BY UploadShape, Zenon
<1>14. \A i \in 1 .. n + 1 : SubSeq(sink, 1, c - 1)[i] = Wanted(n)[i]
  BY <1>10, <1>11, <1>12, Zenon
<1> DEFINE got == SubSeq(sink, 1, c - 1)
           want == Wanted(n)
<1> HIDE DEF got, want
<1>15. /\ got \in Seq(Says \cup Ends) /\ want \in Seq(Says) /\ Len(got) = n + 1 /\ Len(want) = n + 1
       /\ \A i \in 1 .. n + 1 : got[i] = want[i]
  BY <1>11, <1>13, <1>14, Zenon DEF got, want
<1>16. got = want
  BY <1>15
<1> QED BY <1>16, Zenon DEF got, want

(* The client's verdict on an upload is the server's, however the channel  *)
(* is shut down, unless the pump reported an error of its own.             *)
THEOREM VerdictsAgree == Spec => []VerdictIsServers
<1>1. IInv => VerdictIsServers
  <2> SUFFICES ASSUME IInv, NEW n \in 1 .. MaxPayloads, NEW c \in DOMAIN sink,
                      sent = Upload(n), sink[c] = "COMPLETE"
               PROVE  LET verdict == uploadOnce(n, SubSeq(sink, 1, c - 1))
                          stored  == "SUCCESS" \in Range(answered)
                      IN  (verdict => stored) /\ (stored /\ "BROKEN" \notin Range(sink) => verdict)
    BY Zenon DEF VerdictIsServers
  <2>0. /\ "SUCCESS" \in Range(answered) <=> Contains(answered, "SUCCESS")
        /\ "BROKEN" \in Range(sink) <=> Contains(sink, "BROKEN")
    BY InRange, Zenon DEF IInv, Types
  <2>1. n \in Nat
    BY ChannelAssumption
  <2>2. uploadOnce(n, SubSeq(sink, 1, c - 1)) => Contains(answered, "SUCCESS")
    BY <2>1, NilOnlyIfStored, Zenon DEF uploadOnce
  <2>3. ASSUME Contains(answered, "SUCCESS"), ~ Contains(sink, "BROKEN")
        PROVE  uploadOnce(n, SubSeq(sink, 1, c - 1))
    <3>1. SubSeq(sink, 1, c - 1) = Wanted(n)
      BY <2>1, <2>3, StoredGivesNil, Zenon
    <3>2. \A i \in DOMAIN Wanted(n) : Wanted(n)[i] \notin {"ERROR", "BROKEN"}
      <4>1. /\ Len(Wanted(n)) = n + 1 /\ Wanted(n) \in Seq(Says) /\ Wanted(n)[n + 1] = "SUCCESS"
            /\ \A i \in 1 .. n : Wanted(n)[i] = "CONTINUE"
        BY <2>1, UploadShape, Zenon
      <4> QED BY <2>1, <4>1
    <3> QED BY <3>1, <3>2, Zenon DEF uploadOnce
  <2> QED BY <2>0, <2>2, <2>3, Zenon
<1> QED BY <1>1, ChannelInvariant, PTL

====

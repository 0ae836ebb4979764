---------------------------- MODULE RequestChannel ----------------------------
(***************************************************************************)
(* The three goroutines behind one rsocket request channel:                *)
(*   pump      copies decoded payloads into requests  (server_runtime.go)  *)
(*   server    ErasureServer.RequestChannel: takes a request, answers it   *)
(*             on out, ends on some kinds              (ErasureServer.go)  *)
(*   responder copies responses from out to the sink  (server_runtime.go)  *)
(* joined by two bounded channels, finishOnce and the channel's context.   *)
(* The handler behind the server is UploadServer; here a request only has  *)
(* its effect on the protocol.  rsocket-go is external: it delivers the    *)
(* client's payloads in order, ends or breaks the stream, cancels.         *)
(***************************************************************************)
EXTENDS Integers, Sequences, FiniteSets, Functions

CONSTANTS
    Payloads,     \* what clients may send, see Kinds
    MaxPayloads,  \* bound on the payloads of a client
    ReqCap,       \* capacity of requests, 64 in the code
    OutCap,       \* capacity of out, 64 in the code
    MayCancel     \* the context may be cancelled

\* "start": START_*, "put": PUT_OBJECT, "both": PUT_AND_COMPLETE, "complete",
\* "timeout": an ERROR payload, "unknown": another metadata, "broken": none.
Kinds == {"start", "put", "both", "complete", "timeout", "unknown", "broken"}

ASSUME ChannelAssumption ==
    /\ Payloads \subseteq Kinds
    /\ {MaxPayloads, ReqCap, OutCap} \subseteq Nat \ {0} /\ MayCancel \in BOOLEAN

VARIABLES
    sent,       \* payloads the client has sent
    incoming,   \* of those, not yet taken by the pump
    stream,     \* "open", "ended" or "failed", as the client left it
    ctxDone,    \* the context is cancelled
    once,       \* finishOnce: "free", "running" (the pump is in it), "done"
    pump,       \* "select", "send", "finish", "exited"
    inHand,     \* the request the pump is sending
    requests,   \* the channel; it is closed when the pump has exited
    server,     \* "first", "range", "respond", "exited"
    pending,    \* responses the server has still to send
    last,       \* it returns after them
    out,        \* the channel; it is closed when the server has exited
    responder,  \* "select", "exited"
    sink,       \* what was given to it: responses, "BROKEN" (the pump's ERROR), "COMPLETE"
    answered    \* history: all responses the server has made

client == <<sent, incoming, stream, ctxDone>>
pumpVars == <<pump, inHand, requests>>
serverVars == <<server, pending, last, answered>>
vars == <<sent, incoming, stream, ctxDone, once, pump, inHand, requests, server,
          pending, last, out, responder, sink, answered>>

Init ==
    /\ sent = <<>> /\ incoming = <<>> /\ stream = "open" /\ ctxDone = FALSE
    /\ once = "free"
    /\ pump = "select" /\ inHand = "none" /\ requests = <<>>
    /\ server = "first" /\ pending = <<>> /\ last = FALSE
    /\ out = <<>> /\ responder = "select" /\ sink = <<>> /\ answered = <<>>

----------------------------------------------------------------------------
(* The client and rsocket-go                                               *)

Send(p) ==
    /\ stream = "open" /\ Len(sent) < MaxPayloads
    /\ sent' = Append(sent, p) /\ incoming' = Append(incoming, p)
    /\ UNCHANGED <<stream, ctxDone, once, pumpVars, serverVars, out, responder, sink>>

EndStream ==
    /\ stream = "open"
    /\ stream' \in {"ended", "failed"}
    /\ UNCHANGED <<sent, incoming, ctxDone, once, pumpVars, serverVars, out, responder, sink>>

CancelContext ==
    /\ MayCancel /\ ~ ctxDone
    /\ ctxDone' = TRUE
    /\ UNCHANGED <<sent, incoming, stream, once, pumpVars, serverVars, out, responder, sink>>

----------------------------------------------------------------------------
(* The pump                                                                *)

\* emitError: unless another has finished the sink, an ERROR and, one step
\* later, the end; the responder runs in between.
EmitError ==
    IF once = "free"
    THEN once' = "running" /\ sink' = Append(sink, "BROKEN") /\ pump' = "finish"
    ELSE pump' = "exited" /\ UNCHANGED <<once, sink>>

PumpFinish ==
    /\ pump = "finish"
    /\ once' = "done" /\ sink' = Append(sink, "COMPLETE") /\ pump' = "exited"
    /\ UNCHANGED <<client, inHand, requests, serverVars, out, responder>>

\* Mutations of PumpStop: not while a request is being sent; not on ctx.Done.
PumpStop_OnlySelect ==
    /\ pump = "select" /\ (ctxDone \/ once = "done")
    /\ pump' = "exited"
    /\ UNCHANGED <<client, once, inHand, requests, serverVars, out, responder, sink>>

PumpStop_NoCtx ==
    /\ pump \in {"select", "send"} /\ once = "done"
    /\ pump' = "exited"
    /\ UNCHANGED <<client, once, inHand, requests, serverVars, out, responder, sink>>

PumpStop ==
    /\ pump \in {"select", "send"} /\ (ctxDone \/ once = "done")
    /\ pump' = "exited"
    /\ UNCHANGED <<client, once, inHand, requests, serverVars, out, responder, sink>>

PumpReceive ==
    /\ pump = "select" /\ incoming # <<>>
    /\ incoming' = Tail(incoming)
    /\ IF Head(incoming) = "broken"
         THEN EmitError /\ UNCHANGED inHand
         ELSE pump' = "send" /\ inHand' = Head(incoming) /\ UNCHANGED <<once, sink>>
    /\ UNCHANGED <<sent, stream, ctxDone, requests, serverVars, out, responder>>

\* Both channels of ToChan are drained, or the stream's error arrives, which
\* may overtake payloads that are still buffered.
PumpEnd ==
    /\ pump = "select"
    /\ \/ /\ stream = "ended" /\ incoming = <<>>
          /\ pump' = "exited" /\ UNCHANGED <<once, sink>>
       \/ stream = "failed" /\ EmitError
    /\ UNCHANGED <<client, inHand, requests, serverVars, out, responder>>

PumpSend ==
    /\ pump = "send" /\ Len(requests) < ReqCap
    /\ requests' = Append(requests, inHand)
    /\ pump' = "select" /\ inHand' = "none"
    /\ UNCHANGED <<client, once, serverVars, out, responder, sink>>

----------------------------------------------------------------------------
(* RequestChannel                                                          *)

\* What the server may answer to a first and to a later request, and whether
\* it returns then.  Starting needs a device and a request that decodes.
Replies(at, p) ==
    IF at = "first"
    THEN CASE p = "start" -> {[say |-> <<>>, return |-> FALSE], [say |-> <<"ERROR">>, return |-> TRUE]}
           [] p = "both" -> {[say |-> <<"ERROR">>, return |-> TRUE],
                             [say |-> <<"CONTINUE", "SUCCESS">>, return |-> TRUE],
                             [say |-> <<"CONTINUE", "ERROR">>, return |-> TRUE]}
           [] OTHER -> {[say |-> <<"ERROR">>, return |-> TRUE]}
    ELSE CASE p = "put" -> {[say |-> <<"CONTINUE">>, return |-> FALSE], [say |-> <<"ERROR">>, return |-> TRUE]}
           [] p = "complete" -> {[say |-> <<"SUCCESS">>, return |-> TRUE], [say |-> <<"ERROR">>, return |-> TRUE]}
           [] OTHER -> {[say |-> <<"ERROR">>, return |-> TRUE]}

ServerReceive ==
    /\ server \in {"first", "range"} /\ requests # <<>>
    /\ requests' = Tail(requests)
    /\ \E r \in Replies(server, Head(requests)) :
          /\ pending' = r.say /\ last' = r.return
          /\ answered' = answered \o r.say
    /\ server' = "respond"
    /\ UNCHANGED <<client, once, pump, inHand, out, responder, sink>>

\* Send the next response, or go on when there is none left.
ServerRespond ==
    /\ server = "respond"
    /\ \/ /\ pending # <<>> /\ Len(out) < OutCap
          /\ out' = Append(out, Head(pending)) /\ pending' = Tail(pending)
          /\ UNCHANGED server
       \/ /\ pending = <<>>
          /\ server' = IF last THEN "exited" ELSE "range"
          /\ UNCHANGED <<out, pending>>
    /\ UNCHANGED <<client, once, pumpVars, last, answered, responder, sink>>

\* requests is closed and empty.
ServerEnd ==
    /\ server \in {"first", "range"} /\ requests = <<>> /\ pump = "exited"
    /\ server' = "exited"
    /\ UNCHANGED <<client, once, pumpVars, pending, last, answered, out, responder, sink>>

----------------------------------------------------------------------------
(* The responder                                                           *)

ResponderStop ==
    /\ responder = "select" /\ (ctxDone \/ once = "done")
    /\ responder' = "exited"
    /\ UNCHANGED <<client, once, pumpVars, serverVars, out, sink>>

ResponderNext ==
    /\ responder = "select" /\ out # <<>>
    /\ sink' = Append(sink, Head(out)) /\ out' = Tail(out)
    /\ UNCHANGED <<client, once, pumpVars, serverVars, responder>>

\* Mutation of ResponderComplete: responses still in out are dropped.
ResponderComplete_Early ==
    /\ responder = "select" /\ server = "exited" /\ once # "running"
    /\ responder' = "exited"
    /\ once' = "done"
    /\ sink' = IF once = "done" THEN sink ELSE Append(sink, "COMPLETE")
    /\ UNCHANGED <<client, pumpVars, serverVars, out>>

\* out is closed and empty: complete, which waits for a pump inside Do.
ResponderComplete ==
    /\ responder = "select" /\ out = <<>> /\ server = "exited" /\ once # "running"
    /\ responder' = "exited"
    /\ once' = "done"
    /\ sink' = IF once = "done" THEN sink ELSE Append(sink, "COMPLETE")
    /\ UNCHANGED <<client, pumpVars, serverVars, out>>

----------------------------------------------------------------------------
(* The verdict of cmd/aio_upload_client                                    *)

\* The payloads of uploadOnce for n chunks, and the responses it wants.
Upload(n) == <<"start">> \o [i \in 1 .. n |-> "put"] \o <<"complete">>
Wanted(n) == [i \in 1 .. n |-> "CONTINUE"] \o <<"SUCCESS">>

\* Mutation of uploadOnce: the number of the responses is not compared.
uploadOnce_NoCount(n, responses) ==
    /\ \A i \in DOMAIN responses : responses[i] \notin {"ERROR", "BROKEN"}
    /\ \A i \in 1 .. n : i < Len(responses) => responses[i] = "CONTINUE"

\* uploadOnce returns nil for these responses.
uploadOnce(n, responses) ==
    /\ \A i \in DOMAIN responses : responses[i] \notin {"ERROR", "BROKEN"}
    /\ responses = Wanted(n)

----------------------------------------------------------------------------

Pump == PumpStop \/ PumpFinish \/ PumpReceive \/ PumpEnd \/ PumpSend
Server == ServerReceive \/ ServerRespond \/ ServerEnd
Responder == ResponderStop \/ ResponderNext \/ ResponderComplete

Next == (\E p \in Payloads : Send(p)) \/ EndStream \/ CancelContext
           \/ Pump \/ Server \/ Responder

\* The goroutines run; the client does as it likes.
Fairness == WF_vars(Pump) /\ WF_vars(Server) /\ WF_vars(Responder)

Spec == Init /\ [][Next]_vars /\ Fairness

----------------------------------------------------------------------------
(* Properties                                                              *)

\* The server's answers among the first n entries of the sink, by position.
Answers(n) == {i \in 1 .. n : sink[i] \notin {"BROKEN", "COMPLETE"}}
Delivered == Cardinality(Answers(Len(sink)))

(* The client sees the server's answers in order, none of them twice and   *)
(* none skipped, whenever the pump reports an error of its own; the stream *)
(* is completed at most once, although the pump (on an error) and the      *)
(* responder (when out is closed) both try; and unless the pump reported   *)
(* an error, it is completed only after the last answer.                   *)
AnswersInOrder ==
    /\ \A i \in Answers(Len(sink)) :
          LET k == Cardinality(Answers(i)) IN k <= Len(answered) /\ sink[i] = answered[k]
    /\ \A i, j \in DOMAIN sink : sink[i] = "COMPLETE" /\ sink[j] = "COMPLETE" => i = j
    /\ "COMPLETE" \in Range(sink) /\ Delivered # Len(answered) => "BROKEN" \in Range(sink)

(* The client's verdict is the server's: when the response stream of an    *)
(* upload is complete, however the channel was shut down, uploadOnce       *)
(* returns nil only if the server stored the object; and if it did, nil    *)
(* unless the pump met an error of its own, which the client receives as   *)
(* one more ERROR.                                                         *)
VerdictIsServers ==
    \A n \in 1 .. MaxPayloads : \A c \in DOMAIN sink :
       sent = Upload(n) /\ sink[c] = "COMPLETE" =>
          LET verdict == uploadOnce(n, SubSeq(sink, 1, c - 1))
              stored  == "SUCCESS" \in Range(answered)
          IN  (verdict => stored) /\ (stored /\ "BROKEN" \notin Range(sink) => verdict)

(* When the client ends its stream in the regular way everything stops:    *)
(* all three goroutines return and the response stream is completed,       *)
(* unless the context is cancelled or a payload did not decode.  And once  *)
(* the server has given a terminal answer the others return even when the  *)
(* client sends on and never ends: the pump, blocked on requests, is       *)
(* released by finished.                                                   *)
ChannelFinishes ==
    /\ stream = "ended" ~> \/ ctxDone \/ "BROKEN" \in Range(sink)
                           \/ /\ pump = "exited" /\ server = "exited"
                              /\ responder = "exited" /\ once = "done"
    /\ server = "exited" ~> pump = "exited" /\ responder = "exited"

(* After a cancel or an error the only thing that can keep the server's    *)
(* goroutine is a full out channel that nobody reads any more.             *)
OnlyFullOutBlocks ==
    (ctxDone \/ once = "done") ~>
       \/ server = "exited"
       \/ server = "respond" /\ Len(out) = OutCap /\ responder = "exited"

==============================================================================

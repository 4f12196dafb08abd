---------------------------- MODULE RemoteClient ----------------------------
(***************************************************************************)
(* The websocket client of codex-rs/app-server-client/src/remote.rs: one   *)
(* worker task that owns the stream, a bounded command channel from the    *)
(* callers to the worker and a bounded event channel from the worker to    *)
(* the one consumer.                                                       *)
(*                                                                         *)
(* The worker either takes a command or a message from the stream.  The    *)
(* messages are chosen by the server, which is the environment here: it    *)
(* may answer any request that was written to it, emit an event of any     *)
(* class, ask something the client does not know, or end the stream.  Any  *)
(* write may fail.  A lossless event BLOCKS the worker until the consumer  *)
(* makes room; any other event is dropped when there is none.              *)
(***************************************************************************)
EXTENDS Integers, Sequences

CONSTANTS Calls,        \* the calls made on the client and on its handles
          RequestIds,   \* JSON-RPC ids of client requests
          Capacity,     \* channel_capacity: the size of both channels
          MaxEvents,    \* bound: the events the server emits
          None

ASSUME CapacityAssumption == Capacity \in Nat \ {0}
ASSUME MaxEventsAssumption == MaxEvents \in Nat

Kinds == {"lossless", "bestEffort", "request"}
LosslessKinds == {"lossless"}

\* What a call asks for: a request, through the client or through a cloned
\* handle; a notification; the answer to a server request; a shutdown.
RequestKinds == {"request", "handleRequest"}
CallKinds == RequestKinds \cup {"notify", "answer", "shutdown"}
Outcomes == {"ok", "ioError", "duplicate", "closed", "timedOut"}
CallStates == {"idle", "sending", "waiting"} \cup Outcomes

VARIABLES
  worker,     \* where the worker is: "handshake" (not spawned yet), "select",
              \* "flush" (sending Lagged), "send" (a lossless event), "exited",
              \* or "refused" (connect failed, there never was a client)
  held,       \* the event being sent in "flush" and "send"
  skipped,    \* skipped_events
  early,      \* pending_events: what arrived during the handshake
  eventQ,     \* the event channel
  open,       \* the client, and with it event_rx, is alive
  commands,   \* the command channel
  pending,    \* pending_requests
  call,       \* what each call asks for and how far it is
  sent,       \* history: the classes of the events the server emitted
  consumed,   \* history: the position in that stream the consumer has reached
  got,        \* history: the positions of the server requests it was handed
  answered    \* history: how often each server request was answered

clientVars == <<worker, held, skipped, early, eventQ, open, commands, pending, call>>
vars == <<clientVars, sent, consumed, got, answered>>

\* "at" is the position of an element in the server's stream: the position
\* of the event itself, or of the last of the events that "lagged" stands for.
Event(kind, at) == [kind |-> kind, at |-> at, width |-> 1]
Lagged(n, at) == [kind |-> "lagged", at |-> at, width |-> n]
Disconnected(at) == [kind |-> "disconnected", at |-> at, width |-> 0]

Elements == [kind : Kinds \cup {"lagged", "disconnected"}, at : Nat, width : Nat]

ASSUME NoneAssumption == None \notin Calls \cup Elements

NoCall == [state |-> "idle", kind |-> "notify", arg |-> None]

Init == /\ worker = "handshake"
        /\ held = None
        /\ skipped = 0
        /\ early = <<>>
        /\ eventQ = <<>>
        /\ open = TRUE
        /\ commands = <<>>
        /\ pending = [id \in RequestIds |-> None]
        /\ call = [c \in Calls |-> NoCall]
        /\ sent = <<>>
        /\ consumed = 0
        /\ got = {}
        /\ answered = [i \in 1..MaxEvents |-> 0]

-----------------------------------------------------------------------------
\* The callers

Settle(cs, outcome) ==
  [c \in Calls |-> IF c \in cs /\ call[c].state = "waiting"
                   THEN [call[c] EXCEPT !.state = outcome]
                   ELSE call[c]]

InFlight(c) == call[c].state \in {"sending", "waiting"}

\* A call borrows the client until it settles; a handle's request does not.
\* Receiving an event, and giving the client up, need it exclusively.
Exclusive == /\ open
             /\ worker # "handshake"
             /\ \A c \in Calls : InFlight(c) => call[c].kind = "handleRequest"

Issue(c, kind, arg) ==
  /\ worker \notin {"handshake", "refused"}
  /\ call[c].state = "idle"
  /\ call' = [call EXCEPT ![c] = [state |-> "sending", kind |-> kind, arg |-> arg]]

Call(c) ==
  /\ open
  /\ \/ Issue(c, "notify", None)
     \/ \E id \in RequestIds : Issue(c, "request", id)
  /\ UNCHANGED <<worker, held, skipped, early, eventQ, open, commands, pending, sent, consumed, got, answered>>

\* A handle outlives the client it was cloned from.
HandleRequest(c) ==
  /\ \E id \in RequestIds : Issue(c, "handleRequest", id)
  /\ UNCHANGED <<worker, held, skipped, early, eventQ, open, commands, pending, sent, consumed, got, answered>>

\* The consumer answers a request it was handed; again only if that failed.
Answer(c) ==
  /\ open
  /\ \E pos \in got :
       /\ \A d \in Calls : call[d].kind = "answer" /\ call[d].arg = pos
                           => call[d].state \in {"ioError", "closed"}
       /\ Issue(c, "answer", pos)
  /\ UNCHANGED <<worker, held, skipped, early, eventQ, open, commands, pending, sent, consumed, got, answered>>

\* The client is gone, and with it whatever it had not handed over.
GiveUp == /\ Exclusive
          /\ open' = FALSE
          /\ early' = <<>>
          /\ eventQ' = <<>>

Shutdown(c) ==
  /\ GiveUp
  /\ Issue(c, "shutdown", None)
  /\ UNCHANGED <<worker, held, skipped, commands, pending, sent, consumed, got, answered>>

\* The owner drops the client without shutting it down.
DropClient ==
  /\ GiveUp
  /\ UNCHANGED <<worker, held, skipped, commands, pending, call, sent, consumed, got, answered>>

SendCommand(c) ==
  /\ call[c].state = "sending"
  /\ worker # "exited"
  /\ Len(commands) < Capacity
  /\ commands' = Append(commands, c)
  /\ call' = [call EXCEPT ![c].state = "waiting"]
  /\ UNCHANGED <<worker, held, skipped, early, eventQ, open, pending, sent, consumed, got, answered>>

\* command_tx.send fails once the worker has dropped its receiver.
SendCommandFails(c) ==
  /\ call[c].state = "sending"
  /\ worker = "exited"
  /\ call' = [call EXCEPT ![c].state = "closed"]
  /\ UNCHANGED <<worker, held, skipped, early, eventQ, open, commands, pending, sent, consumed, got, answered>>

\* Wrong on purpose: no timeout.
RequestWaitsForever(c) == FALSE /\ UNCHANGED vars

\* REQUEST_TIMEOUT covers the wait for the response, of requests only.
RequestTimesOut(c) ==
  /\ call[c].state = "waiting"
  /\ call[c].kind \in RequestKinds
  /\ call' = [call EXCEPT ![c].state = "timedOut"]
  /\ UNCHANGED <<worker, held, skipped, early, eventQ, open, commands, pending, sent, consumed, got, answered>>

TakeEvent(e) == /\ consumed' = e.at
                /\ got' = IF e.kind = "request" THEN got \cup {e.at} ELSE got

\* Wrong on purpose: the channel comes before what the handshake kept.
NextEventChannelFirst ==
  /\ Exclusive
  /\ \/ /\ eventQ # <<>>
        /\ TakeEvent(Head(eventQ))
        /\ eventQ' = Tail(eventQ)
        /\ UNCHANGED early
     \/ /\ eventQ = <<>>
        /\ early # <<>>
        /\ TakeEvent(Head(early))
        /\ early' = Tail(early)
        /\ UNCHANGED eventQ
  /\ UNCHANGED <<worker, held, skipped, open, commands, pending, call, sent, answered>>

\* next_event: what arrived during the handshake comes first.
NextEvent ==
  /\ Exclusive
  /\ \/ /\ early # <<>>
        /\ TakeEvent(Head(early))
        /\ early' = Tail(early)
        /\ UNCHANGED eventQ
     \/ /\ early = <<>>
        /\ eventQ # <<>>
        /\ TakeEvent(Head(eventQ))
        /\ eventQ' = Tail(eventQ)
        /\ UNCHANGED early
  /\ UNCHANGED <<worker, held, skipped, open, commands, pending, call, sent, answered>>

-----------------------------------------------------------------------------
\* The handshake: events are kept, without a bound, for the first next_event.

HandshakeEvent ==
  /\ worker = "handshake"
  /\ Len(sent) < MaxEvents
  /\ \E kind \in Kinds :
       /\ sent' = Append(sent, kind)
       /\ early' = Append(early, Event(kind, Len(sent) + 1))
  /\ UNCHANGED <<worker, held, skipped, eventQ, open, commands, pending, call, consumed, got, answered>>

HandshakeDone ==
  /\ worker = "handshake"
  /\ worker' = "select"
  /\ UNCHANGED <<held, skipped, early, eventQ, open, commands, pending, call, sent, consumed, got, answered>>

\* connect returns an error: there is no client.
HandshakeFails ==
  /\ worker = "handshake"
  /\ worker' = "refused"
  /\ open' = FALSE
  /\ early' = <<>>
  /\ UNCHANGED <<held, skipped, eventQ, commands, pending, call, sent, consumed, got, answered>>

-----------------------------------------------------------------------------
\* The worker

\* Wrong on purpose: the callers in pending_requests are not told.
ExitForgetsPending(settled) ==
  /\ worker' = "exited"
  /\ held' = None
  /\ commands' = <<>>
  /\ pending' = [id \in RequestIds |-> None]
  /\ call' = settled

\* Leaving the loop drops the command receiver, and fails whoever still waits.
Exit(settled) ==
  /\ worker' = "exited"
  /\ held' = None
  /\ commands' = <<>>
  /\ pending' = [id \in RequestIds |-> None]
  /\ call' = [c \in Calls |-> IF settled[c].state = "waiting"
                              THEN [settled[c] EXCEPT !.state = "closed"]
                              ELSE settled[c]]

\* Starts the delivery of an event that blocks until there is room.
Block(e) ==
  /\ held' = e
  /\ worker' = IF skipped > 0 THEN "flush" ELSE "send"

\* Every path that gives up the stream tells the consumer first.
Disconnect(settled, left) ==
  IF open
  THEN /\ Block(Disconnected(Len(sent)))
       /\ call' = settled
       /\ commands' = left
       /\ UNCHANGED pending
  ELSE Exit(settled)

Front == Head(commands)

TakeRequest ==
  /\ worker = "select"
  /\ commands # <<>>
  /\ call[Front].kind \in RequestKinds
  /\ LET id == call[Front].arg
     IN \/ /\ pending[id] # None
           /\ call' = Settle({Front}, "duplicate")
           /\ commands' = Tail(commands)
           /\ UNCHANGED <<worker, held, pending>>
        \/ /\ pending[id] = None
           /\ commands' = Tail(commands)
           /\ pending' = [pending EXCEPT ![id] = Front]
           /\ UNCHANGED <<worker, held, call>>
        \/ /\ pending[id] = None   \* the write fails
           /\ Disconnect(Settle({Front}, "ioError"), Tail(commands))
  /\ UNCHANGED <<skipped, early, eventQ, open, sent, consumed, got, answered>>

\* Notify, ResolveServerRequest and RejectServerRequest: the caller gets the
\* result of the write, and the worker goes on even when the write failed.
TakeNotifyOrAnswer ==
  /\ worker = "select"
  /\ commands # <<>>
  /\ call[Front].kind \in {"notify", "answer"}
  /\ commands' = Tail(commands)
  /\ \E written \in BOOLEAN :
       /\ call' = Settle({Front}, IF written THEN "ok" ELSE "ioError")
       /\ answered' = IF written /\ call[Front].kind = "answer"
                      THEN [answered EXCEPT ![call[Front].arg] = @ + 1]
                      ELSE answered
  /\ UNCHANGED <<worker, held, skipped, early, eventQ, open, pending, sent, consumed, got>>

TakeShutdown ==
  /\ worker = "select"
  /\ commands # <<>>
  /\ call[Front].kind = "shutdown"
  /\ \E outcome \in {"ok", "ioError"} : Exit(Settle({Front}, outcome))
  /\ UNCHANGED <<skipped, early, eventQ, open, sent, consumed, got, answered>>

\* The last sender is gone: command_rx.recv() yields None.
CommandsClosed ==
  /\ worker = "select"
  /\ ~open
  /\ commands = <<>>
  /\ \A c \in Calls : call[c].state # "sending"
  /\ Exit(call)
  /\ UNCHANGED <<skipped, early, eventQ, open, sent, consumed, got, answered>>

ReceiveResponse(id) ==
  /\ worker = "select"
  /\ pending[id] # None
  /\ call' = Settle({pending[id]}, "ok")
  /\ pending' = [pending EXCEPT ![id] = None]
  /\ UNCHANGED <<worker, held, skipped, early, eventQ, open, commands, sent, consumed, got, answered>>

\* deliver_event, for the others: the marker for what was dropped goes first,
\* and whatever finds no room is counted as dropped.
Room(q) == Len(q) < Capacity

WithMarker == IF skipped > 0 /\ Room(eventQ)
              THEN Append(eventQ, Lagged(skipped, Len(sent)))
              ELSE eventQ

\* Wrong on purpose: forgets the count although no marker went out.
StillSkippedForgotten == 0

StillSkipped == IF Room(eventQ) THEN 0 ELSE skipped

ReceiveBestEffort(kind) ==
  /\ worker = "select"
  /\ open
  /\ Len(sent) < MaxEvents
  /\ Room(WithMarker)
  /\ sent' = Append(sent, kind)
  /\ eventQ' = Append(WithMarker, Event(kind, Len(sent) + 1))
  /\ skipped' = 0
  /\ UNCHANGED <<worker, held, early, open, commands, pending, call, consumed, got, answered>>

\* Wrong on purpose: no rejection for a dropped server request.
DropSilently(kind) ==
  /\ worker = "select"
  /\ open
  /\ Len(sent) < MaxEvents
  /\ ~Room(WithMarker)
  /\ sent' = Append(sent, kind)
  /\ eventQ' = WithMarker
  /\ skipped' = StillSkipped + 1
  /\ UNCHANGED <<worker, held, early, open, commands, pending, call, consumed, got, answered>>

DropBestEffort(kind) ==
  /\ worker = "select"
  /\ open
  /\ Len(sent) < MaxEvents
  /\ ~Room(WithMarker)
  /\ sent' = Append(sent, kind)
  /\ eventQ' = WithMarker
  /\ skipped' = StillSkipped + 1
  /\ \/ /\ answered' = IF kind = "request"
                       THEN [answered EXCEPT ![Len(sent) + 1] = @ + 1]
                       ELSE answered
        /\ UNCHANGED <<worker, held, commands, pending, call>>
     \/ /\ kind = "request"   \* the rejection cannot be written
        /\ Exit(call)
        /\ UNCHANGED answered
  /\ UNCHANGED <<early, open, consumed, got>>

\* Wrong on purpose: try_send for the lossless tier too.
ReceiveLosslessTrySend == ReceiveBestEffort("lossless") \/ DropBestEffort("lossless")

\* deliver_event, for the lossless tier.
ReceiveLossless ==
  /\ worker = "select"
  /\ open
  /\ Len(sent) < MaxEvents
  /\ sent' = Append(sent, "lossless")
  /\ Block(Event("lossless", Len(sent) + 1))
  /\ UNCHANGED <<skipped, early, eventQ, open, commands, pending, call, consumed, got, answered>>

\* An event of any class finds the consumer gone: deliver_event fails.
ReceiveAfterClose ==
  /\ worker = "select"
  /\ ~open
  /\ Len(sent) < MaxEvents
  /\ \E kind \in Kinds : sent' = Append(sent, kind)
  /\ Exit(call)
  /\ UNCHANGED <<skipped, early, eventQ, open, consumed, got, answered>>

\* The stream closes or fails, carries something that is not JSON-RPC, or a
\* request of an unknown method whose rejection cannot be written.
StreamEnds ==
  /\ worker = "select"
  /\ Disconnect(call, commands)
  /\ UNCHANGED <<skipped, early, eventQ, open, sent, consumed, got, answered>>

\* Wrong on purpose: waits for room for the marker and its event at once.
FlushMarkerTogether ==
  /\ worker = "flush"
  /\ open
  /\ Len(eventQ) + 2 <= Capacity
  /\ eventQ' = eventQ \o <<Lagged(skipped, held.at - held.width), held>>
  /\ skipped' = 0
  /\ IF held.kind = "disconnected"
     THEN Exit(call)
     ELSE worker' = "select" /\ held' = None /\ UNCHANGED <<commands, pending, call>>
  /\ UNCHANGED <<early, open, sent, consumed, got, answered>>

FlushMarker ==
  /\ worker = "flush"
  /\ open
  /\ Room(eventQ)
  /\ eventQ' = Append(eventQ, Lagged(skipped, held.at - held.width))
  /\ skipped' = 0
  /\ worker' = "send"
  /\ UNCHANGED <<held, early, open, commands, pending, call, sent, consumed, got, answered>>

SendHeld ==
  /\ worker = "send"
  /\ open
  /\ Room(eventQ)
  /\ eventQ' = Append(eventQ, held)
  /\ IF held.kind = "disconnected"
     THEN Exit(call)
     ELSE /\ worker' = "select"
          /\ held' = None
          /\ UNCHANGED <<commands, pending, call>>
  /\ UNCHANGED <<skipped, early, open, sent, consumed, got, answered>>

\* A blocked send fails as soon as the consumer drops its receiver.
SendFails ==
  /\ worker \in {"flush", "send"}
  /\ ~open
  /\ Exit(call)
  /\ UNCHANGED <<skipped, early, eventQ, open, sent, consumed, got, answered>>

\* shutdown() gives up waiting and aborts the task.
AbortWorker(c) ==
  /\ call[c].kind = "shutdown"
  /\ call[c].state \in {"waiting"} \cup Outcomes
  /\ ~open
  /\ worker # "exited"
  /\ Exit(call)
  /\ UNCHANGED <<skipped, early, eventQ, open, sent, consumed, got, answered>>

-----------------------------------------------------------------------------
Handshake == HandshakeEvent \/ HandshakeDone \/ HandshakeFails

CallerStep(c) == \/ Call(c) \/ HandleRequest(c) \/ Answer(c) \/ Shutdown(c)
                 \/ SendCommand(c) \/ SendCommandFails(c)
                 \/ RequestTimesOut(c) \/ AbortWorker(c)

TakeCommand == TakeRequest \/ TakeNotifyOrAnswer \/ TakeShutdown \/ CommandsClosed

Deliver == FlushMarker \/ SendHeld \/ SendFails

Receive == \/ \E id \in RequestIds : ReceiveResponse(id)
           \/ ReceiveLossless
           \/ \E kind \in Kinds \ LosslessKinds : ReceiveBestEffort(kind)
           \/ \E kind \in Kinds \ LosslessKinds : DropBestEffort(kind)
           \/ ReceiveAfterClose
           \/ StreamEnds

Next == \/ Handshake
        \/ \E c \in Calls : CallerStep(c)
        \/ TakeCommand
        \/ Receive
        \/ Deliver
        \/ NextEvent
        \/ DropClient

Spec == Init /\ [][Next]_vars

-----------------------------------------------------------------------------
(* Safety *)

States == {"handshake", "refused", "select", "flush", "send", "exited"}
CallRecords == [state : CallStates, kind : CallKinds, arg : RequestIds \cup Nat \cup {None}]

TypeOK == /\ worker \in States
          /\ held \in Elements \cup {None}
          /\ skipped \in Nat
          /\ early \in Seq(Elements)
          /\ eventQ \in Seq(Elements)
          /\ open \in BOOLEAN
          /\ commands \in Seq(Calls)
          /\ pending \in [RequestIds -> Calls \cup {None}]
          /\ call \in [Calls -> CallRecords]
          /\ sent \in Seq(Kinds)
          /\ consumed \in Nat
          /\ got \subseteq Nat
          /\ answered \in [1..MaxEvents -> Nat]

\* The worker holds an event exactly while it is blocked on it.
Blocked == worker \in {"flush", "send"}

HeldOK == IF Blocked
          THEN \/ /\ sent # <<>>
                  /\ sent[Len(sent)] = "lossless"
                  /\ held = Event("lossless", Len(sent))
               \/ held = Disconnected(Len(sent))
          ELSE held = None

\* Nothing is skipped before the worker runs, nor between a marker and its event.
PhaseOK == /\ worker = "handshake" => eventQ = <<>> /\ skipped = 0
           /\ worker = "send" => skipped = 0

\* The elements of q cover the positions after "from" up to "to", each once.
Gapless(q, from, to) ==
  /\ q = <<>> => from = to
  /\ q # <<>> => q[1].at = from + q[1].width /\ q[Len(q)].at = to
  /\ \A i \in 1..(Len(q) - 1) : q[i + 1].at = q[i].at + q[i + 1].width

EndOfEarly == IF early = <<>> THEN consumed ELSE early[Len(early)].at
InHand == IF held = None THEN 0 ELSE held.width

(***************************************************************************)
(* Nothing is lost silently: what the consumer has passed, what is queued  *)
(* for it (with the counts its Lagged markers carry), skipped_events and   *)
(* the event the worker holds always add up to the server's stream, in the *)
(* server's order.                                                         *)
(***************************************************************************)
EveryEventAccountedFor ==
  open => /\ Gapless(early, consumed, EndOfEarly)
          /\ Gapless(eventQ, EndOfEarly, Len(sent) - skipped - InHand)

Covers(e, i) == e.at - e.width < i /\ i <= e.at

\* What an element says of the stream it was cut from is true.
Faithful(e, stream) ==
  /\ e.at <= Len(stream)
  /\ e.kind = "disconnected" => e.width = 0
  /\ e.kind \in Kinds => e.width = 1
  /\ \A i \in 1..Len(stream) :
       Covers(e, i) => IF e.kind = "lagged"
                       THEN stream[i] \notin LosslessKinds
                       ELSE stream[i] = e.kind

(***************************************************************************)
(* A marker never stands for an event of the lossless tier, and neither do *)
(* the events still to be marked: the transcript survives backpressure.    *)
(***************************************************************************)
LosslessSurvive ==
  open => /\ \A i \in 1..Len(early) : Faithful(early[i], sent)
          /\ \A i \in 1..Len(eventQ) : Faithful(eventQ[i], sent)
          /\ held # None => Faithful(held, sent)
          /\ Faithful(Lagged(skipped, Len(sent) - InHand), sent)

Queued(i) == \/ \E k \in 1..Len(early) : early[k].kind = "request" /\ early[k].at = i
             \/ \E k \in 1..Len(eventQ) : eventQ[k].kind = "request" /\ eventQ[k].at = i

(***************************************************************************)
(* The server never waits for an answer nobody can give: each of its       *)
(* requests is queued, was handed to the consumer, or was rejected because *)
(* the queue was full; only one of these, and it is answered at most once. *)
(***************************************************************************)
RequestHandedOverOrRejected ==
  \A i \in 1..Len(sent) :
    sent[i] = "request" =>
      /\ answered[i] <= 1
      /\ Queued(i) => i \notin got /\ answered[i] = 0
      /\ open /\ worker # "exited" => Queued(i) \/ i \in got \/ answered[i] = 1

(***************************************************************************)
(* A caller that waits is one the worker still knows: its command is       *)
(* queued, or its request is in pending_requests; none waits for a worker  *)
(* that has left its loop.                                                 *)
(***************************************************************************)
NoCallForgotten ==
  \A c \in Calls :
    call[c].state = "waiting" =>
      /\ worker # "exited"
      /\ \/ \E k \in 1..Len(commands) : commands[k] = c
         \/ call[c].kind \in RequestKinds /\ pending[call[c].arg] = c

\* The consumer sees the stream EventStream describes, until it gives it up.
Stream == INSTANCE EventStream
StreamRefined == Stream!Init /\ [][Stream!Next]_<<sent, consumed>>

-----------------------------------------------------------------------------
(* Liveness *)

(***************************************************************************)
(* The waits without a timeout: for the acknowledgement of notify and of   *)
(* resolve/reject_server_request, and of any call for room in the command  *)
(* channel.  The caller borrows the client meanwhile, so nobody can make   *)
(* room for the event the worker is blocked on, so the worker never gets   *)
(* to the command.                                                         *)
(***************************************************************************)
Untimed(c) == \/ call[c].kind \in {"notify", "answer"} /\ InFlight(c)
              \/ /\ call[c].kind = "request"
                 /\ call[c].state = "sending"
                 /\ Len(commands) = Capacity

Wedged == Blocked /\ ~Room(eventQ) /\ \E c \in Calls : Untimed(c)

(***************************************************************************)
(* The worker is a task of a running tokio runtime, select! polls both     *)
(* branches, REQUEST_TIMEOUT and SHUTDOWN_TIMEOUT elapse.                  *)
(***************************************************************************)
WorkerFairness == /\ WF_vars(TakeCommand)
                  /\ WF_vars(Deliver)
                  /\ \A c \in Calls : /\ WF_vars(SendCommand(c))
                                       /\ WF_vars(SendCommandFails(c))
                                       /\ WF_vars(RequestTimesOut(c))
                                       /\ WF_vars(AbortWorker(c))

FairSpec == Spec /\ WorkerFairness /\ WF_vars(NextEvent)

(***************************************************************************)
(* With a consumer that keeps asking for events, every call comes to an    *)
(* end, except in the wedge above.                                         *)
(***************************************************************************)
CallsSettle == \A c \in Calls :
                 call[c].state = "sending" ~> call[c].state \in Outcomes \/ Wedged

(***************************************************************************)
(* With a consumer that keeps asking for events, the worker does not stay  *)
(* blocked on a lossless event, except in the wedge above.                 *)
(***************************************************************************)
BackpressureEnds == Blocked ~> ~Blocked \/ Wedged
=============================================================================

------------------------- MODULE RemoteClient_proof -------------------------
(***************************************************************************)
(* What holds of RemoteClient for any calls, ids, capacity and number of   *)
(* events.                                                                 *)
(***************************************************************************)
EXTENDS RemoteClient, SequenceTheorems, TLAPS

LEMMA EventType == \A kind \in Kinds, at \in Nat : Event(kind, at) \in Elements
BY DEF Event, Elements, Kinds

LEMMA LaggedType == \A n, at \in Nat : Lagged(n, at) \in Elements
BY DEF Lagged, Elements, Kinds

LEMMA DisconnectedType == \A at \in Nat : Disconnected(at) \in Elements
BY DEF Disconnected, Elements, Kinds

LEMMA SettleType ==
  ASSUME call \in [Calls -> CallRecords], NEW cs, NEW outcome \in Outcomes
  PROVE  Settle(cs, outcome) \in [Calls -> CallRecords]
BY DEF Settle, CallRecords, CallStates

LEMMA ExitType ==
  ASSUME NEW settled \in [Calls -> CallRecords], Exit(settled)
  PROVE  /\ worker' \in States
         /\ held' \in Elements \cup {None}
         /\ commands' \in Seq(Calls)
         /\ pending' \in [RequestIds -> Calls \cup {None}]
         /\ call' \in [Calls -> CallRecords]
BY DEF Exit, States, CallRecords, CallStates, Outcomes

LEMMA IssueType ==
  ASSUME call \in [Calls -> CallRecords], NEW c \in Calls, NEW kind \in CallKinds,
         NEW arg \in RequestIds \cup Nat \cup {None}, Issue(c, kind, arg)
  PROVE  call' \in [Calls -> CallRecords]
BY DEF Issue, CallRecords, CallStates

LEMMA GiveUpType ==
  ASSUME GiveUp
  PROVE  open' \in BOOLEAN /\ early' \in Seq(Elements) /\ eventQ' \in Seq(Elements)
<1>1. open' \in BOOLEAN
  BY DEF GiveUp
<1>2. early' \in Seq(Elements) /\ eventQ' \in Seq(Elements)
  BY DEF GiveUp
<1> QED BY <1>1, <1>2

LEMMA TakeEventType ==
  ASSUME got \subseteq Nat, NEW e \in Elements, TakeEvent(e)
  PROVE  consumed' \in Nat /\ got' \subseteq Nat
BY DEF TakeEvent, Elements

LEMMA BlockType ==
  ASSUME NEW e \in Elements, Block(e)
  PROVE  worker' \in States /\ held' \in Elements \cup {None}
BY DEF Block, States

LEMMA DisconnectType ==
  ASSUME TypeOK, NEW settled \in [Calls -> CallRecords], NEW left \in Seq(Calls),
         Disconnect(settled, left)
  PROVE  /\ worker' \in States
         /\ held' \in Elements \cup {None}
         /\ commands' \in Seq(Calls)
         /\ pending' \in [RequestIds -> Calls \cup {None}]
         /\ call' \in [Calls -> CallRecords]
<1>1. CASE open
  <2>1. Disconnected(Len(sent)) \in Elements
    BY DisconnectedType DEF TypeOK
  <2> QED BY <1>1, <2>1, BlockType DEF Disconnect, TypeOK
<1>2. CASE ~open
  BY <1>2, ExitType DEF Disconnect
<1> QED BY <1>1, <1>2

LEMMA WithMarkerType ==
  ASSUME TypeOK
  PROVE  WithMarker \in Seq(Elements) /\ StillSkipped \in Nat
BY LaggedType DEF TypeOK, WithMarker, StillSkipped

(***************************************************************************)
(* Type correctness of the client's state.                                 *)
(***************************************************************************)
LEMMA TypeInit == Init => TypeOK
BY DEF Init, TypeOK, States, NoCall, CallRecords, CallStates, CallKinds, RequestKinds

LEMMA TypeHandshake == TypeOK /\ Handshake => TypeOK'
<1> SUFFICES ASSUME TypeOK, Handshake PROVE TypeOK'
  OBVIOUS
<1> USE DEF TypeOK, States
<1>1. CASE HandshakeEvent
  BY <1>1, EventType DEF HandshakeEvent
<1>2. CASE HandshakeDone
  BY <1>2 DEF HandshakeDone
<1>3. CASE HandshakeFails
  <2>1. open' \in BOOLEAN
    BY <1>3 DEF HandshakeFails
  <2> QED BY <1>3, <2>1 DEF HandshakeFails
<1> QED BY <1>1, <1>2, <1>3 DEF Handshake

LEMMA TypeCaller == ASSUME TypeOK, NEW c \in Calls, CallerStep(c) PROVE TypeOK'
<1> USE DEF TypeOK
<1>1. CASE Call(c)
  BY <1>1, IssueType DEF Call, CallKinds, RequestKinds
<1>2. CASE HandleRequest(c)
  BY <1>2, IssueType DEF HandleRequest, CallKinds, RequestKinds
<1>3. CASE Answer(c)
  BY <1>3, IssueType DEF Answer, CallKinds
<1>4. CASE Shutdown(c)
  BY <1>4, IssueType, GiveUpType DEF Shutdown, CallKinds
<1>5. CASE SendCommand(c)
  <2>1. call' \in [Calls -> CallRecords]
    BY <1>5 DEF SendCommand, CallRecords, CallStates
  <2>2. commands' \in Seq(Calls)
    BY <1>5 DEF SendCommand
  <2> QED BY <1>5, <2>1, <2>2 DEF SendCommand
<1>6. CASE SendCommandFails(c)
  BY <1>6 DEF SendCommandFails, CallRecords, CallStates, Outcomes
<1>7. CASE RequestTimesOut(c)
  BY <1>7 DEF RequestTimesOut, CallRecords, CallStates, Outcomes
<1>8. CASE AbortWorker(c)
  BY <1>8, ExitType DEF AbortWorker
<1> QED BY <1>1, <1>2, <1>3, <1>4, <1>5, <1>6, <1>7, <1>8 DEF CallerStep

LEMMA TypeTakeCommand == TypeOK /\ TakeCommand => TypeOK'
<1> SUFFICES ASSUME TypeOK, TakeCommand PROVE TypeOK'
  OBVIOUS
<1>0. ASSUME commands # <<>>
      PROVE  Front \in Calls /\ Tail(commands) \in Seq(Calls)
  BY <1>0 DEF TypeOK, Front
<1>1. CASE TakeRequest
  <2>1. commands # <<>> /\ Front \in Calls /\ Tail(commands) \in Seq(Calls)
    BY <1>0, <1>1 DEF TakeRequest
  <2>2. /\ Settle({Front}, "duplicate") \in [Calls -> CallRecords]
        /\ Settle({Front}, "ioError") \in [Calls -> CallRecords]
    BY SettleType DEF TypeOK, Outcomes
  <2> DEFINE id == call[Front].arg
  <2>3. CASE pending[id] # None /\ call' = Settle({Front}, "duplicate")
             /\ commands' = Tail(commands) /\ UNCHANGED <<worker, held, pending>>
    BY <1>1, <2>1, <2>2, <2>3 DEF TakeRequest, TypeOK
  <2>4. CASE commands' = Tail(commands) /\ pending' = [pending EXCEPT ![id] = Front]
             /\ UNCHANGED <<worker, held, call>>
    BY <1>1, <2>1, <2>4 DEF TakeRequest, TypeOK
  <2>5. CASE Disconnect(Settle({Front}, "ioError"), Tail(commands))
    BY <1>1, <2>1, <2>2, <2>5, DisconnectType DEF TakeRequest, TypeOK
  <2> QED BY <1>1, <2>3, <2>4, <2>5 DEF TakeRequest
<1>2. CASE TakeNotifyOrAnswer
  <2>1. Tail(commands) \in Seq(Calls)
    BY <1>0, <1>2 DEF TakeNotifyOrAnswer
  <2>2. \A outcome \in {"ok", "ioError"} : Settle({Front}, outcome) \in [Calls -> CallRecords]
    BY SettleType DEF TypeOK, Outcomes
  <2>3. answered' \in [1..MaxEvents -> Nat]
    <3>1. PICK written \in BOOLEAN :
            answered' = IF written /\ call[Front].kind = "answer"
                        THEN [answered EXCEPT ![call[Front].arg] = @ + 1]
                        ELSE answered
      BY <1>2 DEF TakeNotifyOrAnswer
    <3>2. answered' = answered
          \/ answered' = [answered EXCEPT ![call[Front].arg] = @ + 1]
      BY <3>1
    <3> QED BY <3>2 DEF TypeOK
  <2> QED BY <1>2, <2>1, <2>2, <2>3 DEF TakeNotifyOrAnswer, TypeOK
<1>3. CASE TakeShutdown
  <2>1. \A outcome \in {"ok", "ioError"} : Settle({Front}, outcome) \in [Calls -> CallRecords]
    BY SettleType DEF TypeOK, Outcomes
  <2> QED BY <1>3, <2>1, ExitType DEF TakeShutdown, TypeOK
<1>4. CASE CommandsClosed
  BY <1>4, ExitType DEF CommandsClosed, TypeOK
<1> QED BY <1>1, <1>2, <1>3, <1>4 DEF TakeCommand

LEMMA TypeReceive == TypeOK /\ Receive => TypeOK'
<1> SUFFICES ASSUME TypeOK, Receive PROVE TypeOK'
  OBVIOUS
<1>0. WithMarker \in Seq(Elements) /\ StillSkipped \in Nat
  BY WithMarkerType
<1>1. ASSUME NEW id \in RequestIds, ReceiveResponse(id) PROVE TypeOK'
  <2>1. Settle({pending[id]}, "ok") \in [Calls -> CallRecords]
    BY SettleType DEF TypeOK, Outcomes
  <2> QED BY <1>1, <2>1 DEF ReceiveResponse, TypeOK
<1>2. CASE ReceiveLossless
  <2>1. Event("lossless", Len(sent) + 1) \in Elements
    BY EventType DEF TypeOK, Kinds
  <2> QED BY <1>2, <2>1, BlockType DEF ReceiveLossless, TypeOK, Kinds
<1>3. ASSUME NEW kind \in Kinds \ LosslessKinds, ReceiveBestEffort(kind) PROVE TypeOK'
  <2>1. Event(kind, Len(sent) + 1) \in Elements
    BY EventType DEF TypeOK
  <2> QED BY <1>0, <1>3, <2>1 DEF ReceiveBestEffort, TypeOK
<1>4. ASSUME NEW kind \in Kinds \ LosslessKinds, DropBestEffort(kind) PROVE TypeOK'
  <2>1. answered' \in [1..MaxEvents -> Nat]
    BY <1>4 DEF DropBestEffort, TypeOK
  <2>2. /\ worker' \in States
        /\ held' \in Elements \cup {None}
        /\ commands' \in Seq(Calls)
        /\ pending' \in [RequestIds -> Calls \cup {None}]
        /\ call' \in [Calls -> CallRecords]
    BY <1>4, ExitType DEF DropBestEffort, TypeOK
  <2> QED BY <1>0, <1>4, <2>1, <2>2 DEF DropBestEffort, TypeOK
<1>5. CASE ReceiveAfterClose
  BY <1>5, ExitType DEF ReceiveAfterClose, TypeOK
<1>6. CASE StreamEnds
  BY <1>6, DisconnectType DEF StreamEnds, TypeOK
<1> QED BY <1>1, <1>2, <1>3, <1>4, <1>5, <1>6 DEF Receive

\* What is held has a position at least its width, so a marker before it has one.
LEMMA HeldType ==
  ASSUME TypeOK, HeldOK, Blocked
  PROVE  held \in Elements /\ held.at - held.width \in Nat
<1>1. Len(sent) \in Nat /\ (sent # <<>> => Len(sent) - 1 \in Nat)
  BY DEF TypeOK
<1>2. CASE sent # <<>> /\ held = Event("lossless", Len(sent))
  BY <1>1, <1>2, EventType DEF Event, Kinds
<1>3. CASE held = Disconnected(Len(sent))
  BY <1>1, <1>3, DisconnectedType DEF Disconnected
<1> QED BY <1>2, <1>3 DEF HeldOK

LEMMA TypeDeliver == TypeOK /\ HeldOK /\ Deliver => TypeOK'
<1> SUFFICES ASSUME TypeOK, HeldOK, Deliver PROVE TypeOK'
  OBVIOUS
<1>1. CASE FlushMarker
  <2>1. Lagged(skipped, held.at - held.width) \in Elements
    BY <1>1, HeldType, LaggedType DEF FlushMarker, Blocked, TypeOK
  <2> QED BY <1>1, <2>1 DEF FlushMarker, TypeOK, States
<1>2. CASE SendHeld
  <2>1. held \in Elements
    BY <1>2, HeldType DEF SendHeld, Blocked
  <2> QED BY <1>2, <2>1, ExitType DEF SendHeld, TypeOK, States
<1>3. CASE SendFails
  BY <1>3, ExitType DEF SendFails, TypeOK
<1> QED BY <1>1, <1>2, <1>3 DEF Deliver

LEMMA TypeConsumer == TypeOK /\ (NextEvent \/ DropClient) => TypeOK'
<1> SUFFICES ASSUME TypeOK, NextEvent \/ DropClient PROVE TypeOK'
  OBVIOUS
<1>1. CASE NextEvent
  <2>1. CASE /\ early # <<>>
             /\ TakeEvent(Head(early))
             /\ early' = Tail(early)
             /\ UNCHANGED eventQ
    <3>1. Head(early) \in Elements /\ Tail(early) \in Seq(Elements)
      BY <2>1 DEF TypeOK
    <3> QED BY <1>1, <2>1, <3>1, TakeEventType DEF NextEvent, TypeOK
  <2>2. CASE /\ eventQ # <<>>
             /\ TakeEvent(Head(eventQ))
             /\ eventQ' = Tail(eventQ)
             /\ UNCHANGED early
    <3>1. Head(eventQ) \in Elements /\ Tail(eventQ) \in Seq(Elements)
      BY <2>2 DEF TypeOK
    <3> QED BY <1>1, <2>2, <3>1, TakeEventType DEF NextEvent, TypeOK
  <2> QED BY <1>1, <2>1, <2>2 DEF NextEvent
<1>2. CASE DropClient
  BY <1>2, GiveUpType DEF DropClient, TypeOK
<1> QED BY <1>1, <1>2

-----------------------------------------------------------------------------
(* The worker holds an event exactly while it is blocked on it. *)

LEMMA DisconnectHeld ==
  ASSUME TypeOK, NEW settled, NEW left, Disconnect(settled, left), sent' = sent
  PROVE  HeldOK'
BY DEF Disconnect, Exit, Block, HeldOK, Blocked, TypeOK

LEMMA HeldInvariant == TypeOK /\ HeldOK /\ [Next]_vars => HeldOK'
<1> SUFFICES ASSUME TypeOK, HeldOK, [Next]_vars PROVE HeldOK'
  OBVIOUS
<1>0. CASE UNCHANGED <<worker, held, sent>>
  BY <1>0 DEF HeldOK, Blocked
<1>1. CASE Handshake
  BY <1>1 DEF Handshake, HandshakeEvent, HandshakeDone, HandshakeFails, HeldOK, Blocked
<1>2. ASSUME NEW c \in Calls, CallerStep(c) PROVE HeldOK'
  BY <1>2, <1>0 DEF CallerStep, Call, HandleRequest, Answer, Shutdown, SendCommand,
     SendCommandFails, RequestTimesOut, AbortWorker, Exit, HeldOK, Blocked
<1>3. CASE TakeCommand
  <2>1. CASE TakeRequest
    BY <1>0, <2>1, DisconnectHeld DEF TakeRequest
  <2>2. CASE TakeNotifyOrAnswer
    BY <1>0, <2>2 DEF TakeNotifyOrAnswer
  <2>3. CASE TakeShutdown \/ CommandsClosed
    BY <2>3 DEF TakeShutdown, CommandsClosed, Exit, HeldOK, Blocked
  <2> QED BY <1>3, <2>1, <2>2, <2>3 DEF TakeCommand
<1>4. CASE Receive
  <2>1. ASSUME NEW id \in RequestIds, ReceiveResponse(id) PROVE HeldOK'
    BY <1>0, <2>1 DEF ReceiveResponse
  <2>2. CASE ReceiveLossless
    <3>1. sent' # <<>> /\ Len(sent') = Len(sent) + 1 /\ sent'[Len(sent')] = "lossless"
      <4>1. sent \in Seq(Kinds) /\ "lossless" \in Kinds /\ sent' = Append(sent, "lossless")
        BY <2>2 DEF ReceiveLossless, TypeOK, Kinds
      <4> QED BY <4>1
    <3>2. worker' \in {"flush", "send"} /\ held' = Event("lossless", Len(sent'))
      BY <2>2, <3>1 DEF ReceiveLossless, Block
    <3> QED BY <3>1, <3>2 DEF HeldOK, Blocked
  <2>3. ASSUME NEW kind \in Kinds \ LosslessKinds, ReceiveBestEffort(kind) PROVE HeldOK'
    BY <2>3 DEF ReceiveBestEffort, HeldOK, Blocked
  <2>4. ASSUME NEW kind \in Kinds \ LosslessKinds, DropBestEffort(kind) PROVE HeldOK'
    BY <2>4 DEF DropBestEffort, Exit, HeldOK, Blocked
  <2>5. CASE ReceiveAfterClose
    BY <2>5 DEF ReceiveAfterClose, Exit, HeldOK, Blocked
  <2>6. CASE StreamEnds
    BY <2>6, DisconnectHeld DEF StreamEnds
  <2> QED BY <1>4, <2>1, <2>2, <2>3, <2>4, <2>5, <2>6 DEF Receive
<1>5. CASE Deliver
  BY <1>5 DEF Deliver, FlushMarker, SendHeld, SendFails, Exit, HeldOK, Blocked
<1>6. CASE NextEvent \/ DropClient
  BY <1>0, <1>6 DEF NextEvent, DropClient
<1>7. CASE UNCHANGED vars
  BY <1>0, <1>7 DEF vars, clientVars
<1> QED BY <1>1, <1>2, <1>3, <1>4, <1>5, <1>6, <1>7 DEF Next

LEMMA TypeInductive == TypeOK /\ HeldOK /\ [Next]_vars => TypeOK'
<1>1. TypeOK /\ UNCHANGED vars => TypeOK'
  BY DEF TypeOK, vars, clientVars
<1> QED BY <1>1, TypeHandshake, TypeCaller, TypeTakeCommand, TypeReceive,
           TypeDeliver, TypeConsumer DEF Next

(***************************************************************************)
(* Every variable of the client keeps its type, and the worker holds an    *)
(* event only while it is blocked on it.                                   *)
(***************************************************************************)
THEOREM TypeCorrect == Spec => [](TypeOK /\ HeldOK)
<1>1. Init => HeldOK
  BY DEF Init, HeldOK, Blocked
<1> QED BY <1>1, TypeInit, TypeInductive, HeldInvariant, PTL DEF Spec

-----------------------------------------------------------------------------
(* Nothing is lost silently. *)

LEMMA PhaseInvariant == TypeOK /\ PhaseOK /\ [Next]_vars => PhaseOK'
<1> SUFFICES ASSUME TypeOK, PhaseOK, [Next]_vars PROVE PhaseOK'
  OBVIOUS
<1> USE DEF PhaseOK
<1>0. CASE UNCHANGED <<worker, eventQ, skipped>>
  BY <1>0
<1>1. CASE Handshake
  BY <1>1 DEF Handshake, HandshakeEvent, HandshakeDone, HandshakeFails
<1>2. ASSUME NEW c \in Calls, CallerStep(c) PROVE PhaseOK'
  BY <1>2, <1>0 DEF CallerStep, Call, HandleRequest, Answer, Shutdown, GiveUp, Exclusive,
     SendCommand, SendCommandFails, RequestTimesOut, AbortWorker, Exit
<1>3. CASE TakeCommand
  BY <1>3 DEF TakeCommand, TakeRequest, TakeNotifyOrAnswer, TakeShutdown, CommandsClosed,
     Disconnect, Block, Exit, TypeOK
<1>4. CASE Receive
  <2>1. ASSUME NEW id \in RequestIds, ReceiveResponse(id) PROVE PhaseOK'
    BY <1>0, <2>1 DEF ReceiveResponse
  <2>2. CASE ReceiveLossless
    BY <2>2 DEF ReceiveLossless, Block, TypeOK
  <2>3. ASSUME NEW kind \in Kinds \ LosslessKinds, ReceiveBestEffort(kind) PROVE PhaseOK'
    BY <2>3 DEF ReceiveBestEffort
  <2>4. ASSUME NEW kind \in Kinds \ LosslessKinds, DropBestEffort(kind) PROVE PhaseOK'
    BY <2>4 DEF DropBestEffort, Exit
  <2>5. CASE ReceiveAfterClose \/ StreamEnds
    BY <2>5 DEF ReceiveAfterClose, StreamEnds, Disconnect, Block, Exit, TypeOK
  <2> QED BY <1>4, <2>1, <2>2, <2>3, <2>4, <2>5 DEF Receive
<1>5. CASE Deliver
  BY <1>5 DEF Deliver, FlushMarker, SendHeld, SendFails, Exit
<1>6. CASE NextEvent \/ DropClient
  BY <1>6 DEF NextEvent, DropClient, GiveUp, Exclusive
<1>7. CASE UNCHANGED vars
  BY <1>0, <1>7 DEF vars, clientVars
<1> QED BY <1>1, <1>2, <1>3, <1>4, <1>5, <1>6, <1>7 DEF Next

LEMMA GaplessAppend ==
  ASSUME NEW q \in Seq(Elements), NEW from \in Int, NEW upto \in Int, Gapless(q, from, upto),
         NEW e \in Elements, e.at = upto + e.width
  PROVE  Gapless(Append(q, e), from, e.at)
<1> DEFINE r == Append(q, e)
<1>1. /\ Len(r) = Len(q) + 1
      /\ r # <<>>
      /\ r[Len(r)] = e
      /\ \A i \in 1..Len(q) : r[i] = q[i]
      /\ Len(q) \in Nat
      /\ q = <<>> <=> Len(q) = 0
  OBVIOUS
<1>2. r[1].at = from + r[1].width
  BY <1>1 DEF Gapless
<1>3. ASSUME NEW i \in 1..(Len(r) - 1) PROVE r[i + 1].at = r[i].at + r[i + 1].width
  <2>1. CASE i = Len(q)
    BY <1>1, <2>1 DEF Gapless
  <2>2. CASE i # Len(q)
    <3>1. i \in 1..(Len(q) - 1) /\ i + 1 \in 1..Len(q)
      BY <1>1, <2>2
    <3> QED BY <1>1, <3>1 DEF Gapless
  <2> QED BY <2>1, <2>2
<1> QED BY <1>1, <1>2, <1>3 DEF Gapless

LEMMA GaplessTail ==
  ASSUME NEW q \in Seq(Elements), q # <<>>, NEW from \in Int, NEW upto \in Int,
         Gapless(q, from, upto)
  PROVE  /\ Gapless(Tail(q), Head(q).at, upto)
         /\ Head(q) = q[1] /\ q[1].at = from + q[1].width
<1> DEFINE r == Tail(q)
<1>1. /\ Len(r) = Len(q) - 1
      /\ Len(q) \in Nat \ {0}
      /\ Head(q) = q[1]
      /\ \A i \in 1..Len(r) : r[i] = q[i + 1]
      /\ r = <<>> <=> Len(r) = 0
  <2>1. Len(q) \in Nat \ {0} /\ Head(q) = q[1]
    OBVIOUS
  <2>2. r \in Seq(Elements) /\ Len(r) = Len(q) - 1 /\ \A i \in 1..Len(r) : r[i] = q[i + 1]
    BY HeadTailProperties
  <2>3. r = <<>> <=> Len(r) = 0
    BY <2>2, EmptySeq
  <2> QED BY <2>1, <2>2, <2>3
<1>2. CASE r = <<>>
  BY <1>1, <1>2 DEF Gapless
<1>3. CASE r # <<>>
  <2>1. r[1] = q[2] /\ r[Len(r)] = q[Len(q)] /\ q[2].at = q[1].at + q[2].width
    <3>1. 1 \in 1..(Len(q) - 1) /\ Len(r) + 1 = Len(q) /\ Len(r) \in 1..Len(r) /\ 1 + 1 = 2
      BY <1>1, <1>3
    <3> QED BY <1>1, <3>1 DEF Gapless
  <2>2. ASSUME NEW i \in 1..(Len(r) - 1) PROVE r[i + 1].at = r[i].at + r[i + 1].width
    <3>1. i + 1 \in 1..(Len(q) - 1) /\ i \in 1..Len(r) /\ i + 1 \in 1..Len(r)
      BY <1>1
    <3> QED BY <1>1, <3>1 DEF Gapless
  <2> QED BY <1>1, <1>3, <2>1, <2>2 DEF Gapless
<1> QED BY <1>1, <1>2, <1>3 DEF Gapless

\* How far the queued events reach.
Marked == Len(sent) - skipped - InHand

LEMMA InHandType == TypeOK /\ HeldOK => InHand \in Nat /\ Marked \in Int
<1> SUFFICES ASSUME TypeOK, HeldOK PROVE InHand \in Nat /\ Marked \in Int
  OBVIOUS
<1>1. InHand \in Nat
  <2>1. held # None => held \in Elements
    BY DEF TypeOK
  <2> QED BY <2>1 DEF InHand, Elements
<1> QED BY <1>1 DEF Marked, TypeOK

LEMMA EndOfEarlyType == TypeOK => EndOfEarly \in Nat
<1> SUFFICES ASSUME TypeOK PROVE EndOfEarly \in Nat
  OBVIOUS
<1>1. CASE early = <<>>
  BY <1>1 DEF EndOfEarly, TypeOK
<1>2. CASE early # <<>>
  <2>1. Len(early) \in 1..Len(early)
    BY <1>2, EmptySeq DEF TypeOK
  <2>2. early[Len(early)] \in Elements
    BY <2>1 DEF TypeOK
  <2> QED BY <1>2, <2>2 DEF EndOfEarly, Elements
<1> QED BY <1>1, <1>2

LEMMA HeldWidth ==
  ASSUME TypeOK, HeldOK, Blocked
  PROVE  held \in Elements /\ InHand = held.width /\ held.at = Len(sent)
<1>1. held \in Elements
  BY HeldType
<1>2. held # None
  BY <1>1, NoneAssumption
<1> QED BY <1>1, <1>2 DEF HeldOK, Event, Disconnected, InHand

Accounting == Gapless(early, consumed, EndOfEarly) /\ Gapless(eventQ, EndOfEarly, Marked)

LEMMA AccountingUnchanged ==
  ASSUME Accounting, UNCHANGED <<early, consumed, eventQ, sent, skipped, held>>
  PROVE  Accounting'
BY DEF Accounting, Gapless, EndOfEarly, Marked, InHand

\* Whatever changes neither queue nor how far eventQ reaches.
LEMMA AccountingSameReach ==
  ASSUME Accounting, UNCHANGED <<early, consumed, eventQ>>, Marked' = Marked
  PROVE  Accounting'
BY DEF Accounting, Gapless, EndOfEarly

LEMMA AccountingHandshake ==
  ASSUME TypeOK, HeldOK, PhaseOK, Accounting, Handshake, open'
  PROVE  Accounting'
<1>1. CASE HandshakeEvent
  <2>1. PICK kind \in Kinds : /\ sent' = Append(sent, kind)
                              /\ early' = Append(early, Event(kind, Len(sent) + 1))
    BY <1>1 DEF HandshakeEvent
  <2>2. /\ eventQ = <<>> /\ eventQ' = <<>> /\ skipped = 0 /\ skipped' = 0
        /\ held = None /\ held' = None /\ consumed' = consumed
    BY <1>1 DEF HandshakeEvent, PhaseOK, HeldOK, Blocked
  <2>3. Len(sent) \in Nat /\ Len(sent') = Len(sent) + 1
    BY <2>1 DEF TypeOK
  <2>4. EndOfEarly = Len(sent)
    BY <2>2, <2>3, EndOfEarlyType DEF Accounting, Gapless, Marked, InHand
  <2> DEFINE e == Event(kind, Len(sent) + 1)
  <2>5. e \in Elements /\ e.at = EndOfEarly + e.width
    BY <2>3, <2>4, EventType DEF Event
  <2>6. Gapless(early', consumed', e.at)
    BY <2>1, <2>2, <2>5, GaplessAppend, EndOfEarlyType DEF Accounting, TypeOK
  <2>7. early' # <<>> /\ early'[Len(early')] = e
    BY <2>1, <2>5 DEF TypeOK
  <2>8. EndOfEarly' = e.at /\ e.at = Len(sent')
    BY <2>3, <2>7 DEF EndOfEarly, Event
  <2>9. Gapless(eventQ', EndOfEarly', Marked')
    BY <2>2, <2>3, <2>8 DEF Gapless, Marked, InHand
  <2> QED BY <2>6, <2>8, <2>9 DEF Accounting
<1>2. CASE HandshakeDone
  BY <1>2, AccountingUnchanged DEF HandshakeDone
<1>3. CASE HandshakeFails
  BY <1>3 DEF HandshakeFails
<1> QED BY <1>1, <1>2, <1>3 DEF Handshake

\* Leaving the loop keeps the reach of eventQ when nothing was held.
LEMMA AccountingExit ==
  ASSUME HeldOK, ~Blocked, NEW settled, Exit(settled), UNCHANGED <<sent, skipped>>
  PROVE  Marked' = Marked
BY DEF Exit, HeldOK, Marked, InHand

LEMMA AccountingDisconnect ==
  ASSUME TypeOK, HeldOK, ~Blocked, NEW settled, NEW left, Disconnect(settled, left),
         UNCHANGED <<sent, skipped>>
  PROVE  Marked' = Marked
<1>1. CASE open
  <2>1. held' = Disconnected(Len(sent)) /\ held = None /\ held' # None
    BY <1>1, DisconnectedType, NoneAssumption DEF Disconnect, Block, HeldOK, TypeOK
  <2>2. InHand = 0 /\ InHand' = 0
    BY <2>1 DEF InHand, Disconnected
  <2> QED BY <2>2 DEF Marked
<1>2. CASE ~open
  BY <1>2, AccountingExit DEF Disconnect
<1> QED BY <1>1, <1>2

LEMMA AccountingCaller ==
  ASSUME TypeOK, HeldOK, PhaseOK, Accounting, NEW c \in Calls, CallerStep(c), open'
  PROVE  Accounting'
<1>1. ASSUME UNCHANGED <<early, consumed, eventQ, sent, skipped, held>> PROVE Accounting'
  BY <1>1, AccountingUnchanged
<1>2. CASE AbortWorker(c)
  BY <1>2 DEF AbortWorker
<1>3. CASE Shutdown(c)
  BY <1>3 DEF Shutdown, GiveUp
<1> QED BY <1>1, <1>2, <1>3 DEF CallerStep, Call, HandleRequest, Answer, SendCommand,
           SendCommandFails, RequestTimesOut

LEMMA AccountingTakeCommand ==
  ASSUME TypeOK, HeldOK, Accounting, TakeCommand
  PROVE  Accounting'
<1>0. ~Blocked /\ UNCHANGED <<early, consumed, eventQ, sent, skipped>>
  BY DEF TakeCommand, TakeRequest, TakeNotifyOrAnswer, TakeShutdown, CommandsClosed, Blocked
<1>1. Marked' = Marked
  <2>1. CASE TakeRequest
    <3>1. \/ UNCHANGED held
          \/ Disconnect(Settle({Front}, "ioError"), Tail(commands))
      BY <2>1 DEF TakeRequest
    <3>2. CASE UNCHANGED held
      BY <1>0, <3>2 DEF Marked, InHand
    <3> QED BY <1>0, <3>1, <3>2, AccountingDisconnect
  <2>2. CASE TakeNotifyOrAnswer
    BY <2>2, <1>0 DEF TakeNotifyOrAnswer, Marked, InHand
  <2>3. CASE TakeShutdown
    BY <2>3, <1>0, AccountingExit DEF TakeShutdown
  <2>4. CASE CommandsClosed
    BY <2>4, <1>0, AccountingExit DEF CommandsClosed
  <2> QED BY <2>1, <2>2, <2>3, <2>4 DEF TakeCommand
<1> QED BY <1>0, <1>1, AccountingSameReach

\* The queue with its marker reaches the events that are still to be marked.
LEMMA MarkerReach ==
  ASSUME TypeOK, HeldOK, ~Blocked, Accounting
  PROVE  Gapless(WithMarker, EndOfEarly, Len(sent) - StillSkipped)
<1>0. InHand = 0 /\ Marked = Len(sent) - skipped /\ Marked \in Int /\ EndOfEarly \in Int
  BY InHandType, EndOfEarlyType DEF HeldOK, InHand, Marked, TypeOK
<1>1. CASE skipped > 0 /\ Room(eventQ)
  <2> DEFINE e == Lagged(skipped, Len(sent))
  <2>1. e \in Elements /\ e.at = Marked + e.width /\ e.at = Len(sent)
    BY <1>0, LaggedType DEF Lagged, TypeOK
  <2>2. Gapless(Append(eventQ, e), EndOfEarly, e.at)
    BY <1>0, <2>1, GaplessAppend DEF Accounting, TypeOK
  <2> QED BY <1>0, <1>1, <2>1, <2>2 DEF WithMarker, StillSkipped, TypeOK
<1>2. CASE ~(skipped > 0 /\ Room(eventQ))
  <2>1. StillSkipped = skipped /\ WithMarker = eventQ
    BY <1>2 DEF StillSkipped, WithMarker, TypeOK
  <2> QED BY <1>0, <2>1 DEF Accounting
<1> QED BY <1>1, <1>2

LEMMA AccountingReceive ==
  ASSUME TypeOK, HeldOK, Accounting, Receive, open'
  PROVE  Accounting'
<1>1. ASSUME NEW id \in RequestIds, ReceiveResponse(id) PROVE Accounting'
  BY <1>1, AccountingUnchanged DEF ReceiveResponse
<1>2. CASE ReceiveLossless
  <2>1. /\ held = None
        /\ held' = Event("lossless", Len(sent) + 1)
        /\ sent' = Append(sent, "lossless")
        /\ UNCHANGED <<early, consumed, eventQ, skipped>>
    BY <1>2 DEF ReceiveLossless, Block, HeldOK, Blocked
  <2>2. held' # None
    BY <2>1, EventType, NoneAssumption DEF TypeOK, Kinds
  <2>3. InHand = 0 /\ InHand' = 1
    BY <2>1, <2>2 DEF InHand, Event
  <2>4. Len(sent') = Len(sent) + 1
    BY <2>1 DEF TypeOK
  <2> QED BY <2>1, <2>3, <2>4, AccountingSameReach DEF Marked, TypeOK
<1>3. ASSUME NEW kind \in Kinds \ LosslessKinds, ReceiveBestEffort(kind) PROVE Accounting'
  <2> DEFINE e == Event(kind, Len(sent) + 1)
  <2>1. /\ ~Blocked /\ held = None /\ held' = None /\ skipped' = 0
        /\ sent' = Append(sent, kind)
        /\ eventQ' = Append(WithMarker, e)
        /\ UNCHANGED <<early, consumed>>
    BY <1>3 DEF ReceiveBestEffort, HeldOK, Blocked
  <2>2. StillSkipped = 0
    BY <1>3 DEF ReceiveBestEffort, WithMarker, StillSkipped, Room, TypeOK
  <2>3. Gapless(WithMarker, EndOfEarly, Len(sent))
    BY <2>1, <2>2, MarkerReach DEF TypeOK
  <2>4. e \in Elements /\ e.at = Len(sent) + e.width /\ Len(sent') = e.at
    BY <2>1, EventType DEF Event, TypeOK
  <2>5. Gapless(eventQ', EndOfEarly, e.at)
    BY <2>1, <2>3, <2>4, GaplessAppend, WithMarkerType, EndOfEarlyType DEF TypeOK
  <2>6. Marked' = e.at /\ EndOfEarly' = EndOfEarly
    BY <2>1, <2>4 DEF Marked, InHand, EndOfEarly, TypeOK
  <2>7. Gapless(early', consumed', EndOfEarly')
    BY <2>1, <2>6 DEF Accounting
  <2> QED BY <2>5, <2>6, <2>7 DEF Accounting
<1>4. ASSUME NEW kind \in Kinds \ LosslessKinds, DropBestEffort(kind) PROVE Accounting'
  <2>1. /\ ~Blocked /\ held = None /\ held' = None /\ skipped' = StillSkipped + 1
        /\ sent' = Append(sent, kind)
        /\ eventQ' = WithMarker
        /\ UNCHANGED <<early, consumed>>
    BY <1>4 DEF DropBestEffort, HeldOK, Blocked, Exit
  <2>2. Gapless(eventQ', EndOfEarly, Len(sent) - StillSkipped)
    BY <2>1, MarkerReach
  <2>3. Len(sent') = Len(sent) + 1 /\ Len(sent) \in Nat /\ StillSkipped \in Nat
    BY <2>1, WithMarkerType DEF TypeOK
  <2>4. Marked' = Len(sent) - StillSkipped /\ EndOfEarly' = EndOfEarly
    BY <2>1, <2>3 DEF Marked, InHand, EndOfEarly
  <2>5. Gapless(early', consumed', EndOfEarly')
    BY <2>1, <2>4 DEF Accounting
  <2> QED BY <2>2, <2>4, <2>5 DEF Accounting
<1>5. CASE ReceiveAfterClose
  BY <1>5 DEF ReceiveAfterClose
<1>6. CASE StreamEnds
  BY <1>6, AccountingDisconnect, AccountingSameReach DEF StreamEnds, Blocked
<1> QED BY <1>1, <1>2, <1>3, <1>4, <1>5, <1>6 DEF Receive

LEMMA AccountingDeliver ==
  ASSUME TypeOK, HeldOK, PhaseOK, Accounting, Deliver, open'
  PROVE  Accounting'
<1>0. /\ Blocked /\ UNCHANGED <<early, consumed, sent>>
      /\ EndOfEarly' = EndOfEarly /\ EndOfEarly \in Int /\ Marked \in Int
      /\ held \in Elements /\ InHand = held.width /\ held.at = Len(sent)
      /\ InHand \in Nat /\ skipped \in Nat /\ Len(sent) \in Nat
  <2>1. Blocked /\ UNCHANGED <<early, consumed, sent>>
    BY DEF Deliver, FlushMarker, SendHeld, SendFails, Blocked
  <2>2. EndOfEarly' = EndOfEarly
    BY <2>1 DEF EndOfEarly
  <2>3. skipped \in Nat /\ Len(sent) \in Nat
    BY DEF TypeOK
  <2> QED BY <2>1, <2>2, <2>3, HeldWidth, InHandType, EndOfEarlyType
<1>1. CASE FlushMarker
  <2> DEFINE e == Lagged(skipped, held.at - held.width)
  <2>1. e \in Elements /\ e.at = Marked + e.width /\ e.at = Len(sent) - InHand
    <3>1. e \in Elements /\ e.at = Len(sent) - InHand /\ e.width = skipped
      BY <1>0, HeldType, LaggedType DEF Lagged
    <3> QED BY <1>0, <3>1 DEF Marked
  <2>2. Gapless(Append(eventQ, e), EndOfEarly, e.at)
    BY <1>0, <2>1, GaplessAppend DEF Accounting, TypeOK
  <2>3. Marked' = e.at
    BY <1>0, <1>1, <2>1, InHandType DEF FlushMarker, Marked, InHand, TypeOK
  <2> QED BY <1>0, <1>1, <2>2, <2>3 DEF FlushMarker, Accounting
<1>2. CASE SendHeld
  <2>1. held.at = Marked + held.width /\ skipped = 0 /\ skipped' = 0
    <3>1. skipped = 0 /\ skipped' = 0
      BY <1>2 DEF SendHeld, PhaseOK
    <3> QED BY <1>0, <3>1 DEF Marked
  <2>2. Gapless(Append(eventQ, held), EndOfEarly, held.at)
    BY <1>0, <2>1, GaplessAppend DEF Accounting, TypeOK
  <2>3. held' = None /\ eventQ' = Append(eventQ, held)
    BY <1>2 DEF SendHeld, Exit
  <2>4. Marked' = held.at
    BY <1>0, <2>1, <2>3 DEF Marked, InHand, TypeOK
  <2> QED BY <1>0, <2>2, <2>3, <2>4 DEF Accounting
<1>3. CASE SendFails
  BY <1>3 DEF SendFails
<1> QED BY <1>1, <1>2, <1>3 DEF Deliver

LEMMA AccountingConsumer ==
  ASSUME TypeOK, HeldOK, Accounting, NextEvent
  PROVE  Accounting'
<1>0. /\ UNCHANGED <<skipped, sent, held>> /\ Marked' = Marked
      /\ consumed \in Int /\ EndOfEarly \in Int /\ Marked \in Int
  BY InHandType, EndOfEarlyType DEF NextEvent, Marked, InHand, TypeOK
<1>1. CASE /\ early # <<>>
           /\ TakeEvent(Head(early))
           /\ early' = Tail(early)
           /\ UNCHANGED eventQ
  <2>1. /\ Gapless(early', consumed', EndOfEarly)
        /\ Head(early) = early[1]
    BY <1>0, <1>1, GaplessTail DEF Accounting, TypeOK, TakeEvent
  <2>2. EndOfEarly' = EndOfEarly
    <3>1. CASE early' = <<>>
      BY <2>1, <3>1 DEF EndOfEarly, Gapless
    <3>2. CASE early' # <<>>
      BY <2>1, <3>2 DEF EndOfEarly, Gapless
    <3> QED BY <3>1, <3>2
  <2> QED BY <1>0, <1>1, <2>1, <2>2 DEF Accounting
<1>2. CASE /\ early = <<>>
           /\ eventQ # <<>>
           /\ TakeEvent(Head(eventQ))
           /\ eventQ' = Tail(eventQ)
           /\ UNCHANGED early
  <2>1. Gapless(eventQ', consumed', Marked)
    BY <1>0, <1>2, GaplessTail DEF Accounting, TypeOK, TakeEvent
  <2>2. EndOfEarly' = consumed'
    BY <1>2 DEF EndOfEarly
  <2>3. Gapless(early', consumed', consumed')
    BY <1>2 DEF Gapless
  <2> QED BY <1>0, <2>1, <2>2, <2>3 DEF Accounting
<1> QED BY <1>1, <1>2 DEF NextEvent

LEMMA OpenStays == [Next]_vars /\ open' => open
BY DEF Next, Handshake, HandshakeEvent, HandshakeDone, HandshakeFails, CallerStep, Call,
   HandleRequest, Answer, Shutdown, GiveUp, SendCommand, SendCommandFails, RequestTimesOut,
   AbortWorker, TakeCommand, TakeRequest, TakeNotifyOrAnswer, TakeShutdown, CommandsClosed,
   Receive, ReceiveResponse, ReceiveLossless, ReceiveBestEffort, DropBestEffort,
   ReceiveAfterClose, StreamEnds, Deliver, FlushMarker, SendHeld, SendFails, NextEvent,
   DropClient, vars, clientVars

LEMMA AccountingInvariant ==
  TypeOK /\ HeldOK /\ PhaseOK /\ EveryEventAccountedFor /\ [Next]_vars
    => EveryEventAccountedFor'
<1> SUFFICES ASSUME TypeOK, HeldOK, PhaseOK, EveryEventAccountedFor, [Next]_vars, open'
             PROVE  Accounting'
  BY DEF EveryEventAccountedFor, Accounting, Marked
<1>1. open
  BY OpenStays
<1>2. Accounting
  BY <1>1 DEF EveryEventAccountedFor, Accounting, Marked
<1>3. CASE UNCHANGED vars
  BY <1>2, <1>3, AccountingUnchanged DEF vars, clientVars
<1>4. CASE DropClient
  BY <1>4 DEF DropClient, GiveUp
<1> QED BY <1>2, <1>3, <1>4, AccountingHandshake, AccountingCaller, AccountingTakeCommand,
           AccountingReceive, AccountingDeliver, AccountingConsumer DEF Next

(***************************************************************************)
(* Whatever the sizes, backpressure, failures and interleaving: the events *)
(* the consumer has passed, those queued for it, the counts of its Lagged  *)
(* markers, skipped_events and the event in the worker's hand always add   *)
(* up to the server's stream, in order.                                    *)
(***************************************************************************)
THEOREM NothingLostSilently == Spec => []EveryEventAccountedFor
<1>1. Init => HeldOK /\ PhaseOK /\ EveryEventAccountedFor
  BY DEF Init, HeldOK, Blocked, PhaseOK, EveryEventAccountedFor, Gapless, EndOfEarly, InHand
<1> QED BY <1>1, TypeInit, TypeInductive, HeldInvariant, PhaseInvariant,
           AccountingInvariant, PTL DEF Spec

-----------------------------------------------------------------------------
(* The lossless tier survives. *)

Surviving == /\ \A i \in 1..Len(early) : Faithful(early[i], sent)
             /\ \A i \in 1..Len(eventQ) : Faithful(eventQ[i], sent)
             /\ held # None => Faithful(held, sent)
             /\ Faithful(Lagged(skipped, Len(sent) - InHand), sent)

\* An element stays faithful when the stream grows.
LEMMA FaithfulGrows ==
  ASSUME NEW stream \in Seq(Kinds), NEW e \in Elements, Faithful(e, stream), NEW kind \in Kinds
  PROVE  Faithful(e, Append(stream, kind))
<1> DEFINE longer == Append(stream, kind)
<1>1. /\ Len(longer) = Len(stream) + 1 /\ Len(stream) \in Nat
      /\ \A i \in 1..Len(stream) : longer[i] = stream[i]
  OBVIOUS
<1>2. e.at \in Nat /\ e.width \in Nat /\ e.at <= Len(stream)
  BY DEF Elements, Faithful
<1>3. ASSUME NEW i \in 1..Len(longer), Covers(e, i) PROVE i \in 1..Len(stream)
  BY <1>1, <1>2, <1>3 DEF Covers
<1> QED BY <1>1, <1>2, <1>3 DEF Faithful

\* An event is faithful at the end of the stream it was just emitted on.
LEMMA FaithfulEvent ==
  ASSUME NEW stream \in Seq(Kinds), NEW kind \in Kinds
  PROVE  Faithful(Event(kind, Len(stream) + 1), Append(stream, kind))
<1> DEFINE longer == Append(stream, kind)
           e == Event(kind, Len(stream) + 1)
<1>1. Len(longer) = Len(stream) + 1 /\ Len(stream) \in Nat /\ longer[Len(stream) + 1] = kind
  OBVIOUS
<1>2. e.kind = kind /\ e.at = Len(longer) /\ e.width = 1
  BY <1>1 DEF Event
<1>3. kind # "lagged" /\ kind # "disconnected"
  BY DEF Kinds
<1>4. ASSUME NEW i \in 1..Len(longer), Covers(e, i) PROVE i = Len(longer)
  BY <1>1, <1>2, <1>4 DEF Covers
<1> QED BY <1>1, <1>2, <1>3, <1>4 DEF Faithful

\* An element of no width says nothing.
LEMMA FaithfulEmpty ==
  ASSUME NEW stream \in Seq(Kinds), NEW at \in Int, at <= Len(stream)
  PROVE  /\ Faithful(Lagged(0, at), stream)
         /\ Faithful(Disconnected(at), stream)
BY DEF Faithful, Lagged, Disconnected, Covers, Kinds

\* The events to be marked grow by a dropped one.
LEMMA FaithfulDrop ==
  ASSUME NEW stream \in Seq(Kinds), NEW kind \in Kinds \ LosslessKinds, NEW n \in Nat,
         Faithful(Lagged(n, Len(stream)), stream)
  PROVE  Faithful(Lagged(n + 1, Len(stream) + 1), Append(stream, kind))
<1> DEFINE longer == Append(stream, kind)
           e == Lagged(n, Len(stream))
           f == Lagged(n + 1, Len(stream) + 1)
<1>1. /\ Len(longer) = Len(stream) + 1 /\ Len(stream) \in Nat
      /\ longer[Len(stream) + 1] = kind
      /\ \A i \in 1..Len(stream) : longer[i] = stream[i]
  OBVIOUS
<1>2. /\ e.kind = "lagged" /\ e.at = Len(stream) /\ e.width = n
      /\ f.kind = "lagged" /\ f.at = Len(longer) /\ f.width = n + 1
  BY <1>1 DEF Lagged
<1>3. ASSUME NEW i \in 1..Len(longer), Covers(f, i) PROVE longer[i] \notin LosslessKinds
  <2>1. CASE i = Len(longer)
    BY <1>1, <2>1
  <2>2. CASE i # Len(longer)
    <3>1. i \in 1..Len(stream) /\ Covers(e, i)
      BY <1>1, <1>2, <1>3, <2>2 DEF Covers
    <3> QED BY <1>1, <1>2, <3>1 DEF Faithful
  <2> QED BY <2>1, <2>2
<1> QED BY <1>1, <1>2, <1>3 DEF Faithful, Kinds

LEMMA FaithfulAppend ==
  ASSUME NEW q \in Seq(Elements), NEW e \in Elements, NEW stream,
         \A i \in 1..Len(q) : Faithful(q[i], stream), Faithful(e, stream)
  PROVE  \A i \in 1..Len(Append(q, e)) : Faithful(Append(q, e)[i], stream)
<1> DEFINE r == Append(q, e)
<1>1. Len(r) = Len(q) + 1 /\ Len(q) \in Nat /\ r[Len(q) + 1] = e
      /\ \A i \in 1..Len(q) : r[i] = q[i]
  OBVIOUS
<1>2. ASSUME NEW i \in 1..Len(r) PROVE Faithful(r[i], stream)
  <2>1. CASE i \in 1..Len(q)
    BY <1>1, <2>1
  <2>2. CASE i = Len(q) + 1
    BY <1>1, <2>2
  <2> QED BY <1>1, <2>1, <2>2
<1> QED BY <1>2

LEMMA FaithfulTail ==
  ASSUME NEW q \in Seq(Elements), q # <<>>, NEW stream,
         \A i \in 1..Len(q) : Faithful(q[i], stream)
  PROVE  /\ Faithful(Head(q), stream)
         /\ \A i \in 1..Len(Tail(q)) : Faithful(Tail(q)[i], stream)
<1>1. /\ Len(q) \in Nat \ {0} /\ Head(q) = q[1]
      /\ Len(Tail(q)) = Len(q) - 1
      /\ \A i \in 1..Len(Tail(q)) : Tail(q)[i] = q[i + 1]
  <2>1. Len(q) \in Nat \ {0} /\ Head(q) = q[1]
    BY EmptySeq
  <2> QED BY <2>1, HeadTailProperties
<1>2. \A i \in 1..Len(Tail(q)) : i + 1 \in 1..Len(q)
  BY <1>1
<1> QED BY <1>1, <1>2

LEMMA FaithfulQueue ==
  ASSUME NEW q \in Seq(Elements), NEW kind \in Kinds, NEW stream \in Seq(Kinds),
         \A i \in 1..Len(q) : Faithful(q[i], stream)
  PROVE  \A i \in 1..Len(q) : Faithful(q[i], Append(stream, kind))
<1>1. ASSUME NEW i \in 1..Len(q) PROVE Faithful(q[i], Append(stream, kind))
  <2>1. q[i] \in Elements
    OBVIOUS
  <2> QED BY <2>1, FaithfulGrows
<1> QED BY <1>1

LEMMA SurvivingUnchanged ==
  ASSUME Surviving, UNCHANGED <<early, eventQ, sent, skipped, held>>
  PROVE  Surviving'
BY DEF Surviving, InHand

\* Nothing but what the worker holds changes, and that says nothing.
LEMMA SurvivingRelease ==
  ASSUME TypeOK, HeldOK, ~Blocked, Surviving, UNCHANGED <<early, eventQ, sent, skipped>>,
         held' = None \/ held' = Disconnected(Len(sent))
  PROVE  Surviving'
<1>1. InHand = 0 /\ InHand' = 0
  BY DisconnectedType, NoneAssumption DEF HeldOK, InHand, Disconnected, TypeOK
<1>2. held' # None => Faithful(held', sent')
  BY FaithfulEmpty DEF TypeOK
<1> QED BY <1>1, <1>2 DEF Surviving

LEMMA SurvivingHandshake ==
  ASSUME TypeOK, HeldOK, PhaseOK, Surviving, Handshake, open'
  PROVE  Surviving'
<1>1. CASE HandshakeEvent
  <2>1. PICK kind \in Kinds : /\ sent' = Append(sent, kind)
                              /\ early' = Append(early, Event(kind, Len(sent) + 1))
    BY <1>1 DEF HandshakeEvent
  <2>2. /\ eventQ = <<>> /\ eventQ' = <<>> /\ skipped' = 0 /\ held' = None /\ Len(eventQ') = 0
        /\ sent \in Seq(Kinds) /\ sent' \in Seq(Kinds) /\ InHand' = 0
    BY <1>1, <2>1 DEF HandshakeEvent, PhaseOK, HeldOK, Blocked, TypeOK, InHand
  <2>3. \A i \in 1..Len(early) : Faithful(early[i], sent')
    BY <2>1, FaithfulQueue DEF TypeOK, Surviving
  <2>4. Event(kind, Len(sent) + 1) \in Elements
    BY EventType DEF TypeOK
  <2>5. \A i \in 1..Len(early') : Faithful(early'[i], sent')
    BY <2>1, <2>3, <2>4, FaithfulAppend, FaithfulEvent DEF TypeOK
  <2>6. Faithful(Lagged(0, Len(sent') - 0), sent')
    BY <2>2, FaithfulEmpty
  <2> QED BY <2>2, <2>5, <2>6 DEF Surviving
<1>2. CASE HandshakeDone
  BY <1>2, SurvivingUnchanged DEF HandshakeDone
<1>3. CASE HandshakeFails
  BY <1>3 DEF HandshakeFails
<1> QED BY <1>1, <1>2, <1>3 DEF Handshake

LEMMA SurvivingCaller ==
  ASSUME TypeOK, HeldOK, Surviving, NEW c \in Calls, CallerStep(c), open'
  PROVE  Surviving'
<1>1. ASSUME UNCHANGED <<early, eventQ, sent, skipped, held>> PROVE Surviving'
  BY <1>1, SurvivingUnchanged
<1>2. CASE AbortWorker(c)
  BY <1>2 DEF AbortWorker
<1>3. CASE Shutdown(c)
  BY <1>3 DEF Shutdown, GiveUp
<1> QED BY <1>1, <1>2, <1>3 DEF CallerStep, Call, HandleRequest, Answer, SendCommand,
           SendCommandFails, RequestTimesOut

LEMMA SurvivingTakeCommand ==
  ASSUME TypeOK, HeldOK, Surviving, TakeCommand
  PROVE  Surviving'
<1>1. ~Blocked /\ UNCHANGED <<early, eventQ, sent, skipped>>
  BY DEF TakeCommand, TakeRequest, TakeNotifyOrAnswer, TakeShutdown, CommandsClosed, Blocked
<1>2. held' = held \/ held' = None \/ held' = Disconnected(Len(sent))
  BY DEF TakeCommand, TakeRequest, TakeNotifyOrAnswer, TakeShutdown, CommandsClosed,
     Disconnect, Block, Exit
<1> QED BY <1>1, <1>2, SurvivingUnchanged, SurvivingRelease

\* The queue with its marker is faithful, and so is what is still to be marked.
LEMMA MarkerFaithful ==
  ASSUME TypeOK, HeldOK, ~Blocked, Surviving
  PROVE  /\ \A i \in 1..Len(WithMarker) : Faithful(WithMarker[i], sent)
         /\ Faithful(Lagged(StillSkipped, Len(sent)), sent)
<1>1. Len(sent) \in Nat /\ Faithful(Lagged(skipped, Len(sent)), sent)
  BY DEF Surviving, HeldOK, InHand, TypeOK
<1>2. Lagged(skipped, Len(sent)) \in Elements
  BY LaggedType DEF TypeOK
<1>3. \A i \in 1..Len(WithMarker) : Faithful(WithMarker[i], sent)
  <2>1. CASE skipped > 0 /\ Room(eventQ)
    BY <1>1, <1>2, <2>1, FaithfulAppend DEF WithMarker, Surviving, TypeOK
  <2>2. CASE ~(skipped > 0 /\ Room(eventQ))
    BY <2>2 DEF WithMarker, Surviving
  <2> QED BY <2>1, <2>2
<1>4. Faithful(Lagged(0, Len(sent)), sent)
  BY <1>1, FaithfulEmpty DEF TypeOK
<1> QED BY <1>1, <1>3, <1>4 DEF StillSkipped

LEMMA SurvivingReceive ==
  ASSUME TypeOK, HeldOK, Surviving, Receive, open'
  PROVE  Surviving'
<1>1. ASSUME NEW id \in RequestIds, ReceiveResponse(id) PROVE Surviving'
  BY <1>1, SurvivingUnchanged DEF ReceiveResponse
<1>2. CASE ReceiveLossless
  <2>1. /\ ~Blocked /\ held = None
        /\ held' = Event("lossless", Len(sent) + 1)
        /\ sent' = Append(sent, "lossless")
        /\ UNCHANGED <<early, eventQ, skipped>>
    BY <1>2 DEF ReceiveLossless, Block, HeldOK, Blocked
  <2>2. "lossless" \in Kinds /\ sent \in Seq(Kinds) /\ Len(sent) \in Nat /\ skipped \in Nat
    BY DEF Kinds, TypeOK
  <2>3. held' \in Elements /\ held'.width = 1 /\ held' # None
    BY <2>1, <2>2, EventType, NoneAssumption DEF Event
  <2>4. Faithful(held', sent')
    BY <2>1, <2>2, FaithfulEvent
  <2>5. /\ \A i \in 1..Len(early) : Faithful(early[i], sent')
        /\ \A i \in 1..Len(eventQ) : Faithful(eventQ[i], sent')
    BY <2>1, <2>2, FaithfulQueue DEF TypeOK, Surviving
  <2>6. Len(sent') - InHand' = Len(sent) /\ InHand = 0
    BY <2>1, <2>2, <2>3 DEF InHand
  <2>7. Faithful(Lagged(skipped, Len(sent)), sent')
    <3>1. Lagged(skipped, Len(sent)) \in Elements
      BY <2>2, LaggedType
    <3>2. Faithful(Lagged(skipped, Len(sent)), sent)
      BY <2>2, <2>6 DEF Surviving
    <3> QED BY <2>1, <2>2, <3>1, <3>2, FaithfulGrows
  <2> QED BY <2>1, <2>4, <2>5, <2>6, <2>7 DEF Surviving
<1>3. ASSUME NEW kind \in Kinds \ LosslessKinds, ReceiveBestEffort(kind) PROVE Surviving'
  <2> DEFINE e == Event(kind, Len(sent) + 1)
  <2>1. /\ ~Blocked /\ held' = None /\ skipped' = 0
        /\ sent' = Append(sent, kind)
        /\ eventQ' = Append(WithMarker, e)
        /\ UNCHANGED early
    BY <1>3 DEF ReceiveBestEffort, HeldOK, Blocked
  <2>2. e \in Elements /\ sent' \in Seq(Kinds) /\ Len(sent') \in Nat
        /\ WithMarker \in Seq(Elements)
    BY <2>1, EventType, WithMarkerType DEF TypeOK
  <2>3. /\ \A i \in 1..Len(early) : Faithful(early[i], sent')
        /\ \A i \in 1..Len(WithMarker) : Faithful(WithMarker[i], sent')
    BY <2>1, <2>2, MarkerFaithful, FaithfulQueue DEF TypeOK, Surviving
  <2>4. Faithful(e, sent')
    BY <2>1, FaithfulEvent DEF TypeOK
  <2>5. \A i \in 1..Len(eventQ') : Faithful(eventQ'[i], sent')
    BY <2>1, <2>2, <2>3, <2>4, FaithfulAppend
  <2>6. Faithful(Lagged(0, Len(sent')), sent')
    BY <2>2, FaithfulEmpty
  <2>7. InHand' = 0 /\ Len(sent') - 0 = Len(sent')
    BY <2>1, <2>2 DEF InHand
  <2> QED BY <2>1, <2>3, <2>5, <2>6, <2>7 DEF Surviving
<1>4. ASSUME NEW kind \in Kinds \ LosslessKinds, DropBestEffort(kind) PROVE Surviving'
  <2>1. /\ ~Blocked /\ held' = None /\ skipped' = StillSkipped + 1
        /\ sent' = Append(sent, kind)
        /\ eventQ' = WithMarker
        /\ UNCHANGED early
    BY <1>4 DEF DropBestEffort, HeldOK, Blocked, Exit
  <2>2. /\ WithMarker \in Seq(Elements) /\ StillSkipped \in Nat /\ Len(sent) \in Nat
        /\ Len(sent') = Len(sent) + 1
    BY <2>1, WithMarkerType DEF TypeOK
  <2>3. /\ \A i \in 1..Len(early) : Faithful(early[i], sent')
        /\ \A i \in 1..Len(WithMarker) : Faithful(WithMarker[i], sent')
    BY <2>1, <2>2, MarkerFaithful, FaithfulQueue DEF TypeOK, Surviving
  <2>4. Faithful(Lagged(StillSkipped + 1, Len(sent) + 1), sent')
    BY <2>1, <2>2, MarkerFaithful, FaithfulDrop DEF TypeOK
  <2>5. InHand' = 0 /\ Len(sent') - 0 = Len(sent) + 1
    BY <2>1, <2>2 DEF InHand
  <2> QED BY <2>1, <2>3, <2>4, <2>5 DEF Surviving
<1>5. CASE ReceiveAfterClose
  BY <1>5 DEF ReceiveAfterClose
<1>6. CASE StreamEnds
  <2>1. ~Blocked /\ UNCHANGED <<early, eventQ, sent, skipped>>
    BY <1>6 DEF StreamEnds, Blocked
  <2>2. held' = None \/ held' = Disconnected(Len(sent))
    BY <1>6 DEF StreamEnds, Disconnect, Block, Exit
  <2> QED BY <2>1, <2>2, SurvivingRelease
<1> QED BY <1>1, <1>2, <1>3, <1>4, <1>5, <1>6 DEF Receive

LEMMA SurvivingDeliver ==
  ASSUME TypeOK, HeldOK, PhaseOK, Surviving, Deliver, open'
  PROVE  Surviving'
<1>0. /\ Blocked /\ UNCHANGED <<early, sent>>
      /\ held \in Elements /\ InHand = held.width /\ held.at = Len(sent) /\ Faithful(held, sent)
      /\ InHand \in Nat /\ skipped \in Nat /\ Len(sent) \in Nat
  <2>1. Blocked /\ UNCHANGED <<early, sent>>
    BY DEF Deliver, FlushMarker, SendHeld, SendFails, Blocked
  <2>2. held # None
    BY <2>1, HeldWidth, NoneAssumption
  <2>3. skipped \in Nat /\ Len(sent) \in Nat
    BY DEF TypeOK
  <2> QED BY <2>1, <2>2, <2>3, HeldWidth, InHandType DEF Surviving
<1>1. CASE FlushMarker
  <2> DEFINE e == Lagged(skipped, held.at - held.width)
  <2>1. e \in Elements /\ Faithful(e, sent)
    <3>1. e \in Elements
      BY <1>0, HeldType, LaggedType
    <3>2. held.at - held.width = Len(sent) - InHand
      BY <1>0
    <3> QED BY <3>1, <3>2 DEF Surviving
  <2>2. \A i \in 1..Len(eventQ') : Faithful(eventQ'[i], sent)
    BY <1>1, <2>1, FaithfulAppend DEF FlushMarker, Surviving, TypeOK
  <2>3. InHand' = InHand /\ skipped' = 0 /\ held' = held
    BY <1>1 DEF FlushMarker, InHand
  <2>4. Faithful(Lagged(0, Len(sent) - InHand), sent)
    BY <1>0, FaithfulEmpty DEF TypeOK
  <2> QED BY <1>0, <2>2, <2>3, <2>4 DEF Surviving
<1>2. CASE SendHeld
  <2>1. held' = None /\ eventQ' = Append(eventQ, held) /\ skipped' = 0 /\ InHand' = 0
    BY <1>2 DEF SendHeld, Exit, PhaseOK, InHand
  <2>2. \A i \in 1..Len(eventQ') : Faithful(eventQ'[i], sent)
    BY <1>0, <2>1, FaithfulAppend DEF Surviving, TypeOK
  <2>3. Faithful(Lagged(0, Len(sent) - 0), sent)
    BY <1>0, FaithfulEmpty DEF TypeOK
  <2> QED BY <1>0, <2>1, <2>2, <2>3 DEF Surviving
<1>3. CASE SendFails
  BY <1>3 DEF SendFails
<1> QED BY <1>1, <1>2, <1>3 DEF Deliver

LEMMA SurvivingConsumer ==
  ASSUME TypeOK, Surviving, NextEvent
  PROVE  Surviving'
<1>1. UNCHANGED <<skipped, sent, held>> /\ InHand' = InHand
  BY DEF NextEvent, InHand
<1>2. CASE early # <<>> /\ early' = Tail(early) /\ UNCHANGED eventQ
  BY <1>1, <1>2, FaithfulTail DEF Surviving, TypeOK
<1>3. CASE eventQ # <<>> /\ eventQ' = Tail(eventQ) /\ UNCHANGED early
  BY <1>1, <1>3, FaithfulTail DEF Surviving, TypeOK
<1> QED BY <1>2, <1>3 DEF NextEvent

LEMMA SurvivingInvariant ==
  TypeOK /\ HeldOK /\ PhaseOK /\ LosslessSurvive /\ [Next]_vars => LosslessSurvive'
<1> SUFFICES ASSUME TypeOK, HeldOK, PhaseOK, LosslessSurvive, [Next]_vars, open'
             PROVE  Surviving'
  BY DEF LosslessSurvive, Surviving
<1>1. Surviving
  BY OpenStays DEF LosslessSurvive, Surviving
<1>2. CASE UNCHANGED vars
  BY <1>1, <1>2, SurvivingUnchanged DEF vars, clientVars
<1>3. CASE DropClient
  BY <1>3 DEF DropClient, GiveUp
<1> QED BY <1>1, <1>2, <1>3, SurvivingHandshake, SurvivingCaller, SurvivingTakeCommand,
           SurvivingReceive, SurvivingDeliver, SurvivingConsumer DEF Next

LEMMA StreamInit == Init => HeldOK /\ PhaseOK /\ EveryEventAccountedFor /\ LosslessSurvive
<1>1. Init => HeldOK /\ PhaseOK /\ EveryEventAccountedFor
  BY DEF Init, HeldOK, Blocked, PhaseOK, EveryEventAccountedFor, Gapless, EndOfEarly, InHand
<1>2. Init => LosslessSurvive
  <2> SUFFICES ASSUME Init PROVE LosslessSurvive
    OBVIOUS
  <2>1. /\ Len(early) = 0 /\ Len(eventQ) = 0 /\ sent \in Seq(Kinds) /\ Len(sent) = 0
        /\ skipped = 0 /\ held = None /\ Len(sent) - InHand = 0
    BY DEF Init, InHand
  <2>2. 0 \in Int /\ 0 <= Len(sent)
    BY <2>1
  <2>3. Faithful(Lagged(0, 0), sent)
    BY ONLY <2>1, <2>2, FaithfulEmpty
  <2> QED BY <2>1, <2>3 DEF LosslessSurvive
<1> QED BY <1>1, <1>2

(***************************************************************************)
(* A Lagged marker never stands for a transcript or terminal event, at any *)
(* capacity and under any interleaving of the worker, the callers and the  *)
(* consumer.                                                               *)
(***************************************************************************)
THEOREM LosslessEventsSurvive == Spec => []LosslessSurvive
BY StreamInit, TypeInit, TypeInductive, HeldInvariant, PhaseInvariant,
   SurvivingInvariant, PTL DEF Spec

-----------------------------------------------------------------------------
(* The client implements EventStream. *)

LEMMA TakeEventRefines ==
  ASSUME TypeOK, NEW e \in Elements, Faithful(e, sent), e.at = consumed + e.width,
         TakeEvent(e), UNCHANGED sent
  PROVE  Stream!Next \/ UNCHANGED <<sent, consumed>>
<1>0. /\ consumed \in Nat /\ e.width \in Nat /\ Len(sent) \in Nat
      /\ consumed' = consumed + e.width /\ consumed + e.width <= Len(sent)
  BY DEF TypeOK, Elements, TakeEvent, Faithful
<1>1. CASE e.kind \in Kinds
  <2>1. e.width = 1
    BY <1>1 DEF Faithful
  <2> QED BY <1>0, <2>1 DEF Stream!Next, Stream!Receive
<1>2. CASE e.width = 0
  BY <1>0, <1>2
<1>3. CASE e.kind = "lagged" /\ e.width # 0
  <2>1. e.width \in 1..(Len(sent) - consumed)
    BY <1>0, <1>3
  <2>2. \A i \in (consumed + 1)..(consumed + e.width) : sent[i] \notin LosslessKinds
    BY <1>0, <1>3 DEF Faithful, Covers
  <2> QED BY <1>0, <2>1, <2>2 DEF Stream!Next, Stream!Skip
<1> QED BY <1>1, <1>2, <1>3 DEF Elements, Faithful

LEMMA StreamStep ==
  TypeOK /\ EveryEventAccountedFor /\ LosslessSurvive /\ [Next]_vars
    => [Stream!Next]_<<sent, consumed>>
<1> SUFFICES ASSUME TypeOK, EveryEventAccountedFor, LosslessSurvive, [Next]_vars
             PROVE  Stream!Next \/ UNCHANGED <<sent, consumed>>
  OBVIOUS
<1>1. ASSUME NEW kind \in Kinds, sent' = Append(sent, kind), UNCHANGED consumed
      PROVE  Stream!Next
  BY <1>1 DEF Stream!Next, Stream!Emit
<1>2. CASE Handshake
  BY <1>1, <1>2 DEF Handshake, HandshakeEvent, HandshakeDone, HandshakeFails
<1>3. ASSUME NEW c \in Calls, CallerStep(c) PROVE UNCHANGED <<sent, consumed>>
  BY <1>3 DEF CallerStep, Call, HandleRequest, Answer, Shutdown, SendCommand,
     SendCommandFails, RequestTimesOut, AbortWorker
<1>4. CASE TakeCommand
  BY <1>4 DEF TakeCommand, TakeRequest, TakeNotifyOrAnswer, TakeShutdown, CommandsClosed
<1>5. CASE Receive
  <2>1. \/ UNCHANGED <<sent, consumed>>
        \/ (\E kind \in Kinds : sent' = Append(sent, kind)) /\ UNCHANGED consumed
    <3>1. "lossless" \in Kinds
      BY DEF Kinds
    <3> QED BY <1>5, <3>1 DEF Receive, ReceiveResponse, ReceiveLossless, ReceiveBestEffort,
               DropBestEffort, ReceiveAfterClose, StreamEnds
  <2> QED BY <1>1, <2>1
<1>6. CASE Deliver
  BY <1>6 DEF Deliver, FlushMarker, SendHeld, SendFails
<1>7. CASE NextEvent
  <2>0. open /\ Accounting /\ Surviving /\ UNCHANGED sent
    BY <1>7 DEF NextEvent, Exclusive, EveryEventAccountedFor, LosslessSurvive,
       Accounting, Marked, Surviving
  <2>1. CASE early # <<>> /\ TakeEvent(Head(early))
    <3>1. Head(early) \in Elements /\ Head(early) = early[1] /\ 1 \in 1..Len(early)
      BY <2>1, HeadTailProperties, EmptySeq DEF TypeOK
    <3>2. Faithful(Head(early), sent) /\ Head(early).at = consumed + Head(early).width
      BY <2>0, <2>1, <3>1 DEF Surviving, Accounting, Gapless
    <3> QED BY <2>0, <2>1, <3>1, <3>2, TakeEventRefines
  <2>2. CASE early = <<>> /\ eventQ # <<>> /\ TakeEvent(Head(eventQ))
    <3>1. Head(eventQ) \in Elements /\ Head(eventQ) = eventQ[1] /\ 1 \in 1..Len(eventQ)
      BY <2>2, HeadTailProperties, EmptySeq DEF TypeOK
    <3>2. Faithful(Head(eventQ), sent) /\ Head(eventQ).at = consumed + Head(eventQ).width
      BY <2>0, <2>2, <3>1 DEF Surviving, Accounting, Gapless, EndOfEarly
    <3> QED BY <2>0, <2>2, <3>1, <3>2, TakeEventRefines
  <2> QED BY <1>7, <2>1, <2>2 DEF NextEvent
<1>8. CASE DropClient
  BY <1>8 DEF DropClient
<1>9. CASE UNCHANGED vars
  BY <1>9 DEF vars, clientVars
<1> QED BY <1>2, <1>3, <1>4, <1>5, <1>6, <1>7, <1>8, <1>9 DEF Next

(***************************************************************************)
(* The client implements EventStream: the consumer only ever moves forward *)
(* along the server's stream, by one event or over a counted run of events *)
(* of which none is lossless.                                              *)
(***************************************************************************)
THEOREM ImplementsEventStream == Spec => StreamRefined
<1>1. Init => Stream!Init
  BY DEF Init, Stream!Init
<1> QED BY <1>1, StreamInit, TypeInit, TypeInductive, HeldInvariant, PhaseInvariant,
           AccountingInvariant, SurvivingInvariant, StreamStep, PTL DEF Spec, StreamRefined

-----------------------------------------------------------------------------
(* No caller is forgotten, and no request of the server. *)

\* A call for a request names an id, an answer a request that was handed over.
ArgsOK ==
  \A c \in Calls : /\ call[c].kind \in RequestKinds => call[c].arg \in RequestIds
                   /\ call[c].kind = "answer" => call[c].arg \in got

\* What is in the command channel was sent, once; only a request may have
\* timed out since.
CommandOK(c) == /\ call[c].state \notin {"idle", "sending"}
                /\ call[c].kind \notin RequestKinds => call[c].state = "waiting"

CommandsOK == /\ \A k \in 1..Len(commands) : CommandOK(commands[k])
              /\ \A k, m \in 1..Len(commands) : commands[k] = commands[m] => k = m

\* Only requests are pending.
PendingOK ==
  \A id \in RequestIds :
    pending[id] # None => /\ call[pending[id]].kind \in RequestKinds
                          /\ call[pending[id]].state \notin {"idle", "sending"}

IsAnswer(c, i) == call[c].kind = "answer" /\ call[c].arg = i

\* Of the answers to one request all but one have failed, the one under way
\* is its first, and an answered request that was handed over has its answer.
AnswersOK ==
  /\ \A c \in Calls, i \in got : IsAnswer(c, i) /\ InFlight(c) => answered[i] = 0
  /\ \A c, d \in Calls, i \in got :
       IsAnswer(c, i) /\ IsAnswer(d, i) /\ c # d
         => call[c].state \in {"ioError", "closed"} \/ call[d].state \in {"ioError", "closed"}
  /\ \A i \in got : answered[i] # 0 => \E c \in Calls : IsAnswer(c, i) /\ call[c].state = "ok"

\* The positions of the server requests in a queue, and that each is there once.
Asked(q) == {q[k].at : k \in {j \in 1..Len(q) : q[j].kind = "request"}}
Once(q) == \A k, m \in 1..Len(q) :
             q[k].kind = "request" /\ q[m].kind = "request" /\ q[k].at = q[m].at => k = m

QueuesOK ==
  /\ Once(early) /\ Once(eventQ) /\ Asked(early) \cap Asked(eventQ) = {}
  /\ \A i \in Asked(early) \cup Asked(eventQ) :
       /\ i \in 1..Len(sent)
       /\ sent[i] = "request"
       /\ i \notin got
       /\ answered[i] = 0

StreamOK ==
  /\ Len(sent) <= MaxEvents
  /\ got \subseteq 1..Len(sent)
  /\ \A i \in 1..MaxEvents : answered[i] <= 1 /\ (i > Len(sent) => answered[i] = 0)

NoneUnanswered ==
  open /\ worker # "exited" =>
    \A i \in 1..Len(sent) :
      sent[i] = "request" => i \in Asked(early) \cup Asked(eventQ) \cup got \/ answered[i] = 1

-----------------------------------------------------------------------------
(* How a call moves on: its kind and argument never change once issued. *)

Advances(c) == /\ call'[c].kind = call[c].kind
               /\ call'[c].arg = call[c].arg
               /\ call'[c].state # call[c].state
                    => /\ call[c].state \in {"sending", "waiting"}
                       /\ call'[c].state \in Outcomes \cup {"waiting"}

LEMMA SettleShape ==
  ASSUME TypeOK, NEW cs, NEW outcome \in Outcomes, NEW c \in Calls
  PROVE  /\ Settle(cs, outcome)[c].kind = call[c].kind
         /\ Settle(cs, outcome)[c].arg = call[c].arg
         /\ Settle(cs, outcome)[c].state = IF c \in cs /\ call[c].state = "waiting"
                                           THEN outcome ELSE call[c].state
BY DEF TypeOK, Settle, CallRecords

LEMMA ExitShape ==
  ASSUME NEW settled \in [Calls -> CallRecords], Exit(settled), NEW c \in Calls
  PROVE  /\ call'[c].kind = settled[c].kind
         /\ call'[c].arg = settled[c].arg
         /\ call'[c].state = IF settled[c].state = "waiting" THEN "closed" ELSE settled[c].state
BY DEF Exit, CallRecords

LEMMA ExitAdvances ==
  ASSUME TypeOK, Exit(call), NEW c \in Calls
  PROVE  Advances(c)
BY ExitShape DEF TypeOK, Advances, Outcomes

LEMMA SettleAdvances ==
  ASSUME TypeOK, NEW cs, NEW outcome \in Outcomes, NEW c \in Calls,
         \/ call' = Settle(cs, outcome)
         \/ Exit(Settle(cs, outcome))
         \/ \E left : Disconnect(Settle(cs, outcome), left)
  PROVE  Advances(c)
<1>1. Settle(cs, outcome) \in [Calls -> CallRecords]
  BY SettleType DEF TypeOK
<1>2. CASE call' = Settle(cs, outcome)
  BY <1>2, SettleShape DEF Advances
<1>3. CASE Exit(Settle(cs, outcome))
  BY <1>1, <1>3, SettleShape, ExitShape DEF Advances, Outcomes
<1> QED BY <1>2, <1>3 DEF Disconnect

LEMMA CallerAdvances ==
  ASSUME TypeOK, NEW d \in Calls, CallerStep(d), NEW c \in Calls
  PROVE  Advances(c) \/ (c = d /\ call[c].state = "idle" /\ call'[c].state = "sending")
<1>0. ASSUME NEW kind, NEW arg, Issue(d, kind, arg)
      PROVE  Advances(c) \/ (c = d /\ call[c].state = "idle" /\ call'[c].state = "sending")
  BY <1>0 DEF TypeOK, Issue, Advances, CallRecords
<1>1. CASE Call(d) \/ HandleRequest(d) \/ Answer(d) \/ Shutdown(d)
  BY <1>0, <1>1 DEF Call, HandleRequest, Answer, Shutdown
<1>2. CASE SendCommand(d) \/ SendCommandFails(d) \/ RequestTimesOut(d)
  BY <1>2 DEF TypeOK, SendCommand, SendCommandFails, RequestTimesOut, Advances, CallRecords, Outcomes
<1>3. CASE AbortWorker(d)
  BY <1>3, ExitAdvances DEF AbortWorker
<1> QED BY <1>1, <1>2, <1>3 DEF CallerStep

LEMMA OthersAdvance ==
  ASSUME TypeOK, NEW c \in Calls,
         Handshake \/ TakeCommand \/ Receive \/ Deliver \/ NextEvent \/ DropClient \/ UNCHANGED vars
  PROVE  Advances(c)
<1>0. CASE call' = call
  BY <1>0 DEF Advances
<1>1. CASE Handshake \/ NextEvent \/ DropClient \/ UNCHANGED vars
  BY <1>0, <1>1 DEF Handshake, HandshakeEvent, HandshakeDone, HandshakeFails, NextEvent, DropClient,
     vars, clientVars
<1>2. CASE TakeCommand
  <2>0. "ok" \in Outcomes /\ "ioError" \in Outcomes /\ "duplicate" \in Outcomes
    BY DEF Outcomes
  <2>1. CASE TakeRequest
    BY <1>0, <2>0, <2>1, SettleAdvances DEF TakeRequest
  <2>2. CASE TakeNotifyOrAnswer
    BY <2>0, <2>2, SettleAdvances DEF TakeNotifyOrAnswer
  <2>3. CASE TakeShutdown
    BY <2>0, <2>3, SettleAdvances DEF TakeShutdown
  <2>4. CASE CommandsClosed
    BY <2>4, ExitAdvances DEF CommandsClosed
  <2> QED BY <1>2, <2>1, <2>2, <2>3, <2>4 DEF TakeCommand
<1>3. CASE Receive
  <2>1. ASSUME NEW id \in RequestIds, ReceiveResponse(id) PROVE Advances(c)
    BY <2>1, SettleAdvances DEF ReceiveResponse, Outcomes
  <2>2. CASE StreamEnds
    BY <1>0, <2>2, ExitAdvances DEF StreamEnds, Disconnect
  <2>3. CASE ReceiveAfterClose \/ ReceiveLossless
    BY <1>0, <2>3, ExitAdvances DEF ReceiveAfterClose, ReceiveLossless
  <2>4. ASSUME NEW kind \in Kinds \ LosslessKinds, ReceiveBestEffort(kind) \/ DropBestEffort(kind)
        PROVE  Advances(c)
    BY <1>0, <2>4, ExitAdvances DEF ReceiveBestEffort, DropBestEffort
  <2> QED BY <1>3, <2>1, <2>2, <2>3, <2>4 DEF Receive
<1>4. CASE Deliver
  BY <1>0, <1>4, ExitAdvances DEF Deliver, FlushMarker, SendHeld, SendFails
<1> QED BY <1>1, <1>2, <1>3, <1>4

LEMMA GotGrows == TypeOK /\ [Next]_vars => got \subseteq got'
BY DEF Next, Handshake, HandshakeEvent, HandshakeDone, HandshakeFails, CallerStep, Call,
   HandleRequest, Answer, Shutdown, GiveUp, SendCommand, SendCommandFails, RequestTimesOut,
   AbortWorker, TakeCommand, TakeRequest, TakeNotifyOrAnswer, TakeShutdown, CommandsClosed,
   Receive, ReceiveResponse, ReceiveLossless, ReceiveBestEffort, DropBestEffort,
   ReceiveAfterClose, StreamEnds, Deliver, FlushMarker, SendHeld, SendFails, NextEvent, TakeEvent,
   DropClient, vars, clientVars

LEMMA ArgsInvariant == TypeOK /\ ArgsOK /\ [Next]_vars => ArgsOK'
<1> SUFFICES ASSUME TypeOK, ArgsOK, [Next]_vars, NEW c \in Calls
             PROVE  /\ call'[c].kind \in RequestKinds => call'[c].arg \in RequestIds
                    /\ call'[c].kind = "answer" => call'[c].arg \in got'
  BY DEF ArgsOK
<1>0. CASE Advances(c)
  BY <1>0, GotGrows DEF ArgsOK, Advances
<1>1. ASSUME NEW d \in Calls, CallerStep(d)
      PROVE  /\ call'[c].kind \in RequestKinds => call'[c].arg \in RequestIds
             /\ call'[c].kind = "answer" => call'[c].arg \in got'
  <2>0. ASSUME NEW kind, NEW arg, Issue(d, kind, arg),
               kind \in RequestKinds => arg \in RequestIds, kind = "answer" => arg \in got
        PROVE  /\ call'[c].kind \in RequestKinds => call'[c].arg \in RequestIds
               /\ call'[c].kind = "answer" => call'[c].arg \in got'
    BY <2>0, GotGrows DEF ArgsOK, Issue, TypeOK
  <2>1. CASE Call(d)
    BY <2>0, <2>1 DEF Call, RequestKinds
  <2>2. CASE HandleRequest(d)
    BY <2>0, <2>2 DEF HandleRequest
  <2>3. CASE Answer(d)
    BY <2>0, <2>3 DEF Answer, RequestKinds
  <2>4. CASE Shutdown(d)
    BY <2>0, <2>4 DEF Shutdown, RequestKinds
  <2>5. CASE SendCommand(d) \/ SendCommandFails(d) \/ RequestTimesOut(d) \/ AbortWorker(d)
    <3>1. call[d].state # "idle"
      BY <2>5 DEF SendCommand, SendCommandFails, RequestTimesOut, AbortWorker, Outcomes
    <3> QED BY <1>0, <1>1, <3>1, CallerAdvances
  <2> QED BY <1>1, <2>1, <2>2, <2>3, <2>4, <2>5 DEF CallerStep
<1> QED BY <1>0, <1>1, OthersAdvance DEF Next

LEMMA ArgsInit == Init => ArgsOK
<1> SUFFICES ASSUME Init, NEW c \in Calls
             PROVE  call[c].kind \notin RequestKinds /\ call[c].kind # "answer"
  BY DEF ArgsOK
<1> QED BY DEF Init, NoCall, RequestKinds

-----------------------------------------------------------------------------
(* No caller is forgotten. *)

Known(c) == /\ worker # "exited"
            /\ \/ \E k \in 1..Len(commands) : commands[k] = c
               \/ call[c].kind \in RequestKinds /\ pending[call[c].arg] = c

\* Leaving the loop lets every caller know.
LEMMA NoneWaitsAfterExit ==
  ASSUME NEW settled \in [Calls -> CallRecords], Exit(settled), NEW c \in Calls
  PROVE  call'[c].state # "waiting"
BY ExitShape

\* Taking the front command tells its caller, and keeps the others in the queue.
LEMMA FrontTaken ==
  ASSUME TypeOK, commands # <<>>, commands' = Tail(commands), NEW c \in Calls, c # Front,
         \E k \in 1..Len(commands) : commands[k] = c
  PROVE  \E k \in 1..Len(commands') : commands'[k] = c
<1>1. PICK k \in 1..Len(commands) : commands[k] = c
  OBVIOUS
<1>2. /\ Len(commands) \in Nat \ {0} /\ Front = commands[1]
      /\ Len(commands') = Len(commands) - 1
      /\ \A m \in 1..Len(commands') : commands'[m] = commands[m + 1]
  <2>1. Len(commands) \in Nat \ {0} /\ Front = commands[1]
    BY EmptySeq DEF TypeOK, Front
  <2> QED BY <2>1, HeadTailProperties DEF TypeOK
<1>3. k # 1 /\ k - 1 \in 1..Len(commands') /\ (k - 1) + 1 = k
  BY <1>1, <1>2
<1> QED BY <1>1, <1>2, <1>3

LEMMA FrontSettled ==
  ASSUME TypeOK, NEW outcome \in Outcomes, NEW c \in Calls,
         Settle({Front}, outcome)[c].state = "waiting"
  PROVE  c # Front /\ call[c].state = "waiting" /\ Settle({Front}, outcome)[c] = call[c]
BY SettleShape DEF Settle, Outcomes

LEMMA KnownTakeCommand ==
  ASSUME TypeOK, ArgsOK, NoCallForgotten, TakeCommand, NEW c \in Calls, call'[c].state = "waiting"
  PROVE  Known(c)'
<1>0. "ok" \in Outcomes /\ "ioError" \in Outcomes /\ "duplicate" \in Outcomes
  BY DEF Outcomes
<1>1. \A outcome \in Outcomes : Settle({Front}, outcome) \in [Calls -> CallRecords]
  BY SettleType DEF TypeOK
\* What is left when the front command is taken and its caller told.
<1>2. ASSUME NEW outcome \in Outcomes, call' = Settle({Front}, outcome), commands # <<>>,
             commands' = Tail(commands), pending' = pending, worker' # "exited"
      PROVE  Known(c)'
  <2>1. c # Front /\ call[c].state = "waiting" /\ call'[c] = call[c]
    BY <1>2, FrontSettled
  <2>2. CASE \E k \in 1..Len(commands) : commands[k] = c
    BY <1>2, <2>1, <2>2, FrontTaken DEF Known
  <2>3. CASE call[c].kind \in RequestKinds /\ pending[call[c].arg] = c
    BY <1>2, <2>1, <2>3 DEF Known
  <2> QED BY <2>1, <2>2, <2>3 DEF NoCallForgotten
<1>3. CASE TakeRequest
  <2> DEFINE id == call[Front].arg
  <2>0. commands # <<>> /\ Front \in Calls /\ id \in RequestIds /\ worker = "select"
    BY <1>3 DEF TakeRequest, TypeOK, Front, ArgsOK
  <2>1. CASE /\ call' = Settle({Front}, "duplicate")
             /\ commands' = Tail(commands)
             /\ UNCHANGED <<worker, held, pending>>
    BY <1>0, <1>2, <2>0, <2>1
  <2>2. CASE /\ pending[id] = None
             /\ commands' = Tail(commands)
             /\ pending' = [pending EXCEPT ![id] = Front]
             /\ UNCHANGED <<worker, held, call>>
    <3>1. CASE c = Front
      BY <1>3, <2>0, <2>2, <3>1 DEF TakeRequest, Known, TypeOK
    <3>2. CASE c # Front /\ \E k \in 1..Len(commands) : commands[k] = c
      BY <2>0, <2>2, <3>2, FrontTaken DEF Known
    <3>3. CASE call[c].kind \in RequestKinds /\ pending[call[c].arg] = c
      <4>1. call[c].arg \in RequestIds /\ call[c].arg # id
        BY <2>2, <3>3, NoneAssumption DEF ArgsOK
      <4> QED BY <2>0, <2>2, <3>3, <4>1 DEF Known, TypeOK
    <3> QED BY <2>2, <3>1, <3>2, <3>3 DEF NoCallForgotten
  <2>3. CASE Disconnect(Settle({Front}, "ioError"), Tail(commands))
    <3>1. CASE open
      <4>1. worker' # "exited" /\ call' = Settle({Front}, "ioError") /\ commands' = Tail(commands)
            /\ pending' = pending
        BY <2>3, <3>1 DEF Disconnect, Block
      <4> QED BY <1>0, <1>2, <2>0, <4>1
    <3>2. CASE ~open
      BY <1>0, <1>1, <2>3, <3>2, NoneWaitsAfterExit DEF Disconnect
    <3> QED BY <3>1, <3>2
  <2> QED BY <1>3, <2>1, <2>2, <2>3 DEF TakeRequest
<1>4. CASE TakeNotifyOrAnswer
  <2>1. PICK outcome \in {"ok", "ioError"} : call' = Settle({Front}, outcome)
    BY <1>4 DEF TakeNotifyOrAnswer
  <2>2. commands # <<>> /\ commands' = Tail(commands) /\ pending' = pending /\ worker' = "select"
    BY <1>4 DEF TakeNotifyOrAnswer
  <2> QED BY <1>0, <1>2, <2>1, <2>2
<1>5. CASE TakeShutdown
  BY <1>0, <1>1, <1>5, NoneWaitsAfterExit DEF TakeShutdown
<1>6. CASE CommandsClosed
  BY <1>6, NoneWaitsAfterExit DEF CommandsClosed, TypeOK
<1> QED BY <1>3, <1>4, <1>5, <1>6 DEF TakeCommand

LEMMA KnownUnchanged ==
  ASSUME NoCallForgotten, NEW c \in Calls, call'[c].state = "waiting",
         UNCHANGED <<call, commands, pending>>, worker # "exited" => worker' # "exited"
  PROVE  Known(c)'
BY DEF NoCallForgotten, Known

LEMMA KnownCaller ==
  ASSUME TypeOK, NoCallForgotten, NEW d \in Calls, CallerStep(d),
         NEW c \in Calls, call'[c].state = "waiting"
  PROVE  Known(c)'
<1>1. CASE Call(d) \/ HandleRequest(d) \/ Answer(d) \/ Shutdown(d)
  <2>1. /\ UNCHANGED <<worker, commands, pending>>
        /\ \E kind, arg : Issue(d, kind, arg)
    BY <1>1 DEF Call, HandleRequest, Answer, Shutdown
  <2>2. c # d /\ call'[c] = call[c]
    BY <2>1 DEF Issue, TypeOK
  <2> QED BY <2>1, <2>2 DEF NoCallForgotten, Known
<1>2. CASE SendCommand(d)
  <2>1. /\ commands' = Append(commands, d) /\ commands \in Seq(Calls)
        /\ worker' = worker /\ worker # "exited" /\ pending' = pending
    BY <1>2 DEF SendCommand, TypeOK
  <2>2. /\ Len(commands') = Len(commands) + 1 /\ Len(commands) \in Nat
        /\ commands'[Len(commands) + 1] = d
        /\ \A k \in 1..Len(commands) : commands'[k] = commands[k]
    BY <2>1
  <2>3. CASE c = d
    BY <2>1, <2>2, <2>3 DEF Known
  <2>4. CASE c # d
    <3>1. call'[c] = call[c]
      BY <1>2, <2>4 DEF SendCommand, TypeOK
    <3>2. CASE \E k \in 1..Len(commands) : commands[k] = c
      BY <2>1, <2>2, <3>2 DEF Known
    <3> QED BY <2>1, <3>1, <3>2 DEF NoCallForgotten, Known
  <2> QED BY <2>3, <2>4
<1>3. CASE SendCommandFails(d) \/ RequestTimesOut(d)
  <2>1. UNCHANGED <<worker, commands, pending>>
    BY <1>3 DEF SendCommandFails, RequestTimesOut
  <2>2. c # d /\ call'[c] = call[c]
    BY <1>3 DEF SendCommandFails, RequestTimesOut, TypeOK, CallRecords
  <2> QED BY <2>1, <2>2 DEF NoCallForgotten, Known
<1>4. CASE AbortWorker(d)
  BY <1>4, NoneWaitsAfterExit DEF AbortWorker, TypeOK
<1> QED BY <1>1, <1>2, <1>3, <1>4 DEF CallerStep

LEMMA KnownReceive ==
  ASSUME TypeOK, ArgsOK, NoCallForgotten, Receive, NEW c \in Calls, call'[c].state = "waiting"
  PROVE  Known(c)'
<1>1. ASSUME NEW id \in RequestIds, ReceiveResponse(id) PROVE Known(c)'
  <2>1. /\ call[c].state = "waiting" /\ c # pending[id]
        /\ call'[c].kind = call[c].kind /\ call'[c].arg = call[c].arg
    BY <1>1, SettleShape DEF ReceiveResponse, Outcomes
  <2>2. CASE \E k \in 1..Len(commands) : commands[k] = c
    BY <1>1, <2>2 DEF ReceiveResponse, Known
  <2>3. CASE call[c].kind \in RequestKinds /\ pending[call[c].arg] = c
    <3>1. call[c].arg \in RequestIds /\ call[c].arg # id
      BY <2>1, <2>3 DEF ArgsOK
    <3> QED BY <1>1, <2>1, <2>3, <3>1 DEF ReceiveResponse, Known, TypeOK
  <2> QED BY <2>1, <2>2, <2>3 DEF NoCallForgotten
<1>2. CASE StreamEnds
  <2>1. CASE open
    BY <1>2, <2>1, KnownUnchanged DEF StreamEnds, Disconnect, Block
  <2>2. CASE ~open
    BY <1>2, <2>2, NoneWaitsAfterExit DEF StreamEnds, Disconnect, TypeOK
  <2> QED BY <2>1, <2>2
<1>3. CASE ReceiveLossless
  BY <1>3, KnownUnchanged DEF ReceiveLossless, Block
<1>4. CASE ReceiveAfterClose
  BY <1>4, NoneWaitsAfterExit DEF ReceiveAfterClose, TypeOK
<1>5. ASSUME NEW kind \in Kinds \ LosslessKinds, ReceiveBestEffort(kind) PROVE Known(c)'
  BY <1>5, KnownUnchanged DEF ReceiveBestEffort
<1>6. ASSUME NEW kind \in Kinds \ LosslessKinds, DropBestEffort(kind) PROVE Known(c)'
  <2>1. UNCHANGED <<worker, held, commands, pending, call>> \/ Exit(call)
    BY <1>6 DEF DropBestEffort
  <2> QED BY <2>1, KnownUnchanged, NoneWaitsAfterExit DEF TypeOK
<1> QED BY <1>1, <1>2, <1>3, <1>4, <1>5, <1>6 DEF Receive

LEMMA NoCallForgottenInvariant ==
  TypeOK /\ ArgsOK /\ NoCallForgotten /\ [Next]_vars => NoCallForgotten'
<1> SUFFICES ASSUME TypeOK, ArgsOK, NoCallForgotten, [Next]_vars,
                    NEW c \in Calls, call'[c].state = "waiting"
             PROVE  Known(c)'
  BY DEF NoCallForgotten, Known
<1>1. CASE Handshake \/ NextEvent \/ DropClient \/ UNCHANGED vars
  BY <1>1, KnownUnchanged DEF Handshake, HandshakeEvent, HandshakeDone, HandshakeFails, NextEvent,
     DropClient, vars, clientVars
<1>2. CASE Deliver
  <2>1. (UNCHANGED <<call, commands, pending>> /\ worker' # "exited") \/ Exit(call)
    BY <1>2 DEF Deliver, FlushMarker, SendHeld, SendFails
  <2> QED BY <2>1, KnownUnchanged, NoneWaitsAfterExit DEF TypeOK
<1> QED BY <1>1, <1>2, KnownTakeCommand, KnownCaller, KnownReceive DEF Next

(***************************************************************************)
(* For any number of calls, ids and places in the channels: a call whose   *)
(* command has been sent to the worker waits in the command channel or in  *)
(* pending_requests of remote.rs, and none still waits once the worker has *)
(* left its loop.                                                          *)
(***************************************************************************)
THEOREM NoCallerForgotten == Spec => []NoCallForgotten
<1>1. Init => NoCallForgotten
  <2> SUFFICES ASSUME Init, NEW c \in Calls PROVE call[c].state # "waiting"
    BY DEF NoCallForgotten
  <2> QED BY DEF Init, NoCall
<1>2. Init => HeldOK
  BY DEF Init, HeldOK, Blocked
<1> QED BY <1>1, <1>2, TypeInit, TypeInductive, HeldInvariant, ArgsInit, ArgsInvariant,
           NoCallForgottenInvariant, PTL DEF Spec

-----------------------------------------------------------------------------
(* Each request of the server is handed over or rejected. *)

LEMMA CommandStays ==
  ASSUME TypeOK, NEW c \in Calls, CommandOK(c), Advances(c),
         call'[c] = call[c] \/ call[c].kind \in RequestKinds
  PROVE  CommandOK(c)'
BY DEF CommandOK, Advances, Outcomes

\* The commands behind the front one are others.
LEMMA BehindFront ==
  ASSUME TypeOK, CommandsOK, commands # <<>>
  PROVE  /\ \A m \in 1..Len(Tail(commands)) :
              Tail(commands)[m] \in Calls \ {Front} /\ CommandOK(Tail(commands)[m])
         /\ \A k, m \in 1..Len(Tail(commands)) : Tail(commands)[k] = Tail(commands)[m] => k = m
         /\ CommandOK(Front) /\ Front \in Calls
<1>1. /\ Len(commands) \in Nat \ {0} /\ Front = commands[1]
      /\ Len(Tail(commands)) = Len(commands) - 1
      /\ \A m \in 1..Len(Tail(commands)) : Tail(commands)[m] = commands[m + 1]
  <2>1. Len(commands) \in Nat \ {0} /\ Front = commands[1]
    BY EmptySeq DEF TypeOK, Front
  <2> QED BY <2>1, HeadTailProperties DEF TypeOK
<1>2. \A m \in 1..Len(Tail(commands)) : m + 1 \in 1..Len(commands) /\ m + 1 # 1
  BY <1>1
<1>3. \A m \in 1..Len(commands) : commands[m] \in Calls
  BY DEF TypeOK
<1>4. 1 \in 1..Len(commands)
  BY <1>1
<1>5. \A k, m \in 1..Len(Tail(commands)) : k + 1 = m + 1 => k = m
  BY <1>1
<1> QED BY <1>1, <1>2, <1>3, <1>4, <1>5 DEF CommandsOK

LEMMA CommandsKept ==
  ASSUME TypeOK, CommandsOK, commands' = commands,
         \A c \in Calls : CommandOK(c) => CommandOK(c)'
  PROVE  CommandsOK'
<1>1. \A k \in 1..Len(commands) : commands[k] \in Calls
  BY DEF TypeOK
<1> QED BY <1>1 DEF CommandsOK

LEMMA CommandsTaken ==
  ASSUME TypeOK, CommandsOK, commands # <<>>, commands' = Tail(commands),
         \A c \in Calls \ {Front} : call'[c] = call[c]
  PROVE  CommandsOK'
BY BehindFront DEF CommandsOK, CommandOK

LEMMA CommandsEmpty == commands' = <<>> => CommandsOK'
BY DEF CommandsOK

LEMMA SettleOthers ==
  ASSUME TypeOK, NEW d, NEW outcome, NEW c \in Calls, c # d
  PROVE  Settle({d}, outcome)[c] = call[c]
BY DEF Settle

LEMMA CommandsCaller ==
  ASSUME TypeOK, CommandsOK, NEW d \in Calls, CallerStep(d)
  PROVE  CommandsOK'
<1>1. CASE Call(d) \/ HandleRequest(d) \/ Answer(d) \/ Shutdown(d)
  <2>1. commands' = commands /\ \E kind, arg : Issue(d, kind, arg)
    BY <1>1 DEF Call, HandleRequest, Answer, Shutdown
  <2>2. \A c \in Calls : CommandOK(c) => call'[c] = call[c]
    BY <2>1 DEF Issue, CommandOK, TypeOK
  <2> QED BY <2>1, <2>2, CommandsKept DEF CommandOK
<1>2. CASE SendCommand(d)
  <2>1. /\ commands' = Append(commands, d) /\ commands \in Seq(Calls)
        /\ ~CommandOK(d)
    BY <1>2 DEF SendCommand, TypeOK, CommandOK
  <2>2. /\ Len(commands') = Len(commands) + 1 /\ Len(commands) \in Nat
        /\ commands'[Len(commands) + 1] = d
        /\ \A k \in 1..Len(commands) : commands'[k] = commands[k] /\ commands[k] \in Calls
    BY <2>1
  <2>3. CommandOK(d)'
    BY <1>2 DEF SendCommand, TypeOK, CommandOK, CallRecords
  <2>4. \A k \in 1..Len(commands) : commands[k] # d /\ call'[commands[k]] = call[commands[k]]
    BY <1>2, <2>1, <2>2 DEF SendCommand, TypeOK, CommandsOK
  <2>5. \A k \in 1..Len(commands') : CommandOK(commands[k])' 
    <3> SUFFICES ASSUME NEW k \in 1..Len(commands') PROVE CommandOK(commands[k])'
      OBVIOUS
    <3>1. CASE k \in 1..Len(commands)
      BY <2>2, <2>4, <3>1 DEF CommandsOK, CommandOK
    <3>2. CASE k = Len(commands) + 1
      BY <2>2, <2>3, <3>2 DEF CommandOK
    <3> QED BY <2>2, <3>1, <3>2
  <2>6. ASSUME NEW k \in 1..Len(commands'), NEW m \in 1..Len(commands'), commands'[k] = commands'[m]
        PROVE  k = m
    BY <2>2, <2>4, <2>6 DEF CommandsOK
  <2> QED BY <2>5, <2>6 DEF CommandsOK
<1>3. CASE SendCommandFails(d) \/ RequestTimesOut(d)
  <2>1. commands' = commands
    BY <1>3 DEF SendCommandFails, RequestTimesOut
  <2>2. \A c \in Calls : CommandOK(c) => call'[c] = call[c] \/ call[c].kind \in RequestKinds
    BY <1>3 DEF SendCommandFails, RequestTimesOut, CommandOK, TypeOK
  <2>3. \A c \in Calls : Advances(c)
    BY <1>3, CallerAdvances DEF SendCommandFails, RequestTimesOut, CallerStep
  <2> QED BY <2>1, <2>2, <2>3, CommandStays, CommandsKept
<1>4. CASE AbortWorker(d)
  BY <1>4, CommandsEmpty DEF AbortWorker, Exit
<1> QED BY <1>1, <1>2, <1>3, <1>4 DEF CallerStep

LEMMA CommandsInvariant == TypeOK /\ CommandsOK /\ PendingOK /\ [Next]_vars => CommandsOK'
<1> SUFFICES ASSUME TypeOK, CommandsOK, PendingOK, [Next]_vars PROVE CommandsOK'
  OBVIOUS
<1>0. CASE UNCHANGED <<commands, call>>
  BY <1>0, CommandsKept DEF CommandOK
<1>1. CASE Handshake \/ NextEvent \/ DropClient \/ UNCHANGED vars
  BY <1>0, <1>1 DEF Handshake, HandshakeEvent, HandshakeDone, HandshakeFails, NextEvent, DropClient,
     vars, clientVars
<1>2. CASE TakeCommand
  <2>1. \/ /\ commands # <<>> /\ commands' = Tail(commands)
           /\ call' = call \/ \E outcome \in Outcomes : call' = Settle({Front}, outcome)
        \/ commands' = <<>>
    BY <1>2 DEF TakeCommand, TakeRequest, TakeNotifyOrAnswer, TakeShutdown, CommandsClosed, Disconnect,
       Exit, Outcomes
  <2>2. CASE commands # <<>> /\ commands' = Tail(commands)
             /\ (call' = call \/ \E outcome \in Outcomes : call' = Settle({Front}, outcome))
    <3>1. ASSUME NEW c \in Calls \ {Front} PROVE call'[c] = call[c]
      BY <2>2 DEF Settle
    <3> QED BY <2>2, <3>1, CommandsTaken
  <2> QED BY <2>1, <2>2, CommandsEmpty
<1>3. CASE Receive
  <2>1. ASSUME NEW id \in RequestIds, ReceiveResponse(id) PROVE CommandsOK'
    <3>1. \A c \in Calls : CommandOK(c) => call'[c] = call[c] \/ call[c].kind \in RequestKinds
      <4>1. \A c \in Calls : c # pending[id] => call'[c] = call[c]
        BY <2>1, SettleOthers DEF ReceiveResponse
      <4>2. call[pending[id]].kind \in RequestKinds
        BY <2>1 DEF ReceiveResponse, PendingOK
      <4> QED BY <4>1, <4>2
    <3>2. \A c \in Calls : Advances(c)
      BY <1>3, OthersAdvance
    <3> QED BY <2>1, <3>1, <3>2, CommandStays, CommandsKept DEF ReceiveResponse
  <2>2. CASE StreamEnds \/ ReceiveLossless \/ ReceiveAfterClose
    BY <1>0, <2>2, CommandsEmpty DEF StreamEnds, Disconnect, Exit, ReceiveLossless, ReceiveAfterClose
  <2>3. ASSUME NEW kind \in Kinds \ LosslessKinds, ReceiveBestEffort(kind) \/ DropBestEffort(kind)
        PROVE  CommandsOK'
    BY <1>0, <2>3, CommandsEmpty DEF ReceiveBestEffort, DropBestEffort, Exit
  <2> QED BY <1>3, <2>1, <2>2, <2>3 DEF Receive
<1>4. CASE Deliver
  BY <1>0, <1>4, CommandsEmpty DEF Deliver, FlushMarker, SendHeld, SendFails, Exit
<1> QED BY <1>1, <1>2, <1>3, <1>4, CommandsCaller DEF Next

LEMMA PendingInvariant == TypeOK /\ CommandsOK /\ PendingOK /\ [Next]_vars => PendingOK'
<1> SUFFICES ASSUME TypeOK, CommandsOK, PendingOK, [Next]_vars,
                    NEW id \in RequestIds, pending'[id] # None
             PROVE  /\ call'[pending'[id]].kind \in RequestKinds
                    /\ call'[pending'[id]].state \notin {"idle", "sending"}
  BY DEF PendingOK
<1> DEFINE c == pending'[id]
<1>1. /\ c \in Calls
      /\ call[c].kind \in RequestKinds /\ call[c].state \notin {"idle", "sending"}
  <2>1. CASE pending'[id] = pending[id]
    BY <2>1 DEF PendingOK, TypeOK
  <2>2. CASE TakeRequest
    <3>1. commands # <<>> /\ call[Front].kind \in RequestKinds
          /\ (pending' = pending \/ pending' = [pending EXCEPT ![call[Front].arg] = Front]
              \/ pending' = [d \in RequestIds |-> None])
      BY <2>2 DEF TakeRequest, Disconnect, Exit
    <3>2. CASE c = Front
      BY <3>1, <3>2, BehindFront DEF CommandOK
    <3> QED BY <2>1, <3>1, <3>2 DEF TypeOK
  <2>3. CASE pending' = [d \in RequestIds |-> None]
    BY <2>3
  <2>4. ASSUME NEW d \in Calls, CallerStep(d)
        PROVE  pending' = pending \/ pending' = [r \in RequestIds |-> None]
    BY <2>4 DEF CallerStep, Call, HandleRequest, Answer, Shutdown, SendCommand, SendCommandFails,
       RequestTimesOut, AbortWorker, Exit
  <2>5. CASE TakeNotifyOrAnswer \/ TakeShutdown \/ CommandsClosed
    BY <2>1, <2>3, <2>5 DEF TakeNotifyOrAnswer, TakeShutdown, CommandsClosed, Exit
  <2>6. CASE Receive
    <3>1. ASSUME NEW d \in RequestIds, ReceiveResponse(d) PROVE pending'[id] = pending[id]
      BY <3>1 DEF ReceiveResponse, TypeOK
    <3>2. ASSUME NEW kind \in Kinds \ LosslessKinds, ReceiveBestEffort(kind) \/ DropBestEffort(kind)
          PROVE  pending' = pending \/ pending' = [r \in RequestIds |-> None]
      BY <3>2 DEF ReceiveBestEffort, DropBestEffort, Exit
    <3>3. CASE StreamEnds \/ ReceiveLossless \/ ReceiveAfterClose
      BY <2>1, <2>3, <3>3 DEF StreamEnds, Disconnect, Exit, ReceiveLossless, ReceiveAfterClose
    <3> QED BY <2>1, <2>3, <2>6, <3>1, <3>2, <3>3 DEF Receive
  <2>7. CASE Handshake \/ Deliver \/ NextEvent \/ DropClient \/ UNCHANGED vars
    BY <2>1, <2>3, <2>7 DEF Handshake, HandshakeEvent, HandshakeDone, HandshakeFails, Deliver, FlushMarker,
       SendHeld, SendFails, Exit, NextEvent, DropClient, vars, clientVars
  <2> QED BY <2>1, <2>2, <2>3, <2>4, <2>5, <2>6, <2>7 DEF Next, TakeCommand
<1>2. Advances(c)
  BY <1>1, CallerAdvances, OthersAdvance DEF Next
<1> QED BY <1>1, <1>2 DEF Advances, Outcomes

LEMMA AnswersKept ==
  ASSUME TypeOK, AnswersOK, got' = got, \A i \in got : answered'[i] = answered[i],
         \A c \in Calls : Advances(c)
  PROVE  AnswersOK'
<1>1. \A i : \A c \in Calls : IsAnswer(c, i)' => IsAnswer(c, i)
  BY DEF IsAnswer, Advances
<1>2. \A c \in Calls : InFlight(c)' => InFlight(c)
  BY DEF InFlight, Advances
<1>3. \A c \in Calls : call[c].state \in {"ok", "ioError", "closed"} => call'[c].state = call[c].state
  BY DEF Advances
<1>4. \A i : \A c \in Calls : IsAnswer(c, i) => IsAnswer(c, i)'
  BY DEF IsAnswer, Advances
<1>5. \A c \in Calls, i \in got' : IsAnswer(c, i)' /\ InFlight(c)' => answered'[i] = 0
  BY <1>1, <1>2 DEF AnswersOK
<1>6. \A c, d \in Calls, i \in got' :
        IsAnswer(c, i)' /\ IsAnswer(d, i)' /\ c # d
          => call'[c].state \in {"ioError", "closed"} \/ call'[d].state \in {"ioError", "closed"}
  BY <1>1, <1>3 DEF AnswersOK
<1>7. \A i \in got' : answered'[i] # 0 => \E c \in Calls : IsAnswer(c, i)' /\ call'[c].state = "ok"
  BY <1>3, <1>4 DEF AnswersOK
<1> QED BY <1>5, <1>6, <1>7 DEF AnswersOK, IsAnswer

\* A new call that is no answer changes nothing.
LEMMA AnswersIssue ==
  ASSUME TypeOK, AnswersOK, NEW d \in Calls, NEW kind, NEW arg, Issue(d, kind, arg),
         UNCHANGED <<got, answered>>, kind # "answer"
  PROVE  AnswersOK'
<1>1. /\ call[d].state = "idle" /\ call'[d].kind # "answer"
      /\ \A c \in Calls : c # d => call'[c] = call[c]
  BY DEF Issue, TypeOK
<1>2. \A i \in got : answered[i] # 0 => \E c \in Calls : c # d /\ IsAnswer(c, i) /\ call[c].state = "ok"
  BY <1>1 DEF AnswersOK
<1> QED BY <1>1, <1>2 DEF AnswersOK, IsAnswer, InFlight

LEMMA AnswersAnswer ==
  ASSUME TypeOK, AnswersOK, NEW d \in Calls, Answer(d)
  PROVE  AnswersOK'
<1>1. PICK pos \in got :
        /\ \A c \in Calls : IsAnswer(c, pos) => call[c].state \in {"ioError", "closed"}
        /\ Issue(d, "answer", pos)
  BY DEF Answer, IsAnswer
<1>2. /\ call[d].state = "idle" /\ call'[d].kind = "answer" /\ call'[d].arg = pos
      /\ \A c \in Calls : c # d => call'[c] = call[c]
      /\ got' = got /\ answered' = answered
  BY <1>1 DEF Issue, TypeOK, Answer
<1>3. answered[pos] = 0
  BY <1>1 DEF AnswersOK
<1>4. \A i \in got : answered[i] # 0 => \E c \in Calls : c # d /\ IsAnswer(c, i) /\ call[c].state = "ok"
  BY <1>2 DEF AnswersOK
<1>5. \A c \in Calls, i \in got' : IsAnswer(c, i)' /\ InFlight(c)' => answered'[i] = 0
  BY <1>2, <1>3 DEF AnswersOK, IsAnswer, InFlight
<1>6. ASSUME NEW c \in Calls, NEW e \in Calls, NEW i \in got',
             IsAnswer(c, i)', IsAnswer(e, i)', c # e
      PROVE  call'[c].state \in {"ioError", "closed"} \/ call'[e].state \in {"ioError", "closed"}
  BY <1>1, <1>2, <1>6 DEF AnswersOK, IsAnswer
<1>7. \A i \in got' : answered'[i] # 0 => \E c \in Calls : IsAnswer(c, i)' /\ call'[c].state = "ok"
  BY <1>2, <1>4 DEF IsAnswer
<1> QED BY <1>5, <1>6, <1>7 DEF AnswersOK, IsAnswer

LEMMA AnswersWritten ==
  ASSUME TypeOK, ArgsOK, CommandsOK, StreamOK, AnswersOK, TakeNotifyOrAnswer
  PROVE  AnswersOK'
<1>f. PICK f \in Calls : f = Front /\ CommandOK(f)
  BY BehindFront DEF TakeNotifyOrAnswer
<1>0. call[f].state = "waiting" /\ got' = got /\ \A c \in Calls : Advances(c)
  BY <1>f, OthersAdvance DEF TakeNotifyOrAnswer, CommandOK, RequestKinds, TakeCommand
<1>1. CASE answered' = answered
  BY <1>0, <1>1, AnswersKept
<1>2. CASE answered' # answered
  <2>0. call[f].kind = "answer" /\ call[f].arg \in got
    BY <1>2, <1>f DEF TakeNotifyOrAnswer, ArgsOK
  <2>p. PICK pos \in got : pos = call[f].arg
    BY <2>0
  <2>1. call' = Settle({f}, "ok") /\ answered' = [answered EXCEPT ![pos] = @ + 1]
    BY <1>2, <1>f, <2>p DEF TakeNotifyOrAnswer
  <2>2. call'[f].state = "ok" /\ IsAnswer(f, pos)' /\ IsAnswer(f, pos)
    BY <1>0, <2>0, <2>p, <2>1, SettleShape DEF IsAnswer, Outcomes
  <2>3. \A c \in Calls : c # f => call'[c] = call[c]
    BY <2>1 DEF Settle
  <2>4. \A i \in got : i # pos => answered'[i] = answered[i]
    BY <2>1 DEF TypeOK, StreamOK
  <2>5. \A c \in Calls : c # f /\ IsAnswer(c, pos) => ~InFlight(c)
    BY <1>0, <2>2 DEF AnswersOK, InFlight
  <2>6. ASSUME NEW c \in Calls, NEW i \in got', IsAnswer(c, i)', InFlight(c)'
        PROVE  answered'[i] = 0
    BY <1>0, <2>2, <2>3, <2>4, <2>5, <2>6 DEF AnswersOK, IsAnswer, InFlight
  <2>7. ASSUME NEW c \in Calls, NEW d \in Calls, NEW i \in got',
               IsAnswer(c, i)', IsAnswer(d, i)', c # d
        PROVE  call'[c].state \in {"ioError", "closed"} \/ call'[d].state \in {"ioError", "closed"}
    <3>1. IsAnswer(c, i) /\ IsAnswer(d, i)
      BY <1>0, <2>7 DEF IsAnswer, Advances
    <3>2. call[c].state \in {"ioError", "closed"} \/ call[d].state \in {"ioError", "closed"}
      BY <1>0, <2>7, <3>1 DEF AnswersOK
    <3> QED BY <1>0, <3>2 DEF Advances
  <2>8. ASSUME NEW i \in got', answered'[i] # 0
        PROVE  \E c \in Calls : IsAnswer(c, i)' /\ call'[c].state = "ok"
    <3>1. CASE i = pos
      BY <1>0, <2>2, <3>1 DEF IsAnswer
    <3>2. CASE i # pos
      <4>1. PICK c \in Calls : IsAnswer(c, i) /\ call[c].state = "ok"
        BY <1>0, <2>4, <2>8, <3>2 DEF AnswersOK
      <4>2. call'[c] = call[c]
        BY <1>0, <2>3, <4>1
      <4> QED BY <4>1, <4>2 DEF IsAnswer
    <3> QED BY <3>1, <3>2
  <2> QED BY <2>6, <2>7, <2>8 DEF AnswersOK, IsAnswer
<1> QED BY <1>1, <1>2

\* What next_event hands over was queued, so nobody has answered it.
LEMMA HandedOver ==
  ASSUME TypeOK, QueuesOK, NextEvent
  PROVE  \A i \in got' \ got : i \in 1..Len(sent) /\ answered[i] = 0
<1>1. ASSUME NEW q, q \in Seq(Elements), q # <<>>, TakeEvent(Head(q)), NEW i \in got' \ got
      PROVE  i \in Asked(q)
  <2>1. Head(q) = q[1] /\ 1 \in 1..Len(q)
    BY <1>1, HeadTailProperties, EmptySeq
  <2> QED BY <1>1, <2>1 DEF TakeEvent, Asked
<1> QED BY <1>1 DEF NextEvent, QueuesOK, TypeOK

LEMMA AnswersConsumer ==
  ASSUME TypeOK, ArgsOK, QueuesOK, AnswersOK, NextEvent
  PROVE  AnswersOK'
<1>1. call' = call /\ answered' = answered /\ got \subseteq got'
  BY DEF NextEvent, TakeEvent
<1>2. \A c \in Calls, i \in got' \ got : ~IsAnswer(c, i)
  BY DEF ArgsOK, IsAnswer
<1> QED BY <1>1, <1>2, HandedOver DEF AnswersOK, IsAnswer, InFlight

LEMMA AnswersInvariant ==
  TypeOK /\ ArgsOK /\ CommandsOK /\ QueuesOK /\ StreamOK /\ AnswersOK /\ [Next]_vars => AnswersOK'
<1> SUFFICES ASSUME TypeOK, ArgsOK, CommandsOK, QueuesOK, StreamOK, AnswersOK, [Next]_vars
             PROVE  AnswersOK'
  OBVIOUS
<1>1. CASE Handshake \/ Deliver \/ DropClient \/ UNCHANGED vars
  <2>1. UNCHANGED <<got, answered>>
    BY <1>1 DEF Handshake, HandshakeEvent, HandshakeDone, HandshakeFails, Deliver, FlushMarker,
       SendHeld, SendFails, DropClient, vars, clientVars
  <2> QED BY <1>1, <2>1, AnswersKept, OthersAdvance
<1>2. ASSUME NEW d \in Calls, CallerStep(d) PROVE AnswersOK'
  <2>1. CASE Call(d) \/ HandleRequest(d) \/ Shutdown(d)
    <3>1. UNCHANGED <<got, answered>> /\ \E kind, arg : kind # "answer" /\ Issue(d, kind, arg)
      BY <2>1 DEF Call, HandleRequest, Shutdown
    <3> QED BY <3>1, AnswersIssue
  <2>2. CASE SendCommand(d) \/ SendCommandFails(d) \/ RequestTimesOut(d) \/ AbortWorker(d)
    <3>1. UNCHANGED <<got, answered>> /\ call[d].state # "idle"
      BY <2>2 DEF SendCommand, SendCommandFails, RequestTimesOut, AbortWorker, Outcomes
    <3> QED BY <1>2, <3>1, CallerAdvances, AnswersKept
  <2> QED BY <1>2, <2>1, <2>2, AnswersAnswer DEF CallerStep
<1>3. CASE TakeCommand
  <2>1. CASE TakeRequest \/ TakeShutdown \/ CommandsClosed
    <3>1. UNCHANGED <<got, answered>>
      BY <2>1 DEF TakeRequest, TakeShutdown, CommandsClosed
    <3> QED BY <1>3, <3>1, AnswersKept, OthersAdvance
  <2> QED BY <1>3, <2>1, AnswersWritten DEF TakeCommand
<1>4. CASE Receive
  <2>1. got' = got /\ \A i \in got : answered'[i] = answered[i]
    <3>1. ASSUME NEW kind \in Kinds \ LosslessKinds, DropBestEffort(kind)
          PROVE  got' = got /\ \A i \in got : answered'[i] = answered[i]
      <4>1. /\ Len(sent) + 1 \notin got /\ got \subseteq 1..MaxEvents
            /\ answered \in [1..MaxEvents -> Nat]
        BY MaxEventsAssumption DEF StreamOK, TypeOK
      <4> QED BY <3>1, <4>1 DEF DropBestEffort
    <3> QED BY <1>4, <3>1 DEF Receive, ReceiveResponse, ReceiveLossless, ReceiveBestEffort,
               ReceiveAfterClose, StreamEnds
  <2> QED BY <1>4, <2>1, AnswersKept, OthersAdvance
<1> QED BY <1>1, <1>2, <1>3, <1>4, AnswersConsumer DEF Next

\* What a queue asks for when an element is added or taken.
LEMMA AskedAppend ==
  ASSUME NEW q \in Seq(Elements), NEW e \in Elements
  PROVE  /\ Asked(Append(q, e)) = IF e.kind = "request" THEN Asked(q) \cup {e.at} ELSE Asked(q)
         /\ Once(q) /\ (e.kind = "request" => e.at \notin Asked(q)) => Once(Append(q, e))
<1> DEFINE r == Append(q, e)
<1>1. /\ Len(r) = Len(q) + 1 /\ Len(q) \in Nat /\ r[Len(q) + 1] = e
      /\ \A k \in 1..Len(q) : r[k] = q[k]
  OBVIOUS
<1>2. 1..Len(r) = 1..Len(q) \cup {Len(q) + 1}
  BY <1>1
<1> HIDE DEF r
<1>3. Asked(r) = IF e.kind = "request" THEN Asked(q) \cup {e.at} ELSE Asked(q)
  BY <1>1, <1>2 DEF Asked
<1>4. ASSUME Once(q), e.kind = "request" => e.at \notin Asked(q) PROVE Once(r)
  <2>1. \A k \in 1..Len(q) : q[k].kind = "request" => q[k].at \in Asked(q)
    BY DEF Asked
  <2> QED BY <1>1, <1>2, <1>4, <2>1 DEF Once
<1> QED BY <1>3, <1>4 DEF r

LEMMA AskedTail ==
  ASSUME NEW q \in Seq(Elements), q # <<>>, Once(q)
  PROVE  /\ Asked(q) = IF Head(q).kind = "request" THEN Asked(Tail(q)) \cup {Head(q).at}
                       ELSE Asked(Tail(q))
         /\ Head(q).kind = "request" => Head(q).at \notin Asked(Tail(q))
         /\ Once(Tail(q)) /\ Head(q) \in Elements
<1> DEFINE r == Tail(q)
<1>1. /\ Len(q) \in Nat \ {0} /\ Head(q) = q[1] /\ Head(q) \in Elements
      /\ Len(r) = Len(q) - 1 /\ r \in Seq(Elements)
      /\ \A k \in 1..Len(r) : r[k] = q[k + 1]
  <2>1. Len(q) \in Nat \ {0} /\ Head(q) = q[1] /\ Head(q) \in Elements
    BY EmptySeq
  <2> QED BY <2>1, HeadTailProperties
<1> HIDE DEF r
<1>2. /\ \A k \in 1..Len(r) : k + 1 \in 1..Len(q) /\ k + 1 # 1
      /\ \A k, m \in 1..Len(r) : k + 1 = m + 1 => k = m
      /\ \A j \in 1..Len(q) : j = 1 \/ (j - 1 \in 1..Len(r) /\ (j - 1) + 1 = j)
      /\ 1 \in 1..Len(q)
  BY <1>1
<1>3. ASSUME NEW i PROVE i \in Asked(q) <=> i \in Asked(r) \/ (Head(q).kind = "request" /\ i = Head(q).at)
  <2>1. ASSUME i \in Asked(q) PROVE i \in Asked(r) \/ (Head(q).kind = "request" /\ i = Head(q).at)
    <3>1. PICK j \in 1..Len(q) : q[j].kind = "request" /\ q[j].at = i
      BY <2>1 DEF Asked
    <3>2. CASE j = 1
      BY <1>1, <3>1, <3>2
    <3>3. CASE j # 1
      <4>1. PICK k \in 1..Len(r) : k = j - 1 /\ k + 1 = j
        BY <1>2, <3>3
      <4>2. r[k] = q[j]
        BY <1>1, <4>1
      <4> QED BY <3>1, <4>2 DEF Asked
    <3> QED BY <3>2, <3>3
  <2>2. ASSUME i \in Asked(r) PROVE i \in Asked(q)
    BY <1>1, <1>2, <2>2 DEF Asked
  <2>3. ASSUME Head(q).kind = "request", i = Head(q).at PROVE i \in Asked(q)
    BY <1>1, <1>2, <2>3 DEF Asked
  <2> QED BY <2>1, <2>2, <2>3
<1>4. Once(r)
  BY <1>1, <1>2 DEF Once
<1>5. ASSUME Head(q).kind = "request" PROVE Head(q).at \notin Asked(r)
  <2> SUFFICES ASSUME NEW k \in 1..Len(r), r[k].kind = "request", r[k].at = Head(q).at PROVE FALSE
    BY DEF Asked
  <2>1. k + 1 \in 1..Len(q) /\ 1 \in 1..Len(q) /\ k + 1 # 1 /\ q[k + 1] = r[k] /\ q[1] = Head(q)
    BY <1>1, <1>2
  <2> QED BY <1>5, <2>1 DEF Once
<1>6. Asked(q) = IF Head(q).kind = "request" THEN Asked(r) \cup {Head(q).at} ELSE Asked(r)
  BY <1>3
<1> QED BY <1>1, <1>4, <1>5, <1>6 DEF r

LEMMA AskedEmpty == Asked(<<>>) = {} /\ Once(<<>>)
BY DEF Asked, Once

\* The queues ask for nothing new, and what they ask for is as open as before.
LEMMA QueuesKept ==
  ASSUME TypeOK, QueuesOK, Once(early)', Once(eventQ)',
         Asked(early)' \subseteq Asked(early), Asked(eventQ)' \subseteq Asked(eventQ),
         sent' = sent \/ \E kind \in Kinds : sent' = Append(sent, kind),
         \A i \in Asked(early)' \cup Asked(eventQ)' : i \notin got' /\ answered'[i] = answered[i]
  PROVE  QueuesOK'
<1>1. Len(sent') \in Nat /\ Len(sent) \in Nat /\ Len(sent) <= Len(sent')
      /\ \A i \in 1..Len(sent) : sent'[i] = sent[i]
  BY DEF TypeOK
<1>2. \A i \in 1..Len(sent) : i \in 1..Len(sent')
  BY <1>1
<1> QED BY <1>1, <1>2 DEF QueuesOK

\* A request is emitted and put in one of the queues.
LEMMA QueuesGrow ==
  ASSUME TypeOK, QueuesOK, StreamOK, Len(sent) < MaxEvents, NEW kind \in Kinds,
         sent' = Append(sent, kind), UNCHANGED <<got, answered>>,
         Once(early)', Once(eventQ)',
         NEW added, added \subseteq {Len(sent) + 1}, added # {} => kind = "request",
         \/ Asked(early)' = Asked(early) \cup added /\ Asked(eventQ)' = Asked(eventQ)
         \/ Asked(early)' = Asked(early) /\ Asked(eventQ)' = Asked(eventQ) \cup added
  PROVE  QueuesOK'
<1>1. /\ Len(sent) \in Nat /\ Len(sent') = Len(sent) + 1
      /\ sent'[Len(sent) + 1] = kind /\ \A i \in 1..Len(sent) : sent'[i] = sent[i]
  BY DEF TypeOK
<1>2. \A i \in 1..Len(sent) : i \in 1..Len(sent') /\ i # Len(sent) + 1
  BY <1>1
<1>3. Len(sent) + 1 \notin got /\ answered[Len(sent) + 1] = 0 /\ Len(sent) + 1 \in 1..Len(sent')
  BY <1>1, MaxEventsAssumption DEF StreamOK
<1> QED BY <1>1, <1>2, <1>3 DEF QueuesOK

LEMMA AskedMarker ==
  ASSUME TypeOK, QueuesOK
  PROVE  Asked(WithMarker) = Asked(eventQ) /\ Once(WithMarker)
<1>1. Lagged(skipped, Len(sent)) \in Elements /\ Lagged(skipped, Len(sent)).kind # "request"
  BY LaggedType DEF TypeOK, Lagged
<1> QED BY <1>1, AskedAppend DEF WithMarker, QueuesOK, TypeOK

LEMMA QueuesHandshake ==
  ASSUME TypeOK, QueuesOK, StreamOK, Handshake
  PROVE  QueuesOK'
<1>1. CASE HandshakeEvent
  <2>1. PICK kind \in Kinds : /\ sent' = Append(sent, kind)
                              /\ early' = Append(early, Event(kind, Len(sent) + 1))
    BY <1>1 DEF HandshakeEvent
  <2>2. Event(kind, Len(sent) + 1) \in Elements
    BY EventType DEF TypeOK
  <2>3. Len(sent) \in Nat /\ Len(sent) + 1 \notin Asked(early)
    BY DEF QueuesOK, TypeOK
  <2>4. /\ Asked(early)' = Asked(early) \cup (IF kind = "request" THEN {Len(sent) + 1} ELSE {})
        /\ Once(early)'
    BY <2>1, <2>2, <2>3, AskedAppend DEF Event, QueuesOK, TypeOK
  <2>5. eventQ' = eventQ /\ UNCHANGED <<got, answered>> /\ Len(sent) < MaxEvents
    BY <1>1 DEF HandshakeEvent
  <2>6. Asked(eventQ)' = Asked(eventQ) /\ Once(eventQ)'
    BY <2>5 DEF QueuesOK
  <2>7. PICK added : added = IF kind = "request" THEN {Len(sent) + 1} ELSE {}
    OBVIOUS
  <2> QED BY <2>1, <2>4, <2>5, <2>6, <2>7, QueuesGrow
<1>2. CASE HandshakeDone
  BY <1>2 DEF HandshakeDone, QueuesOK
<1>3. CASE HandshakeFails
  BY <1>3, AskedEmpty DEF HandshakeFails, QueuesOK
<1> QED BY <1>1, <1>2, <1>3 DEF Handshake

LEMMA QueuesCaller ==
  ASSUME TypeOK, QueuesOK, NEW d \in Calls, CallerStep(d)
  PROVE  QueuesOK'
<1>1. CASE UNCHANGED <<early, eventQ, sent, got, answered>>
  BY <1>1 DEF QueuesOK
<1>2. CASE Shutdown(d)
  BY <1>2, AskedEmpty DEF Shutdown, GiveUp, QueuesOK
<1> QED BY <1>1, <1>2 DEF CallerStep, Call, HandleRequest, Answer, SendCommand, SendCommandFails,
           RequestTimesOut, AbortWorker

LEMMA QueuesTakeCommand ==
  ASSUME TypeOK, ArgsOK, QueuesOK, TakeCommand
  PROVE  QueuesOK'
<1>1. UNCHANGED <<early, eventQ, sent, got>>
  BY DEF TakeCommand, TakeRequest, TakeNotifyOrAnswer, TakeShutdown, CommandsClosed
<1>2. \A i \in Asked(early) \cup Asked(eventQ) : answered'[i] = answered[i]
  <2>1. CASE answered' = answered
    BY <2>1
  <2>2. CASE answered' # answered
    <3>1. TakeNotifyOrAnswer
      BY <2>2 DEF TakeCommand, TakeRequest, TakeShutdown, CommandsClosed
    <3>2. Front \in Calls /\ call[Front].kind = "answer"
          /\ answered' = [answered EXCEPT ![call[Front].arg] = @ + 1]
      BY <2>2, <3>1 DEF TakeNotifyOrAnswer, TypeOK, Front
    <3>3. call[Front].arg \in got
      BY <3>2 DEF ArgsOK
    <3>4. \A i \in Asked(early) \cup Asked(eventQ) : i # call[Front].arg
      BY <3>3 DEF QueuesOK
    <3> QED BY <3>2, <3>4 DEF TypeOK
  <2> QED BY <2>1, <2>2
<1> QED BY <1>1, <1>2 DEF QueuesOK

LEMMA QueuesReceive ==
  ASSUME TypeOK, QueuesOK, StreamOK, Receive
  PROVE  QueuesOK'
<1>1. CASE UNCHANGED <<early, eventQ, sent, got, answered>>
  BY <1>1 DEF QueuesOK
<1>2. CASE ReceiveLossless \/ ReceiveAfterClose
  <2>1. UNCHANGED <<early, eventQ, got, answered>> /\ \E kind \in Kinds : sent' = Append(sent, kind)
    BY <1>2 DEF ReceiveLossless, ReceiveAfterClose, Kinds
  <2> QED BY <2>1, QueuesKept DEF QueuesOK
<1>3. ASSUME NEW kind \in Kinds \ LosslessKinds, ReceiveBestEffort(kind) PROVE QueuesOK'
  <2> DEFINE e == Event(kind, Len(sent) + 1)
  <2>1. /\ sent' = Append(sent, kind) /\ eventQ' = Append(WithMarker, e)
        /\ UNCHANGED <<early, got, answered>> /\ Len(sent) < MaxEvents
    BY <1>3 DEF ReceiveBestEffort
  <2>2. e \in Elements /\ e.kind = kind /\ e.at = Len(sent) + 1
    BY EventType DEF Event, TypeOK
  <2>3. Len(sent) + 1 \notin Asked(eventQ)
    BY DEF QueuesOK, TypeOK
  <2>4. /\ Asked(eventQ)' = Asked(eventQ) \cup (IF kind = "request" THEN {Len(sent) + 1} ELSE {})
        /\ Once(eventQ)'
    BY <2>1, <2>2, <2>3, AskedAppend, AskedMarker, WithMarkerType
  <2>5. Asked(early)' = Asked(early) /\ Once(early)'
    BY <2>1 DEF QueuesOK
  <2>6. PICK added : added = IF kind = "request" THEN {Len(sent) + 1} ELSE {}
    OBVIOUS
  <2> QED BY <2>1, <2>4, <2>5, <2>6, QueuesGrow
<1>4. ASSUME NEW kind \in Kinds \ LosslessKinds, DropBestEffort(kind) PROVE QueuesOK'
  <2>1. /\ sent' = Append(sent, kind) /\ eventQ' = WithMarker
        /\ UNCHANGED <<early, got>>
        /\ answered' = answered \/ answered' = [answered EXCEPT ![Len(sent) + 1] = @ + 1]
    BY <1>4 DEF DropBestEffort
  <2>2. Asked(early)' = Asked(early) /\ Once(early)' /\ Asked(eventQ)' = Asked(eventQ) /\ Once(eventQ)'
    BY <2>1, AskedMarker DEF QueuesOK
  <2>3. \A i \in Asked(early) \cup Asked(eventQ) : i \notin got /\ i # Len(sent) + 1 /\ i \in 1..MaxEvents
    BY MaxEventsAssumption DEF QueuesOK, StreamOK, TypeOK
  <2>4. \A i \in Asked(early) \cup Asked(eventQ) : answered'[i] = answered[i]
    BY <2>1, <2>3 DEF TypeOK
  <2> QED BY <2>1, <2>2, <2>3, <2>4, QueuesKept
<1> QED BY <1>1, <1>2, <1>3, <1>4 DEF Receive, ReceiveResponse, StreamEnds

LEMMA QueuesDeliver ==
  ASSUME TypeOK, HeldOK, QueuesOK, Deliver
  PROVE  QueuesOK'
<1>1. UNCHANGED <<early, sent, got, answered>>
  BY DEF Deliver, FlushMarker, SendHeld, SendFails
<1>2. eventQ' = eventQ \/ \E e \in Elements : e.kind # "request" /\ eventQ' = Append(eventQ, e)
  <2>1. CASE FlushMarker
    <3>1. Lagged(skipped, held.at - held.width) \in Elements
      BY <2>1, HeldType, LaggedType DEF FlushMarker, Blocked, TypeOK
    <3> QED BY <2>1, <3>1 DEF FlushMarker, Lagged
  <2>2. CASE SendHeld
    <3>1. held \in Elements /\ held.kind # "request"
      BY <2>2, HeldType DEF SendHeld, Blocked, HeldOK, Event, Disconnected
    <3> QED BY <2>2, <3>1 DEF SendHeld
  <2>3. CASE SendFails
    BY <2>3 DEF SendFails
  <2> QED BY <2>1, <2>2, <2>3 DEF Deliver
<1>3. Asked(eventQ)' = Asked(eventQ) /\ Once(eventQ)'
  BY <1>2, AskedAppend DEF QueuesOK, TypeOK
<1> QED BY <1>1, <1>3 DEF QueuesOK

LEMMA QueuesConsumer ==
  ASSUME TypeOK, QueuesOK, NextEvent \/ DropClient
  PROVE  QueuesOK'
<1>1. CASE DropClient
  BY <1>1, AskedEmpty DEF DropClient, GiveUp, QueuesOK
<1>2. CASE NextEvent
  <2>0. UNCHANGED <<sent, answered>>
    BY <1>2 DEF NextEvent
  <2>1. CASE early # <<>> /\ TakeEvent(Head(early)) /\ early' = Tail(early) /\ UNCHANGED eventQ
    BY <2>0, <2>1, AskedTail DEF QueuesOK, TypeOK, TakeEvent
  <2>2. CASE eventQ # <<>> /\ TakeEvent(Head(eventQ)) /\ eventQ' = Tail(eventQ) /\ UNCHANGED early
    BY <2>0, <2>2, AskedTail DEF QueuesOK, TypeOK, TakeEvent
  <2> QED BY <1>2, <2>1, <2>2 DEF NextEvent
<1> QED BY <1>1, <1>2

LEMMA QueuesInvariant ==
  TypeOK /\ HeldOK /\ ArgsOK /\ StreamOK /\ QueuesOK /\ [Next]_vars => QueuesOK'
<1>1. QueuesOK /\ UNCHANGED vars => QueuesOK'
  BY DEF vars, clientVars, QueuesOK
<1> QED BY <1>1, QueuesHandshake, QueuesCaller, QueuesTakeCommand, QueuesReceive, QueuesDeliver,
           QueuesConsumer DEF Next

LEMMA StreamInvariant ==
  TypeOK /\ ArgsOK /\ CommandsOK /\ QueuesOK /\ AnswersOK /\ StreamOK /\ [Next]_vars => StreamOK'
<1> SUFFICES ASSUME TypeOK, ArgsOK, CommandsOK, QueuesOK, AnswersOK, StreamOK, [Next]_vars
             PROVE  StreamOK'
  OBVIOUS
<1>0. CASE UNCHANGED <<sent, got, answered>>
  BY <1>0 DEF StreamOK
\* The stream grows, and the new event is answered at once or not at all.
<1>g. ASSUME NEW kind \in Kinds, Len(sent) < MaxEvents, sent' = Append(sent, kind), got' = got,
             answered' = answered \/ answered' = [answered EXCEPT ![Len(sent) + 1] = @ + 1]
      PROVE  StreamOK'
  <2>1. Len(sent') = Len(sent) + 1 /\ Len(sent) \in Nat /\ MaxEvents \in Nat
    BY <1>g, MaxEventsAssumption DEF TypeOK
  <2>2. answered[Len(sent) + 1] = 0
    BY <1>g, <2>1 DEF StreamOK
  <2>3. \A i \in 1..MaxEvents : answered'[i] = answered[i] \/ (i = Len(sent) + 1 /\ answered'[i] = 1)
    <3>1. CASE answered' = answered
      BY <3>1
    <3>2. CASE answered' = [answered EXCEPT ![Len(sent) + 1] = @ + 1]
      BY <2>2, <3>2 DEF TypeOK
    <3> QED BY <1>g, <3>1, <3>2
  <2> QED BY <1>g, <2>1, <2>3 DEF StreamOK
<1>1. CASE Handshake
  BY <1>0, <1>1, <1>g DEF Handshake, HandshakeEvent, HandshakeDone, HandshakeFails
<1>2. ASSUME NEW d \in Calls, CallerStep(d) PROVE StreamOK'
  BY <1>0, <1>2 DEF CallerStep, Call, HandleRequest, Answer, Shutdown, SendCommand,
     SendCommandFails, RequestTimesOut, AbortWorker
<1>3. CASE TakeCommand
  <2>1. CASE answered' # answered
    <3>1. TakeNotifyOrAnswer
      BY <1>3, <2>1 DEF TakeCommand, TakeRequest, TakeShutdown, CommandsClosed
    <3>2. /\ Front \in Calls /\ call[Front].kind = "answer"
          /\ answered' = [answered EXCEPT ![call[Front].arg] = @ + 1]
          /\ UNCHANGED <<sent, got>> /\ commands # <<>>
      BY <2>1, <3>1, BehindFront DEF TakeNotifyOrAnswer
    <3>3. call[Front].arg \in got /\ InFlight(Front)
      BY <3>2, BehindFront DEF ArgsOK, CommandOK, InFlight, RequestKinds
    <3>4. answered[call[Front].arg] = 0
      BY <3>2, <3>3 DEF AnswersOK, IsAnswer
    <3> QED BY <3>2, <3>3, <3>4 DEF StreamOK, TypeOK
  <2>2. UNCHANGED <<sent, got>>
    BY <1>3 DEF TakeCommand, TakeRequest, TakeNotifyOrAnswer, TakeShutdown, CommandsClosed
  <2> QED BY <1>0, <2>1, <2>2
<1>4. CASE Receive
  <2>1. CASE ReceiveLossless \/ ReceiveAfterClose
    BY <2>1, <1>g DEF ReceiveLossless, ReceiveAfterClose, Kinds
  <2>2. ASSUME NEW kind \in Kinds \ LosslessKinds, ReceiveBestEffort(kind) \/ DropBestEffort(kind)
        PROVE  StreamOK'
    BY <2>2, <1>g DEF ReceiveBestEffort, DropBestEffort
  <2>3. CASE StreamEnds \/ \E id \in RequestIds : ReceiveResponse(id)
    BY <1>0, <2>3 DEF StreamEnds, ReceiveResponse
  <2> QED BY <1>4, <2>1, <2>2, <2>3 DEF Receive
<1>5. CASE Deliver \/ DropClient \/ UNCHANGED vars
  BY <1>0, <1>5 DEF Deliver, FlushMarker, SendHeld, SendFails, DropClient, vars, clientVars
<1>6. CASE NextEvent
  BY <1>6, HandedOver DEF NextEvent, StreamOK
<1> QED BY <1>1, <1>2, <1>3, <1>4, <1>5, <1>6 DEF Next

\* Once the worker has left its loop it never comes back.
LEMMA ExitedStays == TypeOK /\ [Next]_vars /\ worker = "exited" => worker' = "exited"
BY DEF Next, Handshake, HandshakeEvent, HandshakeDone, HandshakeFails, CallerStep, Call,
   HandleRequest, Answer, Shutdown, GiveUp, SendCommand, SendCommandFails, RequestTimesOut,
   AbortWorker, TakeCommand, TakeRequest, TakeNotifyOrAnswer, TakeShutdown, CommandsClosed,
   Receive, ReceiveResponse, ReceiveLossless, ReceiveBestEffort, DropBestEffort,
   ReceiveAfterClose, StreamEnds, Deliver, FlushMarker, SendHeld, SendFails, NextEvent,
   DropClient, vars, clientVars

Unanswered(i) == i \notin Asked(early) \cup Asked(eventQ) \cup got /\ answered[i] # 1

\* The stream grows by an event that asks for nothing, or whose request is taken care of.
LEMMA UnansweredGrows ==
  ASSUME TypeOK, NoneUnanswered, open, worker # "exited", NEW kind \in Kinds,
         sent' = Append(sent, kind), got' = got,
         Asked(early) \subseteq Asked(early)', Asked(eventQ) \subseteq Asked(eventQ)',
         \A i \in 1..Len(sent) : answered'[i] = answered[i],
         kind = "request" => Len(sent) + 1 \in Asked(early)' \cup Asked(eventQ)'
                             \/ answered'[Len(sent) + 1] = 1
  PROVE  NoneUnanswered'
<1>1. /\ Len(sent) \in Nat /\ Len(sent') = Len(sent) + 1
      /\ sent'[Len(sent) + 1] = kind /\ \A i \in 1..Len(sent) : sent'[i] = sent[i]
  BY DEF TypeOK
<1>2. \A i \in 1..Len(sent') : i \in 1..Len(sent) \/ i = Len(sent) + 1
  BY <1>1
<1> QED BY <1>1, <1>2 DEF NoneUnanswered

LEMMA UnansweredHandshake ==
  ASSUME TypeOK, NoneUnanswered, open, Handshake, open'
  PROVE  NoneUnanswered'
<1>1. CASE HandshakeEvent
  <2>1. PICK kind \in Kinds : /\ sent' = Append(sent, kind)
                              /\ early' = Append(early, Event(kind, Len(sent) + 1))
    BY <1>1 DEF HandshakeEvent
  <2>2. Event(kind, Len(sent) + 1) \in Elements
    BY EventType DEF TypeOK
  <2>3. Asked(early)' = Asked(early) \cup (IF kind = "request" THEN {Len(sent) + 1} ELSE {})
    BY <2>1, <2>2, AskedAppend DEF Event, TypeOK
  <2>4. Asked(eventQ)' = Asked(eventQ) /\ got' = got /\ answered' = answered /\ worker = "handshake"
    BY <1>1 DEF HandshakeEvent
  <2> QED BY <2>1, <2>3, <2>4, UnansweredGrows
<1>2. CASE HandshakeDone
  BY <1>2 DEF HandshakeDone, NoneUnanswered
<1>3. CASE HandshakeFails
  BY <1>3 DEF HandshakeFails
<1> QED BY <1>1, <1>2, <1>3 DEF Handshake

\* Nothing but an answer happens to the requests.
LEMMA UnansweredKept ==
  ASSUME NoneUnanswered, open, worker # "exited", UNCHANGED <<early, eventQ, sent, got>>,
         \A i \in 1..Len(sent) : answered'[i] = answered[i] \/ i \in got
  PROVE  NoneUnanswered'
BY DEF NoneUnanswered

LEMMA UnansweredTakeCommand ==
  ASSUME TypeOK, ArgsOK, StreamOK, NoneUnanswered, open, worker # "exited", TakeCommand
  PROVE  NoneUnanswered'
<1>1. UNCHANGED <<early, eventQ, sent, got>>
  BY DEF TakeCommand, TakeRequest, TakeNotifyOrAnswer, TakeShutdown, CommandsClosed
<1>2. CASE answered' = answered
  BY <1>1, <1>2, UnansweredKept
<1>3. CASE answered' # answered
  <2>1. TakeNotifyOrAnswer
    BY <1>3 DEF TakeCommand, TakeRequest, TakeShutdown, CommandsClosed
  <2>2. Front \in Calls /\ call[Front].kind = "answer"
        /\ answered' = [answered EXCEPT ![call[Front].arg] = @ + 1]
    BY <1>3, <2>1 DEF TakeNotifyOrAnswer, TypeOK, Front
  <2>3. call[Front].arg \in got
    BY <2>2 DEF ArgsOK
  <2>4. \A i \in 1..Len(sent) : i \in 1..MaxEvents
    BY MaxEventsAssumption DEF StreamOK, TypeOK
  <2>5. \A i \in 1..Len(sent) : answered'[i] = answered[i] \/ i \in got
    BY <2>2, <2>3, <2>4 DEF TypeOK
  <2> QED BY <1>1, <2>5, UnansweredKept
<1> QED BY <1>2, <1>3

LEMMA UnansweredReceive ==
  ASSUME TypeOK, QueuesOK, StreamOK, NoneUnanswered, open, worker # "exited", Receive,
         worker' # "exited"
  PROVE  NoneUnanswered'
<1>1. CASE UNCHANGED <<early, eventQ, sent, got, answered>>
  BY <1>1, UnansweredKept
<1>2. CASE ReceiveLossless
  <2>1. sent' = Append(sent, "lossless") /\ UNCHANGED <<early, eventQ, got, answered>>
    BY <1>2 DEF ReceiveLossless
  <2> QED BY <2>1, UnansweredGrows DEF Kinds
<1>3. ASSUME NEW kind \in Kinds \ LosslessKinds, ReceiveBestEffort(kind) PROVE NoneUnanswered'
  <2> DEFINE e == Event(kind, Len(sent) + 1)
  <2>1. /\ sent' = Append(sent, kind) /\ eventQ' = Append(WithMarker, e)
        /\ UNCHANGED <<early, got, answered>>
    BY <1>3 DEF ReceiveBestEffort
  <2>2. e \in Elements /\ e.kind = kind /\ e.at = Len(sent) + 1
    BY EventType DEF Event, TypeOK
  <2>3. Asked(eventQ)' = Asked(eventQ) \cup (IF kind = "request" THEN {Len(sent) + 1} ELSE {})
    BY <2>1, <2>2, AskedAppend, AskedMarker, WithMarkerType
  <2>4. Asked(early)' = Asked(early)
    BY <2>1
  <2> QED BY <2>1, <2>3, <2>4, UnansweredGrows
<1>4. ASSUME NEW kind \in Kinds \ LosslessKinds, DropBestEffort(kind) PROVE NoneUnanswered'
  <2>0. Len(sent) \in Nat /\ MaxEvents \in Nat /\ Len(sent) + 1 \in 1..MaxEvents
        /\ answered[Len(sent) + 1] = 0
    BY <1>4, MaxEventsAssumption DEF DropBestEffort, StreamOK, TypeOK
  <2>1. /\ sent' = Append(sent, kind) /\ eventQ' = WithMarker
        /\ UNCHANGED <<early, got>>
        /\ answered' = IF kind = "request" THEN [answered EXCEPT ![Len(sent) + 1] = @ + 1] ELSE answered
    BY <1>4 DEF DropBestEffort, Exit
  <2>2. kind = "request" => answered'[Len(sent) + 1] = 1
    BY <2>0, <2>1 DEF TypeOK
  <2>3. \A i \in 1..Len(sent) : i \in 1..MaxEvents /\ i # Len(sent) + 1
    BY <2>0
  <2>4. \A i \in 1..Len(sent) : answered'[i] = answered[i]
    BY <2>1, <2>3 DEF TypeOK
  <2>5. Asked(early)' = Asked(early) /\ Asked(eventQ)' = Asked(eventQ)
    BY <2>1, AskedMarker
  <2> QED BY <2>1, <2>2, <2>4, <2>5, UnansweredGrows
<1>5. CASE ReceiveAfterClose
  BY <1>5 DEF ReceiveAfterClose
<1> QED BY <1>1, <1>2, <1>3, <1>4, <1>5 DEF Receive, ReceiveResponse, StreamEnds

LEMMA UnansweredDeliver ==
  ASSUME TypeOK, HeldOK, NoneUnanswered, open, worker # "exited", Deliver
  PROVE  NoneUnanswered'
<1>1. UNCHANGED <<early, sent, got, answered>>
  BY DEF Deliver, FlushMarker, SendHeld, SendFails
<1>2. Asked(eventQ)' = Asked(eventQ)
  <2>1. CASE FlushMarker
    <3>1. Lagged(skipped, held.at - held.width) \in Elements
      BY <2>1, HeldType, LaggedType DEF FlushMarker, Blocked, TypeOK
    <3> QED BY <2>1, <3>1, AskedAppend DEF FlushMarker, Lagged, TypeOK
  <2>2. CASE SendHeld
    <3>1. held \in Elements /\ held.kind # "request"
      BY <2>2, HeldType DEF SendHeld, Blocked, HeldOK, Event, Disconnected
    <3> QED BY <2>2, <3>1, AskedAppend DEF SendHeld, TypeOK
  <2>3. CASE SendFails
    BY <2>3 DEF SendFails
  <2> QED BY <2>1, <2>2, <2>3 DEF Deliver
<1> QED BY <1>1, <1>2 DEF NoneUnanswered

LEMMA UnansweredConsumer ==
  ASSUME TypeOK, QueuesOK, NoneUnanswered, open, worker # "exited", NextEvent
  PROVE  NoneUnanswered'
<1>0. UNCHANGED <<sent, answered>>
  BY DEF NextEvent
<1>1. Asked(early) \cup Asked(eventQ) \cup got \subseteq Asked(early)' \cup Asked(eventQ)' \cup got'
  <2>1. CASE early # <<>> /\ TakeEvent(Head(early)) /\ early' = Tail(early) /\ UNCHANGED eventQ
    BY <2>1, AskedTail DEF QueuesOK, TypeOK, TakeEvent
  <2>2. CASE eventQ # <<>> /\ TakeEvent(Head(eventQ)) /\ eventQ' = Tail(eventQ) /\ UNCHANGED early
    BY <2>2, AskedTail DEF QueuesOK, TypeOK, TakeEvent
  <2> QED BY <2>1, <2>2 DEF NextEvent
<1> QED BY <1>0, <1>1 DEF NoneUnanswered

LEMMA UnansweredInvariant ==
  TypeOK /\ HeldOK /\ ArgsOK /\ QueuesOK /\ StreamOK /\ NoneUnanswered /\ [Next]_vars
    => NoneUnanswered'
<1> SUFFICES ASSUME TypeOK, HeldOK, ArgsOK, QueuesOK, StreamOK, NoneUnanswered, [Next]_vars,
                    open', worker' # "exited"
             PROVE  NoneUnanswered'
  BY DEF NoneUnanswered
<1>1. open /\ worker # "exited"
  BY OpenStays, ExitedStays
<1>2. ASSUME NEW d \in Calls, CallerStep(d) PROVE NoneUnanswered'
  <2>1. CASE Shutdown(d)
    BY <2>1 DEF Shutdown, GiveUp
  <2>2. CASE UNCHANGED <<early, eventQ, sent, got, answered>>
    BY <1>1, <2>2, UnansweredKept
  <2> QED BY <1>2, <2>1, <2>2 DEF CallerStep, Call, HandleRequest, Answer, SendCommand,
             SendCommandFails, RequestTimesOut, AbortWorker
<1>3. CASE DropClient
  BY <1>3 DEF DropClient, GiveUp
<1>4. CASE UNCHANGED vars
  BY <1>1, <1>4, UnansweredKept DEF vars, clientVars
<1> QED BY <1>1, <1>2, <1>3, <1>4, UnansweredHandshake, UnansweredTakeCommand, UnansweredReceive,
           UnansweredDeliver, UnansweredConsumer DEF Next

RequestsOK == CommandsOK /\ PendingOK /\ ArgsOK /\ AnswersOK /\ QueuesOK /\ StreamOK /\ NoneUnanswered

LEMMA RequestsInit == Init => RequestsOK
<1> SUFFICES ASSUME Init PROVE RequestsOK
  OBVIOUS
<1>1. CommandsOK /\ PendingOK /\ ArgsOK
  BY ArgsInit DEF Init, CommandsOK, PendingOK
<1>2. AnswersOK /\ QueuesOK
  BY AskedEmpty DEF Init, AnswersOK, QueuesOK
<1>3. StreamOK /\ NoneUnanswered
  <2>1. Len(sent) = 0 /\ sent = <<>> /\ got = {} /\ answered = [i \in 1..MaxEvents |-> 0]
    BY DEF Init
  <2> QED BY <2>1, MaxEventsAssumption DEF StreamOK, NoneUnanswered
<1> QED BY <1>1, <1>2, <1>3 DEF RequestsOK

LEMMA RequestsInvariant == TypeOK /\ HeldOK /\ RequestsOK /\ [Next]_vars => RequestsOK'
BY CommandsInvariant, PendingInvariant, ArgsInvariant, AnswersInvariant, QueuesInvariant,
   StreamInvariant, UnansweredInvariant DEF RequestsOK

\* What the invariant says of each request of the server.
LEMMA RequestsConclusion == TypeOK /\ RequestsOK => RequestHandedOverOrRejected
<1> SUFFICES ASSUME TypeOK, RequestsOK, NEW i \in 1..Len(sent), sent[i] = "request"
             PROVE  /\ answered[i] <= 1
                    /\ Queued(i) => i \notin got /\ answered[i] = 0
                    /\ open /\ worker # "exited" => Queued(i) \/ i \in got \/ answered[i] = 1
  BY DEF RequestHandedOverOrRejected
<1>1. Queued(i) <=> i \in Asked(early) \cup Asked(eventQ)
  BY DEF Queued, Asked
<1>2. i \in 1..MaxEvents
  BY MaxEventsAssumption DEF RequestsOK, StreamOK, TypeOK
<1> QED BY <1>1, <1>2 DEF RequestsOK, StreamOK, QueuesOK, NoneUnanswered

(***************************************************************************)
(* At any capacity and for any number of callers: every request the server *)
(* makes of the remote client is queued, was handed to the consumer or was *)
(* rejected for want of room, only one of these, and remote.rs writes at   *)
(* most one answer to it, also when answers fail and are tried again.      *)
(***************************************************************************)
THEOREM RequestsAnsweredOnce == Spec => []RequestHandedOverOrRejected
<1>1. Init => HeldOK
  BY DEF Init, HeldOK, Blocked
<1> QED BY <1>1, TypeInit, TypeInductive, HeldInvariant, RequestsInit, RequestsInvariant,
           RequestsConclusion, PTL DEF Spec

=============================================================================

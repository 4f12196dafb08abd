----------------------- MODULE HostConversation_proof -----------------------
(***************************************************************************)
(* What holds of HostConversation for any threads, requests, capacity and  *)
(* bounds.                                                                 *)
(***************************************************************************)
EXTENDS HostConversation, SequenceTheorems, TLAPS

LEMMA EventType ==
  \A kind \in {"note", "closed", "request", "lagged", "disconnected"}, r \in Requests \cup {None} :
    Event(kind, r) \in Events
BY DEF Event, Events

\* The worker holds an event exactly while it is blocked on it.
StuckOK == worker = "blocked" <=> stuck # None

Typed == TypeOK /\ StuckOK

LEMMA CountType ==
  ASSUME NEW f \in [Requests -> Nat], NEW r
  PROVE  [f EXCEPT ![r] = @ + 1] \in [Requests -> Nat]
<1>1. CASE r \in Requests
  BY <1>1
<1>2. CASE r \notin Requests
  BY <1>2
<1> QED BY <1>1, <1>2

LEMMA MarkerType == ASSUME TypeOK PROVE WithMarker \in Seq(Events)
BY EventType DEF WithMarker, TypeOK

LEMMA OfferType ==
  ASSUME TypeOK, NEW e \in Events, NEW taking \in BOOLEAN, Offer(e, taking)
  PROVE  inbox' \in Seq(Events) /\ skipped' \in BOOLEAN
<1>1. WithMarker \in Seq(Events)
  BY MarkerType
<1>2. inbox' = Append(WithMarker, e) \/ inbox' = WithMarker
  BY DEF Offer
<1>3. skipped' = TRUE \/ skipped' = FALSE
  BY DEF Offer
<1>4. skipped' \in BOOLEAN
  BY <1>3
<1>5. inbox' \in Seq(Events)
  BY <1>1, <1>2
<1> QED BY <1>4, <1>5

(***************************************************************************)
(* Type correctness.                                                       *)
(***************************************************************************)
LEMMA TypeInit == Init => Typed
<1> SUFFICES ASSUME Init PROVE Typed
  OBVIOUS
<1>1. skipped \in BOOLEAN /\ unheard \in BOOLEAN
  BY DEF Init
<1>2. TypeOK
  BY <1>1, BoundsAssumption DEF Init, TypeOK, Ops, Inside
<1> QED BY <1>2 DEF Init, Typed, StuckOK

\* What a call changes of its own record keeps its type.
CallType == /\ lock \in Threads \cup {None}
            /\ op \in [Threads -> Ops]
            /\ pc \in [Threads -> {"idle", "lock"} \cup Inside]
            /\ arg \in [Threads -> Requests \cup {None}]
            /\ fate \in [Threads -> {"more", "idle", "closed", "ok", "error"}]

LEMMA EnterType ==
  ASSUME TypeOK, NEW t \in Threads, NEW kind \in Ops, Enter(t, kind)
  PROVE  op' \in [Threads -> Ops] /\ pc' \in [Threads -> {"idle", "lock"} \cup Inside]
BY DEF Enter, TypeOK, Ops, Inside

LEMMA ReturnType ==
  ASSUME TypeOK, NEW t \in Threads, Return(t)
  PROVE  CallType'
BY DEF Return, TypeOK, CallType, Ops, Inside

LEMMA TakeType ==
  ASSUME TypeOK, NEW t \in Threads, Take(t)
  PROVE  /\ client' \in 0..MaxConns
         /\ taken' \in [Threads -> 0..MaxConns]
         /\ pc' \in [Threads -> {"idle", "lock"} \cup Inside]
         /\ fate' \in [Threads -> {"more", "idle", "closed", "ok", "error"}]
BY BoundsAssumption DEF Take, TypeOK, Inside

LEMMA HandledType ==
  ASSUME TypeOK, NEW t \in Threads, NEW outcome \in {"more", "idle", "closed", "ok", "error"},
         NEW where \in Inside, Handled(t, outcome, where)
  PROVE  /\ pc' \in [Threads -> {"idle", "lock"} \cup Inside]
         /\ fate' \in [Threads -> {"more", "idle", "closed", "ok", "error"}]
BY DEF Handled, TypeOK

LEMMA RestoredType ==
  ASSUME TypeOK, NEW t \in Threads
  PROVE  /\ Restored(t) \in 0..MaxConns
         /\ [taken EXCEPT ![t] = 0] \in [Threads -> 0..MaxConns]
BY BoundsAssumption DEF Restored, TypeOK

LEMMA TypeInvoke == ASSUME Typed, NEW t \in Threads, Invoke(t) PROVE Typed'
<1>1. PICK kind \in {"poll", "refresh", "rpc", "connect"} : Enter(t, kind)
  BY DEF Invoke
<1>2. kind \in Ops
  BY DEF Ops
<1>3. op' \in [Threads -> Ops] /\ pc' \in [Threads -> {"idle", "lock"} \cup Inside]
  BY <1>1, <1>2, EnterType DEF Typed
<1> QED BY <1>1, <1>3 DEF Invoke, Enter, Typed, TypeOK, StuckOK, uiVars, serverVars, linkVars

LEMMA TypeAcquire == ASSUME Typed, NEW t \in Threads, Acquire(t) PROVE Typed'
<1> USE DEF Typed, TypeOK, StuckOK, uiVars, serverVars, linkVars
<1>1. CASE RpcBegin(t)
  <2>1. CASE Return(t)
    BY <1>1, <2>1, ReturnType DEF RpcBegin, CallType
  <2>2. CASE ~Return(t)
    BY <1>1, <2>2 DEF RpcBegin, Inside
  <2> QED BY <2>1, <2>2
<1>2. CASE Connect(t)
  <2>1. CASE Return(t)
    BY <1>2, <2>1, ReturnType DEF Connect, CallType
  <2>2. CASE ~Return(t)
    BY <1>2, <2>2 DEF Connect, Inside
  <2> QED BY <2>1, <2>2
<1>3. CASE PollBegin(t)
  <2>1. CASE Return(t) /\ UNCHANGED <<client, taken>>
    BY <1>3, <2>1, ReturnType DEF PollBegin, CallType
  <2>2. CASE Take(t) /\ lock' = t /\ UNCHANGED <<op, arg>>
    BY <1>3, <2>2, TakeType DEF PollBegin
  <2> QED BY <1>3, <2>1, <2>2 DEF PollBegin
<1>4. CASE ApproveBegin(t)
  <2>1. pc' \in [Threads -> {"idle", "lock"} \cup Inside]
        /\ fate' \in [Threads -> {"more", "idle", "closed", "ok", "error"}]
    BY <1>4, HandledType DEF ApproveBegin, Inside
  <2>2. taken' \in [Threads -> 0..MaxConns] /\ client' \in 0..MaxConns
    BY <1>4, BoundsAssumption DEF ApproveBegin
  <2>3. lock' \in Threads \cup {None}
    BY <1>4 DEF ApproveBegin
  <2> QED BY <1>4, <2>1, <2>2, <2>3 DEF ApproveBegin
<1> QED BY <1>1, <1>2, <1>3, <1>4 DEF Acquire

LEMMA TypeAwait == ASSUME Typed, NEW t \in Threads, Await(t) PROVE Typed'
<1> USE DEF Typed, TypeOK, StuckOK, uiVars, serverVars, linkVars
<1>1. CASE RpcEnd(t)
  BY <1>1, ReturnType DEF RpcEnd, CallType
<1>2. CASE RefreshWaits(t)
  <2>1. CASE Return(t) /\ UNCHANGED <<client, taken>>
    BY <1>2, <2>1, ReturnType DEF RefreshWaits, CallType
  <2>2. CASE Take(t) /\ UNCHANGED <<lock, op, arg>>
    BY <1>2, <2>2, TakeType DEF RefreshWaits
  <2> QED BY <1>2, <2>1, <2>2 DEF RefreshWaits
<1>3. CASE Connected(t)
  <2>1. CallType'
    BY <1>3, ReturnType DEF Connected
  <2>2. conn + 1 \in 0..MaxConns
    BY <1>3, BoundsAssumption DEF Connected
  <2>3. skipped' \in BOOLEAN /\ stuck' \in Events \cup {None} /\ StuckOK' /\ inbox' \in Seq(Events)
    <3>1. skipped' \in BOOLEAN
      BY <1>3 DEF Connected
    <3> QED BY <1>3, <3>1 DEF Connected
  <2> QED BY <1>3, <2>1, <2>2, <2>3 DEF Connected, CallType
<1>4. CASE ConnectFails(t)
  BY <1>4, ReturnType DEF ConnectFails, CallType
<1>5. CASE NextEvent(t)
  <2> DEFINE e == Head(inbox)
  <2>1. inbox # <<>> /\ e \in Events /\ inbox' \in Seq(Events)
    BY <1>5 DEF NextEvent
  <2>2. pc' \in [Threads -> {"idle", "lock"} \cup Inside]
        /\ fate' \in [Threads -> {"more", "idle", "closed", "ok", "error"}]
    BY <1>5, HandledType DEF NextEvent, Inside
  <2>3. pending' \in Approvals \cup {None} /\ arg' \in [Threads -> Requests \cup {None}]
    BY <1>5 DEF NextEvent, Requests
  <2> QED BY <1>5, <2>1, <2>2, <2>3 DEF NextEvent
<1>6. CASE NoEvent(t)
  BY <1>6, HandledType DEF NoEvent, Inside
<1>7. CASE Ack(t)
  <2>1. pc' \in [Threads -> {"idle", "lock"} \cup Inside]
        /\ fate' \in [Threads -> {"more", "idle", "closed", "ok", "error"}]
    BY <1>7, HandledType DEF Ack, Inside
  <2>2. answers' \in [Requests -> Nat]
    <3>1. [answers EXCEPT ![arg[t]] = @ + 1] \in [Requests -> Nat]
      BY CountType
    <3> QED BY <1>7, <3>1 DEF Ack
  <2>3. request' \in [Requests -> {"new", "open", "answered", "rejected", "withdrawn"}]
    BY <1>7, ZenonT(60) DEF Ack
  <2> QED BY <1>7, <2>1, <2>2, <2>3 DEF Ack
<1>8. CASE AckFails(t)
  BY <1>8, HandledType DEF AckFails, Inside
<1> QED BY <1>1, <1>2, <1>3, <1>4, <1>5, <1>6, <1>7, <1>8 DEF Await

LEMMA TypeResume == ASSUME Typed, NEW t \in Threads, Resume(t) PROVE Typed'
<1> USE DEF Typed, TypeOK, StuckOK, uiVars, serverVars, linkVars
<1>1. CASE PutBack(t)
  BY <1>1, RestoredType DEF PutBack, Inside
<1>2. CASE PollAgain(t)
  <2>1. op' \in [Threads -> Ops]
    BY <1>2 DEF PollAgain, Ops
  <2> QED BY <1>2, <2>1, TakeType DEF PollAgain
<1>3. CASE PollEnd(t)
  BY <1>3, ReturnType DEF PollEnd, CallType
<1>4. CASE RefreshDone(t)
  BY <1>4 DEF RefreshDone, Ops, Inside
<1>5. CASE ApproveEnd(t)
  BY <1>5, ReturnType, RestoredType DEF ApproveEnd, CallType
<1> QED BY <1>1, <1>2, <1>3, <1>4, <1>5 DEF Resume

LEMMA TypeUi == ASSUME Typed, UiPoll \/ Decide \/ Interrupt PROVE Typed'
<1> USE DEF Typed, TypeOK, StuckOK, uiVars, serverVars, linkVars, callVars
<1>1. CASE UiPoll
  BY <1>1 DEF UiPoll
<1>2. CASE Decide
  <2>1. Ui \in Threads /\ "approve" \in Ops
    BY DEF Threads, Ops
  <2>2. op' \in [Threads -> Ops] /\ pc' \in [Threads -> {"idle", "lock"} \cup Inside]
    BY <1>2, <2>1, EnterType DEF Decide
  <2>3. arg' \in [Threads -> Requests \cup {None}]
    BY <1>2 DEF Decide, Requests
  <2>4. decided' \in [Requests -> Nat]
    BY <1>2, CountType DEF Decide
  <2> QED BY <1>2, <2>2, <2>3, <2>4 DEF Decide, Enter
<1>3. CASE Interrupt
  <2>1. unheard' \in BOOLEAN
    BY <1>3 DEF Interrupt
  <2> QED BY <1>3, <2>1 DEF Interrupt
<1> QED BY <1>1, <1>2, <1>3

LEMMA TypeServer == ASSUME Typed, Server \/ Deliver \/ Leave PROVE Typed'
<1> USE DEF Typed, TypeOK, StuckOK, uiVars, serverVars, linkVars, callVars
<1>1. ASSUME NEW r \in Requests, Ask(r) PROVE Typed'
  <2>1. Event("request", r) \in Events
    BY EventType
  <2>2. inbox' \in Seq(Events) /\ skipped' \in BOOLEAN
    BY <1>1, <2>1, OfferType DEF Ask
  <2>3. request' \in [Requests -> {"new", "open", "answered", "rejected", "withdrawn"}]
    BY <1>1 DEF Ask
  <2>5. asked' \in [Requests -> Nat]
    <3>1. [asked EXCEPT ![r] = @ + 1] \in [Requests -> Nat]
      BY CountType
    <3> QED BY <1>1, <3>1 DEF Ask
  <2>4. worker' \in {"serving", "blocked", "leaving", "exited"} /\ StuckOK'
    BY <1>1 DEF Ask
  <2> QED BY <1>1, <2>2, <2>3, <2>4, <2>5 DEF Ask
<1>2. ASSUME NEW r \in Requests, Withdraw(r) PROVE Typed'
  BY <1>2 DEF Withdraw
<1>3. CASE Notify
  <2>1. notes' \in 0..MaxNotes
    BY <1>3, BoundsAssumption DEF Notify
  <2>2. CASE Block(Event("note", None)) /\ UNCHANGED <<inbox, skipped>>
    <3>1. Event("note", None) \in Events
      BY EventType
    <3> QED BY <1>3, <2>1, <2>2, <3>1, NoneAssumption DEF Notify, Block
  <2>3. ASSUME NEW taking \in BOOLEAN, Offer(Event("closed", None), taking), UNCHANGED <<worker, stuck>>
        PROVE  Typed'
    <3>1. Event("closed", None) \in Events
      BY EventType
    <3>2. inbox' \in Seq(Events) /\ skipped' \in BOOLEAN
      BY <2>3, <3>1, OfferType
    <3> QED BY <1>3, <2>1, <2>3, <3>2 DEF Notify
  <2> QED BY <1>3, <2>2, <2>3 DEF Notify
<1>4. CASE Disconnect
  <2>1. Event("disconnected", None) \in Events
    BY EventType
  <2> QED BY <1>4, <2>1, NoneAssumption DEF Disconnect, Block
<1>5. CASE Deliver
  <2>1. CASE skipped
    <3>1. skipped' \in BOOLEAN
      BY <1>5, <2>1 DEF Deliver
    <3> QED BY <1>5, <2>1, <3>1, MarkerType DEF Deliver
  <2>2. CASE ~skipped
    <3>1. stuck \in Events
      BY <1>5 DEF Deliver
    <3>2. worker' \in {"leaving", "serving"}
      BY <1>5, <2>2 DEF Deliver
    <3>3. inbox' \in Seq(Events)
      <4>1. inbox' = Append(inbox, stuck)
        BY <1>5, <2>2 DEF Deliver
      <4>2. inbox \in Seq(Events)
        OBVIOUS
      <4> QED BY ONLY <3>1, <4>1, <4>2
    <3>4. stuck' = None /\ skipped' = skipped
      BY <1>5, <2>2 DEF Deliver
    <3> QED BY <1>5, <3>2, <3>3, <3>4 DEF Deliver
  <2> QED BY <2>1, <2>2
<1>6. CASE Leave
  BY <1>6 DEF Leave
<1> QED BY <1>1, <1>2, <1>3, <1>4, <1>5, <1>6 DEF Server

LEMMA TypeStep == Typed /\ [Next]_vars => Typed'
<1> SUFFICES ASSUME Typed, [Next]_vars PROVE Typed'
  OBVIOUS
<1>1. ASSUME NEW t \in Threads, Invoke(t) \/ Acquire(t) \/ Await(t) \/ Resume(t) PROVE Typed'
  BY <1>1, TypeInvoke, TypeAcquire, TypeAwait, TypeResume
<1>2. CASE UiPoll \/ Decide \/ Interrupt
  BY <1>2, TypeUi
<1>3. CASE Server \/ Deliver \/ Leave
  BY <1>3, TypeServer
<1>4. CASE UNCHANGED vars
  BY <1>4 DEF Typed, TypeOK, StuckOK, vars, callVars, linkVars, serverVars, uiVars
<1> QED BY <1>1, <1>2, <1>3, <1>4 DEF Next, Threads

(***************************************************************************)
(* Every variable of the host keeps its type.                              *)
(***************************************************************************)
THEOREM TypeCorrect == Spec => []TypeOK
<1>1. Spec => []Typed
  BY TypeInit, TypeStep, PTL DEF Spec
<1>2. Typed => TypeOK
  BY DEF Typed
<1> QED BY <1>1, <1>2, PTL

-----------------------------------------------------------------------------
(***************************************************************************)
(* The custody of the client.  ClientNeverLost and OnlyHolderInside are    *)
(* not inductive: a call that puts a client back must know that the state  *)
(* has none, a handshake that no other call has one, and whoever finds the *)
(* mutex free that nobody is between take and put back.                    *)
(***************************************************************************)
Holding == {"next", "ack", "putBack"}

Custody ==
  /\ \A t \in Threads : pc[t] \in Inside <=> lock = t
  /\ \A t \in Threads : taken[t] # 0 => pc[t] \in Holding /\ taken[t] = conn
  /\ \A t \in Threads : pc[t] \in Holding \cup {"handshake"} => client = 0
  /\ client # 0 => client = conn
  /\ worker # "exited" => /\ conn # 0
                          /\ client = conn \/ \E t \in Threads : lock = t /\ taken[t] = conn

IInv == Typed /\ Custody

LEMMA CustodyInit == Init => Custody
BY ThreadsAssumption DEF Init, Custody, Inside, Holding

LEMMA CustodyAcquire == ASSUME IInv, NEW t \in Threads, Acquire(t) PROVE Custody'
<1> USE ThreadsAssumption DEF IInv, Typed, TypeOK, Custody, Inside, Holding, Return, linkVars
<1>0. ASSUME lock = None, pc[t] = "lock", Return(t),
             UNCHANGED <<client, taken, conn, worker>>
      PROVE  Custody'
  BY <1>0
<1>1. CASE RpcBegin(t)
  <2>1. CASE Return(t)
    BY <1>0, <1>1, <2>1 DEF RpcBegin
  <2>2. CASE client # 0 /\ lock' = t /\ pc' = [pc EXCEPT ![t] = "rpc"]
    BY <1>1, <2>2 DEF RpcBegin
  <2> QED BY <1>1, <2>1, <2>2 DEF RpcBegin
<1>2. CASE Connect(t)
  <2>1. CASE Return(t)
    BY <1>0, <1>2, <2>1 DEF Connect, At
  <2>2. CASE client = 0 /\ lock' = t /\ pc' = [pc EXCEPT ![t] = "handshake"]
    BY <1>2, <2>2 DEF Connect, At
  <2> QED BY <1>2, <2>1, <2>2 DEF Connect
<1>3. CASE PollBegin(t)
  <2>1. CASE Return(t) /\ UNCHANGED <<client, taken>>
    BY <1>0, <1>3, <2>1 DEF PollBegin, At
  <2>2. CASE Take(t) /\ lock' = t
    BY <1>3, <2>2 DEF PollBegin, At, Take
  <2> QED BY <1>3, <2>1, <2>2 DEF PollBegin
<1>4. CASE ApproveBegin(t)
  BY <1>4 DEF ApproveBegin, At, Handled
<1> QED BY <1>1, <1>2, <1>3, <1>4 DEF Acquire

LEMMA CustodyAwait == ASSUME IInv, NEW t \in Threads, Await(t) PROVE Custody'
<1> USE ThreadsAssumption DEF IInv, Typed, TypeOK, Custody, Inside, Holding, Return, linkVars
<1>1. CASE RpcEnd(t)
  BY <1>1 DEF RpcEnd
<1>2. CASE RefreshWaits(t)
  <2>1. CASE Return(t) /\ UNCHANGED <<client, taken>>
    BY <1>2, <2>1 DEF RefreshWaits, At
  <2>2. CASE Take(t) /\ UNCHANGED lock
    BY <1>2, <2>2 DEF RefreshWaits, At, Take
  <2> QED BY <1>2, <2>1, <2>2 DEF RefreshWaits
<1>3. CASE Connected(t)
  <2>1. \A u \in Threads : taken[u] = 0
    BY <1>3 DEF Connected
  <2>2. conn + 1 # 0
    BY BoundsAssumption
  <2> QED BY <1>3, <2>1, <2>2 DEF Connected
<1>4. CASE ConnectFails(t)
  BY <1>4 DEF ConnectFails
<1>5. CASE NextEvent(t)
  <2>1. pc' = [pc EXCEPT ![t] = "putBack"] \/ pc' = [pc EXCEPT ![t] = "ack"]
    BY <1>5 DEF NextEvent, Handled
  <2> QED BY <1>5, <2>1, ZenonT(60) DEF NextEvent
<1>6. CASE NoEvent(t)
  BY <1>6 DEF NoEvent, Handled
<1>7. CASE Ack(t)
  <2>1. pc' = [pc EXCEPT ![t] = "putBack"]
    BY <1>7 DEF Ack, Handled
  <2> QED BY <1>7, <2>1 DEF Ack
<1>8. CASE AckFails(t)
  BY <1>8 DEF AckFails, Handled
<1> QED BY <1>1, <1>2, <1>3, <1>4, <1>5, <1>6, <1>7, <1>8 DEF Await

\* Putting the client back leaves it nowhere else, and drops it only if dead.
LEMMA BackInState ==
  ASSUME IInv, NEW t \in Threads, pc[t] = "putBack"
  PROVE  /\ Restored(t) # 0 => Restored(t) = conn
         /\ worker # "exited" => Restored(t) = conn
         /\ \A u \in Threads \ {t} : taken[u] = 0 /\ pc[u] \notin Inside
BY ThreadsAssumption DEF IInv, Typed, TypeOK, Custody, Inside, Holding, Restored, Healthy

LEMMA CustodyResume == ASSUME IInv, NEW t \in Threads, Resume(t) PROVE Custody'
<1> USE ThreadsAssumption DEF IInv, Typed, TypeOK, Custody, Inside, Holding, Return, linkVars
<1>1. CASE PutBack(t)
  BY <1>1, BackInState DEF PutBack
<1>2. CASE PollAgain(t)
  BY <1>2 DEF PollAgain, Take
<1>3. CASE PollEnd(t)
  BY <1>3 DEF PollEnd
<1>4. CASE RefreshDone(t)
  BY <1>4 DEF RefreshDone
<1>5. CASE ApproveEnd(t)
  BY <1>5, BackInState DEF ApproveEnd, At
<1> QED BY <1>1, <1>2, <1>3, <1>4, <1>5 DEF Resume

LEMMA CustodyOthers ==
  ASSUME IInv,
         \/ \E t \in Threads : Invoke(t)
         \/ UiPoll \/ Decide \/ Interrupt \/ Server \/ Deliver \/ Leave
         \/ UNCHANGED vars
  PROVE  Custody'
<1> USE ThreadsAssumption DEF IInv, Typed, TypeOK, Custody, Inside, Holding, callVars, linkVars
<1>1. ASSUME NEW t \in Threads, Invoke(t) PROVE Custody'
  BY <1>1 DEF Invoke, Enter
<1>2. CASE UiPoll \/ Interrupt
  BY <1>2 DEF UiPoll, Interrupt
<1>3. CASE Decide
  BY <1>3 DEF Decide, Enter, Threads
<1>4. CASE Server
  <2>1. UNCHANGED <<lock, client, taken, pc, conn>> /\ (worker' # "exited" => worker # "exited")
    BY <1>4 DEF Server, Ask, Withdraw, Notify, Disconnect, Block
  <2> QED BY <2>1
<1>5. CASE Deliver \/ Leave
  <2>1. UNCHANGED <<lock, client, taken, pc, conn>> /\ (worker' # "exited" => worker # "exited")
    BY <1>5 DEF Deliver, Leave
  <2> QED BY <2>1
<1>6. CASE UNCHANGED vars
  BY <1>6 DEF vars
<1> QED BY <1>1, <1>2, <1>3, <1>4, <1>5, <1>6

LEMMA InductiveStep == IInv /\ [Next]_vars => IInv'
<1> SUFFICES ASSUME IInv, [Next]_vars PROVE IInv'
  OBVIOUS
<1>1. Typed'
  BY TypeStep DEF IInv
<1>2. Custody'
  BY CustodyAcquire, CustodyAwait, CustodyResume, CustodyOthers DEF Next, Threads
<1> QED BY <1>1, <1>2 DEF IInv

LEMMA Inductive == Spec => []IInv
<1>1. Init => IInv
  BY TypeInit, CustodyInit DEF IInv
<1> QED BY <1>1, InductiveStep, PTL DEF Spec

(***************************************************************************)
(* Only the holder of the runtime's mutex is inside the host, and only it  *)
(* can have taken the client.                                              *)
(***************************************************************************)
THEOREM MutexHolds == Spec => []OnlyHolderInside
<1>1. IInv => OnlyHolderInside
  BY DEF IInv, Custody, OnlyHolderInside, Holding
<1> QED BY <1>1, Inductive, PTL

(***************************************************************************)
(* A living client is in the state or with exactly one call, for any       *)
(* number of threads, connections and events.                              *)
(***************************************************************************)
THEOREM ClientKept == Spec => []ClientNeverLost
<1>1. IInv => ClientNeverLost
  <2> SUFFICES ASSUME IInv PROVE ClientNeverLost
    OBVIOUS
  <2> USE DEF IInv, Typed, TypeOK, Custody, Holding, Inside
  <2>1. \A t \in Threads : taken[t] # 0 => taken[t] = conn /\ client = 0
    OBVIOUS
  <2>2. worker # "exited" /\ client = conn => conn # 0 /\ \A t \in Threads : taken[t] = 0
    BY <2>1
  <2>3. ASSUME NEW t \in Threads, worker # "exited", lock = t, taken[t] = conn
        PROVE  client = 0
    BY <2>1, <2>3
  <2> QED BY <2>1, <2>2, <2>3 DEF ClientNeverLost
<1> QED BY <1>1, Inductive, PTL

-----------------------------------------------------------------------------
(***************************************************************************)
(* The approvals.  Each time the server asks, there is one question: in    *)
(* the event channel, in the slot, or lost; each decision of the user is   *)
(* one answer to come, as long as the call has not come to its end.  What  *)
(* is on its way never exceeds what was asked and decided.                 *)
(***************************************************************************)
Queued(q, r) == \E i \in 1..Len(q) : q[i].kind = "request" /\ q[i].req = r

\* No request is in the channel twice.
Distinct(q) ==
  \A i, j \in 1..Len(q) :
    q[i].kind = "request" /\ q[j].kind = "request" /\ q[i].req = q[j].req => i = j

LEMMA QueueTail ==
  ASSUME NEW q \in Seq(Events), q # <<>>, Distinct(q), NEW r
  PROVE  /\ Distinct(Tail(q))
         /\ Queued(Tail(q), r) => Queued(q, r)
         /\ Head(q).kind = "request" /\ Head(q).req = r => Queued(q, r) /\ ~Queued(Tail(q), r)
<1>1. PICK t \in Seq(Events), n \in Nat :
        /\ t = Tail(q) /\ n = Len(q) /\ Len(t) = n - 1 /\ n > 0 /\ Head(q) = q[1]
        /\ \A i \in 1..(n - 1) : t[i] = q[i + 1]
  <2>1. /\ Tail(q) \in Seq(Events) /\ Len(q) \in Nat /\ Len(Tail(q)) = Len(q) - 1 /\ Len(q) > 0
        /\ Head(q) = q[1] /\ \A i \in 1..(Len(q) - 1) : Tail(q)[i] = q[i + 1]
    BY HeadTailProperties
  <2> QED BY <2>1
<1>2. ASSUME NEW i \in 1..(n - 1) PROVE i + 1 \in 1..n /\ i + 1 # 1 /\ t[i] = q[i + 1]
  BY <1>1, <1>2
<1>3. Distinct(t)
  <2> SUFFICES ASSUME NEW i \in 1..(n - 1), NEW j \in 1..(n - 1),
                      t[i].kind = "request", t[j].kind = "request", t[i].req = t[j].req
               PROVE  i = j
    BY <1>1 DEF Distinct
  <2>1. PICK k, l : k = i + 1 /\ l = j + 1
    OBVIOUS
  <2>2. k \in 1..Len(q) /\ l \in 1..Len(q) /\ t[i] = q[k] /\ t[j] = q[l]
    BY <1>1, <1>2, <2>1
  <2>3. k = l
    BY <2>2 DEF Distinct
  <2> QED BY <1>1, <2>1, <2>3
<1>4. ASSUME Queued(t, r) PROVE \E k \in 1..Len(q) : k # 1 /\ q[k].kind = "request" /\ q[k].req = r
  <2>1. PICK i \in 1..(n - 1) : t[i].kind = "request" /\ t[i].req = r
    BY <1>1, <1>4 DEF Queued
  <2>2. PICK k : k = i + 1
    OBVIOUS
  <2>3. k \in 1..Len(q) /\ k # 1 /\ t[i] = q[k]
    BY <1>1, <1>2, <2>2
  <2> QED BY <2>1, <2>3
<1>5. 1 \in 1..Len(q)
  BY <1>1
<1> QED BY <1>1, <1>3, <1>4, <1>5 DEF Queued, Distinct

LEMMA QueueAppend ==
  ASSUME NEW q \in Seq(Events), NEW e \in Events, NEW r
  PROVE  /\ Queued(Append(q, e), r) <=> Queued(q, r) \/ (e.kind = "request" /\ e.req = r)
         /\ Distinct(q) /\ (e.kind = "request" => ~Queued(q, e.req)) => Distinct(Append(q, e))
<1>1. PICK a \in Seq(Events), n \in Nat :
        /\ a = Append(q, e) /\ n = Len(q) /\ Len(a) = n + 1 /\ a[n + 1] = e
        /\ \A i \in 1..n : a[i] = q[i]
  <2>1. /\ Append(q, e) \in Seq(Events) /\ Len(q) \in Nat /\ Len(Append(q, e)) = Len(q) + 1
        /\ \A i \in 1..Len(q) : Append(q, e)[i] = q[i]
        /\ Append(q, e)[Len(q) + 1] = e
    BY AppendProperties
  <2> QED BY <2>1
<1>2. ASSUME NEW i \in 1..(n + 1) PROVE i \in 1..n \/ i = n + 1
  OBVIOUS
<1>3. ASSUME NEW i \in 1..n PROVE i \in 1..(n + 1)
  OBVIOUS
<1>4. n + 1 \in 1..(n + 1)
  OBVIOUS
<1>5. Queued(a, r) => Queued(q, r) \/ (e.kind = "request" /\ e.req = r)
  BY <1>1, <1>2 DEF Queued
<1>6. Queued(q, r) => Queued(a, r)
  BY <1>1, <1>3 DEF Queued
<1>7. e.kind = "request" /\ e.req = r => Queued(a, r)
  BY <1>1, <1>4 DEF Queued
<1>8. ASSUME Distinct(q), e.kind = "request" => ~Queued(q, e.req) PROVE Distinct(a)
  <2> SUFFICES ASSUME NEW i \in 1..(n + 1), NEW j \in 1..(n + 1),
                      a[i].kind = "request", a[j].kind = "request", a[i].req = a[j].req
               PROVE  i = j
    BY <1>1 DEF Distinct
  <2>1. CASE i \in 1..n /\ j \in 1..n
    BY <1>1, <1>8, <2>1 DEF Distinct
  <2>2. CASE i = n + 1 /\ j \in 1..n
    BY <1>1, <1>8, <2>2 DEF Queued
  <2>3. CASE j = n + 1 /\ i \in 1..n
    BY <1>1, <1>8, <2>3 DEF Queued
  <2> QED BY <1>2, <2>1, <2>2, <2>3
<1> QED BY <1>1, <1>5, <1>6, <1>7, <1>8

OneIf(b) == IF b THEN 1 ELSE 0

\* The call of a decision, what it is about to answer and what a poll acknowledges.
CallsOK ==
  \A t \in Threads :
    /\ op[t] = "approve" => /\ t = Ui
                            /\ pc[t] \in {"lock", "ack", "putBack"}
                            /\ arg[t] \in Approvals
                            /\ pc[t] = "ack" => pending = arg[t]
    /\ pc[t] = "ack" /\ op[t] # "approve" => arg[t] \in Unsupported

InboxOK ==
  /\ Distinct(inbox)
  /\ \A r \in Requests : Queued(inbox, r) => r \in sentHere
  /\ \A r \in sentHere : request[r] # "new"
  /\ stuck # None => stuck.kind # "request"

\* The answer is written, the slot not yet cleared.
Answered == op[Ui] = "approve" /\ pc[Ui] = "putBack" /\ fate[Ui] = "ok"
Unanswered(r) == pending = r /\ ~Answered
Deciding(r) == op[Ui] = "approve" /\ pc[Ui] \in {"lock", "ack"} /\ arg[Ui] = r

CountsOK ==
  \A r \in Approvals :
    /\ answers[r] + OneIf(Queued(inbox, r)) + OneIf(Unanswered(r)) <= asked[r]
    /\ answers[r] + OneIf(Deciding(r)) <= decided[r]
    /\ shown = r => asked[r] > 0

SlotOK == Answered => pending \in Approvals /\ answers[pending] > 0

DeskInv == IInv /\ CallsOK /\ InboxOK /\ CountsOK /\ SlotOK

LEMMA DeskInitially == Init => CallsOK /\ InboxOK /\ CountsOK /\ SlotOK
<1> SUFFICES ASSUME Init PROVE CallsOK /\ InboxOK /\ CountsOK /\ SlotOK
  OBVIOUS
<1>1. \A r : ~Queued(inbox, r)
  BY DEF Init, Queued
<1>2. \A r \in Approvals : ~Unanswered(r) /\ ~Deciding(r)
  BY RequestsAssumption DEF Init, Unanswered, Deciding, Threads, Requests
<1>3. CallsOK /\ SlotOK
  BY DEF Init, CallsOK, SlotOK, Answered, Threads
<1>4. InboxOK
  BY <1>1 DEF Init, InboxOK, Distinct
<1>5. CountsOK
  BY <1>1, <1>2, RequestsAssumption DEF Init, CountsOK, Requests, OneIf
<1> QED BY <1>3, <1>4, <1>5

-----------------------------------------------------------------------------
\* CallsOK

LEMMA CallsAcquire == ASSUME DeskInv, NEW t \in Threads, Acquire(t) PROVE CallsOK'
<1> USE ThreadsAssumption DEF DeskInv, IInv, Typed, TypeOK, Custody, Inside, Holding, CallsOK, Return, At
<1>1. CASE RpcBegin(t)
  BY <1>1 DEF RpcBegin
<1>2. CASE Connect(t)
  BY <1>2 DEF Connect
<1>3. CASE PollBegin(t)
  BY <1>3 DEF PollBegin, Take
<1>4. CASE ApproveBegin(t)
  BY <1>4 DEF ApproveBegin, Handled
<1> QED BY <1>1, <1>2, <1>3, <1>4 DEF Acquire

LEMMA CallsAwait == ASSUME DeskInv, NEW t \in Threads, Await(t) PROVE CallsOK'
<1> USE ThreadsAssumption DEF DeskInv, IInv, Typed, TypeOK, Custody, Inside, Holding, CallsOK, Return, At
<1>1. CASE RpcEnd(t)
  BY <1>1 DEF RpcEnd
<1>2. CASE RefreshWaits(t)
  BY <1>2 DEF RefreshWaits, Take
<1>3. CASE Connected(t)
  BY <1>3 DEF Connected
<1>4. CASE ConnectFails(t)
  BY <1>4 DEF ConnectFails
<1>5. CASE NextEvent(t)
  <2>1. \A u \in Threads : pc[u] = "ack" => u = t
    BY <1>5 DEF NextEvent
  <2>2. op[t] # "approve" /\ pc[t] = "next" /\ op' = op
    BY <1>5 DEF NextEvent
  <2>3. \/ pc' = [pc EXCEPT ![t] = "putBack"] /\ arg' = arg
        \/ /\ pc' = [pc EXCEPT ![t] = "ack"]
           /\ arg' = [arg EXCEPT ![t] = Head(inbox).req]
           /\ Head(inbox).req \in Unsupported
    BY <1>5 DEF NextEvent, Handled
  <2> QED BY <2>1, <2>2, <2>3
<1>6. CASE NoEvent(t)
  BY <1>6 DEF NoEvent, Handled
<1>7. CASE Ack(t)
  <2>1. pc' = [pc EXCEPT ![t] = "putBack"] /\ UNCHANGED <<op, arg, pending>>
    BY <1>7 DEF Ack, Handled
  <2> QED BY <2>1
<1>8. CASE AckFails(t)
  BY <1>8 DEF AckFails, Handled
<1> QED BY <1>1, <1>2, <1>3, <1>4, <1>5, <1>6, <1>7, <1>8 DEF Await

LEMMA CallsResume == ASSUME DeskInv, NEW t \in Threads, Resume(t) PROVE CallsOK'
<1> USE ThreadsAssumption DEF DeskInv, IInv, Typed, TypeOK, Custody, Inside, Holding, CallsOK, Return, At
<1>1. CASE PutBack(t)
  BY <1>1 DEF PutBack
<1>2. CASE PollAgain(t)
  BY <1>2 DEF PollAgain, Take
<1>3. CASE PollEnd(t)
  BY <1>3 DEF PollEnd
<1>4. CASE RefreshDone(t)
  BY <1>4 DEF RefreshDone
<1>5. CASE ApproveEnd(t)
  <2>1. \A u \in Threads : pc[u] # "ack"
    BY <1>5 DEF ApproveEnd
  <2> QED BY <1>5, <2>1 DEF ApproveEnd
<1> QED BY <1>1, <1>2, <1>3, <1>4, <1>5 DEF Resume

LEMMA CallsOthers ==
  ASSUME DeskInv,
         \/ \E t \in Workers : Invoke(t)
         \/ UiPoll \/ Decide \/ Interrupt \/ Server \/ Deliver \/ Leave
         \/ UNCHANGED vars
  PROVE  CallsOK'
<1> USE ThreadsAssumption DEF DeskInv, IInv, Typed, TypeOK, Threads, CallsOK, callVars
<1>1. ASSUME NEW t \in Workers, Invoke(t) PROVE CallsOK'
  BY <1>1 DEF Invoke, Enter
<1>2. CASE UiPoll \/ Interrupt
  BY <1>2 DEF UiPoll, Interrupt
<1>3. CASE Decide
  BY <1>3 DEF Decide, Enter
<1>4. CASE Server \/ Deliver \/ Leave
  <2>1. UNCHANGED <<op, pc, arg, pending>>
    BY <1>4 DEF Server, Ask, Withdraw, Notify, Disconnect, Deliver, Leave
  <2> QED BY <2>1
<1>5. CASE UNCHANGED vars
  BY <1>5 DEF vars
<1> QED BY <1>1, <1>2, <1>3, <1>4, <1>5

-----------------------------------------------------------------------------
\* InboxOK

LEMMA MarkerQueue ==
  ASSUME Typed, InboxOK
  PROVE  /\ WithMarker \in Seq(Events)
         /\ Distinct(WithMarker)
         /\ \A r : Queued(WithMarker, r) <=> Queued(inbox, r)
<1>1. Event("lagged", None) \in Events /\ Event("lagged", None).kind = "lagged"
  BY EventType DEF Event
<1>2. inbox \in Seq(Events) /\ Distinct(inbox)
  BY DEF Typed, TypeOK, InboxOK
<1>3. WithMarker = inbox \/ WithMarker = Append(inbox, Event("lagged", None))
  BY DEF WithMarker
<1>4. /\ Distinct(Append(inbox, Event("lagged", None)))
      /\ \A r : Queued(Append(inbox, Event("lagged", None)), r) <=> Queued(inbox, r)
  BY <1>1, <1>2, QueueAppend
<1>5. WithMarker \in Seq(Events)
  BY MarkerType DEF Typed
<1> QED BY <1>2, <1>3, <1>4, <1>5

\* An event that is no request changes nothing of the questions on their way.
LEMMA OtherEvent ==
  ASSUME Typed, InboxOK, NEW e \in Events, e.kind # "request",
         \/ inbox' = Append(WithMarker, e)
         \/ inbox' = WithMarker
         \/ inbox' = Append(inbox, e)
  PROVE  Distinct(inbox') /\ \A r : Queued(inbox', r) <=> Queued(inbox, r)
<1>1. /\ WithMarker \in Seq(Events) /\ Distinct(WithMarker)
      /\ \A r : Queued(WithMarker, r) <=> Queued(inbox, r)
  BY MarkerQueue
<1>2. inbox \in Seq(Events) /\ Distinct(inbox)
  BY DEF Typed, TypeOK, InboxOK
<1>3. Distinct(Append(WithMarker, e)) /\ \A r : Queued(Append(WithMarker, e), r) <=> Queued(inbox, r)
  BY <1>1, QueueAppend
<1>4. Distinct(Append(inbox, e)) /\ \A r : Queued(Append(inbox, e), r) <=> Queued(inbox, r)
  BY <1>2, QueueAppend
<1> QED BY <1>1, <1>3, <1>4

\* The questions on their way after a step of the server or the worker.
LEMMA AskQueue ==
  ASSUME Typed, InboxOK, NEW r \in Requests, Ask(r)
  PROVE  /\ ~Queued(inbox, r)
         /\ \/ /\ Distinct(inbox')
               /\ \A x : Queued(inbox', x) <=> Queued(inbox, x) \/ x = r
               /\ asked' = [asked EXCEPT ![r] = @ + 1]
            \/ /\ Distinct(inbox')
               /\ \A x : Queued(inbox', x) <=> Queued(inbox, x)
               /\ asked' = asked
<1> DEFINE e == Event("request", r)
<1>1. e \in Events /\ e.kind = "request" /\ e.req = r
  BY EventType DEF Event
<1>2. ~Queued(inbox, r)
  BY DEF Ask, InboxOK
<1>3. /\ WithMarker \in Seq(Events) /\ Distinct(WithMarker)
      /\ \A x : Queued(WithMarker, x) <=> Queued(inbox, x)
  BY MarkerQueue
<1>4. /\ Distinct(Append(WithMarker, e))
      /\ \A x : Queued(Append(WithMarker, e), x) <=> Queued(inbox, x) \/ x = r
  <2> HIDE DEF e
  <2> QED BY <1>1, <1>2, <1>3, QueueAppend
<1>5. CASE Offer(e, TRUE) /\ asked' = [asked EXCEPT ![r] = @ + 1]
  <2>1. inbox' = Append(WithMarker, e)
    BY <1>5 DEF Offer
  <2> QED BY <1>2, <1>4, <1>5, <2>1
<1>6. CASE Offer(e, FALSE) /\ asked' = asked
  <2>1. inbox' = WithMarker
    BY <1>6 DEF Offer
  <2> QED BY <1>2, <1>3, <1>6, <2>1
<1> QED BY <1>5, <1>6 DEF Ask

LEMMA NotifyQueue ==
  ASSUME Typed, InboxOK, Notify \/ Deliver
  PROVE  Distinct(inbox') /\ \A r : Queued(inbox', r) <=> Queued(inbox, r)
<1>1. CASE Notify
  <2>1. Event("closed", None) \in Events /\ Event("closed", None).kind = "closed"
    BY EventType DEF Event
  <2>2. CASE UNCHANGED inbox
    BY <2>2 DEF InboxOK
  <2>3. CASE inbox' = Append(WithMarker, Event("closed", None)) \/ inbox' = WithMarker
    BY <2>1, <2>3, OtherEvent
  <2> QED BY <1>1, <2>2, <2>3 DEF Notify, Offer
<1>2. CASE Deliver
  <2>1. CASE skipped
    BY <1>2, <2>1, MarkerQueue DEF Deliver
  <2>2. CASE ~skipped
    <3>1. stuck \in Events /\ stuck.kind # "request"
      BY <1>2 DEF Deliver, Typed, TypeOK, StuckOK, InboxOK
    <3> QED BY <1>2, <2>2, <3>1, OtherEvent DEF Deliver
  <2> QED BY <2>1, <2>2
<1> QED BY <1>1, <1>2

LEMMA InboxStep == ASSUME DeskInv, [Next]_vars PROVE InboxOK'
<1> USE DEF DeskInv, IInv
<1>0. InboxOK /\ inbox \in Seq(Events)
  BY DEF Typed, TypeOK
<1>1. ASSUME UNCHANGED <<inbox, sentHere, request, stuck>> PROVE InboxOK'
  BY <1>0, <1>1 DEF InboxOK
<1>2. ASSUME NEW t \in Workers, Invoke(t) PROVE InboxOK'
  BY <1>1, <1>2 DEF Invoke, linkVars, serverVars
<1>3. ASSUME NEW t \in Threads, Acquire(t) PROVE InboxOK'
  BY <1>1, <1>3 DEF Acquire, RpcBegin, Connect, PollBegin, ApproveBegin, linkVars, serverVars
<1>4. ASSUME NEW t \in Threads, Resume(t) PROVE InboxOK'
  BY <1>1, <1>4 DEF Resume, PutBack, PollAgain, PollEnd, RefreshDone, ApproveEnd, linkVars, serverVars
<1>5. ASSUME NEW t \in Threads, Await(t) PROVE InboxOK'
  <2>1. CASE RpcEnd(t) \/ RefreshWaits(t) \/ ConnectFails(t) \/ NoEvent(t) \/ AckFails(t)
    BY <1>1, <2>1 DEF RpcEnd, RefreshWaits, ConnectFails, NoEvent, AckFails, linkVars, serverVars
  <2>2. CASE Connected(t)
    <3>1. inbox' = <<>> /\ stuck' = None /\ sentHere' = {}
      BY <2>2 DEF Connected
    <3> QED BY <3>1 DEF InboxOK, Distinct, Queued
  <2>3. CASE NextEvent(t)
    <3>1. inbox # <<>> /\ inbox' = Tail(inbox) /\ UNCHANGED <<sentHere, request, stuck>>
      BY <2>3 DEF NextEvent, serverVars
    <3>2. Distinct(inbox') /\ \A r : Queued(inbox', r) => Queued(inbox, r)
      BY <1>0, <3>1, QueueTail DEF InboxOK
    <3> QED BY <1>0, <3>1, <3>2 DEF InboxOK
  <2>4. CASE Ack(t)
    <3>1. UNCHANGED <<inbox, sentHere, stuck>> /\ \A r \in Requests : request'[r] = "new" => request[r] = "new"
      BY <2>4 DEF Ack, linkVars, Typed, TypeOK
    <3> QED BY <1>0, <3>1 DEF InboxOK, Typed, TypeOK
  <2> QED BY <1>5, <2>1, <2>2, <2>3, <2>4 DEF Await
<1>6. CASE UiPoll \/ Decide \/ Interrupt \/ Leave \/ UNCHANGED vars
  BY <1>1, <1>6 DEF UiPoll, Decide, Interrupt, Leave, linkVars, serverVars, vars
<1>7. ASSUME NEW r \in Requests, Ask(r) PROVE InboxOK'
  <2>1. Distinct(inbox') /\ \A x : Queued(inbox', x) => Queued(inbox, x) \/ x = r
    BY <1>0, <1>7, AskQueue
  <2>2. /\ sentHere' = sentHere \cup {r} /\ stuck' = stuck
        /\ request' = [request EXCEPT ![r] = "open"] \/ request' = [request EXCEPT ![r] = "rejected"]
    BY <1>7 DEF Ask
  <2> QED BY <1>0, <2>1, <2>2 DEF InboxOK, Typed, TypeOK
<1>8. ASSUME NEW r \in Requests, Withdraw(r) PROVE InboxOK'
  BY <1>0, <1>8 DEF Withdraw, linkVars, InboxOK, Typed, TypeOK
<1>9. CASE Notify
  <2>1. Distinct(inbox') /\ \A r : Queued(inbox', r) => Queued(inbox, r)
    BY <1>0, <1>9, NotifyQueue
  <2>2. UNCHANGED <<sentHere, request>> /\ (stuck' = stuck \/ stuck' = Event("note", None))
    BY <1>9 DEF Notify, Block
  <2>3. Event("note", None).kind = "note"
    BY DEF Event
  <2> QED BY <1>0, <2>1, <2>2, <2>3 DEF InboxOK
<1>10. CASE Disconnect
  <2>1. stuck'.kind = "disconnected" /\ UNCHANGED <<inbox, sentHere, request>>
    BY <1>10 DEF Disconnect, Block, Event, serverVars
  <2> QED BY <1>0, <2>1 DEF InboxOK
<1>11. CASE Deliver
  <2>1. Distinct(inbox') /\ \A r : Queued(inbox', r) => Queued(inbox, r)
    BY <1>0, <1>11, NotifyQueue
  <2>2. UNCHANGED <<sentHere, request>> /\ (stuck' = stuck \/ stuck' = None)
    BY <1>11 DEF Deliver, serverVars
  <2> QED BY <1>0, <2>1, <2>2 DEF InboxOK
<1> QED BY <1>2, <1>3, <1>4, <1>5, <1>6, <1>7, <1>8, <1>9, <1>10, <1>11 DEF Next, Server

-----------------------------------------------------------------------------
\* CountsOK and SlotOK

\* A step that asks, decides, answers and shows nothing, and brings no question and
\* no decision back.
LEMMA CountsKept ==
  ASSUME Typed, CountsOK, UNCHANGED <<asked, decided, answers, shown>>,
         \A r \in Approvals : /\ Queued(inbox, r)' => Queued(inbox, r)
                              /\ Unanswered(r)' => Unanswered(r)
                              /\ Deciding(r)' => Deciding(r)
  PROVE  CountsOK'
<1> SUFFICES ASSUME NEW r \in Approvals
             PROVE  /\ answers[r] + OneIf(Queued(inbox, r)') + OneIf(Unanswered(r)') <= asked[r]
                    /\ answers[r] + OneIf(Deciding(r)') <= decided[r]
                    /\ shown = r => asked[r] > 0
  BY DEF CountsOK, OneIf
<1>1. answers[r] \in Nat /\ asked[r] \in Nat /\ decided[r] \in Nat
  BY DEF Typed, TypeOK, Requests
<1>2. /\ answers[r] + OneIf(Queued(inbox, r)) + OneIf(Unanswered(r)) <= asked[r]
      /\ answers[r] + OneIf(Deciding(r)) <= decided[r]
      /\ shown = r => asked[r] > 0
  BY DEF CountsOK
<1>3. /\ OneIf(Queued(inbox, r)') <= OneIf(Queued(inbox, r))
      /\ OneIf(Unanswered(r)') <= OneIf(Unanswered(r))
      /\ OneIf(Deciding(r)') <= OneIf(Deciding(r))
      /\ {OneIf(Queued(inbox, r)'), OneIf(Queued(inbox, r)), OneIf(Unanswered(r)'), OneIf(Unanswered(r)),
          OneIf(Deciding(r)'), OneIf(Deciding(r))} \subseteq {0, 1}
  BY DEF OneIf
<1> QED BY <1>1, <1>2, <1>3

\* Only the call of a decision touches what it is deciding and has answered.
LEMMA SameDecision ==
  ASSUME UNCHANGED pending,
         op'[Ui] = op[Ui] /\ pc'[Ui] = pc[Ui] /\ arg'[Ui] = arg[Ui] /\ fate'[Ui] = fate[Ui]
  PROVE  /\ Answered' = Answered
         /\ \A r : Unanswered(r)' = Unanswered(r) /\ Deciding(r)' = Deciding(r)
BY DEF Answered, Unanswered, Deciding

\* No answer has been written while another call has the mutex, or none.
LEMMA NotAnswered ==
  ASSUME DeskInv, lock # Ui \/ op[Ui] # "approve" \/ pc[Ui] # "putBack"
  PROVE  ~Answered
BY DEF DeskInv, IInv, Custody, Answered, Inside, Threads

CountsAndSlot == CountsOK /\ SlotOK

LEMMA CountsAcquire == ASSUME DeskInv, NEW t \in Threads, Acquire(t) PROVE CountsAndSlot'
<1>1. lock = None /\ pc[t] = "lock" /\ ~Answered
  BY NotAnswered, ThreadsAssumption DEF Acquire, RpcBegin, Connect, PollBegin, ApproveBegin, At, Threads
<1>2. UNCHANGED <<inbox, asked, decided, answers, shown, pending>>
  BY DEF Acquire, RpcBegin, Connect, PollBegin, ApproveBegin, linkVars, serverVars, uiVars
<1>3. /\ pc'[t] = "ack" => pc[t] \in {"lock", "ack"}
      /\ arg'[t] = arg[t] \/ pc'[t] = "idle"
      /\ op'[t] = op[t] \/ op'[t] = "none"
      /\ fate'[t] \in {"more", "error", fate[t]} /\ (pc'[t] = "putBack" => fate'[t] = "error")
      /\ pc'[t] # "lock"
      /\ \A u \in Threads \ {t} : pc'[u] = pc[u] /\ op'[u] = op[u] /\ arg'[u] = arg[u] /\ fate'[u] = fate[u]
  <2> USE <1>1 DEF DeskInv, IInv, Typed, TypeOK
  <2>1. CASE RpcBegin(t)
    BY <2>1 DEF RpcBegin, Return
  <2>2. CASE Connect(t)
    BY <2>2 DEF Connect, Return
  <2>3. CASE PollBegin(t)
    BY <2>3 DEF PollBegin, Return, Take
  <2>4. CASE ApproveBegin(t)
    BY <2>4 DEF ApproveBegin, Handled
  <2> QED BY <2>1, <2>2, <2>3, <2>4 DEF Acquire
<1>4. ~Answered'
  <2>1. CASE t = Ui
    BY <1>3, <2>1 DEF Answered
  <2>2. CASE t # Ui
    BY <1>1, <1>3, <2>2 DEF Answered, Threads
  <2> QED BY <2>1, <2>2
<1>5. \A r \in Approvals : /\ Unanswered(r)' => Unanswered(r)
                           /\ Deciding(r)' => Deciding(r)
  <2>1. CASE t = Ui
    BY <1>1, <1>2, <1>3, <1>4, <2>1 DEF Unanswered, Deciding
  <2>2. CASE t # Ui
    BY <1>1, <1>2, <1>3, <1>4, <2>2 DEF Unanswered, Deciding, Threads
  <2> QED BY <2>1, <2>2
<1>6. CountsOK'
  BY <1>2, <1>5, CountsKept DEF DeskInv, IInv
<1>7. SlotOK'
  BY <1>4 DEF SlotOK
<1> QED BY <1>6, <1>7 DEF CountsAndSlot

LEMMA CountsResume == ASSUME DeskInv, NEW t \in Threads, Resume(t) PROVE CountsAndSlot'
<1> USE DEF DeskInv, IInv, Typed, TypeOK
<1>1. UNCHANGED <<inbox, asked, decided, answers, shown>>
  BY DEF Resume, PutBack, PollAgain, PollEnd, RefreshDone, ApproveEnd, linkVars, serverVars, uiVars
<1>2. lock = t /\ Ui \in Threads
  BY DEF Resume, PutBack, PollAgain, PollEnd, RefreshDone, ApproveEnd, At, Custody, Inside, Threads
<1>3. CASE ApproveEnd(t)
  <2>1. t = Ui /\ op'[Ui] = "none" /\ pending' = IF Answered THEN None ELSE pending
    BY <1>3 DEF ApproveEnd, At, CallsOK, Return, Answered
  <2>2. None \notin Approvals
    BY RequestsAssumption DEF Requests
  <2>3. \A r \in Approvals : /\ Unanswered(r)' => Unanswered(r)
                             /\ Deciding(r)' => Deciding(r)
    BY <2>1, <2>2 DEF Unanswered, Deciding, Answered
  <2>4. SlotOK'
    BY <2>1 DEF SlotOK, Answered
  <2> QED BY <1>1, <2>3, <2>4, CountsKept DEF CountsAndSlot
<1>4. CASE PutBack(t) \/ PollAgain(t) \/ PollEnd(t) \/ RefreshDone(t)
  <2>1. op[t] # "approve" /\ pending' = pending
    BY <1>4 DEF PutBack, PollAgain, PollEnd, RefreshDone, CallsOK
  <2>2. ~Answered
    BY <1>2, <2>1, NotAnswered
  <2>3. op'[t] # "approve"
    BY <1>4, <2>1 DEF PutBack, PollAgain, PollEnd, RefreshDone, Return
  <2>4. \A u \in Threads \ {t} : pc'[u] = pc[u] /\ op'[u] = op[u] /\ arg'[u] = arg[u] /\ fate'[u] = fate[u]
    BY <1>4 DEF PutBack, PollAgain, PollEnd, RefreshDone, Return, Take
  <2>5. ~Answered' /\ \A r \in Approvals : /\ Unanswered(r)' => Unanswered(r)
                                           /\ Deciding(r)' => Deciding(r)
    <3>1. CASE t = Ui
      BY <2>1, <2>2, <2>3, <3>1 DEF Answered, Unanswered, Deciding
    <3>2. CASE t # Ui
      BY <1>2, <2>1, <2>2, <2>4, <3>2, SameDecision
    <3> QED BY <3>1, <3>2
  <2> QED BY <1>1, <2>5, CountsKept DEF CountsAndSlot, SlotOK
<1> QED BY <1>3, <1>4 DEF Resume

LEMMA CountsAwait == ASSUME DeskInv, NEW t \in Threads, Await(t) PROVE CountsAndSlot'
<1> USE DEF DeskInv, IInv, Typed, TypeOK
<1>1. lock = t /\ Ui \in Threads /\ pc[t] # "putBack" /\ ~Answered
  <2>1. lock = t /\ Ui \in Threads /\ pc[t] # "putBack"
    BY DEF Await, RpcEnd, RefreshWaits, Connected, ConnectFails, NextEvent, NoEvent, Ack, AckFails, At,
           Custody, Inside, Threads
  <2> QED BY <2>1, NotAnswered
<1>2. CASE RpcEnd(t) \/ RefreshWaits(t) \/ ConnectFails(t) \/ NoEvent(t) \/ Connected(t)
  <2>1. op[t] # "approve" /\ pending' = pending /\ UNCHANGED <<asked, decided, answers, shown>>
    BY <1>2 DEF RpcEnd, RefreshWaits, ConnectFails, NoEvent, Connected, At, CallsOK, serverVars, uiVars
  <2>2. op'[t] # "approve"
    BY <1>2, <2>1 DEF RpcEnd, RefreshWaits, ConnectFails, NoEvent, Connected, Return
  <2>3. \A u \in Threads \ {t} : pc'[u] = pc[u] /\ op'[u] = op[u] /\ arg'[u] = arg[u] /\ fate'[u] = fate[u]
    BY <1>2 DEF RpcEnd, RefreshWaits, ConnectFails, NoEvent, Connected, Return, Take, Handled
  <2>4. \A r : Queued(inbox, r)' => Queued(inbox, r)
    <3>1. inbox' = inbox \/ inbox' = <<>>
      BY <1>2 DEF RpcEnd, RefreshWaits, ConnectFails, NoEvent, Connected, linkVars
    <3> QED BY <3>1 DEF Queued
  <2>5. ~Answered' /\ \A r \in Approvals : /\ Unanswered(r)' => Unanswered(r)
                                           /\ Deciding(r)' => Deciding(r)
    <3>1. CASE t = Ui
      BY <1>1, <2>1, <2>2, <3>1 DEF Answered, Unanswered, Deciding
    <3>2. CASE t # Ui
      BY <1>1, <2>1, <2>3, <3>2, SameDecision
    <3> QED BY <3>1, <3>2
  <2> QED BY <2>1, <2>4, <2>5, CountsKept DEF CountsAndSlot, SlotOK
<1>3. CASE AckFails(t)
  <2>1. UNCHANGED <<inbox, asked, decided, answers, shown, pending, op, arg>>
    BY <1>3 DEF AckFails, linkVars, serverVars, uiVars
  <2>2. pc' = [pc EXCEPT ![t] = "putBack"] /\ fate' = [fate EXCEPT ![t] = "error"]
    BY <1>3 DEF AckFails, Handled
  <2>3. ~Answered' /\ \A r \in Approvals : /\ Unanswered(r)' => Unanswered(r)
                                           /\ Deciding(r)' => Deciding(r)
    BY <1>1, <2>1, <2>2 DEF Answered, Unanswered, Deciding
  <2> QED BY <2>1, <2>3, CountsKept DEF CountsAndSlot, SlotOK
<1>4. CASE NextEvent(t)
  <2> DEFINE e == Head(inbox)
  <2>1. /\ UNCHANGED <<asked, decided, answers, shown, op>> /\ inbox # <<>> /\ inbox' = Tail(inbox)
        /\ op[t] # "approve" /\ pc[t] = "next"
    BY <1>4 DEF NextEvent, serverVars, uiVars, CallsOK
  <2>2. \A u \in Threads \ {t} : pc'[u] = pc[u] /\ op'[u] = op[u] /\ arg'[u] = arg[u] /\ fate'[u] = fate[u]
    BY <1>4 DEF NextEvent, Handled
  <2>3. \A r : /\ Queued(inbox', r) => Queued(inbox, r)
               /\ e.kind = "request" /\ e.req = r => Queued(inbox, r) /\ ~Queued(inbox', r)
    BY <2>1, QueueTail DEF InboxOK
  <2>4. ~Answered' /\ \A r \in Approvals : Deciding(r)' => Deciding(r)
    <3>1. CASE t = Ui
      BY <2>1, <3>1 DEF Answered, Deciding
    <3>2. CASE t # Ui
      BY <1>1, <2>2, <3>2 DEF Answered, Deciding
    <3> QED BY <3>1, <3>2
  <2>5. CASE UNCHANGED pending
    BY <1>1, <2>1, <2>3, <2>4, <2>5, CountsKept DEF CountsAndSlot, SlotOK, Unanswered
  <2>6. CASE e.kind = "request" /\ e.req \in Approvals /\ pending' = e.req
    <3> SUFFICES ASSUME NEW r \in Approvals
                 PROVE  /\ answers[r] + OneIf(Queued(inbox', r)) + OneIf(Unanswered(r)') <= asked[r]
                        /\ answers[r] + OneIf(Deciding(r)') <= decided[r]
                        /\ shown = r => asked[r] > 0
      BY <2>1, <2>4 DEF CountsAndSlot, CountsOK, SlotOK, OneIf
    <3>1. answers[r] \in Nat /\ asked[r] \in Nat /\ decided[r] \in Nat
      BY DEF Requests
    <3>2. /\ answers[r] + OneIf(Queued(inbox, r)) + OneIf(Unanswered(r)) <= asked[r]
          /\ answers[r] + OneIf(Deciding(r)) <= decided[r]
          /\ shown = r => asked[r] > 0
      BY DEF CountsOK
    <3>3. OneIf(Queued(inbox', r)) + OneIf(Unanswered(r)') <= OneIf(Queued(inbox, r))
      BY <2>3, <2>6 DEF OneIf, Unanswered
    <3>4. OneIf(Deciding(r)') <= OneIf(Deciding(r))
      BY <2>4 DEF OneIf
    <3>5. {OneIf(Queued(inbox', r)), OneIf(Unanswered(r)'), OneIf(Queued(inbox, r)), OneIf(Unanswered(r)),
           OneIf(Deciding(r)'), OneIf(Deciding(r))} \subseteq {0, 1}
      BY DEF OneIf
    <3> QED BY <3>1, <3>2, <3>3, <3>4, <3>5, SMTT(30)
  <2> QED BY <1>4, <2>5, <2>6 DEF NextEvent
<1>5. CASE Ack(t)
  <2>1. /\ UNCHANGED <<inbox, asked, decided, shown, pending, op, arg>> /\ pc[t] = "ack"
        /\ pc' = [pc EXCEPT ![t] = "putBack"]
    BY <1>5 DEF Ack, Handled, linkVars, uiVars
  <2>2. CASE answers' = answers /\ fate' = [fate EXCEPT ![t] = "error"]
    <3>1. ~Answered' /\ \A r \in Approvals : /\ Unanswered(r)' => Unanswered(r)
                                             /\ Deciding(r)' => Deciding(r)
      BY <1>1, <2>1, <2>2 DEF Answered, Unanswered, Deciding
    <3> QED BY <2>1, <2>2, <3>1, CountsKept DEF CountsAndSlot, SlotOK
  <2>3. CASE /\ answers' = [answers EXCEPT ![arg[t]] = @ + 1]
             /\ fate' = [fate EXCEPT ![t] = IF op[t] = "approve" THEN "ok" ELSE "more"]
    <3>1. CASE op[t] # "approve"
      <4>1. arg[t] \in Unsupported /\ \A r \in Approvals : answers'[r] = answers[r]
        BY <2>1, <2>3, <3>1, RequestsAssumption DEF CallsOK
      <4>2. ~Answered' /\ \A r \in Approvals : /\ Unanswered(r)' => Unanswered(r)
                                               /\ Deciding(r)' => Deciding(r)
        BY <1>1, <2>1, <2>3, <3>1 DEF Answered, Unanswered, Deciding
      <4> SUFFICES ASSUME NEW r \in Approvals
                   PROVE  /\ answers[r] + OneIf(Queued(inbox, r)) + OneIf(Unanswered(r)') <= asked[r]
                          /\ answers[r] + OneIf(Deciding(r)') <= decided[r]
                          /\ shown = r => asked[r] > 0
        BY <2>1, <4>1, <4>2 DEF CountsAndSlot, CountsOK, SlotOK, OneIf
      <4>3. answers[r] \in Nat /\ asked[r] \in Nat /\ decided[r] \in Nat
        BY DEF Requests
      <4>4. /\ answers[r] + OneIf(Queued(inbox, r)) + OneIf(Unanswered(r)) <= asked[r]
            /\ answers[r] + OneIf(Deciding(r)) <= decided[r]
            /\ shown = r => asked[r] > 0
        BY DEF CountsOK
      <4>5. OneIf(Unanswered(r)') <= OneIf(Unanswered(r)) /\ OneIf(Deciding(r)') <= OneIf(Deciding(r))
        BY <4>2 DEF OneIf
      <4>6. {OneIf(Unanswered(r)'), OneIf(Queued(inbox, r)), OneIf(Unanswered(r)),
             OneIf(Deciding(r)'), OneIf(Deciding(r))} \subseteq {0, 1}
        BY DEF OneIf
      <4> QED BY <4>3, <4>4, <4>5, <4>6
    <3>2. CASE op[t] = "approve"
      <4>1. t = Ui /\ arg[t] \in Approvals /\ pending = arg[t]
        BY <2>1, <3>2 DEF CallsOK
      <4>2. PICK a \in Approvals : a = arg[t]
        BY <4>1
      <4>3. answers[a] \in Nat /\ answers' = [answers EXCEPT ![a] = answers[a] + 1]
        BY <2>3, <4>2 DEF Requests
      <4>4. Answered' /\ \A r \in Approvals : ~Unanswered(r)' /\ ~Deciding(r)'
        BY <2>1, <2>3, <3>2, <4>1 DEF Answered, Unanswered, Deciding
      <4>5. Unanswered(a) /\ Deciding(a)
        BY <1>1, <2>1, <3>2, <4>1, <4>2 DEF Unanswered, Deciding
      <4>6. SlotOK'
        BY <2>1, <4>1, <4>2, <4>3 DEF SlotOK, Requests
      <4> SUFFICES ASSUME NEW r \in Approvals
                   PROVE  /\ answers'[r] + OneIf(Queued(inbox, r)) <= asked[r]
                          /\ answers'[r] <= decided[r]
                          /\ shown = r => asked[r] > 0
        <5>1. ASSUME NEW r \in Approvals PROVE answers'[r] \in Nat
          BY <4>3, SMTT(30) DEF Requests
        <5> QED BY <2>1, <4>4, <4>6, <5>1 DEF CountsAndSlot, CountsOK, OneIf
      <4>7. answers[r] \in Nat /\ asked[r] \in Nat /\ decided[r] \in Nat
        BY DEF Requests
      <4>8. /\ answers[r] + OneIf(Queued(inbox, r)) + OneIf(Unanswered(r)) <= asked[r]
            /\ answers[r] + OneIf(Deciding(r)) <= decided[r]
            /\ shown = r => asked[r] > 0
        BY DEF CountsOK
      <4>9. /\ OneIf(Queued(inbox, r)) \in {0, 1} /\ OneIf(Unanswered(r)) \in {0, 1}
            /\ OneIf(Deciding(r)) \in {0, 1}
            /\ r = a => OneIf(Unanswered(r)) = 1 /\ OneIf(Deciding(r)) = 1
        BY <4>5 DEF OneIf
      <4>10. answers'[r] = answers[r] + (IF r = a THEN 1 ELSE 0)
        <5>1. answers \in [Requests -> Nat] /\ r \in Requests /\ a \in Requests
          BY DEF Requests
        <5> HIDE DEF DeskInv, IInv, Typed, TypeOK
        <5>2. CASE r = a
          BY <4>3, <5>1, <5>2
        <5>3. CASE r # a
          BY <4>3, <4>7, <5>1, <5>3
        <5> QED BY <5>2, <5>3
      <4> QED BY <4>7, <4>8, <4>9, <4>10
    <3> QED BY <3>1, <3>2
  <2> QED BY <1>5, <2>2, <2>3 DEF Ack, Handled
<1> QED BY <1>2, <1>3, <1>4, <1>5 DEF Await

LEMMA CountsUi == ASSUME DeskInv, UiPoll \/ Decide \/ Interrupt PROVE CountsAndSlot'
<1> USE DEF DeskInv, IInv, Typed, TypeOK
<1>1. CASE Interrupt
  <2>1. UNCHANGED <<inbox, asked, decided, answers, shown, pending, op, pc, arg, fate>>
    BY <1>1 DEF Interrupt, callVars, linkVars, serverVars
  <2> QED BY <2>1 DEF CountsAndSlot, CountsOK, SlotOK, Answered, Unanswered, Deciding, OneIf
<1>2. CASE UiPoll
  <2>1. /\ UNCHANGED <<inbox, asked, decided, answers, pending, op, pc, arg, fate>>
        /\ pc[Ui] = "idle" /\ shown' = pending /\ pending \in Approvals
    BY <1>2 DEF UiPoll, callVars, linkVars, serverVars
  <2>2. SlotOK'
    BY <2>1 DEF SlotOK, Answered
  <2>3. Unanswered(pending)
    BY <2>1 DEF Unanswered, Answered
  <2> SUFFICES ASSUME NEW r \in Approvals
               PROVE  /\ answers[r] + OneIf(Queued(inbox, r)) + OneIf(Unanswered(r)) <= asked[r]
                      /\ answers[r] + OneIf(Deciding(r)) <= decided[r]
                      /\ pending = r => asked[r] > 0
    BY <2>1, <2>2 DEF CountsAndSlot, CountsOK, OneIf, Unanswered, Answered, Deciding
  <2>4. answers[r] \in Nat /\ asked[r] \in Nat
    BY DEF Requests
  <2>5. /\ answers[r] + OneIf(Queued(inbox, r)) + OneIf(Unanswered(r)) <= asked[r]
        /\ answers[r] + OneIf(Deciding(r)) <= decided[r]
    BY DEF CountsOK
  <2>6. OneIf(Queued(inbox, r)) \in {0, 1} /\ (pending = r => OneIf(Unanswered(r)) = 1)
    BY <2>3 DEF OneIf
  <2> QED BY <2>4, <2>5, <2>6
<1>3. CASE Decide
  <2>1. PICK s \in Approvals : s = shown
    BY <1>3 DEF Decide
  <2>2. /\ UNCHANGED <<inbox, asked, answers, pending>> /\ pc[Ui] = "idle"
        /\ op' = [op EXCEPT ![Ui] = "approve"] /\ pc' = [pc EXCEPT ![Ui] = "lock"]
        /\ arg' = [arg EXCEPT ![Ui] = s] /\ decided' = [decided EXCEPT ![s] = decided[s] + 1]
        /\ shown' = None /\ Ui \in Threads
    BY <1>3, <2>1 DEF Decide, Enter, linkVars, serverVars, Threads, Requests
  <2>3. ~Answered /\ ~Answered' /\ \A r \in Approvals : /\ Unanswered(r)' <=> Unanswered(r)
                                                        /\ ~Deciding(r)
                                                        /\ Deciding(r)' <=> r = s
    BY <2>2 DEF Answered, Unanswered, Deciding
  <2>4. None \notin Approvals
    BY RequestsAssumption DEF Requests
  <2> SUFFICES ASSUME NEW r \in Approvals
               PROVE  /\ answers[r] + OneIf(Queued(inbox, r)) + OneIf(Unanswered(r)) <= asked[r]
                      /\ answers[r] + OneIf(r = s) <= decided'[r]
    BY <2>2, <2>3, <2>4 DEF CountsAndSlot, CountsOK, SlotOK, OneIf
  <2>5. answers[r] \in Nat /\ decided[r] \in Nat /\ OneIf(r = s) \in {0, 1}
    BY DEF Requests, OneIf
  <2>6. /\ answers[r] + OneIf(Queued(inbox, r)) + OneIf(Unanswered(r)) <= asked[r]
        /\ answers[r] + OneIf(Deciding(r)) <= decided[r]
        /\ OneIf(Deciding(r)) = 0
    BY <2>3 DEF CountsOK, OneIf
  <2>7. decided'[r] = decided[r] + OneIf(r = s)
    <3>1. decided \in [Requests -> Nat] /\ r \in Requests /\ s \in Requests
      BY DEF Requests
    <3> HIDE DEF DeskInv, IInv, Typed, TypeOK
    <3>2. CASE r = s
      BY <2>2, <3>1, <3>2 DEF OneIf
    <3>3. CASE r # s
      BY <2>2, <2>5, <3>1, <3>3 DEF OneIf
    <3> QED BY <3>2, <3>3
  <2> QED BY <2>5, <2>6, <2>7
<1> QED BY <1>1, <1>2, <1>3

\* A step outside the calls that decides, answers and shows nothing.
LEMMA CountsSame ==
  ASSUME DeskInv, UNCHANGED <<op, pc, arg, fate, pending, asked, decided, answers, shown>>,
         \A r \in Approvals : Queued(inbox, r)' => Queued(inbox, r)
  PROVE  CountsAndSlot'
<1>1. Answered' = Answered /\ \A r : Unanswered(r)' = Unanswered(r) /\ Deciding(r)' = Deciding(r)
  BY SameDecision
<1> QED BY <1>1, CountsKept DEF DeskInv, IInv, CountsAndSlot, SlotOK

LEMMA CountsOthers ==
  ASSUME DeskInv,
         \/ \E t \in Workers : Invoke(t)
         \/ Server \/ Deliver \/ Leave
         \/ UNCHANGED vars
  PROVE  CountsAndSlot'
<1> USE DEF DeskInv, IInv
<1>1. ASSUME NEW t \in Workers, Invoke(t) PROVE CountsAndSlot'
  <2>1. /\ UNCHANGED <<inbox, asked, decided, answers, shown, pending, arg, fate>>
        /\ \A u \in Threads \ {t} : pc'[u] = pc[u] /\ op'[u] = op[u]
    BY <1>1 DEF Invoke, Enter, linkVars, serverVars, uiVars, Typed, TypeOK
  <2>2. Answered' = Answered /\ \A r : Unanswered(r)' = Unanswered(r) /\ Deciding(r)' = Deciding(r)
    BY <2>1, ThreadsAssumption, SameDecision DEF Threads
  <2> QED BY <2>1, <2>2, CountsKept DEF CountsAndSlot, SlotOK
<1>2. CASE Leave \/ UNCHANGED vars
  <2>1. UNCHANGED <<inbox, op, pc, arg, fate, pending, asked, decided, answers, shown>>
    BY <1>2 DEF Leave, vars, callVars, linkVars, serverVars, uiVars
  <2> QED BY <2>1, CountsSame DEF Queued
<1>3. CASE Notify \/ Deliver
  <2>1. UNCHANGED <<op, pc, arg, fate, pending, asked, decided, answers, shown>>
    BY <1>3 DEF Notify, Deliver, callVars, serverVars, uiVars
  <2> QED BY <1>3, <2>1, NotifyQueue, CountsSame
<1>4. CASE Disconnect
  <2>1. UNCHANGED <<inbox, op, pc, arg, fate, pending, asked, decided, answers, shown>>
    BY <1>4 DEF Disconnect, callVars, serverVars, uiVars
  <2> QED BY <2>1, CountsSame DEF Queued
<1>5. ASSUME NEW q \in Requests, Withdraw(q) PROVE CountsAndSlot'
  <2>1. UNCHANGED <<inbox, op, pc, arg, fate, pending, asked, decided, answers, shown>>
    BY <1>5 DEF Withdraw, callVars, linkVars, uiVars
  <2> QED BY <2>1, CountsSame DEF Queued
<1>6. ASSUME NEW q \in Requests, Ask(q) PROVE CountsAndSlot'
  <2>1. UNCHANGED <<op, pc, arg, fate, pending, decided, answers, shown>>
    BY <1>6 DEF Ask, callVars, uiVars
  <2>2. CASE asked' = asked /\ \A x : Queued(inbox', x) <=> Queued(inbox, x)
    BY <2>1, <2>2, CountsSame
  <2>3. CASE asked' = [asked EXCEPT ![q] = @ + 1] /\ \A x : Queued(inbox', x) <=> Queued(inbox, x) \/ x = q
    <3>1. Answered' = Answered /\ \A r : Unanswered(r)' = Unanswered(r) /\ Deciding(r)' = Deciding(r)
      BY <2>1, SameDecision
    <3> SUFFICES ASSUME NEW r \in Approvals
                 PROVE  /\ answers[r] + OneIf(Queued(inbox', r)) + OneIf(Unanswered(r)) <= asked'[r]
                        /\ answers[r] + OneIf(Deciding(r)) <= decided[r]
                        /\ shown = r => asked'[r] > 0
      BY <2>1, <3>1 DEF CountsAndSlot, CountsOK, SlotOK, OneIf
    <3>2. answers[r] \in Nat /\ asked[r] \in Nat /\ decided[r] \in Nat
      BY DEF Typed, TypeOK, Requests
    <3>3. /\ answers[r] + OneIf(Queued(inbox, r)) + OneIf(Unanswered(r)) <= asked[r]
          /\ answers[r] + OneIf(Deciding(r)) <= decided[r]
          /\ shown = r => asked[r] > 0
      BY DEF CountsOK
    <3>4. asked'[r] = asked[r] + OneIf(r = q)
      BY <2>3, <3>2, SMTT(30) DEF OneIf, Typed, TypeOK, Requests
    <3>5. OneIf(Queued(inbox', r)) <= OneIf(Queued(inbox, r)) + OneIf(r = q)
      BY <2>3 DEF OneIf
    <3>6. {OneIf(Queued(inbox', r)), OneIf(Queued(inbox, r)), OneIf(Unanswered(r)), OneIf(r = q)} \subseteq {0, 1}
      BY DEF OneIf
    <3> QED BY <3>2, <3>3, <3>4, <3>5, <3>6
  <2> QED BY <1>6, <2>2, <2>3, AskQueue
<1> QED BY <1>1, <1>2, <1>3, <1>4, <1>5, <1>6 DEF Server

LEMMA DeskStep == DeskInv /\ [Next]_vars => DeskInv'
<1> SUFFICES ASSUME DeskInv, [Next]_vars PROVE DeskInv'
  OBVIOUS
<1>1. IInv'
  BY InductiveStep DEF DeskInv
<1>2. CallsOK'
  BY CallsAcquire, CallsAwait, CallsResume, CallsOthers DEF Next
<1>3. InboxOK'
  BY InboxStep
<1>4. CountsAndSlot'
  BY CountsAcquire, CountsAwait, CountsResume, CountsUi, CountsOthers DEF Next
<1> QED BY <1>1, <1>2, <1>3, <1>4 DEF DeskInv, CountsAndSlot

LEMMA DeskInvariant == Spec => []DeskInv
<1>1. Init => DeskInv
  BY TypeInit, CustodyInit, DeskInitially DEF DeskInv, IInv
<1> QED BY <1>1, DeskStep, PTL DEF Spec

(***************************************************************************)
(* An approval leaves the slot only when its answer was written            *)
(* (resolve_pending_approval) or a newer one takes its place.              *)
(***************************************************************************)
THEOREM ApprovalsAnswered == Spec => SlotClearedByAnswer
<1>1. DeskInv /\ [Next]_vars => [pending # None /\ pending' = None => answers[pending] > 0]_vars
  <2> SUFFICES ASSUME DeskInv, [Next]_vars, pending # None, pending' = None
               PROVE  answers[pending] > 0
    OBVIOUS
  <2>1. \A t \in Threads : ~Acquire(t)
    BY DEF Acquire, RpcBegin, Connect, PollBegin, ApproveBegin
  <2>2. \A t \in Threads : ~Await(t)
    <3> SUFFICES ASSUME NEW t \in Threads, Await(t) PROVE FALSE
      OBVIOUS
    <3>1. NextEvent(t)
      BY DEF Await, RpcEnd, RefreshWaits, Connected, ConnectFails, NoEvent, Ack, AckFails
    <3>2. pending' \in Approvals
      BY <3>1 DEF NextEvent
    <3> QED BY <3>2, RequestsAssumption DEF Requests
  <2>3. ~UNCHANGED vars /\ \A t \in Workers : ~Invoke(t)
    BY DEF vars, callVars, Invoke, Enter
  <2>4. ~(UiPoll \/ Decide \/ Interrupt \/ Server \/ Deliver \/ Leave)
    BY DEF UiPoll, Decide, Enter, Interrupt, Server, Ask, Withdraw, Notify, Disconnect, Deliver, Leave, callVars
  <2>5. PICK t \in Threads : Resume(t)
    BY <2>1, <2>2, <2>3, <2>4 DEF Next
  <2>6. ApproveEnd(t) /\ t = Ui /\ Answered
    BY <2>5 DEF Resume, PutBack, PollAgain, PollEnd, RefreshDone, ApproveEnd, At, DeskInv, CallsOK, Answered
  <2> QED BY <2>6 DEF DeskInv, SlotOK
<1> QED BY <1>1, DeskInvariant, PTL DEF Spec, SlotClearedByAnswer

-----------------------------------------------------------------------------
(* HostConversation implements ApprovalDesk. *)

LEMMA OneMore ==
  ASSUME NEW f \in [Requests -> Nat], NEW r \in Requests
  PROVE  /\ r \in Approvals =>
              OfApprovals([f EXCEPT ![r] = @ + 1]) = [OfApprovals(f) EXCEPT ![r] = @ + 1]
         /\ r \notin Approvals => OfApprovals([f EXCEPT ![r] = @ + 1]) = OfApprovals(f)
BY DEF OfApprovals, Requests

\* No step but a server's request, a decision and a written answer counts anything.
LEMMA CountsNothing ==
  ASSUME [Next]_vars, ~Decide, \A r \in Requests : ~Ask(r), \A t \in Threads : ~Ack(t)
  PROVE  UNCHANGED <<asked, decided, answers>>
<1> USE DEF serverVars, uiVars
<1>1. CASE UNCHANGED vars
  BY <1>1 DEF vars
<1>2. ASSUME NEW t \in Threads, Invoke(t) \/ Acquire(t) \/ Resume(t) PROVE UNCHANGED <<asked, decided, answers>>
  BY <1>2 DEF Invoke, Acquire, RpcBegin, Connect, PollBegin, ApproveBegin,
              Resume, PutBack, PollAgain, PollEnd, RefreshDone, ApproveEnd
<1>3. ASSUME NEW t \in Threads, Await(t) PROVE UNCHANGED <<asked, decided, answers>>
  BY <1>3 DEF Await, RpcEnd, RefreshWaits, Connected, ConnectFails, NextEvent, NoEvent, AckFails
<1>4. CASE UiPoll \/ Interrupt \/ Server \/ Deliver \/ Leave
  BY <1>4 DEF UiPoll, Interrupt, Server, Withdraw, Notify, Disconnect, Deliver, Leave
<1> QED BY <1>1, <1>2, <1>3, <1>4 DEF Next, Threads

LEMMA DeskInit == Init => Desk!Init
BY DEF Init, Desk!Init, Desk!Zero, OfApprovals, Requests

LEMMA AskMaps ==
  ASSUME DeskInv, NEW r \in Requests, Ask(r)
  PROVE  [Desk!Next]_(Desk!vars)
<1>1. asked \in [Requests -> Nat]
  BY DEF DeskInv, IInv, Typed, TypeOK
<1>2. UNCHANGED <<decided, answers>>
  BY DEF Ask, uiVars
<1>3. asked' = [asked EXCEPT ![r] = @ + 1] \/ asked' = asked
  BY DEF Ask
<1>4. CASE asked' = asked \/ r \notin Approvals
  <2>1. OfApprovals(asked)' = OfApprovals(asked)
    <3>1. OfApprovals(asked)' = OfApprovals(asked')
      BY DEF OfApprovals
    <3> QED BY <1>1, <1>3, <1>4, <3>1, OneMore
  <2> QED BY <1>2, <2>1 DEF Desk!vars, OfApprovals
<1>5. CASE asked' = [asked EXCEPT ![r] = @ + 1] /\ r \in Approvals
  <2>1. OfApprovals(asked)' = [OfApprovals(asked) EXCEPT ![r] = @ + 1]
    <3>1. OfApprovals(asked)' = OfApprovals(asked')
      BY DEF OfApprovals
    <3> QED BY <1>1, <1>5, <3>1, OneMore
  <2>2. Desk!Ask(r)
    BY <1>2, <2>1 DEF Desk!Ask, OfApprovals
  <2> QED BY <1>5, <2>2 DEF Desk!Next
<1> QED BY <1>3, <1>4, <1>5

LEMMA DecideMaps ==
  ASSUME DeskInv, Decide
  PROVE  [Desk!Next]_(Desk!vars)
<1>1. decided \in [Requests -> Nat]
  BY DEF DeskInv, IInv, Typed, TypeOK
<1>2. PICK r \in Approvals : r = shown
  BY DEF Decide, DeskInv, IInv, Typed, TypeOK
<1>3. decided' = [decided EXCEPT ![r] = @ + 1] /\ UNCHANGED <<asked, answers>> /\ r \in Requests
  BY <1>2 DEF Decide, serverVars, Requests
<1>4. OfApprovals(decided)' = [OfApprovals(decided) EXCEPT ![r] = @ + 1]
  <2>1. OfApprovals(decided)' = OfApprovals(decided')
    BY DEF OfApprovals
  <2> QED BY <1>1, <1>3, <2>1, OneMore
<1>5. OfApprovals(asked)[r] > 0
  BY <1>2 DEF DeskInv, CountsOK, OfApprovals
<1>6. Desk!Decide(r)
  BY <1>3, <1>4, <1>5 DEF Desk!Decide, OfApprovals
<1> QED BY <1>6 DEF Desk!Next

LEMMA AckMaps ==
  ASSUME DeskInv, NEW t \in Threads, Ack(t)
  PROVE  [Desk!Next]_(Desk!vars)
<1> USE DEF DeskInv, IInv, Typed, TypeOK
<1>1. answers \in [Requests -> Nat] /\ pc[t] = "ack" /\ UNCHANGED <<asked, decided>>
  BY DEF Ack, uiVars
<1>2. CASE answers' = answers
  BY <1>1, <1>2 DEF Desk!vars, OfApprovals
<1>3. CASE answers' = [answers EXCEPT ![arg[t]] = @ + 1] /\ op[t] # "approve"
  <2>1. PICK r \in Requests : r = arg[t] /\ r \notin Approvals
    BY <1>1, <1>3, RequestsAssumption DEF CallsOK, Requests
  <2>2. OfApprovals(answers)' = OfApprovals(answers)
    <3>1. OfApprovals(answers)' = OfApprovals(answers')
      BY DEF OfApprovals
    <3> QED BY <1>1, <1>3, <2>1, <3>1, OneMore
  <2> QED BY <1>1, <2>2 DEF Desk!vars, OfApprovals
<1>4. CASE answers' = [answers EXCEPT ![arg[t]] = @ + 1] /\ op[t] = "approve"
  <2>1. PICK r \in Approvals : r = arg[t] /\ t = Ui /\ pending = r
    BY <1>1, <1>4 DEF CallsOK
  <2>2. r \in Requests
    BY DEF Requests
  <2>3. OfApprovals(answers)' = [OfApprovals(answers) EXCEPT ![r] = @ + 1]
    <3>1. OfApprovals(answers)' = OfApprovals(answers')
      BY DEF OfApprovals
    <3>2. answers' = [answers EXCEPT ![r] = @ + 1]
      BY <1>4, <2>1
    <3>3. OfApprovals([answers EXCEPT ![r] = @ + 1]) = [OfApprovals(answers) EXCEPT ![r] = @ + 1]
      BY <1>1, <2>2, OneMore
    <3> QED BY <3>1, <3>2, <3>3
  <2>4. Unanswered(r) /\ Deciding(r)
    BY <1>1, <1>4, <2>1 DEF Unanswered, Deciding, Answered
  <2>5. answers[r] < asked[r] /\ answers[r] < decided[r]
    <3>1. answers[r] + OneIf(Queued(inbox, r)) + 1 <= asked[r] /\ answers[r] + 1 <= decided[r]
      BY <2>4 DEF CountsOK, OneIf
    <3>2. OneIf(Queued(inbox, r)) \in {0, 1} /\ answers[r] \in Nat /\ asked[r] \in Nat /\ decided[r] \in Nat
      BY <2>2 DEF OneIf
    <3> QED BY <3>1, <3>2
  <2>6. Desk!Answer(r)
    BY <1>1, <2>3, <2>5 DEF Desk!Answer, OfApprovals
  <2> QED BY <2>6 DEF Desk!Next
<1> QED BY <1>2, <1>3, <1>4 DEF Ack

(***************************************************************************)
(* The host keeps the promise of ApprovalDesk, however polls, RPCs,        *)
(* reconnects and decisions overlap: the user decides only on what was     *)
(* asked, and there is never a second answer to one question or decision   *)
(* (handle_server_request, codex_ohos_host_approval_poll,                  *)
(* resolve_pending_approval).                                              *)
(***************************************************************************)
THEOREM ImplementsApprovalDesk == Spec => DeskRefined
<1>1. DeskInv /\ [Next]_vars => [Desk!Next]_(Desk!vars)
  <2> SUFFICES ASSUME DeskInv, [Next]_vars PROVE [Desk!Next]_(Desk!vars)
    OBVIOUS
  <2>1. CASE ~Decide /\ (\A r \in Requests : ~Ask(r)) /\ \A t \in Threads : ~Ack(t)
    BY <2>1, CountsNothing DEF Desk!vars, OfApprovals
  <2> QED BY <2>1, AskMaps, DecideMaps, AckMaps
<1> QED BY <1>1, DeskInit, DeskInvariant, PTL DEF Spec, DeskRefined, Desk!Spec

=============================================================================

-------------------------- MODULE HostConversation --------------------------
(***************************************************************************)
(* NATIVE_CONVERSATION_STATE of codex-rs/ohos-host/src/lib.rs and the FFI  *)
(* calls that share it.  The app's threads call into the host at any time; *)
(* most calls hold the mutex of NATIVE_ASYNC_RUNTIME for their whole       *)
(* block_on.  A call that needs &mut of the websocket client TAKES it out  *)
(* of the state, awaits, and puts it back if its worker still lives.  The  *)
(* calls that do not hold the runtime (turn_interrupt, approval_poll, the  *)
(* MCP manager) look at the state in between.                              *)
(*                                                                         *)
(* Of the client (module RemoteClient) only what the host can feel is      *)
(* kept: its bounded event channel, a worker that serves no command while  *)
(* a lossless event finds no room, and that it may disconnect any time.    *)
(***************************************************************************)
EXTENDS Naturals, Sequences

CONSTANTS Ui,           \* the app's main thread: the user decides here
          Workers,      \* taskpool threads: polls and RPCs
          Approvals,    \* server requests the user must answer
          Unsupported,  \* server requests the host answers by itself
          Capacity,     \* channel_capacity
          MaxConns,     \* bound: connections ever made
          MaxNotes,     \* bound: notifications the server emits
          MaxDecisions, \* bound: decisions on one request
          None

Threads == Workers \cup {Ui}
Requests == Approvals \cup Unsupported

ASSUME BoundsAssumption == /\ Capacity \in Nat \ {0}
                           /\ MaxConns \in Nat
                           /\ MaxNotes \in Nat
                           /\ MaxDecisions \in Nat
ASSUME ThreadsAssumption == Ui \notin Workers /\ None \notin Threads
ASSUME RequestsAssumption == Approvals \cap Unsupported = {} /\ None \notin Requests

VARIABLES
  lock,       \* who holds the mutex of NATIVE_ASYNC_RUNTIME
  client,     \* state.client: the number of its connection, 0 for None
  taken,      \* the client a thread has taken out of the state, 0 for none
  pending,    \* state.pending_approval
  op, pc,     \* the FFI call a thread is in, and where it waits
  arg,        \* the server request a call is about to answer
  fate,       \* what the awaited part of a call came to
  conn,       \* connections made so far; the latest is the only one alive
  worker,     \* the worker task of that connection
  inbox,      \* its event channel
  skipped,    \* it has dropped events it has not yet reported
  stuck,      \* the event it is blocked on
  request,    \* the server's view of its requests
  sentHere,   \* the requests sent on the latest connection
  notes,      \* notifications emitted so far
  shown,      \* the UI's pendingApproval
  unheard,    \* a turn/interrupt was dropped although the worker lived
  asked, decided, answers  \* history: per request, how often it was sent to
              \* the host, decided by the user, and answered by the host

uiVars == <<shown, unheard, decided>>
serverVars == <<request, sentHere, asked, answers, notes>>
linkVars == <<worker, inbox, skipped, stuck>>
callVars == <<lock, client, taken, pending, op, pc, arg, fate>>
vars == <<callVars, conn, linkVars, serverVars, uiVars>>

Event(kind, r) == [kind |-> kind, req |-> r]
Events == [kind : {"note", "closed", "request", "lagged", "disconnected"},
           req : Requests \cup {None}]

ASSUME NoneAssumption == None \notin Events

Init == /\ lock = None
        /\ client = 0
        /\ taken = [t \in Threads |-> 0]
        /\ pending = None
        /\ op = [t \in Threads |-> "none"]
        /\ pc = [t \in Threads |-> "idle"]
        /\ arg = [t \in Threads |-> None]
        /\ fate = [t \in Threads |-> "more"]
        /\ conn = 0
        /\ worker = "exited"
        /\ inbox = <<>>
        /\ skipped = FALSE
        /\ stuck = None
        /\ request = [r \in Requests |-> "new"]
        /\ sentHere = {}
        /\ notes = 0
        /\ shown = None
        /\ unheard = FALSE
        /\ asked = [r \in Requests |-> 0]
        /\ decided = [r \in Requests |-> 0]
        /\ answers = [r \in Requests |-> 0]

-----------------------------------------------------------------------------
\* Entering and leaving the host

Healthy(c) == c # 0 /\ c = conn /\ worker # "exited"

\* is_healthy decides whether the client goes back or is dropped.
Restored(t) == IF Healthy(taken[t]) THEN taken[t] ELSE 0

Enter(t, kind) ==
  /\ pc[t] = "idle"
  /\ op' = [op EXCEPT ![t] = kind]
  /\ pc' = [pc EXCEPT ![t] = "lock"]
  /\ UNCHANGED <<lock, client, taken, pending, fate>>

\* turn_events, turn_poll; turn_start with its refresh; any other RPC; initialize
Invoke(t) ==
  /\ \E kind \in {"poll", "refresh", "rpc", "connect"} : Enter(t, kind)
  /\ UNCHANGED <<arg, conn, linkVars, serverVars, uiVars>>

Return(t) ==
  /\ lock' = None
  /\ pc' = [pc EXCEPT ![t] = "idle"]
  /\ op' = [op EXCEPT ![t] = "none"]
  /\ arg' = [arg EXCEPT ![t] = None]
  /\ fate' = [fate EXCEPT ![t] = "more"]

At(t, kind, where) == op[t] = kind /\ pc[t] = where

-----------------------------------------------------------------------------
\* RPCs: the handle is cloned, the client stays in the state.

RpcBegin(t) ==
  /\ pc[t] = "lock"
  /\ op[t] \in {"rpc", "refresh"}
  /\ lock = None
  /\ \/ /\ client # 0
        /\ lock' = t
        /\ pc' = [pc EXCEPT ![t] = "rpc"]
        /\ UNCHANGED <<op, arg, fate>>
     \/ client = 0 /\ Return(t)
  /\ UNCHANGED <<client, taken, pending, conn, linkVars, serverVars, uiVars>>

\* A response, an error, or REQUEST_TIMEOUT.
RpcEnd(t) ==
  /\ pc[t] = "rpc"
  /\ Return(t)
  /\ UNCHANGED <<client, taken, pending, conn, linkVars, serverVars, uiVars>>

\* Wrong on purpose: initialize does not run under the runtime's mutex.
ConnectUnlocked(t) ==
  /\ At(t, "connect", "lock")
  /\ \/ client # 0 /\ lock = None /\ Return(t)
     \/ /\ client = 0
        /\ pc' = [pc EXCEPT ![t] = "handshake"]
        /\ UNCHANGED <<lock, op, arg, fate>>
  /\ UNCHANGED <<client, taken, pending, conn, linkVars, serverVars, uiVars>>

Connect(t) ==
  /\ At(t, "connect", "lock")
  /\ lock = None
  /\ \/ client # 0 /\ Return(t)
     \/ /\ client = 0
        /\ lock' = t
        /\ pc' = [pc EXCEPT ![t] = "handshake"]
        /\ UNCHANGED <<op, arg, fate>>
  /\ UNCHANGED <<client, taken, pending, conn, linkVars, serverVars, uiVars>>

Connected(t) ==
  /\ pc[t] = "handshake"
  /\ conn < MaxConns
  /\ Return(t)
  /\ conn' = conn + 1
  /\ client' = conn + 1
  /\ worker' = "serving"
  /\ inbox' = <<>>
  /\ skipped' = FALSE
  /\ stuck' = None
  /\ sentHere' = {}
  /\ UNCHANGED <<taken, pending, request, asked, answers, notes, uiVars>>

ConnectFails(t) ==
  /\ pc[t] = "handshake"
  /\ Return(t)
  /\ UNCHANGED <<client, taken, pending, conn, linkVars, serverVars, uiVars>>

-----------------------------------------------------------------------------
\* process_pending_events and wait_for_thread_closed: take, next_event, handle,
\* put back, once per event.

Take(t) ==
  /\ client # 0
  /\ taken' = [taken EXCEPT ![t] = client]
  /\ client' = 0
  /\ pc' = [pc EXCEPT ![t] = "next"]
  /\ fate' = [fate EXCEPT ![t] = "more"]

PollBegin(t) ==
  /\ At(t, "poll", "lock")
  /\ lock = None
  /\ \/ Take(t) /\ lock' = t /\ UNCHANGED <<op, arg>>
     \/ client = 0 /\ Return(t) /\ UNCHANGED <<client, taken>>
  /\ UNCHANGED <<pending, conn, linkVars, serverVars, uiVars>>

\* Unsubscribed: wait for ThreadClosed, the runtime still locked.
RefreshWaits(t) ==
  /\ At(t, "refresh", "rpc")
  /\ \/ Take(t) /\ UNCHANGED <<lock, op, arg>>
     \/ client = 0 /\ Return(t) /\ UNCHANGED <<client, taken>>
  /\ UNCHANGED <<pending, conn, linkVars, serverVars, uiVars>>

Handled(t, outcome, where) ==
  /\ fate' = [fate EXCEPT ![t] = outcome]
  /\ pc' = [pc EXCEPT ![t] = where]

\* handle_app_server_event, handle_server_request
NextEvent(t) ==
  /\ pc[t] = "next"
  /\ inbox # <<>>
  /\ LET e == Head(inbox)
     IN /\ \/ /\ e.kind \in {"note", "lagged"}
              /\ Handled(t, "more", "putBack")
              /\ UNCHANGED <<pending, arg>>
           \/ /\ e.kind = "closed"
              /\ Handled(t, IF op[t] = "refresh" THEN "closed" ELSE "more", "putBack")
              /\ UNCHANGED <<pending, arg>>
           \/ /\ e.kind = "disconnected"
              /\ Handled(t, "error", "putBack")
              /\ UNCHANGED <<pending, arg>>
           \/ /\ e.kind = "request"
              /\ e.req \in Approvals
              /\ pending' = e.req
              /\ Handled(t, "more", "putBack")
              /\ UNCHANGED arg
           \/ /\ e.kind = "request"
              /\ e.req \in Unsupported
              /\ arg' = [arg EXCEPT ![t] = e.req]
              /\ Handled(t, "more", "ack")
              /\ UNCHANGED pending
        /\ inbox' = Tail(inbox)
  /\ UNCHANGED <<lock, client, taken, op, conn, worker, skipped, stuck, serverVars, uiVars>>

\* The idle timeout, or the channel is closed: next_event yields None.
NoEvent(t) ==
  /\ pc[t] = "next"
  /\ inbox = <<>>
  /\ Handled(t, "idle", "putBack")
  /\ UNCHANGED <<lock, client, taken, pending, op, arg, conn, linkVars, serverVars, uiVars>>

\* Wrong on purpose: an error returns before the client is put back.
PutBackUnlessError(t) ==
  /\ pc[t] = "putBack"
  /\ op[t] # "approve"
  /\ client' = IF fate[t] = "error" THEN 0 ELSE Restored(t)
  /\ taken' = [taken EXCEPT ![t] = 0]
  /\ pc' = [pc EXCEPT ![t] = "after"]
  /\ UNCHANGED <<lock, pending, op, arg, fate, conn, linkVars, serverVars, uiVars>>

PutBack(t) ==
  /\ pc[t] = "putBack"
  /\ op[t] # "approve"
  /\ client' = Restored(t)
  /\ taken' = [taken EXCEPT ![t] = 0]
  /\ pc' = [pc EXCEPT ![t] = "after"]
  /\ UNCHANGED <<lock, pending, op, arg, fate, conn, linkVars, serverVars, uiVars>>

\* The loop goes on; or, the turn being over without a diff, a second loop
\* waits for a trailing one.
PollAgain(t) ==
  /\ pc[t] = "after"
  /\ \/ /\ \/ fate[t] = "more"
           \/ op[t] = "refresh" /\ fate[t] = "idle"
        /\ UNCHANGED op
     \/ /\ op[t] = "poll"
        /\ fate[t] # "error"
        /\ op' = [op EXCEPT ![t] = "trail"]
  /\ Take(t)
  /\ UNCHANGED <<lock, pending, arg, conn, linkVars, serverVars, uiVars>>

\* An error, nothing more to read, the limits of the loop, or no client any more.
PollEnd(t) ==
  /\ pc[t] = "after"
  /\ fate[t] # "closed"
  /\ Return(t)
  /\ UNCHANGED <<client, taken, pending, conn, linkVars, serverVars, uiVars>>

\* ThreadClosed: thread/resume and turn/start follow.
RefreshDone(t) ==
  /\ pc[t] = "after"
  /\ fate[t] = "closed"
  /\ op' = [op EXCEPT ![t] = "rpc"]
  /\ pc' = [pc EXCEPT ![t] = "rpc"]
  /\ UNCHANGED <<lock, client, taken, pending, arg, fate, conn, linkVars, serverVars, uiVars>>

-----------------------------------------------------------------------------
\* Answers: the worker acknowledges the write; nothing times out.

Ack(t) ==
  /\ pc[t] = "ack"
  /\ worker = "serving"
  /\ \/ /\ Handled(t, IF op[t] = "approve" THEN "ok" ELSE "more", "putBack")
        /\ answers' = [answers EXCEPT ![arg[t]] = @ + 1]
        /\ request' = [request EXCEPT ![arg[t]] = IF @ = "open" THEN "answered" ELSE @]
     \/ /\ Handled(t, "error", "putBack")   \* the write fails
        /\ UNCHANGED <<answers, request>>
  /\ UNCHANGED <<lock, client, taken, pending, op, arg, conn, linkVars, sentHere, asked, notes, uiVars>>

\* Wrong on purpose: a command nobody will serve is waited for.
AckWaitsForever(t) == FALSE /\ UNCHANGED vars

AckFails(t) ==
  /\ pc[t] = "ack"
  /\ worker = "exited"
  /\ Handled(t, "error", "putBack")
  /\ UNCHANGED <<lock, client, taken, pending, op, arg, conn, linkVars, serverVars, uiVars>>

\* Wrong on purpose: answers whatever is pending.
ApproveUnchecked(t) ==
  /\ At(t, "approve", "lock")
  /\ lock = None
  /\ lock' = t
  /\ taken' = [taken EXCEPT ![t] = client]
  /\ client' = 0
  /\ IF client # 0 /\ pending # None
     THEN Handled(t, "more", "ack") /\ arg' = [arg EXCEPT ![t] = pending]
     ELSE Handled(t, "error", "putBack") /\ UNCHANGED arg
  /\ UNCHANGED <<pending, op, conn, linkVars, serverVars, uiVars>>

\* resolve_pending_approval: the id the user saw must be the pending one.
ApproveBegin(t) ==
  /\ At(t, "approve", "lock")
  /\ lock = None
  /\ lock' = t
  /\ taken' = [taken EXCEPT ![t] = client]
  /\ client' = 0
  /\ IF client # 0 /\ pending = arg[t]
     THEN Handled(t, "more", "ack")
     ELSE Handled(t, "error", "putBack")
  /\ UNCHANGED <<pending, op, arg, conn, linkVars, serverVars, uiVars>>

\* Wrong on purpose: the slot is cleared although the answer did not go out.
ApproveClears(t) ==
  /\ At(t, "approve", "putBack")
  /\ client' = Restored(t)
  /\ taken' = [taken EXCEPT ![t] = 0]
  /\ pending' = None
  /\ Return(t)
  /\ UNCHANGED <<conn, linkVars, serverVars, uiVars>>

ApproveEnd(t) ==
  /\ At(t, "approve", "putBack")
  /\ client' = Restored(t)
  /\ taken' = [taken EXCEPT ![t] = 0]
  /\ pending' = IF fate[t] = "ok" THEN None ELSE pending
  /\ Return(t)
  /\ UNCHANGED <<conn, linkVars, serverVars, uiVars>>

-----------------------------------------------------------------------------
\* The app's main thread; none of these waits for the runtime's mutex.

\* pollPendingApproval, every second: approval_poll only reads the slot.
UiPoll ==
  /\ pc[Ui] = "idle"
  /\ pending # None
  /\ shown' = pending
  /\ UNCHANGED <<callVars, conn, linkVars, serverVars, unheard, decided>>

\* approvePendingRequest, declinePendingRequest
Decide ==
  /\ shown # None
  /\ decided[shown] < MaxDecisions
  /\ Enter(Ui, "approve")
  /\ arg' = [arg EXCEPT ![Ui] = shown]
  /\ decided' = [decided EXCEPT ![shown] = @ + 1]
  /\ shown' = None
  /\ UNCHANGED <<conn, linkVars, serverVars, unheard>>

\* turn_interrupt: without a client in the state there is nobody to send it;
\* with one, the request goes out and the turn's requests are withdrawn later.
Interrupt ==
  /\ pc[Ui] = "idle"
  /\ unheard' = (unheard \/ (client = 0 /\ worker # "exited"))
  /\ UNCHANGED <<callVars, conn, linkVars, serverVars, shown, decided>>

-----------------------------------------------------------------------------
\* The worker and the server behind it (see RemoteClient)

Room(q) == Len(q) < Capacity

WithMarker == IF skipped /\ Room(inbox)
              THEN Append(inbox, Event("lagged", None))
              ELSE inbox

\* A best-effort event; TRUE if it found room.
Offer(e, taking) ==
  IF taking
  THEN Room(WithMarker) /\ inbox' = Append(WithMarker, e) /\ skipped' = FALSE
  ELSE ~Room(WithMarker) /\ inbox' = WithMarker /\ skipped' = TRUE

\* The server asks; once more on a connection that resumes the thread.
Ask(r) ==
  /\ worker = "serving"
  /\ \/ request[r] = "new"
     \/ request[r] = "open" /\ r \notin sentHere
  /\ sentHere' = sentHere \cup {r}
  /\ \/ /\ Offer(Event("request", r), TRUE)
        /\ request' = [request EXCEPT ![r] = "open"]
        /\ asked' = [asked EXCEPT ![r] = @ + 1]
        /\ UNCHANGED worker
     \/ /\ Offer(Event("request", r), FALSE)
        /\ \/ request' = [request EXCEPT ![r] = "rejected"] /\ UNCHANGED worker
           \/ request' = [request EXCEPT ![r] = "open"] /\ worker' = "exited"
        /\ UNCHANGED asked
  /\ UNCHANGED <<callVars, conn, stuck, answers, notes, uiVars>>

\* The turn ends or is interrupted; the host ignores the notification.
Withdraw(r) ==
  /\ request[r] = "open"
  /\ request' = [request EXCEPT ![r] = "withdrawn"]
  /\ UNCHANGED <<callVars, conn, linkVars, sentHere, asked, answers, notes, uiVars>>

\* A notification of the lossless tier, or the end of the stream.
Block(e) == worker' = "blocked" /\ stuck' = e

Notify ==
  /\ worker = "serving"
  /\ notes < MaxNotes
  /\ notes' = notes + 1
  /\ \/ Block(Event("note", None)) /\ UNCHANGED <<inbox, skipped>>
     \/ \E taking \in BOOLEAN : Offer(Event("closed", None), taking)
                                /\ UNCHANGED <<worker, stuck>>
  /\ UNCHANGED <<callVars, conn, request, sentHere, asked, answers, uiVars>>

Disconnect ==
  /\ worker = "serving"
  /\ Block(Event("disconnected", None))
  /\ UNCHANGED <<callVars, conn, inbox, skipped, serverVars, uiVars>>

Deliver ==
  /\ worker = "blocked"
  /\ Room(inbox)
  /\ IF skipped
     THEN inbox' = WithMarker /\ skipped' = FALSE /\ UNCHANGED <<worker, stuck>>
     ELSE /\ inbox' = Append(inbox, stuck)
          /\ stuck' = None
          /\ worker' = IF stuck.kind = "disconnected" THEN "leaving" ELSE "serving"
          /\ UNCHANGED skipped
  /\ UNCHANGED <<callVars, conn, serverVars, uiVars>>

\* The task finishes some time after the consumer can see why.
Leave ==
  /\ worker = "leaving"
  /\ worker' = "exited"
  /\ UNCHANGED <<callVars, conn, inbox, skipped, stuck, serverVars, uiVars>>

-----------------------------------------------------------------------------
Acquire(t) == RpcBegin(t) \/ Connect(t) \/ PollBegin(t) \/ ApproveBegin(t)

Await(t) == \/ RpcEnd(t) \/ RefreshWaits(t)
            \/ Connected(t) \/ ConnectFails(t)
            \/ NextEvent(t) \/ NoEvent(t)
            \/ Ack(t) \/ AckFails(t)

Resume(t) == PutBack(t) \/ PollAgain(t) \/ PollEnd(t) \/ RefreshDone(t) \/ ApproveEnd(t)

Server == \/ \E r \in Requests : Ask(r) \/ Withdraw(r)
          \/ Notify \/ Disconnect

Next == \/ \E t \in Workers : Invoke(t)
        \/ \E t \in Threads : Acquire(t) \/ Await(t) \/ Resume(t)
        \/ UiPoll \/ Decide \/ Interrupt
        \/ Server \/ Deliver \/ Leave

Spec == Init /\ [][Next]_vars

-----------------------------------------------------------------------------
(* Safety *)

Ops == {"none", "poll", "trail", "refresh", "rpc", "connect", "approve"}
Inside == {"rpc", "handshake", "next", "ack", "putBack", "after"}

TypeOK == /\ lock \in Threads \cup {None}
          /\ client \in 0..MaxConns
          /\ taken \in [Threads -> 0..MaxConns]
          /\ pending \in Approvals \cup {None}
          /\ op \in [Threads -> Ops]
          /\ pc \in [Threads -> {"idle", "lock"} \cup Inside]
          /\ arg \in [Threads -> Requests \cup {None}]
          /\ fate \in [Threads -> {"more", "idle", "closed", "ok", "error"}]
          /\ conn \in 0..MaxConns
          /\ worker \in {"serving", "blocked", "leaving", "exited"}
          /\ inbox \in Seq(Events)
          /\ skipped \in BOOLEAN
          /\ stuck \in Events \cup {None}
          /\ request \in [Requests -> {"new", "open", "answered", "rejected", "withdrawn"}]
          /\ sentHere \subseteq Requests
          /\ notes \in 0..MaxNotes
          /\ shown \in Approvals \cup {None}
          /\ unheard \in BOOLEAN
          /\ asked \in [Requests -> Nat]
          /\ decided \in [Requests -> Nat]
          /\ answers \in [Requests -> Nat]

(***************************************************************************)
(* The mutex of the runtime protects what is held across an await: only    *)
(* its holder is inside the host, and only the holder has the client.      *)
(***************************************************************************)
OnlyHolderInside == \A t \in Threads : /\ pc[t] \in Inside => lock = t
                                       /\ taken[t] # 0 => pc[t] \in {"next", "ack", "putBack"}

(***************************************************************************)
(* The client is never lost and never doubled: as long as its worker       *)
(* lives, it is either in the state or with exactly one call, which puts   *)
(* it back; so a reconnect only ever replaces a dead one.                  *)
(***************************************************************************)
ClientNeverLost ==
  /\ worker # "exited" => \/ client = conn /\ \A t \in Threads : taken[t] = 0
                          \/ \E t \in Threads : lock = t /\ taken[t] = conn /\ client = 0
  /\ \A t \in Threads : taken[t] # 0 => taken[t] = conn /\ client = 0

\* The approvals behave as ApprovalDesk says.
OfApprovals(f) == [r \in Approvals |-> f[r]]
Desk == INSTANCE ApprovalDesk WITH asked <- OfApprovals(asked),
                                   decided <- OfApprovals(decided),
                                   answers <- OfApprovals(answers)
DeskRefined == Desk!Spec

(***************************************************************************)
(* An approval leaves the slot only because its answer was written or a    *)
(* newer one took its place: a failed answer can be given again.           *)
(***************************************************************************)
SlotClearedByAnswer == [][pending # None /\ pending' = None => answers[pending] > 0]_vars

-----------------------------------------------------------------------------
(* Liveness *)

(***************************************************************************)
(* A call that waits for the mutex gets it sooner or later, because the    *)
(* app's loops sleep between two calls; the limits of a polling loop and   *)
(* the deadline of the refresh are reached; RPCs, handshakes and           *)
(* next_event are under timeouts; the worker is a task of a multi-threaded *)
(* runtime; the approval timer fires while a turn is active.               *)
(***************************************************************************)
Fairness == /\ \A t \in Threads : /\ SF_vars(Acquire(t))
                                  /\ WF_vars(Await(t))
                                  /\ WF_vars(Resume(t))
                                  /\ SF_vars(PollEnd(t))
            /\ WF_vars(Deliver)
            /\ WF_vars(Leave)
            /\ WF_vars(UiPoll)

FairSpec == Spec /\ Fairness

(***************************************************************************)
(* An answer waits for the worker without a timeout while it has the only  *)
(* client that could drain the events the worker is blocked on.            *)
(***************************************************************************)
Wedged == \E t \in Threads : pc[t] = "ack" /\ worker = "blocked" /\ ~Room(inbox)

(***************************************************************************)
(* Every call into the host returns, except in that wedge.                 *)
(***************************************************************************)
CallsReturnUnlessWedged == \A t \in Threads : pc[t] # "idle" ~> pc[t] = "idle" \/ Wedged

(***************************************************************************)
(* remote.rs:58 bounds the requests so that no caller blocks the main      *)
(* thread for ever: every call into the host returns.  Refuted: the wedge. *)
(***************************************************************************)
CallsReturn == \A t \in Threads : pc[t] # "idle" ~> pc[t] = "idle"

(***************************************************************************)
(* The UI says the turn was interrupted: the request reached the client,   *)
(* as long as there was a connection.  Refuted: a poll had taken it.       *)
(***************************************************************************)
InterruptHeard == ~unheard
=============================================================================

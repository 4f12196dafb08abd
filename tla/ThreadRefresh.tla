----------------------------- MODULE ThreadRefresh -----------------------------
(***************************************************************************)
(* How a turn gets a session with the current provider configuration.      *)
(*                                                                         *)
(* startTurn (CodexBackend.ets) resumes the thread; turn_start             *)
(* (ohos-host/src/lib.rs) then unsubscribes, waits until the app-server    *)
(* has unloaded the thread and resumes it again, since a resume of a       *)
(* loaded thread keeps its configuration.  In the app-server the processor *)
(* answers one request at a time, the listener of a loaded thread answers  *)
(* its resumes, and a task of its own closes a thread                      *)
(* (codex_message_processor.rs, thread_state.rs, thread_status.rs).        *)
(*                                                                         *)
(* One thread and one client.  Time is left out: a timeout may pass        *)
(* whenever the code waits for it.                                         *)
(***************************************************************************)
EXTENDS Naturals, Sequences

CONSTANTS MaxConns,   \* bound: connections
          MaxSaves,   \* bound: changes of the provider configuration
          MaxTurns    \* bound: calls of startTurn

ASSUME BoundsAssumption == MaxConns \in Nat \ {0} /\ MaxSaves \in Nat /\ MaxTurns \in Nat

Conns == 1..MaxConns
Attempts == 4   \* resumes refresh_thread_session_before_turn_start makes

VARIABLES
  config,    \* version of the provider configuration on disk
  messages,  \* the thread's rollout has messages
  \* the app-server
  sessions,  \* each session of the thread: its configuration, its loop
  loaded,    \* the one in thread_manager, 0 if none
  live,      \* live_connections
  subs,      \* connection_ids of the thread
  resumes,   \* those the listener has yet to answer, or to subscribe
  pending,   \* the thread is in pending_thread_unloads
  watched,   \* thread_watch_manager shows it as loaded
  closers,   \* the tasks thread_unsubscribe has spawned
  inbox,     \* per connection, requests on their way or queued
  \* the host
  conn,      \* its connection, 0 if none
  conns,     \* connections made
  closed,    \* ThreadClosed notifications it has yet to read
  host,      \* the call of startTurn
  turns,     \* calls of startTurn
  accepted   \* history: what the last turn/start that was answered found

thread == <<config, messages>>
server == <<sessions, loaded, live, subs, resumes, pending, watched, closers>>
client == <<conn, conns, closed, turns>>
vars == <<thread, server, inbox, client, host, accepted>>

Places == {"idle", "resume", "ready", "unsubscribe", "closing", "read", "again", "turn"}
NoHost == [pc |-> "idle", attempt |-> 0, known |-> "absent", asked |-> 0, refreshed |-> FALSE,
           settled |-> FALSE]
Job(c, step, wanted) == [conn |-> c, step |-> step, wanted |-> wanted]

\* The app is up and the thread is open, with or without messages.
Init == /\ config = 0
        /\ messages \in BOOLEAN
        /\ sessions = <<[config |-> 0, loop |-> "running"]>>
        /\ loaded = 1
        /\ live = {1} /\ subs = {1}
        /\ resumes = {}
        /\ pending = FALSE
        /\ watched = TRUE
        /\ closers = <<>>
        /\ inbox = [c \in Conns |-> <<>>]
        /\ conn = 1 /\ conns = 1
        /\ closed = 0
        /\ host = [NoHost EXCEPT !.known = IF messages THEN "full" ELSE "empty"]
        /\ turns = 0
        /\ accepted = <<>>

-----------------------------------------------------------------------------
\* The host sends the request its new place stands for; wanted until it gives up on it.

Requested(pc) == IF pc \in {"resume", "again"} THEN "resume"
                 ELSE IF pc \in {"unsubscribe", "read", "turn"} THEN pc ELSE "none"

Sending(box, pc) == IF Requested(pc) = "none" THEN box
                    ELSE [box EXCEPT ![conn] = Append(@, [kind |-> Requested(pc), wanted |-> TRUE])]

Waiting == Requested(host.pc) # "none"

Goes(h) == /\ host' = h
           /\ inbox' = Sending(inbox, h.pc)

\* The request at the head of c's queue is answered; a host that waits for it goes on with h.
Handles(c, kind) == inbox[c] # <<>> /\ Head(inbox[c]).kind = kind
Taken(c) == [inbox EXCEPT ![c] = Tail(@)]
Answer(c, h) == IF Head(inbox[c]).wanted
                THEN host' = h /\ inbox' = Sending(Taken(c), h.pc)
                ELSE UNCHANGED host /\ inbox' = Taken(c)

Ends(h) == [h EXCEPT !.pc = "idle", !.attempt = 0]

\* upsert_thread_state_from_protocol
Resumed(h) == [h EXCEPT !.known = IF messages THEN "full" ELSE "empty"]

\* A failed resume is reported together with the id, which is all resumeThread looks at.
AfterResume(h) == IF h.pc = "resume" THEN [Resumed(h) EXCEPT !.pc = "ready"]
                  ELSE [Resumed(h) EXCEPT !.pc = "turn"]
AfterResumeError(h) == IF h.pc = "resume" THEN [h EXCEPT !.pc = "ready"] ELSE Ends(h)
Retry(h) == [h EXCEPT !.pc = "again", !.attempt = @ + 1]

AfterClosing(h) == IF h.pc = "again" /\ h.attempt < Attempts THEN Retry(h) ELSE AfterResumeError(h)

-----------------------------------------------------------------------------
\* thread_resume in the processor of the app-server

Subscribed(c) == subs \cup ({c} \cap live)

ResumeClosing(c) == /\ Handles(c, "resume") /\ pending
                    /\ Answer(c, AfterClosing(host))
                    /\ UNCHANGED <<thread, server, client, accepted>>

\* The rollout or the configuration cannot be read.
ResumeFails(c) == /\ Handles(c, "resume") /\ ~pending
                  /\ Answer(c, AfterResumeError(host))
                  /\ UNCHANGED <<thread, server, client, accepted>>

\* resume_running_thread leaves the answer to the listener.
ResumeRunning(c) == /\ Handles(c, "resume") /\ ~pending /\ loaded # 0
                    /\ resumes' = resumes \cup {Job(c, "queued", Head(inbox[c]).wanted)}
                    /\ inbox' = Taken(c)
                    /\ UNCHANGED <<thread, sessions, loaded, live, subs, pending, watched, closers,
                                   client, host, accepted>>

Load == /\ sessions' = Append(sessions, [config |-> config, loop |-> "running"])
        /\ loaded' = Len(sessions) + 1

\* Wrong on purpose: the connection is not subscribed.
ResumeColdUnheard(c) == /\ Handles(c, "resume") /\ ~pending /\ loaded = 0
                        /\ Load
                        /\ watched' = TRUE
                        /\ Answer(c, AfterResume(host))
                        /\ UNCHANGED <<thread, live, subs, resumes, pending, closers, client, accepted>>

ResumeCold(c) == /\ Handles(c, "resume") /\ ~pending /\ loaded = 0
                 /\ Load
                 /\ watched' = TRUE
                 /\ subs' = Subscribed(c)
                 /\ Answer(c, AfterResume(host))
                 /\ UNCHANGED <<thread, live, resumes, pending, closers, client, accepted>>

\* The thread is loaded, but its summary cannot be read: it stays, unwatched.
ResumeBreaksOff(c) == /\ Handles(c, "resume") /\ ~pending /\ loaded = 0
                      /\ Load
                      /\ subs' = Subscribed(c)
                      /\ Answer(c, AfterResumeError(host))
                      /\ UNCHANGED <<thread, live, resumes, pending, watched, closers, client, accepted>>

-----------------------------------------------------------------------------
\* Its other handlers

\* remove_thread_state: the listener is told to end; the resumes in its queue may be dropped.
ClearState == /\ subs' = {}
              /\ resumes' \in {resumes, {j \in resumes : j.step = "answered"}}

\* thread_unsubscribe: finalize_thread_teardown
UnsubscribeUnloaded(c) == /\ Handles(c, "unsubscribe") /\ loaded = 0
                          /\ pending' = FALSE
                          /\ ClearState
                          /\ watched' = FALSE
                          /\ Answer(c, Retry(host))
                          /\ UNCHANGED <<thread, sessions, loaded, live, closers, client, accepted>>

\* notSubscribed
UnsubscribeStranger(c) == /\ Handles(c, "unsubscribe") /\ loaded # 0 /\ c \notin subs
                          /\ Answer(c, [host EXCEPT !.pc = "read"])
                          /\ UNCHANGED <<thread, server, client, accepted>>

UnsubscribeOne(c) == /\ Handles(c, "unsubscribe") /\ loaded # 0 /\ c \in subs /\ subs # {c}
                     /\ subs' = subs \ {c}
                     /\ Answer(c, [host EXCEPT !.pc = "closing"])
                     /\ UNCHANGED <<thread, sessions, loaded, live, resumes, pending, watched, closers,
                                    client, accepted>>

\* The last subscriber: the session is told to shut down and a task waits for its end.
UnsubscribeLast(c) ==
  /\ Handles(c, "unsubscribe") /\ loaded # 0 /\ subs = {c}
  /\ pending' = TRUE
  /\ ClearState
  /\ closers' = Append(closers, [session |-> loaded, step |-> "waiting"])
  /\ sessions' = [sessions EXCEPT ![loaded].loop = IF @ = "running" THEN "told" ELSE @]
  /\ Answer(c, [host EXCEPT !.pc = "closing"])
  /\ UNCHANGED <<thread, loaded, live, watched, client, accepted>>

\* Wrong on purpose: any status will do.
ReadAnyStatus(c) == /\ Handles(c, "read")
                    /\ Answer(c, Retry(host))
                    /\ UNCHANGED <<thread, server, client, accepted>>

\* thread_read may fail; refresh_thread_session_before_turn_start goes on only with notLoaded.
Read(c) == /\ Handles(c, "read")
           /\ \/ Answer(c, IF watched THEN Ends(host) ELSE Retry(host))
              \/ Answer(c, Ends(host))
           /\ UNCHANGED <<thread, server, client, accepted>>

\* turn_start: the session's channel takes the turn as long as its loop has not ended.
Takes(loops) == loaded # 0 /\ sessions[loaded].loop \in loops

Turn(c) ==
  /\ Handles(c, "turn")
  /\ Answer(c, Ends(host))
  /\ messages' = (messages \/ Takes({"running"}))
  /\ accepted' = IF Takes({"running", "told"}) /\ Head(inbox[c]).wanted
                 THEN <<[config |-> sessions[loaded].config, loop |-> sessions[loaded].loop,
                         heard |-> c \in subs \/ Job(c, "answered", FALSE) \in resumes,
                         asked |-> host.asked, refreshed |-> host.refreshed,
                         settled |-> host.settled]>>
                 ELSE accepted
  /\ UNCHANGED <<config, server, client>>

\* connection_closed
ServerNotices(c) == /\ c \in live /\ c # conn /\ inbox[c] = <<>>
                    /\ live' = live \ {c}
                    /\ subs' = subs \ {c}
                    /\ UNCHANGED <<thread, sessions, loaded, resumes, pending, watched, closers, inbox,
                                   client, host, accepted>>

-----------------------------------------------------------------------------
\* The listener: handle_pending_thread_resume_request answers, then subscribes.

Respond(j) ==
  /\ j.step = "queued"
  /\ resumes' = (resumes \ {j}) \cup {Job(j.conn, "answered", FALSE)}
  /\ IF j.wanted THEN Goes(AfterResume(host)) ELSE UNCHANGED <<host, inbox>>
  /\ UNCHANGED <<thread, sessions, loaded, live, subs, pending, watched, closers, client, accepted>>

\* populate_thread_turns fails.
RespondFails(j) ==
  /\ j.step = "queued"
  /\ resumes' = resumes \ {j}
  /\ IF j.wanted THEN Goes(AfterResumeError(host)) ELSE UNCHANGED <<host, inbox>>
  /\ UNCHANGED <<thread, sessions, loaded, live, subs, pending, watched, closers, client, accepted>>

Attach(j) == /\ j.step = "answered"
             /\ resumes' = resumes \ {j}
             /\ subs' = Subscribed(j.conn)
             /\ UNCHANGED <<thread, sessions, loaded, live, pending, watched, closers, inbox,
                            client, host, accepted>>

-----------------------------------------------------------------------------
\* The tasks that close a thread

SessionEnds(s) == /\ sessions[s].loop = "told"
                  /\ sessions' = [sessions EXCEPT ![s].loop = "over"]
                  /\ UNCHANGED <<thread, loaded, live, subs, resumes, pending, watched, closers, inbox,
                                 client, host, accepted>>

Step(k, from, to) == closers[k].step = from /\ closers' = [closers EXCEPT ![k].step = to]

\* The session's loop has ended: whatever session has the thread's id is removed.
ShutdownComplete(k) ==
  /\ sessions[closers[k].session].loop = "over"
  /\ Step(k, "waiting", IF loaded = 0 THEN "absent" ELSE "removed")
  /\ loaded' = 0
  /\ UNCHANGED <<thread, sessions, live, subs, resumes, pending, watched, inbox, client, host, accepted>>

\* Wrong on purpose: the thread stays in pending_thread_unloads.
ShutdownTimesOutSilently(k) ==
  /\ Step(k, "waiting", "done")
  /\ UNCHANGED <<thread, sessions, loaded, live, subs, resumes, pending, watched, inbox,
                 client, host, accepted>>

\* Wrong on purpose: the thread is announced as closed.
ShutdownTimesOutAnnounced(k) ==
  /\ Step(k, "waiting", "unwatched")
  /\ UNCHANGED <<thread, sessions, loaded, live, subs, resumes, pending, watched, inbox,
                 client, host, accepted>>

ShutdownTimesOut(k) == /\ Step(k, "waiting", "unpending")
                       /\ UNCHANGED <<thread, sessions, loaded, live, subs, resumes, pending, watched,
                                      inbox, client, host, accepted>>

Unwatch(k) == /\ \/ Step(k, "absent", "unpending")
                 \/ Step(k, "removed", "unwatched")
              /\ watched' = FALSE
              /\ UNCHANGED <<thread, sessions, loaded, live, subs, resumes, pending, inbox,
                             client, host, accepted>>

\* ThreadClosed goes to every connection and is dropped if its event channel is full.
Announce(k) == /\ Step(k, "unwatched", "unpending")
               /\ closed' \in {closed, IF conn \in live THEN closed + 1 ELSE closed}
               /\ UNCHANGED <<thread, sessions, loaded, live, subs, resumes, pending, watched, inbox,
                              conn, conns, turns, host, accepted>>

Unpend(k) == /\ Step(k, "unpending", "done")
             /\ pending' = FALSE
             /\ UNCHANGED <<thread, sessions, loaded, live, subs, resumes, watched, inbox,
                            client, host, accepted>>

-----------------------------------------------------------------------------
\* The host

SaveConfig == /\ config < MaxSaves
              /\ config' = config + 1
              /\ UNCHANGED <<messages, server, inbox, client, host, accepted>>

\* startTurn, ensureRemoteThread, resumeThread
StartTurn == /\ host.pc = "idle" /\ conn # 0
             /\ turns < MaxTurns
             /\ turns' = turns + 1
             /\ Goes([host EXCEPT !.pc = "resume", !.asked = config])
             /\ UNCHANGED <<thread, server, conn, conns, closed, accepted>>

\* Nothing is left of an earlier close, or of an earlier connection.
Settled == /\ closed = 0
           /\ watched = (loaded # 0)
           /\ \A k \in DOMAIN closers : closers[k].step = "done"
           /\ \A c \in Conns : inbox[c] = <<>>
           /\ resumes \subseteq {Job(conn, "answered", FALSE)}
           /\ subs \subseteq {conn}

\* turn_start: a thread known to have no messages is not refreshed.
BeginTurn == /\ host.pc = "ready" /\ conn # 0
             /\ Goes([host EXCEPT !.pc = IF host.known = "empty" THEN "turn" ELSE "unsubscribe",
                                  !.refreshed = host.known # "empty", !.settled = Settled])
             /\ UNCHANGED <<thread, server, client, accepted>>

\* wait_for_thread_closed
ReadClosed == /\ host.pc = "closing" /\ closed > 0
              /\ closed' = closed - 1
              /\ Goes(Retry([host EXCEPT !.known = "absent"]))
              /\ UNCHANGED <<thread, server, conn, conns, turns, accepted>>

DeadlinePasses == /\ host.pc = "closing"
                  /\ Goes(Ends(host))
                  /\ UNCHANGED <<thread, server, client, accepted>>

\* A polling pass for another thread ignores ThreadClosed.
Poll == /\ host.pc \in {"idle", "ready"} /\ closed > 0
        /\ closed' = closed - 1
        /\ UNCHANGED <<thread, server, inbox, conn, conns, turns, host, accepted>>

\* The polls of a turn put its messages into the thread's state.
HearTurn == /\ host.pc \in {"idle", "ready", "closing"} /\ conn # 0
            /\ messages /\ host.known # "full"
            /\ host' = [host EXCEPT !.known = "full"]
            /\ UNCHANGED <<thread, server, inbox, client, accepted>>

\* REQUEST_TIMEOUT: the request goes on without its caller.
Unwanted(r) == [r EXCEPT !.wanted = FALSE]
Abandon(c) == /\ inbox' = [inbox EXCEPT ![c] = [i \in DOMAIN @ |-> Unwanted(@[i])]]
              /\ resumes' = {Unwanted(j) : j \in resumes}

RequestTimesOut == /\ Waiting
                   /\ host' = AfterResumeError(host)
                   /\ Abandon(conn)
                   /\ UNCHANGED <<thread, sessions, loaded, live, subs, pending, watched, closers,
                                  client, accepted>>

\* The connection breaks; requests that have not arrived may be lost.
Disconnect == /\ conn # 0 /\ conns < MaxConns
              /\ conn' = 0
              /\ closed' = 0
              /\ host' = IF Waiting THEN AfterResumeError(host) ELSE Ends(host)
              /\ \/ Abandon(conn)
                 \/ /\ inbox' = [inbox EXCEPT ![conn] = <<>>]
                    /\ resumes' = {Unwanted(j) : j \in resumes}
              /\ UNCHANGED <<thread, sessions, loaded, live, subs, pending, watched, closers,
                             conns, turns, accepted>>

\* connect, initialize
Reconnect == /\ conn = 0
             /\ conn' = conns + 1 /\ conns' = conns + 1
             /\ live' = live \cup {conns + 1}
             /\ host' = Ends(host)
             /\ UNCHANGED <<thread, sessions, loaded, subs, resumes, pending, watched, closers, inbox,
                            closed, turns, accepted>>

-----------------------------------------------------------------------------
ThreadResume(c) == \/ ResumeClosing(c) \/ ResumeFails(c) \/ ResumeRunning(c)
                   \/ ResumeCold(c) \/ ResumeBreaksOff(c)
ThreadUnsubscribe(c) == \/ UnsubscribeUnloaded(c) \/ UnsubscribeStranger(c)
                        \/ UnsubscribeOne(c) \/ UnsubscribeLast(c)
Processor(c) == ThreadResume(c) \/ ThreadUnsubscribe(c) \/ Read(c) \/ Turn(c) \/ ServerNotices(c)
Listener(j) == Respond(j) \/ RespondFails(j) \/ Attach(j)
Closer(k) == \/ ShutdownComplete(k) \/ ShutdownTimesOut(k)
             \/ Unwatch(k) \/ Announce(k) \/ Unpend(k)
Host == \/ SaveConfig \/ StartTurn \/ BeginTurn \/ ReadClosed \/ DeadlinePasses
        \/ Poll \/ HearTurn \/ RequestTimesOut \/ Disconnect \/ Reconnect

Next == \/ \E c \in Conns : Processor(c)
        \/ \E j \in resumes : Listener(j)
        \/ \E s \in DOMAIN sessions : SessionEnds(s)
        \/ \E k \in DOMAIN closers : Closer(k)
        \/ Host

Spec == Init /\ [][Next]_vars

-----------------------------------------------------------------------------
\* Types; at most four resumes per refresh, and no session is loaded that was never created.
Sessions == [config : 0..MaxSaves, loop : {"running", "told", "over"}]
Jobs == [conn : Conns, step : {"queued", "answered"}, wanted : BOOLEAN]
Steps == {"waiting", "absent", "removed", "unwatched", "unpending", "done"}
Requests == [kind : {"resume", "unsubscribe", "read", "turn"}, wanted : BOOLEAN]
Calls == [pc : Places, attempt : 0..Attempts, known : {"absent", "empty", "full"},
          asked : 0..MaxSaves, refreshed : BOOLEAN, settled : BOOLEAN]

TypeOK ==
  /\ config \in 0..MaxSaves /\ messages \in BOOLEAN
  /\ sessions \in Seq(Sessions) /\ loaded \in 0..Len(sessions)
  /\ live \subseteq Conns /\ subs \subseteq Conns /\ resumes \subseteq Jobs
  /\ pending \in BOOLEAN /\ watched \in BOOLEAN
  /\ closers \in Seq([session : 1..Len(sessions), step : Steps])
  /\ inbox \in [Conns -> Seq(Requests)]
  /\ conn \in 0..MaxConns /\ conns \in Conns
  /\ closed \in Nat /\ turns \in 0..MaxTurns
  /\ host \in Calls
  /\ Len(accepted) <= 1

\* A thread in pending_thread_unloads, whose resumes are all refused, has a task that will take
\* it out again (thread_unsubscribe).
ClosingEnds == pending => \E k \in DOMAIN closers : closers[k].step # "done"

\* A turn the app-server took, of a call that refreshed the session, with nothing left of earlier
\* closes and connections when it began.
Refreshed == accepted # <<>> /\ accepted[1].refreshed /\ accepted[1].settled

\* Such a turn runs with the configuration that was saved before startTurn, or a later one: a
\* thread that is still loaded is never taken for a resumed one (turn_start).
FreshConfig == Refreshed => accepted[1].config >= accepted[1].asked

\* It is not put into the queue of a session that has been told to shut down.
AcceptedAlive == Refreshed => accepted[1].loop = "running"

\* Its events reach the app: the connection is subscribed, or about to be.
Heard == Refreshed => accepted[1].heard
=============================================================================

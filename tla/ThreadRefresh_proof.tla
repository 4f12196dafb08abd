-------------------------- MODULE ThreadRefresh_proof --------------------------
(***************************************************************************)
(* A turn whose session was refreshed, with nothing left of earlier closes *)
(* when it began, runs with the saved configuration in a session that      *)
(* lives, and the app hears of it: for any number of connections, turns    *)
(* and changes of the configuration.                                       *)
(***************************************************************************)
EXTENDS ThreadRefresh, SequenceTheorems, TLAPS

\* Only the request the host waits for is wanted, and it is the last one of its connection.
WantedIn(box, c, pc) ==
  \A d \in Conns : \A i \in 1..Len(box[d]) :
    box[d][i].wanted => d = c /\ i = Len(box[d]) /\ box[d][i].kind = Requested(pc)

NoneWanted(box) == \A d \in Conns : \A i \in 1..Len(box[d]) : ~box[d][i].wanted
AllWanted(box) == \A d \in Conns : \A i \in 1..Len(box[d]) : box[d][i].wanted

\* The same for a resume that has been left to the listener.
JobsWanted == \A j \in resumes : j.wanted => /\ j = Job(conn, "queued", TRUE)
                                          /\ host.pc \in {"resume", "again"}
                                          /\ NoneWanted(inbox)

Connected == /\ host.pc \notin {"idle", "ready"} => conn # 0
             /\ conn <= conns
             /\ conn # 0 => conn \in live
             /\ conn = 0 => conns < MaxConns

Counted == /\ host.pc \notin {"again", "turn"} => host.attempt = 0
           /\ host.pc = "again" => host.attempt # 0
           /\ host.asked <= config

Typed == TypeOK /\ WantedIn(inbox, conn, host.pc) /\ JobsWanted /\ Connected /\ Counted

-----------------------------------------------------------------------------
\* The queues

Messages == inbox \in [Conns -> Seq(Requests)] /\ WantedIn(inbox, conn, host.pc)

\* The host's next request is the only one that is wanted.
LEMMA SendingKeeps ==
  ASSUME NEW box \in [Conns -> Seq(Requests)], NoneWanted(box), conn \in 0..MaxConns,
         NEW pc \in Places, Requested(pc) # "none" => conn # 0
  PROVE  /\ Sending(box, pc) \in [Conns -> Seq(Requests)]
         /\ WantedIn(Sending(box, pc), conn, pc)
         /\ box = [d \in Conns |-> <<>>] => AllWanted(Sending(box, pc))
  <1>1. CASE Requested(pc) = "none"
    BY <1>1 DEF Sending, WantedIn, NoneWanted, AllWanted
  <1>2. CASE Requested(pc) # "none"
    <2> DEFINE r == [kind |-> Requested(pc), wanted |-> TRUE]
               new == [box EXCEPT ![conn] = Append(@, r)]
    <2>1. r \in Requests
      BY <1>2 DEF Places, Requested, Requests
    <2>2. conn \in Conns
      BY <1>2 DEF Conns
    <2>3. new \in [Conns -> Seq(Requests)]
      BY <2>1, <2>2
    <2>4. \A d \in Conns : d # conn => new[d] = box[d]
      OBVIOUS
    <2>5. new[conn] = Append(box[conn], r)
      BY <2>2
    <2>6. /\ Len(new[conn]) = Len(box[conn]) + 1
          /\ \A i \in 1..Len(box[conn]) : new[conn][i] = box[conn][i]
          /\ new[conn][Len(box[conn]) + 1] = r
      BY <2>1, <2>2, <2>5
    <2>7. Sending(box, pc) = new
      BY <1>2 DEF Sending
    <2>8. WantedIn(new, conn, pc)
      BY <2>2, <2>4, <2>6 DEF WantedIn, NoneWanted
    <2>9. box = [d \in Conns |-> <<>>] => AllWanted(new)
      BY <2>2, <2>4, <2>6 DEF AllWanted
    <2> QED BY <2>3, <2>7, <2>8, <2>9
  <1> QED BY <1>1, <1>2

\* A request is taken from its queue.
LEMMA TakenKeeps ==
  ASSUME Messages, NEW c \in Conns, inbox[c] # <<>>
  PROVE  /\ Head(inbox[c]) \in Requests
         /\ Taken(c) \in [Conns -> Seq(Requests)]
         /\ Head(inbox[c]).wanted => /\ c = conn
                                    /\ Head(inbox[c]).kind = Requested(host.pc)
                                    /\ NoneWanted(Taken(c))
         /\ ~Head(inbox[c]).wanted => WantedIn(Taken(c), conn, host.pc)
         /\ AllWanted(inbox) => Taken(c) = [d \in Conns |-> <<>>] /\ Head(inbox[c]).wanted
         /\ NoneWanted(inbox) => NoneWanted(Taken(c)) /\ ~Head(inbox[c]).wanted
  <1> DEFINE box == Taken(c)
  <1>1. /\ inbox[c] \in Seq(Requests) /\ Len(inbox[c]) \in Nat \ {0}
        /\ Head(inbox[c]) = inbox[c][1] /\ Head(inbox[c]) \in Requests
        /\ Tail(inbox[c]) \in Seq(Requests) /\ Len(Tail(inbox[c])) = Len(inbox[c]) - 1
        /\ \A i \in 1..(Len(inbox[c]) - 1) : Tail(inbox[c])[i] = inbox[c][i + 1]
    <2>1. inbox[c] \in Seq(Requests)
      BY DEF Messages
    <2>2. Head(inbox[c]) = inbox[c][1]
      BY <2>1
    <2>3. Len(inbox[c]) \in Nat \ {0}
      BY <2>1, EmptySeq
    <2> QED BY <2>1, <2>2, <2>3, HeadTailProperties
  <1>2. box \in [Conns -> Seq(Requests)] /\ box[c] = Tail(inbox[c])
        /\ \A d \in Conns : d # c => box[d] = inbox[d]
    <2>1. inbox \in [Conns -> Seq(Requests)]
      BY DEF Messages
    <2>2. box = [inbox EXCEPT ![c] = Tail(@)]
      BY DEF Taken
    <2> QED BY <1>1, <2>1, <2>2
  <1>3. \A d \in Conns : Len(inbox[d]) \in Nat
    BY DEF Messages
  <1>4. ASSUME Head(inbox[c]).wanted
        PROVE  c = conn /\ Head(inbox[c]).kind = Requested(host.pc) /\ Len(inbox[c]) = 1 /\ NoneWanted(box)
    <2>1. c = conn /\ 1 = Len(inbox[c]) /\ Head(inbox[c]).kind = Requested(host.pc)
      BY <1>1, <1>4 DEF Messages, WantedIn
    <2>2. \A d \in Conns : d # c => \A i \in 1..Len(inbox[d]) : ~inbox[d][i].wanted
      BY <2>1 DEF Messages, WantedIn
    <2>3. Len(box[c]) = 0
      BY <1>1, <1>2, <2>1
    <2>4. ASSUME NEW d \in Conns, NEW i \in 1..Len(box[d]) PROVE ~box[d][i].wanted
      <3>1. d # c
        BY <2>3, <2>4
      <3>2. box[d] = inbox[d]
        BY <1>2, <3>1
      <3> QED BY <2>2, <2>4, <3>1, <3>2
    <2> QED BY <2>1, <2>4 DEF NoneWanted
  <1>5. WantedIn(box, conn, host.pc)
    <2> SUFFICES ASSUME NEW d \in Conns, NEW i \in 1..Len(box[d]), box[d][i].wanted
                 PROVE  d = conn /\ i = Len(box[d]) /\ box[d][i].kind = Requested(host.pc)
      BY DEF WantedIn
    <2>1. CASE d = c
      <3>1. box[d] = Tail(inbox[c])
        BY <1>2, <2>1
      <3>2. i \in 1..(Len(inbox[c]) - 1)
        BY <1>1, <3>1
      <3>3. box[d][i] = inbox[c][i + 1] /\ i + 1 \in 1..Len(inbox[c])
        BY <1>1, <3>1, <3>2
      <3>4. Len(box[d]) = Len(inbox[c]) - 1
        BY <1>1, <3>1
      <3>5. c = conn /\ i + 1 = Len(inbox[c]) /\ inbox[c][i + 1].kind = Requested(host.pc)
        BY <3>3 DEF Messages, WantedIn
      <3> QED BY <1>1, <2>1, <3>2, <3>3, <3>4, <3>5
    <2>2. CASE d # c
      BY <1>2, <2>2 DEF Messages, WantedIn
    <2> QED BY <2>1, <2>2
  <1>6. ASSUME AllWanted(inbox) PROVE box = [d \in Conns |-> <<>>] /\ Head(inbox[c]).wanted
    <2>1. Head(inbox[c]).wanted
      BY <1>1, <1>6 DEF AllWanted
    <2>2. \A d \in Conns : d # c => Len(inbox[d]) = 0
      BY <1>3, <1>4, <1>6, <2>1 DEF AllWanted, NoneWanted, Messages, WantedIn
    <2>3. \A d \in Conns : d # c => inbox[d] = <<>>
      BY <2>2, EmptySeq DEF Messages
    <2>4. Tail(inbox[c]) = <<>>
      <3>1. Len(Tail(inbox[c])) = 0
        BY <1>1, <1>4, <2>1
      <3> QED BY <1>1, <3>1, EmptySeq
    <2>5. \A d \in Conns : box[d] = <<>>
      BY <1>2, <2>3, <2>4
    <2> QED BY <1>2, <2>1, <2>5
  <1>7. ASSUME NoneWanted(inbox) PROVE NoneWanted(box) /\ ~Head(inbox[c]).wanted
    <2>1. ~Head(inbox[c]).wanted
      BY <1>1, <1>7 DEF NoneWanted
    <2>2. \A i \in 1..Len(box[c]) : ~box[c][i].wanted
      <3> SUFFICES ASSUME NEW i \in 1..Len(box[c]) PROVE ~box[c][i].wanted
        OBVIOUS
      <3>1. box[c][i] = inbox[c][i + 1] /\ i + 1 \in 1..Len(inbox[c])
        BY <1>1, <1>2
      <3> QED BY <1>7, <3>1 DEF NoneWanted
    <2> QED BY <1>2, <1>7, <2>1, <2>2 DEF NoneWanted
  <1> QED BY <1>1, <1>2, <1>4, <1>5, <1>6, <1>7

\* A host that waits for the answer goes on with h, which it only does at the place it sent from.
LEMMA AnswerKeeps ==
  ASSUME TypeOK, Messages, NEW c \in Conns, inbox[c] # <<>>, NEW h, Answer(c, h), conn' = conn,
         Head(inbox[c]).wanted => h \in Calls /\ (Requested(h.pc) # "none" => conn # 0)
  PROVE  /\ inbox' \in [Conns -> Seq(Requests)]
         /\ host' \in Calls
         /\ WantedIn(inbox', conn', host'.pc)
         /\ AllWanted(inbox) => AllWanted(inbox') /\ host' = h
         /\ NoneWanted(inbox) => NoneWanted(inbox') /\ host' = host
         /\ \/ c = conn /\ host' = h /\ Head(inbox[c]).kind = Requested(host.pc)
            \/ host' = host
  <1>1. CASE Head(inbox[c]).wanted
    <2>1. /\ Taken(c) \in [Conns -> Seq(Requests)] /\ NoneWanted(Taken(c)) /\ c = conn
          /\ Head(inbox[c]).kind = Requested(host.pc)
          /\ AllWanted(inbox) => Taken(c) = [d \in Conns |-> <<>>]
          /\ ~NoneWanted(inbox)
      BY <1>1, TakenKeeps
    <2>2. host' = h /\ inbox' = Sending(Taken(c), h.pc)
      BY <1>1 DEF Answer
    <2>3. h.pc \in Places /\ conn \in 0..MaxConns /\ h \in Calls /\ (Requested(h.pc) # "none" => conn # 0)
      BY <1>1 DEF Calls, TypeOK
    <2>4. /\ inbox' \in [Conns -> Seq(Requests)]
          /\ WantedIn(inbox', conn, h.pc)
          /\ AllWanted(inbox) => AllWanted(inbox')
      BY <2>1, <2>2, <2>3, SendingKeeps
    <2> QED BY <2>1, <2>2, <2>3, <2>4
  <1>2. CASE ~Head(inbox[c]).wanted
    <2>1. host' = host /\ inbox' = Taken(c)
      BY <1>2 DEF Answer
    <2>2. /\ Taken(c) \in [Conns -> Seq(Requests)] /\ WantedIn(Taken(c), conn, host.pc)
          /\ ~AllWanted(inbox) /\ (NoneWanted(inbox) => NoneWanted(Taken(c)))
      BY <1>2, TakenKeeps
    <2> QED BY <2>1, <2>2 DEF TypeOK
  <1> QED BY <1>1, <1>2

\* A host that waits for no answer goes on.
LEMMA GoesKeeps ==
  ASSUME TypeOK, NoneWanted(inbox), NEW h \in Calls, Requested(h.pc) # "none" => conn # 0,
         Goes(h), conn' = conn
  PROVE  /\ inbox' \in [Conns -> Seq(Requests)]
         /\ host' \in Calls /\ host' = h
         /\ WantedIn(inbox', conn', host'.pc)
         /\ inbox = [d \in Conns |-> <<>>] => AllWanted(inbox')
  <1>1. inbox \in [Conns -> Seq(Requests)] /\ h.pc \in Places /\ conn \in 0..MaxConns
    BY DEF TypeOK, Calls
  <1> QED BY <1>1, SendingKeeps DEF Goes

\* The host gives up on its request.
LEMMA AbandonKeeps ==
  ASSUME Messages, JobsWanted, resumes \subseteq Jobs, NEW c \in Conns, c = conn, Abandon(c)
  PROVE  /\ inbox' \in [Conns -> Seq(Requests)] /\ NoneWanted(inbox')
         /\ resumes' \subseteq Jobs /\ \A j \in resumes' : ~j.wanted
  <1>1. inbox' \in [Conns -> Seq(Requests)] /\ NoneWanted(inbox')
    <2> DEFINE new == [i \in DOMAIN inbox[c] |-> Unwanted(inbox[c][i])]
    <2>1. inbox[c] \in Seq(Requests) /\ DOMAIN inbox[c] = 1..Len(inbox[c]) /\ Len(inbox[c]) \in Nat
      BY DEF Messages
    <2>2. \A i \in 1..Len(inbox[c]) : Unwanted(inbox[c][i]) \in Requests /\ ~Unwanted(inbox[c][i]).wanted
      <3> SUFFICES ASSUME NEW i \in 1..Len(inbox[c])
                   PROVE  Unwanted(inbox[c][i]) \in Requests /\ ~Unwanted(inbox[c][i]).wanted
        OBVIOUS
      <3>1. inbox[c][i] \in Requests
        BY <2>1, ElementOfSeq
      <3> QED BY <3>1 DEF Unwanted, Requests
    <2>3. new \in Seq(Requests) /\ Len(new) = Len(inbox[c])
          /\ \A i \in 1..Len(new) : ~new[i].wanted
      <3>1. new = [i \in 1..Len(inbox[c]) |-> Unwanted(inbox[c][i])]
        BY <2>1
      <3>2. new \in [1..Len(inbox[c]) -> Requests]
        BY <2>2, <3>1
      <3>3. new \in Seq(Requests) /\ Len(new) = Len(inbox[c])
        BY <2>1, <3>2, SeqDef, LenProperties
      <3>4. \A i \in 1..Len(inbox[c]) : new[i] = Unwanted(inbox[c][i])
        BY <3>1
      <3> QED BY <2>2, <3>3, <3>4
    <2>4. inbox' = [inbox EXCEPT ![c] = new]
      BY DEF Abandon
    <2>5. \A d \in Conns : d # c => inbox'[d] = inbox[d]
      BY <2>4 DEF Messages
    <2> QED BY <2>3, <2>4, <2>5 DEF Messages, WantedIn, NoneWanted
  <1>2. resumes' \subseteq Jobs /\ \A j \in resumes' : ~j.wanted
    BY DEF Abandon, Jobs, Unwanted
  <1> QED BY <1>1, <1>2

-----------------------------------------------------------------------------
\* Where the host goes

\* What the host does after a resume, and when a call ends, is a call of its type.
LEMMA CallTypes ==
  ASSUME TypeOK, NEW h \in Calls
  PROVE  /\ Ends(h) \in Calls /\ Ends(h).pc = "idle" /\ Ends(h).attempt = 0
         /\ Ends(h).asked = h.asked /\ Ends(h).refreshed = h.refreshed /\ Ends(h).settled = h.settled
         /\ AfterResume(h) \in Calls /\ AfterResume(h).asked = h.asked
         /\ AfterResume(h).refreshed = h.refreshed /\ AfterResume(h).settled = h.settled
         /\ AfterResume(h).attempt = h.attempt
         /\ AfterResume(h).pc = IF h.pc = "resume" THEN "ready" ELSE "turn"
  <1> DEFINE r == Resumed(h)
  <1>1. Ends(h) \in Calls /\ Ends(h).pc = "idle" /\ Ends(h).attempt = 0
        /\ Ends(h).asked = h.asked /\ Ends(h).refreshed = h.refreshed /\ Ends(h).settled = h.settled
    <2>1. 0 \in 0..Attempts
      BY DEF Attempts
    <2> HIDE DEF Attempts
    <2> QED BY <2>1 DEF Calls, Places, Ends
  <1>2. r \in Calls /\ r.pc = h.pc /\ r.attempt = h.attempt /\ r.asked = h.asked
        /\ r.refreshed = h.refreshed /\ r.settled = h.settled
    <2>1. \A k \in {"empty", "full"} :
            /\ [h EXCEPT !.known = k] \in Calls /\ [h EXCEPT !.known = k].pc = h.pc
            /\ [h EXCEPT !.known = k].attempt = h.attempt /\ [h EXCEPT !.known = k].asked = h.asked
            /\ [h EXCEPT !.known = k].refreshed = h.refreshed /\ [h EXCEPT !.known = k].settled = h.settled
      BY DEF Calls
    <2>2. r = [h EXCEPT !.known = "full"] \/ r = [h EXCEPT !.known = "empty"]
      BY DEF Resumed
    <2> QED BY <2>1, <2>2
  <1> HIDE DEF r
  <1>3. \A p \in Places : /\ [r EXCEPT !.pc = p] \in Calls
                          /\ [r EXCEPT !.pc = p].pc = p
                          /\ [r EXCEPT !.pc = p].attempt = r.attempt
                          /\ [r EXCEPT !.pc = p].asked = r.asked
                          /\ [r EXCEPT !.pc = p].refreshed = r.refreshed
                          /\ [r EXCEPT !.pc = p].settled = r.settled
    BY <1>2 DEF Calls
  <1>4. AfterResume(h) = [r EXCEPT !.pc = IF h.pc = "resume" THEN "ready" ELSE "turn"]
    BY DEF AfterResume, r
  <1> QED BY <1>1, <1>2, <1>3, <1>4 DEF Places

\* The same for a resume that failed.
LEMMA ErrorTypes ==
  ASSUME TypeOK, NEW h \in Calls, h.pc = "resume" => h.attempt = 0
  PROVE  /\ AfterResumeError(h) \in Calls /\ AfterResumeError(h).attempt = 0
         /\ AfterResumeError(h).asked = h.asked
         /\ AfterResumeError(h).pc = IF h.pc = "resume" THEN "ready" ELSE "idle"
  BY CallTypes DEF Calls, Places, AfterResumeError

\* The same for another attempt, while there is one left.
LEMMA RetryTypes ==
  ASSUME NEW h \in Calls, h.attempt < Attempts
  PROVE  /\ Retry(h) \in Calls /\ Retry(h).pc = "again" /\ Retry(h).attempt # 0
         /\ Retry(h).asked = h.asked /\ Retry(h).refreshed = h.refreshed /\ Retry(h).settled = h.settled
  <1>1. h.attempt + 1 \in 0..Attempts /\ h.attempt + 1 # 0
    BY DEF Calls, Attempts
  <1>2. Retry(h) = [h EXCEPT !.pc = "again", !.attempt = h.attempt + 1]
    BY DEF Retry, Calls
  <1> HIDE DEF Attempts
  <1> QED BY <1>1, <1>2 DEF Calls, Places

\* What a handler may tell the host to do.
Proper(h) == /\ h \in Calls
             /\ h.pc \notin {"again", "turn"} => h.attempt = 0
             /\ h.pc = "again" => h.attempt # 0
             /\ h.asked = host.asked

Talk == /\ inbox \in [Conns -> Seq(Requests)] /\ host \in Calls
        /\ WantedIn(inbox, conn, host.pc) /\ JobsWanted /\ Connected /\ Counted

\* The host's own call is a proper one.
LEMMA HostProper == ASSUME Typed PROVE Proper(host)
  BY DEF Typed, TypeOK, Counted, Proper

\* So is each call the handlers go on with.
LEMMA ProperPlaces ==
  ASSUME Typed
  PROVE  /\ Proper(Ends(host))
         /\ host.pc \in {"resume", "again"} => Proper(AfterResume(host))
         /\ Proper(AfterResumeError(host))
         /\ host.pc \in {"unsubscribe", "read", "closing"} => Proper(Retry(host))
         /\ host.pc \in {"unsubscribe"} => /\ Proper([host EXCEPT !.pc = "read"])
                                           /\ Proper([host EXCEPT !.pc = "closing"])
         /\ Proper(AfterClosing(host))
  <1>1. Proper(host) /\ TypeOK /\ host \in Calls
    BY HostProper DEF Typed, Proper
  <1>2. Proper(Ends(host))
    BY <1>1, CallTypes DEF Proper
  <1>3. host.pc \in {"resume", "again"} => Proper(AfterResume(host))
    BY <1>1, CallTypes DEF Proper
  <1>4. Proper(AfterResumeError(host))
    BY <1>1, ErrorTypes DEF Proper
  <1>5. host.pc \in {"unsubscribe", "read", "closing"} => Proper(Retry(host))
    BY <1>1, RetryTypes DEF Proper, Attempts
  <1>6. host.pc = "unsubscribe" => /\ Proper([host EXCEPT !.pc = "read"])
                                   /\ Proper([host EXCEPT !.pc = "closing"])
    BY <1>1 DEF Proper, Calls, Places
  <1>7. Proper(AfterClosing(host))
    BY <1>1, <1>4, RetryTypes DEF Proper, AfterClosing
  <1> QED BY <1>2, <1>3, <1>4, <1>5, <1>6, <1>7

\* A request is answered.
LEMMA AnswerTalks ==
  ASSUME Typed, NEW kind, NEW c \in Conns, Handles(c, kind), NEW h, Answer(c, h),
         kind = Requested(host.pc) => Proper(h),
         resumes' \subseteq resumes, live' = live, UNCHANGED <<conn, conns, config>>
  PROVE  Talk'
  <1>1. TypeOK /\ Messages /\ inbox[c] # <<>>
    BY DEF Typed, TypeOK, Messages, Handles
  <1>2. Head(inbox[c]).wanted => /\ c = conn /\ kind = Requested(host.pc) /\ Proper(h)
                                 /\ h \in Calls /\ (Requested(h.pc) # "none" => conn # 0)
    BY <1>1, TakenKeeps DEF Handles, Proper, Conns
  <1>3. /\ inbox' \in [Conns -> Seq(Requests)] /\ host' \in Calls
        /\ WantedIn(inbox', conn', host'.pc)
        /\ NoneWanted(inbox) => NoneWanted(inbox') /\ host' = host
        /\ \/ c = conn /\ host' = h /\ kind = Requested(host.pc)
           \/ host' = host
    BY <1>1, <1>2, AnswerKeeps DEF Handles
  <1>4. JobsWanted'
    BY <1>3 DEF Typed, JobsWanted, NoneWanted, Job
  <1>5. Connected'
    BY <1>3 DEF Typed, Connected, Conns
  <1>6. Counted'
    BY <1>2, <1>3 DEF Typed, Counted, Proper
  <1> QED BY <1>3, <1>4, <1>5, <1>6 DEF Talk

\* A host that waits for no answer has nothing on its way.
LEMMA NothingWanted ==
  ASSUME Typed, Requested(host.pc) = "none"
  PROVE  NoneWanted(inbox) /\ \A j \in resumes : ~j.wanted
  <1>1. ASSUME NEW d \in Conns, NEW i \in 1..Len(inbox[d]) PROVE ~inbox[d][i].wanted
    <2>1. inbox[d][i] \in Requests
      BY ElementOfSeq DEF Typed, TypeOK
    <2> QED BY <2>1 DEF Typed, WantedIn, Requests
  <1>2. \A j \in resumes : ~j.wanted
    BY DEF Typed, JobsWanted, Requested
  <1> QED BY <1>1, <1>2 DEF NoneWanted

\* The host goes on by itself, or because its resume was answered by the listener.
LEMMA GoesTalks ==
  ASSUME Typed, NoneWanted(inbox), NEW h, Goes(h), Proper(h), conn # 0,
         \A j \in resumes' : ~j.wanted, live' = live, UNCHANGED <<conn, conns, config>>
  PROVE  Talk'
  <1>1. inbox' \in [Conns -> Seq(Requests)] /\ host' \in Calls /\ host' = h /\ WantedIn(inbox', conn', host'.pc)
    BY GoesKeeps DEF Typed, Proper
  <1> QED BY <1>1 DEF Talk, Typed, JobsWanted, Connected, Counted, Proper

\* Neither the host nor the requests move.
LEMMA OthersTalk ==
  ASSUME Typed, host' = host, inbox' = inbox, resumes' \subseteq resumes \/ \A j \in resumes' : j.wanted => j \in resumes,
         conn \in live => conn \in live', UNCHANGED <<conn, conns>>, config' >= config, config' \in Nat
  PROVE  Talk'
  <1>1. WantedIn(inbox', conn', host'.pc) /\ inbox' \in [Conns -> Seq(Requests)] /\ host' \in Calls
    BY DEF Typed, TypeOK
  <1>2. JobsWanted'
    BY DEF Typed, JobsWanted, NoneWanted, Job
  <1>3. Connected'
    BY DEF Typed, Connected
  <1>4. Counted'
    <2>1. host.asked \in Nat /\ config \in Nat /\ host.asked <= config
      BY DEF Typed, TypeOK, Counted, Calls
    <2>2. host'.asked <= config'
      BY <2>1
    <2> QED BY <2>2 DEF Typed, Counted
  <1> QED BY <1>1, <1>2, <1>3, <1>4 DEF Talk

\* The conversation survives each handler of the processor ...
LEMMA TalkProcessor == ASSUME Typed, NEW c \in Conns, Processor(c) PROVE Talk'
  <1> USE ProperPlaces, AnswerTalks
  <1>1. CASE ResumeClosing(c) \/ ResumeFails(c)
    BY <1>1 DEF ResumeClosing, ResumeFails, client, thread, server
  <1>2. CASE ResumeCold(c) \/ ResumeBreaksOff(c)
    <2>1. Requested(host.pc) = "resume" => host.pc \in {"resume", "again"}
      BY DEF Requested
    <2> QED BY <1>2, <2>1 DEF ResumeCold, ResumeBreaksOff, client, thread
  <1>3. CASE ThreadUnsubscribe(c)
    <2>1. Requested(host.pc) = "unsubscribe" => host.pc = "unsubscribe"
      BY DEF Requested
    <2>2. UnsubscribeUnloaded(c) \/ UnsubscribeLast(c) => resumes' \subseteq resumes
      BY DEF UnsubscribeUnloaded, UnsubscribeLast, ClearState
    <2> QED BY <1>3, <2>1, <2>2 DEF ThreadUnsubscribe, UnsubscribeUnloaded, UnsubscribeStranger,
                                    UnsubscribeOne, UnsubscribeLast, client, thread, server
  <1>4. CASE Read(c)
    <2>1. Requested(host.pc) = "read" => host.pc = "read"
      BY DEF Requested
    <2> QED BY <1>4, <2>1 DEF Read, client, thread, server
  <1>5. CASE Turn(c)
    BY <1>5 DEF Turn, client, server
  <1>6. CASE ResumeRunning(c)
    <2> DEFINE r == Head(inbox[c])
    <2>1. Messages /\ inbox[c] # <<>>
      BY <1>6 DEF ResumeRunning, Handles, Typed, TypeOK, Messages
    <2>2. /\ r \in Requests /\ Taken(c) \in [Conns -> Seq(Requests)]
          /\ r.wanted => c = conn /\ r.kind = Requested(host.pc) /\ NoneWanted(Taken(c))
          /\ ~r.wanted => WantedIn(Taken(c), conn, host.pc)
          /\ NoneWanted(inbox) => NoneWanted(Taken(c)) /\ ~r.wanted
      BY <2>1, TakenKeeps
    <2>3. inbox' = Taken(c) /\ resumes' = resumes \cup {Job(c, "queued", r.wanted)} /\ r.kind = "resume"
          /\ UNCHANGED <<host, conn, conns, live, config>>
      BY <1>6 DEF ResumeRunning, Handles, client, thread
    <2>4. WantedIn(inbox', conn', host'.pc)
      BY <2>2, <2>3 DEF WantedIn, NoneWanted
    <2>5. JobsWanted'
      <3> SUFFICES ASSUME NEW j \in resumes', j.wanted
                   PROVE  j = Job(conn, "queued", TRUE) /\ host.pc \in {"resume", "again"} /\ NoneWanted(inbox')
        BY <2>3 DEF JobsWanted, Job, NoneWanted
      <3>1. CASE j \in resumes
        BY <2>2, <2>3, <3>1 DEF Typed, JobsWanted
      <3>2. CASE j = Job(c, "queued", r.wanted)
        <4>1. r.wanted = TRUE
          BY <2>2, <3>2 DEF Job, Requests
        <4> QED BY <2>2, <2>3, <3>2, <4>1 DEF Requested
      <3> QED BY <2>3, <3>1, <3>2
    <2> QED BY <2>2, <2>3, <2>4, <2>5 DEF Talk, Typed, TypeOK, Connected, Counted
  <1>7. CASE ServerNotices(c)
    BY <1>7, OthersTalk DEF ServerNotices, client, thread, Typed, TypeOK
  <1> QED BY <1>1, <1>2, <1>3, <1>4, <1>5, <1>6, <1>7 DEF Processor, ThreadResume

\* ... each step of a listener ...
LEMMA TalkListener == ASSUME Typed, NEW j \in resumes, Listener(j) PROVE Talk'
  <1>1. j.wanted => /\ j = Job(conn, "queued", TRUE) /\ host.pc \in {"resume", "again"}
                    /\ NoneWanted(inbox) /\ conn # 0 /\ \A k \in resumes \ {j} : ~k.wanted
    BY DEF Typed, JobsWanted, Connected
  <1>2. CASE (Respond(j) \/ RespondFails(j)) /\ j.wanted
    BY <1>1, <1>2, ProperPlaces, GoesTalks DEF Respond, RespondFails, Job, client, thread
  <1>3. CASE ((Respond(j) \/ RespondFails(j)) /\ ~j.wanted) \/ Attach(j)
    BY <1>3, OthersTalk DEF Respond, RespondFails, Attach, Job, client, thread, Typed, TypeOK
  <1> QED BY <1>2, <1>3 DEF Listener

\* ... and each step of the host.
LEMMA TalkHost == ASSUME Typed, Host PROVE Talk'
  <1> USE ProperPlaces
  <1>1. CASE SaveConfig \/ Poll
    BY <1>1, OthersTalk DEF SaveConfig, Poll, server, client, thread, Typed, TypeOK
  <1>2. CASE StartTurn \/ BeginTurn \/ ReadClosed \/ DeadlinePasses
    <2>1. Requested(host.pc) = "none" /\ conn # 0 /\ conn' = conn
      BY <1>2 DEF StartTurn, BeginTurn, ReadClosed, DeadlinePasses, Requested, Typed, Connected, client
    <2>2. NoneWanted(inbox) /\ \A j \in resumes : ~j.wanted
      BY <2>1, NothingWanted
    <2>3. Proper(host) /\ config \in 0..MaxSaves
      BY HostProper DEF Typed, TypeOK
    <2>4. CASE StartTurn
      <3> DEFINE h == [host EXCEPT !.pc = "resume", !.asked = config]
      <3>1. h \in Calls /\ h.pc = "resume" /\ h.attempt = host.attempt /\ h.asked = config
        BY <2>3 DEF Proper, Calls, Places
      <3>2. host.attempt = 0
        BY <2>4 DEF StartTurn, Typed, Counted
      <3>3. Goes(h) /\ UNCHANGED <<resumes, live, conn, conns, config>>
        BY <2>4 DEF StartTurn, server, thread
      <3>4. inbox' \in [Conns -> Seq(Requests)] /\ host' = h /\ WantedIn(inbox', conn', host'.pc)
        BY <2>1, <2>2, <3>1, <3>3, GoesKeeps DEF Typed
      <3>5. host'.pc = "resume" /\ host'.attempt = 0 /\ host'.asked = config
        BY <3>1, <3>2, <3>4
      <3>6. JobsWanted'
        BY <2>2, <3>3 DEF JobsWanted
      <3>7. Connected'
        BY <2>1, <3>3 DEF Typed, Connected
      <3>8. Counted'
        BY <2>3, <3>3, <3>5 DEF Counted
      <3> HIDE DEF h
      <3> QED BY <3>1, <3>4, <3>6, <3>7, <3>8 DEF Talk
    <2>5. CASE BeginTurn
      <3> DEFINE h == [host EXCEPT !.pc = IF host.known = "empty" THEN "turn" ELSE "unsubscribe",
                                   !.refreshed = host.known # "empty", !.settled = Settled]
      <3>1. h.attempt = host.attempt /\ h.asked = host.asked /\ h.pc \in {"turn", "unsubscribe"}
        BY <2>3 DEF Proper, Calls
      <3>2. (host.known # "empty") \in BOOLEAN /\ Settled \in BOOLEAN
        BY DEF Settled
      <3>3. h \in Calls
        <4>1. \A p \in {"turn", "unsubscribe"}, a, b \in BOOLEAN :
                [host EXCEPT !.pc = p, !.refreshed = a, !.settled = b] \in Calls
          BY <2>3 DEF Proper, Calls, Places
        <4>2. (IF host.known = "empty" THEN "turn" ELSE "unsubscribe") \in {"turn", "unsubscribe"}
          OBVIOUS
        <4> HIDE DEF Settled
        <4> QED BY <3>2, <4>1, <4>2
      <3>4. Proper(h)
        BY <2>3, <2>5, <3>1, <3>3 DEF Proper, BeginTurn
      <3> QED BY <2>1, <2>2, <2>5, <3>4, GoesTalks DEF BeginTurn, client, thread, server
    <2>6. CASE ReadClosed
      <3> DEFINE h == [host EXCEPT !.known = "absent"]
      <3>1. h \in Calls /\ h.pc = "closing" /\ h.attempt = 0 /\ h.asked = host.asked
        BY <2>3, <2>6 DEF Proper, Calls, ReadClosed
      <3> HIDE DEF h
      <3>2. Proper(Retry(h))
        <4>1. h.attempt < Attempts
          BY <3>1 DEF Attempts
        <4> QED BY <3>1, <4>1, RetryTypes DEF Proper
      <3> USE DEF h
      <3> QED BY <2>1, <2>2, <2>6, <3>2, GoesTalks DEF ReadClosed, thread, server
    <2>7. CASE DeadlinePasses
      BY <2>1, <2>2, <2>7, GoesTalks DEF DeadlinePasses, client, thread, server
    <2> QED BY <1>2, <2>4, <2>5, <2>6, <2>7
  <1>3. CASE HearTurn
    <2>1. host' \in Calls /\ host'.pc = host.pc /\ host'.attempt = host.attempt /\ host'.asked = host.asked
      BY <1>3 DEF HearTurn, Typed, TypeOK, Calls
    <2> QED BY <1>3, <2>1 DEF HearTurn, Talk, Typed, TypeOK, JobsWanted, Connected, Counted, client, thread, server
  <1>4. CASE RequestTimesOut \/ (Disconnect /\ conn # 0)
    <2>1. conn \in Conns /\ Messages /\ resumes \subseteq Jobs
      BY <1>4 DEF RequestTimesOut, Waiting, Requested, Typed, TypeOK, Connected, Messages, Conns
    <2>2. inbox' \in [Conns -> Seq(Requests)] /\ NoneWanted(inbox') /\ \A j \in resumes' : ~j.wanted
      <3>1. CASE Abandon(conn)
        BY <2>1, <3>1, AbandonKeeps DEF Typed
      <3>2. CASE inbox' = [inbox EXCEPT ![conn] = <<>>] /\ resumes' = {Unwanted(j) : j \in resumes}
        <4>1. inbox' \in [Conns -> Seq(Requests)]
          BY <2>1, <3>2 DEF Messages
        <4>2. inbox'[conn] = <<>> /\ \A d \in Conns : d # conn => inbox'[d] = inbox[d]
          BY <2>1, <3>2 DEF Messages
        <4>3. NoneWanted(inbox')
          BY <2>1, <4>2 DEF NoneWanted, Messages, WantedIn
        <4>4. \A j \in resumes' : ~j.wanted
          BY <2>1, <3>2 DEF Unwanted, Jobs
        <4> QED BY <4>1, <4>3, <4>4
      <3> QED BY <1>4, <3>1, <3>2 DEF RequestTimesOut, Disconnect
    <2>3. Proper(host') /\ host'.pc \in {"idle", "ready"}
      BY <1>4, HostProper, CallTypes, ErrorTypes DEF RequestTimesOut, Disconnect, Typed, Proper
    <2>4. UNCHANGED <<conns, live, config>> /\ conn' \in {conn, 0} /\ (conn' = 0 => conns < MaxConns)
      BY <1>4, <2>1 DEF RequestTimesOut, Disconnect, thread, client, Conns
    <2>5. WantedIn(inbox', conn', host'.pc) /\ JobsWanted'
      BY <2>2 DEF WantedIn, NoneWanted, JobsWanted
    <2>6. Connected'
      BY <2>3, <2>4 DEF Typed, TypeOK, Connected, Conns
    <2>7. Counted'
      BY <2>3, <2>4 DEF Typed, Counted, Proper
    <2> QED BY <2>2, <2>3, <2>5, <2>6, <2>7 DEF Talk, Proper
  <1>5. CASE Reconnect
    <2>1. conn = 0 /\ Requested(host.pc) = "none"
      BY <1>5 DEF Reconnect, Typed, Connected, Requested
    <2>2. NoneWanted(inbox) /\ \A j \in resumes : ~j.wanted
      BY <2>1, NothingWanted
    <2>3. host'.pc = "idle" /\ Proper(host')
      BY <1>5, HostProper, CallTypes DEF Reconnect, Typed, Proper
    <2> QED BY <1>5, <2>2, <2>3 DEF Reconnect, Talk, Typed, TypeOK, WantedIn, NoneWanted, JobsWanted,
                                    Connected, Counted, Proper, Conns, thread
  <1> QED BY <1>1, <1>2, <1>3, <1>4, <1>5 DEF Host, Disconnect

-----------------------------------------------------------------------------
\* Types

Closers(n) == [session : 1..n, step : Steps]

\* A new session is the last one, and has the configuration of the moment.
LEMMA LoadTypes ==
  ASSUME TypeOK, Load
  PROVE  /\ sessions' \in Seq(Sessions) /\ Len(sessions') = Len(sessions) + 1
         /\ loaded' = Len(sessions) + 1 /\ loaded' \in 1..Len(sessions')
         /\ sessions'[loaded'] = [config |-> config, loop |-> "running"]
         /\ closers \in Seq(Closers(Len(sessions')))
  <1>1. [config |-> config, loop |-> "running"] \in Sessions
    BY DEF TypeOK, Sessions
  <1>2. /\ sessions' \in Seq(Sessions) /\ Len(sessions') = Len(sessions) + 1
        /\ loaded' = Len(sessions) + 1 /\ Len(sessions) \in Nat
        /\ sessions'[Len(sessions) + 1] = [config |-> config, loop |-> "running"]
    BY <1>1, AppendProperties DEF TypeOK, Load
  <1>3. Closers(Len(sessions)) \subseteq Closers(Len(sessions'))
    BY <1>2 DEF Closers
  <1>4. closers \in Seq(Closers(Len(sessions)))
    BY DEF TypeOK, Closers
  <1>5. closers \in Seq(Closers(Len(sessions')))
    BY <1>3, <1>4, SeqMonotonic
  <1> QED BY <1>2, <1>5

\* A closing task moves alone.
LEMMA StepTypes ==
  ASSUME TypeOK, NEW k \in DOMAIN closers, NEW from, NEW to \in Steps, Step(k, from, to)
  PROVE  /\ closers' \in Seq(Closers(Len(sessions))) /\ DOMAIN closers' = DOMAIN closers
         /\ closers[k].step = from /\ closers'[k].step = to
         /\ \A i \in DOMAIN closers : i # k => closers'[i] = closers[i]
  <1>1. closers \in Seq(Closers(Len(sessions)))
    BY DEF TypeOK, Closers
  <1>2. closers' = [closers EXCEPT ![k] = [@ EXCEPT !.step = to]] /\ closers[k].step = from
    BY DEF Step
  <1>3. closers[k] \in Closers(Len(sessions))
    BY <1>1
  <1>4. [closers[k] EXCEPT !.step = to] \in Closers(Len(sessions)) /\ [closers[k] EXCEPT !.step = to].step = to
    BY <1>3 DEF Closers
  <1>5. closers' \in Seq(Closers(Len(sessions))) /\ DOMAIN closers' = DOMAIN closers
    BY <1>1, <1>2, <1>4, ExceptSeq
  <1> QED BY <1>1, <1>2, <1>4, <1>5

\* The session at s is told, or ends.
LEMMA LoopTypes ==
  ASSUME TypeOK, NEW s \in 1..Len(sessions), NEW loop \in {"running", "told", "over"},
         sessions' = [sessions EXCEPT ![s].loop = loop]
  PROVE  /\ sessions' \in Seq(Sessions) /\ Len(sessions') = Len(sessions)
         /\ \A i \in 1..Len(sessions) : i # s => sessions'[i] = sessions[i]
  <1>1. sessions[s] \in Sessions
    BY DEF TypeOK
  <1>2. [sessions[s] EXCEPT !.loop = loop] \in Sessions
    BY <1>1 DEF Sessions
  <1> QED BY <1>1, <1>2, ExceptSeq DEF TypeOK

\* What TypeOK says beyond Talk.
Rest == /\ config \in 0..MaxSaves /\ messages \in BOOLEAN
        /\ sessions \in Seq(Sessions) /\ loaded \in 0..Len(sessions)
        /\ live \subseteq Conns /\ subs \subseteq Conns /\ resumes \subseteq Jobs
        /\ pending \in BOOLEAN /\ watched \in BOOLEAN
        /\ closers \in Seq(Closers(Len(sessions)))
        /\ conn \in 0..MaxConns /\ conns \in Conns
        /\ closed \in Nat /\ turns \in 0..MaxTurns
        /\ Len(accepted) <= 1

\* TypeOK gives the rest.
LEMMA RestOfTypeOK == ASSUME TypeOK PROVE Rest
  BY DEF TypeOK, Rest, Closers

\* The rest of the types survives the processor ...
LEMMA RestProcessor == ASSUME Typed, NEW c \in Conns, Processor(c) PROVE Rest'
  <1> USE RestOfTypeOK DEF Typed
  <1>1. CASE ResumeClosing(c) \/ ResumeFails(c) \/ UnsubscribeStranger(c) \/ Read(c)
    BY <1>1 DEF Rest, ResumeClosing, ResumeFails, UnsubscribeStranger, Read, thread, server, client
  <1>2. CASE ResumeRunning(c)
    <2>1. Head(inbox[c]) \in Requests
      BY <1>2, TakenKeeps DEF ResumeRunning, Handles, TypeOK, Messages
    <2>2. Job(c, "queued", Head(inbox[c]).wanted) \in Jobs
      BY <2>1 DEF Requests, Job, Jobs
    <2> QED BY <1>2, <2>2 DEF Rest, ResumeRunning, thread, client
  <1>3. CASE ResumeCold(c) \/ ResumeBreaksOff(c)
    <2>1. /\ sessions' \in Seq(Sessions) /\ loaded' \in 0..Len(sessions')
          /\ closers' \in Seq(Closers(Len(sessions')))
      <3>1. Load /\ closers' = closers
        BY <1>3 DEF ResumeCold, ResumeBreaksOff
      <3>2. Len(sessions) + 1 \in Nat /\ loaded' \in 1..Len(sessions')
        BY <3>1, LoadTypes DEF TypeOK
      <3> QED BY <3>1, <3>2, LoadTypes
    <2>2. subs' \subseteq Conns /\ watched' \in BOOLEAN
      <3>1. subs \subseteq Conns /\ watched \in BOOLEAN /\ Subscribed(c) \subseteq Conns
        BY DEF Rest, Subscribed
      <3>2. subs' = Subscribed(c)
        BY <1>3 DEF ResumeCold, ResumeBreaksOff
      <3>3. watched' = TRUE \/ watched' = watched
        BY <1>3 DEF ResumeCold, ResumeBreaksOff
      <3> QED BY <3>1, <3>2, <3>3
    <2>3. UNCHANGED <<config, messages, live, resumes, pending, conn, conns, closed, turns, accepted>>
      BY <1>3 DEF ResumeCold, ResumeBreaksOff, thread, client
    <2> QED BY <2>1, <2>2, <2>3 DEF Rest
  <1>4. CASE UnsubscribeUnloaded(c) \/ UnsubscribeOne(c)
    BY <1>4 DEF Rest, UnsubscribeUnloaded, UnsubscribeOne, ClearState, thread, client
  <1>5. CASE UnsubscribeLast(c)
    <2> DEFINE new == [session |-> loaded, step |-> "waiting"]
    <2>1. loaded \in 1..Len(sessions)
      BY <1>5 DEF UnsubscribeLast, TypeOK
    <2>2. sessions' \in Seq(Sessions) /\ Len(sessions') = Len(sessions)
      <3>1. sessions[loaded].loop \in {"running", "told", "over"}
        <4>1. sessions[loaded] \in Sessions
          BY <2>1 DEF Rest
        <4> QED BY <4>1 DEF Sessions
      <3>2. (IF sessions[loaded].loop = "running" THEN "told" ELSE sessions[loaded].loop) \in {"running", "told", "over"}
        BY <3>1
      <3>3. sessions' = [sessions EXCEPT ![loaded].loop =
                           IF sessions[loaded].loop = "running" THEN "told" ELSE sessions[loaded].loop]
        BY <1>5, <2>1 DEF UnsubscribeLast, TypeOK
      <3> QED BY <2>1, <3>2, <3>3, LoopTypes
    <2>3. new \in Closers(Len(sessions))
      BY <2>1 DEF Closers, Steps
    <2>4. closers' \in Seq(Closers(Len(sessions)))
      BY <1>5, <2>3, AppendProperties DEF UnsubscribeLast, Rest
    <2> QED BY <1>5, <2>2, <2>4 DEF Rest, UnsubscribeLast, ClearState, thread, client
  <1>6. CASE Turn(c)
    <2>1. Len(accepted') <= 1 /\ messages' \in BOOLEAN
      BY <1>6 DEF Turn, Rest, Takes
    <2> QED BY <1>6, <2>1 DEF Rest, Turn, server, client
  <1>7. CASE ServerNotices(c)
    BY <1>7 DEF Rest, ServerNotices, thread, client
  <1> QED BY <1>1, <1>2, <1>3, <1>4, <1>5, <1>6, <1>7 DEF Processor, ThreadResume, ThreadUnsubscribe

\* ... the tasks ...
LEMMA RestOthers ==
  ASSUME Typed, \/ \E j \in resumes : Listener(j)
                \/ \E s \in DOMAIN sessions : SessionEnds(s)
                \/ \E k \in DOMAIN closers : Closer(k)
  PROVE  Rest'
  <1> USE RestOfTypeOK DEF Typed
  <1>1. ASSUME NEW j \in resumes, Listener(j) PROVE Rest'
    <2>1. Job(j.conn, "answered", FALSE) \in Jobs /\ j.conn \in Conns
      BY DEF Rest, Jobs, Job
    <2> QED BY <1>1, <2>1 DEF Rest, Listener, Respond, RespondFails, Attach, Subscribed, thread, client
  <1>2. ASSUME NEW s \in DOMAIN sessions, SessionEnds(s) PROVE Rest'
    <2>1. s \in 1..Len(sessions)
      BY DEF Rest
    <2>2. sessions' \in Seq(Sessions) /\ Len(sessions') = Len(sessions)
      BY <1>2, <2>1, LoopTypes DEF SessionEnds
    <2> QED BY <1>2, <2>2 DEF Rest, SessionEnds, thread, client
  <1>3. ASSUME NEW k \in DOMAIN closers, Closer(k) PROVE Rest'
    <2>1. ASSUME NEW from, NEW to \in Steps, Step(k, from, to) PROVE closers' \in Seq(Closers(Len(sessions)))
      BY <2>1, StepTypes
    <2>2. closers' \in Seq(Closers(Len(sessions)))
      <3>1. CASE ShutdownComplete(k)
        BY <2>1, <3>1 DEF ShutdownComplete, Steps
      <3>2. CASE ShutdownTimesOut(k) \/ Unwatch(k) \/ Announce(k) \/ Unpend(k)
        BY <2>1, <3>2 DEF ShutdownTimesOut, Unwatch, Announce, Unpend, Steps
      <3> QED BY <1>3, <3>1, <3>2 DEF Closer
    <2>3. UNCHANGED <<config, messages, sessions, live, subs, resumes, conn, conns, turns, accepted>>
      BY <1>3 DEF Closer, ShutdownComplete, ShutdownTimesOut, Unwatch, Announce, Unpend, thread, client
    <2>4. loaded' \in {loaded, 0} /\ pending' \in {pending, FALSE} /\ watched' \in {watched, FALSE}
          /\ closed' \in {closed, closed + 1}
      BY <1>3 DEF Closer, ShutdownComplete, ShutdownTimesOut, Unwatch, Announce, Unpend, thread, client
    <2>5. pending' \in BOOLEAN /\ watched' \in BOOLEAN
      BY <2>4 DEF Rest
    <2>6. closed' \in Nat /\ loaded' \in 0..Len(sessions')
      BY <2>3, <2>4 DEF Rest
    <2> QED BY <2>2, <2>3, <2>5, <2>6 DEF Rest
  <1> QED BY <1>1, <1>2, <1>3

\* ... and the host.
LEMMA RestHost == ASSUME Typed, Host PROVE Rest'
  <1> USE RestOfTypeOK DEF Typed
  <1>1. MaxConns \in Nat \ {0} /\ MaxSaves \in Nat /\ MaxTurns \in Nat
    BY BoundsAssumption
  <1>2. CASE SaveConfig \/ StartTurn \/ BeginTurn \/ DeadlinePasses \/ HearTurn
    BY <1>1, <1>2 DEF Rest, SaveConfig, StartTurn, BeginTurn, DeadlinePasses, HearTurn, thread, server, client
  <1>3. CASE ReadClosed \/ Poll
    BY <1>3 DEF Rest, ReadClosed, Poll, thread, server
  <1>4. CASE RequestTimesOut \/ Disconnect
    <2>1. resumes' \subseteq Jobs
      <3>1. \A j \in resumes : Unwanted(j) \in Jobs
        BY DEF Rest, Jobs, Unwanted
      <3>2. resumes' = {Unwanted(j) : j \in resumes}
        BY <1>4 DEF RequestTimesOut, Disconnect, Abandon
      <3> QED BY <3>1, <3>2
    <2> QED BY <1>1, <1>4, <2>1 DEF Rest, RequestTimesOut, Disconnect, Abandon, thread, client
  <1>5. CASE Reconnect
    BY <1>1, <1>5 DEF Rest, Reconnect, Connected, Conns, thread
  <1> QED BY <1>2, <1>3, <1>4, <1>5 DEF Host

\* Every step preserves the types and the conversation.
LEMMA TypedStep == ASSUME Typed, [Next]_vars PROVE Typed'
  <1>1. CASE UNCHANGED vars
    BY <1>1 DEF vars, thread, server, client, Typed, TypeOK, JobsWanted, Connected, Counted
  <1>2. CASE Next
    <2>1. Rest'
      BY <1>2, RestProcessor, RestOthers, RestHost DEF Next
    <2>2. ASSUME NEW s \in DOMAIN sessions, SessionEnds(s) PROVE Talk'
      BY <2>2, OthersTalk DEF SessionEnds, thread, client, Typed, TypeOK
    <2>3. ASSUME NEW k \in DOMAIN closers, Closer(k) PROVE Talk'
      BY <2>3, OthersTalk, SMTT(30)
      DEF Closer, ShutdownComplete, ShutdownTimesOut, Unwatch, Announce, Unpend, thread, client, Typed, TypeOK
    <2>4. Talk'
      BY <1>2, <2>2, <2>3, TalkProcessor, TalkListener, TalkHost DEF Next
    <2> QED BY <2>1, <2>4 DEF Typed, TypeOK, Rest, Talk, Closers
  <1> QED BY <1>1, <1>2

\* The initial states have them.
LEMMA TypedInit == ASSUME Init PROVE Typed
  <1>1. MaxConns \in Nat \ {0} /\ MaxSaves \in Nat /\ MaxTurns \in Nat
    BY BoundsAssumption
  <1>2. 1 \in Conns
    BY <1>1 DEF Conns
  <1>3. host \in Calls /\ host.pc = "idle" /\ host.attempt = 0 /\ host.asked = 0
    <2>1. \A k \in {"empty", "full"} :
            /\ [NoHost EXCEPT !.known = k] \in Calls /\ [NoHost EXCEPT !.known = k].pc = "idle"
            /\ [NoHost EXCEPT !.known = k].attempt = 0 /\ [NoHost EXCEPT !.known = k].asked = 0
      <3>1. 0 \in 0..Attempts /\ 0 \in 0..MaxSaves
        BY <1>1 DEF Attempts
      <3>2. NoHost \in Calls /\ NoHost.pc = "idle" /\ NoHost.attempt = 0 /\ NoHost.asked = 0
        BY <3>1 DEF NoHost, Calls, Places
      <3> QED BY <3>2 DEF Calls
    <2>2. host = [NoHost EXCEPT !.known = "full"] \/ host = [NoHost EXCEPT !.known = "empty"]
      BY DEF Init
    <2> QED BY <2>1, <2>2
  <1>4. sessions \in Seq(Sessions) /\ Len(sessions) = 1
    BY <1>1 DEF Init, Sessions
  <1>5. inbox \in [Conns -> Seq(Requests)] /\ \A c \in Conns : Len(inbox[c]) = 0
    BY DEF Init
  <1>6. closers \in Seq([session : 1..Len(sessions), step : Steps]) /\ Len(accepted) = 0
    BY DEF Init
  <1>7. config = 0 /\ loaded = 1 /\ live = {1} /\ subs = {1} /\ resumes = {} /\ pending = FALSE
        /\ watched = TRUE /\ conn = 1 /\ conns = 1 /\ closed = 0 /\ turns = 0 /\ messages \in BOOLEAN
    BY DEF Init
  <1>8. TypeOK
    <2>1. /\ config \in 0..MaxSaves /\ loaded \in 0..Len(sessions) /\ conn \in 0..MaxConns
          /\ turns \in 0..MaxTurns /\ closed \in Nat
      BY <1>1, <1>4, <1>7
    <2>2. live \subseteq Conns /\ subs \subseteq Conns /\ resumes \subseteq Jobs /\ conns \in Conns
      BY <1>2, <1>7
    <2>3. pending \in BOOLEAN /\ watched \in BOOLEAN /\ messages \in BOOLEAN
      BY <1>7
    <2>4. Len(accepted) <= 1
      BY <1>6
    <2> QED BY <1>3, <1>4, <1>5, <1>6, <2>1, <2>2, <2>3, <2>4 DEF TypeOK
  <1>9. WantedIn(inbox, conn, host.pc) /\ JobsWanted /\ Connected /\ Counted
    BY <1>1, <1>2, <1>3, <1>5, <1>7 DEF WantedIn, JobsWanted, Connected, Counted
  <1> QED BY <1>8, <1>9 DEF Typed

-----------------------------------------------------------------------------
\* The tasks that close the thread

\* Only an unsubscribe marks the thread as closing, and it leaves a task behind.
LEMMA ClosingStep == ASSUME Typed, ClosingEnds, [Next]_vars PROVE ClosingEnds'
  <1>1. CASE UNCHANGED <<pending, closers>>
    BY <1>1 DEF ClosingEnds
  <1>2. CASE pending' = FALSE
    BY <1>2 DEF ClosingEnds
  <1>3. ASSUME NEW c \in Conns, UnsubscribeLast(c) PROVE ClosingEnds'
    <2> DEFINE new == [session |-> loaded, step |-> "waiting"]
    <2>1. closers \in Seq(Closers(Len(sessions))) /\ new \in Closers(Len(sessions))
      BY <1>3 DEF Typed, TypeOK, Closers, Steps, UnsubscribeLast
    <2>2. closers' = Append(closers, new)
      BY <1>3 DEF UnsubscribeLast
    <2>3. Len(closers') \in DOMAIN closers' /\ closers'[Len(closers')] = new
      BY <2>1, <2>2, AppendProperties
    <2>4. new.step # "done"
      OBVIOUS
    <2> QED BY <2>3, <2>4 DEF ClosingEnds
  <1>4. ASSUME NEW k \in DOMAIN closers, NEW from, NEW to \in Steps, Step(k, from, to), to # "done"
        PROVE  ClosingEnds'
    BY <1>4, StepTypes DEF ClosingEnds, Typed
  <1>5. ASSUME NEW k \in DOMAIN closers, Closer(k) PROVE ClosingEnds'
    <2>1. CASE ShutdownComplete(k)
      <3>1. CASE loaded = 0
        BY <1>4, <2>1, <3>1 DEF ShutdownComplete, Steps
      <3>2. CASE loaded # 0
        BY <1>4, <2>1, <3>2 DEF ShutdownComplete, Steps
      <3> QED BY <3>1, <3>2
    <2>2. CASE ShutdownTimesOut(k) \/ Unwatch(k) \/ Announce(k)
      BY <1>4, <2>2 DEF ShutdownTimesOut, Unwatch, Announce, Steps
    <2>3. CASE Unpend(k)
      BY <1>2, <2>3 DEF Unpend
    <2> QED BY <1>5, <2>1, <2>2, <2>3 DEF Closer
  <1>6. ASSUME NEW c \in Conns, Processor(c) PROVE ClosingEnds'
    <2>1. CASE ThreadUnsubscribe(c)
      BY <1>1, <1>2, <1>3, <2>1
      DEF ThreadUnsubscribe, UnsubscribeUnloaded, UnsubscribeStranger, UnsubscribeOne, server
    <2>2. CASE ThreadResume(c)
      BY <1>1, <2>2
      DEF ThreadResume, ResumeClosing, ResumeFails, ResumeRunning, ResumeCold, ResumeBreaksOff, server
    <2>3. CASE Read(c) \/ Turn(c) \/ ServerNotices(c)
      BY <1>1, <2>3 DEF Read, Turn, ServerNotices, server
    <2> QED BY <1>6, <2>1, <2>2, <2>3 DEF Processor
  <1>7. ASSUME NEW j \in resumes, Listener(j) PROVE ClosingEnds'
    BY <1>1, <1>7 DEF Listener, Respond, RespondFails, Attach
  <1>8. ASSUME NEW s \in DOMAIN sessions, SessionEnds(s) PROVE ClosingEnds'
    BY <1>1, <1>8 DEF SessionEnds
  <1>9. CASE Host
    BY <1>1, <1>9 DEF Host, SaveConfig, StartTurn, BeginTurn, ReadClosed, DeadlinePasses, Poll,
                      HearTurn, RequestTimesOut, Disconnect, Reconnect, server
  <1>10. CASE UNCHANGED vars
    BY <1>1, <1>10 DEF vars, server
  <1> QED BY <1>5, <1>6, <1>7, <1>8, <1>9, <1>10 DEF Next

-----------------------------------------------------------------------------
\* A refresh that found nothing left of earlier closes and connections when it began.
Refreshing == {"unsubscribe", "closing", "read", "again", "turn"}
Calm == host.refreshed /\ host.settled /\ host.pc \in Refreshing

\* Every request on its way is its own, and nobody else subscribes.
Alone == /\ AllWanted(inbox)
         /\ \A j \in resumes : j.step = "answered" /\ j.conn = conn
         /\ subs \subseteq {conn}

\* The tasks that close the thread, at each place of the host: at most one is at work, and none
\* that could still take the session away once the host resumes.
AllDone == \A k \in DOMAIN closers : closers[k].step = "done"
NoneRemoves == \A k \in DOMAIN closers : closers[k].step \in {"unpending", "done"}
OneLeft == \A k, l \in DOMAIN closers : closers[k].step # "done" /\ closers[l].step # "done" => k = l

BeforeClose == AllDone /\ closed = 0 /\ watched = (loaded # 0)
WhileClosing == /\ OneLeft
                /\ closed # 0 => NoneRemoves /\ loaded = 0
                /\ \A k \in DOMAIN closers : closers[k].step \in {"removed", "unwatched"} => loaded = 0
InNewSession == /\ conn \in subs
                /\ loaded # 0 => /\ sessions[loaded].config >= host.asked
                                 /\ sessions[loaded].loop = "running"

Stage == /\ host.pc \in {"unsubscribe", "read"} => BeforeClose
         /\ host.pc = "read" => loaded # 0
         /\ host.pc = "closing" => WhileClosing
         /\ host.pc \in {"again", "turn"} => NoneRemoves
         /\ host.pc = "again" => loaded = 0
         /\ host.pc = "turn" => InNewSession

CalmOK == Calm => Alone /\ Stage

\* A refresh goes on with the call it began with.
Follows(h) == h.pc \in Refreshing => /\ host.pc # "resume"
                                     /\ h.refreshed = host.refreshed /\ h.settled = host.settled

\* Each call the handlers go on with follows from the present one.
LEMMA FollowsPlaces ==
  ASSUME Typed
  PROVE  /\ Follows(Ends(host)) /\ Ends(host).pc = "idle"
         /\ host.pc \in {"resume", "again"} =>
              /\ Follows(AfterResume(host))
              /\ AfterResume(host).pc = IF host.pc = "resume" THEN "ready" ELSE "turn"
         /\ Follows(AfterResumeError(host)) /\ AfterResumeError(host).pc \notin Refreshing
         /\ host.pc \in {"unsubscribe", "read", "closing"} => /\ Follows(Retry(host))
                                                              /\ Retry(host).pc = "again"
         /\ host.pc = "unsubscribe" => /\ Follows([host EXCEPT !.pc = "read"])
                                       /\ [host EXCEPT !.pc = "read"].pc = "read"
                                       /\ Follows([host EXCEPT !.pc = "closing"])
                                       /\ [host EXCEPT !.pc = "closing"].pc = "closing"
         /\ host.pc \in {"resume", "again"} => /\ Follows(AfterClosing(host))
                                               /\ AfterClosing(host).pc \in Refreshing => AfterClosing(host).pc = "again"
  <1>1. TypeOK /\ host \in Calls /\ Proper(host) /\ (host.pc = "resume" => host.attempt = 0)
    BY HostProper DEF Typed, Proper, Counted
  <1>2. Follows(Ends(host)) /\ Ends(host).pc = "idle"
    BY <1>1, CallTypes DEF Follows, Refreshing
  <1>3. host.pc \in {"resume", "again"} =>
              /\ Follows(AfterResume(host))
              /\ AfterResume(host).pc = IF host.pc = "resume" THEN "ready" ELSE "turn"
    BY <1>1, CallTypes DEF Follows, Refreshing
  <1>4. Follows(AfterResumeError(host)) /\ AfterResumeError(host).pc \notin Refreshing
    BY <1>1, ErrorTypes DEF Follows, Refreshing
  <1>5. host.pc \in {"unsubscribe", "read", "closing"} => Follows(Retry(host)) /\ Retry(host).pc = "again"
    BY <1>1, RetryTypes DEF Follows, Proper, Attempts
  <1>6. host.pc = "unsubscribe" => /\ Follows([host EXCEPT !.pc = "read"])
                                   /\ [host EXCEPT !.pc = "read"].pc = "read"
                                   /\ Follows([host EXCEPT !.pc = "closing"])
                                   /\ [host EXCEPT !.pc = "closing"].pc = "closing"
    BY <1>1 DEF Follows, Calls
  <1>7. host.pc \in {"resume", "again"} =>
              /\ Follows(AfterClosing(host))
              /\ AfterClosing(host).pc \in Refreshing => AfterClosing(host).pc = "again"
    <2>1. CASE host.pc = "again" /\ host.attempt < Attempts
      BY <1>1, <2>1, RetryTypes DEF Follows, AfterClosing
    <2>2. CASE ~(host.pc = "again" /\ host.attempt < Attempts)
      BY <1>4, <2>2 DEF AfterClosing
    <2> QED BY <2>1, <2>2
  <1> QED BY <1>2, <1>3, <1>4, <1>5, <1>6, <1>7

\* The answer a calm refresh goes on with is the answer to its own request.
LEMMA AnswerCalm ==
  ASSUME Typed, CalmOK, NEW kind, NEW c \in Conns, Handles(c, kind), NEW h, Answer(c, h), conn' = conn,
         kind = Requested(host.pc) => Proper(h) /\ Follows(h), Calm'
  PROVE  /\ Calm /\ Alone /\ Stage /\ kind = Requested(host.pc) /\ c = conn
         /\ host' = h /\ h.asked = host.asked /\ h.pc \in Refreshing /\ AllWanted(inbox')
  <1>1. TypeOK /\ Messages /\ inbox[c] # <<>>
    BY DEF Typed, TypeOK, Messages, Handles
  <1>2. Head(inbox[c]).wanted => /\ c = conn /\ kind = Requested(host.pc) /\ Proper(h) /\ Follows(h)
                                 /\ h \in Calls /\ (Requested(h.pc) # "none" => conn # 0)
    BY <1>1, TakenKeeps DEF Handles, Proper, Conns
  <1>3. /\ AllWanted(inbox) => AllWanted(inbox') /\ host' = h
        /\ \/ c = conn /\ host' = h /\ kind = Requested(host.pc)
           \/ host' = host
    BY <1>1, <1>2, AnswerKeeps DEF Handles
  <1>4. Head(inbox[c]).kind = kind /\ kind # "none"
    BY <1>1, TakenKeeps DEF Handles, Requests
  <1>5. Calm
    <2>1. CASE host' = host
      BY <2>1 DEF Calm
    <2>2. CASE c = conn /\ host' = h /\ kind = Requested(host.pc)
      <3>1. Follows(h) /\ h.pc \in Refreshing /\ h.refreshed /\ h.settled
        BY <2>2 DEF Calm
      <3>2. host.refreshed /\ host.settled /\ host.pc # "resume"
        BY <3>1 DEF Follows
      <3>3. host.pc \in Refreshing
        BY <1>4, <2>2, <3>2 DEF Requested, Refreshing
      <3> QED BY <3>2, <3>3 DEF Calm
    <2> QED BY <1>3, <2>1, <2>2
  <1>6. Alone /\ Stage /\ AllWanted(inbox)
    BY <1>5 DEF CalmOK, Alone
  <1>7. Head(inbox[c]).wanted
    BY <1>1, <1>6, TakenKeeps
  <1> QED BY <1>2, <1>3, <1>5, <1>6, <1>7 DEF Proper, Calm

\* A calm refresh stays calm over each handler ...
LEMMA CalmProcessor == ASSUME Typed, CalmOK, NEW c \in Conns, Processor(c) PROVE CalmOK'
  <1> SUFFICES ASSUME Calm' PROVE Alone' /\ Stage'
    BY DEF CalmOK
  <1> DEFINE Own(kind, h) == /\ Calm /\ Alone /\ Stage /\ kind = Requested(host.pc) /\ c = conn
                             /\ host' = h /\ h.asked = host.asked /\ h.pc \in Refreshing /\ AllWanted(inbox')
  <1>1. ASSUME NEW kind, Handles(c, kind), NEW h, Answer(c, h), conn' = conn,
               kind = Requested(host.pc) => Proper(h) /\ Follows(h)
        PROVE  Own(kind, h)
    BY <1>1, AnswerCalm
  <1> HIDE DEF Own
  <1>2. Requested(host.pc) = "resume" => host.pc \in {"resume", "again"}
    BY DEF Requested
  <1>3. CASE ResumeClosing(c)
    <2>1. Own("resume", AfterClosing(host))
      BY <1>1, <1>2, <1>3, ProperPlaces, FollowsPlaces DEF ResumeClosing, client
    <2>2. host.pc = "again" /\ host'.pc = "again" /\ Alone /\ Stage /\ AllWanted(inbox')
      BY <1>2, <2>1, FollowsPlaces DEF Own, Calm, Refreshing
    <2> QED BY <1>3, <2>2 DEF ResumeClosing, Alone, Stage, NoneRemoves, server, client
  <1>4. CASE ResumeFails(c) \/ ResumeBreaksOff(c)
    <2>1. Own("resume", AfterResumeError(host))
      BY <1>1, <1>4, ProperPlaces, FollowsPlaces DEF ResumeFails, ResumeBreaksOff, client
    <2> QED BY <2>1, FollowsPlaces DEF Own
  <1>5. CASE ResumeRunning(c)
    <2>1. Calm /\ Alone /\ Stage
      BY <1>5 DEF ResumeRunning, Calm, CalmOK
    <2>2. Head(inbox[c]).wanted
      BY <1>5, <2>1, TakenKeeps DEF ResumeRunning, Handles, Alone, Typed, TypeOK, Messages
    <2>3. Requested(host.pc) = "resume"
      BY <1>5, <2>2, TakenKeeps DEF ResumeRunning, Handles, Typed, TypeOK, Messages
    <2>4. host.pc = "again"
      BY <1>2, <2>1, <2>3 DEF Calm, Refreshing
    <2> QED BY <1>5, <2>1, <2>4 DEF ResumeRunning, Stage
  <1>6. CASE ResumeCold(c)
    <2>1. Own("resume", AfterResume(host))
      BY <1>1, <1>2, <1>6, ProperPlaces, FollowsPlaces DEF ResumeCold, client
    <2>2. host.pc = "again" /\ host'.pc = "turn" /\ host'.asked = host.asked
      BY <1>2, <2>1, FollowsPlaces DEF Own, Calm, Refreshing
    <2>3. Alone /\ Stage /\ AllWanted(inbox') /\ c = conn
      BY <2>1 DEF Own
    <2>4. conn \in live /\ conn' = conn /\ subs' = Subscribed(c) /\ UNCHANGED <<resumes, closers>>
      BY <1>6, <2>3 DEF ResumeCold, client, Typed, Connected, Conns
    <2>5. subs' \subseteq {conn'} /\ conn' \in subs'
      BY <2>3, <2>4 DEF Subscribed, Alone
    <2>6. loaded' # 0 /\ sessions'[loaded'].config = config /\ sessions'[loaded'].loop = "running"
      BY <1>6, LoadTypes DEF ResumeCold, Typed, TypeOK
    <2>7. sessions'[loaded'].config >= host'.asked
      BY <2>2, <2>6 DEF Typed, TypeOK, Counted, Calls
    <2>8. NoneRemoves'
      BY <2>2, <2>3, <2>4 DEF Stage, NoneRemoves
    <2> QED BY <2>2, <2>3, <2>4, <2>5, <2>6, <2>7, <2>8 DEF Alone, Stage, InNewSession
  <1>7. Requested(host.pc) = "unsubscribe" => host.pc = "unsubscribe"
    BY DEF Requested
  <1>8. CASE UnsubscribeUnloaded(c)
    <2>1. Own("unsubscribe", Retry(host))
      BY <1>1, <1>7, <1>8, ProperPlaces, FollowsPlaces DEF UnsubscribeUnloaded, client
    <2>2. host.pc = "unsubscribe" /\ host'.pc = "again"
      BY <1>7, <2>1, FollowsPlaces DEF Own
    <2>3. Alone /\ Stage /\ AllWanted(inbox')
      BY <2>1 DEF Own
    <2>4. NoneRemoves' /\ loaded' = 0
      BY <1>8, <2>2, <2>3 DEF UnsubscribeUnloaded, Stage, BeforeClose, AllDone, NoneRemoves
    <2>5. Alone'
      BY <1>8, <2>3 DEF UnsubscribeUnloaded, ClearState, Alone, client
    <2> QED BY <2>2, <2>4, <2>5 DEF Stage
  <1>9. CASE UnsubscribeStranger(c)
    <2>1. Own("unsubscribe", [host EXCEPT !.pc = "read"])
      BY <1>1, <1>7, <1>9, ProperPlaces, FollowsPlaces DEF UnsubscribeStranger, client
    <2>2. host.pc = "unsubscribe" /\ host'.pc = "read"
      BY <1>7, <2>1, FollowsPlaces DEF Own
    <2> QED BY <1>9, <2>1, <2>2
            DEF Own, UnsubscribeStranger, Alone, Stage, BeforeClose, AllDone, server, client
  <1>10. CASE UnsubscribeOne(c)
    <2>1. Own("unsubscribe", [host EXCEPT !.pc = "closing"])
      BY <1>1, <1>7, <1>10, ProperPlaces, FollowsPlaces DEF UnsubscribeOne, client
    <2> QED BY <1>10, <2>1 DEF Own, UnsubscribeOne, Alone
  <1>11. CASE UnsubscribeLast(c)
    <2> DEFINE new == [session |-> loaded, step |-> "waiting"]
    <2>1. Own("unsubscribe", [host EXCEPT !.pc = "closing"])
      BY <1>1, <1>7, <1>11, ProperPlaces, FollowsPlaces DEF UnsubscribeLast, client
    <2>2. host.pc = "unsubscribe" /\ host'.pc = "closing"
      BY <1>7, <2>1, FollowsPlaces DEF Own
    <2>3. Alone /\ AllDone /\ closed = 0 /\ AllWanted(inbox')
      BY <2>1, <2>2 DEF Own, Stage, BeforeClose
    <2>4. Alone'
      BY <1>11, <2>3 DEF UnsubscribeLast, ClearState, Alone, client
    <2>5. closers \in Seq(Closers(Len(sessions))) /\ new \in Closers(Len(sessions)) /\ new.step = "waiting"
      BY <1>11 DEF Typed, TypeOK, Closers, Steps, UnsubscribeLast
    <2>6. closers' = Append(closers, new)
      BY <1>11 DEF UnsubscribeLast
    <2>7. \A k \in DOMAIN closers' : k = Len(closers) + 1 \/ closers'[k].step = "done"
      BY <2>3, <2>5, <2>6, AppendProperties DEF AllDone
    <2>8. \A k \in DOMAIN closers' : closers'[k].step \in {"waiting", "done"}
      BY <2>5, <2>6, <2>7, AppendProperties
    <2>9. closed' = 0
      BY <1>11, <2>3 DEF UnsubscribeLast, client
    <2>10. WhileClosing'
      BY <2>7, <2>8, <2>9 DEF WhileClosing, OneLeft
    <2> QED BY <2>2, <2>4, <2>10 DEF Stage
  <1>12. CASE Read(c)
    <2>1. Requested(host.pc) = "read" => host.pc = "read"
      BY DEF Requested
    <2>2. PICK h : Answer(c, h) /\ h \in {Ends(host), IF watched THEN Ends(host) ELSE Retry(host)}
      BY <1>12 DEF Read
    <2>3. Own("read", h)
      BY <1>1, <1>12, <2>1, <2>2, ProperPlaces, FollowsPlaces DEF Read, client
    <2>4. watched
      BY <2>1, <2>3 DEF Own, Stage, BeforeClose
    <2> QED BY <2>2, <2>3, <2>4, FollowsPlaces DEF Own, Refreshing
  <1>13. CASE Turn(c)
    <2>1. Own("turn", Ends(host))
      BY <1>1, <1>13, ProperPlaces, FollowsPlaces DEF Turn, client
    <2> QED BY <2>1, FollowsPlaces DEF Own, Refreshing
  <1>14. CASE ServerNotices(c)
    <2>1. Calm /\ Alone /\ Stage /\ subs' = subs \ {c} /\ c # conn
      BY <1>14 DEF ServerNotices, Calm, CalmOK
    <2>2. UNCHANGED <<host, inbox, resumes, conn, closers, closed, watched, loaded, sessions>>
      BY <1>14 DEF ServerNotices, client
    <2> QED BY <2>1, <2>2 DEF Alone, Stage, BeforeClose, AllDone, WhileClosing, OneLeft, NoneRemoves, InNewSession
  <1> QED BY <1>3, <1>4, <1>5, <1>6, <1>8, <1>9, <1>10, <1>11, <1>12, <1>13, <1>14
          DEF Processor, ThreadResume, ThreadUnsubscribe

\* ... over each step of a listener, which has nothing of it to answer ...
LEMMA CalmListener == ASSUME Typed, CalmOK, NEW j \in resumes, Listener(j) PROVE CalmOK'
  <1> SUFFICES ASSUME Calm' PROVE Alone' /\ Stage'
    BY DEF CalmOK
  <1>1. CASE Respond(j) \/ RespondFails(j)
    <2>1. CASE j.wanted
      <3>1. host.pc \in {"resume", "again"}
        BY <2>1 DEF Typed, JobsWanted
      <3>2. host' = AfterResume(host) \/ host' = AfterResumeError(host)
        BY <1>1, <2>1 DEF Respond, RespondFails, Goes
      <3>3. host.pc = "again" /\ host.refreshed /\ host.settled
        BY <3>1, <3>2, FollowsPlaces DEF Calm, Follows
      <3>4. j.step = "answered"
        BY <3>3 DEF CalmOK, Calm, Refreshing, Alone
      <3> QED BY <1>1, <3>4 DEF Respond, RespondFails
    <2>2. CASE ~j.wanted
      <3>1. Calm /\ j.step = "queued"
        BY <1>1, <2>2 DEF Respond, RespondFails, Calm
      <3> QED BY <3>1 DEF CalmOK, Alone
    <2> QED BY <2>1, <2>2
  <1>2. CASE Attach(j)
    <2>1. Calm /\ Alone /\ Stage
      BY <1>2 DEF Attach, Calm, CalmOK
    <2>2. UNCHANGED <<host, inbox, conn, closers, closed, watched, loaded, sessions>>
          /\ subs' = Subscribed(j.conn) /\ resumes' \subseteq resumes
      BY <1>2 DEF Attach, client
    <2>3. subs' \subseteq {conn} /\ (conn \in subs => conn \in subs')
      BY <2>1, <2>2 DEF Alone, Subscribed
    <2>4. Alone'
      BY <2>1, <2>2, <2>3 DEF Alone
    <2>5. Stage'
      BY <2>1, <2>2, <2>3
      DEF Stage, BeforeClose, AllDone, WhileClosing, OneLeft, NoneRemoves, InNewSession
    <2> QED BY <2>4, <2>5
  <1> QED BY <1>1, <1>2 DEF Listener

\* A session that has been told to shut down ends.
LEMMA CalmSession == ASSUME Typed, CalmOK, NEW s \in DOMAIN sessions, SessionEnds(s) PROVE CalmOK'
  <1> SUFFICES ASSUME Calm' PROVE Alone' /\ Stage'
    BY DEF CalmOK
  <1>1. Calm /\ Alone /\ Stage
    BY DEF SessionEnds, Calm, CalmOK
  <1>2. UNCHANGED <<host, inbox, resumes, subs, conn, closers, closed, watched, loaded>>
    BY DEF SessionEnds, client
  <1>3. /\ s \in 1..Len(sessions) /\ sessions[s].loop = "told"
        /\ \A i \in 1..Len(sessions) : i # s => sessions'[i] = sessions[i]
    BY LoopTypes DEF SessionEnds, Typed, TypeOK
  <1>4. InNewSession => InNewSession'
    <2> SUFFICES ASSUME InNewSession PROVE InNewSession'
      OBVIOUS
    <2>1. CASE loaded = 0
      BY <1>2, <2>1 DEF InNewSession
    <2>2. CASE loaded # 0
      <3>1. loaded \in 1..Len(sessions) /\ loaded # s
        BY <1>3, <2>2 DEF InNewSession, Typed, TypeOK
      <3> QED BY <1>2, <1>3, <3>1 DEF InNewSession
    <2> QED BY <2>1, <2>2
  <1> QED BY <1>1, <1>2, <1>4 DEF Alone, Stage, BeforeClose, AllDone, WhileClosing, OneLeft, NoneRemoves

\* ... over the one task that closes the thread ...
LEMMA CalmCloser == ASSUME Typed, CalmOK, NEW k \in DOMAIN closers, Closer(k) PROVE CalmOK'
  <1> SUFFICES ASSUME Calm' PROVE Alone' /\ Stage'
    BY DEF CalmOK
  <1>1. UNCHANGED <<host, inbox, resumes, subs, conn, sessions>>
    BY DEF Closer, ShutdownComplete, ShutdownTimesOut, Unwatch, Announce, Unpend, client
  <1>2. Calm /\ Alone /\ Stage
    BY <1>1 DEF Calm, CalmOK
  <1>3. Alone'
    BY <1>1, <1>2 DEF Alone
  <1>4. PICK from \in Steps, to \in Steps : Step(k, from, to) /\ from # "done"
    <2>1. (IF loaded = 0 THEN "absent" ELSE "removed") \in Steps
      BY DEF Steps
    <2>2. {"waiting", "absent", "removed", "unwatched", "unpending", "done"} = Steps
      BY DEF Steps
    <2>3. CASE ShutdownComplete(k)
      BY <2>1, <2>2, <2>3 DEF ShutdownComplete
    <2>4. CASE ShutdownTimesOut(k) \/ Unwatch(k) \/ Announce(k) \/ Unpend(k)
      BY <2>2, <2>4 DEF ShutdownTimesOut, Unwatch, Announce, Unpend
    <2> QED BY <2>3, <2>4 DEF Closer
  <1>5. /\ DOMAIN closers' = DOMAIN closers /\ closers[k].step = from /\ closers'[k].step = to
        /\ \A i \in DOMAIN closers : i # k => closers'[i] = closers[i]
    BY <1>4, StepTypes DEF Typed
  <1>6. ~AllDone
    BY <1>4, <1>5 DEF AllDone
  <1>7. CASE host.pc \in {"again", "turn"}
    <2>1. NoneRemoves /\ from = "unpending"
      BY <1>2, <1>4, <1>5, <1>7 DEF Stage, NoneRemoves
    <2>2. Unpend(k)
      BY <1>5, <2>1 DEF Closer, ShutdownComplete, ShutdownTimesOut, Unwatch, Announce, Step
    <2>3. to = "done" /\ loaded' = loaded
      BY <1>5, <2>2, StepTypes DEF Unpend, Step, Typed, Steps
    <2>4. NoneRemoves'
      BY <1>5, <2>1, <2>3 DEF NoneRemoves
    <2> QED BY <1>1, <1>2, <1>3, <1>7, <2>3, <2>4 DEF Stage, InNewSession
  <1>8. CASE host.pc = "closing"
    <2>1. WhileClosing
      BY <1>2, <1>8 DEF Stage
    <2>2. \A i \in DOMAIN closers : i # k => closers'[i].step = "done"
      BY <1>4, <1>5, <2>1 DEF WhileClosing, OneLeft
    <2>3. OneLeft'
      BY <1>5, <2>2 DEF OneLeft
    <2>4. to \in {"unpending", "done"} => NoneRemoves'
      BY <1>5, <2>2 DEF NoneRemoves
    <2>5. ASSUME NEW f, NEW t \in Steps, Step(k, f, t) PROVE from = f /\ to = t
      BY <1>5, <2>5, StepTypes DEF Typed
    <2>6. /\ to \in {"removed", "unwatched"} => loaded' = 0
          /\ closed' # 0 => to \in {"unpending", "done"} /\ loaded' = 0
      <3>1. CASE ShutdownComplete(k)
        <4>1. from = "waiting"
          BY <1>5, <3>1 DEF ShutdownComplete, Step
        <4>2. closed = 0
          BY <1>5, <2>1, <4>1 DEF WhileClosing, NoneRemoves
        <4> QED BY <3>1, <4>2 DEF ShutdownComplete, client
      <3>2. CASE ShutdownTimesOut(k)
        <4>1. from = "waiting" /\ to = "unpending"
          BY <2>5, <3>2 DEF ShutdownTimesOut, Steps
        <4>2. closed = 0
          BY <1>5, <2>1, <4>1 DEF WhileClosing, NoneRemoves
        <4> QED BY <3>2, <4>1, <4>2 DEF ShutdownTimesOut, client
      <3>3. CASE Unwatch(k)
        <4>1. (from = "absent" /\ to = "unpending") \/ (from = "removed" /\ to = "unwatched")
          <5>1. CASE Step(k, "absent", "unpending")
            BY <2>5, <5>1 DEF Steps
          <5>2. CASE Step(k, "removed", "unwatched")
            BY <2>5, <5>2 DEF Steps
          <5> QED BY <3>3, <5>1, <5>2 DEF Unwatch
        <4>2. closed = 0
          BY <1>5, <2>1, <4>1 DEF WhileClosing, NoneRemoves
        <4>3. closed' = 0 /\ loaded' = loaded
          BY <3>3, <4>2 DEF Unwatch, client
        <4> QED BY <1>5, <2>1, <4>1, <4>3 DEF WhileClosing
      <3>4. CASE Announce(k)
        <4>1. from = "unwatched" /\ to = "unpending"
          BY <2>5, <3>4 DEF Announce, Steps
        <4> QED BY <1>5, <2>1, <3>4, <4>1 DEF Announce, WhileClosing
      <3>5. CASE Unpend(k)
        <4>1. to = "done"
          BY <2>5, <3>5 DEF Unpend, Steps
        <4> QED BY <2>1, <3>5, <4>1 DEF Unpend, WhileClosing, client
      <3> QED BY <3>1, <3>2, <3>3, <3>4, <3>5 DEF Closer
    <2>7. WhileClosing'
      BY <1>5, <2>2, <2>3, <2>4, <2>6 DEF WhileClosing
    <2> QED BY <1>1, <1>3, <1>8, <2>7 DEF Stage
  <1>9. host.pc \in {"again", "turn", "closing"}
    BY <1>2, <1>6 DEF Stage, Calm, Refreshing, BeforeClose
  <1> QED BY <1>7, <1>8, <1>9

\* ... and over the host, which begins a calm refresh only when nothing is left.
LEMMA CalmHost == ASSUME Typed, CalmOK, Host PROVE CalmOK'
  <1> SUFFICES ASSUME Calm' PROVE Alone' /\ Stage'
    BY DEF CalmOK
  <1>1. TypeOK /\ host \in Calls /\ host.attempt \in 0..Attempts
    BY DEF Typed, TypeOK, Calls
  <1>2. CASE SaveConfig \/ HearTurn
    <2>1. host' = host \/ host' = [host EXCEPT !.known = "full"]
      BY <1>2 DEF SaveConfig, HearTurn
    <2>2. /\ host'.pc = host.pc /\ host'.refreshed = host.refreshed
          /\ host'.settled = host.settled /\ host'.asked = host.asked
      BY <1>1, <2>1 DEF Calls
    <2>3. Calm /\ Alone /\ Stage
      BY <2>2 DEF Calm, CalmOK
    <2>4. UNCHANGED <<inbox, resumes, subs, conn, closers, closed, watched, loaded, sessions>>
      BY <1>2 DEF SaveConfig, HearTurn, server, client
    <2> QED BY <2>2, <2>3, <2>4
            DEF Alone, Stage, BeforeClose, AllDone, WhileClosing, OneLeft, NoneRemoves, InNewSession
  <1>3. CASE Poll
    BY <1>3 DEF Poll, Calm, Refreshing
  <1>4. CASE StartTurn
    <2>1. host'.pc = "resume"
      BY <1>1, <1>4 DEF StartTurn, Goes, Calls
    <2> QED BY <2>1 DEF Calm, Refreshing
  <1>5. CASE BeginTurn
    <2> DEFINE place == IF host.known = "empty" THEN "turn" ELSE "unsubscribe"
               h == [host EXCEPT !.pc = place, !.refreshed = host.known # "empty", !.settled = Settled]
    <2>1. h.pc = place /\ h.refreshed = (host.known # "empty") /\ h.settled = Settled
      BY <1>1 DEF Calls
    <2>2. Goes(h) /\ conn' = conn /\ conn # 0
          /\ UNCHANGED <<resumes, subs, closers, closed, watched, loaded, sessions>>
      BY <1>5 DEF BeginTurn, server, client
    <2>3. host' = h
      BY <2>2 DEF Goes
    <2>4. Settled /\ h.pc = "unsubscribe"
      BY <2>1, <2>3 DEF Calm
    <2>5. inbox = [d \in Conns |-> <<>>] /\ NoneWanted(inbox)
      BY <1>1, <2>4 DEF Settled, TypeOK, NoneWanted
    <2>6. h \in Calls
      BY <1>5, TalkHost, <2>3 DEF Talk, Host
    <2>7. AllWanted(inbox')
      <3> HIDE DEF h
      <3> QED BY <1>1, <2>2, <2>5, <2>6, GoesKeeps
    <2>8. Alone'
      BY <2>2, <2>4, <2>7 DEF Alone, Settled, Job
    <2>9. BeforeClose'
      BY <2>2, <2>4 DEF Settled, BeforeClose, AllDone
    <2> QED BY <2>3, <2>4, <2>8, <2>9 DEF Stage
  <1>6. CASE ReadClosed
    <2> DEFINE h == Retry([host EXCEPT !.known = "absent"])
    <2>1. host.pc = "closing" /\ host.attempt = 0
      BY <1>6 DEF ReadClosed, Typed, Counted
    <2>2. h \in Calls /\ h.pc = "again" /\ h.refreshed = host.refreshed /\ h.settled = host.settled
      <3>1. [host EXCEPT !.known = "absent"] \in Calls /\ [host EXCEPT !.known = "absent"].attempt = 0
            /\ [host EXCEPT !.known = "absent"].refreshed = host.refreshed
            /\ [host EXCEPT !.known = "absent"].settled = host.settled
        BY <1>1, <2>1 DEF Calls
      <3>2. [host EXCEPT !.known = "absent"].attempt < Attempts
        BY <3>1 DEF Attempts
      <3> QED BY <3>1, <3>2, RetryTypes
    <2> HIDE DEF h
    <2>3. Goes(h) /\ closed # 0 /\ conn' = conn /\ UNCHANGED <<resumes, subs, closers, watched, loaded, sessions>>
      BY <1>1, <1>6 DEF ReadClosed, server, h, TypeOK
    <2>4. host' = h /\ Calm /\ Alone /\ Stage
      BY <2>1, <2>2, <2>3 DEF Goes, Calm, CalmOK, Refreshing
    <2>5. NoneWanted(inbox)
      BY <2>1, NothingWanted DEF Requested
    <2>6. inbox = [d \in Conns |-> <<>>]
      <3>1. \A d \in Conns : Len(inbox[d]) = 0
        <4> SUFFICES ASSUME NEW d \in Conns, Len(inbox[d]) # 0 PROVE FALSE
          OBVIOUS
        <4>1. 1 \in 1..Len(inbox[d])
          BY <1>1 DEF TypeOK
        <4> QED BY <2>4, <2>5, <4>1 DEF Alone, AllWanted, NoneWanted
      <3> QED BY <1>1, <3>1, EmptySeq DEF TypeOK
    <2>7. AllWanted(inbox')
      BY <1>1, <2>2, <2>3, <2>5, <2>6, GoesKeeps, <2>1 DEF Typed, Connected
    <2>8. Alone'
      BY <2>3, <2>4, <2>7 DEF Alone
    <2>9. NoneRemoves' /\ loaded' = 0
      BY <2>1, <2>3, <2>4 DEF Stage, WhileClosing, NoneRemoves
    <2> QED BY <2>2, <2>4, <2>8, <2>9 DEF Stage
  <1>7. CASE DeadlinePasses \/ RequestTimesOut \/ Disconnect \/ Reconnect
    <2>1. host' = Ends(host) \/ host' = AfterResumeError(host)
      BY <1>7 DEF DeadlinePasses, RequestTimesOut, Disconnect, Reconnect, Goes
    <2> QED BY <2>1, FollowsPlaces DEF Calm, Refreshing
  <1> QED BY <1>2, <1>3, <1>4, <1>5, <1>6, <1>7 DEF Host

\* Every step preserves what is said of a calm refresh.
LEMMA CalmStep == ASSUME Typed, CalmOK, [Next]_vars PROVE CalmOK'
  <1>1. CASE UNCHANGED vars
    BY <1>1 DEF vars, server, client, CalmOK, Calm, Alone, Stage, BeforeClose, AllDone, WhileClosing,
                OneLeft, NoneRemoves, InNewSession
  <1>2. CASE Next
    BY <1>2, CalmProcessor, CalmListener, CalmSession, CalmCloser, CalmHost DEF Next
  <1> QED BY <1>1, <1>2

-----------------------------------------------------------------------------
\* The answer to turn/start

Outcome == FreshConfig /\ AcceptedAlive /\ Heard

\* A turn is accepted of a refresh that got as far as its new session.
LEMMA OutcomeStep == ASSUME Typed, CalmOK, Outcome, [Next]_vars PROVE Outcome'
  <1>1. CASE accepted' = accepted
    BY <1>1 DEF Outcome, FreshConfig, AcceptedAlive, Heard, Refreshed
  <1>2. ASSUME NEW c \in Conns, Turn(c), accepted' # accepted PROVE Outcome'
    <2> DEFINE new == [config |-> sessions[loaded].config, loop |-> sessions[loaded].loop,
                       heard |-> c \in subs \/ Job(c, "answered", FALSE) \in resumes,
                       asked |-> host.asked, refreshed |-> host.refreshed,
                       settled |-> host.settled]
    <2>1. accepted' = <<new>> /\ loaded # 0 /\ Head(inbox[c]).wanted /\ Head(inbox[c]).kind = "turn"
          /\ inbox[c] # <<>>
      BY <1>2 DEF Turn, Takes, Handles
    <2>2. c = conn /\ Requested(host.pc) = "turn"
      BY <2>1, TakenKeeps DEF Typed, TypeOK, Messages
    <2>3. host.pc = "turn"
      BY <2>2 DEF Requested
    <2>4. accepted'[1] = new
      BY <2>1
    <2>5. Refreshed' => host.refreshed /\ host.settled
      BY <2>4 DEF Refreshed
    <2>6. Refreshed' => InNewSession
      BY <2>3, <2>5 DEF CalmOK, Calm, Refreshing, Stage
    <2>7. Refreshed' => new.config >= new.asked /\ new.loop = "running" /\ new.heard
      BY <2>1, <2>2, <2>6 DEF InNewSession
    <2> QED BY <2>4, <2>7 DEF Outcome, FreshConfig, AcceptedAlive, Heard
  <1>3. ASSUME NEW c \in Conns, Processor(c) PROVE Outcome'
    <2>1. CASE ThreadResume(c)
      BY <1>1, <2>1
      DEF ThreadResume, ResumeClosing, ResumeFails, ResumeRunning, ResumeCold, ResumeBreaksOff
    <2>2. CASE ThreadUnsubscribe(c)
      BY <1>1, <2>2
      DEF ThreadUnsubscribe, UnsubscribeUnloaded, UnsubscribeStranger, UnsubscribeOne, UnsubscribeLast
    <2>3. CASE Read(c) \/ Turn(c) \/ ServerNotices(c)
      BY <1>1, <1>2, <2>3 DEF Read, ServerNotices
    <2> QED BY <1>3, <2>1, <2>2, <2>3 DEF Processor
  <1>4. CASE \/ \E j \in resumes : Listener(j)
             \/ \E s \in DOMAIN sessions : SessionEnds(s)
             \/ \E k \in DOMAIN closers : Closer(k)
             \/ Host \/ UNCHANGED vars
    BY <1>1, <1>4 DEF Listener, Respond, RespondFails, Attach, SessionEnds,
       Closer, ShutdownComplete, ShutdownTimesOut, Unwatch, Announce, Unpend,
       Host, SaveConfig, StartTurn, BeginTurn, ReadClosed, DeadlinePasses, Poll, HearTurn,
       RequestTimesOut, Disconnect, Reconnect, vars
  <1> QED BY <1>3, <1>4 DEF Next

-----------------------------------------------------------------------------
IInv == Typed /\ ClosingEnds /\ CalmOK /\ Outcome

\* The inductive invariant.
LEMMA Inductive == Spec => []IInv
  <1>1. Init => IInv
    <2> SUFFICES ASSUME Init PROVE IInv
      OBVIOUS
    <2>1. ClosingEnds /\ CalmOK
      BY TypedInit DEF Init, ClosingEnds, CalmOK, Calm, Typed, Counted, NoHost, Refreshing
    <2>2. Outcome
      BY DEF Init, Outcome, FreshConfig, AcceptedAlive, Heard, Refreshed
    <2> QED BY <2>1, <2>2, TypedInit DEF IInv
  <1>2. IInv /\ [Next]_vars => IInv'
    BY TypedStep, ClosingStep, CalmStep, OutcomeStep DEF IInv
  <1> QED BY <1>1, <1>2, PTL DEF Spec

\* Every component keeps its type: a refresh makes at most four resumes, a thread is loaded only
\* with a session that was created (turn_start, thread_resume, thread_unsubscribe).
THEOREM TypeCorrect == Spec => []TypeOK
  <1>1. IInv => TypeOK
    BY DEF IInv, Typed
  <1> QED BY <1>1, Inductive, PTL

\* A thread whose resumes are refused because it is closing has a task that will take it out of
\* pending_thread_unloads, however many closes overlap (thread_unsubscribe).
THEOREM NoEndlessClosing == Spec => []ClosingEnds
  <1>1. IInv => ClosingEnds
    BY DEF IInv
  <1> QED BY <1>1, Inductive, PTL

\* A turn of a refreshed session runs with the configuration saved before startTurn, or a later one
\* (turn_start, resume_running_thread).
THEOREM RefreshedIsFresh == Spec => []FreshConfig
  <1>1. IInv => FreshConfig
    BY DEF IInv, Outcome
  <1> QED BY <1>1, Inductive, PTL

\* It is not handed to a session that has been told to shut down (thread_unsubscribe, turn_start).
THEOREM RefreshedIsAlive == Spec => []AcceptedAlive
  <1>1. IInv => AcceptedAlive
    BY DEF IInv, Outcome
  <1> QED BY <1>1, Inductive, PTL

\* The app's connection is subscribed to its events (thread_resume, turn_start).
THEOREM RefreshedIsHeard == Spec => []Heard
  <1>1. IInv => Heard
    BY DEF IInv, Outcome
  <1> QED BY <1>1, Inductive, PTL
=============================================================================

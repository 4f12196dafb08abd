------------------------- MODULE TurnPolling_proof -------------------------
(***************************************************************************)
(* Theorems about TurnPolling, for any number of chunks, reports, reads    *)
(* and drains.                                                             *)
(***************************************************************************)
EXTENDS TurnPolling, WellFoundedInduction, SequenceTheorems, FiniteSetTheorems, TLAPS

-----------------------------------------------------------------------------
(* Applying a batch of events *)

\* A set of natural numbers that is not empty has a least one.
LEMMA Least ==
  ASSUME NEW T, T \subseteq Nat, T # {}
  PROVE  \E n \in T : \A k \in T : n <= k
<1>. DEFINE R == {ss \in Nat \X Nat : ss[1] < ss[2]}
<1>1. IsWellFoundedOn(R, Nat)
  BY NatLessThanWellFounded DEF OpToRel
<1>2. \E n \in T : \A k \in T : ~ (<<k, n>> \in R)
  <2>. HIDE DEF R
  <2>. QED  BY <1>1, WFMin
<1>3. PICK n \in T : \A k \in T : ~ (<<k, n>> \in R)
  BY <1>2
<1>4. \A k \in T : <<k, n>> \in R <=> k < n
  OBVIOUS
<1>5. \A k \in T : ~ (k < n)
  BY <1>3, <1>4
<1>6. n \in Nat /\ \A k \in T : k \in Nat
  OBVIOUS
<1>. HIDE DEF R
<1>. QED  BY <1>5, <1>6

\* The function BatchApplied computes with, on the first n events.
Runs(f, page, events, n) ==
  f = [k \in 0..n |-> IF k = 0 THEN page ELSE EventApplied(f[k - 1], events[k])]

\* It exists: the definition by recursion in BatchApplied defines something.
LEMMA RunExists ==
  ASSUME NEW page, NEW events, NEW n \in Nat
  PROVE  \E f : Runs(f, page, events, n)
<1>. DEFINE Bad == {m \in Nat : ~ \E f : Runs(f, page, events, m)}
<1>1. SUFFICES Bad = {}
  OBVIOUS
<1>2. SUFFICES ASSUME Bad # {} PROVE FALSE
  OBVIOUS
<1>3. PICK m \in Bad : \A k \in Bad : m <= k
  BY <1>2, Least
<1>4. m # 0
  <2>1. Runs([k \in 0..0 |-> page], page, events, 0)
    BY DEF Runs
  <2>. QED  BY <2>1
<1>5. PICK f : Runs(f, page, events, m - 1)
  BY <1>3, <1>4
<1>. DEFINE g == [k \in 0..m |-> IF k < m THEN f[k] ELSE EventApplied(f[m - 1], events[m])]
<1>6. \A k \in 0..m : g[k] = IF k = 0 THEN page ELSE EventApplied(g[k - 1], events[k])
  BY <1>4, <1>5 DEF Runs
<1>7. Runs(g, page, events, m)
  <2>1. g = [k \in 0..m |-> g[k]]
    OBVIOUS
  <2>. HIDE DEF g
  <2>. QED  BY <2>1, <1>6 DEF Runs
<1>. QED  BY <1>7, <1>3

\* So BatchApplied is its last value.
LEMMA BatchRuns ==
  ASSUME NEW page, NEW events, Len(events) \in Nat
  PROVE  \E f : /\ Runs(f, page, events, Len(events))
                /\ BatchApplied(page, events) = f[Len(events)]
<1>. DEFINE f == CHOOSE f : f = [k \in 0..Len(events) |-> IF k = 0 THEN page ELSE EventApplied(f[k - 1], events[k])]
<1>1. BatchApplied(page, events) = f[Len(events)]
  BY DEF BatchApplied
<1>2. Runs(f, page, events, Len(events))
  BY RunExists DEF Runs
<1>. QED  BY <1>1, <1>2

\* Induction, with the set of the numbers for which a claim holds.
LEMMA Upwards ==
  ASSUME NEW T, 0 \in T, \A n \in Nat : n \in T => n + 1 \in T
  PROVE  \A n \in Nat : n \in T
<1>. SUFFICES ASSUME Nat \ T # {} PROVE FALSE
  OBVIOUS
<1>1. PICK m \in Nat \ T : \A k \in Nat \ T : m <= k
  <2>. DEFINE U == Nat \ T
  <2>1. U \subseteq Nat /\ U # {}
    OBVIOUS
  <2>. HIDE DEF U
  <2>2. \E m \in U : \A k \in U : m <= k
    BY <2>1, Least
  <2>. QED  BY <2>2 DEF U
<1>2. m # 0
  OBVIOUS
<1>3. m - 1 \in Nat /\ m - 1 \notin T
  BY <1>2
<1>. QED  BY <1>1, <1>3

\* What every event of a batch takes one step further holds of the page the batch leaves.
LEMMA BatchInvariant ==
  ASSUME NEW page, NEW events, Len(events) \in Nat, NEW T, page \in T[0],
         \A i \in 1..Len(events) : \A p \in T[i - 1] : EventApplied(p, events[i]) \in T[i]
  PROVE  BatchApplied(page, events) \in T[Len(events)]
<1>1. PICK f : Runs(f, page, events, Len(events)) /\ BatchApplied(page, events) = f[Len(events)]
  BY BatchRuns
<1>. DEFINE U == {n \in Nat : n <= Len(events) => f[n] \in T[n]}
<1>2. 0 \in U
  BY <1>1 DEF Runs
<1>3. ASSUME NEW n \in Nat, n \in U PROVE n + 1 \in U
  <2>1. SUFFICES ASSUME n + 1 <= Len(events) PROVE f[n + 1] \in T[n + 1]
    OBVIOUS
  <2>2. n + 1 \in 1..Len(events) /\ n + 1 \in 0..Len(events) /\ n + 1 # 0 /\ (n + 1) - 1 = n
    BY <2>1
  <2>3. \A k \in 0..Len(events) : f[k] = IF k = 0 THEN page ELSE EventApplied(f[k - 1], events[k])
    BY <1>1 DEF Runs
  <2>4. f[n + 1] = EventApplied(f[(n + 1) - 1], events[n + 1])
    BY <2>2, <2>3
  <2>5. f[(n + 1) - 1] \in T[(n + 1) - 1]
    BY <1>3, <2>1, <2>2
  <2>. QED  BY <2>2, <2>4, <2>5
<1>4. \A n \in Nat : n \in U
  <2>. HIDE DEF U
  <2>. QED  BY <1>2, <1>3, Upwards
<1>. QED  BY <1>1, <1>4

-----------------------------------------------------------------------------
(* Types *)

Statuses == {"inProgress"} \cup Terminal
EventKinds == {"status", "started", "delta", "replaced", "snapshot"}
NoteKinds == {"turnStarted", "progress", "delta", "itemCompleted", "error", "turnCompleted"}
Texts == Seq(1..MaxChunks)
Notes == [kind : NoteKinds, text : Texts, status : Statuses]
Events == [kind : EventKinds, text : Texts, status : Statuses \cup {""}, past : BOOLEAN]
Titles == {"", "running", "working", "over"}
Turns == [known : BOOLEAN, status : Statuses \cup {""}, title : Titles,
          last : (Statuses \cup {""}) \X Titles, events : Seq(Events)]
Replies == [events : Seq(Events), status : Statuses \cup {""}, text : Texts, past : BOOLEAN]
Pages(S) == [status : S, text : Texts, past : BOOLEAN]

\* The overlap of two texts is one of the possible ones.
LEMMA OverlapType ==
  ASSUME NEW s \in Texts, NEW t \in Texts
  PROVE  /\ Overlap(s, t) \in 0..Len(t) /\ Overlap(s, t) <= Len(s)
         /\ Last(s, Overlap(s, t)) = First(t, Overlap(s, t))
<1>. DEFINE both == {k \in 0..Len(t) : k <= Len(s) /\ Last(s, k) = First(t, k)}
            rest == {Len(t) - k : k \in both}
<1>0. Len(s) \in Nat /\ Len(t) \in Nat
  BY DEF Texts
<1>1. 0 \in both
  <2>1. Last(s, 0) = << >>
    BY <1>0 DEF Last, Texts
  <2>2. First(t, 0) = << >>
    BY <1>0 DEF First, Texts
  <2>. QED  BY <1>0, <2>1, <2>2
<1>2. rest \subseteq Nat /\ rest # {}
  BY <1>0, <1>1
<1>3. PICK n \in rest : \A k \in rest : n <= k
  <2>. HIDE DEF rest
  <2>. QED  BY <1>2, Least
<1>4. PICK k \in both : n = Len(t) - k
  BY <1>3
<1>5. ASSUME NEW other \in both PROVE other <= k
  <2>1. Len(t) - k <= Len(t) - other
    BY <1>3, <1>4
  <2>. QED  BY <2>1, <1>0
<1>6. Overlap(s, t) \in both
  <2>1. Overlap(s, t) = CHOOSE x \in both : \A other \in both : other <= x
    BY DEF Overlap
  <2>. HIDE DEF both
  <2>. QED  BY <2>1, <1>5
<1>. QED  BY <1>6

\* The last and first elements of a sequence, and two sequences one after the other.
LEMMA LastIs ==
  ASSUME NEW S, NEW t \in Seq(S), NEW k \in 0..Len(t)
  PROVE  /\ Last(t, k) \in Seq(S) /\ Len(Last(t, k)) = k
         /\ \A i \in 1..k : Last(t, k)[i] = t[Len(t) - k + i]
  BY DEF Last

LEMMA FirstIs ==
  ASSUME NEW S, NEW t \in Seq(S), NEW k \in 0..Len(t)
  PROVE  /\ First(t, k) \in Seq(S) /\ Len(First(t, k)) = k
         /\ \A i \in 1..k : First(t, k)[i] = t[i]
  BY DEF First

LEMMA JoinedIs ==
  ASSUME NEW S, NEW s \in Seq(S), NEW t \in Seq(S)
  PROVE  /\ s \o t \in Seq(S) /\ Len(s \o t) = Len(s) + Len(t) /\ Len(s) \in Nat /\ Len(t) \in Nat
         /\ \A i \in 1..Len(s) : (s \o t)[i] = s[i]
         /\ \A i \in 1..Len(t) : (s \o t)[Len(s) + i] = t[i]
  OBVIOUS

LEMMA MergedType ==
  ASSUME NEW s \in Texts, NEW t \in Texts
  PROVE  Merged(s, t) \in Texts
<1>0. s \in Seq(1..MaxChunks) /\ t \in Seq(1..MaxChunks)
  BY DEF Texts
<1>1. CASE Overlap(s, t) > 0
  <2>1. Overlap(s, t) \in 0..Len(t) /\ Len(t) \in Nat
    BY <1>0, OverlapType
  <2>2. Len(t) - Overlap(s, t) \in 0..Len(t)
    BY <2>1
  <2>3. Last(t, Len(t) - Overlap(s, t)) \in Seq(1..MaxChunks)
    BY <1>0, <2>2, LastIs
  <2>4. s \o Last(t, Len(t) - Overlap(s, t)) \in Texts
    BY <1>0, <2>3, JoinedIs DEF Texts
  <2>. QED  BY <1>1, <2>4 DEF Merged
<1>2. CASE ~ (Overlap(s, t) > 0)
  BY <1>2 DEF Merged
<1>. QED  BY <1>1, <1>2

LEMMA EventType ==
  ASSUME NEW S, NEW p \in Pages(S), NEW e \in Events, e.kind = "status" => e.status \in S
  PROVE  EventApplied(p, e) \in Pages(S)
<1>1. p.text \in Texts /\ e.text \in Texts
  BY DEF Pages, Events
<1>2. Merged(p.text, e.text) \in Texts
  BY <1>1, MergedType
<1>3. p.text \o e.text \in Texts
  BY <1>1, JoinedIs DEF Texts
<1>4. CASE e.kind = "status"
  BY <1>4 DEF EventApplied, Pages
<1>5. CASE e.kind = "started"
  BY <1>2, <1>5 DEF EventApplied, Pages
<1>6. CASE e.kind = "delta"
  BY <1>3, <1>6 DEF EventApplied, Pages
<1>7. CASE e.kind = "replaced"
  BY <1>7 DEF EventApplied, Pages, Events
<1>8. CASE e.kind = "snapshot"
  BY <1>2, <1>8 DEF EventApplied, Pages, Events
<1>. QED  BY <1>4, <1>5, <1>6, <1>7, <1>8 DEF Events, EventKinds

\* The page that a batch leaves has the status it had or that of a status event.
LEMMA BatchPage ==
  ASSUME NEW S, NEW page \in Pages(S), NEW events \in Seq(Events),
         \A i \in 1..Len(events) : events[i].kind = "status" => events[i].status \in S
  PROVE  BatchApplied(page, events) \in Pages(S)
<1>. DEFINE T == [n \in 0..Len(events) |-> Pages(S)]
<1>1. Len(events) \in Nat /\ \A i \in 1..Len(events) : events[i] \in Events
  OBVIOUS
<1>2. \A i \in 1..Len(events) : \A p \in T[i - 1] : EventApplied(p, events[i]) \in T[i]
  BY <1>1, EventType
<1>3. page \in T[0] /\ T[Len(events)] = Pages(S)
  BY <1>1
<1>4. BatchApplied(page, events) \in T[Len(events)]
  <2>. HIDE DEF T
  <2>. QED  BY <1>1, <1>2, <1>3, BatchInvariant
<1>. QED  BY <1>3, <1>4

Places == {"top", "events", "taking", "batch", "poll", "polled", "snapshot", "recover", "recovered",
           "final", "drain", "drained", "late", "history", "reread", "done"}

HostTyped ==
  /\ stream \in Seq(Notes)
  /\ said \in 0..MaxChunks /\ itemDone \in BOOLEAN /\ ended \in Statuses
  /\ progress \in Nat /\ errors \in Nat /\ connected \in BOOLEAN
  /\ lock \in {"none", "other"} \cup Calls /\ handled \in BOOLEAN
  /\ turn \in Turns /\ text \in Texts /\ past \in BOOLEAN

PageTyped ==
  /\ pc \in Places /\ reply \in Replies
  /\ pageText \in Texts /\ pagePast \in BOOLEAN /\ pageStatus \in Statuses
  /\ drains \in Nat /\ outcome \in Statuses
  /\ reader \in {"no", "asked", "read"} /\ found \in Replies /\ reads \in Nat
  /\ cause \in {"none", "stop", "deadline", "native"}

\* What is about to be applied to the page has a status, and so has a turn the host knows.
AnswersTyped ==
  /\ turn.known => turn.status \in Statuses
  /\ pc \in {"snapshot", "recovered", "late", "reread"} => reply.status \in Statuses
  /\ reader = "read" => found.status \in Statuses
  /\ \A i \in 1..Len(turn.events) : turn.events[i].kind = "status" => turn.events[i].status \in Statuses
  /\ \A i \in 1..Len(reply.events) : reply.events[i].kind = "status" => reply.events[i].status \in Statuses

TypeOK == HostTyped /\ PageTyped /\ AnswersTyped


LEMMA WholeType == Whole \in Texts
  BY BoundsAssumption DEF Whole, Texts

LEMMA Empty == <<>> \in Texts /\ <<>> \in Seq(Events) /\ Len(<<>>) = 0
  BY DEF Texts

LEMMA NothingType == Nothing \in Replies /\ Nothing.events = <<>>
  BY Empty DEF Nothing, Replies

LEMMA AnswerType ==
  ASSUME NEW p \in [status : Statuses \cup {""}, text : Texts, past : BOOLEAN]
  PROVE  Answer(p) \in Replies /\ Answer(p).status = p.status /\ Answer(p).text = p.text
           /\ Answer(p).past = p.past /\ Answer(p).events = <<>>
  BY NothingType DEF Answer, Replies

LEMMA UnknownType == Unknown \in Turns /\ Started \in Turns /\ Unknown.events = <<>> /\ Started.events = <<>>
                       /\ Unknown.status = "" /\ ~Unknown.known /\ Started.status = "inProgress" /\ Started.known
<1>1. Unknown = [known |-> FALSE, status |-> "", title |-> "", last |-> <<"", "">>, events |-> <<>>]
  BY DEF Unknown
<1>3. <<"", "">> \in (Statuses \cup {""}) \X Titles
  BY DEF Titles
<1>4. Unknown \in Turns
  BY <1>1, <1>3, Empty DEF Turns, Titles
<1>5. Unknown.events = <<>> /\ Unknown.status = "" /\ ~Unknown.known
  BY <1>1
<1>6. Started \in Turns /\ Started.status = "inProgress" /\ Started.known /\ Started.events = <<>>
  BY <1>4, <1>5 DEF Started, Turns, Titles, Statuses
<1>. QED  BY <1>4, <1>5, <1>6

LEMMA InitTyped == Init => TypeOK
<1>. SUFFICES ASSUME Init PROVE TypeOK
  OBVIOUS
<1>1. HostTyped
  <2>1. Note("turnStarted", <<>>, "inProgress") \in Notes
    BY Empty DEF Note, Notes, NoteKinds, Statuses
  <2>2. stream \in Seq(Notes)
    BY <2>1 DEF Init
  <2>3. ended \in Statuses /\ said \in 0..MaxChunks
    BY BoundsAssumption DEF Init, Statuses
  <2>. QED  BY <2>2, <2>3, UnknownType, Empty DEF Init, HostTyped
<1>2. PageTyped
  <2>1. pageStatus \in Statuses /\ outcome \in Statuses /\ pc \in Places
    BY DEF Init, Statuses, Places
  <2>. QED  BY <2>1, NothingType, Empty DEF Init, PageTyped
<1>3. AnswersTyped
  <2>1. \A i : i \notin 1..Len(<<>>)
    BY Empty
  <2>. QED  BY <2>1, UnknownType, NothingType DEF Init, AnswersTyped, Statuses
<1>. QED  BY <1>1, <1>2, <1>3 DEF TypeOK

-----------------------------------------------------------------------------
(* What a handler does to the turn *)

\* The status events of new are those of old, or tell of the status s.
Grows(old, new, s) ==
  \A i \in 1..Len(new) :
    new[i].kind = "status" =>
      new[i].status = s \/ \E j \in 1..Len(old) : old[j].kind = "status" /\ old[j].status = new[i].status

LEMMA PushedTurn ==
  ASSUME NEW t \in Turns, NEW e \in Events, NEW s, e.kind = "status" => e.status = s
  PROVE  /\ Pushed(t, e) \in Turns
         /\ Pushed(t, e).known = t.known /\ Pushed(t, e).status = t.status
         /\ Pushed(t, e).events = Append(t.events, e)
         /\ Grows(t.events, Pushed(t, e).events, s)
<1>1. Pushed(t, e) = [t EXCEPT !.events = Append(t.events, e)] /\ t.events \in Seq(Events)
  BY DEF Pushed, Turns
<1>2. Append(t.events, e) \in Seq(Events)
  BY <1>1
<1>3. Pushed(t, e) \in Turns /\ Pushed(t, e).known = t.known /\ Pushed(t, e).status = t.status
        /\ Pushed(t, e).events = Append(t.events, e)
  BY <1>1, <1>2 DEF Turns
<1>4. Grows(t.events, Append(t.events, e), s)
  <2>. DEFINE old == t.events  new == Append(t.events, e)
  <2>1. SUFFICES ASSUME NEW i \in 1..Len(new), new[i].kind = "status"
                 PROVE  new[i].status = s \/ \E j \in 1..Len(old) : old[j].kind = "status" /\ old[j].status = new[i].status
    BY DEF Grows
  <2>2. Len(new) = Len(old) + 1 /\ Len(old) \in Nat /\ new[Len(old) + 1] = e
    BY <1>1
  <2>3. \A j \in 1..Len(old) : new[j] = old[j]
    BY <1>1
  <2>4. CASE i = Len(old) + 1
    BY <2>1, <2>2, <2>4
  <2>5. CASE i \in 1..Len(old)
    BY <2>1, <2>3, <2>5
  <2>. QED  BY <2>2, <2>4, <2>5
<1>. QED  BY <1>3, <1>4

LEMMA GrowsTwice ==
  ASSUME NEW a, NEW b, NEW c, NEW s, Grows(a, b, s), Grows(b, c, s)
  PROVE  Grows(a, c, s)
<1>1. SUFFICES ASSUME NEW i \in 1..Len(c), c[i].kind = "status", c[i].status # s
               PROVE  \E j \in 1..Len(a) : a[j].kind = "status" /\ a[j].status = c[i].status
  BY DEF Grows
<1>2. PICK k \in 1..Len(b) : b[k].kind = "status" /\ b[k].status = c[i].status
  BY <1>1 DEF Grows
<1>. QED  BY <1>1, <1>2 DEF Grows

LEMMA StatusPushedTurn ==
  ASSUME NEW t \in Turns, past \in BOOLEAN
  PROVE  /\ StatusPushed(t) \in Turns
         /\ StatusPushed(t).known = t.known /\ StatusPushed(t).status = t.status
         /\ Grows(t.events, StatusPushed(t).events, t.status)
<1>. DEFINE u == [t EXCEPT !.last = <<t.status, t.title>>]
            e == Event("status", <<>>, t.status)
<1>1. u \in Turns /\ u.events = t.events /\ u.known = t.known /\ u.status = t.status
  <2>1. <<t.status, t.title>> \in (Statuses \cup {""}) \X Titles
    BY DEF Turns
  <2>. QED  BY <2>1 DEF Turns
<1>2. e \in Events /\ e.status = t.status
  <2>1. e = [kind |-> "status", text |-> <<>>, status |-> t.status, past |-> past]
    BY DEF Event
  <2>2. t.status \in Statuses \cup {""}
    BY DEF Turns
  <2>3. "status" \in EventKinds
    BY DEF EventKinds
  <2>. HIDE DEF e
  <2>. QED  BY <2>1, <2>2, <2>3, Empty DEF Events
<1>3. StatusPushed(t) = IF t.last = <<t.status, t.title>> THEN t ELSE Pushed(u, e)
  BY DEF StatusPushed
<1>4. Grows(t.events, t.events, t.status)
  BY DEF Grows
<1>. HIDE DEF u, e
<1>. QED  BY <1>1, <1>2, <1>3, <1>4, PushedTurn, ZenonT(60)

LEMMA TitledTurn ==
  ASSUME turn \in Turns, NEW s \in Statuses, NEW title \in Titles
  PROVE  LET t == Titled(Entry, s, title)
         IN  t \in Turns /\ t.known /\ t.status = s /\ t.events = turn.events
  BY DEF Titled, Entry, Turns

LEMMA OverTurn ==
  ASSUME turn \in Turns, past \in BOOLEAN, text \in Texts, NEW s \in Statuses
  PROVE  /\ Over(s) \in Turns /\ Over(s).known /\ Over(s).status = s
         /\ Grows(turn.events, Over(s).events, s)
<1>. DEFINE t == Titled(Entry, s, "over")
            e == Event("snapshot", text, "")
<1>1. t \in Turns /\ t.known /\ t.status = s /\ t.events = turn.events
  BY TitledTurn DEF Titles
<1>2. e \in Events /\ e.kind # "status"
  BY DEF Event, Events, EventKinds
<1>3. Over(s) = Pushed(StatusPushed(t), e)
  BY DEF Over
<1>. HIDE DEF t, e
<1>4. /\ StatusPushed(t) \in Turns /\ StatusPushed(t).known /\ StatusPushed(t).status = s
      /\ Grows(turn.events, StatusPushed(t).events, s)
  BY <1>1, StatusPushedTurn
<1>5. /\ Over(s) \in Turns /\ Over(s).known /\ Over(s).status = s
      /\ Grows(StatusPushed(t).events, Over(s).events, s)
  BY <1>2, <1>3, <1>4, PushedTurn, ZenonT(60)
<1>. QED  BY <1>4, <1>5, GrowsTwice

\* A handler takes the first notification; it sets the status it tells of, and leaves events
\* that tell of this status only.
NewStatus(n, known, status) ==
  CASE n.kind \in {"turnStarted", "turnCompleted"} -> n.status
    [] n.kind \in {"progress", "delta"}            -> "inProgress"
    [] n.kind = "itemCompleted"                    -> IF known THEN status ELSE "inProgress"
    [] n.kind = "error"                            -> "failed"

HandlerEffect(n) ==
  /\ n \in Notes /\ stream # <<>> /\ n = stream[1] /\ stream' = Tail(stream)
  /\ turn' \in Turns /\ turn'.known /\ text' \in Texts
  /\ turn'.status = NewStatus(n, turn.known, turn.status)
  /\ Grows(turn.events, turn'.events, turn'.status)
  /\ UNCHANGED <<serverVars, lock, past>> /\ handled' = TRUE /\ lock # "none"

LEMMA HandlerDoes == ASSUME HostTyped, HandleNext PROVE HandlerEffect(Head(stream))
<1>. DEFINE n == Head(stream)
<1>1. stream # <<>> /\ n \in Notes /\ n = stream[1] /\ stream' = Tail(stream) /\ handled' = TRUE
        /\ UNCHANGED <<serverVars, lock, past>> /\ lock # "none" /\ n.text \in Texts /\ n.status \in Statuses
  <2>1. PICK kind \in NoteKinds : Handle(kind)
    BY DEF HandleNext, TurnStarted, Progress, AgentMessageDelta, ItemCompleted, TurnCompleted, Error, NoteKinds
  <2>2. past' = past
    BY DEF HandleNext, TurnStarted, Progress, AgentMessageDelta, ItemCompleted, TurnCompleted, Error
  <2>3. stream \in Seq(Notes) /\ stream # <<>>
    BY <2>1 DEF Handle, HostTyped
  <2>4. n \in Notes /\ n = stream[1]
    BY <2>3
  <2>. QED  BY <2>1, <2>2, <2>3, <2>4 DEF Handle, serverVars, Notes
<1>2. turn \in Turns /\ past \in BOOLEAN /\ text \in Texts
  BY DEF HostTyped
<1>. USE DEF HandlerEffect
<1>3. CASE TurnStarted
  <2>. DEFINE title == IF turn.title = "" THEN "running" ELSE turn.title
              t == Titled(Entry, n.status, title)
  <2>1. title \in Titles
    BY <1>2 DEF Turns, Titles
  <2>2. t \in Turns /\ t.known /\ t.status = n.status /\ t.events = turn.events
    <3>. HIDE DEF title
    <3>. QED  BY <1>1, <1>2, <2>1, TitledTurn
  <2>3. turn' = StatusPushed(t) /\ text' = text /\ n.kind = "turnStarted"
    BY <1>3 DEF TurnStarted, Handle
  <2>. HIDE DEF t
  <2>. QED  BY <1>1, <1>2, <2>2, <2>3, StatusPushedTurn DEF NewStatus
<1>4. CASE Progress
  <2>. DEFINE t == Titled(Entry, "inProgress", "working")
  <2>2. t \in Turns /\ t.known /\ t.status = "inProgress" /\ t.events = turn.events
    BY <1>2, TitledTurn DEF Statuses, Titles
  <2>3. turn' = StatusPushed(t) /\ text' = text /\ n.kind = "progress"
    BY <1>4 DEF Progress, Handle
  <2>. HIDE DEF t
  <2>. QED  BY <1>1, <1>2, <2>2, <2>3, StatusPushedTurn DEF NewStatus
<1>5. CASE AgentMessageDelta
  <2>. DEFINE t == Titled(Entry, "inProgress", "running")
              e == Event(IF text = <<>> THEN "started" ELSE "delta", n.text, "")
  <2>2. t \in Turns /\ t.known /\ t.status = "inProgress" /\ t.events = turn.events
    BY <1>2, TitledTurn DEF Statuses, Titles
  <2>3. turn' = Pushed(t, e) /\ text' = text \o n.text /\ n.kind = "delta"
    BY <1>5 DEF AgentMessageDelta, Handle
  <2>4. e \in Events /\ e.kind # "status"
    BY <1>1, <1>2 DEF Event, Events, EventKinds
  <2>6. text \o n.text \in Texts
    <3>. HIDE DEF n
    <3>. QED  BY <1>1, <1>2 DEF Texts
  <2>5. text' \in Texts
    BY <2>3, <2>6
  <2>. HIDE DEF t, e
  <2>. QED  BY <1>1, <1>2, <2>2, <2>3, <2>4, <2>5, PushedTurn DEF NewStatus
<1>6. CASE ItemCompleted
  <2>. DEFINE t == IF turn.known THEN turn ELSE [Entry EXCEPT !.status = "inProgress"]
              e == Event("replaced", n.text, "")
  <2>2. t \in Turns /\ t.known /\ t.status = (IF turn.known THEN turn.status ELSE "inProgress")
          /\ t.events = turn.events
    BY <1>2 DEF Turns, Entry, Statuses
  <2>3. turn' = Pushed(t, e) /\ text' = n.text /\ n.kind = "itemCompleted"
    BY <1>6 DEF ItemCompleted, Handle
  <2>4. e \in Events /\ e.kind # "status"
    BY <1>1, <1>2 DEF Event, Events, EventKinds
  <2>. HIDE DEF t, e
  <2>. QED  BY <1>1, <1>2, <2>2, <2>3, <2>4, PushedTurn DEF NewStatus
<1>7. CASE TurnCompleted
  <2>1. turn' = Over(n.status) /\ text' = text /\ n.kind = "turnCompleted"
    BY <1>7 DEF TurnCompleted, Handle
  <2>. QED  BY <1>1, <1>2, <2>1, OverTurn DEF NewStatus
<1>8. CASE Error
  <2>1. turn' = Over("failed") /\ text' = text /\ n.kind = "error"
    BY <1>8 DEF Error, Handle
  <2>2. "failed" \in Statuses
    BY DEF Statuses, Terminal
  <2>. QED  BY <1>1, <1>2, <2>1, <2>2, OverTurn DEF NewStatus
<1>. QED  BY <1>3, <1>4, <1>5, <1>6, <1>7, <1>8 DEF HandleNext

-----------------------------------------------------------------------------
(* Type correctness *)

\* What an event list tells of is a status.
Told(events) == \A i \in 1..Len(events) : events[i].kind = "status" => events[i].status \in Statuses

LEMMA PayloadTypes ==
  ASSUME TypeOK
  PROVE  /\ Answer(PollPayload) \in Replies /\ Answer(PollPayload).status \in Statuses
         /\ Answer(PollPayload).events = <<>>
         /\ Answer(ReadPayload) \in Replies /\ Answer(ReadPayload).status \in Statuses
         /\ Answer(ReadPayload).events = <<>>
         /\ [Nothing EXCEPT !.events = turn.events] \in Replies
         /\ [Nothing EXCEPT !.events = turn.events].events = turn.events
         /\ [Nothing EXCEPT !.status = "failed"] \in Replies
         /\ [Nothing EXCEPT !.status = "failed"].status \in Statuses
         /\ [Nothing EXCEPT !.status = "failed"].events = <<>>
         /\ Pruned \in Turns /\ (Pruned.events = turn.events \/ Pruned.events = <<>>)
<1>1. turn \in Turns /\ text \in Texts /\ past \in BOOLEAN /\ ended \in Statuses /\ itemDone \in BOOLEAN
  BY DEF TypeOK, HostTyped
<1>2. PollPayload \in [status : Statuses \cup {""}, text : Texts, past : BOOLEAN] /\ PollPayload.status \in Statuses
  BY <1>1 DEF PollPayload, Turns, Statuses
<1>3. ReadPayload \in [status : Statuses \cup {""}, text : Texts, past : BOOLEAN] /\ ReadPayload.status \in Statuses
  BY <1>1, Empty DEF ReadPayload, Statuses
<1>4. /\ [Nothing EXCEPT !.events = turn.events] \in Replies
      /\ [Nothing EXCEPT !.events = turn.events].events = turn.events
  BY <1>1, NothingType DEF Replies, Turns
<1>5. /\ [Nothing EXCEPT !.status = "failed"] \in Replies
      /\ [Nothing EXCEPT !.status = "failed"].status \in Statuses
      /\ [Nothing EXCEPT !.status = "failed"].events = <<>>
  BY NothingType DEF Replies, Statuses, Terminal
<1>6. Pruned \in Turns /\ (Pruned.events = turn.events \/ Pruned.events = <<>>)
  BY <1>1, UnknownType DEF Pruned
<1>7. Answer(PollPayload) \in Replies /\ Answer(PollPayload).status \in Statuses /\ Answer(PollPayload).events = <<>>
  <2>. HIDE DEF PollPayload
  <2>. QED  BY <1>2, AnswerType
<1>8. Answer(ReadPayload) \in Replies /\ Answer(ReadPayload).status \in Statuses /\ Answer(ReadPayload).events = <<>>
  <2>. HIDE DEF ReadPayload
  <2>. QED  BY <1>3, AnswerType
<1>. QED  BY <1>4, <1>5, <1>6, <1>7, <1>8

LEMMA ShownTypes ==
  ASSUME TypeOK, NEW S, pageStatus \in S, S \subseteq Statuses,
         \A i \in 1..Len(reply.events) : reply.events[i].kind = "status" => reply.events[i].status \in S
  PROVE  BatchApplied(Page, reply.events) \in Pages(S)
<1>1. Page \in Pages(S)
  BY DEF TypeOK, PageTyped, Page, Pages
<1>2. reply.events \in Seq(Events)
  BY DEF TypeOK, PageTyped, Replies
<1>. QED  BY <1>1, <1>2, BatchPage

LEMMA MergedTypes ==
  ASSUME TypeOK, NEW r \in Replies, r.status \in Statuses
  PROVE  PollApplied(r) \in Pages(Statuses) /\ ReadApplied(r) \in Pages(Statuses)
           /\ PollApplied(r).status = r.status /\ ReadApplied(r).status = r.status
<1>1. pageText \in Texts /\ r.text \in Texts /\ r.past \in BOOLEAN /\ pagePast \in BOOLEAN
  BY DEF TypeOK, PageTyped, Replies
<1>2. Merged(pageText, r.text) \in Texts
  BY <1>1, MergedType
<1>. QED  BY <1>1, <1>2 DEF PollApplied, ReadApplied, Pages

LEMMA NotesTyped ==
  /\ said \in 0..MaxChunks /\ said < MaxChunks => Note("delta", <<said + 1>>, "inProgress") \in Notes
  /\ Note("itemCompleted", Whole, "inProgress") \in Notes
  /\ Note("progress", <<>>, "inProgress") \in Notes
  /\ Note("error", <<>>, "inProgress") \in Notes
  /\ \A s \in Statuses : Note("error", <<>>, s) \in Notes /\ Note("turnCompleted", <<>>, s) \in Notes
<1>1. said \in 0..MaxChunks /\ said < MaxChunks => <<said + 1>> \in Texts
  BY BoundsAssumption DEF Texts
<1>. QED  BY <1>1, Empty, WholeType DEF Note, Notes, NoteKinds, Statuses

\* The notifications that end the turn.
Farewell(s) == (IF s = "failed" THEN <<Note("error", <<>>, s)>> ELSE <<>>) \o <<Note("turnCompleted", <<>>, s)>>

LEMMA Appending ==
  ASSUME NEW S, NEW a \in Seq(S), NEW e \in S
  PROVE  /\ Append(a, e) \in Seq(S) /\ Len(Append(a, e)) = Len(a) + 1 /\ Len(a) \in Nat
         /\ \A i \in 1..Len(a) : Append(a, e)[i] = a[i]
         /\ Append(a, e)[Len(a) + 1] = e
  OBVIOUS

\* The end is told by one notification, or by an error before it.
LEMMA FarewellIs ==
  ASSUME stream \in Seq(Notes), NEW s \in Terminal
  PROVE  LET new == stream \o (IF s = "failed" THEN <<Note("error", <<>>, s)>> ELSE <<>>)
                           \o <<Note("turnCompleted", <<>>, s)>>
             over == Note("turnCompleted", <<>>, s)
             fails == Note("error", <<>>, s)
         IN  IF s = "failed" THEN new = Append(Append(stream, fails), over) ELSE new = Append(stream, over)
<1>1. Note("turnCompleted", <<>>, s) \in Notes /\ Note("error", <<>>, s) \in Notes
  BY NotesTyped DEF Statuses
<1>. QED  BY <1>1

LEMMA ServerTyped == ASSUME TypeOK, Server, UNCHANGED <<pageVars, readVars>> PROVE TypeOK'
<1>1. AnswersTyped'
  BY DEF TypeOK, AnswersTyped, Server, nativeVars, pageVars, readVars
<1>2. PageTyped'
  BY DEF TypeOK, PageTyped, pageVars, readVars
<1>3. HostTyped'
  <2>. USE DEF TypeOK, HostTyped, Server, nativeVars
  <2>1. CASE Say
    BY <2>1, NotesTyped, BoundsAssumption DEF Say, Emit
  <2>2. CASE CompleteItem
    BY <2>2, NotesTyped DEF CompleteItem, Emit
  <2>3. CASE Report
    BY <2>3, NotesTyped DEF Report, Emit
  <2>4. CASE Break
    BY <2>4, NotesTyped DEF Break, Emit
  <2>5. CASE Disconnect
    <3>1. stream' \in Seq(Notes)
      BY <2>5 DEF Disconnect
    <3>. QED  BY <2>5, <3>1 DEF Disconnect
  <2>6. ASSUME NEW s \in Terminal, EndTurn(s) PROVE HostTyped'
    <3>1. Note("turnCompleted", <<>>, s) \in Notes /\ Note("error", <<>>, s) \in Notes /\ s \in Statuses
      BY NotesTyped DEF Statuses
    <3>2. stream' \in Seq(Notes)
      BY <2>6, <3>1 DEF EndTurn
    <3>. QED  BY <2>6, <3>1, <3>2 DEF EndTurn
  <2>. QED  BY <2>1, <2>2, <2>3, <2>4, <2>5, <2>6
<1>. QED  BY <1>1, <1>2, <1>3 DEF TypeOK

LEMMA HandlerTyped == ASSUME TypeOK, HandleOne PROVE TypeOK'
<1>1. HandlerEffect(Head(stream))
  BY HandlerDoes DEF TypeOK, HandleOne
<1>2. PICK n : HandlerEffect(n)
  BY <1>1
<1>. USE DEF TypeOK, HandlerEffect
<1>3. HostTyped'
  <2>1. stream' \in Seq(Notes)
    BY <1>2 DEF HostTyped
  <2>. QED  BY <1>2, <2>1 DEF HostTyped, serverVars
<1>4. PageTyped'
  BY DEF PageTyped, HandleOne, pageVars, readVars
<1>5. AnswersTyped'
  <2>1. turn'.status \in Statuses
    <3>1. n \in Notes
      BY <1>2
    <3>2. turn.known => turn.status \in Statuses
      BY DEF AnswersTyped
    <3>. QED  BY <1>2, <3>1, <3>2 DEF NewStatus, Notes, NoteKinds, Statuses, Terminal
  <2>2. ASSUME NEW i \in 1..Len(turn'.events), turn'.events[i].kind = "status"
        PROVE  turn'.events[i].status \in Statuses
    BY <1>2, <2>1, <2>2 DEF Grows, AnswersTyped
  <2>. QED  BY <2>1, <2>2 DEF AnswersTyped, HandleOne, pageVars, readVars
<1>. QED  BY <1>3, <1>4, <1>5

\* What a page may be given of S.
LEMMA ShowTypes ==
  ASSUME NEW S, S \subseteq Statuses, NEW page \in Pages(S), Show(page)
  PROVE  pageText' \in Texts /\ pagePast' \in BOOLEAN /\ pageStatus' \in S /\ pageStatus' \in Statuses
           /\ pageStatus' = page.status
  BY DEF Show, Pages


LEMMA LockTyped == ASSUME TypeOK, OtherHandles \/ CallHandles \/ Release PROVE TypeOK'
<1>. USE DEF TypeOK, Acquire, OtherHandles, CallHandles, Release
<1>1. HostTyped'
  BY DEF HostTyped, serverVars, Calls
<1>2. PageTyped'
  <2>1. pc' \in Places
    BY DEF PageTyped, HostTyped, Places, Back, Calls, pageVars
  <2>. QED  BY <2>1 DEF PageTyped, pageVars, readVars
<1>3. AnswersTyped'
  <2>1. pc' \in {"snapshot", "recovered", "late", "reread"} => pc' = pc
    BY DEF Back, Calls, HostTyped, pageVars
  <2>. QED  BY <2>1 DEF AnswersTyped, pageVars, readVars
<1>. QED  BY <1>1, <1>2, <1>3

LEMMA TakeTyped == ASSUME TypeOK, TakeEvents \/ TakePayload \/ CallFails PROVE TypeOK'
<1>. USE DEF TypeOK
<1>1. HostTyped'
  <2>1. turn' \in Turns
    BY Empty DEF HostTyped, TakeEvents, TakePayload, CallFails, Turns, nativeVars
  <2>. QED  BY <2>1 DEF HostTyped, TakeEvents, TakePayload, CallFails, serverVars, nativeVars
<1>2. PageTyped'
  <2>1. reply' \in Replies
    BY PayloadTypes, NothingType DEF TakeEvents, TakePayload, CallFails
  <2>. QED  BY <2>1 DEF PageTyped, TakeEvents, TakePayload, CallFails, readVars, Places
<1>3. AnswersTyped'
  <2>0. \A i : i \notin 1..Len(<<>>)
    BY Empty
  <2>1. reply'.events = <<>> \/ reply'.events = turn.events
    BY PayloadTypes, NothingType DEF TakeEvents, TakePayload, CallFails
  <2>2. pc' \in {"snapshot", "recovered", "late", "reread"} => reply'.status \in Statuses
    BY PayloadTypes DEF TakeEvents, TakePayload, CallFails
  <2>3. turn'.known = turn.known /\ turn'.status = turn.status
          /\ (turn'.events = <<>> \/ turn'.events = turn.events)
    BY DEF HostTyped, Turns, TakeEvents, TakePayload, CallFails, nativeVars
  <2>4. reader' = reader /\ found' = found
    BY DEF TakeEvents, TakePayload, CallFails, readVars
  <2>. QED  BY <2>0, <2>1, <2>2, <2>3, <2>4 DEF AnswersTyped
<1>. QED  BY <1>1, <1>2, <1>3

LEMMA ReadsTyped == ASSUME TypeOK, PageReads \/ ReaderReads PROVE TypeOK'
<1>. USE DEF TypeOK
<1>0. turn' = Pruned /\ text' = <<>> /\ past' = itemDone
  BY DEF PageReads, ReaderReads, ReadThread
<1>1. HostTyped'
  BY <1>0, PayloadTypes, Empty DEF HostTyped, PageReads, ReaderReads, serverVars
<1>2. PageTyped'
  BY PayloadTypes DEF PageTyped, PageReads, ReaderReads, pageVars, readVars, Places
<1>3. AnswersTyped'
  <2>0. \A i : i \notin 1..Len(<<>>)
    BY Empty
  <2>1. reply' = reply \/ (reply'.events = <<>> /\ reply'.status \in Statuses)
    BY PayloadTypes DEF PageReads, ReaderReads, pageVars
  <2>2. pc' \in {"snapshot", "recovered", "late", "reread"} => (pc' = pc /\ reply' = reply) \/ reply'.status \in Statuses
    BY PayloadTypes DEF PageReads, ReaderReads, pageVars
  <2>3. reader' = "read" => (reader' = reader /\ found' = found) \/ found'.status \in Statuses
    BY PayloadTypes DEF PageReads, ReaderReads, readVars
  <2>4. turn'.known => turn' = turn
    BY <1>0, UnknownType DEF Pruned
  <2>5. turn'.events = turn.events \/ turn'.events = <<>>
    BY <1>0, PayloadTypes
  <2>. QED  BY <2>0, <2>1, <2>2, <2>3, <2>4, <2>5 DEF AnswersTyped
<1>. QED  BY <1>1, <1>2, <1>3

\* The steps that read a page or an outcome.
LEMMA ApplyTyped ==
  ASSUME TypeOK, ApplyBatch \/ ApplySnapshot \/ ApplyRecovered \/ ApplyLate \/ ApplyReread
  PROVE  TypeOK'
<1>. USE DEF TypeOK
<1>0. Quiet /\ reply' = Nothing /\ UNCHANGED <<drains, cause>>
  BY DEF ApplyBatch, ApplySnapshot, ApplyRecovered, ApplyLate, ApplyReread
<1>1. HostTyped'
  BY <1>0 DEF HostTyped, Quiet, serverVars, nativeVars
<1>2. PICK page \in Pages(Statuses) : Show(page)
  <2>1. CASE ApplyBatch
    <3>1. BatchApplied(Page, reply.events) \in Pages(Statuses)
      BY ShownTypes DEF PageTyped, AnswersTyped
    <3>. QED  BY <2>1, <3>1 DEF ApplyBatch
  <2>2. CASE ApplySnapshot \/ ApplyLate \/ ApplyReread
    BY <2>2, MergedTypes DEF ApplySnapshot, ApplyLate, ApplyReread, PageTyped, AnswersTyped
  <2>3. CASE ApplyRecovered
    <3>1. ReadApplied(reply) \in Pages(Statuses)
      BY <2>3, MergedTypes DEF ApplyRecovered, PageTyped, AnswersTyped
    <3>2. ASSUME NEW p \in Pages(Statuses)
          PROVE  [p EXCEPT !.status = IF @ = "inProgress" THEN "failed" ELSE @] \in Pages(Statuses)
      BY DEF Pages, Statuses, Terminal
    <3>. QED  BY <2>3, <3>1, <3>2 DEF ApplyRecovered
  <2>. QED  BY <2>1, <2>2, <2>3
<1>3. PageTyped'
  <2>1. pageText' \in Texts /\ pagePast' \in BOOLEAN /\ pageStatus' \in Statuses
    BY <1>2, ShowTypes
  <2>2. pc' \in Places /\ outcome' \in Statuses
    <3>1. CASE ApplyBatch
      <4>1. BatchApplied(Page, reply.events).status \in Statuses
        BY ShownTypes DEF PageTyped, AnswersTyped, Pages
      <4>. QED  BY <3>1, <4>1 DEF ApplyBatch, Follow, PageTyped, Places
    <3>2. CASE ApplySnapshot \/ ApplyRecovered \/ ApplyLate \/ ApplyReread
      BY <3>2 DEF ApplySnapshot, ApplyRecovered, ApplyLate, ApplyReread, Follow, Finish, PageTyped,
                  AnswersTyped, Places, Statuses, Terminal
    <3>. QED  BY <3>1, <3>2
  <2>. QED  BY <1>0, <2>1, <2>2, NothingType DEF PageTyped, Quiet, readVars
<1>4. AnswersTyped'
  <2>0. \A i : i \notin 1..Len(<<>>)
    BY Empty
  <2>1. pc' \notin {"snapshot", "recovered", "late", "reread"}
    BY DEF ApplyBatch, ApplySnapshot, ApplyRecovered, ApplyLate, ApplyReread, Follow, Finish
  <2>. QED  BY <1>0, <2>0, <2>1, NothingType DEF AnswersTyped, Quiet, nativeVars, readVars
<1>. QED  BY <1>1, <1>3, <1>4

LEMMA LoopTyped ==
  ASSUME TypeOK, \/ AskEvents \/ Interrupted \/ Deadline \/ PollLost \/ PageReadFails
                 \/ DrainLate \/ RecoverDiff \/ Finalize
  PROVE  TypeOK'
<1>. USE DEF TypeOK, AskEvents, Interrupted, Deadline, PollLost, PageReadFails, DrainLate, RecoverDiff,
             Finalize, Finish, Quiet
<1>1. HostTyped'
  BY DEF HostTyped, serverVars, nativeVars
<1>2. PageTyped'
  BY DEF PageTyped, readVars, Places, Statuses, Terminal
<1>3. AnswersTyped'
  BY DEF AnswersTyped, nativeVars, readVars
<1>. QED  BY <1>1, <1>2, <1>3

LEMMA ReaderTyped == ASSUME TypeOK, ComeBack \/ ReaderFails \/ ReaderApplies PROVE TypeOK'
<1>. USE DEF TypeOK
<1>1. HostTyped'
  BY DEF HostTyped, serverVars, nativeVars, ComeBack, ReaderFails, ReaderApplies
<1>2. PageTyped'
  <2>1. CASE ComeBack \/ ReaderFails
    BY <2>1 DEF ComeBack, ReaderFails, PageTyped, pageVars
  <2>2. CASE ReaderApplies
    <3>1. ReadApplied(found) \in Pages(Statuses) /\ Show(ReadApplied(found))
      BY <2>2, MergedTypes DEF ReaderApplies, PageTyped, AnswersTyped
    <3>2. pageText' \in Texts /\ pagePast' \in BOOLEAN /\ pageStatus' \in Statuses
      BY <3>1, ShowTypes
    <3>. QED  BY <2>2, <3>2, NothingType DEF ReaderApplies, PageTyped
  <2>. QED  BY <2>1, <2>2
<1>3. AnswersTyped'
  BY DEF AnswersTyped, nativeVars, pageVars, ComeBack, ReaderFails, ReaderApplies
<1>. QED  BY <1>1, <1>2, <1>3

LEMMA TypeStep == TypeOK /\ [Next]_vars => TypeOK'
<1>. SUFFICES ASSUME TypeOK, [Next]_vars PROVE TypeOK'
  OBVIOUS
<1>1. CASE UNCHANGED vars
  BY <1>1 DEF vars, pageVars, readVars, serverVars, nativeVars, TypeOK, HostTyped, PageTyped, AnswersTyped
<1>. QED
  BY <1>1, ServerTyped, HandlerTyped, LockTyped, TakeTyped, ReadsTyped, ApplyTyped, LoopTyped, ReaderTyped
  DEF Next, Native, Loop, Reader

\* Whatever the notifications, reads and losses, the host's state of the turn, the page and
\* what is on its way between them have their types; what is applied to the page has a status.
THEOREM TypeCorrect == Spec => []TypeOK
  BY InitTyped, TypeStep, PTL DEF Spec

-----------------------------------------------------------------------------
(* Why a page ends *)

Looping == {"top", "events", "taking", "batch", "poll", "polled", "snapshot"}
Recovering == {"recover", "recovered"}
Following == {"final", "drain", "drained", "late", "history", "reread"}
Fatal == {"error", "turnCompleted"}

\* The host tells of no end but the one at the server, or a break it took for one.
HostSound(s) == s \in Terminal => s = ended \/ (s = "failed" /\ errors > 0)
\* The page may also have lost the connection.
Sound(s) == s \in Terminal => s = ended \/ (s = "failed" /\ (errors > 0 \/ ~connected))

StreamSound ==
  \A i \in 1..Len(stream) :
    /\ stream[i].kind = "turnStarted" => stream[i].status = "inProgress"
    /\ stream[i].kind = "error" => HostSound("failed")
    /\ stream[i].kind = "turnCompleted" => stream[i].status = ended /\ ended \in Terminal

EventsSound(events) ==
  \A i \in 1..Len(events) : events[i].kind = "status" => HostSound(events[i].status)

HostOK == StreamSound /\ HostSound(turn.status) /\ EventsSound(turn.events) /\ EventsSound(reply.events)

PageOK == /\ Sound(reply.status) /\ Sound(found.status)
          /\ pc # "done" => Sound(pageStatus) /\ Sound(outcome)

\* Where the calls and the causes are.
PlacesOK == /\ lock # "none" => connected
            /\ lock \in Calls => pc = lock
            /\ pc \in Recovering => cause = "native"
            /\ pc \in Looping => cause = "none"
            /\ reader # "no" => reads > 0

\* A turn of which nothing came that could set it back.
Calm == progress = 0 /\ errors = 0 /\ reads = 0 /\ cause # "native"

\* Nothing but the end follows the end.
StreamEnds ==
  /\ \A i, j \in 1..Len(stream) : i < j /\ stream[i].kind \in Fatal => stream[j].kind = "turnCompleted"
  /\ \A i \in 1..Len(stream) : stream[i].kind # "progress"

Terminates(events) == \E i \in 1..Len(events) : events[i].kind = "status" /\ events[i].status \in Terminal

\* The host has seen the end.
Ended == /\ turn.status \in Terminal
         /\ \A i \in 1..Len(stream) : stream[i].kind = "turnCompleted"

\* Until it is read for the last time the host's turn stays over once it was, and every end
\* the page has is the host's, or that of the connection.
TurnEnds ==
  /\ turn.known
  /\ turn.status \in Terminal => Ended
  /\ Terminates(turn.events) \/ Terminates(reply.events) => Ended
  /\ pageStatus \in Terminal \/ reply.status \in Terminal \/ pc \in Following => ~connected \/ Ended
  /\ pc = "drained" => Ended

OutcomeEnds == /\ pc \in {"late", "reread"} => reply.status \in Terminal
               /\ pc \in Following => outcome \in Terminal

CalmOK == pc # "done" /\ Calm => StreamEnds /\ (pc # "reread" => TurnEnds) /\ OutcomeEnds

LEMMA InitReason == Init => HostOK /\ PageOK /\ PlacesOK /\ CalmOK /\ EndHasReason
<1>. SUFFICES ASSUME Init PROVE HostOK /\ PageOK /\ PlacesOK /\ CalmOK /\ EndHasReason
  OBVIOUS
<1>0. \A i : i \notin 1..Len(<<>>)
  BY Empty
<1>1. turn.status = "inProgress" /\ turn.known /\ turn.events = <<>> /\ reply.events = <<>>
        /\ reply.status = "" /\ found.status = ""
  BY UnknownType DEF Init, Nothing
<1>2. Len(stream) = 1 /\ stream[1] = Note("turnStarted", <<>>, "inProgress")
  BY DEF Init
<1>3. \A i \in 1..Len(stream) : stream[i].kind = "turnStarted" /\ stream[i].status = "inProgress"
  BY <1>2 DEF Note
<1>4. HostOK
  BY <1>0, <1>1, <1>3 DEF HostOK, StreamSound, EventsSound, HostSound, Terminal
<1>5. PageOK /\ PlacesOK /\ EndHasReason
  BY <1>1 DEF Init, PageOK, Sound, Terminal, PlacesOK, Calls, Recovering, EndHasReason
<1>6. StreamEnds
  BY <1>3 DEF StreamEnds, Fatal
<1>7. TurnEnds /\ OutcomeEnds
  BY <1>0, <1>1 DEF Init, TurnEnds, OutcomeEnds, Terminates, Terminal, Following
<1>. QED  BY <1>4, <1>5, <1>6, <1>7 DEF CalmOK

-----------------------------------------------------------------------------
\* The server

\* What was sound stays so.
Stays == /\ ended' = ended \/ ended = "inProgress"
         /\ errors' \in Nat /\ errors' >= errors
         /\ connected' => connected

LEMMA SoundStays ==
  ASSUME TypeOK, Stays
  PROVE  \A s : (HostSound(s) => HostSound(s)') /\ (Sound(s) => Sound(s)')
<1>1. errors \in Nat
  BY DEF TypeOK, HostTyped
<1>. QED  BY <1>1 DEF Stays, HostSound, Sound, Terminal

LEMMA ServerStays == ASSUME TypeOK, Server PROVE Stays
<1>1. errors \in Nat
  BY DEF TypeOK, HostTyped
<1>2. CASE Say \/ CompleteItem \/ Report
  BY <1>1, <1>2 DEF Say, CompleteItem, Report, Stays
<1>3. CASE Break
  BY <1>1, <1>3 DEF Break, Stays
<1>4. CASE Disconnect
  BY <1>1, <1>4 DEF Disconnect, Stays
<1>5. CASE \E s \in Terminal : EndTurn(s)
  BY <1>1, <1>5 DEF EndTurn, Stays
<1>. QED  BY <1>2, <1>3, <1>4, <1>5 DEF Server

LEMMA StreamStays ==
  ASSUME TypeOK, StreamSound, Stays, NEW i \in 1..Len(stream)
  PROVE  /\ stream[i].kind = "turnStarted" => stream[i].status = "inProgress"
         /\ stream[i].kind = "error" => HostSound("failed")'
         /\ stream[i].kind = "turnCompleted" => stream[i].status = ended' /\ ended' \in Terminal
  BY SoundStays DEF StreamSound, Stays, Terminal

LEMMA StreamGets ==
  ASSUME TypeOK, StreamSound, Stays, NEW n \in Notes, stream' = Append(stream, n),
         n.kind = "turnStarted" => n.status = "inProgress",
         n.kind = "error" => HostSound("failed")',
         n.kind = "turnCompleted" => n.status = ended' /\ ended' \in Terminal
  PROVE  StreamSound'
<1>1. stream \in Seq(Notes)
  BY DEF TypeOK, HostTyped
<1>2. /\ Len(stream') = Len(stream) + 1 /\ Len(stream) \in Nat
      /\ \A i \in 1..Len(stream) : stream'[i] = stream[i]
      /\ stream'[Len(stream) + 1] = n
  BY <1>1, Appending
<1>3. SUFFICES ASSUME NEW i \in 1..Len(stream')
               PROVE  /\ stream'[i].kind = "turnStarted" => stream'[i].status = "inProgress"
                      /\ stream'[i].kind = "error" => HostSound("failed")'
                      /\ stream'[i].kind = "turnCompleted" => stream'[i].status = ended' /\ ended' \in Terminal
  BY DEF StreamSound
<1>4. CASE i = Len(stream) + 1
  BY <1>2, <1>4
<1>5. CASE i \in 1..Len(stream)
  BY <1>2, <1>5, StreamStays
<1>. QED  BY <1>2, <1>4, <1>5

LEMMA ServerHost == ASSUME TypeOK, HostOK, Server, UNCHANGED <<pageVars, readVars>> PROVE HostOK'
<1>. USE DEF HostOK
<1>1. Stays /\ turn' = turn /\ reply' = reply
  BY ServerStays DEF Server, nativeVars, pageVars
<1>2. HostSound(turn.status)' /\ EventsSound(turn.events)' /\ EventsSound(reply.events)'
  <2>1. PICK t, r : t = turn /\ r = reply
    OBVIOUS
  <2>2. HostSound(t.status) /\ EventsSound(t.events) /\ EventsSound(r.events)
    BY <2>1
  <2>3. HostSound(t.status)' /\ EventsSound(t.events)' /\ EventsSound(r.events)'
    BY <1>1, <2>2, SoundStays DEF EventsSound
  <2>. QED  BY <1>1, <2>1, <2>3
<1>3. StreamSound'
  <2>0. stream \in Seq(Notes)
    BY DEF TypeOK, HostTyped
  <2>1. CASE Say
    <3>. DEFINE n == Note("delta", <<said + 1>>, "inProgress")
    <3>1. n \in Notes /\ n.kind = "delta"
      BY <2>1, NotesTyped DEF TypeOK, HostTyped, Note, Say
    <3>2. stream' = Append(stream, n)
      BY <2>1 DEF Say, Emit
    <3>. HIDE DEF n
    <3>. QED  BY <1>1, <3>1, <3>2, StreamGets
  <2>2. CASE CompleteItem
    <3>. DEFINE n == Note("itemCompleted", Whole, "inProgress")
    <3>1. n \in Notes /\ n.kind = "itemCompleted"
      BY NotesTyped DEF Note
    <3>2. stream' = Append(stream, n)
      BY <2>2 DEF CompleteItem, Emit
    <3>. HIDE DEF n
    <3>. QED  BY <1>1, <3>1, <3>2, StreamGets
  <2>3. CASE Report
    <3>. DEFINE n == Note("progress", <<>>, "inProgress")
    <3>1. n \in Notes /\ n.kind = "progress"
      BY NotesTyped DEF Note
    <3>2. stream' = Append(stream, n)
      BY <2>3 DEF Report, Emit
    <3>. HIDE DEF n
    <3>. QED  BY <1>1, <3>1, <3>2, StreamGets
  <2>4. CASE Break
    <3>. DEFINE n == Note("error", <<>>, "inProgress")
    <3>1. n \in Notes /\ n.kind = "error"
      BY NotesTyped DEF Note
    <3>2. stream' = Append(stream, n) /\ HostSound("failed")'
      BY <2>4 DEF Break, Emit, TypeOK, HostTyped, HostSound
    <3>. HIDE DEF n
    <3>. QED  BY <1>1, <3>1, <3>2, StreamGets
  <2>5. CASE Disconnect
    BY <2>5, Empty DEF Disconnect, StreamSound
  <2>6. ASSUME NEW s \in Terminal, EndTurn(s) PROVE StreamSound'
    <3>. DEFINE over == Note("turnCompleted", <<>>, s)
                fails == Note("error", <<>>, s)
    <3>1. /\ over \in Notes /\ fails \in Notes
          /\ over.kind = "turnCompleted" /\ over.status = s /\ fails.kind = "error"
      BY NotesTyped DEF Note, Statuses
    <3>2. ended' = s /\ IF s = "failed" THEN stream' = Append(Append(stream, fails), over)
                        ELSE stream' = Append(stream, over)
      BY <2>0, <2>6, FarewellIs DEF EndTurn
    <3>. HIDE DEF over, fails
    <3>3. CASE s # "failed"
      BY <1>1, <3>1, <3>2, <3>3, StreamGets
    <3>4. CASE s = "failed"
      <4>1. HostSound("failed")'
        BY <3>2, <3>4 DEF HostSound
      <4>2. /\ Len(stream') = Len(stream) + 2 /\ Len(stream) \in Nat
            /\ \A i \in 1..Len(stream) : stream'[i] = stream[i]
            /\ stream'[Len(stream) + 1] = fails /\ stream'[Len(stream) + 2] = over
        BY <2>0, <3>1, <3>2, <3>4
      <4>3. SUFFICES ASSUME NEW i \in 1..Len(stream')
                     PROVE  /\ stream'[i].kind = "turnStarted" => stream'[i].status = "inProgress"
                            /\ stream'[i].kind = "error" => HostSound("failed")'
                            /\ stream'[i].kind = "turnCompleted" => stream'[i].status = ended' /\ ended' \in Terminal
        BY DEF StreamSound
      <4>4. CASE i = Len(stream) + 1 \/ i = Len(stream) + 2
        BY <3>1, <3>2, <4>1, <4>2, <4>4
      <4>5. CASE i \in 1..Len(stream)
        BY <1>1, <4>2, <4>5, StreamStays
      <4>. QED  BY <4>2, <4>4, <4>5
    <3>. QED  BY <3>3, <3>4
  <2>. QED  BY <2>1, <2>2, <2>3, <2>4, <2>5, <2>6 DEF Server
<1>. QED  BY <1>2, <1>3

LEMMA ServerPage ==
  ASSUME TypeOK, PageOK, PlacesOK, Server, UNCHANGED <<pageVars, readVars>>
  PROVE  PageOK' /\ PlacesOK'
<1>1. Stays /\ UNCHANGED <<pageVars, readVars, nativeVars>> /\ lock = "none"
  BY ServerStays DEF Server
<1>2. PageOK'
  <2>1. PICK a, b, c, d : a = reply.status /\ b = found.status /\ c = pageStatus /\ d = outcome
    OBVIOUS
  <2>2. Sound(a)' /\ Sound(b)' /\ (pc # "done" => Sound(c)' /\ Sound(d)')
    BY <1>1, <2>1, SoundStays DEF PageOK
  <2>3. a = reply'.status /\ b = found'.status /\ c = pageStatus' /\ d = outcome' /\ pc' = pc
    BY <1>1, <2>1 DEF pageVars, readVars
  <2>. QED  BY <2>2, <2>3 DEF PageOK
<1>3. PlacesOK'
  BY <1>1 DEF PlacesOK, nativeVars, pageVars, readVars, Calls
<1>. QED  BY <1>2, <1>3

\* Before the end, of a calm turn nothing has ended anywhere.
Open == /\ \A i \in 1..Len(stream) : stream[i].kind \notin Fatal /\ stream[i].kind # "progress"
        /\ turn.status \notin Terminal /\ turn.known
        /\ ~Terminates(turn.events) /\ ~Terminates(reply.events)
        /\ pageStatus \notin Terminal /\ reply.status \notin Terminal
        /\ pc \notin Following /\ pc # "done"

LEMMA OpenBefore ==
  ASSUME TypeOK, HostOK, PageOK, CalmOK, Calm, pc # "done", ended = "inProgress", connected
  PROVE  Open
<1>1. StreamEnds /\ (pc # "reread" => TurnEnds) /\ OutcomeEnds /\ errors = 0
  BY DEF CalmOK, Calm
<1>2. \A i \in 1..Len(stream) : stream[i].kind \notin Fatal /\ stream[i].kind # "progress"
  BY <1>1 DEF HostOK, StreamSound, HostSound, StreamEnds, Terminal, Fatal
<1>3. turn.status \notin Terminal
  BY <1>1 DEF HostOK, HostSound, Terminal
<1>4. pc # "reread"
  BY <1>1 DEF OutcomeEnds, PageOK, Sound, Terminal
<1>. QED  BY <1>1, <1>2, <1>3, <1>4 DEF TurnEnds, Ended, Open

\* The stream of a turn that was open ends with what is appended.
LEMMA OpenGets ==
  ASSUME TypeOK, Open, NEW n \in Notes, n.kind # "progress", stream' = Append(stream, n),
         UNCHANGED <<nativeVars, pageVars, readVars>>
  PROVE  StreamEnds' /\ TurnEnds' /\ OutcomeEnds'
<1>1. stream \in Seq(Notes)
  BY DEF TypeOK, HostTyped
<1>2. /\ Len(stream') = Len(stream) + 1 /\ Len(stream) \in Nat
      /\ \A i \in 1..Len(stream) : stream'[i] = stream[i]
      /\ stream'[Len(stream) + 1] = n
  BY <1>1, Appending
<1>3. StreamEnds'
  <2>1. \A i \in 1..Len(stream') : stream'[i].kind # "progress"
    BY <1>2 DEF Open
  <2>2. \A i, j \in 1..Len(stream') : i < j => stream'[i].kind \notin Fatal
    BY <1>2 DEF Open
  <2>. QED  BY <2>1, <2>2 DEF StreamEnds
<1>4. TurnEnds' /\ OutcomeEnds'
  BY DEF Open, TurnEnds, OutcomeEnds, Ended, Terminates, nativeVars, pageVars, readVars, Following
<1>. QED  BY <1>3, <1>4

LEMMA ServerCalm ==
  ASSUME TypeOK, HostOK, PageOK, PlacesOK, CalmOK, Server, pc # "done", UNCHANGED <<pageVars, readVars>>
  PROVE  CalmOK'
<1>. SUFFICES ASSUME Calm' PROVE StreamEnds' /\ (pc # "reread" => TurnEnds') /\ OutcomeEnds'
  BY DEF CalmOK, pageVars
<1>0. UNCHANGED <<nativeVars, pageVars, readVars>> /\ stream \in Seq(Notes)
        /\ progress \in Nat /\ errors \in Nat
  BY DEF Server, TypeOK, HostTyped
<1>1. CASE Say
  <2>. DEFINE n == Note("delta", <<said + 1>>, "inProgress")
  <2>1. n \in Notes /\ n.kind = "delta"
    BY <1>1, NotesTyped DEF TypeOK, HostTyped, Note, Say
  <2>2. stream' = Append(stream, n) /\ ended = "inProgress" /\ connected /\ Calm
    BY <1>0, <1>1 DEF Say, Emit, Calm, pageVars, readVars
  <2>. HIDE DEF n
  <2>. QED  BY <1>0, <2>1, <2>2, OpenBefore, OpenGets
<1>2. CASE CompleteItem
  <2>. DEFINE n == Note("itemCompleted", Whole, "inProgress")
  <2>1. n \in Notes /\ n.kind = "itemCompleted"
    BY NotesTyped DEF Note
  <2>2. stream' = Append(stream, n) /\ ended = "inProgress" /\ connected /\ Calm
    BY <1>0, <1>2 DEF CompleteItem, Emit, Calm, pageVars, readVars
  <2>. HIDE DEF n
  <2>. QED  BY <1>0, <2>1, <2>2, OpenBefore, OpenGets
<1>3. CASE Report \/ Break
  BY <1>0, <1>3 DEF Report, Break, Calm
<1>4. CASE Disconnect
  <2>0. \A i : i \notin 1..Len(<<>>)
    BY Empty
  <2>1. StreamEnds /\ (pc # "reread" => TurnEnds) /\ OutcomeEnds
    BY <1>0, <1>4 DEF Disconnect, CalmOK, Calm, pageVars, readVars
  <2>2. stream' = <<>> /\ ~connected'
    BY <1>4 DEF Disconnect
  <2>3. StreamEnds'
    BY <2>0, <2>2 DEF StreamEnds
  <2>4. OutcomeEnds'
    BY <1>0, <2>1 DEF OutcomeEnds, pageVars
  <2>5. Ended => Ended'
    BY <1>0, <2>0, <2>2 DEF Ended, nativeVars
  <2>6. TurnEnds => TurnEnds'
    BY <1>0, <2>2, <2>5 DEF TurnEnds, Terminates, nativeVars, pageVars
  <2>. QED  BY <2>1, <2>3, <2>4, <2>6
<1>5. ASSUME NEW s \in Terminal, EndTurn(s) PROVE StreamEnds' /\ TurnEnds' /\ OutcomeEnds'
  <2>. DEFINE over == Note("turnCompleted", <<>>, s)
              fails == Note("error", <<>>, s)
  <2>1. /\ over \in Notes /\ fails \in Notes
        /\ over.kind = "turnCompleted" /\ over.status = s /\ fails.kind = "error"
    BY NotesTyped DEF Note, Statuses
  <2>2. IF s = "failed" THEN stream' = Append(Append(stream, fails), over) ELSE stream' = Append(stream, over)
    BY <1>0, <1>5, FarewellIs DEF EndTurn
  <2>3. Open
    BY <1>0, <1>5, OpenBefore DEF EndTurn, Calm, pageVars, readVars
  <2>. HIDE DEF over, fails
  <2>4. CASE s # "failed"
    BY <1>0, <2>1, <2>2, <2>3, <2>4, OpenGets
  <2>5. CASE s = "failed"
    <3>2. /\ Len(stream') = Len(stream) + 2 /\ Len(stream) \in Nat
          /\ \A i \in 1..Len(stream) : stream'[i] = stream[i]
          /\ stream'[Len(stream) + 1] = fails /\ stream'[Len(stream) + 2] = over
      BY <1>0, <2>1, <2>2, <2>5
    <3>3. StreamEnds'
      <4>1. \A i \in 1..Len(stream') : stream'[i].kind # "progress"
        BY <2>1, <3>2, <2>3 DEF Open
      <4>2. \A i, j \in 1..Len(stream') : i < j /\ stream'[i].kind \in Fatal => stream'[j].kind = "turnCompleted"
        BY <2>1, <3>2, <2>3 DEF Open
      <4>. QED  BY <4>1, <4>2 DEF StreamEnds
    <3>4. TurnEnds' /\ OutcomeEnds'
      BY <1>0, <2>3 DEF Open, TurnEnds, OutcomeEnds, Ended, Terminates, nativeVars, pageVars, readVars, Following
    <3>. QED  BY <3>3, <3>4
  <2>. QED  BY <2>4, <2>5
<1>. QED  BY <1>1, <1>2, <1>3, <1>4, <1>5 DEF Server

-----------------------------------------------------------------------------
\* The handlers

LEMMA TailIs ==
  ASSUME NEW S, NEW q \in Seq(S), q # <<>>
  PROVE  /\ Tail(q) \in Seq(S) /\ Len(Tail(q)) = Len(q) - 1 /\ Len(q) \in Nat /\ Len(q) > 0
         /\ \A i \in 1..Len(Tail(q)) : Tail(q)[i] = q[i + 1] /\ i + 1 \in 1..Len(q)
         /\ 1 \in 1..Len(q)
  OBVIOUS

LEMMA HandlerReason ==
  ASSUME TypeOK, HostOK, PageOK, PlacesOK, CalmOK, HandleOne
  PROVE  HostOK' /\ PageOK' /\ PlacesOK' /\ CalmOK'
<1>1. PICK n : HandlerEffect(n)
  <2>1. HandlerEffect(Head(stream))
    BY HandlerDoes DEF TypeOK, HandleOne
  <2>. QED  BY <2>1
<1>0. /\ UNCHANGED <<pageVars, readVars, serverVars, lock>> /\ pc # "done"
      /\ stream \in Seq(Notes) /\ stream # <<>> /\ n = stream[1] /\ n \in Notes /\ stream' = Tail(stream)
      /\ turn' \in Turns /\ turn'.known
      /\ turn'.status = NewStatus(n, turn.known, turn.status)
      /\ Grows(turn.events, turn'.events, turn'.status)
  BY <1>1 DEF HandlerEffect, HandleOne, TypeOK, HostTyped
<1>2. /\ Len(stream') = Len(stream) - 1 /\ Len(stream) \in Nat /\ 1 \in 1..Len(stream)
      /\ \A i \in 1..Len(stream') : stream'[i] = stream[i + 1] /\ i + 1 \in 1..Len(stream)
  BY <1>0, TailIs
<1>3. \A s : HostSound(s)' <=> HostSound(s)
  BY <1>0 DEF HostSound, serverVars
<1>4. HostOK'
  <2>1. StreamSound'
    BY <1>0, <1>2, <1>3 DEF HostOK, StreamSound, serverVars
  <2>2. PICK s : s = turn'.status
    OBVIOUS
  <2>3. HostSound(s)
    BY <1>0, <1>2, <2>2 DEF NewStatus, HostOK, StreamSound, HostSound, Notes, NoteKinds, Terminal
  <2>4. HostSound(turn.status)'
    BY <1>3, <2>2, <2>3
  <2>5. EventsSound(turn.events)'
    <3>1. PICK u : u = turn'.events
      OBVIOUS
    <3>2. EventsSound(u)
      BY <1>0, <2>2, <2>3, <3>1 DEF Grows, HostOK, EventsSound
    <3>3. EventsSound(u)'
      BY <1>3, <3>2 DEF EventsSound
    <3>. QED  BY <3>1, <3>3
  <2>6. EventsSound(reply.events)'
    <3>1. PICK u : u = reply.events
      OBVIOUS
    <3>2. EventsSound(u)'
      BY <1>3, <3>1 DEF HostOK, EventsSound
    <3>. QED  BY <1>0, <3>1, <3>2 DEF pageVars
  <2>. QED  BY <2>1, <2>4, <2>5, <2>6 DEF HostOK
<1>5. PageOK' /\ PlacesOK'
  BY <1>0 DEF PageOK, PlacesOK, Sound, pageVars, readVars, serverVars
<1>6. CalmOK'
  <2>. SUFFICES ASSUME Calm' PROVE StreamEnds' /\ (pc # "reread" => TurnEnds') /\ OutcomeEnds'
    BY <1>0 DEF CalmOK, pageVars
  <2>1. StreamEnds /\ (pc # "reread" => TurnEnds) /\ OutcomeEnds
    BY <1>0 DEF CalmOK, Calm, pageVars, readVars, serverVars
  <2>2. StreamEnds'
    <3>1. \A i \in 1..Len(stream') : stream'[i].kind # "progress"
      BY <1>2, <2>1 DEF StreamEnds
    <3>2. ASSUME NEW i \in 1..Len(stream'), NEW j \in 1..Len(stream'), i < j, stream'[i].kind \in Fatal
          PROVE  stream'[j].kind = "turnCompleted"
      <4>1. i + 1 \in 1..Len(stream) /\ j + 1 \in 1..Len(stream) /\ i + 1 < j + 1
        BY <1>2, <3>2
      <4>. QED  BY <1>2, <2>1, <3>2, <4>1 DEF StreamEnds
    <3>. QED  BY <3>1, <3>2 DEF StreamEnds
  <2>3. OutcomeEnds'
    BY <1>0, <2>1 DEF OutcomeEnds, pageVars
  <2>4. ASSUME pc # "reread" PROVE TurnEnds'
    <3>1. ASSUME n.kind \in Fatal PROVE Ended'
      <4>1. \A i \in 1..Len(stream') : stream'[i].kind = "turnCompleted"
        <5>1. \A j \in 1..Len(stream) : 1 < j => stream[j].kind = "turnCompleted"
          BY <1>0, <1>2, <2>1, <3>1 DEF StreamEnds
        <5>. QED  BY <1>2, <5>1
      <4>2. turn'.status \in Terminal
        BY <1>0, <1>2, <3>1 DEF NewStatus, Fatal, Terminal, HostOK, StreamSound
      <4>. QED  BY <4>1, <4>2 DEF Ended
    <3>2. Ended => Ended'
      BY <1>0, <1>2, <3>1 DEF Ended, Fatal
    <3>3. turn'.status \in Terminal => Ended'
      <4>1. ASSUME n.kind \notin Fatal, turn'.status \in Terminal PROVE turn.status \in Terminal
        BY <1>0, <1>2, <4>1 DEF NewStatus, Fatal, Terminal, Notes, NoteKinds, HostOK, StreamSound
      <4>. QED  BY <2>1, <2>4, <3>1, <3>2, <4>1 DEF TurnEnds
    <3>4. Terminates(turn.events)' => Ended'
      BY <1>0, <2>1, <2>4, <3>2, <3>3 DEF Terminates, Grows, TurnEnds
    <3>5. Terminates(reply.events)' => Ended'
      BY <1>0, <2>1, <2>4, <3>2 DEF Terminates, TurnEnds, pageVars
    <3>. QED
      BY <1>0, <2>1, <2>4, <3>2, <3>3, <3>4, <3>5 DEF TurnEnds, pageVars, serverVars
  <2>. QED  BY <1>0, <2>2, <2>3, <2>4
<1>. QED  BY <1>4, <1>5, <1>6

-----------------------------------------------------------------------------
\* The page

\* A status that a page which goes on may have.
Fit(s) == s \in Terminal => ~connected \/ Ended

LEMMA LockReason ==
  ASSUME TypeOK, HostOK, PageOK, PlacesOK, CalmOK, EndHasReason, OtherHandles \/ CallHandles \/ Release
  PROVE  HostOK' /\ PageOK' /\ PlacesOK' /\ CalmOK' /\ EndHasReason'
<1>1. /\ UNCHANGED <<stream, serverVars, turn, text, past, readVars>>
      /\ UNCHANGED <<reply, pageText, pagePast, pageStatus, drains, outcome, cause>>
  BY DEF OtherHandles, CallHandles, Release, Acquire, pageVars
<1>2. lock \in {"none", "other"} \cup Calls
  BY DEF TypeOK, HostTyped
<1>3. pc' = pc \/ (lock \in Calls /\ pc = lock /\ pc' = Back(lock) /\ lock # "none")
  BY <1>2 DEF OtherHandles, CallHandles, Release, Acquire, pageVars, PlacesOK, Calls
<1>4. pc' = "done" <=> pc = "done"
  BY <1>3 DEF Back, Calls
<1>5. HostOK'
  BY <1>1 DEF HostOK, StreamSound, EventsSound, HostSound, serverVars
<1>6. PageOK'
  BY <1>1, <1>4 DEF PageOK, Sound, serverVars, readVars
<1>7. PlacesOK'
  <2>1. (lock' # "none" => connected') /\ (lock' \in Calls => pc' = lock')
    BY <1>1 DEF OtherHandles, CallHandles, Release, Acquire, pageVars, PlacesOK, Calls, serverVars
  <2>2. pc' \in Recovering => pc = pc'
    BY <1>3 DEF Back, Calls, Recovering
  <2>3. pc' \in Looping => pc \in Looping
    BY <1>3 DEF Back, Calls, Looping
  <2>. QED  BY <1>1, <2>1, <2>2, <2>3 DEF PlacesOK, readVars
<1>8. CalmOK'
  <2>. SUFFICES ASSUME Calm', pc # "done" PROVE StreamEnds' /\ (pc' # "reread" => TurnEnds') /\ OutcomeEnds'
    BY <1>4 DEF CalmOK
  <2>1. StreamEnds /\ (pc # "reread" => TurnEnds) /\ OutcomeEnds
    BY <1>1 DEF CalmOK, Calm, serverVars, readVars
  <2>2. StreamEnds'
    BY <1>1, <2>1 DEF StreamEnds
  <2>3. /\ pc' = "reread" <=> pc = "reread"
        /\ pc' = "late" <=> pc = "late"
        /\ pc' \in Following <=> pc \in Following
    BY <1>3 DEF Back, Calls, Following
  <2>4. OutcomeEnds'
    BY <1>1, <2>1, <2>3 DEF OutcomeEnds
  <2>5. Ended' <=> Ended
    BY <1>1 DEF Ended
  <2>6. ASSUME pc' = "drained", pc # "drained" PROVE Ended
    <3>1. pc = "drain" /\ connected
      BY <1>3, <2>6 DEF Back, Calls, PlacesOK
    <3>. QED  BY <2>1, <3>1 DEF TurnEnds, Following
  <2>7. pc # "reread" => TurnEnds'
    BY <1>1, <2>1, <2>3, <2>5, <2>6 DEF TurnEnds, Terminates, serverVars
  <2>. QED  BY <2>2, <2>3, <2>4, <2>7
<1>9. EndHasReason'
  BY <1>1, <1>4 DEF EndHasReason, serverVars, readVars
<1>. QED  BY <1>5, <1>6, <1>7, <1>8, <1>9

LEMMA TakeReason ==
  ASSUME TypeOK, HostOK, PageOK, PlacesOK, CalmOK, EndHasReason, TakeEvents \/ TakePayload \/ CallFails
  PROVE  HostOK' /\ PageOK' /\ PlacesOK' /\ CalmOK' /\ EndHasReason'
<1>0. \A i : i \notin 1..Len(<<>>)
  BY Empty
<1>1. /\ UNCHANGED <<stream, serverVars, lock, readVars, pageStatus, outcome, cause>>
      /\ turn'.known = turn.known /\ turn'.status = turn.status
      /\ turn'.events = turn.events \/ turn'.events = <<>>
      /\ reply'.events = turn.events \/ reply'.events = <<>>
      /\ turn.status \in Statuses \cup {""}
  BY PayloadTypes, NothingType DEF TakeEvents, TakePayload, CallFails, nativeVars, TypeOK, HostTyped, Turns
<1>2. \/ pc = "taking" /\ pc' = "batch" /\ reply'.status = ""
      \/ pc = "polled" /\ pc' = "snapshot" /\ (reply'.status = turn.status \/ reply'.status = "inProgress")
      \/ pc = "drained" /\ pc' = "late" /\ (reply'.status = turn.status \/ (reply'.status = "inProgress" /\ turn.status = ""))
      \/ pc = "events" /\ pc' = "batch" /\ reply'.status = "" /\ ~connected
      \/ pc = "poll" /\ pc' = "snapshot" /\ reply'.status = "failed" /\ ~connected
      \/ pc = "drain" /\ pc' = "late" /\ reply'.status = "failed" /\ ~connected
  <2>1. Answer(PollPayload).status = IF turn.status = "" THEN "inProgress" ELSE turn.status
    BY NothingType DEF Answer, PollPayload, Replies
  <2>2. Nothing.status = "" /\ [Nothing EXCEPT !.events = turn.events].status = ""
          /\ [Nothing EXCEPT !.status = "failed"].status = "failed"
    BY DEF Nothing
  <2>. QED  BY <2>1, <2>2 DEF TakeEvents, TakePayload, CallFails
<1>3. HostOK'
  BY <1>0, <1>1 DEF HostOK, StreamSound, EventsSound, HostSound, serverVars
<1>4. PageOK'
  BY <1>1, <1>2 DEF PageOK, HostOK, Sound, HostSound, serverVars, readVars, Terminal
<1>5. PlacesOK'
  BY <1>1, <1>2 DEF PlacesOK, Looping, Recovering, Calls, readVars, serverVars
<1>6. CalmOK'
  <2>. SUFFICES ASSUME Calm', pc # "done" PROVE StreamEnds' /\ TurnEnds' /\ OutcomeEnds'
    BY <1>2 DEF CalmOK
  <2>1. StreamEnds /\ TurnEnds /\ OutcomeEnds
    BY <1>1, <1>2 DEF CalmOK, Calm, serverVars, readVars
  <2>2. StreamEnds'
    BY <1>1, <2>1 DEF StreamEnds
  <2>3. Ended' <=> Ended
    BY <1>1 DEF Ended
  <2>4. OutcomeEnds'
    BY <1>1, <1>2, <2>1 DEF OutcomeEnds, TurnEnds, Ended, Following, Terminal
  <2>5. TurnEnds'
    <3>1. Terminates(turn.events)' \/ Terminates(reply.events)' => Ended
      BY <1>0, <1>1, <2>1 DEF TurnEnds, Terminates
    <3>2. reply'.status \in Terminal => ~connected \/ Ended
      BY <1>2, <2>1 DEF TurnEnds, Terminal
    <3>3. pc' \in Following => pc \in Following
      BY <1>2 DEF Following
    <3>. QED  BY <1>1, <1>2, <2>1, <2>3, <3>1, <3>2, <3>3 DEF TurnEnds, serverVars
  <2>. QED  BY <2>2, <2>4, <2>5
<1>7. EndHasReason'
  BY <1>2 DEF EndHasReason
<1>. QED  BY <1>3, <1>4, <1>5, <1>6, <1>7

LEMMA ReadsReason ==
  ASSUME TypeOK, HostOK, PageOK, PlacesOK, CalmOK, EndHasReason, PageReads \/ ReaderReads
  PROVE  HostOK' /\ PageOK' /\ PlacesOK' /\ CalmOK' /\ EndHasReason'
<1>0. \A i : i \notin 1..Len(<<>>)
  BY Empty
<1>1. /\ UNCHANGED <<stream, serverVars, lock, reads, pageStatus, outcome, cause>>
      /\ turn' = Pruned /\ (turn' = turn \/ turn' = Unknown)
  BY DEF PageReads, ReaderReads, ReadThread, pageVars, readVars, Pruned
<1>2. Answer(ReadPayload).status = IF Pruned.known THEN "inProgress" ELSE ended
  BY NothingType DEF Answer, ReadPayload, Replies
<1>3. HostOK'
  <2>1. HostSound(turn.status)' /\ EventsSound(turn.events)'
    BY <1>0, <1>1, UnknownType DEF HostOK, EventsSound, HostSound, serverVars, Terminal
  <2>2. reply' = reply \/ reply'.events = <<>>
    BY PayloadTypes DEF PageReads, ReaderReads, pageVars
  <2>3. EventsSound(reply.events)'
    BY <1>0, <1>1, <2>2 DEF HostOK, EventsSound, HostSound, serverVars
  <2>4. StreamSound'
    BY <1>1 DEF HostOK, StreamSound, HostSound, serverVars
  <2>. QED  BY <2>1, <2>3, <2>4 DEF HostOK
<1>4. PageOK'
  <2>1. reply' = reply \/ reply'.status = "inProgress" \/ reply'.status = ended
    BY <1>2 DEF PageReads, ReaderReads, pageVars
  <2>2. found' = found \/ found'.status = "inProgress" \/ found'.status = ended
    BY <1>2 DEF PageReads, ReaderReads, readVars
  <2>3. pc' # "done" => pc # "done"
    BY DEF PageReads, ReaderReads, pageVars
  <2>. QED  BY <1>1, <2>1, <2>2, <2>3 DEF PageOK, Sound, serverVars, Terminal
<1>5. PlacesOK'
  BY <1>1 DEF PlacesOK, Looping, Recovering, Calls, PageReads, ReaderReads, pageVars, readVars, serverVars
<1>6. CalmOK'
  <2>. SUFFICES ASSUME Calm', pc' # "done" PROVE StreamEnds' /\ (pc' # "reread" => TurnEnds') /\ OutcomeEnds'
    BY DEF CalmOK
  <2>1. Calm
    BY <1>1 DEF Calm, serverVars
  <2>2. pc = "history" /\ PageReads /\ connected /\ pc' = "reread"
    BY <1>1, <2>1 DEF PageReads, ReaderReads, PlacesOK, Recovering, Calm, TypeOK, PageTyped
  <2>3. StreamEnds /\ TurnEnds /\ OutcomeEnds
    BY <2>1, <2>2 DEF CalmOK
  <2>4. Ended
    BY <2>2, <2>3 DEF TurnEnds, Following
  <2>5. ended \in Terminal
    BY <2>1, <2>4 DEF Ended, HostOK, HostSound, Calm
  <2>6. reply'.status = ended
    BY <1>2, <2>2, <2>3, <2>4, UnknownType DEF PageReads, Pruned, Ended, TurnEnds
  <2>7. StreamEnds'
    BY <1>1, <2>3 DEF StreamEnds
  <2>8. OutcomeEnds'
    BY <1>1, <2>2, <2>3, <2>5, <2>6 DEF OutcomeEnds, Following
  <2>. QED  BY <2>2, <2>7, <2>8
<1>7. EndHasReason'
  BY <1>1 DEF EndHasReason, PageReads, ReaderReads, pageVars, serverVars
<1>. QED  BY <1>3, <1>4, <1>5, <1>6, <1>7

\* The status of what a batch leaves is the page's or that of an event, and both are fit.
LEMMA BatchFits ==
  ASSUME TypeOK, HostOK, PageOK, CalmOK, pc = "batch"
  PROVE  LET s == BatchApplied(Page, reply.events).status
         IN  s \in Statuses /\ Sound(s) /\ (Calm => Fit(s))
<1>. DEFINE S == {s \in Statuses : Sound(s) /\ (Calm => Fit(s))}
<1>1. Calm => TurnEnds
  BY DEF CalmOK
<1>2. pageStatus \in S
  BY <1>1 DEF TypeOK, PageTyped, PageOK, TurnEnds, Fit
<1>3. \A i \in 1..Len(reply.events) : reply.events[i].kind = "status" => reply.events[i].status \in S
  BY <1>1 DEF TypeOK, AnswersTyped, HostOK, EventsSound, HostSound, Sound, TurnEnds, Terminates, Fit
<1>4. S \subseteq Statuses
  OBVIOUS
<1>5. BatchApplied(Page, reply.events) \in Pages(S)
  <2>. HIDE DEF S
  <2>. QED  BY <1>2, <1>3, <1>4, ShownTypes
<1>6. BatchApplied(Page, reply.events).status \in S
  <2>. HIDE DEF S
  <2>. QED  BY <1>5 DEF Pages
<1>. QED  BY <1>6

LEMMA FollowReason ==
  ASSUME TypeOK, HostOK, PageOK, PlacesOK, CalmOK, ApplyBatch \/ ApplySnapshot
  PROVE  HostOK' /\ PageOK' /\ PlacesOK' /\ CalmOK' /\ EndHasReason'
<1>0. \A i : i \notin 1..Len(<<>>)
  BY Empty
<1>1. /\ UNCHANGED <<stream, serverVars, nativeVars, readVars, cause>> /\ reply' = Nothing
      /\ pc \in {"batch", "snapshot"}
  BY DEF ApplyBatch, ApplySnapshot, Quiet
<1>2. reply'.status = "" /\ reply'.events = <<>>
  BY <1>1 DEF Nothing
<1>3. /\ pageStatus' \in Statuses /\ Sound(pageStatus') /\ (Calm => Fit(pageStatus'))
      /\ \/ pc' \in Looping /\ outcome' = outcome
         \/ pc' = "final" /\ outcome' = pageStatus' /\ outcome' \in Terminal
  <2>1. CASE ApplyBatch
    <3>1. PICK s : s = BatchApplied(Page, reply.events).status
      OBVIOUS
    <3>2. s \in Statuses /\ Sound(s) /\ (Calm => Fit(s))
      BY <2>1, <3>1, BatchFits DEF ApplyBatch
    <3>3. pageStatus' = s
      BY <2>1, <3>1 DEF ApplyBatch, Show
    <3>. QED  BY <2>1, <3>1, <3>2, <3>3 DEF ApplyBatch, Follow, Looping, Statuses
  <2>2. CASE ApplySnapshot
    <3>1. pageStatus' = reply.status
      BY <2>2 DEF ApplySnapshot, Show, PollApplied
    <3>2. reply.status \in Statuses /\ Sound(reply.status)
      BY <2>2 DEF ApplySnapshot, TypeOK, AnswersTyped, PageOK
    <3>3. Calm => Fit(reply.status)
      BY <2>2 DEF ApplySnapshot, CalmOK, TurnEnds, Fit
    <3>. QED  BY <2>2, <3>1, <3>2, <3>3 DEF ApplySnapshot, Follow, Looping, Statuses
  <2>. QED  BY <2>1, <2>2
<1>4. HostOK'
  BY <1>0, <1>1, <1>2 DEF HostOK, StreamSound, EventsSound, HostSound, serverVars, nativeVars
<1>5. PageOK'
  BY <1>1, <1>2, <1>3 DEF PageOK, Sound, serverVars, readVars, Terminal
<1>6. PlacesOK'
  BY <1>1, <1>3 DEF PlacesOK, Looping, Recovering, Calls, serverVars, nativeVars, readVars
<1>7. CalmOK'
  <2>. SUFFICES ASSUME Calm' PROVE StreamEnds' /\ TurnEnds' /\ OutcomeEnds'
    BY DEF CalmOK
  <2>0. Calm
    BY <1>1 DEF Calm, serverVars, readVars
  <2>1. StreamEnds /\ TurnEnds /\ OutcomeEnds
    BY <1>1, <2>0 DEF CalmOK
  <2>2. StreamEnds' /\ (Ended' <=> Ended)
    BY <1>1, <2>1 DEF StreamEnds, Ended, nativeVars
  <2>3. OutcomeEnds'
    BY <1>3 DEF OutcomeEnds, Following, Looping
  <2>4. Terminates(turn.events)' => Ended
    BY <1>1, <2>1 DEF TurnEnds, Terminates, nativeVars
  <2>5. ~Terminates(reply.events)'
    BY <1>0, <1>2 DEF Terminates
  <2>6. pageStatus' \in Terminal \/ pc' \in Following => ~connected \/ Ended
    BY <1>3, <2>0 DEF Fit, Following, Looping
  <2>7. pc' # "drained" /\ reply'.status \notin Terminal
    BY <1>2, <1>3 DEF Looping, Terminal
  <2>. QED  BY <1>1, <2>1, <2>2, <2>3, <2>4, <2>5, <2>6, <2>7 DEF TurnEnds, serverVars, nativeVars
<1>8. EndHasReason'
  BY <1>3 DEF EndHasReason, Looping
<1>. QED  BY <1>4, <1>5, <1>6, <1>7, <1>8

\* A page that ends has the reason it names, or was told nothing that ends it while the turn
\* was set back.
LEMMA Reason ==
  ASSUME TypeOK, NEW s \in Statuses, Sound(s), Calm => s \in Terminal
  PROVE  \/ s = ended
         \/ s = "failed" /\ (~connected \/ errors > 0)
         \/ s = "inProgress" /\ (errors > 0 \/ progress > 0 \/ reads > 0 \/ cause = "native")
  BY DEF Sound, Calm, Statuses, TypeOK, HostTyped, PageTyped

LEMMA LastReason ==
  ASSUME TypeOK, HostOK, PageOK, PlacesOK, CalmOK, ApplyRecovered \/ ApplyLate \/ ApplyReread
  PROVE  HostOK' /\ PageOK' /\ PlacesOK' /\ CalmOK' /\ EndHasReason'
<1>0. \A i : i \notin 1..Len(<<>>)
  BY Empty
<1>1. /\ UNCHANGED <<stream, serverVars, nativeVars, readVars, cause>> /\ reply' = Nothing
      /\ pc \in {"recovered", "late", "reread"}
  BY DEF ApplyRecovered, ApplyLate, ApplyReread, Quiet
<1>2. reply'.status = "" /\ reply'.events = <<>>
  BY <1>1 DEF Nothing
<1>3. reply.status \in Statuses /\ Sound(reply.status)
  BY <1>1 DEF TypeOK, AnswersTyped, PageOK
<1>4. \/ pc = "recovered" /\ pc' = "done" /\ outcome' = "failed"
      \/ pc = "recovered" /\ pc' = "final" /\ outcome' = reply.status /\ pageStatus' = reply.status
      \/ pc = "late" /\ pc' = "final" /\ outcome' = reply.status /\ pageStatus' = reply.status
      \/ pc = "reread" /\ pc' = "done" /\ outcome' = reply.status
  BY <1>3 DEF ApplyRecovered, ApplyLate, ApplyReread, Show, PollApplied, ReadApplied, Finish, Statuses, Terminal
<1>5. HostOK'
  BY <1>0, <1>1, <1>2 DEF HostOK, StreamSound, EventsSound, HostSound, serverVars, nativeVars
<1>6. PageOK'
  BY <1>1, <1>2, <1>3, <1>4 DEF PageOK, Sound, serverVars, readVars, Terminal
<1>7. PlacesOK'
  BY <1>1, <1>4 DEF PlacesOK, Looping, Recovering, Calls, serverVars, nativeVars, readVars
<1>8. CalmOK'
  <2>. SUFFICES ASSUME Calm', pc' # "done" PROVE StreamEnds' /\ TurnEnds' /\ OutcomeEnds'
    BY DEF CalmOK
  <2>0. Calm
    BY <1>1 DEF Calm, serverVars, readVars
  <2>1. pc = "late" /\ pc' = "final" /\ outcome' = reply.status /\ pageStatus' = reply.status
    BY <1>4, <2>0 DEF Calm, PlacesOK, Recovering
  <2>2. StreamEnds /\ TurnEnds /\ OutcomeEnds
    BY <2>0, <2>1 DEF CalmOK
  <2>3. StreamEnds' /\ (Ended' <=> Ended)
    BY <1>1, <2>2 DEF StreamEnds, Ended, nativeVars
  <2>4. ~Terminates(reply.events)' /\ reply'.status \notin Terminal
    BY <1>0, <1>2 DEF Terminates, Terminal
  <2>5. OutcomeEnds'
    BY <2>1, <2>2 DEF OutcomeEnds
  <2>6. ~connected \/ Ended
    BY <2>1, <2>2 DEF TurnEnds, Following
  <2>7. Terminates(turn.events)' => Ended
    BY <1>1, <2>2 DEF TurnEnds, Terminates, nativeVars
  <2>. QED  BY <1>1, <2>1, <2>2, <2>3, <2>4, <2>5, <2>6, <2>7 DEF TurnEnds, serverVars, nativeVars
<1>9. EndHasReason'
  <2>1. CASE pc = "recovered"
    BY <1>1, <1>4, <2>1 DEF EndHasReason, PlacesOK, Recovering
  <2>2. CASE pc = "reread"
    <3>1. Calm => reply.status \in Terminal
      BY <2>2 DEF CalmOK, OutcomeEnds
    <3>2. PICK s : s = reply.status
      OBVIOUS
    <3>3. \/ s = ended
          \/ s = "failed" /\ (~connected \/ errors > 0)
          \/ s = "inProgress" /\ (errors > 0 \/ progress > 0 \/ reads > 0 \/ cause = "native")
      BY <1>3, <3>1, <3>2, Reason
    <3>. QED  BY <1>1, <1>4, <2>2, <3>2, <3>3 DEF EndHasReason, serverVars, readVars
  <2>3. CASE pc = "late"
    BY <1>4, <2>3 DEF EndHasReason
  <2>. QED  BY <1>1, <2>1, <2>2, <2>3
<1>. QED  BY <1>5, <1>6, <1>7, <1>8, <1>9

LEMMA LoopReason ==
  ASSUME TypeOK, HostOK, PageOK, PlacesOK, CalmOK,
         \/ AskEvents \/ Interrupted \/ Deadline \/ PollLost \/ PageReadFails
         \/ DrainLate \/ RecoverDiff \/ Finalize
  PROVE  HostOK' /\ PageOK' /\ PlacesOK' /\ CalmOK' /\ EndHasReason'
<1>1. UNCHANGED <<stream, serverVars, nativeVars, readVars, reply>>
  BY DEF AskEvents, Interrupted, Deadline, PollLost, PageReadFails, DrainLate, RecoverDiff, Finalize, Quiet
<1>2. \/ pc = "top" /\ pc' = "events" /\ UNCHANGED <<pageStatus, outcome, cause>>
      \/ pc = "top" /\ pc' = "done" /\ outcome' = "interrupted" /\ cause' = "stop"
      \/ pc = "top" /\ pc' = "done" /\ outcome' = "failed" /\ cause' = "deadline"
      \/ pc = "poll" /\ lock # "poll" /\ pc' = "recover" /\ cause' = "native" /\ UNCHANGED <<pageStatus, outcome>>
      \/ pc = "recover" /\ pc' = "done" /\ outcome' = "failed" /\ cause' = cause
      \/ pc = "history" /\ pc' = "done" /\ outcome' = outcome /\ cause' = cause
      \/ pc = "final" /\ pc' \in {"drain", "history"} /\ UNCHANGED <<pageStatus, outcome, cause>>
      \/ pc = "final" /\ pc' = "done" /\ outcome' = outcome /\ cause' = cause
  BY DEF AskEvents, Interrupted, Deadline, PollLost, PageReadFails, DrainLate, RecoverDiff, Finalize, Finish
<1>3. HostOK'
  BY <1>1 DEF HostOK, StreamSound, EventsSound, HostSound, serverVars, nativeVars
<1>4. PageOK'
  BY <1>1, <1>2 DEF PageOK, Sound, serverVars, readVars
<1>5. PlacesOK'
  BY <1>1, <1>2 DEF PlacesOK, Looping, Recovering, Calls, serverVars, nativeVars, readVars
<1>6. CalmOK'
  <2>. SUFFICES ASSUME Calm', pc' # "done" PROVE StreamEnds' /\ TurnEnds' /\ OutcomeEnds'
    BY DEF CalmOK
  <2>1. /\ \/ pc = "top" /\ pc' = "events"
           \/ pc = "final" /\ pc' \in {"drain", "history"}
        /\ UNCHANGED <<pageStatus, outcome, cause>>
    BY <1>2 DEF Calm
  <2>2. StreamEnds /\ TurnEnds /\ OutcomeEnds
    BY <1>1, <2>1 DEF CalmOK, Calm, serverVars, readVars
  <2>3. StreamEnds' /\ (Ended' <=> Ended)
    BY <1>1, <2>2 DEF StreamEnds, Ended, nativeVars
  <2>4. OutcomeEnds'
    BY <2>1, <2>2 DEF OutcomeEnds, Following
  <2>5. TurnEnds'
    BY <1>1, <2>1, <2>2, <2>3 DEF TurnEnds, Terminates, Following, serverVars, nativeVars
  <2>. QED  BY <2>3, <2>4, <2>5
<1>7. EndHasReason'
  <2>1. SUFFICES ASSUME pc' = "done" PROVE EndHasReason'
    BY DEF EndHasReason
  <2>2. CASE pc \in {"top", "recover"}
    BY <1>2, <2>1, <2>2 DEF EndHasReason, PlacesOK, Recovering
  <2>3. CASE pc \in {"history", "final"}
    <3>1. outcome \in Statuses /\ Sound(outcome) /\ (Calm => outcome \in Terminal)
      BY <2>3 DEF TypeOK, PageTyped, PageOK, CalmOK, OutcomeEnds, Following
    <3>2. PICK s : s = outcome
      OBVIOUS
    <3>3. \/ s = ended
          \/ s = "failed" /\ (~connected \/ errors > 0)
          \/ s = "inProgress" /\ (errors > 0 \/ progress > 0 \/ reads > 0 \/ cause = "native")
      BY <3>1, <3>2, Reason
    <3>4. outcome' = s /\ cause' = cause
      BY <1>2, <2>1, <2>3, <3>2
    <3>. QED  BY <1>1, <3>3, <3>4 DEF EndHasReason, serverVars, readVars
  <2>. QED  BY <1>2, <2>1, <2>2, <2>3
<1>. QED  BY <1>3, <1>4, <1>5, <1>6, <1>7

LEMMA ReaderReason ==
  ASSUME TypeOK, HostOK, PageOK, PlacesOK, CalmOK, EndHasReason, ComeBack \/ ReaderFails \/ ReaderApplies
  PROVE  HostOK' /\ PageOK' /\ PlacesOK' /\ CalmOK' /\ EndHasReason'
<1>1. UNCHANGED <<stream, serverVars, nativeVars, reply, pc, outcome, cause>>
  BY DEF ComeBack, ReaderFails, ReaderApplies, pageVars
<1>2. reads' \in Nat /\ reads' > 0 /\ reads' >= reads
  BY DEF ComeBack, ReaderFails, ReaderApplies, PlacesOK, TypeOK, PageTyped
<1>3. HostOK'
  BY <1>1 DEF HostOK, StreamSound, EventsSound, HostSound, serverVars, nativeVars
<1>4. PageOK'
  <2>1. (found' = found \/ found'.status = "") /\ (pageStatus' = pageStatus \/ pageStatus' = found.status)
    <3>1. CASE ComeBack \/ ReaderFails
      BY <3>1 DEF ComeBack, ReaderFails, pageVars
    <3>2. CASE ReaderApplies
      <4>1. Nothing.status = "" /\ ReadApplied(found).status = found.status
        BY DEF Nothing, ReadApplied
      <4>. QED  BY <3>2, <4>1 DEF ReaderApplies, Show
    <3>. QED  BY <3>1, <3>2
  <2>. QED  BY <1>1, <2>1 DEF PageOK, Sound, serverVars, Terminal
<1>5. PlacesOK'
  BY <1>1, <1>2 DEF PlacesOK, serverVars, nativeVars
<1>6. CalmOK'
  BY <1>2 DEF CalmOK, Calm
<1>7. EndHasReason'
  BY <1>1, <1>2 DEF EndHasReason, serverVars, TypeOK, PageTyped
<1>. QED  BY <1>3, <1>4, <1>5, <1>6, <1>7

ReasonOK == HostOK /\ PageOK /\ PlacesOK /\ CalmOK /\ EndHasReason

LEMMA ReasonStep == TypeOK /\ ReasonOK /\ [Next]_vars => ReasonOK'
<1>. SUFFICES ASSUME TypeOK, HostOK, PageOK, PlacesOK, CalmOK, EndHasReason, [Next]_vars
              PROVE  HostOK' /\ PageOK' /\ PlacesOK' /\ CalmOK' /\ EndHasReason'
  BY DEF ReasonOK
<1>1. CASE UNCHANGED vars
  BY <1>1 DEF vars, pageVars, readVars, serverVars, nativeVars, HostOK, StreamSound, EventsSound, HostSound,
              PageOK, Sound, PlacesOK, CalmOK, Calm, StreamEnds, TurnEnds, OutcomeEnds, Ended, Terminates, EndHasReason
<1>2. CASE Server /\ pc # "done" /\ UNCHANGED <<pageVars, readVars>>
  <2>1. EndHasReason'
    BY <1>2 DEF EndHasReason, pageVars
  <2>. QED  BY <1>2, <2>1, ServerHost, ServerPage, ServerCalm
<1>3. CASE HandleOne
  <2>1. EndHasReason'
    BY <1>3 DEF EndHasReason, HandleOne, pageVars
  <2>. QED  BY <1>3, <2>1, HandlerReason
<1>4. CASE OtherHandles \/ CallHandles \/ Release
  BY <1>4, LockReason
<1>5. CASE TakeEvents \/ TakePayload \/ CallFails
  BY <1>5, TakeReason
<1>6. CASE PageReads \/ ReaderReads
  BY <1>6, ReadsReason
<1>7. CASE ApplyBatch \/ ApplySnapshot
  BY <1>7, FollowReason
<1>8. CASE ApplyRecovered \/ ApplyLate \/ ApplyReread
  BY <1>8, LastReason
<1>9. CASE \/ AskEvents \/ Interrupted \/ Deadline \/ PollLost \/ PageReadFails
           \/ DrainLate \/ RecoverDiff \/ Finalize
  BY <1>9, LoopReason
<1>10. CASE ComeBack \/ ReaderFails \/ ReaderApplies
  BY <1>10, ReaderReason
<1>. QED
  BY <1>1, <1>2, <1>3, <1>4, <1>5, <1>6, <1>7, <1>8, <1>9, <1>10 DEF Next, Native, Loop, Reader

\* The page reports an end only for the reason it names, however the notifications, polls, reads
\* and breaks of a turn interleave: the status at the server, the user's stop, the deadline, a
\* failed call or connection, or one of the ways a turn is known to be set back.
THEOREM EndsHaveReasons == Spec => []EndHasReason
<1>1. Init => TypeOK /\ ReasonOK
  BY InitTyped, InitReason DEF ReasonOK
<1>2. TypeOK /\ ReasonOK /\ [Next]_vars => (TypeOK /\ ReasonOK)'
  BY TypeStep, ReasonStep
<1>3. TypeOK /\ ReasonOK => EndHasReason
  BY DEF ReasonOK
<1>. QED  BY <1>1, <1>2, <1>3, PTL DEF Spec

-----------------------------------------------------------------------------
(* A completed turn is shown *)

\* What is left of the answer's notifications: the item comes after its deltas, the turn's end
\* after both, and behind the end only late reports.
Given(n) == n.kind \in {"delta", "itemCompleted"}
ItemIn(q) == \E i \in 1..Len(q) : q[i].kind = "itemCompleted"
NoneGiven(q) == \A i \in 1..Len(q) : ~Given(q[i])
OnlyReports(q) == \A i \in 1..Len(q) : q[i].kind = "progress"
Ordered(q) == \A i \in 1..Len(q) :
  /\ q[i].kind = "itemCompleted" => q[i].text = Whole /\ \A j \in i + 1..Len(q) : ~Given(q[j])
  /\ q[i].kind = "turnCompleted" => \A j \in i + 1..Len(q) : q[j].kind = "progress"

Completed(e) == e.kind = "status" /\ e.status = "completed"
Incomplete(events) == \A i \in 1..Len(events) : ~Completed(events[i])
Full(text_, past_) == text_ = Whole \/ past_

OrderOK ==
  /\ Ordered(stream) /\ (ItemIn(stream) => itemDone)
  /\ itemDone => said = MaxChunks
  /\ ended = "completed" => itemDone
  /\ itemDone /\ connected => ItemIn(stream) \/ (NoneGiven(stream) /\ Full(text, past))
  /\ turn.status = "completed" => itemDone /\ Full(text, past)
  /\ ~Incomplete(turn.events) => OnlyReports(stream) /\ ended # "inProgress" /\ itemDone

\* A completed status in a list of events is followed by the whole answer, and then by nothing
\* that changes the page's text.
Concludes(events) ==
  \A i \in 1..Len(events) : Completed(events[i]) =>
    /\ i + 1 \in 1..Len(events) /\ events[i + 1].kind = "snapshot"
    /\ Full(events[i + 1].text, events[i + 1].past)
    /\ \A j \in i + 2..Len(events) : events[j].kind = "status"

Shown(page) == page.past \/ InOrder(Whole, page.text) \/ Repeats(page.text)

ShownOK ==
  /\ Concludes(turn.events) /\ Concludes(reply.events)
  /\ reply.status = "completed" => Full(reply.text, reply.past)
  /\ found.status = "completed" => found.past
  /\ pc \in Looping /\ pageStatus = "completed" => pagePast
  /\ pc = "final" /\ outcome = "completed" => Shown(Page)

\* While no history is read: once the item is handled, the page has or will be given the
\* answer, and nothing else after it.
Keeps(e) == e.kind = "status" \/ (e.kind = "snapshot" /\ e.text = Whole)
KeepsFrom(events, i) == \A j \in i..Len(events) : Keeps(events[j])
Brings(events) == \E i \in 1..Len(events) :
  events[i].kind = "replaced" /\ events[i].text = Whole /\ KeepsFrom(events, i + 1)

Exact ==
  \/ Brings(turn.events) /\ Incomplete(reply.events)
  \/ Brings(reply.events) /\ KeepsFrom(turn.events, 1)
  \/ /\ pageText = Whole /\ KeepsFrom(reply.events, 1) /\ KeepsFrom(turn.events, 1)
     /\ pc = "snapshot" => reply.text \in {Whole, <<>>}

ExactOK ==
  reads = 0 /\ pc \in Looping =>
    /\ pageStatus # "completed"
    /\ reply.events # <<>> => pc = "batch"
    /\ ~Incomplete(reply.events) => itemDone
    /\ itemDone => \/ (ItemIn(stream) \/ ~connected) /\ Incomplete(turn.events) /\ Incomplete(reply.events)
                   \/ NoneGiven(stream) /\ text = Whole /\ Exact

LEMMA WholeIs == Whole \in Texts /\ Len(Whole) = MaxChunks /\ \A i \in 1..MaxChunks : Whole[i] = i
  BY BoundsAssumption, WholeType DEF Whole

LEMMA WholeEnds ==
  ASSUME NEW m \in 0..MaxChunks
  PROVE  /\ Last(Whole, m) \in Seq(1..MaxChunks) /\ Len(Last(Whole, m)) = m
         /\ \A j \in 1..m : Last(Whole, m)[j] = MaxChunks - m + j
<1>1. Whole \in Seq(1..MaxChunks) /\ Len(Whole) = MaxChunks /\ MaxChunks \in Nat
  BY WholeIs, BoundsAssumption DEF Texts
<1>2. /\ Last(Whole, m) \in Seq(1..MaxChunks) /\ Len(Last(Whole, m)) = m
      /\ \A j \in 1..m : Last(Whole, m)[j] = Whole[Len(Whole) - m + j]
  BY <1>1, LastIs
<1>3. \A j \in 1..m : MaxChunks - m + j \in 1..MaxChunks
  BY <1>1
<1>. QED  BY <1>1, <1>2, <1>3, WholeIs

\* A text that has another in one piece shows it.
LEMMA PieceInOrder ==
  ASSUME NEW a \in Texts, NEW t \in Texts, NEW d \in Nat, d + Len(a) <= Len(t),
         \A i \in 1..Len(a) : t[d + i] = a[i]
  PROVE  InOrder(a, t)
<1>. DEFINE at == [i \in 1..Len(a) |-> d + i]
<1>1. Len(t) \in Nat /\ Len(a) \in Nat
  BY DEF Texts
<1>2. at \in [1..Len(a) -> 1..Len(t)]
  BY <1>1
<1>3. \A i \in 1..Len(a) : t[at[i]] = a[i]
  OBVIOUS
<1>4. \A i, j \in 1..Len(a) : i < j => at[i] < at[j]
  BY <1>1
<1>. QED  BY <1>2, <1>3, <1>4 DEF InOrder

LEMMA PieceShows ==
  ASSUME NEW t \in Texts, NEW d \in Nat, d + MaxChunks <= Len(t), \A i \in 1..MaxChunks : t[d + i] = i
  PROVE  InOrder(Whole, t)
  BY WholeIs, PieceInOrder

\* A text that is longer than the answer repeats some of it.
LEMMA LongRepeats ==
  ASSUME NEW t \in Texts, Len(t) > MaxChunks
  PROVE  Repeats(t)
<1>1. t \in [1..Len(t) -> 1..MaxChunks] /\ Len(t) \in Nat /\ MaxChunks \in Nat
  BY BoundsAssumption DEF Texts
<1>2. /\ IsFiniteSet(1..Len(t)) /\ Cardinality(1..Len(t)) = Len(t)
      /\ IsFiniteSet(1..MaxChunks) /\ Cardinality(1..MaxChunks) = MaxChunks
  BY <1>1, FS_Interval, BoundsAssumption, SMTT(30)
<1>3. \E x, y \in 1..Len(t) : x # y /\ t[x] = t[y]
  BY <1>1, <1>2, FS_PigeonHole
<1>. QED  BY <1>3 DEF Repeats

\* Merging the whole answer into any text shows it, or leaves a text that repeats some of it.
LEMMA MergedShows ==
  ASSUME NEW s \in Texts
  PROVE  InOrder(Whole, Merged(s, Whole)) \/ Repeats(Merged(s, Whole))
<1>. DEFINE t == Merged(s, Whole)  k == Overlap(s, Whole)
<1>0. /\ s \in Seq(1..MaxChunks) /\ Whole \in Seq(1..MaxChunks) /\ Len(s) \in Nat
      /\ MaxChunks \in Nat /\ t \in Texts /\ InOrder(Whole, Whole)
  <2>1. InOrder(Whole, Whole)
    <3>1. \A i \in 1..MaxChunks : Whole[0 + i] = i
      BY WholeIs, BoundsAssumption
    <3>2. 0 \in Nat /\ 0 + MaxChunks <= Len(Whole)
      BY WholeIs, BoundsAssumption
    <3>. QED  BY <3>1, <3>2, WholeIs, PieceShows
  <2>. QED  BY <2>1, WholeIs, MergedType, BoundsAssumption DEF Texts
<1>1. CASE StartsWith(Whole, s)
  BY <1>0, <1>1 DEF Merged
<1>2. CASE ~StartsWith(Whole, s) /\ Holds(s, Whole)
  <2>1. PICK i \in 0..Len(s) : StartsWith(Last(s, i), Whole)
    BY <1>2 DEF Holds
  <2>2. t = s
    BY <1>2 DEF Merged
  <2>3. /\ Last(s, i) \in Seq(1..MaxChunks) /\ Len(Last(s, i)) = i
        /\ \A j \in 1..i : Last(s, i)[j] = s[Len(s) - i + j]
    BY <1>0, LastIs
  <2>4. MaxChunks <= i /\ First(Last(s, i), MaxChunks) = Whole
    BY <2>1, <2>3, WholeIs DEF StartsWith
  <2>5. \A j \in 1..MaxChunks : First(Last(s, i), MaxChunks)[j] = Last(s, i)[j]
    <3>1. MaxChunks \in 0..Len(Last(s, i))
      BY <1>0, <2>3, <2>4
    <3>. HIDE DEF t
    <3>. QED  BY <2>3, <3>1, FirstIs
  <2>6. \A j \in 1..MaxChunks : s[(Len(s) - i) + j] = j
    BY <1>0, <2>3, <2>4, <2>5, WholeIs, SMTT(30)
  <2>7. Len(s) - i \in Nat /\ (Len(s) - i) + MaxChunks <= Len(s)
    BY <1>0, <2>4
  <2>8. InOrder(Whole, s)
    BY <2>6, <2>7, PieceShows
  <2>. QED  BY <2>2, <2>8
<1>3. CASE ~StartsWith(Whole, s) /\ ~Holds(s, Whole) /\ k > 0
  <2>1. /\ k \in 0..MaxChunks /\ k <= Len(s) /\ Last(s, k) = First(Whole, k)
    BY <1>0, OverlapType, WholeIs
  <2>2. t = s \o Last(Whole, MaxChunks - k)
    BY <1>3, WholeIs DEF Merged
  <2>. DEFINE r == Last(Whole, MaxChunks - k)
  <2>3. /\ r \in Seq(1..MaxChunks) /\ Len(r) = MaxChunks - k
        /\ \A j \in 1..MaxChunks - k : r[j] = k + j
    <3>1. MaxChunks - k \in 0..MaxChunks
      BY <1>0, <2>1
    <3>. HIDE DEF k, t
    <3>2. /\ r \in Seq(1..MaxChunks) /\ Len(r) = MaxChunks - k
          /\ \A j \in 1..MaxChunks - k : r[j] = MaxChunks - (MaxChunks - k) + j
      BY <3>1, WholeEnds
    <3>3. \A j \in 1..MaxChunks - k : MaxChunks - (MaxChunks - k) + j = k + j
      BY <1>0, <2>1
    <3>. QED  BY <3>2, <3>3
  <2>4. \A j \in 1..k : s[(Len(s) - k) + j] = j
    <3>1. k \in 0..Len(s) /\ k \in 0..Len(Whole)
      BY <1>0, <2>1, WholeIs
    <3>2. \A j \in 1..k : Last(s, k)[j] = s[Len(s) - k + j]
      <4>. HIDE DEF k, t
      <4>. QED  BY <1>0, <3>1, LastIs
    <3>3. \A j \in 1..k : First(Whole, k)[j] = Whole[j]
      <4>. HIDE DEF k, t
      <4>. QED  BY <1>0, <3>1, FirstIs
    <3>. QED  BY <1>0, <2>1, <3>2, <3>3, WholeIs
  <2>5. /\ Len(s \o r) = Len(s) + (MaxChunks - k)
        /\ \A j \in 1..Len(s) : (s \o r)[j] = s[j]
        /\ \A j \in 1..MaxChunks - k : (s \o r)[Len(s) + j] = r[j]
    <3>. HIDE DEF r, k, t
    <3>1. PICK q : q = r
      OBVIOUS
    <3>2. q \in Seq(1..MaxChunks) /\ Len(q) = MaxChunks - k
      BY <2>3, <3>1
    <3>0. s \in Seq(1..MaxChunks) /\ q \in Seq(1..MaxChunks)
      BY <1>0, <3>2
    <3>3. /\ Len(s \o q) = Len(s) + Len(q)
          /\ \A j \in 1..Len(s) : (s \o q)[j] = s[j]
          /\ \A j \in 1..Len(q) : (s \o q)[Len(s) + j] = q[j]
      BY <3>0, JoinedIs
    <3>. QED  BY <3>1, <3>2, <3>3
  <2>6. ASSUME NEW j \in 1..MaxChunks PROVE (s \o r)[(Len(s) - k) + j] = j
    <3>1. CASE j <= k
      <4>1. (Len(s) - k) + j \in 1..Len(s) /\ j \in 1..k
        BY <1>0, <2>1, <3>1
      <4>. HIDE DEF r, k, t
      <4>. QED  BY <2>4, <2>5, <4>1
    <3>2. CASE j > k
      <4>1. (Len(s) - k) + j = Len(s) + (j - k) /\ j - k \in 1..MaxChunks - k /\ k + (j - k) = j
        BY <1>0, <2>1, <3>2
      <4>. HIDE DEF r, k, t
      <4>. QED  BY <2>3, <2>5, <4>1
    <3>3. j <= k \/ j > k
      BY <1>0, <2>1
    <3>. QED  BY <3>1, <3>2, <3>3
  <2>7. Len(s) - k \in Nat /\ (Len(s) - k) + MaxChunks <= Len(s \o r)
    BY <1>0, <2>1, <2>5
  <2>8. InOrder(Whole, s \o r)
    <3>1. s \o r \in Texts
      BY <1>0, <2>2
    <3>. HIDE DEF r, k, t
    <3>. QED  BY <2>6, <2>7, <3>1, PieceShows
  <2>. QED  BY <2>2, <2>8
<1>4. CASE ~StartsWith(Whole, s) /\ ~Holds(s, Whole) /\ ~(k > 0) /\ Len(Whole) >= Len(s)
  BY <1>0, <1>4 DEF Merged
<1>5. CASE ~StartsWith(Whole, s) /\ ~Holds(s, Whole) /\ ~(k > 0) /\ ~(Len(Whole) >= Len(s))
  <2>1. t = s /\ Len(s) > MaxChunks
    BY <1>0, <1>5, WholeIs DEF Merged
  <2>. QED  BY <2>1, LongRepeats
<1>. QED  BY <1>1, <1>2, <1>3, <1>4, <1>5

\* A text that has the answer already stays as it is.
LEMMA MergedKeeps ==
  ASSUME NEW t \in {Whole, <<>>}
  PROVE  Merged(Whole, t) = Whole
<1>0. Whole \in Seq(1..MaxChunks) /\ Len(Whole) = MaxChunks /\ MaxChunks \in Nat \ {0} /\ Len(<<>>) = 0
  BY WholeIs, BoundsAssumption, Empty DEF Texts
<1>1. First(Whole, MaxChunks) = Whole
  BY <1>0 DEF First
<1>2. CASE t = Whole
  <2>1. StartsWith(Whole, Whole)
    BY <1>0, <1>1 DEF StartsWith
  <2>. QED  BY <1>2, <2>1 DEF Merged
<1>3. CASE t = <<>>
  <2>1. ~StartsWith(<<>>, Whole)
    BY <1>0 DEF StartsWith
  <2>2. First(Last(Whole, 0), 0) = <<>> /\ Len(Last(Whole, 0)) = 0
    <3>1. Len(Last(Whole, 0)) = 0 /\ Last(Whole, 0) \in Seq(1..MaxChunks)
      BY <1>0, LastIs
    <3>2. Len(First(Last(Whole, 0), 0)) = 0 /\ First(Last(Whole, 0), 0) \in Seq(1..MaxChunks)
      BY <3>1, FirstIs
    <3>. QED  BY <3>1, <3>2
  <2>3. StartsWith(Last(Whole, 0), <<>>)
    BY <1>0, <2>2 DEF StartsWith
  <2>4. Holds(Whole, <<>>)
    BY <1>0, <2>3 DEF Holds
  <2>. QED  BY <1>3, <2>1, <2>4 DEF Merged
<1>. QED  BY <1>2, <1>3

\* What an event does to the page, by its kind.
LEMMA EventDoes ==
  ASSUME NEW p \in Pages(Statuses), NEW e \in Events
  PROVE  LET q == EventApplied(p, e)
         IN  /\ e.kind = "status" => q.text = p.text /\ q.past = p.past /\ q.status = e.status
             /\ e.kind # "status" => q.status = p.status
             /\ p.past => q.past
             /\ e.kind = "started" => q.text = Merged(p.text, e.text)
             /\ e.kind = "delta" => q.text = p.text \o e.text
             /\ e.kind = "replaced" => q.text = e.text
             /\ e.kind = "snapshot" => q.text = Merged(p.text, e.text) /\ (e.past => q.past)
<1>1. CASE e.kind = "status"
  BY <1>1 DEF EventApplied, Pages
<1>2. CASE e.kind = "started"
  BY <1>2 DEF EventApplied, Pages
<1>3. CASE e.kind = "delta"
  BY <1>3 DEF EventApplied, Pages
<1>4. CASE e.kind = "replaced"
  BY <1>4 DEF EventApplied, Pages
<1>5. CASE e.kind = "snapshot"
  BY <1>5 DEF EventApplied, Pages
<1>. QED  BY <1>1, <1>2, <1>3, <1>4, <1>5 DEF Events, EventKinds

\* A batch after which the page is completed shows the answer: its last word is a completed
\* status with the snapshot behind it, or the page had the history already.
LEMMA BatchShown ==
  ASSUME NEW page \in Pages(Statuses), NEW events \in Seq(Events), Told(events), Concludes(events),
         page.status = "completed" => page.past,
         BatchApplied(page, events).status = "completed"
  PROVE  Shown(BatchApplied(page, events))
<1>. DEFINE At(n) == {p \in Pages(Statuses) :
                        /\ page.past => p.past
                        /\ p.status = "completed" => page.status = "completed" \/ \E i \in 1..n : Completed(events[i])
                        /\ \A i \in 1..n : Completed(events[i]) /\ i < n => Shown(p)}
            T == [n \in 0..Len(events) |-> At(n)]
<1>1. Len(events) \in Nat /\ \A i \in 1..Len(events) : events[i] \in Events
  OBVIOUS
<1>2. page \in T[0]
  BY <1>1
<1>3. ASSUME NEW n \in 1..Len(events), NEW p \in T[n - 1] PROVE EventApplied(p, events[n]) \in T[n]
  <2>. DEFINE e == events[n]  q == EventApplied(p, e)
  <2>0. n - 1 \in 0..Len(events) /\ n \in 0..Len(events) /\ p \in At(n - 1) /\ T[n] = At(n) /\ e \in Events
    BY <1>1
  <2>1. /\ p \in Pages(Statuses) /\ (page.past => p.past)
        /\ p.status = "completed" => page.status = "completed" \/ \E i \in 1..n - 1 : Completed(events[i])
        /\ \A i \in 1..n - 1 : Completed(events[i]) /\ i < n - 1 => Shown(p)
    BY <2>0
  <2>2. q \in Pages(Statuses)
    BY <2>0, <2>1, EventType DEF Told
  <2>3. /\ e.kind = "status" => q.text = p.text /\ q.past = p.past /\ q.status = e.status
        /\ e.kind # "status" => q.status = p.status
        /\ p.past => q.past
        /\ e.kind = "snapshot" => q.text = Merged(p.text, e.text) /\ (e.past => q.past)
    BY <2>0, <2>1, EventDoes
  <2>4. page.past => q.past
    BY <2>1, <2>3
  <2>5. q.status = "completed" => page.status = "completed" \/ \E i \in 1..n : Completed(events[i])
    <3>1. CASE e.kind = "status"
      BY <2>3, <3>1 DEF Completed
    <3>2. CASE e.kind # "status"
      <4>1. \A i \in 1..n - 1 : i \in 1..n
        BY <2>0
      <4>. HIDE DEF e, q
      <4>. QED  BY <2>1, <2>3, <3>2, <4>1
    <3>. QED  BY <3>1, <3>2
  <2>6. ASSUME NEW i \in 1..n, Completed(events[i]), i < n PROVE Shown(q)
    <3>1. /\ i \in 1..Len(events) /\ events[i + 1].kind = "snapshot"
          /\ Full(events[i + 1].text, events[i + 1].past)
          /\ \A j \in i + 2..Len(events) : events[j].kind = "status"
      BY <1>1, <2>6 DEF Concludes
    <3>2. CASE i = n - 1
      <4>1. e.kind = "snapshot" /\ Full(e.text, e.past)
        BY <3>1, <3>2
      <4>2. p.text \in Texts
        BY <2>1 DEF Pages
      <4>3. InOrder(Whole, Merged(p.text, Whole)) \/ Repeats(Merged(p.text, Whole))
        BY <4>2, MergedShows
      <4>. HIDE DEF e, q
      <4>. QED  BY <2>3, <4>1, <4>3 DEF Shown, Full
    <3>3. CASE i < n - 1
      <4>1. n \in i + 2..Len(events) /\ i \in 1..n - 1
        BY <1>1, <2>6, <3>3
      <4>2. e.kind = "status" /\ Shown(p)
        BY <2>1, <2>6, <3>1, <3>3, <4>1
      <4>. HIDE DEF e, q
      <4>. QED  BY <2>3, <4>2 DEF Shown
    <3>. QED  BY <2>6, <3>2, <3>3
  <2>7. q \in At(n)
    <3>. HIDE DEF q, e
    <3>. QED  BY <2>2, <2>4, <2>5, <2>6
  <2>. QED  BY <2>0, <2>7
<1>4. BatchApplied(page, events) \in T[Len(events)]
  <2>. HIDE DEF T
  <2>. QED  BY <1>1, <1>2, <1>3, BatchInvariant
<1>5. PICK q : q = BatchApplied(page, events)
  OBVIOUS
<1>6. q \in At(Len(events))
  BY <1>1, <1>4, <1>5
<1>7. CASE page.status = "completed"
  BY <1>5, <1>6, <1>7 DEF Shown
<1>8. CASE page.status # "completed"
  <2>1. PICK i \in 1..Len(events) : Completed(events[i])
    BY <1>5, <1>6, <1>8
  <2>2. i < Len(events)
    BY <1>1, <2>1 DEF Concludes
  <2>. QED  BY <1>5, <1>6, <2>1, <2>2
<1>. QED  BY <1>7, <1>8

\* The page has the answer exactly after a batch that brings it, or that finds and keeps it.
LEMMA BatchKeeps ==
  ASSUME NEW page \in Pages(Statuses), NEW events \in Seq(Events), Told(events),
         NEW i \in 0..Len(events), i = 0 => page.text = Whole,
         i # 0 => events[i].kind = "replaced" /\ events[i].text = Whole,
         KeepsFrom(events, i + 1)
  PROVE  BatchApplied(page, events).text = Whole
<1>. DEFINE At(n) == {p \in Pages(Statuses) : i <= n => p.text = Whole}
            T == [n \in 0..Len(events) |-> At(n)]
<1>1. Len(events) \in Nat /\ \A j \in 1..Len(events) : events[j] \in Events
  OBVIOUS
<1>2. page \in T[0]
  BY <1>1
<1>3. ASSUME NEW n \in 1..Len(events), NEW p \in T[n - 1] PROVE EventApplied(p, events[n]) \in T[n]
  <2>. DEFINE e == events[n]  q == EventApplied(p, e)
  <2>0. n - 1 \in 0..Len(events) /\ n \in 0..Len(events) /\ p \in At(n - 1) /\ T[n] = At(n) /\ e \in Events
    BY <1>1
  <2>1. p \in Pages(Statuses) /\ (i <= n - 1 => p.text = Whole)
    BY <2>0
  <2>2. q \in Pages(Statuses)
    BY <2>0, <2>1, EventType DEF Told
  <2>3. /\ e.kind = "status" => q.text = p.text
        /\ e.kind = "replaced" => q.text = e.text
        /\ e.kind = "snapshot" => q.text = Merged(p.text, e.text)
    BY <2>0, <2>1, EventDoes
  <2>4. ASSUME i <= n PROVE q.text = Whole
    <3>1. CASE i = n
      <4>1. e.kind = "replaced" /\ e.text = Whole
        BY <1>1, <3>1
      <4>. HIDE DEF e, q
      <4>. QED  BY <2>3, <4>1
    <3>2. CASE i <= n - 1
      <4>1. n \in i + 1..Len(events) /\ p.text = Whole
        BY <1>1, <2>1, <3>2
      <4>2. Keeps(e)
        BY <4>1 DEF KeepsFrom
      <4>. HIDE DEF e, q
      <4>. QED  BY <2>3, <4>1, <4>2, MergedKeeps DEF Keeps
    <3>. QED  BY <1>1, <2>4, <3>1, <3>2
  <2>5. q \in At(n)
    <3>. HIDE DEF q, e
    <3>. QED  BY <2>2, <2>4
  <2>. QED  BY <2>0, <2>5
<1>4. BatchApplied(page, events) \in T[Len(events)]
  <2>. HIDE DEF T
  <2>. QED  BY <1>1, <1>2, <1>3, BatchInvariant
<1>5. PICK q : q = BatchApplied(page, events)
  OBVIOUS
<1>6. q \in At(Len(events))
  BY <1>1, <1>4, <1>5
<1>. QED  BY <1>1, <1>5, <1>6

\* What the handlers add to the events, by the notification's kind.
LEMMA StatusGives ==
  ASSUME NEW t \in Turns, past \in BOOLEAN
  PROVE  \/ StatusPushed(t).events = t.events
         \/ \E e \in Events : /\ e.kind = "status" /\ e.status = t.status
                              /\ StatusPushed(t).events = Append(t.events, e)
<1>. DEFINE u == [t EXCEPT !.last = <<t.status, t.title>>]
            e == Event("status", <<>>, t.status)
<1>1. u \in Turns /\ u.events = t.events
  <2>1. <<t.status, t.title>> \in (Statuses \cup {""}) \X Titles
    BY DEF Turns
  <2>. QED  BY <2>1 DEF Turns
<1>2. e \in Events /\ e.kind = "status" /\ e.status = t.status
  <2>1. e = [kind |-> "status", text |-> <<>>, status |-> t.status, past |-> past]
    BY DEF Event
  <2>2. t.status \in Statuses \cup {""} /\ "status" \in EventKinds
    BY DEF Turns, EventKinds
  <2>. HIDE DEF e
  <2>. QED  BY <2>1, <2>2, Empty DEF Events
<1>3. StatusPushed(t) = IF t.last = <<t.status, t.title>> THEN t ELSE Pushed(u, e)
  BY DEF StatusPushed
<1>. HIDE DEF u, e
<1>4. Pushed(u, e).events = Append(u.events, e)
  BY <1>1, <1>2, PushedTurn
<1>. QED  BY <1>1, <1>2, <1>3, <1>4

\* The events that were there stay, and those that follow are as given.
Extends(old, new) == Len(new) >= Len(old) /\ \A i \in 1..Len(old) : new[i] = old[i]
Fresh(old, new) == Len(old) + 1..Len(new)

HandlerGives(n) ==
  /\ Extends(turn.events, turn'.events)
  /\ n.kind \in {"turnStarted", "progress"} =>
       /\ text' = text
       /\ \A i \in Fresh(turn.events, turn'.events) :
            turn'.events[i].kind = "status" /\ turn'.events[i].status = turn'.status
  /\ n.kind = "delta" =>
       /\ text' = text \o n.text /\ Len(turn'.events) = Len(turn.events) + 1
       /\ turn'.events[Len(turn.events) + 1].kind = IF text = <<>> THEN "started" ELSE "delta"
       /\ turn'.events[Len(turn.events) + 1].text = n.text
  /\ n.kind = "itemCompleted" =>
       /\ text' = n.text /\ Len(turn'.events) = Len(turn.events) + 1
       /\ turn'.events[Len(turn.events) + 1].kind = "replaced"
       /\ turn'.events[Len(turn.events) + 1].text = n.text
  /\ n.kind \in Fatal =>
       /\ text' = text /\ Len(turn'.events) > Len(turn.events)
       /\ turn'.events[Len(turn'.events)].kind = "snapshot"
       /\ turn'.events[Len(turn'.events)].text = text
       /\ turn'.events[Len(turn'.events)].past = past
       /\ \A i \in Fresh(turn.events, turn'.events) :
            turn'.events[i].kind = "status" => turn'.events[i].status = turn'.status /\ i + 1 = Len(turn'.events)
       /\ \A i \in Fresh(turn.events, turn'.events) :
            turn'.events[i].kind = "status" \/ i = Len(turn'.events)

LEMMA AppendIs ==
  ASSUME NEW S, NEW q \in Seq(S), NEW e \in S
  PROVE  /\ Append(q, e) \in Seq(S) /\ Len(Append(q, e)) = Len(q) + 1 /\ Len(q) \in Nat
         /\ \A i \in 1..Len(q) : Append(q, e)[i] = q[i]
         /\ Append(q, e)[Len(q) + 1] = e
  OBVIOUS

LEMMA OverGives ==
  ASSUME turn \in Turns, past \in BOOLEAN, text \in Texts, NEW s \in Statuses
  PROVE  \E e \in Events, mid \in Seq(Events) :
           /\ e.kind = "snapshot" /\ e.text = text /\ e.past = past
           /\ Over(s).events = Append(mid, e)
           /\ \/ mid = turn.events
              \/ \E m \in Events : m.kind = "status" /\ m.status = s /\ mid = Append(turn.events, m)
<1>. DEFINE t == Titled(Entry, s, "over")
            e == Event("snapshot", text, "")
<1>1. t \in Turns /\ t.status = s /\ t.events = turn.events
  BY TitledTurn DEF Titles
<1>2. e \in Events /\ e.kind = "snapshot" /\ e.text = text /\ e.past = past
  BY DEF Event, Events, EventKinds
<1>3. Over(s) = Pushed(StatusPushed(t), e)
  BY DEF Over
<1>. HIDE DEF t, e
<1>4. StatusPushed(t) \in Turns
  BY <1>1, StatusPushedTurn
<1>5. Over(s).events = Append(StatusPushed(t).events, e) /\ StatusPushed(t).events \in Seq(Events)
  <2>1. PICK u \in Turns : u = StatusPushed(t)
    BY <1>4
  <2>2. u.events \in Seq(Events)
    BY DEF Turns
  <2>. QED  BY <1>2, <1>3, <2>1, <2>2, PushedTurn
<1>6. \/ StatusPushed(t).events = turn.events
      \/ \E m \in Events : m.kind = "status" /\ m.status = s /\ StatusPushed(t).events = Append(turn.events, m)
  BY <1>1, StatusGives
<1>. QED  BY <1>2, <1>5, <1>6

LEMMA HandlerAdds == ASSUME HostTyped, HandleNext PROVE HandlerGives(Head(stream))
<1>. SUFFICES ASSUME NEW n, n = Head(stream) PROVE HandlerGives(n)
  OBVIOUS
<1>1. n \in Notes /\ n.text \in Texts /\ n.status \in Statuses
  <2>1. stream \in Seq(Notes) /\ stream # <<>>
    BY DEF HostTyped, HandleNext, TurnStarted, Progress, AgentMessageDelta, ItemCompleted, TurnCompleted, Error, Handle
  <2>2. n \in Notes
    BY <2>1
  <2>. QED  BY <2>2 DEF Notes
<1>2. turn \in Turns /\ past \in BOOLEAN /\ text \in Texts /\ turn.events \in Seq(Events)
  BY DEF HostTyped, Turns
<1>. USE DEF HandlerGives, Extends, Fresh, Fatal
<1>3. CASE TurnStarted \/ Progress
  <2>1. PICK t \in Turns : turn' = StatusPushed(t) /\ t.events = turn.events
    <3>1. CASE TurnStarted
      <4>. DEFINE title == IF turn.title = "" THEN "running" ELSE turn.title
      <4>1. title \in Titles
        BY <1>2 DEF Turns, Titles
      <4>2. Titled(Entry, n.status, title) \in Turns /\ Titled(Entry, n.status, title).events = turn.events
        <5>. HIDE DEF title
        <5>. QED  BY <1>1, <1>2, <4>1, TitledTurn
      <4>. QED  BY <3>1, <4>2 DEF TurnStarted
    <3>2. CASE Progress
      <4>1. Titled(Entry, "inProgress", "working") \in Turns /\ Titled(Entry, "inProgress", "working").events = turn.events
        BY <1>2, TitledTurn DEF Statuses, Titles
      <4>. QED  BY <3>2, <4>1 DEF Progress
    <3>. QED  BY <1>3, <3>1, <3>2
  <2>2. n.kind \in {"turnStarted", "progress"} /\ text' = text
    BY <1>3 DEF TurnStarted, Progress, Handle
  <2>3. turn'.status = t.status
    BY <1>2, <2>1, StatusPushedTurn
  <2>4. CASE turn'.events = turn.events
    BY <1>2, <2>2, <2>4
  <2>5. ASSUME NEW e \in Events, e.kind = "status", e.status = t.status, turn'.events = Append(turn.events, e)
        PROVE  HandlerGives(n)
    <3>1. /\ Len(turn'.events) = Len(turn.events) + 1 /\ Len(turn.events) \in Nat
          /\ \A i \in 1..Len(turn.events) : turn'.events[i] = turn.events[i]
          /\ turn'.events[Len(turn.events) + 1] = e
      BY <1>2, <2>5, AppendIs
    <3>2. \A i \in Len(turn.events) + 1..Len(turn'.events) : i = Len(turn.events) + 1
      BY <3>1
    <3>. QED  BY <2>2, <2>3, <2>5, <3>1, <3>2
  <2>. QED  BY <1>2, <2>1, <2>4, <2>5, StatusGives
<1>4. CASE AgentMessageDelta
  <2>. DEFINE t == Titled(Entry, "inProgress", "running")
              kind == IF text = <<>> THEN "started" ELSE "delta"
              e == Event(kind, n.text, "")
  <2>1. t \in Turns /\ t.events = turn.events
    BY <1>2, TitledTurn DEF Statuses, Titles
  <2>2. turn' = Pushed(t, e) /\ text' = text \o n.text /\ n.kind = "delta"
    BY <1>4 DEF AgentMessageDelta, Handle
  <2>3. e \in Events /\ e.kind = kind /\ e.text = n.text /\ kind # "status"
    BY <1>1, <1>2 DEF Event, Events, EventKinds
  <2>. HIDE DEF t, e
  <2>4. turn'.events = Append(turn.events, e)
    <3>. HIDE DEF kind
    <3>. QED  BY <2>1, <2>2, <2>3, PushedTurn
  <2>5. /\ Len(turn'.events) = Len(turn.events) + 1 /\ Len(turn.events) \in Nat
        /\ \A i \in 1..Len(turn.events) : turn'.events[i] = turn.events[i]
        /\ turn'.events[Len(turn.events) + 1] = e
    BY <1>2, <2>3, <2>4, AppendIs
  <2>. QED  BY <2>2, <2>3, <2>5
<1>5. CASE ItemCompleted
  <2>. DEFINE t == IF turn.known THEN turn ELSE [Entry EXCEPT !.status = "inProgress"]
              e == Event("replaced", n.text, "")
  <2>1. t \in Turns /\ t.events = turn.events
    BY <1>2 DEF Turns, Entry, Statuses
  <2>2. turn' = Pushed(t, e) /\ text' = n.text /\ n.kind = "itemCompleted"
    BY <1>5 DEF ItemCompleted, Handle
  <2>3. e \in Events /\ e.kind = "replaced" /\ e.text = n.text
    BY <1>1, <1>2 DEF Event, Events, EventKinds
  <2>. HIDE DEF t, e
  <2>4. turn'.events = Append(turn.events, e)
    BY <2>1, <2>2, <2>3, PushedTurn
  <2>5. /\ Len(turn'.events) = Len(turn.events) + 1 /\ Len(turn.events) \in Nat
        /\ \A i \in 1..Len(turn.events) : turn'.events[i] = turn.events[i]
        /\ turn'.events[Len(turn.events) + 1] = e
    BY <1>2, <2>3, <2>4, AppendIs
  <2>. QED  BY <2>2, <2>3, <2>5
<1>6. CASE TurnCompleted \/ Error
  <2>1. PICK s \in Statuses : turn' = Over(s)
    BY <1>1, <1>6 DEF TurnCompleted, Error, Statuses, Terminal
  <2>2. text' = text /\ n.kind \in {"turnCompleted", "error"}
    BY <1>6 DEF TurnCompleted, Error, Handle
  <2>3. turn'.status = s
    BY <1>2, <2>1, OverTurn
  <2>4. PICK e \in Events, mid \in Seq(Events) :
           /\ e.kind = "snapshot" /\ e.text = text /\ e.past = past
           /\ turn'.events = Append(mid, e)
           /\ \/ mid = turn.events
              \/ \E m \in Events : m.kind = "status" /\ m.status = s /\ mid = Append(turn.events, m)
    BY <1>2, <2>1, OverGives
  <2>5. /\ Len(turn'.events) = Len(mid) + 1 /\ Len(mid) \in Nat
        /\ \A i \in 1..Len(mid) : turn'.events[i] = mid[i]
        /\ turn'.events[Len(mid) + 1] = e
    BY <2>4, AppendIs
  <2>6. CASE mid = turn.events
    <3>2. \A i \in Len(turn.events) + 1..Len(turn'.events) : i = Len(turn'.events)
      BY <2>5, <2>6
    <3>. QED  BY <2>2, <2>4, <2>5, <2>6, <3>2
  <2>7. ASSUME NEW m \in Events, m.kind = "status", m.status = s, mid = Append(turn.events, m)
        PROVE  HandlerGives(n)
    <3>1. /\ Len(mid) = Len(turn.events) + 1 /\ Len(turn.events) \in Nat
          /\ \A i \in 1..Len(turn.events) : mid[i] = turn.events[i]
          /\ mid[Len(turn.events) + 1] = m
      BY <1>2, <2>7, AppendIs
    <3>2. Extends(turn.events, turn'.events) /\ Len(turn'.events) = Len(turn.events) + 2
      BY <2>5, <3>1
    <3>3. turn'.events[Len(turn.events) + 1] = m /\ turn'.events[Len(turn.events) + 2] = e
      BY <2>5, <3>1
    <3>4. \A i \in Len(turn.events) + 1..Len(turn'.events) : i = Len(turn.events) + 1 \/ i = Len(turn.events) + 2
      BY <3>1, <3>2
    <3>. QED  BY <2>2, <2>3, <2>4, <2>7, <3>1, <3>2, <3>3, <3>4, SMTT(30)
  <2>. QED  BY <2>4, <2>6, <2>7
<1>. QED  BY <1>3, <1>4, <1>5, <1>6 DEF HandleNext

-----------------------------------------------------------------------------
\* The order of the notifications

LEMMA OrderAppends ==
  ASSUME NEW q \in Seq(Notes), NEW n \in Notes, Ordered(q),
         n.kind = "itemCompleted" => n.text = Whole,
         Given(n) => ~ItemIn(q),
         n.kind # "progress" => \A i \in 1..Len(q) : q[i].kind # "turnCompleted"
  PROVE  /\ Ordered(Append(q, n))
         /\ ItemIn(Append(q, n)) <=> ItemIn(q) \/ n.kind = "itemCompleted"
         /\ NoneGiven(q) /\ ~Given(n) => NoneGiven(Append(q, n))
         /\ OnlyReports(q) /\ n.kind = "progress" => OnlyReports(Append(q, n))
<1>1. PICK r : r = Append(q, n)
  OBVIOUS
<1>2. /\ Len(r) = Len(q) + 1 /\ Len(q) \in Nat /\ r[Len(q) + 1] = n
      /\ \A i \in 1..Len(q) : r[i] = q[i]
  BY <1>1, Appending
<1>3. \A i \in 1..Len(r) : i \in 1..Len(q) \/ i = Len(q) + 1
  BY <1>2
<1>4. \A i \in 1..Len(q) : i \in 1..Len(r)
  BY <1>2
<1>5. Ordered(r)
  <2>1. ASSUME NEW i \in 1..Len(r), r[i].kind = "itemCompleted"
        PROVE  r[i].text = Whole /\ \A j \in i + 1..Len(r) : ~Given(r[j])
    <3>1. CASE i = Len(q) + 1
      BY <1>2, <2>1, <3>1
    <3>2. CASE i \in 1..Len(q)
      <4>1. q[i].text = Whole /\ \A j \in i + 1..Len(q) : ~Given(q[j])
        BY <1>2, <2>1, <3>2 DEF Ordered
      <4>2. ~Given(n)
        BY <1>2, <2>1, <3>2 DEF ItemIn
      <4>3. ASSUME NEW j \in i + 1..Len(r) PROVE ~Given(r[j])
        <5>1. j \in i + 1..Len(q) \/ j = Len(q) + 1
          BY <1>2, <4>3
        <5>2. CASE j \in i + 1..Len(q)
          <6>1. j \in 1..Len(q)
            BY <3>2, <5>2
          <6>. QED  BY <1>2, <4>1, <5>2, <6>1
        <5>3. CASE j = Len(q) + 1
          BY <1>2, <4>2, <5>3
        <5>. QED  BY <5>1, <5>2, <5>3
      <4>. QED  BY <1>2, <3>2, <4>1, <4>3
    <3>. QED  BY <1>3, <3>1, <3>2
  <2>2. ASSUME NEW i \in 1..Len(r), r[i].kind = "turnCompleted", NEW j \in i + 1..Len(r)
        PROVE  r[j].kind = "progress"
    <3>1. i \in 1..Len(q) /\ q[i].kind = "turnCompleted"
      BY <1>2, <2>2
    <3>2. n.kind = "progress"
      BY <3>1
    <3>3. j \in i + 1..Len(q) \/ j = Len(q) + 1
      BY <1>2, <2>2
    <3>4. CASE j \in i + 1..Len(q)
      <4>1. j \in 1..Len(q) /\ q[j].kind = "progress"
        BY <3>1, <3>4 DEF Ordered
      <4>. QED  BY <1>2, <4>1
    <3>. QED  BY <1>2, <3>2, <3>3, <3>4
  <2>. QED  BY <2>1, <2>2 DEF Ordered
<1>6. ItemIn(r) <=> ItemIn(q) \/ n.kind = "itemCompleted"
  <2>1. ItemIn(r) => ItemIn(q) \/ n.kind = "itemCompleted"
    BY <1>2, <1>3 DEF ItemIn
  <2>2. ItemIn(q) => ItemIn(r)
    BY <1>2, <1>4 DEF ItemIn
  <2>3. n.kind = "itemCompleted" => ItemIn(r)
    BY <1>2 DEF ItemIn
  <2>. QED  BY <2>1, <2>2, <2>3
<1>7. NoneGiven(q) /\ ~Given(n) => NoneGiven(r)
  BY <1>2, <1>3 DEF NoneGiven
<1>8. OnlyReports(q) /\ n.kind = "progress" => OnlyReports(r)
  BY <1>2, <1>3 DEF OnlyReports
<1>. QED  BY <1>1, <1>5, <1>6, <1>7, <1>8

LEMMA OrderTail ==
  ASSUME NEW q \in Seq(Notes), q # <<>>, Ordered(q)
  PROVE  /\ Ordered(Tail(q)) /\ (ItemIn(Tail(q)) => ItemIn(q))
         /\ NoneGiven(q) => NoneGiven(Tail(q)) /\ ~Given(q[1])
         /\ OnlyReports(q) => OnlyReports(Tail(q)) /\ q[1].kind = "progress"
         /\ q[1].kind = "itemCompleted" => NoneGiven(Tail(q)) /\ q[1].text = Whole /\ ItemIn(q)
         /\ ItemIn(q) => q[1].kind = "itemCompleted" \/ ItemIn(Tail(q))
         /\ q[1].kind = "turnCompleted" => OnlyReports(Tail(q)) /\ ~ItemIn(q)
<1>1. PICK r : r = Tail(q)
  OBVIOUS
<1>2. /\ Len(r) = Len(q) - 1 /\ Len(q) \in Nat /\ 1 \in 1..Len(q)
      /\ \A i \in 1..Len(r) : r[i] = q[i + 1] /\ i + 1 \in 1..Len(q)
  BY <1>1, TailIs
<1>3. \A i \in 1..Len(r) : i + 1 \in 1 + 1..Len(q)
  BY <1>2
<1>4. Ordered(r)
  <2>1. ASSUME NEW i \in 1..Len(r), NEW j \in i + 1..Len(r) PROVE j + 1 \in (i + 1) + 1..Len(q) /\ j \in 1..Len(r)
    BY <1>2
  <2>. QED  BY <1>2, <2>1, ZenonT(60) DEF Ordered
<1>5. ItemIn(r) => ItemIn(q)
  BY <1>2 DEF ItemIn
<1>6. NoneGiven(q) => NoneGiven(r) /\ ~Given(q[1])
  BY <1>2 DEF NoneGiven
<1>7. OnlyReports(q) => OnlyReports(r) /\ q[1].kind = "progress"
  BY <1>2 DEF OnlyReports
<1>8. q[1].kind = "itemCompleted" => NoneGiven(r) /\ q[1].text = Whole /\ ItemIn(q)
  BY <1>2, <1>3 DEF Ordered, NoneGiven, ItemIn
<1>9. ItemIn(q) => q[1].kind = "itemCompleted" \/ ItemIn(r)
  <2>1. ASSUME NEW i \in 1..Len(q), q[i].kind = "itemCompleted", i # 1 PROVE ItemIn(r)
    <3>1. i - 1 \in 1..Len(r) /\ (i - 1) + 1 = i
      BY <1>2, <2>1
    <3>2. r[i - 1] = q[i]
      BY <1>2, <3>1
    <3>. QED  BY <2>1, <3>1, <3>2 DEF ItemIn
  <2>. QED  BY <2>1 DEF ItemIn
<1>10. q[1].kind = "turnCompleted" => OnlyReports(r) /\ ~ItemIn(q)
  <2>1. SUFFICES ASSUME q[1].kind = "turnCompleted" PROVE OnlyReports(r) /\ ~ItemIn(q)
    OBVIOUS
  <2>2. \A j \in 1 + 1..Len(q) : q[j].kind = "progress"
    BY <1>2, <2>1 DEF Ordered
  <2>3. \A j \in 1..Len(q) : j = 1 \/ j \in 1 + 1..Len(q)
    BY <1>2
  <2>. QED  BY <1>2, <1>3, <2>1, <2>2, <2>3 DEF OnlyReports, ItemIn
<1>. QED  BY <1>1, <1>4, <1>5, <1>6, <1>7, <1>8, <1>9, <1>10

\* The end comes behind what is on its way, with an error before it or without.
LEMMA EndAppends ==
  ASSUME stream \in Seq(Notes), Ordered(stream), NEW s \in Terminal, EndTurn(s),
         \A i \in 1..Len(stream) : stream[i].kind # "turnCompleted"
  PROVE  /\ Ordered(stream') /\ (ItemIn(stream') <=> ItemIn(stream))
         /\ NoneGiven(stream) => NoneGiven(stream')
         /\ UNCHANGED <<itemDone, connected>>
<1>. DEFINE over == Note("turnCompleted", <<>>, s)
            fails == Note("error", <<>>, s)
<1>0. UNCHANGED <<itemDone, connected>>
  BY DEF EndTurn
<1>1. /\ over \in Notes /\ fails \in Notes /\ over.kind = "turnCompleted" /\ fails.kind = "error"
      /\ ~Given(over) /\ ~Given(fails)
  BY NotesTyped DEF Note, Statuses, Given
<1>2. IF s = "failed" THEN stream' = Append(Append(stream, fails), over) ELSE stream' = Append(stream, over)
  BY FarewellIs DEF EndTurn
<1>. HIDE DEF over, fails
<1>3. CASE s # "failed"
  <2>1. stream' = Append(stream, over)
    BY <1>2, <1>3
  <2>2. over.kind # "itemCompleted"
    BY <1>1
  <2>. QED  BY <1>0, <1>1, <2>1, <2>2, OrderAppends
<1>4. CASE s = "failed"
  <2>1. PICK q : q = Append(stream, fails)
    OBVIOUS
  <2>2. /\ q \in Seq(Notes) /\ Ordered(q) /\ (ItemIn(q) <=> ItemIn(stream))
        /\ NoneGiven(stream) => NoneGiven(q)
    BY <1>1, <2>1, OrderAppends, Appending
  <2>3. \A i \in 1..Len(q) : q[i].kind # "turnCompleted"
    <3>1. /\ Len(q) = Len(stream) + 1 /\ Len(stream) \in Nat /\ q[Len(stream) + 1] = fails
          /\ \A i \in 1..Len(stream) : q[i] = stream[i]
      BY <1>1, <2>1, Appending
    <3>2. \A i \in 1..Len(q) : i \in 1..Len(stream) \/ i = Len(stream) + 1
      BY <3>1
    <3>. QED  BY <1>1, <3>1, <3>2
  <2>4. stream' = Append(q, over) /\ over.kind # "itemCompleted"
    BY <1>1, <1>2, <1>4, <2>1
  <2>5. /\ Ordered(Append(q, over)) /\ (ItemIn(Append(q, over)) <=> ItemIn(q))
        /\ NoneGiven(q) => NoneGiven(Append(q, over))
    BY <1>1, <2>2, <2>3, <2>4, OrderAppends
  <2>. QED  BY <1>0, <2>2, <2>4, <2>5
<1>. QED  BY <1>3, <1>4

\* What is emitted: the answer's notifications only until the item is completed, and nothing
\* but reports behind the end.
LEMMA ServerOrder == ASSUME TypeOK, HostOK, OrderOK, Server PROVE OrderOK'
<1>0. /\ stream \in Seq(Notes) /\ UNCHANGED <<turn, text, past>> /\ said \in 0..MaxChunks /\ MaxChunks \in Nat
      /\ itemDone \in BOOLEAN /\ connected \in BOOLEAN
  BY BoundsAssumption DEF TypeOK, HostTyped, Server, nativeVars
<1>1. /\ Ordered(stream) /\ (ItemIn(stream) => itemDone) /\ (itemDone => said = MaxChunks)
      /\ ended = "completed" => itemDone
      /\ itemDone /\ connected => ItemIn(stream) \/ (NoneGiven(stream) /\ Full(text, past))
      /\ turn.status = "completed" => itemDone /\ Full(text, past)
      /\ ~Incomplete(turn.events) => OnlyReports(stream) /\ ended # "inProgress" /\ itemDone
  BY DEF OrderOK
<1>2. ended = "inProgress" => \A i \in 1..Len(stream) : stream[i].kind # "turnCompleted"
  BY DEF HostOK, StreamSound, Terminal
<1>3. CASE Say
  <2>1. PICK n \in Notes : n.kind = "delta" /\ stream' = Append(stream, n)
    BY <1>0, <1>3, NotesTyped DEF Say, Emit, Note
  <2>2. UNCHANGED <<itemDone, ended, connected>> /\ ended = "inProgress" /\ ~itemDone /\ said' = said + 1
    BY <1>0, <1>1, <1>3 DEF Say
  <2>3. Ordered(stream') /\ ~ItemIn(stream')
    BY <1>0, <1>1, <1>2, <2>1, <2>2, OrderAppends
  <2>. QED  BY <1>0, <1>1, <2>2, <2>3 DEF OrderOK
<1>4. CASE CompleteItem
  <2>1. PICK n \in Notes : n.kind = "itemCompleted" /\ n.text = Whole /\ stream' = Append(stream, n)
    BY <1>4, NotesTyped DEF CompleteItem, Emit, Note
  <2>2. UNCHANGED <<said, ended, connected>> /\ ended = "inProgress" /\ ~itemDone /\ itemDone' /\ said = MaxChunks
    BY <1>4 DEF CompleteItem
  <2>3. Ordered(stream') /\ ItemIn(stream')
    BY <1>0, <1>1, <1>2, <2>1, <2>2, OrderAppends
  <2>. QED  BY <1>0, <1>1, <2>2, <2>3 DEF OrderOK
<1>5. CASE Report
  <2>1. PICK n \in Notes : n.kind = "progress" /\ stream' = Append(stream, n)
    BY <1>5, NotesTyped DEF Report, Emit, Note
  <2>2. UNCHANGED <<said, itemDone, ended, connected>> /\ ~Given(n)
    BY <1>5, <2>1 DEF Report, Given
  <2>3. /\ Ordered(stream') /\ (ItemIn(stream') <=> ItemIn(stream))
        /\ NoneGiven(stream) => NoneGiven(stream')
        /\ OnlyReports(stream) => OnlyReports(stream')
    BY <1>0, <1>1, <2>1, <2>2, OrderAppends
  <2>. QED  BY <1>0, <1>1, <2>2, <2>3 DEF OrderOK
<1>6. CASE Break
  <2>1. PICK n \in Notes : n.kind = "error" /\ stream' = Append(stream, n)
    BY <1>6, NotesTyped DEF Break, Emit, Note
  <2>2. UNCHANGED <<said, itemDone, ended, connected>> /\ ~Given(n) /\ ended = "inProgress"
    BY <1>6, <2>1 DEF Break, Given
  <2>3. /\ Ordered(stream') /\ (ItemIn(stream') <=> ItemIn(stream))
        /\ NoneGiven(stream) => NoneGiven(stream')
    BY <1>0, <1>1, <1>2, <2>1, <2>2, OrderAppends
  <2>. QED  BY <1>0, <1>1, <2>2, <2>3 DEF OrderOK
<1>7. CASE Disconnect
  <2>1. UNCHANGED <<said, itemDone, ended>> /\ ~connected' /\ stream' = <<>>
    BY <1>7 DEF Disconnect
  <2>2. \A i : i \notin 1..Len(<<>>)
    BY Empty
  <2>3. Ordered(stream') /\ ~ItemIn(stream') /\ OnlyReports(stream')
    BY <2>1, <2>2 DEF Ordered, ItemIn, OnlyReports
  <2>. QED  BY <1>0, <1>1, <2>1, <2>3 DEF OrderOK
<1>8. ASSUME NEW s \in Terminal, EndTurn(s) PROVE OrderOK'
  <2>1. /\ UNCHANGED <<said, itemDone, connected>> /\ ended = "inProgress" /\ ended' = s /\ (s = "completed" => itemDone)
    BY <1>8 DEF EndTurn
  <2>2. /\ Ordered(stream') /\ (ItemIn(stream') <=> ItemIn(stream))
        /\ NoneGiven(stream) => NoneGiven(stream')
    BY <1>0, <1>1, <1>2, <1>8, <2>1, EndAppends
  <2>. QED  BY <1>0, <1>1, <2>1, <2>2 DEF OrderOK
<1>. QED  BY <1>3, <1>4, <1>5, <1>6, <1>7, <1>8 DEF Server

LEMMA EventsLists ==
  ASSUME TypeOK
  PROVE  /\ turn.events \in Seq(Events) /\ Len(turn.events) \in Nat
         /\ reply.events \in Seq(Events) /\ Len(reply.events) \in Nat
<1>1. turn.events \in Seq(Events) /\ reply.events \in Seq(Events)
  BY DEF TypeOK, HostTyped, PageTyped, Turns, Replies
<1>. QED  BY <1>1

\* A handler keeps the order; a completed status it leaves has the answer behind it, and
\* behind one that is there already it leaves nothing but statuses.
LEMMA HandlerOrder ==
  ASSUME TypeOK, HostOK, PlacesOK, OrderOK, HandleOne
  PROVE  /\ OrderOK'
         /\ Extends(turn.events, turn'.events)
         /\ \A i \in Fresh(turn.events, turn'.events) : Completed(turn'.events[i]) =>
              /\ i + 1 = Len(turn'.events) /\ turn'.events[i + 1].kind = "snapshot"
              /\ Full(turn'.events[i + 1].text, turn'.events[i + 1].past)
         /\ ~Incomplete(turn.events) => \A i \in Fresh(turn.events, turn'.events) : turn'.events[i].kind = "status"
<1>1. PICK n : HandlerEffect(n) /\ HandlerGives(n)
  <2>1. HandlerEffect(Head(stream)) /\ HandlerGives(Head(stream))
    BY HandlerDoes, HandlerAdds DEF TypeOK, HandleOne
  <2>. QED  BY <2>1
<1>2. /\ UNCHANGED <<said, itemDone, ended, connected, past>> /\ connected
      /\ stream \in Seq(Notes) /\ stream # <<>> /\ n = stream[1] /\ n \in Notes /\ stream' = Tail(stream)
      /\ turn'.status = NewStatus(n, turn.known, turn.status)
  BY <1>1 DEF HandlerEffect, TypeOK, HostTyped, serverVars, PlacesOK
<1>3. /\ Ordered(stream) /\ (ItemIn(stream) => itemDone) /\ (itemDone => said = MaxChunks)
      /\ ended = "completed" => itemDone
      /\ itemDone /\ connected => ItemIn(stream) \/ (NoneGiven(stream) /\ Full(text, past))
      /\ turn.status = "completed" => itemDone /\ Full(text, past)
      /\ ~Incomplete(turn.events) => OnlyReports(stream) /\ ended # "inProgress" /\ itemDone
  BY DEF OrderOK
<1>4. /\ n.kind = "turnStarted" => n.status = "inProgress"
      /\ n.kind = "turnCompleted" => n.status = ended /\ ended # "inProgress"
  <2>1. 1 \in 1..Len(stream)
    BY <1>2, TailIs
  <2>. QED  BY <1>2, <2>1 DEF HostOK, StreamSound, Terminal
<1>5. /\ Ordered(stream') /\ (ItemIn(stream') => ItemIn(stream))
      /\ NoneGiven(stream) => NoneGiven(stream') /\ ~Given(n)
      /\ OnlyReports(stream) => OnlyReports(stream') /\ n.kind = "progress"
      /\ n.kind = "itemCompleted" => NoneGiven(stream') /\ n.text = Whole /\ ItemIn(stream)
      /\ ItemIn(stream) => n.kind = "itemCompleted" \/ ItemIn(stream')
      /\ n.kind = "turnCompleted" => OnlyReports(stream') /\ ~ItemIn(stream)
  BY <1>2, <1>3, OrderTail
<1>6. n.kind \in {"turnStarted", "progress", "delta", "itemCompleted", "turnCompleted", "error"}
  BY <1>2 DEF Notes, NoteKinds
<1>7. /\ ~Given(n) => text' = text
      /\ n.kind = "itemCompleted" => text' = n.text
  BY <1>1, <1>6 DEF HandlerGives, Given, Fatal
<1>8. n.kind = "turnCompleted" /\ ended = "completed" => itemDone /\ Full(text, past)
  BY <1>2, <1>3, <1>5
<1>9. itemDone' /\ connected' => ItemIn(stream') \/ (NoneGiven(stream') /\ Full(text', past'))
  <2>1. CASE ItemIn(stream)
    BY <1>5, <1>7, <2>1 DEF Full
  <2>2. CASE NoneGiven(stream) /\ Full(text, past)
    BY <1>2, <1>5, <1>7, <2>2
  <2>. QED  BY <1>2, <1>3, <2>1, <2>2
<1>10. turn'.status = "completed" => itemDone' /\ Full(text', past')
  <2>1. SUFFICES ASSUME turn'.status = "completed" PROVE itemDone /\ Full(text', past')
    BY <1>2
  <2>2. CASE n.kind = "turnCompleted"
    <3>1. ended = "completed" /\ text' = text
      BY <1>2, <1>4, <1>7, <2>1, <2>2 DEF NewStatus, Given
    <3>. QED  BY <1>2, <1>8, <2>2, <3>1
  <2>3. CASE n.kind = "itemCompleted"
    BY <1>3, <1>5, <1>7, <2>3 DEF Full
  <2>. QED  BY <1>2, <1>4, <1>6, <2>1, <2>2, <2>3 DEF NewStatus
<1>11. ASSUME NEW i \in Fresh(turn.events, turn'.events), Completed(turn'.events[i])
       PROVE  n.kind = "turnCompleted" /\ ended = "completed"
  <2>1. turn'.events[i].kind = "status" /\ turn'.events[i].status = "completed"
    BY <1>11 DEF Completed
  <2>2. CASE n.kind \in {"turnStarted", "progress"}
    <3>1. turn'.status = "completed"
      BY <1>1, <1>11, <2>1, <2>2 DEF HandlerGives
    <3>. QED  BY <1>2, <1>4, <2>2, <3>1 DEF NewStatus
  <2>3. CASE n.kind \in {"delta", "itemCompleted"}
    <3>1. i = Len(turn.events) + 1
      <4>1. Len(turn.events) \in Nat
        BY EventsLists
      <4>. QED  BY <1>1, <1>11, <2>3, <4>1 DEF HandlerGives, Fresh
    <3>. QED  BY <1>1, <2>1, <2>3, <3>1 DEF HandlerGives
  <2>4. CASE n.kind \in Fatal
    <3>1. turn'.status = "completed"
      BY <1>1, <1>11, <2>1, <2>4 DEF HandlerGives
    <3>. QED  BY <1>2, <1>4, <2>4, <3>1 DEF NewStatus, Fatal
  <2>. QED  BY <1>6, <2>2, <2>3, <2>4 DEF Fatal
<1>12. ~Incomplete(turn'.events) => OnlyReports(stream') /\ ended' # "inProgress" /\ itemDone'
  <2>1. SUFFICES ASSUME NEW i \in 1..Len(turn'.events), Completed(turn'.events[i])
                 PROVE  OnlyReports(stream') /\ ended # "inProgress" /\ itemDone
    BY <1>2 DEF Incomplete
  <2>2. Extends(turn.events, turn'.events) /\ Len(turn.events) \in Nat /\ Len(turn'.events) \in Nat
    <3>1. turn' \in Turns
      BY <1>1 DEF HandlerEffect
    <3>2. turn'.events \in Seq(Events)
      BY <3>1 DEF Turns
    <3>. QED  BY <1>1, <3>2, EventsLists DEF HandlerGives
  <2>3. CASE i \in 1..Len(turn.events)
    <3>1. ~Incomplete(turn.events)
      BY <2>1, <2>2, <2>3 DEF Extends, Incomplete
    <3>. QED  BY <1>3, <1>5, <3>1
  <2>4. CASE i \in Fresh(turn.events, turn'.events)
    <3>1. n.kind = "turnCompleted" /\ ended = "completed"
      BY <1>11, <2>1, <2>4
    <3>. QED  BY <1>3, <1>5, <3>1
  <2>. QED  BY <2>2, <2>3, <2>4 DEF Fresh
<1>13. OrderOK'
  BY <1>2, <1>3, <1>5, <1>9, <1>10, <1>12 DEF OrderOK
<1>14. ASSUME NEW i \in Fresh(turn.events, turn'.events), Completed(turn'.events[i])
       PROVE  /\ i + 1 = Len(turn'.events) /\ turn'.events[i + 1].kind = "snapshot"
              /\ Full(turn'.events[i + 1].text, turn'.events[i + 1].past)
  <2>1. n.kind \in Fatal /\ Full(text, past)
    BY <1>8, <1>11, <1>14 DEF Fatal
  <2>2. i + 1 = Len(turn'.events)
    BY <1>1, <1>14, <2>1 DEF HandlerGives, Completed
  <2>3. /\ turn'.events[Len(turn'.events)].kind = "snapshot"
        /\ turn'.events[Len(turn'.events)].text = text
        /\ turn'.events[Len(turn'.events)].past = past
    BY <1>1, <2>1 DEF HandlerGives
  <2>. QED  BY <2>1, <2>2, <2>3
<1>15. ~Incomplete(turn.events) => \A i \in Fresh(turn.events, turn'.events) : turn'.events[i].kind = "status"
  BY <1>1, <1>3, <1>5 DEF HandlerGives
<1>16. Extends(turn.events, turn'.events)
  BY <1>1 DEF HandlerGives
<1>. QED  BY <1>13, <1>14, <1>15, <1>16

LEMMA PrunedIs == Pruned = turn \/ (Pruned.events = <<>> /\ Pruned.status = "")
  BY UnknownType DEF Pruned

LEMMA OrderStep == TypeOK /\ ReasonOK /\ OrderOK /\ [Next]_vars => OrderOK'
<1>. SUFFICES ASSUME TypeOK, HostOK, PlacesOK, OrderOK, [Next]_vars PROVE OrderOK'
  BY DEF ReasonOK
<1>0. \A i : i \notin 1..Len(<<>>)
  BY Empty
<1>1. CASE UNCHANGED <<stream, serverVars, turn, text, past>>
  BY <1>1 DEF OrderOK, serverVars
<1>2. CASE Server
  BY <1>2, ServerOrder
<1>3. CASE HandleOne
  BY <1>3, HandlerOrder
<1>4. CASE TakeEvents
  <2>1. /\ UNCHANGED <<stream, serverVars, text, past>> /\ turn'.status = turn.status /\ turn'.events = <<>>
    BY <1>4 DEF TakeEvents, TypeOK, HostTyped, Turns
  <2>2. Incomplete(turn'.events)
    BY <1>0, <2>1 DEF Incomplete
  <2>. QED  BY <2>1, <2>2 DEF OrderOK, serverVars
<1>5. CASE PageReads \/ ReaderReads
  <2>1. UNCHANGED <<stream, serverVars>> /\ turn' = Pruned /\ past' = itemDone /\ itemDone \in BOOLEAN
    BY <1>5 DEF PageReads, ReaderReads, ReadThread, TypeOK, HostTyped
  <2>2. (turn'.status = "completed" => turn.status = "completed")
        /\ (turn'.events = turn.events \/ turn'.events = <<>>)
    BY <2>1, PrunedIs
  <2>3. ~Incomplete(turn'.events) => ~Incomplete(turn.events)
    BY <1>0, <2>2 DEF Incomplete
  <2>4. itemDone => Full(text', past')
    BY <2>1 DEF Full
  <2>5. itemDone /\ connected => ItemIn(stream) \/ NoneGiven(stream)
    BY DEF OrderOK
  <2>. QED  BY <2>1, <2>2, <2>3, <2>4, <2>5 DEF OrderOK, serverVars
<1>. QED
  BY <1>1, <1>2, <1>3, <1>4, <1>5 DEF Next, Native, Loop, Reader, vars, nativeVars, OtherHandles, CallHandles,
     Acquire, Release, TakePayload, CallFails, AskEvents, Interrupted, ApplyBatch, ApplySnapshot, PageReadFails,
     ApplyRecovered, ApplyLate, ApplyReread, Finalize, Deadline, PollLost, DrainLate, RecoverDiff, ComeBack,
     ReaderFails, ReaderApplies, Quiet

-----------------------------------------------------------------------------
\* What is given is whole

LEMMA WholeShows == InOrder(Whole, Whole)
<1>1. Whole \in Texts /\ Len(Whole) = MaxChunks /\ (\A i \in 1..MaxChunks : Whole[i] = i) /\ MaxChunks \in Nat
  BY WholeIs, BoundsAssumption
<1>2. 0 \in Nat /\ 0 + MaxChunks <= Len(Whole) /\ \A i \in 1..MaxChunks : Whole[0 + i] = i
  BY <1>1
<1>. QED  BY <1>1, <1>2, PieceShows

LEMMA PayloadShows ==
  ASSUME TypeOK, NEW r \in Replies, Full(r.text, r.past)
  PROVE  Shown(PollApplied(r)) /\ Shown(ReadApplied(r))
<1>1. /\ PollApplied(r).past = (pagePast \/ r.past) /\ PollApplied(r).text = Merged(pageText, r.text)
      /\ ReadApplied(r).past = r.past /\ ReadApplied(r).text = r.text
  BY DEF PollApplied, ReadApplied
<1>2. pageText \in Texts
  BY DEF TypeOK, PageTyped
<1>3. CASE r.past
  BY <1>1, <1>3 DEF Shown
<1>4. CASE r.text = Whole
  BY <1>1, <1>2, <1>4, WholeShows, MergedShows DEF Shown
<1>. QED  BY <1>3, <1>4 DEF Full

LEMMA BatchNone == ASSUME NEW page PROVE BatchApplied(page, <<>>) = page
<1>1. PICK f : Runs(f, page, <<>>, Len(<<>>)) /\ BatchApplied(page, <<>>) = f[Len(<<>>)]
  BY Empty, BatchRuns
<1>. QED  BY <1>1, Empty DEF Runs

\* A list with a completed status in it is concluded while a handler adds to it.
LEMMA HandlerConcludes ==
  ASSUME TypeOK, HostOK, PlacesOK, OrderOK, Concludes(turn.events), HandleOne
  PROVE  Concludes(turn'.events)
<1>1. PICK old, new : old = turn.events /\ new = turn'.events
  OBVIOUS
<1>2. /\ Extends(old, new)
      /\ \A i \in Fresh(old, new) : Completed(new[i]) =>
           /\ i + 1 = Len(new) /\ new[i + 1].kind = "snapshot" /\ Full(new[i + 1].text, new[i + 1].past)
      /\ ~Incomplete(old) => \A i \in Fresh(old, new) : new[i].kind = "status"
  BY <1>1, HandlerOrder
<1>3. Len(old) \in Nat /\ Len(new) \in Nat
  <2>1. turn' \in Turns
    BY HandlerTyped DEF TypeOK, HostTyped
  <2>2. turn'.events \in Seq(Events)
    BY <2>1 DEF Turns
  <2>. QED  BY <1>1, <2>2, EventsLists
<1>4. SUFFICES ASSUME NEW i \in 1..Len(new), Completed(new[i])
               PROVE  /\ i + 1 \in 1..Len(new) /\ new[i + 1].kind = "snapshot"
                      /\ Full(new[i + 1].text, new[i + 1].past)
                      /\ \A j \in i + 2..Len(new) : new[j].kind = "status"
  BY <1>1 DEF Concludes
<1>5. CASE i \in 1..Len(old)
  <2>1. new[i] = old[i]
    BY <1>2, <1>5 DEF Extends
  <2>2. /\ i + 1 \in 1..Len(old) /\ old[i + 1].kind = "snapshot"
        /\ Full(old[i + 1].text, old[i + 1].past)
        /\ \A j \in i + 2..Len(old) : old[j].kind = "status"
    BY <1>1, <1>4, <1>5, <2>1 DEF Concludes
  <2>3. new[i + 1] = old[i + 1] /\ i + 1 \in 1..Len(new)
    BY <1>2, <1>3, <2>2 DEF Extends
  <2>4. ASSUME NEW j \in i + 2..Len(new) PROVE new[j].kind = "status"
    <3>1. CASE j \in 1..Len(old)
      <4>1. j \in i + 2..Len(old) /\ new[j] = old[j]
        BY <1>2, <1>3, <3>1 DEF Extends
      <4>. QED  BY <2>2, <4>1
    <3>2. CASE j \in Fresh(old, new)
      BY <1>2, <1>4, <1>5, <2>1, <3>2 DEF Incomplete
    <3>. QED  BY <1>3, <3>1, <3>2 DEF Fresh
  <2>. QED  BY <2>2, <2>3, <2>4
<1>6. CASE i \in Fresh(old, new)
  <2>1. i + 1 = Len(new) /\ new[i + 1].kind = "snapshot" /\ Full(new[i + 1].text, new[i + 1].past)
    BY <1>2, <1>4, <1>6
  <2>2. i + 1 \in 1..Len(new) /\ \A j : j \notin i + 2..Len(new)
    BY <1>3, <2>1
  <2>. QED  BY <2>1, <2>2
<1>. QED  BY <1>3, <1>5, <1>6 DEF Fresh

LEMMA NoneConcludes == Concludes(<<>>) /\ Incomplete(<<>>) /\ KeepsFrom(<<>>, 1) /\ ~Brings(<<>>)
<1>1. \A i : i \notin 1..Len(<<>>)
  BY Empty
<1>. QED  BY <1>1 DEF Concludes, Incomplete, KeepsFrom, Brings

\* The steps that take events or a payload from the host, or hand the page a failed call.
LEMMA TakeShown ==
  ASSUME TypeOK, ReasonOK, OrderOK, ShownOK, TakeEvents \/ TakePayload \/ CallFails \/ PageReads \/ ReaderReads
  PROVE  ShownOK'
<1>1. /\ Concludes(turn.events) /\ Concludes(reply.events)
      /\ reply.status = "completed" => Full(reply.text, reply.past)
      /\ found.status = "completed" => found.past
      /\ pc \in Looping /\ pageStatus = "completed" => pagePast
  BY DEF ShownOK
<1>2. pc' = "final" => pc = "final"
  BY DEF TakeEvents, TakePayload, CallFails, PageReads, ReaderReads, pageVars
<1>3. pc' \in Looping => pc \in Looping
  BY DEF TakeEvents, TakePayload, CallFails, PageReads, ReaderReads, pageVars, Looping
<1>4. UNCHANGED <<pageText, pagePast, pageStatus, outcome>>
  BY DEF TakeEvents, TakePayload, CallFails, PageReads, ReaderReads, pageVars
<1>5. (pc' \in Looping /\ pageStatus' = "completed" => pagePast')
      /\ (pc' = "final" /\ outcome' = "completed" => Shown(Page)')
  <2>1. Shown(Page) => Shown(Page)'
    BY <1>4 DEF Shown, Page
  <2>. QED  BY <1>1, <1>2, <1>3, <1>4, <2>1 DEF ShownOK
<1>6. turn'.events = turn.events \/ turn'.events = <<>>
  BY PrunedIs DEF TakeEvents, TakePayload, CallFails, PageReads, ReaderReads, ReadThread, nativeVars, TypeOK, HostTyped, Turns
<1>7. Concludes(turn'.events)
  BY <1>1, <1>6, NoneConcludes
<1>8. /\ Answer(PollPayload).status = "completed" => Full(Answer(PollPayload).text, Answer(PollPayload).past)
      /\ Answer(ReadPayload).status = "completed" => Answer(ReadPayload).past
  <2>1. /\ Answer(PollPayload).status = PollPayload.status /\ Answer(PollPayload).text = PollPayload.text
        /\ Answer(PollPayload).past = PollPayload.past
        /\ Answer(ReadPayload).status = ReadPayload.status /\ Answer(ReadPayload).past = ReadPayload.past
    BY DEF Answer, Nothing
  <2>2. PollPayload.status = "completed" => turn.status = "completed"
    BY DEF PollPayload
  <2>3. ReadPayload.status = "completed" => ended = "completed"
    BY DEF ReadPayload
  <2>. QED  BY <2>1, <2>2, <2>3 DEF OrderOK, PollPayload, ReadPayload
<1>9. /\ Concludes(reply'.events)
      /\ reply'.status = "completed" => Full(reply'.text, reply'.past)
      /\ found'.status = "completed" => found'.past
  <2>1. CASE TakeEvents
    <3>1. reply'.status = "" /\ reply'.events = turn.events /\ found' = found
      BY <2>1 DEF TakeEvents, Nothing, readVars
    <3>. QED  BY <1>1, <3>1
  <2>2. CASE TakePayload
    <3>1. reply' = Answer(PollPayload) /\ reply'.events = <<>> /\ found' = found
      BY <2>2, PayloadTypes DEF TakePayload, readVars
    <3>. QED  BY <1>1, <1>8, <3>1, NoneConcludes
  <2>3. CASE CallFails
    <3>1. reply'.status \in {"", "failed"} /\ reply'.events = <<>> /\ found' = found
      <4>1. Nothing.status = "" /\ [Nothing EXCEPT !.status = "failed"].status = "failed"
        BY DEF Nothing
      <4>. QED  BY <2>3, <4>1, PayloadTypes, NothingType DEF CallFails, readVars
    <3>. QED  BY <1>1, <3>1, NoneConcludes
  <2>4. CASE PageReads
    <3>1. reply' = Answer(ReadPayload) /\ reply'.events = <<>> /\ found' = found
      BY <2>4, PayloadTypes DEF PageReads, readVars
    <3>. QED  BY <1>1, <1>8, <3>1, NoneConcludes DEF Full
  <2>5. CASE ReaderReads
    <3>1. found' = Answer(ReadPayload) /\ reply' = reply
      BY <2>5 DEF ReaderReads, pageVars
    <3>. QED  BY <1>1, <1>8, <3>1
  <2>. QED  BY <2>1, <2>2, <2>3, <2>4, <2>5
<1>. QED  BY <1>5, <1>7, <1>9 DEF ShownOK

LEMMA ShownNow ==
  ASSUME NEW page, Show(page), Shown(page)
  PROVE  Shown(Page)'
  BY DEF Show, Shown, Page

\* The steps that change what the page shows.
LEMMA ApplyShown ==
  ASSUME TypeOK, ReasonOK, OrderOK, ShownOK, ApplyBatch \/ ApplySnapshot \/ ApplyRecovered \/ ApplyLate \/ ApplyReread
  PROVE  ShownOK'
<1>1. /\ Concludes(turn.events) /\ Concludes(reply.events)
      /\ reply.status = "completed" => Full(reply.text, reply.past)
      /\ found.status = "completed" => found.past
      /\ pc \in Looping /\ pageStatus = "completed" => pagePast
  BY DEF ShownOK
<1>2. /\ turn' = turn /\ found' = found /\ reply' = Nothing /\ reply'.events = <<>> /\ reply'.status = ""
  <2>1. turn' = turn /\ found' = found /\ reply' = Nothing
    BY DEF ApplyBatch, ApplySnapshot, ApplyRecovered, ApplyLate, ApplyReread, Quiet, nativeVars, readVars
  <2>. QED  BY <2>1 DEF Nothing
<1>3. Page \in Pages(Statuses) /\ reply \in Replies
  BY DEF TypeOK, PageTyped, Page, Pages
<1>4. /\ pc' \in Looping /\ pageStatus' = "completed" => pagePast'
      /\ pc' = "final" /\ outcome' = "completed" => Shown(Page)'
  <2>1. CASE ApplyBatch
    <3>1. PICK page : page = BatchApplied(Page, reply.events)
      OBVIOUS
    <3>2. Show(page) /\ Follow(IF reply.events = <<>> THEN "inProgress" ELSE page.status, {"poll", "top"})
      BY <2>1, <3>1 DEF ApplyBatch
    <3>3. pageStatus' = page.status /\ pagePast' = page.past
      BY <3>2 DEF Show
    <3>4. Page.status = "completed" => Page.past
      BY <1>1, <2>1 DEF ApplyBatch, Looping, Page
    <3>5. CASE reply.events = <<>>
      <4>1. page = Page
        BY <3>1, <3>5, BatchNone
      <4>. QED  BY <3>2, <3>3, <3>4, <3>5, <4>1 DEF Follow
    <3>6. CASE reply.events # <<>>
      <4>1. page.status = "completed" => Shown(page)
        <5>1. Told(reply.events) /\ reply.events \in Seq(Events)
          BY EventsLists DEF TypeOK, AnswersTyped, Told
        <5>. QED  BY <1>1, <1>3, <3>1, <3>4, <5>1, BatchShown
      <4>2. \/ page.status = "inProgress" /\ pc' \in {"poll", "top"}
            \/ page.status # "inProgress" /\ pc' = "final" /\ outcome' = page.status
        BY <3>2, <3>6 DEF Follow
      <4>3. page.status = "completed" => Shown(Page)'
        BY <3>2, <4>1, ShownNow
      <4>. QED  BY <3>3, <4>2, <4>3 DEF Looping
    <3>. QED  BY <3>5, <3>6
  <2>2. CASE ApplySnapshot \/ ApplyLate
    <3>1. /\ Show(PollApplied(reply)) /\ pageStatus' = reply.status
      BY <2>2 DEF ApplySnapshot, ApplyLate, Show, PollApplied
    <3>2. \/ pc' \in Looping /\ reply.status = "inProgress"
          \/ pc' = "final" /\ outcome' = reply.status
      BY <2>2 DEF ApplySnapshot, ApplyLate, Follow, Looping
    <3>3. reply.status = "completed" => Shown(PollApplied(reply))
      BY <1>1, <1>3, PayloadShows
    <3>4. reply.status = "completed" => Shown(Page)'
      BY <3>1, <3>3, ShownNow
    <3>. QED  BY <3>1, <3>2, <3>4 DEF Looping
  <2>3. CASE ApplyRecovered
    <3>1. pc' = "done" \/ (pc' = "final" /\ outcome' = reply.status)
      BY <2>3 DEF ApplyRecovered, Finish
    <3>2. ASSUME reply.status = "completed" PROVE Shown(Page)'
      <4>1. PICK page : page = [ReadApplied(reply) EXCEPT !.status = IF @ = "inProgress" THEN "failed" ELSE @]
        OBVIOUS
      <4>2. page.text = ReadApplied(reply).text /\ page.past = ReadApplied(reply).past
        BY <4>1 DEF ReadApplied
      <4>3. Shown(page)
        BY <1>1, <1>3, <3>2, <4>2, PayloadShows DEF Shown
      <4>4. Show(page)
        BY <2>3, <4>1 DEF ApplyRecovered
      <4>. QED  BY <4>3, <4>4, ShownNow
    <3>. QED  BY <3>1, <3>2 DEF Looping
  <2>4. CASE ApplyReread
    BY <2>4 DEF ApplyReread, Finish, Looping
  <2>. QED  BY <2>1, <2>2, <2>3, <2>4
<1>. QED  BY <1>1, <1>2, <1>4, NoneConcludes DEF ShownOK

LEMMA ShownStep == TypeOK /\ ReasonOK /\ OrderOK /\ ShownOK /\ [Next]_vars => ShownOK'
<1>. SUFFICES ASSUME TypeOK, ReasonOK, OrderOK, ShownOK, [Next]_vars PROVE ShownOK'
  OBVIOUS
<1>1. CASE UNCHANGED <<turn, reply, found, pc, pageText, pagePast, pageStatus, outcome>>
  BY <1>1 DEF ShownOK, Page, Shown
<1>2. CASE HandleOne
  <2>1. Concludes(turn'.events)
    BY <1>2, HandlerConcludes DEF ShownOK, ReasonOK
  <2>. QED  BY <1>2, <2>1 DEF ShownOK, HandleOne, pageVars, readVars, Page, Shown
<1>3. CASE TakeEvents \/ TakePayload \/ CallFails \/ PageReads \/ ReaderReads
  BY <1>3, TakeShown
<1>4. CASE ApplyBatch \/ ApplySnapshot \/ ApplyRecovered \/ ApplyLate \/ ApplyReread
  BY <1>4, ApplyShown
<1>5. CASE ReaderApplies
  <2>1. /\ UNCHANGED <<turn, reply, pc, outcome>> /\ pc # "final" /\ found'.status = ""
        /\ pageStatus' = found.status /\ pagePast' = found.past
    BY <1>5 DEF ReaderApplies, nativeVars, Nothing, Show, ReadApplied
  <2>. QED  BY <2>1 DEF ShownOK
<1>6. CASE CallHandles \/ Release
  <2>1. /\ UNCHANGED <<turn, reply, found, pageText, pagePast, pageStatus, outcome>>
        /\ pc' = "final" => pc' = pc
        /\ pc' \in Looping => pc \in Looping
    BY <1>6 DEF CallHandles, Release, Acquire, pageVars, readVars, Back, Looping, ReasonOK, PlacesOK, Calls, TypeOK, HostTyped
  <2>. QED  BY <2>1 DEF ShownOK, Page, Shown
<1>7. CASE AskEvents \/ PollLost \/ DrainLate \/ RecoverDiff \/ Finalize
  <2>1. /\ UNCHANGED <<turn, reply, found, pageText, pagePast, pageStatus>>
        /\ pc' # "final"
        /\ pc' \in Looping => pc \in Looping
    BY <1>7 DEF AskEvents, PollLost, DrainLate, RecoverDiff, Finalize, Finish, Quiet, nativeVars, readVars, Looping
  <2>. QED  BY <2>1 DEF ShownOK
<1>8. CASE Interrupted \/ Deadline \/ PageReadFails
  <2>1. UNCHANGED <<turn, reply, found>> /\ pc' = "done"
    BY <1>8 DEF Interrupted, Deadline, PageReadFails, Finish, Quiet, nativeVars, readVars
  <2>. QED  BY <2>1 DEF ShownOK, Looping
<1>. QED
  BY <1>1, <1>2, <1>3, <1>4, <1>5, <1>6, <1>7, <1>8 DEF Next, Native, Loop, Reader, vars, nativeVars, pageVars, readVars,
     OtherHandles, Acquire, Server, ComeBack, ReaderFails

\* A page that reports a completed turn shows its answer.
LEMMA ShownEnd ==
  ASSUME TypeOK, ReasonOK, OrderOK, ShownOK, [Next]_vars,
         pc # "done", pc' = "done", outcome' = "completed", connected
  PROVE  pagePast' \/ InOrder(Whole, pageText') \/ Repeats(pageText')
<1>1. CASE Finalize
  <2>1. Shown(Page) /\ pagePast' = pagePast /\ pageText' = pageText
    BY <1>1 DEF Finalize, Finish, ShownOK
  <2>. QED  BY <2>1 DEF Shown, Page
<1>2. CASE ApplyReread
  <2>1. reply \in Replies /\ Full(reply.text, reply.past)
    BY <1>2 DEF ApplyReread, Finish, ShownOK, TypeOK, PageTyped
  <2>2. Shown(ReadApplied(reply)) /\ Show(ReadApplied(reply))
    BY <1>2, <2>1, PayloadShows DEF ApplyReread
  <2>3. Shown(Page)'
    BY <2>2, ShownNow
  <2>. QED  BY <2>3 DEF Shown, Page
<1>3. ~(\/ Interrupted \/ Deadline \/ PageReadFails \/ ApplyRecovered)
  BY DEF Interrupted, Deadline, PageReadFails, ApplyRecovered, Finish
<1>4. ~(\/ ApplyBatch \/ ApplySnapshot \/ ApplyLate \/ CallHandles \/ Release)
  BY DEF ApplyBatch, ApplySnapshot, ApplyLate, Follow, CallHandles, Release, Acquire, Back, pageVars,
         TypeOK, HostTyped, Calls
<1>. QED
  BY <1>1, <1>2, <1>3, <1>4 DEF Next, Native, Loop, Reader, vars, pageVars, HandleOne, OtherHandles, Acquire,
     TakeEvents, TakePayload, CallFails, AskEvents, PollLost, DrainLate, RecoverDiff, PageReads,
     ComeBack, ReaderReads, ReaderFails, ReaderApplies

-----------------------------------------------------------------------------
\* A page that reads no history is given the answer exactly once

LEMMA ServerExact ==
  ASSUME TypeOK, ReasonOK, OrderOK, ExactOK, Server, UNCHANGED <<pageVars, readVars>>
  PROVE  ExactOK'
<1>. SUFFICES ASSUME reads = 0, pc \in Looping
              PROVE  /\ pageStatus # "completed"
                     /\ reply.events # <<>> => pc = "batch"
                     /\ ~Incomplete(reply.events) => itemDone'
                     /\ itemDone' => \/ (ItemIn(stream') \/ ~connected') /\ Incomplete(turn.events) /\ Incomplete(reply.events)
                                     \/ NoneGiven(stream') /\ text = Whole /\ Exact
  <2>1. UNCHANGED <<turn, text, reply, pc, reads, pageStatus, pageText>>
    BY DEF Server, nativeVars, pageVars, readVars
  <2>2. Exact => Exact'
    BY <2>1 DEF Exact
  <2>. QED  BY <2>1, <2>2 DEF ExactOK
<1>1. /\ pageStatus # "completed"
      /\ reply.events # <<>> => pc = "batch"
      /\ ~Incomplete(reply.events) => itemDone
      /\ itemDone => \/ (ItemIn(stream) \/ ~connected) /\ Incomplete(turn.events) /\ Incomplete(reply.events)
                     \/ NoneGiven(stream) /\ text = Whole /\ Exact
  BY DEF ExactOK
<1>2. /\ stream \in Seq(Notes) /\ Ordered(stream) /\ (ItemIn(stream) => itemDone) /\ (itemDone => said = MaxChunks)
      /\ ~Incomplete(turn.events) => ended # "inProgress"
      /\ MaxChunks \in Nat
  BY BoundsAssumption DEF TypeOK, HostTyped, OrderOK
<1>3. ended = "inProgress" => \A i \in 1..Len(stream) : stream[i].kind # "turnCompleted"
  BY DEF ReasonOK, HostOK, StreamSound, Terminal
<1>4. CASE Say
  <2>1. ~itemDone /\ itemDone' = itemDone
    BY <1>2, <1>4 DEF Say
  <2>. QED  BY <1>1, <2>1
<1>5. CASE CompleteItem
  <2>1. PICK n \in Notes : n.kind = "itemCompleted" /\ n.text = Whole /\ stream' = Append(stream, n)
    BY <1>5, NotesTyped DEF CompleteItem, Emit, Note
  <2>2. ended = "inProgress" /\ ~itemDone
    BY <1>5 DEF CompleteItem
  <2>3. ItemIn(stream')
    BY <1>2, <1>3, <2>1, <2>2, OrderAppends
  <2>. QED  BY <1>1, <1>2, <2>2, <2>3
<1>6. CASE Disconnect
  <2>1. itemDone' = itemDone /\ ~connected' /\ stream' = <<>>
    BY <1>6 DEF Disconnect
  <2>2. NoneGiven(stream')
    <3>1. \A i : i \notin 1..Len(<<>>)
      BY Empty
    <3>. QED  BY <2>1, <3>1 DEF NoneGiven
  <2>. QED  BY <1>1, <2>1, <2>2
<1>7. CASE Report \/ Break
  <2>1. \E n \in Notes : /\ n.kind \in {"progress", "error"} /\ stream' = Append(stream, n)
                         /\ n.kind = "error" => ended = "inProgress"
    <3>1. CASE Report
      BY <3>1, NotesTyped DEF Report, Emit, Note
    <3>2. CASE Break
      BY <3>2, NotesTyped DEF Break, Emit, Note
    <3>. QED  BY <1>7, <3>1, <3>2
  <2>2. itemDone' = itemDone /\ connected' = connected
    BY <1>7 DEF Report, Break
  <2>3. (ItemIn(stream') <=> ItemIn(stream)) /\ (NoneGiven(stream) => NoneGiven(stream'))
    <3>1. PICK n \in Notes : /\ n.kind \in {"progress", "error"} /\ stream' = Append(stream, n)
                             /\ n.kind = "error" => ended = "inProgress"
      BY <2>1
    <3>2. ~Given(n) /\ n.kind # "itemCompleted"
      BY <3>1 DEF Given
    <3>. QED  BY <1>2, <1>3, <3>1, <3>2, OrderAppends
  <2>. QED  BY <1>1, <2>2, <2>3
<1>8. ASSUME NEW s \in Terminal, EndTurn(s)
      PROVE  itemDone' = itemDone /\ connected' = connected
               /\ (ItemIn(stream) => ItemIn(stream')) /\ (NoneGiven(stream) => NoneGiven(stream'))
  <2>1. ended = "inProgress"
    BY <1>8 DEF EndTurn
  <2>. QED  BY <1>2, <1>3, <1>8, <2>1, EndAppends
<1>. QED  BY <1>1, <1>4, <1>5, <1>6, <1>7, <1>8 DEF Server

\* What a handler adds while the answer is whole keeps it so.
LEMMA HandlerKeeps ==
  ASSUME NEW old, NEW new, Len(old) \in Nat, Len(new) \in Nat, Extends(old, new),
         \A i \in Fresh(old, new) : Keeps(new[i])
  PROVE  /\ Brings(old) => Brings(new)
         /\ KeepsFrom(old, 1) => KeepsFrom(new, 1)
<1>1. ASSUME NEW i \in 1..Len(old) + 1, KeepsFrom(old, i) PROVE KeepsFrom(new, i)
  <2>1. SUFFICES ASSUME NEW j \in i..Len(new) PROVE Keeps(new[j])
    BY DEF KeepsFrom
  <2>2. CASE j \in 1..Len(old)
    <3>1. j \in i..Len(old) /\ new[j] = old[j]
      BY <2>2 DEF Extends
    <3>. QED  BY <1>1, <3>1 DEF KeepsFrom
  <2>3. CASE j \in Fresh(old, new)
    BY <2>3
  <2>. QED  BY <2>2, <2>3 DEF Fresh
<1>2. Brings(old) => Brings(new)
  <2>1. SUFFICES ASSUME NEW i \in 1..Len(old), old[i].kind = "replaced", old[i].text = Whole, KeepsFrom(old, i + 1)
                 PROVE  Brings(new)
    BY DEF Brings
  <2>2. i \in 1..Len(new) /\ new[i] = old[i] /\ i + 1 \in 1..Len(old) + 1
    BY DEF Extends
  <2>3. KeepsFrom(new, i + 1)
    BY <1>1, <2>1, <2>2
  <2>. QED  BY <2>1, <2>2, <2>3 DEF Brings
<1>3. 1 \in 1..Len(old) + 1
  OBVIOUS
<1>. QED  BY <1>1, <1>2, <1>3

LEMMA HandlerExact ==
  ASSUME TypeOK, ReasonOK, OrderOK, ExactOK, HandleOne
  PROVE  ExactOK'
<1>1. PICK n : HandlerEffect(n) /\ HandlerGives(n)
  <2>1. HandlerEffect(Head(stream)) /\ HandlerGives(Head(stream))
    BY HandlerDoes, HandlerAdds DEF TypeOK, HandleOne
  <2>. QED  BY <2>1
<1>2. /\ UNCHANGED <<itemDone, connected, past>> /\ connected
      /\ stream \in Seq(Notes) /\ stream # <<>> /\ n = stream[1] /\ n \in Notes /\ stream' = Tail(stream)
      /\ UNCHANGED <<reply, pc, reads, pageStatus, pageText>>
  BY <1>1 DEF HandlerEffect, TypeOK, HostTyped, serverVars, ReasonOK, PlacesOK, HandleOne, pageVars, readVars
<1>. SUFFICES ASSUME reads = 0, pc \in Looping, itemDone
              PROVE  \/ ItemIn(stream') /\ Incomplete(turn'.events) /\ Incomplete(reply.events)
                     \/ NoneGiven(stream') /\ text' = Whole /\ Exact'
  BY <1>2 DEF ExactOK
<1>3. \/ ItemIn(stream) /\ Incomplete(turn.events) /\ Incomplete(reply.events)
      \/ NoneGiven(stream) /\ text = Whole /\ Exact
  BY <1>2 DEF ExactOK
<1>4. /\ NoneGiven(stream) => NoneGiven(stream') /\ ~Given(n)
      /\ n.kind = "itemCompleted" => NoneGiven(stream') /\ n.text = Whole
      /\ ItemIn(stream) => n.kind = "itemCompleted" \/ ItemIn(stream')
  BY <1>2, OrderTail DEF OrderOK
<1>5. n.kind \in {"turnStarted", "progress", "delta", "itemCompleted", "turnCompleted", "error"}
  BY <1>2 DEF Notes, NoteKinds
<1>6. /\ Extends(turn.events, turn'.events) /\ Len(turn.events) \in Nat /\ Len(turn'.events) \in Nat
      /\ OrderOK'
  <2>1. turn'.events \in Seq(Events)
    <3>1. turn' \in Turns
      BY <1>1 DEF HandlerEffect
    <3>. QED  BY <3>1 DEF Turns
  <2>. QED  BY <1>1, <2>1, EventsLists, HandlerOrder DEF HandlerGives, ReasonOK
<1>7. CASE ItemIn(stream) /\ Incomplete(turn.events) /\ Incomplete(reply.events) /\ n.kind = "itemCompleted"
  <2>1. /\ text' = Whole /\ Len(turn'.events) = Len(turn.events) + 1
        /\ turn'.events[Len(turn.events) + 1].kind = "replaced"
        /\ turn'.events[Len(turn.events) + 1].text = Whole
    BY <1>1, <1>4, <1>7 DEF HandlerGives
  <2>2. Len(turn.events) + 1 \in 1..Len(turn'.events) /\ \A j : j \notin (Len(turn.events) + 1) + 1..Len(turn'.events)
    BY <1>6, <2>1
  <2>3. Brings(turn'.events)
    BY <2>1, <2>2 DEF Brings, KeepsFrom
  <2>4. Exact'
    BY <1>2, <1>7, <2>3 DEF Exact
  <2>. QED  BY <1>4, <1>7, <2>1, <2>4
<1>8. CASE ItemIn(stream) /\ Incomplete(turn.events) /\ Incomplete(reply.events) /\ n.kind # "itemCompleted"
  <2>1. ItemIn(stream')
    BY <1>4, <1>8
  <2>2. ~OnlyReports(stream')
    BY <2>1 DEF ItemIn, OnlyReports
  <2>3. Incomplete(turn'.events)
    BY <1>6, <2>2 DEF OrderOK
  <2>. QED  BY <1>8, <2>1, <2>3
<1>9. CASE NoneGiven(stream) /\ text = Whole /\ Exact
  <2>1. n.kind \in {"turnStarted", "progress"} \cup Fatal
    BY <1>4, <1>5, <1>9 DEF Given, Fatal
  <2>2. text' = text
    BY <1>1, <2>1 DEF HandlerGives
  <2>3. ASSUME NEW i \in Fresh(turn.events, turn'.events) PROVE Keeps(turn'.events[i])
    <3>1. CASE n.kind \in {"turnStarted", "progress"}
      BY <1>1, <2>3, <3>1 DEF HandlerGives, Keeps
    <3>2. CASE n.kind \in Fatal
      BY <1>1, <1>9, <2>3, <3>2 DEF HandlerGives, Keeps
    <3>. QED  BY <2>1, <3>1, <3>2
  <2>4. /\ Brings(turn.events) => Brings(turn'.events)
        /\ KeepsFrom(turn.events, 1) => KeepsFrom(turn'.events, 1)
    BY <1>6, <2>3, HandlerKeeps
  <2>5. Exact'
    BY <1>2, <1>9, <2>4 DEF Exact
  <2>. QED  BY <1>4, <1>9, <2>2, <2>5
<1>. QED  BY <1>3, <1>7, <1>8, <1>9

\* Once the item is handled and the page has or is given the answer, a batch leaves it there.
LEMMA BatchExact ==
  ASSUME TypeOK, Brings(reply.events) \/ (pageText = Whole /\ KeepsFrom(reply.events, 1))
  PROVE  BatchApplied(Page, reply.events).text = Whole
<1>1. /\ Page \in Pages(Statuses) /\ Page.text = pageText
      /\ reply.events \in Seq(Events) /\ Len(reply.events) \in Nat /\ Told(reply.events)
  BY EventsLists DEF TypeOK, PageTyped, AnswersTyped, Page, Pages, Told
<1>2. CASE Brings(reply.events)
  <2>1. PICK i \in 1..Len(reply.events) :
          reply.events[i].kind = "replaced" /\ reply.events[i].text = Whole /\ KeepsFrom(reply.events, i + 1)
    BY <1>2 DEF Brings
  <2>2. i \in 0..Len(reply.events) /\ i # 0
    BY <1>1
  <2>. QED  BY <1>1, <2>1, <2>2, BatchKeeps
<1>3. CASE pageText = Whole /\ KeepsFrom(reply.events, 1)
  <2>1. 0 \in 0..Len(reply.events) /\ KeepsFrom(reply.events, 0 + 1)
    BY <1>1, <1>3
  <2>. QED  BY <1>1, <1>3, <2>1, BatchKeeps
<1>. QED  BY <1>2, <1>3

LEMMA CallExact ==
  ASSUME TypeOK, ReasonOK, OrderOK, ExactOK, TakeEvents \/ TakePayload \/ CallFails
  PROVE  ExactOK'
<1>0. UNCHANGED <<stream, itemDone, connected, text, reads, pageStatus, pageText>>
  BY DEF TakeEvents, TakePayload, CallFails, serverVars, nativeVars, readVars
<1>. SUFFICES ASSUME reads = 0, pc' \in Looping
              PROVE  /\ pageStatus # "completed"
                     /\ reply'.events # <<>> => pc' = "batch"
                     /\ ~Incomplete(reply'.events) => itemDone
                     /\ itemDone => \/ (ItemIn(stream) \/ ~connected) /\ Incomplete(turn'.events) /\ Incomplete(reply'.events)
                                    \/ NoneGiven(stream) /\ text = Whole /\ Exact'
  BY <1>0 DEF ExactOK
<1>1. pc \in Looping /\ pc # "batch"
  BY DEF TakeEvents, TakePayload, CallFails, Looping
<1>2. /\ pageStatus # "completed" /\ reply.events = <<>>
      /\ itemDone => \/ (ItemIn(stream) \/ ~connected) /\ Incomplete(turn.events)
                     \/ NoneGiven(stream) /\ text = Whole /\ Exact
      /\ ~Incomplete(turn.events) => itemDone
  BY <1>1 DEF ExactOK, OrderOK
<1>3. Exact => Brings(turn.events) \/ (pageText = Whole /\ KeepsFrom(turn.events, 1))
  BY <1>2, NoneConcludes DEF Exact
<1>4. CASE TakeEvents
  <2>1. reply'.events = turn.events /\ turn'.events = <<>> /\ pc' = "batch"
    BY <1>4 DEF TakeEvents, Nothing, TypeOK, HostTyped, Turns
  <2>2. Exact => Exact'
    BY <1>0, <1>3, <2>1, NoneConcludes DEF Exact
  <2>. QED  BY <1>2, <2>1, <2>2, NoneConcludes
<1>5. CASE TakePayload
  <2>1. pc' = "snapshot" /\ reply' = Answer(PollPayload) /\ reply'.events = <<>> /\ turn' = turn
    BY <1>5, PayloadTypes DEF TakePayload, Looping, nativeVars
  <2>2. reply'.text = text
    BY <2>1 DEF Answer, PollPayload, Nothing
  <2>3. text = Whole /\ Exact => Exact'
    BY <1>0, <1>3, <2>1, <2>2, NoneConcludes DEF Exact
  <2>. QED  BY <1>2, <2>1, <2>3, NoneConcludes
<1>6. CASE CallFails
  <2>1. reply'.events = <<>> /\ reply'.text = <<>> /\ turn' = turn
    <3>1. Nothing.text = <<>> /\ [Nothing EXCEPT !.status = "failed"].text = <<>>
      BY DEF Nothing
    <3>. QED  BY <1>6, <3>1, PayloadTypes, NothingType DEF CallFails, nativeVars
  <2>2. Exact => Exact'
    BY <1>0, <1>3, <2>1, NoneConcludes DEF Exact
  <2>. QED  BY <1>2, <2>1, <2>2, NoneConcludes
<1>. QED  BY <1>4, <1>5, <1>6

LEMMA FollowExact ==
  ASSUME TypeOK, ReasonOK, ExactOK, ApplyBatch \/ ApplySnapshot
  PROVE  ExactOK'
<1>0. /\ UNCHANGED <<stream, itemDone, connected, text, reads, turn>> /\ reply' = Nothing /\ reply'.events = <<>>
  BY NothingType DEF ApplyBatch, ApplySnapshot, Quiet, serverVars, nativeVars, readVars
<1>. SUFFICES ASSUME reads = 0, pc' \in Looping
              PROVE  /\ pageStatus' # "completed"
                     /\ itemDone => \/ (ItemIn(stream) \/ ~connected) /\ Incomplete(turn.events)
                                    \/ NoneGiven(stream) /\ text = Whole /\ Exact'
  BY <1>0, NoneConcludes DEF ExactOK
<1>1. pc \in {"batch", "snapshot"} /\ pc \in Looping
  BY DEF ApplyBatch, ApplySnapshot, Looping
<1>2. /\ pageStatus # "completed" /\ (reply.events # <<>> => pc = "batch")
      /\ itemDone => \/ (ItemIn(stream) \/ ~connected) /\ Incomplete(turn.events)
                     \/ NoneGiven(stream) /\ text = Whole /\ Exact
  BY <1>1 DEF ExactOK
<1>3. pc' # "snapshot"
  BY DEF ApplyBatch, ApplySnapshot, Follow
<1>4. CASE ApplyBatch
  <2>1. PICK page : page = BatchApplied(Page, reply.events)
    OBVIOUS
  <2>2. Show(page) /\ Follow(IF reply.events = <<>> THEN "inProgress" ELSE page.status, {"poll", "top"})
    BY <1>4, <2>1 DEF ApplyBatch
  <2>3. pageStatus' = page.status /\ pageText' = page.text
    BY <2>2 DEF Show
  <2>4. pageStatus' # "completed"
    <3>1. CASE reply.events = <<>>
      BY <1>2, <2>1, <2>3, <3>1, BatchNone DEF Page
    <3>2. CASE reply.events # <<>>
      BY <2>2, <2>3, <3>2 DEF Follow, Looping
    <3>. QED  BY <3>1, <3>2
  <2>5. Exact => Exact'
    <3>1. CASE Brings(turn.events)
      BY <1>0, <3>1, NoneConcludes DEF Exact
    <3>2. CASE /\ Brings(reply.events) \/ (pageText = Whole /\ KeepsFrom(reply.events, 1))
               /\ KeepsFrom(turn.events, 1)
      <4>1. pageText' = Whole
        BY <2>1, <2>3, <3>2, BatchExact
      <4>. QED  BY <1>0, <1>3, <3>2, <4>1, NoneConcludes DEF Exact
    <3>. QED  BY <3>1, <3>2 DEF Exact
  <2>. QED  BY <1>2, <2>4, <2>5
<1>5. CASE ApplySnapshot
  <2>1. pc = "snapshot" /\ pageStatus' = reply.status /\ pageText' = Merged(pageText, reply.text)
    BY <1>5 DEF ApplySnapshot, Show, PollApplied
  <2>2. pageStatus' # "completed"
    BY <1>5, <2>1 DEF ApplySnapshot, Follow, Looping
  <2>3. Exact => Exact'
    <3>1. CASE Brings(turn.events)
      BY <1>0, <3>1, NoneConcludes DEF Exact
    <3>2. CASE /\ pageText = Whole /\ KeepsFrom(turn.events, 1)
               /\ reply.text \in {Whole, <<>>}
      <4>1. pageText' = Whole
        BY <2>1, <3>2, MergedKeeps
      <4>. QED  BY <1>0, <1>3, <3>2, <4>1, NoneConcludes DEF Exact
    <3>3. reply.events = <<>>
      BY <1>2, <2>1
    <3>. QED  BY <2>1, <3>1, <3>2, <3>3, NoneConcludes DEF Exact
  <2>. QED  BY <1>2, <2>2, <2>3
<1>. QED  BY <1>4, <1>5

LEMMA ExactStep == TypeOK /\ ReasonOK /\ OrderOK /\ ExactOK /\ [Next]_vars => ExactOK'
<1>. SUFFICES ASSUME TypeOK, ReasonOK, OrderOK, ExactOK, [Next]_vars PROVE ExactOK'
  OBVIOUS
<1>1. CASE UNCHANGED vars
  BY <1>1 DEF vars, serverVars, nativeVars, pageVars, readVars, ExactOK, Exact
<1>2. CASE Server /\ UNCHANGED <<pageVars, readVars>>
  BY <1>2, ServerExact
<1>3. CASE HandleOne
  BY <1>3, HandlerExact
<1>4. CASE TakeEvents \/ TakePayload \/ CallFails
  BY <1>4, CallExact
<1>5. CASE ApplyBatch \/ ApplySnapshot
  BY <1>5, FollowExact
<1>6. CASE OtherHandles \/ CallHandles \/ Release \/ AskEvents
  <2>1. /\ UNCHANGED <<stream, itemDone, connected, text, reads, turn, reply, pageStatus, pageText>>
        /\ pc' \in Looping => pc \in Looping
        /\ pc' = "snapshot" => pc = "snapshot"
        /\ pc = "batch" => pc' = "batch"
    BY <1>6 DEF OtherHandles, CallHandles, Release, AskEvents, Acquire, Quiet, serverVars, nativeVars, pageVars, readVars,
                Back, Looping, ReasonOK, PlacesOK, Calls, TypeOK, HostTyped
  <2>. QED  BY <2>1 DEF ExactOK, Exact
<1>7. CASE \/ Interrupted \/ Deadline \/ PollLost \/ PageReads \/ PageReadFails
           \/ ApplyRecovered \/ DrainLate \/ ApplyLate \/ RecoverDiff \/ ApplyReread \/ Finalize
  <2>1. pc' \notin Looping
    BY <1>7 DEF Interrupted, Deadline, PollLost, PageReads, PageReadFails, ApplyRecovered, DrainLate, ApplyLate,
                RecoverDiff, ApplyReread, Finalize, Finish, Looping
  <2>. QED  BY <2>1 DEF ExactOK
<1>8. CASE ComeBack \/ ReaderReads \/ ReaderFails \/ ReaderApplies
  <2>1. reads' # 0
    BY <1>8 DEF ComeBack, ReaderReads, ReaderFails, ReaderApplies, ReasonOK, PlacesOK, TypeOK, PageTyped
  <2>. QED  BY <2>1 DEF ExactOK
<1>. QED
  BY <1>1, <1>2, <1>3, <1>4, <1>5, <1>6, <1>7, <1>8 DEF Next, Native, Loop, Reader

\* An end that comes with a batch comes from a completed status in it.
LEMMA ExactEnd ==
  ASSUME TypeOK, ExactOK, [Next]_vars,
         pc = "batch", pc' = "final", outcome' = "completed", reads = 0
  PROVE  pageText' = Whole
<1>1. ApplyBatch
  BY DEF Next, Native, Loop, Reader, vars, pageVars, HandleOne, OtherHandles, CallHandles, Acquire, Release, Calls,
     TakeEvents, TakePayload, CallFails, AskEvents, Interrupted, Deadline, ApplySnapshot, PollLost, PageReads,
     PageReadFails, ApplyRecovered, DrainLate, ApplyLate, RecoverDiff, ApplyReread, Finalize,
     ComeBack, ReaderReads, ReaderFails, ReaderApplies, PlacesOK, TypeOK, HostTyped, Back
<1>2. PICK page : page = BatchApplied(Page, reply.events)
  OBVIOUS
<1>3. page.status = "completed" /\ pageText' = page.text
  BY <1>1, <1>2 DEF ApplyBatch, Show, Follow
<1>4. ~Incomplete(reply.events)
  <2>. DEFINE S == Statuses \ {"completed"}
  <2>1. SUFFICES ASSUME Incomplete(reply.events) PROVE FALSE
    OBVIOUS
  <2>2. \A i \in 1..Len(reply.events) : reply.events[i].kind = "status" => reply.events[i].status \in S
    BY <2>1 DEF TypeOK, AnswersTyped, Incomplete, Completed
  <2>3. pageStatus \in S /\ S \subseteq Statuses
    BY DEF TypeOK, PageTyped, ExactOK, Looping
  <2>4. page \in Pages(S)
    <3>. HIDE DEF S
    <3>. QED  BY <1>2, <2>2, <2>3, ShownTypes
  <2>. QED  BY <1>3, <2>4 DEF Pages
<1>5. Exact
  BY <1>4 DEF ExactOK, Looping
<1>6. Brings(reply.events) \/ (pageText = Whole /\ KeepsFrom(reply.events, 1))
  BY <1>4, <1>5 DEF Exact
<1>. QED  BY <1>2, <1>3, <1>6, BatchExact

LEMMA InitWhole == Init => OrderOK /\ ShownOK /\ ExactOK
<1>. SUFFICES ASSUME Init PROVE OrderOK /\ ShownOK /\ ExactOK
  OBVIOUS
<1>1. /\ turn.status = "inProgress" /\ turn.events = <<>> /\ reply.events = <<>>
      /\ reply.status = "" /\ found.status = ""
  BY UnknownType DEF Init, Nothing
<1>2. Len(stream) = 1 /\ stream[1] = Note("turnStarted", <<>>, "inProgress")
  BY DEF Init
<1>3. \A i \in 1..Len(stream) : stream[i].kind = "turnStarted"
  BY <1>2 DEF Note
<1>4. Ordered(stream) /\ ~ItemIn(stream)
  BY <1>3 DEF Ordered, ItemIn
<1>5. OrderOK
  BY <1>1, <1>4, NoneConcludes DEF Init, OrderOK
<1>6. ShownOK
  BY <1>1, NoneConcludes DEF Init, ShownOK
<1>7. ExactOK
  BY <1>1, NoneConcludes DEF Init, ExactOK
<1>. QED  BY <1>5, <1>6, <1>7

WholeOK == TypeOK /\ ReasonOK /\ OrderOK /\ ShownOK /\ ExactOK

LEMMA WholeInvariant == Spec => []WholeOK
<1>1. Init => WholeOK
  BY InitTyped, InitReason, InitWhole DEF ReasonOK, WholeOK
<1>2. WholeOK /\ [Next]_vars => WholeOK'
  BY TypeStep, ReasonStep, OrderStep, ShownStep, ExactStep DEF WholeOK
<1>. QED  BY <1>1, <1>2, PTL DEF Spec

\* However events, polls, reads and late updates interleave, a page that reports a completed
\* turn over a live connection shows the whole answer, as streamed or as in the history, or
\* some of it twice (CodexBackend.ets, mergeThreadMessageContent).
THEOREM CompletedShown == Spec => CompletedIsShown
<1>1. WholeOK /\ [Next]_vars =>
        [pc # "done" /\ pc' = "done" /\ outcome' = "completed" /\ connected
           => pagePast' \/ InOrder(Whole, pageText') \/ Repeats(pageText')]_vars
  BY ShownEnd DEF WholeOK
<1>. QED  BY <1>1, WholeInvariant, PTL DEF Spec, CompletedIsShown

\* A page that read no history meanwhile and was told of the end by events shows the answer
\* exactly (lib.rs, push_turn_snapshot_event).
THEOREM EventEndExact == Spec => EventEndIsExact
<1>1. WholeOK /\ [Next]_vars =>
        [pc = "batch" /\ pc' = "final" /\ outcome' = "completed" /\ reads = 0 => pageText' = Whole]_vars
  BY ExactEnd DEF WholeOK
<1>. QED  BY <1>1, WholeInvariant, PTL DEF Spec, EventEndIsExact

-----------------------------------------------------------------------------
(* Texts in order, and what events tell of them *)

LEMMA InOrderEmpty == ASSUME NEW t PROVE InOrder(<<>>, t)
<1>. DEFINE at == [i \in 1..Len(<<>>) |-> 1]
<1>1. \A i : i \notin 1..Len(<<>>)
  BY Empty
<1>2. at \in [1..Len(<<>>) -> 1..Len(t)]
  BY <1>1
<1>. QED  BY <1>1, <1>2 DEF InOrder

LEMMA InOrderSelf == ASSUME NEW t \in Texts PROVE InOrder(t, t)
<1>1. 0 \in Nat /\ 0 + Len(t) <= Len(t) /\ \A i \in 1..Len(t) : t[0 + i] = t[i]
  BY DEF Texts
<1>. QED  BY <1>1, PieceInOrder

LEMMA InOrderNone == ASSUME NEW t \in Texts, InOrder(t, <<>>) PROVE t = <<>>
<1>1. PICK at : at \in [1..Len(t) -> 1..Len(<<>>)]
  BY DEF InOrder
<1>2. \A i : i \notin 1..Len(<<>>)
  BY Empty
<1>3. \A i : i \notin 1..Len(t)
  <2>1. ASSUME NEW i \in 1..Len(t) PROVE FALSE
    <3>1. at[i] \in 1..Len(<<>>)
      BY <1>1
    <3>. QED  BY <1>2, <3>1
  <2>. QED  BY <2>1
<1>4. Len(t) = 0
  <2>1. Len(t) \in Nat
    BY DEF Texts
  <2>2. Len(t) # 0 => 1 \in 1..Len(t)
    BY <2>1
  <2>. QED  BY <1>3, <2>2
<1>. QED  BY <1>4 DEF Texts

LEMMA InOrderTrans ==
  ASSUME NEW a \in Texts, NEW b \in Texts, NEW c \in Texts, InOrder(a, b), InOrder(b, c)
  PROVE  InOrder(a, c)
<1>1. PICK at \in [1..Len(a) -> 1..Len(b)] :
        /\ \A i \in 1..Len(a) : b[at[i]] = a[i]
        /\ \A i, j \in 1..Len(a) : i < j => at[i] < at[j]
  BY DEF InOrder
<1>2. PICK on \in [1..Len(b) -> 1..Len(c)] :
        /\ \A i \in 1..Len(b) : c[on[i]] = b[i]
        /\ \A i, j \in 1..Len(b) : i < j => on[i] < on[j]
  BY DEF InOrder
<1>. DEFINE to == [i \in 1..Len(a) |-> on[at[i]]]
<1>3. \A i \in 1..Len(a) : to[i] = on[at[i]] /\ at[i] \in 1..Len(b) /\ to[i] \in 1..Len(c)
  OBVIOUS
<1>4. to \in [1..Len(a) -> 1..Len(c)]
  BY <1>3
<1>. HIDE DEF to
<1>5. \A i \in 1..Len(a) : c[to[i]] = a[i]
  BY <1>1, <1>2, <1>3
<1>6. \A i, j \in 1..Len(a) : i < j => to[i] < to[j]
  BY <1>1, <1>2, <1>3
<1>. QED  BY <1>4, <1>5, <1>6 DEF InOrder

\* The same text behind both.
LEMMA InOrderJoined ==
  ASSUME NEW a \in Texts, NEW b \in Texts, NEW d \in Texts, InOrder(a, b)
  PROVE  InOrder(a \o d, b \o d) /\ InOrder(a, a \o d)
<1>0. /\ a \in Seq(1..MaxChunks) /\ b \in Seq(1..MaxChunks) /\ d \in Seq(1..MaxChunks)
      /\ Len(a) \in Nat /\ Len(b) \in Nat /\ Len(d) \in Nat
  BY DEF Texts
<1>1. PICK at \in [1..Len(a) -> 1..Len(b)] :
        /\ \A i \in 1..Len(a) : b[at[i]] = a[i]
        /\ \A i, j \in 1..Len(a) : i < j => at[i] < at[j]
  BY DEF InOrder
<1>2. PICK p, q : p = a \o d /\ q = b \o d
  OBVIOUS
<1>3. /\ p \in Texts /\ Len(p) = Len(a) + Len(d)
      /\ \A i \in 1..Len(a) : p[i] = a[i]
      /\ \A i \in 1..Len(d) : p[Len(a) + i] = d[i]
  BY <1>0, <1>2, JoinedIs DEF Texts
<1>4. /\ q \in Texts /\ Len(q) = Len(b) + Len(d)
      /\ \A i \in 1..Len(b) : q[i] = b[i]
      /\ \A i \in 1..Len(d) : q[Len(b) + i] = d[i]
  BY <1>0, <1>2, JoinedIs DEF Texts
<1>. DEFINE to == [i \in 1..Len(p) |-> IF i <= Len(a) THEN at[i] ELSE Len(b) + (i - Len(a))]
<1>5. ASSUME NEW i \in 1..Len(p)
      PROVE  \/ i \in 1..Len(a) /\ to[i] = at[i] /\ to[i] \in 1..Len(b)
             \/ i > Len(a) /\ i - Len(a) \in 1..Len(d) /\ to[i] = Len(b) + (i - Len(a)) /\ i = Len(a) + (i - Len(a))
  <2>1. to[i] = IF i <= Len(a) THEN at[i] ELSE Len(b) + (i - Len(a))
    OBVIOUS
  <2>. HIDE DEF to
  <2>2. i \in Nat /\ 1 <= i /\ i <= Len(a) + Len(d)
    BY <1>0, <1>3
  <2>3. CASE i <= Len(a)
    <3>1. i \in 1..Len(a)
      BY <1>0, <2>2, <2>3
    <3>2. at[i] \in 1..Len(b)
      BY <3>1
    <3>. QED  BY <2>1, <2>3, <3>1, <3>2
  <2>4. CASE i > Len(a)
    <3>1. i - Len(a) \in 1..Len(d) /\ i = Len(a) + (i - Len(a)) /\ ~(i <= Len(a))
      BY <1>0, <2>2, <2>4
    <3>. QED  BY <2>1, <2>4, <3>1
  <2>. QED  BY <1>0, <2>2, <2>3, <2>4
<1>6. to \in [1..Len(p) -> 1..Len(q)]
  <2>1. ASSUME NEW i \in 1..Len(p) PROVE to[i] \in 1..Len(q)
    <3>. HIDE DEF to
    <3>1. CASE to[i] \in 1..Len(b)
      BY <1>0, <1>4, <3>1
    <3>2. CASE i - Len(a) \in 1..Len(d) /\ to[i] = Len(b) + (i - Len(a))
      BY <1>0, <1>4, <3>2
    <3>. QED  BY <1>5, <3>1, <3>2
  <2>. QED  BY <2>1
<1>. HIDE DEF to
<1>7. \A i \in 1..Len(p) : q[to[i]] = p[i]
  <2>1. SUFFICES ASSUME NEW i \in 1..Len(p) PROVE q[to[i]] = p[i]
    OBVIOUS
  <2>2. CASE i \in 1..Len(a) /\ to[i] = at[i] /\ to[i] \in 1..Len(b)
    BY <1>1, <1>3, <1>4, <2>2
  <2>3. CASE i > Len(a) /\ i - Len(a) \in 1..Len(d) /\ to[i] = Len(b) + (i - Len(a)) /\ i = Len(a) + (i - Len(a))
    <3>1. PICK m : m = i - Len(a)
      OBVIOUS
    <3>2. m \in 1..Len(d) /\ to[i] = Len(b) + m /\ i = Len(a) + m
      BY <2>3, <3>1
    <3>3. p[Len(a) + m] = d[m] /\ q[Len(b) + m] = d[m]
      BY <1>3, <1>4, <3>2
    <3>. QED  BY <3>2, <3>3
  <2>. QED  BY <1>5, <2>2, <2>3
<1>8. \A i, j \in 1..Len(p) : i < j => to[i] < to[j]
  <2>1. SUFFICES ASSUME NEW i \in 1..Len(p), NEW j \in 1..Len(p), i < j PROVE to[i] < to[j]
    OBVIOUS
  <2>2. CASE j \in 1..Len(a)
    <3>1. i \in 1..Len(a)
      BY <1>0, <2>1, <2>2
    <3>0. ~(i > Len(a)) /\ ~(j > Len(a))
      BY <1>0, <2>2, <3>1
    <3>2. to[i] = at[i] /\ to[j] = at[j]
      BY <1>5, <3>0
    <3>. QED  BY <1>1, <2>1, <2>2, <3>1, <3>2
  <2>3. CASE j > Len(a) /\ i \in 1..Len(a)
    <3>1. to[i] \in 1..Len(b)
      BY <1>0, <1>5, <2>3
    <3>2. to[j] = Len(b) + (j - Len(a)) /\ j - Len(a) \in 1..Len(d)
      BY <1>0, <1>5, <2>3
    <3>. QED  BY <1>0, <3>1, <3>2
  <2>4. CASE j > Len(a) /\ i > Len(a)
    <3>1. to[i] = Len(b) + (i - Len(a)) /\ to[j] = Len(b) + (j - Len(a))
      BY <1>0, <1>5, <2>4
    <3>. QED  BY <1>0, <2>1, <3>1
  <2>. QED  BY <1>0, <1>3, <2>2, <2>3, <2>4
<1>9. InOrder(p, q)
  BY <1>6, <1>7, <1>8 DEF InOrder
<1>10. InOrder(a, p)
  <2>1. 0 \in Nat /\ 0 + Len(a) <= Len(p) /\ \A i \in 1..Len(a) : p[0 + i] = a[i]
    BY <1>0, <1>3
  <2>. QED  BY <1>3, <2>1, PieceInOrder
<1>. QED  BY <1>2, <1>9, <1>10

\* What both texts hold, merging them keeps.
LEMMA MergedHas ==
  ASSUME NEW h \in Texts, NEW s \in Texts, NEW t \in Texts, InOrder(h, s), InOrder(h, t)
  PROVE  InOrder(h, Merged(s, t))
<1>1. CASE Merged(s, t) = s \/ Merged(s, t) = t
  BY <1>1
<1>2. CASE Overlap(s, t) > 0 /\ Merged(s, t) = s \o Last(t, Len(t) - Overlap(s, t))
  <2>1. PICK d : d = Last(t, Len(t) - Overlap(s, t))
    OBVIOUS
  <2>2. d \in Texts
    <3>1. Len(t) - Overlap(s, t) \in 0..Len(t) /\ t \in Seq(1..MaxChunks)
      <4>1. Overlap(s, t) \in 0..Len(t) /\ Len(t) \in Nat
        BY OverlapType DEF Texts
      <4>. QED  BY <4>1 DEF Texts
    <3>. QED  BY <2>1, <3>1, LastIs DEF Texts
  <2>3. InOrder(s, s \o d) /\ s \o d \in Texts
    BY <1>2, <2>1, <2>2, InOrderSelf, InOrderJoined, MergedType, ZenonT(60)
  <2>4. InOrder(h, s \o d)
    BY <2>3, InOrderTrans
  <2>. QED  BY <1>2, <2>1, <2>4
<1>. QED  BY <1>1, <1>2 DEF Merged

LEMMA MergedEmpty == ASSUME NEW s \in Texts PROVE Merged(s, <<>>) = s
<1>0. s \in Seq(1..MaxChunks) /\ Len(s) \in Nat /\ Len(<<>>) = 0
  BY Empty DEF Texts
<1>1. CASE s = <<>>
  <2>1. Merged(s, <<>>) = <<>> \/ Overlap(s, <<>>) > 0
    BY <1>1 DEF Merged
  <2>2. Overlap(s, <<>>) \in 0..Len(<<>>)
    <3>1. <<>> \in Texts
      BY DEF Texts
    <3>. QED  BY <3>1, OverlapType
  <2>3. ~(Overlap(s, <<>>) > 0)
    BY <1>0, <2>2
  <2>. QED  BY <1>1, <2>1, <2>3
<1>2. CASE s # <<>>
  <2>1. ~StartsWith(<<>>, s)
    BY <1>0, <1>2 DEF StartsWith
  <2>2. StartsWith(Last(s, 0), <<>>)
    <3>1. Last(s, 0) \in Seq(1..MaxChunks) /\ Len(Last(s, 0)) = 0
      BY <1>0, LastIs
    <3>2. First(Last(s, 0), 0) \in Seq(1..MaxChunks) /\ Len(First(Last(s, 0), 0)) = 0
      BY <3>1, FirstIs
    <3>. QED  BY <1>0, <3>1, <3>2 DEF StartsWith
  <2>3. Holds(s, <<>>)
    BY <1>0, <2>2 DEF Holds
  <2>. QED  BY <2>1, <2>3 DEF Merged
<1>. QED  BY <1>1, <1>2

\* What an event tells of the host's text.
Tells(old, e, new) ==
  /\ e.kind = "status" => new = old
  /\ e.kind = "started" => old = <<>> /\ new = e.text
  /\ e.kind = "delta" => new = old \o e.text
  /\ e.kind = "replaced" => InOrder(old, e.text) /\ new = e.text
  /\ e.kind = "snapshot" => e.text = old /\ new = old
  /\ e.kind \in {"started", "delta", "replaced"} => e.text # <<>>

\* The host's text before the events and after each.
Leads(f, events) == /\ f \in [0..Len(events) -> Texts]
                    /\ \A k \in 1..Len(events) : Tells(f[k - 1], events[k], f[k])

\* A page that has something has what an answer that starts later begins with.
Ready(base, events) ==
  \A k \in 1..Len(events) : events[k].kind = "started" => base = <<>> \/ InOrder(events[k].text, base)

\* With the events the page gets from base to t.
Covered(base, events, t) ==
  /\ t = <<>> => base = <<>>
  /\ \E f : Leads(f, events) /\ f[Len(events)] = t /\ InOrder(f[0], base) /\ Ready(base, events)

LEMMA TellsMore ==
  ASSUME NEW old \in Texts, NEW e \in Events, NEW new \in Texts, Tells(old, e, new)
  PROVE  InOrder(old, new) /\ (new = <<>> => e.kind \in {"status", "snapshot"} /\ old = <<>>)
<1>0. e.text \in Texts
  BY DEF Events
<1>1. CASE e.kind \in {"status", "snapshot"}
  BY <1>1, InOrderSelf DEF Tells
<1>2. CASE e.kind = "started"
  BY <1>2, InOrderEmpty DEF Tells
<1>3. CASE e.kind = "delta"
  <2>1. InOrder(old, new)
    BY <1>0, <1>3, InOrderSelf, InOrderJoined DEF Tells
  <2>2. new # <<>>
    <3>1. /\ e.text \in Seq(1..MaxChunks) /\ old \in Seq(1..MaxChunks) /\ e.text # <<>> /\ new = old \o e.text
      BY <1>0, <1>3 DEF Texts, Tells
    <3>2. Len(new) = Len(old) + Len(e.text) /\ Len(old) \in Nat /\ Len(e.text) \in Nat
      BY <3>1, JoinedIs
    <3>3. Len(e.text) # 0
      BY <3>1
    <3>. QED  BY <3>2, <3>3, Empty
  <2>. QED  BY <2>1, <2>2
<1>4. CASE e.kind = "replaced"
  BY <1>4 DEF Tells
<1>. QED  BY <1>1, <1>2, <1>3, <1>4 DEF Events, EventKinds

\* The host's text only grows.
LEMMA LeadsMore ==
  ASSUME NEW events \in Seq(Events), NEW f, Leads(f, events), NEW i \in 0..Len(events), NEW k \in i..Len(events)
  PROVE  InOrder(f[i], f[k])
<1>0. Len(events) \in Nat /\ \A j \in 1..Len(events) : events[j] \in Events
  OBVIOUS
<1>. DEFINE U == {n \in Nat : i <= n /\ n <= Len(events) => InOrder(f[i], f[n])}
<1>1. 0 \in U
  <2>1. 0 <= Len(events) /\ i <= 0 => i = 0
    BY <1>0
  <2>2. f[i] \in Texts
    BY DEF Leads
  <2>. QED  BY <2>1, <2>2, InOrderSelf
<1>2. ASSUME NEW n \in Nat, n \in U PROVE n + 1 \in U
  <2>1. SUFFICES ASSUME i <= n + 1, n + 1 <= Len(events) PROVE InOrder(f[i], f[n + 1])
    OBVIOUS
  <2>2. f[i] \in Texts /\ f[n + 1] \in Texts
    BY <1>0, <2>1, SMTT(30) DEF Leads
  <2>3. CASE i = n + 1
    BY <2>2, <2>3, InOrderSelf
  <2>4. CASE i <= n
    <3>1. n \in 0..Len(events) /\ n + 1 \in 1..Len(events) /\ (n + 1) - 1 = n
      BY <1>0, <2>1
    <3>2. f[n] \in Texts /\ Tells(f[n], events[n + 1], f[n + 1])
      BY <3>1 DEF Leads
    <3>3. InOrder(f[i], f[n])
      BY <1>0, <1>2, <2>1, <2>4
    <3>4. InOrder(f[n], f[n + 1])
      BY <1>0, <2>2, <3>1, <3>2, TellsMore
    <3>. QED  BY <2>2, <3>2, <3>3, <3>4, InOrderTrans
  <2>. QED  BY <1>0, <2>1, <2>3, <2>4
<1>3. \A n \in Nat : n \in U
  <2>. HIDE DEF U
  <2>. QED  BY <1>1, <1>2, Upwards
<1>. QED  BY <1>0, <1>3

LEMMA MergedFirst == ASSUME NEW t \in Texts PROVE Merged(<<>>, t) = t
<1>1. t \in Seq(1..MaxChunks) /\ Len(t) \in Nat /\ Len(<<>>) = 0
  BY Empty DEF Texts
<1>2. First(t, 0) \in Seq(1..MaxChunks) /\ Len(First(t, 0)) = 0
  BY <1>1, FirstIs
<1>3. StartsWith(t, <<>>)
  BY <1>1, <1>2 DEF StartsWith
<1>. QED  BY <1>3 DEF Merged

\* One event applied, of those that lead to the host's text.
LEMMA TellsPage ==
  ASSUME NEW p \in Pages(Statuses), NEW e \in Events, NEW base \in Texts,
         NEW old \in Texts, NEW new \in Texts, Tells(old, e, new), InOrder(old, p.text),
         old = <<>> => p.text = base,
         e.kind = "started" => base = <<>> \/ InOrder(e.text, base)
  PROVE  /\ InOrder(new, EventApplied(p, e).text)
         /\ new = <<>> => EventApplied(p, e).text = base
<1>. DEFINE q == EventApplied(p, e)
<1>0. p.text \in Texts /\ e.text \in Texts /\ InOrder(new, new)
  BY InOrderSelf DEF Pages, Events
<1>1. /\ e.kind = "status" => q.text = p.text
      /\ e.kind = "started" => q.text = Merged(p.text, e.text)
      /\ e.kind = "delta" => q.text = p.text \o e.text
      /\ e.kind = "replaced" => q.text = e.text
      /\ e.kind = "snapshot" => q.text = Merged(p.text, e.text)
  BY EventDoes
<1>2. new = <<>> => e.kind \in {"status", "snapshot"} /\ old = <<>>
  BY TellsMore
<1>. SUFFICES InOrder(new, q.text) /\ (new = <<>> => q.text = base)
  OBVIOUS
<1>. HIDE DEF q
<1>3. CASE e.kind = "status"
  BY <1>1, <1>2, <1>3 DEF Tells
<1>4. CASE e.kind = "started"
  <2>1. old = <<>> /\ new = e.text /\ p.text = base /\ new # <<>> /\ q.text = Merged(base, new)
    BY <1>1, <1>4 DEF Tells
  <2>2. CASE base = <<>>
    BY <1>0, <2>1, <2>2, MergedFirst
  <2>3. CASE InOrder(new, base)
    BY <1>0, <2>1, <2>3, MergedHas
  <2>. QED  BY <1>4, <2>1, <2>2, <2>3
<1>5. CASE e.kind = "delta"
  <2>1. new = old \o e.text /\ q.text = p.text \o e.text /\ new # <<>>
    BY <1>1, <1>2, <1>5 DEF Tells
  <2>. QED  BY <1>0, <2>1, InOrderJoined
<1>6. CASE e.kind = "replaced"
  BY <1>0, <1>1, <1>2, <1>6 DEF Tells
<1>7. CASE e.kind = "snapshot"
  <2>1. new = old /\ e.text = old /\ q.text = Merged(p.text, new)
    BY <1>1, <1>7 DEF Tells
  <2>2. InOrder(new, q.text)
    BY <1>0, <2>1, MergedHas
  <2>. QED  BY <1>0, <2>1, <2>2, MergedEmpty
<1>. QED  BY <1>3, <1>4, <1>5, <1>6, <1>7 DEF Events, EventKinds

\* The first n of them applied.
LEMMA BatchLeads ==
  ASSUME NEW page \in Pages(Statuses), NEW r \in Seq(Events), NEW f \in [0..Len(r) -> Texts],
         \A k \in 1..Len(r) : Tells(f[k - 1], r[k], f[k]),
         \A k \in 1..Len(r) : r[k].kind = "status" => r[k].status \in Statuses,
         InOrder(f[0], page.text), Ready(page.text, r)
  PROVE  /\ InOrder(f[Len(r)], BatchApplied(page, r).text)
         /\ f[Len(r)] = <<>> => BatchApplied(page, r).text = page.text
<1>. DEFINE At(n) == {p \in Pages(Statuses) : InOrder(f[n], p.text) /\ (f[n] = <<>> => p.text = page.text)}
            T == [n \in 0..Len(r) |-> At(n)]
<1>1. Len(r) \in Nat /\ (\A k \in 1..Len(r) : r[k] \in Events) /\ page.text \in Texts
  BY DEF Pages
<1>2. page \in T[0]
  BY <1>1
<1>3. ASSUME NEW n \in 1..Len(r), NEW p \in T[n - 1] PROVE EventApplied(p, r[n]) \in T[n]
  <2>1. n - 1 \in 0..Len(r) /\ n \in 0..Len(r) /\ p \in At(n - 1) /\ T[n] = At(n)
    BY <1>1
  <2>2. p \in Pages(Statuses) /\ InOrder(f[n - 1], p.text) /\ (f[n - 1] = <<>> => p.text = page.text)
    BY <2>1
  <2>3. f[n - 1] \in Texts /\ f[n] \in Texts /\ Tells(f[n - 1], r[n], f[n]) /\ r[n] \in Events
    BY <1>1, <2>1
  <2>4. r[n].kind = "started" => page.text = <<>> \/ InOrder(r[n].text, page.text)
    BY DEF Ready
  <2>5. /\ InOrder(f[n], EventApplied(p, r[n]).text)
        /\ f[n] = <<>> => EventApplied(p, r[n]).text = page.text
    BY <1>1, <2>2, <2>3, <2>4, TellsPage
  <2>6. EventApplied(p, r[n]) \in Pages(Statuses)
    BY <2>2, <2>3, EventType
  <2>. QED  BY <2>1, <2>5, <2>6
<1>4. BatchApplied(page, r) \in T[Len(r)]
  <2>. HIDE DEF T
  <2>. QED  BY <1>1, <1>2, <1>3, BatchInvariant
<1>. QED  BY <1>1, <1>4

\* The events of a batch take the page closer, and those that are left do the rest.
LEMMA CoveredBatch ==
  ASSUME NEW page \in Pages(Statuses), NEW r \in Seq(Events), NEW rest \in Seq(Events), NEW t \in Texts,
         \A k \in 1..Len(r) : r[k].kind = "status" => r[k].status \in Statuses,
         Covered(page.text, r \o rest, t)
  PROVE  Covered(BatchApplied(page, r).text, rest, t)
<1>1. PICK E : E = r \o rest
  OBVIOUS
<1>2. /\ E \in Seq(Events) /\ Len(E) = Len(r) + Len(rest) /\ Len(r) \in Nat /\ Len(rest) \in Nat
      /\ \A i \in 1..Len(r) : E[i] = r[i]
      /\ \A i \in 1..Len(rest) : E[Len(r) + i] = rest[i]
  BY <1>1, JoinedIs
<1>3. PICK f : Leads(f, E) /\ f[Len(E)] = t /\ InOrder(f[0], page.text) /\ Ready(page.text, E)
  BY <1>1 DEF Covered
<1>4. f \in [0..Len(E) -> Texts] /\ \A k \in 1..Len(E) : Tells(f[k - 1], E[k], f[k])
  BY <1>3 DEF Leads
<1>. DEFINE b == BatchApplied(page, r).text
            g == [k \in 0..Len(r) |-> f[k]]
            h == [k \in 0..Len(rest) |-> f[Len(r) + k]]
<1>5. page.text \in Texts
  BY DEF Pages
<1>6. InOrder(f[Len(r)], b) /\ (f[Len(r)] = <<>> => b = page.text)
  <2>1. g \in [0..Len(r) -> Texts] /\ \A k \in 0..Len(r) : g[k] = f[k]
    BY <1>2, <1>4
  <2>2. \A k \in 1..Len(r) : k - 1 \in 0..Len(r) /\ k \in 0..Len(r) /\ k \in 1..Len(E)
    BY <1>2
  <2>. HIDE DEF g
  <2>3. \A k \in 1..Len(r) : Tells(g[k - 1], r[k], g[k])
    BY <1>2, <1>4, <2>1, <2>2
  <2>4. g[0] = f[0] /\ g[Len(r)] = f[Len(r)]
    BY <1>2, <2>1
  <2>5. Ready(page.text, r)
    BY <1>2, <1>3, <2>2 DEF Ready
  <2>6. InOrder(g[0], page.text)
    BY <1>3, <2>4
  <2>7. InOrder(g[Len(r)], b) /\ (g[Len(r)] = <<>> => b = page.text)
    BY <2>1, <2>3, <2>5, <2>6, BatchLeads
  <2>. QED  BY <2>4, <2>7
<1>. HIDE DEF b, g
<1>7. ASSUME NEW k \in Len(r)..Len(E), f[k] = <<>> PROVE f[Len(r)] = <<>>
  <2>1. Len(r) \in 0..Len(E) /\ f[Len(r)] \in Texts
    BY <1>2, <1>4
  <2>2. InOrder(f[Len(r)], f[k])
    BY <1>2, <1>3, <2>1, LeadsMore
  <2>. QED  BY <1>7, <2>1, <2>2, InOrderNone
<1>8. t = <<>> => b = <<>>
  <2>1. t = <<>> => page.text = <<>>
    BY DEF Covered
  <2>2. Len(E) \in Len(r)..Len(E)
    BY <1>2
  <2>. QED  BY <1>3, <1>6, <1>7, <2>1, <2>2
<1>9. h \in [0..Len(rest) -> Texts] /\ \A k \in 0..Len(rest) : h[k] = f[Len(r) + k]
  BY <1>2, <1>4
<1>. HIDE DEF h
<1>10. ASSUME NEW k \in 1..Len(rest)
       PROVE  /\ k - 1 \in 0..Len(rest) /\ k \in 0..Len(rest) /\ Len(r) + k \in 1..Len(E)
              /\ Len(r) + (k - 1) = (Len(r) + k) - 1 /\ Len(r) + (k - 1) \in Len(r)..Len(E)
  BY <1>2
<1>11. ASSUME NEW k \in 1..Len(rest) PROVE Tells(h[k - 1], rest[k], h[k])
  <2>1. Tells(f[(Len(r) + k) - 1], E[Len(r) + k], f[Len(r) + k])
    BY <1>4, <1>10
  <2>. QED  BY <1>2, <1>9, <1>10, <2>1
<1>12. h[0] = f[Len(r)] /\ h[Len(rest)] = t
  BY <1>2, <1>3, <1>9
<1>13. Ready(b, rest)
  <2>1. SUFFICES ASSUME NEW k \in 1..Len(rest), rest[k].kind = "started"
                 PROVE  b = <<>> \/ InOrder(rest[k].text, b)
    BY DEF Ready
  <2>2. h[k - 1] = <<>>
    BY <1>11, <2>1 DEF Tells
  <2>3. f[Len(r) + (k - 1)] = <<>>
    BY <1>9, <1>10, <2>2
  <2>4. b = page.text
    BY <1>6, <1>7, <1>10, <2>3
  <2>5. page.text = <<>> \/ InOrder(E[Len(r) + k].text, page.text)
    BY <1>2, <1>3, <1>10, <2>1 DEF Ready
  <2>. QED  BY <1>2, <2>4, <2>5
<1>14. Leads(h, rest)
  BY <1>9, <1>11 DEF Leads
<1>15. InOrder(h[0], b)
  BY <1>6, <1>12
<1>16. Covered(b, rest, t)
  BY <1>8, <1>12, <1>13, <1>14, <1>15 DEF Covered
<1>. QED  BY <1>16 DEF b

\* A whole state merged into the page takes nothing from it.
LEMMA CoveredMerge ==
  ASSUME NEW base \in Texts, NEW E \in Seq(Events), NEW t \in Texts, Covered(base, E, t)
  PROVE  Covered(Merged(base, t), E, t)
<1>0. Len(E) \in Nat /\ Len(E) \in 0..Len(E)
  OBVIOUS
<1>1. PICK f : Leads(f, E) /\ f[Len(E)] = t /\ InOrder(f[0], base) /\ Ready(base, E)
  BY DEF Covered
<1>2. \A k \in 0..Len(E) : f[k] \in Texts /\ Len(E) \in k..Len(E)
  BY <1>0, <1>1 DEF Leads
<1>3. \A k \in 0..Len(E) : InOrder(f[k], t)
  BY <1>1, <1>2, LeadsMore
<1>4. InOrder(f[0], Merged(base, t))
  BY <1>0, <1>1, <1>2, <1>3, MergedHas
<1>5. t = <<>> => Merged(base, t) = <<>>
  BY MergedEmpty, Empty DEF Covered
<1>6. Ready(Merged(base, t), E)
  <2>1. SUFFICES ASSUME NEW k \in 1..Len(E), E[k].kind = "started"
                 PROVE  InOrder(E[k].text, Merged(base, t))
    BY DEF Ready
  <2>2. k \in 0..Len(E) /\ f[k] = E[k].text
    BY <1>0, <1>1, <2>1 DEF Leads, Tells
  <2>3. f[k] \in Texts /\ InOrder(f[k], t)
    BY <1>2, <1>3, <2>2
  <2>4. CASE base = <<>>
    BY <2>2, <2>3, <2>4, MergedFirst
  <2>5. CASE InOrder(E[k].text, base)
    BY <2>2, <2>3, <2>5, MergedHas
  <2>. QED  BY <1>1, <2>1, <2>4, <2>5 DEF Ready
<1>. QED  BY <1>1, <1>4, <1>5, <1>6 DEF Covered

\* What the host tells of its steps leads on.
LEMMA CoveredGrows ==
  ASSUME NEW base \in Texts, NEW E \in Seq(Events), NEW t \in Texts, Covered(base, E, t),
         NEW F \in Seq(Events), NEW u \in Texts, Extends(E, F),
         Len(F) = Len(E) => u = t,
         \A i \in Fresh(E, F) : Tells(IF i = Len(E) + 1 THEN t ELSE u, F[i], u)
  PROVE  Covered(base, F, u)
<1>0. /\ Len(E) \in Nat /\ Len(F) \in Nat /\ Len(F) >= Len(E) /\ (\A i \in 1..Len(E) : F[i] = E[i])
      /\ \A i \in 1..Len(F) : F[i] \in Events
  BY DEF Extends
<1>1. PICK f : Leads(f, E) /\ f[Len(E)] = t /\ InOrder(f[0], base) /\ Ready(base, E)
  BY DEF Covered
<1>2. f \in [0..Len(E) -> Texts] /\ \A k \in 1..Len(E) : Tells(f[k - 1], E[k], f[k])
  BY <1>1 DEF Leads
<1>. DEFINE g == [k \in 0..Len(F) |-> IF k <= Len(E) THEN f[k] ELSE u]
<1>3. \A k \in 0..Len(F) : g[k] = (IF k <= Len(E) THEN f[k] ELSE u) /\ g[k] \in Texts
  <2>1. SUFFICES ASSUME NEW k \in 0..Len(F)
                 PROVE  g[k] = (IF k <= Len(E) THEN f[k] ELSE u) /\ g[k] \in Texts
    OBVIOUS
  <2>2. g[k] = IF k <= Len(E) THEN f[k] ELSE u
    OBVIOUS
  <2>. HIDE DEF g
  <2>3. k <= Len(E) => k \in 0..Len(E)
    BY <1>0
  <2>4. k <= Len(E) => f[k] \in Texts
    BY <1>2, <2>3
  <2>. QED  BY <2>2, <2>4
<1>4. g \in [0..Len(F) -> Texts]
  BY <1>3
<1>. HIDE DEF g
<1>5. ASSUME NEW k \in 1..Len(F), k > Len(E)
      PROVE  k \in Fresh(E, F) /\ g[k] = u /\ g[k - 1] = IF k = Len(E) + 1 THEN t ELSE u
  <2>1. k \in 0..Len(F) /\ k - 1 \in 0..Len(F) /\ ~(k <= Len(E)) /\ (k - 1 <= Len(E) <=> k = Len(E) + 1)
    BY <1>0, <1>5
  <2>2. k = Len(E) + 1 => k - 1 = Len(E)
    BY <1>0
  <2>. QED  BY <1>0, <1>1, <1>3, <1>5, <2>1, <2>2 DEF Fresh
<1>6. ASSUME NEW k \in 1..Len(F) PROVE Tells(g[k - 1], F[k], g[k])
  <2>1. CASE k <= Len(E)
    <3>1. k \in 1..Len(E) /\ k \in 0..Len(F) /\ k - 1 \in 0..Len(F) /\ k - 1 <= Len(E)
      BY <1>0, <2>1
    <3>. QED  BY <1>0, <1>2, <1>3, <2>1, <3>1
  <2>2. CASE k > Len(E)
    BY <1>5, <2>2
  <2>. QED  BY <1>0, <2>1, <2>2
<1>7. u = <<>> => t = <<>>
  <2>1. CASE Len(F) = Len(E)
    BY <2>1
  <2>2. CASE Len(F) > Len(E)
    <3>1. Len(E) + 1 \in Fresh(E, F) /\ Len(E) + 1 \in 1..Len(F)
      BY <1>0, <2>2 DEF Fresh
    <3>2. Tells(t, F[Len(E) + 1], u) /\ F[Len(E) + 1] \in Events
      BY <1>0, <3>1
    <3>. QED  BY <3>2, TellsMore
  <2>. QED  BY <1>0, <2>1, <2>2
<1>8. Ready(base, F)
  <2>1. SUFFICES ASSUME NEW k \in 1..Len(F), F[k].kind = "started"
                 PROVE  base = <<>> \/ InOrder(F[k].text, base)
    BY DEF Ready
  <2>2. CASE k <= Len(E)
    <3>1. k \in 1..Len(E)
      BY <1>0, <2>2
    <3>. QED  BY <1>0, <1>1, <2>1, <3>1 DEF Ready
  <2>3. CASE k > Len(E)
    <3>1. g[k - 1] = <<>>
      BY <1>6, <2>1 DEF Tells
    <3>2. t = <<>>
      BY <1>5, <1>7, <2>3, <3>1
    <3>. QED  BY <3>2 DEF Covered
  <2>. QED  BY <1>0, <2>2, <2>3
<1>9. Leads(g, F)
  BY <1>4, <1>6 DEF Leads
<1>10. g[0] = f[0] /\ g[Len(F)] = u
  <2>1. 0 \in 0..Len(F) /\ 0 <= Len(E) /\ Len(F) \in 0..Len(F)
    BY <1>0
  <2>2. g[0] = f[0]
    BY <1>3, <2>1
  <2>3. CASE Len(F) = Len(E)
    BY <1>1, <1>3, <2>1, <2>2, <2>3
  <2>4. CASE Len(F) > Len(E)
    BY <1>0, <1>3, <2>1, <2>2, <2>4
  <2>. QED  BY <1>0, <2>3, <2>4
<1>11. u = <<>> => base = <<>>
  BY <1>7 DEF Covered
<1>. QED  BY <1>1, <1>8, <1>9, <1>10, <1>11 DEF Covered

\* An empty page lacks nothing of a host that has told nothing.
LEMMA CoveredNothing == Covered(<<>>, <<>>, <<>>)
<1>. DEFINE f == [k \in 0..0 |-> <<>>]
<1>1. Len(<<>>) = 0 /\ \A k : k \notin 1..Len(<<>>)
  BY Empty
<1>2. f \in [0..Len(<<>>) -> Texts] /\ f[Len(<<>>)] = <<>> /\ f[0] = <<>>
  BY <1>1, Empty
<1>. HIDE DEF f
<1>3. Leads(f, <<>>)
  BY <1>1, <1>2 DEF Leads
<1>4. Ready(<<>>, <<>>)
  BY <1>1 DEF Ready
<1>5. InOrder(f[0], <<>>)
  BY <1>2, InOrderEmpty
<1>. QED  BY <1>2, <1>3, <1>4, <1>5 DEF Covered

\* What is fresh in one list is fresh in the other.
SameFresh(p, q, a, b) ==
  \A i \in Fresh(p, q) : \E m \in Fresh(a, b) : q[i] = b[m] /\ (i = Len(p) + 1 <=> m = Len(a) + 1)

LEMMA ExtendsJoined ==
  ASSUME NEW r \in Seq(Events), NEW a \in Seq(Events), NEW b \in Seq(Events), Extends(a, b),
         NEW p, NEW q, p = r \o a, q = r \o b
  PROVE  /\ Extends(p, q)
         /\ (Len(q) = Len(p) => Len(b) = Len(a))
         /\ SameFresh(p, q, a, b)
<1>1. p = r \o a /\ q = r \o b
  OBVIOUS
<1>2. /\ Len(p) = Len(r) + Len(a) /\ Len(r) \in Nat /\ Len(a) \in Nat /\ Len(b) \in Nat /\ Len(b) >= Len(a)
      /\ \A i \in 1..Len(r) : p[i] = r[i]
      /\ \A i \in 1..Len(a) : p[Len(r) + i] = a[i]
  BY <1>1, JoinedIs DEF Extends
<1>3. /\ Len(q) = Len(r) + Len(b)
      /\ \A i \in 1..Len(r) : q[i] = r[i]
      /\ \A i \in 1..Len(b) : q[Len(r) + i] = b[i]
  BY <1>1, JoinedIs
<1>4. Extends(p, q)
  <2>1. SUFFICES ASSUME NEW i \in 1..Len(p) PROVE q[i] = p[i]
    BY <1>2, <1>3 DEF Extends
  <2>2. CASE i \in 1..Len(r)
    BY <1>2, <1>3, <2>2
  <2>3. CASE i > Len(r)
    <3>1. PICK m : m = i - Len(r)
      OBVIOUS
    <3>2. m \in 1..Len(a) /\ m \in 1..Len(b) /\ i = Len(r) + m
      BY <1>2, <2>3, <3>1
    <3>3. p[Len(r) + m] = a[m] /\ q[Len(r) + m] = b[m] /\ b[m] = a[m]
      BY <1>2, <1>3, <3>2 DEF Extends
    <3>. QED  BY <3>2, <3>3
  <2>. QED  BY <1>2, <2>2, <2>3
<1>5. Len(q) = Len(p) <=> Len(b) = Len(a)
  <2>1. Len(p) = Len(r) + Len(a) /\ Len(r) \in Nat /\ Len(a) \in Nat /\ Len(b) \in Nat
    BY <1>2
  <2>2. Len(q) = Len(r) + Len(b)
    BY <1>3
  <2>. QED  BY <2>1, <2>2
<1>6. ASSUME NEW i \in Fresh(p, q)
      PROVE  \E m \in Fresh(a, b) : q[i] = b[m] /\ (i = Len(p) + 1 <=> m = Len(a) + 1)
  <2>1. PICK m : m = i - Len(r)
    OBVIOUS
  <2>2. m \in Fresh(a, b) /\ m \in 1..Len(b) /\ i = Len(r) + m /\ (i = Len(p) + 1 <=> m = Len(a) + 1)
    BY <1>2, <1>3, <2>1 DEF Fresh
  <2>3. q[Len(r) + m] = b[m]
    BY <1>3, <2>2
  <2>. QED  BY <2>2, <2>3
<1>. QED  BY <1>4, <1>5, <1>6 DEF SameFresh

\* The chunks of the answer come in their order, each in a notification of its own.
Increasing(s) == \A i, j \in 1..Len(s) : i < j => s[i] < s[j]
Pieces(q, t, n) ==
  \A i \in 1..Len(q) : q[i].kind = "delta" =>
    /\ q[i].text = <<q[i].text[1]>> /\ q[i].text[1] \in 1..n
    /\ \A j \in 1..Len(t) : t[j] < q[i].text[1]
    /\ \A j \in i + 1..Len(q) : q[j].kind = "delta" => q[i].text[1] < q[j].text[1]
RisesOK == /\ Increasing(text) /\ \A i \in 1..Len(text) : text[i] <= said
           /\ Pieces(stream, text, said)

\* Only of a turn the host knows there are events.
KnownOK == ~turn.known => turn.events = <<>>

LEMMA ChunksAre ==
  ASSUME NEW t \in Texts
  PROVE  \A i \in 1..Len(t) : t[i] \in 1..MaxChunks /\ t[i] \in Nat
<1>1. t \in Seq(1..MaxChunks)
  BY DEF Texts
<1>2. \A i \in 1..Len(t) : t[i] \in 1..MaxChunks
  BY <1>1, ElementOfSeq
<1>. QED  BY <1>2, BoundsAssumption

LEMMA RisingInWhole ==
  ASSUME NEW t \in Texts, Increasing(t)
  PROVE  InOrder(t, Whole)
<1>1. t \in [1..Len(t) -> 1..Len(Whole)]
  <2>1. t \in Seq(1..MaxChunks)
    BY DEF Texts
  <2>2. t = [i \in 1..Len(t) |-> t[i]]
    BY <2>1
  <2>3. \A i \in 1..Len(t) : t[i] \in 1..Len(Whole)
    BY ChunksAre, WholeIs
  <2>. QED  BY <2>2, <2>3
<1>2. \A i \in 1..Len(t) : Whole[t[i]] = t[i]
  BY <1>1, WholeIs
<1>. QED  BY <1>1, <1>2 DEF InOrder, Increasing

LEMMA PiecesAppend ==
  ASSUME NEW q \in Seq(Notes), NEW e \in Notes, NEW t, NEW n \in Nat, Pieces(q, t, n), e.kind # "delta"
  PROVE  Pieces(Append(q, e), t, n)
<1>1. PICK r : r = Append(q, e)
  OBVIOUS
<1>2. /\ Len(r) = Len(q) + 1 /\ Len(q) \in Nat /\ r[Len(q) + 1] = e
      /\ \A i \in 1..Len(q) : r[i] = q[i]
  BY <1>1, Appending
<1>3. ASSUME NEW i \in 1..Len(r), r[i].kind = "delta" PROVE i \in 1..Len(q) /\ r[i] = q[i]
  <2>1. i # Len(q) + 1
    BY <1>2, <1>3
  <2>2. i \in 1..Len(q)
    BY <1>2, <2>1
  <2>. QED  BY <1>2, <2>2
<1>4. SUFFICES ASSUME NEW i \in 1..Len(r), r[i].kind = "delta"
               PROVE  /\ r[i].text = <<r[i].text[1]>> /\ r[i].text[1] \in 1..n
                      /\ \A j \in 1..Len(t) : t[j] < r[i].text[1]
                      /\ \A j \in i + 1..Len(r) : r[j].kind = "delta" => r[i].text[1] < r[j].text[1]
  BY <1>1 DEF Pieces
<1>5. i \in 1..Len(q) /\ r[i] = q[i]
  BY <1>3, <1>4
<1>6. ASSUME NEW j \in i + 1..Len(r), r[j].kind = "delta" PROVE r[i].text[1] < r[j].text[1]
  <2>1. j \in 1..Len(r)
    BY <1>2, <1>5
  <2>2. j \in 1..Len(q) /\ r[j] = q[j]
    BY <1>3, <1>6, <2>1
  <2>3. j \in i + 1..Len(q)
    BY <1>2, <1>5, <2>2
  <2>. QED  BY <1>4, <1>5, <1>6, <2>2, <2>3 DEF Pieces
<1>. QED  BY <1>4, <1>5, <1>6 DEF Pieces

LEMMA PiecesSay ==
  ASSUME NEW q \in Seq(Notes), NEW e \in Notes, NEW t \in Texts, NEW n \in Nat, Pieces(q, t, n),
         e.kind = "delta", e.text = <<n + 1>>, \A i \in 1..Len(t) : t[i] <= n
  PROVE  Pieces(Append(q, e), t, n + 1)
<1>0. e.text[1] = n + 1 /\ \A j \in 1..Len(t) : t[j] \in Nat
  BY ChunksAre
<1>1. PICK r : r = Append(q, e)
  OBVIOUS
<1>2. /\ Len(r) = Len(q) + 1 /\ Len(q) \in Nat /\ r[Len(q) + 1] = e
      /\ \A i \in 1..Len(q) : r[i] = q[i]
  BY <1>1, Appending
<1>3. SUFFICES ASSUME NEW i \in 1..Len(r), r[i].kind = "delta"
               PROVE  /\ r[i].text = <<r[i].text[1]>> /\ r[i].text[1] \in 1..n + 1
                      /\ \A j \in 1..Len(t) : t[j] < r[i].text[1]
                      /\ \A j \in i + 1..Len(r) : r[j].kind = "delta" => r[i].text[1] < r[j].text[1]
  BY <1>1 DEF Pieces
<1>4. CASE i = Len(q) + 1
  <2>1. r[i] = e /\ \A j : j \notin i + 1..Len(r)
    BY <1>2, <1>4
  <2>2. \A j \in 1..Len(t) : t[j] < n + 1
    BY <1>0
  <2>. QED  BY <1>0, <2>1, <2>2
<1>5. CASE i \in 1..Len(q)
  <2>1. r[i] = q[i] /\ q[i].text = <<q[i].text[1]>> /\ q[i].text[1] \in 1..n /\ \A j \in 1..Len(t) : t[j] < q[i].text[1]
    BY <1>2, <1>3, <1>5 DEF Pieces
  <2>2. ASSUME NEW j \in i + 1..Len(r), r[j].kind = "delta" PROVE r[i].text[1] < r[j].text[1]
    <3>1. CASE j = Len(q) + 1
      BY <1>0, <1>2, <2>1, <3>1
    <3>2. CASE j \in i + 1..Len(q)
      <4>1. r[j] = q[j]
        BY <1>2, <1>5, <3>2
      <4>. QED  BY <1>3, <1>5, <2>1, <2>2, <3>2, <4>1 DEF Pieces
    <3>. QED  BY <1>2, <1>5, <3>1, <3>2
  <2>3. r[i].text[1] \in 1..n + 1
    BY <2>1
  <2>. QED  BY <2>1, <2>2, <2>3
<1>. QED  BY <1>2, <1>4, <1>5

LEMMA PiecesTail ==
  ASSUME NEW q \in Seq(Notes), q # <<>>, NEW t, NEW n \in Nat, Pieces(q, t, n)
  PROVE  /\ Pieces(Tail(q), t, n)
         /\ q[1].kind = "delta" => /\ q[1].text = <<q[1].text[1]>> /\ q[1].text[1] \in 1..n
                                   /\ \A j \in 1..Len(t) : t[j] < q[1].text[1]
                                   /\ \A i \in 1..Len(Tail(q)) : Tail(q)[i].kind = "delta"
                                                                 => q[1].text[1] < Tail(q)[i].text[1]
<1>1. PICK r : r = Tail(q)
  OBVIOUS
<1>2. /\ Len(r) = Len(q) - 1 /\ Len(q) \in Nat /\ 1 \in 1..Len(q)
      /\ \A i \in 1..Len(r) : r[i] = q[i + 1] /\ i + 1 \in 1..Len(q)
  BY <1>1, TailIs
<1>3. Pieces(r, t, n)
  <2>1. SUFFICES ASSUME NEW i \in 1..Len(r), r[i].kind = "delta"
                 PROVE  /\ r[i].text = <<r[i].text[1]>> /\ r[i].text[1] \in 1..n
                        /\ \A j \in 1..Len(t) : t[j] < r[i].text[1]
                        /\ \A j \in i + 1..Len(r) : r[j].kind = "delta" => r[i].text[1] < r[j].text[1]
    BY DEF Pieces
  <2>2. r[i] = q[i + 1] /\ i + 1 \in 1..Len(q)
    BY <1>2
  <2>3. ASSUME NEW j \in i + 1..Len(r), r[j].kind = "delta" PROVE r[i].text[1] < r[j].text[1]
    <3>1. j \in 1..Len(r) /\ j + 1 \in (i + 1) + 1..Len(q)
      BY <1>2
    <3>2. r[j] = q[j + 1]
      BY <1>2, <3>1
    <3>. QED  BY <2>1, <2>2, <2>3, <3>1, <3>2 DEF Pieces
  <2>. QED  BY <2>1, <2>2, <2>3 DEF Pieces
<1>4. \A i \in 1..Len(r) : i + 1 \in 1 + 1..Len(q)
  BY <1>2
<1>5. q[1].kind = "delta" => /\ q[1].text = <<q[1].text[1]>> /\ q[1].text[1] \in 1..n
                             /\ \A j \in 1..Len(t) : t[j] < q[1].text[1]
                             /\ \A j \in 1 + 1..Len(q) : q[j].kind = "delta" => q[1].text[1] < q[j].text[1]
  BY <1>2 DEF Pieces
<1>6. q[1].kind = "delta" => \A i \in 1..Len(r) : r[i].kind = "delta" => q[1].text[1] < r[i].text[1]
  BY <1>2, <1>4, <1>5
<1>. QED  BY <1>1, <1>3, <1>5, <1>6

\* A chunk that is new behind a text that rises.
LEMMA RisesOn ==
  ASSUME NEW t \in Texts, NEW c \in 1..MaxChunks, Increasing(t), \A j \in 1..Len(t) : t[j] < c
  PROVE  LET u == t \o <<c>> IN Increasing(u) /\ (\A i \in 1..Len(u) : u[i] <= c) /\ u # <<>>
<1>1. PICK u : u = t \o <<c>>
  OBVIOUS
<1>2. /\ Len(u) = Len(t) + 1 /\ Len(t) \in Nat /\ u[Len(t) + 1] = c
      /\ \A i \in 1..Len(t) : u[i] = t[i] /\ t[i] \in Nat
  BY <1>1, ChunksAre DEF Texts
<1>3. \A i \in 1..Len(u) : i \in 1..Len(t) \/ i = Len(t) + 1
  BY <1>2
<1>4. \A i \in 1..Len(u) : u[i] <= c
  BY <1>2, <1>3
<1>5. Increasing(u)
  <2>1. SUFFICES ASSUME NEW i \in 1..Len(u), NEW j \in 1..Len(u), i < j PROVE u[i] < u[j]
    BY DEF Increasing
  <2>2. i \in 1..Len(t)
    BY <1>2, <2>1
  <2>3. CASE j \in 1..Len(t)
    BY <1>2, <2>1, <2>2, <2>3 DEF Increasing
  <2>4. CASE j = Len(t) + 1
    BY <1>2, <2>2, <2>4
  <2>. QED  BY <1>3, <2>3, <2>4
<1>6. u # <<>>
  BY <1>2, Empty
<1>. QED  BY <1>1, <1>4, <1>5, <1>6

LEMMA ServerRises == ASSUME TypeOK, RisesOK, Server PROVE RisesOK'
<1>0. stream \in Seq(Notes) /\ said \in Nat /\ text \in Texts /\ text' = text
  BY BoundsAssumption DEF TypeOK, HostTyped, Server, nativeVars
<1>1. Increasing(text) /\ (\A i \in 1..Len(text) : text[i] <= said /\ text[i] \in Nat) /\ Pieces(stream, text, said)
  BY <1>0, ChunksAre DEF RisesOK
<1>2. CASE Say
  <2>1. PICK n \in Notes : n.kind = "delta" /\ n.text = <<said + 1>> /\ stream' = Append(stream, n)
    BY <1>2, NotesTyped DEF Say, Emit, Note, TypeOK, HostTyped
  <2>2. said' = said + 1
    BY <1>2 DEF Say
  <2>3. Pieces(stream', text, said')
    BY <1>0, <1>1, <2>1, <2>2, PiecesSay
  <2>4. \A i \in 1..Len(text) : text[i] <= said'
    BY <1>0, <1>1, <2>2
  <2>. QED  BY <1>0, <1>1, <2>3, <2>4 DEF RisesOK
<1>3. CASE CompleteItem \/ Report \/ Break
  <2>1. PICK n \in Notes : n.kind # "delta" /\ stream' = Append(stream, n)
    BY <1>3, NotesTyped DEF CompleteItem, Report, Break, Emit, Note
  <2>2. said' = said
    BY <1>3 DEF CompleteItem, Report, Break
  <2>3. Pieces(stream', text, said)
    BY <1>0, <1>1, <2>1, PiecesAppend
  <2>. QED  BY <1>0, <1>1, <2>2, <2>3 DEF RisesOK
<1>4. CASE Disconnect
  <2>1. \A i : i \notin 1..Len(<<>>)
    BY Empty
  <2>2. Pieces(<<>>, text, said)
    BY <2>1 DEF Pieces
  <2>. QED  BY <1>0, <1>1, <1>4, <2>2 DEF Disconnect, RisesOK
<1>5. ASSUME NEW s \in Terminal, EndTurn(s) PROVE RisesOK'
  <2>1. PICK over \in Notes, fails \in Notes :
          /\ over.kind # "delta" /\ fails.kind # "delta"
          /\ IF s = "failed" THEN stream' = Append(Append(stream, fails), over) ELSE stream' = Append(stream, over)
    <3>1. /\ Note("turnCompleted", <<>>, s) \in Notes /\ Note("error", <<>>, s) \in Notes
          /\ Note("turnCompleted", <<>>, s).kind # "delta" /\ Note("error", <<>>, s).kind # "delta"
      BY NotesTyped DEF Note, Statuses
    <3>. QED  BY <1>0, <1>5, <3>1, FarewellIs DEF EndTurn
  <2>2. PICK q : q = Append(stream, fails)
    OBVIOUS
  <2>3. q \in Seq(Notes) /\ Pieces(q, text, said)
    BY <1>0, <1>1, <2>1, <2>2, PiecesAppend, Appending
  <2>4. Pieces(stream', text, said)
    BY <1>0, <1>1, <2>1, <2>2, <2>3, PiecesAppend
  <2>5. said' = said
    BY <1>5 DEF EndTurn
  <2>. QED  BY <1>0, <1>1, <2>4, <2>5 DEF RisesOK
<1>. QED  BY <1>2, <1>3, <1>4, <1>5 DEF Server

\* A handler keeps the order of the chunks, and its events tell of its step.
LEMMA HandlerTells ==
  ASSUME TypeOK, OrderOK, RisesOK, HandleOne
  PROVE  /\ RisesOK' /\ turn'.known /\ text' \in Texts /\ turn'.events \in Seq(Events)
         /\ Extends(turn.events, turn'.events)
         /\ Len(turn'.events) = Len(turn.events) => text' = text
         /\ \A i \in Fresh(turn.events, turn'.events) :
              Tells(IF i = Len(turn.events) + 1 THEN text ELSE text', turn'.events[i], text')
<1>1. PICK n : HandlerEffect(n) /\ HandlerGives(n)
  <2>1. HandlerEffect(Head(stream)) /\ HandlerGives(Head(stream))
    BY HandlerDoes, HandlerAdds DEF TypeOK, HandleOne
  <2>. QED  BY <2>1
<1>2. /\ said' = said /\ turn'.known /\ text' \in Texts /\ turn' \in Turns
      /\ stream \in Seq(Notes) /\ stream # <<>> /\ n = stream[1] /\ n \in Notes /\ stream' = Tail(stream)
      /\ text \in Texts /\ said \in 0..MaxChunks
  BY <1>1 DEF HandlerEffect, TypeOK, HostTyped, serverVars
<1>3. turn'.events \in Seq(Events) /\ Len(turn'.events) \in Nat /\ Len(turn.events) \in Nat /\ MaxChunks \in Nat \ {0}
  <2>1. turn'.events \in Seq(Events)
    BY <1>2 DEF Turns
  <2>. QED  BY <2>1, EventsLists, BoundsAssumption
<1>4. Extends(turn.events, turn'.events)
  BY <1>1 DEF HandlerGives
<1>5. Increasing(text) /\ (\A i \in 1..Len(text) : text[i] <= said) /\ Pieces(stream, text, said) /\ said \in Nat
  BY <1>2, <1>3 DEF RisesOK
<1>6. Pieces(stream', text, said)
  BY <1>2, <1>5, PiecesTail
<1>7. n.kind \in {"turnStarted", "progress"} \cup {"delta"} \cup {"itemCompleted"} \cup Fatal
  BY <1>2 DEF Notes, NoteKinds, Fatal
<1>8. CASE n.kind \in {"turnStarted", "progress"}
  <2>1. text' = text /\ \A i \in Fresh(turn.events, turn'.events) : turn'.events[i].kind = "status"
    BY <1>1, <1>8 DEF HandlerGives
  <2>2. RisesOK'
    BY <1>2, <1>5, <1>6, <2>1 DEF RisesOK
  <2>. QED  BY <1>2, <1>3, <1>4, <2>1, <2>2 DEF Tells
<1>9. CASE n.kind = "delta"
  <2>1. PICK c : c = n.text[1]
    OBVIOUS
  <2>2. /\ n.text = <<c>> /\ c \in 1..said /\ c \in 1..MaxChunks
        /\ \A j \in 1..Len(text) : text[j] < c
        /\ \A i \in 1..Len(stream') : stream'[i].kind = "delta" => c < stream'[i].text[1]
    <3>1. /\ n.text = <<c>> /\ c \in 1..said
          /\ \A j \in 1..Len(text) : text[j] < c
          /\ \A i \in 1..Len(stream') : stream'[i].kind = "delta" => c < stream'[i].text[1]
      BY <1>2, <1>5, <1>9, <2>1, PiecesTail
    <3>. QED  BY <1>2, <1>3, <3>1
  <2>3. text' = text \o <<c>>
    BY <1>1, <1>9, <2>2 DEF HandlerGives
  <2>4. Increasing(text') /\ (\A i \in 1..Len(text') : text'[i] <= c) /\ text' # <<>>
    BY <1>2, <1>5, <2>2, <2>3, RisesOn
  <2>5. \A i \in 1..Len(text') : text'[i] \in Nat
    BY <1>2, ChunksAre
  <2>6. \A i \in 1..Len(text') : text'[i] <= said
    BY <1>5, <2>2, <2>4, <2>5
  <2>7. Pieces(stream', text', said)
    <3>1. \A i \in 1..Len(stream') : stream'[i].kind = "delta" =>
            /\ stream'[i].text = <<stream'[i].text[1]>> /\ stream'[i].text[1] \in 1..said
            /\ \A j \in i + 1..Len(stream') : stream'[j].kind = "delta" => stream'[i].text[1] < stream'[j].text[1]
      BY <1>6 DEF Pieces
    <3>2. ASSUME NEW i \in 1..Len(stream'), stream'[i].kind = "delta", NEW j \in 1..Len(text')
          PROVE  text'[j] < stream'[i].text[1]
      <4>1. stream'[i].text[1] \in 1..said /\ c < stream'[i].text[1] /\ text'[j] <= c /\ text'[j] \in Nat
        BY <2>2, <2>4, <2>5, <3>1, <3>2
      <4>. QED  BY <1>5, <2>2, <4>1
    <3>. QED  BY <3>1, <3>2 DEF Pieces
  <2>8. RisesOK'
    BY <1>2, <2>4, <2>6, <2>7 DEF RisesOK
  <2>9. /\ Len(turn'.events) = Len(turn.events) + 1
        /\ turn'.events[Len(turn.events) + 1].kind = IF text = <<>> THEN "started" ELSE "delta"
        /\ turn'.events[Len(turn.events) + 1].text = <<c>>
    BY <1>1, <1>9, <2>2 DEF HandlerGives
  <2>10. text = <<>> => text' = <<c>>
    BY <2>3
  <2>11. <<c>> # <<>>
    OBVIOUS
  <2>12. Tells(text, turn'.events[Len(turn.events) + 1], text')
    BY <2>3, <2>9, <2>10, <2>11 DEF Tells
  <2>13. \A i \in Fresh(turn.events, turn'.events) : i = Len(turn.events) + 1
    BY <1>3, <2>9 DEF Fresh
  <2>14. Len(turn'.events) # Len(turn.events)
    BY <1>3, <2>9
  <2>. QED  BY <1>2, <1>3, <1>4, <2>8, <2>12, <2>13, <2>14
<1>10. CASE n.kind = "itemCompleted"
  <2>1. NoneGiven(stream') /\ n.text = Whole /\ said = MaxChunks
    BY <1>2, <1>10, OrderTail DEF OrderOK
  <2>2. text' = Whole
    BY <1>1, <1>10, <2>1 DEF HandlerGives
  <2>3. Increasing(text') /\ \A i \in 1..Len(text') : text'[i] <= said
    BY <1>3, <2>1, <2>2, WholeIs DEF Increasing
  <2>4. Pieces(stream', text', said)
    BY <2>1 DEF NoneGiven, Given, Pieces
  <2>5. RisesOK'
    BY <1>2, <2>3, <2>4 DEF RisesOK
  <2>6. /\ Len(turn'.events) = Len(turn.events) + 1
        /\ turn'.events[Len(turn.events) + 1].kind = "replaced"
        /\ turn'.events[Len(turn.events) + 1].text = Whole
    BY <1>1, <1>10, <2>1 DEF HandlerGives
  <2>7. InOrder(text, Whole) /\ Whole # <<>>
    BY <1>2, <1>3, <1>5, RisingInWhole, WholeIs, Empty
  <2>8. Tells(text, turn'.events[Len(turn.events) + 1], text')
    BY <2>2, <2>6, <2>7 DEF Tells
  <2>9. \A i \in Fresh(turn.events, turn'.events) : i = Len(turn.events) + 1
    BY <1>3, <2>6 DEF Fresh
  <2>10. Len(turn'.events) # Len(turn.events)
    BY <1>3, <2>6
  <2>. QED  BY <1>2, <1>3, <1>4, <2>5, <2>8, <2>9, <2>10
<1>11. CASE n.kind \in Fatal
  <2>1. /\ text' = text
        /\ turn'.events[Len(turn'.events)].kind = "snapshot"
        /\ turn'.events[Len(turn'.events)].text = text
        /\ \A i \in Fresh(turn.events, turn'.events) : turn'.events[i].kind = "status" \/ i = Len(turn'.events)
    BY <1>1, <1>11 DEF HandlerGives
  <2>2. RisesOK'
    BY <1>2, <1>5, <1>6, <2>1 DEF RisesOK
  <2>. QED  BY <1>2, <1>3, <1>4, <2>1, <2>2 DEF Tells
<1>. QED  BY <1>7, <1>8, <1>9, <1>10, <1>11

LEMMA RisesStep == TypeOK /\ OrderOK /\ RisesOK /\ KnownOK /\ [Next]_vars => RisesOK' /\ KnownOK'
<1>. SUFFICES ASSUME TypeOK, OrderOK, RisesOK, KnownOK, [Next]_vars PROVE RisesOK' /\ KnownOK'
  OBVIOUS
<1>1. CASE UNCHANGED <<stream, said, turn, text>>
  BY <1>1 DEF RisesOK, KnownOK
<1>2. CASE Server
  BY <1>2, ServerRises DEF Server, nativeVars, KnownOK
<1>3. CASE HandleOne
  BY <1>3, HandlerTells DEF KnownOK
<1>4. CASE TakeEvents
  <2>1. UNCHANGED <<stream, said, text>> /\ turn'.events = <<>>
    BY <1>4 DEF TakeEvents, TypeOK, HostTyped, Turns, serverVars
  <2>. QED  BY <2>1 DEF RisesOK, KnownOK
<1>5. CASE PageReads \/ ReaderReads
  <2>1. UNCHANGED <<stream, said>> /\ turn' = Pruned /\ text' = <<>> /\ said \in Nat
    BY <1>5, BoundsAssumption DEF PageReads, ReaderReads, ReadThread, TypeOK, HostTyped, serverVars
  <2>2. KnownOK'
    BY <2>1, UnknownType DEF KnownOK, Pruned
  <2>3. \A i : i \notin 1..Len(<<>>)
    BY Empty
  <2>4. Increasing(<<>>) /\ Pieces(stream, <<>>, said) /\ \A i \in 1..Len(<<>>) : <<>>[i] <= said
    BY <2>3 DEF RisesOK, Increasing, Pieces
  <2>. QED  BY <2>1, <2>2, <2>4 DEF RisesOK
<1>. QED
  BY <1>1, <1>2, <1>3, <1>4, <1>5 DEF Next, Native, Loop, Reader, vars, serverVars, nativeVars, OtherHandles, CallHandles,
     Acquire, Release, TakePayload, CallFails, AskEvents, Interrupted, ApplyBatch, ApplySnapshot, PageReadFails,
     ApplyRecovered, ApplyLate, ApplyReread, Finalize, Deadline, PollLost, DrainLate, RecoverDiff, ComeBack,
     ReaderFails, ReaderApplies, Quiet

-----------------------------------------------------------------------------
(* Nothing is skipped *)

\* A page that has read no history, and was not given one, has with the events that are
\* its own or wait at the host what the host has.
Unread == /\ reads = 0 /\ pc \notin {"history", "reread", "done"}
          /\ pc = "recovered" => reply.status # "inProgress"
Base == CASE pc \in {"snapshot", "late"} -> Merged(pageText, reply.text)
          [] pc = "recovered" -> reply.text
          [] OTHER -> pageText
SkipOK == Unread => /\ reply.events # <<>> => pc = "batch"
                    /\ Covered(Base, reply.events \o turn.events, text)

LEMMA NoneJoined == ASSUME NEW q \in Seq(Events) PROVE q \o <<>> = q /\ <<>> \o q = q
  OBVIOUS

LEMMA BaseType == ASSUME TypeOK PROVE Base \in Texts
<1>1. pageText \in Texts /\ reply.text \in Texts
  BY DEF TypeOK, PageTyped, Replies
<1>. QED  BY <1>1, MergedType DEF Base

LEMMA HandlerSkips == ASSUME TypeOK, OrderOK, RisesOK, SkipOK, HandleOne PROVE SkipOK'
<1>1. UNCHANGED <<reply, pc, reads, pageText>>
  BY DEF HandleOne, pageVars, readVars
<1>. SUFFICES ASSUME Unread PROVE (reply.events # <<>> => pc = "batch") /\ Covered(Base, reply.events \o turn'.events, text')
  BY <1>1 DEF SkipOK, Unread, Base
<1>2. (reply.events # <<>> => pc = "batch") /\ Covered(Base, reply.events \o turn.events, text)
  BY DEF SkipOK
<1>3. PICK r, a, b, base, t, u : /\ r = reply.events /\ a = turn.events /\ b = turn'.events
                                 /\ base = Base /\ t = text /\ u = text'
  OBVIOUS
<1>4. /\ u \in Texts /\ b \in Seq(Events) /\ Extends(a, b)
      /\ Len(b) = Len(a) => u = t
      /\ \A i \in Fresh(a, b) : Tells(IF i = Len(a) + 1 THEN t ELSE u, b[i], u)
  BY <1>3, HandlerTells
<1>5. r \in Seq(Events) /\ a \in Seq(Events) /\ base \in Texts /\ t \in Texts
  BY <1>3, EventsLists, BaseType DEF TypeOK, HostTyped
<1>6. PICK E, F : E = r \o a /\ F = r \o b
  OBVIOUS
<1>7. /\ E \in Seq(Events) /\ F \in Seq(Events) /\ Extends(E, F) /\ (Len(F) = Len(E) => Len(b) = Len(a))
      /\ SameFresh(E, F, a, b)
  <2>1. E \in Seq(Events) /\ F \in Seq(Events)
    BY <1>4, <1>5, <1>6
  <2>2. r \in Seq(Events) /\ a \in Seq(Events) /\ b \in Seq(Events) /\ Extends(a, b) /\ E = r \o a /\ F = r \o b
    BY <1>4, <1>5, <1>6
  <2>3. Extends(E, F)
    BY <2>2, ExtendsJoined
  <2>4. Len(F) = Len(E) => Len(b) = Len(a)
    BY <2>2, <2>3, ExtendsJoined
  <2>5. SameFresh(E, F, a, b)
    BY <2>2, <2>3, ExtendsJoined
  <2>. QED  BY <2>1, <2>3, <2>4, <2>5
<1>8. ASSUME NEW i \in Fresh(E, F) PROVE Tells(IF i = Len(E) + 1 THEN t ELSE u, F[i], u)
  <2>1. PICK m \in Fresh(a, b) : F[i] = b[m] /\ (i = Len(E) + 1 <=> m = Len(a) + 1)
    BY <1>7 DEF SameFresh
  <2>2. Tells(IF m = Len(a) + 1 THEN t ELSE u, b[m], u)
    BY <1>4
  <2>. QED  BY <2>1, <2>2
<1>9. Covered(base, E, t)
  BY <1>2, <1>3, <1>6
<1>10. Covered(base, F, u)
  BY <1>4, <1>5, <1>7, <1>8, <1>9, CoveredGrows
<1>. QED  BY <1>2, <1>3, <1>6, <1>10

\* What a call returns is taken from the host or shown to it.
LEMMA CallSkips == ASSUME TypeOK, SkipOK, TakeEvents \/ TakePayload \/ CallFails PROVE SkipOK'
<1>1. UNCHANGED <<reads, pageText, text>> /\ pc \notin {"history", "reread", "done", "recovered", "batch", "snapshot", "late"}
  BY DEF TakeEvents, TakePayload, CallFails, nativeVars, readVars
<1>. SUFFICES ASSUME Unread PROVE (reply'.events # <<>> => pc' = "batch") /\ Covered(Base', reply'.events \o turn'.events, text)
  BY <1>1 DEF SkipOK, Unread
<1>2. reply.events = <<>> /\ Covered(pageText, <<>> \o turn.events, text)
  BY <1>1 DEF SkipOK, Base
<1>3. turn.events \in Seq(Events) /\ pageText \in Texts /\ text \in Texts
  BY EventsLists DEF TypeOK, HostTyped, PageTyped
<1>4. Covered(pageText, turn.events, text)
  BY <1>2, <1>3, NoneJoined
<1>5. CASE TakeEvents
  <2>1. reply'.events = turn.events /\ turn'.events = <<>> /\ pc' = "batch"
    BY <1>5 DEF TakeEvents, Nothing, TypeOK, HostTyped, Turns
  <2>2. Base' = pageText
    BY <1>1, <2>1 DEF Base
  <2>. QED  BY <1>3, <1>4, <2>1, <2>2, NoneJoined
<1>6. CASE TakePayload
  <2>1. pc' \in {"snapshot", "late"} /\ reply' = Answer(PollPayload) /\ reply'.events = <<>> /\ turn' = turn
    BY <1>6, PayloadTypes DEF TakePayload, nativeVars, TypeOK
  <2>2. reply'.text = text
    BY <2>1 DEF Answer, PollPayload, Nothing
  <2>3. Base' = Merged(pageText, text)
    BY <1>1, <2>1, <2>2 DEF Base
  <2>4. Covered(Merged(pageText, text), turn.events, text)
    BY <1>3, <1>4, CoveredMerge
  <2>. QED  BY <1>3, <2>1, <2>3, <2>4, NoneJoined
<1>7. CASE CallFails
  <2>1. reply'.events = <<>> /\ reply'.text = <<>> /\ turn' = turn /\ pc' \in {"batch", "snapshot", "late"}
    <3>1. Nothing.text = <<>> /\ [Nothing EXCEPT !.status = "failed"].text = <<>>
      BY DEF Nothing
    <3>. QED  BY <1>7, <3>1, PayloadTypes, NothingType DEF CallFails, nativeVars, TypeOK
  <2>2. Base' = pageText
    BY <1>1, <1>3, <2>1, MergedEmpty DEF Base
  <2>. QED  BY <1>3, <1>4, <2>1, <2>2, NoneJoined
<1>. QED  BY <1>5, <1>6, <1>7

LEMMA PageIs == ASSUME TypeOK PROVE Page \in Pages(Statuses) /\ Page.text = pageText
  BY DEF TypeOK, PageTyped, Page, Pages

\* What is applied to the page is what it was to get.
LEMMA ApplySkips ==
  ASSUME TypeOK, SkipOK, ApplyBatch \/ ApplySnapshot \/ ApplyLate \/ ApplyRecovered
  PROVE  SkipOK'
<1>1. UNCHANGED <<reads, text, turn>> /\ reply'.events = <<>> /\ pc' \in {"final", "top", "poll", "done"}
  <2>1. reply' = Nothing /\ UNCHANGED <<reads, text, turn>>
    BY DEF ApplyBatch, ApplySnapshot, ApplyLate, ApplyRecovered, Quiet, nativeVars, readVars
  <2>2. pc' \in {"final", "top", "poll", "done"}
    BY DEF ApplyBatch, ApplySnapshot, ApplyLate, ApplyRecovered, Follow, Finish
  <2>. QED  BY <2>1, <2>2, NothingType
<1>. SUFFICES ASSUME Unread' PROVE Covered(pageText', <<>> \o turn.events, text)
  BY <1>1 DEF SkipOK, Base
<1>2. pc' # "done" /\ reads = 0
  BY <1>1 DEF Unread
<1>3. Unread
  BY <1>2 DEF Unread, ApplyBatch, ApplySnapshot, ApplyLate, ApplyRecovered, Finish
<1>4. (reply.events # <<>> => pc = "batch") /\ Covered(Base, reply.events \o turn.events, text)
  BY <1>3 DEF SkipOK
<1>5. turn.events \in Seq(Events) /\ reply.events \in Seq(Events) /\ text \in Texts
  BY EventsLists DEF TypeOK, HostTyped
<1>6. CASE ApplyBatch
  <2>1. pageText' = BatchApplied(Page, reply.events).text /\ Base = pageText
    BY <1>6 DEF ApplyBatch, Show, Base
  <2>2. Page \in Pages(Statuses) /\ Page.text = pageText
    BY PageIs
  <2>3. \A k \in 1..Len(reply.events) : reply.events[k].kind = "status" => reply.events[k].status \in Statuses
    BY DEF TypeOK, AnswersTyped
  <2>4. Covered(pageText', turn.events, text)
    BY <1>4, <1>5, <2>1, <2>2, <2>3, CoveredBatch
  <2>. QED  BY <1>5, <2>4, NoneJoined
<1>7. CASE ApplySnapshot \/ ApplyLate
  <2>1. pageText' = Merged(pageText, reply.text) /\ pc \in {"snapshot", "late"}
    BY <1>7 DEF ApplySnapshot, ApplyLate, Show, PollApplied
  <2>2. Base = pageText' /\ reply.events = <<>>
    BY <1>4, <2>1 DEF Base
  <2>. QED  BY <1>4, <2>2
<1>8. CASE ApplyRecovered
  <2>1. pageText' = reply.text /\ pc = "recovered"
    BY <1>8 DEF ApplyRecovered, Show, ReadApplied
  <2>2. Base = pageText' /\ reply.events = <<>>
    BY <1>4, <2>1 DEF Base
  <2>. QED  BY <1>4, <2>2
<1>. QED  BY <1>6, <1>7, <1>8

\* A history that shows the end leaves nothing at the host.
LEMMA ReadSkips == ASSUME TypeOK, KnownOK, PageReads PROVE SkipOK'
<1>1. SUFFICES ASSUME Unread'
               PROVE  (reply'.events # <<>> => pc' = "batch") /\ Covered(Base', reply'.events \o turn'.events, text')
  BY DEF SkipOK
<1>2. pc' = "recovered" /\ turn' = Pruned /\ text' = <<>> /\ reply' = Answer(ReadPayload)
  BY <1>1 DEF PageReads, ReadThread, Unread
<1>3. reply'.events = <<>> /\ reply'.text = <<>> /\ reply'.status = ReadPayload.status
  BY <1>2 DEF Answer, ReadPayload, Nothing
<1>4. reply'.status # "inProgress"
  BY <1>1, <1>2 DEF Unread
<1>5. ~Pruned.known
  BY <1>3, <1>4 DEF ReadPayload
<1>6. turn'.events = <<>>
  BY <1>2, <1>5, UnknownType DEF KnownOK, Pruned
<1>7. Base' = <<>>
  BY <1>2, <1>3 DEF Base
<1>8. <<>> \o <<>> = <<>>
  OBVIOUS
<1>. QED  BY <1>2, <1>3, <1>6, <1>7, <1>8, CoveredNothing

LEMMA SkipStep ==
  TypeOK /\ ReasonOK /\ OrderOK /\ RisesOK /\ KnownOK /\ SkipOK /\ [Next]_vars => SkipOK'
<1>. SUFFICES ASSUME TypeOK, ReasonOK, OrderOK, RisesOK, KnownOK, SkipOK, [Next]_vars PROVE SkipOK'
  OBVIOUS
<1>1. CASE UNCHANGED vars \/ (Server /\ UNCHANGED <<pageVars, readVars>>)
  <2>1. UNCHANGED <<reads, pc, reply, pageText, text, turn>>
    BY <1>1 DEF vars, Server, nativeVars, pageVars, readVars
  <2>. QED  BY <2>1 DEF SkipOK, Unread, Base
<1>2. CASE HandleOne
  BY <1>2, HandlerSkips
<1>3. CASE TakeEvents \/ TakePayload \/ CallFails
  BY <1>3, CallSkips
<1>4. CASE ApplyBatch \/ ApplySnapshot \/ ApplyLate \/ ApplyRecovered
  BY <1>4, ApplySkips
<1>5. CASE PageReads
  BY <1>5, ReadSkips
<1>6. CASE OtherHandles \/ CallHandles \/ Release \/ AskEvents \/ PollLost \/ DrainLate
  <2>1. UNCHANGED <<reads, reply, pageText, text, turn>>
    BY <1>6 DEF OtherHandles, CallHandles, Release, AskEvents, PollLost, DrainLate, Acquire, Quiet, nativeVars, pageVars, readVars
  <2>2. \/ pc' = pc
        \/ /\ pc' \notin {"history", "reread", "done", "recovered", "snapshot", "late"}
           /\ pc \notin {"history", "reread", "done", "recovered", "snapshot", "late", "batch"}
    BY <1>6 DEF OtherHandles, CallHandles, Release, AskEvents, PollLost, DrainLate, Acquire, pageVars,
                Back, ReasonOK, PlacesOK, Calls, TypeOK, HostTyped
  <2>3. CASE pc' = pc
    BY <2>1, <2>3 DEF SkipOK, Unread, Base
  <2>4. CASE /\ pc' \notin {"history", "reread", "done", "recovered", "snapshot", "late"}
             /\ pc \notin {"history", "reread", "done", "recovered", "snapshot", "late", "batch"}
    <3>1. Base' = pageText /\ Base = pageText
      BY <2>1, <2>4 DEF Base
    <3>2. Unread' => Unread
      BY <2>1, <2>4 DEF Unread
    <3>. QED  BY <2>1, <2>4, <3>1, <3>2 DEF SkipOK
  <2>. QED  BY <2>2, <2>3, <2>4
<1>7. CASE Interrupted \/ Deadline \/ PageReadFails \/ RecoverDiff \/ ApplyReread \/ Finalize
  <2>1. pc' \in {"history", "done"}
    BY <1>7 DEF Interrupted, Deadline, PageReadFails, RecoverDiff, ApplyReread, Finalize, Finish
  <2>. QED  BY <2>1 DEF SkipOK, Unread
<1>8. CASE ComeBack \/ ReaderReads \/ ReaderFails \/ ReaderApplies
  <2>1. reads' # 0
    BY <1>8 DEF ComeBack, ReaderReads, ReaderFails, ReaderApplies, ReasonOK, PlacesOK, TypeOK, PageTyped
  <2>. QED  BY <2>1 DEF SkipOK, Unread
<1>. QED
  BY <1>1, <1>2, <1>3, <1>4, <1>5, <1>6, <1>7, <1>8 DEF Next, Native, Loop, Reader

LEMMA InitSkips == Init => RisesOK /\ KnownOK /\ SkipOK
<1>. SUFFICES ASSUME Init PROVE RisesOK /\ KnownOK /\ SkipOK
  OBVIOUS
<1>1. /\ turn.events = <<>> /\ reply.events = <<>> /\ text = <<>> /\ pageText = <<>> /\ pc = "top"
  BY UnknownType DEF Init, Nothing
<1>2. Len(stream) = 1 /\ stream[1].kind = "turnStarted"
  BY DEF Init, Note
<1>3. \A i : i \notin 1..Len(<<>>)
  BY Empty
<1>4. RisesOK
  BY <1>1, <1>2, <1>3 DEF RisesOK, Increasing, Pieces
<1>5. Base = <<>> /\ <<>> \o <<>> = <<>>
  BY <1>1 DEF Base
<1>6. SkipOK
  BY <1>1, <1>5, CoveredNothing DEF SkipOK
<1>. QED  BY <1>1, <1>4, <1>6 DEF KnownOK

\* With all that is to come applied, nothing is missing.
LEMMA SkipEnd == ASSUME TypeOK, SkipOK PROVE NothingSkipped
<1>. SUFFICES ASSUME reads = 0, pc \notin {"recovered", "history", "reread", "done"}
              PROVE  InOrder(text, ToCome.text)
  BY DEF NothingSkipped
<1>1. Covered(Base, reply.events \o turn.events, text)
  BY DEF SkipOK, Unread
<1>2. PICK E, polled : /\ E = reply.events \o turn.events
                       /\ polled = IF pc \in {"snapshot", "late"} THEN PollApplied(reply) ELSE Page
  OBVIOUS
<1>3. ToCome = BatchApplied(polled, E)
  BY <1>2 DEF ToCome
<1>4. E \in Seq(Events) /\ text \in Texts /\ reply.events \in Seq(Events) /\ turn.events \in Seq(Events)
  BY <1>2, EventsLists DEF TypeOK, HostTyped
<1>5. polled \in Pages(Statuses) /\ polled.text = Base
  <2>1. CASE pc \in {"snapshot", "late"}
    <3>1. /\ polled.status = reply.status /\ polled.text = Merged(pageText, reply.text) /\ polled = PollApplied(reply)
      BY <1>2, <2>1 DEF PollApplied
    <3>2. reply.status \in Statuses /\ pageText \in Texts /\ reply.text \in Texts /\ pagePast \in BOOLEAN /\ reply.past \in BOOLEAN
      BY <2>1 DEF TypeOK, PageTyped, AnswersTyped, Replies
    <3>3. Merged(pageText, reply.text) \in Texts
      BY <3>2, MergedType
    <3>4. polled \in Pages(Statuses)
      BY <3>1, <3>2, <3>3 DEF PollApplied, Pages
    <3>. QED  BY <2>1, <3>1, <3>4 DEF Base
  <2>2. CASE pc \notin {"snapshot", "late"}
    BY <1>2, <2>2, PageIs DEF Base
  <2>. QED  BY <2>1, <2>2
<1>6. \A k \in 1..Len(E) : E[k].kind = "status" => E[k].status \in Statuses
  <2>1. /\ \A k \in 1..Len(turn.events) : turn.events[k].kind = "status" => turn.events[k].status \in Statuses
        /\ \A k \in 1..Len(reply.events) : reply.events[k].kind = "status" => reply.events[k].status \in Statuses
    BY DEF TypeOK, AnswersTyped
  <2>2. PICK r, a : r = reply.events /\ a = turn.events
    OBVIOUS
  <2>3. /\ Len(E) = Len(r) + Len(a) /\ Len(r) \in Nat /\ Len(a) \in Nat
        /\ \A i \in 1..Len(r) : E[i] = r[i]
        /\ \A i \in 1..Len(a) : E[Len(r) + i] = a[i]
    <3>1. E = r \o a /\ r \in Seq(Events) /\ a \in Seq(Events)
      BY <1>2, <1>4, <2>2
    <3>2. /\ Len(r \o a) = Len(r) + Len(a) /\ Len(r) \in Nat /\ Len(a) \in Nat
          /\ \A i \in 1..Len(r) : (r \o a)[i] = r[i]
          /\ \A i \in 1..Len(a) : (r \o a)[Len(r) + i] = a[i]
      BY <3>1, JoinedIs
    <3>. QED  BY <3>1, <3>2
  <2>4. SUFFICES ASSUME NEW k \in 1..Len(E), E[k].kind = "status" PROVE E[k].status \in Statuses
    OBVIOUS
  <2>5. CASE k \in 1..Len(r)
    BY <2>1, <2>2, <2>3, <2>4, <2>5
  <2>6. CASE k > Len(r)
    <3>1. PICK m : m = k - Len(r)
      OBVIOUS
    <3>2. m \in 1..Len(a) /\ k = Len(r) + m
      BY <2>3, <2>6, <3>1
    <3>. QED  BY <2>1, <2>2, <2>3, <2>4, <3>2, ZenonT(60)
  <2>. QED  BY <2>3, <2>5, <2>6
<1>7. PICK page : page = BatchApplied(polled, E)
  OBVIOUS
<1>8. <<>> \in Seq(Events) /\ Covered(polled.text, E \o <<>>, text)
  BY <1>1, <1>2, <1>4, <1>5, NoneJoined, Empty
<1>9. Covered(page.text, <<>>, text)
  BY <1>4, <1>5, <1>6, <1>7, <1>8, CoveredBatch
<1>10. InOrder(text, page.text)
  BY <1>9, Empty DEF Covered
<1>. QED  BY <1>3, <1>7, <1>10

\* However events and whole states overlap, a page that reads no history has, with what it is
\* yet to be given, every chunk of the answer the host has (CodexBackend.ets, applyTurnEventBatch,
\* mergeThreadMessageContent).
THEOREM NothingIsSkipped == Spec => []NothingSkipped
<1>1. Init => RisesOK /\ KnownOK /\ SkipOK
  BY InitSkips
<1>2. WholeOK /\ RisesOK /\ KnownOK /\ SkipOK /\ [Next]_vars => RisesOK' /\ KnownOK' /\ SkipOK'
  BY RisesStep, SkipStep DEF WholeOK
<1>3. WholeOK /\ SkipOK => NothingSkipped
  BY SkipEnd DEF WholeOK
<1>. QED  BY <1>1, <1>2, <1>3, WholeInvariant, PTL DEF Spec
=============================================================================

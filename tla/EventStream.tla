---------------------------- MODULE EventStream ----------------------------
(***************************************************************************)
(* What the remote app-server client promises the consumer of its events.  *)
(*                                                                         *)
(* The server emits one stream of events.  The consumer moves along that   *)
(* stream without ever going back: it either receives the next event, or   *)
(* is told that a number of events has been skipped, none of which belongs *)
(* to the lossless tier.  Nothing disappears without being accounted for.  *)
(* The classification and the promise are those of                         *)
(* app-server-client/src/lib.rs (server_notification_requires_delivery).   *)
(***************************************************************************)
EXTENDS Naturals, Sequences

CONSTANTS Kinds,        \* the classes of events
          LosslessKinds \* the classes that must never be skipped

VARIABLES sent,         \* the classes of the events emitted so far, in order
          consumed      \* how far along that stream the consumer is

vars == <<sent, consumed>>

Init == /\ sent = <<>>
        /\ consumed = 0

Emit == /\ \E kind \in Kinds : sent' = Append(sent, kind)
        /\ UNCHANGED consumed

Receive == /\ consumed < Len(sent)
           /\ consumed' = consumed + 1
           /\ UNCHANGED sent

\* The consumer learns that the next n events were dropped.
Skip == /\ \E n \in 1..(Len(sent) - consumed) :
             /\ \A i \in (consumed + 1)..(consumed + n) : sent[i] \notin LosslessKinds
             /\ consumed' = consumed + n
        /\ UNCHANGED sent

Next == Emit \/ Receive \/ Skip

Spec == Init /\ [][Next]_vars
=============================================================================

------------------------------ MODULE LogRelay ------------------------------
(***************************************************************************)
(* What the WebSocket side of the logging handler promises its users,      *)
(* independently of channels, batches and locks: records accepted for      *)
(* transmission are acknowledged one by one, in the order in which they    *)
(* were accepted, and the endpoint only ever sees the record that is next  *)
(* in line.  The endpoint may see that record several times, when a write  *)
(* is reported as failed after its bytes arrived and is retried, and it    *)
(* may miss it, when a write that was reported as done is lost with the    *)
(* connection.                                                             *)
(***************************************************************************)
EXTENDS Naturals, Sequences

CONSTANT Records

VARIABLES
    accepted,   \* the records accepted, in order
    acked,      \* the records whose write was reported as done, in order
    received    \* the records the endpoint saw, in order

relayVars == <<accepted, acked, received>>

Init ==
    /\ accepted = <<>>
    /\ acked = <<>>
    /\ received = <<>>

Accept(r) ==
    /\ \A i \in DOMAIN accepted : accepted[i] # r
    /\ accepted' = Append(accepted, r)
    /\ UNCHANGED <<acked, received>>

Waiting == Len(acked) < Len(accepted)
NextInLine == accepted[Len(acked) + 1]

Acknowledge ==
    /\ Waiting
    /\ acked' = Append(acked, NextInLine)
    /\ received' \in {received, Append(received, NextInLine)}
    /\ UNCHANGED accepted

\* The endpoint saw the record, but the writer was told that the write failed.
DeliverUnacknowledged ==
    /\ Waiting
    /\ received' = Append(received, NextInLine)
    /\ UNCHANGED <<accepted, acked>>

Next ==
    \/ \E r \in Records : Accept(r)
    \/ Acknowledge
    \/ DeliverUnacknowledged

Spec == Init /\ [][Next]_relayVars
=============================================================================

--------------------------- MODULE MessageChannel ---------------------------
(***************************************************************************)
(* What either end of the local socket between the application and the     *)
(* service takes for granted: while a connection is up, what is sent on it *)
(* arrives once, whole and in the order of sending; what had not arrived   *)
(* when it broke is lost, and nothing of it reaches the next connection.   *)
(***************************************************************************)
EXTENDS Naturals, Sequences

CONSTANT Messages

VARIABLES
    up,     \* both ends are there
    sent,   \* on this connection
    got     \* of what was sent

vars == <<up, sent, got>>

Init == up = TRUE /\ sent = <<>> /\ got = <<>>

Send ==
    /\ up
    /\ \E m \in Messages : sent' = Append(sent, m)
    /\ UNCHANGED <<up, got>>

Deliver ==
    /\ Len(got) < Len(sent)
    /\ got' = Append(got, sent[Len(got) + 1])
    /\ UNCHANGED <<up, sent>>

Break ==
    /\ up
    /\ up' = FALSE
    /\ UNCHANGED <<sent, got>>

Renew ==
    /\ ~up
    /\ up' = TRUE
    /\ sent' = <<>>
    /\ got' = <<>>

Next == Send \/ Deliver \/ Break \/ Renew

Spec == Init /\ [][Next]_vars

\* What was sent arrives while the connection is up.
Arrival == WF_vars(up /\ Deliver)
=============================================================================

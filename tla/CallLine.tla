------------------------------ MODULE CallLine ------------------------------
(***************************************************************************)
(* What the call sessions promise: every apartment has one line.  A line   *)
(* is free, or rings, or is answered; a door opens through a call only     *)
(* while that call holds the line and is answered.                         *)
(***************************************************************************)
CONSTANTS Calls, Apartments, NoCall  \* NoCall is not in Calls

VARIABLES line, opened

vars == <<line, opened>>

Free == <<NoCall, "none">>

Init == line = [a \in Apartments |-> Free] /\ opened = {}

Ring(a, c) ==
    /\ line[a] = Free
    /\ \A b \in Apartments : line[b] \notin {<<c, "ringing">>, <<c, "accepted">>}
    /\ line' = [line EXCEPT ![a] = <<c, "ringing">>]
    /\ UNCHANGED opened

Answer(a, c) ==
    /\ line[a] = <<c, "ringing">>
    /\ line' = [line EXCEPT ![a] = <<c, "accepted">>]
    /\ UNCHANGED opened

Open(a, c) ==
    /\ line[a] = <<c, "accepted">>
    /\ opened' = opened \cup {c}
    /\ UNCHANGED line

\* By cancel, by end, or because the time of the call ran out; time runs out
\* for several lines at once.
HangUp ==
    /\ \E S \in SUBSET Apartments :
        line' = [a \in Apartments |-> IF a \in S THEN Free ELSE line[a]]
    /\ UNCHANGED opened

Next ==
    \/ \E a \in Apartments, c \in Calls : Ring(a, c) \/ Answer(a, c) \/ Open(a, c)
    \/ HangUp

Spec == Init /\ [][Next]_vars
=============================================================================

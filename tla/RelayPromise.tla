---------------------------- MODULE RelayPromise ----------------------------
(***************************************************************************)
(* What the relay promises (PROTOCOL.md 5.3 to 5.5), as an automaton with  *)
(* eager timers: each tick counts the time the link has been as it is, and *)
(* the fail-open mode changes on the very tick a threshold is reached.     *)
(***************************************************************************)
EXTENDS Integers

CONSTANTS FailOpenAfter, Hysteresis, Durations

VARIABLES
    link,      \* "up" or "down"
    since,     \* ticks the link has been so
    failSafe,  \* the relay is held open for want of a link
    hold       \* ticks a command still holds the relay open

vars == <<link, since, failSafe, hold>>

Init == link = "up" /\ since = 0 /\ failSafe = FALSE /\ hold = 0

Command(d) == hold' = d /\ UNCHANGED <<link, since, failSafe>>

Lost == link' = "down" /\ since' = 0 /\ UNCHANGED <<failSafe, hold>>

Restored == link' = "up" /\ since' = 0 /\ UNCHANGED <<failSafe, hold>>

Tick ==
    /\ since' = since + 1
    /\ hold' = IF hold = 0 THEN 0 ELSE hold - 1
    /\ failSafe' = IF link = "up" THEN failSafe /\ since' < Hysteresis
                                  ELSE failSafe \/ since' >= FailOpenAfter
    /\ UNCHANGED link

Next ==
    \/ \E d \in Durations : Command(d)
    \/ Lost
    \/ Restored
    \/ Tick

Spec == Init /\ [][Next]_vars
=============================================================================

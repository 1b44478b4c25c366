------------------------------ MODULE RelayFSM ------------------------------
(***************************************************************************)
(* The relay automaton of the device (firmware/emulator/relay.go).  It has *)
(* no timer of its own: every method takes the time and works out what has *)
(* happened since the last call.  The fail-open latch is therefore lazy;   *)
(* Refreshed is the value any method called now would give it.             *)
(***************************************************************************)
EXTENDS Integers

CONSTANTS
    FailOpenAfter,  \* failOpenThreshold in ticks
    Hysteresis      \* recoveryHysteresis in ticks

ASSUME ThresholdsAssumption ==
    FailOpenAfter \in Nat \ {0} /\ Hysteresis \in Nat \ {0}

VARIABLES
    now,         \* the time the methods are given
    openUntil,   \* the relay is held open by a command until then
    connected,   \* the automaton's idea of the link
    lostAt,      \* last ConnectionLost
    restoredAt,  \* last ConnectionRestored, or the start
    failOpen     \* the latch, as of the last call

fsm == <<openUntil, connected, lostAt, restoredAt, failOpen>>

FSMTypeOK ==
    /\ now \in Nat /\ openUntil \in Nat /\ lostAt \in Nat /\ restoredAt \in Nat
    /\ connected \in BOOLEAN /\ failOpen \in BOOLEAN

\* NewRelayFSM: closed and connected, whatever the link is.
NewRelayFSM ==
    /\ now = 0
    /\ openUntil = 0
    /\ connected = TRUE
    /\ lostAt = 0
    /\ restoredAt = 0
    /\ failOpen = FALSE

\* Mutant of Refreshed: the threshold itself does not count.
RefreshedLate ==
    IF connected THEN failOpen /\ now - restoredAt < Hysteresis
                 ELSE failOpen \/ now - lostAt > FailOpenAfter

\* refresh
Refreshed ==
    IF connected THEN failOpen /\ now - restoredAt < Hysteresis
                 ELSE failOpen \/ now - lostAt >= FailOpenAfter

State == IF Refreshed \/ now < openUntil THEN "open" ELSE "closed"

\* Mutant of OpenRelay: the command clears the latch.
OpenRelayUnlatches(duration) ==
    /\ failOpen' = FALSE
    /\ openUntil' = now + duration
    /\ UNCHANGED <<connected, lostAt, restoredAt>>

OpenRelay(duration) ==
    /\ failOpen' = Refreshed
    /\ openUntil' = now + duration
    /\ UNCHANGED <<connected, lostAt, restoredAt>>

ConnectionLost ==
    /\ failOpen' = Refreshed
    /\ connected' = FALSE
    /\ lostAt' = now
    /\ UNCHANGED <<openUntil, restoredAt>>

\* Mutant of ConnectionRestored: no refresh before the link is noted.
RestoredUnrefreshed ==
    /\ connected' = TRUE
    /\ restoredAt' = now
    /\ UNCHANGED <<openUntil, lostAt, failOpen>>

ConnectionRestored ==
    /\ failOpen' = Refreshed
    /\ connected' = TRUE
    /\ restoredAt' = now
    /\ UNCHANGED <<openUntil, lostAt>>

\* The queries State and FailOpen, which refresh the latch.
Query ==
    /\ failOpen' = Refreshed
    /\ UNCHANGED <<openUntil, connected, lostAt, restoredAt>>
=============================================================================

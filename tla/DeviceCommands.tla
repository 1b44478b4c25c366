--------------------------- MODULE DeviceCommands ---------------------------
(***************************************************************************)
(* The commands of the device (firmware/emulator, commands.go and          *)
(* idempotency.go).  The broker delivers every command at least once: QoS  *)
(* 1 in a persistent session redelivers what was not acknowledged, late    *)
(* and in any order, and a sender may repeat a command under its           *)
(* request_id.  handleCommand must open the door at most once for each.    *)
(*                                                                         *)
(* The client runs one message handler at a time, so the check and the     *)
(* actuation are one step.  The clock is the device's; the server stamps   *)
(* issued_at with its own, which differs from it by at most Skew.          *)
(***************************************************************************)
EXTENDS Integers, FiniteSets

CONSTANTS
    Requests,   \* request ids of well-formed open_relay commands
    Stale,      \* staleThreshold in ticks
    BufferTTL,  \* idempotencyTTL in ticks
    Capacity,   \* idempotencyCapacity
    Skew,       \* how far the server's clock is ahead or behind
    Restarts,   \* the device may restart; the buffer is in memory
    MaxTime,    \* bound: ticks
    MaxPlaces   \* bound: insertions into the buffer

\* PROTOCOL.md 6: BufferTTL is 60 s, Stale is 30 s.
ASSUME CommandsAssumption ==
    /\ {Stale, BufferTTL, Capacity, Skew, MaxTime, MaxPlaces} \subseteq Nat
    /\ Capacity > 0
    /\ BufferTTL >= 2 * Stale
    /\ Restarts \in BOOLEAN

VARIABLES
    now,       \* the device's clock
    issuedAt,  \* issuedAt[q]: issued_at of the command, NotSent before
    entries,   \* IdempotencyBuffer.entries: [id, added, place]
    place,     \* the number of insertions, which orders the entries
    acks,      \* the command_acks published
    actuated,  \* history: commands that opened the relay
    repeated,  \* history: commands that opened it more than once
    forgotten  \* history: commands that left the buffer before their TTL

vars == <<now, issuedAt, entries, place, acks, actuated, repeated, forgotten>>

NotSent == -(Skew + 1)

Entry == [id : Requests, added : Nat, place : Nat]

TypeOK ==
    /\ now \in Nat
    /\ issuedAt \in [Requests -> Int]
    /\ entries \in SUBSET Entry
    /\ place \in Nat
    /\ acks \in SUBSET (Requests \X {"ok", "duplicate", "rejected"})
    /\ {actuated, repeated, forgotten} \subseteq SUBSET Requests

Init ==
    /\ now = 0
    /\ issuedAt = [q \in Requests |-> NotSent]
    /\ entries = {}
    /\ place = 0
    /\ acks = {}
    /\ actuated = {}
    /\ repeated = {}
    /\ forgotten = {}

Abs(n) == IF n < 0 THEN -n ELSE n

IsStale(issued) == Abs(now - issued) > Stale

-----------------------------------------------------------------------------
(* Seen: purge by age, look up, evict the oldest, insert. *)

\* Mutant of Fresh: an entry goes when its age reaches the TTL.
FreshBelow == {e \in entries : now - e.added < BufferTTL}

Fresh == {e \in entries : now - e.added <= BufferTTL}

Buffered(q) == \E e \in Fresh : e.id = q

\* The oldest entry, when the buffer is full.
Oldest ==
    IF Cardinality(Fresh) >= Capacity
    THEN {e \in Fresh : \A f \in Fresh : e.place <= f.place}
    ELSE {}

\* Mutant of Insert: the age counts from issued_at.
InsertIssued(q) ==
    /\ entries' = (Fresh \ Oldest) \cup {[id |-> q, added |-> issuedAt[q], place |-> place]}
    /\ place' = place + 1
    /\ forgotten' = forgotten \cup {e.id : e \in Oldest}

Insert(q) ==
    /\ entries' = (Fresh \ Oldest) \cup {[id |-> q, added |-> now, place |-> place]}
    /\ place' = place + 1
    /\ forgotten' = forgotten \cup {e.id : e \in Oldest}

-----------------------------------------------------------------------------
(* handleCommand, for a command delivered for the first time or again. *)

Delivered(q) == issuedAt[q] # NotSent

\* Mutant of Reject: Seen is called before IsStale.
RejectSeen(q) ==
    /\ Delivered(q) /\ IsStale(issuedAt[q])
    /\ ~Buffered(q)
    /\ place < MaxPlaces
    /\ Insert(q)
    /\ acks' = acks \cup {<<q, "rejected">>}
    /\ UNCHANGED <<now, issuedAt, actuated, repeated>>

Reject(q) ==
    /\ Delivered(q) /\ IsStale(issuedAt[q])
    /\ acks' = acks \cup {<<q, "rejected">>}
    /\ UNCHANGED <<now, issuedAt, entries, place, actuated, repeated, forgotten>>

\* A duplicate is acknowledged and does not touch the relay.
AckDuplicate(q) ==
    /\ Delivered(q) /\ ~IsStale(issuedAt[q])
    /\ Buffered(q)
    /\ entries' = Fresh
    /\ acks' = acks \cup {<<q, "duplicate">>}
    /\ UNCHANGED <<now, issuedAt, place, actuated, repeated, forgotten>>

\* OpenRelay (module RelayFSM) and command_ack ok.
Actuate(q) ==
    /\ Delivered(q) /\ ~IsStale(issuedAt[q])
    /\ ~Buffered(q)
    /\ place < MaxPlaces
    /\ Insert(q)
    /\ repeated' = IF q \in actuated THEN repeated \cup {q} ELSE repeated
    /\ actuated' = actuated \cup {q}
    /\ acks' = acks \cup {<<q, "ok">>}
    /\ UNCHANGED <<now, issuedAt>>

-----------------------------------------------------------------------------

\* The server publishes open_relay, stamped by its own clock.
Issue(q) ==
    /\ ~Delivered(q)
    /\ \E skew \in -Skew..Skew : issuedAt' = [issuedAt EXCEPT ![q] = now + skew]
    /\ UNCHANGED <<now, entries, place, acks, actuated, repeated, forgotten>>

Tick ==
    /\ now < MaxTime
    /\ now' = now + 1
    /\ UNCHANGED <<issuedAt, entries, place, acks, actuated, repeated, forgotten>>

\* The emulator restarts with an empty buffer (newDevice).
Restart ==
    /\ Restarts
    /\ entries' = {}
    /\ forgotten' = forgotten \cup {e.id : e \in entries}
    /\ UNCHANGED <<now, issuedAt, place, acks, actuated, repeated>>

Next ==
    \/ \E q \in Requests : Issue(q) \/ Reject(q) \/ AckDuplicate(q) \/ Actuate(q)
    \/ Tick
    \/ Restart

Spec == Init /\ [][Next]_vars

-----------------------------------------------------------------------------
(* Properties. *)

\* PROTOCOL.md 5.1 and 5.2 together: a command opens the door twice only if
\* its entry was driven out of a full buffer or lost in a restart.  In every
\* other case the entry outlives the freshness of the command, even if the
\* command was stamped as far in the future as IsStale accepts.
OnceUnlessForgotten == repeated \subseteq forgotten

\* An acknowledgement that is not a rejection is about a command that did
\* open the door: the backend audits the door as opened on it.
AckedWasActuated ==
    \A q \in Requests : {<<q, "ok">>, <<q, "duplicate">>} \cap acks # {} => q \in actuated

\* The inductive strengthening.  What is buffered was actuated, when the
\* command was fresh, and is not from the future; and a command that was
\* actuated is still buffered, or stale for good, or forgotten.
Recorded(q) ==
    \E e \in entries : e.id = q /\ now - e.added <= BufferTTL

Past(q) == now - issuedAt[q] > Stale

BufferIsSound ==
    \A e \in entries :
        /\ e.id \in actuated
        /\ e.added <= now
        /\ Abs(e.added - issuedAt[e.id]) <= Stale

Remembered == \A q \in actuated : Recorded(q) \/ Past(q) \/ q \in forgotten

IInv ==
    /\ TypeOK
    /\ \A q \in actuated : Delivered(q)
    /\ BufferIsSound
    /\ Remembered
    /\ OnceUnlessForgotten
    /\ AckedWasActuated
=============================================================================

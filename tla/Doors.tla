------------------------------- MODULE Doors -------------------------------
(***************************************************************************)
(* The way of a command to one door and of its trace back to the audit     *)
(* log: access.OpenResolved, which residents with a grant and guests       *)
(* share, the MQTT broker, the device, and the status consumer of          *)
(* backend/internal/devices.                                               *)
(*                                                                         *)
(* The server and the device have the same clock here (DeviceCommands has  *)
(* their skew, and redeliveries).  The broker keeps commands for a device  *)
(* that is away; the server's session is clean, so acks that are sent      *)
(* while it is away are lost.  A request id is the handler that drew it.   *)
(* Times are ages and rests, counted in ticks up to where they matter.     *)
(***************************************************************************)
EXTENDS Integers, FiniteSets

CONSTANTS
    Openers,      \* handlers of open requests, one request each
    Lessor,       \* the scheduler, as the issuer of a command
    Hold,         \* durationMs of a manual opening, in ticks
    Stale,        \* freshness of a command at the device
    PresenceTTL,
    MaxFaults     \* bound: failures

ASSUME DoorsAssumption ==
    /\ Lessor \notin Openers
    /\ {Hold, Stale, PresenceTTL} \subseteq Nat \ {0}
    /\ MaxFaults \in Nat

VARIABLES
    link,       \* the device is connected to the broker
    presence,   \* rest of the key device:online:{id}
    broker,     \* commands not yet delivered
    held,       \* how long the relay will still be held open
    acks,       \* acks of openings by people, on their way to the server
    ctx,        \* the keys cmd:{request_id}
    op,         \* the handlers; age is that of the stamp of the command
    log,        \* the audit log, as far as openings by people go
    acted,      \* history: the requests that opened the door
    sinceAsked, \* history: ticks since the last opening by a person was published
    faults      \* failures so far

doors == <<link, presence, broker, held, acks, ctx, op, log, acted, sinceAsked, faults>>

Ages == 0..(Stale + 1)
Command == [id : Openers \cup {Lessor}, age : Ages, hold : Nat]
Entries == {"requested", "ack", "ack_bare", "rejected", "rejected_bare"}

DoorsTypeOK ==
    /\ link \in BOOLEAN
    /\ presence \in 0..PresenceTTL
    /\ broker \subseteq Command
    /\ held \in Nat
    /\ acks \subseteq (Openers \X {"ok", "rejected"})
    /\ ctx \subseteq Openers
    /\ op \in [Openers -> [pc : {"new", "publish", "save", "record", "done"}, age : Ages]]
    /\ log \subseteq (Entries \X Openers)
    /\ acted \subseteq Openers
    /\ sinceAsked \in 0..(Stale + Hold)
    /\ faults \in 0..MaxFaults

DoorsInit ==
    /\ link = TRUE
    /\ presence = PresenceTTL
    /\ broker = {}
    /\ held = 0
    /\ acks = {}
    /\ ctx = {}
    /\ op = [o \in Openers |-> [pc |-> "new", age |-> 0]]
    /\ log = {}
    /\ acted = {}
    /\ sinceAsked = Stale + Hold
    /\ faults = 0

Fault(n) == faults + n <= MaxFaults /\ faults' = faults + n

Up(n, cap) == IF n < cap THEN n + 1 ELSE cap
Down(n) == IF n = 0 THEN 0 ELSE n - 1

-----------------------------------------------------------------------------
(* OpenResolved, for a point the user or the guest may open. *)

Goto(o, pc) == op' = [op EXCEPT ![o] = [pc |-> pc, age |-> 0]]

\* IsOnline; the command is stamped when it is made up.
CheckOnline(o) ==
    /\ op[o].pc = "new"
    /\ Goto(o, IF presence > 0 THEN "publish" ELSE "done")
    /\ UNCHANGED <<link, presence, broker, held, acks, ctx, log, acted, sinceAsked, faults>>

Send(id, age, hold) == broker' = broker \cup {[id |-> id, age |-> age, hold |-> hold]}

Publish(o) ==
    /\ op[o].pc = "publish"
    /\ Send(o, op[o].age, Hold)
    /\ sinceAsked' = 0
    /\ Goto(o, "save")
    /\ UNCHANGED <<link, presence, held, acks, ctx, log, acted, faults>>

\* No PUBACK within the timeout: 500, but the client may still deliver it.
PublishTimesOut(o) ==
    /\ op[o].pc = "publish"
    /\ Fault(1)
    /\ \/ Send(o, op[o].age, Hold) /\ sinceAsked' = 0
       \/ UNCHANGED <<broker, sinceAsked>>
    /\ Goto(o, "done")
    /\ UNCHANGED <<link, presence, held, acks, ctx, log, acted>>

\* The context of the command, best effort.
SaveContext(o) ==
    /\ op[o].pc = "save"
    /\ \/ ctx' = ctx \cup {o} /\ UNCHANGED faults
       \/ Fault(1) /\ UNCHANGED ctx
    /\ Goto(o, "record")
    /\ UNCHANGED <<link, presence, broker, held, acks, log, acted, sinceAsked>>

\* door_open_requested, best effort.
RecordRequest(o) ==
    /\ op[o].pc = "record"
    /\ \/ log' = log \cup {<<"requested", o>>} /\ UNCHANGED faults
       \/ Fault(1) /\ UNCHANGED log
    /\ Goto(o, "done")
    /\ UNCHANGED <<link, presence, broker, held, acks, ctx, acted, sinceAsked>>

\* The server goes down: with it the handler, and the acks it did not get.
\* It counts as two failures, since both traces of an opening may go with it.
Crash(o) ==
    /\ op[o].pc \notin {"new", "done"}
    /\ Fault(2)
    /\ Goto(o, "done")
    /\ acks' = {}
    /\ UNCHANGED <<link, presence, broker, held, ctx, log, acted, sinceAsked>>

-----------------------------------------------------------------------------
(* The device. *)

\* Mutant of IsStale: a command is as good as new at any age.
NeverStale(c) == FALSE

IsStale(c) == c.age > Stale

Acked(c, result) == acks' = acks \cup ({c.id} \cap Openers) \X {result}

\* handleCommand: the last command wins.  The ack of a lease finds no
\* context; it becomes an entry without a company and is left out.
Deliver(c) ==
    /\ link /\ c \in broker
    /\ broker' = broker \ {c}
    /\ IF IsStale(c)
       THEN Acked(c, "rejected") /\ UNCHANGED <<held, acted>>
       ELSE /\ Acked(c, "ok")
            /\ held' = c.hold
            /\ acted' = acted \cup ({c.id} \cap Openers)
    /\ UNCHANGED <<link, presence, ctx, op, log, sinceAsked, faults>>

LinkChanges ==
    /\ link' = ~link
    /\ UNCHANGED <<presence, broker, held, acks, ctx, op, log, acted, sinceAsked, faults>>

-----------------------------------------------------------------------------
(* The status consumer. *)

\* CommandContextStore.Get: whether the context of the command is found.  The
\* key may have run out, and the GET may fail.
Get(id) == {FALSE, (id \in ctx)}

\* Mutant of AckEntry: an ack without its context is dropped.
AckEntryNamed(a, found) ==
    IF found THEN {<<IF a[2] = "ok" THEN "ack" ELSE "rejected", a[1]>>} ELSE {}

\* command_ack or command_rejected, with the context when it is there.
AckEntry(a, found) ==
    {<<IF a[2] = "ok" THEN (IF found THEN "ack" ELSE "ack_bare")
       ELSE IF found THEN "rejected" ELSE "rejected_bare", a[1]>>}

HandleAck(a) ==
    /\ a \in acks
    /\ acks' = acks \ {a}
    /\ \E found \in Get(a[1]) : log' = log \cup AckEntry(a, found)
    /\ UNCHANGED <<link, presence, broker, held, ctx, op, acted, sinceAsked, faults>>

\* The audit insert fails, or the server's connection is down when the ack
\* is sent.
AckLost(a) ==
    /\ a \in acks
    /\ Fault(1)
    /\ acks' = acks \ {a}
    /\ UNCHANGED <<link, presence, broker, held, ctx, op, log, acted, sinceAsked>>

\* Mutant of Marked: each heartbeat adds to the rest.
MarkedLonger == presence + PresenceTTL

\* Presence.Mark.
Marked == PresenceTTL

\* The heartbeats of a tick renew the key; else it runs out.
Heartbeats == IF link THEN Marked ELSE Down(presence)

-----------------------------------------------------------------------------
DoorsNext ==
    \/ \E o \in Openers :
          \/ CheckOnline(o) \/ Publish(o) \/ PublishTimesOut(o)
          \/ SaveContext(o) \/ RecordRequest(o) \/ Crash(o)
    \/ \E c \in broker : Deliver(c)
    \/ LinkChanges
    \/ \E a \in acks : HandleAck(a) \/ AckLost(a)

\* A tick passes for the door, the keys and the messages.
DoorsTick ==
    /\ presence' = Heartbeats
    /\ held' = Down(held)
    /\ broker' = {[c EXCEPT !.age = Up(@, Stale + 1)] : c \in broker}
    /\ op' = [o \in Openers |-> IF op[o].pc = "publish"
                                THEN [op[o] EXCEPT !.age = Up(@, Stale + 1)] ELSE op[o]]
    /\ sinceAsked' = Up(sinceAsked, Stale + Hold)
    /\ UNCHANGED <<link, acks, ctx, log, acted, faults>>

-----------------------------------------------------------------------------
\* An opening by a person that no failure met is in the log of the company,
\* once its handler is through; and no single failed call, time-out or lost
\* message leaves a door opened without any trace.  A crash of the server can.
Traced ==
    \A o \in acted :
        \/ op[o].pc \in {"save", "record"} \/ <<"requested", o>> \in log
        \/ faults > 0 /\ (<<o, "ok">> \in acks \/ log \cap {<<"ack", o>>, <<"ack_bare", o>>} # {})
        \/ faults > 1

=============================================================================

------------------------------- MODULE Device -------------------------------
(***************************************************************************)
(* The device around its relay automaton (firmware/emulator, main.go and   *)
(* failopen.go): the callbacks of the MQTT client, the poll loop, and the  *)
(* buffer of the events that occur without a link.                         *)
(*                                                                         *)
(* The i-th connection to the broker starts one goroutine handleConnect    *)
(* and, when it breaks, one goroutine handleConnectionLost.  Device.mu     *)
(* makes the work on the automaton atomic, not the order of the            *)
(* goroutines, nor what a goroutine does after it unlocks.                 *)
(*                                                                         *)
(* A tick is longer than the timeouts of subscribe and publish (5 s), so   *)
(* the goroutines that are ready run before the next tick.  An event that  *)
(* is published is kept and, if need be, sent again by the client (QoS 1,  *)
(* persistent session), so published is the order of the Publish calls.    *)
(* Heartbeats carry a copy of relayState and are left out.                 *)
(***************************************************************************)
EXTENDS RelayFSM, SequencesExt

CONSTANTS
    Durations,   \* duration_ms of the commands, in ticks
    Connections, \* bound: connections to the broker
    MaxTime,     \* bound: ticks
    Overtaking   \* a goroutine may run before one that was started earlier

ASSUME DeviceAssumption ==
    /\ Durations \subseteq Nat \ {0}
    /\ Connections \in Nat
    /\ MaxTime \in Nat
    /\ Overtaking \in BOOLEAN

VARIABLES
    online,      \* Device.online
    relayState,  \* Device.relayState: the state observed last
    observed,    \* Device.failOpen: the latch observed last
    offline,     \* Device.offline.events
    connect,     \* connect[i]: where handleConnect of connection i stands
    batch,       \* batch[i]: the events it has drained and not yet published
    lost,        \* lost[i]: where handleConnectionLost stands
    poll,        \* where pollState stands
    event,       \* the event pollState is emitting
    published,   \* the events published, in order
    up,          \* the link itself
    conn,        \* the number of connections so far
    linkSince,   \* history: when the link last went up or down
    stableAt,    \* history: when a connection last broke that had outlasted Hysteresis
    occurred     \* history: the events as they occurred

device == <<online, relayState, observed>>
goroutines == <<connect, batch, lost>>
polling == <<poll, event>>
link == <<up, conn, linkSince, stableAt>>
vars == <<now, fsm, device, offline, goroutines, polling, published, link, occurred>>

Conns == 1..Connections
Events == {"fail_open_activated", "fail_open_deactivated"}

TypeOK ==
    /\ FSMTypeOK
    /\ {online, observed, up} \subseteq BOOLEAN
    /\ relayState \in {"closed", "open"}
    /\ {offline, published, occurred} \subseteq Seq(Events)
    /\ connect \in [Conns -> {"none", "start", "drain", "flush"}]
    /\ batch \in [Conns -> Seq(Events)]
    /\ lost \in [Conns -> {"none", "start"}]
    /\ poll \in {"idle", "emit", "publish", "buffer"}
    /\ event \in Events \cup {"none"}
    /\ conn \in 0..Connections
    /\ {linkSince, stableAt} \subseteq Nat

Init ==
    /\ NewRelayFSM
    /\ online = FALSE
    /\ relayState = "closed"
    /\ observed = FALSE
    /\ offline = <<>>
    /\ connect = [i \in Conns |-> "none"]
    /\ batch = [i \in Conns |-> <<>>]
    /\ lost = [i \in Conns |-> "none"]
    /\ poll = "idle"
    /\ event = "none"
    /\ published = <<>>
    /\ up = FALSE
    /\ conn = 0
    /\ linkSince = 0
    /\ stableAt = 0
    /\ occurred = <<>>

-----------------------------------------------------------------------------
(* The broker and the MQTT client. *)

LinkUp ==
    /\ ~up
    /\ conn < Connections
    /\ up' = TRUE
    /\ conn' = conn + 1
    /\ linkSince' = now
    /\ connect' = [connect EXCEPT ![conn + 1] = "start"]
    /\ UNCHANGED <<now, fsm, device, offline, batch, lost, polling, published, stableAt, occurred>>

LinkDown ==
    /\ up
    /\ up' = FALSE
    /\ linkSince' = now
    /\ stableAt' = IF now - linkSince >= Hysteresis THEN now ELSE stableAt
    /\ lost' = [lost EXCEPT ![conn] = "start"]
    /\ UNCHANGED <<now, fsm, device, offline, connect, batch, polling, published, conn, occurred>>

\* Without Overtaking, a callback waits for those of the link's earlier events.
\* The poll loop and what follows the locked parts interleave in any case.
TurnOfConnect(i) == Overtaking \/ \A j \in 1..(i - 1) : "start" \notin {connect[j], lost[j]}

TurnOfLost(i) ==
    Overtaking \/ \A j \in 1..i : connect[j] # "start" /\ (j < i => lost[j] # "start")

-----------------------------------------------------------------------------
(* handleConnect and handleConnectionLost. *)

\* Mutant of HandleConnect: the device does not note that it is online.
HandleConnectUnnoted(i) ==
    /\ connect[i] = "start" /\ TurnOfConnect(i)
    /\ ConnectionRestored
    /\ connect' = [connect EXCEPT ![i] = "drain"]
    /\ UNCHANGED <<now, device, offline, batch, lost, polling, published, link, occurred>>

\* The locked part.
HandleConnect(i) ==
    /\ connect[i] = "start" /\ TurnOfConnect(i)
    /\ ConnectionRestored
    /\ online' = TRUE
    /\ connect' = [connect EXCEPT ![i] = "drain"]
    /\ UNCHANGED <<now, relayState, observed, offline, batch, lost, polling, published, link, occurred>>

\* Mutant of DrainOffline: the events drained stay in the buffer.
DrainKeeps(i) ==
    /\ connect[i] = "drain"
    /\ batch' = [batch EXCEPT ![i] = offline]
    /\ connect' = [connect EXCEPT ![i] = "flush"]
    /\ UNCHANGED <<now, fsm, device, offline, lost, polling, published, link, occurred>>

\* subscribeCommands is over, whatever its outcome; flushOfflineEvents drains.
DrainOffline(i) ==
    /\ connect[i] = "drain"
    /\ batch' = [batch EXCEPT ![i] = offline]
    /\ offline' = <<>>
    /\ connect' = [connect EXCEPT ![i] = "flush"]
    /\ UNCHANGED <<now, fsm, device, lost, polling, published, link, occurred>>

FlushEvent(i) ==
    /\ connect[i] = "flush"
    /\ batch[i] # <<>>
    /\ published' = Append(published, Head(batch[i]))
    /\ batch' = [batch EXCEPT ![i] = Tail(@)]
    /\ UNCHANGED <<now, fsm, device, offline, connect, lost, polling, link, occurred>>

Flushed(i) ==
    /\ connect[i] = "flush"
    /\ batch[i] = <<>>
    /\ connect' = [connect EXCEPT ![i] = "none"]
    /\ UNCHANGED <<now, fsm, device, offline, batch, lost, polling, published, link, occurred>>

HandleConnectionLost(i) ==
    /\ lost[i] = "start" /\ TurnOfLost(i)
    /\ ConnectionLost
    /\ online' = FALSE
    /\ lost' = [lost EXCEPT ![i] = "none"]
    /\ UNCHANGED <<now, relayState, observed, offline, connect, batch, polling, published, link, occurred>>

-----------------------------------------------------------------------------
(* pollState, every tickInterval. *)

\* The locked part: the transitions since the last look, and the event if the
\* latch has changed.
PollState ==
    /\ poll = "idle"
    /\ Query
    /\ relayState' = State
    /\ observed' = Refreshed
    /\ IF observed = Refreshed
       THEN UNCHANGED <<polling, occurred>>
       ELSE /\ event' = IF Refreshed THEN "fail_open_activated" ELSE "fail_open_deactivated"
            /\ occurred' = Append(occurred, event')
            /\ poll' = "emit"
    /\ UNCHANGED <<now, online, offline, goroutines, published, link>>

\* emitEvent reads online, then acts on what it has read.
EmitEvent ==
    /\ poll = "emit"
    /\ poll' = IF online THEN "publish" ELSE "buffer"
    /\ UNCHANGED <<now, fsm, device, offline, goroutines, event, published, link, occurred>>

\* Mutant of EmitPublish: the event is read after it was cleared.
EmitPublishCleared ==
    /\ poll = "publish"
    /\ poll' = "idle" /\ event' = "none"
    /\ published' = Append(published, event')
    /\ UNCHANGED <<now, fsm, device, offline, goroutines, link, occurred>>

EmitPublish ==
    /\ poll = "publish"
    /\ published' = Append(published, event)
    /\ poll' = "idle" /\ event' = "none"
    /\ UNCHANGED <<now, fsm, device, offline, goroutines, link, occurred>>

EmitBuffer ==
    /\ poll = "buffer"
    /\ offline' = Append(offline, event)
    /\ poll' = "idle" /\ event' = "none"
    /\ UNCHANGED <<now, fsm, device, goroutines, published, link, occurred>>

\* handleCommand for a command that is neither stale nor a duplicate.
ExecuteCommand(d) ==
    /\ conn > 0
    /\ OpenRelay(d)
    /\ relayState' = "open"
    /\ UNCHANGED <<now, online, observed, offline, goroutines, polling, published, link, occurred>>

-----------------------------------------------------------------------------

\* Nothing is ready to run: the callbacks are over and the poll loop has seen
\* the state of this tick.
Settled ==
    /\ \A i \in Conns : connect[i] = "none" /\ lost[i] = "none"
    /\ poll = "idle"
    /\ observed = Refreshed
    /\ relayState = State

Tick ==
    /\ Settled
    /\ now < MaxTime
    /\ now' = now + 1
    /\ UNCHANGED <<fsm, device, offline, goroutines, polling, published, link, occurred>>

Next ==
    \/ LinkUp
    \/ LinkDown
    \/ \E i \in Conns :
        \/ HandleConnect(i) \/ DrainOffline(i) \/ FlushEvent(i) \/ Flushed(i)
        \/ HandleConnectionLost(i)
    \/ PollState \/ EmitEvent \/ EmitPublish \/ EmitBuffer
    \/ \E d \in Durations : ExecuteCommand(d)
    \/ Tick

Spec == Init /\ [][Next]_vars

-----------------------------------------------------------------------------
(* Properties. *)

\* PROTOCOL.md 5.3: a link that was lost and has been missing for the whole
\* threshold has opened the door, and the poll loop has seen it.
FailOpenFires ==
    Settled /\ conn > 0 /\ ~up /\ now - linkSince >= FailOpenAfter
        => observed /\ relayState = "open"

\* PROTOCOL.md 5.4: fail-open is over only after a connection that has been
\* up without a break for the hysteresis, and at the latest on the tick that
\* connection breaks.
HysteresisHolds ==
    [][observed /\ ~observed' =>
        \/ up /\ now - linkSince >= Hysteresis
        \/ stableAt = now]_vars

\* No event is lost or sent twice, however the link flaps while events are
\* emitted and flushed: when nothing is running, each event that occurred has
\* been published or waits in the buffer, as often as it occurred.
EventsKept == Settled => ToBag(published \o offline) = ToBag(occurred)

\* emitEvent may put one event into the buffer after the connection flushed
\* it, although PROTOCOL.md 4.3 wants it out right after the reconnect; no
\* second one joins it before the next connection takes both along.
OneHeldBack == Settled /\ up => Len(offline) <= 1

\* PROTOCOL.md 4.3: events are published in the order of their occurrence.
\* Violated: the event held back goes out with the next connection, after the
\* later ones of this connection.
EventsInOrder == IsPrefix(published, occurred)

Promise == INSTANCE RelayPromise WITH
               link <- IF connected THEN "up" ELSE "down",
               since <- IF connected THEN now - restoredAt ELSE now - lostAt,
               failSafe <- Refreshed,
               hold <- IF now < openUntil THEN openUntil - now ELSE 0

\* PROTOCOL.md 5.3 to 5.5: the lazy latch, read whenever somebody calls, is the
\* eager one; no change of the fail-open mode is missed or late because nobody
\* looked in between, and no command shortens it.
ImplementsPromise == Promise!Spec
=============================================================================

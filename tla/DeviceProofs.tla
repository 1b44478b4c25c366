---------------------------- MODULE DeviceProofs ----------------------------
(* Theorems about Device, for every value of its constants. *)
EXTENDS Device, FiniteSetTheorems, TLAPS

USE ThresholdsAssumption, DeviceAssumption

\* The automaton's clocks do not run ahead of the time it is given.
Clocks ==
    /\ FSMTypeOK
    /\ restoredAt <= now
    /\ lostAt <= now

LEMMA InitClocks == Init => Clocks
<1> SUFFICES ASSUME Init PROVE Clocks
  OBVIOUS
<1>1. /\ now = 0 /\ openUntil = 0 /\ lostAt = 0 /\ restoredAt = 0
      /\ connected = TRUE /\ failOpen = FALSE
  BY DEF Init, NewRelayFSM
<1>2. connected \in BOOLEAN /\ failOpen \in BOOLEAN
  BY <1>1
<1>3. /\ now \in Nat /\ openUntil \in Nat /\ lostAt \in Nat /\ restoredAt \in Nat
      /\ restoredAt <= now /\ lostAt <= now
  BY <1>1
<1> QED
  BY <1>2, <1>3 DEF Clocks, FSMTypeOK

\* The steps that leave the automaton and the time alone.
Aside ==
    \/ LinkUp \/ LinkDown \/ EmitEvent \/ EmitPublish \/ EmitBuffer
    \/ \E i \in Conns : DrainOffline(i) \/ FlushEvent(i) \/ Flushed(i)

LEMMA AsideIsAside == Aside => UNCHANGED <<now, fsm>>
BY DEF Aside, LinkUp, LinkDown, EmitEvent, EmitPublish, EmitBuffer,
       DrainOffline, FlushEvent, Flushed

\* What any other step does to them.
Turn ==
    \/ (ConnectionRestored \/ ConnectionLost \/ Query) /\ UNCHANGED now
    \/ (\E d \in Durations : OpenRelay(d)) /\ UNCHANGED now
    \/ now' = now + 1 /\ UNCHANGED fsm

LEMMA NextIsTurnOrAside == [Next]_vars => Turn \/ UNCHANGED <<now, fsm>>
<1> SUFFICES ASSUME [Next]_vars PROVE Turn \/ UNCHANGED <<now, fsm>>
  OBVIOUS
<1>1. CASE Aside
  BY <1>1, AsideIsAside
<1>2. CASE \E i \in Conns : HandleConnect(i) \/ HandleConnectionLost(i)
  BY <1>2 DEF HandleConnect, HandleConnectionLost, Turn
<1>3. CASE PollState
  BY <1>3 DEF PollState, Turn
<1>4. CASE \E d \in Durations : ExecuteCommand(d)
  BY <1>4 DEF ExecuteCommand, Turn
<1>5. CASE Tick
  BY <1>5 DEF Tick, Turn
<1>6. CASE UNCHANGED vars
  BY <1>6 DEF vars
<1> QED
  BY <1>1, <1>2, <1>3, <1>4, <1>5, <1>6 DEF Next, Aside

LEMMA RefreshedType == FSMTypeOK => Refreshed \in BOOLEAN
BY DEF FSMTypeOK, Refreshed

LEMMA NextClocks == Clocks /\ [Next]_vars => Clocks'
<1> SUFFICES ASSUME Clocks, Turn \/ UNCHANGED <<now, fsm>> PROVE Clocks'
  BY NextIsTurnOrAside
<1> USE DEF Clocks, FSMTypeOK
<1> USE RefreshedType
<1>1. CASE ConnectionRestored /\ UNCHANGED now
  BY <1>1 DEF ConnectionRestored
<1>2. CASE ConnectionLost /\ UNCHANGED now
  <2>1. /\ connected' = FALSE /\ lostAt' = now /\ failOpen' = Refreshed
        /\ openUntil' = openUntil /\ restoredAt' = restoredAt /\ now' = now
    BY <1>2 DEF ConnectionLost
  <2>2. connected' \in BOOLEAN
    BY ONLY <2>1
  <2> QED
    BY <2>1, <2>2
<1>3. CASE Query /\ UNCHANGED now
  BY <1>3 DEF Query
<1>4. ASSUME NEW d \in Durations, OpenRelay(d), UNCHANGED now
      PROVE  Clocks'
  BY <1>4 DEF OpenRelay
<1>5. CASE now' = now + 1 /\ UNCHANGED fsm
  BY <1>5 DEF fsm
<1>6. CASE UNCHANGED <<now, fsm>>
  BY <1>6 DEF fsm
<1> QED
  BY <1>1, <1>2, <1>3, <1>4, <1>5, <1>6 DEF Turn

LEMMA InitImplements == Init => Promise!Init
BY DEF Init, NewRelayFSM, Promise!Init, Refreshed

LEMMA NextImplements == Clocks /\ [Next]_vars => [Promise!Next]_(Promise!vars)
<1> SUFFICES ASSUME Clocks, Turn \/ UNCHANGED <<now, fsm>>
             PROVE  [Promise!Next]_(Promise!vars)
  BY NextIsTurnOrAside
<1> USE DEF Clocks, FSMTypeOK
<1>1. CASE ConnectionRestored /\ UNCHANGED now
  <2>1. connected' = TRUE /\ restoredAt' = now' /\ failOpen' = Refreshed /\ openUntil' = openUntil
    BY <1>1 DEF ConnectionRestored
  <2>2. now' - restoredAt' = 0
    BY <1>1, <2>1
  <2>3. Refreshed' = failOpen'
    <3>1. failOpen' \in BOOLEAN
      BY <2>1, RefreshedType
    <3>2. Refreshed' <=> failOpen'
      BY ONLY <2>1, <2>2, ThresholdsAssumption DEF Refreshed
    <3>3. Refreshed' \in BOOLEAN
      BY ONLY <2>1, <3>1 DEF Refreshed
    <3> QED
      BY ONLY <3>1, <3>2, <3>3
  <2>4. Promise!Restored
    BY <1>1, <2>1, <2>2, <2>3 DEF Promise!Restored
  <2> QED
    BY <2>4 DEF Promise!Next
<1>2. CASE ConnectionLost /\ UNCHANGED now
  <2>1. connected' = FALSE /\ lostAt' = now' /\ failOpen' = Refreshed /\ openUntil' = openUntil
    BY <1>2 DEF ConnectionLost
  <2>2. now' - lostAt' = 0
    BY <1>2, <2>1
  <2>3. Refreshed' = failOpen'
    <3>1. failOpen' \in BOOLEAN
      BY <2>1, RefreshedType
    <3>2. Refreshed' <=> failOpen'
      BY ONLY <2>1, <2>2, ThresholdsAssumption DEF Refreshed
    <3>3. Refreshed' \in BOOLEAN
      BY ONLY <2>1, <3>1 DEF Refreshed
    <3> QED
      BY ONLY <3>1, <3>2, <3>3
  <2>4. Promise!Lost
    BY <1>2, <2>1, <2>2, <2>3 DEF Promise!Lost
  <2> QED
    BY <2>4 DEF Promise!Next
<1>3. CASE Query /\ UNCHANGED now
  BY <1>3 DEF Query, Refreshed, Promise!vars
<1>4. ASSUME NEW d \in Durations, OpenRelay(d), UNCHANGED now
      PROVE  [Promise!Next]_(Promise!vars)
  <2>1. Promise!Command(d)
    BY <1>4 DEF OpenRelay, Refreshed, Promise!Command
  <2> QED
    BY <2>1 DEF Promise!Next
<1>5. CASE now' = now + 1 /\ UNCHANGED fsm
  <2>1. Promise!Tick
    BY <1>5 DEF fsm, Refreshed, Promise!Tick
  <2> QED
    BY <2>1 DEF Promise!Next
<1>6. CASE UNCHANGED <<now, fsm>>
  BY <1>6 DEF fsm, Refreshed, Promise!vars
<1> QED
  BY <1>1, <1>2, <1>3, <1>4, <1>5, <1>6 DEF Turn

\* For all thresholds, durations and interleavings, even if goroutines overtake
\* each other: the lazy automaton of relay.go is the eager one of PROTOCOL.md.
THEOREM LazyLatchIsEager == Spec => ImplementsPromise
BY InitClocks, NextClocks, InitImplements, NextImplements, PTL DEF Spec, ImplementsPromise, Promise!Spec
-----------------------------------------------------------------------------
(* The goroutines around the automaton.                                     *)

\* Where the goroutines of the connections may stand.
Started ==
    /\ \A i \in Conns : i > conn => connect[i] = "none" /\ lost[i] = "none"
    /\ \A i \in Conns : connect[i] # "flush" => batch[i] = <<>>
    /\ poll # "idle" => event \in Events
    /\ up => conn > 0 /\ lost[conn] = "none"
    /\ conn = 0 => ~up /\ connected /\ ~failOpen
    /\ linkSince <= now

DInv == TypeOK /\ Clocks /\ Started

LEMMA InitDInv == Init => DInv
<1> SUFFICES ASSUME Init PROVE DInv
  OBVIOUS
<1>1. TypeOK
  <2>1. FSMTypeOK
    BY InitClocks DEF Clocks
  <2>2. {online, observed, up} \subseteq BOOLEAN /\ relayState \in {"closed", "open"}
    BY DEF Init
  <2>3. offline \in Seq(Events) /\ published \in Seq(Events) /\ occurred \in Seq(Events)
    BY DEF Init
  <2>4. connect \in [Conns -> {"none", "start", "drain", "flush"}] /\ lost \in [Conns -> {"none", "start"}]
    BY DEF Init
  <2>5. batch \in [Conns -> Seq(Events)]
    BY DEF Init
  <2>6. poll \in {"idle", "emit", "publish", "buffer"} /\ event \in Events \cup {"none"}
    BY DEF Init
  <2>7. conn \in 0..Connections /\ {linkSince, stableAt} \subseteq Nat
    BY DEF Init
  <2> QED BY <2>1, <2>2, <2>3, <2>4, <2>5, <2>6, <2>7 DEF TypeOK
<1>2. Started
  BY DEF Init, NewRelayFSM, Started
<1> QED BY <1>1, <1>2, InitClocks DEF DInv

LEMMA StateType == State \in {"closed", "open"}
BY DEF State

LEMMA NextDInv == DInv /\ [Next]_vars => DInv'
<1> SUFFICES ASSUME DInv, [Next]_vars PROVE TypeOK' /\ Started'
  BY NextClocks DEF DInv
<1> USE DEF device, goroutines, polling, link, fsm, Conns
<1>0. TypeOK /\ Started /\ Clocks'  /\ FSMTypeOK'
  BY NextClocks DEF DInv, Clocks
<1>r. Refreshed \in BOOLEAN /\ (conn = 0 => ~Refreshed)
  BY <1>0, RefreshedType DEF TypeOK, Started, Refreshed
<1>1. CASE LinkUp
  BY <1>0, <1>1 DEF LinkUp, TypeOK, Started, FSMTypeOK
<1>2. CASE LinkDown
  <2>1. /\ up /\ up' = FALSE /\ linkSince' = now /\ stableAt' \in {now, stableAt}
        /\ lost' = [lost EXCEPT ![conn] = "start"]
        /\ UNCHANGED <<now, fsm, device, offline, connect, batch, polling, published, conn, occurred>>
    BY <1>2 DEF LinkDown
  <2>2. TypeOK'
    BY <1>0, <2>1 DEF TypeOK, FSMTypeOK
  <2>3. Started'
    BY <1>0, <2>1 DEF TypeOK, Started, FSMTypeOK
  <2> QED BY <2>2, <2>3
<1>3. ASSUME NEW i \in Conns, HandleConnect(i) PROVE TypeOK' /\ Started'
  BY <1>0, <1>r, <1>3 DEF HandleConnect, ConnectionRestored, TypeOK, Started
<1>4. ASSUME NEW i \in Conns, DrainOffline(i) PROVE TypeOK' /\ Started'
  BY <1>0, <1>4 DEF DrainOffline, TypeOK, Started
<1>5. ASSUME NEW i \in Conns, FlushEvent(i) PROVE TypeOK' /\ Started'
  BY <1>0, <1>5 DEF FlushEvent, TypeOK, Started
<1>6. ASSUME NEW i \in Conns, Flushed(i) PROVE TypeOK' /\ Started'
  BY <1>0, <1>6 DEF Flushed, TypeOK, Started
<1>7. ASSUME NEW i \in Conns, HandleConnectionLost(i) PROVE TypeOK' /\ Started'
  <2>1. /\ lost[i] = "start" /\ lost' = [lost EXCEPT ![i] = "none"]
        /\ online' = FALSE /\ connected' = FALSE /\ failOpen' = Refreshed
        /\ UNCHANGED <<now, relayState, observed, offline, connect, batch, polling, published, link, occurred>>
    BY <1>7 DEF HandleConnectionLost, ConnectionLost
  <2>2. TypeOK'
    BY <1>0, <2>1 DEF TypeOK
  <2>3. conn # 0
    BY <1>0, <2>1 DEF Started
  <2>4. \A j \in Conns : lost'[j] = lost[j] \/ lost'[j] = "none"
    BY <1>0, <2>1 DEF TypeOK
  <2>5. conn \in Conns
    BY <1>0, <2>3 DEF TypeOK
  <2>6. Started'
    BY <1>0, <2>1, <2>3, <2>4, <2>5 DEF Started
  <2> QED BY <2>2, <2>6
<1>8. CASE PollState
  <2>1. /\ relayState' \in {"closed", "open"} /\ observed' \in BOOLEAN
        /\ failOpen' = Refreshed /\ connected' = connected
        /\ UNCHANGED <<now, online, offline, goroutines, published, link>>
    BY <1>8, <1>r, StateType DEF PollState, Query
  <2>2. CASE UNCHANGED <<polling, occurred>>
    BY <1>0, <1>r, <2>1, <2>2 DEF TypeOK, Started
  <2>3. CASE /\ event' \in Events /\ occurred' = Append(occurred, event') /\ poll' = "emit"
    BY <1>0, <1>r, <2>1, <2>3 DEF TypeOK, Started
  <2> QED BY <1>8, <2>2, <2>3 DEF PollState, Events
<1>9. CASE EmitEvent
  BY <1>0, <1>9 DEF EmitEvent, TypeOK, Started
<1>10. CASE EmitPublish
  BY <1>0, <1>10 DEF EmitPublish, TypeOK, Started
<1>11. CASE EmitBuffer
  BY <1>0, <1>11 DEF EmitBuffer, TypeOK, Started
<1>12. ASSUME NEW d \in Durations, ExecuteCommand(d) PROVE TypeOK' /\ Started'
  BY <1>0, <1>r, <1>12 DEF ExecuteCommand, OpenRelay, TypeOK, Started
<1>13. CASE Tick
  BY <1>0, <1>13 DEF Tick, TypeOK, Started, FSMTypeOK
<1>14. CASE UNCHANGED vars
  BY <1>0, <1>14 DEF vars, TypeOK, Started
<1> QED
  BY <1>1, <1>2, <1>3, <1>4, <1>5, <1>6, <1>7, <1>8, <1>9, <1>10, <1>11, <1>12, <1>13, <1>14 DEF Next

\* Every variable of the device keeps its type, for any number of connections,
\* any durations and any overlap of the callbacks.
THEOREM TypeCorrect == Spec => []TypeOK
<1>1. DInv => TypeOK
  BY DEF DInv
<1> QED BY <1>1, InitDInv, NextDInv, PTL DEF Spec
-----------------------------------------------------------------------------
(* Callbacks that do not overtake each other.                               *)

Starts(i) == "start" \in {connect[i], lost[i]}

\* The events that the connection has left, or is about to leave, in the buffer.
HeldBack == Len(offline) + (IF poll = "buffer" THEN 1 ELSE 0)

\* Without Overtaking: what the device knows of the link, once the callback of
\* the link's last event has run, and that it runs in the tick of the event.
Seen ==
    /\ up /\ connect[conn] = "start" => linkSince = now
    /\ up /\ connect[conn] # "start" =>
          /\ connected /\ online /\ restoredAt = linkSince
          /\ \A j \in Conns : j < conn => ~Starts(j)
    /\ up /\ connect[conn] \in {"flush", "none"} => HeldBack <= 1
    /\ ~up /\ conn > 0 /\ lost[conn] = "start" => linkSince = now
    /\ ~up /\ conn > 0 /\ lost[conn] # "start" =>
          /\ ~connected /\ lostAt = linkSince
          /\ \A j \in Conns : ~Starts(j)

LEMMA InitSeen == Init => Seen
BY DEF Init, Seen, HeldBack

LEMMA NextSeen == ASSUME ~Overtaking, DInv, Seen, [Next]_vars PROVE Seen'
<1> USE DEF device, goroutines, polling, link, fsm, Conns, Seen, Starts
<1>t. /\ now \in Nat /\ conn \in 0..Connections /\ up \in BOOLEAN /\ Connections \in Nat
      /\ connect \in [Conns -> {"none", "start", "drain", "flush"}]
      /\ lost \in [Conns -> {"none", "start"}]
  BY DEF DInv, TypeOK, FSMTypeOK
<1>s. Started
  BY DEF DInv
<1>1. CASE LinkUp
  <2>1. /\ ~up /\ up' = TRUE /\ conn' = conn + 1 /\ linkSince' = now /\ now' = now
        /\ connect' = [connect EXCEPT ![conn + 1] = "start"]
        /\ conn + 1 \in Conns
    BY <1>t, <1>1 DEF LinkUp
  <2>2. connect'[conn'] = "start"
    BY <1>t, <2>1
  <2> QED BY <2>1, <2>2
<1>2. CASE LinkDown
  <2>1. /\ up /\ up' = FALSE /\ conn' = conn /\ linkSince' = now /\ now' = now
        /\ lost' = [lost EXCEPT ![conn] = "start"]
        /\ conn \in Conns
    BY <1>t, <1>s, <1>2 DEF LinkDown, Started
  <2>2. lost'[conn'] = "start"
    BY <1>t, <2>1
  <2> QED BY <2>1, <2>2
<1>3. ASSUME NEW i \in Conns, HandleConnect(i) PROVE Seen'
  <2>1. /\ connect[i] = "start"
        /\ \A j \in 1..(i - 1) : ~Starts(j)
        /\ connected' = TRUE /\ restoredAt' = now /\ online' = TRUE
        /\ connect' = [connect EXCEPT ![i] = "drain"]
        /\ UNCHANGED <<now, offline, lost, poll, up, conn, linkSince>>
    BY <1>3 DEF HandleConnect, TurnOfConnect, ConnectionRestored
  <2>2. i <= conn
    BY <1>t, <1>s, <2>1 DEF Started
  <2>3. CASE up
    \* An older connection starts only while the newest one waits.
    <3>1. CASE i = conn
      BY <1>t, <2>1, <2>3, <3>1
    <3>2. CASE i # conn
      <4>1. connect'[conn] = "start"
        BY <1>t, <2>1, <2>2, <2>3, <3>2
      <4> QED BY <2>1, <2>3, <4>1
    <3> QED BY <3>1, <3>2
  <2>4. CASE ~up
    \* The loss of the link has not been handled yet.
    <3>1. lost[conn] = "start"
      BY <1>t, <2>1, <2>2, <2>4
    <3> QED BY <2>1, <2>4, <3>1
  <2> QED BY <2>3, <2>4
<1>4. ASSUME NEW i \in Conns, DrainOffline(i) PROVE Seen'
  <2>1. /\ connect[i] = "drain" /\ connect' = [connect EXCEPT ![i] = "flush"] /\ offline' = <<>>
        /\ UNCHANGED <<now, fsm, online, lost, poll, up, conn, linkSince>>
    BY <1>4 DEF DrainOffline
  <2>2. \A j \in Conns : connect'[j] = "start" <=> connect[j] = "start"
    BY <1>t, <2>1
  <2>3. up => conn \in Conns
    BY <1>t, <1>s DEF Started
  <2>4. HeldBack' <= 1
    BY <2>1 DEF HeldBack
  <2> QED BY <2>1, <2>2, <2>3, <2>4
<1>5. ASSUME NEW i \in Conns, FlushEvent(i) PROVE Seen'
  BY <1>5 DEF FlushEvent, HeldBack
<1>6. ASSUME NEW i \in Conns, Flushed(i) PROVE Seen'
  <2>1. /\ connect[i] = "flush" /\ connect' = [connect EXCEPT ![i] = "none"]
        /\ UNCHANGED <<now, fsm, online, lost, up, conn, linkSince>> /\ HeldBack' = HeldBack
    BY <1>6 DEF Flushed, HeldBack
  <2>2. \A j \in Conns : connect'[j] = connect[j] \/ (connect[j] = "flush" /\ connect'[j] = "none")
    BY <1>t, <2>1
  <2>3. up => conn \in Conns
    BY <1>t, <1>s DEF Started
  <2> QED BY <2>1, <2>2, <2>3
<1>7. ASSUME NEW i \in Conns, HandleConnectionLost(i) PROVE Seen'
  <2>1. /\ lost[i] = "start"
        /\ \A j \in 1..i : connect[j] # "start" /\ (j < i => lost[j] # "start")
        /\ connected' = FALSE /\ lostAt' = now /\ online' = FALSE
        /\ lost' = [lost EXCEPT ![i] = "none"]
        /\ UNCHANGED <<now, offline, connect, poll, up, conn, linkSince>>
    BY <1>7 DEF HandleConnectionLost, TurnOfLost, ConnectionLost
  <2>2. i <= conn
    BY <1>t, <1>s, <2>1 DEF Started
  <2>3. CASE up
    \* The newest connection is not yet handled.
    <3>1. connect[conn] = "start" /\ i # conn
      BY <1>t, <1>s, <2>1, <2>2, <2>3 DEF Started
    <3> QED BY <2>1, <2>3, <3>1
  <2>4. CASE ~up
    <3>1. CASE i = conn
      <4>1. \A j \in Conns : j > conn => ~Starts(j)
        BY <1>s DEF Started
      <4> QED BY <1>t, <2>1, <2>4, <3>1, <4>1
    <3>2. CASE i # conn
      <4>1. lost'[conn] = "start"
        BY <1>t, <2>1, <2>2, <2>4, <3>2
      <4> QED BY <1>t, <2>1, <2>4, <4>1
    <3> QED BY <3>1, <3>2
  <2> QED BY <2>3, <2>4
<1>8. CASE PollState
  <2>1. /\ poll = "idle" /\ poll' \in {"idle", "emit"}
        /\ UNCHANGED <<now, connected, online, restoredAt, lostAt, offline, goroutines, link>>
    BY <1>8 DEF PollState, Query
  <2>2. HeldBack' = HeldBack
    BY <2>1 DEF HeldBack
  <2> QED BY <2>1, <2>2
<1>9. CASE EmitEvent
  <2>1. /\ poll = "emit" /\ (online => poll' = "publish")
        /\ UNCHANGED <<now, fsm, device, offline, goroutines, link>>
    BY <1>9 DEF EmitEvent
  <2>2. online => HeldBack' = HeldBack
    BY <2>1 DEF HeldBack
  <2> QED BY <2>1, <2>2
<1>10. CASE EmitPublish
  <2>1. /\ poll = "publish" /\ poll' = "idle"
        /\ UNCHANGED <<now, fsm, device, offline, goroutines, link>>
    BY <1>10 DEF EmitPublish
  <2>2. HeldBack' = HeldBack
    BY <2>1 DEF HeldBack
  <2> QED BY <2>1, <2>2
<1>11. CASE EmitBuffer
  <2>1. /\ poll = "buffer" /\ poll' = "idle" /\ offline' = Append(offline, event)
        /\ UNCHANGED <<now, fsm, online, goroutines, link>>
    BY <1>11 DEF EmitBuffer
  <2>2. offline \in Seq(Events)
    BY DEF DInv, TypeOK
  <2>3. Len(offline') = Len(offline) + 1
    BY <2>1, <2>2
  <2>4. HeldBack' = HeldBack
    BY <2>1, <2>2, <2>3 DEF HeldBack
  <2> QED BY <2>1, <2>4
<1>12. ASSUME NEW d \in Durations, ExecuteCommand(d) PROVE Seen'
  BY <1>12 DEF ExecuteCommand, OpenRelay, HeldBack
<1>13. CASE Tick
  <2>1. /\ \A i \in Conns : connect[i] = "none" /\ lost[i] = "none"
        /\ now' = now + 1
        /\ UNCHANGED <<fsm, device, offline, goroutines, polling, link>>
    BY <1>13 DEF Tick, Settled
  <2>2. up \/ conn > 0 => conn \in Conns
    BY <1>t, <1>s DEF Started
  <2>3. HeldBack' = HeldBack
    BY <2>1 DEF HeldBack
  <2> QED BY <2>1, <2>2, <2>3
<1>14. CASE UNCHANGED vars
  BY <1>14 DEF vars, HeldBack
<1> QED
  BY <1>1, <1>2, <1>3, <1>4, <1>5, <1>6, <1>7, <1>8, <1>9, <1>10, <1>11, <1>12, <1>13, <1>14 DEF Next

\* PROTOCOL.md 5.3 for every threshold, any number of connections and any
\* commands, if callbacks do not overtake each other: a link that has been
\* missing for the whole threshold has opened the door.
THEOREM FailOpenAlwaysFires == ASSUME ~Overtaking PROVE Spec => []FailOpenFires
<1>1. DInv /\ Seen => FailOpenFires
  <2> SUFFICES ASSUME DInv, Seen, Settled, conn > 0, ~up, now - linkSince >= FailOpenAfter
               PROVE  observed /\ relayState = "open"
    BY DEF FailOpenFires
  <2>1. conn \in Conns
    BY DEF DInv, TypeOK, Conns
  <2>2. ~connected /\ lostAt = linkSince
    BY <2>1 DEF Seen, Settled
  <2>3. Refreshed
    BY <2>2 DEF Refreshed
  <2> QED BY <2>3 DEF Settled, State
<1> QED BY <1>1, InitDInv, NextDInv, InitSeen, NextSeen, PTL DEF Spec
-----------------------------------------------------------------------------
(* The end of fail-open.                                                    *)

\* The latch has been let go and the poll loop has not seen it yet: the link
\* is stable, or was until this tick.
LetGo ==
    observed /\ ~Refreshed => (up /\ now - linkSince >= Hysteresis) \/ stableAt = now

\* The methods of the automaton read the latch and leave it as they read it;
\* only time changes it.
LEMMA RefreshedKept ==
    ASSUME Clocks, Turn \/ UNCHANGED <<now, fsm>>, now' = now
    PROVE  Refreshed' = Refreshed
<1> USE DEF Clocks, FSMTypeOK
<1>1. CASE ConnectionRestored
  <2>1. connected' = TRUE /\ restoredAt' = now' /\ failOpen' = Refreshed
    BY <1>1 DEF ConnectionRestored
  <2>2. now' - restoredAt' = 0 /\ failOpen' \in BOOLEAN
    BY <2>1, RefreshedType
  <2> QED BY ONLY <2>1, <2>2, ThresholdsAssumption, RefreshedType DEF Refreshed
<1>2. CASE ConnectionLost
  <2>1. connected' = FALSE /\ lostAt' = now' /\ failOpen' = Refreshed
    BY <1>2 DEF ConnectionLost
  <2>2. now' - lostAt' = 0 /\ failOpen' \in BOOLEAN
    BY <2>1, RefreshedType
  <2> QED BY ONLY <2>1, <2>2, ThresholdsAssumption, RefreshedType DEF Refreshed
<1>3. CASE Query \/ \E d \in Durations : OpenRelay(d)
  BY <1>3 DEF Query, OpenRelay, Refreshed
<1>4. CASE UNCHANGED <<now, fsm>>
  BY <1>4 DEF fsm, Refreshed
<1> QED BY <1>1, <1>2, <1>3, <1>4 DEF Turn

LEMMA InitLetGo == Init => LetGo
BY DEF Init, LetGo

LEMMA NextLetGo == ASSUME ~Overtaking, DInv, Seen, LetGo, [Next]_vars PROVE LetGo'
<1>t. /\ now \in Nat /\ conn \in 0..Connections /\ up \in BOOLEAN /\ Connections \in Nat
      /\ linkSince \in Nat /\ restoredAt \in Nat /\ lostAt \in Nat
      /\ observed \in BOOLEAN /\ failOpen \in BOOLEAN /\ connected \in BOOLEAN
  BY DEF DInv, TypeOK, FSMTypeOK
<1>k. now' = now => Refreshed' = Refreshed
  BY RefreshedKept, NextIsTurnOrAside DEF DInv
<1>1. CASE LinkUp
  BY <1>1, <1>k DEF LinkUp, LetGo, device
<1>2. CASE LinkDown
  BY <1>2, <1>k DEF LinkDown, LetGo, device
<1>3. CASE PollState
  BY <1>3, <1>k DEF PollState, LetGo
<1>4. CASE Tick
  <2>1. /\ Settled /\ now' = now + 1
        /\ UNCHANGED <<failOpen, connected, restoredAt, lostAt, observed, up, linkSince>>
    BY <1>4 DEF Tick, fsm, device, link
  <2>2. SUFFICES ASSUME observed, ~Refreshed' PROVE up /\ now' - linkSince >= Hysteresis
    BY <2>1 DEF LetGo
  <2>3. Refreshed
    BY <2>1, <2>2 DEF Settled
  <2>4. connected /\ failOpen /\ now + 1 - restoredAt >= Hysteresis
    BY <1>t, <2>1, <2>2, <2>3 DEF Refreshed
  <2>5. conn \in Conns
    BY <1>t, <2>4 DEF DInv, Started, Conns
  <2>6. connect[conn] = "none" /\ lost[conn] = "none"
    BY <2>1, <2>5 DEF Settled
  <2>7. up /\ restoredAt = linkSince
    BY <1>t, <2>4, <2>5, <2>6 DEF Seen, Conns
  <2> QED BY <1>t, <2>1, <2>4, <2>7
<1>5. CASE UNCHANGED <<now, observed, up, linkSince, stableAt>>
  BY <1>5, <1>k DEF LetGo
<1>6. CASE \/ EmitEvent \/ EmitPublish \/ EmitBuffer \/ (\E d \in Durations : ExecuteCommand(d)) \/ UNCHANGED vars
           \/ \E i \in Conns : \/ HandleConnect(i) \/ DrainOffline(i) \/ FlushEvent(i) \/ Flushed(i)
                              \/ HandleConnectionLost(i)
  <2>1. UNCHANGED <<now, observed, up, linkSince, stableAt>>
    BY <1>6 DEF EmitEvent, EmitPublish, EmitBuffer, ExecuteCommand, vars, HandleConnect, DrainOffline,
                FlushEvent, Flushed, HandleConnectionLost, device, link
  <2> QED BY <2>1, <1>5
<1> QED BY <1>1, <1>2, <1>3, <1>4, <1>6 DEF Next

\* PROTOCOL.md 5.4, under the same condition: fail-open ends only with a
\* connection that has lasted for the hysteresis.
THEOREM HysteresisAlwaysHolds == ASSUME ~Overtaking PROVE Spec => HysteresisHolds
<1>1. DInv /\ Seen /\ LetGo /\ [Next]_vars =>
        [observed /\ ~observed' => (up /\ now - linkSince >= Hysteresis) \/ stableAt = now]_vars
  <2> SUFFICES ASSUME DInv, LetGo, Next, observed, ~observed'
               PROVE  (up /\ now - linkSince >= Hysteresis) \/ stableAt = now
    OBVIOUS
  <2>1. PollState
    BY DEF Next, LinkUp, LinkDown, HandleConnect, DrainOffline, FlushEvent, Flushed, HandleConnectionLost,
           EmitEvent, EmitPublish, EmitBuffer, ExecuteCommand, Tick, device
  <2>2. ~Refreshed
    BY <2>1 DEF PollState
  <2> QED BY <2>2 DEF LetGo
<1>2. DInv /\ Seen /\ [Next]_vars => Seen'
  BY NextSeen
<1>3. DInv /\ Seen /\ LetGo /\ [Next]_vars => LetGo'
  BY NextLetGo
<1> QED BY <1>1, <1>2, <1>3, InitDInv, NextDInv, InitSeen, InitLetGo, PTL DEF Spec, HysteresisHolds
-----------------------------------------------------------------------------
(* No event is lost or sent twice: events are counted, and each occurrence  *)
(* is in one place.                                                         *)

Places(s, e) == {k \in DOMAIN s : s[k] = e}

\* How often e occurs in the sequence s.
Count(s, e) == Cardinality(Places(s, e))

LEMMA CountType ==
    ASSUME NEW s \in Seq(Events), NEW e
    PROVE  IsFiniteSet(Places(s, e)) /\ Count(s, e) \in Nat
<1>1. IsFiniteSet(1..Len(s))
  BY FS_Interval
<1>2. Places(s, e) \in SUBSET (1..Len(s))
  BY DEF Places
<1> QED BY <1>1, <1>2, FS_Subset, FS_CardinalityType DEF Count

LEMMA CountEmpty == \A e : Count(<<>>, e) = 0
BY FS_EmptySet DEF Count, Places

LEMMA CountAppend ==
    ASSUME NEW s \in Seq(Events), NEW x \in Events, NEW e
    PROVE  Count(Append(s, x), e) = Count(s, e) + (IF x = e THEN 1 ELSE 0)
<1> DEFINE n == Len(s) + 1
<1>1. Places(Append(s, x), e) = IF x = e THEN Places(s, e) \cup {n} ELSE Places(s, e)
  BY DEF Places
<1>2. n \notin Places(s, e)
  BY DEF Places
<1>3. IsFiniteSet(Places(s, e)) /\ Cardinality(Places(s, e)) \in Nat
  BY CountType DEF Count
<1>4. Cardinality(Places(s, e) \cup {n}) = Cardinality(Places(s, e)) + 1
  BY <1>2, <1>3, FS_AddElement
<1> HIDE DEF n
<1> QED BY <1>1, <1>3, <1>4 DEF Count

LEMMA CountTail ==
    ASSUME NEW s \in Seq(Events), s # <<>>, NEW e
    PROVE  Count(s, e) = Count(Tail(s), e) + (IF Head(s) = e THEN 1 ELSE 0)
<1> DEFINE T == Places(Tail(s), e)
           S == Places(s, e)
           f == [k \in T |-> k + 1]
<1>1. /\ Tail(s) \in Seq(Events) /\ Len(Tail(s)) = Len(s) - 1 /\ Len(s) \in Nat \ {0}
      /\ \A k \in 1..(Len(s) - 1) : Tail(s)[k] = s[k + 1]
  OBVIOUS
<1>2. T = {k \in 1..(Len(s) - 1) : s[k + 1] = e} /\ S = {k \in 1..Len(s) : s[k] = e}
  BY <1>1 DEF Places
<1>3. f \in Bijection(T, S \ {1})
  <2>1. f \in [T -> S \ {1}]
    BY <1>1, <1>2
  <2>2. \A a, b \in T : f[a] = f[b] => a = b
    BY <1>2
  <2>3. ASSUME NEW t \in S \ {1} PROVE \E k \in T : f[k] = t
    <3>1. t - 1 \in T /\ f[t - 1] = t
      BY <1>1, <1>2
    <3> QED BY <3>1
  <2> QED BY <2>1, <2>2, <2>3 DEF Bijection, Injection, Surjection, IsInjective
<1>4. Cardinality(S \ {1}) = Cardinality(T)
  <2>1. IsFiniteSet(T)
    BY <1>1, CountType
  <2>2. ExistsBijection(T, S \ {1})
    BY <1>3 DEF ExistsBijection
  <2> QED BY <2>1, <2>2, FS_Bijection
<1>5. 1 \in S <=> Head(s) = e
  BY <1>1, <1>2
<1>6. IsFiniteSet(S) /\ Count(s, e) \in Nat /\ Count(s, e) = Cardinality(S)
  BY CountType DEF Count
<1>7. Cardinality(S \ {1}) = IF 1 \in S THEN Cardinality(S) - 1 ELSE Cardinality(S)
  BY <1>6, FS_RemoveElement
<1> HIDE DEF S, T
<1>8. Count(Tail(s), e) = Cardinality(S \ {1})
  BY <1>4 DEF Count, T
<1> QED BY <1>5, <1>6, <1>7, <1>8

\* As many of each event, the same bag.
LEMMA SameBag ==
    ASSUME NEW s \in Seq(Events), NEW t \in Seq(Events),
           \A e \in Events : Count(s, e) = Count(t, e)
    PROVE  ToBag(s) = ToBag(t)
<1>1. ASSUME NEW u \in Seq(Events), NEW e PROVE e \in Range(u) <=> e \in Events /\ Count(u, e) # 0
  <2>1. e \in Range(u) <=> e \in Events /\ Places(u, e) # {}
    BY DEF Range, Places
  <2> QED BY <2>1, CountType, FS_EmptySet DEF Count
<1>2. Range(s) = Range(t)
  BY <1>1
<1>3. \A e \in Range(s) : Count(s, e) = Count(t, e)
  BY <1>1
<1> QED BY <1>2, <1>3 DEF ToBag, Count, Places
\* The occurrences of e that handleConnect has drained and not yet published.
Carried(e) == {p \in Conns \X Nat : p[2] \in 1..Count(batch[p[1]], e)}

Waiting(e) == IF poll # "idle" /\ event = e THEN 1 ELSE 0

\* Every event that occurred is published, buffered, carried or waiting.
Balance ==
    \A e \in Events :
        /\ IsFiniteSet(Carried(e))
        /\ Count(occurred, e) = Count(published, e) + Count(offline, e) + Cardinality(Carried(e)) + Waiting(e)

LEMMA InitBalance == Init => Balance
<1> SUFFICES ASSUME Init, NEW e \in Events PROVE
        /\ IsFiniteSet(Carried(e))
        /\ Count(occurred, e) = Count(published, e) + Count(offline, e) + Cardinality(Carried(e)) + Waiting(e)
  BY DEF Balance
<1>1. /\ occurred = <<>> /\ published = <<>> /\ offline = <<>> /\ poll = "idle"
      /\ \A i \in Conns : batch[i] = <<>>
  BY DEF Init
<1>2. Carried(e) = {}
  BY <1>1, CountEmpty DEF Carried
<1> QED BY <1>1, <1>2, CountEmpty, FS_EmptySet DEF Waiting

\* The batches are as they were.
LEMMA CarriedKept == ASSUME batch' = batch, NEW e PROVE Carried(e)' = Carried(e)
BY DEF Carried

LEMMA OneLess ==
    ASSUME NEW S, IsFiniteSet(S), NEW x \in S
    PROVE  IsFiniteSet(S \ {x}) /\ Cardinality(S \ {x}) = Cardinality(S) - 1
BY FS_RemoveElement

LEMMA UpTo == ASSUME NEW n \in Nat PROVE IsFiniteSet(1..n) /\ Cardinality(1..n) = n
BY FS_Interval

\* The batch of i was empty and takes over the buffer.
LEMMA CarriedDrained ==
    ASSUME TypeOK, NEW i \in Conns, batch[i] = <<>>, batch' = [batch EXCEPT ![i] = offline],
           NEW e \in Events, IsFiniteSet(Carried(e))
    PROVE  /\ IsFiniteSet(Carried(e)')
           /\ Cardinality(Carried(e)') = Cardinality(Carried(e)) + Count(offline, e)
<1> DEFINE n == Count(offline, e)
           New == {i} \X (1..n)
<1>1. offline \in Seq(Events) /\ batch \in [Conns -> Seq(Events)] /\ n \in Nat
  BY CountType DEF TypeOK
<1>2. Count(batch[i], e) = 0
  BY CountEmpty
<1>3. /\ batch'[i] = offline
      /\ \A j \in Conns : j # i => batch'[j] = batch[j]
  BY <1>1
<1>4. Carried(e)' = Carried(e) \cup New
  <2>1. ASSUME NEW p \in Conns \X Nat PROVE p \in Carried(e)' <=> p \in Carried(e) \/ p \in New
    <3>1. CASE p[1] = i
      BY <1>1, <1>2, <1>3, <2>1, <3>1 DEF Carried
    <3>2. CASE p[1] # i
      BY <1>3, <2>1, <3>2 DEF Carried
    <3> QED BY <3>1, <3>2
  <2>2. New \subseteq Conns \X Nat /\ Carried(e) \subseteq Conns \X Nat /\ Carried(e)' \subseteq Conns \X Nat
    BY <1>1 DEF Carried
  <2> QED BY <2>1, <2>2
<1>5. Carried(e) \cap New = {}
  BY <1>1, <1>2 DEF Carried
<1>6. IsFiniteSet(New) /\ Cardinality(New) = n
  <2> HIDE DEF n
  <2>1. IsFiniteSet(1..n) /\ Cardinality(1..n) = n
    BY <1>1, UpTo
  <2>2. IsFiniteSet({i}) /\ Cardinality({i}) = 1
    BY FS_Singleton
  <2>3. IsFiniteSet({i} \X (1..n)) /\ Cardinality({i} \X (1..n)) = 1 * n
    <3> DEFINE S == {i}
               T == 1..n
    <3> HIDE DEF S, T
    <3>1. IsFiniteSet(S \X T) /\ Cardinality(S \X T) = Cardinality(S) * Cardinality(T)
      <4>1. IsFiniteSet(S) /\ IsFiniteSet(T)
        BY <2>1, <2>2 DEF S, T
      <4> QED BY <4>1, FS_Product
    <3> QED BY <2>1, <2>2, <3>1 DEF S, T
  <2> QED BY <1>1, <2>3
<1>7. Cardinality(Carried(e)) \in Nat /\ Cardinality(Carried(e) \cap New) = 0
  BY <1>5, FS_EmptySet, FS_CardinalityType
<1> HIDE DEF New
<1>8. IsFiniteSet(Carried(e) \cup New)
      /\ Cardinality(Carried(e) \cup New) = Cardinality(Carried(e)) + Cardinality(New) - Cardinality(Carried(e) \cap New)
  BY <1>6, FS_Union
<1> QED BY <1>1, <1>4, <1>6, <1>7, <1>8

\* One event leaves the batch of i.
LEMMA CarriedFlushed ==
    ASSUME TypeOK, NEW i \in Conns, batch[i] # <<>>, batch' = [batch EXCEPT ![i] = Tail(@)],
           NEW e \in Events, IsFiniteSet(Carried(e))
    PROVE  /\ IsFiniteSet(Carried(e)')
           /\ Cardinality(Carried(e)) = Cardinality(Carried(e)') + (IF Head(batch[i]) = e THEN 1 ELSE 0)
<1> DEFINE n == Count(batch[i], e)
<1>1. batch \in [Conns -> Seq(Events)] /\ batch[i] \in Seq(Events) /\ Tail(batch[i]) \in Seq(Events)
  BY DEF TypeOK
<1>2. n \in Nat /\ Count(Tail(batch[i]), e) \in Nat
      /\ n = Count(Tail(batch[i]), e) + (IF Head(batch[i]) = e THEN 1 ELSE 0)
  BY <1>1, CountType, CountTail
<1>3. /\ batch'[i] = Tail(batch[i])
      /\ \A j \in Conns : j # i => batch'[j] = batch[j]
  BY <1>1
<1>4. CASE Head(batch[i]) = e
  <2>1. Carried(e)' = Carried(e) \ {<<i, n>>}
    <3>1. ASSUME NEW p \in Conns \X Nat PROVE p \in Carried(e)' <=> p \in Carried(e) /\ p # <<i, n>>
      <4>1. CASE p[1] = i
        BY <1>2, <1>3, <1>4, <3>1, <4>1 DEF Carried
      <4>2. CASE p[1] # i
        BY <1>3, <3>1, <4>2 DEF Carried
      <4> QED BY <4>1, <4>2
    <3>2. Carried(e) \subseteq Conns \X Nat /\ Carried(e)' \subseteq Conns \X Nat
      BY DEF Carried
    <3> QED BY <3>1, <3>2
  <2>2. <<i, n>> \in Carried(e)
    BY <1>2, <1>4 DEF Carried
  <2>3. Cardinality(Carried(e)) \in Nat
    BY FS_CardinalityType
  <2>4. /\ IsFiniteSet(Carried(e) \ {<<i, n>>})
        /\ Cardinality(Carried(e) \ {<<i, n>>}) = Cardinality(Carried(e)) - 1
    BY <2>2, OneLess
  <2> QED BY <1>4, <2>1, <2>3, <2>4
<1>5. CASE Head(batch[i]) # e
  <2>1. \A j \in Conns : Count(batch'[j], e) = Count(batch[j], e)
    BY <1>2, <1>3, <1>5
  <2>2. Carried(e)' = Carried(e)
    BY <2>1 DEF Carried
  <2> QED BY <1>5, <2>2, FS_CardinalityType
<1> QED BY <1>4, <1>5
LEMMA NextBalance == DInv /\ Balance /\ [Next]_vars => Balance'
<1> SUFFICES ASSUME DInv, Balance, [Next]_vars, NEW e \in Events
             PROVE  /\ IsFiniteSet(Carried(e)')
                    /\ Count(occurred', e) = Count(published', e) + Count(offline', e)
                                                + Cardinality(Carried(e)') + Waiting(e)'
  BY DEF Balance
<1>t. /\ offline \in Seq(Events) /\ published \in Seq(Events) /\ occurred \in Seq(Events)
      /\ batch \in [Conns -> Seq(Events)]
      /\ (poll # "idle" => event \in Events)
  BY DEF DInv, TypeOK, Started
<1>n. /\ Count(offline, e) \in Nat /\ Count(published, e) \in Nat /\ Count(occurred, e) \in Nat
      /\ Count(<<>>, e) = 0
  BY <1>t, CountType, CountEmpty
<1>b. /\ IsFiniteSet(Carried(e)) /\ Cardinality(Carried(e)) \in Nat
      /\ Count(occurred, e) = Count(published, e) + Count(offline, e) + Cardinality(Carried(e)) + Waiting(e)
  BY FS_CardinalityType DEF Balance
<1>a. CASE UNCHANGED <<offline, published, occurred, batch, poll, event>>
  BY <1>a, <1>b, CarriedKept DEF Waiting
<1>1. ASSUME NEW i \in Conns, DrainOffline(i)
      PROVE  /\ IsFiniteSet(Carried(e)')
             /\ Count(occurred', e) = Count(published', e) + Count(offline', e) + Cardinality(Carried(e)') + Waiting(e)'
  <2>1. /\ batch[i] = <<>> /\ batch' = [batch EXCEPT ![i] = offline] /\ offline' = <<>>
        /\ UNCHANGED <<published, occurred, poll, event>>
    BY <1>1 DEF DrainOffline, DInv, Started, polling
  <2>2. /\ IsFiniteSet(Carried(e)')
        /\ Cardinality(Carried(e)') = Cardinality(Carried(e)) + Count(offline, e)
    BY <1>b, <2>1, CarriedDrained DEF DInv
  <2>3. Waiting(e)' = Waiting(e) /\ Waiting(e) \in Nat
    BY <2>1 DEF Waiting
  <2> QED BY <1>n, <1>b, <2>1, <2>2, <2>3
<1>2. ASSUME NEW i \in Conns, FlushEvent(i)
      PROVE  /\ IsFiniteSet(Carried(e)')
             /\ Count(occurred', e) = Count(published', e) + Count(offline', e) + Cardinality(Carried(e)') + Waiting(e)'
  <2>1. /\ batch[i] # <<>> /\ batch' = [batch EXCEPT ![i] = Tail(@)]
        /\ published' = Append(published, Head(batch[i]))
        /\ UNCHANGED <<offline, occurred, poll, event>>
    BY <1>2 DEF FlushEvent, polling
  <2>2. /\ IsFiniteSet(Carried(e)')
        /\ Cardinality(Carried(e)) = Cardinality(Carried(e)') + (IF Head(batch[i]) = e THEN 1 ELSE 0)
    BY <1>b, <2>1, CarriedFlushed DEF DInv
  <2>3. Head(batch[i]) \in Events
    BY <1>t, <2>1
  <2>4. Count(published', e) = Count(published, e) + (IF Head(batch[i]) = e THEN 1 ELSE 0)
    BY <1>t, <2>1, <2>3, CountAppend
  <2>5. Waiting(e)' = Waiting(e) /\ Waiting(e) \in Nat /\ Cardinality(Carried(e)') \in Nat
    BY <2>1, <2>2, FS_CardinalityType DEF Waiting
  <2> QED BY <1>n, <1>b, <2>1, <2>2, <2>4, <2>5
<1>3. CASE PollState
  <2>1. CASE UNCHANGED <<polling, occurred>>
    BY <1>a, <1>3, <2>1 DEF PollState, polling, goroutines
  <2>2. CASE poll = "idle" /\ event' \in Events /\ occurred' = Append(occurred, event') /\ poll' = "emit"
    <3>1. UNCHANGED <<offline, published, batch>>
      BY <1>3 DEF PollState, goroutines
    <3>2. Count(occurred', e) = Count(occurred, e) + Waiting(e)'
      BY <1>t, <2>2, CountAppend DEF Waiting
    <3>3. Waiting(e) = 0 /\ Waiting(e)' \in Nat
      BY <2>2 DEF Waiting
    <3> QED BY <1>n, <1>b, <3>1, <3>2, <3>3, CarriedKept
  <2> QED BY <1>3, <2>1, <2>2 DEF PollState, Events
<1>4. CASE EmitEvent
  BY <1>4, <1>b, CarriedKept DEF EmitEvent, Waiting, goroutines
<1>5. CASE EmitPublish
  <2>1. /\ poll = "publish" /\ poll' = "idle" /\ published' = Append(published, event)
        /\ UNCHANGED <<offline, occurred, batch>>
    BY <1>5 DEF EmitPublish, goroutines
  <2>2. Count(published', e) = Count(published, e) + Waiting(e)
    BY <1>t, <2>1, CountAppend DEF Waiting
  <2>3. Waiting(e)' = 0 /\ Waiting(e) \in Nat
    BY <2>1 DEF Waiting
  <2> QED BY <1>n, <1>b, <2>1, <2>2, <2>3, CarriedKept
<1>6. CASE EmitBuffer
  <2>1. /\ poll = "buffer" /\ poll' = "idle" /\ offline' = Append(offline, event)
        /\ UNCHANGED <<published, occurred, batch>>
    BY <1>6 DEF EmitBuffer, goroutines
  <2>2. Count(offline', e) = Count(offline, e) + Waiting(e)
    BY <1>t, <2>1, CountAppend DEF Waiting
  <2>3. Waiting(e)' = 0 /\ Waiting(e) \in Nat
    BY <2>1 DEF Waiting
  <2> QED BY <1>n, <1>b, <2>1, <2>2, <2>3, CarriedKept
<1>7. CASE \/ LinkUp \/ LinkDown \/ (\E d \in Durations : ExecuteCommand(d)) \/ Tick \/ UNCHANGED vars
           \/ \E i \in Conns : HandleConnect(i) \/ Flushed(i) \/ HandleConnectionLost(i)
  <2>1. UNCHANGED <<offline, published, occurred, batch, poll, event>>
    BY <1>7 DEF LinkUp, LinkDown, ExecuteCommand, Tick, vars, HandleConnect, Flushed, HandleConnectionLost,
                goroutines, polling
  <2> QED BY <1>a, <2>1
<1> QED BY <1>1, <1>2, <1>3, <1>4, <1>5, <1>6, <1>7 DEF Next

LEMMA CountConcat ==
    ASSUME NEW s \in Seq(Events), NEW t \in Seq(Events), NEW e
    PROVE  Count(s \o t, e) = Count(s, e) + Count(t, e)
<1> DEFINE n == Len(s)
           S == Places(s, e)
           T == Places(t, e)
           Shifted == {n + k : k \in T}
           f == [k \in T |-> n + k]
<1>1. /\ n \in Nat /\ Len(t) \in Nat /\ DOMAIN (s \o t) = 1..(n + Len(t))
      /\ \A k \in 1..n : (s \o t)[k] = s[k]
      /\ \A k \in 1..Len(t) : (s \o t)[n + k] = t[k]
  OBVIOUS
<1>2. /\ IsFiniteSet(S) /\ IsFiniteSet(T) /\ S \subseteq 1..n /\ T \subseteq 1..Len(t)
      /\ Count(s, e) = Cardinality(S) /\ Count(t, e) = Cardinality(T)
  <2>1. IsFiniteSet(S) /\ IsFiniteSet(T)
    BY CountType
  <2>2. S \subseteq 1..n /\ T \subseteq 1..Len(t)
    BY DEF Places
  <2> QED BY <2>1, <2>2 DEF Count
<1>3. Places(s \o t, e) = S \cup Shifted
  <2>1. ASSUME NEW k \in 1..(n + Len(t)), (s \o t)[k] = e PROVE k \in S \cup Shifted
    <3>1. CASE k \in 1..n
      BY <1>1, <2>1, <3>1 DEF Places
    <3>2. CASE k \notin 1..n
      <4>1. k - n \in 1..Len(t) /\ k = n + (k - n)
        BY <1>1, <3>2
      <4>2. k - n \in T
        BY <1>1, <2>1, <4>1 DEF Places
      <4> QED BY <4>1, <4>2
    <3> QED BY <3>1, <3>2
  <2>2. ASSUME NEW k \in S \cup Shifted PROVE k \in 1..(n + Len(t)) /\ (s \o t)[k] = e
    <3>1. CASE k \in S
      BY <1>1, <3>1 DEF Places
    <3>2. CASE k \in Shifted
      <4>1. PICK j \in T : k = n + j
        BY <3>2
      <4>2. j \in 1..Len(t) /\ t[j] = e
        BY DEF Places
      <4> QED BY <1>1, <4>1, <4>2
    <3> QED BY <2>2, <3>1, <3>2
  <2>3. Places(s \o t, e) = {k \in 1..(n + Len(t)) : (s \o t)[k] = e}
    BY <1>1 DEF Places
  <2> HIDE DEF S, Shifted
  <2> QED BY <2>1, <2>2, <2>3
<1>4. f \in Bijection(T, Shifted)
  <2>1. f \in [T -> Shifted]
    OBVIOUS
  <2>2. \A a, b \in T : f[a] = f[b] => a = b
    BY <1>1, <1>2
  <2>3. \A x \in Shifted : \E k \in T : f[k] = x
    OBVIOUS
  <2> QED BY <2>1, <2>2, <2>3 DEF Bijection, Injection, Surjection, IsInjective
<1>5. IsFiniteSet(Shifted) /\ Cardinality(Shifted) = Cardinality(T)
  <2>1. ExistsBijection(T, Shifted)
    BY <1>4 DEF ExistsBijection
  <2> QED BY <1>2, <2>1, FS_Bijection
<1>6. S \cap Shifted = {}
  BY <1>1, <1>2
<1> HIDE DEF S, T, Shifted
<1>7. Cardinality(S \cap Shifted) = 0
  BY <1>6, FS_EmptySet
<1>8. Cardinality(S \cup Shifted) = Cardinality(S) + Cardinality(Shifted) - Cardinality(S \cap Shifted)
  BY <1>2, <1>5, FS_Union
<1>9. Cardinality(S) \in Nat /\ Cardinality(T) \in Nat
  BY <1>2, FS_CardinalityType
<1> QED BY <1>2, <1>3, <1>5, <1>7, <1>8, <1>9 DEF Count

\* PROTOCOL.md 4.3, whatever overtakes what and however the link flaps: no
\* event is lost and none goes out twice.  When nothing is running, each event
\* has been published or waits in the buffer, as often as it occurred.
THEOREM EventsAlwaysKept == Spec => []EventsKept
<1>1. DInv /\ Balance => EventsKept
  <2> SUFFICES ASSUME DInv, Balance, Settled
               PROVE  ToBag(published \o offline) = ToBag(occurred)
    BY DEF EventsKept
  <2>1. published \in Seq(Events) /\ offline \in Seq(Events) /\ occurred \in Seq(Events)
    BY DEF DInv, TypeOK
  <2>2. ASSUME NEW e \in Events PROVE Count(published \o offline, e) = Count(occurred, e)
    <3>1. Carried(e) = {}
      BY CountEmpty DEF Carried, DInv, Started, Settled
    <3>2. Cardinality(Carried(e)) = 0 /\ Waiting(e) = 0
      BY <3>1, FS_EmptySet DEF Waiting, Settled
    <3>3. Count(published, e) \in Nat /\ Count(offline, e) \in Nat
      BY <2>1, CountType
    <3>4. Count(occurred, e) = Count(published, e) + Count(offline, e)
      BY <3>2, <3>3 DEF Balance
    <3> QED BY <2>1, <3>4, CountConcat
  <2>3. published \o offline \in Seq(Events)
    BY <2>1
  <2> QED BY <2>1, <2>2, <2>3, SameBag
<1> QED BY <1>1, InitDInv, NextDInv, InitBalance, NextBalance, PTL DEF Spec

\* If callbacks do not overtake each other, at most one event waits in the
\* buffer for the next connection while this one is up, however the poll loop
\* interleaves with the callbacks.
THEOREM OneIsHeldBack == ASSUME ~Overtaking PROVE Spec => []OneHeldBack
<1>1. DInv /\ Seen => OneHeldBack
  <2> SUFFICES ASSUME DInv, Seen, Settled, up PROVE Len(offline) <= 1
    BY DEF OneHeldBack
  <2>1. conn \in Conns
    BY DEF DInv, TypeOK, Started, Conns
  <2>2. HeldBack <= 1 /\ poll = "idle"
    BY <2>1 DEF Seen, Settled
  <2>3. Len(offline) \in Nat
    BY DEF DInv, TypeOK
  <2> QED BY <2>2, <2>3 DEF HeldBack
<1>2. DInv /\ Seen /\ [Next]_vars => Seen'
  BY NextSeen
<1> QED BY <1>1, <1>2, InitDInv, NextDInv, InitSeen, PTL DEF Spec
=============================================================================

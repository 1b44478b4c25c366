------------------------- MODULE CallSessionsProofs -------------------------
(* Theorems about CallSessions, for every value of its constants. *)
EXTENDS CallSessions, TLAPS

USE ConstantsAssumption

LEMMA InitIInv == Init => IInv
BY DEF Init, IInv, TypeOK, AtWork, Honest, DoorOnlyAfterAccept, PCs

LEMMA NextIInv == IInv /\ [Next]_vars => IInv'
<1> SUFFICES ASSUME IInv, [Next]_vars PROVE IInv'
  OBVIOUS
<1> USE DEF IInv, TypeOK, AtWork, Honest, DoorOnlyAfterAccept,
            PCs, AuditEvents, keys, requests, world
<1>1. ASSUME NEW r \in Requests, NEW c \in Calls, NEW a \in Apartments, InitiateBusy(r, c, a)
      PROVE  IInv'
  BY <1>1 DEF InitiateBusy, SetBusy, Begin
<1>2. ASSUME NEW r \in Requests, CreateSet(r)
      PROVE  IInv'
  BY <1>2 DEF CreateSet, SetSession, Goto
<1>3. ASSUME NEW r \in Requests, CreateUndo(r)
      PROVE  IInv'
  BY <1>3 DEF CreateUndo, DelBusy, Return
<1>4. ASSUME NEW r \in Requests, VisitorTokenFails(r)
      PROVE  IInv'
  BY <1>4 DEF VisitorTokenFails, Goto
<1>5. ASSUME NEW r \in Requests, InitiateUndo(r)
      PROVE  IInv'
  BY <1>5 DEF InitiateUndo, Delete, DelSession, DelBusy, Return
<1>6. ASSUME NEW r \in Requests, InitiateAnnounce(r)
      PROVE  IInv'
  BY <1>6 DEF InitiateAnnounce, Goto
<1>7. ASSUME NEW r \in Requests, NEW c \in Calls, NEW u \in Users, AcceptGet(r, c, u)
      PROVE  IInv'
  BY <1>7 DEF AcceptGet, Begin
<1>8. ASSUME NEW r \in Requests, AcceptSetCall(r)
      PROVE  IInv'
  \* The copy is written over whatever the key holds by now; the writer is the
  \* member AcceptGet let through.
  <2>1. /\ call[r] \in Calls
        /\ apartmentOf[call[r]] \in Apartments
        /\ user[r] \in Users
        /\ user[r] \in Members[apartmentOf[call[r]]]
    BY <1>8 DEF AcceptSetCall
  <2>2. \A c \in Calls :
          /\ acceptedBy[c] \subseteq acceptedBy'[c]
          /\ acceptedBy'[c] # acceptedBy[c]
               => c = call[r] /\ acceptedBy'[c] = acceptedBy[c] \cup {user[r]}
    <3>1. \/ acceptedBy' = acceptedBy
          \/ acceptedBy' = [acceptedBy EXCEPT ![call[r]] = @ \cup {user[r]}]
      BY <1>8 DEF AcceptSetCall
    <3>2. acceptedBy \in [Calls -> SUBSET Users]
      OBVIOUS
    <3> QED BY <3>1, <3>2
  <2>3. TypeOK'
    BY <1>8, <2>1 DEF AcceptSetCall, SetSession, Goto, Return
  <2>4. AtWork'
    BY <1>8, <2>1, <2>2 DEF AcceptSetCall, Goto, Return
  <2>5. Honest'
    <3>1. SUFFICES ASSUME NEW c \in Calls
                   PROVE  /\ session'[c] # "none" \/ c \in announced' \/ acceptedBy'[c] # {}
                               => apartmentOf'[c] \in Apartments
                          /\ acceptedBy'[c] # {} => acceptedBy'[c] \subseteq Members[apartmentOf'[c]]
                          /\ session'[c] = "accepted" => acceptedBy'[c] # {}
      OBVIOUS
    <3>2. apartmentOf' = apartmentOf /\ announced' = announced
      BY <1>8 DEF AcceptSetCall
    <3>3. CASE c = call[r]
      <4>1. apartmentOf[c] \in Apartments
        BY <2>1, <3>3
      <4>2. acceptedBy'[c] \subseteq acceptedBy[c] \cup {user[r]}
        BY <2>2
      <4>3. session'[c] = "accepted" => acceptedBy'[c] # {}
        <5>1. CASE session'[c] = session[c]
          <6>1. session[c] = "accepted" => \E u : u \in acceptedBy[c]
            OBVIOUS
          <6>2. acceptedBy[c] \subseteq acceptedBy'[c]
            BY <2>2
          <6> QED
            BY ONLY <5>1, <6>1, <6>2
        <5>2. CASE acceptedBy'[c] = acceptedBy[c] \cup {user[r]}
          BY <5>2
        <5> QED
          BY <1>8, <5>1, <5>2, <3>3 DEF AcceptSetCall, SetSession
      <4> QED
        BY <2>1, <3>2, <3>3, <4>1, <4>2, <4>3
    <3>4. CASE c # call[r]
      <4>1. session'[c] = session[c]
        BY <1>8, <3>4 DEF AcceptSetCall, SetSession
      <4>2. acceptedBy'[c] = acceptedBy[c]
        BY <2>2, <3>4
      <4> QED
        BY <3>2, <4>1, <4>2
    <3> QED
      BY <3>3, <3>4
  <2>6. DoorOnlyAfterAccept'
    BY <1>8, <2>1, <2>2 DEF AcceptSetCall
  <2> QED
    BY <2>3, <2>4, <2>5, <2>6
<1>9. ASSUME NEW r \in Requests, AcceptSetBusy(r)
      PROVE  IInv'
  BY <1>9 DEF AcceptSetBusy, SetBusy, Goto, Return
<1>10. ASSUME NEW r \in Requests, AcceptNotify(r)
      PROVE  IInv'
  BY <1>10 DEF AcceptNotify, Goto
<1>11. ASSUME NEW r \in Requests, NEW c \in Calls, NEW next \in {"cancel_notify", "delete"}, TeardownGet(r, c, next)
      PROVE  IInv'
  BY <1>11 DEF TeardownGet, Begin
<1>12. ASSUME NEW r \in Requests, CancelNotify(r)
      PROVE  IInv'
  BY <1>12 DEF CancelNotify, Goto
<1>13. ASSUME NEW r \in Requests, TeardownDelete(r)
      PROVE  IInv'
  BY <1>13 DEF TeardownDelete, Delete, DelSession, DelBusy, Goto
<1>14. ASSUME NEW r \in Requests, TeardownFinish(r)
      PROVE  IInv'
  BY <1>14 DEF TeardownFinish, Record, Return
<1>15. ASSUME NEW r \in Requests, NEW c \in Calls, NEW u \in Users, OpenLookup(r, c, u)
      PROVE  IInv'
  BY <1>15 DEF OpenLookup, Begin
<1>16. ASSUME NEW r \in Requests, OpenRefused(r)
      PROVE  IInv'
  BY <1>16 DEF OpenRefused, Return
<1>17. ASSUME NEW r \in Requests, OpenPublish(r)
      PROVE  IInv'
  BY <1>17 DEF OpenPublish, Goto, Return
<1>18. ASSUME NEW r \in Requests, OpenRecord(r)
      PROVE  IInv'
  BY <1>18 DEF OpenRecord, Record, Return
<1>19. CASE Tick
  BY <1>19 DEF Tick, Less
<1>20. CASE Crash
  BY <1>20 DEF Crash
<1>21. ASSUME NEW r \in Requests, InitiateRecord(r)
      PROVE  IInv'
  BY <1>21 DEF InitiateRecord, Record, Return
<1>22. ASSUME NEW r \in Requests, AcceptRecord(r)
      PROVE  IInv'
  BY <1>22 DEF AcceptRecord, Record, Return
<1>23. CASE UNCHANGED vars
  BY <1>23 DEF vars
<1> QED
  BY <1>1, <1>2, <1>3, <1>4, <1>5, <1>6, <1>7, <1>8, <1>9, <1>10, <1>11, <1>12, <1>13, <1>14, <1>15, <1>16, <1>17, <1>18, <1>19, <1>20, <1>21, <1>22, <1>23 DEF Next, Arrival, Step, Cancel, End, Refused

\* Every variable keeps its type, whatever overlaps, fails or crashes.
THEOREM TypeCorrect == Spec => []TypeOK
<1>1. IInv => TypeOK
  BY DEF IInv
<1> QED
  BY <1>1, InitIInv, NextIInv, PTL DEF Spec

\* M1 for any number of calls, apartments, residents and overlapping requests,
\* with every failure and crash: no door opens through a call before a member
\* of the called apartment has accepted it, and only a member opens it.
THEOREM DoorIsGuarded == Spec => []DoorOnlyAfterAccept
<1>1. IInv => DoorOnlyAfterAccept
  BY DEF IInv
<1> QED
  BY <1>1, InitIInv, NextIInv, PTL DEF Spec
-----------------------------------------------------------------------------
(* The trace of a door, as long as nothing fails.                           *)

Answering == {"accept_busy", "accept_notify", "accept_record"}

\* Whoever wrote "accepted" has audited it or is about to; so has whoever
\* published open_relay.
Trace ==
    /\ \A c \in Calls : acceptedBy[c] # {} =>
          <<"call_accepted", c>> \in audit \/ \E r \in Requests : call[r] = c /\ pc[r] \in Answering
    /\ \A c \in Calls, u \in Users : <<c, u>> \in opens =>
          <<"door_open_requested", c>> \in audit \/ \E r \in Requests : call[r] = c /\ pc[r] = "open_record"

\* What a step of the request r must do for the trace.
LEMMA TraceKept ==
    ASSUME Trace, NEW r \in Requests,
           \A q \in Requests : q # r => pc'[q] = pc[q] /\ call'[q] = call[q],
           audit \subseteq audit',
           \A c \in Calls : acceptedBy'[c] # {} =>
               acceptedBy[c] # {} \/ (call'[r] = c /\ pc'[r] \in Answering),
           \A c \in Calls, u \in Users : <<c, u>> \in opens' =>
               <<c, u>> \in opens \/ (call'[r] = c /\ pc'[r] = "open_record"),
           pc[r] \in Answering =>
               <<"call_accepted", call[r]>> \in audit' \/ (call'[r] = call[r] /\ pc'[r] \in Answering),
           pc[r] = "open_record" =>
               <<"door_open_requested", call[r]>> \in audit' \/ (call'[r] = call[r] /\ pc'[r] = "open_record")
    PROVE  Trace'
<1>1. ASSUME NEW c \in Calls, acceptedBy'[c] # {}
      PROVE  <<"call_accepted", c>> \in audit' \/ \E q \in Requests : call'[q] = c /\ pc'[q] \in Answering
  <2>1. CASE acceptedBy[c] # {}
    <3>1. CASE <<"call_accepted", c>> \in audit
      BY <3>1
    <3>2. ASSUME NEW q \in Requests, call[q] = c, pc[q] \in Answering
          PROVE  <<"call_accepted", c>> \in audit' \/ \E p \in Requests : call'[p] = c /\ pc'[p] \in Answering
      BY <3>2
    <3> QED BY <2>1, <3>1, <3>2 DEF Trace
  <2> QED BY <1>1, <2>1
<1>2. ASSUME NEW c \in Calls, NEW u \in Users, <<c, u>> \in opens'
      PROVE  <<"door_open_requested", c>> \in audit' \/ \E q \in Requests : call'[q] = c /\ pc'[q] = "open_record"
  <2>1. CASE <<c, u>> \in opens
    <3>1. CASE <<"door_open_requested", c>> \in audit
      BY <3>1
    <3>2. ASSUME NEW q \in Requests, call[q] = c, pc[q] = "open_record"
          PROVE  <<"door_open_requested", c>> \in audit' \/ \E p \in Requests : call'[p] = c /\ pc'[p] = "open_record"
      BY <3>2
    <3> QED BY <2>1, <3>1, <3>2 DEF Trace
  <2> QED BY <1>2, <2>1
<1> QED BY <1>1, <1>2 DEF Trace

\* A step of the request r that answers nobody, opens nothing and was not
\* about to audit either.
LEMMA TraceAside ==
    ASSUME Trace, NEW r \in Requests,
           \A q \in Requests : q # r => pc'[q] = pc[q] /\ call'[q] = call[q],
           UNCHANGED <<audit, acceptedBy, opens>>,
           pc[r] \notin Answering, pc[r] # "open_record"
    PROVE  Trace'
BY TraceKept

LEMMA NextTrace == ASSUME ~Faults, IInv, Trace, [Next]_vars PROVE Trace'
<1> USE DEF IInv, TypeOK, PCs, keys, requests, world, Answering
<1>1. ASSUME NEW r \in Requests, NEW c \in Calls, NEW a \in Apartments, InitiateBusy(r, c, a) PROVE Trace'
  BY <1>1, TraceAside DEF InitiateBusy, Begin
<1>2. ASSUME NEW r \in Requests, NEW c \in Calls, NEW u \in Users, AcceptGet(r, c, u) \/ OpenLookup(r, c, u)
      PROVE  Trace'
  <2>1. Begin(r, "accept_call", c, u) \/ Begin(r, "open_publish", c, u)
    BY <1>2 DEF AcceptGet, OpenLookup
  <2>2. UNCHANGED <<audit, acceptedBy, opens>>
    BY <1>2 DEF AcceptGet, OpenLookup
  <2>3. pc[r] = "idle" /\ \A q \in Requests : q # r => pc'[q] = pc[q] /\ call'[q] = call[q]
    BY <2>1 DEF Begin
  <2> QED BY <2>2, <2>3, TraceAside
<1>3. ASSUME NEW r \in Requests, NEW c \in Calls, NEW next \in {"cancel_notify", "delete"}, TeardownGet(r, c, next)
      PROVE  Trace'
  BY <1>3, TraceAside DEF TeardownGet, Begin
<1>4. ASSUME NEW r \in Requests, CreateSet(r) PROVE Trace'
  BY <1>4, TraceAside DEF CreateSet, Goto
<1>5. ASSUME NEW r \in Requests, CreateUndo(r) \/ InitiateUndo(r) PROVE Trace'
  <2>1. Return(r) /\ pc[r] \in {"create_undo", "initiate_undo"}
    BY <1>5 DEF CreateUndo, InitiateUndo
  <2>2. UNCHANGED <<audit, acceptedBy, opens>>
    BY <1>5 DEF CreateUndo, InitiateUndo
  <2> QED BY <2>1, <2>2, TraceAside DEF Return
<1>6. ASSUME NEW r \in Requests, VisitorTokenFails(r) \/ InitiateAnnounce(r) PROVE Trace'
  <2>1. /\ Goto(r, "initiate_undo") \/ Goto(r, "initiate_record")
        /\ pc[r] = "announce"
    BY <1>6 DEF VisitorTokenFails, InitiateAnnounce
  <2>2. UNCHANGED <<audit, acceptedBy, opens>>
    BY <1>6 DEF VisitorTokenFails, InitiateAnnounce
  <2> QED BY <2>1, <2>2, TraceAside DEF Goto
<1>7. ASSUME NEW r \in Requests, InitiateRecord(r) PROVE Trace'
  BY <1>7, TraceKept DEF InitiateRecord, Record, Return
<1>8. ASSUME NEW r \in Requests, AcceptSetCall(r) PROVE Trace'
  <2>1. /\ acceptedBy' = [acceptedBy EXCEPT ![call[r]] = @ \cup {user[r]}]
        /\ Goto(r, "accept_busy")
        /\ pc[r] = "accept_call" /\ UNCHANGED <<audit, opens>>
    BY <1>8 DEF AcceptSetCall, Outcomes, Answered, Executed
  <2>2. \A c \in Calls : c # call[r] => acceptedBy'[c] = acceptedBy[c]
    BY <2>1
  <2>3. pc'[r] = "accept_busy" /\ call' = call /\ \A q \in Requests : q # r => pc'[q] = pc[q]
    BY <2>1 DEF Goto
  <2> QED BY <2>1, <2>2, <2>3, TraceKept
<1>9. ASSUME NEW r \in Requests, AcceptSetBusy(r) PROVE Trace'
  BY <1>9, TraceKept DEF AcceptSetBusy, Outcomes, Answered, Goto, Return
<1>10. ASSUME NEW r \in Requests, AcceptNotify(r) \/ CancelNotify(r) PROVE Trace'
  <2>1. CASE AcceptNotify(r)
    BY <2>1, TraceKept DEF AcceptNotify, Goto
  <2>2. CASE CancelNotify(r)
    BY <2>2, TraceAside DEF CancelNotify, Goto
  <2> QED BY <1>10, <2>1, <2>2
<1>11. ASSUME NEW r \in Requests, AcceptRecord(r) PROVE Trace'
  BY <1>11, TraceKept DEF AcceptRecord, Record, Return
<1>12. ASSUME NEW r \in Requests, TeardownDelete(r) PROVE Trace'
  BY <1>12, TraceKept DEF TeardownDelete, Goto
<1>13. ASSUME NEW r \in Requests, TeardownFinish(r) PROVE Trace'
  BY <1>13, TraceKept DEF TeardownFinish, Record, Return
<1>14. ASSUME NEW r \in Requests, OpenRefused(r) PROVE Trace'
  BY <1>14, TraceKept DEF OpenRefused, Return
<1>15. ASSUME NEW r \in Requests, OpenPublish(r) PROVE Trace'
  BY <1>15, TraceKept DEF OpenPublish, Outcomes, Answered, Goto, Return
<1>16. ASSUME NEW r \in Requests, OpenRecord(r) PROVE Trace'
  BY <1>16, TraceKept DEF OpenRecord, Record, Return
<1>17. CASE Tick
  BY <1>17 DEF Tick, Trace
<1>18. ~Crash
  BY DEF Crash
<1>19. CASE UNCHANGED vars
  BY <1>19 DEF vars, Trace
<1> QED
  BY <1>1, <1>2, <1>3, <1>4, <1>5, <1>6, <1>7, <1>8, <1>9, <1>10, <1>11, <1>12, <1>13, <1>14,
     <1>15, <1>16, <1>17, <1>18, <1>19 DEF Next, Arrival, Step, Cancel, End, Refused

\* As long as Redis, the database and the process hold, and however slow and
\* ill-mannered the requests are: whoever opened a door through a call has
\* left the answer and the opening in the log by the time nobody works on
\* the call.
THEOREM DoorLeavesTrace == ASSUME ~Faults PROVE Spec => []DoorIsAudited
<1>1. Init => Trace
  BY DEF Init, Trace
<1>2. IInv /\ Trace /\ [Next]_vars => Trace'
  BY NextTrace
<1>3. IInv /\ Trace => DoorIsAudited
  BY DEF IInv, DoorOnlyAfterAccept, Trace, DoorIsAudited
<1> QED BY <1>1, <1>2, <1>3, InitIInv, NextIInv, PTL DEF Spec
-----------------------------------------------------------------------------
(* The line of an apartment, as long as nothing fails, handlers are faster  *)
(* than a tick, and nobody hangs up a call somebody else acts on.           *)

\* A session has its busy key, and both run out together, once the Accept
\* that is writing them is through.
InStep ==
    \A c \in Calls : session[c] # "none" =>
        /\ busy[apartmentOf[c]] = c
        /\ sessionTTL[c] > 0
        /\ \/ sessionTTL[c] = busyTTL[apartmentOf[c]]
           \/ \E r \in Requests : call[r] = c /\ pc[r] = "accept_busy"

\* A busy apartment has a session, or is about to have one.
Taken ==
    \A a \in Apartments : busy[a] # NoCall =>
        /\ apartmentOf[busy[a]] = a
        /\ \/ session[busy[a]] # "none"
           \/ \E r \in Requests : call[r] = busy[a] /\ pc[r] = "create_set"

\* What a request knows of its call.
Knows(r) ==
    /\ pc[r] = "idle" => call[r] = NoCall
    /\ pc[r] \notin {"create_undo", "initiate_undo"}
    /\ pc[r] = "create_set" =>
          /\ session[call[r]] = "none"
          /\ busy[apartmentOf[call[r]]] = call[r]
          /\ busyTTL[apartmentOf[call[r]]] = TTL
    /\ pc[r] \in {"create_set", "announce"} => call[r] \notin announced
    /\ pc[r] \in {"accept_call", "cancel_notify", "delete"} => session[call[r]] # "none"
    /\ pc[r] \in {"accept_busy", "open_publish"} => session[call[r]] = "accepted"
    /\ pc[r] = "accept_busy" => sessionTTL[call[r]] = TTL

\* A request that creates a call or tears it down is alone with it.
Alone ==
    \A q, r \in Requests :
        /\ pc[r] \in {"create_set", "announce", "cancel_notify", "delete", "finish"}
        /\ call[q] = call[r]
        => q = r

Lines == InStep /\ Taken /\ (\A r \in Requests : Knows(r)) /\ Alone

LEMMA InitLines == Init => Lines
BY DEF Init, Lines, InStep, Taken, Knows, Alone
LEMMA NextLines ==
    ASSUME ~Faults, ~SlowHandlers, Polite, IInv, Lines, [Next]_vars
    PROVE  Lines'
<1> USE DEF IInv, TypeOK, AtWork, Honest, PCs, Lines, InStep, Taken, Knows, Alone,
            keys, requests, world, Outcomes, Executed, Answered
<1>1. ASSUME NEW r \in Requests, NEW c \in Calls, NEW a \in Apartments, InitiateBusy(r, c, a) PROVE Lines'
  <2>1. /\ apartmentOf[c] = NoApartment /\ busy[a] = NoCall
        /\ busy' = [busy EXCEPT ![a] = c] /\ busyTTL' = [busyTTL EXCEPT ![a] = TTL]
        /\ apartmentOf' = [apartmentOf EXCEPT ![c] = a]
        /\ Begin(r, "create_set", c, NoUser)
        /\ UNCHANGED <<session, sessionTTL, announced>>
    BY <1>1 DEF InitiateBusy, SetBusy
  <2>2. session[c] = "none" /\ c \notin announced /\ \A q \in Requests : call[q] # c
    BY <2>1
  <2>3. /\ \A d \in Calls : d # c => apartmentOf'[d] = apartmentOf[d]
        /\ \A b \in Apartments : b # a => busy'[b] = busy[b] /\ busyTTL'[b] = busyTTL[b]
        /\ \A q \in Requests : q # r => pc'[q] = pc[q] /\ call'[q] = call[q]
        /\ pc'[r] = "create_set" /\ call'[r] = c /\ pc[r] = "idle" /\ call[r] = NoCall
        /\ apartmentOf'[c] = a /\ busy'[a] = c /\ busyTTL'[a] = TTL
    BY <2>1 DEF Begin
  <2>4. InStep'
    BY <2>1, <2>2, <2>3
  <2>5. Taken'
    BY <2>1, <2>2, <2>3
  <2>6. \A q \in Requests : Knows(q)'
    BY <2>1, <2>2, <2>3
  <2>7. Alone'
    BY <2>1, <2>2, <2>3
  <2> QED BY <2>4, <2>5, <2>6, <2>7
<1>2. ASSUME NEW r \in Requests, CreateSet(r) PROVE Lines'
  BY <1>2 DEF CreateSet, SetSession, Goto
<1>3. ASSUME NEW r \in Requests, InitiateAnnounce(r) PROVE Lines'
  BY <1>3 DEF InitiateAnnounce, Goto
<1>4. ASSUME NEW r \in Requests, InitiateRecord(r) \/ AcceptRecord(r) \/ OpenRecord(r) PROVE Lines'
  <2>1. Return(r) /\ pc[r] \in {"initiate_record", "accept_record", "open_record"}
    BY <1>4 DEF InitiateRecord, AcceptRecord, OpenRecord
  <2>2. UNCHANGED <<busy, busyTTL, session, sessionTTL, apartmentOf, announced>>
    BY <1>4 DEF InitiateRecord, AcceptRecord, OpenRecord
  <2> QED BY <2>1, <2>2 DEF Return
<1>5. ASSUME NEW r \in Requests, NEW c \in Calls, NEW u \in Users, AcceptGet(r, c, u) \/ OpenLookup(r, c, u)
      PROVE  Lines'
  BY <1>5 DEF AcceptGet, OpenLookup, MayAct, Begin
<1>6. ASSUME NEW r \in Requests, AcceptSetCall(r) PROVE Lines'
  BY <1>6 DEF AcceptSetCall, SetSession, Goto
<1>7. ASSUME NEW r \in Requests, AcceptSetBusy(r) PROVE Lines'
  BY <1>7 DEF AcceptSetBusy, SetBusy, Goto
<1>8. ASSUME NEW r \in Requests, AcceptNotify(r) \/ CancelNotify(r) PROVE Lines'
  BY <1>8 DEF AcceptNotify, CancelNotify, Goto
<1>9. ASSUME NEW r \in Requests, NEW c \in Calls, NEW next \in {"cancel_notify", "delete"}, TeardownGet(r, c, next)
      PROVE  Lines'
  BY <1>9 DEF TeardownGet, MayHangUp, Begin
<1>10. ASSUME NEW r \in Requests, TeardownDelete(r) PROVE Lines'
  BY <1>10 DEF TeardownDelete, Delete, DelSession, DelBusy, Goto
<1>11. ASSUME NEW r \in Requests, TeardownFinish(r) PROVE Lines'
  BY <1>11 DEF TeardownFinish, Record, Return
<1>12. ASSUME NEW r \in Requests, OpenRefused(r) PROVE Lines'
  BY <1>12 DEF OpenRefused, Return
<1>13. ASSUME NEW r \in Requests, OpenPublish(r) PROVE Lines'
  BY <1>13 DEF OpenPublish, Goto
<1>14. CASE Tick
  BY <1>14 DEF Tick, Less
<1>15. ~Crash /\ \A r \in Requests : ~CreateUndo(r) /\ ~InitiateUndo(r) /\ ~VisitorTokenFails(r)
  BY DEF Crash, CreateUndo, InitiateUndo, VisitorTokenFails
<1>16. CASE UNCHANGED vars
  BY <1>16 DEF vars
<1> QED
  BY <1>1, <1>2, <1>3, <1>4, <1>5, <1>6, <1>7, <1>8, <1>9, <1>10, <1>11, <1>12, <1>13, <1>14,
     <1>15, <1>16 DEF Next, Arrival, Step, Cancel, End, Refused

\* When nothing fails, handlers are faster than a tick and nobody hangs up a
\* call that somebody else acts on, no apartment is in two live calls, for any
\* number of calls, apartments and requests that overlap.
THEOREM OneLinePerApartment ==
    ASSUME ~Faults, ~SlowHandlers, Polite
    PROVE  Spec => []OneLiveCallPerApartment
<1>1. IInv /\ Lines => OneLiveCallPerApartment
  <2>1. IInv => announced \subseteq Calls
    BY DEF IInv, TypeOK
  <2> QED BY <2>1 DEF Lines, InStep, OneLiveCallPerApartment, Live
<1> QED BY <1>1, InitIInv, NextIInv, InitLines, NextLines, PTL DEF Spec

\* Under the same conditions the busy key of the apartment of a live call names
\* that call.
THEOREM BusyFollowsSession ==
    ASSUME ~Faults, ~SlowHandlers, Polite
    PROVE  Spec => []BusyInSync
<1>1. IInv /\ Lines => BusyInSync
  BY DEF Lines, InStep, BusyInSync, Live, IInv, TypeOK
<1> QED BY <1>1, InitIInv, NextIInv, InitLines, NextLines, PTL DEF Spec

-----------------------------------------------------------------------------
(* The refinement of CallLine. *)

LEMMA InitImplementsLine == Init => Line!Init
BY DEF Init, Line!Init, Line!Free, LineOf

\* A step that changes no line and publishes nothing is a stutter.
LEMMA LineKept ==
    ASSUME \A a \in Apartments : LineOf(a)' = LineOf(a), opens' = opens
    PROVE  UNCHANGED Line!vars
BY DEF Line!vars

\* The line a has become v, and no other line has changed.
LEMMA LineMoves ==
    ASSUME NEW a \in Apartments, NEW v, LineOf(a)' = v,
           \A b \in Apartments : b # a => LineOf(b)' = LineOf(b)
    PROVE  [b \in Apartments |-> LineOf(b)]' = [[b \in Apartments |-> LineOf(b)] EXCEPT ![a] = v]
OBVIOUS

\* The line of a call that has its busy key.
LEMMA LineOfCall ==
    ASSUME IInv, NEW c \in Calls, busy[apartmentOf[c]] = c
    PROVE  LineOf(apartmentOf[c]) = IF session[c] = "none" THEN <<NoCall, "none">> ELSE <<c, session[c]>>
BY DEF LineOf

\* When only one session changes, and it has its busy key, so does only one
\* line.
LEMMA OtherLines ==
    ASSUME IInv, Lines, NEW c \in Calls,
           busy' = busy \/ busy' = [busy EXCEPT ![apartmentOf[c]] = NoCall],
           NEW state, session' = [session EXCEPT ![c] = state]
    PROVE  \A b \in Apartments : b # apartmentOf[c] => LineOf(b)' = LineOf(b)
<1> SUFFICES ASSUME NEW b \in Apartments, b # apartmentOf[c] PROVE LineOf(b)' = LineOf(b)
  OBVIOUS
<1>1. busy'[b] = busy[b]
  BY DEF IInv, TypeOK
<1>2. busy[b] # NoCall => busy[b] # c
  BY DEF Lines, Taken
<1>3. busy[b] # NoCall => session'[busy[b]] = session[busy[b]]
  BY <1>2 DEF IInv, TypeOK
<1> QED BY <1>1, <1>3 DEF LineOf

LEMMA NextImplementsLine ==
    ASSUME ~Faults, ~SlowHandlers, Polite, IInv, Lines, [Next]_vars
    PROVE  [Line!Next]_(Line!vars)
<1> USE DEF Outcomes, Executed, Answered, keys, requests, world
<1>t. /\ busy \in [Apartments -> Calls \cup {NoCall}]
      /\ session \in [Calls -> {"none", "ringing", "accepted"}]
      /\ opens \subseteq Calls \X Users
  BY DEF IInv, TypeOK
<1>w. \A r \in Requests : pc[r] # "idle" => call[r] \in Calls /\ apartmentOf[call[r]] \in Apartments
  BY DEF IInv, AtWork
<1>k. \A r \in Requests : Knows(r)
  BY DEF Lines
<1>1. ASSUME NEW r \in Requests, NEW c \in Calls, NEW a \in Apartments, InitiateBusy(r, c, a)
      PROVE  UNCHANGED Line!vars
  <2>1. busy[a] = NoCall /\ busy' = [busy EXCEPT ![a] = c] /\ session' = session /\ opens' = opens
    BY <1>1 DEF InitiateBusy, SetBusy
  <2>2. session[c] = "none"
    BY <1>1 DEF InitiateBusy, IInv, Honest
  <2>3. \A b \in Apartments : LineOf(b)' = LineOf(b)
    BY <1>t, <2>1, <2>2 DEF LineOf
  <2> QED BY <2>1, <2>3, LineKept
<1>2. ASSUME NEW r \in Requests, CreateSet(r) PROVE Line!Next
  <2>0. PICK c \in Calls, a \in Apartments : c = call[r] /\ a = apartmentOf[c]
    BY <1>2, <1>w DEF CreateSet
  <2>1. pc[r] = "create_set"
    BY <1>2 DEF CreateSet
  <2>2. busy' = busy /\ session' = [session EXCEPT ![c] = "ringing"] /\ opens' = opens /\ apartmentOf' = apartmentOf
    BY <1>2, <2>0 DEF CreateSet, SetSession
  <2>3. busy[a] = c /\ session[c] = "none"
    BY <1>k, <2>0, <2>1 DEF Knows
  <2>4. LineOf(a) = <<NoCall, "none">> /\ LineOf(a)' = <<c, "ringing">>
    <3> QED BY <1>t, <2>0, <2>1, <2>2, <2>3, ConstantsAssumption DEF LineOf
  <2>5. \A b \in Apartments : b # a => LineOf(b)' = LineOf(b)
    BY <2>0, <2>2, OtherLines
  <2>6. \A b \in Apartments : LineOf(b) \notin {<<c, "ringing">>, <<c, "accepted">>}
    BY <2>0, <2>1, <2>3 DEF LineOf
  <2>7. Line!Ring(a, c)
    <3>1. [b \in Apartments |-> LineOf(b)]' = [[b \in Apartments |-> LineOf(b)] EXCEPT ![a] = <<c, "ringing">>]
      BY <2>0, <2>1, <2>4, <2>5, LineMoves
    <3> QED BY <2>0, <2>1, <2>2, <2>4, <2>6, <3>1 DEF Line!Ring, Line!Free
  <2> QED BY <2>0, <2>1, <2>7 DEF Line!Next
<1>3. ASSUME NEW r \in Requests, AcceptSetCall(r) PROVE [Line!Next]_(Line!vars)
  <2>0. PICK c \in Calls, a \in Apartments : c = call[r] /\ a = apartmentOf[c]
    BY <1>3, <1>w DEF AcceptSetCall
  <2>1. pc[r] = "accept_call"
    BY <1>3 DEF AcceptSetCall
  <2>2. busy' = busy /\ session' = [session EXCEPT ![c] = "accepted"] /\ opens' = opens /\ apartmentOf' = apartmentOf
    BY <1>3, <2>0 DEF AcceptSetCall, SetSession
  <2>3. session[c] # "none" /\ busy[a] = c
    BY <1>k, <2>0, <2>1 DEF Lines, InStep, Knows
  <2>4. LineOf(a) = <<c, session[c]>> /\ LineOf(a)' = <<c, "accepted">>
    <3> QED BY <1>t, <2>0, <2>1, <2>2, <2>3, ConstantsAssumption DEF LineOf
  <2>5. \A b \in Apartments : b # a => LineOf(b)' = LineOf(b)
    BY <2>0, <2>2, OtherLines
  <2>6. CASE session[c] = "accepted"
    <3>1. \A b \in Apartments : LineOf(b)' = LineOf(b)
      BY <2>4, <2>5, <2>6
    <3> QED BY <2>2, <3>1, LineKept
  <2>7. CASE session[c] = "ringing"
    <3>1. [b \in Apartments |-> LineOf(b)]' = [[b \in Apartments |-> LineOf(b)] EXCEPT ![a] = <<c, "accepted">>]
      BY <2>0, <2>1, <2>4, <2>5, LineMoves
    <3>2. Line!Answer(a, c)
      BY <2>0, <2>1, <2>2, <2>4, <2>7, <3>1 DEF Line!Answer
    <3> QED BY <2>0, <2>1, <3>2 DEF Line!Next
  <2> QED BY <1>t, <2>0, <2>1, <2>3, <2>6, <2>7
<1>4. ASSUME NEW r \in Requests, AcceptSetBusy(r) PROVE UNCHANGED Line!vars
  <2>1. pc[r] = "accept_busy" /\ call[r] \in Calls /\ apartmentOf[call[r]] \in Apartments
    BY <1>4, <1>w DEF AcceptSetBusy
  <2>2. busy[apartmentOf[call[r]]] = call[r]
    BY <1>k, <2>1 DEF Lines, InStep, Knows
  <2>3. busy' = [busy EXCEPT ![apartmentOf[call[r]]] = call[r]] /\ session' = session /\ opens' = opens
    BY <1>4 DEF AcceptSetBusy, SetBusy
  <2>4. busy' = busy
    BY <1>t, <2>2, <2>3
  <2> QED BY <2>3, <2>4, LineKept DEF LineOf
<1>5. ASSUME NEW r \in Requests, TeardownDelete(r) PROVE Line!Next
  <2>0. PICK c \in Calls, a \in Apartments : c = call[r] /\ a = apartmentOf[c]
    BY <1>5, <1>w DEF TeardownDelete
  <2>1. pc[r] = "delete"
    BY <1>5 DEF TeardownDelete
  <2>2. /\ busy' = [busy EXCEPT ![a] = NoCall]
        /\ session' = [session EXCEPT ![c] = "none"]
        /\ opens' = opens
    BY <1>5, <2>0 DEF TeardownDelete, Delete, DelSession, DelBusy
  <2>3. LineOf(a)' = <<NoCall, "none">>
    BY <1>t, <2>0, <2>1, <2>2 DEF LineOf
  <2>4. \A b \in Apartments : b # a => LineOf(b)' = LineOf(b)
    BY <2>0, <2>2, OtherLines
  <2>5. [b \in Apartments |-> LineOf(b)]' =
            [b \in Apartments |-> IF b \in {a} THEN Line!Free ELSE [d \in Apartments |-> LineOf(d)][b]]
    BY <2>3, <2>4 DEF Line!Free
  <2>6. Line!HangUp
    <3>1. {a} \in SUBSET Apartments
      BY <2>0
    <3>2. {d \in Calls : \E u \in Users : <<d, u>> \in opens}'
              = {d \in Calls : \E u \in Users : <<d, u>> \in opens}
      BY <2>2
    <3> QED BY <2>5, <3>1, <3>2 DEF Line!HangUp
  <2> QED BY <2>6 DEF Line!Next
<1>6. ASSUME NEW r \in Requests, OpenPublish(r) PROVE Line!Next
  <2>0. PICK c \in Calls, a \in Apartments : c = call[r] /\ a = apartmentOf[c]
    BY <1>6, <1>w DEF OpenPublish
  <2>1. pc[r] = "open_publish"
    BY <1>6 DEF OpenPublish
  <2>2. UNCHANGED <<busy, session>> /\ opens' = opens \cup {<<c, user[r]>>}
    BY <1>6, <2>0 DEF OpenPublish
  <2>3. user[r] \in Users
    BY <2>0, <2>1, ConstantsAssumption DEF IInv, AtWork
  <2>4. session[c] = "accepted" /\ busy[a] = c
    BY <1>k, <2>0, <2>1 DEF Lines, InStep, Knows
  <2>5. LineOf(a) = <<c, "accepted">>
    BY <2>0, <2>1, <2>4, LineOfCall
  <2>6. \A b \in Apartments : LineOf(b)' = LineOf(b)
    BY <2>2 DEF LineOf
  <2>7. {d \in Calls : \E u \in Users : <<d, u>> \in opens}'
            = {d \in Calls : \E u \in Users : <<d, u>> \in opens} \cup {c}
    BY <2>0, <2>1, <2>2, <2>3
  <2>8. [b \in Apartments |-> LineOf(b)]' = [b \in Apartments |-> LineOf(b)]
    BY <2>6
  <2>9. Line!Open(a, c)
    BY <2>0, <2>1, <2>5, <2>7, <2>8 DEF Line!Open
  <2> QED BY <2>0, <2>1, <2>9 DEF Line!Next
<1>7. CASE Tick
  <2> DEFINE S == {a \in Apartments : LineOf(a)' = Line!Free}
  <2>1. /\ \A a \in Apartments : busy'[a] = IF busyTTL[a] = 1 THEN NoCall ELSE busy[a]
        /\ \A c \in Calls : session'[c] = IF sessionTTL[c] = 1 THEN "none" ELSE session[c]
        /\ opens' = opens /\ \A r \in Requests : pc[r] = "idle"
    BY <1>7 DEF Tick
  <2>2. ASSUME NEW a \in Apartments, LineOf(a)' # Line!Free PROVE LineOf(a)' = LineOf(a)
    <3>1. busy'[a] # NoCall /\ session'[busy'[a]] # "none"
      BY <2>2 DEF LineOf, Line!Free
    <3>2. busy'[a] = busy[a]
      BY <2>1, <3>1
    <3>3. session'[busy'[a]] = session[busy[a]]
      <4>1. busy[a] \in Calls
        BY <1>t, <3>1, <3>2
      <4> QED BY <2>1, <3>1, <3>2, <4>1
    <3> QED BY <3>1, <3>2, <3>3 DEF LineOf
  <2>3. Line!HangUp
    <3>1. [a \in Apartments |-> LineOf(a)]' = [a \in Apartments |-> IF a \in S THEN Line!Free ELSE [b \in Apartments |-> LineOf(b)][a]]
      BY <2>2
    <3>2. S \in SUBSET Apartments
      OBVIOUS
    <3> QED BY <2>1, <3>1, <3>2 DEF Line!HangUp
  <2> QED BY <2>3 DEF Line!Next
<1>8. ASSUME NEW r \in Requests,
             \/ InitiateAnnounce(r) \/ InitiateRecord(r) \/ AcceptNotify(r) \/ AcceptRecord(r)
             \/ CancelNotify(r) \/ TeardownFinish(r) \/ OpenRefused(r) \/ OpenRecord(r)
             \/ \E c \in Calls, u \in Users : AcceptGet(r, c, u) \/ OpenLookup(r, c, u)
             \/ \E c \in Calls : Cancel(r, c) \/ End(r, c)
      PROVE  UNCHANGED Line!vars
  <2>1. UNCHANGED <<busy, session, opens>>
    BY <1>8 DEF InitiateAnnounce, InitiateRecord, AcceptNotify, AcceptRecord, CancelNotify, TeardownFinish,
                OpenRefused, OpenRecord, AcceptGet, OpenLookup, Cancel, End, TeardownGet
  <2> QED BY <2>1, LineKept DEF LineOf
<1>9. ~Crash /\ \A r \in Requests : ~CreateUndo(r) /\ ~InitiateUndo(r) /\ ~VisitorTokenFails(r)
  BY <1>k DEF Crash, CreateUndo, InitiateUndo, VisitorTokenFails, Knows
<1>10. CASE UNCHANGED vars
  BY <1>10, LineKept DEF vars, LineOf
<1> QED
  BY <1>1, <1>2, <1>3, <1>4, <1>5, <1>6, <1>7, <1>8, <1>9, <1>10 DEF Next, Arrival, Step, Refused

\* Under the same conditions, for any number of calls, apartments and requests
\* that overlap: the two keys of Redis are one line per apartment, which is
\* free, rings, or is answered, and a door opens only through the call that
\* holds the line.
THEOREM KeysAreOneLine ==
    ASSUME ~Faults, ~SlowHandlers, Polite
    PROVE  Spec => ImplementsLine
<1>1. Init => Line!Init
  BY InitImplementsLine
<1>2. IInv /\ Lines /\ [Next]_vars => [Line!Next]_(Line!vars)
  BY NextImplementsLine
<1> QED BY <1>1, <1>2, InitIInv, NextIInv, InitLines, NextLines, PTL DEF Spec, ImplementsLine, Line!Spec
=============================================================================

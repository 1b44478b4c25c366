---------------------------- MODULE CallSessions ----------------------------
(***************************************************************************)
(* The call sessions of the backend (internal/calls) and the opening of a  *)
(* door through a call (internal/access, Service.Open).                    *)
(*                                                                         *)
(* A call lives in two Redis keys with a TTL: call:apartment:{apt}, which  *)
(* makes the apartment busy, and call:{id}, the session with its state.    *)
(* No handler holds a lock: each HTTP request is a goroutine that issues   *)
(* its Redis commands one at a time, so the requests interleave between    *)
(* any two of them.  A request is refused (404, 403, 409) by an early      *)
(* return that changes nothing, hence by a stuttering step.                *)
(***************************************************************************)
EXTENDS Integers

CONSTANTS
    Calls,         \* call ids, each drawn once by uuid.NewString
    Apartments,
    Users,         \* residents with a valid access token
    Requests,      \* handler goroutines; their number bounds the overlap
    Members,       \* Members[a]: the users whose claims hold a role in a
    TTL,           \* callTTL in ticks
    Faults,        \* Redis and LiveKit calls may fail, the process may crash
    SlowHandlers,  \* a tick may pass while a handler is running
    Polite,        \* nobody hangs up a call while somebody else acts on it
    NoCall, NoApartment, NoUser

ASSUME ConstantsAssumption ==
    /\ Members \in [Apartments -> SUBSET Users]
    /\ TTL \in Nat \ {0}
    /\ {Faults, SlowHandlers, Polite} \subseteq BOOLEAN
    /\ NoCall \notin Calls
    /\ NoApartment \notin Apartments
    /\ NoUser \notin Users

VARIABLES
    busy,        \* busy[a]: the value of call:apartment:{a}
    busyTTL,     \* ticks left to that key
    session,     \* session[c]: the State of call:{c}, "none" without the key
    sessionTTL,  \* ticks left to that key
    apartmentOf, \* the ApartmentID written in every copy of the session
    pc,          \* the next step of each request
    call,        \* the call a request works on
    user,        \* the authenticated user of a request
    announced,   \* calls whose id has left the server (SSE, HTTP response)
    told,        \* the last SSE event emitted about each call
    audit,       \* audit_log, as pairs of an event type and a call
    acceptedBy,  \* history: whose Accept wrote "accepted" in call:{c}
    opens,       \* history: open_relay commands published, <<call, user>>
    ended        \* history: calls whose cancel or end answered 204

keys == <<busy, busyTTL, session, sessionTTL>>
requests == <<pc, call, user>>
world == <<announced, told, audit, acceptedBy, opens, ended>>
vars == <<keys, apartmentOf, requests, world>>

PCs == {"idle", "create_set", "create_undo", "announce", "initiate_undo",
        "initiate_record", "accept_call", "accept_busy", "accept_notify",
        "accept_record", "cancel_notify", "delete", "finish", "open_publish", "open_record"}

AuditEvents == {"call_initiated", "call_accepted", "call_finished",
                "door_open_requested"}

TypeOK ==
    /\ busy \in [Apartments -> Calls \cup {NoCall}]
    /\ busyTTL \in [Apartments -> 0..TTL]
    /\ session \in [Calls -> {"none", "ringing", "accepted"}]
    /\ sessionTTL \in [Calls -> 0..TTL]
    /\ apartmentOf \in [Calls -> Apartments \cup {NoApartment}]
    /\ pc \in [Requests -> PCs]
    /\ call \in [Requests -> Calls \cup {NoCall}]
    /\ user \in [Requests -> Users \cup {NoUser}]
    /\ announced \in SUBSET Calls
    /\ told \in [Calls -> {"none", "incoming", "accepted", "cancelled"}]
    /\ audit \in SUBSET (AuditEvents \X Calls)
    /\ acceptedBy \in [Calls -> SUBSET Users]
    /\ opens \in SUBSET (Calls \X Users)
    /\ ended \in SUBSET Calls

Init ==
    /\ busy = [a \in Apartments |-> NoCall]
    /\ busyTTL = [a \in Apartments |-> 0]
    /\ session = [c \in Calls |-> "none"]
    /\ sessionTTL = [c \in Calls |-> 0]
    /\ apartmentOf = [c \in Calls |-> NoApartment]
    /\ pc = [r \in Requests |-> "idle"]
    /\ call = [r \in Requests |-> NoCall]
    /\ user = [r \in Requests |-> NoUser]
    /\ announced = {}
    /\ told = [c \in Calls |-> "none"]
    /\ audit = {}
    /\ acceptedBy = [c \in Calls |-> {}]
    /\ opens = {}
    /\ ended = {}

-----------------------------------------------------------------------------
(* The steps of a request. *)

Begin(r, p, c, u) ==
    /\ pc[r] = "idle"
    /\ pc' = [pc EXCEPT ![r] = p]
    /\ call' = [call EXCEPT ![r] = c]
    /\ user' = [user EXCEPT ![r] = u]

Goto(r, p) ==
    /\ pc' = [pc EXCEPT ![r] = p]
    /\ UNCHANGED <<call, user>>

Return(r) ==
    /\ pc' = [pc EXCEPT ![r] = "idle"]
    /\ call' = [call EXCEPT ![r] = NoCall]
    /\ user' = [user EXCEPT ![r] = NoUser]

\* The users' manners, not the code's: the code lets a hang-up overlap with
\* anything.  With Polite it overlaps with no request on the same call.
MayHangUp(c) == Polite => \A q \in Requests : call[q] # c
MayAct(c) ==
    Polite => ~ \E q \in Requests :
        call[q] = c /\ pc[q] \in {"cancel_notify", "delete", "finish"}

\* What becomes of a command sent to Redis or to the broker: "done", "lost"
\* (executed, but the caller sees an error) or "refused" (not executed).
Outcomes == IF Faults THEN {"done", "lost", "refused"} ELSE {"done"}
Executed(o) == o # "refused"
Answered(o) == o = "done"

\* Mutant of SetBusy: SET without EX.
SetBusyForever(a, c) ==
    /\ busy' = [busy EXCEPT ![a] = c]
    /\ busyTTL' = [busyTTL EXCEPT ![a] = 0]

\* The SET and DEL commands of calls.Store.
SetBusy(a, c) ==
    /\ busy' = [busy EXCEPT ![a] = c]
    /\ busyTTL' = [busyTTL EXCEPT ![a] = TTL]

DelBusy(a) ==
    /\ busy' = [busy EXCEPT ![a] = NoCall]
    /\ busyTTL' = [busyTTL EXCEPT ![a] = 0]

SetSession(c, state) ==
    /\ session' = [session EXCEPT ![c] = state]
    /\ sessionTTL' = [sessionTTL EXCEPT ![c] = TTL]

DelSession(c) ==
    /\ session' = [session EXCEPT ![c] = "none"]
    /\ sessionTTL' = [sessionTTL EXCEPT ![c] = 0]

\* Mutant of Delete: only the busy key is removed.
DeleteBusyOnly(c, o) ==
    IF Executed(o) THEN DelBusy(apartmentOf[c]) /\ UNCHANGED <<session, sessionTTL>>
                   ELSE UNCHANGED keys

\* Store.Delete: one DEL of both keys, whatever call the busy key names.
Delete(c, o) ==
    IF Executed(o) THEN DelSession(c) /\ DelBusy(apartmentOf[c])
                   ELSE UNCHANGED keys

\* record is best effort: the error is logged and the request goes on.
Record(event, c) ==
    \/ audit' = audit \cup {<<event, c>>}
    \/ Faults /\ UNCHANGED audit

-----------------------------------------------------------------------------
(* POST /calls/initiate.  The QR was verified and resolved to apartment a. *)

\* Store.Create, SET NX: only a free apartment is taken (otherwise 409).
InitiateBusy(r, c, a) ==
    /\ apartmentOf[c] = NoApartment
    /\ busy[a] = NoCall
    /\ SetBusy(a, c)
    /\ apartmentOf' = [apartmentOf EXCEPT ![c] = a]
    /\ \/ Begin(r, "create_set", c, NoUser)
       \/ Faults /\ pc[r] = "idle" /\ UNCHANGED requests
    /\ UNCHANGED <<session, sessionTTL, world>>

\* Store.Create, SET of the session.
CreateSet(r) ==
    /\ pc[r] = "create_set"
    /\ \E o \in Outcomes :
        /\ IF Executed(o) THEN SetSession(call[r], "ringing")
                          ELSE UNCHANGED <<session, sessionTTL>>
        /\ Goto(r, IF Answered(o) THEN "announce" ELSE "create_undo")
    /\ UNCHANGED <<busy, busyTTL, apartmentOf, world>>

\* Store.Create, the compensating DEL of the busy key; its error is ignored.
CreateUndo(r) ==
    /\ pc[r] = "create_undo"
    /\ \E o \in Outcomes :
        IF Executed(o) THEN DelBusy(apartmentOf[call[r]])
                       ELSE UNCHANGED <<busy, busyTTL>>
    /\ Return(r)
    /\ UNCHANGED <<session, sessionTTL, apartmentOf, world>>

\* VisitorToken fails: the session is deleted and the visitor gets a 500.
VisitorTokenFails(r) ==
    /\ pc[r] = "announce"
    /\ Faults
    /\ Goto(r, "initiate_undo")
    /\ UNCHANGED <<keys, apartmentOf, world>>

InitiateUndo(r) ==
    /\ pc[r] = "initiate_undo"
    /\ \E o \in Outcomes : Delete(call[r], o)
    /\ Return(r)
    /\ UNCHANGED <<apartmentOf, world>>

\* Room and token are ready: SSE call.incoming, and the id is out.
InitiateAnnounce(r) ==
    /\ pc[r] = "announce"
    /\ announced' = announced \cup {call[r]}
    /\ told' = [told EXCEPT ![call[r]] = "incoming"]
    /\ Goto(r, "initiate_record")
    /\ UNCHANGED <<keys, apartmentOf, audit, acceptedBy, opens, ended>>

\* Audit, response.
InitiateRecord(r) ==
    /\ pc[r] = "initiate_record"
    /\ Record("call_initiated", call[r])
    /\ Return(r)
    /\ UNCHANGED <<keys, apartmentOf, announced, told, acceptedBy, opens, ended>>

-----------------------------------------------------------------------------
(* POST /calls/{id}/accept. *)

\* Get, AllowApartment, ResidentToken; the session is now a local copy.
AcceptGet(r, c, u) ==
    /\ c \in announced /\ MayAct(c)
    /\ session[c] # "none"
    /\ u \in Members[apartmentOf[c]]
    /\ Begin(r, "accept_call", c, u)
    /\ UNCHANGED <<keys, apartmentOf, world>>

\* Update, SET of the session: the copy with State = "accepted" is written
\* whether or not the key still exists.
AcceptSetCall(r) ==
    /\ pc[r] = "accept_call"
    /\ \E o \in Outcomes :
        /\ IF Executed(o)
           THEN /\ SetSession(call[r], "accepted")
                /\ acceptedBy' = [acceptedBy EXCEPT ![call[r]] = @ \cup {user[r]}]
           ELSE UNCHANGED <<session, sessionTTL, acceptedBy>>
        /\ IF Answered(o) THEN Goto(r, "accept_busy") ELSE Return(r)
    /\ UNCHANGED <<busy, busyTTL, apartmentOf, announced, told, audit, opens, ended>>

\* Mutant of AcceptSetBusy: Update writes the session only.
AcceptSkipBusy(r) ==
    /\ pc[r] = "accept_busy"
    /\ Goto(r, "accept_notify")
    /\ UNCHANGED <<keys, apartmentOf, world>>

\* Update, SET of the busy key, whatever call it names by now.
AcceptSetBusy(r) ==
    /\ pc[r] = "accept_busy"
    /\ \E o \in Outcomes :
        /\ IF Executed(o) THEN SetBusy(apartmentOf[call[r]], call[r])
                          ELSE UNCHANGED <<busy, busyTTL>>
        /\ IF Answered(o) THEN Goto(r, "accept_notify") ELSE Return(r)
    /\ UNCHANGED <<session, sessionTTL, apartmentOf, world>>

\* SSE call.accepted.
AcceptNotify(r) ==
    /\ pc[r] = "accept_notify"
    /\ told' = [told EXCEPT ![call[r]] = "accepted"]
    /\ Goto(r, "accept_record")
    /\ UNCHANGED <<keys, apartmentOf, announced, audit, acceptedBy, opens, ended>>

\* Mutant of AcceptRecord: the answer is not audited.
AcceptUnaudited(r) ==
    /\ pc[r] = "accept_record"
    /\ Return(r)
    /\ UNCHANGED <<keys, apartmentOf, world>>

\* Audit, response with the resident's token.
AcceptRecord(r) ==
    /\ pc[r] = "accept_record"
    /\ Record("call_accepted", call[r])
    /\ Return(r)
    /\ UNCHANGED <<keys, apartmentOf, announced, told, acceptedBy, opens, ended>>

-----------------------------------------------------------------------------
(* POST /calls/{id}/cancel and /end: teardown.  Whoever has the id may ask. *)

TeardownGet(r, c, next) ==
    /\ c \in announced /\ MayHangUp(c)
    /\ session[c] # "none"
    /\ Begin(r, next, c, NoUser)
    /\ UNCHANGED <<keys, apartmentOf, world>>

Cancel(r, c) == TeardownGet(r, c, "cancel_notify")
End(r, c) == TeardownGet(r, c, "delete")

\* SSE call.cancelled, before the keys are deleted; cancel only.
CancelNotify(r) ==
    /\ pc[r] = "cancel_notify"
    /\ told' = [told EXCEPT ![call[r]] = "cancelled"]
    /\ Goto(r, "delete")
    /\ UNCHANGED <<keys, apartmentOf, announced, audit, acceptedBy, opens, ended>>

\* An error of Delete is logged and the teardown goes on.
TeardownDelete(r) ==
    /\ pc[r] = "delete"
    /\ \E o \in Outcomes : Delete(call[r], o)
    /\ Goto(r, "finish")
    /\ UNCHANGED <<apartmentOf, world>>

\* CloseRoom, audit call_cancelled or call_ended, 204.
TeardownFinish(r) ==
    /\ pc[r] = "finish"
    /\ ended' = ended \cup {call[r]}
    /\ Record("call_finished", call[r])
    /\ Return(r)
    /\ UNCHANGED <<keys, apartmentOf, announced, told, acceptedBy, opens>>

-----------------------------------------------------------------------------
(* POST /access/open. *)

\* Mutant of OpenLookup: no M1 gate.
OpenUngated(r, c, u) ==
    /\ c \in announced /\ MayAct(c)
    /\ u \in Members[apartmentOf[c]]
    /\ session[c] # "none"
    /\ Begin(r, "open_publish", c, u)
    /\ UNCHANGED <<keys, apartmentOf, world>>

\* Lookup, AllowApartment, and the M1 gate: only an accepted call opens.
OpenLookup(r, c, u) ==
    /\ c \in announced /\ MayAct(c)
    /\ u \in Members[apartmentOf[c]]
    /\ session[c] = "accepted"
    /\ Begin(r, "open_publish", c, u)
    /\ UNCHANGED <<keys, apartmentOf, world>>

\* The device is offline, or presence cannot be read: 503 or 500.
OpenRefused(r) ==
    /\ pc[r] = "open_publish"
    /\ Return(r)
    /\ UNCHANGED <<keys, apartmentOf, world>>

\* The device is online: open_relay is published.
OpenPublish(r) ==
    /\ pc[r] = "open_publish"
    /\ \E o \in Outcomes :
        /\ Executed(o)
        /\ opens' = opens \cup {<<call[r], user[r]>>}
        /\ IF Answered(o) THEN Goto(r, "open_record") ELSE Return(r)
    /\ UNCHANGED <<keys, apartmentOf, announced, told, audit, acceptedBy, ended>>

\* The command context is saved, the request audited and answered.
OpenRecord(r) ==
    /\ pc[r] = "open_record"
    /\ Record("door_open_requested", call[r])
    /\ Return(r)
    /\ UNCHANGED <<keys, apartmentOf, announced, told, acceptedBy, opens, ended>>

-----------------------------------------------------------------------------
(* The environment. *)

\* Mutant of Less: a TTL runs below zero.
LessUnbounded(n) == n - 1

Less(n) == IF n = 0 THEN 0 ELSE n - 1

\* Redis time: a key whose TTL runs out is gone.
Tick ==
    /\ SlowHandlers \/ \A r \in Requests : pc[r] = "idle"
    /\ \/ \E a \in Apartments : busyTTL[a] > 0
       \/ \E c \in Calls : sessionTTL[c] > 0
    /\ busyTTL' = [a \in Apartments |-> Less(busyTTL[a])]
    /\ busy' = [a \in Apartments |-> IF busyTTL[a] = 1 THEN NoCall ELSE busy[a]]
    /\ sessionTTL' = [c \in Calls |-> Less(sessionTTL[c])]
    /\ session' = [c \in Calls |-> IF sessionTTL[c] = 1 THEN "none" ELSE session[c]]
    /\ UNCHANGED <<apartmentOf, requests, world>>

\* The server process dies: every request is lost where it stands.
Crash ==
    /\ Faults
    /\ \E r \in Requests : pc[r] # "idle"
    /\ pc' = [r \in Requests |-> "idle"]
    /\ call' = [r \in Requests |-> NoCall]
    /\ user' = [r \in Requests |-> NoUser]
    /\ UNCHANGED <<keys, apartmentOf, world>>

\* A request refused by an early return: invalid QR, 409 for a busy apartment,
\* 404 for an unknown or expired call, 403 for a stranger, 409 before accept.
Refused(r) == pc[r] = "idle" /\ UNCHANGED vars

Arrival(r) ==
    \/ Refused(r)
    \/ \E c \in Calls :
        \/ \E a \in Apartments : InitiateBusy(r, c, a)
        \/ \E u \in Users : AcceptGet(r, c, u) \/ OpenLookup(r, c, u)
        \/ Cancel(r, c)
        \/ End(r, c)

Step(r) ==
    \/ CreateSet(r) \/ CreateUndo(r) \/ VisitorTokenFails(r) \/ InitiateUndo(r)
    \/ InitiateAnnounce(r) \/ InitiateRecord(r)
    \/ AcceptSetCall(r) \/ AcceptSetBusy(r) \/ AcceptNotify(r) \/ AcceptRecord(r)
    \/ CancelNotify(r) \/ TeardownDelete(r) \/ TeardownFinish(r)
    \/ OpenRefused(r) \/ OpenPublish(r) \/ OpenRecord(r)

Next ==
    \/ \E r \in Requests : Arrival(r) \/ Step(r)
    \/ Tick
    \/ Crash

Spec == Init /\ [][Next]_vars

\* A request that has begun runs on (or dies with the process), and Redis
\* expires keys by itself; nobody is obliged to send a request.
Fairness ==
    /\ \A r \in Requests : WF_vars(Step(r))
    /\ WF_vars(Tick)

FairSpec == Spec /\ Fairness

-----------------------------------------------------------------------------
(* Properties. *)

\* M1 (access/service.go, Open): a door is opened through a call only for a
\* member of the apartment that was called, and only after the session was
\* put in "accepted" by members of that same apartment.
DoorOnlyAfterAccept ==
    \A c \in Calls, u \in Users :
        <<c, u>> \in opens =>
            /\ apartmentOf[c] \in Apartments
            /\ u \in Members[apartmentOf[c]]
            /\ acceptedBy[c] # {}
            /\ acceptedBy[c] \subseteq Members[apartmentOf[c]]

\* The inductive strengthening of DoorOnlyAfterAccept.  A request at work has
\* a call with an apartment; one that accepts or opens acts for a member; one
\* that opens has seen a session some Accept had written.
AtWork ==
    \A r \in Requests : pc[r] # "idle" =>
        /\ call[r] \in Calls
        /\ apartmentOf[call[r]] \in Apartments
        /\ pc[r] \in {"accept_call", "accept_busy", "accept_notify", "accept_record",
                     "open_publish", "open_record"}
             => user[r] \in Members[apartmentOf[call[r]]]
        /\ pc[r] \in {"open_publish", "open_record"} => acceptedBy[call[r]] # {}

\* What is known of a call in Redis, on the air or in the history: it has an
\* apartment, and "accepted" was written by members of that apartment.
Honest ==
    \A c \in Calls :
        /\ session[c] # "none" \/ c \in announced \/ acceptedBy[c] # {}
             => apartmentOf[c] \in Apartments
        /\ acceptedBy[c] # {} => acceptedBy[c] \subseteq Members[apartmentOf[c]]
        /\ session[c] = "accepted" => acceptedBy[c] # {}

IInv == TypeOK /\ AtWork /\ Honest /\ DoorOnlyAfterAccept

\* The audit trail of a door: once no request is at work on a call, a door
\* opened through it has left call_accepted and door_open_requested behind.
\* (Without faults: Record is best effort.)
DoorIsAudited ==
    \A c \in Calls, u \in Users :
        /\ <<c, u>> \in opens
        /\ \A r \in Requests : call[r] # c
        => {<<"call_accepted", c>>, <<"door_open_requested", c>>} \subseteq audit

Live(c) == session[c] # "none"

\* An apartment is in at most one live call that somebody knows of: this is
\* what the 409 CALL_IN_PROGRESS of initiate is for.
OneLiveCallPerApartment ==
    \A c, d \in announced :
        Live(c) /\ Live(d) /\ apartmentOf[c] = apartmentOf[d] => c = d

\* Update's comment: the busy key is kept in step with the session.
BusyInSync ==
    \A c \in announced : Live(c) => busy[apartmentOf[c]] = c

\* api.md:316 says that the 409 of initiate answers for an apartment with an
\* active call: a call that still rings keeps its apartment busy.
RingingIsBusy ==
    \A c \in announced : session[c] = "ringing" => busy[apartmentOf[c]] # NoCall

\* A cancel or end that answered 204 has removed the keys: no later request
\* to open the door through that call gets past the checks.
NoOpenAfterTeardown ==
    [][\A r \in Requests :
        pc[r] = "idle" /\ pc'[r] = "open_publish" => call'[r] \notin ended]_vars

\* The line of an apartment, as the handlers leave it in Redis: the session
\* the busy key names, if it exists.
LineOf(a) ==
    IF busy[a] # NoCall /\ session[busy[a]] # "none"
    THEN <<busy[a], session[busy[a]]>>
    ELSE <<NoCall, "none">>

Line == INSTANCE CallLine WITH
            line <- [a \in Apartments |-> LineOf(a)],
            opened <- {c \in Calls : \E u \in Users : <<c, u>> \in opens}

\* As long as no command fails and nobody hangs up a call while somebody else
\* acts on it, the two keys behave as one line per apartment, however the
\* other requests overlap.
ImplementsLine == Line!Spec

AcceptIsWriting(a) ==
    \E r \in Requests :
        /\ pc[r] \in {"accept_call", "accept_busy"}
        /\ apartmentOf[call[r]] = a

\* Whatever failed or crashed half way, no apartment stays busy for ever:
\* the key keeps running out unless residents keep accepting the call.
BusyRunsOut ==
    \A a \in Apartments : []<>(busy[a] = NoCall \/ AcceptIsWriting(a))

\* api.md:358: a call whose session has run out is reported as cancelled, so
\* that no screen of the apartment goes on ringing.
ExpiryIsTold ==
    \A c \in Calls :
        (told[c] = "incoming" /\ session[c] = "none") ~> (told[c] # "incoming" \/ c \in ended)

=============================================================================

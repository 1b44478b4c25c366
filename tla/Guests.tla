------------------------------- MODULE Guests -------------------------------
(***************************************************************************)
(* Guest links (backend/internal/guests) and the openings that do not need *)
(* a call (internal/access: OpenPoint and OpenResolved), over the rights   *)
(* of Onboarding.                                                          *)
(*                                                                         *)
(* A guest has no account: whoever holds the link opens the points it      *)
(* names, within its window and only as long as its creator could open     *)
(* them himself.  Each read, write and publication of a handler is a step, *)
(* so that rights may be withdrawn in between.                             *)
(***************************************************************************)
EXTENDS Onboarding

CONSTANTS
    Links,     \* guest links
    Openings,  \* goroutines that open points; bounds their overlap
    DoorsOf,   \* the entrance points of each apartment's building
    NoPoint

\* The first two are true of the rows the seed migrations insert, the only code
\* that creates points; no foreign key of the schema states them.
ASSUME GuestsAssumption ==
    /\ DoorsOf \in [Apts -> SUBSET Entrances]
    /\ \A a \in Apts : \A p \in DoorsOf[a] : McOf[p] = McOf[a]
    /\ Links \cap Phones = {}
    /\ NoPoint \notin Points

VARIABLES
    delegated,  \* user_apartment_roles.can_create_guests
    guest,      \* guest_access and its points; asked and draft are not inserted yet
    opening,    \* the opening requests
    saw,        \* history: what held at some moment of each request
    opened      \* history: the opening the last step published, and what its request saw

guestVars == <<delegated, guest, opening, saw, opened>>
allVars == <<vars, guestVars>>

Guest == [by : Phones, apt : Apts, points : SUBSET Points,
          state : {"asked", "draft", "live", "revoked", "expired"}]

NoOpening == [pc |-> "idle", who |-> NoPoint, point |-> NoPoint]

Facts == {"live", "right"}

TypesOK ==
    /\ TypeOK
    /\ delegated \in SUBSET (Phones \X Apts)
    /\ guest \in [Links -> Guest \cup {Absent}]
    /\ opening \in [Openings -> {NoOpening} \cup
                      [pc : {"valid", "resolved"}, who : Links \cup Phones, point : Points]]
    /\ saw \in [Openings -> SUBSET Facts]
    /\ opened \in SUBSET ((Links \cup Phones) \X Points \X SUBSET Facts)
    /\ Cardinality(opened) <= 1

InitGuests ==
    /\ Init
    /\ delegated = {}
    /\ guest = [g \in Links |-> Absent]
    /\ opening = [o \in Openings |-> NoOpening]
    /\ saw = [o \in Openings |-> {}]
    /\ opened = {}

-----------------------------------------------------------------------------
\* Mutant of Allowed: the gates are not joined with the user's grants.
AllowedAnyGate(u, a) == (IF Member(u, a) THEN DoorsOf[a] ELSE {}) \cup Gates

\* allowedPointsCTE: what user u may hand on to a guest of apartment a.
Allowed(u, a) ==
    (IF Member(u, a) THEN DoorsOf[a] ELSE {}) \cup {p \in Gates : HasGrant(u, p)}

OwnsApartment(u, a) == role[<<u, a>>] = "owner"

CanCreateGuests(u, a) == OwnsApartment(u, a) \/ (Member(u, a) /\ <<u, a>> \in delegated)

\* The step publishes nothing, and leaves these variables alone.
Quiet(unchanged) == UNCHANGED unchanged /\ opened' = {}

\* The window asked for: not empty and at most MaxGuestDuration.
ValidateWindow(w) == w = "within"

\* CreateGuest begins: the right to create guests, and the window.
AskGuest(u, g, a, w) ==
    /\ guest[g] = Absent
    /\ CanCreateGuests(u, a) /\ ValidateWindow(w)
    /\ guest' = [guest EXCEPT ![g] = [by |-> u, apt |-> a, points |-> {}, state |-> "asked"]]
    /\ Quiet(<<delegated, opening>>)

Move(g, s) == guest' = [guest EXCEPT ![g].state = s]

InState(g, s) == guest[g] # Absent /\ guest[g].state = s

\* CreateGuest goes on to its points, all of which its creator may hand on, or
\* is refused.
AllowGuest(g) ==
    /\ InState(g, "asked")
    /\ \/ \E P \in (SUBSET Allowed(guest[g].by, guest[g].apt)) \ {{}} :
            guest' = [guest EXCEPT ![g].points = P, ![g].state = "draft"]
       \/ guest' = [guest EXCEPT ![g] = Absent]
    /\ Quiet(<<delegated, opening>>)

\* Repo.CreateGuest commits, or fails and leaves nothing.
InsertGuest(g) ==
    /\ InState(g, "draft")
    /\ Move(g, "live") \/ guest' = [guest EXCEPT ![g] = Absent]
    /\ Quiet(<<delegated, opening>>)

\* The creator of the guest, or an owner of its apartment.
MayRevoke(u, g) == guest[g].by = u \/ OwnsApartment(u, guest[g].apt)

Revoke(u, g) ==
    /\ InState(g, "live") \/ InState(g, "expired")
    /\ MayRevoke(u, g)
    /\ Move(g, "revoked")
    /\ Quiet(<<delegated, opening>>)

\* valid_to passes.
GuestExpires(g) ==
    /\ InState(g, "live")
    /\ Move(g, "expired")
    /\ Quiet(<<delegated, opening>>)

\* SetGuestPermission.
WithPermission(u, a, enabled) ==
    IF enabled THEN delegated \cup {<<u, a>>} ELSE delegated \ {<<u, a>>}

\* An owner lets a member of the apartment create guests, or stops him.
SetPermission(w, u, a, enabled) ==
    /\ OwnsApartment(w, a)
    /\ Member(u, a)
    /\ delegated' = WithPermission(u, a, enabled)
    /\ Quiet(<<guest, opening>>)

-----------------------------------------------------------------------------
\* Mutant of SetOpening: an empty public_id is let through.
SetOpeningBlank(o, pc, w, p) ==
    opening' = [opening EXCEPT ![o] = [pc |-> pc, who |-> w, point |-> NoPoint]]

SetOpening(o, pc, w, p) == opening' = [opening EXCEPT ![o] = [pc |-> pc, who |-> w, point |-> p]]

\* Mutant of StartAsGuest: the window is not validated.
StartUnvalidated(o, g, p) ==
    /\ opening[o].pc = "idle"
    /\ guest[g] # Absent /\ guest[g].state \notin {"asked", "draft"}
    /\ SetOpening(o, "valid", g, p)
    /\ Quiet(<<delegated, guest>>)

\* GetGuestByTokenHash: the link is in the table.
Stored(g) == guest[g] # Absent /\ guest[g].state \notin {"asked", "draft"}

\* OpenAsGuest up to Guest.Validate: not revoked, and within its window.
StartAsGuest(o, g, p) ==
    /\ opening[o].pc = "idle"
    /\ Stored(g) /\ InState(g, "live")
    /\ SetOpening(o, "valid", g, p)
    /\ Quiet(<<delegated, guest>>)

\* Mutant of Openable: the points of the guest, whatever became of the right.
OpenableSnapshot(g, p) == p \in guest[g].points

\* The predicate of ResolveGuestOpenPoint.
Openable(g, p) == p \in guest[g].points /\ p \in Allowed(guest[g].by, guest[g].apt)

\* ResolveGuestOpenPoint: the creator's right is asked for again.
ResolveGuest(o) ==
    LET w == opening[o].who p == opening[o].point IN
    /\ opening[o].pc = "valid"
    /\ IF Openable(w, p) THEN SetOpening(o, "resolved", w, p)
       ELSE opening' = [opening EXCEPT ![o] = NoOpening]
    /\ Quiet(<<delegated, guest>>)

\* OpenPoint: ResolveGrantedPoint.
StartAsUser(o, u, p) ==
    /\ opening[o].pc = "idle"
    /\ HasGrant(u, p)
    /\ SetOpening(o, "resolved", u, p)
    /\ Quiet(<<delegated, guest>>)

\* OpenResolved: published, unless the device is offline or a call fails.
Publish(o) ==
    LET q == opening[o] IN
    /\ q.pc = "resolved"
    /\ opening' = [opening EXCEPT ![o] = NoOpening]
    /\ opened' = {<<q.who, q.point, saw[o]>>} \/ opened' = {}
    /\ UNCHANGED <<delegated, guest>>

-----------------------------------------------------------------------------
\* What holds for a request in the present state.
Held(o) ==
    LET w == opening[o].who p == opening[o].point IN
    CASE opening[o].pc = "idle" -> {}
      [] opening[o].pc # "idle" /\ w \in Links ->
           (IF InState(w, "live") THEN {"live"} ELSE {})
           \cup (IF guest[w] # Absent /\ p \in guest[w].points \cap Allowed(guest[w].by, guest[w].apt)
                 THEN {"right"} ELSE {})
      [] OTHER -> {"live"} \cup (IF HasGrant(w, p) THEN {"right"} ELSE {})

Observe == saw' = [o \in Openings |-> IF opening'[o].pc = "idle" THEN {} ELSE saw[o] \cup Held(o)']

OpeningStep(o) == (ResolveGuest(o) \/ Publish(o)) /\ UNCHANGED vars /\ Observe

\* The handlers, with what a request may name.
CreateGuest(u) ==
    \E g \in Links, a \in Apts, w \in {"within", "beyond"} : AskGuest(u, g, a, w)

RevokeGuest(u) == \E g \in Links : Revoke(u, g)

PutPermission(w) == \E u \in Phones, a \in Apts, on \in BOOLEAN : SetPermission(w, u, a, on)

PostOpen(u) == \E o \in Openings, p \in Points : StartAsUser(o, u, p)

OpenLink(g) == \E o \in Openings, p \in Points : StartAsGuest(o, g, p)

\* The router: behind RequireResident, and open to the bearer of a link.
GuestRoutes == \E u \in Phones : CreateGuest(u) \/ RevokeGuest(u) \/ PutPermission(u) \/ PostOpen(u)
LinkRoutes == \E g \in Links : OpenLink(g)

GuestsNext ==
    \/ /\ GuestRoutes \/ LinkRoutes \/ \E g \in Links : AllowGuest(g) \/ InsertGuest(g) \/ GuestExpires(g)
       /\ UNCHANGED vars /\ Observe
    \/ \E o \in Openings : OpeningStep(o)
    \/ Next /\ Quiet(<<delegated, guest, opening>>) /\ Observe

\* A handler that has begun goes on: no request waits for another here.
GuestsSpec ==
    /\ InitGuests /\ [][GuestsNext]_allVars
    /\ \A o \in Openings : WF_allVars(OpeningStep(o))

-----------------------------------------------------------------------------
\* A point opened for a guest or a user was, at some moment of the request,
\* within the right of who answers for it, and the link within its window.
OpenedWithinRights == \A e \in opened : e[3] = Facts

\* Nobody opens a point of a company that he, or the guest's creator, has
\* not agreed to be a member of.
OpenedWithinCompany ==
    \A e \in opened : Consented(IF e[1] \in Links THEN guest[e[1]].by ELSE e[1], McOf[e[2]])

InFlight(g) == \E o \in Openings : opening[o].who = g

\* A command is published only for somebody who still holds the right to the
\* point at that moment: whoever loses it can open nothing from then on.
GoneAtOnce ==
    [][\A o \in Openings : Publish(o) /\ opened' # {} => "right" \in Held(o)]_allVars

\* Once a link is revoked, or has run out, its openings come to an end for
\* good: those begun before finish, and no other begins.
RevokedStops ==
    \A g \in Links : (InState(g, "revoked") \/ InState(g, "expired")) ~> [](~InFlight(g))

=============================================================================

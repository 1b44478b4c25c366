---------------------------- MODULE GuestsProofs ----------------------------
(***************************************************************************)
(* Guest links and openings by right, over the invariant of Onboarding, for *)
(* any estate and any number of links, users and requests.                 *)
(***************************************************************************)
EXTENDS Guests, OnboardingProofs, FiniteSetTheorems

\* Who answers for an opening: the creator of the link, or the user himself.
Answers(w) == IF w \in Links THEN guest[w].by ELSE w

\* A link that somebody follows is in the table.
Follows(w) == w \in Links => Stored(w)

\* The inductive strengthening: a request has seen the link live once it is
\* valid, and everything it needs once it is resolved; who answers for it has
\* agreed to the company of the point.
Seen == \A o \in Openings :
    /\ opening[o].pc # "idle" => Follows(opening[o].who)
    /\ opening[o].pc = "valid" => opening[o].who \in Links /\ "live" \in saw[o]
    /\ opening[o].pc = "resolved" =>
          saw[o] = Facts /\ Consented(Answers(opening[o].who), McOf[opening[o].point])

Published == \A e \in opened :
    Follows(e[1]) /\ e[3] = Facts /\ Consented(Answers(e[1]), McOf[e[2]])

GInv == IInv /\ TypesOK /\ Seen /\ Published

\* Links in the table stay there, with their creators.
LinksStay == \A g \in Links : Stored(g) => Stored(g)' /\ guest'[g].by = guest[g].by

USE GuestsAssumption

-----------------------------------------------------------------------------
LEMMA InitGInv == InitGuests => GInv
<1> SUFFICES ASSUME InitGuests PROVE GInv
  OBVIOUS
<1>1. IInv
  BY InitIInv DEF InitGuests
<1>2. TypesOK
  <2>1. opened = {} /\ Cardinality({}) = 0
    BY FS_EmptySet DEF InitGuests
  <2> QED BY <1>1, <2>1 DEF InitGuests, TypesOK, IInv
<1>3. Seen /\ Published
  BY DEF InitGuests, Seen, Published, NoOpening
<1> QED BY <1>1, <1>2, <1>3 DEF GInv

\* The facts a request may have seen.
LEMMA HeldAreFacts == \A o : Held(o) \subseteq Facts
  BY DEF Held, Facts

\* The types of the guests, whatever a step of the openings does.
LEMMA OpenedOnce ==
    ASSUME NEW e, opened' = {} \/ opened' = {e}
    PROVE  Cardinality(opened') <= 1
<1>1. Cardinality({}) <= 1
  BY FS_EmptySet
<1>2. Cardinality({e}) <= 1
  <2>1. Cardinality({e}) = 1
    BY FS_Singleton, Zenon
  <2> QED BY <2>1
<1> QED BY <1>1, <1>2, Zenon

LEMMA ObserveTyped ==
    ASSUME TypesOK, Observe
    PROVE  saw' \in [Openings -> SUBSET Facts]
<1>1. \A o \in Openings : Held(o)' \subseteq Facts
  BY DEF Held, Facts
<1> QED BY <1>1 DEF TypesOK, Observe

\* A step that publishes nothing and starts or resolves nothing.
LEMMA AsideStep ==
    ASSUME GInv, IInv', InvitesStay, LinksStay, Observe, opening' = opening, opened' = {},
           guest' \in [Links -> Guest \cup {Absent}], delegated' \in SUBSET (Phones \X Apts)
    PROVE  GInv'
<1> USE DEF GInv
<1>1. TypesOK'
  <2>1. Cardinality(opened') <= 1
    BY OpenedOnce
  <2> QED BY <2>1, ObserveTyped DEF TypesOK, IInv
<1>2. Seen'
  <2> SUFFICES ASSUME NEW o \in Openings, opening[o].pc # "idle"
               PROVE  /\ Follows(opening[o].who)'
                      /\ opening[o].pc = "valid" => opening[o].who \in Links /\ "live" \in saw'[o]
                      /\ opening[o].pc = "resolved" =>
                           saw'[o] = Facts /\ Consented(Answers(opening[o].who), McOf[opening[o].point])'
    BY DEF Seen
  <2>1. saw'[o] = saw[o] \cup Held(o)' /\ saw'[o] \subseteq Facts
    BY ObserveTyped DEF Observe
  <2>2. Follows(opening[o].who)
    BY DEF Seen
  <2>3. Follows(opening[o].who)'
    BY <2>2 DEF Follows, LinksStay
  <2>4. Answers(opening[o].who)' = Answers(opening[o].who)
    BY <2>2 DEF Answers, LinksStay, Follows
  <2>5. \A u, m : Consented(u, m) => Consented(u, m)'
    BY ConsentStays
  <2>6. opening[o].pc = "resolved" => Consented(Answers(opening[o].who), McOf[opening[o].point])'
    BY <2>4, <2>5 DEF Seen
  <2> QED BY <2>1, <2>3, <2>6 DEF Seen
<1>3. Published'
  BY DEF Published
<1> QED BY <1>1, <1>2, <1>3

LEMMA RightsAside == IInv /\ UNCHANGED vars => IInv' /\ InvitesStay
  BY NextStep DEF Kept

Requests == {NoOpening} \cup [pc : {"valid", "resolved"}, who : Links \cup Phones, point : Points]

\* A request goes on to n, over the rights and links as they are.
LEMMA RequestStep ==
    ASSUME GInv, UNCHANGED vars, UNCHANGED <<delegated, guest>>, Observe,
           NEW o \in Openings, NEW n \in Requests, opening' = [opening EXCEPT ![o] = n],
           n.pc # "idle" => Follows(n.who),
           n.pc = "valid" => n.who \in Links /\ "live" \in saw'[o],
           n.pc = "resolved" => saw'[o] = Facts /\ Consented(Answers(n.who), McOf[n.point]),
           opened' \in SUBSET ((Links \cup Phones) \X Points \X SUBSET Facts),
           Cardinality(opened') <= 1,
           \A e \in opened' :
              Follows(e[1]) /\ e[3] = Facts /\ Consented(Answers(e[1]), McOf[e[2]])
    PROVE  GInv'
<1> USE DEF GInv
<1>1. IInv'
  BY RightsAside
<1>2. TypesOK'
  BY <1>1, ObserveTyped DEF TypesOK, IInv, Requests
<1>3. \A w : /\ Follows(w) => Follows(w)'
             /\ Answers(w)' = Answers(w)
  BY DEF Follows, Answers, Stored
<1>4. \A u, m : Consented(u, m) => Consented(u, m)'
  BY RightsAside, ConsentStays
<1>5. \A q \in Openings : opening'[q] = IF q = o THEN n ELSE opening[q]
  BY DEF TypesOK
<1>6. \A q \in Openings : q # o /\ opening[q].pc # "idle" =>
        saw[q] \subseteq saw'[q] /\ saw'[q] \subseteq Facts
  BY <1>5, ObserveTyped DEF Observe
<1>7. Seen'
  <2> SUFFICES ASSUME NEW q \in Openings
               PROVE  /\ opening'[q].pc # "idle" => Follows(opening[q].who)'
                      /\ opening'[q].pc = "valid" => opening'[q].who \in Links /\ "live" \in saw'[q]
                      /\ opening'[q].pc = "resolved" =>
                            /\ saw'[q] = Facts
                            /\ Consented(Answers(opening[q].who), McOf[opening[q].point])'
    BY DEF Seen
  <2>1. CASE q = o
    BY <1>3, <1>4, <1>5, <2>1
  <2>2. CASE q # o
    <3>1. opening'[q] = opening[q]
      BY <1>5, <2>2
    <3>2. opening[q].pc # "idle" => Follows(opening[q].who)
      BY DEF Seen
    <3>3. opening'[q].pc # "idle" => Follows(opening[q].who)'
      BY <1>3, <3>1, <3>2
    <3>4. opening[q].pc = "valid" => opening[q].who \in Links /\ "live" \in saw'[q]
      BY <1>6, <2>2 DEF Seen
    <3>5. opening[q].pc = "resolved" =>
            saw'[q] = Facts /\ Consented(Answers(opening[q].who), McOf[opening[q].point])
      <4>1. ASSUME opening[q].pc = "resolved"
            PROVE  saw[q] = Facts /\ Consented(Answers(opening[q].who), McOf[opening[q].point])
        BY <4>1 DEF Seen
      <4>2. ASSUME opening[q].pc = "resolved" PROVE saw'[q] = Facts
        <5>1. saw[q] \subseteq saw'[q] /\ saw'[q] \subseteq Facts
          BY <1>6, <2>2, <4>2
        <5>2. saw[q] = Facts
          BY <4>1, <4>2
        <5> QED BY <5>1, <5>2
      <4> QED BY <4>1, <4>2
    <3>6. opening[q].pc = "resolved" =>
            Consented(Answers(opening[q].who), McOf[opening[q].point])'
      BY <1>3, <1>4, <3>1, <3>5
    <3> QED BY <3>1, <3>3, <3>4, <3>5, <3>6
  <2> QED BY <2>1, <2>2
<1>8. Published'
  BY <1>3, <1>4 DEF Published
<1> QED BY <1>1, <1>2, <1>7, <1>8

\* The requests that may go on: nothing, or one that has seen enough.
LEMMA NothingPublished ==
    opened' = {} =>
        /\ opened' \in SUBSET ((Links \cup Phones) \X Points \X SUBSET Facts)
        /\ Cardinality(opened') <= 1
        /\ \A e \in opened' :
              Follows(e[1]) /\ e[3] = Facts /\ Consented(Answers(e[1]), McOf[e[2]])
  BY OpenedOnce

LEMMA StartAsGuestStep ==
    ASSUME GInv, NEW o \in Openings, NEW g \in Links, NEW p \in Points,
           StartAsGuest(o, g, p), UNCHANGED vars, Observe
    PROVE  GInv'
<1> DEFINE n == [pc |-> "valid", who |-> g, point |-> p]
<1>1. /\ Stored(g) /\ InState(g, "live") /\ opening' = [opening EXCEPT ![o] = n]
      /\ UNCHANGED <<delegated, guest>> /\ opened' = {}
  BY DEF StartAsGuest, SetOpening, Quiet
<1>2. opening'[o] = n
  BY <1>1 DEF GInv, TypesOK
<1>3. "live" \in saw'[o]
  <2>1. "live" \in Held(o)'
    BY <1>1, <1>2 DEF Held, InState
  <2> QED BY <1>2, <2>1 DEF Observe
<1>4. n \in Requests /\ Follows(n.who) /\ n.who \in Links
  BY <1>1 DEF Requests, Follows
<1> QED BY <1>1, <1>3, <1>4, RequestStep, NothingPublished

LEMMA StartAsUserStep ==
    ASSUME GInv, NEW o \in Openings, NEW u \in Phones, NEW p \in Points,
           StartAsUser(o, u, p), UNCHANGED vars, Observe
    PROVE  GInv'
<1> DEFINE n == [pc |-> "resolved", who |-> u, point |-> p]
<1>1. /\ opening[o].pc = "idle" /\ HasGrant(u, p) /\ opening' = [opening EXCEPT ![o] = n]
      /\ UNCHANGED <<delegated, guest>> /\ opened' = {}
  BY DEF StartAsUser, SetOpening, Quiet
<1>2. opening'[o] = n /\ u \notin Links
  BY <1>1 DEF GInv, TypesOK
<1>3. saw'[o] = Facts
  <2>1. HasGrant(u, p)'
    BY <1>1 DEF HasGrant, vars
  <2>2. Held(o)' = Facts
    BY <1>2, <2>1 DEF Held, Facts
  <2> QED BY <1>2, <2>2, ObserveTyped DEF Observe, GInv
<1>4. Consented(Answers(u), McOf[p])
  BY <1>1, <1>2, SoundIsConsented DEF ConsentFirst, Answers, GInv
<1>5. n \in Requests /\ Follows(u)
  BY <1>2 DEF Requests, Follows
<1> QED BY <1>1, <1>3, <1>4, <1>5, RequestStep, NothingPublished

\* What may be handed on is in a company that its creator agreed to.
LEMMA AllowedIsConsented ==
    ASSUME IInv, NEW u \in Phones, NEW a \in Apts, NEW p \in Allowed(u, a)
    PROVE  p \in Points /\ Consented(u, McOf[p])
<1>1. CASE p \in Gates /\ HasGrant(u, p)
  BY <1>1, SoundIsConsented DEF ConsentFirst, Points
<1>2. CASE Member(u, a) /\ p \in DoorsOf[a]
  <2>1. Consented(u, McOf[a]) /\ McOf[p] = McOf[a] /\ p \in Entrances
    BY <1>2, SoundIsConsented DEF ConsentFirst
  <2> QED BY <2>1 DEF Points
<1> QED BY <1>1, <1>2 DEF Allowed

LEMMA StoredTyped ==
    ASSUME TypesOK, NEW g \in Links, Stored(g)
    PROVE  guest[g] \in Guest /\ guest[g].by \in Phones /\ guest[g].apt \in Apts
<1>1. guest[g] \in Guest
  BY DEF TypesOK, Stored
<1> QED BY <1>1 DEF Guest

LEMMA ResolveGuestStep ==
    ASSUME GInv, NEW o \in Openings, ResolveGuest(o), UNCHANGED vars, Observe
    PROVE  GInv'
<1> USE DEF GInv
<1> DEFINE w == opening[o].who
           p == opening[o].point
           n == IF Openable(w, p) THEN [pc |-> "resolved", who |-> w, point |-> p] ELSE NoOpening
<1>1. /\ opening[o].pc = "valid" /\ opening' = [opening EXCEPT ![o] = n]
      /\ UNCHANGED <<delegated, guest>> /\ opened' = {}
  BY DEF ResolveGuest, SetOpening, Quiet
<1>2. w \in Links /\ Stored(w) /\ "live" \in saw[o]
  BY <1>1 DEF Seen, Follows
<1>3. p \in Points
  BY <1>1 DEF TypesOK, NoOpening
<1>4. n \in Requests
  BY <1>2, <1>3 DEF Requests
<1>5. opening'[o] = n
  BY <1>1 DEF TypesOK
<1>6. CASE Openable(w, p)
  <2>1. n.pc = "resolved" /\ n.who = w /\ n.point = p
    BY <1>6
  <2>2. p \in guest[w].points /\ p \in Allowed(guest[w].by, guest[w].apt)
    BY <1>6 DEF Openable
  <2>3. Consented(Answers(w), McOf[p])
    BY <1>2, <2>2, StoredTyped, AllowedIsConsented DEF Answers
  <2>4. "right" \in Held(o)'
    <3>1. UNCHANGED <<role, grants, guest>> /\ opening'[o].pc = "resolved"
          /\ opening'[o].who = w /\ opening'[o].point = p
      BY <1>1, <1>5, <2>1 DEF vars
    <3>2. p \in Allowed(guest[w].by, guest[w].apt)'
      BY <2>2, <3>1 DEF Allowed, Member, HasGrant
    <3> QED BY <1>2, <2>2, <3>1, <3>2 DEF Held, Stored
  <2>5. saw'[o] = Facts
    BY <1>2, <1>5, <2>1, <2>4, ObserveTyped DEF Observe, Facts
  <2>6. Follows(w)
    BY <1>2 DEF Follows
  <2> QED BY <1>1, <1>4, <2>1, <2>3, <2>5, <2>6, RequestStep, NothingPublished
<1>7. CASE ~Openable(w, p)
  <2>1. n.pc = "idle"
    BY <1>7 DEF NoOpening
  <2> HIDE DEF n
  <2> QED BY <1>1, <1>4, <2>1, RequestStep, NothingPublished
<1> QED BY <1>6, <1>7

LEMMA PublishStep ==
    ASSUME GInv, NEW o \in Openings, Publish(o), UNCHANGED vars, Observe
    PROVE  GInv'
<1> USE DEF GInv
<1> DEFINE e == <<opening[o].who, opening[o].point, saw[o]>>
<1>1. /\ opening[o].pc = "resolved" /\ opening' = [opening EXCEPT ![o] = NoOpening]
      /\ UNCHANGED <<delegated, guest>> /\ (opened' = {e} \/ opened' = {})
  BY DEF Publish
<1>2. NoOpening \in Requests /\ NoOpening.pc = "idle"
  BY DEF Requests, NoOpening
<1>3. CASE opened' = {}
  BY <1>1, <1>2, <1>3, RequestStep, NothingPublished
<1>4. CASE opened' = {e}
  <2>1. opening[o].who \in Links \cup Phones /\ opening[o].point \in Points /\ saw[o] \in SUBSET Facts
    BY <1>1 DEF TypesOK, NoOpening
  <2>2. /\ Follows(opening[o].who) /\ saw[o] = Facts
        /\ Consented(Answers(opening[o].who), McOf[opening[o].point])
    BY <1>1 DEF Seen
  <2>3. opened' \in SUBSET ((Links \cup Phones) \X Points \X SUBSET Facts)
    BY <1>4, <2>1
  <2>4. Cardinality(opened') <= 1
    BY <1>4, OpenedOnce
  <2>5. \A d \in opened' :
          Follows(d[1]) /\ d[3] = Facts /\ Consented(Answers(d[1]), McOf[d[2]])
    BY <1>4, <2>2
  <2> QED BY <1>1, <1>2, <2>3, <2>4, <2>5, RequestStep
<1> QED BY <1>1, <1>3, <1>4

-----------------------------------------------------------------------------
\* The steps that change links and permissions.
LEMMA LinkStep ==
    ASSUME GInv, UNCHANGED vars, Observe, Quiet(<<delegated, opening>>), NEW g \in Links,
           NEW n \in Guest \cup {Absent}, guest' = [guest EXCEPT ![g] = n],
           Stored(g) => n # Absent /\ n.state \notin {"asked", "draft"} /\ n.by = guest[g].by
    PROVE  GInv'
<1> USE DEF GInv
<1>1. IInv' /\ InvitesStay
  BY RightsAside
<1>2. \A k \in Links : guest'[k] = IF k = g THEN n ELSE guest[k]
  BY DEF TypesOK
<1>3. LinksStay
  BY <1>2 DEF LinksStay, Stored
<1>4. guest' \in [Links -> Guest \cup {Absent}]
  BY DEF TypesOK
<1> QED BY <1>1, <1>3, <1>4, AsideStep DEF Quiet, TypesOK

LEMMA MoveStep ==
    ASSUME GInv, UNCHANGED vars, Observe, Quiet(<<delegated, opening>>), NEW g \in Links,
           guest[g] # Absent, NEW s \in {"live", "revoked", "expired"}, Move(g, s)
    PROVE  GInv'
<1> DEFINE n == [guest[g] EXCEPT !.state = s]
<1>1. guest[g] \in Guest
  BY DEF GInv, TypesOK
<1>2. n \in Guest /\ n.state = s /\ n.by = guest[g].by
  BY <1>1 DEF Guest
<1>3. n # Absent
  BY <1>2 DEF Guest, Absent
<1>4. guest' = [guest EXCEPT ![g] = n]
  BY DEF Move
<1> HIDE DEF n
<1> QED BY <1>2, <1>3, <1>4, LinkStep

LEMMA GuestRoutesStep ==
    ASSUME GInv, GuestRoutes \/ LinkRoutes \/ (\E g \in Links : AllowGuest(g) \/ InsertGuest(g) \/ GuestExpires(g)),
           UNCHANGED vars, Observe
    PROVE  GInv'
<1>1. ASSUME NEW u \in Phones, CreateGuest(u) PROVE GInv'
  <2>1. PICK g \in Links, a \in Apts, w \in {"within", "beyond"} : AskGuest(u, g, a, w)
    BY <1>1 DEF CreateGuest
  <2> DEFINE n == [by |-> u, apt |-> a, points |-> {}, state |-> "asked"]
  <2>2. n \in Guest
    BY DEF Guest
  <2>3. guest' = [guest EXCEPT ![g] = n] /\ ~Stored(g) /\ Quiet(<<delegated, opening>>)
    BY <2>1 DEF AskGuest, Stored
  <2> HIDE DEF n
  <2> QED BY <2>2, <2>3, LinkStep
<1>2. ASSUME NEW u \in Phones, RevokeGuest(u) PROVE GInv'
  <2>1. PICK g \in Links : Revoke(u, g)
    BY <1>2 DEF RevokeGuest
  <2> QED BY <2>1, MoveStep DEF Revoke, InState
<1>3. ASSUME NEW w \in Phones, PutPermission(w) PROVE GInv'
  <2>1. PICK u \in Phones, a \in Apts, on \in BOOLEAN : SetPermission(w, u, a, on)
    BY <1>3 DEF PutPermission
  <2>2. delegated' \in SUBSET (Phones \X Apts) /\ UNCHANGED <<guest, opening>> /\ opened' = {}
    BY <2>1 DEF SetPermission, WithPermission, Quiet, GInv, TypesOK
  <2>3. LinksStay /\ guest' \in [Links -> Guest \cup {Absent}]
    BY <2>2 DEF LinksStay, Stored, GInv, TypesOK
  <2> QED BY <2>2, <2>3, RightsAside, AsideStep DEF GInv
<1>4. ASSUME NEW u \in Phones, PostOpen(u) PROVE GInv'
  BY <1>4, StartAsUserStep DEF PostOpen
<1>5. ASSUME NEW g \in Links, OpenLink(g) PROVE GInv'
  BY <1>5, StartAsGuestStep DEF OpenLink
<1>6. ASSUME NEW g \in Links, InsertGuest(g) PROVE GInv'
  <2>1. guest[g] # Absent /\ ~Stored(g) /\ Quiet(<<delegated, opening>>)
    BY <1>6 DEF InsertGuest, InState, Stored
  <2>2. CASE Move(g, "live")
    BY <2>1, <2>2, MoveStep
  <2>3. CASE guest' = [guest EXCEPT ![g] = Absent]
    BY <2>1, <2>3, LinkStep
  <2> QED BY <1>6, <2>2, <2>3 DEF InsertGuest
<1>7. ASSUME NEW g \in Links, GuestExpires(g) PROVE GInv'
  BY <1>7, MoveStep DEF GuestExpires, InState
<1>8. ASSUME NEW g \in Links, AllowGuest(g) PROVE GInv'
  <2>1. guest[g] # Absent /\ ~Stored(g) /\ Quiet(<<delegated, opening>>)
    BY <1>8 DEF AllowGuest, InState, Stored
  <2>2. guest[g] \in Guest
    BY <2>1 DEF GInv, TypesOK
  <2>3. ASSUME NEW P \in (SUBSET Allowed(guest[g].by, guest[g].apt)) \ {{}},
               guest' = [guest EXCEPT ![g].points = P, ![g].state = "draft"]
        PROVE  GInv'
    <3> DEFINE n == [guest[g] EXCEPT !.points = P, !.state = "draft"]
    <3>1. guest[g].by \in Phones /\ guest[g].apt \in Apts
      BY <2>2 DEF Guest
    <3>2. P \in SUBSET Points
      BY <3>1, AllowedIsConsented DEF GInv
    <3>3. n \in Guest
      BY <2>2, <3>2 DEF Guest
    <3>4. guest' = [guest EXCEPT ![g] = n]
      BY <2>3
    <3> HIDE DEF n
    <3> QED BY <2>1, <3>3, <3>4, LinkStep
  <2>4. CASE guest' = [guest EXCEPT ![g] = Absent]
    BY <2>1, <2>4, LinkStep
  <2> QED BY <1>8, <2>3, <2>4 DEF AllowGuest
<1> QED BY <1>1, <1>2, <1>3, <1>4, <1>5, <1>6, <1>7, <1>8 DEF GuestRoutes, LinkRoutes

LEMMA NextGInv == GInv /\ [GuestsNext]_allVars => GInv'
<1> SUFFICES ASSUME GInv, [GuestsNext]_allVars PROVE GInv'
  OBVIOUS
<1>1. CASE /\ GuestRoutes \/ LinkRoutes \/ \E g \in Links : AllowGuest(g) \/ InsertGuest(g) \/ GuestExpires(g)
           /\ UNCHANGED vars /\ Observe
  BY <1>1, GuestRoutesStep
<1>2. ASSUME NEW o \in Openings, OpeningStep(o) PROVE GInv'
  BY <1>2, ResolveGuestStep, PublishStep DEF OpeningStep
<1>3. CASE Next /\ Quiet(<<delegated, guest, opening>>) /\ Observe
  <2>1. IInv' /\ InvitesStay
    BY <1>3, NextStep DEF GInv, Kept
  <2>2. UNCHANGED <<delegated, guest, opening>> /\ opened' = {}
    BY <1>3 DEF Quiet
  <2>3. LinksStay
    BY <2>2 DEF LinksStay, Stored
  <2> QED BY <1>3, <2>1, <2>2, <2>3, AsideStep DEF GInv, TypesOK
<1>4. CASE UNCHANGED allVars
  <2>1. UNCHANGED vars /\ UNCHANGED <<delegated, guest, opening, saw, opened>>
    BY <1>4 DEF allVars, guestVars
  <2>2. IInv' /\ InvitesStay
    BY <2>1, RightsAside DEF GInv
  <2>3. \A u, m : Consented(u, m) => Consented(u, m)'
    BY <2>2, ConsentStays
  <2>4. TypesOK'
    BY <2>1, <2>2 DEF GInv, TypesOK, IInv
  <2>5. Seen' /\ Published'
    BY <2>1, <2>3 DEF GInv, Seen, Published, Follows, Stored, Answers
  <2> QED BY <2>2, <2>4, <2>5 DEF GInv
<1> QED BY <1>1, <1>2, <1>3, <1>4 DEF GuestsNext

LEMMA GuestsInductive == GuestsSpec => []GInv
  BY InitGInv, NextGInv, PTL DEF GuestsSpec

-----------------------------------------------------------------------------
\* Every variable keeps its type, for any number of links and openings.
THEOREM GuestTypes == GuestsSpec => []TypesOK
<1>1. GInv => TypesOK
  BY DEF GInv
<1> QED BY GuestsInductive, <1>1, PTL

\* A point opened for a guest or a user was, at some moment of the request,
\* within the right of who answers for it, and the link within its window,
\* however revocations overtake the request.
THEOREM OpensWithinRights == GuestsSpec => []OpenedWithinRights
<1>1. GInv => OpenedWithinRights
  BY DEF GInv, Published, OpenedWithinRights
<1> QED BY GuestsInductive, <1>1, PTL

\* Through any chain of invites, grants and guests, a point opens only for
\* somebody answered for by a member of its company.
THEOREM OpensWithinCompany == GuestsSpec => []OpenedWithinCompany
<1>1. GInv => OpenedWithinCompany
  BY DEF GInv, Published, OpenedWithinCompany, Answers
<1> QED BY GuestsInductive, <1>1, PTL

\* Consent comes first also while guests are created and doors open.
THEOREM ConsentAmongGuests == GuestsSpec => []ConsentFirst
<1>1. GInv => ConsentFirst
  BY SoundIsConsented DEF GInv
<1> QED BY GuestsInductive, <1>1, PTL

=============================================================================

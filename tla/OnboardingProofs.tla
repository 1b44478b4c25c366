-------------------------- MODULE OnboardingProofs -------------------------
(***************************************************************************)
(* Invites, roles and grants, for any estate and any number of invites and *)
(* transactions that accept them, which never wait in a circle.            *)
(***************************************************************************)
EXTENDS Onboarding, FiniteSetTheorems, WellFoundedInduction, TLAPS

Seeded(u) == \E a \in Apts : <<u, a>> \in Seed

\* The inductive strengthening.  An invite is about objects of its company;
\* a transaction works on the parts of an invite that was there when it began.
InvitesSound == \A i \in Invites : invite[i] # Absent =>
    /\ invite[i].target # "access_grant" => invite[i].apt \in Apts /\ McOf[invite[i].apt] = invite[i].mc
    /\ \A p \in invite[i].points : p \in Gates /\ McOf[p] = invite[i].mc

Fits(t) == t.pc # "idle" =>
    /\ t.inv \in Invites /\ invite[t.inv] # Absent
    /\ t.pc = "bind" \/ t.bound => invite[t.inv].target # "access_grant"
    /\ t.todo \subseteq invite[t.inv].points /\ t.new \subseteq invite[t.inv].points

TxSound == \A r \in Accepts : Fits(tx[r])

\* The row of a user is written by one open transaction at a time, which
\* keeps a user that it creates from being there before.
Open(t) == t.pc \notin {"idle", "issue"}

WritesUser(t, u) == Open(t) /\ (t.created \/ t.raised) /\ invite[t.inv].phone = u

OneWriter ==
    /\ \A r, s \in Accepts, u \in Phones : WritesUser(tx[r], u) /\ WritesUser(tx[s], u) => r = s
    /\ \A r \in Accepts : Open(tx[r]) /\ tx[r].created => kind[invite[tx[r].inv].phone] = "none"

\* A user is created once, and a session is on its way or was issued only for
\* a user who was created.
Pending(t, u) == t.pc = "issue" /\ t.created /\ invite[t.inv].phone = u

CreatedOnce == \A u \in Phones :
    /\ bearer[u] <= 1
    /\ kind[u] = "none" \/ Seeded(u) => bearer[u] = 0 /\ \A r \in Accepts : ~Pending(tx[r], u)
    /\ Seeded(u) => kind[u] # "none"
    /\ \A r \in Accepts : Pending(tx[r], u) =>
          bearer[u] = 0 /\ \A s \in Accepts : Pending(tx[s], u) => s = r

\* What is granted, or about to be, is a gate, in the name of its company, to
\* a user who agreed to that company; so are the roles.
GrantsSound == \A g \in grants \cup attach :
    g[2] \in Gates /\ g[3] = McOf[g[2]] /\ Consented(g[1], g[3])

RolesSound == \A u \in Phones, a \in Apts : Member(u, a) => Consented(u, McOf[a])

IInv ==
    /\ TypeOK /\ InvitesSound /\ TxSound /\ OneWriter /\ CreatedOnce
    /\ GrantsSound /\ RolesSound

OwnersKept == \A u \in Phones :
    /\ kind[u] = "owner" => kind'[u] = "owner"
    /\ \A a \in Apts : role[<<u, a>>] = "owner" => role'[<<u, a>>] = "owner"

\* Invites that are there stay there, are about what they were, and remain
\* used; what is said of an invite that is there remains true.
InvitesStay == \A i \in Invites : invite[i] # Absent =>
    /\ invite'[i] # Absent
    /\ invite'[i].target = invite[i].target /\ invite'[i].phone = invite[i].phone
    /\ invite'[i].apt = invite[i].apt /\ invite'[i].points = invite[i].points
    /\ invite'[i].mc = invite[i].mc
    /\ invite[i].used => invite'[i].used

Kept == OwnersKept /\ InvitesStay

USE EstateAssumption

-----------------------------------------------------------------------------
LEMMA InvitesTyped ==
    ASSUME TypeOK, NEW i \in Invites, invite[i] # Absent
    PROVE  invite[i] \in Invite
  BY DEF TypeOK

LEMMA IdleTyped == Idle \in Tx /\ Idle.pc = "idle"
  BY DEF Idle, Tx, PCs

LEMMA InitIInv == Init => IInv
<1> SUFFICES ASSUME Init PROVE IInv
  OBVIOUS
<1>1. TypeOK
  BY IdleTyped DEF Init, TypeOK
<1>2. InvitesSound /\ GrantsSound
  BY DEF Init, InvitesSound, GrantsSound
<1>3. TxSound /\ OneWriter
  BY DEF Init, TxSound, Fits, OneWriter, WritesUser, Open, Idle
<1>4. CreatedOnce
  <2>1. \A r \in Accepts, u \in Phones : ~Pending(tx[r], u)
    BY DEF Init, Pending, Idle
  <2>2. \A u \in Phones : bearer[u] = 0 /\ (Seeded(u) => kind[u] # "none")
    BY DEF Init, Seeded
  <2> QED BY <2>1, <2>2 DEF CreatedOnce
<1>5. RolesSound
  BY DEF Init, RolesSound, Member, Consented
<1> QED BY <1>1, <1>2, <1>3, <1>4, <1>5 DEF IInv

\* A transaction goes on to t, short of its commit.
LEMMA TxStep ==
    ASSUME IInv, NEW r \in Accepts, NEW t \in Tx, tx' = [tx EXCEPT ![r] = t],
           UNCHANGED <<kind, role, grants, invite, attach, bearer>>,
           t.pc # "issue", Fits(t),
           Open(t) /\ t.created => kind[invite[t.inv].phone] = "none",
           \A s \in Accepts \ {r}, u \in Phones : ~(WritesUser(t, u) /\ WritesUser(tx[s], u))
    PROVE  IInv' /\ Kept
<1> USE DEF IInv
<1>1. TypeOK'
  BY DEF TypeOK
<1>2. InvitesSound' /\ GrantsSound' /\ RolesSound'
  <2>1. InvitesSound'
    BY DEF InvitesSound
  <2>2. \A u, m : Consented(u, m)' <=> Consented(u, m)
    BY DEF Consented
  <2>3. GrantsSound'
    BY <2>2 DEF GrantsSound, TypeOK
  <2>4. RolesSound'
    BY <2>2 DEF RolesSound, Member
  <2> QED BY <2>1, <2>3, <2>4
<1>3. \A s \in Accepts : tx'[s] = IF s = r THEN t ELSE tx[s]
  BY DEF TypeOK
<1>4. TxSound'
  BY <1>3 DEF TxSound, Fits
<1>5. OneWriter'
  BY <1>3 DEF OneWriter, WritesUser, Open
<1>6. CreatedOnce'
  BY <1>3 DEF CreatedOnce, Pending
<1>7. Kept
  BY DEF Kept, OwnersKept, InvitesStay
<1> QED BY <1>1, <1>2, <1>4, <1>5, <1>6, <1>7

\* Set(r, t), with a t that differs from tx[r] in the way of the action.
LEMMA AcceptBeginStep ==
    ASSUME IInv, NEW r \in Accepts, NEW i \in Invites, AcceptBegin(r, i)
    PROVE  IInv' /\ Kept
<1> DEFINE t == [Idle EXCEPT !.pc = "select", !.inv = i]
<1>1. /\ t.pc = "select" /\ t.inv = i /\ ~t.created /\ ~t.raised /\ ~t.bound
      /\ t.todo = {} /\ t.new = {}
  BY DEF Idle
<1>2. t \in Tx
  BY IdleTyped DEF Tx, PCs
<1>3. tx' = [tx EXCEPT ![r] = t] /\ UNCHANGED <<kind, role, grants, invite, attach, bearer>>
  BY DEF AcceptBegin, Set
<1>4. Fits(t)
  BY <1>1 DEF Fits, AcceptBegin
<1>5. \A u \in Phones : ~WritesUser(t, u)
  BY <1>1 DEF WritesUser
<1> QED BY <1>1, <1>2, <1>3, <1>4, <1>5, TxStep

\* Bind(t, i) keeps what t has written.
LEMMA BindKeeps ==
    ASSUME TypeOK, NEW t \in Tx, t.inv \in Invites, invite[t.inv] # Absent,
           t.pc # "idle", Fits(t)
    PROVE  /\ Bind(t, t.inv) \in Tx /\ Fits(Bind(t, t.inv))
           /\ Bind(t, t.inv).created = t.created /\ Bind(t, t.inv).raised = t.raised
           /\ Bind(t, t.inv).inv = t.inv /\ Bind(t, t.inv).pc \in {"bind", "points"}
<1>1. invite[t.inv].points \subseteq Points
  BY InvitesTyped DEF Invite
<1>2. CASE invite[t.inv].target = "access_grant"
  <2>1. Bind(t, t.inv) = [t EXCEPT !.pc = "points", !.todo = invite[t.inv].points]
    BY <1>2 DEF Bind
  <2> QED BY <1>1, <1>2, <2>1 DEF Tx, PCs, Fits
<1>3. CASE invite[t.inv].target # "access_grant"
  <2>1. Bind(t, t.inv) = [t EXCEPT !.pc = "bind"]
    BY <1>3 DEF Bind
  <2> QED BY <1>3, <2>1 DEF Tx, PCs, Fits
<1> QED BY <1>2, <1>3

\* The facts about the transaction of r that its statements start from.
LEMMA TxFacts ==
    ASSUME IInv, NEW r \in Accepts, Open(tx[r])
    PROVE  /\ tx[r] \in Tx /\ Fits(tx[r])
           /\ tx[r].inv \in Invites /\ Of(r) # Absent /\ Of(r) \in Invite
           /\ Of(r).points \subseteq Points
           /\ tx[r].created => kind[Of(r).phone] = "none"
           /\ \A s \in Accepts \ {r}, u \in Phones : ~(WritesUser(tx[r], u) /\ WritesUser(tx[s], u))
<1>1. tx[r] \in Tx /\ Fits(tx[r]) /\ tx[r].pc # "idle"
  BY DEF IInv, TypeOK, TxSound, Open
<1>2. tx[r].inv \in Invites /\ Of(r) # Absent
  BY <1>1 DEF Fits, Of
<1>3. Of(r) \in Invite
  BY <1>2, InvitesTyped DEF IInv, Of
<1>4. Of(r).points \subseteq Points
  BY <1>3 DEF Invite
<1>5. tx[r].created => kind[Of(r).phone] = "none"
  BY DEF IInv, OneWriter, Of
<1>6. \A s \in Accepts \ {r}, u \in Phones : ~(WritesUser(tx[r], u) /\ WritesUser(tx[s], u))
  BY DEF IInv, OneWriter
<1> QED BY <1>1, <1>2, <1>3, <1>4, <1>5, <1>6

\* A statement that leaves the row of the user alone.
LEMMA KeepsUser ==
    ASSUME IInv, NEW r \in Accepts, Open(tx[r]), NEW t \in Tx, Set(r, t), Open(t), Fits(t),
           t.inv = tx[r].inv, t.created = tx[r].created, t.raised = tx[r].raised,
           UNCHANGED <<kind, role, grants, invite, attach, bearer>>
    PROVE  IInv' /\ Kept
<1>1. \A u \in Phones : WritesUser(t, u) => WritesUser(tx[r], u)
  BY DEF WritesUser
<1>2. tx' = [tx EXCEPT ![r] = t] /\ t.pc # "issue"
  BY DEF Set, Open
<1>3. t.created => kind[invite[t.inv].phone] = "none"
  BY TxFacts DEF Of
<1> QED BY <1>1, <1>2, <1>3, TxFacts, TxStep

LEMMA SelectUserStep ==
    ASSUME IInv, NEW r \in Accepts, SelectUser(r)
    PROVE  IInv' /\ Kept
<1>1. /\ tx[r].pc = "select" /\ Open(tx[r]) /\ tx[r].pc # "idle"
      /\ UNCHANGED <<kind, role, grants, invite, attach, bearer>>
  BY DEF SelectUser, Open
<1>2. tx[r] \in Tx /\ Fits(tx[r]) /\ tx[r].inv \in Invites /\ invite[tx[r].inv] # Absent
  BY <1>1, TxFacts DEF Of
<1>3. CASE Set(r, Bind(tx[r], tx[r].inv))
  BY <1>1, <1>2, <1>3, BindKeeps, KeepsUser DEF IInv, Open
<1>4. ASSUME NEW p \in {"insert", "raise"}, Set(r, [tx[r] EXCEPT !.pc = p])
      PROVE  IInv' /\ Kept
  <2> DEFINE t == [tx[r] EXCEPT !.pc = p]
  <2>1. /\ t \in Tx /\ t.pc = p /\ t.inv = tx[r].inv /\ t.created = tx[r].created
        /\ t.raised = tx[r].raised /\ t.bound = tx[r].bound /\ t.todo = tx[r].todo
        /\ t.new = tx[r].new
    BY <1>2 DEF Tx, PCs
  <2> HIDE DEF t
  <2>2. Open(t) /\ Fits(t)
    BY <1>1, <1>2, <2>1 DEF Open, Fits
  <2>3. Set(r, t)
    BY <1>4 DEF t
  <2> QED BY <1>1, <2>1, <2>2, <2>3, KeepsUser
<1> QED BY <1>3, <1>4 DEF SelectUser

\* INSERT and UPDATE of the row of the user, once nobody else holds it.
LEMMA WritesUserStep ==
    ASSUME IInv, NEW r \in Accepts, Open(tx[r]), Free(r, <<"user", Of(r).phone>>),
           NEW t \in Tx, t.inv = tx[r].inv, t.pc # "idle", Fits(t),
           t.created => kind[Of(r).phone] = "none",
           Set(r, Bind(t, t.inv)), UNCHANGED <<kind, role, grants, invite, attach, bearer>>
    PROVE  IInv' /\ Kept
<1> DEFINE b == Bind(t, t.inv)
<1>1. /\ b \in Tx /\ Fits(b) /\ b.created = t.created /\ b.inv = tx[r].inv
      /\ b.pc \in {"bind", "points"}
  BY BindKeeps, TxFacts DEF IInv, Of
<1>2. \A s \in Accepts \ {r}, u \in Phones : ~(WritesUser(b, u) /\ WritesUser(tx[s], u))
  <2> SUFFICES ASSUME NEW s \in Accepts \ {r}, NEW u \in Phones,
                      WritesUser(b, u), WritesUser(tx[s], u)
               PROVE  FALSE
    OBVIOUS
  <2>1. u = Of(r).phone
    BY <1>1 DEF WritesUser, Of
  <2>2. <<"user", u>> \in Holds(s)
    BY DEF WritesUser, Open, Holds, InTx, Of
  <2> QED BY <2>1, <2>2 DEF Free
<1>3. tx' = [tx EXCEPT ![r] = b]
  BY DEF Set
<1>4. b.created => kind[invite[b.inv].phone] = "none"
  BY <1>1 DEF Of
<1> HIDE DEF b
<1> QED BY <1>1, <1>2, <1>3, <1>4, TxStep

LEMMA InsertUserStep ==
    ASSUME IInv, NEW r \in Accepts, InsertUser(r)
    PROVE  IInv' /\ Kept
<1> DEFINE b == (kind[Of(r).phone] = "none")
           t == [tx[r] EXCEPT !.created = b]
<1>1. /\ tx[r].pc = "insert" /\ Open(tx[r]) /\ Free(r, <<"user", Of(r).phone>>)
      /\ Set(r, Bind(t, tx[r].inv)) /\ UNCHANGED <<kind, role, grants, invite, attach, bearer>>
  BY DEF InsertUser, Open
<1>2. b \in BOOLEAN /\ tx[r] \in Tx /\ Fits(tx[r])
  BY <1>1, TxFacts
<1> HIDE DEF b
<1>3. /\ t \in Tx /\ t.pc = "insert" /\ t.inv = tx[r].inv /\ t.bound = tx[r].bound
      /\ t.todo = tx[r].todo /\ t.new = tx[r].new /\ t.created = b
  BY <1>1, <1>2 DEF Tx
<1> HIDE DEF t
<1>4. Fits(t)
  BY <1>1, <1>2, <1>3 DEF Fits
<1>5. t.created => kind[Of(r).phone] = "none"
  BY <1>3 DEF b
<1> QED BY <1>1, <1>3, <1>4, <1>5, WritesUserStep

LEMMA RaiseKindStep ==
    ASSUME IInv, NEW r \in Accepts, RaiseKind(r)
    PROVE  IInv' /\ Kept
<1> DEFINE b == (kind[Of(r).phone] = "resident")
           t == [tx[r] EXCEPT !.raised = b]
<1>1. /\ tx[r].pc = "raise" /\ Open(tx[r]) /\ Free(r, <<"user", Of(r).phone>>)
      /\ Set(r, Bind(t, tx[r].inv)) /\ UNCHANGED <<kind, role, grants, invite, attach, bearer>>
  BY DEF RaiseKind, Open
<1>2. b \in BOOLEAN /\ tx[r] \in Tx /\ Fits(tx[r])
  BY <1>1, TxFacts
<1> HIDE DEF b
<1>3. /\ t \in Tx /\ t.pc = "raise" /\ t.inv = tx[r].inv /\ t.bound = tx[r].bound
      /\ t.todo = tx[r].todo /\ t.new = tx[r].new /\ t.created = tx[r].created
  BY <1>1, <1>2 DEF Tx
<1> HIDE DEF t
<1>4. Fits(t)
  BY <1>1, <1>2, <1>3 DEF Fits
<1>5. t.created => kind[Of(r).phone] = "none"
  BY <1>1, <1>3, TxFacts
<1> QED BY <1>1, <1>3, <1>4, <1>5, WritesUserStep

LEMMA BindRoleStep ==
    ASSUME IInv, NEW r \in Accepts, BindRole(r)
    PROVE  IInv' /\ Kept
<1> DEFINE t == [tx[r] EXCEPT !.pc = "points", !.bound = TRUE, !.todo = Of(r).points]
<1>1. /\ tx[r].pc = "bind" /\ Open(tx[r]) /\ Set(r, t)
      /\ UNCHANGED <<kind, role, grants, invite, attach, bearer>>
  BY DEF BindRole, Open
<1>2. tx[r] \in Tx /\ Fits(tx[r]) /\ Of(r).points \subseteq Points
  BY <1>1, TxFacts
<1>3. /\ t.pc = "points" /\ t.inv = tx[r].inv /\ t.created = tx[r].created /\ t.bound
      /\ t.raised = tx[r].raised /\ t.todo = Of(r).points /\ t.new = tx[r].new
  BY <1>2 DEF Tx
<1>4. t \in Tx
  BY <1>2 DEF Tx, PCs
<1> HIDE DEF t
<1>5. Fits(t) /\ Open(t)
  BY <1>1, <1>2, <1>3 DEF Fits, Open, Of
<1> QED BY <1>1, <1>3, <1>4, <1>5, KeepsUser

LEMMA InsertGrantStep ==
    ASSUME IInv, NEW r \in Accepts, InsertGrant(r)
    PROVE  IInv' /\ Kept
<1>1. PICK p \in NextPoints(tx[r].todo) :
        Set(r, [tx[r] EXCEPT !.todo = @ \ {p},
                             !.new = IF HasGrant(Of(r).phone, p) THEN @ ELSE @ \cup {p}])
  BY DEF InsertGrant
<1>2. /\ tx[r].pc = "points" /\ Open(tx[r])
      /\ UNCHANGED <<kind, role, grants, invite, attach, bearer>>
  BY DEF InsertGrant, Open
<1>3. tx[r] \in Tx /\ Fits(tx[r]) /\ p \in tx[r].todo
  BY <1>1, <1>2, TxFacts DEF NextPoints
<1> DEFINE n == IF HasGrant(Of(r).phone, p) THEN tx[r].new ELSE tx[r].new \cup {p}
           t == [tx[r] EXCEPT !.todo = tx[r].todo \ {p}, !.new = n]
<1>4. n \subseteq tx[r].new \cup {p}
  OBVIOUS
<1>5. Set(r, t)
  BY <1>1
<1> HIDE DEF n
<1>6. /\ t.pc = "points" /\ t.inv = tx[r].inv /\ t.created = tx[r].created /\ t.bound = tx[r].bound
      /\ t.raised = tx[r].raised /\ t.todo = tx[r].todo \ {p} /\ t.new = n
  BY <1>2, <1>3 DEF Tx
<1>7. t \in Tx
  BY <1>3, <1>4 DEF Tx
<1> HIDE DEF t
<1>8. Fits(t) /\ Open(t)
  BY <1>2, <1>3, <1>4, <1>6 DEF Fits, Open
<1> QED BY <1>2, <1>5, <1>6, <1>7, <1>8, KeepsUser

LEMMA AcceptFailsStep ==
    ASSUME IInv, NEW r \in Accepts, AcceptFails(r)
    PROVE  IInv' /\ Kept
<1>1. ~Open(Idle) /\ Fits(Idle) /\ Idle.pc # "issue" /\ \A u \in Phones : ~WritesUser(Idle, u)
  BY IdleTyped DEF Open, Fits, WritesUser
<1> QED BY <1>1, IdleTyped, TxStep DEF AcceptFails, Set

LEMMA AcceptEndStep ==
    ASSUME IInv, NEW r \in Accepts, AcceptEnd(r)
    PROVE  IInv' /\ Kept
<1> USE DEF IInv
<1>1. /\ tx[r].pc = "issue" /\ UNCHANGED <<kind, role, grants, invite, attach>>
      /\ tx' = [tx EXCEPT ![r] = Idle]
      /\ bearer' = IF tx[r].created THEN [bearer EXCEPT ![Of(r).phone] = @ + 1] ELSE bearer
  BY DEF AcceptEnd, Set
<1>2. \A s \in Accepts : tx'[s] = IF s = r THEN Idle ELSE tx[s]
  BY <1>1 DEF TypeOK
<1>3. Of(r).phone \in Phones
  BY <1>1, InvitesTyped DEF TxSound, Fits, Of, Invite
<1>4. TypeOK'
  <2>1. bearer' \in [Phones -> Nat]
    BY <1>1, <1>3 DEF TypeOK
  <2>2. tx' \in [Accepts -> Tx]
    BY <1>1, IdleTyped DEF TypeOK
  <2> QED BY <1>1, <2>1, <2>2 DEF TypeOK
<1>5. InvitesSound' /\ Kept
  BY <1>1 DEF InvitesSound, Kept, OwnersKept, InvitesStay
<1>6. GrantsSound' /\ RolesSound'
  <2>1. \A u, m : Consented(u, m)' <=> Consented(u, m)
    BY <1>1 DEF Consented
  <2> QED BY <1>1, <2>1 DEF GrantsSound, RolesSound, Member
<1>7. TxSound' /\ OneWriter'
  BY <1>1, <1>2, IdleTyped DEF TxSound, Fits, OneWriter, WritesUser, Open
<1>8. CreatedOnce'
  <2>1. \A s \in Accepts, u \in Phones : Pending(tx[s], u)' <=> s # r /\ Pending(tx[s], u)
    BY <1>1, <1>2, IdleTyped DEF Pending
  <2>2. CASE ~tx[r].created
    BY <1>1, <2>1, <2>2 DEF CreatedOnce
  <2>3. CASE tx[r].created
    <3>1. Pending(tx[r], Of(r).phone)
      BY <1>1, <2>3 DEF Pending, Of
    <3>2. \A u \in Phones : bearer'[u] = IF u = Of(r).phone THEN 1 ELSE bearer[u]
      BY <1>1, <1>3, <2>3, <3>1 DEF CreatedOnce, TypeOK
    <3> QED BY <1>1, <1>3, <2>1, <3>1, <3>2 DEF CreatedOnce
  <2> QED BY <2>2, <2>3
<1> QED BY <1>4, <1>5, <1>6, <1>7, <1>8

-----------------------------------------------------------------------------
LEMMA ConsentStays ==
    ASSUME InvitesStay
    PROVE  \A u, m : Consented(u, m) => Consented(u, m)'
  BY DEF InvitesStay, Consented

LEMMA MarkInvite ==
    ASSUME TypeOK, InvitesSound, NEW i \in Invites, invite[i] # Absent, NEW n \in Invite,
           invite' = [invite EXCEPT ![i] = n],
           n.target = invite[i].target, n.phone = invite[i].phone, n.apt = invite[i].apt,
           n.points = invite[i].points, n.mc = invite[i].mc, invite[i].used => n.used
    PROVE  /\ InvitesStay /\ InvitesSound'
           /\ invite' \in [Invites -> Invite \cup {Absent}]
           /\ \A j \in Invites : invite'[j] = Absent <=> invite[j] = Absent
<1>1. n # Absent
  BY DEF Invite, Absent
<1>2. \A j \in Invites : invite'[j] = IF j = i THEN n ELSE invite[j]
  BY DEF TypeOK
<1>3. invite' \in [Invites -> Invite \cup {Absent}]
  BY DEF TypeOK
<1>4. InvitesStay
  BY <1>1, <1>2 DEF InvitesStay
<1>5. InvitesSound'
  BY <1>1, <1>2 DEF InvitesSound
<1> QED BY <1>1, <1>2, <1>3, <1>4, <1>5

\* What the transactions and the grants rest on when only the invites change.
LEMMA InviteStep ==
    ASSUME IInv, InvitesStay, InvitesSound', invite' \in [Invites -> Invite \cup {Absent}],
           UNCHANGED <<kind, role, grants, tx, attach, bearer>>
    PROVE  IInv' /\ Kept
<1> USE DEF IInv
<1>1. TypeOK' /\ Kept
  BY DEF TypeOK, Kept, OwnersKept
<1>2. \A r \in Accepts : tx[r].pc # "idle" =>
        /\ tx[r].inv \in Invites /\ invite[tx[r].inv] # Absent
        /\ invite'[tx[r].inv].phone = invite[tx[r].inv].phone
  BY DEF TxSound, Fits, InvitesStay
<1>3. TxSound'
  BY DEF TxSound, Fits, InvitesStay
<1>4. OneWriter'
  BY <1>2 DEF OneWriter, WritesUser, Open
<1>5. CreatedOnce'
  BY <1>2 DEF CreatedOnce, Pending
<1>6. GrantsSound' /\ RolesSound'
  BY ConsentStays DEF GrantsSound, RolesSound, Member
<1> QED BY <1>1, <1>3, <1>4, <1>5, <1>6

LEMMA CreateInviteStep ==
    ASSUME IInv, NEW i \in Invites,
           NEW target \in {"apartment_owner", "apartment_resident", "access_grant"},
           NEW u \in Phones, NEW a \in Apts \cup {NoApt}, NEW P \in SUBSET Gates, NEW m \in MCs,
           target # "access_grant" => a \in Apts /\ McOf[a] = m,
           \A p \in P : McOf[p] = m,
           CreateInvite(i, target, u, a, P, m)
    PROVE  IInv' /\ Kept
<1> DEFINE n == [target |-> target, phone |-> u, apt |-> a, points |-> P,
                 mc |-> m, used |-> FALSE, expired |-> FALSE]
<1>1. /\ invite[i] = Absent /\ invite' = [invite EXCEPT ![i] = n]
      /\ UNCHANGED <<kind, role, grants, tx, attach, bearer>>
  BY DEF CreateInvite
<1>2. n \in Invite
  BY DEF Invite, Points
<1>3. /\ n.target = target /\ n.apt = a /\ n.points = P /\ n.mc = m
  OBVIOUS
<1> HIDE DEF n
<1>4. \A j \in Invites : invite'[j] = IF j = i THEN n ELSE invite[j]
  BY <1>1 DEF IInv, TypeOK
<1>5. invite' \in [Invites -> Invite \cup {Absent}]
  BY <1>1, <1>2 DEF IInv, TypeOK
<1>6. InvitesStay
  BY <1>1, <1>4 DEF InvitesStay
<1>7. InvitesSound'
  BY <1>3, <1>4 DEF IInv, InvitesSound
<1> QED BY <1>1, <1>5, <1>6, <1>7, InviteStep

LEMMA InviteExpiresStep ==
    ASSUME IInv, NEW i \in Invites, InviteExpires(i)
    PROVE  IInv' /\ Kept
<1> DEFINE n == [invite[i] EXCEPT !.expired = TRUE]
<1>1. /\ invite[i] # Absent /\ invite' = [invite EXCEPT ![i] = n]
      /\ UNCHANGED <<kind, role, grants, tx, attach, bearer>>
  BY DEF InviteExpires
<1>2. invite[i] \in Invite
  BY <1>1, InvitesTyped DEF IInv
<1>3. /\ n \in Invite /\ n.target = invite[i].target /\ n.phone = invite[i].phone
      /\ n.apt = invite[i].apt /\ n.points = invite[i].points /\ n.mc = invite[i].mc
      /\ n.used = invite[i].used
  BY <1>2 DEF Invite
<1> HIDE DEF n
<1> QED BY <1>1, <1>3, MarkInvite, InviteStep DEF IInv

-----------------------------------------------------------------------------
\* The commit: everything the transaction prepared becomes visible at once.
LEMMA CommitStep ==
    ASSUME IInv, NEW r \in Accepts, Commit(r)
    PROVE  IInv' /\ Kept
<1> USE DEF IInv
<1> DEFINE t == tx[r]
           u == Of(r).phone
           a == Of(r).apt
           n == [Of(r) EXCEPT !.used = TRUE]
           d == [t EXCEPT !.pc = "issue"]
<1>1. t.pc = "points" /\ Open(t)
  BY DEF Commit, Open
<1>2. /\ t \in Tx /\ Fits(t) /\ t.inv \in Invites /\ Of(r) # Absent /\ Of(r) \in Invite
      /\ t.created => kind[u] = "none"
      /\ \A s \in Accepts \ {r}, v \in Phones : ~(WritesUser(t, v) /\ WritesUser(tx[s], v))
  BY <1>1, TxFacts
<1>3. u \in Phones /\ Of(r) = invite[t.inv] /\ Of(r).mc \in MCs
  BY <1>2 DEF Of, Invite
<1>4. t.bound => a \in Apts /\ McOf[a] = Of(r).mc
  BY <1>1, <1>2, <1>3 DEF Fits, InvitesSound
<1>5. \A p \in t.new : p \in Gates /\ McOf[p] = Of(r).mc
  BY <1>1, <1>2, <1>3 DEF Fits, InvitesSound
<1>6. /\ n \in Invite /\ n.target = Of(r).target /\ n.phone = Of(r).phone /\ n.apt = Of(r).apt
      /\ n.points = Of(r).points /\ n.mc = Of(r).mc /\ n.used
  BY <1>2 DEF Invite
<1>7. invite' = [invite EXCEPT ![t.inv] = n]
  BY <1>3 DEF Commit
<1> HIDE DEF n
<1>8. /\ InvitesStay /\ InvitesSound'
      /\ invite' \in [Invites -> Invite \cup {Absent}]
  <2>1. /\ invite[t.inv] # Absent /\ n.target = invite[t.inv].target
        /\ n.phone = invite[t.inv].phone /\ n.apt = invite[t.inv].apt
        /\ n.points = invite[t.inv].points /\ n.mc = invite[t.inv].mc
        /\ invite[t.inv].used => n.used
    BY <1>2, <1>3, <1>6
  <2> QED BY <1>2, <1>6, <1>7, <2>1, MarkInvite
<1>9. \A v, m : v = u /\ m = Of(r).mc => Consented(v, m)'
  <2>1. invite'[t.inv] = n
    BY <1>2, <1>7 DEF TypeOK
  <2>2. invite'[t.inv] # Absent
    BY <1>2, <1>3, <1>8 DEF InvitesStay
  <2> QED BY <1>2, <1>6, <2>1, <2>2 DEF Consented
<1>10. d \in Tx /\ d.pc = "issue" /\ d.inv = t.inv /\ d.created = t.created
       /\ d.bound = t.bound /\ d.todo = t.todo /\ d.new = t.new
  BY <1>2 DEF Tx, PCs
<1>11. tx' = [tx EXCEPT ![r] = d] /\ \A s \in Accepts : tx'[s] = IF s = r THEN d ELSE tx[s]
  BY DEF Commit, Set, TypeOK
<1>12. /\ \A v \in Phones : kind'[v] = IF v # u THEN kind[v]
                                       ELSE IF t.created THEN NewKind(r)
                                       ELSE IF t.raised THEN "owner" ELSE kind[v]
       /\ kind' \in [Phones -> {"none", "resident", "owner"}]
  BY <1>3 DEF Commit, TypeOK, NewKind
<1>13. /\ \A v \in Phones, b \in Apts : role'[<<v, b>>] =
              IF t.bound /\ v = u /\ b = a THEN RoleAfter(r, role[<<v, b>>]) ELSE role[<<v, b>>]
       /\ role' \in [Phones \X Apts -> {"none", "resident", "owner"}]
  BY <1>3, <1>4 DEF Commit, TypeOK, RoleAfter
<1>14. \A g \in grants' : g \in grants \/ \E p \in t.new : g = <<u, p, Of(r).mc>>
  BY DEF Commit, WithGrants
<1>15. grants' \in SUBSET (Phones \X Points \X MCs)
  <2>1. \A p \in t.new : <<u, p, Of(r).mc>> \in Phones \X Points \X MCs
    BY <1>3, <1>5 DEF Points
  <2> QED BY <1>14, <2>1 DEF TypeOK
<1>16. UNCHANGED <<attach, bearer>>
  BY DEF Commit
<1> HIDE DEF d
<1>17. TypeOK'
  BY <1>8, <1>10, <1>11, <1>12, <1>13, <1>15, <1>16 DEF TypeOK
<1>18. TxSound'
  <2> SUFFICES ASSUME NEW s \in Accepts PROVE Fits(tx[s])'
    BY DEF TxSound
  <2>1. CASE s = r
    BY <1>1, <1>2, <1>3, <1>8, <1>10, <1>11, <2>1 DEF Fits, InvitesStay
  <2>2. CASE s # r
    BY <1>8, <1>11, <2>2 DEF TxSound, Fits, InvitesStay
  <2> QED BY <2>1, <2>2
<1>19. \A s \in Accepts : tx[s].pc # "idle" =>
         /\ tx[s].inv \in Invites /\ invite[tx[s].inv] # Absent
         /\ invite'[tx[s].inv].phone = invite[tx[s].inv].phone
  BY <1>8 DEF TxSound, Fits, InvitesStay
<1>20. \A s \in Accepts, v \in Phones :
          /\ WritesUser(tx[s], v)' <=> s # r /\ WritesUser(tx[s], v)
          /\ Pending(tx[s], v)' <=> IF s = r THEN t.created /\ v = u ELSE Pending(tx[s], v)
  BY <1>1, <1>3, <1>10, <1>11, <1>19 DEF WritesUser, Pending, Open
<1>21. OneWriter'
  <2>1. \A s, q \in Accepts, v \in Phones :
          WritesUser(tx[s], v)' /\ WritesUser(tx[q], v)' => s = q
    BY <1>20 DEF OneWriter
  <2>2. ASSUME NEW s \in Accepts, Open(tx[s])', tx'[s].created
        PROVE  kind'[invite'[tx'[s].inv].phone] = "none"
    <3>1. s # r /\ tx'[s] = tx[s] /\ Open(tx[s]) /\ tx[s].pc # "idle"
      BY <1>10, <1>11, <2>2 DEF Open
    <3> DEFINE v == invite[tx[s].inv].phone
    <3>2. v \in Phones /\ invite'[tx[s].inv].phone = v /\ WritesUser(tx[s], v)
      BY <1>19, <2>2, <3>1, InvitesTyped DEF WritesUser, Invite
    <3>3. kind[v] = "none"
      BY <2>2, <3>1 DEF OneWriter
    <3>4. v = u => ~t.created /\ ~t.raised
      BY <1>1, <1>2, <1>3, <3>1, <3>2 DEF WritesUser
    <3> QED BY <1>12, <3>1, <3>2, <3>3, <3>4
  <2> QED BY <2>1, <2>2 DEF OneWriter
<1>22. CreatedOnce'
  <2>1. \A v \in Phones : Seeded(v)' <=> Seeded(v)
    BY DEF Seeded
  <2>2. \A v \in Phones : kind'[v] = "none" => kind[v] = "none" /\ ~(t.created /\ v = u)
    BY <1>12 DEF NewKind
  <2>3. ASSUME NEW v \in Phones
        PROVE  /\ bearer'[v] <= 1
               /\ kind'[v] = "none" \/ Seeded(v) =>
                     bearer'[v] = 0 /\ \A s \in Accepts : ~Pending(tx[s], v)'
               /\ Seeded(v) => kind'[v] # "none"
               /\ \A s \in Accepts : Pending(tx[s], v)' =>
                     bearer'[v] = 0 /\ \A q \in Accepts : Pending(tx[q], v)' => q = s
    <3>1. CASE t.created /\ v = u
      BY <1>2, <1>12, <1>16, <1>20, <2>2, <3>1 DEF CreatedOnce
    <3>2. CASE ~(t.created /\ v = u)
      <4>1. \A s \in Accepts : Pending(tx[s], v)' => Pending(tx[s], v)
        BY <1>20, <3>2
      <4> QED BY <1>16, <2>2, <4>1 DEF CreatedOnce
    <3> QED BY <3>1, <3>2
  <2> QED BY <2>1, <2>3 DEF CreatedOnce
<1>23. GrantsSound'
  BY <1>3, <1>5, <1>8, <1>9, <1>14, <1>16, ConsentStays DEF GrantsSound
<1>24. RolesSound'
  BY <1>4, <1>8, <1>9, <1>13, ConsentStays DEF RolesSound, Member
<1>25. OwnersKept
  BY <1>2, <1>12, <1>13 DEF OwnersKept, RoleAfter
<1>26. Kept
  BY <1>8, <1>25 DEF Kept
<1> QED BY <1>8, <1>17, <1>18, <1>21, <1>22, <1>23, <1>24, <1>26

-----------------------------------------------------------------------------
\* Steps of the admin: only grants and grants in progress change.
LEMMA GrantStep ==
    ASSUME IInv, UNCHANGED <<kind, role, invite, tx, bearer>>,
           grants' \in SUBSET (Phones \X Points \X MCs),
           attach' \in SUBSET (Phones \X Points \X MCs),
           \A g \in grants' \cup attach' :
              \/ g \in grants \cup attach
              \/ g[2] \in Gates /\ g[3] = McOf[g[2]] /\ Consented(g[1], g[3])
    PROVE  IInv' /\ Kept
<1> USE DEF IInv
<1>1. TypeOK' /\ Kept
  BY DEF TypeOK, Kept, OwnersKept, InvitesStay
<1>2. InvitesSound' /\ TxSound'
  BY DEF InvitesSound, TxSound, Fits
<1>3. OneWriter' /\ CreatedOnce'
  BY DEF OneWriter, WritesUser, Open, CreatedOnce, Pending
<1>4. \A u, m : Consented(u, m) => Consented(u, m)'
  BY DEF Consented
<1>5. GrantsSound'
  BY <1>4 DEF GrantsSound
<1>6. RolesSound'
  BY <1>4 DEF RolesSound, Member
<1> QED BY <1>1, <1>2, <1>3, <1>5, <1>6

\* Whoever belongs to a company has agreed to it.
LEMMA InMCConsented ==
    ASSUME IInv, NEW u \in Phones, NEW m \in MCs, InMC(u, m)
    PROVE  Consented(u, m)
<1>1. CASE \E a \in Apts : McOf[a] = m /\ Member(u, a)
  BY <1>1 DEF IInv, RolesSound
<1>2. CASE \E p \in Points : <<u, p, m>> \in grants
  BY <1>2 DEF IInv, GrantsSound
<1> QED BY <1>1, <1>2 DEF InMC

LEMMA ToAttachStep ==
    ASSUME IInv, NEW u \in Phones, NEW p \in Gates, NEW m \in MCs, McOf[p] = m,
           InMC(u, m), ToAttach(u, p, m)
    PROVE  IInv' /\ Kept
<1>1. Consented(u, m)
  BY InMCConsented
<1>2. grants' = grants /\ attach' = attach \cup {<<u, p, m>>} /\ UNCHANGED <<kind, role, invite, tx, bearer>>
  BY DEF ToAttach
<1>3. <<u, p, m>> \in Phones \X Points \X MCs
  BY DEF Points
<1>4. /\ grants' \in SUBSET (Phones \X Points \X MCs)
      /\ attach' \in SUBSET (Phones \X Points \X MCs)
  BY <1>2, <1>3 DEF IInv, TypeOK
<1>5. \A g \in grants' \cup attach' :
         \/ g \in grants \cup attach
         \/ g[2] \in Gates /\ g[3] = McOf[g[2]] /\ Consented(g[1], g[3])
  BY <1>1, <1>2
<1> QED BY <1>2, <1>4, <1>5, GrantStep

LEMMA OwnPointIsGate ==
    ASSUME NEW p \in Points, NEW m,
           GetAccessPoint(p).mc = m /\ GetAccessPoint(p).type = "gate"
    PROVE  p \in Gates /\ McOf[p] = m
  BY DEF GetAccessPoint

LEMMA AdminStep ==
    ASSUME IInv, NEW m \in MCs,
           CreateOwner(m) \/ PostAccessGrant(m) \/ PutGrant(m) \/ DeleteGrant(m)
    PROVE  IInv' /\ Kept
<1>1. CASE CreateOwner(m)
  <2>1. PICK u \in Phones, a \in Apts, P \in SUBSET Points, i \in Invites :
           CreateOwnerInvite(m, i, u, a, P)
    BY <1>1 DEF CreateOwner
  <2>2. McOf[a] = m /\ \A p \in P : p \in Gates /\ McOf[p] = m
    BY <2>1, OwnPointIsGate DEF CreateOwnerInvite, GetApartment, GrantPoints
  <2> QED BY <2>1, <2>2, CreateInviteStep DEF CreateOwnerInvite
<1>2. CASE PostAccessGrant(m)
  <2>1. PICK u \in Phones, p \in Points : CreateAccessGrant(m, u, p)
    BY <1>2 DEF PostAccessGrant
  <2>2. p \in Gates /\ McOf[p] = m
    BY <2>1, OwnPointIsGate DEF CreateAccessGrant, GrantPoints
  <2>3. CASE Known(u, m) /\ ToAttach(u, p, m)
    BY <2>2, <2>3, ToAttachStep DEF Known
  <2>4. ASSUME NEW i \in Invites, CreateInvite(i, "access_grant", u, NoApt, {p}, m)
        PROVE  IInv' /\ Kept
    BY <2>2, <2>4, CreateInviteStep
  <2> QED BY <2>1, <2>3, <2>4 DEF CreateAccessGrant
<1>3. CASE PutGrant(m)
  <2>1. PICK u \in Phones, p \in Points : GrantPoint(m, u, p)
    BY <1>3 DEF PutGrant
  <2>2. p \in Gates /\ McOf[p] = m
    BY <2>1 DEF GrantPoint, OwnPoint, GetAccessPoint
  <2> QED BY <2>1, <2>2, ToAttachStep DEF GrantPoint
<1>4. CASE DeleteGrant(m)
  <2>1. /\ UNCHANGED <<kind, role, invite, tx, attach, bearer>> /\ grants' \subseteq grants
    BY <1>4 DEF DeleteGrant, RevokePoint, WithoutGrant
  <2>2. /\ grants' \in SUBSET (Phones \X Points \X MCs)
        /\ attach' \in SUBSET (Phones \X Points \X MCs)
    BY <2>1 DEF IInv, TypeOK
  <2> QED BY <2>1, <2>2, GrantStep
<1> QED BY <1>1, <1>2, <1>3, <1>4

LEMMA AttachStep ==
    ASSUME IInv, NEW u \in Phones, NEW p \in Points, NEW m \in MCs, Attach(u, p, m)
    PROVE  IInv' /\ Kept
<1>1. /\ <<u, p, m>> \in attach /\ attach' \subseteq attach
      /\ UNCHANGED <<kind, role, invite, tx, bearer>>
      /\ grants' \subseteq grants \cup {<<u, p, m>>}
  BY DEF Attach, WithGrants
<1>2. /\ grants' \in SUBSET (Phones \X Points \X MCs)
      /\ attach' \in SUBSET (Phones \X Points \X MCs)
  BY <1>1 DEF IInv, TypeOK
<1>3. \A g \in grants' \cup attach' : g \in grants \cup attach
  BY <1>1
<1> QED BY <1>1, <1>2, <1>3, GrantStep

-----------------------------------------------------------------------------
LEMMA NextStep ==
    ASSUME IInv, [Next]_vars
    PROVE  IInv' /\ Kept
<1>1. CASE PublicRoutes
  <2>1. PICK r \in Accepts : AcceptInvite(r)
    BY <1>1 DEF PublicRoutes
  <2> QED BY <2>1, AcceptBeginStep, SelectUserStep, InsertUserStep, RaiseKindStep, BindRoleStep,
             InsertGrantStep, CommitStep, AcceptEndStep, AcceptFailsStep
          DEF AcceptInvite, AcceptStep
<1>2. CASE ResidentRoutes
  <2>1. PICK w \in Phones, u \in Phones, a \in Apts, i \in Invites : CreateResidentInvite(w, i, u, a)
    BY <1>2 DEF ResidentRoutes, InviteResident
  <2>2. McOf[a] \in MCs /\ GetApartment(a).mc = McOf[a]
    BY DEF Objects, GetApartment
  <2> QED BY <2>1, <2>2, CreateInviteStep DEF CreateResidentInvite
<1>3. CASE AdminRoutes
  BY <1>3, AdminStep DEF AdminRoutes
<1>4. ASSUME NEW g \in attach, Attach(g[1], g[2], g[3]) PROVE IInv' /\ Kept
  <2>1. g[1] \in Phones /\ g[2] \in Points /\ g[3] \in MCs
    BY DEF IInv, TypeOK
  <2> QED BY <1>4, <2>1, AttachStep
<1>5. ASSUME NEW i \in Invites, InviteExpires(i) PROVE IInv' /\ Kept
  BY <1>5, InviteExpiresStep
<1>6. CASE UNCHANGED vars
  <2>1. UNCHANGED <<kind, role, invite, tx, bearer, grants, attach>>
    BY <1>6 DEF vars
  <2>2. /\ grants' \in SUBSET (Phones \X Points \X MCs)
        /\ attach' \in SUBSET (Phones \X Points \X MCs)
    BY <2>1 DEF IInv, TypeOK
  <2> QED BY <2>1, <2>2, GrantStep
<1> QED BY <1>1, <1>2, <1>3, <1>4, <1>5, <1>6 DEF Next

LEMMA Inductive == Spec => []IInv
<1>1. IInv /\ [Next]_vars => IInv'
  BY NextStep
<1> QED BY InitIInv, <1>1, PTL DEF Spec

\* What the checked invariants say follows.
LEMMA SoundIsConsented == IInv => ConsentFirst
<1> SUFFICES ASSUME IInv, NEW u \in Phones
             PROVE  /\ \A a \in Apts : Member(u, a) => Consented(u, McOf[a])
                    /\ \A p \in Points : HasGrant(u, p) => Consented(u, McOf[p])
  BY DEF ConsentFirst
<1>1. \A a \in Apts : Member(u, a) => Consented(u, McOf[a])
  BY DEF IInv, RolesSound
<1>2. ASSUME NEW p \in Points, NEW m \in MCs, <<u, p, m>> \in grants
      PROVE  Consented(u, McOf[p])
  BY <1>2 DEF IInv, GrantsSound
<1> QED BY <1>1, <1>2 DEF HasGrant

LEMMA SoundIsListed == IInv => ConsoleIsComplete
<1> SUFFICES ASSUME IInv, NEW u \in Phones, NEW p \in Points, HasGrant(u, p)
             PROVE  /\ OwnPoint(p, McOf[p])
                    /\ <<u, p>> \in ListResidents(McOf[p])
                    /\ \A a \in Apts : Member(u, a) /\ SiteOf[a] = SiteOf[p] =>
                         <<u, p>> \in SiteMatrix(SiteOf[a], McOf[a])
                                        \cup ApartmentResidents(a, McOf[a])
  BY DEF ConsoleIsComplete
<1>1. p \in Gates /\ <<u, p, McOf[p]>> \in grants
  BY DEF HasGrant, IInv, GrantsSound
<1>2. OwnPoint(p, McOf[p]) /\ <<u, p>> \in ListResidents(McOf[p])
  BY <1>1 DEF OwnPoint, GetAccessPoint, ListResidents
<1>3. ASSUME NEW a \in Apts, Member(u, a), SiteOf[a] = SiteOf[p]
      PROVE  <<u, p>> \in SiteMatrix(SiteOf[a], McOf[a]) \cup ApartmentResidents(a, McOf[a])
  <2>1. McOf[a] = McOf[p] /\ a \in Objects /\ p \in Objects
    BY <1>3 DEF Objects
  <2>2. <<u, p>> \in GrantsBySite(SiteOf[a], McOf[a])
    BY <1>1, <1>3, <2>1 DEF GrantsBySite
  <2>3. CASE role[<<u, a>>] = "owner"
    <3>1. u \in With("owner", {b \in Apts : SiteOf[b] = SiteOf[a]}, McOf[a])
      BY <2>3 DEF With
    <3>2. SiteInMC(SiteOf[a], McOf[a])
      BY <2>1 DEF SiteInMC
    <3> QED BY <2>2, <3>1, <3>2 DEF SiteMatrix
  <2>4. CASE role[<<u, a>>] = "resident"
    <3>1. u \in With("resident", {a}, McOf[a])
      BY <2>4 DEF With
    <3> QED BY <2>2, <3>1 DEF ApartmentResidents
  <2> QED BY <1>3, <2>3, <2>4 DEF Member, IInv, TypeOK
<1> QED BY <1>2, <1>3

\* Every variable keeps its type, for any estate: what a transaction inserts
\* is a row the tables can hold.
THEOREM TypeCorrect == Spec => []TypeOK
<1>1. IInv => TypeOK
  BY DEF IInv
<1> QED BY Inductive, <1>1, PTL

\* No invite, in whatever order they are accepted, lowers an owner: neither
\* the kind of the user nor the role in an apartment.
THEOREM OwnersStay == Spec => OwnerStays
<1>1. IInv /\ [Next]_vars =>
        [\A u \in Phones :
            /\ kind[u] = "owner" => kind'[u] = "owner"
            /\ \A a \in Apts : role[<<u, a>>] = "owner" => role'[<<u, a>>] = "owner"]_vars
  BY NextStep DEF Kept, OwnersKept
<1> QED BY Inductive, <1>1, PTL DEF Spec, OwnerStays

\* Nobody holds a role or a grant in a company without having accepted an
\* invite of that company, for any number of admins, invites and phones.
THEOREM ConsentComesFirst == Spec => []ConsentFirst
  BY Inductive, SoundIsConsented, PTL

\* Links open at most one session for a phone, and none for a user of the
\* seed, however the transactions that create users overlap.
THEOREM BearersOnce == Spec => []OneBearerSession
<1>1. IInv => OneBearerSession
  BY DEF IInv, OneBearerSession, CreatedOnce, Seeded, TypeOK
<1> QED BY Inductive, <1>1, PTL

\* Every grant that opens a gate is listed to the company of the gate and in
\* the rows of the matrix of the household.
THEOREM ConsoleComplete == Spec => []ConsoleIsComplete
  BY Inductive, SoundIsListed, PTL

-----------------------------------------------------------------------------
(* No deadlock in the database: every key that a transaction waits for     *)
(* comes after those it holds, in the order users, roles, grants by id.    *)

InOrder(t) ==
    /\ t.pc \in {"select", "insert", "raise"} => ~t.created /\ ~t.raised
    /\ t.pc \in {"select", "insert", "raise", "bind"} => ~t.bound /\ t.new = {}
    /\ t.pc = "points" => \A p \in t.new, q \in t.todo : Rank[p] < Rank[q]

Active == {r \in Accepts : tx[r].pc # "idle"}

\* Only finitely many transactions are open, of however many there may be.
Ordered == IsFiniteSet(Active) /\ \A r \in Accepts : InOrder(tx[r])

LEMMA IdleInOrder == InOrder(Idle) /\ Idle \in Tx
  BY IdleTyped DEF InOrder, Idle

LEMMA InitOrdered == Init => Ordered
<1> SUFFICES ASSUME Init PROVE Ordered
  OBVIOUS
<1>1. Active = {} /\ \A r \in Accepts : tx[r] = Idle
  BY IdleTyped DEF Init, Active
<1> QED BY <1>1, IdleInOrder, FS_EmptySet DEF Ordered

\* One transaction goes on to t.
LEMMA OrderKept ==
    ASSUME TypeOK, Ordered, NEW r \in Accepts, NEW t \in Tx, Set(r, t), InOrder(t)
    PROVE  Ordered'
<1>1. \A s \in Accepts : tx'[s] = IF s = r THEN t ELSE tx[s]
  BY DEF TypeOK, Set
<1>2. \A s \in Accepts : InOrder(tx[s])'
  BY <1>1 DEF Ordered, InOrder
<1>3. Active' \subseteq Active \cup {r}
  BY <1>1 DEF Active
<1>4. IsFiniteSet(Active')
  BY <1>3, FS_AddElement, FS_Subset DEF Ordered
<1> QED BY <1>2, <1>4 DEF Ordered

\* Once it has its user, a transaction holds no role and no grant yet.
LEMMA BindInOrder ==
    ASSUME TypeOK, NEW t \in Tx, t.inv \in Invites, invite[t.inv] # Absent, ~t.bound, t.new = {}
    PROVE  InOrder(Bind(t, t.inv)) /\ Bind(t, t.inv) \in Tx
<1>1. invite[t.inv].points \subseteq Points
  BY InvitesTyped DEF Invite
<1>2. CASE invite[t.inv].target = "access_grant"
  <2>1. Bind(t, t.inv) = [t EXCEPT !.pc = "points", !.todo = invite[t.inv].points]
    BY <1>2 DEF Bind
  <2> QED BY <1>1, <2>1 DEF Tx, PCs, InOrder
<1>3. CASE invite[t.inv].target # "access_grant"
  <2>1. Bind(t, t.inv) = [t EXCEPT !.pc = "bind"]
    BY <1>3 DEF Bind
  <2> QED BY <2>1 DEF Tx, PCs, InOrder
<1> QED BY <1>2, <1>3

LEMMA AcceptStepOrdered ==
    ASSUME IInv, Ordered, NEW r \in Accepts, AcceptStep(r)
    PROVE  Ordered'
<1>1. tx[r].pc # "idle" /\ tx[r] \in Tx /\ InOrder(tx[r]) /\ TypeOK
  BY DEF IInv, TypeOK, Ordered, AcceptStep, SelectUser, InsertUser, RaiseKind, BindRole,
         InsertGrant, Commit, AcceptEnd
<1>2. tx[r].inv \in Invites /\ Of(r) # Absent
  BY <1>1 DEF IInv, TxSound, Fits, Of
<1>4. CASE SelectUser(r)
  <2>1. tx[r].pc = "select"
    BY <1>4 DEF SelectUser
  <2>2. CASE Set(r, Bind(tx[r], tx[r].inv))
    <3>1. ~tx[r].bound /\ tx[r].new = {}
      BY <1>1, <2>1 DEF InOrder
    <3> QED BY <1>1, <1>2, <2>2, <3>1, BindInOrder, OrderKept DEF Of
  <2>3. ASSUME NEW p \in {"insert", "raise"}, Set(r, [tx[r] EXCEPT !.pc = p])
        PROVE  Ordered'
    <3>1. [tx[r] EXCEPT !.pc = p] \in Tx /\ InOrder([tx[r] EXCEPT !.pc = p])
      BY <1>1, <2>1 DEF Tx, PCs, InOrder
    <3> QED BY <1>1, <2>3, <3>1, OrderKept
  <2> QED BY <1>4, <2>2, <2>3 DEF SelectUser
<1>5. CASE InsertUser(r)
  <2> DEFINE b == (kind[Of(r).phone] = "none")
             t == [tx[r] EXCEPT !.created = b]
  <2>1. tx[r].pc = "insert" /\ Set(r, Bind(t, tx[r].inv)) /\ b \in BOOLEAN
    BY <1>5 DEF InsertUser
  <2> HIDE DEF b
  <2>2. t \in Tx /\ t.inv = tx[r].inv /\ ~t.bound /\ t.new = {}
    BY <1>1, <2>1 DEF Tx, InOrder
  <2> QED BY <1>1, <1>2, <2>1, <2>2, BindInOrder, OrderKept DEF Of
<1>6. CASE RaiseKind(r)
  <2> DEFINE b == (kind[Of(r).phone] = "resident")
             t == [tx[r] EXCEPT !.raised = b]
  <2>1. tx[r].pc = "raise" /\ Set(r, Bind(t, tx[r].inv)) /\ b \in BOOLEAN
    BY <1>6 DEF RaiseKind
  <2> HIDE DEF b
  <2>2. t \in Tx /\ t.inv = tx[r].inv /\ ~t.bound /\ t.new = {}
    BY <1>1, <2>1 DEF Tx, InOrder
  <2> QED BY <1>1, <1>2, <2>1, <2>2, BindInOrder, OrderKept DEF Of
<1>7. CASE BindRole(r)
  <2> DEFINE t == [tx[r] EXCEPT !.pc = "points", !.bound = TRUE, !.todo = Of(r).points]
  <2>1. tx[r].pc = "bind" /\ Set(r, t)
    BY <1>7 DEF BindRole
  <2>2. Of(r).points \subseteq Points
    BY <1>1, <1>2, InvitesTyped DEF Of, Invite
  <2>3. t \in Tx /\ InOrder(t)
    BY <1>1, <2>1, <2>2 DEF Tx, PCs, InOrder
  <2> HIDE DEF t
  <2> QED BY <1>1, <2>1, <2>3, OrderKept
<1>8. CASE InsertGrant(r)
  <2>1. PICK p \in NextPoints(tx[r].todo) :
          Set(r, [tx[r] EXCEPT !.todo = @ \ {p},
                               !.new = IF HasGrant(Of(r).phone, p) THEN @ ELSE @ \cup {p}])
    BY <1>8 DEF InsertGrant
  <2> DEFINE n == IF HasGrant(Of(r).phone, p) THEN tx[r].new ELSE tx[r].new \cup {p}
             t == [tx[r] EXCEPT !.todo = tx[r].todo \ {p}, !.new = n]
  <2>2. Set(r, t)
    BY <2>1
  <2>3. n \subseteq tx[r].new \cup {p} /\ p \in tx[r].todo /\ tx[r].pc = "points"
    BY <1>8 DEF NextPoints, InsertGrant
  <2> HIDE DEF n
  <2>4. t \in Tx /\ t.pc = "points" /\ t.new = n /\ t.todo = tx[r].todo \ {p}
    BY <1>1, <2>3 DEF Tx
  <2>5. \A q \in t.todo : Rank[p] < Rank[q]
    <3> SUFFICES ASSUME NEW q \in tx[r].todo \ {p} PROVE Rank[p] < Rank[q]
      BY <2>4
    <3>1. p \in Points /\ q \in Points /\ Rank[p] <= Rank[q]
      BY <1>1, <2>3 DEF Tx, NextPoints
    <3> QED BY <3>1
  <2>6. InOrder(t)
    BY <1>1, <2>3, <2>4, <2>5 DEF InOrder
  <2> HIDE DEF t
  <2> QED BY <1>1, <2>2, <2>4, <2>6, OrderKept
<1>9. CASE Commit(r)
  <2>1. Set(r, [tx[r] EXCEPT !.pc = "issue"])
    BY <1>9 DEF Commit
  <2>2. [tx[r] EXCEPT !.pc = "issue"] \in Tx /\ InOrder([tx[r] EXCEPT !.pc = "issue"])
    BY <1>1 DEF Tx, PCs, InOrder
  <2> QED BY <1>1, <2>1, <2>2, OrderKept
<1>10. CASE AcceptEnd(r)
  BY <1>1, <1>10, IdleInOrder, OrderKept DEF AcceptEnd
<1> QED BY <1>4, <1>5, <1>6, <1>7, <1>8, <1>9, <1>10 DEF AcceptStep

LEMMA NextOrdered == IInv /\ Ordered /\ [Next]_vars => Ordered'
<1> SUFFICES ASSUME IInv, Ordered, [Next]_vars PROVE Ordered'
  OBVIOUS
<1>1. TypeOK
  BY DEF IInv
<1>2. ASSUME NEW r \in Accepts, AcceptInvite(r) PROVE Ordered'
  <2>1. ASSUME NEW i \in Invites, AcceptBegin(r, i) PROVE Ordered'
    <3> DEFINE t == [Idle EXCEPT !.pc = "select", !.inv = i]
    <3>1. t \in Tx /\ InOrder(t)
      BY DEF Idle, Tx, PCs, InOrder
    <3>2. Set(r, t)
      BY <2>1 DEF AcceptBegin
    <3> QED BY <1>1, <3>1, <3>2, OrderKept
  <2>2. CASE AcceptFails(r)
    BY <1>1, <2>2, IdleInOrder, OrderKept DEF AcceptFails
  <2> QED BY <1>2, <2>1, <2>2, AcceptStepOrdered DEF AcceptInvite
<1>3. CASE UNCHANGED tx
  BY <1>3 DEF Ordered, Active, InOrder
<1>4. CASE ResidentRoutes \/ AdminRoutes
  BY <1>3, <1>4 DEF ResidentRoutes, InviteResident, CreateResidentInvite, AdminRoutes, CreateOwner,
     CreateOwnerInvite, PostAccessGrant, CreateAccessGrant, PutGrant, GrantPoint, ToAttach,
     DeleteGrant, RevokePoint, CreateInvite
<1>5. ASSUME NEW g \in attach, Attach(g[1], g[2], g[3]) PROVE Ordered'
  BY <1>3, <1>5 DEF Attach
<1>6. ASSUME NEW i \in Invites, InviteExpires(i) PROVE Ordered'
  BY <1>3, <1>6 DEF InviteExpires
<1> QED BY <1>2, <1>3, <1>4, <1>5, <1>6 DEF Next, PublicRoutes, vars

\* How far a transaction that waits has got: the place of the key it wants.
Level(r) ==
    IF tx[r].pc \in {"insert", "raise"} THEN 0
    ELSE IF tx[r].pc = "bind" THEN 1
    ELSE 2 + Rank[CHOOSE p \in NextPoints(tx[r].todo) : TRUE]

\* Whoever holds the key that r wants either waits for nothing or has got
\* farther than r.
LEMMA HolderIsAhead ==
    ASSUME IInv, Ordered, NEW r \in Accepts, NEW s \in Accepts,
           Wants(r) \cap Holds(s) # {}, Wants(s) # {}
    PROVE  Level(r) \in Nat /\ Level(s) \in Nat /\ Level(r) < Level(s)
<1>1. /\ tx[r] \in Tx /\ tx[s] \in Tx /\ InOrder(tx[s])
      /\ tx[r].todo \subseteq Points /\ tx[s].todo \subseteq Points
      /\ tx[s].new \subseteq Points
  BY DEF IInv, TypeOK, Ordered, Tx
<1>2. ASSUME NEW q \in Accepts, tx[q].pc = "points", Wants(q) # {}, tx[q].todo \subseteq Points
      PROVE  /\ Level(q) \in Nat /\ Level(q) >= 2
             /\ \E p \in NextPoints(tx[q].todo) : Level(q) = 2 + Rank[p]
             /\ \A p \in NextPoints(tx[q].todo) : Level(q) = 2 + Rank[p]
  <2> DEFINE c == CHOOSE p \in NextPoints(tx[q].todo) : TRUE
  <2>1. Wants(q) = {<<"grant", Of(q).phone, p>> : p \in NextPoints(tx[q].todo)}
    BY <1>2 DEF Wants
  <2>2. \E p \in NextPoints(tx[q].todo) : TRUE
    BY <1>2, <2>1
  <2>3. c \in NextPoints(tx[q].todo)
    BY <2>2
  <2>4. Level(q) = 2 + Rank[c]
    BY <1>2 DEF Level
  <2> HIDE DEF c
  <2>5. \A p \in NextPoints(tx[q].todo) : p \in Points /\ Rank[p] \in Nat /\ Rank[p] <= Rank[c] /\ Rank[c] <= Rank[p]
    BY <1>2, <2>3 DEF NextPoints
  <2> QED BY <2>3, <2>4, <2>5
<1>3. PICK k \in Wants(r) : k \in Holds(s)
  OBVIOUS
<1>4. tx[s].pc \in {"insert", "raise", "bind", "points"} /\ tx[r].pc \in {"insert", "raise", "bind", "points"}
  BY <1>3 DEF Wants
<1>5. InTx(s) /\ Holds(s) =
        {<<"invite", tx[s].inv>>}
        \cup (IF tx[s].created \/ tx[s].raised THEN {<<"user", Of(s).phone>>} ELSE {})
        \cup (IF tx[s].bound THEN {<<"role", Of(s).phone, Of(s).apt>>} ELSE {})
        \cup {<<"grant", Of(s).phone, p>> : p \in tx[s].new}
  BY <1>4 DEF Holds, InTx
<1>6. CASE tx[r].pc \in {"insert", "raise"}
  <2>1. Level(r) = 0 /\ k = <<"user", Of(r).phone>>
    BY <1>3, <1>6 DEF Level, Wants
  <2>2. tx[s].created \/ tx[s].raised
    BY <1>3, <1>5, <2>1
  <2>3. tx[s].pc \in {"bind", "points"}
    BY <1>1, <1>4, <2>2 DEF InOrder
  <2>4. CASE tx[s].pc = "bind"
    BY <2>1, <2>4 DEF Level
  <2>5. CASE tx[s].pc = "points"
    BY <1>1, <1>2, <2>1, <2>5
  <2> QED BY <2>3, <2>4, <2>5
<1>7. CASE tx[r].pc = "bind"
  <2>1. Level(r) = 1 /\ k = <<"role", Of(r).phone, Of(r).apt>>
    BY <1>3, <1>7 DEF Level, Wants
  <2>2. tx[s].bound
    BY <1>3, <1>5, <2>1
  <2>3. tx[s].pc = "points"
    BY <1>1, <1>4, <2>2 DEF InOrder
  <2> QED BY <1>1, <1>2, <2>1, <2>3
<1>8. CASE tx[r].pc = "points"
  <2>1. PICK p \in NextPoints(tx[r].todo) : k = <<"grant", Of(r).phone, p>>
    BY <1>3, <1>8 DEF Wants
  <2>2. p \in tx[s].new
    BY <1>3, <1>5, <2>1
  <2>3. tx[s].pc = "points"
    BY <1>1, <1>4, <2>2 DEF InOrder
  <2>4. Level(r) \in Nat /\ Level(r) = 2 + Rank[p]
    BY <1>1, <1>2, <1>8, <2>1
  <2>5. PICK q \in NextPoints(tx[s].todo) : Level(s) = 2 + Rank[q] /\ Level(s) \in Nat
    BY <1>1, <1>2, <2>3
  <2>6. q \in tx[s].todo
    BY <2>5 DEF NextPoints
  <2>7. Rank[p] < Rank[q] /\ Rank[p] \in Nat /\ Rank[q] \in Nat
    BY <1>1, <2>2, <2>3, <2>6 DEF InOrder
  <2> QED BY <2>4, <2>5, <2>7
<1> QED BY <1>4, <1>6, <1>7, <1>8

\* Of finitely many transactions that wait, one has got farthest: the sets of
\* those ahead shrink along the waiting, and one of them is the least.
LEMMA OrderedHasNoCycle == IInv /\ Ordered => NoWaitCycle
<1> SUFFICES ASSUME IInv, Ordered, NEW S \in SUBSET Accepts, S # {},
                    \A r \in S : \E s \in S \ {r} : Wants(r) \cap Holds(s) # {}
             PROVE  FALSE
  BY DEF NoWaitCycle
<1> DEFINE Ahead(r) == {s \in S : Level(r) < Level(s)}
           Sets == {Ahead(r) : r \in S}
<1>1. \A r \in S : Wants(r) # {}
  OBVIOUS
<1>2. \A r \in S : Level(r) \in Nat /\ \E s \in S : Level(r) < Level(s)
  BY <1>1, HolderIsAhead
<1>3. S \subseteq Active
  BY <1>1 DEF Wants, Active
<1>4. IsFiniteSet(S)
  BY <1>3, FS_Subset DEF Ordered
<1>5. Sets \subseteq FiniteSubsetsOf(S) /\ Sets # {}
  <2>1. \A r \in S : Ahead(r) \in SUBSET S
    OBVIOUS
  <2>2. FiniteSubsetsOf(S) = SUBSET S
    BY <1>4, FS_FiniteSubsetsOfFinite
  <2> HIDE DEF Ahead
  <2> QED BY <2>1, <2>2
<1>6. IsWellFoundedOn(StrictSubsetOrdering(S), FiniteSubsetsOf(S))
  BY FS_StrictSubsetOrderingWellFounded
<1> HIDE DEF Sets
<1>7. PICK X \in Sets : \A Y \in Sets : <<Y, X>> \notin StrictSubsetOrdering(S)
  BY <1>5, <1>6, WFMin
<1>8. PICK r \in S : X = Ahead(r)
  BY DEF Sets
<1>9. PICK s \in S : Level(r) < Level(s)
  BY <1>2
<1>10. Ahead(s) \subseteq Ahead(r) /\ s \in Ahead(r) /\ s \notin Ahead(s)
  BY <1>2, <1>9
<1>11. <<Ahead(s), Ahead(r)>> \in StrictSubsetOrdering(S)
  BY <1>10 DEF StrictSubsetOrdering
<1>12. Ahead(s) \in Sets
  BY DEF Sets
<1> QED BY <1>7, <1>8, <1>11, <1>12

\* No set of accepting transactions waits for itself, whatever invites they
\* accept and however many there are: PostgreSQL never finds a deadlock.
THEOREM NoDeadlock == Spec => []NoWaitCycle
<1>1. IInv /\ Ordered /\ [Next]_vars => Ordered'
  BY NextOrdered
<1>2. Spec => []Ordered
  BY Inductive, InitOrdered, <1>1, PTL DEF Spec
<1> QED BY Inductive, <1>2, OrderedHasNoCycle, PTL

=============================================================================

----------------------------- MODULE Onboarding -----------------------------
(***************************************************************************)
(* Who may open what (backend/internal/onboarding): roles in apartments,   *)
(* grants on gates and barriers, the invites that create both, and the     *)
(* console of a management company.                                        *)
(*                                                                         *)
(* The state is PostgreSQL tables.  Every statement of a handler is atomic *)
(* and a transaction runs at READ COMMITTED: its writes are seen by others *)
(* at its commit, and a statement that meets a row or a unique key written *)
(* by an open transaction waits for it.  A user is a phone (users.phone is *)
(* unique); full names, labels and audit texts are left out, and so are the *)
(* phones of administrators, whom every invite refuses.  A refused request *)
(* changes nothing and is a stuttering step.                               *)
(***************************************************************************)
EXTENDS Integers, FiniteSets

CONSTANTS
    Phones, Apts, Sites, MCs,
    Gates,      \* access points of type gate or barrier
    Entrances,  \* access points of type entrance
    Invites,    \* invite links, by their secret
    Accepts,    \* the goroutines that accept invites; bounds their overlap
    McOf,       \* management_company_id of each apartment and point
    SiteOf,     \* the site of each apartment (by its building) and point
    Rank,       \* the order of access_points.id
    Seed,       \* the owners <<phone, apartment>> of the seed migrations
    MaxCompositeGrants,
    MaxAttach,  \* bound: a direct grant begins while there are fewer grants
    NoInvite, NoApt

Points == Gates \cup Entrances
Objects == Apts \cup Points

ASSUME EstateAssumption ==
    /\ McOf \in [Objects -> MCs]
    /\ SiteOf \in [Objects -> Sites]
    /\ \A x, y \in Objects : SiteOf[x] = SiteOf[y] => McOf[x] = McOf[y]
    /\ Rank \in [Points -> Nat]
    /\ \A p, q \in Points : Rank[p] = Rank[q] => p = q
    /\ Seed \subseteq Phones \X Apts
    /\ MaxAttach \in Nat /\ MaxCompositeGrants \in Nat
    /\ NoInvite \notin Invites
    /\ NoApt \notin Apts

VARIABLES
    kind,    \* users.kind, "none" for a phone without a user
    role,    \* user_apartment_roles.role, "none" without a row
    grants,  \* user_access_grants: <<user, point, management company>>
    invite,  \* the invites
    tx,      \* the transaction of each accepting goroutine
    attach,  \* grants checked by a handler and not inserted yet
    bearer   \* history: sessions issued to a user for an invite link

vars == <<kind, role, grants, invite, tx, attach, bearer>>

Invite ==
    [target : {"apartment_owner", "apartment_resident", "access_grant"},
     phone : Phones, apt : Apts \cup {NoApt}, points : SUBSET Points,
     mc : MCs, used : BOOLEAN, expired : BOOLEAN]

Absent == [target |-> "absent"]

PCs == {"idle", "select", "insert", "raise", "bind", "points", "issue"}

Tx == [pc : PCs, inv : Invites \cup {NoInvite}, created : BOOLEAN,
       raised : BOOLEAN, bound : BOOLEAN, todo : SUBSET Points, new : SUBSET Points]

Idle == [pc |-> "idle", inv |-> NoInvite, created |-> FALSE, raised |-> FALSE,
         bound |-> FALSE, todo |-> {}, new |-> {}]

TypeOK ==
    /\ kind \in [Phones -> {"none", "resident", "owner"}]
    /\ role \in [Phones \X Apts -> {"none", "resident", "owner"}]
    /\ grants \in SUBSET (Phones \X Points \X MCs)
    /\ invite \in [Invites -> Invite \cup {Absent}]
    /\ tx \in [Accepts -> Tx]
    /\ attach \in SUBSET (Phones \X Points \X MCs)
    /\ bearer \in [Phones -> Nat]

Init ==
    /\ kind = [u \in Phones |-> IF \E a \in Apts : <<u, a>> \in Seed THEN "owner" ELSE "none"]
    /\ role = [m \in Phones \X Apts |-> IF m \in Seed THEN "owner" ELSE "none"]
    /\ grants = {}
    /\ invite = [i \in Invites |-> Absent]
    /\ tx = [r \in Accepts |-> Idle]
    /\ attach = {}
    /\ bearer = [u \in Phones |-> 0]

-----------------------------------------------------------------------------
(* What the queries read. *)

HasGrant(u, p) == \E m \in MCs : <<u, p, m>> \in grants

Member(u, a) == role[<<u, a>>] # "none"

\* Tied to the company by a role or a grant (FindUserByPhoneInMC, userInMC).
InMC(u, m) ==
    \/ \E a \in Apts : McOf[a] = m /\ Member(u, a)
    \/ \E p \in Points : <<u, p, m>> \in grants

GetApartment(a) == [mc |-> McOf[a]]

GetAccessPoint(p) == [mc |-> McOf[p], type |-> IF p \in Gates THEN "gate" ELSE "entrance"]

\* resolvePointInMC: a gate or barrier of the company; others are "not found".
OwnPoint(p, m) == GetAccessPoint(p) = [mc |-> m, type |-> "gate"]

\* INSERT ... ON CONFLICT (user_id, access_point_id) DO NOTHING.
WithGrants(u, P, m) == grants \cup {<<u, p, m>> : p \in {q \in P : ~HasGrant(u, q)}}

-----------------------------------------------------------------------------
(* The rows and keys an accepting transaction has written, hence holds.  The *)
(* UPDATE of full_name between the user and the role is left out: it locks  *)
(* the user's row again, which comes before the roles in the order anyway.  *)

InTx(r) == tx[r].pc \notin {"idle", "issue"}
Of(r) == invite[tx[r].inv]

Holds(r) ==
    IF ~InTx(r) THEN {} ELSE
    {<<"invite", tx[r].inv>>}
    \cup (IF tx[r].created \/ tx[r].raised THEN {<<"user", Of(r).phone>>} ELSE {})
    \cup (IF tx[r].bound THEN {<<"role", Of(r).phone, Of(r).apt>>} ELSE {})
    \cup {<<"grant", Of(r).phone, p>> : p \in tx[r].new}

\* Mutant of NextPoints: no ORDER BY.
AnyPoints(P) == P

\* The set-based insert takes the points in the order of their ids.
NextPoints(P) == {p \in P : \A q \in P : Rank[p] <= Rank[q]}

\* The key that the next statement of the transaction writes.
Wants(r) ==
    CASE tx[r].pc \in {"insert", "raise"} -> {<<"user", Of(r).phone>>}
      [] tx[r].pc = "bind" -> {<<"role", Of(r).phone, Of(r).apt>>}
      [] tx[r].pc = "points" -> {<<"grant", Of(r).phone, p>> : p \in NextPoints(tx[r].todo)}
      [] OTHER -> {}

Free(r, key) == \A s \in Accepts \ {r} : key \notin Holds(s)

Set(r, t) == tx' = [tx EXCEPT ![r] = t]

-----------------------------------------------------------------------------
(* AcceptInviteTx, one action per statement, and the end of AcceptInvite.  *)

Valid(i) == ~invite[i].used /\ ~invite[i].expired

\* SELECT ... FOR UPDATE and Invite.Validate.  The service reads the clock before
\* the transaction, here expiry is judged at the lock: an invite that runs out
\* while the transaction waits is refused here and accepted by the code.
AcceptBegin(r, i) ==
    /\ tx[r].pc = "idle"
    /\ invite[i] # Absent /\ Free(r, <<"invite", i>>)
    /\ Valid(i)
    /\ Set(r, [Idle EXCEPT !.pc = "select", !.inv = i])
    /\ UNCHANGED <<kind, role, grants, invite, attach, bearer>>

\* Where the transaction goes once it has the user.
Bind(t, i) ==
    IF invite[i].target = "access_grant"
    THEN [t EXCEPT !.pc = "points", !.todo = invite[i].points]
    ELSE [t EXCEPT !.pc = "bind"]

\* SELECT id, kind FROM users: sees committed users only.
SelectUser(r) ==
    LET t == tx[r] u == Of(r).phone IN
    /\ t.pc = "select"
    /\ Set(r, IF kind[u] = "none" THEN [t EXCEPT !.pc = "insert"]
              ELSE IF Of(r).target = "apartment_owner" /\ kind[u] = "resident"
              THEN [t EXCEPT !.pc = "raise"]
              ELSE Bind(t, t.inv))
    /\ UNCHANGED <<kind, role, grants, invite, attach, bearer>>

\* Mutant of InsertUser: the rows affected are not looked at.
InsertUserBlind(r) ==
    LET t == tx[r] IN
    /\ t.pc = "insert"
    /\ Free(r, <<"user", Of(r).phone>>)
    /\ Set(r, Bind([t EXCEPT !.created = TRUE], t.inv))
    /\ UNCHANGED <<kind, role, grants, invite, attach, bearer>>

\* INSERT INTO users ... ON CONFLICT DO NOTHING.  A user who appeared in
\* between is read again and goes on as he is.
InsertUser(r) ==
    LET t == tx[r] u == Of(r).phone IN
    /\ t.pc = "insert"
    /\ Free(r, <<"user", u>>)
    /\ Set(r, Bind([t EXCEPT !.created = (kind[u] = "none")], t.inv))
    /\ UNCHANGED <<kind, role, grants, invite, attach, bearer>>

\* UPDATE users SET kind = 'owner' ... WHERE kind = 'resident'.
RaiseKind(r) ==
    LET t == tx[r] u == Of(r).phone IN
    /\ t.pc = "raise"
    /\ Free(r, <<"user", u>>)
    /\ Set(r, Bind([t EXCEPT !.raised = (kind[u] = "resident")], t.inv))
    /\ UNCHANGED <<kind, role, grants, invite, attach, bearer>>

\* INSERT INTO user_apartment_roles ... ON CONFLICT DO UPDATE.
BindRole(r) ==
    LET t == tx[r] IN
    /\ t.pc = "bind"
    /\ Free(r, <<"role", Of(r).phone, Of(r).apt>>)
    /\ Set(r, [t EXCEPT !.pc = "points", !.bound = TRUE, !.todo = Of(r).points])
    /\ UNCHANGED <<kind, role, grants, invite, attach, bearer>>

\* One row of the inserts into user_access_grants: nothing on a conflict.
InsertGrant(r) ==
    LET t == tx[r] u == Of(r).phone IN
    /\ t.pc = "points"
    /\ \E p \in NextPoints(t.todo) :
         /\ Free(r, <<"grant", u, p>>)
         /\ Set(r, [t EXCEPT !.todo = @ \ {p},
                             !.new = IF HasGrant(u, p) THEN @ ELSE @ \cup {p}])
    /\ UNCHANGED <<kind, role, grants, invite, attach, bearer>>

\* Mutant of RoleAfter: the upsert takes the role of the invite.
RoleOfInvite(r, old) == IF Of(r).target = "apartment_owner" THEN "owner" ELSE "resident"

\* An owner's invite raises the role; a resident's does not lower it.
RoleAfter(r, old) ==
    IF Of(r).target = "apartment_owner" THEN "owner"
    ELSE IF old = "none" THEN "resident" ELSE old

\* Mutant of NewKind: the target of the invite is stored as the kind.
NewKindTarget(r) == Of(r).target

NewKind(r) == IF Of(r).target = "apartment_owner" THEN "owner" ELSE "resident"

\* UPDATE invites SET used_at ... WHERE used_at IS NULL, and COMMIT.
Commit(r) ==
    LET t == tx[r] u == Of(r).phone a == Of(r).apt IN
    /\ t.pc = "points" /\ t.todo = {}
    /\ ~Of(r).used
    /\ invite' = [invite EXCEPT ![t.inv].used = TRUE]
    /\ kind' = [kind EXCEPT ![u] = IF t.created THEN NewKind(r)
                                   ELSE IF t.raised THEN "owner" ELSE @]
    /\ role' = IF t.bound THEN [role EXCEPT ![<<u, a>>] = RoleAfter(r, @)] ELSE role
    /\ grants' = WithGrants(u, t.new, Of(r).mc)
    /\ Set(r, [t EXCEPT !.pc = "issue"])
    /\ UNCHANGED <<attach, bearer>>

\* The response: a session for a user this link created, and for no other.
AcceptEnd(r) ==
    /\ tx[r].pc = "issue"
    /\ bearer' = IF tx[r].created THEN [bearer EXCEPT ![Of(r).phone] = @ + 1] ELSE bearer
    /\ Set(r, Idle)
    /\ UNCHANGED <<kind, role, grants, invite, attach>>

\* A failed statement, a lost connection or a crash: the database rolls the
\* transaction back, or the answer to a committed one is lost.
AcceptFails(r) ==
    /\ tx[r].pc # "idle"
    /\ Set(r, Idle)
    /\ UNCHANGED <<kind, role, grants, invite, attach, bearer>>

-----------------------------------------------------------------------------
(* The creation and the expiry of invites. *)

CreateInvite(i, target, u, a, P, m) ==
    /\ invite[i] = Absent
    /\ invite' = [invite EXCEPT ![i] = [target |-> target, phone |-> u, apt |-> a, points |-> P,
                                        mc |-> m, used |-> FALSE, expired |-> FALSE]]
    /\ UNCHANGED <<kind, role, grants, tx, attach, bearer>>

\* Mutant of GrantPoints: any gate or barrier, of any company.
AnyGates(P, m) == P \subseteq Gates

\* NormalizeGrantPublicIDs: no duplicates, and no more than the cap.
Normalized(P) == Cardinality(P) <= MaxCompositeGrants

\* resolveGrantPoints.
GrantPoints(P, m) ==
    Normalized(P) /\ \A p \in P : GetAccessPoint(p).mc = m /\ GetAccessPoint(p).type = "gate"

CreateOwnerInvite(m, i, u, a, P) ==
    /\ GetApartment(a).mc = m
    /\ GrantPoints(P, m)
    /\ CreateInvite(i, "apartment_owner", u, a, P, m)

\* By the claims of the owner w: roles are never withdrawn, so claims are
\* at most behind the table.
CanInviteToApartment(w, a) == role[<<w, a>>] = "owner"

CreateResidentInvite(w, i, u, a) ==
    /\ CanInviteToApartment(w, a)
    /\ CreateInvite(i, "apartment_resident", u, a, {}, GetApartment(a).mc)

InviteExpires(i) ==
    /\ invite[i] # Absent /\ Valid(i)
    /\ invite' = [invite EXCEPT ![i].expired = TRUE]
    /\ UNCHANGED <<kind, role, grants, tx, attach, bearer>>

-----------------------------------------------------------------------------
(* Grants given and withdrawn by the admin of company m.                   *)

\* Mutant of Known: the company is not part of the query.
KnownAnywhere(u, m) == kind[u] # "none"

\* FindUserByPhoneInMC: a user of this company.
Known(u, m) == InMC(u, m)

\* The check has passed; the insert is a statement of its own.  MaxAttach
\* bounds the grants, inserted or not, among which one is begun.
ToAttach(u, p, m) ==
    /\ Cardinality(attach \cup grants) < MaxAttach
    /\ attach' = attach \cup {<<u, p, m>>}
    /\ UNCHANGED <<kind, role, grants, invite, tx, bearer>>

\* CreateAccessGrant: a known user gets the grant, another one an invite.
CreateAccessGrant(m, u, p) ==
    /\ GrantPoints({p}, m)
    /\ \/ Known(u, m) /\ ToAttach(u, p, m)
       \/ ~Known(u, m) /\ \E i \in Invites : CreateInvite(i, "access_grant", u, NoApt, {p}, m)

\* GrantPoint, the toggle of the matrix: up to the check userInMC.
GrantPoint(m, u, p) ==
    /\ OwnPoint(p, m)
    /\ InMC(u, m)
    /\ ToAttach(u, p, m)

\* AttachAccessGrant and grantReturning, or their failure.
Attach(u, p, m) ==
    /\ <<u, p, m>> \in attach
    /\ attach' = attach \ {<<u, p, m>>}
    /\ \/ /\ \A s \in Accepts : <<"grant", u, p>> \notin Holds(s)
          /\ grants' = WithGrants(u, {p}, m)
       \/ grants' = grants
    /\ UNCHANGED <<kind, role, invite, tx, bearer>>

\* revokeGrant: does not see the row of a transaction still open.
WithoutGrant(u, p, m) == grants \ {<<u, p, m>>}

RevokePoint(m, u, p) ==
    /\ OwnPoint(p, m)
    /\ grants' = WithoutGrant(u, p, m)
    /\ UNCHANGED <<kind, role, invite, tx, attach, bearer>>

-----------------------------------------------------------------------------
(* The console of company m. *)

\* ListResidents: the grants shown to the company, by its own column.
ListResidents(m) == {g \in Phones \X Points : <<g[1], g[2], m>> \in grants}

\* grantsBySite: the grants on the gates and barriers of site s.
GrantsBySite(s, m) == {g \in Phones \X Gates : SiteOf[g[2]] = s /\ <<g[1], g[2], m>> \in grants}

\* Those who have the role in the apartments P of the company.
With(r, P, m) == {u \in Phones : \E a \in P : McOf[a] = m /\ role[<<u, a>>] = r}

SiteInMC(s, m) == \E x \in Objects : SiteOf[x] = s /\ McOf[x] = m

\* SiteMatrix: the owners of a site with the ticks in their rows.
SiteMatrix(s, m) ==
    {g \in GrantsBySite(s, m) :
        SiteInMC(s, m) /\ g[1] \in With("owner", {a \in Apts : SiteOf[a] = s}, m)}

\* ApartmentResidents: the residents of an unfolded row with their ticks.
ApartmentResidents(a, m) ==
    {g \in GrantsBySite(SiteOf[a], m) : g[1] \in With("resident", {a}, m)}

-----------------------------------------------------------------------------
AcceptStep(r) ==
    \/ SelectUser(r) \/ InsertUser(r) \/ RaiseKind(r)
    \/ BindRole(r) \/ InsertGrant(r) \/ Commit(r) \/ AcceptEnd(r)

\* The handlers of package onboarding, with what a request may name.
AcceptInvite(r) == (\E i \in Invites : AcceptBegin(r, i)) \/ AcceptStep(r) \/ AcceptFails(r)

InviteResident(w) ==
    \E u \in Phones, a \in Apts, i \in Invites : CreateResidentInvite(w, i, u, a)

CreateOwner(m) ==
    \E u \in Phones, a \in Apts, P \in SUBSET Points, i \in Invites : CreateOwnerInvite(m, i, u, a, P)

PostAccessGrant(m) == \E u \in Phones, p \in Points : CreateAccessGrant(m, u, p)

PutGrant(m) == \E u \in Phones, p \in Points : GrantPoint(m, u, p)

DeleteGrant(m) == \E u \in Phones, p \in Points : RevokePoint(m, u, p)

\* The router: open to the bearer of a link, behind RequireResident, and
\* behind RequireAdmin with the company m of the claims.
PublicRoutes == \E r \in Accepts : AcceptInvite(r)
ResidentRoutes == \E w \in Phones : InviteResident(w)
AdminRoutes ==
    \E m \in MCs : CreateOwner(m) \/ PostAccessGrant(m) \/ PutGrant(m) \/ DeleteGrant(m)

Next ==
    \/ PublicRoutes \/ ResidentRoutes \/ AdminRoutes
    \/ \E g \in attach : Attach(g[1], g[2], g[3])
    \/ \E i \in Invites : InviteExpires(i)

Spec == Init /\ [][Next]_vars

-----------------------------------------------------------------------------
\* The user agreed to the company: by the seed or by accepting its invite.
Consented(u, m) ==
    \/ \E a \in Apts : <<u, a>> \in Seed /\ McOf[a] = m
    \/ \E i \in Invites : invite[i] # Absent /\ invite[i].used
                         /\ invite[i].phone = u /\ invite[i].mc = m

\* However admins, owners and invites interleave, nobody holds a role or a
\* grant in a company without having accepted an invite of that company.
ConsentFirst ==
    \A u \in Phones :
        /\ \A a \in Apts : Member(u, a) => Consented(u, McOf[a])
        /\ \A p \in Points : HasGrant(u, p) => Consented(u, McOf[p])

\* A grant that opens a point is listed to the company of the point, and in
\* the household's row of the matrix, so that its admin can withdraw it.
ConsoleIsComplete ==
    \A u \in Phones, p \in Points : HasGrant(u, p) =>
        /\ OwnPoint(p, McOf[p])
        /\ <<u, p>> \in ListResidents(McOf[p])
        /\ \A a \in Apts : Member(u, a) /\ SiteOf[a] = SiteOf[p] =>
             <<u, p>> \in SiteMatrix(SiteOf[a], McOf[a]) \cup ApartmentResidents(a, McOf[a])

\* Links open at most one session for a phone, and none for a user who was
\* there before: whoever else holds a link cannot become that user.
OneBearerSession ==
    \A u \in Phones : bearer[u] <= (IF \E a \in Apts : <<u, a>> \in Seed THEN 0 ELSE 1)

\* No invite, in whatever order they are accepted, lowers an owner.
OwnerStays ==
    [][\A u \in Phones :
        /\ kind[u] = "owner" => kind'[u] = "owner"
        /\ \A a \in Apts : role[<<u, a>>] = "owner" => role'[<<u, a>>] = "owner"]_vars

\* No set of accepting transactions waits for itself: the order of the
\* inserts keeps PostgreSQL from finding a deadlock.
NoWaitCycle ==
    \A S \in SUBSET Accepts :
        S # {} => \E r \in S : \A s \in S \ {r} : Wants(r) \cap Holds(s) = {}

=============================================================================

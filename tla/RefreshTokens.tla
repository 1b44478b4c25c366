--------------------------- MODULE RefreshTokens ---------------------------
(***************************************************************************)
(* A login and the rotation of its refresh token: the pages of one browser *)
(* (web/visitor: AuthContext and the single-flight refresh of client.ts),  *)
(* the cookie they share, and the whitelist in Redis behind /auth          *)
(* (backend/internal/auth).                                                *)
(*                                                                         *)
(* Every Redis command of a handler is an action.  Credentials are right   *)
(* or the request changes nothing, so a login is always accepted here.     *)
(* Access tokens are stateless: when one has expired the next call of the  *)
(* page gets a 401, which may happen to a page at any time.  /auth/me      *)
(* reads nothing but the token, so it is one answer with three outcomes.   *)
(***************************************************************************)
CONSTANTS
    Tabs,   \* pages of the browser that share the cookie
    Reqs,   \* requests in flight; bounds their overlap
    Ids,    \* refresh ids (uuid); bounds the number of tokens drawn
    NoId, NoTab

ASSUME NoIdAssumption == NoId \notin Ids /\ NoTab \notin Tabs

VARIABLES
    white,   \* the keys auth:refresh:{jti}
    fate,    \* history: what became of each id
    cookie,  \* the refresh cookie of the browser
    page,    \* AuthContext.status of each tab
    me,      \* the /auth/me of the bootstrap of each tab: under way, waiting
             \* for a refresh after a 401, or asked again after it
    req,     \* the requests in flight
    calm     \* history: so far no request met another one or a failure, and
             \* nobody logged in over a live session

vars == <<white, fate, cookie, page, me, req, calm>>

Ops == {"bootstrap", "refresh", "login", "logout"}
Results == {"none", "ok", "refused"}

Idle == [pc |-> "idle", op |-> "none", tab |-> NoTab, old |-> NoId, new |-> NoId,
         result |-> "none"]

Req == [pc : {"idle", "get", "del", "set", "revoke", "reply"}, op : Ops \cup {"none"},
        tab : Tabs \cup {NoTab}, old : Ids \cup {NoId}, new : Ids \cup {NoId},
        result : Results]

TypeOK ==
    /\ white \in SUBSET Ids
    /\ fate \in [Ids -> {"new", "drawn", "issued", "spent", "aged"}]
    /\ cookie \in Ids \cup {NoId}
    /\ page \in [Tabs -> {"loading", "authed", "anon"}]
    /\ me \in [Tabs -> {"none", "asked", "renewing", "again"}]
    /\ req \in [Reqs -> Req]
    /\ calm \in BOOLEAN

Init ==
    /\ white = {}
    /\ fate = [j \in Ids |-> "new"]
    /\ cookie = NoId
    /\ page = [t \in Tabs |-> "anon"]
    /\ me = [t \in Tabs |-> "none"]
    /\ req = [r \in Reqs |-> Idle]
    /\ calm = TRUE

Busy(t) == \E r \in Reqs : req[r].tab = t
Refreshing(t) == \E r \in Reqs : req[r].tab = t /\ req[r].op = "refresh"
Quiet == \A r \in Reqs : req[r].pc = "idle"

-----------------------------------------------------------------------------
(* The browser. *)

\* signPair draws the id of the token to come; the browser sends its cookie.
Request(op, t, j) ==
    [pc |-> CASE op = "login" -> "set" [] op = "logout" -> "revoke" [] OTHER -> "get",
     op |-> op, tab |-> t, old |-> cookie, new |-> j, result |-> "none"]

Fresh == {j \in Ids : fate[j] = "new"}

Send(r, op, t) ==
    /\ req[r] = Idle
    /\ IF op = "logout"
       THEN req' = [req EXCEPT ![r] = Request(op, t, NoId)] /\ UNCHANGED fate
       ELSE LET j == CHOOSE j \in Fresh : TRUE IN
            /\ Fresh # {}
            /\ fate' = [fate EXCEPT ![j] = "drawn"]
            /\ req' = [req EXCEPT ![r] = Request(op, t, j)]
    /\ UNCHANGED <<white, cookie>>

\* The effect of AuthProvider: a refresh before anything else.
Load(r, t) ==
    /\ ~Busy(t) /\ me[t] = "none"
    /\ Send(r, "bootstrap", t)
    /\ page' = [page EXCEPT ![t] = "loading"]
    /\ calm' = (calm /\ Quiet)
    /\ UNCHANGED me

\* refreshAccess after the 401 of some call of a page in use.  A refresh of
\* this page under way is joined, which changes nothing.
RefreshAccess(r, t) ==
    /\ page[t] = "authed" /\ ~Refreshing(t)
    /\ Send(r, "refresh", t)
    /\ calm' = (calm /\ Quiet)
    /\ UNCHANGED <<page, me>>

\* The first /auth/me gets a 401: it waits for the refresh of its page,
\* which it starts unless there is one.
MeUnauthorized(r, t) ==
    /\ me[t] = "asked"
    /\ me' = [me EXCEPT ![t] = "renewing"]
    /\ \/ ~Refreshing(t) /\ Send(r, "refresh", t) /\ calm' = (calm /\ Quiet)
       \/ Refreshing(t) /\ UNCHANGED <<white, fate, cookie, req, calm>>
    /\ UNCHANGED page

\* Mutant of MeAnswered: an error of /auth/me is caught nowhere.
MeUncaught(t) ==
    /\ me[t] \in {"asked", "again"}
    /\ me' = [me EXCEPT ![t] = "none"]
    /\ \/ page' = [page EXCEPT ![t] = "authed"]
       \/ UNCHANGED page
    /\ UNCHANGED <<white, fate, cookie, req, calm>>

\* The bootstrap ends: with the user, or in its catch (no connection, an
\* error of the server, a second 401), where the cookie stays what it is.
\* Whatever the page has become meanwhile is overwritten.
MeAnswered(t) ==
    /\ me[t] \in {"asked", "again"}
    /\ me' = [me EXCEPT ![t] = "none"]
    /\ \E status \in {"authed", "anon"} : page' = [page EXCEPT ![t] = status]
    /\ UNCHANGED <<white, fate, cookie, req, calm>>

\* The form of LoginPage, which does not wait for the bootstrap, or the
\* link of an invite (IssueForUser).
Login(r, t) ==
    /\ page[t] # "authed"
    /\ \A s \in Reqs : req[s].op = "login" => req[s].tab # t
    /\ Send(r, "login", t)
    /\ calm' = (calm /\ Quiet /\ cookie \notin white)
    /\ UNCHANGED <<page, me>>

Logout(r, t) ==
    /\ page[t] = "authed"
    /\ \A s \in Reqs : req[s].op = "logout" => req[s].tab # t
    /\ Send(r, "logout", t)
    /\ calm' = (calm /\ Quiet)
    /\ UNCHANGED <<page, me>>

\* A reload drops the requests of the page; the server goes on with them.
Reload(t) ==
    /\ Busy(t) \/ me[t] # "none"
    /\ req' = [r \in Reqs |-> IF req[r].tab = t THEN [req[r] EXCEPT !.tab = NoTab] ELSE req[r]]
    /\ page' = [page EXCEPT ![t] = "anon"]
    /\ me' = [me EXCEPT ![t] = "none"]
    /\ calm' = FALSE
    /\ UNCHANGED <<white, fate, cookie>>

-----------------------------------------------------------------------------
(* The server. *)

Step(r, pc) == req' = [req EXCEPT ![r].pc = pc]
Reply(r, result) == req' = [req EXCEPT ![r].pc = "reply", ![r].result = result]

Spend(j) == fate' = IF j \in Ids THEN [fate EXCEPT ![j] = "spent"] ELSE fate

\* Rotate: the old id must be on the whitelist.
RotateGet(r) ==
    /\ req[r].pc = "get"
    /\ IF req[r].old \in white THEN Step(r, "del") ELSE Reply(r, "refused")
    /\ UNCHANGED <<white, fate, cookie, page, me, calm>>

\* Mutant of RotateDel: the old id is left to its TTL.
RotateKeep(r) ==
    /\ req[r].pc = "del"
    /\ Step(r, "set")
    /\ UNCHANGED <<white, fate, cookie, page, me, calm>>

RotateDel(r) ==
    /\ req[r].pc = "del"
    /\ white' = white \ {req[r].old}
    /\ Spend(req[r].old)
    /\ Step(r, "set")
    /\ UNCHANGED <<cookie, page, me, calm>>

\* Mutant of IssueSet: the rotation renews the key of the old token too.
IssueBoth(r) ==
    /\ req[r].pc = "set"
    /\ white' = white \cup ({req[r].old, req[r].new} \cap Ids)
    /\ fate' = [fate EXCEPT ![req[r].new] = "issued"]
    /\ Reply(r, "ok")
    /\ UNCHANGED <<cookie, page, me, calm>>

\* The SET of Issue (login) or of Rotate.
IssueSet(r) ==
    /\ req[r].pc = "set"
    /\ white' = white \cup {req[r].new}
    /\ fate' = [fate EXCEPT ![req[r].new] = "issued"]
    /\ Reply(r, "ok")
    /\ UNCHANGED <<cookie, page, me, calm>>

\* Logout: by the id in the cookie, which need not be live.
LogoutRevoke(r) ==
    /\ req[r].pc = "revoke"
    /\ white' = white \ {req[r].old}
    /\ Spend(req[r].old)
    /\ Reply(r, "ok")
    /\ UNCHANGED <<cookie, page, me, calm>>

\* A Redis command fails, or takes effect and its answer is lost.  Logout
\* answers 204 all the same, the others refuse.
RedisFails(r) ==
    LET t == req[r] IN
    /\ t.pc \in {"get", "del", "set", "revoke"}
    /\ Reply(r, IF t.op = "logout" THEN "ok" ELSE "refused")
    /\ \/ UNCHANGED <<white, fate>>
       \/ t.pc \in {"del", "revoke"} /\ white' = white \ {t.old} /\ Spend(t.old)
       \/ /\ t.pc = "set" /\ white' = white \cup {t.new}
          /\ fate' = [fate EXCEPT ![t.new] = "issued"]
    /\ calm' = FALSE
    /\ UNCHANGED <<cookie, page, me>>

\* The TTL of a key.
Expires(j) ==
    /\ j \in white
    /\ white' = white \ {j}
    /\ fate' = [fate EXCEPT ![j] = "aged"]
    /\ UNCHANGED <<cookie, page, me, req, calm>>

-----------------------------------------------------------------------------
(* The answer. *)

\* Set-Cookie: a new token, or none after a logout.  A refusal sets nothing.
CookieAfter(t) ==
    IF t.result # "ok" THEN cookie ELSE IF t.op = "logout" THEN NoId ELSE t.new

\* Mutant of PageAfter: the answer itself becomes the status.
PageAsAnswered(t) == IF t.op = "refresh" THEN page[t.tab] ELSE t.result

\* A refusal ends the session of the page, except that of a login; only a
\* login shows the user at once, a bootstrap has to ask who it is.
PageAfter(t) ==
    IF t.op = "logout" \/ (t.result = "refused" /\ t.op # "login") THEN "anon"
    ELSE IF t.op = "login" /\ t.result = "ok" THEN "authed" ELSE page[t.tab]

MeAfter(t) ==
    IF t.op = "bootstrap" /\ t.result = "ok" THEN "asked"
    ELSE IF t.op = "refresh" /\ me[t.tab] = "renewing"
         THEN IF t.result = "ok" THEN "again" ELSE "none"
         ELSE me[t.tab]

Receive(r) ==
    LET t == req[r] IN
    /\ t.pc = "reply" /\ t.tab # NoTab
    /\ cookie' = CookieAfter(t)
    /\ page' = [page EXCEPT ![t.tab] = PageAfter(t)]
    /\ me' = [me EXCEPT ![t.tab] = MeAfter(t)]
    /\ req' = [req EXCEPT ![r] = Idle]
    /\ UNCHANGED <<white, fate, calm>>

\* The server crashes, the connection breaks, or the answer comes to a page
\* that has gone: doRefresh and the bootstrap count an error as a refusal.
Lost(r) ==
    LET t == [req[r] EXCEPT !.result = "refused"] IN
    /\ t.pc # "idle"
    /\ IF t.tab = NoTab THEN UNCHANGED <<page, me>>
       ELSE /\ page' = [page EXCEPT ![t.tab] = PageAfter(t)]
            /\ me' = [me EXCEPT ![t.tab] = MeAfter(t)]
    /\ req' = [req EXCEPT ![r] = Idle]
    /\ calm' = FALSE
    /\ UNCHANGED <<white, fate, cookie>>

-----------------------------------------------------------------------------
Serve(r) == RotateGet(r) \/ RotateDel(r) \/ IssueSet(r) \/ LogoutRevoke(r)

Next ==
    \/ \E r \in Reqs, t \in Tabs :
          Load(r, t) \/ RefreshAccess(r, t) \/ MeUnauthorized(r, t) \/ Login(r, t) \/ Logout(r, t)
    \/ \E t \in Tabs : MeAnswered(t) \/ Reload(t)
    \/ \E r \in Reqs : Serve(r) \/ RedisFails(r) \/ Receive(r) \/ Lost(r)
    \/ \E j \in Ids : Expires(j)

\* A handler that has started runs on, and its answer arrives or is lost;
\* so does that of /auth/me, unless it was a 401.
Spec ==
    /\ Init /\ [][Next]_vars
    /\ \A r \in Reqs : WF_vars(Serve(r)) /\ WF_vars(Receive(r) \/ Lost(r))
    /\ \A t \in Tabs : WF_vars(MeAnswered(t))

-----------------------------------------------------------------------------
\* A refresh id that was rotated, revoked or has aged never comes back to
\* the whitelist: a copy of a spent token is refused for ever.
SpentStaysSpent ==
    [][\A j \in Ids : fate[j] \in {"spent", "aged"} => j \notin white']_vars

\* As long as the history is calm, the whitelist holds the token
\* in the cookie and no other between requests: a browser has one session,
\* a logout leaves none, and a rotation never loses it.
OneSession ==
    calm /\ Quiet =>
        /\ white \subseteq {cookie}
        /\ cookie \in Ids \ white => fate[cookie] = "aged"

\* A page does not show "checking the session" for ever, though its bootstrap
\* has two answers to wait for and the second may start or join a refresh.
LoadingEnds == \A t \in Tabs : page[t] = "loading" ~> page[t] # "loading"

\* refresh_store.go:47 says that Rotate checks the old id and replaces it
\* atomically: an id is given a successor only if neither another rotation
\* nor a logout has spent it since Rotate found it.
ReplacesAtomically ==
    [][\A r \in Reqs : RotateDel(r) => fate[req[r].old] # "spent"]_vars

=============================================================================

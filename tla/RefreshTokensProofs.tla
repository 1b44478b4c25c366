------------------------ MODULE RefreshTokensProofs ------------------------
(***************************************************************************)
(* A spent refresh token stays spent, for any number of pages, requests    *)
(* and ids, with failures, crashes and reloads.                            *)
(***************************************************************************)
EXTENDS RefreshTokens, TLAPS

Known(x) == x \in Ids => fate[x] \in {"issued", "spent", "aged"}

\* The inductive strengthening.  The whitelist is the set of the issued ids;
\* the browser only has ids that were issued; an id that a request is about
\* to issue was drawn by this request alone and nobody has seen it.
WhiteIsIssued == \A j \in Ids : j \in white <=> fate[j] = "issued"

BrowserKnows == Known(cookie) /\ \A r \in Reqs : Known(req[r].old)

DrawnAlone ==
    \A r \in Reqs :
        /\ req[r].pc \in {"get", "del", "set"} => req[r].new \in Ids /\ fate[req[r].new] = "drawn"
        /\ req[r].new \in Ids =>
             /\ fate[req[r].new] # "new"
             /\ \A s \in Reqs : req[s].new = req[r].new => s = r

Answered ==
    \A r \in Reqs :
        /\ req[r].pc = "revoke" => req[r].op = "logout"
        /\ req[r].pc \in {"get", "del", "set"} => req[r].op # "logout"
        /\ req[r].pc = "reply" /\ req[r].result = "ok" /\ req[r].op # "logout" =>
              req[r].new \in Ids /\ Known(req[r].new)

IInv == TypeOK /\ WhiteIsIssued /\ BrowserKnows /\ DrawnAlone /\ Answered

NoneComesBack == \A j \in Ids : fate[j] \in {"spent", "aged"} => j \notin white'

USE NoIdAssumption

-----------------------------------------------------------------------------
LEMMA InitIInv == Init => IInv
  BY DEF Init, IInv, TypeOK, WhiteIsIssued, BrowserKnows, DrawnAlone, Answered, Known,
         Idle, Req, Ops, Results

\* The types of what only the browser keeps.
Pages ==
    /\ page \in [Tabs -> {"loading", "authed", "anon"}]
    /\ me \in [Tabs -> {"none", "asked", "renewing", "again"}]

LEMMA SendStep ==
    ASSUME IInv, NEW r \in Reqs, NEW t \in Tabs, NEW op \in Ops, Send(r, op, t),
           Pages', calm' \in BOOLEAN
    PROVE  IInv' /\ NoneComesBack
<1>1. CASE op = "logout"
  BY <1>1 DEF IInv, TypeOK, WhiteIsIssued, BrowserKnows, DrawnAlone, Answered, Known,
              Pages, NoneComesBack, Send, Request, Idle, Req, Ops, Results
<1>2. CASE op # "logout"
  <2> DEFINE j == CHOOSE j \in Fresh : TRUE
  <2>1. /\ j \in Ids /\ fate[j] = "new"
        /\ fate' = [fate EXCEPT ![j] = "drawn"]
        /\ req' = [req EXCEPT ![r] = Request(op, t, j)]
        /\ UNCHANGED <<white, cookie>>
    BY <1>2 DEF Send, Fresh
  <2> HIDE DEF j
  <2>2. TypeOK'
    BY <1>2, <2>1 DEF IInv, TypeOK, Pages, Request, Req, Ops, Results
  <2>3. WhiteIsIssued' /\ NoneComesBack
    BY <2>1 DEF IInv, TypeOK, WhiteIsIssued, NoneComesBack
  <2>4. BrowserKnows'
    BY <2>1 DEF IInv, TypeOK, BrowserKnows, Known, Request
  <2>5. DrawnAlone'
    BY <1>2, <2>1 DEF IInv, TypeOK, DrawnAlone, Request
  <2>6. Answered'
    BY <1>2, <2>1 DEF IInv, TypeOK, Answered, Known, Request
  <2> QED BY <2>2, <2>3, <2>4, <2>5, <2>6 DEF IInv
<1> QED BY <1>1, <1>2

\* A request that goes on to the stage p, or to its answer.
Moved(r, p) ==
    /\ req' \in [Reqs -> Req]
    /\ \A s \in Reqs :
          /\ req'[s].op = req[s].op /\ req'[s].old = req[s].old /\ req'[s].new = req[s].new
          /\ s # r => req'[s] = req[s]
    /\ req'[r].pc = p

LEMMA ReplyMoves ==
    ASSUME TypeOK, NEW r \in Reqs, NEW n \in Results, Reply(r, n)
    PROVE  Moved(r, "reply") /\ req'[r].result = n
<1>1. req[r] \in Req
  BY DEF TypeOK
<1>2. /\ req' = [req EXCEPT ![r] = [req[r] EXCEPT !.pc = "reply", !.result = n]]
      /\ [req[r] EXCEPT !.pc = "reply", !.result = n] \in Req
  BY <1>1 DEF TypeOK, Reply, Req, Results
<1> QED BY <1>1, <1>2 DEF TypeOK, Moved, Req

LEMMA StepMoves ==
    ASSUME TypeOK, NEW r \in Reqs, NEW p \in {"del", "set"}, Step(r, p)
    PROVE  Moved(r, p)
<1>1. req[r] \in Req
  BY DEF TypeOK
<1>2. /\ req' = [req EXCEPT ![r] = [req[r] EXCEPT !.pc = p]]
      /\ [req[r] EXCEPT !.pc = p] \in Req
  BY <1>1 DEF TypeOK, Step, Req
<1> QED BY <1>1, <1>2 DEF TypeOK, Moved, Req

\* The three things a step of a handler can do to the whitelist: the SET of
\* the new id, the DEL of the old one, and nothing.
LEMMA SetStep ==
    ASSUME IInv, NEW r \in Reqs, req[r].pc = "set", Moved(r, "reply"),
           white' = white \cup {req[r].new}, fate' = [fate EXCEPT ![req[r].new] = "issued"],
           UNCHANGED <<cookie, page, me>>, calm' \in BOOLEAN
    PROVE  IInv' /\ NoneComesBack
<1>1. req[r].new \in Ids /\ fate[req[r].new] = "drawn"
  BY DEF IInv, DrawnAlone
<1>2. TypeOK'
  BY <1>1 DEF IInv, TypeOK, Moved
<1>3. WhiteIsIssued' /\ NoneComesBack
  BY <1>1 DEF IInv, TypeOK, WhiteIsIssued, NoneComesBack
<1>4. BrowserKnows'
  BY <1>1 DEF IInv, TypeOK, BrowserKnows, Known, Moved
<1>5. DrawnAlone'
  BY <1>1 DEF IInv, TypeOK, DrawnAlone, Moved
<1>6. Answered'
  BY <1>1 DEF IInv, TypeOK, Answered, Known, Moved
<1> QED BY <1>2, <1>3, <1>4, <1>5, <1>6 DEF IInv

LEMMA DelStep ==
    ASSUME IInv, NEW r \in Reqs, NEW p \in {"set", "reply"}, Moved(r, p),
           p = "set" => req[r].pc = "del",
           p = "reply" => req[r].op = "logout" \/ req'[r].result # "ok",
           white' = white \ {req[r].old}, Spend(req[r].old),
           UNCHANGED <<cookie, page, me>>, calm' \in BOOLEAN
    PROVE  IInv' /\ NoneComesBack
<1>1. Known(req[r].old) /\ req[r].old \in Ids \cup {NoId}
  BY DEF IInv, TypeOK, BrowserKnows, Req
<1>2. TypeOK'
  BY <1>1 DEF IInv, TypeOK, Moved, Spend
<1>3. WhiteIsIssued' /\ NoneComesBack
  BY <1>1 DEF IInv, TypeOK, WhiteIsIssued, NoneComesBack, Spend
<1>4. BrowserKnows'
  BY <1>1 DEF IInv, TypeOK, BrowserKnows, Known, Moved, Spend
<1>5. DrawnAlone'
  BY <1>1 DEF IInv, TypeOK, DrawnAlone, Known, Moved, Spend
<1>6. Answered'
  BY <1>1 DEF IInv, TypeOK, Answered, Known, Moved, Spend
<1> QED BY <1>2, <1>3, <1>4, <1>5, <1>6 DEF IInv

LEMMA NoStep ==
    ASSUME IInv, NEW r \in Reqs, NEW p \in {"del", "reply"}, Moved(r, p),
           p = "del" => req[r].pc = "get",
           p = "reply" => req[r].op = "logout" \/ req'[r].result # "ok",
           UNCHANGED <<white, fate, cookie, page, me>>, calm' \in BOOLEAN
    PROVE  IInv' /\ NoneComesBack
<1>1. TypeOK' /\ WhiteIsIssued' /\ NoneComesBack
  BY DEF IInv, TypeOK, Moved, WhiteIsIssued, NoneComesBack
<1>2. BrowserKnows' /\ DrawnAlone'
  BY DEF IInv, TypeOK, BrowserKnows, DrawnAlone, Known, Moved
<1>3. Answered'
  BY DEF IInv, TypeOK, Answered, Known, Moved
<1> QED BY <1>1, <1>2, <1>3 DEF IInv

LEMMA ServeStep ==
    ASSUME IInv, NEW r \in Reqs, Serve(r)
    PROVE  IInv' /\ NoneComesBack
<1> USE DEF IInv
<1>1. CASE RotateGet(r)
  <2>1. CASE req[r].old \in white
    BY <1>1, <2>1, StepMoves, NoStep DEF RotateGet, TypeOK
  <2>2. CASE req[r].old \notin white
    BY <1>1, <2>2, ReplyMoves, NoStep DEF RotateGet, TypeOK, Results
  <2> QED BY <2>1, <2>2
<1>2. CASE RotateDel(r)
  BY <1>2, StepMoves, DelStep DEF RotateDel, TypeOK
<1>3. CASE IssueSet(r)
  BY <1>3, ReplyMoves, SetStep DEF IssueSet, TypeOK, Results
<1>4. CASE LogoutRevoke(r)
  BY <1>4, ReplyMoves, DelStep DEF LogoutRevoke, Answered, TypeOK, Results
<1> QED BY <1>1, <1>2, <1>3, <1>4 DEF Serve

LEMMA RedisFailsStep ==
    ASSUME IInv, NEW r \in Reqs, RedisFails(r)
    PROVE  IInv' /\ NoneComesBack
<1> DEFINE n == IF req[r].op = "logout" THEN "ok" ELSE "refused"
<1>1. /\ req[r].pc \in {"get", "del", "set", "revoke"} /\ Reply(r, n) /\ n \in Results
      /\ UNCHANGED <<cookie, page, me>> /\ calm' \in BOOLEAN
  BY DEF RedisFails, Results
<1>2. Moved(r, "reply") /\ (req[r].op = "logout" \/ req'[r].result # "ok")
  BY <1>1, ReplyMoves DEF IInv
<1>3. CASE UNCHANGED <<white, fate>>
  BY <1>1, <1>2, <1>3, NoStep
<1>4. CASE white' = white \ {req[r].old} /\ Spend(req[r].old)
  BY <1>1, <1>2, <1>4, DelStep
<1>5. CASE /\ req[r].pc = "set" /\ white' = white \cup {req[r].new}
           /\ fate' = [fate EXCEPT ![req[r].new] = "issued"]
  BY <1>1, <1>2, <1>5, SetStep
<1> QED BY <1>3, <1>4, <1>5 DEF RedisFails

\* A request ends: its answer is received or lost.
LEMMA EndStep ==
    ASSUME IInv, NEW r \in Reqs, req' = [req EXCEPT ![r] = Idle],
           cookie' \in Ids \cup {NoId}, Known(cookie'),
           Pages', calm' \in BOOLEAN, UNCHANGED <<white, fate>>
    PROVE  IInv' /\ NoneComesBack
<1>1. TypeOK' /\ WhiteIsIssued' /\ NoneComesBack
  BY DEF IInv, TypeOK, Pages, WhiteIsIssued, NoneComesBack, Idle, Req, Results
<1>2. BrowserKnows'
  BY DEF IInv, TypeOK, BrowserKnows, Known, Idle
<1>3. DrawnAlone' /\ Answered'
  BY DEF IInv, TypeOK, DrawnAlone, Answered, Known, Idle
<1> QED BY <1>1, <1>2, <1>3 DEF IInv

LEMMA ReceiveStep ==
    ASSUME IInv, NEW r \in Reqs, Receive(r)
    PROVE  IInv' /\ NoneComesBack
<1>1. req[r] \in Req /\ req[r].tab \in Tabs /\ req[r].pc = "reply"
  BY DEF IInv, TypeOK, Receive, Req
<1>2. cookie' \in Ids \cup {NoId} /\ Known(cookie')
  <2>1. cookie' = CookieAfter(req[r])
    BY DEF Receive
  <2>2. CASE req[r].result # "ok" \/ req[r].op = "logout"
    BY <2>1, <2>2 DEF IInv, TypeOK, BrowserKnows, Known, CookieAfter
  <2>3. CASE req[r].result = "ok" /\ req[r].op # "logout"
    BY <1>1, <2>1, <2>3 DEF IInv, Answered, CookieAfter
  <2> QED BY <2>2, <2>3
<1>3. Pages' /\ calm' \in BOOLEAN
  BY <1>1 DEF IInv, TypeOK, Pages, Receive, PageAfter, MeAfter
<1> QED BY <1>2, <1>3, EndStep DEF Receive

LEMMA LostStep ==
    ASSUME IInv, NEW r \in Reqs, Lost(r)
    PROVE  IInv' /\ NoneComesBack
<1>1. req[r] \in Req /\ req[r].tab \in Tabs \cup {NoTab}
  BY DEF IInv, TypeOK, Req
<1>2. Pages'
  <2> DEFINE q == [req[r] EXCEPT !.result = "refused"]
  <2>1. q.tab = req[r].tab
    BY <1>1 DEF Req
  <2>2. \/ /\ PageAfter(q) \in {"loading", "authed", "anon"}
           /\ MeAfter(q) \in {"none", "asked", "renewing", "again"}
        \/ req[r].tab = NoTab
    BY <1>1, <2>1 DEF IInv, TypeOK, PageAfter, MeAfter
  <2> QED BY <1>1, <2>1, <2>2 DEF IInv, TypeOK, Pages, Lost
<1>3. cookie' \in Ids \cup {NoId} /\ Known(cookie')
  BY DEF IInv, TypeOK, BrowserKnows, Known, Lost
<1> QED BY <1>2, <1>3, EndStep DEF Lost

LEMMA ReloadStep ==
    ASSUME IInv, NEW t \in Tabs, Reload(t)
    PROVE  IInv' /\ NoneComesBack
<1>1. /\ req' \in [Reqs -> Req]
      /\ \A s \in Reqs :
            /\ req'[s].op = req[s].op /\ req'[s].old = req[s].old /\ req'[s].new = req[s].new
            /\ req'[s].pc = req[s].pc /\ req'[s].result = req[s].result
  BY DEF IInv, TypeOK, Reload, Req
<1>2. TypeOK' /\ WhiteIsIssued' /\ NoneComesBack
  BY <1>1 DEF IInv, TypeOK, WhiteIsIssued, NoneComesBack, Reload
<1>3. BrowserKnows' /\ DrawnAlone' /\ Answered'
  BY <1>1 DEF IInv, TypeOK, BrowserKnows, DrawnAlone, Answered, Known, Reload
<1> QED BY <1>2, <1>3 DEF IInv

LEMMA ExpiresStep ==
    ASSUME IInv, NEW j \in Ids, Expires(j)
    PROVE  IInv' /\ NoneComesBack
<1>1. fate[j] = "issued"
  BY DEF IInv, WhiteIsIssued, Expires
<1>2. TypeOK' /\ WhiteIsIssued' /\ NoneComesBack
  BY <1>1 DEF IInv, TypeOK, WhiteIsIssued, NoneComesBack, Expires
<1>3. BrowserKnows' /\ DrawnAlone' /\ Answered'
  BY <1>1 DEF IInv, TypeOK, BrowserKnows, DrawnAlone, Answered, Known, Expires
<1> QED BY <1>2, <1>3 DEF IInv

\* The page goes on by itself: the server and the whitelist know nothing of it.
LEMMA BrowserStep ==
    ASSUME IInv, Pages', UNCHANGED <<white, fate, cookie, req, calm>>
    PROVE  IInv' /\ NoneComesBack
<1>1. TypeOK' /\ WhiteIsIssued' /\ NoneComesBack
  BY DEF IInv, TypeOK, Pages, WhiteIsIssued, NoneComesBack
<1>2. BrowserKnows' /\ DrawnAlone' /\ Answered'
  BY DEF IInv, BrowserKnows, DrawnAlone, Answered, Known
<1> QED BY <1>1, <1>2 DEF IInv

\* The browser starts a request, or joins one.
Ask(r, t) ==
    \/ Load(r, t) \/ RefreshAccess(r, t) \/ MeUnauthorized(r, t)
    \/ Login(r, t) \/ Logout(r, t)

LEMMA AskStep ==
    ASSUME IInv, NEW r \in Reqs, NEW t \in Tabs,
           Ask(r, t)
    PROVE  IInv' /\ NoneComesBack
<1>1. Pages /\ calm \in BOOLEAN
  BY DEF IInv, TypeOK, Pages
<1>2. CASE Load(r, t)
  BY <1>1, <1>2, SendStep DEF Load, Pages, Ops
<1>3. CASE RefreshAccess(r, t)
  BY <1>1, <1>3, SendStep DEF RefreshAccess, Pages, Ops
<1>4. CASE Login(r, t)
  BY <1>1, <1>4, SendStep DEF Login, Pages, Ops
<1>5. CASE Logout(r, t)
  BY <1>1, <1>5, SendStep DEF Logout, Pages, Ops
<1>6. CASE MeUnauthorized(r, t)
  <2>1. Pages'
    BY <1>1, <1>6 DEF MeUnauthorized, Pages
  <2> QED BY <1>1, <1>6, <2>1, SendStep, BrowserStep DEF MeUnauthorized, Ops
<1> QED BY <1>2, <1>3, <1>4, <1>5, <1>6 DEF Ask

LEMMA NextStep ==
    ASSUME IInv, [Next]_vars
    PROVE  IInv' /\ NoneComesBack
<1>0. ASSUME NEW t \in Tabs, MeAnswered(t) PROVE IInv' /\ NoneComesBack
  <2>1. Pages'
    BY <1>0 DEF MeAnswered, IInv, TypeOK, Pages
  <2> QED BY <1>0, <2>1, BrowserStep DEF MeAnswered
<1>1. CASE Next
  BY <1>0, <1>1, AskStep, ReloadStep, ServeStep, RedisFailsStep, ReceiveStep, LostStep, ExpiresStep
     DEF Next, Ask
<1>2. CASE UNCHANGED vars
  <2>1. TypeOK' /\ WhiteIsIssued' /\ NoneComesBack
    BY <1>2 DEF vars, IInv, TypeOK, WhiteIsIssued, NoneComesBack
  <2>2. BrowserKnows' /\ DrawnAlone' /\ Answered'
    BY <1>2 DEF vars, IInv, BrowserKnows, DrawnAlone, Answered, Known
  <2> QED BY <2>1, <2>2 DEF IInv
<1> QED BY <1>1, <1>2

LEMMA Inductive == Spec => []IInv
<1>1. IInv /\ [Next]_vars => IInv'
  BY NextStep
<1> QED BY InitIInv, <1>1, PTL DEF Spec

-----------------------------------------------------------------------------
\* Every variable keeps its type, for any number of pages, requests and ids:
\* no handler issues an id that was never drawn.
THEOREM TypeCorrect == Spec => []TypeOK
<1>1. IInv => TypeOK
  BY DEF IInv
<1> QED BY Inductive, <1>1, PTL

\* A refresh id that was rotated, revoked or has aged never comes back to
\* the whitelist, whatever overlaps, fails or is lost between the GET, DEL
\* and SET of Rotate.
THEOREM SpentForEver == Spec => SpentStaysSpent
<1>1. IInv /\ [Next]_vars =>
        [\A j \in Ids : fate[j] \in {"spent", "aged"} => j \notin white']_vars
  BY NextStep DEF NoneComesBack
<1> QED BY Inductive, <1>1, PTL DEF Spec, SpentStaysSpent

-----------------------------------------------------------------------------
(* The session of a browser as long as the history is calm.                *)

\* The id j is the session, if there still is one.
Session(j) == white \subseteq {j} /\ (j \in Ids \ white => fate[j] = "aged")

\* What holds at each stage of the one request there is.
Stage(r) ==
    /\ req[r].pc \in {"get", "del", "revoke"} => req[r].old = cookie /\ Session(cookie)
    /\ req[r].pc = "set" => white = {}
    /\ req[r].pc = "reply" =>
         \/ req[r].result = "ok" /\ req[r].op = "logout" /\ white = {}
         \/ req[r].result = "ok" /\ req[r].op # "logout" /\ Session(req[r].new)
         \/ req[r].result = "refused" /\ cookie \notin white /\ Session(cookie)

Single == \A r, s \in Reqs : req[r].pc # "idle" /\ s # r => req[s].pc = "idle"

Calm == Single /\ (\A r \in Reqs : Stage(r)) /\ (Quiet => Session(cookie))

CalmInv == calm => Calm

LEMMA InitCalm == Init => CalmInv
  BY DEF Init, CalmInv, Calm, Single, Stage, Session, Idle

\* The browser starts a request while nothing else is under way.
LEMMA AskCalm ==
    ASSUME IInv, CalmInv, NEW r \in Reqs, NEW t \in Tabs,
           Ask(r, t), calm'
    PROVE  Calm'
<1>0. CASE UNCHANGED <<white, fate, cookie, req, calm>>
  BY <1>0 DEF CalmInv, Calm, Single, Stage, Session, Quiet
<1> SUFFICES ASSUME calm, Quiet, NEW op \in Ops, Send(r, op, t),
                    op = "login" => cookie \notin white
             PROVE  Calm'
  BY <1>0 DEF Ask, Load, RefreshAccess, MeUnauthorized, Login, Logout, Ops
<1>1. Quiet /\ Session(cookie)
  BY DEF CalmInv, Calm
<1>2. PICK j \in Ids \cup {NoId} :
        /\ req' = [req EXCEPT ![r] = Request(op, t, j)]
        /\ fate' = fate \/ (fate' = [fate EXCEPT ![j] = "drawn"] /\ fate[j] = "new")
        /\ UNCHANGED <<white, cookie>>
  BY DEF Send, Fresh
<1>3. Session(cookie)'
  BY <1>1, <1>2 DEF Session, IInv, TypeOK
<1>4. /\ \A s \in Reqs : s # r => req'[s].pc = "idle"
      /\ req'[r].pc \in {"get", "set", "revoke"} /\ req'[r].old = cookie
      /\ req'[r].pc = "set" => op = "login"
  BY <1>1, <1>2 DEF Quiet, Request, IInv, TypeOK
<1>5. op = "login" => white' = {}
  BY <1>1, <1>2 DEF Session
<1>6. Stage(r)'
  BY <1>2, <1>3, <1>4, <1>5 DEF Stage
<1>7. \A s \in Reqs : Stage(s)'
  BY <1>4, <1>6 DEF Stage
<1> QED BY <1>3, <1>4, <1>7 DEF Calm, Single

\* The one request goes on; then it is at its new stage.
LEMMA MovedCalm ==
    ASSUME Calm, NEW r \in Reqs, req[r].pc # "idle",
           NEW p \in {"del", "set", "reply"}, Moved(r, p), Stage(r)'
    PROVE  Calm'
<1>1. \A s \in Reqs : s # r => req'[s].pc = "idle"
  BY DEF Calm, Single, Moved
<1>2. req'[r].pc # "idle"
  BY DEF Moved
<1>3. \A s \in Reqs : Stage(s)'
  BY <1>1 DEF Stage
<1> QED BY <1>1, <1>2, <1>3 DEF Calm, Single, Quiet

LEMMA ServeCalm == ASSUME IInv, Calm, NEW r \in Reqs, Serve(r) PROVE Calm'
<1>0. TypeOK /\ Stage(r) /\ req[r] \in Req
  BY DEF IInv, TypeOK, Calm
<1>1. CASE RotateGet(r)
  <2>1. CASE req[r].old \in white
    <3>1. Moved(r, "del") /\ req[r].pc = "get" /\ UNCHANGED <<white, fate, cookie>>
      BY <1>0, <1>1, <2>1, StepMoves DEF RotateGet
    <3>2. Stage(r)'
      BY <1>0, <3>1 DEF Stage, Session, Moved
    <3> QED BY <3>1, <3>2, MovedCalm
  <2>2. CASE req[r].old \notin white
    <3>1. /\ Moved(r, "reply") /\ req'[r].result = "refused"
          /\ req[r].pc = "get" /\ UNCHANGED <<white, fate, cookie>>
      BY <1>0, <1>1, <2>2, ReplyMoves DEF RotateGet, Results
    <3>2. Stage(r)'
      BY <1>0, <2>2, <3>1 DEF Stage, Session, Moved
    <3> QED BY <3>1, <3>2, MovedCalm
  <2> QED BY <2>1, <2>2
<1>2. CASE RotateDel(r)
  <2>1. Moved(r, "set") /\ req[r].pc = "del" /\ white' = white \ {req[r].old}
    BY <1>0, <1>2, StepMoves DEF RotateDel
  <2>2. Stage(r)'
    BY <1>0, <2>1 DEF Stage, Session, Moved
  <2> QED BY <2>1, <2>2, MovedCalm
<1>3. CASE IssueSet(r)
  <2>1. /\ Moved(r, "reply") /\ req'[r].result = "ok" /\ req[r].pc = "set"
        /\ white' = white \cup {req[r].new} /\ UNCHANGED cookie
    BY <1>0, <1>3, ReplyMoves DEF IssueSet, Results
  <2>2. req[r].op # "logout"
    BY <2>1 DEF IInv, Answered
  <2>3. Stage(r)'
    BY <1>0, <2>1, <2>2 DEF Stage, Session, Moved
  <2> QED BY <2>1, <2>3, MovedCalm
<1>4. CASE LogoutRevoke(r)
  <2>1. /\ Moved(r, "reply") /\ req'[r].result = "ok" /\ req[r].pc = "revoke"
        /\ white' = white \ {req[r].old}
    BY <1>0, <1>4, ReplyMoves DEF LogoutRevoke, Results
  <2>2. Stage(r)'
    BY <1>0, <2>1 DEF Stage, Session, Moved, IInv, Answered
  <2> QED BY <2>1, <2>2, MovedCalm
<1> QED BY <1>1, <1>2, <1>3, <1>4 DEF Serve

LEMMA ReceiveCalm == ASSUME IInv, Calm, NEW r \in Reqs, Receive(r) PROVE Calm'
<1>0. /\ Stage(r) /\ req[r].pc = "reply" /\ cookie' = CookieAfter(req[r])
      /\ req' = [req EXCEPT ![r] = Idle] /\ UNCHANGED <<white, fate>>
  BY DEF Receive, Calm
<1>1. Session(cookie)'
  BY <1>0, NoIdAssumption DEF Stage, Session, CookieAfter
<1>2. \A s \in Reqs : req'[s].pc = "idle"
  BY <1>0 DEF Calm, Single, IInv, TypeOK, Idle
<1> QED BY <1>1, <1>2 DEF Calm, Single, Stage

LEMMA ExpiresCalm == ASSUME IInv, Calm, NEW j \in Ids, Expires(j) PROVE Calm'
<1>0. /\ white' = white \ {j} /\ fate' = [fate EXCEPT ![j] = "aged"]
      /\ UNCHANGED <<cookie, req>> /\ fate \in [Ids -> {"new", "drawn", "issued", "spent", "aged"}]
  BY DEF Expires, IInv, TypeOK
<1>1. ASSUME NEW x, Session(x) PROVE white' \subseteq {x} /\ (x \in Ids \ white' => fate'[x] = "aged")
  BY <1>0, <1>1 DEF Session
<1>2. \A r \in Reqs : Stage(r)'
  BY <1>0, <1>1 DEF Calm, Stage, Session
<1>3. (Quiet => Session(cookie))'
  BY <1>0, <1>1 DEF Calm, Quiet, Session
<1> QED BY <1>0, <1>2, <1>3 DEF Calm, Single

LEMMA NextCalm == IInv /\ CalmInv /\ [Next]_vars => CalmInv'
<1> SUFFICES ASSUME IInv, CalmInv, [Next]_vars, calm' PROVE Calm'
  BY DEF CalmInv
<1>1. ASSUME NEW r \in Reqs, RedisFails(r) \/ Lost(r) PROVE FALSE
  BY <1>1 DEF RedisFails, Lost
<1>2. ASSUME NEW t \in Tabs, Reload(t) PROVE FALSE
  BY <1>2 DEF Reload
<1>3. ASSUME NEW r \in Reqs, Serve(r) \/ Receive(r) PROVE Calm'
  BY <1>3, ServeCalm, ReceiveCalm
     DEF CalmInv, Serve, RotateGet, RotateDel, IssueSet, LogoutRevoke, Receive
<1>4. ASSUME NEW j \in Ids, Expires(j) PROVE Calm'
  BY <1>4, ExpiresCalm DEF CalmInv, Expires
<1>5. CASE UNCHANGED vars \/ \E t \in Tabs : MeAnswered(t)
  <2>1. UNCHANGED <<white, fate, cookie, req, calm>>
    BY <1>5 DEF vars, MeAnswered
  <2> QED BY <2>1 DEF CalmInv, Calm, Single, Stage, Session, Quiet
<1> QED BY <1>1, <1>2, <1>3, <1>4, <1>5, AskCalm DEF Next, Ask

LEMMA CalmAlways == Spec => []CalmInv
<1>1. Init => CalmInv
  BY InitCalm
<1> QED BY Inductive, <1>1, NextCalm, PTL DEF Spec

\* While no request meets another one or a failure, the whitelist holds the
\* token in the cookie and no other: a browser has one session, a logout
\* leaves none, and a rotation never loses it.
THEOREM SessionIsOne == Spec => []OneSession
<1>1. CalmInv => OneSession
  BY DEF CalmInv, Calm, Session, OneSession
<1> QED BY CalmAlways, <1>1, PTL

=============================================================================

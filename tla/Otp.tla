-------------------------------- MODULE Otp --------------------------------
(***************************************************************************)
(* One-time codes for one phone (backend/internal/auth: OtpService over    *)
(* RedisOtpStore).  Phones do not meet: every key carries the phone.       *)
(*                                                                         *)
(* Every Redis command of a handler is an action.  Each handler reads the  *)
(* clock once, at its start, and Redis counts its TTLs in real time: the   *)
(* clock of a handler is behind by its lag.  A code is a model value, as   *)
(* two codes of six digits seldom agree; one that nothing refers to any    *)
(* more is drawn again.                                                    *)
(***************************************************************************)
EXTENDS Integers

CONSTANTS
    Codes,
    Handlers,     \* bounds the requests that overlap
    NoCode,
    OtpTTL, OtpRequestWindow, OtpBlockTTL,  \* in ticks
    OtpMaxRequests, OtpMaxAttempts,
    MaxLag        \* bound: ticks that a handler lives

ASSUME PolicyAssumption ==
    /\ NoCode \notin Codes
    /\ {OtpTTL, OtpRequestWindow, OtpBlockTTL} \subseteq Nat \ {0}
    /\ {OtpMaxRequests, OtpMaxAttempts, MaxLag} \subseteq Nat \ {0}
    /\ OtpTTL < OtpBlockTTL

VARIABLES
    otp,      \* key otp:{phone}
    count,    \* key otp:req:{phone}
    blocked,  \* ticks left to the key blocked:{phone}, 0 without it
    h,        \* the handlers
    past,     \* history of each code: life left, wrong guesses, sessions;
              \* the last two are forgotten when the calm ends
    calm      \* history: no Verify met another request and no command failed

vars == <<otp, count, blocked, h, past, calm>>

Forever == OtpRequestWindow + 1   \* a key without TTL

\* OtpRecord; left is ExpiresAt - now and may have run out while the key
\* is in its last second.
NoRecord == [code |-> NoCode, attempts |-> 0, left |-> 0]
Record == [code : Codes \cup {NoCode}, attempts : 0..OtpMaxAttempts, left : -MaxLag..OtpTTL]

Idle == [pc |-> "idle", guess |-> NoCode, lag |-> 0, rec |-> NoRecord]
Handler == [pc : {"idle", "blocked?", "incr", "expire", "set", "send",
                  "check", "get", "write", "block", "del"},
            guess : Codes \cup {NoCode}, lag : 0..MaxLag, rec : Record]

TypeOK ==
    /\ otp \in Record
    /\ count \in [n : 0..(OtpMaxRequests + 1), left : 0..Forever]
    /\ blocked \in 0..OtpBlockTTL
    /\ h \in [Handlers -> Handler]
    /\ past \in [Codes -> [life : -MaxLag..OtpTTL, wrong : 0..(OtpMaxAttempts + 1), uses : 0..2]]
    /\ calm \in BOOLEAN

Init ==
    /\ otp = NoRecord
    /\ count = [n |-> 0, left |-> 0]
    /\ blocked = 0
    /\ h = [p \in Handlers |-> Idle]
    /\ past = [c \in Codes |-> [life |-> -MaxLag, wrong |-> 0, uses |-> 0]]
    /\ calm = TRUE

-----------------------------------------------------------------------------
Verifying == {p \in Handlers : h[p].pc \in {"check", "get", "write", "block", "del"}}
Running == {p \in Handlers : h[p].pc # "idle"}

Go(p, pc) == h' = [h EXCEPT ![p].pc = pc]
Done(p) == h' = [h EXCEPT ![p] = Idle]

Capped(n, max) == IF n > max THEN max ELSE n
Later(n) == IF n > -MaxLag THEN n - 1 ELSE n

\* The history of guesses and sessions is kept while it is calm.
Calmly(cond) ==
    /\ calm' = (calm /\ cond)
    /\ past' = IF calm' THEN past
               ELSE [c \in Codes |-> [past[c] EXCEPT !.wrong = 0, !.uses = 0]]

Noted(n, max) == IF calm THEN Capped(n + 1, max) ELSE n

\* Send: the codes that nothing refers to.
Unknown == {c \in Codes : c # otp.code /\ \A p \in Handlers : c \notin {h[p].guess, h[p].rec.code}}

SendBegin(p) ==
    /\ p \notin Running
    /\ Go(p, "blocked?")
    /\ Calmly(Verifying = {})
    /\ UNCHANGED <<otp, count, blocked>>

SendBlocked(p) ==
    /\ h[p].pc = "blocked?"
    /\ IF blocked > 0 THEN Done(p) ELSE Go(p, "incr")
    /\ UNCHANGED <<otp, count, blocked, past, calm>>

\* Mutant of AfterIncr: the window starts again at every request.
AfterIncrAlways(p, n) == Go(p, "expire")

\* Where Send goes after INCR answered n.
AfterIncr(p, n) ==
    IF n = 1 THEN Go(p, "expire") ELSE IF n > OtpMaxRequests THEN Done(p) ELSE Go(p, "set")

IncrRequests(p) ==
    /\ h[p].pc = "incr"
    /\ count' = [count EXCEPT !.n = Capped(@ + 1, OtpMaxRequests + 1),
                              !.left = IF count.n = 0 THEN Forever ELSE @]
    /\ AfterIncr(p, count'.n)
    /\ UNCHANGED <<otp, blocked, past, calm>>

ExpireRequests(p) ==
    /\ h[p].pc = "expire"
    /\ count' = IF count.n = 0 THEN count ELSE [count EXCEPT !.left = OtpRequestWindow]
    /\ Go(p, "set")
    /\ UNCHANGED <<otp, blocked, past, calm>>

\* A new code with no attempts; it expires by the clock of the handler.
SetNewOTP(p) ==
    /\ h[p].pc = "set"
    /\ Unknown # {}
    /\ LET c == CHOOSE c \in Unknown : TRUE left == OtpTTL - h[p].lag IN
       /\ otp' = [code |-> c, attempts |-> 0, left |-> left]
       /\ past' = [past EXCEPT ![c] = [life |-> left, wrong |-> 0, uses |-> 0]]
    /\ Go(p, "send")
    /\ UNCHANGED <<count, blocked, calm>>

\* The sender delivers the code or fails: the record stays either way.
SenderSend(p) ==
    /\ h[p].pc = "send"
    /\ Done(p)
    /\ UNCHANGED <<otp, count, blocked, past, calm>>

-----------------------------------------------------------------------------
(* Verify. *)

VerifyBegin(p, guess) ==
    /\ p \notin Running
    /\ h' = [h EXCEPT ![p] = [Idle EXCEPT !.pc = "check", !.guess = guess]]
    /\ Calmly(Running = {})
    /\ UNCHANGED <<otp, count, blocked>>

VerifyBlocked(p) ==
    /\ h[p].pc = "check"
    /\ IF blocked > 0 THEN Done(p) ELSE Go(p, "get")
    /\ UNCHANGED <<otp, count, blocked, past, calm>>

\* Mutant of Active: the key alone decides.
ActiveKey(p) == otp.code # NoCode

\* GetOTP: the key is there and ExpiresAt is after the handler's clock.
Active(p) == otp.code # NoCode /\ otp.left + h[p].lag > 0

GetNone(p) ==
    /\ h[p].pc = "get" /\ ~Active(p)
    /\ Done(p)
    /\ UNCHANGED <<otp, count, blocked, past, calm>>

GetMatch(p) ==
    /\ h[p].pc = "get" /\ Active(p) /\ h[p].guess = otp.code
    /\ Go(p, "del")
    /\ UNCHANGED <<otp, count, blocked, past, calm>>

\* Mutant of Exhausted: one attempt too many.
ExhaustedLate(n) == n > OtpMaxAttempts

Exhausted(n) == n >= OtpMaxAttempts

\* A wrong guess: counted on a copy, which blocks the phone or goes back.
GetMismatch(p) ==
    /\ h[p].pc = "get" /\ Active(p) /\ h[p].guess # otp.code
    /\ LET n == otp.attempts + 1 IN
       h' = [h EXCEPT ![p].pc = IF Exhausted(n) THEN "block" ELSE "write",
                      ![p].rec = [otp EXCEPT !.attempts = n]]
    /\ past' = [past EXCEPT ![otp.code].wrong = Noted(@, OtpMaxAttempts + 1)]
    /\ UNCHANGED <<otp, count, blocked, calm>>

\* Mutant of Written: the code starts a new life with each attempt.
WrittenAnew(p) == [h[p].rec EXCEPT !.left = OtpTTL]

\* SetOTP keeps ExpiresAt.
Written(p) == h[p].rec

WriteAttempts(p) ==
    /\ h[p].pc = "write"
    /\ otp' = Written(p)
    /\ Done(p)
    /\ UNCHANGED <<count, blocked, past, calm>>

\* Mutant of BlockFor: the lag is added.
BlockForLate(p) == OtpBlockTTL + h[p].lag

\* until = the handler's clock + OtpBlockTTL.
BlockFor(p) == OtpBlockTTL - h[p].lag

Block(p) ==
    /\ h[p].pc = "block"
    /\ blocked' = IF BlockFor(p) > 0 THEN BlockFor(p) ELSE blocked
    /\ Done(p)
    /\ UNCHANGED <<otp, count, past, calm>>

\* Mutant of Consumed: a right code stays until its TTL.
ConsumedLater == otp

Consumed == NoRecord

\* The code is consumed and the phone logged in (issueLogin).
DelOTP(p) ==
    /\ h[p].pc = "del"
    /\ otp' = Consumed
    /\ past' = [past EXCEPT ![h[p].guess].uses = Noted(@, 2)]
    /\ Done(p)
    /\ UNCHANGED <<count, blocked, calm>>

-----------------------------------------------------------------------------
\* A Redis command fails, taking effect or not, or the server crashes: the
\* errors of SetOTP and Block after a wrong guess are not looked at.
Fails(p) ==
    /\ h[p].pc # "idle"
    /\ Done(p)
    /\ otp' \in {otp} \cup (CASE h[p].pc = "write" -> {Written(p)} [] h[p].pc = "del" -> {Consumed}
                              [] OTHER -> {})
    /\ Calmly(FALSE)
    /\ UNCHANGED <<count, blocked>>

\* Time.  A record written after its end lives for a second more, and is
\* gone with the tick; so are the keys whose TTL runs out.
Tick ==
    /\ \A p \in Handlers : h[p].lag < MaxLag
    /\ otp' = IF otp.left <= 1 THEN NoRecord ELSE [otp EXCEPT !.left = @ - 1]
    /\ count' = IF count.left = Forever THEN count
                ELSE IF count.left <= 1 THEN [n |-> 0, left |-> 0]
                ELSE [count EXCEPT !.left = @ - 1]
    /\ blocked' = IF blocked = 0 THEN 0 ELSE blocked - 1
    /\ h' = [p \in Handlers |->
               IF h[p].pc = "idle" THEN Idle
               ELSE [h[p] EXCEPT !.lag = @ + 1,
                                 !.rec.left = IF h[p].rec.code = NoCode THEN @ ELSE Later(@)]]
    /\ past' = [c \in Codes |-> [past[c] EXCEPT !.life = Later(@)]]
    /\ UNCHANGED calm

-----------------------------------------------------------------------------
Send(p) ==
    SendBlocked(p) \/ IncrRequests(p) \/ ExpireRequests(p) \/ SetNewOTP(p) \/ SenderSend(p)

Verify(p) ==
    \/ VerifyBlocked(p) \/ GetNone(p) \/ GetMatch(p) \/ GetMismatch(p)
    \/ WriteAttempts(p) \/ Block(p) \/ DelOTP(p)

\* The requests: for a code, and with a guess that need not be one.
OtpSend == \E p \in Handlers : SendBegin(p)
OtpVerify == \E p \in Handlers, g \in Codes \cup {NoCode} : VerifyBegin(p, g)

Next ==
    \/ OtpSend \/ OtpVerify
    \/ \E p \in Handlers : Send(p) \/ Verify(p) \/ Fails(p)
    \/ Tick

\* Handlers run on, and time passes.
Spec ==
    /\ Init /\ [][Next]_vars
    /\ \A p \in Handlers : WF_vars(Send(p) \/ Verify(p))
    /\ WF_vars(Tick)

-----------------------------------------------------------------------------
\* Handler p finds its guess right.
Accepts(p) == h[p].pc = "get" /\ h'[p].pc = "del"

\* Whatever wrong attempts are written back while it is checked, a code is
\* accepted only by a request made before the code expired.
InTime == [][\A p \in Handlers : Accepts(p) => past[h[p].guess].life + h[p].lag > 0]_vars

\* A code logs in once, unless a Verify met another request.
CodeOnce == calm => \A c \in Codes : past[c].uses <= 1

\* Under the same condition a code that was guessed at OtpMaxAttempts times
\* is dead: no more guesses reach it, and it is not accepted even when the
\* block has ended.
GuessedOut ==
    [][\A p \in Handlers : calm /\ h[p].pc = "get" /\ Active(p) =>
          past[otp.code].wrong < OtpMaxAttempts]_vars

\* otp.go:159 says that a right code consumes its record.  Nothing else takes
\* away the record of a code that has not expired, so an attempt counted on
\* a copy of such a record still finds it.
ConsumedForGood ==
    [][\A p \in Handlers : WriteAttempts(p) /\ h[p].rec.left > 0 => otp # NoRecord]_vars

\* redis_store.go:32 says that the first increment of the counter sets its
\* TTL: once it has, the counter does not stand without one.
CounterHasTTL ==
    count.n > 0 /\ (\A p \in Handlers : h[p].pc # "expire") => count.left # Forever

\* A phone that has used up its requests may ask again, however often it is
\* refused meanwhile, unless INCR was not followed by its EXPIRE.
WindowEnds ==
    count.n > 0 ~>
        count.n = 0 \/ (count.left = Forever /\ \A p \in Handlers : h[p].pc # "expire")

=============================================================================

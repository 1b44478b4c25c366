----------------------------- MODULE OtpProofs -----------------------------
(***************************************************************************)
(* No code is accepted late, for any number of overlapping handlers,       *)
(* attempts, TTLs and lags; and as long as no Verify meets another request *)
(* and nothing fails, a code logs in once and dies with its attempts.      *)
(***************************************************************************)
EXTENDS Otp, TLAPS

VerifyPCs == {"check", "get", "write", "block", "del"}

\* The inductive strengthening.  A record that stays, or goes back, has
\* attempts left.
AttemptsLeft ==
    /\ otp.attempts < OtpMaxAttempts
    /\ \A p \in Handlers : h[p].pc = "write" => h[p].rec.attempts < OtpMaxAttempts

\* No record, and no copy of one, outlives its code.
NoLongerThanItsCode ==
    /\ otp.code \in Codes => otp.left <= past[otp.code].life
    /\ \A p \in Handlers : h[p].rec.code \in Codes => h[p].rec.left <= past[h[p].rec.code].life

\* While it is calm a Verify runs alone.
Alone ==
    \A p, q \in Handlers : h[p].pc \in VerifyPCs /\ q # p => h[q].pc = "idle"

\* The record has no more life than the TTL allows since the Verify began.
Since(p) ==
    otp.code \in Codes => otp.left + h[p].lag <= OtpTTL /\ (otp.left <= 0 => h[p].lag = 0)

\* What a Verify has counted is what was guessed.
CountedBy(p) ==
    /\ h[p].pc = "get" /\ Active(p) => past[otp.code].wrong = otp.attempts
    /\ h[p].pc \in {"write", "block"} =>
          h[p].rec.code \in Codes /\ h[p].rec.attempts = past[h[p].rec.code].wrong
    /\ h[p].pc = "block" =>
          h[p].rec.attempts = OtpMaxAttempts /\ (otp.code \in Codes => otp.code = h[p].rec.code)

\* So is what the record has counted, unless a Verify is about to write or
\* block, or the phone is blocked for longer than the record lives.
Counted ==
    otp.code \in Codes =>
        \/ past[otp.code].wrong = otp.attempts
        \/ \E p \in Handlers : h[p].pc \in {"write", "block"}
        \/ past[otp.code].wrong = OtpMaxAttempts /\ blocked > otp.left

\* A code that has logged in is gone, and nobody is about to use it or to
\* write it back.
UsedIsGone ==
    \A c \in Codes :
        /\ past[c].uses <= 1
        /\ past[c].uses = 1 =>
             /\ otp.code # c
             /\ \A p \in Handlers :
                   /\ h[p].pc = "del" => h[p].guess # c
                   /\ h[p].pc \in {"write", "block"} => h[p].rec.code # c

GuessIsCode == \A p \in Handlers : h[p].pc = "del" => h[p].guess \in Codes

Calm ==
    /\ Alone
    /\ \A p \in Handlers : h[p].pc \in VerifyPCs => Since(p) /\ CountedBy(p)
    /\ Counted
    /\ UsedIsGone

IInv ==
    /\ TypeOK /\ AttemptsLeft /\ NoLongerThanItsCode /\ GuessIsCode
    /\ calm => Calm

USE PolicyAssumption

-----------------------------------------------------------------------------
LEMMA InitIInv == Init => IInv
<1> SUFFICES ASSUME Init PROVE IInv
  OBVIOUS
<1>1. TypeOK
  BY DEF Init, TypeOK, NoRecord, Record, Idle, Handler, Forever
<1>2. AttemptsLeft /\ NoLongerThanItsCode /\ GuessIsCode
  BY DEF Init, AttemptsLeft, NoLongerThanItsCode, GuessIsCode, NoRecord, Idle
<1>3. Calm
  BY DEF Init, Calm, Alone, Counted, UsedIsGone, VerifyPCs, NoRecord, Idle
<1> QED BY <1>1, <1>2, <1>3 DEF IInv

\* A handler that goes on to the stage pc, or ends.
LEMMA GoTypes ==
    ASSUME TypeOK, NEW p \in Handlers,
           NEW pc \in {"idle", "blocked?", "incr", "expire", "set", "send",
                       "check", "get", "write", "block", "del"},
           Go(p, pc)
    PROVE  /\ h' \in [Handlers -> Handler]
           /\ h'[p] = [h[p] EXCEPT !.pc = pc]
           /\ \A q \in Handlers : q # p => h'[q] = h[q]
<1>1. h[p] \in Handler
  BY DEF TypeOK
<1>2. [h[p] EXCEPT !.pc = pc] \in Handler
  BY <1>1 DEF Handler
<1> QED BY <1>1, <1>2 DEF TypeOK, Go

LEMMA DoneTypes ==
    ASSUME TypeOK, NEW p \in Handlers, Done(p)
    PROVE  /\ h' \in [Handlers -> Handler]
           /\ h'[p] = Idle
           /\ \A q \in Handlers : q # p => h'[q] = h[q]
<1>1. Idle \in Handler
  BY DEF Idle, Handler, NoRecord, Record
<1> QED BY <1>1 DEF TypeOK, Done

\* A handler that moves on at a stage where it has nothing of importance,
\* or ends, and leaves the record and the history alone.
LEMMA AsideStep ==
    ASSUME IInv, NEW p \in Handlers,
           h' \in [Handlers -> Handler],
           h'[p].pc \in {"idle", "incr", "expire", "set", "send"},
           h'[p] = Idle \/ (h'[p] = [h[p] EXCEPT !.pc = h'[p].pc] /\ h[p].pc \notin VerifyPCs),
           \A q \in Handlers : q # p => h'[q] = h[q],
           h[p].pc \notin {"write", "block", "idle"},
           count' \in [n : 0..(OtpMaxRequests + 1), left : 0..Forever],
           UNCHANGED <<otp, blocked, past, calm>>
    PROVE  IInv'
<1>1. TypeOK'
  BY DEF IInv, TypeOK
<1>2. AttemptsLeft' /\ GuessIsCode'
  BY DEF IInv, AttemptsLeft, GuessIsCode, Idle
<1>3. NoLongerThanItsCode'
  <2>1. h'[p].rec \in {h[p].rec, NoRecord}
    BY DEF IInv, TypeOK, Handler, Idle
  <2> QED BY <2>1 DEF IInv, NoLongerThanItsCode, NoRecord
<1>4. ASSUME calm PROVE Calm'
  <2>1. Alone'
    BY <1>4 DEF IInv, Calm, Alone, VerifyPCs, Idle
  <2>2. \A q \in Handlers : h'[q].pc \in VerifyPCs => h'[q] = h[q]
    BY DEF VerifyPCs
  <2>3. ASSUME NEW q \in Handlers, h'[q].pc \in VerifyPCs PROVE Since(q)' /\ CountedBy(q)'
    <3>1. h'[q] = h[q] /\ Since(q) /\ CountedBy(q)
      BY <1>4, <2>2, <2>3 DEF IInv, Calm
    <3> QED BY <3>1 DEF Since, CountedBy, Active
  <2>4. Counted'
    BY <1>4 DEF IInv, Calm, Counted
  <2>5. UsedIsGone'
    <3>1. \A q \in Handlers : h'[q].pc \in {"del", "write", "block"} => h'[q] = h[q]
      BY <2>2 DEF VerifyPCs
    <3> QED BY <1>4, <3>1 DEF IInv, Calm, UsedIsGone
  <2> QED BY <2>1, <2>3, <2>4, <2>5 DEF Calm
<1> QED BY <1>1, <1>2, <1>3, <1>4 DEF IInv

-----------------------------------------------------------------------------
(* Send. *)

LEMMA AsideGoStep ==
    ASSUME IInv, NEW p \in Handlers, NEW pc \in {"incr", "expire", "set", "send"}, Go(p, pc),
           h[p].pc \in {"blocked?", "incr", "expire"},
           count' \in [n : 0..(OtpMaxRequests + 1), left : 0..Forever],
           UNCHANGED <<otp, blocked, past, calm>>
    PROVE  IInv'
<1>1. TypeOK /\ h[p] \in Handler
  BY DEF IInv, TypeOK
<1>2. /\ h' \in [Handlers -> Handler]
      /\ h'[p] = [h[p] EXCEPT !.pc = pc]
      /\ \A q \in Handlers : q # p => h'[q] = h[q]
  BY <1>1, GoTypes
<1>3. h'[p].pc = pc
  BY <1>1, <1>2 DEF Handler
<1> QED BY <1>2, <1>3, AsideStep DEF VerifyPCs

LEMMA AsideDoneStep ==
    ASSUME IInv, NEW p \in Handlers, Done(p), h[p].pc \notin {"write", "block", "idle"},
           count' \in [n : 0..(OtpMaxRequests + 1), left : 0..Forever],
           UNCHANGED <<otp, blocked, past, calm>>
    PROVE  IInv'
<1>1. /\ h' \in [Handlers -> Handler]
      /\ h'[p] = Idle
      /\ \A q \in Handlers : q # p => h'[q] = h[q]
  BY DoneTypes DEF IInv
<1>2. h'[p].pc = "idle"
  BY <1>1 DEF Idle
<1> QED BY <1>1, <1>2, AsideStep

LEMMA SendStep ==
    ASSUME IInv, NEW p \in Handlers,
           SendBlocked(p) \/ IncrRequests(p) \/ ExpireRequests(p) \/ SenderSend(p)
    PROVE  IInv'
<1>0. count \in [n : 0..(OtpMaxRequests + 1), left : 0..Forever]
  BY DEF IInv, TypeOK
<1>1. CASE SendBlocked(p)
  BY <1>0, <1>1, AsideGoStep, AsideDoneStep DEF SendBlocked
<1>2. CASE IncrRequests(p)
  <2>1. count' \in [n : 0..(OtpMaxRequests + 1), left : 0..Forever]
    <3>1. Capped(count.n + 1, OtpMaxRequests + 1) \in 0..(OtpMaxRequests + 1)
      BY <1>0 DEF Capped
    <3>2. Forever \in 0..Forever /\ count.left \in 0..Forever
      BY <1>0 DEF Forever
    <3> HIDE DEF Forever
    <3> QED BY <1>0, <1>2, <3>1, <3>2 DEF IncrRequests
  <2>2. Done(p) \/ Go(p, "expire") \/ Go(p, "set")
    BY <1>2 DEF IncrRequests, AfterIncr
  <2> QED BY <1>2, <2>1, <2>2, AsideGoStep, AsideDoneStep DEF IncrRequests
<1>3. CASE ExpireRequests(p)
  <2>1. count' \in [n : 0..(OtpMaxRequests + 1), left : 0..Forever]
    BY <1>0, <1>3 DEF ExpireRequests, Forever
  <2> QED BY <1>3, <2>1, AsideGoStep DEF ExpireRequests
<1>4. CASE SenderSend(p)
  BY <1>0, <1>4, AsideDoneStep DEF SenderSend
<1> QED BY <1>1, <1>2, <1>3, <1>4

LEMMA SetNewOTPStep == ASSUME IInv, NEW p \in Handlers, SetNewOTP(p) PROVE IInv'
<1> DEFINE c == CHOOSE c \in Unknown : TRUE
           left == OtpTTL - h[p].lag
<1>0. TypeOK /\ h[p] \in Handler
  BY DEF IInv, TypeOK
<1>1. /\ c \in Unknown /\ h[p].pc = "set"
      /\ otp' = [code |-> c, attempts |-> 0, left |-> left]
      /\ past' = [past EXCEPT ![c] = [life |-> left, wrong |-> 0, uses |-> 0]]
      /\ UNCHANGED <<count, blocked, calm>>
  BY DEF SetNewOTP
<1>2. c \in Codes /\ \A q \in Handlers : c # h[q].guess /\ c # h[q].rec.code
  BY <1>1 DEF Unknown
<1> HIDE DEF c
<1>3. left \in -MaxLag..OtpTTL
  BY <1>0 DEF Handler
<1> HIDE DEF left
<1>4. /\ h' \in [Handlers -> Handler]
      /\ h'[p] = [h[p] EXCEPT !.pc = "send"]
      /\ \A q \in Handlers : q # p => h'[q] = h[q]
  BY <1>0, GoTypes DEF SetNewOTP
<1>5. \A q \in Handlers : h'[q].rec = h[q].rec /\ h'[q].guess = h[q].guess
  BY <1>0, <1>4 DEF Handler, TypeOK
<1>6. TypeOK'
  BY <1>0, <1>1, <1>2, <1>3, <1>4 DEF TypeOK, Record
<1>7. AttemptsLeft' /\ GuessIsCode'
  <2>1. \A q \in Handlers : h'[q].pc \in {"write", "del"} => h'[q] = h[q]
    BY <1>0, <1>4 DEF Handler
  <2> QED BY <1>1, <2>1 DEF IInv, AttemptsLeft, GuessIsCode
<1>8. NoLongerThanItsCode'
  BY <1>0, <1>1, <1>2, <1>3, <1>5 DEF IInv, NoLongerThanItsCode, TypeOK
<1>9. ASSUME calm PROVE Calm'
  <2>1. \A q \in Handlers : h[q].pc \notin VerifyPCs
    BY <1>1, <1>9 DEF IInv, Calm, Alone, VerifyPCs
  <2>2. \A q \in Handlers : h'[q].pc \notin VerifyPCs
    BY <1>0, <1>4, <2>1 DEF VerifyPCs, Handler
  <2>3. Alone' /\ \A q \in Handlers : h'[q].pc \in VerifyPCs => Since(q)' /\ CountedBy(q)'
    BY <2>2 DEF Alone
  <2>4. Counted'
    BY <1>0, <1>1, <1>2 DEF Counted, TypeOK
  <2>5. UsedIsGone'
    BY <1>0, <1>1, <1>2, <1>9, <2>2 DEF IInv, Calm, UsedIsGone, VerifyPCs, TypeOK
  <2> QED BY <2>3, <2>4, <2>5 DEF Calm
<1> QED BY <1>1, <1>6, <1>7, <1>8, <1>9 DEF IInv

-----------------------------------------------------------------------------
(* A request begins. *)

LEMMA CalmlyTypes ==
    ASSUME TypeOK, NEW cond \in BOOLEAN, Calmly(cond)
    PROVE  /\ calm' = (calm /\ cond)
           /\ past' \in [Codes -> [life : -MaxLag..OtpTTL, wrong : 0..(OtpMaxAttempts + 1), uses : 0..2]]
           /\ \A c \in Codes : past'[c].life = past[c].life
           /\ calm' => past' = past
<1>1. CASE calm'
  BY <1>1 DEF Calmly, TypeOK
<1>2. CASE ~calm'
  <2>1. \A c \in Codes : /\ past[c] \in [life : -MaxLag..OtpTTL, wrong : 0..(OtpMaxAttempts + 1), uses : 0..2]
                         /\ past'[c] = [past[c] EXCEPT !.wrong = 0, !.uses = 0]
    BY <1>2 DEF Calmly, TypeOK
  <2>2. past' = [c \in Codes |-> past'[c]]
    BY <1>2 DEF Calmly
  <2>3. \A c \in Codes :
           /\ past'[c] \in [life : -MaxLag..OtpTTL, wrong : 0..(OtpMaxAttempts + 1), uses : 0..2]
           /\ past'[c].life = past[c].life
    <3>1. 0 \in 0..(OtpMaxAttempts + 1) /\ 0 \in 0..2
      OBVIOUS
    <3> QED BY <2>1, <3>1
  <2>4. past' \in [Codes -> [life : -MaxLag..OtpTTL, wrong : 0..(OtpMaxAttempts + 1), uses : 0..2]]
    BY <2>2, <2>3
  <2> QED BY <1>2, <2>3, <2>4 DEF Calmly
<1> QED BY <1>1, <1>2

LEMMA BeginStep ==
    ASSUME IInv, NEW p \in Handlers, NEW guess \in Codes \cup {NoCode},
           SendBegin(p) \/ VerifyBegin(p, guess)
    PROVE  IInv'
<1> DEFINE n == IF SendBegin(p) THEN [h[p] EXCEPT !.pc = "blocked?"]
                ELSE [Idle EXCEPT !.pc = "check", !.guess = guess]
           cond == IF SendBegin(p) THEN Verifying = {} ELSE Running = {}
<1>0. TypeOK /\ h[p] \in Handler /\ h[p].pc = "idle"
  BY DEF IInv, TypeOK, SendBegin, VerifyBegin, Running
<1>1. n \in Handler
  <2>1. [h[p] EXCEPT !.pc = "blocked?"] \in Handler
    BY <1>0 DEF Handler
  <2>2. [Idle EXCEPT !.pc = "check", !.guess = guess] \in Handler
    <3>1. Idle \in Handler
      BY DEF Handler, Idle, NoRecord, Record
    <3> QED BY <3>1 DEF Handler
  <2> QED BY <2>1, <2>2
<1>2. h' = [h EXCEPT ![p] = n] /\ Calmly(cond) /\ UNCHANGED <<otp, count, blocked>>
  <2>1. CASE SendBegin(p)
    BY <1>0, <2>1 DEF SendBegin, Go, TypeOK
  <2>2. CASE ~SendBegin(p)
    BY <2>2 DEF VerifyBegin
  <2> QED BY <2>1, <2>2
<1>3. n.pc \in {"blocked?", "check"} /\ (n.pc = "check" => n.lag = 0 /\ n.rec = NoRecord)
  BY <1>0 DEF Handler, Idle
<1>4. n.rec.code \in Codes => n.rec = h[p].rec
  BY <1>0 DEF Handler, Idle, NoRecord
<1>5. cond => \A q \in Handlers : h[q].pc \notin VerifyPCs /\ (n.pc = "check" => h[q].pc = "idle")
  BY <1>0 DEF Verifying, Running, VerifyPCs, Handler
<1> HIDE DEF n
<1>6. cond \in BOOLEAN
  OBVIOUS
<1> HIDE DEF cond
<1>7. /\ calm' = (calm /\ cond)
      /\ past' \in [Codes -> [life : -MaxLag..OtpTTL, wrong : 0..(OtpMaxAttempts + 1), uses : 0..2]]
      /\ \A c \in Codes : past'[c].life = past[c].life
      /\ calm' => past' = past
  BY <1>0, <1>2, <1>6, CalmlyTypes
<1>8. TypeOK'
  BY <1>0, <1>1, <1>2, <1>7 DEF TypeOK
<1>9. AttemptsLeft' /\ GuessIsCode'
  BY <1>0, <1>2, <1>3 DEF IInv, AttemptsLeft, GuessIsCode, TypeOK
<1>10. NoLongerThanItsCode'
  BY <1>0, <1>2, <1>4, <1>7 DEF IInv, NoLongerThanItsCode, TypeOK
<1>11. ASSUME calm' PROVE Calm'
  <2>0. Calm /\ past' = past /\ \A q \in Handlers : h[q].pc \notin VerifyPCs /\ (n.pc = "check" => h[q].pc = "idle")
    BY <1>5, <1>7, <1>11 DEF IInv
  <2>1. \A q \in Handlers : h'[q].pc \in VerifyPCs => q = p /\ h'[q] = n /\ n.pc = "check"
    BY <1>0, <1>2, <1>3, <2>0 DEF TypeOK, VerifyPCs
  <2>2. Alone'
    BY <1>0, <1>2, <2>0, <2>1 DEF Alone, TypeOK
  <2>3. \A q \in Handlers : h'[q].pc \in VerifyPCs => Since(q)' /\ CountedBy(q)'
    BY <1>0, <1>2, <1>3, <2>1 DEF Since, CountedBy, TypeOK, Record
  <2>4. Counted'
    BY <1>2, <2>0 DEF Calm, Counted, VerifyPCs
  <2>5. UsedIsGone'
    BY <1>2, <2>0, <2>1 DEF Calm, UsedIsGone, VerifyPCs
  <2> QED BY <2>2, <2>3, <2>4, <2>5 DEF Calm
<1> QED BY <1>7, <1>8, <1>9, <1>10, <1>11 DEF IInv

-----------------------------------------------------------------------------
(* Verify.  *)

\* A Verify ends, and what it leaves behind is all right.
LEMMA EndStep ==
    ASSUME IInv, NEW p \in Handlers, Done(p), h[p].pc # "idle",
           otp' \in Record, otp'.attempts < OtpMaxAttempts,
           otp'.code \in Codes => otp'.left <= past[otp'.code].life,
           blocked' \in 0..OtpBlockTTL,
           past' \in [Codes -> [life : -MaxLag..OtpTTL, wrong : 0..(OtpMaxAttempts + 1), uses : 0..2]],
           \A c \in Codes : past'[c].life = past[c].life,
           calm' \in BOOLEAN, UNCHANGED count,
           calm' => /\ calm /\ h[p].pc \in VerifyPCs
                    /\ Counted' /\ UsedIsGone'
    PROVE  IInv'
<1>0. TypeOK
  BY DEF IInv
<1>1. /\ h' \in [Handlers -> Handler]
      /\ h'[p] = Idle
      /\ \A q \in Handlers : q # p => h'[q] = h[q]
  BY <1>0, DoneTypes
<1>2. TypeOK'
  BY <1>0, <1>1 DEF TypeOK
<1>3. AttemptsLeft' /\ GuessIsCode'
  BY <1>1 DEF IInv, AttemptsLeft, GuessIsCode, Idle
<1>4. NoLongerThanItsCode'
  BY <1>1 DEF IInv, NoLongerThanItsCode, Idle, NoRecord
<1>5. ASSUME calm' PROVE Calm'
  <2>1. \A q \in Handlers : h'[q].pc = "idle"
    BY <1>1, <1>5 DEF IInv, Calm, Alone, Idle
  <2> QED BY <1>5, <2>1 DEF Calm, Alone, VerifyPCs
<1> QED BY <1>2, <1>3, <1>4, <1>5 DEF IInv

LEMMA LeaveStep ==
    ASSUME IInv, NEW p \in Handlers, h[p].pc \in {"check", "get"}, Done(p),
           UNCHANGED <<otp, count, blocked, past, calm>>
    PROVE  IInv'
  BY AsideDoneStep DEF IInv, TypeOK

\* The phone is not blocked: the record that the Verify will read has not
\* used up its attempts.
LEMMA ToGetStep ==
    ASSUME IInv, NEW p \in Handlers, h[p].pc = "check", blocked = 0, Go(p, "get"),
           UNCHANGED <<otp, count, blocked, past, calm>>
    PROVE  IInv'
<1>0. TypeOK /\ h[p] \in Handler
  BY DEF IInv, TypeOK
<1>1. /\ h' \in [Handlers -> Handler]
      /\ h'[p] = [h[p] EXCEPT !.pc = "get"]
      /\ \A q \in Handlers : q # p => h'[q] = h[q]
  BY <1>0, GoTypes
<1>2. h'[p].pc = "get" /\ h'[p].rec = h[p].rec /\ h'[p].lag = h[p].lag
  BY <1>0, <1>1 DEF Handler
<1>3. TypeOK'
  BY <1>0, <1>1 DEF TypeOK
<1>4. AttemptsLeft' /\ GuessIsCode' /\ NoLongerThanItsCode'
  BY <1>1, <1>2 DEF IInv, AttemptsLeft, GuessIsCode, NoLongerThanItsCode
<1>5. ASSUME calm PROVE Calm'
  <2>1. /\ Alone /\ Since(p) /\ Counted /\ UsedIsGone
        /\ \A q \in Handlers : q # p => h[q].pc = "idle"
    BY <1>5 DEF IInv, Calm, Alone, VerifyPCs
  <2>2. Alone'
    BY <1>1, <2>1 DEF Alone, VerifyPCs
  <2>3. Since(p)'
    BY <1>2, <2>1 DEF Since
  <2>4. CountedBy(p)'
    <3>1. ASSUME Active(p)' PROVE past[otp.code].wrong = otp.attempts
      <4>1. otp.code \in Codes /\ otp.left + h[p].lag > 0
        BY <1>0, <1>2, <3>1 DEF Active, TypeOK, Record
      <4>2. ~(blocked > otp.left)
        BY <1>0, <2>1, <4>1 DEF Since, TypeOK, Record, Handler
      <4> QED BY <2>1, <4>1, <4>2 DEF Counted
    <3> QED BY <1>2, <3>1 DEF CountedBy
  <2>5. Counted'
    BY <1>1, <1>2, <2>1 DEF Counted
  <2>6. UsedIsGone'
    BY <1>1, <1>2, <2>1 DEF UsedIsGone
  <2>7. \A q \in Handlers : h'[q].pc \in VerifyPCs => q = p
    BY <1>1, <2>1 DEF VerifyPCs
  <2> QED BY <2>2, <2>3, <2>4, <2>5, <2>6, <2>7 DEF Calm
<1> QED BY <1>3, <1>4, <1>5 DEF IInv

LEMMA GetMatchStep == ASSUME IInv, NEW p \in Handlers, GetMatch(p) PROVE IInv'
<1>0. TypeOK /\ h[p] \in Handler
  BY DEF IInv, TypeOK
<1>1. /\ h' \in [Handlers -> Handler]
      /\ h'[p] = [h[p] EXCEPT !.pc = "del"]
      /\ \A q \in Handlers : q # p => h'[q] = h[q]
  BY <1>0, GoTypes DEF GetMatch
<1>2. /\ h'[p].pc = "del" /\ h'[p].rec = h[p].rec /\ h'[p].lag = h[p].lag
      /\ h'[p].guess = otp.code /\ otp.code \in Codes
      /\ h[p].pc = "get" /\ UNCHANGED <<otp, count, blocked, past, calm>>
  BY <1>0, <1>1 DEF Handler, GetMatch, Active, TypeOK, Record
<1>3. TypeOK'
  BY <1>0, <1>1, <1>2 DEF TypeOK
<1>4. AttemptsLeft' /\ GuessIsCode' /\ NoLongerThanItsCode'
  BY <1>1, <1>2 DEF IInv, AttemptsLeft, GuessIsCode, NoLongerThanItsCode
<1>5. ASSUME calm PROVE Calm'
  <2>1. /\ Alone /\ Since(p) /\ Counted /\ UsedIsGone
        /\ \A q \in Handlers : q # p => h[q].pc = "idle"
    BY <1>2, <1>5 DEF IInv, Calm, Alone, VerifyPCs
  <2>2. Alone'
    BY <1>1, <2>1 DEF Alone, VerifyPCs
  <2>3. Since(p)' /\ CountedBy(p)'
    BY <1>2, <2>1 DEF Since, CountedBy
  <2>4. Counted'
    BY <1>1, <1>2, <2>1 DEF Counted
  <2>5. UsedIsGone'
    <3>1. \A q \in Handlers : h'[q].pc # "idle" => q = p
      BY <1>1, <2>1
    <3>2. \A q \in Handlers : h'[q].pc = "del" => h'[q].guess = otp.code
      BY <1>2, <3>1
    <3>3. \A q \in Handlers : h'[q].pc \notin {"write", "block"}
      BY <1>2, <3>1
    <3> QED BY <1>2, <2>1, <3>2, <3>3 DEF UsedIsGone
  <2>6. \A q \in Handlers : h'[q].pc \in VerifyPCs => q = p
    BY <1>1, <2>1 DEF VerifyPCs
  <2> QED BY <2>2, <2>3, <2>4, <2>5, <2>6 DEF Calm
<1> QED BY <1>2, <1>3, <1>4, <1>5 DEF IInv

LEMMA GetMismatchStep == ASSUME IInv, NEW p \in Handlers, GetMismatch(p) PROVE IInv'
<1> DEFINE n == otp.attempts + 1
           pc == IF Exhausted(n) THEN "block" ELSE "write"
           rec == [otp EXCEPT !.attempts = n]
           wrong == Noted(past[otp.code].wrong, OtpMaxAttempts + 1)
<1>0. TypeOK /\ h[p] \in Handler /\ otp \in Record /\ otp.attempts < OtpMaxAttempts
  BY DEF IInv, TypeOK, AttemptsLeft
<1>1. /\ otp.code \in Codes /\ h[p].pc = "get" /\ Active(p)
      /\ h' = [h EXCEPT ![p] = [h[p] EXCEPT !.pc = pc, !.rec = rec]]
      /\ past' = [past EXCEPT ![otp.code] = [past[otp.code] EXCEPT !.wrong = wrong]]
      /\ UNCHANGED <<otp, count, blocked, calm>>
  BY <1>0 DEF GetMismatch, Active, Record, TypeOK
<1>2. /\ rec \in Record /\ rec.code = otp.code /\ rec.left = otp.left /\ rec.attempts = n
      /\ n \in 1..OtpMaxAttempts /\ pc \in {"block", "write"}
      /\ pc = "write" => n < OtpMaxAttempts
      /\ pc = "block" => n = OtpMaxAttempts
  BY <1>0 DEF Record, Exhausted
<1>3. /\ wrong \in 0..(OtpMaxAttempts + 1)
      /\ calm /\ past[otp.code].wrong = otp.attempts => wrong = n
  BY <1>0, <1>1 DEF Noted, Capped, TypeOK, Record
<1> HIDE DEF pc, rec, wrong
<1>4. /\ h' \in [Handlers -> Handler]
      /\ h'[p].pc = pc /\ h'[p].rec = rec /\ h'[p].lag = h[p].lag
      /\ \A q \in Handlers : q # p => h'[q] = h[q]
  <2>1. [h[p] EXCEPT !.pc = pc, !.rec = rec] \in Handler
    BY <1>0, <1>2 DEF Handler
  <2> QED BY <1>0, <1>1, <2>1 DEF TypeOK, Handler
<1>5. /\ past' \in [Codes -> [life : -MaxLag..OtpTTL, wrong : 0..(OtpMaxAttempts + 1), uses : 0..2]]
      /\ past'[otp.code].wrong = wrong
      /\ \A c \in Codes : past'[c].life = past[c].life /\ past'[c].uses = past[c].uses
  BY <1>0, <1>1, <1>3 DEF TypeOK
<1>6. TypeOK'
  BY <1>0, <1>1, <1>4, <1>5 DEF TypeOK
<1>7. AttemptsLeft' /\ GuessIsCode'
  BY <1>1, <1>2, <1>4 DEF IInv, AttemptsLeft, GuessIsCode
<1>8. NoLongerThanItsCode'
  BY <1>1, <1>2, <1>4, <1>5 DEF IInv, NoLongerThanItsCode
<1>9. ASSUME calm PROVE Calm'
  <2>1. /\ Alone /\ Since(p) /\ CountedBy(p) /\ UsedIsGone
        /\ \A q \in Handlers : q # p => h[q].pc = "idle"
    BY <1>1, <1>9 DEF IInv, Calm, Alone, VerifyPCs
  <2>2. Alone'
    BY <1>4, <2>1 DEF Alone, VerifyPCs
  <2>3. wrong = n
    BY <1>1, <1>3, <1>9, <2>1 DEF CountedBy
  <2>4. Since(p)' /\ CountedBy(p)'
    BY <1>1, <1>2, <1>4, <1>5, <2>1, <2>3 DEF Since, CountedBy
  <2>5. Counted'
    BY <1>2, <1>4 DEF Counted
  <2>6. UsedIsGone'
    BY <1>1, <1>2, <1>4, <1>5, <2>1 DEF UsedIsGone
  <2>7. \A q \in Handlers : h'[q].pc \in VerifyPCs => q = p
    BY <1>4, <2>1 DEF VerifyPCs
  <2> QED BY <2>2, <2>4, <2>5, <2>6, <2>7 DEF Calm
<1> QED BY <1>1, <1>6, <1>7, <1>8, <1>9 DEF IInv

LEMMA WriteAttemptsStep == ASSUME IInv, NEW p \in Handlers, WriteAttempts(p) PROVE IInv'
<1>0. TypeOK /\ h[p] \in Handler /\ h[p].pc = "write"
  BY DEF IInv, TypeOK, WriteAttempts
<1>1. otp' = h[p].rec /\ Done(p) /\ UNCHANGED <<count, blocked, past, calm>>
  BY DEF WriteAttempts, Written
<1>2. /\ otp' \in Record /\ otp'.attempts < OtpMaxAttempts
      /\ otp'.code \in Codes => otp'.left <= past[otp'.code].life
  BY <1>0, <1>1 DEF IInv, AttemptsLeft, NoLongerThanItsCode, Handler
<1>3. ASSUME calm PROVE Counted' /\ UsedIsGone'
  <2>1. CountedBy(p) /\ UsedIsGone /\ \A q \in Handlers : q # p => h[q].pc = "idle"
    BY <1>0, <1>3 DEF IInv, Calm, Alone, VerifyPCs
  <2>2. Counted'
    BY <1>0, <1>1, <2>1 DEF CountedBy, Counted
  <2>3. \A q \in Handlers : h'[q].pc = "idle"
    BY <1>0, <1>1, <2>1, DoneTypes DEF Idle
  <2>4. UsedIsGone'
    BY <1>0, <1>1, <2>1, <2>3 DEF UsedIsGone
  <2> QED BY <2>2, <2>4
<1> QED BY <1>0, <1>1, <1>2, <1>3, EndStep DEF TypeOK, VerifyPCs

\* The block outlives the record whose attempts it follows.
LEMMA BlockStep == ASSUME IInv, NEW p \in Handlers, Block(p) PROVE IInv'
<1>0. TypeOK /\ h[p] \in Handler /\ h[p].pc = "block"
  BY DEF IInv, TypeOK, Block
<1>1. /\ blocked' = IF BlockFor(p) > 0 THEN BlockFor(p) ELSE blocked
      /\ Done(p) /\ UNCHANGED <<otp, count, past, calm>>
  BY DEF Block
<1>2. blocked' \in 0..OtpBlockTTL
  BY <1>0, <1>1 DEF BlockFor, TypeOK, Handler
<1>3. ASSUME calm PROVE Counted' /\ UsedIsGone'
  <2>1. /\ Since(p) /\ CountedBy(p) /\ UsedIsGone
        /\ \A q \in Handlers : q # p => h[q].pc = "idle"
    BY <1>0, <1>3 DEF IInv, Calm, Alone, VerifyPCs
  <2>2. ASSUME otp.code \in Codes
        PROVE  past[otp.code].wrong = OtpMaxAttempts /\ blocked' > otp.left
    <3>1. otp.code = h[p].rec.code /\ otp.left + h[p].lag <= OtpTTL
      BY <1>0, <2>1, <2>2 DEF CountedBy, Since
    <3>2. otp.left < OtpBlockTTL - h[p].lag
      BY <1>0, <3>1 DEF TypeOK, Record, Handler
    <3>3. blocked' > otp.left
      BY <1>0, <1>1, <3>2 DEF BlockFor, TypeOK, Record, Handler
    <3> QED BY <1>0, <2>1, <3>1, <3>3 DEF CountedBy
  <2>3. Counted'
    BY <1>1, <2>2 DEF Counted
  <2>4. \A q \in Handlers : h'[q].pc = "idle"
    BY <1>0, <1>1, <2>1, DoneTypes DEF Idle
  <2>5. UsedIsGone'
    BY <1>1, <2>1, <2>4 DEF UsedIsGone
  <2> QED BY <2>3, <2>5
<1> QED BY <1>0, <1>1, <1>2, <1>3, EndStep
        DEF IInv, TypeOK, VerifyPCs, AttemptsLeft, NoLongerThanItsCode

LEMMA NoRecordIsRecord == NoRecord \in Record /\ NoRecord.attempts < OtpMaxAttempts /\ NoRecord.code \notin Codes
  BY DEF NoRecord, Record

LEMMA DelOTPStep == ASSUME IInv, NEW p \in Handlers, DelOTP(p) PROVE IInv'
<1> DEFINE g == h[p].guess
           uses == Noted(past[g].uses, 2)
<1>0. TypeOK /\ h[p] \in Handler /\ h[p].pc = "del" /\ g \in Codes
  BY DEF IInv, TypeOK, DelOTP, GuessIsCode
<1>1. /\ otp' = NoRecord /\ Done(p) /\ UNCHANGED <<count, blocked, calm>>
      /\ past' = [past EXCEPT ![g] = [past[g] EXCEPT !.uses = uses]]
  BY <1>0 DEF DelOTP, Consumed, TypeOK
<1>2. /\ uses \in 0..2
      /\ calm /\ past[g].uses = 0 => uses = 1
  BY <1>0 DEF Noted, Capped, TypeOK
<1> HIDE DEF uses
<1>3. /\ past' \in [Codes -> [life : -MaxLag..OtpTTL, wrong : 0..(OtpMaxAttempts + 1), uses : 0..2]]
      /\ past'[g].uses = uses
      /\ \A c \in Codes : past'[c].life = past[c].life /\ (c # g => past'[c] = past[c])
  BY <1>0, <1>1, <1>2 DEF TypeOK
<1>4. ASSUME calm PROVE Counted' /\ UsedIsGone'
  <2>1. UsedIsGone /\ \A q \in Handlers : q # p => h[q].pc = "idle"
    BY <1>0, <1>4 DEF IInv, Calm, Alone, VerifyPCs
  <2>2. past[g].uses = 0
    BY <1>0, <2>1 DEF UsedIsGone, TypeOK
  <2>3. Counted'
    BY <1>1, NoRecordIsRecord DEF Counted
  <2>4. \A q \in Handlers : h'[q].pc = "idle"
    BY <1>0, <1>1, <2>1, DoneTypes DEF Idle
  <2>5. UsedIsGone'
    BY <1>1, <1>2, <1>3, <1>4, <2>1, <2>2, <2>4, NoRecordIsRecord DEF UsedIsGone
  <2> QED BY <2>3, <2>5
<1> QED BY <1>0, <1>1, <1>3, <1>4, NoRecordIsRecord, EndStep DEF TypeOK, VerifyPCs

LEMMA VerifyStep == ASSUME IInv, NEW p \in Handlers, Verify(p) PROVE IInv'
<1>1. CASE VerifyBlocked(p)
  <2>1. CASE blocked > 0
    BY <1>1, <2>1, LeaveStep DEF VerifyBlocked
  <2>2. CASE ~(blocked > 0)
    <3>1. blocked = 0
      BY <2>2 DEF IInv, TypeOK
    <3> QED BY <1>1, <2>2, <3>1, ToGetStep DEF VerifyBlocked
  <2> QED BY <2>1, <2>2
<1>2. CASE GetNone(p)
  BY <1>2, LeaveStep DEF GetNone
<1> QED BY <1>1, <1>2, GetMatchStep, GetMismatchStep, WriteAttemptsStep, BlockStep, DelOTPStep
        DEF Verify

LEMMA FailsStep == ASSUME IInv, NEW p \in Handlers, Fails(p) PROVE IInv'
<1>0. TypeOK /\ h[p] \in Handler
  BY DEF IInv, TypeOK
<1>1. /\ Done(p) /\ h[p].pc # "idle" /\ UNCHANGED <<count, blocked>>
      /\ otp' \in {otp, NoRecord} \/ (h[p].pc = "write" /\ otp' = h[p].rec)
  BY DEF Fails, Written, Consumed
<1>2. /\ ~calm' /\ calm' \in BOOLEAN
      /\ past' \in [Codes -> [life : -MaxLag..OtpTTL, wrong : 0..(OtpMaxAttempts + 1), uses : 0..2]]
      /\ \A c \in Codes : past'[c].life = past[c].life
  BY <1>0, CalmlyTypes DEF Fails, TypeOK
<1>3. /\ otp' \in Record /\ otp'.attempts < OtpMaxAttempts
      /\ otp'.code \in Codes => otp'.left <= past[otp'.code].life
  BY <1>0, <1>1, NoRecordIsRecord DEF IInv, TypeOK, AttemptsLeft, NoLongerThanItsCode, Handler
<1> QED BY <1>0, <1>1, <1>2, <1>3, EndStep DEF TypeOK

-----------------------------------------------------------------------------
(* Time. *)

LEMMA TickStep == ASSUME IInv, Tick PROVE IInv'
<1>0. TypeOK /\ otp \in Record /\ \A p \in Handlers : h[p] \in Handler /\ h[p].lag < MaxLag
  BY DEF IInv, TypeOK, Tick
<1>1. /\ otp' = IF otp.left <= 1 THEN NoRecord ELSE [otp EXCEPT !.left = otp.left - 1]
      /\ blocked' = IF blocked = 0 THEN 0 ELSE blocked - 1
      /\ calm' = calm
  BY DEF Tick
<1>2. \/ otp' = NoRecord
      \/ /\ otp' \in Record /\ otp'.code = otp.code /\ otp'.attempts = otp.attempts
         /\ otp'.left = otp.left - 1 /\ otp.left > 1
  BY <1>0, <1>1 DEF Record
<1>3. \A n \in -MaxLag..OtpTTL : Later(n) \in -MaxLag..OtpTTL
  BY DEF Later
<1>4. /\ h' \in [Handlers -> Handler]
      /\ \A p \in Handlers :
            \/ h[p].pc = "idle" /\ h'[p] = Idle
            \/ /\ h'[p].pc = h[p].pc /\ h'[p].guess = h[p].guess /\ h'[p].lag = h[p].lag + 1
               /\ h'[p].rec.code = h[p].rec.code /\ h'[p].rec.attempts = h[p].rec.attempts
               /\ h[p].rec.code \in Codes => h'[p].rec.left = Later(h[p].rec.left)
  <2> DEFINE left(p) == IF h[p].rec.code = NoCode THEN h[p].rec.left ELSE Later(h[p].rec.left)
             new(p) == IF h[p].pc = "idle" THEN Idle
                       ELSE [h[p] EXCEPT !.lag = h[p].lag + 1,
                                         !.rec = [h[p].rec EXCEPT !.left = left(p)]]
  <2>1. h' = [p \in Handlers |-> new(p)]
    BY DEF Tick
  <2>2. ASSUME NEW p \in Handlers
        PROVE  /\ new(p) \in Handler
               /\ \/ h[p].pc = "idle" /\ new(p) = Idle
                  \/ /\ new(p).pc = h[p].pc /\ new(p).guess = h[p].guess
                     /\ new(p).lag = h[p].lag + 1
                     /\ new(p).rec.code = h[p].rec.code
                     /\ new(p).rec.attempts = h[p].rec.attempts
                     /\ h[p].rec.code \in Codes => new(p).rec.left = Later(h[p].rec.left)
    <3>0. h[p] \in Handler /\ h[p].rec \in Record /\ h[p].lag + 1 \in 0..MaxLag
      BY <1>0 DEF Handler
    <3>1. left(p) \in -MaxLag..OtpTTL
      BY <1>3, <3>0 DEF Record
    <3>2. [h[p].rec EXCEPT !.left = left(p)] \in Record
      BY <3>0, <3>1 DEF Record
    <3>3. CASE h[p].pc = "idle"
      BY <3>3, NoRecordIsRecord DEF Idle, Handler
    <3>4. CASE h[p].pc # "idle"
      BY <3>0, <3>1, <3>2, <3>4 DEF Handler, Record
    <3> QED BY <3>3, <3>4
  <2> HIDE DEF new
  <2> QED BY <2>1, <2>2
<1>5. /\ past' \in [Codes -> [life : -MaxLag..OtpTTL, wrong : 0..(OtpMaxAttempts + 1), uses : 0..2]]
      /\ \A c \in Codes : /\ past'[c].life = Later(past[c].life)
                          /\ past'[c].wrong = past[c].wrong /\ past'[c].uses = past[c].uses
  <2>1. past' = [c \in Codes |-> [past[c] EXCEPT !.life = Later(past[c].life)]]
    BY DEF Tick
  <2>2. \A c \in Codes :
           past[c] \in [life : -MaxLag..OtpTTL, wrong : 0..(OtpMaxAttempts + 1), uses : 0..2]
    BY <1>0 DEF TypeOK
  <2> QED BY <1>3, <2>1, <2>2
<1>6. TypeOK'
  <2>1. count' \in [n : 0..(OtpMaxRequests + 1), left : 0..Forever]
    <3>1. count \in [n : 0..(OtpMaxRequests + 1), left : 0..Forever]
      BY <1>0 DEF TypeOK
    <3>2. \/ count' = count
          \/ count' = [n |-> 0, left |-> 0]
          \/ count.left > 1 /\ count' = [count EXCEPT !.left = count.left - 1]
      <4>1. count' = IF count.left = Forever THEN count
                     ELSE IF count.left <= 1 THEN [n |-> 0, left |-> 0]
                     ELSE [count EXCEPT !.left = count.left - 1]
        BY DEF Tick
      <4>2. count.left \in Int
        BY <3>1 DEF Forever
      <4> HIDE DEF Forever
      <4> QED BY <4>1, <4>2
    <3> QED BY <3>1, <3>2 DEF Forever
  <2>2. otp' \in Record /\ blocked' \in 0..OtpBlockTTL
    BY <1>0, <1>1, <1>2, NoRecordIsRecord DEF TypeOK
  <2> QED BY <1>0, <1>1, <1>4, <1>5, <2>1, <2>2 DEF TypeOK
<1>7. AttemptsLeft' /\ GuessIsCode'
  BY <1>2, <1>4, NoRecordIsRecord DEF IInv, AttemptsLeft, GuessIsCode, Idle
<1>8. NoLongerThanItsCode'
  <2>1. \A m, n \in -MaxLag..OtpTTL : m <= n => Later(m) <= Later(n)
    BY DEF Later
  <2>2. ASSUME otp'.code \in Codes PROVE otp'.left <= past'[otp'.code].life
    <3>1. /\ otp'.code = otp.code /\ otp'.left = otp.left - 1 /\ otp.left > 1
          /\ otp.left <= past[otp.code].life
      BY <1>2, <2>2, NoRecordIsRecord DEF IInv, NoLongerThanItsCode
    <3>2. otp.left \in -MaxLag..OtpTTL /\ past[otp.code].life \in -MaxLag..OtpTTL
      BY <1>0, <2>2, <3>1 DEF TypeOK, Record
    <3>3. Later(past[otp.code].life) = past[otp.code].life - 1
      BY <3>1, <3>2 DEF Later
    <3> QED BY <1>5, <2>2, <3>1, <3>2, <3>3
  <2>3. ASSUME NEW p \in Handlers, h'[p].rec.code \in Codes
        PROVE  h'[p].rec.left <= past'[h'[p].rec.code].life
    <3>1. /\ h'[p].rec.code = h[p].rec.code
          /\ h'[p].rec.left = Later(h[p].rec.left)
          /\ h[p].rec.left <= past[h[p].rec.code].life
      BY <1>4, <2>3, NoRecordIsRecord DEF IInv, NoLongerThanItsCode, Idle
    <3>2. h[p].rec.left \in -MaxLag..OtpTTL /\ past[h[p].rec.code].life \in -MaxLag..OtpTTL
      BY <1>0, <2>3, <3>1 DEF TypeOK, Record, Handler
    <3> QED BY <1>5, <2>1, <2>3, <3>1, <3>2
  <2> QED BY <2>2, <2>3 DEF NoLongerThanItsCode
<1>9. ASSUME calm PROVE Calm'
  <2>0. Calm
    BY <1>9 DEF IInv
  <2>1. Alone'
    BY <1>4, <2>0 DEF Calm, Alone, VerifyPCs, Idle
  <2>2. ASSUME NEW p \in Handlers, h'[p].pc \in VerifyPCs PROVE Since(p)' /\ CountedBy(p)'
    <3>1. /\ h'[p].pc = h[p].pc /\ h'[p].lag = h[p].lag + 1
          /\ h'[p].rec.code = h[p].rec.code /\ h'[p].rec.attempts = h[p].rec.attempts
          /\ Since(p) /\ CountedBy(p) /\ h[p].lag \in Nat
      BY <1>0, <1>4, <2>0, <2>2 DEF Calm, VerifyPCs, Idle, Handler
    <3>2. otp.left \in Int
      BY <1>0 DEF Record
    <3>3. CASE otp' = NoRecord
      BY <1>5, <3>1, <3>3, NoRecordIsRecord DEF Since, CountedBy, Active, NoRecord
    <3>4. CASE /\ otp'.code = otp.code /\ otp'.attempts = otp.attempts
               /\ otp'.left = otp.left - 1 /\ otp.left > 1
      <4>1. Since(p)'
        BY <3>1, <3>2, <3>4 DEF Since
      <4>2. Active(p)' = Active(p)
        BY <3>1, <3>2, <3>4 DEF Active
      <4>3. Active(p) => otp.code \in Codes
        BY <1>0 DEF Active, Record
      <4>4. CountedBy(p)'
        BY <1>5, <3>1, <3>4, <4>2, <4>3 DEF CountedBy
      <4> QED BY <4>1, <4>4
    <3> QED BY <1>2, <3>3, <3>4
  <2>3. Counted'
    <3>1. ASSUME otp'.code \in Codes
          PROVE  /\ otp'.code = otp.code /\ otp'.attempts = otp.attempts
                 /\ otp'.left = otp.left - 1 /\ otp.left > 1
      BY <1>2, <3>1, NoRecordIsRecord
    <3>2. blocked \in Nat /\ otp.left \in Int
      BY <1>0 DEF TypeOK, Record
    <3>3. \A p \in Handlers : h[p].pc \in {"write", "block"} => h'[p].pc = h[p].pc
      BY <1>4
    <3> QED BY <1>1, <1>5, <2>0, <3>1, <3>2, <3>3 DEF Calm, Counted
  <2>4. UsedIsGone'
    <3>1. otp'.code \in Codes => otp'.code = otp.code
      BY <1>2, NoRecordIsRecord
    <3>2. \A p \in Handlers : h'[p].pc \in {"del", "write", "block"} =>
             h'[p].pc = h[p].pc /\ h'[p].guess = h[p].guess /\ h'[p].rec.code = h[p].rec.code
      BY <1>4 DEF Idle
    <3> QED BY <1>5, <2>0, <3>1, <3>2 DEF Calm, UsedIsGone
  <2> QED BY <2>1, <2>2, <2>3, <2>4 DEF Calm
<1> QED BY <1>1, <1>6, <1>7, <1>8, <1>9 DEF IInv

-----------------------------------------------------------------------------
LEMMA NextIInv == IInv /\ [Next]_vars => IInv'
<1> SUFFICES ASSUME IInv, [Next]_vars PROVE IInv'
  OBVIOUS
<1>1. ASSUME NEW p \in Handlers, SendBegin(p) PROVE IInv'
  BY <1>1, BeginStep
<1>2. ASSUME NEW p \in Handlers, NEW g \in Codes \cup {NoCode}, VerifyBegin(p, g) PROVE IInv'
  BY <1>2, BeginStep
<1>3. ASSUME NEW p \in Handlers, Send(p) PROVE IInv'
  BY <1>3, SendStep, SetNewOTPStep DEF Send
<1>4. CASE UNCHANGED vars
  BY <1>4 DEF vars, IInv, TypeOK, AttemptsLeft, NoLongerThanItsCode, GuessIsCode, Calm, Alone,
              Since, CountedBy, Active, Counted, UsedIsGone
<1> QED BY <1>1, <1>2, <1>3, <1>4, VerifyStep, FailsStep, TickStep DEF Next, OtpSend, OtpVerify

LEMMA Inductive == Spec => []IInv
  BY InitIInv, NextIInv, PTL DEF Spec

-----------------------------------------------------------------------------
\* Every variable keeps its type, for any policy and number of handlers.
THEOREM TypeCorrect == Spec => []TypeOK
<1>1. IInv => TypeOK
  BY DEF IInv
<1> QED BY Inductive, <1>1, PTL

\* The only way from the look-up to the end of a record.
LEMMA AcceptsIsMatch ==
    ASSUME TypeOK, Next, NEW p \in Handlers, h[p].pc = "get", h'[p].pc = "del"
    PROVE  GetMatch(p)
<1>0. \A q \in Handlers : h[q] \in Handler
  BY DEF TypeOK
<1>1. ASSUME NEW q \in Handlers, NEW pc \in {"blocked?", "incr", "expire", "set", "send", "get"},
             Go(q, pc)
      PROVE  FALSE
  BY <1>0, <1>1 DEF Go, TypeOK, Handler
<1>2. ASSUME NEW q \in Handlers, Done(q) PROVE FALSE
  BY <1>0, <1>2 DEF Done, TypeOK, Idle
<1>3. ASSUME NEW q \in Handlers, SendBegin(q) \/ Send(q) \/ Fails(q) PROVE FALSE
  BY <1>1, <1>2, <1>3 DEF SendBegin, Send, SendBlocked, IncrRequests, AfterIncr, ExpireRequests,
                          SetNewOTP, SenderSend, Fails
<1>4. ASSUME NEW q \in Handlers, NEW g \in Codes \cup {NoCode}, VerifyBegin(q, g) PROVE FALSE
  BY <1>0, <1>4 DEF VerifyBegin, TypeOK, Idle
<1>5. ASSUME Tick PROVE FALSE
  BY <1>0, <1>5 DEF Tick, Handler
<1>6. ASSUME NEW q \in Handlers, Verify(q), ~GetMatch(q) PROVE FALSE
  <2>1. ~GetMismatch(q)
    BY <1>0 DEF GetMismatch, TypeOK, Handler
  <2> QED BY <1>1, <1>2, <1>6, <2>1 DEF Verify, VerifyBlocked, GetNone, WriteAttempts, Block, DelOTP
<1>7. ASSUME NEW q \in Handlers, GetMatch(q) PROVE q = p
  BY <1>0, <1>7 DEF GetMatch, Go, TypeOK, Handler
<1> QED BY <1>3, <1>4, <1>5, <1>6, <1>7 DEF Next, OtpSend, OtpVerify

\* However wrong attempts are written back over newer records, a code is
\* accepted only by a request made before the code expired.
THEOREM NeverTooLate == Spec => InTime
<1> DEFINE A == \A p \in Handlers : Accepts(p) => past[h[p].guess].life + h[p].lag > 0
<1>1. IInv /\ [Next]_vars => [A]_vars
  <2> SUFFICES ASSUME IInv, Next, NEW p \in Handlers, Accepts(p)
               PROVE  past[h[p].guess].life + h[p].lag > 0
    OBVIOUS
  <2>1. GetMatch(p)
    <3>0. TypeOK /\ h[p] \in Handler /\ h[p].pc = "get" /\ h'[p].pc = "del"
      BY DEF IInv, TypeOK, Accepts
    <3> QED BY <3>0, AcceptsIsMatch
  <2>2. h[p].guess = otp.code /\ otp.code \in Codes /\ otp.left + h[p].lag > 0
    BY <2>1 DEF GetMatch, Active, IInv, TypeOK, Record
  <2>3. otp.left <= past[otp.code].life
    BY <2>2 DEF IInv, NoLongerThanItsCode
  <2>4. otp.left \in Int /\ past[otp.code].life \in Int /\ h[p].lag \in Int
    BY <2>2 DEF IInv, TypeOK, Record, Handler
  <2> QED BY <2>2, <2>3, <2>4
<1> QED BY Inductive, <1>1, PTL DEF Spec, InTime

\* As long as no Verify has met another request and nothing has failed, a
\* code logs in at most once.
THEOREM LogsInOnce == Spec => []CodeOnce
<1>1. IInv => CodeOnce
  BY DEF IInv, CodeOnce, Calm, UsedIsGone
<1> QED BY Inductive, <1>1, PTL

\* Under the same condition no guess reaches a code that was guessed at
\* OtpMaxAttempts times, not even when the block has ended.
THEOREM NoGuessTooMany == Spec => GuessedOut
<1> DEFINE A == \A p \in Handlers : calm /\ h[p].pc = "get" /\ Active(p) =>
                   past[otp.code].wrong < OtpMaxAttempts
<1>1. IInv => A
  <2> SUFFICES ASSUME IInv, NEW p \in Handlers, calm, h[p].pc = "get", Active(p)
               PROVE  past[otp.code].wrong < OtpMaxAttempts
    OBVIOUS
  <2>1. past[otp.code].wrong = otp.attempts
    BY DEF IInv, Calm, CountedBy, VerifyPCs
  <2> QED BY <2>1 DEF IInv, AttemptsLeft
<1>2. IInv /\ [Next]_vars => [A]_vars
  BY <1>1
<1> QED BY Inductive, <1>2, PTL DEF Spec, GuessedOut
=============================================================================

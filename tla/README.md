# A TLA+ model of QR_DOMofon

QR_DOMofon is a house intercom. A visitor scans a QR code at a door, the
backend rings the apartment over SSE and LiveKit, a resident answers and opens
the door, and a device at the door, reached over MQTT, drives the relay of the
lock. Around that core, a management company invites owners, owners invite
residents, residents pass links to guests, gates open by grants, by links and
by a schedule, and everybody logs in with one-time codes and rotating refresh
tokens. This directory models the parts of it where order, failure and time
matter, checks them with TLC on small instances and proves the central
properties with TLAPS for every instance.

## 1. Inventory

| Component | State it keeps | Operations | Talks to | What is hard |
|---|---|---|---|---|
| `internal/calls` sessions | two Redis keys per call with a TTL of 120 s: `call:apartment:{id}`, `call:{id}` | Initiate, Accept, Cancel, End | SSE hub, LiveKit, audit, access | several commands per request, no lock, keys that expire, crashes between two commands |
| `internal/calls` SSE hub | channels of 16 events per subscriber | subscribe, unsubscribe, emit | calls, web client | dropped events, no replay |
| `internal/access` | none | Open (by call), OpenPoint (by grant), OpenResolved (by guest link) | calls, devices, audit | rights and presence read before the command is published |
| `internal/devices` | presence key (90 s), context of a command (120 s), `last_seen` | heartbeat, ack, event, publish | MQTT, audit | acks before the context is saved, stale presence, publications that time out |
| `firmware/emulator` relay | the automaton with the fail-open latch | OpenRelay, ConnectionLost, ConnectionRestored, State | device loop | lazy evaluation of time |
| `firmware/emulator` device | observed state, offline events | connect, lost, poll, command | MQTT client | goroutines that overtake each other, flapping links |
| `firmware/emulator` commands | buffer of 20 request ids, TTL 60 s | handleCommand | broker | redelivery, clock skew, eviction, restart |
| `internal/auth` refresh tokens | whitelist of ids in Redis | Issue, Rotate, Revoke | web client | Get, Del, Set without a transaction, two tabs with one cookie |
| `internal/auth` one-time codes | code with attempts, request counter, block, all in Redis | Send, Verify | SMS sender | read-modify-write of the attempts, two clocks |
| `internal/onboarding` | users, roles, grants, invites in Postgres | create and accept invites, grant, revoke, console | auth, audit | one transaction of many statements at READ COMMITTED, checks before inserts |
| `internal/guests` | links, their points, the right to create them | create, revoke, open | onboarding, access | rights withdrawn while a request is on its way |
| `internal/schedules` | windows; open windows in memory; an advisory lock | tick of the reconciler, CRUD | devices, audit | two instances, leases, manual openings in between |
| `internal/sysadmin`, `property`, `qr`, `audit`, `platform`, `cmd/server` | rows in Postgres | CRUD, lookup, wiring | all | little: single statements and pure functions |
| `web/visitor` | access token in memory, the refresh cookie | bootstrap, single-flight refresh, logout, SSE | auth, calls | bootstrap beside the single flight, several tabs |

What makes each correct, in one sentence:

* calls: one live call per apartment, no apartment busy for ever, an ended call
  is over, and an opening is preceded by an answer in the audit log;
* access: a door opens only for a member of the apartment after the call was
  accepted (rule M1), or within a right that held, and leaves a trace;
* relay and device: the door fails open after 90 s without a link, and only
  then, closes again only after 30 s of stable link, and the events of that
  reach the audit log;
* commands: a command opens the door at most once and never when it is stale;
* refresh tokens: a spent token stays spent, and a browser keeps its session
  as long as nothing overlaps or fails;
* one-time codes: not accepted late, five guesses, one login for each, and a
  phone is not locked out for ever;
* onboarding: nobody belongs to a company he did not agree to, a link logs in
  once, no invite lowers an owner, and the console shows all that opens;
* guests: a link opens what its creator may open, in his company, until it ends;
* schedules: a window keeps its gate open from beginning to end, and a gate
  that nobody holds open locks.

`PROJECT.json` lists the hazards with their lines and the properties on them.

## 2. Modules

    CallLine               abstract: one telephone line per apartment
    CallSessions           Redis keys and the handlers of calls and of access.Open

    RelayPromise           abstract: fail-open and hold with eager timers
    RelayFSM               firmware/emulator/relay.go, method by method
    Device                 EXTENDS RelayFSM: callbacks, poll loop, offline events

    DeviceCommands         freshness and idempotency of handleCommand

    RefreshTokens          the whitelist behind /auth, and the pages of a browser
    Otp                    codes, attempts, request counter and block of a phone

    Onboarding             roles, grants, invites, the accepting transaction, the console
    Guests                 EXTENDS Onboarding: links, delegation, openings without a call

    Doors                  from an open request to the relay and back to the audit log
    Scheduler              EXTENDS Doors: reconcilers of several instances, windows, leases
    ManualOpening          EXTENDS Scheduler: what an opening by a person does to a window

A module `MC...` holds the instance for TLC of each but the abstract ones
(RelayFSM is checked through Device, Doors through Scheduler, Onboarding both
alone and through Guests), and `...Proofs` holds the
theorems of CallSessions, Device, DeviceCommands, RefreshTokens, Otp,
Onboarding, Guests and Scheduler.

### CallSessions

A request is a process with a program counter. Each action is what the handler
does up to and including its next command to Redis, to the broker or to the
audit log, so that requests interleave exactly where the code can be
interrupted. What the request holds in local variables is its call, whose
apartment never changes, and its user; the state it writes back in Accept is
always `accepted`. `Store.Update` is two actions, since it is two SETs without
a transaction; `Store.Delete` is one, a single DEL of both keys; `Store.Create`
is SET NX, SET, and the compensating DEL. With `Faults`, a command is done,
refused, or done with the reply lost, the audit may fail, and the process may
crash with all its requests. `Tick` is Redis time. An early return changes
nothing and is a stutter (`Refused`).

`Members` is what the claims in the users' tokens say; tokens do not change
during a call here. The session id is a UUID that nobody knows before it is
announced, hence the guard on `announced`.

`CallLine` is what one would want of the two keys: a line per apartment that is
free, rings or is answered. The line of an apartment is the session that its
busy key names, if that session exists. In between two SETs the mapping shows
no change.

### Device

`Refreshed` is the value the fail-open latch would have if a method were called
now; the code brings it up to date only in calls. `RelayPromise` has counters
that change the mode on the very tick a threshold is reached, and the mapping
reads `failSafe` as `Refreshed`.

The i-th connection to the broker starts a goroutine `handleConnect`, and its
end starts `handleConnectionLost`. The lock covers the automaton only. After
it, `handleConnect` subscribes, drains the offline buffer and publishes one
event at a time; `pollState` takes the lock, then `emitEvent` takes it again to
read `online`, then acts. All those are separate actions. `Overtaking` says
whether a callback may take the lock before that of an earlier event of the
link, which the Go scheduler allows. Without it only the locked parts of the
callbacks are in order: the poll loop, the flush and the commands interleave
with them in any way, also between reading `online` and acting on it.

An event once published is kept by the MQTT client (QoS 1, persistent session)
and sent after the reconnect if the link is down, so `published` is in the
order of the calls. That is external behaviour, taken from how `main.go`
configures the client. The relay state that heartbeats copy is left out.

### DeviceCommands

The broker may deliver an issued command any number of times and at any time.
The client calls the handler for one message at a time, so check and actuation
are one step, and its three outcomes are three actions. The entries carry the
order of their insertion, for the eviction. `forgotten` records what left the
buffer before its TTL. The server's clock differs from the device's by up to
`Skew`, so `issued_at` may lie in the future.

### RefreshTokens

One login of one browser: the whitelist `white` of refresh ids, the cookie that
all tabs share, the status of each page and the requests in flight. `Rotate` is
three actions (`RotateGet`, `RotateDel`, `IssueSet`), `Logout` revokes whatever
id its cookie names. The browser sends the cookie it has at the moment of the
request and sets the one in the answer when it arrives, so two tabs overlap as
they do in a browser. `refreshAccess` joins a refresh of its own page that is
under way; the bootstrap of a page and its login form do not. A reload detaches
the requests of the page. Redis commands fail with or without effect, answers
are lost, servers crash, keys age. The bootstrap of a page has a second answer
to wait for, that of `/auth/me` (`me`): it may come at once, after an error or
after a 401, for which the page starts or joins a refresh and asks again; in
each case the page shows the user or the login form, whatever the cookie is. `fate` is a history of what became of each
id, and `calm` says that no request has met another one or a failure so far.

### Otp

One phone, whose three keys are `otp`, `count` and `blocked`. Each Redis command
of `Send` and `Verify` is an action. A handler reads the clock once, at its
start; `lag` is how far it is behind when it compares or stamps, while the TTLs
of Redis run in real time. `GetMismatch` takes the copy of the record on which
the attempt is counted and `WriteAttempts` writes it back whole, over whatever
is there by then. The counter is INCR, then EXPIRE only after the first INCR;
between the two it has no TTL (`Forever`). A failure of either kind, or a crash,
ends a handler anywhere (`Fails`). `calm` says that no Verify met another request
and nothing failed.

### Onboarding and Guests

The state is the tables. `AcceptInviteTx` is one action per statement: it locks
the invite, reads the user, inserts or raises him, binds the role, inserts the
grants in the order of their points and commits. READ COMMITTED is modelled by
keeping what the transaction has written in its own record `tx` until
`Commit`; what it holds (`Holds`) makes others wait (`Free`), as a row lock or a
unique key does in PostgreSQL. An insert that meets a committed row does what
its ON CONFLICT clause says. `AcceptFails` is a rollback or an answer that is
lost after the commit. Handlers that check and then insert in two statements
(`CreateAccessGrant`, `GrantPoint`) leave their insert in `attach`. The console
queries are operators, and `ConsoleIsComplete` speaks of them.

Two details of `AcceptInviteTx` are left out: the UPDATE of `full_name` between
the user and the role, which locks the user's row once more and does not change
the order of the locks, and that `now` is read before the transaction begins.

Guests adds the links and the openings. `CreateGuest` reads the right to create
and the window (`AskGuest`), then the points (`AllowGuest`), then inserts; the
company of the apartment, read first, does not change. An opening is three steps (the link is
validated, the right resolved, the command published), and every action of
Onboarding may come between them. `saw` is a history of what held at some
moment of the request; `opened` is the opening the last step published.

The companies in the claims of tokens are those of the tables, as an
administrator's company is fixed. Roles of residents only grow, so claims are
at most behind the tables; the refresh of a token signs the old roles again.

### Doors and Scheduler

Doors follows an open request: presence, publication (which may time out and
still be delivered), the saved context, the audit entry; then the broker, which
keeps commands for a device that is away; the device, which refuses stale ones
and for which the last command wins; and the ack through `handleAck`, with the
context or without it: the context may not be saved yet, its key may have run
out, or the GET may fail. Times are ages counted up to where they matter.
`faults` counts failed calls, time-outs and lost messages; a crash of the server
counts twice, as it may take both traces of an opening with it, the entry of the
handler and the ack.

Scheduler adds the reconcilers, which compete for the advisory lock at each
tick and lease the gate for a little longer than a tick while a window is
active. A pass takes no time up to its publication, which may hang with the
lock held. Instances crash and start; people open the same gate; admins create
and delete windows. ManualOpening keeps another history, `steady`, for which an
opening by a person is no disturbance.

## 3. Runs

| Run | Instance | Shows |
|---|---|---|
| `calls_faulty` | 1 call, 2 requests, faults, ticks during requests | M1; no apartment busy for ever; types |
| `calls_line` | 2 calls, 2 apartments, 3 requests, polite users, no faults | the keys are one line per apartment; openings are audited |
| `calls_open_after_end` | 1 call, 2 requests | **violated**: Accept resurrects a call that End has ended |
| `device_link` | thresholds 3 and 2 ticks, 3 connections, 9 ticks, callbacks in order | fail-open, hysteresis, no event lost or repeated and at most one held back, refinement of `RelayPromise` |
| `device_fail_open_lost` | the same, with `Overtaking` | **violated**: the door does not fail open |
| `device_commands` | 3 commands, capacity 2, TTL 2, freshness 1, skew 2, restarts | at most once unless forgotten; truthful acks |
| `refresh_tokens` | 2 tabs, 2 requests, 3 ids | spent tokens, one session, loading ends |
| `refresh_twice` | the same | **violated**: a rotation goes through after a logout or another rotation spent its token |
| `otp` | 2 handlers, 3 codes, 2 attempts, 2 requests, lag 1 | in time, once, guessed out, the window ends |
| `onboarding` | 2 phones, one an owner, 2 apartments, 2 gates, 2 invites, 2 accepting transactions | one bearer session, no deadlock, owners stay |
| `guests` | 2 companies, 2 phones, 1 apartment, an entrance and 2 gates, 1 link, 1 invite, 1 opening | consent, console, openings within rights and company, revoked links stop |
| `scheduler` | 2 instances, day of 5 ticks, lease 3, 1 opening, 2 failures, 1 crash, 1 edit | fail-secure, windows held open, no opening without trace |

The three violated properties are sentences of `docs/skeleton/api.md`,
`firmware/docs/PROTOCOL.md` and of a comment in `refresh_store.go`;
`PROJECT.json` quotes them under "findings".

Seven more configurations state sentences that the code does not keep either, or
not to the letter. They are not among the runs; each is started as

    tlc -config OtpRevived.cfg MCOtp.tla

and ends with a trace.

| Configuration, module | Property | The sentence | The trace |
|---|---|---|---|
| `OtpRevived.cfg`, `MCOtp` | `ConsumedForGood` | `otp.go:159` "запись потребляется (DelOTP)" | a wrong attempt read before a right one is written back after it; the code logs in again |
| `OtpNoTTL.cfg`, `MCOtp` | `CounterHasTTL` | `redis_store.go:32-33` "атомарно инкрементит счётчик", "на первом инкременте задаёт TTL" | EXPIRE fails, or the server stops, after the first INCR |
| `DeviceEventsSwapped.cfg`, `MCDevice` | `EventsInOrder` | `PROTOCOL.md:165` "в порядке возникновения" | an event read as offline is buffered after the flush; later ones go out first |
| `CallsForeignDelete.cfg`, `MCCallSessions` | `RingingIsBusy` | `api.md:316` "квартира занята активным звонком" | two ends of one call; the second deletes the busy key of the next call |
| `CallsExpiryUntold.cfg`, `MCCallSessions` | `ExpiryIsTold` | `api.md:358` "сессия истекла" | a ringing call expires; no code runs, so no event ever says so |
| `GuestsGoneAtOnce.cfg`, `MCGuests` | `GoneAtOnce` | `api.md:537` "мгновенно теряет эту точку" | the grant is withdrawn between the check and the publication of one opening |
| `SchedulerManual.cfg`, `MCManualOpening` | `HeldWhoeverOpens` | `api.md:579` "продлеваем аренду каждый тик" | the 5 s of an opening by a person replace the lease; the gate is shut until the next tick |

Bounds, and why they are enough:

* Calls. Every hazard of the list needs at most two calls of one apartment and
  three requests at once (one that holds a stale copy, one that deletes, one
  that sees the result). A second apartment shows that lines do not mix. A TTL
  of 2 ticks lets one key expire before the other. The faulty run has one call
  and two requests, because faults multiply the states and the hazards of a
  failure concern the keys of one call: one request stops half way, another
  finds what it left. A call id is used once.
* Device. Nine ticks cover an outage of 3, a recovery of 2, a second outage and a
  flap between them; three connections cover a flap on either side of a
  threshold. A tick is longer than the timeouts of `Subscribe` and `Publish`
  (5 s), so goroutines that are ready run before the next tick.
* Commands. With capacity 2 a third command evicts; TTL 2 is twice the
  freshness of 1, the ratio of the code (60 s and 30 s), and the skew of 2
  reaches beyond both ends of the window. Four insertions are one more than the
  commands, which is what a repetition takes.
* Refresh tokens. A race over one token takes two requests, from one tab or from
  two. Three ids are a login and two rotations, so a token can be spent, its
  successor live, and a third one in the making. `SpentStaysSpent` is proved for
  any number.
* Codes. Two attempts and two requests make both limits a matter of two steps;
  the TTL of 1 and the block of 2 keep the code's order (5 min, 15 min). With two
  handlers a copy can be written back over a new code. Three codes are the
  current one, one held by a handler and a fresh one. A lag of 1 is a handler
  that lives through a tick.
* Onboarding and Guests. Two transactions and two invites are what a race for a
  new user, for a role or for the same points takes; the cap on composite
  invites is 2 so that two grants have an order, and two apartments let two
  invites of one owner reach those grants at once. The second company in
  `guests` is what leaks would lead to; there one link and one opening meet one
  invite. `MaxAttach` says among how many grants a direct grant is still begun:
  the first one in `onboarding`, a second one in `guests`. The theorems carry
  both to any estate.
* Scheduler. A day of 5 ticks with a window of 4 has a beginning, a middle, an
  end and a night. The lease spans three periods here, as 40 s over 15 s almost
  does; two failures make a publication that timed out meet a lost trace.

`Polite` in `calls_line` is an assumption on the users, not on the code: nobody
hangs up a call while another request on that call is running. Without it the
line is not kept, and `calls_open_after_end` shows how. `Overtaking = FALSE` in
`device_link` likewise excludes that the locked part of a callback runs before
that of an earlier event, which `device_fail_open_lost` shows; everything else
interleaves. `calm` in RefreshTokens and Otp is not a
restriction on the behaviours: the runs contain all overlaps and failures, and
the properties under `calm` say up to when they hold. `HeldOpen` likewise asks
for two periods in which nothing disturbed the leases, an opening by a person
included; `SchedulerManual.cfg` shows what such an opening does.

`CHECK_DEADLOCK FALSE` stands where a bound stops the model: time and
connections in Device, ids in RefreshTokens, invites, requests and faults in the
others. The call runs check for deadlock, but an idle request can always be
refused, so what excludes stuck requests there is `BusyRunsOut` and fairness.

Fairness, each time because a goroutine that is ready runs and its commands have
timeouts:

* CallSessions `FairSpec`: the steps of each request, and Redis expiry. Nobody
  is obliged to send a request.
* RefreshTokens: `Serve`, and `Receive` or `Lost`, of each request: a request
  is answered or breaks. `MeAnswered` of each page: `fetch` settles, and the
  bootstrap catches every error. For `LoadingEnds`.
* Otp: the steps of each handler, and time. For `WindowEnds`.
* Guests: the steps of each opening. For `RevokedStops`.

The safety properties need none of it. Each property is paired with a mutant: a
plausible mistake in one definition, written beside it, under which TLC finds
the property violated.

What the models taught, beyond the violations:

* The lease bridges one missed tick. A reconciler that dies with the lock after
  the other instance skipped its own tick leaves a gap when the lease is shorter
  than two periods; the constructor asks only for a lease longer than one. The
  defaults (15 s, 40 s) keep `HeldOpen`.
* A wrong attempt written back late revives a consumed code (`OtpRevived.cfg`), or
  puts an old one over a new one, until its old expiry; that is why `CodeOnce`
  and `GuessedOut` are claimed only while `calm`, and `InTime` without it.
* An event of the device is never lost, but it may be late and out of order:
  the flush of a connection and the poll loop do not wait for each other, so that
  one event may wait for the next connection (`OneHeldBack`).
* The excuse of two failures in `Traced` is needed for a crash: a publication
  that the server did not live to log, and an ack sent while it was down.
* In `AcceptInviteTx` a transaction that loses the race for a new user goes on
  with the kind it read before: an owner's link may leave the user a resident by
  `users.kind` while his role in the apartment is owner. The rights follow the
  role, so no property of the runs breaks.
* A link's page lists points that its creator may no longer open; the opening
  asks again, so `OpenedWithinRights` holds.
* `MoveBuilding` takes apartments to another site and leaves the points, so that
  grants can drop out of the matrix; `ConsoleIsComplete` is stated for buildings
  that stay.
* A failing `/auth/me` drops a page to the login form although the cookie is
  live; the next reload logs it in again. No property forbids that.
* A device that boots without a broker never starts to count towards fail-open.

## 4. Proofs

* `CallSessionsProofs`. `DoorOnlyAfterAccept` is not inductive: an opening is
  decided at the lookup and happens later, when the session may be gone.
  `IInv` adds `AtWork` (what a running request knows: its call has an
  apartment, it acts for a member, and if it opens, somebody accepted) and
  `Honest` (a session `accepted` was written by members of its apartment). The
  history `acceptedBy` never shrinks, which carries the fact over deletions and
  expiry. The proof has one step per action, under the assumption on the
  constants only: faults, crashes and any overlap are included.
  `DoorIsAudited` needs that nothing fails, since the audit is best effort: whoever
  wrote `accepted` or published the command has audited it or is about to
  (`Trace`). The refinement of `CallLine`, `OneLiveCallPerApartment` and
  `BusyInSync` are proved under the conditions of `calls_line`, which are
  hypotheses on the constants: no failure, no handler that takes a tick, `Polite`
  users. Their invariant `Lines` says that a session and its busy key point at
  each other and run out together, except in the middle of the Create or Accept
  that writes them (`InStep`, `Taken`), what a request between two commands may
  rely on (`Knows`), and that whoever creates or tears down a call is alone with
  it (`Alone`). Each step of the code is then a step of the line or a stutter;
  the only steps that move it are the SET of the session, the SET that answers,
  the DEL and the expiry.
* `DeviceCommandsProofs`. The invariant says that a command that acted is still
  in the buffer, or stale for good, or forgotten. The step that needs thought
  is `Tick`: an entry older than the TTL was inserted within `Stale` of
  `issued_at`, and the TTL is at least twice `Stale` (`CommandsAssumption`), so
  the command is past (`PurgedIsPast`). Types are part of the same invariant.
* `DeviceProofs`. The refinement of `RelayPromise`, for every threshold and
  with overtaking goroutines: each step of `Device` is one method of the
  automaton, a tick, or leaves both alone (`NextIsTurnOrAside`), and each of
  those is a step of the eager automaton or a stutter. The only invariant
  needed is that the clocks are typed. `TypeOK` holds with overtaking too, from
  where the goroutines of each connection may stand (`Started`). The other
  theorems have the hypothesis `~Overtaking`, without which `FailOpenFires` is
  false (`device_fail_open_lost`). `Seen` says what the automaton and the
  goroutines know of the link once the callback of its last event has run: the
  automaton counts from the very tick of the event, the offline buffer is
  drained by whoever found the link up, and no earlier callback is left.
  `HysteresisHolds` adds that the latch the poll loop has not looked at yet was
  let go by a stable link (`LetGo`). For `EventsKept`, `Balance` counts each
  event: as often as it occurred it is published, in the offline buffer, in the
  batch of a goroutine, or in the hands of the poll loop. It holds whatever
  overtakes what, so that theorem has no hypothesis. `OneIsHeldBack` has
  `~Overtaking`: while the device is online and nobody is about to drain, what
  is in the buffer and what the poll loop is about to put there is one event
  together (`HeldBack`).
* `RefreshTokensProofs`. `SpentStaysSpent` needs that the id a request is about
  to set is nobody else's: the whitelist holds issued ids only, the browser and
  the requests know only ids that were drawn, and an id drawn and not yet issued
  belongs to one request. `OneSession` has an invariant of its
  own, `Calm`: as long as no two requests overlapped and nothing was lost, one
  request runs, and `Stage` says what whitelist and cookie are between its GET,
  DEL and SET; with nobody running the whitelist is the cookie's id (`Session`).
* `OtpProofs`. No record and no copy of one outlives its code
  (`NoLongerThanItsCode`), whatever is written back over what: that is `InTime`,
  without any condition. As long as `calm` holds, a Verify runs alone (`Alone`),
  so that what was guessed at a code is what its record, or the copy of the
  Verify, has counted (`Counted`, `CountedBy`), except while the phone is blocked
  for longer than the record lives. This exception needs that a block outlasts a
  code (`PolicyAssumption`, from the constants of the code) and that a record has
  no more life than the TTL less the lag of the Verify that read it (`Since`). It
  gives `GuessedOut`; `CodeOnce` holds because a code that has logged in is gone
  and nobody is about to write it back (`UsedIsGone`).
* `SchedulerProofs`. `FailSecure` follows from a bound that travels with the
  command: as long as a command in the broker, or a lease about to be published,
  is fresh, its age is at least the time since its cause (a window or an
  opening), and while the relay is held, the rest of the hold and the time since
  the cause stay within the budget of freshness plus hold. A command that is
  stale when it arrives changes nothing. `Traced` follows from `Trail`: each piece
  that the trace of an opening lacks, although its request is past the point of
  writing it, was paid for by a failure. `HeldOpen` is proved for a lease longer
  than two periods, as the defaults are (the constructor asks for more than one),
  and for one crash in all, since a crash in each pass would leave the gate
  without leases whatever the lease is. What makes it inductive is that some
  instance `Answers` for the relay: the last lease that was delivered is no older
  than `Behind`, the time since its ticker fired, plus one period while that tick
  is not served yet, plus one for the pass that died. A tick moves both by one.
  The instances' phases are arbitrary; TLC checked the invariant with phases that
  differ as well.
* `OnboardingProofs`. The invariant has six parts: invites and transactions are
  sound (`InvitesSound`, `TxSound`: an invite names points of its company, and a
  transaction works on the parts of an invite that is there), a row has
  one writer (`OneWriter`), a user is created once (`CreatedOnce`), and grants
  and roles come with consent (`GrantsSound`, `RolesSound`). Besides the
  invariant, each step keeps owners and used invites (`Kept`), and
  `OwnerStays` is the first half of that. `NoWaitCycle` has an invariant of its
  own, `Ordered`: a transaction writes users before roles before grants, grants in
  the order of their points, and only finitely many transactions are open. So who
  holds a key has got farther than who wants it (`HolderIsAhead`), and among
  finitely many that wait one has got farthest. That there is one comes from the
  library: strict inclusion among finite sets is well-founded, and the sets of
  those ahead of each have a least member.
* `GuestsProofs`. It takes the inductive invariant of Onboarding along with a
  step of its own for each action of Guests. `Seen` says that a request past
  its validation has seen the link live, and past its resolution the right;
  `Published` says the same of the opening just published. `OpenedWithinCompany`
  then follows from consent, which no step takes back. It needs that the
  entrances of an apartment belong to its company (`GuestsAssumption`). No
  foreign key says so: the schema ties a point to the site of its company, and
  neither its building nor its apartment to that company. It is true of the rows that
  the seed migrations insert, and no code of the repository inserts a point.

Only model-checked: the liveness properties `BusyRunsOut`, `LoadingEnds`,
`WindowEnds` and `RevokedStops`, as liveness is out of the prover's reach. Every invariant and
every safety property over steps that a passing run checks is also proved. The
theorems with hypotheses on the constants (`Faults`, `SlowHandlers`, `Polite`,
`Overtaking`, `MaxCrashes`, `Lease`) say under which conditions the code keeps the
promise; the violated runs show that `Polite` and `~Overtaking` are needed.

## 5. Not modelled

* LiveKit rooms: created and deleted best effort, never read back.
* SSE channels: `told` is the last event emitted, not what a client received.
* The events and heartbeats in the status consumer beyond presence: each is one
  insert or update.
* Sysadmin: single INSERT ... SELECT statements guarded by foreign keys. What
  they establish is the assumption on the estate.
* Property lookup, QR, audit queries, catalog and lists: queries and pure
  functions; refusals are stutters.
* The records `scheduled_open_started` and `_ended`, which the code accepts to
  repeat, and time zones.
* Configuration of server and firmware: read once.
* Cryptography (QR signatures, JWT, bcrypt, TOTP), formatting and HTTP.
* A clock that jumps, and a goroutine preempted between reading the clock and
  taking the lock.

## 6. What comes next

In this order:

1. Proofs: the safety half of the liveness properties (once a link is revoked
   no opening begins for it; a busy key never gains time but by an answer), and
   an abstract specification of the whitelist that RefreshTokens implements.
2. `DoorSystem`: CallSessions, Doors and DeviceCommands composed, from the
   accept of a call to the relay, against one abstract promise of the door.
3. The SSE hub: subscriptions, full channels, reconnects of the web client.
4. Sysadmin: the estate as variables, with `MoveBuilding`.

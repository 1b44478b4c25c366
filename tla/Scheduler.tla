----------------------------- MODULE Scheduler -----------------------------
(***************************************************************************)
(* Scheduled opening (backend/internal/schedules): the reconcilers of the  *)
(* server instances hold a gate open through its windows by leases, short  *)
(* open_relay commands issued at every tick, over the path of module Doors *)
(* on which people open the same gate.                                     *)
(*                                                                         *)
(* One point: the loop over the points treats each alone.  A window is     *)
(* the interval of ticks of the day in which Schedule.ActiveAt holds; all  *)
(* days are alike.  A pass reads the windows and the presence in less than *)
(* a tick; the publication may take longer, and keeps the advisory lock.   *)
(* The records scheduled_open_started and _ended are left out.             *)
(***************************************************************************)
EXTENDS Doors

CONSTANTS
    Instances,   \* server instances, each with a reconciler
    Windows,     \* rows that admins ask for and delete: <<opens, closes>>
    Day,         \* ticks in a day
    Period,      \* SCHEDULER_TICK in ticks
    Phase,       \* when the ticker of each instance fires first
    Lease,       \* SCHEDULER_LEASE
    MaxEdits,    \* bound: creations and deletions of windows
    MaxCrashes   \* bound: crashes of an instance

ASSUME SchedulerAssumption ==
    /\ {Day, Period, Lease} \subseteq Nat \ {0}
    /\ Windows \subseteq (0..Day) \X (0..Day)
    /\ Day % Period = 0
    /\ Phase \in [Instances -> 0..(Period - 1)]
    /\ {MaxEdits, MaxCrashes} \subseteq Nat

VARIABLES
    now,       \* time of the day
    table,     \* the rows of access_point_schedules
    rc,        \* the reconcilers; age is that of the stamp of a lease
    sinceDue,  \* history: ticks since a window of the table was active
    calm,      \* history: ticks since something disturbed the leases
    edits, crashes

vars == <<doors, now, table, rc, sinceDue, calm, edits, crashes>>

Fresh == [up |-> TRUE, fired |-> FALSE, leasing |-> FALSE, age |-> 0]

TypeOK ==
    /\ DoorsTypeOK
    /\ now \in 0..(Day - 1)
    /\ table \subseteq Windows
    /\ rc \in [Instances -> [up : BOOLEAN, fired : BOOLEAN, leasing : BOOLEAN, age : Ages]]
    /\ sinceDue \in 0..(Stale + Lease)
    /\ calm \in 0..(2 * Period + 1)
    /\ edits \in 0..MaxEdits /\ crashes \in 0..MaxCrashes

ValidateSchedule(w) == w[1] < w[2]

\* Schedule.ActiveAt: opens <= t < closes.
ActiveAt(w, t) == w[1] <= t /\ t < w[2]
Due(W, t) == \E w \in W : ActiveAt(w, t)

Init ==
    /\ DoorsInit
    /\ now = 0
    /\ table \in SUBSET {w \in Windows : ValidateSchedule(w)}
    /\ rc = [i \in Instances |-> Fresh]
    /\ sinceDue = IF Due(table, 0) THEN 0 ELSE Stale + Lease
    /\ calm = 0
    /\ edits = 0
    /\ crashes = 0

-----------------------------------------------------------------------------
(* reconcile, on a tick of its ticker. *)

Locked == \E i \in Instances : rc[i].leasing

\* pg_try_advisory_lock, DueAll, the windows at the present moment, which
\* stamps the lease, and IsOnline.
Reconcile(i) ==
    /\ rc[i].fired /\ ~rc[i].leasing
    /\ rc' = [rc EXCEPT ![i].fired = FALSE,
                        ![i].leasing = ~Locked /\ Due(table, now) /\ presence > 0,
                        ![i].age = 0]
    /\ UNCHANGED <<doors, now, table, sinceDue, calm, edits, crashes>>

\* Mutant of LeaseHold: the lease does not overlap the next one.
LeaseHoldTick == Period

LeaseHold == Lease

EndPass(i) == rc[i].leasing /\ rc' = [rc EXCEPT ![i].leasing = FALSE, ![i].age = 0]

\* pulse, and the deferred unlock.
Pulse(i) ==
    /\ EndPass(i)
    /\ Send(Lessor, rc[i].age, LeaseHold)
    /\ UNCHANGED <<link, presence, held, acks, ctx, op, log, acted, sinceAsked, faults>>
    /\ UNCHANGED <<now, table, sinceDue, calm, edits, crashes>>

\* A query, the presence or the publication fails: no lease this time.
PulseFails(i) ==
    /\ EndPass(i)
    /\ Fault(1)
    /\ calm' = 0
    /\ UNCHANGED <<link, presence, broker, held, acks, ctx, op, log, acted, sinceAsked>>
    /\ UNCHANGED <<now, table, sinceDue, edits, crashes>>

-----------------------------------------------------------------------------
(* Instances stop and start: memory and, with its session, the lock go. *)

StopInstance(i) ==
    /\ rc[i].up /\ crashes < MaxCrashes
    /\ crashes' = crashes + 1
    /\ rc' = [rc EXCEPT ![i] = [Fresh EXCEPT !.up = FALSE]]
    /\ calm' = IF \E j \in Instances \ {i} : rc[j].up THEN calm ELSE 0
    /\ UNCHANGED <<doors, now, table, sinceDue, edits>>

StartInstance(i) ==
    /\ ~rc[i].up
    /\ rc' = [rc EXCEPT ![i] = Fresh]
    /\ UNCHANGED <<doors, now, table, sinceDue, calm, edits, crashes>>

\* Service.Create and Service.Delete, by the admin of the company.
Edit(W) ==
    /\ edits < MaxEdits /\ edits' = edits + 1
    /\ table' = W
    /\ sinceDue' = IF Due(W, now) THEN 0 ELSE sinceDue
    /\ calm' = 0
    /\ UNCHANGED <<doors, now, rc, crashes>>

Create(w) == ValidateSchedule(w) /\ w \notin table /\ Edit(table \cup {w})
Delete(w) == w \in table /\ Edit(table \ {w})

\* The handlers.
PostSchedule == \E w \in Windows : Create(w)
DeleteSchedule == \E w \in table : Delete(w)

-----------------------------------------------------------------------------
\* What people do at the same gate disturbs the leases.
DoorsStep ==
    /\ DoorsNext
    /\ calm' = IF acted' # acted \/ link' # link THEN 0 ELSE calm
    /\ UNCHANGED <<now, table, rc, sinceDue, edits, crashes>>

\* Nothing that was due in the tick is left over.
Prompt ==
    /\ \A i \in Instances : ~rc[i].leasing /\ ~rc[i].fired
    /\ ~\E c \in broker : c.id = Lessor
    /\ link /\ presence > 0
    /\ \E i \in Instances : rc[i].up

Fires(i, t) == (t + Period - Phase[i]) % Period = 0

Tick ==
    /\ DoorsTick
    /\ now' = (now + 1) % Day
    /\ rc' = [i \in Instances |->
                [rc[i] EXCEPT !.fired = @ \/ (rc[i].up /\ Fires(i, now')),
                              !.age = IF rc[i].leasing THEN Up(@, Stale + 1) ELSE @]]
    /\ sinceDue' = IF Due(table, now') THEN 0 ELSE Up(sinceDue, Stale + Lease)
    /\ calm' = IF Prompt THEN Up(calm, 2 * Period + 1) ELSE 0
    /\ UNCHANGED <<table, edits, crashes>>

Next ==
    \/ DoorsStep \/ Tick
    \/ \E i \in Instances : Reconcile(i) \/ Pulse(i) \/ PulseFails(i) \/ StopInstance(i) \/ StartInstance(i)
    \/ PostSchedule \/ DeleteSchedule

Spec == Init /\ [][Next]_vars

-----------------------------------------------------------------------------
\* Fail-secure: whatever stops, lags or reconnects, a gate is held open no
\* longer than a lease and the freshness of a command after its last window
\* ended or was deleted, or after somebody opened it.
FailSecure ==
    held > 0 => sinceDue < Stale + Lease \/ sinceAsked < Stale + Hold

\* While nothing disturbs the leases the gate stays open through a window
\* from its second tick on, even if an instance dies in the middle of a pass.
HeldOpen ==
    \A w \in table :
        ActiveAt(w, now) /\ now > w[1] + 2 * Period /\ calm > 2 * Period => held > 0

=============================================================================

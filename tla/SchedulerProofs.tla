-------------------------- MODULE SchedulerProofs --------------------------
(***************************************************************************)
(* Scheduled opening fails secure, for any number of instances, phases of  *)
(* their tickers, windows and people, and for every lease and freshness;   *)
(* with a lease of more than two periods it holds the windows open; and    *)
(* every opening leaves a trace.                                           *)
(***************************************************************************)
EXTENDS Scheduler, TLAPS

\* The inductive strengthening.  While a command is fresh, its age bounds the
\* time since its cause: a window that was due for a lease, a person for an
\* opening; the rest of a hold and the time since its cause share a budget.
DueIsNow == Due(table, now) => sinceDue = 0

StampsOfLeases == \A i \in Instances :
    rc[i].leasing /\ rc[i].age <= Stale => sinceDue <= rc[i].age

Leases == \A c \in broker :
    c.id = Lessor => c.hold = Lease /\ (c.age <= Stale => sinceDue <= c.age)

Openings == \A c \in broker :
    c.id \in Openers => c.hold = Hold /\ (c.age <= Stale => sinceAsked <= c.age)

Budget ==
    held > 0 => sinceDue + held <= Stale + Lease \/ sinceAsked + held <= Stale + Hold

IInv == TypeOK /\ DueIsNow /\ StampsOfLeases /\ Leases /\ Openings /\ Budget

USE DoorsAssumption, SchedulerAssumption

-----------------------------------------------------------------------------
LEMMA Counters ==
    /\ \A cap \in Nat : \A n \in 0..cap : Up(n, cap) \in 0..cap /\ Up(n, cap) <= n + 1
    /\ \A n \in Nat : Down(n) \in Nat /\ (Down(n) > 0 => Down(n) = n - 1)
    /\ Ages \subseteq Nat /\ 0 \in Ages
  BY DEF Up, Down, Ages

LEMMA Older ==
    ASSUME NEW n \in 0..(Stale + 1)
    PROVE  /\ Up(n, Stale + 1) \in 0..(Stale + 1)
           /\ Up(n, Stale + 1) <= Stale => Up(n, Stale + 1) = n + 1 /\ n <= Stale
  BY DEF Up

LEMMA Wraps == \A a \in Nat, b \in Nat \ {0} : a % b \in 0..(b - 1)
  OBVIOUS

LEMMA InitIInv == Init => IInv
<1> SUFFICES ASSUME Init PROVE IInv
  OBVIOUS
<1>1. DoorsTypeOK
  BY DEF Init, DoorsInit, DoorsTypeOK, Ages
<1>2. TypeOK
  BY <1>1 DEF Init, TypeOK, Fresh, Ages
<1>3. DueIsNow /\ StampsOfLeases /\ Leases /\ Openings /\ Budget
  BY DEF Init, DoorsInit, DueIsNow, StampsOfLeases, Leases, Openings, Budget, Fresh
<1> QED BY <1>2, <1>3 DEF IInv

\* A command on its way: what was published a moment ago, by whom.
LEMMA SendType ==
    ASSUME DoorsTypeOK, NEW id \in Openers \cup {Lessor}, NEW age \in Ages, NEW hold \in Nat,
           Send(id, age, hold)
    PROVE  broker' \subseteq Command
  BY DEF DoorsTypeOK, Send, Command

-----------------------------------------------------------------------------
\* The steps of the doors: types first.
LEMMA DoorsStepType ==
    ASSUME DoorsTypeOK, DoorsNext
    PROVE  DoorsTypeOK'
<1> USE DEF DoorsTypeOK, Ages
<1>1. ASSUME NEW o \in Openers, CheckOnline(o) PROVE DoorsTypeOK'
  BY <1>1 DEF CheckOnline, Goto
<1>2. ASSUME NEW o \in Openers, Publish(o) PROVE DoorsTypeOK'
  <2>1. broker' \subseteq Command
    BY <1>2, SendType DEF Publish
  <2> QED BY <1>2, <2>1 DEF Publish, Goto
<1>3. ASSUME NEW o \in Openers, PublishTimesOut(o) PROVE DoorsTypeOK'
  <2>1. broker' \subseteq Command
    BY <1>3, SendType DEF PublishTimesOut
  <2> QED BY <1>3, <2>1 DEF PublishTimesOut, Goto, Fault
<1>4. ASSUME NEW o \in Openers, SaveContext(o) PROVE DoorsTypeOK'
  BY <1>4 DEF SaveContext, Goto, Fault
<1>5. ASSUME NEW o \in Openers, RecordRequest(o) PROVE DoorsTypeOK'
  BY <1>5 DEF RecordRequest, Goto, Fault, Entries
<1>6. ASSUME NEW o \in Openers, Crash(o) PROVE DoorsTypeOK'
  BY <1>6 DEF Crash, Goto, Fault
<1>7. ASSUME NEW c \in broker, Deliver(c) PROVE DoorsTypeOK'
  BY <1>7 DEF Deliver, Acked, Command
<1>8. CASE LinkChanges
  BY <1>8 DEF LinkChanges
<1>9. ASSUME NEW a \in acks, HandleAck(a) PROVE DoorsTypeOK'
  <2>1. a \in Openers \X {"ok", "rejected"}
    OBVIOUS
  <2>2. \A found : AckEntry(a, found) \subseteq Entries \X Openers
    BY <2>1 DEF AckEntry, Entries
  <2> QED BY <1>9, <2>2 DEF HandleAck
<1>10. ASSUME NEW a \in acks, AckLost(a) PROVE DoorsTypeOK'
  BY <1>10 DEF AckLost, Fault
<1> QED BY <1>1, <1>2, <1>3, <1>4, <1>5, <1>6, <1>7, <1>8, <1>9, <1>10 DEF DoorsNext

\* What a step of the doors does to the commands, the relay and the clock of
\* the openings: an opening is published, a command is delivered, or nothing.
LEMMA DoorsStepHold ==
    ASSUME IInv, DoorsStep
    PROVE  Leases' /\ Openings' /\ Budget'
<1> USE DEF IInv, TypeOK
<1>0. sinceDue' = sinceDue /\ sinceDue \in Nat /\ sinceAsked \in Nat /\ held \in Nat
  BY DEF DoorsStep, DoorsTypeOK
<1>1. CASE UNCHANGED <<broker, held, sinceAsked>>
  BY <1>0, <1>1 DEF Leases, Openings, Budget
<1>2. ASSUME NEW o \in Openers, Send(o, op[o].age, Hold), sinceAsked' = 0, UNCHANGED held
      PROVE  Leases' /\ Openings' /\ Budget'
  <2>1. op[o].age \in Nat /\ o # Lessor
    BY DEF DoorsTypeOK, Ages
  <2>2. broker' = broker \cup {[id |-> o, age |-> op[o].age, hold |-> Hold]}
    BY <1>2 DEF Send
  <2>3. Leases'
    BY <1>0, <2>1, <2>2 DEF Leases
  <2>4. \A c \in broker : c.age \in Nat
    BY DEF DoorsTypeOK, Command, Ages
  <2>5. Openings'
    BY <1>2, <2>1, <2>2, <2>4 DEF Openings
  <2>6. Budget'
    BY <1>0, <1>2 DEF Budget
  <2> QED BY <2>3, <2>5, <2>6
<1>3. ASSUME NEW c \in broker, Deliver(c)
      PROVE  Leases' /\ Openings' /\ Budget'
  <2>1. broker' \subseteq broker /\ sinceAsked' = sinceAsked
    BY <1>3 DEF Deliver
  <2>2. Leases' /\ Openings'
    BY <1>0, <2>1 DEF Leases, Openings
  <2>3. CASE IsStale(c)
    <3>1. held' = held
      BY <1>3, <2>3 DEF Deliver
    <3> QED BY <1>0, <2>1, <2>2, <3>1 DEF Budget
  <2>4. CASE ~IsStale(c)
    <3>1. c.age <= Stale /\ c.age \in Nat /\ c.id \in Openers \cup {Lessor}
      BY <2>4 DEF IsStale, DoorsTypeOK, Command, Ages
    <3>2. held' = c.hold
      BY <1>3, <2>4 DEF Deliver
    <3> QED BY <1>0, <2>1, <2>2, <3>1, <3>2 DEF Budget, Leases, Openings
  <2> QED BY <2>2, <2>3, <2>4
<1> QED
  <2>1. DoorsNext
    BY DEF DoorsStep
  <2>2. ASSUME NEW o \in Openers, CheckOnline(o) \/ SaveContext(o) \/ RecordRequest(o) \/ Crash(o)
        PROVE  UNCHANGED <<broker, held, sinceAsked>>
    BY <2>2 DEF CheckOnline, SaveContext, RecordRequest, Crash
  <2>3. ASSUME NEW o \in Openers, Publish(o) \/ PublishTimesOut(o)
        PROVE  \/ UNCHANGED <<broker, held, sinceAsked>>
               \/ Send(o, op[o].age, Hold) /\ sinceAsked' = 0 /\ UNCHANGED held
    BY <2>3 DEF Publish, PublishTimesOut
  <2>4. ASSUME NEW a \in acks, HandleAck(a) \/ AckLost(a)
        PROVE  UNCHANGED <<broker, held, sinceAsked>>
    BY <2>4 DEF HandleAck, AckLost
  <2>5. LinkChanges => UNCHANGED <<broker, held, sinceAsked>>
    BY DEF LinkChanges
  <2> QED BY <2>1, <2>2, <2>3, <2>4, <2>5, <1>1, <1>2, <1>3 DEF DoorsNext

LEMMA DoorsStepIInv == IInv /\ DoorsStep => IInv'
<1> SUFFICES ASSUME IInv, DoorsStep PROVE IInv'
  OBVIOUS
<1>1. TypeOK'
  BY DoorsStepType DEF IInv, TypeOK, DoorsStep
<1>2. DueIsNow' /\ StampsOfLeases'
  BY DEF IInv, DueIsNow, StampsOfLeases, DoorsStep, Due
<1> QED BY <1>1, <1>2, DoorsStepHold DEF IInv

-----------------------------------------------------------------------------
\* The reconcilers.
LEMMA ReconcilerType ==
    ASSUME TypeOK, NEW i \in Instances,
           \/ Reconcile(i) \/ Pulse(i) \/ PulseFails(i) \/ StopInstance(i) \/ StartInstance(i)
    PROVE  TypeOK'
<1> DEFINE Rc == [up : BOOLEAN, fired : BOOLEAN, leasing : BOOLEAN, age : Ages]
           Ended == [rc[i] EXCEPT !.leasing = FALSE, !.age = 0]
<1> USE DEF TypeOK, DoorsTypeOK
<1>0. ASSUME EndPass(i) PROVE rc' \in [Instances -> Rc]
  <2>1. rc[i] \in Rc /\ rc' = [rc EXCEPT ![i] = Ended]
    BY <1>0 DEF EndPass
  <2>2. Ended \in Rc
    BY <2>1, Counters
  <2> QED BY <2>1, <2>2
<1>1. CASE Reconcile(i)
  <2> DEFINE l == ~Locked /\ Due(table, now) /\ presence > 0
             n == [rc[i] EXCEPT !.fired = FALSE, !.leasing = l, !.age = 0]
  <2>1. rc[i] \in Rc /\ rc' = [rc EXCEPT ![i] = n]
    BY <1>1 DEF Reconcile
  <2>2. l \in BOOLEAN
    OBVIOUS
  <2> HIDE DEF l
  <2>3. n \in Rc
    BY <2>1, <2>2, Counters
  <2>4. rc' \in [Instances -> Rc]
    BY <2>1, <2>3
  <2> QED BY <1>1, <2>4 DEF Reconcile, doors
<1>2. CASE Pulse(i)
  <2>1. rc[i].age \in Ages /\ Lease \in Nat
    OBVIOUS
  <2>2. broker' \subseteq Command
    BY <1>2, <2>1, SendType DEF Pulse, LeaseHold
  <2> QED BY <1>0, <1>2, <2>2 DEF Pulse
<1>3. CASE PulseFails(i)
  BY <1>0, <1>3 DEF PulseFails, Fault
<1>4. CASE StopInstance(i)
  <2>1. [Fresh EXCEPT !.up = FALSE] \in Rc
    BY Counters DEF Fresh
  <2>2. calm' \in 0..(2 * Period + 1)
    BY <1>4 DEF StopInstance
  <2>3. crashes' \in 0..MaxCrashes
    BY <1>4 DEF StopInstance
  <2> QED BY <1>4, <2>1, <2>2, <2>3 DEF StopInstance, doors
<1>5. CASE StartInstance(i)
  <2>1. Fresh \in Rc
    BY Counters DEF Fresh
  <2> QED BY <1>5, <2>1 DEF StartInstance, doors
<1> QED BY <1>1, <1>2, <1>3, <1>4, <1>5

LEMMA PulseIInv ==
    ASSUME IInv, NEW i \in Instances, Pulse(i)
    PROVE  IInv'
<1> USE DEF IInv
<1>1. TypeOK'
  BY ReconcilerType
<1>2. /\ rc[i].leasing /\ rc[i].age \in Ages
      /\ broker' = broker \cup {[id |-> Lessor, age |-> rc[i].age, hold |-> Lease]}
      /\ UNCHANGED <<held, sinceAsked, now, table, sinceDue>>
  BY DEF Pulse, EndPass, Send, LeaseHold, TypeOK
<1>3. Leases' /\ Openings'
  BY <1>2 DEF Leases, Openings, StampsOfLeases
<1>4. StampsOfLeases'
  BY <1>2 DEF StampsOfLeases, Pulse, EndPass, TypeOK
<1>5. DueIsNow' /\ Budget'
  BY <1>2 DEF DueIsNow, Due, Budget
<1> QED BY <1>1, <1>3, <1>4, <1>5

LEMMA ReconcilerIInv ==
    ASSUME IInv, NEW i \in Instances,
           Reconcile(i) \/ PulseFails(i) \/ StopInstance(i) \/ StartInstance(i)
    PROVE  IInv'
<1> USE DEF IInv
<1>1. TypeOK'
  BY ReconcilerType
<1>2. UNCHANGED <<broker, held, sinceAsked, now, table, sinceDue>>
  BY DEF Reconcile, PulseFails, StopInstance, StartInstance, doors
<1>3. DueIsNow' /\ Leases' /\ Openings' /\ Budget'
  BY <1>2 DEF DueIsNow, Due, Leases, Openings, Budget
<1>4. StampsOfLeases'
  <2>1. CASE Reconcile(i)
    <3>1. rc'[i].leasing => Due(table, now)
      BY <2>1 DEF Reconcile, TypeOK
    <3>2. rc'[i].age = 0 /\ \A j \in Instances \ {i} : rc'[j] = rc[j]
      BY <2>1 DEF Reconcile, TypeOK
    <3> QED BY <1>2, <3>1, <3>2 DEF StampsOfLeases, DueIsNow
  <2>2. CASE PulseFails(i) \/ StopInstance(i) \/ StartInstance(i)
    <3>1. \A j \in Instances : rc'[j].leasing => rc'[j] = rc[j]
      BY <2>2 DEF PulseFails, EndPass, StopInstance, StartInstance, Fresh, TypeOK
    <3> QED BY <1>2, <3>1 DEF StampsOfLeases
  <2> QED BY <2>1, <2>2
<1> QED BY <1>1, <1>3, <1>4

\* An edit of the windows: nothing on its way is affected, and a window that
\* was due until now counts from now on.
LEMMA EditIInv ==
    ASSUME IInv, NEW W \in SUBSET Windows, Edit(W)
    PROVE  IInv'
<1> USE DEF IInv
<1>1. /\ UNCHANGED <<doors, broker, held, sinceAsked, now, rc>> /\ table' = W
      /\ sinceDue' \in 0..sinceDue /\ sinceDue \in Nat /\ sinceAsked \in Nat /\ held \in Nat
      /\ Due(W, now) => sinceDue' = 0
  BY DEF Edit, doors, TypeOK, DoorsTypeOK
<1>2. TypeOK'
  BY <1>1 DEF Edit, TypeOK, DoorsTypeOK, doors
<1>3. DueIsNow' /\ Budget'
  BY <1>1 DEF DueIsNow, Due, Budget
<1>4. Leases' /\ Openings'
  BY <1>1 DEF Leases, Openings, TypeOK, DoorsTypeOK, Command, Ages
<1>5. StampsOfLeases'
  BY <1>1 DEF StampsOfLeases, TypeOK, Ages
<1> QED BY <1>2, <1>3, <1>4, <1>5

-----------------------------------------------------------------------------
LEMMA TickType ==
    ASSUME TypeOK, Tick
    PROVE  TypeOK'
<1> DEFINE Rc == [up : BOOLEAN, fired : BOOLEAN, leasing : BOOLEAN, age : Ages]
<1> USE DEF TypeOK, DoorsTypeOK
<1>0. DoorsTick
  BY DEF Tick
<1>1. /\ presence' \in 0..PresenceTTL
      /\ held' \in Nat
      /\ sinceAsked' \in 0..(Stale + Hold)
  <2>1. presence' = IF link THEN PresenceTTL ELSE Down(presence)
    BY <1>0 DEF DoorsTick, Heartbeats, Marked
  <2>2. presence' \in 0..PresenceTTL
    BY <2>1 DEF Down
  <2>3. held' \in Nat
    BY <1>0, Counters DEF DoorsTick
  <2>4. sinceAsked' = Up(sinceAsked, Stale + Hold)
    BY <1>0 DEF DoorsTick
  <2>5. sinceAsked' \in 0..(Stale + Hold)
    BY <2>4, Counters
  <2> QED BY <2>2, <2>3, <2>5
<1>2. broker' \subseteq Command
  <2>1. broker' = {[c EXCEPT !.age = Up(@, Stale + 1)] : c \in broker}
    BY <1>0 DEF DoorsTick
  <2>2. ASSUME NEW c \in Command PROVE [c EXCEPT !.age = Up(@, Stale + 1)] \in Command
    <3>1. Up(c.age, Stale + 1) \in Ages
      BY Counters DEF Command, Ages
    <3> QED BY <3>1 DEF Command
  <2> QED BY <2>1, <2>2
<1>3. op' \in [Openers -> [pc : {"new", "publish", "save", "record", "done"}, age : Ages]]
  <2>1. ASSUME NEW o \in Openers PROVE Up(op[o].age, Stale + 1) \in Ages
    <3>1. op[o].age \in 0..(Stale + 1)
      BY DEF Ages
    <3> QED BY <3>1, Older DEF Ages
  <2> QED BY <1>0, <2>1 DEF DoorsTick
<1>4. DoorsTypeOK'
  BY <1>0, <1>1, <1>2, <1>3 DEF DoorsTick
<1>5. now' \in 0..(Day - 1)
  <2>1. now' = (now + 1) % Day
    BY DEF Tick
  <2>2. now + 1 \in Nat /\ Day \in Nat \ {0}
    OBVIOUS
  <2> QED BY <2>1, <2>2, Wraps
<1>6. sinceDue' \in 0..(Stale + Lease) /\ calm' \in 0..(2 * Period + 1)
  <2>1. Up(sinceDue, Stale + Lease) \in 0..(Stale + Lease) /\ Up(calm, 2 * Period + 1) \in 0..(2 * Period + 1)
    BY Counters
  <2>2. /\ sinceDue' \in {0, Up(sinceDue, Stale + Lease)}
        /\ calm' \in {0, Up(calm, 2 * Period + 1)}
    BY DEF Tick
  <2> QED BY <2>1, <2>2
<1>7. rc' \in [Instances -> Rc]
  <2>1. ASSUME NEW i \in Instances PROVE rc'[i] \in Rc
    <3> DEFINE f == rc[i].fired \/ (rc[i].up /\ Fires(i, now'))
               g == IF rc[i].leasing THEN Up(rc[i].age, Stale + 1) ELSE rc[i].age
    <3>1. rc[i] \in Rc
      OBVIOUS
    <3>2. rc'[i] = [rc[i] EXCEPT !.fired = f, !.age = g]
      BY DEF Tick
    <3>3. f \in BOOLEAN
      OBVIOUS
    <3>4. g \in Ages
      BY <3>1 DEF Up, Ages
    <3> HIDE DEF f, g
    <3> QED BY <3>1, <3>2, <3>3, <3>4
  <2>2. rc' = [i \in Instances |-> rc'[i]]
    BY DEF Tick
  <2> QED BY <2>1, <2>2
<1> QED BY <1>4, <1>5, <1>6, <1>7 DEF Tick

\* A tick: a fresh command was fresh before it, and everything that counts
\* grows by one or starts again.
LEMMA TickIInv == IInv /\ Tick => IInv'
<1> SUFFICES ASSUME IInv, Tick PROVE IInv'
  OBVIOUS
<1> USE DEF IInv
<1>1. TypeOK'
  BY TickType
<1>2. /\ sinceDue \in Nat /\ sinceDue' \in Nat /\ sinceDue' <= sinceDue + 1
      /\ sinceAsked \in Nat /\ sinceAsked' \in Nat /\ sinceAsked' <= sinceAsked + 1
      /\ held \in Nat /\ held' \in Nat /\ (held' > 0 => held > 0 /\ held' = held - 1)
  <2>1. /\ sinceDue' \in {0, Up(sinceDue, Stale + Lease)}
        /\ sinceAsked' = Up(sinceAsked, Stale + Hold) /\ held' = Down(held)
    BY DEF Tick, DoorsTick
  <2>2. sinceDue \in Nat /\ sinceAsked \in Nat /\ held \in Nat
    BY DEF TypeOK, DoorsTypeOK
  <2> QED BY <2>1, <2>2 DEF Up, Down
<1>3. DueIsNow'
  BY DEF Tick, DueIsNow, Due
<1>4. StampsOfLeases'
  <2> SUFFICES ASSUME NEW i \in Instances, rc'[i].leasing, rc'[i].age <= Stale
               PROVE  sinceDue' <= rc'[i].age
    BY DEF StampsOfLeases
  <2>1. rc[i].leasing /\ rc'[i].age = Up(rc[i].age, Stale + 1) /\ rc[i].age \in 0..(Stale + 1)
    BY DEF Tick, TypeOK, Ages
  <2>2. rc'[i].age = rc[i].age + 1 /\ rc[i].age <= Stale
    BY <2>1, Older
  <2> QED BY <1>2, <2>1, <2>2 DEF StampsOfLeases
<1>5. \A d \in broker' : \E c \in broker :
        /\ d.id = c.id /\ d.hold = c.hold
        /\ d.age <= Stale => d.age = c.age + 1 /\ c.age <= Stale /\ c.age \in Nat
  <2> TAKE d \in broker'
  <2>1. PICK c \in broker : d = [c EXCEPT !.age = Up(@, Stale + 1)]
    BY DEF Tick, DoorsTick
  <2>2. c.age \in 0..(Stale + 1) /\ c \in Command
    BY DEF TypeOK, DoorsTypeOK, Command, Ages
  <2>3. d.id = c.id /\ d.hold = c.hold /\ d.age = Up(c.age, Stale + 1)
    BY <2>1, <2>2 DEF Command
  <2>4. d.age <= Stale => d.age = c.age + 1 /\ c.age <= Stale
    BY <2>2, <2>3, Older
  <2> QED BY <2>2, <2>3, <2>4
<1>6. Leases'
  BY <1>2, <1>5 DEF Leases
<1>7. Openings'
  BY <1>2, <1>5 DEF Openings
<1>8. Budget'
  BY <1>2 DEF Budget
<1> QED BY <1>1, <1>3, <1>4, <1>6, <1>7, <1>8

-----------------------------------------------------------------------------
LEMMA NextIInv == IInv /\ [Next]_vars => IInv'
<1> SUFFICES ASSUME IInv, [Next]_vars PROVE IInv'
  OBVIOUS
<1>1. CASE DoorsStep
  BY <1>1, DoorsStepIInv
<1>2. CASE Tick
  BY <1>2, TickIInv
<1>3. ASSUME NEW i \in Instances,
             Reconcile(i) \/ Pulse(i) \/ PulseFails(i) \/ StopInstance(i) \/ StartInstance(i)
      PROVE  IInv'
  BY <1>3, PulseIInv, ReconcilerIInv
<1>4. CASE PostSchedule
  <2>1. PICK w \in Windows : Edit(table \cup {w})
    BY <1>4 DEF PostSchedule, Create
  <2> QED BY <2>1, EditIInv DEF IInv, TypeOK
<1>5. CASE DeleteSchedule
  <2>1. PICK w \in table : Edit(table \ {w})
    BY <1>5 DEF DeleteSchedule, Delete
  <2> QED BY <2>1, EditIInv DEF IInv, TypeOK
<1>6. CASE UNCHANGED vars
  <2>1. TypeOK'
    BY <1>6 DEF vars, doors, IInv, TypeOK, DoorsTypeOK
  <2>2. DueIsNow' /\ StampsOfLeases' /\ Leases' /\ Openings' /\ Budget'
    BY <1>6 DEF vars, doors, IInv, DueIsNow, Due, StampsOfLeases, Leases, Openings, Budget
  <2> QED BY <2>1, <2>2 DEF IInv
<1> QED BY <1>1, <1>2, <1>3, <1>4, <1>5, <1>6 DEF Next

LEMMA Inductive == Spec => []IInv
  BY InitIInv, NextIInv, PTL DEF Spec

\* Every variable keeps its type: ages, rests and histories stay within the
\* caps, for any number of instances and requests.
THEOREM TypeCorrect == Spec => []TypeOK
<1>1. IInv => TypeOK
  BY DEF IInv
<1> QED BY Inductive, <1>1, PTL

\* Fail-secure: however instances, links, publications and people interleave,
\* a gate is not held open longer than a lease and the freshness of a command
\* after its last window, or a hold and the freshness after an opening.
THEOREM FailsSecure == Spec => []FailSecure
<1>1. IInv => FailSecure
  BY DEF IInv, TypeOK, DoorsTypeOK, Budget, FailSecure
<1> QED BY Inductive, <1>1, PTL

-----------------------------------------------------------------------------
(* The trace of an opening.  What may be missing of it was paid for by a   *)
(* failure each: the entry of the request, and the ack.                    *)

Sent(o) == o \in acted \/ \E c \in broker : c.id = o

NotRequested(o) == op[o].pc = "done" /\ Sent(o) /\ <<"requested", o>> \notin log

NoAck(o) == /\ o \in acted /\ <<o, "ok">> \notin acks
            /\ <<"ack", o>> \notin log /\ <<"ack_bare", o>> \notin log

TrailOf(o) ==
    /\ op[o].pc \in {"new", "publish"} => ~Sent(o)
    /\ NotRequested(o) => faults >= 1
    /\ NoAck(o) => faults >= 1
    /\ NotRequested(o) /\ NoAck(o) => faults >= 2

Trail == \A o \in Openers : TrailOf(o)

LEMMA InitTrail == Init => Trail
  BY DEF Init, DoorsInit, Trail, TrailOf, Sent, NotRequested, NoAck

\* A step that takes nothing of the trace away.
LEMMA TrailKept ==
    ASSUME TypeOK, NEW o \in Openers, TrailOf(o), op'[o].pc = op[o].pc,
           Sent(o)' => Sent(o), log \subseteq log', NoAck(o)' => NoAck(o),
           faults' \in Nat, faults' >= faults
    PROVE  TrailOf(o)'
<1>1. faults \in Nat
  BY DEF TypeOK, DoorsTypeOK
<1>2. NotRequested(o)' => NotRequested(o)
  BY DEF NotRequested
<1> QED BY <1>1, <1>2 DEF TrailOf

LEMMA DoorsTrail == ASSUME TypeOK, Trail, DoorsNext PROVE Trail'
<1> SUFFICES ASSUME NEW x \in Openers PROVE TrailOf(x)'
  BY DEF Trail
<1>0. DoorsTypeOK /\ TrailOf(x) /\ faults \in Nat /\ x # Lessor /\ op[x].pc \in {"new", "publish", "save", "record", "done"}
  BY DEF TypeOK, DoorsTypeOK, Trail
<1>1. ASSUME NEW o \in Openers, NEW pc \in {"new", "publish", "save", "record", "done"}, Goto(o, pc)
      PROVE  op'[x].pc = (IF x = o THEN pc ELSE op[x].pc)
  BY <1>0, <1>1 DEF Goto, DoorsTypeOK
<1>2. ASSUME NEW n \in Nat, Fault(n) PROVE faults' \in Nat /\ faults' = faults + n
  BY <1>0, <1>2 DEF Fault
<1>3. ASSUME NEW o \in Openers, CheckOnline(o) PROVE TrailOf(x)'
  BY <1>0, <1>1, <1>3 DEF CheckOnline, TrailOf, Sent, NotRequested, NoAck
<1>4. ASSUME NEW o \in Openers, Publish(o) PROVE TrailOf(x)'
  BY <1>0, <1>1, <1>4 DEF Publish, Send, TrailOf, Sent, NotRequested, NoAck
<1>5. ASSUME NEW o \in Openers, PublishTimesOut(o) PROVE TrailOf(x)'
  BY <1>0, <1>1, <1>2, <1>5 DEF PublishTimesOut, Send, TrailOf, Sent, NotRequested, NoAck
<1>6. ASSUME NEW o \in Openers, SaveContext(o) PROVE TrailOf(x)'
  BY <1>0, <1>1, <1>2, <1>6 DEF SaveContext, TrailOf, Sent, NotRequested, NoAck
<1>7. ASSUME NEW o \in Openers, RecordRequest(o) PROVE TrailOf(x)'
  <2>1. CASE log' = log \cup {<<"requested", o>>} /\ UNCHANGED faults
    BY <1>0, <1>1, <1>7, <2>1 DEF RecordRequest, TrailOf, Sent, NotRequested, NoAck
  <2>2. CASE Fault(1) /\ UNCHANGED log
    BY <1>0, <1>1, <1>2, <1>7, <2>2 DEF RecordRequest, TrailOf, Sent, NotRequested, NoAck
  <2> QED BY <1>7, <2>1, <2>2 DEF RecordRequest
<1>8. ASSUME NEW o \in Openers, Crash(o) PROVE TrailOf(x)'
  BY <1>0, <1>1, <1>2, <1>8 DEF Crash, TrailOf, Sent, NotRequested, NoAck
<1>9. ASSUME NEW c \in broker, Deliver(c) PROVE TrailOf(x)'
  <2>1. UNCHANGED <<op, log, faults>> /\ acks \subseteq acks'
    BY <1>9 DEF Deliver, Acked
  <2>2. CASE c.id = x /\ ~IsStale(c)
    <3>1. Sent(x) /\ <<x, "ok">> \in acks'
      BY <1>9, <2>2 DEF Sent, Deliver, Acked
    <3> QED BY <1>0, <2>1, <3>1 DEF TrailOf, NotRequested, NoAck
  <2>3. CASE ~(c.id = x /\ ~IsStale(c))
    <3>1. (Sent(x)' => Sent(x)) /\ (NoAck(x)' => NoAck(x))
      BY <1>9, <2>1, <2>3 DEF Sent, NoAck, Deliver
    <3> QED BY <1>0, <2>1, <3>1, TrailKept
  <2> QED BY <2>2, <2>3
<1>10. CASE LinkChanges
  <2>1. /\ UNCHANGED <<broker, acks, log, acted, op, faults>>
        /\ (Sent(x)' => Sent(x)) /\ (NoAck(x)' => NoAck(x))
    BY <1>10 DEF LinkChanges, Sent, NoAck
  <2> QED BY <1>0, <2>1, TrailKept
<1>11. ASSUME NEW a \in acks, HandleAck(a) PROVE TrailOf(x)'
  <2>1. UNCHANGED <<broker, op, acted, faults>> /\ log \subseteq log' /\ (Sent(x)' => Sent(x))
    BY <1>11 DEF HandleAck, Sent
  <2>2. PICK found \in Get(a[1]) : log' = log \cup AckEntry(a, found)
    BY <1>11 DEF HandleAck
  <2>3. NoAck(x)' => NoAck(x)
    BY <1>11, <2>2 DEF HandleAck, AckEntry, NoAck
  <2> QED BY <1>0, <2>1, <2>3, TrailKept
<1>12. ASSUME NEW a \in acks, AckLost(a) PROVE TrailOf(x)'
  <2>1. faults' = faults + 1 /\ UNCHANGED <<broker, op, log, acted>>
    BY <1>2, <1>12 DEF AckLost
  <2> QED BY <1>0, <2>1 DEF TrailOf, Sent, NotRequested, NoAck
<1> QED BY <1>3, <1>4, <1>5, <1>6, <1>7, <1>8, <1>9, <1>10, <1>11, <1>12 DEF DoorsNext

LEMMA NextTrail == TypeOK /\ Trail /\ [Next]_vars => Trail'
<1> SUFFICES ASSUME TypeOK, Trail, [Next]_vars, NEW o \in Openers PROVE TrailOf(o)'
  BY DEF Trail
<1>0. TrailOf(o) /\ faults \in Nat /\ o # Lessor
  BY DEF TypeOK, DoorsTypeOK, Trail
<1>1. CASE DoorsStep
  BY <1>1, DoorsTrail DEF DoorsStep, Trail
<1>2. CASE Tick
  <2>1. UNCHANGED <<acks, log, acted, faults>> /\ op'[o].pc = op[o].pc
    BY <1>2 DEF Tick, DoorsTick, TypeOK, DoorsTypeOK
  <2>2. \A d \in broker' : \E c \in broker : d.id = c.id
    BY <1>2 DEF Tick, DoorsTick, TypeOK, DoorsTypeOK, Command
  <2>3. (Sent(o)' => Sent(o)) /\ (NoAck(o)' => NoAck(o))
    BY <2>1, <2>2 DEF Sent, NoAck
  <2> QED BY <1>0, <2>1, <2>3, TrailKept
<1>3. ASSUME NEW i \in Instances, Pulse(i) PROVE TrailOf(o)'
  <2>1. UNCHANGED <<acks, log, acted, op, faults>> /\ (Sent(o)' => Sent(o)) /\ (NoAck(o)' => NoAck(o))
    BY <1>0, <1>3 DEF Pulse, Send, Sent, NoAck
  <2> QED BY <1>0, <2>1, TrailKept
<1>4. ASSUME NEW i \in Instances, PulseFails(i) PROVE TrailOf(o)'
  <2>1. /\ UNCHANGED <<broker, acks, log, acted, op>> /\ faults' = faults + 1
        /\ (Sent(o)' => Sent(o)) /\ (NoAck(o)' => NoAck(o))
    BY <1>0, <1>4 DEF PulseFails, Fault, Sent, NoAck
  <2> QED BY <1>0, <2>1, TrailKept
<1>5. CASE UNCHANGED doors
  <2>1. /\ UNCHANGED <<broker, acks, log, acted, op, faults>>
        /\ (Sent(o)' => Sent(o)) /\ (NoAck(o)' => NoAck(o))
    BY <1>5 DEF doors, Sent, NoAck
  <2> QED BY <1>0, <2>1, TrailKept
<1>6. UNCHANGED vars => UNCHANGED doors
  BY DEF vars
<1>7. ASSUME NEW i \in Instances, Reconcile(i) \/ StopInstance(i) \/ StartInstance(i) PROVE UNCHANGED doors
  BY <1>7 DEF Reconcile, StopInstance, StartInstance
<1>8. PostSchedule \/ DeleteSchedule => UNCHANGED doors
  BY DEF PostSchedule, DeleteSchedule, Create, Delete, Edit
<1> QED BY <1>1, <1>2, <1>3, <1>4, <1>5, <1>6, <1>7, <1>8 DEF Next

\* An opening that no failure met is in the log of the company once its
\* handler is through, and no single failed call, time-out or lost message
\* leaves a door opened without a trace, for any number of requests and instances.
THEOREM EveryOpeningIsTraced == Spec => []Traced
<1>1. TypeOK /\ Trail => Traced
  <2> SUFFICES ASSUME TypeOK, Trail, NEW o \in acted,
                      op[o].pc \notin {"save", "record"}, <<"requested", o>> \notin log
               PROVE  \/ faults > 0 /\ (<<o, "ok">> \in acks \/ log \cap {<<"ack", o>>, <<"ack_bare", o>>} # {})
                      \/ faults > 1
    BY DEF Traced
  <2>1. o \in Openers /\ faults \in Nat /\ TrailOf(o) /\ op[o].pc \in {"new", "publish", "done"}
    BY DEF TypeOK, DoorsTypeOK, Trail
  <2>2. NotRequested(o)
    BY <2>1 DEF TrailOf, Sent, NotRequested
  <2>3. CASE NoAck(o)
    BY <2>1, <2>2, <2>3 DEF TrailOf
  <2>4. CASE ~NoAck(o)
    BY <2>1, <2>2, <2>4 DEF TrailOf, NoAck
  <2> QED BY <2>3, <2>4
<1> QED BY TypeCorrect, InitTrail, NextTrail, <1>1, PTL DEF Spec

-----------------------------------------------------------------------------
(* Windows are held open.  Some instance knows of a lease that is no older *)
(* than its own ticker tells, with one period more for a tick not served   *)
(* yet and one for a pass that died.                                       *)

\* Ticks since the ticker of i was due.
Since(i) == (now + Period - Phase[i]) % Period

\* A lease on its way: a pass holds the lock or the broker the command.
Pending == Locked \/ \E c \in broker : c.id = Lessor

\* The tick of i is not served yet.
Late(i) == Since(i) = 0 /\ (rc[i].fired \/ Pending)

\* How long ago the last lease can have been that an instance knows of: one
\* period more while its tick is not served, and one for a pass that died.
Behind(i) ==
    Since(i) + (IF Late(i) THEN Period ELSE 0) + (IF crashes = 0 THEN 0 ELSE Period)

Answers(i) ==
    /\ rc[i].up
    /\ \A w \in table :
          ActiveAt(w, now) /\ now >= w[1] + Behind(i) /\ calm > Behind(i) => held >= Lease - Behind(i)

\* Who is down does nothing, and as long as all is calm the device is there
\* and what is on its way is fresh.
Undisturbed ==
    /\ \A i \in Instances : ~rc[i].up => ~rc[i].fired /\ ~rc[i].leasing
    /\ calm > 0 =>
          /\ presence > 0
          /\ \A i \in Instances : rc[i].leasing => rc[i].age = 0
          /\ \A c \in broker : c.id = Lessor => c.age = 0

\* A person's command is sent once and acts once.
ActsOnce == \A c \in broker : c.id \in Openers =>
    c.id \notin acted /\ \A d \in broker : d.id = c.id => d = c

HInv ==
    /\ Undisturbed
    /\ ActsOnce
    /\ crashes = 0 => \A i \in Instances : Answers(i)
    /\ calm > 0 => \E i \in Instances : Answers(i)

LEMMA NextRest ==
    ASSUME NEW a \in Nat, NEW p \in Nat \ {0}
    PROVE  (a + 1) % p = 0 \/ (a + 1) % p = (a % p) + 1
<1>1. /\ a \div p \in Nat /\ a = p * (a \div p) + (a % p)
      /\ \A q \in Nat : \A r \in 0..(p - 1) : (p * q + r) % p = r
  <2>1. a \div p \in Nat
    OBVIOUS
  <2>2. a = p * (a \div p) + (a % p)
    OBVIOUS
  <2>3. ASSUME NEW q \in Nat, NEW r \in 0..(p - 1) PROVE (p * q + r) % p = r
    OBVIOUS
  <2> QED BY <2>1, <2>2, <2>3
<1>2. PICK q \in Nat, r \in 0..(p - 1) : a = p * q + r
  BY <1>1, Wraps
<1>3. a % p = r
  BY <1>1, <1>2
<1>4. CASE r + 1 < p
  <2>1. r + 1 \in 0..(p - 1) /\ a + 1 = p * q + (r + 1)
    BY <1>2, <1>4
  <2>2. (p * q + (r + 1)) % p = r + 1
    BY <1>1, <2>1
  <2>3. (a + 1) % p = r + 1
    BY <2>1, <2>2
  <2> QED BY <1>3, <2>3
<1>5. CASE r + 1 = p
  <2>1. q + 1 \in Nat /\ 0 \in 0..(p - 1)
    OBVIOUS
  <2>2. (p * (q + 1) + 0) % p = 0
    BY <1>1, <2>1
  <2>3. a + 1 = p * q + p
    BY <1>2, <1>5
  <2>4. p * (q + 1) = p * q + p
    OBVIOUS
  <2>5. p * (q + 1) + 0 = a + 1
    BY <2>3, <2>4
  <2> QED BY <2>2, <2>5
<1> QED BY <1>4, <1>5

\* The ticker of an instance counts up to the period, within a day.
LEMMA SinceCounts ==
    ASSUME TypeOK, NEW i \in Instances
    PROVE  /\ Since(i) \in 0..(Period - 1)
           /\ \A t \in Nat : (t + Period - Phase[i]) % Period \in 0..(Period - 1)
           /\ \/ (now + 1 + Period - Phase[i]) % Period = 0
              \/ (now + 1 + Period - Phase[i]) % Period = Since(i) + 1
<1>1. Period - Phase[i] \in Nat /\ Period \in Nat \ {0} /\ now \in Nat
  BY DEF TypeOK
<1>2. ASSUME NEW t \in Nat
      PROVE  t + Period - Phase[i] \in Nat /\ (t + Period - Phase[i]) % Period \in 0..(Period - 1)
  <2>1. t + Period - Phase[i] \in Nat
    BY <1>1
  <2> QED BY <1>1, <2>1, Wraps
<1>3. Since(i) \in 0..(Period - 1)
  BY <1>1, <1>2 DEF Since
<1>4. now + 1 + Period - Phase[i] = (now + Period - Phase[i]) + 1 /\ now + Period - Phase[i] \in Nat
  BY <1>1
<1>5. \/ ((now + Period - Phase[i]) + 1) % Period = 0
      \/ ((now + Period - Phase[i]) + 1) % Period = Since(i) + 1
  BY <1>1, <1>4, NextRest DEF Since
<1> QED BY <1>2, <1>3, <1>4, <1>5

Counted == \A i \in Instances : Since(i) \in 0..(Period - 1) /\ Behind(i) \in Nat

LEMMA BehindType == TypeOK => Counted
<1> SUFFICES ASSUME TypeOK, NEW i \in Instances
             PROVE  Since(i) \in 0..(Period - 1) /\ Behind(i) \in Nat
  BY DEF Counted
<1>1. Since(i) \in 0..(Period - 1)
  BY SinceCounts
<1> QED BY <1>1 DEF Behind

\* What an instance answers for stays true while its tick is not forgotten, or
\* when a lease has just been delivered.
LEMMA AnswersKept ==
    ASSUME TypeOK, TypeOK', NEW i \in Instances, Answers(i), rc'[i].up,
           UNCHANGED <<now, table>>, calm' <= calm, crashes' >= crashes,
           \/ held' = Lease
           \/ held' = held /\ (Late(i) => Late(i)' \/ (crashes = 0 /\ crashes' > 0) \/ ~Due(table, now))
    PROVE  Answers(i)'
<1>1. TypeOK' => Counted'
  BY BehindType, PTL
<1>2. Behind(i) \in Nat /\ Behind(i)' \in Nat
  BY <1>1, BehindType DEF Counted
<1>3. calm \in Nat /\ calm' \in Nat /\ held \in Nat /\ now \in Nat /\ Lease \in Nat /\ crashes \in Nat /\ crashes' \in Nat
  BY DEF TypeOK, DoorsTypeOK
<1>4. ASSUME NEW w \in table, ActiveAt(w, now), now >= w[1] + Behind(i)', calm' > Behind(i)'
      PROVE  held' >= Lease - Behind(i)'
  <2>1. CASE held' = Lease
    BY <1>2, <1>3, <2>1
  <2>2. CASE held' = held /\ (Late(i) => Late(i)' \/ (crashes = 0 /\ crashes' > 0))
    <3>1. Since(i)' = Since(i) /\ Since(i) \in 0..(Period - 1)
      BY BehindType DEF Since, Counted
    <3>2. Behind(i) <= Behind(i)'
      <4>1. Behind(i) = Since(i) + (IF Late(i) THEN Period ELSE 0) + (IF crashes = 0 THEN 0 ELSE Period)
        BY DEF Behind
      <4>2. Behind(i)' = Since(i) + (IF Late(i)' THEN Period ELSE 0) + (IF crashes' = 0 THEN 0 ELSE Period)
        BY <3>1 DEF Behind
      <4>3. Period \in Nat /\ Since(i) \in Nat /\ (crashes' = 0 => crashes = 0)
        BY <1>3, <3>1
      <4>4. CASE ~Late(i) \/ Late(i)'
        BY <4>1, <4>2, <4>3, <4>4
      <4>5. CASE crashes = 0 /\ crashes' > 0
        BY <1>3, <4>1, <4>2, <4>3, <4>5
      <4> QED BY <2>2, <4>4, <4>5
    <3>3. w[1] \in Nat
      BY <1>4 DEF TypeOK
    <3>4. now >= w[1] + Behind(i) /\ calm > Behind(i)
      BY <1>2, <1>3, <1>4, <3>2, <3>3
    <3>5. held >= Lease - Behind(i)
      BY <1>4, <3>4 DEF Answers
    <3> QED BY <1>2, <1>3, <2>2, <3>2, <3>5
  <2>3. Due(table, now)
    BY <1>4 DEF Due
  <2> QED BY <2>1, <2>2, <2>3
<1> QED BY <1>4 DEF Answers, ActiveAt

\* While nothing is calm an instance answers for nothing but that it is up.
LEMMA AnswersLost ==
    ASSUME TypeOK', NEW i \in Instances, rc'[i].up, calm' = 0
    PROVE  Answers(i)'
<1>1. TypeOK' => Counted'
  BY BehindType, PTL
<1> QED BY <1>1 DEF Answers, Counted

LEMMA CalmLost ==
    ASSUME TypeOK', HInv, Undisturbed', ActsOnce', calm' = 0, crashes' = crashes,
           \A i \in Instances : rc[i].up => rc'[i].up
    PROVE  HInv'
<1>1. crashes' = 0 => \A i \in Instances : Answers(i)'
  BY AnswersLost DEF HInv, Answers
<1> QED BY <1>1 DEF HInv

\* A step in which nobody goes down and the clock stands still.
LEMMA CalmKept ==
    ASSUME TypeOK, TypeOK', HInv, Undisturbed', ActsOnce', crashes' = crashes, calm' \in {0, calm},
           \A i \in Instances : rc[i].up => rc'[i].up,
           calm' > 0 =>
              /\ UNCHANGED <<now, table>>
              /\ \A i \in Instances : rc[i].up =>
                    \/ held' = Lease
                    \/ held' = held /\ (Late(i) => Late(i)' \/ ~Due(table, now))
    PROVE  HInv'
<1>0. calm \in Nat /\ calm' \in Nat /\ crashes \in Nat
  BY DEF TypeOK
<1>1. CASE calm' = 0
  BY <1>1, CalmLost
<1>2. CASE calm' > 0
  <2>1. \A i \in Instances : Answers(i) => Answers(i)'
    <3> SUFFICES ASSUME NEW i \in Instances, Answers(i) PROVE Answers(i)'
      OBVIOUS
    <3>1. rc[i].up /\ rc'[i].up
      BY DEF Answers
    <3>2. calm' <= calm /\ crashes' >= crashes /\ UNCHANGED <<now, table>>
      BY <1>0, <1>2
    <3>3. \/ held' = Lease
          \/ held' = held /\ (Late(i) => Late(i)' \/ ~Due(table, now))
      BY <1>2, <3>1
    <3>4. \/ held' = Lease
          \/ held' = held /\ (Late(i) => Late(i)' \/ (crashes = 0 /\ crashes' > 0) \/ ~Due(table, now))
      BY <3>3
    <3> QED BY <3>1, <3>2, <3>4, AnswersKept, Zenon
  <2> QED BY <1>0, <1>2, <2>1 DEF HInv
<1> QED BY <1>0, <1>1, <1>2

LEMMA InitHInv == Init => HInv
<1> SUFFICES ASSUME Init PROVE HInv
  OBVIOUS
<1>1. Undisturbed /\ ActsOnce
  BY DEF Init, DoorsInit, Undisturbed, ActsOnce, Fresh
<1>2. TypeOK
  BY InitIInv DEF IInv
<1>3. \A i \in Instances : Answers(i)
  BY <1>2, BehindType DEF Init, Answers, Fresh, Counted
<1> QED BY <1>1, <1>3 DEF HInv, Init

-----------------------------------------------------------------------------
LEMMA DoorsHInv ==
    ASSUME IInv, IInv', Trail, HInv, DoorsStep
    PROVE  HInv'
<1>0. /\ TypeOK /\ TypeOK' /\ DoorsTypeOK /\ DoorsNext /\ UNCHANGED <<now, table, rc, crashes>>
      /\ calm' = IF acted' # acted \/ link' # link THEN 0 ELSE calm
      /\ calm' \in {0, calm} /\ calm \in Nat
  BY DEF IInv, TypeOK, DoorsStep
<1>1. ASSUME UNCHANGED <<broker, held, acted, presence>> PROVE HInv'
  <2>1. Undisturbed' /\ ActsOnce'
    BY <1>0, <1>1 DEF HInv, Undisturbed, ActsOnce
  <2>2. \A i \in Instances : Late(i) => Late(i)'
    BY <1>0, <1>1 DEF Late, Since, Pending, Locked
  <2> QED BY <1>0, <1>1, <2>1, <2>2, CalmKept
<1>2. ASSUME NEW o \in Openers, op[o].pc = "publish", Send(o, op[o].age, Hold),
             UNCHANGED <<held, acted, presence>>
      PROVE  HInv'
  <2>1. o # Lessor /\ o \notin acted /\ \A c \in broker : c.id # o
    BY <1>2 DEF Trail, TrailOf, Sent
  <2>2. broker' = broker \cup {[id |-> o, age |-> op[o].age, hold |-> Hold]}
    BY <1>2 DEF Send
  <2>3. Undisturbed'
    BY <1>0, <1>2, <2>1, <2>2 DEF HInv, Undisturbed
  <2>4. ActsOnce'
    BY <1>2, <2>1, <2>2 DEF HInv, ActsOnce
  <2>5. \A i \in Instances : Late(i) => Late(i)'
    BY <1>0, <2>2 DEF Late, Since, Pending, Locked
  <2> QED BY <1>0, <1>2, <2>3, <2>4, <2>5, CalmKept
<1>3. ASSUME NEW c \in broker, Deliver(c) PROVE HInv'
  <2>1. /\ broker' = broker \ {c} /\ UNCHANGED <<presence, link>>
        /\ IF IsStale(c) THEN UNCHANGED <<held, acted>>
           ELSE held' = c.hold /\ acted' = acted \cup ({c.id} \cap Openers)
    BY <1>3 DEF Deliver
  <2>2. Undisturbed'
    BY <1>0, <2>1 DEF HInv, Undisturbed
  <2>3. ActsOnce'
    BY <2>1 DEF HInv, ActsOnce
  <2>4. c.id \in Openers \cup {Lessor}
    BY <1>0 DEF DoorsTypeOK, Command
  <2>5. CASE c.id \in Openers
    <3>1. c.id # Lessor
      BY <2>5
    <3>2. \A i \in Instances : Late(i) => Late(i)'
      BY <1>0, <2>1, <3>1 DEF Late, Since, Pending, Locked
    <3>3. CASE IsStale(c)
      BY <1>0, <2>1, <2>2, <2>3, <3>2, <3>3, CalmKept
    <3>4. CASE ~IsStale(c)
      <4>1. acted' # acted
        BY <2>1, <2>5, <3>4 DEF HInv, ActsOnce
      <4> QED BY <1>0, <2>2, <2>3, <4>1, CalmLost
    <3> QED BY <3>3, <3>4
  <2>6. CASE c.id = Lessor
    <3>1. calm > 0 => held' = Lease
      <4> SUFFICES ASSUME calm > 0 PROVE held' = Lease
        OBVIOUS
      <4>1. c.age = 0 /\ c.hold = Lease
        BY <2>6 DEF HInv, Undisturbed, IInv, Leases
      <4>2. ~IsStale(c)
        BY <4>1 DEF IsStale
      <4> QED BY <2>1, <4>1, <4>2
    <3> QED BY <1>0, <2>2, <2>3, <3>1, CalmKept
  <2> QED BY <2>4, <2>5, <2>6
<1>4. ASSUME NEW o \in Openers, CheckOnline(o) \/ SaveContext(o) \/ RecordRequest(o) \/ Crash(o)
      PROVE  UNCHANGED <<broker, held, acted, presence>>
  BY <1>4 DEF CheckOnline, SaveContext, RecordRequest, Crash
<1>5. ASSUME NEW o \in Openers, Publish(o) \/ PublishTimesOut(o)
      PROVE  \/ UNCHANGED <<broker, held, acted, presence>>
             \/ /\ op[o].pc = "publish" /\ Send(o, op[o].age, Hold)
                /\ UNCHANGED <<held, acted, presence>>
  BY <1>5 DEF Publish, PublishTimesOut
<1>6. ASSUME NEW a \in acks, HandleAck(a) \/ AckLost(a) PROVE UNCHANGED <<broker, held, acted, presence>>
  BY <1>6 DEF HandleAck, AckLost
<1>7. LinkChanges => UNCHANGED <<broker, held, acted, presence>>
  BY DEF LinkChanges
<1> QED BY <1>0, <1>1, <1>2, <1>3, <1>4, <1>5, <1>6, <1>7 DEF DoorsNext

-----------------------------------------------------------------------------
LEMMA ReconcileHInv ==
    ASSUME IInv, IInv', HInv, NEW i \in Instances, Reconcile(i)
    PROVE  HInv'
<1> DEFINE l == ~Locked /\ Due(table, now) /\ presence > 0
<1>0. /\ TypeOK /\ TypeOK' /\ rc[i].fired /\ ~rc[i].leasing
      /\ UNCHANGED <<presence, broker, held, acted, now, table, calm, crashes>> /\ calm \in Nat
      /\ rc' = [rc EXCEPT ![i].fired = FALSE, ![i].leasing = l, ![i].age = 0]
  BY DEF IInv, TypeOK, Reconcile, doors
<1> HIDE DEF l
<1>1. /\ rc'[i].up = rc[i].up /\ rc'[i].leasing = l /\ rc'[i].age = 0 /\ ~rc'[i].fired
      /\ \A j \in Instances \ {i} : rc'[j] = rc[j]
  BY <1>0 DEF TypeOK
<1>2. Undisturbed' /\ ActsOnce'
  BY <1>0, <1>1 DEF HInv, Undisturbed, ActsOnce
<1>3. Locked => Locked'
  BY <1>0, <1>1 DEF Locked
<1>4. ASSUME NEW j \in Instances, Late(j), calm > 0 PROVE Late(j)' \/ ~Due(table, now)
  <2>1. Since(j)' = Since(j) /\ Since(j) = 0
    BY <1>0, <1>4 DEF Since, Late
  <2>2. CASE Pending
    BY <1>0, <1>3, <2>1, <2>2 DEF Late, Pending
  <2>3. CASE j # i /\ rc[j].fired
    BY <1>1, <2>1, <2>3 DEF Late
  <2>4. CASE j = i /\ ~Pending
    <3>1. Due(table, now) => l
      BY <1>4, <2>4 DEF l, HInv, Undisturbed, Pending
    <3>2. l => Locked'
      BY <1>1 DEF Locked
    <3> QED BY <2>1, <3>1, <3>2 DEF Late, Pending
  <2> QED BY <1>4, <2>2, <2>3, <2>4 DEF Late
<1> QED BY <1>0, <1>1, <1>2, <1>4, CalmKept

LEMMA PulseHInv ==
    ASSUME IInv, IInv', HInv, NEW i \in Instances, Pulse(i) \/ PulseFails(i)
    PROVE  HInv'
<1>0. /\ TypeOK /\ TypeOK' /\ rc[i].leasing /\ calm \in Nat
      /\ rc' = [rc EXCEPT ![i].leasing = FALSE, ![i].age = 0]
      /\ UNCHANGED <<presence, held, acted, now, table, crashes>>
  <2>1. EndPass(i) /\ UNCHANGED <<presence, held, acted, now, table, crashes>>
    BY DEF Pulse, PulseFails
  <2> QED BY <2>1 DEF EndPass, IInv, TypeOK
<1>1. /\ rc'[i].up = rc[i].up /\ ~rc'[i].leasing /\ rc'[i].fired = rc[i].fired
      /\ \A j \in Instances \ {i} : rc'[j] = rc[j]
  BY <1>0 DEF TypeOK
<1>2. CASE Pulse(i)
  <2> DEFINE n == [id |-> Lessor, age |-> rc[i].age, hold |-> Lease]
  <2>1. broker' = broker \cup {n} /\ calm' = calm /\ n.id = Lessor /\ n.age = rc[i].age
    BY <1>2 DEF Pulse, Send, LeaseHold
  <2> HIDE DEF n
  <2>2. Undisturbed'
    <3>1. \A j \in Instances : /\ rc'[j].up = rc[j].up /\ rc'[j].fired = rc[j].fired
                               /\ rc'[j].leasing => rc[j].leasing /\ rc'[j].age = rc[j].age
      BY <1>0, <1>1
    <3>2. calm > 0 => rc[i].age = 0
      BY <1>0 DEF HInv, Undisturbed
    <3> QED BY <1>0, <2>1, <3>1, <3>2 DEF HInv, Undisturbed
  <2>3. ActsOnce'
    <3>1. Lessor \notin Openers
      OBVIOUS
    <3> QED BY <1>0, <2>1, <3>1 DEF HInv, ActsOnce
  <2>4. Pending'
    BY <2>1 DEF Pending
  <2>5. \A j \in Instances : Late(j) => Late(j)'
    BY <1>0, <2>4 DEF Late, Since
  <2> QED BY <1>0, <1>1, <2>1, <2>2, <2>3, <2>5, CalmKept
<1>3. CASE PulseFails(i)
  <2>1. calm' = 0 /\ broker' = broker
    BY <1>3 DEF PulseFails
  <2>2. ActsOnce'
    BY <1>0, <2>1 DEF HInv, ActsOnce
  <2>3. \A j \in Instances : /\ rc'[j].up = rc[j].up /\ rc'[j].fired = rc[j].fired
                             /\ rc'[j].leasing => rc[j].leasing
    BY <1>0, <1>1
  <2>4. Undisturbed'
    BY <2>1, <2>3 DEF HInv, Undisturbed
  <2> QED BY <1>0, <2>1, <2>2, <2>3, <2>4, CalmLost
<1> QED BY <1>2, <1>3

\* The one crash: another instance is up, whose last lease is one period
\* older than it thinks when the pass that died was to serve its tick.
LEMMA StopHInv ==
    ASSUME MaxCrashes <= 1, IInv, IInv', HInv, NEW i \in Instances, StopInstance(i)
    PROVE  HInv'
<1>0. /\ TypeOK /\ TypeOK' /\ calm \in Nat /\ crashes = 0 /\ crashes' = 1
      /\ UNCHANGED <<presence, broker, held, acted, now, table>>
      /\ rc' = [rc EXCEPT ![i] = [Fresh EXCEPT !.up = FALSE]]
      /\ calm' = IF \E j \in Instances \ {i} : rc[j].up THEN calm ELSE 0
  <2>1. crashes \in 0..MaxCrashes /\ MaxCrashes \in Nat /\ crashes < MaxCrashes /\ crashes' = crashes + 1
    BY DEF IInv, TypeOK, StopInstance
  <2>2. crashes = 0 /\ crashes' = 1
    BY <2>1
  <2> QED BY <2>2 DEF IInv, TypeOK, StopInstance, doors
<1>1. ~rc'[i].fired /\ ~rc'[i].leasing /\ \A j \in Instances \ {i} : rc'[j] = rc[j]
  BY <1>0 DEF TypeOK, Fresh
<1>2. Undisturbed' /\ ActsOnce'
  BY <1>0, <1>1 DEF HInv, Undisturbed, ActsOnce
<1>3. ASSUME calm' > 0 PROVE \E j \in Instances : Answers(j)'
  <2>1. PICK j \in Instances \ {i} : rc[j].up
    BY <1>0, <1>3
  <2>2. Answers(j) /\ rc'[j].up /\ calm' <= calm
    BY <1>0, <1>1, <2>1 DEF HInv
  <2> QED BY <1>0, <2>2, AnswersKept
<1> QED BY <1>0, <1>2, <1>3 DEF HInv

LEMMA StartHInv ==
    ASSUME IInv, IInv', HInv, NEW i \in Instances, StartInstance(i)
    PROVE  HInv'
<1>0. /\ TypeOK /\ TypeOK' /\ calm \in Nat /\ ~rc[i].up /\ rc' = [rc EXCEPT ![i] = Fresh]
      /\ UNCHANGED <<presence, broker, held, acted, now, table, calm, crashes>>
  BY DEF IInv, TypeOK, StartInstance, doors
<1>1. /\ ~rc[i].leasing /\ ~rc'[i].leasing /\ rc'[i].up
      /\ \A j \in Instances \ {i} : rc'[j] = rc[j]
  BY <1>0 DEF TypeOK, Fresh, HInv, Undisturbed
<1>2. Undisturbed' /\ ActsOnce'
  BY <1>0, <1>1 DEF HInv, Undisturbed, ActsOnce
<1>3. Locked => Locked'
  BY <1>1 DEF Locked
<1>4. \A j \in Instances : rc[j].up /\ Late(j) => Late(j)'
  BY <1>0, <1>1, <1>3 DEF Late, Since, Pending
<1> QED BY <1>0, <1>1, <1>2, <1>4, CalmKept

LEMMA EditHInv ==
    ASSUME IInv, IInv', HInv, NEW W, Edit(W)
    PROVE  HInv'
<1>1. TypeOK' /\ calm' = 0 /\ UNCHANGED <<presence, broker, acted, rc, crashes>>
  BY DEF IInv, Edit, doors
<1>2. Undisturbed' /\ ActsOnce'
  BY <1>1 DEF HInv, Undisturbed, ActsOnce
<1> QED BY <1>1, <1>2, CalmLost

-----------------------------------------------------------------------------
LEMMA TickQuiet ==
    ASSUME IInv, HInv, Tick
    PROVE  Undisturbed' /\ ActsOnce'
<1>0. /\ DoorsTypeOK /\ DoorsTick /\ acted' = acted
      /\ broker' = {[c EXCEPT !.age = Up(@, Stale + 1)] : c \in broker}
  BY DEF IInv, TypeOK, Tick, DoorsTick
<1>1. \A j \in Instances : /\ rc'[j].up = rc[j].up /\ rc'[j].leasing = rc[j].leasing
                           /\ rc'[j].fired => rc[j].fired \/ rc[j].up
  BY DEF IInv, TypeOK, Tick
<1>2. \A c \in broker : [c EXCEPT !.age = Up(@, Stale + 1)].id = c.id
  BY <1>0 DEF DoorsTypeOK, Command
<1> DEFINE older(c) == [c EXCEPT !.age = Up(@, Stale + 1)]
<1>3. ActsOnce'
  <2> SUFFICES ASSUME NEW c \in broker, NEW d \in broker, older(c).id \in Openers
               PROVE  older(c).id \notin acted /\ (older(d).id = older(c).id => older(d) = older(c))
    <3>1. broker' = {older(c) : c \in broker} /\ acted' = acted
      BY <1>0
    <3> HIDE DEF older
    <3> QED BY <3>1 DEF ActsOnce
  <2>1. c.id \in Openers /\ older(c).id = c.id /\ older(d).id = d.id
    BY <1>2
  <2>2. c.id \notin acted /\ (d.id = c.id => d = c)
    BY <2>1 DEF HInv, ActsOnce
  <2> HIDE DEF older
  <2> QED BY <2>1, <2>2
<1>4. ASSUME calm' > 0
      PROVE  /\ presence' > 0
             /\ \A j \in Instances : ~rc'[j].leasing
             /\ \A c \in broker' : c.id # Lessor
  <2>1. Prompt
    <3>1. ~Prompt => calm' = 0
      BY DEF Tick
    <3> QED BY <1>4, <3>1
  <2>2. presence' = PresenceTTL /\ PresenceTTL > 0
    BY <1>0, <2>1 DEF Prompt, DoorsTick, Heartbeats, Marked
  <2>3. \A j \in Instances : ~rc'[j].leasing
    BY <1>1, <2>1 DEF Prompt
  <2>4. ASSUME NEW c \in broker PROVE older(c).id # Lessor
    BY <1>2, <2>1 DEF Prompt
  <2>5. broker' = {older(c) : c \in broker}
    BY <1>0
  <2> HIDE DEF older
  <2> QED BY <2>2, <2>3, <2>4, <2>5
<1>5. Undisturbed'
  BY <1>1, <1>4 DEF HInv, Undisturbed
<1> QED BY <1>3, <1>5

\* A tick that left nothing over: the instance falls behind by one tick at
\* least, and by the relay's lease one tick less is left.
LEMMA TickAnswers ==
    ASSUME IInv, IInv', HInv, Tick, Prompt, NEW i \in Instances, Answers(i)
    PROVE  Answers(i)'
<1>0. TypeOK /\ TypeOK' /\ DoorsTick
  BY DEF IInv, Tick
<1>1. TypeOK' => Counted'
  BY BehindType, PTL
<1>2. /\ Since(i) \in 0..(Period - 1) /\ Since(i)' \in 0..(Period - 1)
      /\ Behind(i) \in Nat /\ Behind(i)' \in Nat
  BY <1>0, <1>1, BehindType DEF Counted
<1>3. rc[i].up /\ rc'[i].up /\ (Since(i)' = 0 => rc'[i].fired)
  BY <1>0 DEF Tick, TypeOK, Answers, Since, Fires
<1>4. ~Late(i)
  BY DEF Prompt, Late, Pending, Locked
<1>5. /\ held \in Nat /\ held' \in Nat /\ held' >= held - 1 /\ Lease \in Nat
      /\ calm \in Nat /\ calm' \in Nat /\ calm' <= calm + 1
      /\ now \in Nat /\ now < Day /\ table' = table /\ crashes' = crashes
  <2>1. held' = Down(held) /\ calm' = Up(calm, 2 * Period + 1)
    BY <1>0 DEF Tick, DoorsTick
  <2>2. held \in Nat /\ calm \in Nat /\ held' \in Nat /\ calm' \in Nat /\ now \in 0..(Day - 1)
    BY <1>0 DEF TypeOK, DoorsTypeOK
  <2>3. held' >= held - 1 /\ calm' <= calm + 1
    BY <2>1, <2>2 DEF Down, Up
  <2>4. table' = table /\ crashes' = crashes
    BY DEF Tick
  <2>5. now \in Nat /\ now < Day /\ Lease \in Nat
    BY <2>2
  <2> QED BY <2>2, <2>3, <2>4, <2>5
<1>6. Behind(i)' >= 1 /\ (now' = now + 1 => Behind(i)' >= Behind(i) + 1)
  <2> DEFINE k == IF crashes = 0 THEN 0 ELSE Period
  <2>1. k \in Nat /\ Behind(i) = Since(i) + k
    BY <1>2, <1>4 DEF Behind
  <2>2. CASE Since(i)' = 0
    <3>1. Late(i)'
      BY <1>3, <2>2 DEF Late
    <3>2. Behind(i)' = 0 + Period + k
      BY <1>5, <2>2, <3>1 DEF Behind
    <3>3. Since(i) <= Period - 1 /\ Since(i) \in Nat /\ Period \in Nat /\ Period >= 1
      BY <1>2
    <3> HIDE DEF k
    <3> QED BY <2>1, <3>2, <3>3
  <2>3. CASE Since(i)' # 0
    <3>1. Behind(i)' = Since(i)' + k
      BY <1>2, <1>5, <2>3 DEF Behind, Late
    <3>2. now' = now + 1 => Since(i)' = (now + 1 + Period - Phase[i]) % Period
      BY DEF Since
    <3>3. now' = now + 1 => Since(i)' = Since(i) + 1
      BY <1>0, <2>3, <3>2, SinceCounts
    <3> QED BY <1>2, <2>1, <2>3, <3>1, <3>3
  <2> QED BY <2>2, <2>3
<1>7. now' = 0 \/ now' = now + 1
  <2>1. now' = (now + 1) % Day /\ Day \in Nat \ {0}
    BY DEF Tick
  <2>2. now % Day = now
    BY <1>5, <2>1
  <2>3. (now + 1) % Day = 0 \/ (now + 1) % Day = (now % Day) + 1
    BY <1>5, <2>1, NextRest
  <2> QED BY <2>1, <2>2, <2>3
<1>8. ASSUME NEW w \in table, ActiveAt(w, now'), now' >= w[1] + Behind(i)', calm' > Behind(i)'
      PROVE  held' >= Lease - Behind(i)'
  <2>1. w[1] \in Nat /\ w[2] \in Nat
    BY <1>0, <1>8 DEF TypeOK
  <2>2. now' = now + 1 /\ Behind(i)' >= Behind(i) + 1
    BY <1>2, <1>6, <1>7, <1>8, <2>1
  <2>3. ActiveAt(w, now) /\ now >= w[1] + Behind(i) /\ calm > Behind(i)
    BY <1>2, <1>5, <1>8, <2>1, <2>2 DEF ActiveAt
  <2>4. held >= Lease - Behind(i)
    BY <1>8, <2>3 DEF Answers
  <2> QED BY <1>2, <1>5, <2>2, <2>4
<1> QED BY <1>3, <1>5, <1>8 DEF Answers, ActiveAt

LEMMA TickHInv ==
    ASSUME IInv, IInv', HInv, Tick
    PROVE  HInv'
<1>0. TypeOK /\ TypeOK' /\ calm \in Nat /\ crashes' = crashes /\ \A i \in Instances : rc'[i].up = rc[i].up
  <2>1. \A i \in Instances : rc'[i].up = rc[i].up
    BY DEF IInv, TypeOK, Tick
  <2>2. TypeOK /\ TypeOK' /\ calm \in Nat
    BY DEF IInv, TypeOK
  <2>3. crashes' = crashes
    BY DEF Tick
  <2> QED BY <2>1, <2>2, <2>3
<1>1. CASE ~Prompt
  <2>1. calm' = 0
    BY <1>1 DEF Tick
  <2> QED BY <1>0, <2>1, TickQuiet, CalmLost
<1>2. CASE Prompt
  <2>1. \A i \in Instances : Answers(i) => Answers(i)'
    BY <1>2, TickAnswers
  <2>2. \E i \in Instances : Answers(i)
    <3>1. CASE calm > 0
      BY <3>1 DEF HInv
    <3>2. CASE calm = 0
      <4>1. PICK i \in Instances : rc[i].up
        BY <1>2 DEF Prompt
      <4>2. Behind(i) \in Nat
        BY <1>0, BehindType DEF Counted
      <4> QED BY <3>2, <4>1, <4>2 DEF Answers
    <3> QED BY <1>0, <3>1, <3>2
  <2> QED BY <1>0, <2>1, <2>2, TickQuiet DEF HInv
<1> QED BY <1>1, <1>2

LEMMA NextHInv ==
    ASSUME MaxCrashes <= 1
    PROVE  IInv /\ Trail /\ HInv /\ [Next]_vars => HInv'
<1> SUFFICES ASSUME IInv, Trail, HInv, [Next]_vars PROVE HInv'
  OBVIOUS
<1>0. IInv'
  BY NextIInv
<1>1. CASE DoorsStep
  BY <1>0, <1>1, DoorsHInv
<1>2. CASE Tick
  BY <1>0, <1>2, TickHInv
<1>3. ASSUME NEW i \in Instances,
             Reconcile(i) \/ Pulse(i) \/ PulseFails(i) \/ StopInstance(i) \/ StartInstance(i)
      PROVE  HInv'
  BY <1>0, <1>3, ReconcileHInv, PulseHInv, StopHInv, StartHInv
<1>4. CASE PostSchedule
  <2>1. PICK w \in Windows : Edit(table \cup {w})
    BY <1>4 DEF PostSchedule, Create
  <2> QED BY <1>0, <2>1, EditHInv
<1>5. CASE DeleteSchedule
  <2>1. PICK w \in table : Edit(table \ {w})
    BY <1>5 DEF DeleteSchedule, Delete
  <2> QED BY <1>0, <2>1, EditHInv
<1>6. CASE UNCHANGED vars
  <2>1. UNCHANGED <<presence, broker, held, acted, now, table, rc, calm, crashes>>
    BY <1>6 DEF vars, doors
  <2>2. Undisturbed' /\ ActsOnce'
    BY <2>1 DEF HInv, Undisturbed, ActsOnce
  <2>3. \A i \in Instances : Late(i) => Late(i)'
    BY <2>1 DEF Late, Since, Pending, Locked
  <2> QED BY <1>0, <2>1, <2>2, <2>3, CalmKept DEF IInv
<1> QED BY <1>1, <1>2, <1>3, <1>4, <1>5, <1>6 DEF Next

\* A lease longer than two periods, as the defaults of 40 s over 15 s are,
\* holds a gate open through its windows while nothing disturbs it, even if
\* one instance dies in the middle of a pass: whatever the phases of the
\* tickers and however many instances there are.
THEOREM WindowsAreHeldOpen ==
    ASSUME MaxCrashes <= 1, Lease > 2 * Period
    PROVE  Spec => []HeldOpen
<1>1. IInv /\ HInv => HeldOpen
  <2> SUFFICES ASSUME IInv, HInv, NEW w \in table,
                      ActiveAt(w, now), now > w[1] + 2 * Period, calm > 2 * Period
               PROVE  held > 0
    BY DEF HeldOpen
  <2>1. TypeOK /\ calm \in Nat /\ now \in Nat /\ held \in Nat /\ crashes \in Nat /\ w[1] \in Nat
    BY DEF IInv, TypeOK, DoorsTypeOK
  <2>2. PICK i \in Instances : Answers(i)
    BY <2>1 DEF HInv
  <2>3. Since(i) \in 0..(Period - 1) /\ Behind(i) \in Nat
    BY <2>1, BehindType DEF Counted
  <2>4. Behind(i) <= 2 * Period
    BY <2>3 DEF Behind, Late
  <2>5. held >= Lease - Behind(i)
    BY <2>1, <2>2, <2>3, <2>4 DEF Answers
  <2> QED BY <2>1, <2>3, <2>4, <2>5
<1>2. IInv /\ Trail /\ [Next]_vars => Trail'
  BY NextTrail DEF IInv
<1>3. IInv /\ Trail /\ HInv /\ [Next]_vars => HInv'
  BY NextHInv
<1> QED BY Inductive, InitTrail, InitHInv, <1>1, <1>2, <1>3, PTL DEF Spec

=============================================================================

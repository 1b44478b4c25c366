------------------------ MODULE DeviceCommandsProofs ------------------------
(* Theorems about DeviceCommands, for every value of its constants. *)
EXTENDS DeviceCommands, TLAPS

USE CommandsAssumption

\* An entry that is purged by age belongs to a command that is stale for good:
\* it was buffered within Stale of issued_at, and the TTL is twice that.
LEMMA PurgedIsPast ==
    ASSUME NEW n \in Nat, NEW added \in Nat, NEW issued \in Int,
           Abs(added - issued) <= Stale, n - added > BufferTTL
    PROVE  n - issued > Stale
BY DEF Abs

\* While a command is not stale, it is either buffered or not past.
LEMMA FreshIsNotPast ==
    ASSUME TypeOK, NEW q \in Requests, ~IsStale(issuedAt[q])
    PROVE  ~Past(q)
BY DEF TypeOK, IsStale, Past, Abs

LEMMA InitIInv == Init => IInv
BY DEF Init, IInv, TypeOK, Entry, NotSent, BufferIsSound, Remembered,
       OnceUnlessForgotten, AckedWasActuated, Recorded, Past, Delivered

LEMMA NextIInv == IInv /\ [Next]_vars => IInv'
<1> SUFFICES ASSUME IInv, [Next]_vars PROVE IInv'
  OBVIOUS
<1> USE DEF IInv, TypeOK, OnceUnlessForgotten, AckedWasActuated
<1>1. ASSUME NEW q \in Requests, Issue(q)
      PROVE  IInv'
  <2>1. \A r \in Requests : Delivered(r) => issuedAt'[r] = issuedAt[r]
    BY <1>1 DEF Issue
  <2>2. TypeOK'
    BY <1>1 DEF Issue
  <2>3. \A r \in actuated' : Delivered(r)'
    BY <1>1, <2>1 DEF Issue, Delivered, NotSent
  <2>4. BufferIsSound'
    BY <1>1, <2>1 DEF Issue, BufferIsSound, Abs, Entry
  <2>5. Remembered'
    BY <1>1, <2>1 DEF Issue, Remembered, Recorded, Past
  <2> QED
    BY <1>1, <2>2, <2>3, <2>4, <2>5 DEF Issue
<1>2. ASSUME NEW q \in Requests, Reject(q)
      PROVE  IInv'
  BY <1>2 DEF Reject, Delivered, BufferIsSound, Remembered, Recorded, Past
<1>3. ASSUME NEW q \in Requests, AckDuplicate(q)
      PROVE  IInv'
  <2>1. q \in actuated
    BY <1>3 DEF AckDuplicate, Buffered, Fresh, BufferIsSound
  <2>2. Remembered'
    BY <1>3 DEF AckDuplicate, Fresh, Remembered, Recorded, Past
  <2>3. BufferIsSound'
    BY <1>3 DEF AckDuplicate, Fresh, BufferIsSound
  <2> QED
    BY <1>3, <2>1, <2>2, <2>3 DEF AckDuplicate, Fresh, Delivered
<1>4. ASSUME NEW q \in Requests, Actuate(q)
      PROVE  IInv'
  <2>1. ~Recorded(q) /\ ~Past(q)
    BY <1>4, FreshIsNotPast DEF Actuate, Buffered, Fresh, Recorded
  <2>2. q \in actuated => q \in forgotten
    BY <2>1 DEF Remembered
  <2>3. \A r \in actuated : Recorded(r) => Recorded(r)' \/ r \in forgotten'
    BY <1>4 DEF Actuate, Insert, Recorded, Fresh
  <2>4. Recorded(q)'
    <3> DEFINE e == [id |-> q, added |-> now, place |-> place]
    <3>1. e \in entries' /\ e.id = q /\ e.added = now /\ now' = now
      BY <1>4 DEF Actuate, Insert
    <3>2. now - now <= BufferTTL
      OBVIOUS
    <3> HIDE DEF e
    <3> QED
      BY <3>1, <3>2 DEF Recorded
  <2>5. Remembered'
    BY <1>4, <2>3, <2>4 DEF Actuate, Insert, Remembered, Past
  <2>6. BufferIsSound'
    BY <1>4 DEF Actuate, Insert, BufferIsSound, Fresh, IsStale, Abs
  <2>7. TypeOK'
    <3>1. Fresh \subseteq Entry /\ Oldest \subseteq Entry
      BY DEF Fresh, Oldest
    <3>2. {e.id : e \in Oldest} \subseteq Requests
      BY <3>1 DEF Entry
    <3>3. [id |-> q, added |-> now, place |-> place] \in Entry
      BY DEF Entry
    <3>4. entries' \subseteq Entry /\ forgotten' \subseteq Requests /\ place' \in Nat
      BY <1>4, <3>1, <3>2, <3>3 DEF Actuate, Insert
    <3> QED
      BY <1>4, <3>4 DEF Actuate
  <2> QED
    BY <1>4, <2>2, <2>5, <2>6, <2>7 DEF Actuate, Insert, Delivered
<1>5. CASE Tick
  <2>1. \A q \in actuated : Recorded(q) => Recorded(q)' \/ Past(q)'
    <3> SUFFICES ASSUME NEW q \in actuated, Recorded(q), ~Recorded(q)'
                 PROVE  Past(q)'
      OBVIOUS
    <3>1. PICK e \in entries : e.id = q
      BY DEF Recorded
    <3>2. now' - e.added > BufferTTL
      BY <1>5, <3>1 DEF Tick, Recorded, Entry
    <3>3. Abs(e.added - issuedAt[q]) <= Stale
      BY <3>1 DEF BufferIsSound
    <3>4. /\ q \in Requests /\ issuedAt[q] \in Int /\ e.added \in Nat /\ now' \in Nat
          /\ issuedAt' = issuedAt
      BY <1>5, <3>1 DEF Tick, Entry
    <3>5. now' - issuedAt[q] > Stale
      BY <3>2, <3>3, <3>4, PurgedIsPast
    <3> QED
      BY <3>4, <3>5 DEF Past
  <2>2. Remembered'
    BY <1>5, <2>1 DEF Tick, Remembered, Past
  <2>3. BufferIsSound'
    BY <1>5 DEF Tick, BufferIsSound, Entry
  <2> QED
    BY <1>5, <2>2, <2>3 DEF Tick, Delivered
<1>6. CASE Restart
  BY <1>6 DEF Restart, BufferIsSound, Remembered, Recorded, Past, Delivered, Entry
<1>7. CASE UNCHANGED vars
  BY <1>7 DEF vars, BufferIsSound, Remembered, Recorded, Past, Delivered
<1> QED
  BY <1>1, <1>2, <1>3, <1>4, <1>5, <1>6, <1>7 DEF Next

\* Every variable keeps its type: the buffer holds entries, the answers are
\* the three the device gives, for every capacity and clock skew.
THEOREM TypeCorrect == Spec => []TypeOK
<1>1. IInv => TypeOK
  BY DEF IInv
<1> QED
  BY <1>1, InitIInv, NextIInv, PTL DEF Spec

\* For every capacity, TTL and clock skew, with redeliveries in any order and
\* restarts: a command opens the door twice only if the buffer forgot it.
THEOREM OnceForEveryCapacity == Spec => []OnceUnlessForgotten
<1>1. IInv => OnceUnlessForgotten
  BY DEF IInv
<1> QED
  BY <1>1, InitIInv, NextIInv, PTL DEF Spec

\* The backend is never told ok or duplicate about a command that did not open
\* the door.
THEOREM AcksAreTrue == Spec => []AckedWasActuated
<1>1. IInv => AckedWasActuated
  BY DEF IInv
<1> QED
  BY <1>1, InitIInv, NextIInv, PTL DEF Spec
=============================================================================

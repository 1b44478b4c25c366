--------------------------- MODULE ManualOpening ---------------------------
(***************************************************************************)
(* The reconcilers of Scheduler with a history that does not take a        *)
(* person's opening of the gate for a disturbance of its leases.           *)
(***************************************************************************)
EXTENDS Scheduler

VARIABLE
    steady  \* history: ticks since a failure, a crash, an edit, a change of
            \* the link or a lease that was late

SteadyAfter ==
    IF now' # now THEN IF Prompt THEN Up(steady, 2 * Period + 1) ELSE 0
    ELSE IF <<link, faults, edits, crashes>>' # <<link, faults, edits, crashes>> THEN 0
    ELSE steady

ManualInit == Init /\ steady = 0

ManualNext == Next /\ steady' = SteadyAfter

ManualSpec == ManualInit /\ [][ManualNext]_<<vars, steady>>

-----------------------------------------------------------------------------
\* api.md:574 says that a gate opens by itself in its hours, and api.md:579
\* that it is held open by renewing the lease at every tick: while the leases
\* come in time the gate stays open through its window, whoever opens it.
HeldWhoeverOpens ==
    \A w \in table :
        ActiveAt(w, now) /\ now > w[1] + 2 * Period /\ steady > 2 * Period => held > 0

=============================================================================

--------------------------- MODULE AtomicWorkspace ---------------------------
(***************************************************************************)
(* What UAWP's durable transactions promise: a workspace whose state only  *)
(* changes by whole plans.  At most one plan is open; it opens only if the *)
(* workspace is exactly what its approval was given for, and it resolves   *)
(* once, into all of its after states or into none of them.                *)
(***************************************************************************)
EXTENDS TransactionEvidence

CONSTANTS Txns, InitDisks, NoTxn

VARIABLES
    state,      \* the workspace as seen through resolved transactions
    open,       \* the transaction in progress, or NoTxn
    plans,      \* the plan each transaction was opened with
    outcome     \* how each transaction resolved, "NONE" until it does

avars == <<state, open, plans, outcome>>

Unopened == [changes |-> << >>, inputs |-> << >>, migrates |-> FALSE]

AtomicInit ==
    /\ state \in InitDisks
    /\ open = NoTxn
    /\ plans = [t \in Txns |-> Unopened]
    /\ outcome = [t \in Txns |-> "NONE"]

\* The plan is the one approved; its before states and inputs hold now.
Open(t, plan) ==
    /\ open = NoTxn /\ plans[t] = Unopened /\ plan # Unopened
    /\ \A i \in DOMAIN plan.changes : state[plan.changes[i].path] = plan.changes[i].before
    /\ \A q \in DOMAIN plan.inputs : state[q] = plan.inputs[q]
    /\ open' = t
    /\ plans' = [plans EXCEPT ![t] = plan]
    /\ UNCHANGED <<state, outcome>>

Resolve(result) ==
    /\ open \in Txns
    /\ outcome' = [outcome EXCEPT ![open] = result]
    /\ open' = NoTxn
    /\ UNCHANGED plans

Overlay(live, changes) ==
    [q \in Paths |->
        IF q \in ChangedPaths(changes)
        THEN changes[CHOOSE i \in DOMAIN changes : changes[i].path = q].after
        ELSE live[q]]

Commit == Resolve("COMPLETED") /\ state' = Overlay(state, plans[open].changes)

RollBack == Resolve("ROLLED_BACK") /\ UNCHANGED state

AtomicNext == (\E t \in Txns : Open(t, plans'[t])) \/ Commit \/ RollBack

AtomicSpec == AtomicInit /\ [][AtomicNext]_avars
=============================================================================

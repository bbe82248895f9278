------------------------ MODULE TransactionRefinement ------------------------
(***************************************************************************)
(* The files, failures, crashes and recoveries of Transaction implement    *)
(* AtomicWorkspace.  The changes of the transaction that RECOVERY.json     *)
(* names are not part of the abstract state until it resolves; a bundle    *)
(* that the pointer never named, and a pointer whose bundle was removed    *)
(* because it could not be synced, do not exist abstractly.                *)
(***************************************************************************)
EXTENDS Transaction

Resolved ==
    IF pointer \in Txns
    THEN [q \in Paths |->
             IF q \in ChangedPaths(LivePlan.changes)
             THEN LivePlan.changes[CHOOSE i \in DOMAIN LivePlan.changes :
                                       LivePlan.changes[i].path = q].before
             ELSE disk[q]]
    ELSE disk

Opened ==
    [t \in Txns |-> IF pointer = t \/ bundle[t].receipt \in Results
                    THEN bundle[t].plan ELSE NoPlan]

Outcome == [t \in Txns |-> IF pointer = t THEN "NONE" ELSE bundle[t].receipt]

Atomic == INSTANCE AtomicWorkspace WITH
    state <- Resolved,
    open <- IF pointer \in Txns /\ bundle[pointer] # NoBundle THEN pointer ELSE NoTxn,
    plans <- Opened,
    outcome <- Outcome

\* As long as no other program edits the files, whatever fails or crashes,
\* the workspace changes by whole approved plans: a plan opens on exactly the
\* state it was approved for and resolves into all of it or nothing of it.
ImplementsAtomicWorkspace == Atomic!AtomicSpec
=============================================================================

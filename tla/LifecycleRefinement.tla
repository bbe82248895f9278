------------------------- MODULE LifecycleRefinement -------------------------
(***************************************************************************)
(* The commands, plans and half-published transactions of Lifecycle        *)
(* implement ClaimedNotebook.  What a live transaction has published is    *)
(* not in the notebook until the transaction settles.                      *)
(***************************************************************************)
EXTENDS Lifecycle

Published == {live.plan.order[i] : i \in 1 .. live.done}

Settled == [n \in Paths |-> IF n \in Published THEN live.plan.bound[n] ELSE files[n]]

Notebook == INSTANCE ClaimedNotebook WITH
    claim <- Settled[Owner],
    context <- Settled[Context],
    decisions <- Settled[Decisions],
    checkpoints <- [m \in Milestones |-> Settled[m]]

\* Whatever the interleaving, the interruptions and their recoveries, the
\* shared files change by whole lifecycle operations, each on the state that
\* the operation before it left.
ImplementsClaimedNotebook == Notebook!NotebookSpec
=============================================================================

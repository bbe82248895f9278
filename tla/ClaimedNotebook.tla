--------------------------- MODULE ClaimedNotebook ---------------------------
(***************************************************************************)
(* What UAWP's lifecycle promises a team that shares a workspace: one      *)
(* notebook, written only under a claim that passes from one session to    *)
(* the next, generation after generation, in whole operations.             *)
(***************************************************************************)
EXTENDS Ownership, Sequences

CONSTANTS Contexts, Milestones, InitialContext

VARIABLES
    claim,         \* who may write
    context,       \* the shared context
    decisions,     \* the claims that controllers ended, in order
    checkpoints    \* context and author of every milestone, << >> without one

nvars == <<claim, context, decisions, checkpoints>>

NotebookInit ==
    /\ claim = Bootstrapped
    /\ context = InitialContext
    /\ decisions = << >>
    /\ checkpoints = [m \in Milestones |-> << >>]

Held == claim.status = "ACTIVE"

\* The next holder has a generation that nobody had before.
TakeUp ==
    /\ ~Held
    /\ \E w \in Workers, s \in Sessions :
           claim' = [status |-> "ACTIVE", worker |-> w, session |-> s,
                     generation |-> claim.generation + 1]
    /\ UNCHANGED <<context, decisions, checkpoints>>

PutDown == Held /\ claim' = Release(claim)

GiveUp == PutDown /\ UNCHANGED <<context, decisions, checkpoints>>

Write == Held /\ context' \in Contexts /\ UNCHANGED <<claim, decisions, checkpoints>>

Mark ==
    /\ Held
    /\ \E m \in Milestones :
           /\ checkpoints[m] = << >>
           /\ checkpoints' = [checkpoints EXCEPT ![m] = <<context, ActorOf(claim)>>]
    /\ UNCHANGED <<claim, context, decisions>>

HandOver == PutDown /\ context' \in Contexts /\ UNCHANGED <<decisions, checkpoints>>

Overrule ==
    /\ PutDown
    /\ decisions' = Append(decisions, ActorOf(claim))
    /\ UNCHANGED <<context, checkpoints>>

NotebookNext == TakeUp \/ GiveUp \/ Write \/ Mark \/ HandOver \/ Overrule

NotebookSpec == NotebookInit /\ [][NotebookNext]_nvars
=============================================================================

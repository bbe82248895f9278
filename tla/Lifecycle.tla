------------------------------ MODULE Lifecycle ------------------------------
(***************************************************************************)
(* The lifecycle of an initialised workspace: acquire, release, sync,      *)
(* checkpoint, handoff and stale recovery (internal/workspace/lifecycle.go,*)
(* context.go, checkpoint.go, handoff.go, recover.go), as commands of      *)
(* concurrent CLI invocations (internal/cli/lifecycle.go).                 *)
(*                                                                         *)
(* A command reads the files one after the other, shows a plan, and        *)
(* applies it when it is approved: at the prompt, or by running the same   *)
(* command again with the plan's token.  Applying is a durable transaction,*)
(* here by what module Transaction shows of it: one is live at a time, it  *)
(* starts on exactly the files its plan is bound to and publishes them one *)
(* by one; interrupted, it stays until a controller continues it or rolls  *)
(* it back.  Meanwhile others still read the half-published files.         *)
(***************************************************************************)
EXTENDS Ownership, Sequences

CONSTANTS
    Invocations,      \* slots in which commands run
    Contexts,         \* contents of CONTEXT.md
    InitialContext,   \* the one uawp init writes
    Milestones,       \* names of checkpoint files
    MaxInterruptions  \* bound: transactions that crash or fail half-way

Owner     == "ACTIVE_WORKER.md"
Context   == "CONTEXT.md"
Decisions == "DECISIONS.md"

Paths == {Owner, Context, Decisions} \cup Milestones

ASSUME LifecycleAssumption ==
    /\ InitialContext \in Contexts
    /\ {Owner, Context, Decisions} \cap Milestones = {}
    /\ MaxInterruptions \in Nat

VARIABLES
    files,          \* contents of every path, << >> for a missing checkpoint
    live,           \* the transaction that RECOVERY.json names
    pc,             \* where each invocation stands
    task,           \* what each invocation holds in memory
    interruptions   \* interruptions so far

vars == <<files, live, pc, task, interruptions>>

-----------------------------------------------------------------------------
(* bound: what the plan requires of the files it names; after: what it     *)
(* writes; order: the paths it writes, by their sequence numbers.          *)
NoPlan == [op |-> "NONE", actor |-> NoActor, bound |-> << >>, after |-> << >>, order |-> << >>]

Transaction(plan, done, mode) == [plan |-> plan, done |-> done, mode |-> mode]
NoLive == Transaction(NoPlan, 0, "NONE")

\* claim: ACTIVE_WORKER.md as read; approval: the plan whose token was given.
Task(op, claim, approval, plan) ==
    [op |-> op, claim |-> claim, approval |-> approval, plan |-> plan]
NoTask == Task("NONE", Bootstrapped, NoPlan, NoPlan)

Goto(p, label, held) ==
    pc' = [pc EXCEPT ![p] = label] /\ task' = [task EXCEPT ![p] = held]

Leave(p) == Goto(p, "idle", NoTask)

Init ==
    /\ files = [n \in Paths |-> IF n = Owner THEN Bootstrapped
                                ELSE IF n = Context THEN InitialContext ELSE << >>]
    /\ live = NoLive
    /\ pc = [p \in Invocations |-> "idle"]
    /\ task = [p \in Invocations |-> NoTask]
    /\ interruptions = 0

-----------------------------------------------------------------------------
(* Planning.  Status is READY or ACTIVE_OWNER only without RECOVERY.json;  *)
(* that the claim is ACTIVE where it has to be is checked again on the     *)
(* claim that the planner reads itself.                                    *)

Gated == {"acquire", "release", "sync", "checkpoint", "handoff", "recover"}

Start(p, op) ==
    /\ pc[p] = "idle" /\ live = NoLive
    /\ Goto(p, "gated", Task(op, Bootstrapped, NoPlan, NoPlan))
    /\ UNCHANGED <<files, live, interruptions>>

\* A first run previews the plan.  A run with an approval token goes on only
\* with the very plan of that token; any other plan is drift.
Draft(p, plan) ==
    /\ LET held == Task(task[p].op, Bootstrapped, NoPlan, plan)
       IN  \/ task[p].approval = NoPlan /\ Goto(p, "previewed", held)
           \/ task[p].approval = plan /\ Goto(p, "approved", held)
           \/ task[p].approval \notin {NoPlan, plan} /\ Leave(p)
    /\ UNCHANGED <<files, live, interruptions>>

Planning(p, op, label) == pc[p] = label /\ task[p].op = op

\* Acquire and release read and replace nothing but the claim.
Transition(op, actor, claim, next) ==
    [op |-> op, actor |-> actor, bound |-> [n \in {Owner} |-> claim],
     after |-> [n \in {Owner} |-> next], order |-> <<Owner>>]

PlanAcquire(p) ==
    /\ Planning(p, "acquire", "gated")
    /\ CanAcquire(files[Owner])
    /\ \E w \in Workers, s \in Sessions :
           LET next == Acquire(files[Owner], w, s)
           IN  Draft(p, Transition("acquire", ActorOf(next), files[Owner], next))

PlanRelease(p) ==
    /\ Planning(p, "release", "gated")
    /\ \E actor \in Actor :
           /\ Owns(actor, files[Owner])
           /\ Draft(p, Transition("release", actor, files[Owner], Release(files[Owner])))

\* The other planners read the claim first.
ReadClaim(p) ==
    /\ pc[p] = "gated" /\ task[p].op \notin {"acquire", "release"}
    /\ files[Owner].status = "ACTIVE"
    /\ Goto(p, "claimed", Task(task[p].op, files[Owner], task[p].approval, NoPlan))
    /\ UNCHANGED <<files, live, interruptions>>

\* Mutant: the plan is not bound to the claim.
PlanSyncUnfenced(p) ==
    /\ Planning(p, "sync", "claimed")
    /\ \E actor \in Actor, content \in Contexts :
           /\ Owns(actor, task[p].claim)
           /\ Draft(p, [op |-> "sync", actor |-> actor,
                        bound |-> [n \in {Context} |-> files[Context]],
                        after |-> [n \in {Context} |-> content], order |-> <<Context>>])

ContextPlan(actor, claim, before, changed, content) ==
    [op |-> "sync", actor |-> actor,
     bound |-> [n \in {Owner} \cup changed |-> IF n = Owner THEN claim ELSE before],
     after |-> [n \in changed |-> content],
     order |-> IF changed = {} THEN << >> ELSE <<Context>>]

\* The same content again is a plan without changes, bound to the claim only.
PlanSync(p) ==
    /\ Planning(p, "sync", "claimed")
    /\ \E actor \in Actor, content \in Contexts :
           /\ Owns(actor, task[p].claim)
           /\ Draft(p, ContextPlan(actor, task[p].claim, files[Context],
                                   IF content = files[Context] THEN {} ELSE {Context}, content))

CheckpointPlan(actor, m, bound) ==
    [op |-> "checkpoint", actor |-> actor, bound |-> bound,
     after |-> [n \in {m} |-> <<files[Context], actor>>], order |-> <<m>>]

\* Mutant: the plan is not bound to the context it quotes.
PlanCheckpointUnbound(p) ==
    /\ Planning(p, "checkpoint", "claimed")
    /\ \E actor \in Actor, m \in Milestones :
           /\ Owns(actor, task[p].claim) /\ files[m] = << >>
           /\ Draft(p, CheckpointPlan(actor, m, [n \in {Owner, m} |->
                  IF n = Owner THEN task[p].claim ELSE << >>]))

PlanCheckpoint(p) ==
    /\ Planning(p, "checkpoint", "claimed")
    /\ \E actor \in Actor, m \in Milestones :
           /\ Owns(actor, task[p].claim) /\ files[m] = << >>
           /\ Draft(p, CheckpointPlan(actor, m, [n \in {Owner, Context, m} |->
                  IF n = Owner THEN task[p].claim ELSE files[n]]))

ReleasePlan(op, actor, claim, path, before, content, order) ==
    [op |-> op, actor |-> actor,
     bound |-> [n \in {path, Owner} |-> IF n = Owner THEN claim ELSE before],
     after |-> [n \in {path, Owner} |-> IF n = Owner THEN Release(claim) ELSE content],
     order |-> order]

\* Mutant: the sequence numbers are exchanged.
ReleaseBefore(op, actor, claim, path, before, content) ==
    ReleasePlan(op, actor, claim, path, before, content, <<Owner, path>>)

\* Handoff and stale recovery release the claim after they wrote another file.
ReleaseAfter(op, actor, claim, path, before, content) ==
    ReleasePlan(op, actor, claim, path, before, content, <<path, Owner>>)

PlanHandoff(p) ==
    /\ Planning(p, "handoff", "claimed")
    /\ \E actor \in Actor, content \in Contexts :
           /\ Owns(actor, task[p].claim)
           /\ Draft(p, ReleaseAfter("handoff", actor, task[p].claim,
                                    Context, files[Context], content))

PlanStaleRecovery(p) ==
    /\ Planning(p, "recover", "claimed")
    /\ Draft(p, ReleaseAfter("recover", NoActor, task[p].claim, Decisions, files[Decisions],
                             Append(files[Decisions], ActorOf(task[p].claim))))

\* Confirmed at the prompt; recovery has no prompt.
Confirm(p) ==
    /\ pc[p] = "previewed" /\ task[p].op # "recover"
    /\ Goto(p, "approved", task[p])
    /\ UNCHANGED <<files, live, interruptions>>

\* The same command again, with the token.
Rerun(p) ==
    /\ pc[p] = "previewed" /\ live = NoLive
    /\ Goto(p, "gated", Task(task[p].op, Bootstrapped, task[p].plan, NoPlan))
    /\ UNCHANGED <<files, live, interruptions>>

\* An early return with an error, a negative answer or a killed process.
Abandon(p) ==
    /\ pc[p] \in {"gated", "claimed", "previewed", "approved"}
    /\ Leave(p)
    /\ UNCHANGED <<files, live, interruptions>>

-----------------------------------------------------------------------------
(* The transaction.                                                        *)

\* Mutant: the files are not compared with what the plan is bound to.
ApplyUnverified(p) ==
    /\ pc[p] = "approved" /\ live = NoLive
    /\ IF task[p].plan.order = << >>
       THEN Leave(p) /\ UNCHANGED live
       ELSE /\ live' = Transaction(task[p].plan, 0, "APPLY")
            /\ Leave(p)
    /\ UNCHANGED <<files, interruptions>>

\* The invocation's further work is that of the live transaction.
Apply(p) ==
    /\ pc[p] = "approved" /\ live = NoLive
    /\ \A n \in DOMAIN task[p].plan.bound : files[n] = task[p].plan.bound[n]
    /\ live' = IF task[p].plan.order = << >>
               THEN NoLive ELSE Transaction(task[p].plan, 0, "APPLY")
    /\ Leave(p)
    /\ UNCHANGED <<files, interruptions>>

Writing(i) == live.plan.order[i]

Publish ==
    /\ live.mode \in {"APPLY", "CONTINUE"} /\ live.done < Len(live.plan.order)
    /\ LET n == Writing(live.done + 1)
       IN  files' = [files EXCEPT ![n] = live.plan.after[n]]
    /\ live' = Transaction(live.plan, live.done + 1, live.mode)
    /\ UNCHANGED <<pc, task, interruptions>>

Interrupt ==
    /\ live.mode \in {"APPLY", "CONTINUE", "ROLLBACK"}
    /\ interruptions < MaxInterruptions
    /\ interruptions' = interruptions + 1
    /\ live' = Transaction(live.plan, live.done, "INTERRUPTED")
    /\ UNCHANGED <<files, pc, task>>

\* A controller approved a continuation, or the rollback of a transaction
\* that did not publish everything.
Recover(mode) ==
    /\ live.mode = "INTERRUPTED"
    /\ mode = "ROLLBACK" => live.done < Len(live.plan.order)
    /\ live' = Transaction(live.plan, live.done, mode)
    /\ UNCHANGED <<files, pc, task, interruptions>>

\* Mutant: a rollback does not restore what was published.
UnpublishNothing ==
    /\ live.mode = "ROLLBACK" /\ live.done > 0
    /\ live' = Transaction(live.plan, live.done - 1, live.mode)
    /\ UNCHANGED <<files, pc, task, interruptions>>

Unpublish ==
    /\ live.mode = "ROLLBACK" /\ live.done > 0
    /\ LET n == Writing(live.done)
       IN  files' = [files EXCEPT ![n] = live.plan.bound[n]]
    /\ live' = Transaction(live.plan, live.done - 1, live.mode)
    /\ UNCHANGED <<pc, task, interruptions>>

\* Receipt written, RECOVERY.json removed.
Settle ==
    /\ \/ live.mode \in {"APPLY", "CONTINUE"} /\ live.done = Len(live.plan.order)
       \/ live.mode = "ROLLBACK" /\ live.done = 0
    /\ live' = NoLive
    /\ UNCHANGED <<files, pc, task, interruptions>>

Command(p) ==
    \/ \E op \in Gated : Start(p, op)
    \/ ReadClaim(p)
    \/ PlanAcquire(p) \/ PlanRelease(p) \/ PlanSync(p)
    \/ PlanCheckpoint(p) \/ PlanHandoff(p) \/ PlanStaleRecovery(p)
    \/ Confirm(p) \/ Rerun(p) \/ Abandon(p) \/ Apply(p)

Next ==
    \/ \E p \in Invocations : Command(p)
    \/ Publish \/ Interrupt \/ Unpublish \/ Settle
    \/ \E mode \in {"ROLLBACK", "CONTINUE"} : Recover(mode)

Spec == Init /\ [][Next]_vars

-----------------------------------------------------------------------------
(* Properties.                                                             *)

\* The type invariant of the files, of the live transaction and of every
\* invocation; among them, that ACTIVE_WORKER.md always decodes and that the
\* validations of what is to be written never fail.
TypeOK ==
    /\ DOMAIN files = Paths
    /\ files[Owner] \in Claim /\ ValidOwnership(files[Owner])
    /\ files[Context] \in Contexts /\ files[Decisions] \in Seq(Actor)
    /\ \A m \in Milestones :
           files[m] = << >> \/ (files[m][1] \in Contexts /\ files[m][2] \in Actor)
    /\ live.mode \in {"NONE", "APPLY", "INTERRUPTED", "CONTINUE", "ROLLBACK"}
    /\ live.done \in 0 .. Len(live.plan.order)
    /\ pc \in [Invocations -> {"idle", "gated", "claimed", "previewed", "approved"}]
    /\ \A p \in Invocations :
           /\ task[p].op \in Gated \cup {"NONE"} /\ task[p].claim \in Claim
           /\ task[p].plan.actor \in Actor \cup {NoActor}
    /\ interruptions \in 0 .. MaxInterruptions

\* Whoever sees a claim released by a live transaction sees everything that
\* goes with the release: the final context of a handoff, the audit of a
\* stale recovery (docs/user/lifecycle.md: handoff verifies final context
\* before release).
ReleaseIsLast ==
    live # NoLive /\ Owner \in DOMAIN live.plan.after
        /\ files[Owner] = live.plan.after[Owner] =>
    \A n \in DOMAIN live.plan.after : files[n] = live.plan.after[n]

\* DECISIONS.md never says of a claim that goes on that it was ended, but
\* while that very recovery is live; and it names every claim once at most.
AuditsNameEndedClaims ==
    LET audits == files[Decisions]
    IN  /\ \A i, j \in DOMAIN audits :
               i < j => audits[i].generation < audits[j].generation
        /\ \A i \in DOMAIN audits :
               files[Owner].status = "ACTIVE" /\ audits[i] = ActorOf(files[Owner]) =>
               live.plan.op = "recover"

\* Fencing: context and checkpoints change only by a plan of the session
\* whose exact claim, generation included, is ACTIVE at that very write,
\* and the claim ends only by its own session or by a stale recovery.
OnlyTheHolderWrites ==
    [][LET holds == Owns(live.plan.actor, files[Owner])
       IN  /\ \A n \in {Context} \cup Milestones : files'[n] # files[n] => holds
           /\ files[Owner].status = "ACTIVE" /\ files'[Owner] # files[Owner] =>
                  holds \/ live.plan.op = "recover"]_vars

\* A claim is never taken over: an ACTIVE one can only be released as it
\* is, and a new one has a generation greater than all before it, so that no
\* two sessions ever hold the same one.
ClaimsSucceed ==
    [][files'[Owner] # files[Owner] =>
           IF files[Owner].status = "ACTIVE"
           THEN files'[Owner] = Release(files[Owner])
           ELSE /\ files'[Owner].status = "ACTIVE"
                /\ files'[Owner].generation > files[Owner].generation]_vars

\* A checkpoint is what it says: it shows up with the context of that moment
\* under the name of the session that holds the claim; and it is never
\* overwritten (docs/user/lifecycle.md) nor taken back.
CheckpointsAreTruthful ==
    [][\A m \in Milestones : files'[m] # files[m] =>
           files[m] = << >> /\ files'[m] = <<files[Context], ActorOf(files[Owner])>>]_vars
=============================================================================

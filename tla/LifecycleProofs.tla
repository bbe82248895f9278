--------------------------- MODULE LifecycleProofs ---------------------------
(***************************************************************************)
(* Proofs about Lifecycle, for any number of invocations, sessions,        *)
(* contexts, checkpoints and interruptions.  The invariant says what a     *)
(* plan of each operation looks like, wherever it is held, and that the    *)
(* files a live transaction is bound to are as its plan found them or as   *)
(* the plan leaves them, by what it has published.                         *)
(***************************************************************************)
EXTENDS LifecycleRefinement, TLAPS

Shape(plan) ==
    /\ plan.order \in Seq(Paths)
    /\ \A i \in 1 .. Len(plan.order) : plan.order[i] \in DOMAIN plan.bound
    /\ \A i, j \in 1 .. Len(plan.order) : plan.order[i] = plan.order[j] => i = j
    /\ DOMAIN plan.after = {plan.order[i] : i \in 1 .. Len(plan.order)}

\* The claim a plan was made for.
Basis(plan) == plan.bound[Owner]

AcquirePlan(plan) ==
    /\ plan.op = "acquire" /\ plan.order = <<Owner>> /\ CanAcquire(Basis(plan))
    /\ \E w \in Workers, s \in Sessions : plan.after[Owner] = Acquire(Basis(plan), w, s)

ReleasingPlan(plan) ==
    /\ plan.op = "release" /\ plan.order = <<Owner>> /\ Owns(plan.actor, Basis(plan))
    /\ plan.after[Owner] = Release(Basis(plan))

SyncPlan(plan) ==
    /\ plan.op = "sync" /\ plan.order = <<Context>> /\ Owns(plan.actor, Basis(plan))
    /\ plan.after[Context] \in Contexts

MarkPlan(plan) ==
    /\ plan.op = "checkpoint" /\ Owns(plan.actor, Basis(plan))
    /\ Context \in DOMAIN plan.bound
    /\ \E m \in Milestones :
           /\ plan.order = <<m>> /\ plan.bound[m] = << >>
           /\ plan.after[m] = <<plan.bound[Context], plan.actor>>

HandoffPlan(plan) ==
    /\ plan.op = "handoff" /\ plan.order = <<Context, Owner>> /\ Owns(plan.actor, Basis(plan))
    /\ plan.after[Context] \in Contexts /\ plan.after[Owner] = Release(Basis(plan))

RecoverPlan(plan) ==
    /\ plan.op = "recover" /\ plan.order = <<Decisions, Owner>>
    /\ Basis(plan).status = "ACTIVE"
    /\ plan.after[Decisions] = Append(plan.bound[Decisions], ActorOf(Basis(plan)))
    /\ plan.after[Owner] = Release(Basis(plan))

PlanOK(plan) ==
    /\ Shape(plan)
    /\ plan.order # << >> =>
           /\ Owner \in DOMAIN plan.bound /\ Basis(plan) \in Claim
           /\ \/ AcquirePlan(plan) \/ ReleasingPlan(plan) \/ SyncPlan(plan)
              \/ MarkPlan(plan) \/ HandoffPlan(plan) \/ RecoverPlan(plan)

FilesOK == DOMAIN files = Paths /\ files[Owner] \in Claim

TasksOK ==
    /\ DOMAIN pc = Invocations /\ DOMAIN task = Invocations
    /\ \A p \in Invocations :
           /\ task[p].claim \in Claim /\ PlanOK(task[p].plan)
           /\ pc[p] = "claimed" => task[p].claim.status = "ACTIVE"

LiveOK ==
    /\ live.done \in 0 .. Len(live.plan.order)
    /\ live.mode = "ROLLBACK" => live.done < Len(live.plan.order)
    /\ PlanOK(live.plan)
    /\ \A n \in DOMAIN live.plan.bound :
           files[n] = IF n \in Published THEN live.plan.after[n] ELSE live.plan.bound[n]

Inv == FilesOK /\ TasksOK /\ LiveOK

-----------------------------------------------------------------------------
(* Claims.                                                                 *)

\* A generation below the largest is followed by the next one: nothing wraps.
LEMMA NextGeneration ==
    ASSUME NEW claim \in Claim, CanAcquire(claim)
    PROVE  (claim.generation + 1) % (MaxGeneration + 1) = claim.generation + 1
  <1>1. claim.generation \in Nat /\ claim.generation < MaxGeneration /\ MaxGeneration \in Nat
    BY OwnershipAssumption DEF Claim, CanAcquire, Generations
  <1>2. \A a, b \in Nat : a < b => a % b = a
    BY SMT
  <1> QED
    BY <1>1, <1>2

\* What an acquisition writes is a claim.
LEMMA AcquireIsClaim ==
    ASSUME NEW claim \in Claim, CanAcquire(claim), NEW w \in Workers, NEW s \in Sessions
    PROVE  /\ Acquire(claim, w, s) \in Claim
           /\ Acquire(claim, w, s).status = "ACTIVE"
           /\ Acquire(claim, w, s).generation = claim.generation + 1
  <1>1. claim.generation \in Nat /\ claim.generation < MaxGeneration /\ MaxGeneration \in Nat
    BY OwnershipAssumption DEF Claim, CanAcquire, Generations
  <1>2. claim.generation + 1 \in Generations
    BY <1>1 DEF Generations
  <1> QED
    BY <1>2, NextGeneration DEF Acquire, Claim

\* What a release writes is a claim.
LEMMA ReleaseIsClaim ==
    ASSUME NEW claim \in Claim
    PROVE  Release(claim) \in Claim /\ Release(claim).status = "RELEASED"
  BY DEF Release, Claim

\* The claim uawp init writes is a claim.
LEMMA BootstrappedIsClaim == Bootstrapped \in Claim /\ Bootstrapped.status = "RELEASED"
  BY OwnershipAssumption DEF Bootstrapped, Claim, Generations

\* The plan that stands for none is a well-formed plan without changes.
LEMMA NoPlanOK == PlanOK(NoPlan) /\ NoPlan.order = << >> /\ Len(NoPlan.order) = 0
  BY DEF PlanOK, NoPlan, Shape

-----------------------------------------------------------------------------
(* Plans.                                                                  *)

\* No change at all.
LEMMA ShapeOfNone ==
    ASSUME NEW plan, plan.order = << >>, DOMAIN plan.after = {}
    PROVE  PlanOK(plan)
  <1>1. plan.order \in Seq(Paths) /\ Len(plan.order) = 0
    OBVIOUS
  <1>2. Shape(plan)
    BY <1>1 DEF Shape
  <1> QED
    BY <1>2 DEF PlanOK

\* One path, one change.
LEMMA ShapeOfOne ==
    ASSUME NEW plan, NEW n \in Paths, plan.order = <<n>>, n \in DOMAIN plan.bound,
           DOMAIN plan.after = {n}
    PROVE  Shape(plan) /\ Len(plan.order) = 1 /\ plan.order[1] = n
  BY DEF Shape

\* Two different paths, two changes.
LEMMA ShapeOfTwo ==
    ASSUME NEW plan, NEW n \in Paths, NEW k \in Paths, n # k,
           plan.order = <<n, k>>, {n, k} \subseteq DOMAIN plan.bound,
           DOMAIN plan.after = {n, k}
    PROVE  Shape(plan) /\ Len(plan.order) = 2 /\ plan.order[1] = n /\ plan.order[2] = k
  BY DEF Shape

\* The names of the state files.
LEMMA Names ==
    /\ {Owner, Context, Decisions} \subseteq Paths /\ Milestones \subseteq Paths
    /\ Owner # Context /\ Owner # Decisions /\ Context # Decisions
    /\ \A m \in Milestones : m \notin {Owner, Context, Decisions}
  BY LifecycleAssumption DEF Paths, Owner, Context, Decisions

\* What PlanAcquire drafts is well-formed.
LEMMA AcquirePlanOK ==
    ASSUME NEW claim \in Claim, CanAcquire(claim), NEW w \in Workers, NEW s \in Sessions
    PROVE  PlanOK(Transition("acquire", ActorOf(Acquire(claim, w, s)), claim, Acquire(claim, w, s)))
  <1> DEFINE next == Acquire(claim, w, s)
             plan == Transition("acquire", ActorOf(next), claim, next)
  <1> HIDE DEF next
  <1>1. /\ plan.op = "acquire" /\ plan.order = <<Owner>> /\ DOMAIN plan.bound = {Owner}
        /\ DOMAIN plan.after = {Owner}
        /\ plan.bound[Owner] = claim /\ plan.after[Owner] = next
    BY DEF Transition
  <1> HIDE DEF plan
  <1>2. AcquirePlan(plan)
    BY <1>1 DEF AcquirePlan, Basis, next
  <1> QED
    BY <1>1, <1>2, ShapeOfOne, Names DEF PlanOK, Basis, plan, next

\* What PlanRelease drafts is well-formed.
LEMMA ReleasingPlanOK ==
    ASSUME NEW claim \in Claim, NEW actor, Owns(actor, claim)
    PROVE  PlanOK(Transition("release", actor, claim, Release(claim)))
  <1> DEFINE next == Release(claim)
             plan == Transition("release", actor, claim, next)
  <1> HIDE DEF next
  <1>1. /\ plan.op = "release" /\ plan.order = <<Owner>> /\ DOMAIN plan.bound = {Owner}
        /\ DOMAIN plan.after = {Owner}
        /\ plan.bound[Owner] = claim /\ plan.after[Owner] = next /\ plan.actor = actor
    BY DEF Transition
  <1> HIDE DEF plan
  <1>2. ReleasingPlan(plan)
    BY <1>1 DEF ReleasingPlan, Basis, next
  <1> QED
    BY <1>1, <1>2, ShapeOfOne, Names DEF PlanOK, Basis, plan, next

\* What PlanSync drafts is well-formed, without changes too.
LEMMA SyncPlanOK ==
    ASSUME NEW claim \in Claim, NEW actor, Owns(actor, claim), NEW before,
           NEW content \in Contexts, NEW changed \in {{}, {Context}}
    PROVE  PlanOK(ContextPlan(actor, claim, before, changed, content))
  <1> DEFINE plan == ContextPlan(actor, claim, before, changed, content)
  <1>1. /\ plan.op = "sync" /\ plan.actor = actor /\ Owner \in DOMAIN plan.bound
        /\ plan.bound[Owner] = claim
        /\ changed = {} => plan.order = << >> /\ DOMAIN plan.after = {}
        /\ changed # {} => /\ plan.order = <<Context>> /\ Context \in DOMAIN plan.bound
                           /\ DOMAIN plan.after = {Context}
                           /\ plan.after[Context] = content
    BY Names DEF ContextPlan
  <1> HIDE DEF plan
  <1>2. changed = {} => PlanOK(plan)
    BY <1>1, ShapeOfNone
  <1>3. changed # {} => PlanOK(plan)
    <2>1. changed # {} => SyncPlan(plan)
      BY <1>1 DEF SyncPlan, Basis
    <2> QED
      BY <1>1, <2>1, ShapeOfOne, Names DEF PlanOK, Basis
  <1> QED
    BY <1>2, <1>3 DEF plan

\* What PlanCheckpoint drafts is well-formed.
LEMMA MarkPlanOK ==
    ASSUME NEW claim \in Claim, NEW actor, Owns(actor, claim), NEW m \in Milestones,
           files[m] = << >>
    PROVE  PlanOK(CheckpointPlan(actor, m, [n \in {Owner, Context, m} |->
                      IF n = Owner THEN claim ELSE files[n]]))
  <1> DEFINE bound == [n \in {Owner, Context, m} |-> IF n = Owner THEN claim ELSE files[n]]
             plan == CheckpointPlan(actor, m, bound)
  <1>1. /\ DOMAIN bound = {Owner, Context, m} /\ bound[Owner] = claim
        /\ bound[Context] = files[Context] /\ bound[m] = << >>
    BY Names
  <1> HIDE DEF bound
  <1>2. /\ plan.op = "checkpoint" /\ plan.actor = actor /\ plan.bound = bound
        /\ plan.order = <<m>> /\ plan.after[m] = <<files[Context], actor>>
        /\ DOMAIN plan.after = {m}
    BY DEF CheckpointPlan
  <1> HIDE DEF plan
  <1>3. MarkPlan(plan)
    BY <1>1, <1>2 DEF MarkPlan, Basis
  <1> QED
    BY <1>1, <1>2, <1>3, ShapeOfOne, Names DEF PlanOK, Basis, plan, bound

\* What PlanHandoff drafts is well-formed.
LEMMA HandoffPlanOK ==
    ASSUME NEW claim \in Claim, NEW actor, Owns(actor, claim), NEW before,
           NEW content \in Contexts
    PROVE  PlanOK(ReleaseAfter("handoff", actor, claim, Context, before, content))
  <1> DEFINE last == Release(claim)
             plan == ReleaseAfter("handoff", actor, claim, Context, before, content)
  <1> HIDE DEF last
  <1>1. /\ plan.op = "handoff" /\ plan.actor = actor /\ plan.order = <<Context, Owner>>
        /\ DOMAIN plan.bound = {Context, Owner} /\ plan.bound[Owner] = claim
        /\ DOMAIN plan.after = {Context, Owner}
        /\ plan.after[Context] = content /\ plan.after[Owner] = last
    BY Names DEF ReleaseAfter, ReleasePlan, last
  <1> HIDE DEF plan
  <1>2. HandoffPlan(plan)
    BY <1>1 DEF HandoffPlan, Basis, last
  <1> QED
    BY <1>1, <1>2, ShapeOfTwo, Names DEF PlanOK, Basis, plan

\* What PlanStaleRecovery drafts is well-formed.
LEMMA RecoverPlanOK ==
    ASSUME NEW claim \in Claim, claim.status = "ACTIVE", NEW audits
    PROVE  PlanOK(ReleaseAfter("recover", NoActor, claim, Decisions, audits,
                               Append(audits, ActorOf(claim))))
  <1> DEFINE entries == Append(audits, ActorOf(claim))
             last == Release(claim)
             plan == ReleaseAfter("recover", NoActor, claim, Decisions, audits, entries)
  <1> HIDE DEF entries, last
  <1>1. /\ plan.op = "recover" /\ plan.order = <<Decisions, Owner>>
        /\ DOMAIN plan.bound = {Decisions, Owner} /\ plan.bound[Owner] = claim
        /\ DOMAIN plan.after = {Decisions, Owner}
        /\ plan.bound[Decisions] = audits
        /\ plan.after[Decisions] = entries /\ plan.after[Owner] = last
    BY Names DEF ReleaseAfter, ReleasePlan, last
  <1> HIDE DEF plan
  <1>2. RecoverPlan(plan)
    BY <1>1 DEF RecoverPlan, Basis, entries, last
  <1> QED
    BY <1>1, <1>2, ShapeOfTwo, Names DEF PlanOK, Basis, plan, entries

-----------------------------------------------------------------------------
(* What the invocations hold.                                              *)

\* An invocation goes on with a claim that was read and a well-formed plan.
LEMMA GotoKeeps ==
    ASSUME TasksOK, NEW p \in Invocations, NEW label, NEW held, Goto(p, label, held),
           held.claim \in Claim, PlanOK(held.plan),
           label = "claimed" => held.claim.status = "ACTIVE"
    PROVE  TasksOK'
  <1>1. /\ DOMAIN pc' = Invocations /\ DOMAIN task' = Invocations
        /\ \A q \in Invocations :
               /\ q = p => pc'[q] = label /\ task'[q] = held
               /\ q # p => pc'[q] = pc[q] /\ task'[q] = task[q]
    BY DEF TasksOK, Goto
  <1>2. ASSUME NEW q \in Invocations
        PROVE  /\ task'[q].claim \in Claim /\ PlanOK(task'[q].plan)
               /\ pc'[q] = "claimed" => task'[q].claim.status = "ACTIVE"
    <2>1. CASE q = p
      BY <1>1, <2>1
    <2>2. CASE q # p
      BY <1>1, <2>2 DEF TasksOK
    <2> QED
      BY <2>1, <2>2
  <1> QED
    BY <1>1, <1>2 DEF TasksOK

\* An invocation that ends keeps nothing in memory.
LEMMA LeaveKeeps ==
    ASSUME TasksOK, NEW p \in Invocations, Leave(p)
    PROVE  TasksOK'
  <1>1. NoTask.claim = Bootstrapped /\ NoTask.plan = NoPlan
    BY DEF NoTask, Task
  <1> QED
    BY <1>1, GotoKeeps, NoPlanOK, BootstrappedIsClaim DEF Leave

\* Drafting a well-formed plan.
LEMMA DraftKeeps ==
    ASSUME TasksOK, NEW p \in Invocations, NEW plan, PlanOK(plan), Draft(p, plan)
    PROVE  TasksOK' /\ UNCHANGED <<files, live, interruptions>>
  <1> DEFINE held == Task(task[p].op, Bootstrapped, NoPlan, plan)
  <1>1. held.claim = Bootstrapped /\ held.plan = plan
    BY DEF Task
  <1>2. /\ UNCHANGED <<files, live, interruptions>>
        /\ Goto(p, "previewed", held) \/ Goto(p, "approved", held) \/ Leave(p)
    BY DEF Draft
  <1> HIDE DEF held
  <1>3. CASE Goto(p, "previewed", held)
    BY <1>1, <1>2, <1>3, GotoKeeps, BootstrappedIsClaim
  <1>4. CASE Goto(p, "approved", held)
    BY <1>1, <1>2, <1>4, GotoKeeps, BootstrappedIsClaim
  <1>5. CASE Leave(p)
    BY <1>2, <1>5, LeaveKeeps
  <1> QED
    BY <1>2, <1>3, <1>4, <1>5

\* No command but Apply touches anything that another one can see.
LEMMA CommandKeepsTasks ==
    ASSUME FilesOK, TasksOK, NEW p \in Invocations, Command(p)
    PROVE  TasksOK' /\ (~Apply(p) => UNCHANGED <<files, live, interruptions>>)
  <1>1. CASE \E op \in Gated : Start(p, op)
    <2>1. PICK op \in Gated : Start(p, op)
      BY <1>1
    <2> DEFINE held == Task(op, Bootstrapped, NoPlan, NoPlan)
    <2>2. held.claim = Bootstrapped /\ held.plan = NoPlan /\ Goto(p, "gated", held)
      BY <2>1 DEF Start, Task
    <2> HIDE DEF held
    <2> QED
      BY <2>1, <2>2, GotoKeeps, NoPlanOK, BootstrappedIsClaim DEF Start
  <1>2. CASE ReadClaim(p)
    <2> DEFINE held == Task(task[p].op, files[Owner], task[p].approval, NoPlan)
    <2>1. held.claim = files[Owner] /\ held.plan = NoPlan /\ Goto(p, "claimed", held)
      BY <1>2 DEF ReadClaim, Task
    <2> HIDE DEF held
    <2> QED
      BY <1>2, <2>1, GotoKeeps, NoPlanOK DEF ReadClaim, FilesOK
  <1>3. CASE PlanAcquire(p)
    <2>1. PICK w \in Workers, s \in Sessions :
            Draft(p, Transition("acquire", ActorOf(Acquire(files[Owner], w, s)), files[Owner],
                                Acquire(files[Owner], w, s)))
      BY <1>3 DEF PlanAcquire
    <2>2. CanAcquire(files[Owner]) /\ files[Owner] \in Claim
      BY <1>3 DEF PlanAcquire, FilesOK
    <2> QED
      BY <2>1, <2>2, AcquirePlanOK, DraftKeeps
  <1>4. CASE PlanRelease(p)
    <2>1. PICK actor \in Actor :
            /\ Owns(actor, files[Owner])
            /\ Draft(p, Transition("release", actor, files[Owner], Release(files[Owner])))
      BY <1>4 DEF PlanRelease
    <2> QED
      BY <2>1, ReleasingPlanOK, DraftKeeps DEF FilesOK
  <1> DEFINE claim == task[p].claim
  <1>5. claim \in Claim
    BY DEF TasksOK
  <1>6. CASE PlanSync(p)
    <2> DEFINE changed(c) == IF c = files[Context] THEN {} ELSE {Context}
    <2>1. PICK actor \in Actor, content \in Contexts :
            /\ Owns(actor, claim)
            /\ Draft(p, ContextPlan(actor, claim, files[Context], changed(content), content))
      BY <1>6 DEF PlanSync
    <2>2. changed(content) \in {{}, {Context}}
      OBVIOUS
    <2> HIDE DEF claim, changed
    <2> QED
      BY <1>5, <2>1, <2>2, SyncPlanOK, DraftKeeps
  <1>7. CASE PlanCheckpoint(p)
    <2>1. PICK actor \in Actor, m \in Milestones :
            /\ Owns(actor, claim) /\ files[m] = << >>
            /\ Draft(p, CheckpointPlan(actor, m, [n \in {Owner, Context, m} |->
                   IF n = Owner THEN claim ELSE files[n]]))
      BY <1>7 DEF PlanCheckpoint
    <2> HIDE DEF claim
    <2> QED
      BY <1>5, <2>1, MarkPlanOK, DraftKeeps
  <1>8. CASE PlanHandoff(p)
    <2>1. PICK actor \in Actor, content \in Contexts :
            /\ Owns(actor, claim)
            /\ Draft(p, ReleaseAfter("handoff", actor, claim, Context, files[Context], content))
      BY <1>8 DEF PlanHandoff
    <2> HIDE DEF claim
    <2> QED
      BY <1>5, <2>1, HandoffPlanOK, DraftKeeps
  <1>9. CASE PlanStaleRecovery(p)
    <2>1. /\ claim.status = "ACTIVE"
          /\ Draft(p, ReleaseAfter("recover", NoActor, claim, Decisions, files[Decisions],
                                   Append(files[Decisions], ActorOf(claim))))
      BY <1>9 DEF PlanStaleRecovery, Planning, TasksOK
    <2> HIDE DEF claim
    <2> QED
      BY <1>5, <2>1, RecoverPlanOK, DraftKeeps
  <1>10. CASE Confirm(p)
    BY <1>10, <1>5, GotoKeeps DEF Confirm, TasksOK
  <1>11. CASE Rerun(p)
    <2> DEFINE held == Task(task[p].op, Bootstrapped, task[p].plan, NoPlan)
    <2>1. held.claim = Bootstrapped /\ held.plan = NoPlan /\ Goto(p, "gated", held)
      BY <1>11 DEF Rerun, Task
    <2> HIDE DEF held
    <2> QED
      BY <1>11, <2>1, GotoKeeps, NoPlanOK, BootstrappedIsClaim DEF Rerun
  <1>12. CASE Abandon(p)
    BY <1>12, LeaveKeeps DEF Abandon
  <1>13. CASE Apply(p)
    BY <1>13, LeaveKeeps DEF Apply
  <1> HIDE DEF claim
  <1> QED
    BY <1>1, <1>2, <1>3, <1>4, <1>6, <1>7, <1>8, <1>9, <1>10, <1>11, <1>12, <1>13 DEF Command

-----------------------------------------------------------------------------
(* What the live transaction writes.                                       *)

\* A write that the rules of the claim allow.
Lawful(n, value) ==
    LET holds == Owns(live.plan.actor, files[Owner])
    IN  \/ /\ n = Owner /\ CanAcquire(files[Owner])
           /\ \E w \in Workers, s \in Sessions : value = Acquire(files[Owner], w, s)
        \/ /\ n = Owner /\ files[Owner].status = "ACTIVE" /\ value = Release(files[Owner])
           /\ holds \/ live.plan.op = "recover"
        \/ n = Context /\ holds
        \/ n \in Milestones /\ holds /\ files[n] = << >>
           /\ value = <<files[Context], live.plan.actor>>
        \/ n = Decisions

\* The fields of a transaction record.
LEMMA TransactionFields ==
    ASSUME NEW plan, NEW done, NEW mode
    PROVE  /\ Transaction(plan, done, mode).plan = plan
           /\ Transaction(plan, done, mode).done = done
           /\ Transaction(plan, done, mode).mode = mode
  BY DEF Transaction

\* Every file that is published next is published lawfully.
LEMMA PublishIsLawful ==
    ASSUME FilesOK, LiveOK, Publish
    PROVE  LET n == Writing(live.done + 1)
           IN  Lawful(n, live.plan.after[n])
  <1> DEFINE plan == live.plan
             n == plan.order[live.done + 1]
             bound == plan.bound
  <1>1. /\ live.done \in Nat /\ live.done < Len(plan.order) /\ plan.order # << >>
        /\ plan.order \in Seq(Paths)
    BY DEF LiveOK, Publish, PlanOK, Shape
  <1>2. /\ Owner \in DOMAIN bound /\ Basis(plan) \in Claim
        /\ \/ AcquirePlan(plan) \/ ReleasingPlan(plan) \/ SyncPlan(plan)
           \/ MarkPlan(plan) \/ HandoffPlan(plan) \/ RecoverPlan(plan)
    BY <1>1 DEF LiveOK, PlanOK
  <1>3. \A k \in DOMAIN bound :
           (\A i \in 1 .. live.done : plan.order[i] # k) => files[k] = bound[k]
    BY DEF LiveOK, Published
  <1> HIDE DEF plan
  <1>4. CASE AcquirePlan(plan)
    <2>1. live.done = 0 /\ n = Owner /\ files[Owner] = Basis(plan)
      BY <1>1, <1>2, <1>3, <1>4 DEF AcquirePlan, Basis
    <2> QED
      BY <2>1, <1>4 DEF Lawful, AcquirePlan, Writing, plan
  <1>5. CASE ReleasingPlan(plan)
    <2>1. live.done = 0 /\ n = Owner /\ files[Owner] = Basis(plan)
      BY <1>1, <1>2, <1>3, <1>5 DEF ReleasingPlan, Basis
    <2> QED
      BY <2>1, <1>5 DEF Lawful, ReleasingPlan, Writing, plan, Owns
  <1>6. CASE SyncPlan(plan)
    <2>1. live.done = 0 /\ n = Context /\ files[Owner] = Basis(plan)
      BY <1>1, <1>2, <1>3, <1>6 DEF SyncPlan, Basis
    <2> QED
      BY <2>1, <1>6 DEF Lawful, SyncPlan, Writing, plan
  <1>7. CASE MarkPlan(plan)
    <2>1. PICK m \in Milestones : /\ plan.order = <<m>> /\ bound[m] = << >>
                                  /\ plan.after[m] = <<bound[Context], plan.actor>>
      BY <1>7 DEF MarkPlan
    <2>2. m \in DOMAIN bound /\ Context \in DOMAIN bound
      BY <1>7, <2>1 DEF MarkPlan, LiveOK, PlanOK, Shape, plan
    <2>3. /\ live.done = 0 /\ n = m /\ files[Owner] = Basis(plan)
          /\ files[m] = << >> /\ files[Context] = bound[Context]
      BY <1>1, <1>2, <1>3, <2>1, <2>2 DEF Basis
    <2> QED
      BY <2>1, <2>3, <1>7 DEF Lawful, MarkPlan, Writing, plan
  <1>8. CASE HandoffPlan(plan)
    <2>1. CASE live.done = 0
      <3>1. n = Context /\ files[Owner] = Basis(plan)
        BY <1>2, <1>3, <1>8, <2>1 DEF HandoffPlan, Basis
      <3> QED
        BY <3>1, <1>8 DEF Lawful, HandoffPlan, Writing, plan
    <2>2. CASE live.done = 1
      <3>1. n = Owner /\ files[Owner] = Basis(plan)
        BY <1>2, <1>3, <1>8, <2>2, Names DEF HandoffPlan, Basis
      <3> QED
        BY <3>1, <1>8 DEF Lawful, HandoffPlan, Writing, plan, Owns
    <2> QED
      BY <1>1, <1>8, <2>1, <2>2 DEF HandoffPlan
  <1>9. CASE RecoverPlan(plan)
    <2>1. CASE live.done = 0
      <3>1. n = Decisions
        BY <1>9, <2>1 DEF RecoverPlan
      <3> QED
        BY <3>1 DEF Lawful, Writing, plan
    <2>2. CASE live.done = 1
      <3>1. n = Owner /\ files[Owner] = Basis(plan)
        BY <1>2, <1>3, <1>9, <2>2, Names DEF RecoverPlan, Basis
      <3> QED
        BY <3>1, <1>9 DEF Lawful, RecoverPlan, Writing, plan
    <2> QED
      BY <1>1, <1>9, <2>1, <2>2 DEF RecoverPlan
  <1> QED
    BY <1>2, <1>4, <1>5, <1>6, <1>7, <1>8, <1>9

\* A rollback only undoes the first of two changes, and never the claim.
LEMMA UnpublishIsLawful ==
    ASSUME FilesOK, LiveOK, Unpublish
    PROVE  LET n == Writing(live.done)
           IN  /\ n \in {Context, Decisions}
               /\ Lawful(n, live.plan.bound[n])
  <1> DEFINE plan == live.plan
             n == plan.order[live.done]
             bound == plan.bound
  <1>1. /\ live.done \in Nat /\ 0 < live.done /\ live.done < Len(plan.order)
        /\ plan.order # << >> /\ plan.order \in Seq(Paths)
    BY DEF LiveOK, Unpublish, PlanOK, Shape
  <1>2. /\ Owner \in DOMAIN bound /\ Basis(plan) \in Claim
        /\ \/ AcquirePlan(plan) \/ ReleasingPlan(plan) \/ SyncPlan(plan)
           \/ MarkPlan(plan) \/ HandoffPlan(plan) \/ RecoverPlan(plan)
    BY <1>1 DEF LiveOK, PlanOK
  <1>3. \A k \in DOMAIN bound :
           (\A i \in 1 .. live.done : plan.order[i] # k) => files[k] = bound[k]
    BY DEF LiveOK, Published
  <1> HIDE DEF plan
  <1>4. HandoffPlan(plan) \/ RecoverPlan(plan)
    <2>1. \A x : plan.order = <<x>> => Len(plan.order) = 1
      OBVIOUS
    <2>2. Len(plan.order) # 1
      <3>1. Len(plan.order) \in Nat
        BY <1>1
      <3>2. live.done \in Nat /\ 0 < live.done /\ live.done < Len(plan.order)
        BY <1>1
      <3>3. \A a, b \in Nat : 0 < a /\ a < b => b # 1
        OBVIOUS
      <3> QED
        BY <3>1, <3>2, <3>3
    <2>3. \A x : plan.order # <<x>>
      BY <2>1, <2>2
    <2> QED
      BY <1>2, <2>3 DEF AcquirePlan, ReleasingPlan, SyncPlan, MarkPlan
  <1>5. live.done = 1
    <2>1. \A x, y : plan.order = <<x, y>> => Len(plan.order) = 2
      OBVIOUS
    <2>2. Len(plan.order) = 2
      BY <1>4, <2>1 DEF HandoffPlan, RecoverPlan
    <2> QED
      BY <1>1, <2>2
  <1>6. CASE HandoffPlan(plan)
    <2>1. n = Context /\ files[Owner] = Basis(plan)
      BY <1>2, <1>3, <1>5, <1>6, Names DEF HandoffPlan, Basis
    <2> QED
      BY <2>1, <1>6 DEF Lawful, HandoffPlan, Writing, plan
  <1>7. CASE RecoverPlan(plan)
    <2>1. n = Decisions
      BY <1>5, <1>7 DEF RecoverPlan
    <2> QED
      BY <2>1 DEF Lawful, Writing, plan
  <1> QED
    BY <1>4, <1>6, <1>7

-----------------------------------------------------------------------------
(* What a lawful write does to the rules of the claim.                     *)

HolderStep ==
    LET holds == Owns(live.plan.actor, files[Owner])
    IN  /\ \A n \in {Context} \cup Milestones : files'[n] # files[n] => holds
        /\ files[Owner].status = "ACTIVE" /\ files'[Owner] # files[Owner] =>
               holds \/ live.plan.op = "recover"

ClaimStep ==
    files'[Owner] # files[Owner] =>
        IF files[Owner].status = "ACTIVE"
        THEN files'[Owner] = Release(files[Owner])
        ELSE /\ files'[Owner].status = "ACTIVE"
             /\ files'[Owner].generation > files[Owner].generation

CheckpointStep ==
    \A m \in Milestones : files'[m] # files[m] =>
        files[m] = << >> /\ files'[m] = <<files[Context], ActorOf(files[Owner])>>

\* Nothing is written, or one file lawfully.
LEMMA LawfulSteps ==
    ASSUME FilesOK, UNCHANGED files \/ \E n \in Paths : \E value :
               Lawful(n, value) /\ files' = [files EXCEPT ![n] = value]
    PROVE  FilesOK' /\ HolderStep /\ ClaimStep /\ CheckpointStep
  <1>1. CASE UNCHANGED files
    BY <1>1 DEF FilesOK, HolderStep, ClaimStep, CheckpointStep
  <1>2. ASSUME NEW n \in Paths, NEW value,
               Lawful(n, value), files' = [files EXCEPT ![n] = value]
        PROVE  FilesOK' /\ HolderStep /\ ClaimStep /\ CheckpointStep
    <2> DEFINE holds == Owns(live.plan.actor, files[Owner])
    <2>1. /\ DOMAIN files' = Paths /\ files'[n] = value
          /\ \A k \in Paths : k # n => files'[k] = files[k]
      BY <1>2 DEF FilesOK
    <2>2. CASE /\ n = Owner /\ CanAcquire(files[Owner])
               /\ \E w \in Workers, s \in Sessions : value = Acquire(files[Owner], w, s)
      <3>1. /\ value \in Claim /\ value.status = "ACTIVE"
            /\ value.generation = files[Owner].generation + 1
        BY <2>2, AcquireIsClaim DEF FilesOK
      <3>2. files[Owner].status = "RELEASED" /\ files[Owner].generation \in Nat
        BY <2>2 DEF CanAcquire, FilesOK, Claim, Generations
      <3>3. value.generation > files[Owner].generation
        BY <3>1, <3>2
      <3> QED
        BY <2>1, <2>2, <3>1, <3>2, <3>3, Names
           DEF FilesOK, HolderStep, ClaimStep, CheckpointStep
    <2>3. CASE /\ n = Owner /\ files[Owner].status = "ACTIVE" /\ value = Release(files[Owner])
               /\ holds \/ live.plan.op = "recover"
      <3>1. value \in Claim
        BY <2>3, ReleaseIsClaim DEF FilesOK
      <3> QED
        BY <2>1, <2>3, <3>1, Names DEF FilesOK, HolderStep, ClaimStep, CheckpointStep
    <2>4. CASE n = Context /\ holds
      BY <2>1, <2>4, Names DEF FilesOK, HolderStep, ClaimStep, CheckpointStep
    <2>5. CASE /\ n \in Milestones /\ holds /\ files[n] = << >>
               /\ value = <<files[Context], live.plan.actor>>
      <3>1. ActorOf(files[Owner]) = live.plan.actor
        BY <2>5 DEF Owns
      <3> QED
        BY <2>1, <2>5, <3>1, Names DEF FilesOK, HolderStep, ClaimStep, CheckpointStep
    <2>6. CASE n = Decisions
      BY <2>1, <2>6, Names DEF FilesOK, HolderStep, ClaimStep, CheckpointStep
    <2> QED
      BY <1>2, <2>2, <2>3, <2>4, <2>5, <2>6 DEF Lawful
  <1> QED
    BY <1>1, <1>2

-----------------------------------------------------------------------------
(* The live transaction.                                                   *)

\* One more file published: it is the next one, and the others are as before.
LEMMA PublishKeeps ==
    ASSUME FilesOK, LiveOK, Publish
    PROVE  LiveOK' /\ Writing(live.done + 1) \in Paths
  <1> DEFINE plan == live.plan
             n == plan.order[live.done + 1]
  <1>1. live'.plan = plan /\ live'.done = live.done + 1 /\ live'.mode = live.mode
    BY TransactionFields DEF Publish
  <1>2. /\ live.done \in Nat /\ live.done < Len(plan.order) /\ plan.order \in Seq(Paths)
        /\ live.mode \in {"APPLY", "CONTINUE"} /\ Shape(plan)
    BY DEF LiveOK, Publish, PlanOK, Shape
  <1>3. n \in Paths /\ n \in DOMAIN plan.bound
    BY <1>2 DEF Shape
  <1>4. files' = [files EXCEPT ![n] = plan.after[n]]
    BY DEF Publish, Writing
  <1>5. Published' = Published \cup {n}
    BY <1>1, <1>2 DEF Published
  <1>6. ASSUME NEW k \in DOMAIN plan.bound
        PROVE  files'[k] = IF k \in Published' THEN plan.after[k] ELSE plan.bound[k]
    <2>1. CASE k = n
      BY <1>3, <1>4, <1>5, <2>1 DEF FilesOK
    <2>2. CASE k # n
      <3>1. files'[k] = files[k]
        BY <1>4, <2>2
      <3> QED
        BY <1>5, <2>2, <3>1 DEF LiveOK
    <2> QED
      BY <2>1, <2>2
  <1>7. LiveOK'
    BY <1>1, <1>2, <1>6 DEF LiveOK
  <1> QED
    BY <1>3, <1>7 DEF Writing

\* The last published file restored: it is as the plan found it.
LEMMA UnpublishKeeps ==
    ASSUME FilesOK, LiveOK, Unpublish
    PROVE  LiveOK' /\ Writing(live.done) \in Paths
  <1> DEFINE plan == live.plan
             n == plan.order[live.done]
  <1>1. live'.plan = plan /\ live'.done = live.done - 1 /\ live'.mode = live.mode
    BY TransactionFields DEF Unpublish
  <1>2. /\ live.done \in Nat /\ 0 < live.done /\ live.done < Len(plan.order)
        /\ plan.order \in Seq(Paths) /\ Shape(plan)
    BY DEF LiveOK, Unpublish, PlanOK, Shape
  <1>3. n \in Paths /\ n \in DOMAIN plan.bound
    BY <1>2 DEF Shape
  <1>4. files' = [files EXCEPT ![n] = plan.bound[n]]
    BY DEF Unpublish, Writing
  <1>5. Published' = Published \ {n}
    <2>1. \A i \in 1 .. live.done - 1 : plan.order[i] # n
      BY <1>2 DEF Shape
    <2> QED
      BY <1>1, <1>2, <2>1 DEF Published
  <1>6. ASSUME NEW k \in DOMAIN plan.bound
        PROVE  files'[k] = IF k \in Published' THEN plan.after[k] ELSE plan.bound[k]
    <2>1. CASE k = n
      BY <1>3, <1>4, <1>5, <2>1 DEF FilesOK
    <2>2. CASE k # n
      <3>1. files'[k] = files[k]
        BY <1>4, <2>2
      <3> QED
        BY <1>5, <2>2, <3>1 DEF LiveOK
    <2> QED
      BY <2>1, <2>2
  <1>7. LiveOK'
    BY <1>1, <1>2, <1>6 DEF LiveOK
  <1> QED
    BY <1>3, <1>7 DEF Writing

\* Without a transaction nothing is bound.
LEMMA NoLiveOK ==
    ASSUME live = NoLive
    PROVE  LiveOK
  <1>1. live.plan = NoPlan /\ live.done = 0 /\ live.mode = "NONE"
    BY TransactionFields DEF NoLive
  <1>2. DOMAIN NoPlan.bound = {}
    BY DEF NoPlan
  <1> QED
    BY <1>1, <1>2, NoPlanOK DEF LiveOK

\* A transaction starts on exactly the files its plan is bound to.
LEMMA ApplyKeeps ==
    ASSUME TasksOK, LiveOK, NEW p \in Invocations, Apply(p)
    PROVE  LiveOK'
  <1> DEFINE plan == task[p].plan
  <1>1. CASE live' = NoLive
    <2>1. /\ live'.plan = NoPlan /\ live'.done = 0 /\ live'.mode = "NONE"
          /\ DOMAIN NoPlan.bound = {}
      BY <1>1, TransactionFields DEF NoLive, NoPlan
    <2> QED
      BY <2>1, NoPlanOK DEF LiveOK
  <1>2. CASE live' = Transaction(plan, 0, "APPLY")
    <2>1. live'.plan = plan /\ live'.done = 0 /\ live'.mode = "APPLY"
      BY <1>2, TransactionFields
    <2>2. PlanOK(plan) /\ Len(plan.order) \in Nat
      BY DEF TasksOK, PlanOK, Shape
    <2>3. Published' = {}
      BY <2>1 DEF Published
    <2>4. \A n \in DOMAIN plan.bound : files'[n] = plan.bound[n]
      BY DEF Apply
    <2> HIDE DEF plan
    <2> QED
      BY <2>1, <2>2, <2>3, <2>4 DEF LiveOK
  <1> QED
    BY <1>1, <1>2 DEF Apply

\* Interruptions and approved recoveries change the mode only.
LEMMA ModeKeeps ==
    ASSUME LiveOK, Interrupt \/ \E mode \in {"ROLLBACK", "CONTINUE"} : Recover(mode)
    PROVE  LiveOK'
  <1>1. /\ live'.plan = live.plan /\ live'.done = live.done /\ files' = files
        /\ live'.mode = "ROLLBACK" => live.done < Len(live.plan.order)
    BY TransactionFields DEF Interrupt, Recover
  <1>2. Published' = Published
    BY <1>1 DEF Published
  <1> QED
    BY <1>1, <1>2 DEF LiveOK

\* At first there is no plan, no transaction and nobody's claim.
LEMMA InitInv == Init => Inv
  <1> SUFFICES ASSUME Init PROVE Inv
    OBVIOUS
  <1>1. files[Owner] = Bootstrapped /\ DOMAIN files = Paths
    BY Names DEF Init
  <1>2. NoTask.claim = Bootstrapped /\ NoTask.plan = NoPlan
    BY DEF NoTask, Task
  <1>3. \A p \in Invocations : pc[p] = "idle" /\ task[p] = NoTask
    BY DEF Init
  <1>4. TasksOK
    BY <1>2, <1>3, NoPlanOK, BootstrappedIsClaim DEF Init, TasksOK
  <1> QED
    BY <1>1, <1>4, NoLiveOK, BootstrappedIsClaim DEF Init, Inv, FilesOK

\* Every step keeps the invariant, and writes one file lawfully or none.
LEMMA StepInv ==
    ASSUME Inv, [Next]_vars
    PROVE  Inv' /\ HolderStep /\ ClaimStep /\ CheckpointStep
  <1> USE DEF Inv
  <1>1. CASE \E p \in Invocations : Command(p)
    <2>1. PICK p \in Invocations : Command(p)
      BY <1>1
    <2>2. TasksOK' /\ (~Apply(p) => UNCHANGED <<files, live, interruptions>>)
      BY <2>1, CommandKeepsTasks
    <2>3. CASE Apply(p)
      BY <2>2, <2>3, ApplyKeeps, LawfulSteps DEF Apply
    <2>4. CASE ~Apply(p)
      <3>1. LiveOK'
        BY <2>2, <2>4 DEF LiveOK, Published
      <3> QED
        BY <2>2, <2>4, <3>1, LawfulSteps
    <2> QED
      BY <2>3, <2>4
  <1>2. CASE Publish
    <2>1. LiveOK' /\ Writing(live.done + 1) \in Paths
      BY <1>2, PublishKeeps
    <2>2. /\ Lawful(Writing(live.done + 1), live.plan.after[Writing(live.done + 1)])
          /\ files' = [files EXCEPT ![Writing(live.done + 1)] =
                          live.plan.after[Writing(live.done + 1)]]
      BY <1>2, PublishIsLawful DEF Publish
    <2>3. TasksOK'
      BY <1>2 DEF Publish, TasksOK
    <2> QED
      BY <2>1, <2>2, <2>3, LawfulSteps
  <1>3. CASE Unpublish
    <2>1. LiveOK' /\ Writing(live.done) \in Paths
      BY <1>3, UnpublishKeeps
    <2>2. /\ Lawful(Writing(live.done), live.plan.bound[Writing(live.done)])
          /\ files' = [files EXCEPT ![Writing(live.done)] = live.plan.bound[Writing(live.done)]]
      BY <1>3, UnpublishIsLawful DEF Unpublish
    <2>3. TasksOK'
      BY <1>3 DEF Unpublish, TasksOK
    <2> QED
      BY <2>1, <2>2, <2>3, LawfulSteps
  <1>4. CASE Interrupt \/ \E mode \in {"ROLLBACK", "CONTINUE"} : Recover(mode)
    <2>1. UNCHANGED <<files, pc, task>>
      BY <1>4 DEF Interrupt, Recover
    <2>2. TasksOK'
      BY <2>1 DEF TasksOK
    <2> QED
      BY <1>4, <2>1, <2>2, ModeKeeps, LawfulSteps
  <1>5. CASE Settle
    <2>1. /\ live'.plan = NoPlan /\ live'.done = 0 /\ live'.mode = "NONE"
          /\ DOMAIN NoPlan.bound = {} /\ UNCHANGED <<files, pc, task>>
      BY <1>5, TransactionFields DEF Settle, NoLive, NoPlan
    <2>2. LiveOK' /\ TasksOK'
      BY <2>1, NoPlanOK DEF LiveOK, TasksOK
    <2> QED
      BY <2>1, <2>2, LawfulSteps
  <1>6. CASE UNCHANGED vars
    <2>1. UNCHANGED <<files, live, pc, task>>
      BY <1>6 DEF vars
    <2>2. LiveOK' /\ TasksOK'
      BY <2>1 DEF LiveOK, TasksOK, Published
    <2> QED
      BY <2>1, <2>2, LawfulSteps
  <1> QED
    BY <1>1, <1>2, <1>3, <1>4, <1>5, <1>6 DEF Next

\* The inductive invariant: claims are claims, plans are what their operation
\* makes them, and a live transaction's files are as its plan says.
THEOREM PlansAreKept == Spec => []Inv
  <1>1. Inv /\ [Next]_vars => Inv'
    BY StepInv
  <1> QED
    BY InitInv, <1>1, PTL DEF Spec

\* For any number of invocations: context and checkpoints are only written
\* under the exact ACTIVE claim of the plan's session, and only that session
\* or a stale recovery ends the claim.
THEOREM Fencing == Spec => OnlyTheHolderWrites
  <1>1. Inv /\ [Next]_vars => [HolderStep]_vars
    BY StepInv
  <1> QED
    BY PlansAreKept, <1>1, PTL DEF Spec, OnlyTheHolderWrites, HolderStep

\* An ACTIVE claim is only ever released as it is, and every new one has a
\* generation that was never used before.
THEOREM Succession == Spec => ClaimsSucceed
  <1>1. Inv /\ [Next]_vars => [ClaimStep]_vars
    BY StepInv
  <1> QED
    BY PlansAreKept, <1>1, PTL DEF Spec, ClaimsSucceed, ClaimStep

\* A checkpoint shows up with the current context and the holder's name, and
\* then never changes.
THEOREM TruthfulCheckpoints == Spec => CheckpointsAreTruthful
  <1>1. Inv /\ [Next]_vars => [CheckpointStep]_vars
    BY StepInv
  <1> QED
    BY PlansAreKept, <1>1, PTL DEF Spec, CheckpointsAreTruthful, CheckpointStep

-----------------------------------------------------------------------------
(* Lifecycle implements ClaimedNotebook.                                   *)

Checkpoints == [m \in Milestones |-> Settled[m]]

\* Until it settles, a transaction's files are abstractly as its plan found
\* them, and all other files as they are.
LEMMA SettledFiles ==
    ASSUME LiveOK, NEW n \in Paths
    PROVE  /\ n \in DOMAIN live.plan.bound => Settled[n] = live.plan.bound[n]
           /\ n \notin Published => Settled[n] = files[n]
  BY DEF LiveOK, Settled

\* Steps that settle nothing are invisible.
LEMMA Invisible ==
    ASSUME Inv, Publish \/ Unpublish
    PROVE  Settled' = Settled
  <1>1. CASE Publish
    <2> DEFINE n == Writing(live.done + 1)
    <2>1. /\ LiveOK' /\ n \in Paths /\ live'.plan = live.plan
          /\ files' = [files EXCEPT ![n] = live.plan.after[n]]
      BY <1>1, PublishKeeps, TransactionFields DEF Inv, Publish
    <2>2. n \in DOMAIN live.plan.bound /\ live.done \in Nat /\ live'.done = live.done + 1
      BY <1>1, TransactionFields DEF Inv, LiveOK, Publish, PlanOK, Shape, Writing
    <2>3. Published' = Published \cup {n}
      BY <2>1, <2>2 DEF Published, Writing
    <2> HIDE DEF n
    <2>4. ASSUME NEW k \in Paths PROVE Settled'[k] = Settled[k]
      <3>1. CASE k = n
        BY <2>1, <2>2, <2>3, <3>1, SettledFiles DEF Inv, Settled
      <3>2. CASE k # n
        BY <2>1, <2>3, <3>2 DEF Settled
      <3> QED
        BY <3>1, <3>2
    <2> QED
      BY <2>4 DEF Settled
  <1>2. CASE Unpublish
    <2> DEFINE n == Writing(live.done)
    <2>1. /\ n \in Paths /\ live'.plan = live.plan
          /\ files' = [files EXCEPT ![n] = live.plan.bound[n]]
      BY <1>2, UnpublishKeeps, TransactionFields DEF Inv, Unpublish
    <2>2. /\ n \in DOMAIN live.plan.bound /\ live.done \in Nat /\ 0 < live.done
          /\ live'.done = live.done - 1 /\ n \in Published
          /\ \A i \in 1 .. live.done - 1 : live.plan.order[i] # n
      BY <1>2, TransactionFields DEF Inv, LiveOK, Unpublish, PlanOK, Shape, Writing, Published
    <2>3. Published' = Published \ {n}
      BY <2>1, <2>2 DEF Published, Writing
    <2> HIDE DEF n
    <2>4. ASSUME NEW k \in Paths PROVE Settled'[k] = Settled[k]
      <3>1. CASE k = n
        BY <2>1, <2>2, <2>3, <3>1 DEF Inv, FilesOK, Settled
      <3>2. CASE k # n
        BY <2>1, <2>3, <3>2 DEF Settled
      <3> QED
        BY <3>1, <3>2
    <2> QED
      BY <2>4 DEF Settled
  <1> QED
    BY <1>1, <1>2

\* A transaction that settles is one operation on the notebook, or none when
\* it was rolled back.
LEMMA SettlesWholly ==
    ASSUME Inv, Settle
    PROVE  Notebook!NotebookNext \/ Settled' = Settled
  <1> DEFINE plan == live.plan
  <1>1. /\ live'.done = 0 /\ files' = files /\ Published' = {}
        /\ \A n \in Paths : Settled'[n] = files[n]
    BY TransactionFields DEF Settle, NoLive, Published, Settled
  <1>2. CASE live.done = 0
    <2>1. Published = {}
      BY <1>2 DEF Published
    <2> QED
      BY <1>1, <2>1 DEF Settled
  <1>3. CASE live.done # 0
    <2>1. /\ live.done = Len(plan.order) /\ plan.order # << >> /\ plan.order \in Seq(Paths)
      BY <1>3 DEF Settle, Inv, LiveOK, PlanOK, Shape
    <2>2. /\ Owner \in DOMAIN plan.bound /\ Basis(plan) \in Claim
          /\ \/ AcquirePlan(plan) \/ ReleasingPlan(plan) \/ SyncPlan(plan)
             \/ MarkPlan(plan) \/ HandoffPlan(plan) \/ RecoverPlan(plan)
      BY <2>1 DEF Inv, LiveOK, PlanOK
    <2>3. /\ \A n \in Paths : n \in DOMAIN plan.bound => Settled[n] = plan.bound[n]
          /\ \A n \in Paths : n \notin Published => Settled[n] = files[n]
          /\ \A n \in DOMAIN plan.bound : n \in Published => files[n] = plan.after[n]
      BY SettledFiles DEF Inv, LiveOK
    <2>4. /\ \A n : plan.order = <<n>> => Published = {n} /\ n \in DOMAIN plan.bound
          /\ \A n, k : plan.order = <<n, k>> =>
                 Published = {n, k} /\ {n, k} \subseteq DOMAIN plan.bound
      <3>1. /\ Published = {plan.order[i] : i \in 1 .. Len(plan.order)}
            /\ \A i \in 1 .. Len(plan.order) : plan.order[i] \in DOMAIN plan.bound
        BY <2>1 DEF Published, Inv, LiveOK, PlanOK, Shape
      <3> DEFINE order == plan.order
      <3> HIDE DEF order
      <3>2. ASSUME NEW n, order = <<n>>
            PROVE  Published = {n} /\ n \in DOMAIN plan.bound
        <4>1. Len(order) = 1 /\ order[1] = n
          BY <3>2
        <4> QED
          BY <3>1, <4>1 DEF order
      <3>3. ASSUME NEW n, NEW k, order = <<n, k>>
            PROVE  Published = {n, k} /\ {n, k} \subseteq DOMAIN plan.bound
        <4>1. Len(order) = 2 /\ order[1] = n /\ order[2] = k
          BY <3>3
        <4> QED
          BY <3>1, <4>1 DEF order
      <3> QED
        BY <3>2, <3>3 DEF order
    <2>5. Settled[Owner] = Basis(plan)
      BY <2>2, <2>3, Names DEF Basis
    <2> HIDE DEF plan
    <2> DEFINE unmarked == Checkpoints' = Checkpoints
    <2>6. (\A m \in Milestones : m \notin Published) => unmarked
      BY <1>1, <2>3, Names DEF Checkpoints
    <2>7. CASE AcquirePlan(plan)
      <3>1. PICK w \in Workers, s \in Sessions : plan.after[Owner] = Acquire(Basis(plan), w, s)
        BY <2>7 DEF AcquirePlan
      <3>2. Published = {Owner} /\ files[Owner] = Acquire(Basis(plan), w, s)
        BY <2>3, <2>4, <2>7, <3>1 DEF AcquirePlan
      <3>3. /\ Settled'[Owner] = Acquire(Settled[Owner], w, s)
            /\ Settled'[Context] = Settled[Context] /\ Settled'[Decisions] = Settled[Decisions]
            /\ unmarked
        BY <1>1, <2>3, <2>5, <2>6, <3>2, Names
      <3>4. /\ Settled[Owner].status # "ACTIVE"
            /\ Settled'[Owner] = [status |-> "ACTIVE", worker |-> w, session |-> s,
                                  generation |-> Settled[Owner].generation + 1]
        BY <2>2, <2>5, <2>7, <3>3, NextGeneration DEF AcquirePlan, CanAcquire, Acquire
      <3>5. Notebook!TakeUp
        BY <3>3, <3>4 DEF Notebook!TakeUp, Notebook!Held, Checkpoints
      <3> QED
        BY <3>5 DEF Notebook!NotebookNext
    <2>8. CASE ReleasingPlan(plan)
      <3>1. Published = {Owner} /\ files[Owner] = Release(Basis(plan))
        BY <2>3, <2>4, <2>8 DEF ReleasingPlan
      <3>2. /\ Settled'[Owner] = Release(Settled[Owner]) /\ Settled[Owner].status = "ACTIVE"
            /\ Settled'[Context] = Settled[Context] /\ Settled'[Decisions] = Settled[Decisions]
            /\ unmarked
        BY <1>1, <2>3, <2>5, <2>6, <2>8, <3>1, Names DEF ReleasingPlan, Owns
      <3>3. Notebook!GiveUp
        BY <3>2 DEF Notebook!GiveUp, Notebook!PutDown, Notebook!Held, Notebook!Release,
                    Release, Checkpoints
      <3> QED
        BY <3>3 DEF Notebook!NotebookNext
    <2>9. CASE SyncPlan(plan)
      <3>1. Published = {Context} /\ files[Context] \in Contexts
        BY <2>3, <2>4, <2>9 DEF SyncPlan
      <3>2. /\ Settled'[Owner] = Settled[Owner] /\ Settled[Owner].status = "ACTIVE"
            /\ Settled'[Context] \in Contexts /\ Settled'[Decisions] = Settled[Decisions]
            /\ unmarked
        BY <1>1, <2>3, <2>5, <2>6, <2>9, <3>1, Names DEF SyncPlan, Owns
      <3>3. Notebook!Write
        BY <3>2 DEF Notebook!Write, Notebook!Held, Checkpoints
      <3> QED
        BY <3>3 DEF Notebook!NotebookNext
    <2>10. CASE MarkPlan(plan)
      <3>1. PICK m \in Milestones : /\ plan.order = <<m>> /\ plan.bound[m] = << >>
                                    /\ plan.after[m] = <<plan.bound[Context], plan.actor>>
        BY <2>10 DEF MarkPlan
      <3>2. /\ Published = {m} /\ m \in DOMAIN plan.bound
            /\ files[m] = <<plan.bound[Context], plan.actor>>
        BY <2>3, <2>4, <3>1
      <3>3. /\ Settled[Context] = plan.bound[Context] /\ Settled[m] = << >>
            /\ Settled[Owner].status = "ACTIVE" /\ ActorOf(Settled[Owner]) = plan.actor
        BY <2>3, <2>5, <2>10, <3>1, <3>2, Names DEF MarkPlan, Owns
      <3>4. /\ Settled'[Owner] = Settled[Owner] /\ Settled'[Context] = Settled[Context]
            /\ Settled'[Decisions] = Settled[Decisions]
            /\ Settled'[m] = <<Settled[Context], ActorOf(Settled[Owner])>>
            /\ \A k \in Milestones : k # m => Settled'[k] = Settled[k]
        BY <1>1, <2>3, <3>2, <3>3, Names
      <3>5. Checkpoints' = [Checkpoints EXCEPT ![m] =
                              <<Settled[Context], ActorOf(Settled[Owner])>>]
        BY <3>4 DEF Checkpoints
      <3>6. Notebook!Mark
        BY <3>3, <3>4, <3>5 DEF Notebook!Mark, Notebook!Held, Notebook!ActorOf,
                                ActorOf, Checkpoints
      <3> QED
        BY <3>6 DEF Notebook!NotebookNext
    <2>11. CASE HandoffPlan(plan)
      <3>1. /\ Published = {Context, Owner} /\ files[Context] \in Contexts
            /\ files[Owner] = Release(Basis(plan))
        BY <2>3, <2>4, <2>11 DEF HandoffPlan
      <3>2. /\ Settled'[Owner] = Release(Settled[Owner]) /\ Settled[Owner].status = "ACTIVE"
            /\ Settled'[Context] \in Contexts /\ Settled'[Decisions] = Settled[Decisions]
            /\ unmarked
        BY <1>1, <2>3, <2>5, <2>6, <2>11, <3>1, Names DEF HandoffPlan, Owns
      <3>3. Notebook!HandOver
        BY <3>2 DEF Notebook!HandOver, Notebook!PutDown, Notebook!Held, Notebook!Release,
                    Release, Checkpoints
      <3> QED
        BY <3>3 DEF Notebook!NotebookNext
    <2>12. CASE RecoverPlan(plan)
      <3>1. /\ Published = {Decisions, Owner} /\ files[Owner] = Release(Basis(plan))
            /\ files[Decisions] = Append(plan.bound[Decisions], ActorOf(Basis(plan)))
            /\ Settled[Decisions] = plan.bound[Decisions]
        BY <2>3, <2>4, <2>12, Names DEF RecoverPlan
      <3>2. /\ Settled'[Owner] = Release(Settled[Owner]) /\ Settled[Owner].status = "ACTIVE"
            /\ Settled'[Decisions] = Append(Settled[Decisions], ActorOf(Settled[Owner]))
            /\ Settled'[Context] = Settled[Context] /\ unmarked
        BY <1>1, <2>3, <2>5, <2>6, <2>12, <3>1, Names DEF RecoverPlan
      <3>3. Notebook!Overrule
        BY <3>2 DEF Notebook!Overrule, Notebook!PutDown, Notebook!Held, Notebook!Release,
                    Notebook!ActorOf, Release, ActorOf, Checkpoints
      <3> QED
        BY <3>3 DEF Notebook!NotebookNext
    <2> QED
      BY <2>2, <2>7, <2>8, <2>9, <2>10, <2>11, <2>12
  <1> QED
    BY <1>2, <1>3

\* Lifecycle implements ClaimedNotebook: for any number of invocations and
\* interruptions, the shared files change by whole operations.
THEOREM Refinement == Spec => ImplementsClaimedNotebook
  <1>1. Init => Notebook!NotebookInit
    <2> SUFFICES ASSUME Init PROVE Notebook!NotebookInit
      OBVIOUS
    <2>1. Published = {}
      BY TransactionFields DEF Init, NoLive, Published
    <2>2. \A n \in Paths : Settled[n] = files[n]
      BY <2>1 DEF Settled
    <2>3. /\ Settled[Owner] = Bootstrapped /\ Settled[Context] = InitialContext
          /\ Settled[Decisions] = << >> /\ \A m \in Milestones : Settled[m] = << >>
      BY <2>2, Names DEF Init
    <2> QED
      BY <2>3 DEF Notebook!NotebookInit, Notebook!Bootstrapped, Notebook!Nobody,
                  Bootstrapped, Nobody
  <1>2. ASSUME Inv, [Next]_vars
        PROVE  [Notebook!NotebookNext]_(Notebook!nvars)
    <2>1. Settled' = Settled => UNCHANGED Notebook!nvars
      BY DEF Notebook!nvars
    <2>2. UNCHANGED <<files, live>> => Settled' = Settled
      BY DEF Settled, Published
    <2>3. CASE \E p \in Invocations : Command(p)
      <3>1. PICK p \in Invocations : Command(p)
        BY <2>3
      <3>2. CASE Apply(p)
        <4>1. live.done = 0 /\ live'.done = 0 /\ files' = files
          BY <3>2, TransactionFields DEF Apply, NoLive
        <4>2. Published = {} /\ Published' = {}
          BY <4>1 DEF Published
        <4> QED
          BY <2>1, <4>1, <4>2 DEF Settled
      <3>3. CASE ~Apply(p)
        <4>1. UNCHANGED <<files, live>>
          BY <1>2, <3>1, <3>3, CommandKeepsTasks DEF Inv
        <4> QED
          BY <2>1, <2>2, <4>1
      <3> QED
        BY <3>2, <3>3
    <2>4. CASE Publish \/ Unpublish
      BY <1>2, <2>1, <2>4, Invisible
    <2>5. CASE Interrupt \/ \E mode \in {"ROLLBACK", "CONTINUE"} : Recover(mode)
      <3>1. live'.plan = live.plan /\ live'.done = live.done /\ files' = files
        BY <2>5, TransactionFields DEF Interrupt, Recover
      <3> QED
        BY <2>1, <3>1 DEF Settled, Published
    <2>6. CASE Settle
      BY <1>2, <2>1, <2>6, SettlesWholly
    <2>7. CASE UNCHANGED vars
      BY <2>1, <2>2, <2>7 DEF vars
    <2> QED
      BY <1>2, <2>3, <2>4, <2>5, <2>6, <2>7 DEF Next
  <1> QED
    BY <1>1, <1>2, PlansAreKept, PTL DEF Spec, ImplementsClaimedNotebook, Notebook!NotebookSpec

\* No claim is seen released before what goes with the release is there too.
THEOREM ReleasesComeLast == Spec => []ReleaseIsLast
  <1>1. Inv => ReleaseIsLast
    <2> SUFFICES ASSUME Inv, live # NoLive, Owner \in DOMAIN live.plan.after,
                        files[Owner] = live.plan.after[Owner],
                        NEW n \in DOMAIN live.plan.after
                 PROVE  files[n] = live.plan.after[n]
      BY DEF ReleaseIsLast
    <2> DEFINE plan == live.plan
    <2>1. /\ live.done \in 0 .. Len(plan.order) /\ Shape(plan) /\ PlanOK(plan)
          /\ plan.order \in Seq(Paths)
      BY DEF Inv, LiveOK, PlanOK, Shape
    <2>2. /\ Owner \in DOMAIN plan.bound /\ Basis(plan) \in Claim
          /\ \/ AcquirePlan(plan) \/ ReleasingPlan(plan) \/ SyncPlan(plan)
             \/ MarkPlan(plan) \/ HandoffPlan(plan) \/ RecoverPlan(plan)
      BY <2>1 DEF PlanOK, Shape
    <2>3. files[Owner] = IF Owner \in Published THEN plan.after[Owner] ELSE plan.bound[Owner]
      BY <2>2 DEF Inv, LiveOK
    <2> HIDE DEF plan
    <2>4. PICK i \in 1 .. Len(plan.order) : plan.order[i] = Owner
      BY <2>1 DEF Shape, plan
    <2>5. i = Len(plan.order)
      <3>1. ASSUME NEW x, plan.order = <<x>> PROVE i = Len(plan.order)
        BY <2>4, <3>1
      <3>2. ASSUME NEW x \in {Context, Decisions}, plan.order = <<x, Owner>>
            PROVE  i = Len(plan.order)
        BY <2>4, <3>2, Names
      <3> QED
        BY <2>2, <3>1, <3>2
           DEF AcquirePlan, ReleasingPlan, SyncPlan, MarkPlan, HandoffPlan, RecoverPlan
    <2>6. plan.after[Owner].status # Basis(plan).status
      BY <2>2, <2>4, Names, AcquireIsClaim, ReleaseIsClaim
         DEF AcquirePlan, ReleasingPlan, SyncPlan, MarkPlan, HandoffPlan, RecoverPlan,
             CanAcquire, Owns
    <2>7. Owner \in Published
      BY <2>3, <2>6 DEF plan, Basis
    <2>8. live.done = Len(plan.order)
      <3>1. PICK j \in 1 .. live.done : plan.order[j] = Owner
        BY <2>7 DEF Published, plan
      <3>2. j = i
        BY <2>1, <2>4, <3>1 DEF Shape
      <3> QED
        BY <2>1, <2>5, <3>1, <3>2
    <2>9. n \in Published /\ n \in DOMAIN plan.bound
      BY <2>1, <2>8 DEF Published, Shape, plan
    <2> QED
      BY <2>9 DEF Inv, LiveOK, plan
  <1> QED
    BY PlansAreKept, <1>1, PTL

-----------------------------------------------------------------------------
(* What the files say.  The notebook that Lifecycle implements changes by  *)
(* whole operations, so an invariant of it is proved from six of them;     *)
(* what a live transaction has published on top is what its plan writes.   *)

\* Whoever is named is named completely.
Proper(claim) ==
    /\ ValidOwnership(claim)
    /\ claim.session # Nobody => claim.worker \in Workers /\ claim.session \in Sessions

Marked(mark) == mark = << >> \/ (mark[1] \in Contexts /\ mark[2] \in Actor)

Increasing(audits) ==
    \A i, j \in DOMAIN audits : i < j => audits[i].generation < audits[j].generation

\* The audits are of claims before this one, or of this one if it ended.
Past(claim, audits) ==
    \A i \in DOMAIN audits :
        /\ audits[i].generation <= claim.generation
        /\ claim.status = "ACTIVE" => audits[i].generation < claim.generation

Audited(claim, audits) ==
    audits \in Seq(Actor) /\ Increasing(audits) /\ Past(claim, audits)

NotebookOK ==
    /\ Proper(Settled[Owner]) /\ Settled[Context] \in Contexts
    /\ Audited(Settled[Owner], Settled[Decisions])
    /\ \A m \in Milestones : Marked(Settled[m])

-----------------------------------------------------------------------------
(* Claims and audits.                                                      *)

\* The holder of a claim is an actor.
LEMMA HolderIsActor ==
    ASSUME NEW claim \in Claim, Proper(claim), claim.status = "ACTIVE"
    PROVE  /\ ActorOf(claim) \in Actor
           /\ ActorOf(claim).generation = claim.generation /\ claim.generation \in Nat
  <1>1. claim.generation \in Generations /\ Generations \subseteq Nat
    BY OwnershipAssumption DEF Claim, Generations
  <1>2. claim.worker \in Workers /\ claim.session \in Sessions
    BY DEF Proper, ValidOwnership
  <1> QED
    BY <1>1, <1>2 DEF ActorOf, Actor

\* Audits carry generations.
LEMMA AuditGenerations ==
    ASSUME NEW audits \in Seq(Actor), NEW i \in DOMAIN audits
    PROVE  audits[i].generation \in Nat
  <1>1. audits[i] \in Actor
    OBVIOUS
  <1> QED
    BY <1>1, OwnershipAssumption DEF Actor, Generations

\* A claim that was taken up names its holder, and every audit is older.
LEMMA AcquireIsProper ==
    ASSUME NEW claim \in Claim, NEW next \in Claim, NEW w \in Workers, NEW s \in Sessions,
           next = [status |-> "ACTIVE", worker |-> w, session |-> s,
                   generation |-> claim.generation + 1]
    PROVE  /\ Proper(next)
           /\ \A audits : Audited(claim, audits) => Audited(next, audits)
  <1>1. claim.generation \in Nat /\ next.generation = claim.generation + 1
    BY OwnershipAssumption DEF Claim, Generations
  <1>2. Proper(next)
    BY <1>1, OwnershipAssumption DEF Proper, ValidOwnership
  <1>3. ASSUME NEW audits, Audited(claim, audits)
        PROVE  Audited(next, audits)
    <2>1. ASSUME NEW i \in DOMAIN audits
          PROVE  audits[i].generation < next.generation
      <3>1. audits[i].generation \in Nat
        BY <1>3, AuditGenerations DEF Audited
      <3> QED
        BY <1>1, <1>3, <3>1 DEF Audited, Past
    <2>2. \A i \in DOMAIN audits : audits[i].generation \in Nat
      BY <1>3, AuditGenerations DEF Audited
    <2> QED
      BY <1>1, <1>3, <2>1, <2>2 DEF Audited, Past
  <1> QED
    BY <1>2, <1>3

\* A claim that was put down names who held it, and keeps its audits.
LEMMA ReleaseIsProper ==
    ASSUME NEW claim \in Claim, Proper(claim), claim.status = "ACTIVE"
    PROVE  /\ Proper(Release(claim)) /\ Release(claim).status = "RELEASED"
           /\ \A audits : Audited(claim, audits) => Audited(Release(claim), audits)
  <1>1. /\ Release(claim).status = "RELEASED"
        /\ Release(claim).worker = claim.worker /\ Release(claim).session = claim.session
        /\ Release(claim).generation = claim.generation
    BY DEF Release, Claim
  <1> QED
    BY <1>1 DEF Proper, ValidOwnership, Audited, Past

\* A recovery adds the claim that it ends.
LEMMA AuditIsLater ==
    ASSUME NEW claim \in Claim, Proper(claim), claim.status = "ACTIVE",
           NEW audits, Audited(claim, audits)
    PROVE  LET entries == Append(audits, ActorOf(claim))
           IN  entries \in Seq(Actor) /\ Increasing(entries) /\ Audited(Release(claim), entries)
  <1> DEFINE actor == ActorOf(claim)
             entries == Append(audits, actor)
  <1>1. /\ actor \in Actor /\ actor.generation = claim.generation /\ claim.generation \in Nat
        /\ audits \in Seq(Actor)
    BY HolderIsActor DEF Audited
  <1>2. Release(claim).status = "RELEASED" /\ Release(claim).generation = claim.generation
    BY DEF Release, Claim
  <1> HIDE DEF actor
  <1>3. /\ entries \in Seq(Actor) /\ DOMAIN audits = 1 .. Len(audits) /\ Len(audits) \in Nat
        /\ DOMAIN entries = 1 .. Len(audits) + 1
        /\ \A i \in 1 .. Len(audits) : entries[i] = audits[i]
        /\ entries[Len(audits) + 1] = actor
    BY <1>1
  <1> HIDE DEF entries
  <1>4. \A i \in 1 .. Len(audits) :
           audits[i].generation \in Nat /\ audits[i].generation < claim.generation
    BY <1>1, <1>3, AuditGenerations DEF Audited, Past
  <1>5. Increasing(entries)
    <2> SUFFICES ASSUME NEW i \in 1 .. Len(audits) + 1, NEW j \in 1 .. Len(audits) + 1, i < j
                 PROVE  entries[i].generation < entries[j].generation
      BY <1>3 DEF Increasing
    <2>1. i \in 1 .. Len(audits)
      BY <1>3
    <2>2. CASE j \in 1 .. Len(audits)
      BY <1>3, <2>1, <2>2 DEF Audited, Increasing
    <2>3. CASE j = Len(audits) + 1
      BY <1>1, <1>3, <1>4, <2>1, <2>3
    <2> QED
      BY <1>3, <2>2, <2>3
  <1>6. Past(Release(claim), entries)
    <2>1. ASSUME NEW i \in 1 .. Len(audits) + 1
          PROVE  entries[i].generation <= claim.generation
      <3>1. CASE i \in 1 .. Len(audits)
        BY <1>1, <1>3, <1>4, <3>1
      <3>2. CASE i = Len(audits) + 1
        BY <1>1, <1>3, <3>2
      <3> QED
        BY <1>3, <3>1, <3>2
    <2> QED
      BY <1>2, <1>3, <2>1 DEF Past
  <1> QED
    BY <1>3, <1>5, <1>6 DEF Audited, entries, actor

-----------------------------------------------------------------------------
(* The notebook.                                                           *)

\* What the plan of a live transaction found is a claim.
LEMMA SettledClaim ==
    ASSUME Inv
    PROVE  Settled[Owner] \in Claim
  <1>1. CASE Owner \in Published
    <2>1. live.plan.order # << >> /\ Owner \in Paths
      BY <1>1, Names DEF Published, Inv, LiveOK
    <2> QED
      BY <1>1, <2>1 DEF Settled, Inv, LiveOK, PlanOK, Basis
  <1>2. CASE Owner \notin Published
    BY <1>2, Names DEF Settled, Inv, FilesOK
  <1> QED
    BY <1>1, <1>2

\* The checkpoints of the notebook, one by one.
LEMMA SameMarks ==
    ASSUME Checkpoints' = Checkpoints
    PROVE  \A m \in Milestones : Settled'[m] = Settled[m]
  <1>1. \A m \in Milestones : Checkpoints[m] = Settled[m] /\ Checkpoints'[m] = Settled'[m]
    BY DEF Checkpoints
  <1> QED
    BY <1>1

\* Each of the six operations on the notebook leaves it in order.
LEMMA OperationsKeep ==
    ASSUME Settled[Owner] \in Claim, (Settled[Owner] \in Claim)',
           NotebookOK, Notebook!NotebookNext
    PROVE  NotebookOK'
  <1> DEFINE claim == Settled[Owner]
             audits == Settled[Decisions]
  <1>1. claim \in Claim /\ claim' \in Claim
    OBVIOUS
  <1>2. /\ Proper(claim) /\ Settled[Context] \in Contexts /\ Audited(claim, audits)
        /\ \A m \in Milestones : Marked(Settled[m])
    BY DEF NotebookOK
  <1>3. ASSUME Proper(claim'), Settled'[Context] \in Contexts, Audited(claim', audits'),
               \A m \in Milestones : Marked(Settled'[m])
        PROVE  NotebookOK'
    BY <1>3 DEF NotebookOK
  <1>4. Checkpoints' = Checkpoints => \A m \in Milestones : Marked(Settled'[m])
    BY <1>2, SameMarks
  <1>5. CASE Notebook!TakeUp
    <2>1. PICK w \in Workers, s \in Sessions :
             claim' = [status |-> "ACTIVE", worker |-> w, session |-> s,
                       generation |-> claim.generation + 1]
      BY <1>5 DEF Notebook!TakeUp
    <2>2. Settled'[Context] = Settled[Context] /\ audits' = audits /\ Checkpoints' = Checkpoints
      BY <1>5 DEF Notebook!TakeUp, Checkpoints
    <2> HIDE DEF claim, audits
    <2>3. Proper(claim') /\ Audited(claim', audits')
      BY <1>1, <1>2, <2>1, <2>2, AcquireIsProper
    <2> QED
      BY <1>2, <1>3, <1>4, <2>2, <2>3
  <1>6. CASE Notebook!GiveUp \/ Notebook!HandOver
    <2>1. /\ claim' = Release(claim) /\ claim.status = "ACTIVE"
          /\ audits' = audits /\ Checkpoints' = Checkpoints
          /\ Settled'[Context] \in Contexts
      BY <1>2, <1>6 DEF Notebook!GiveUp, Notebook!HandOver, Notebook!PutDown, Notebook!Held,
                        Notebook!Release, Release, Checkpoints
    <2> HIDE DEF claim, audits
    <2>2. Proper(claim') /\ Audited(claim', audits')
      BY <1>1, <1>2, <2>1, ReleaseIsProper
    <2> QED
      BY <1>3, <1>4, <2>1, <2>2
  <1>7. CASE Notebook!Write
    <2>1. /\ claim' = claim /\ audits' = audits /\ Checkpoints' = Checkpoints
          /\ Settled'[Context] \in Contexts
      BY <1>7 DEF Notebook!Write, Checkpoints
    <2> HIDE DEF claim, audits
    <2> QED
      BY <1>2, <1>3, <1>4, <2>1
  <1>8. CASE Notebook!Mark
    <2>1. PICK m \in Milestones :
             Checkpoints' = [Checkpoints EXCEPT ![m] = <<Settled[Context], ActorOf(claim)>>]
      BY <1>8 DEF Notebook!Mark, Notebook!ActorOf, ActorOf, Checkpoints
    <2>2. /\ claim' = claim /\ audits' = audits /\ Settled'[Context] = Settled[Context]
          /\ claim.status = "ACTIVE"
      BY <1>8 DEF Notebook!Mark, Notebook!Held
    <2> HIDE DEF claim, audits
    <2>3. ActorOf(claim) \in Actor
      BY <1>1, <1>2, <2>2, HolderIsActor
    <2>4. ASSUME NEW k \in Milestones
          PROVE  Marked(Settled'[k])
      <3>1. Checkpoints'[k] = Settled'[k] /\ Checkpoints[k] = Settled[k]
            /\ k \in DOMAIN Checkpoints
        BY DEF Checkpoints
      <3>2. CASE k = m
        BY <1>2, <2>1, <2>3, <3>1, <3>2 DEF Marked
      <3>3. CASE k # m
        BY <1>2, <2>1, <3>1, <3>3
      <3> QED
        BY <3>2, <3>3
    <2> QED
      BY <1>2, <1>3, <2>2, <2>4
  <1>9. CASE Notebook!Overrule
    <2>1. /\ claim' = Release(claim) /\ claim.status = "ACTIVE"
          /\ audits' = Append(audits, ActorOf(claim)) /\ Checkpoints' = Checkpoints
          /\ Settled'[Context] = Settled[Context]
      BY <1>9 DEF Notebook!Overrule, Notebook!PutDown, Notebook!Held, Notebook!Release,
                  Notebook!ActorOf, Release, ActorOf, Checkpoints
    <2> HIDE DEF claim, audits
    <2>2. Proper(claim') /\ Audited(claim', audits')
      BY <1>1, <1>2, <2>1, ReleaseIsProper, AuditIsLater
    <2> QED
      BY <1>2, <1>3, <1>4, <2>1, <2>2
  <1> QED
    BY <1>5, <1>6, <1>7, <1>8, <1>9 DEF Notebook!NotebookNext

\* The notebook is always in order.
THEOREM NotebookIsOrdered == Spec => []NotebookOK
  <1>1. Init => NotebookOK
    <2> SUFFICES ASSUME Init PROVE NotebookOK
      OBVIOUS
    <2>1. Published = {}
      BY TransactionFields DEF Init, NoLive, Published
    <2>2. \A n \in Paths : Settled[n] = files[n]
      BY <2>1 DEF Settled
    <2>3. /\ Settled[Owner] = Bootstrapped /\ Settled[Context] = InitialContext
          /\ Settled[Decisions] = << >> /\ \A m \in Milestones : Settled[m] = << >>
      BY <2>2, Names DEF Init
    <2>4. Proper(Bootstrapped)
      BY DEF Proper, Bootstrapped, ValidOwnership
    <2>5. Audited(Bootstrapped, << >>)
      BY DEF Audited, Increasing, Past
    <2> QED
      BY <2>3, <2>4, <2>5, LifecycleAssumption DEF NotebookOK, Marked
  <1>2. Inv => Settled[Owner] \in Claim
    BY SettledClaim
  <1>3. (Settled[Owner] \in Claim) /\ (Settled[Owner] \in Claim)' /\ NotebookOK
            /\ [Notebook!NotebookNext]_(Notebook!nvars)
        => NotebookOK'
    <2> SUFFICES ASSUME Settled[Owner] \in Claim, (Settled[Owner] \in Claim)', NotebookOK,
                        [Notebook!NotebookNext]_(Notebook!nvars)
                 PROVE  NotebookOK'
      OBVIOUS
    <2>1. CASE Notebook!NotebookNext
      BY <2>1, OperationsKeep
    <2>2. CASE UNCHANGED Notebook!nvars
      <3>1. /\ Settled'[Owner] = Settled[Owner] /\ Settled'[Context] = Settled[Context]
            /\ Settled'[Decisions] = Settled[Decisions] /\ Checkpoints' = Checkpoints
        BY <2>2 DEF Notebook!nvars, Checkpoints
      <3> QED
        BY <3>1, SameMarks DEF NotebookOK
    <2> QED
      BY <2>1, <2>2
  <1> QED
    BY <1>1, <1>2, <1>3, PlansAreKept, Refinement, PTL
       DEF Spec, ImplementsClaimedNotebook, Notebook!NotebookSpec

-----------------------------------------------------------------------------
(* The files, with what a live transaction published of its plan.          *)

FilesSay ==
    /\ ValidOwnership(files[Owner])
    /\ files[Context] \in Contexts /\ files[Decisions] \in Seq(Actor)
    /\ \A m \in Milestones : Marked(files[m])
    /\ AuditsNameEndedClaims

\* A file is as in the notebook, or it is the one its plan publishes.
LEMMA FilesAndNotebook ==
    ASSUME Inv
    PROVE  \A n \in Paths :
               files[n] = IF n \in Published THEN live.plan.after[n] ELSE Settled[n]
  <1>1. \A n \in Published : n \in DOMAIN live.plan.bound
    BY DEF Inv, LiveOK, PlanOK, Shape, Published
  <1> QED
    BY <1>1 DEF Inv, LiveOK, Settled

\* In every state of a live transaction the files are in order.
LEMMA FilesInOrder ==
    ASSUME Inv, NotebookOK
    PROVE  FilesSay
  <1> DEFINE plan == live.plan
             claim == Settled[Owner]
             audits == Settled[Decisions]
  <1>1. /\ claim \in Claim /\ Proper(claim) /\ Settled[Context] \in Contexts
        /\ Audited(claim, audits) /\ \A m \in Milestones : Marked(Settled[m])
    BY SettledClaim DEF NotebookOK
  <1>2. \A n \in Paths : files[n] = IF n \in Published THEN plan.after[n] ELSE Settled[n]
    BY FilesAndNotebook
  <1>3. ASSUME NEW c \in Claim, Proper(c), Audited(c, audits), files[Owner] = c,
               files[Decisions] = audits
        PROVE  ValidOwnership(files[Owner]) /\ AuditsNameEndedClaims
               /\ files[Decisions] \in Seq(Actor)
    <2>1. \A i \in DOMAIN audits : audits[i].generation \in Nat
      BY <1>1, AuditGenerations DEF Audited
    <2>2. \A i \in DOMAIN audits :
             c.status = "ACTIVE" /\ audits[i] = ActorOf(c) => FALSE
      BY <1>3, <2>1 DEF Audited, Past, ActorOf
    <2> QED
      BY <1>3, <2>2 DEF Proper, Audited, Increasing, AuditsNameEndedClaims
  <1>4. CASE Published = {}
    <2>1. \A n \in Paths : files[n] = Settled[n]
      BY <1>2, <1>4
    <2> QED
      BY <1>1, <1>3, <2>1, Names DEF FilesSay
  <1>5. CASE Published # {}
    <2>1. /\ live.done \in 1 .. Len(plan.order) /\ plan.order # << >>
          /\ plan.order \in Seq(Paths)
      BY <1>5 DEF Published, Inv, LiveOK, PlanOK, Shape
    <2>2. /\ Owner \in DOMAIN plan.bound /\ Basis(plan) \in Claim
          /\ \/ AcquirePlan(plan) \/ ReleasingPlan(plan) \/ SyncPlan(plan)
             \/ MarkPlan(plan) \/ HandoffPlan(plan) \/ RecoverPlan(plan)
          /\ \A n \in Paths : n \in DOMAIN plan.bound => Settled[n] = plan.bound[n]
      BY <2>1, SettledFiles DEF Inv, LiveOK, PlanOK
    <2>3. /\ \A n : plan.order = <<n>> => Published = {n}
          /\ \A n, k : plan.order = <<n, k>> => Published = {n} \/ Published = {n, k}
      <3> DEFINE order == plan.order
      <3>1. Published = {order[i] : i \in 1 .. live.done} /\ live.done \in 1 .. Len(order)
        BY <2>1 DEF Published
      <3> HIDE DEF order
      <3>2. ASSUME NEW n, order = <<n>>
            PROVE  Published = {n}
        <4>1. Len(order) = 1 /\ order[1] = n
          BY <3>2
        <4> QED
          BY <3>1, <4>1
      <3>3. ASSUME NEW n, NEW k, order = <<n, k>>
            PROVE  Published = {n} \/ Published = {n, k}
        <4>1. Len(order) = 2 /\ order[1] = n /\ order[2] = k
          BY <3>3
        <4>2. live.done = 1 \/ live.done = 2
          BY <3>1, <4>1
        <4> QED
          BY <3>1, <4>1, <4>2
      <3> QED
        BY <3>2, <3>3 DEF order
    <2>4. claim = Basis(plan)
      BY <2>2, Names DEF Basis
    <2> HIDE DEF plan, claim, audits
    <2>5. CASE AcquirePlan(plan)
      <3>1. PICK w \in Workers, s \in Sessions : plan.after[Owner] = Acquire(claim, w, s)
        BY <2>4, <2>5 DEF AcquirePlan
      <3>2. /\ files[Owner] = Acquire(claim, w, s) /\ files[Decisions] = audits
            /\ files[Context] = Settled[Context]
            /\ \A m \in Milestones : files[m] = Settled[m]
        BY <1>2, <2>3, <2>5, <3>1, Names DEF AcquirePlan, audits
      <3>3. /\ Acquire(claim, w, s) \in Claim
            /\ Acquire(claim, w, s) = [status |-> "ACTIVE", worker |-> w, session |-> s,
                                       generation |-> claim.generation + 1]
        BY <1>1, <2>4, <2>5, AcquireIsClaim, NextGeneration DEF AcquirePlan, Acquire
      <3>4. Proper(Acquire(claim, w, s)) /\ Audited(Acquire(claim, w, s), audits)
        BY <1>1, <3>3, AcquireIsProper
      <3> QED
        BY <1>1, <1>3, <3>2, <3>3, <3>4 DEF FilesSay
    <2>6. CASE ReleasingPlan(plan) \/ HandoffPlan(plan)
      <3>1. /\ files[Decisions] = audits /\ files[Context] \in Contexts
            /\ files[Owner] \in {claim, Release(claim)} /\ claim.status = "ACTIVE"
            /\ \A m \in Milestones : files[m] = Settled[m]
        BY <1>1, <1>2, <2>3, <2>4, <2>6, Names
           DEF ReleasingPlan, HandoffPlan, Owns, audits, claim
      <3>2. /\ files[Owner] \in Claim /\ Proper(files[Owner]) /\ Audited(files[Owner], audits)
        BY <1>1, <3>1, ReleaseIsClaim, ReleaseIsProper
      <3> QED
        BY <1>1, <1>3, <3>1, <3>2 DEF FilesSay
    <2>7. CASE SyncPlan(plan)
      <3>1. /\ files[Owner] = claim /\ files[Decisions] = audits /\ files[Context] \in Contexts
            /\ \A m \in Milestones : files[m] = Settled[m]
        BY <1>2, <2>3, <2>7, Names DEF SyncPlan, audits, claim
      <3> QED
        BY <1>1, <1>3, <3>1 DEF FilesSay
    <2>8. CASE MarkPlan(plan)
      <3>1. PICK m \in Milestones : /\ plan.order = <<m>>
                                    /\ plan.after[m] = <<plan.bound[Context], plan.actor>>
        BY <2>8 DEF MarkPlan
      <3>2. /\ files[Owner] = claim /\ files[Decisions] = audits
            /\ files[Context] = Settled[Context]
            /\ files[m] = <<plan.bound[Context], plan.actor>>
            /\ \A k \in Milestones : k # m => files[k] = Settled[k]
        BY <1>2, <2>3, <3>1, Names DEF audits, claim
      <3>3. plan.bound[Context] = Settled[Context] /\ plan.actor \in Actor
        BY <1>1, <2>2, <2>4, <2>8, HolderIsActor, Names DEF MarkPlan, Owns
      <3>4. Marked(files[m])
        BY <1>1, <3>2, <3>3 DEF Marked
      <3> QED
        BY <1>1, <1>3, <3>2, <3>4 DEF FilesSay
    <2>9. CASE RecoverPlan(plan)
      <3>1. /\ claim.status = "ACTIVE" /\ plan.bound[Decisions] = audits
            /\ plan.order = <<Decisions, Owner>>
            /\ plan.after[Decisions] = Append(audits, ActorOf(claim))
            /\ plan.after[Owner] = Release(claim)
        <4>1. Decisions \in DOMAIN plan.bound
          BY <2>1, <2>9 DEF RecoverPlan, Inv, LiveOK, PlanOK, Shape, plan
        <4> QED
          BY <2>2, <2>4, <2>9, <4>1, Names DEF RecoverPlan, audits
      <3>2. /\ files[Decisions] = Append(audits, ActorOf(claim))
            /\ files[Owner] \in {claim, Release(claim)}
            /\ files[Context] = Settled[Context]
            /\ \A m \in Milestones : files[m] = Settled[m]
        BY <1>2, <2>3, <3>1, Names DEF claim
      <3>3. files[Decisions] \in Seq(Actor) /\ Increasing(files[Decisions])
        BY <1>1, <3>1, <3>2, AuditIsLater
      <3>4. ValidOwnership(files[Owner])
        BY <1>1, <3>1, <3>2, ReleaseIsProper DEF Proper
      <3> QED
        BY <1>1, <2>9, <3>2, <3>3, <3>4
           DEF FilesSay, Increasing, AuditsNameEndedClaims, RecoverPlan, plan
    <2> QED
      BY <2>2, <2>5, <2>6, <2>7, <2>8, <2>9
  <1> QED
    BY <1>4, <1>5

\* DECISIONS.md never says of a claim that goes on that it was ended, except
\* while the recovery that ends it is live, and it names every claim once.
THEOREM AuditsAreTruthful == Spec => []AuditsNameEndedClaims
  <1>1. Inv /\ NotebookOK => AuditsNameEndedClaims
    BY FilesInOrder DEF FilesSay
  <1> QED
    BY <1>1, PlansAreKept, NotebookIsOrdered, PTL

-----------------------------------------------------------------------------
(* Types.                                                                  *)

Labels == {"idle", "gated", "claimed", "previewed", "approved"}

HeldOK(held) == held.op \in Gated \cup {"NONE"} /\ held.plan.actor \in Actor \cup {NoActor}

MemoryOK ==
    /\ pc \in [Invocations -> Labels] /\ DOMAIN task = Invocations
    /\ \A p \in Invocations : HeldOK(task[p])

LiveTyped ==
    /\ live.mode \in {"NONE", "APPLY", "INTERRUPTED", "CONTINUE", "ROLLBACK"}
    /\ interruptions \in 0 .. MaxInterruptions

\* An invocation goes on with what is typed.
LEMMA GotoTyped ==
    ASSUME MemoryOK, NEW p \in Invocations, NEW label \in Labels, NEW held,
           Goto(p, label, held), HeldOK(held)
    PROVE  MemoryOK'
  <1>1. /\ pc' \in [Invocations -> Labels] /\ DOMAIN task' = Invocations
        /\ \A q \in Invocations : task'[q] = IF q = p THEN held ELSE task[q]
    BY DEF MemoryOK, Goto
  <1>2. \A q \in Invocations : HeldOK(task'[q])
    <2>1. \A q \in Invocations : HeldOK(task[q])
      BY DEF MemoryOK
    <2> QED
      BY <1>1, <2>1
  <1> QED
    BY <1>1, <1>2 DEF MemoryOK

\* An invocation that ends.
LEMMA LeaveTyped ==
    ASSUME MemoryOK, NEW p \in Invocations, Leave(p)
    PROVE  MemoryOK'
  <1>1. HeldOK(NoTask) /\ "idle" \in Labels
    BY DEF HeldOK, NoTask, Task, NoPlan, Labels
  <1> QED
    BY <1>1, GotoTyped DEF Leave

\* A planner drafts a plan for an actor or for a controller.
LEMMA DraftTyped ==
    ASSUME MemoryOK, NEW p \in Invocations, NEW plan, Draft(p, plan),
           plan.actor \in Actor \cup {NoActor}
    PROVE  MemoryOK'
  <1> DEFINE held == Task(task[p].op, Bootstrapped, NoPlan, plan)
  <1>1. HeldOK(held)
    BY DEF MemoryOK, HeldOK, Task
  <1>2. Goto(p, "previewed", held) \/ Goto(p, "approved", held) \/ Leave(p)
    BY DEF Draft
  <1>3. {"previewed", "approved"} \subseteq Labels
    BY DEF Labels
  <1> HIDE DEF held
  <1> QED
    BY <1>1, <1>2, <1>3, GotoTyped, LeaveTyped

\* Every step of an invocation keeps what it remembers typed.
LEMMA CommandTyped ==
    ASSUME Inv, MemoryOK, NEW p \in Invocations, Command(p)
    PROVE  MemoryOK'
  <1>1. Labels = {"idle", "gated", "claimed", "previewed", "approved"}
    BY DEF Labels
  <1>2. HeldOK(task[p])
    BY DEF MemoryOK
  <1>3. CASE (\E op \in Gated : Start(p, op)) \/ ReadClaim(p) \/ Rerun(p)
    <2>1. PICK op \in Gated \cup {"NONE"}, claim \in Claim, approval \in {NoPlan, task[p].plan} :
            \/ Goto(p, "gated", Task(op, claim, approval, NoPlan))
            \/ Goto(p, "claimed", Task(op, claim, task[p].approval, NoPlan))
      BY <1>2, <1>3, BootstrappedIsClaim DEF Start, ReadClaim, Rerun, HeldOK, Inv, FilesOK
    <2>2. \A a : HeldOK(Task(op, claim, a, NoPlan))
      BY DEF HeldOK, Task, NoPlan
    <2> QED
      BY <1>1, <2>1, <2>2, GotoTyped
  <1>4. CASE PlanAcquire(p)
    <2>1. PICK w \in Workers, s \in Sessions :
            Draft(p, Transition("acquire", ActorOf(Acquire(files[Owner], w, s)), files[Owner],
                                Acquire(files[Owner], w, s)))
      BY <1>4 DEF PlanAcquire
    <2>2. Acquire(files[Owner], w, s) \in Claim
      BY <1>4, AcquireIsClaim DEF PlanAcquire, Inv, FilesOK
    <2>3. ActorOf(Acquire(files[Owner], w, s)) \in Actor
      BY <2>2 DEF ActorOf, Acquire, Actor, Claim
    <2> QED
      BY <2>1, <2>3, DraftTyped DEF Transition
  <1>5. CASE PlanRelease(p) \/ PlanSync(p) \/ PlanCheckpoint(p) \/ PlanHandoff(p)
               \/ PlanStaleRecovery(p)
    <2>1. PICK plan : Draft(p, plan) /\ plan.actor \in Actor \cup {NoActor}
      <3>1. CASE PlanRelease(p)
        BY <3>1 DEF PlanRelease, Transition
      <3>2. CASE PlanSync(p)
        BY <3>2 DEF PlanSync, ContextPlan
      <3>3. CASE PlanCheckpoint(p)
        BY <3>3 DEF PlanCheckpoint, CheckpointPlan
      <3>4. CASE PlanHandoff(p)
        BY <3>4 DEF PlanHandoff, ReleaseAfter, ReleasePlan
      <3>5. CASE PlanStaleRecovery(p)
        BY <3>5 DEF PlanStaleRecovery, ReleaseAfter, ReleasePlan
      <3> QED
        BY <1>5, <3>1, <3>2, <3>3, <3>4, <3>5
    <2> QED
      BY <2>1, DraftTyped
  <1>6. CASE Confirm(p)
    BY <1>1, <1>2, <1>6, GotoTyped DEF Confirm
  <1>7. CASE Abandon(p) \/ Apply(p)
    BY <1>7, LeaveTyped DEF Abandon, Apply
  <1> QED
    BY <1>3, <1>4, <1>5, <1>6, <1>7 DEF Command

\* ACTIVE_WORKER.md always decodes, whatever is half-published, and all files
\* and all memory have their types.
THEOREM LifecycleTypeCorrect == Spec => []TypeOK
  <1>1. Init => MemoryOK /\ LiveTyped
    BY LifecycleAssumption, TransactionFields
       DEF Init, MemoryOK, LiveTyped, HeldOK, Labels, NoTask, Task, NoPlan, NoLive
  <1>2. Inv /\ MemoryOK /\ LiveTyped /\ [Next]_vars => MemoryOK' /\ LiveTyped'
    <2> SUFFICES ASSUME Inv, MemoryOK, LiveTyped, [Next]_vars
                 PROVE  MemoryOK' /\ LiveTyped'
      OBVIOUS
    <2>1. UNCHANGED <<pc, task>> => MemoryOK'
      BY DEF MemoryOK
    <2>2. CASE \E p \in Invocations : Command(p)
      <3>1. PICK p \in Invocations : Command(p)
        BY <2>2
      <3>2. LiveTyped'
        <4>1. CASE Apply(p)
          BY <4>1, TransactionFields DEF LiveTyped, Apply, NoLive
        <4>2. CASE ~Apply(p)
          BY <3>1, <4>2, CommandKeepsTasks DEF LiveTyped, Inv
        <4> QED
          BY <4>1, <4>2
      <3> QED
        BY <3>1, <3>2, CommandTyped
    <2>3. CASE Publish \/ Unpublish \/ Settle
      BY <2>1, <2>3, TransactionFields DEF LiveTyped, Publish, Unpublish, Settle, NoLive
    <2>4. CASE Interrupt
      BY <2>1, <2>4, TransactionFields, LifecycleAssumption DEF LiveTyped, Interrupt
    <2>5. CASE \E mode \in {"ROLLBACK", "CONTINUE"} : Recover(mode)
      BY <2>1, <2>5, TransactionFields DEF LiveTyped, Recover
    <2>6. CASE UNCHANGED vars
      BY <2>1, <2>6 DEF LiveTyped, vars
    <2> QED
      BY <2>2, <2>3, <2>4, <2>5, <2>6 DEF Next
  <1>3. Inv /\ NotebookOK /\ MemoryOK /\ LiveTyped => TypeOK
    BY FilesInOrder
       DEF FilesSay, Marked, Inv, FilesOK, TasksOK, LiveOK, MemoryOK, HeldOK, LiveTyped,
           Labels, TypeOK
  <1> QED
    BY <1>1, <1>2, <1>3, PlansAreKept, NotebookIsOrdered, PTL DEF Spec
===============================================================================

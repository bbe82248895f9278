----------------------- MODULE TransactionEditsProofs -----------------------
(***************************************************************************)
(* What a transaction replaces or deletes is what it verified, and what    *)
(* status offers can be done, for every instance of Transaction.           *)
(*                                                                         *)
(* Basis is what invocations know whatever other programs edit: their      *)
(* plans are coherent, and from the moment a bundle is staged or loaded it *)
(* carries the plan in memory.  Faithful adds that every change still      *)
(* ahead of a verification finds the content it expects, except on paths   *)
(* edited since.                                                           *)
(***************************************************************************)
EXTENDS TransactionProofs

\* No operation creates a directory.
NoDirectories ==
    \A op \in Operations : \A i \in DOMAIN op.intents : op.intents[i].kind # "CREATE_DIR"

-----------------------------------------------------------------------------
(* Plans.                                                                  *)

\* A change that some planner makes; directories only if operations do.
Sensible(c) ==
    /\ c.kind \in Kinds \ {"DELETE_DIR"}
    /\ c.kind = "CREATE_DIR" => c.before = Missing /\ c.after = Directory /\ ~NoDirectories
    /\ c.kind = "CREATE_FILE" => c.before = Missing /\ c.after \in Files
    /\ c.kind = "UPDATE_FILE" => c.before \in Files /\ c.after \in Files
    /\ c.kind = "DELETE_FILE" => c.before \in Files /\ c.after = Missing

\* Changes have paths of their own, and say what inputs of the same path say.
Coherent(plan) ==
    /\ \A i, j \in DOMAIN plan.changes :
           plan.changes[i].path = plan.changes[j].path => i = j
    /\ \A i \in DOMAIN plan.changes :
           /\ Sensible(plan.changes[i])
           /\ plan.changes[i].path \in DOMAIN plan.inputs =>
                  plan.inputs[plan.changes[i].path] = plan.changes[i].before

\* Plans are coherent in memory and in the bundles.
PlansSound ==
    /\ \A p \in Procs : Coherent(task[p].plan)
    /\ \A t \in Txns : Coherent(bundle[t].plan)

\* What is planned on a workspace it is applicable to is coherent.
LEMMA PlanAtIsCoherent ==
    ASSUME TypeOK, NEW op \in Operations, Applicable(op, disk)
    PROVE  Coherent(PlanAt(op, disk))
<1> DEFINE plan == PlanAt(op, disk)
<1>1. op \in Operation /\ \A i, j \in DOMAIN op.intents :
                              op.intents[i].path = op.intents[j].path => i = j
  BY TransactionAssumption
<1>2. DOMAIN plan.changes = DOMAIN op.intents /\ DOMAIN plan.inputs = op.inputs
      /\ \A q \in op.inputs : plan.inputs[q] = disk[q]
  BY DEF PlanAt
<1>3. ASSUME NEW i \in DOMAIN op.intents
      PROVE  /\ plan.changes[i].kind = op.intents[i].kind
             /\ plan.changes[i].path = op.intents[i].path
             /\ plan.changes[i].before = disk[op.intents[i].path]
             /\ plan.changes[i].after = op.intents[i].after
  BY DEF PlanAt
<1> HIDE DEF plan
<1>4. ASSUME NEW i \in DOMAIN op.intents
      PROVE  Sensible(plan.changes[i])
  <2>1. op.intents \in Seq([kind : Kinds \ {"DELETE_DIR"}, path : Paths, after : Contents])
    BY <1>1 DEF Operation
  <2>2. op.intents[i] \in [kind : Kinds \ {"DELETE_DIR"}, path : Paths, after : Contents]
    BY <2>1, SeqElement
  <2>3. IF op.intents[i].kind \in {"CREATE_DIR", "CREATE_FILE"}
        THEN disk[op.intents[i].path] = Missing
        ELSE disk[op.intents[i].path] \in Files
    BY DEF Applicable
  <2>4. op.intents[i].kind = "CREATE_DIR" => ~NoDirectories
    BY DEF NoDirectories
  <2>5. QED
    BY <1>3, <2>2, <2>3, <2>4, IntentAssumption DEF Sensible
<1>5. QED
  BY <1>1, <1>2, <1>3, <1>4 DEF Coherent, plan

\* So is the plan of an invocation that has none.
LEMMA NoPlanIsCoherent == Coherent(NoPlan)
BY DEF Coherent, NoPlan

\* What a step can make of memories and bundles.
PlanMoves ==
    /\ \A r \in Procs :
           \/ task'[r].plan \in {task[r].plan, NoPlan}
           \/ \E t \in Txns : task'[r].plan = bundle[t].plan
           \/ \E op \in Operations : Applicable(op, disk) /\ task'[r].plan = PlanAt(op, disk)
    /\ \A t \in Txns :
           \/ bundle'[t].plan \in {bundle[t].plan, NoPlan}
           \/ \E r \in Procs : bundle'[t].plan = task[r].plan

\* Every other invocation stays where it is.
Alone(p) == \A r \in Procs \ {p} : pc'[r] = pc[r] /\ task'[r] = task[r]

\* The memory of an invocation under way keeps what it was approved for.
LEMMA RunKeepsTask ==
    ASSUME TypeInv, NEW p \in Procs, Run(p)
    PROVE  /\ Alone(p)
           /\ \/ pc'[p] = "idle" /\ task'[p] = NoTask
              \/ task'[p].plan = task[p].plan /\ task'[p].mode = task[p].mode
<1> USE DEF files
<1>1. task \in [Procs -> Task] /\ pc \in [Procs -> Waiting \cup Holding]
  BY DEF TypeInv, TypeOK
<1>2. \A label : Goto(p, label) => /\ pc'[p] = label
                                   /\ \A r \in Procs \ {p} : pc'[r] = pc[r]
  BY <1>1 DEF Goto
<1>3. Leave(p) => Alone(p) /\ pc'[p] = "idle" /\ task'[p] = NoTask
  BY <1>1 DEF Leave, Goto, Alone
<1>4. ASSUME NEW label, Goto(p, label), UNCHANGED task
      PROVE  Alone(p) /\ task'[p].plan = task[p].plan /\ task'[p].mode = task[p].mode
  BY <1>2, <1>4 DEF Alone
<1>5. Refuse(p) => Alone(p) /\ task'[p].plan = task[p].plan /\ task'[p].mode = task[p].mode
  BY <1>4 DEF Refuse
<1>6. CASE AcquireLock(p) \/ AdmitMutation(p) \/ VerifyPlan(p) \/ CreatePointer(p) \/ BeginAction(p)
  BY <1>3, <1>4, <1>5, <1>6
     DEF AcquireLock, AdmitMutation, VerifyPlan, CreatePointer, BeginAction
<1>7. CASE StageBundle(p)
  <2>1. CASE Refuse(p)
    BY <1>5, <2>1
  <2>2. CASE ~Refuse(p)
    <3>1. PICK t \in Txns : task' = [task EXCEPT ![p].txn = t]
      BY <1>7, <2>2 DEF StageBundle, Unused
    <3>2. Goto(p, "staged")
      BY <1>7, <2>2 DEF StageBundle
    <3>3. QED
      BY <1>2, <3>1, <3>2, TxnUpdate DEF Alone, TypeInv
  <2>3. QED
    BY <2>1, <2>2
<1>8. CASE WritePointer(p)
  <2>1. DOMAIN Changes(p) \in SUBSET Nat
    BY DEF TypeInv, TypeOK, Task, Plan, Changes
  <2>2. task' = [task EXCEPT ![p].todo = DOMAIN Changes(p)] /\ Goto(p, "ready")
    BY <1>8 DEF WritePointer
  <2>3. QED
    BY <1>2, <2>1, <2>2, TodoUpdate DEF Alone, TypeInv
<1>9. CASE PerformCreate(p) \/ CheckUpdate(p) \/ RenameUpdate(p) \/ PerformDelete(p)
  BY <1>4, <1>5, <1>9 DEF PerformCreate, CheckUpdate, RenameUpdate, PerformDelete, SetDisk
<1>10. CASE VerifyAction(p)
  <2> DEFINE rest == task[p].todo \ {Current(p)}
  <2>1. CASE Refuse(p)
    BY <1>5, <2>1
  <2>2. CASE ~Refuse(p)
    <3>1. task' = [task EXCEPT ![p].todo = rest] /\ Goto(p, "ready")
      BY <1>10, <2>2 DEF VerifyAction
    <3>2. rest \in SUBSET Nat
      BY <1>1 DEF Task
    <3> HIDE DEF rest
    <3>3. QED
      BY <1>2, <3>1, <3>2, TodoUpdate DEF Alone, TypeInv
  <2>3. QED
    BY <2>1, <2>2
<1>11. CASE MarkApplied(p) \/ FinishActions(p) \/ WriteMigrationReceipt(p)
  BY <1>4, <1>5, <1>11 DEF MarkApplied, FinishActions, WriteMigrationReceipt
<1>12. CASE CreateReceipt(p) \/ WriteReceipt(p) \/ ClearPointer(p) \/ Unlock(p)
  BY <1>3, <1>4, <1>12 DEF CreateReceipt, WriteReceipt, ClearPointer, Unlock, SetReceipt
<1>13. CASE Replan(p) \/ LoadEvidence(p) \/ LockRecovery(p) \/ VerifyRecovery(p)
  BY <1>3, <1>4, <1>5, <1>13 DEF Replan, LoadEvidence, LockRecovery, VerifyRecovery
<1>14. QED
  BY <1>6, <1>7, <1>8, <1>9, <1>10, <1>11, <1>12, <1>13, Run(p) DEF Run

\* A bundle is staged for a transaction that has none.
LEMMA StagesFresh ==
    ASSUME TypeInv, NEW p \in Procs, StageBundle(p), ~Refuse(p)
    PROVE  /\ pc[p] = "verified" /\ pc'[p] = "staged" /\ UNCHANGED <<disk, lock, pointer>>
           /\ task'[p].txn \in Unused
           /\ bundle'[task'[p].txn].plan = task[p].plan
           /\ bundle'[task'[p].txn].receipt = "NONE"
           /\ \A t \in Txns \ {task'[p].txn} : bundle'[t] = bundle[t]
<1>1. /\ TypeOK /\ pc \in [Procs -> Waiting \cup Holding] /\ bundle \in [Txns -> Bundle]
  BY DEF TypeInv, TypeOK
<1>2. PICK t \in Unused :
          /\ bundle' = [bundle EXCEPT ![t] =
                 [plan |-> task[p].plan,
                  journal |-> [i \in DOMAIN Changes(p) |-> "PENDING"],
                  receipt |-> "NONE"]]
          /\ task' = [task EXCEPT ![p].txn = t]
  BY DEF StageBundle
<1>3. t \in Txns
  BY DEF Unused
<1>4. task'[p].txn = t
  <2>1. task'[p].txn = IF p = p THEN t ELSE task[p].txn
    BY <1>1, <1>2, <1>3, TxnUpdate, Zenon
  <2>2. QED
    BY <2>1
<1>5. /\ bundle'[t].plan = task[p].plan /\ bundle'[t].receipt = "NONE"
      /\ \A u \in Txns \ {t} : bundle'[u] = bundle[u]
  BY <1>1, <1>2, <1>3
<1>6. pc[p] = "verified" /\ pc'[p] = "staged" /\ UNCHANGED <<disk, lock, pointer>>
  BY <1>1 DEF StageBundle, Goto
<1>7. QED
  BY <1>4, <1>5, <1>6

\* Only staging and the cleanup after it change the plan in a bundle.
LEMMA RunKeepsBundles ==
    ASSUME TypeInv, NEW p \in Procs, Run(p)
    PROVE  \/ UNCHANGED bundle
           \/ /\ pc[p] \in Engaged
              /\ \A t \in Txns : bundle'[t].plan = bundle[t].plan
              /\ \A t \in Txns \ {task[p].txn} : bundle'[t] = bundle[t]
           \/ /\ pc[p] = "verified" /\ pc'[p] = "staged" /\ UNCHANGED <<disk, lock, pointer>>
              /\ task'[p].txn \in Unused
              /\ bundle'[task'[p].txn].plan = task[p].plan
              /\ bundle'[task'[p].txn].receipt = "NONE"
              /\ \A t \in Txns \ {task'[p].txn} : bundle'[t] = bundle[t]
           \/ /\ pc[p] = "staged" /\ pc'[p] = "unwinding" /\ Cleanup(task[p].txn)
              /\ UNCHANGED <<disk, lock, pointer>>
<1> USE DEF files
<1>1. TypeOK /\ task[p].txn \in Txns \cup {NoTxn}
      /\ pc \in [Procs -> Waiting \cup Holding] /\ bundle \in [Txns -> Bundle]
  BY DEF TypeInv, TypeOK, Task
<1>2. \A state : Record(p, state) =>
          /\ \A t \in Txns : bundle'[t].plan = bundle[t].plan
          /\ \A t \in Txns \ {task[p].txn} : bundle'[t] = bundle[t]
  <2> SUFFICES ASSUME NEW state, Record(p, state), NEW t \in Txns
               PROVE  bundle'[t].plan = bundle[t].plan
    BY <1>1, OtherBundles
  <2> DEFINE i == Current(p)
             u == task[p].txn
  <2>1. bundle' = [bundle EXCEPT ![u].journal[i] = state] /\ u \in Txns \cup {NoTxn}
    BY <1>1 DEF Record
  <2> HIDE DEF i, u
  <2>2. QED
    BY <1>1, <2>1, JournalUpdate, Zenon
<1>3. \A value, label : SetReceipt(p, value, label) =>
          /\ \A t \in Txns : bundle'[t].plan = bundle[t].plan
          /\ \A t \in Txns \ {task[p].txn} : bundle'[t] = bundle[t]
  <2>1. \A value, label : SetReceipt(p, value, label) =>
            \A t \in Txns : bundle'[t].plan = bundle[t].plan
    BY <1>1, ReceiptUpdate, Zenon DEF SetReceipt
  <2>2. QED
    BY <1>1, <2>1, OtherBundles
<1>5. CASE UNCHANGED bundle
  BY <1>5
<1>6. CASE StageBundle(p) /\ ~Refuse(p)
  BY <1>6, StagesFresh
<1>7. CASE CreatePointer(p) /\ bundle' # bundle
  BY <1>1, <1>7 DEF CreatePointer, Goto
<1>8. CASE BeginAction(p) \/ MarkApplied(p) \/ VerifyAction(p)
  BY <1>2, <1>5, <1>8 DEF BeginAction, MarkApplied, VerifyAction, Refuse, Engaged
<1>9. CASE CreateReceipt(p) \/ WriteReceipt(p)
  BY <1>3, <1>5, <1>9 DEF CreateReceipt, WriteReceipt, Engaged
<1>10. CASE AcquireLock(p) \/ AdmitMutation(p) \/ VerifyPlan(p) \/ WritePointer(p)
  BY <1>5, <1>10 DEF AcquireLock, AdmitMutation, VerifyPlan, WritePointer, Refuse
<1>11. CASE PerformCreate(p) \/ CheckUpdate(p) \/ RenameUpdate(p) \/ PerformDelete(p)
  BY <1>5, <1>11 DEF PerformCreate, CheckUpdate, RenameUpdate, PerformDelete, SetDisk, Refuse
<1>12. CASE FinishActions(p) \/ WriteMigrationReceipt(p) \/ ClearPointer(p) \/ Unlock(p)
  BY <1>5, <1>12 DEF FinishActions, WriteMigrationReceipt, ClearPointer, Unlock, Refuse
<1>13. CASE Replan(p) \/ LoadEvidence(p) \/ LockRecovery(p) \/ VerifyRecovery(p)
  BY <1>5, <1>13 DEF Replan, LoadEvidence, LockRecovery, VerifyRecovery, Refuse
<1>14. StageBundle(p) => (StageBundle(p) /\ ~Refuse(p)) \/ UNCHANGED bundle
  BY DEF Refuse
<1>15. QED
  BY <1>5, <1>6, <1>7, <1>8, <1>9, <1>10, <1>11, <1>12, <1>13, <1>14, Run(p) DEF Run

\* Every step keeps the plans coherent.
LEMMA PlansStep ==
    ASSUME TypeInv, PlansSound, [Next]_vars
    PROVE  PlansSound'
<1> USE DEF files
<1>0. TypeOK /\ task \in [Procs -> Task] /\ bundle \in [Txns -> Bundle]
  BY DEF TypeInv, TypeOK
<1>1. ASSUME PlanMoves PROVE PlansSound'
  BY <1>0, <1>1, PlanAtIsCoherent, NoPlanIsCoherent DEF PlanMoves, PlansSound
<1>2. ASSUME NEW p \in Procs, Run(p)
      PROVE  PlanMoves
  <2>1. \A r \in Procs : task'[r].plan \in {task[r].plan, NoPlan}
    BY <1>2, RunKeepsTask DEF Alone, NoTask
  <2>2. \A t \in Txns : \/ bundle'[t].plan \in {bundle[t].plan, NoPlan}
                        \/ bundle'[t].plan = task[p].plan
    <3>1. Cleanup(task[p].txn) => \A t \in Txns : bundle'[t].plan \in {bundle[t].plan, NoPlan}
      BY <1>0 DEF Cleanup, NoBundle
    <3>2. QED
      BY <1>2, <3>1, RunKeepsBundles
  <2>3. QED
    BY <2>1, <2>2 DEF PlanMoves
<1>3. ASSUME NEW p \in Procs, Recover(p)
      PROVE  PlanMoves
  <2>1. PICK action \in {"ROLLBACK", "CONTINUE"} : PlanRecovery(p, action)
    BY <1>3 DEF Recover
  <2>2. task'[p].plan = LivePlan /\ \A r \in Procs \ {p} : task'[r] = task[r]
    BY <1>0, <2>1 DEF PlanRecovery
  <2>3. pointer \in Txns /\ UNCHANGED bundle
    BY <2>1 DEF PlanRecovery, Loadable
  <2>4. QED
    BY <2>2, <2>3 DEF PlanMoves, LivePlan
<1>4. ASSUME NEW p \in Procs, Fail(p) \/ Crash(p)
      PROVE  PlanMoves
  <2>1. \A r \in Procs : task'[r].plan \in {task[r].plan, NoPlan}
    BY <1>0, <1>4 DEF Fail, Crash, Leave, NoTask
  <2>2. \A t \in Txns : bundle'[t].plan \in {bundle[t].plan, NoPlan}
    BY <1>0, <1>4 DEF Fail, Crash, Cleanup, NoBundle
  <2>3. QED
    BY <2>1, <2>2 DEF PlanMoves
<1>5. ASSUME NEW p \in Procs, NEW op \in Operations, Propose(p, op)
      PROVE  PlanMoves
  <2>1. PlanAt(op, disk) \in Plan /\ task' = [task EXCEPT ![p].plan = PlanAt(op, disk)]
        /\ Applicable(op, disk) /\ UNCHANGED bundle
    BY <1>0, <1>5, PlanAtType DEF Propose
  <2> DEFINE plan == PlanAt(op, disk)
  <2>2. plan \in Plan /\ task' = [task EXCEPT ![p].plan = plan]
    BY <2>1
  <2> HIDE DEF plan
  <2>3. \A r \in Procs : task'[r].plan = IF r = p THEN plan ELSE task[r].plan
    BY <1>0, <2>2, PlanUpdate, Zenon
  <2>4. QED
    BY <2>1, <2>3 DEF PlanMoves, plan
<1>6. CASE UNCHANGED <<task, bundle>>
  BY <1>6 DEF PlansSound
<1>7. QED
  BY <1>1, <1>2, <1>3, <1>4, <1>5, <1>6 DEF Next, vars, Edit, ClearStaleLock

-----------------------------------------------------------------------------
(* What an invocation knows of the transaction it works on.                *)

\* Where an approved recovery waits, and where only Apply passes.
Recovering == {"planned", "replanned", "loaded"}
Applying == {"approved", "locked", "admitted", "verified", "staged", "publishing",
             "intent", "marked"}

\* Apply finds RECOVERY.json empty until it writes it; the bundle of the
\* transaction at work carries the plan in memory, and no recovery is at work
\* on a transaction before the pointer names it.
StandingOf(p) ==
    /\ pc[p] \in Applying => task[p].mode = "APPLY"
    /\ pc[p] \in {"verified", "staged", "publishing"} => Changes(p) # << >>
    /\ pc[p] \in {"admitted", "verified", "staged"} => pointer = NoTxn
    /\ pc[p] = "publishing" => pointer = Torn
    /\ pc[p] \in {"staged", "publishing"} \cup Recovering \cup Engaged =>
           /\ task[p].txn \in Txns /\ Changes(p) # << >>
           /\ bundle[task[p].txn].plan = task[p].plan
    /\ pc[p] \in {"staged", "publishing"} =>
           \A r \in Procs \ {p} : pc[r] \in Recovering => task[r].txn # task[p].txn

Standing ==
    /\ \A p \in Procs : StandingOf(p)
    /\ \A t \in Txns : bundle[t] = NoBundle \/ bundle[t].plan.changes # << >>

\* What is known and planned.
Basis == TypeInv /\ LockExclusion /\ PlansSound /\ Standing

\* An invocation that does not hold the lock writes no record and no path; if
\* it goes on with a recovery, then with the one it was at.
LEMMA WaitingWritesNothing ==
    ASSUME TypeInv, NEW p \in Procs, Run(p), pc[p] \notin Holding
    PROVE  /\ UNCHANGED <<disk, pointer, bundle, lateEdits>>
           /\ pc'[p] \in {"idle", "locked", "rlocked"} \cup Recovering
           /\ pc'[p] \in Recovering => pc[p] \in Recovering /\ task'[p] = task[p]
<1> USE DEF files
<1>1. pc \in [Procs -> Waiting \cup Holding]
  BY DEF TypeInv, TypeOK
<1>2. AcquireLock(p) \/ Replan(p) \/ LoadEvidence(p) \/ LockRecovery(p)
  <2>1. ~(AdmitMutation(p) \/ VerifyPlan(p) \/ StageBundle(p) \/ CreatePointer(p))
    BY DEF AdmitMutation, VerifyPlan, StageBundle, CreatePointer, Holding
  <2>2. ~(WritePointer(p) \/ BeginAction(p) \/ PerformCreate(p) \/ CheckUpdate(p))
    BY DEF WritePointer, BeginAction, PerformCreate, CheckUpdate, Publishing, Holding
  <2>3. ~(RenameUpdate(p) \/ PerformDelete(p) \/ MarkApplied(p) \/ VerifyAction(p))
    BY DEF RenameUpdate, PerformDelete, MarkApplied, VerifyAction, Publishing, Holding
  <2>4. ~(FinishActions(p) \/ WriteMigrationReceipt(p) \/ CreateReceipt(p) \/ WriteReceipt(p))
    BY DEF FinishActions, WriteMigrationReceipt, CreateReceipt, WriteReceipt, Holding
  <2>5. ~(ClearPointer(p) \/ Unlock(p) \/ VerifyRecovery(p))
    BY DEF ClearPointer, Unlock, VerifyRecovery, Holding
  <2>6. QED
    BY <2>1, <2>2, <2>3, <2>4, <2>5 DEF Run
<1>3. \A label : Goto(p, label) => pc'[p] = label
  BY <1>1 DEF Goto
<1>4. Leave(p) => pc'[p] = "idle"
  BY <1>3 DEF Leave
<1>5. QED
  BY <1>2, <1>3, <1>4 DEF AcquireLock, Replan, LoadEvidence, LockRecovery, Recovering

\* What the others know outlasts the step of an invocation.
LEMMA OthersStand ==
    ASSUME Basis, NEW p \in Procs, Run(p), NEW r \in Procs \ {p}
    PROVE  StandingOf(r)'
<1>1. /\ TypeInv /\ Alone(p) /\ pc'[r] = pc[r] /\ task'[r] = task[r] /\ StandingOf(r)
      /\ StandingOf(p) /\ TypeOK
  BY RunKeepsTask DEF Basis, Alone, Standing, TypeInv
<1>2. CASE pc[p] \notin Holding
  <2>1. UNCHANGED <<pointer, bundle>>
        /\ (pc'[p] \in Recovering => pc[p] \in Recovering /\ task'[p] = task[p])
    BY <1>1, <1>2, WaitingWritesNothing
  <2>2. \A q \in Procs \ {r} : pc'[q] \in Recovering =>
            pc[q] \in Recovering /\ task'[q] = task[q]
    BY <1>1, <2>1 DEF Alone
  <2>3. QED
    BY <1>1, <2>1, <2>2 DEF StandingOf, Changes
<1>3. CASE pc[p] \in Holding
  <2>1. pc[r] \in {"idle", "approved"} \cup Recovering
    BY <1>1, <1>3 DEF Basis, LockExclusion, Holders, TypeOK, Waiting, Recovering
  <2>2. pc[r] \in Recovering => bundle'[task[r].txn].plan = bundle[task[r].txn].plan
    <3> SUFFICES ASSUME pc[r] \in Recovering
                 PROVE  bundle'[task[r].txn].plan = bundle[task[r].txn].plan
      OBVIOUS
    <3>1. task[r].txn \in Txns /\ bundle[task[r].txn].plan.changes # << >>
      BY <1>1 DEF StandingOf, Changes
    <3>2. task[r].txn \notin Unused
      BY <3>1 DEF Unused, NoBundle, NoPlan
    <3>3. pc[p] = "staged" => task[r].txn # task[p].txn
      BY <1>1 DEF StandingOf
    <3>4. Cleanup(task[p].txn) => \A t \in Txns \ {task[p].txn} : bundle'[t] = bundle[t]
      BY <1>1, OtherBundles
    <3>5. QED
      BY <1>1, <3>1, <3>2, <3>3, <3>4, RunKeepsBundles
  <2>3. QED
    BY <1>1, <2>1, <2>2 DEF StandingOf, Changes, Recovering, Applying, Engaged
<1>4. QED
  BY <1>2, <1>3

\* What an invocation knows when it has moved.
LEMMA MoverStands ==
    ASSUME Basis, NEW p \in Procs, Run(p)
    PROVE  StandingOf(p)'
<1> USE DEF files
<1>1. /\ TypeInv /\ TypeOK /\ StandingOf(p) /\ pc \in [Procs -> Waiting \cup Holding]
      /\ bundle \in [Txns -> Bundle] /\ task \in [Procs -> Task]
  BY DEF Basis, Standing, TypeInv, TypeOK
<1>2. /\ Alone(p)
      /\ \/ pc'[p] = "idle" /\ task'[p] = NoTask
         \/ task'[p].plan = task[p].plan /\ task'[p].mode = task[p].mode
  BY <1>1, RunKeepsTask
<1>3. \A label : Goto(p, label) => pc'[p] = label
  BY <1>1 DEF Goto
<1>4. pc'[p] \in {"idle", "unwinding", "cleared"} => StandingOf(p)'
  BY DEF StandingOf, Applying, Recovering, Engaged
<1>5. ASSUME pc[p] \in {"publishing"} \cup Recovering \cup Engaged,
             pc'[p] \in Recovering \cup Engaged, task'[p].txn = task[p].txn,
             pc'[p] \in {"intent", "marked"} => task[p].mode = "APPLY"
      PROVE  StandingOf(p)'
  <2>1. bundle'[task[p].txn].plan = bundle[task[p].txn].plan
    BY <1>1, <1>5, RunKeepsBundles DEF StandingOf, Recovering, Engaged
  <2>2. task'[p].plan = task[p].plan /\ task'[p].mode = task[p].mode
    BY <1>2, <1>5 DEF Recovering, Engaged
  <2>3. QED
    BY <1>1, <1>5, <2>1, <2>2 DEF StandingOf, Changes, Applying, Recovering, Engaged
<1>6. CASE AcquireLock(p)
  BY <1>1, <1>2, <1>3, <1>4, <1>6
     DEF AcquireLock, Leave, StandingOf, Applying, Recovering, Engaged
<1>7. CASE AdmitMutation(p)
  BY <1>1, <1>2, <1>3, <1>4, <1>7
     DEF AdmitMutation, Refuse, StandingOf, Applying, Recovering, Engaged
<1>8. CASE VerifyPlan(p)
  BY <1>1, <1>2, <1>3, <1>4, <1>8
     DEF VerifyPlan, Refuse, StandingOf, Changes, Applying, Recovering, Engaged
<1>9. CASE StageBundle(p)
  <2>1. CASE Refuse(p)
    BY <1>3, <1>4, <2>1 DEF Refuse
  <2>2. CASE ~Refuse(p)
    <3>1. pc[p] = "verified" /\ pc'[p] = "staged" /\ UNCHANGED pointer
      BY <1>3, <1>9, <2>2 DEF StageBundle
    <3> DEFINE t == task'[p].txn
    <3>2. t \in Unused /\ bundle'[t].plan = task[p].plan
      BY <1>1, <1>9, <2>2, <3>1, StagesFresh
    <3>3. task'[p].plan = task[p].plan /\ task'[p].mode = task[p].mode
      BY <1>2, <3>1
    <3>4. ASSUME NEW r \in Procs \ {p}, pc'[r] \in Recovering
          PROVE  task'[r].txn # t
      <4>1. StandingOf(r) /\ pc[r] \in Recovering /\ task'[r] = task[r]
        BY <1>2, <3>4 DEF Alone, Basis, Standing
      <4>2. bundle[task[r].txn].plan.changes # << >>
        BY <4>1 DEF StandingOf, Changes
      <4>3. QED
        BY <3>2, <4>1, <4>2 DEF Unused, NoBundle, NoPlan
    <3>5. t \in Txns
      BY <3>2 DEF Unused
    <3>6. StandingOf(p) /\ Changes(p) # << >> /\ pointer' = NoTxn
      BY <1>1, <3>1 DEF StandingOf
    <3>7. QED
      BY <1>1, <3>1, <3>2, <3>3, <3>4, <3>5, <3>6
         DEF StandingOf, Changes, Applying, Recovering, Engaged
  <2>3. QED
    BY <2>1, <2>2
<1>10. CASE CreatePointer(p)
  <2>1. CASE pc'[p] = "publishing"
    <3>1. pc[p] = "staged" /\ pointer' = Torn /\ UNCHANGED <<bundle, task>>
      BY <1>3, <1>10, <2>1 DEF CreatePointer
    <3>2. \A r \in Procs \ {p} : pc'[r] = pc[r]
      BY <1>2 DEF Alone
    <3>3. QED
      BY <1>1, <2>1, <3>1, <3>2 DEF StandingOf, Changes, Applying, Recovering, Engaged
  <2>2. CASE pc'[p] # "publishing"
    BY <1>3, <1>4, <1>10, <2>2 DEF CreatePointer
  <2>3. QED
    BY <2>1, <2>2
<1>11. CASE WritePointer(p)
  <2>1. DOMAIN Changes(p) \in SUBSET Nat
    BY <1>1 DEF Task, Plan, Changes
  <2>2. task' = [task EXCEPT ![p].todo = DOMAIN Changes(p)] /\ pc'[p] = "ready"
        /\ pc[p] = "publishing"
    BY <1>3, <1>11 DEF WritePointer
  <2>3. task'[p].txn = task[p].txn
    BY <1>1, <2>1, <2>2, TodoUpdate
  <2>4. QED
    BY <1>5, <2>2, <2>3 DEF Engaged
<1>12. CASE BeginAction(p)
  BY <1>3, <1>4, <1>5, <1>12 DEF BeginAction, Refuse, Engaged
<1>13. CASE PerformCreate(p) \/ CheckUpdate(p) \/ RenameUpdate(p) \/ PerformDelete(p)
  BY <1>3, <1>4, <1>5, <1>13
     DEF PerformCreate, CheckUpdate, RenameUpdate, PerformDelete, Publishing, SetDisk,
         Refuse, Engaged
<1>14. CASE VerifyAction(p)
  <2> DEFINE rest == task[p].todo \ {Current(p)}
  <2>1. CASE Refuse(p)
    BY <1>3, <1>4, <2>1 DEF Refuse
  <2>2. CASE ~Refuse(p)
    <3>1. task' = [task EXCEPT ![p].todo = rest] /\ pc'[p] = "ready" /\ pc[p] \in Engaged
      BY <1>3, <1>14, <2>2 DEF VerifyAction, Engaged
    <3>2. rest \in SUBSET Nat
      BY <1>1 DEF Task
    <3> HIDE DEF rest
    <3>3. task'[p].txn = task[p].txn
      BY <1>1, <3>1, <3>2, TodoUpdate, Zenon
    <3>4. QED
      BY <1>5, <3>1, <3>3 DEF Engaged
  <2>3. QED
    BY <2>1, <2>2
<1>15. CASE MarkApplied(p) \/ FinishActions(p) \/ WriteMigrationReceipt(p)
  BY <1>3, <1>4, <1>5, <1>15 DEF MarkApplied, FinishActions, WriteMigrationReceipt, Refuse, Engaged
<1>16. CASE CreateReceipt(p) \/ WriteReceipt(p) \/ ClearPointer(p) \/ Unlock(p)
  BY <1>3, <1>4, <1>5, <1>16
     DEF CreateReceipt, WriteReceipt, ClearPointer, Unlock, SetReceipt, Leave, Engaged
<1>17. CASE Replan(p) \/ LoadEvidence(p) \/ LockRecovery(p) \/ VerifyRecovery(p)
  BY <1>3, <1>4, <1>5, <1>17
     DEF Replan, LoadEvidence, LockRecovery, VerifyRecovery, Leave, Refuse, Recovering, Engaged
<1>18. QED
  BY <1>6, <1>7, <1>8, <1>9, <1>10, <1>11, <1>12, <1>13, <1>14, <1>15, <1>16, <1>17, Run(p) DEF Run

\* The step of an invocation writes only to bundles that were staged.
LEMMA BundlesStand ==
    ASSUME Basis, NEW p \in Procs, Run(p) \/ Fail(p), NEW t \in Txns
    PROVE  bundle'[t] = NoBundle \/ bundle'[t].plan.changes # << >>
<1>1. /\ TypeInv /\ TypeOK /\ StandingOf(p) /\ task[p].txn \in Txns \cup {NoTxn}
      /\ bundle[t] = NoBundle \/ bundle[t].plan.changes # << >>
      /\ bundle \in [Txns -> Bundle]
  BY DEF Basis, Standing, TypeInv, TypeOK, Task
<1>2. Cleanup(task[p].txn) => bundle'[t] \in {bundle[t], NoBundle}
  BY <1>1 DEF Cleanup
<1>3. CASE Run(p)
  <2>1. CASE pc[p] = "verified" /\ bundle'[task'[p].txn].plan = task[p].plan
             /\ \A u \in Txns \ {task'[p].txn} : bundle'[u] = bundle[u]
    BY <1>1, <2>1 DEF StandingOf, Changes
  <2>2. CASE pc[p] \in Engaged /\ (\A u \in Txns : bundle'[u].plan = bundle[u].plan)
             /\ \A u \in Txns \ {task[p].txn} : bundle'[u] = bundle[u]
    BY <1>1, <2>2 DEF StandingOf, Changes
  <2>3. QED
    BY <1>1, <1>2, <1>3, <2>1, <2>2, RunKeepsBundles
<1>4. CASE Fail(p)
  BY <1>1, <1>2, <1>4 DEF Fail
<1>5. QED
  BY <1>3, <1>4

\* Every step keeps what invocations know.
LEMMA StandingStep ==
    ASSUME Basis, [Next]_vars
    PROVE  Standing'
<1> USE DEF files
<1>0. /\ TypeInv /\ TypeOK /\ Standing /\ pc \in [Procs -> Waiting \cup Holding]
      /\ bundle \in [Txns -> Bundle] /\ task \in [Procs -> Task]
      /\ pointer \in Txns \cup {NoTxn, Torn}
  BY DEF Basis, TypeInv, TypeOK
<1>1. ASSUME NEW p \in Procs, Run(p)
      PROVE  Standing'
  BY <1>1, MoverStands, OthersStand, BundlesStand DEF Standing
<1>2. ASSUME NEW p \in Procs, Recover(p)
      PROVE  Standing'
  <2>1. PICK action \in {"ROLLBACK", "CONTINUE"} : PlanRecovery(p, action)
    BY <1>2 DEF Recover
  <2>2. /\ pc'[p] = "planned" /\ task'[p].plan = LivePlan /\ task'[p].txn = pointer
        /\ \A r \in Procs \ {p} : pc'[r] = pc[r] /\ task'[r] = task[r]
        /\ UNCHANGED <<pointer, bundle>>
    BY <1>0, <2>1 DEF PlanRecovery, Goto
  <2>3. pointer \in Txns /\ bundle[pointer] # NoBundle
    BY <2>1 DEF PlanRecovery, Loadable
  <2>4. LivePlan.changes # << >>
    BY <1>0, <2>3 DEF Standing, LivePlan
  <2>5. StandingOf(p)'
    BY <2>2, <2>3, <2>4 DEF StandingOf, Changes, LivePlan, Applying, Recovering, Engaged
  <2>6. ASSUME NEW r \in Procs \ {p}
        PROVE  StandingOf(r)'
    <3>1. StandingOf(r)
      BY <1>0 DEF Standing
    <3>2. pc[r] \notin {"staged", "publishing"}
      BY <2>3, <3>1, TransactionAssumption DEF StandingOf
    <3>3. QED
      BY <2>2, <3>1, <3>2 DEF StandingOf, Changes
  <2>7. QED
    BY <1>0, <2>2, <2>5, <2>6 DEF Standing
<1>3. ASSUME NEW p \in Procs, Fail(p)
      PROVE  Standing'
  <2>1. /\ pc'[p] = "unwinding" /\ pc[p] \in Holding /\ UNCHANGED task
        /\ \A r \in Procs \ {p} : pc'[r] = pc[r]
        /\ IF pc[p] \in {"staged", "publishing"} THEN Cleanup(task[p].txn) ELSE UNCHANGED bundle
    BY <1>0, <1>3 DEF Fail, Goto
  <2>2. StandingOf(p)'
    BY <2>1 DEF StandingOf, Applying, Recovering, Engaged
  <2>3. ASSUME NEW r \in Procs \ {p}
        PROVE  StandingOf(r)'
    <3>1. pc[r] \in {"idle", "approved"} \cup Recovering /\ StandingOf(r) /\ StandingOf(p)
      BY <1>0, <2>1 DEF Basis, Standing, LockExclusion, Holders, Waiting, Recovering
    <3>2. pc[r] \in Recovering => bundle'[task[r].txn].plan = bundle[task[r].txn].plan
      BY <1>0, <2>1, <3>1, OtherBundles DEF StandingOf
    <3>3. QED
      BY <2>1, <3>1, <3>2 DEF StandingOf, Changes, Recovering, Applying, Engaged
  <2>4. QED
    BY <1>3, <2>2, <2>3, BundlesStand DEF Standing
<1>4. ASSUME NEW p \in Procs, Crash(p) \/ \E op \in Operations : Propose(p, op)
      PROVE  Standing'
  <2>1. /\ pc'[p] \in {"idle", "approved"} /\ (pc'[p] = "approved" => task'[p].mode = "APPLY")
        /\ \A r \in Procs \ {p} : pc'[r] = pc[r] /\ task'[r] = task[r]
        /\ UNCHANGED <<pointer, bundle>>
    <3>1. CASE Crash(p)
      BY <1>0, <3>1 DEF Crash, Leave, Goto
    <3>2. ASSUME NEW op \in Operations, Propose(p, op)
          PROVE  task'[p].mode = "APPLY"
      <4> DEFINE plan == PlanAt(op, disk)
      <4>1. plan \in Plan /\ task' = [task EXCEPT ![p].plan = plan]
        BY <1>0, <3>2, PlanAtType DEF Propose
      <4> HIDE DEF plan
      <4>2. task'[p].mode = task[p].mode
        BY <1>0, <4>1, PlanUpdate, Zenon
      <4>3. task[p].mode = "APPLY"
        BY <1>0, <3>2 DEF Propose, TypeInv, TaskShape, NoTask
      <4>4. QED
        BY <4>2, <4>3
    <3>3. QED
      BY <1>0, <1>4, <3>1, <3>2 DEF Propose, Goto
  <2>2. StandingOf(p)'
    BY <2>1 DEF StandingOf, Applying, Recovering, Engaged
  <2>3. ASSUME NEW r \in Procs \ {p}
        PROVE  StandingOf(r)'
    <3>1. StandingOf(r) /\ pc'[p] \notin Recovering
      BY <1>0, <2>1 DEF Standing, Recovering
    <3>2. QED
      BY <2>1, <3>1 DEF StandingOf, Changes
  <2>4. QED
    BY <1>0, <2>1, <2>2, <2>3 DEF Standing
<1>5. CASE UNCHANGED <<pointer, bundle, pc, task>>
  BY <1>0, <1>5 DEF Standing, StandingOf, Changes
<1>6. QED
  BY <1>1, <1>2, <1>3, <1>4, <1>5 DEF Next, vars, Edit, ClearStaleLock

\* What is known and planned is inductive, whatever is edited.
LEMMA BasisStep ==
    ASSUME Basis, [Next]_vars
    PROVE  Basis'
BY TypeStep, LockStep, PlansStep, StandingStep DEF Basis, TypeInv

\* It holds in an initialised workspace.
LEMMA BasisInit == Init => Basis
<1> SUFFICES ASSUME Init PROVE Basis
  OBVIOUS
<1>1. LockExclusion
  BY DEF Init, LockExclusion, Holders, Holding
<1>2. PlansSound
  BY NoPlanIsCoherent DEF Init, PlansSound, NoTask, NoBundle
<1>3. Standing
  BY DEF Init, Standing, StandingOf, Applying, Recovering, Engaged
<1>4. QED
  BY <1>1, <1>2, <1>3, TypeInit DEF Basis

-----------------------------------------------------------------------------
(* The changes still ahead of an invocation.                               *)

\* A change, performed or undone, creates where nothing is and deletes to nothing.
LEMMA PerformedIsSensible ==
    ASSUME NEW plan \in Plan, Coherent(plan), NEW i \in DOMAIN plan.changes, NEW mode
    PROVE  LET c == Performed(mode, plan.changes, i)
           IN  /\ c.path = plan.changes[i].path /\ c.path \in Paths
               /\ c.before \in Contents /\ c.after \in Contents
               /\ c.kind \in {"CREATE_DIR", "CREATE_FILE"} => c.before = Missing
               /\ c.kind \in {"DELETE_DIR", "DELETE_FILE"} => c.after = Missing
<1>1. plan.changes \in Seq(Change)
  BY DEF Plan
<1>2. plan.changes[i] \in Change
  BY <1>1, SeqElement
<1>3. Sensible(plan.changes[i])
  BY DEF Coherent
<1>4. QED
  BY <1>2, <1>3 DEF Performed, Undo, UndoKind, Sensible, Change, Kinds

\* The indices whose paths the invocation has verified and not yet changed.
Ahead(p) ==
    CASE pc[p] \in {"verified", "staged", "publishing"} -> DOMAIN Changes(p)
      [] pc[p] \in {"ready", "intent", "checked"} -> task[p].todo
      [] pc[p] \in {"performed", "marked"} -> task[p].todo \ {Current(p)}
      [] OTHER -> {}

\* The change that is to be performed there.
Expects(p, i) == Performed(task[p].mode, Changes(p), i)

\* Whatever is ahead has the expected content, unless it was edited since.
Faithful ==
    \A p \in Procs : \A i \in Ahead(p) :
        \/ Expects(p, i).path \in lateEdits
        \/ disk[Expects(p, i).path] = Expects(p, i).before

\* What is ahead is planned.
LEMMA AheadIsPlanned ==
    ASSUME TypeInv, NEW p \in Procs
    PROVE  Ahead(p) \subseteq DOMAIN Changes(p)
BY DEF Ahead, TypeInv, TaskShape

\* Publication is the one step that writes to a path.
LEMMA Publishes ==
    ASSUME Basis, NEW p \in Procs, disk' # disk,
           PerformCreate(p) \/ RenameUpdate(p) \/ PerformDelete(p)
    PROVE  /\ pc[p] \in {"ready", "intent", "checked"} /\ pc'[p] = "performed"
           /\ pc[p] = "ready" => task[p].mode # "APPLY"
           /\ Current(p) \in task[p].todo
           /\ UNCHANGED <<lock, pointer, bundle, task, lateEdits, budget>>
           /\ disk' = [disk EXCEPT ![CurrentChange(p).path] = CurrentChange(p).after]
           /\ pc[p] # "checked" =>
                  \/ disk[CurrentChange(p).path] = CurrentChange(p).before
                  \/ CurrentChange(p).kind \in {"DELETE_FILE", "DELETE_DIR"}
<1> USE DEF files
<1>1. /\ TypeInv /\ pc \in [Procs -> Waiting \cup Holding] /\ task[p].plan \in Plan
      /\ Coherent(task[p].plan)
  BY DEF Basis, TypeInv, TypeOK, Task, PlansSound
<1>2. ~Refuse(p)
  BY DEF Refuse
<1>3. Publishing(p) \/ pc[p] = "checked"
  BY DEF PerformCreate, RenameUpdate, PerformDelete
<1>4. Current(p) \in task[p].todo /\ Current(p) \in DOMAIN Changes(p)
  BY <1>1, <1>3, CurrentIsPending DEF Publishing, TypeInv, TaskShape, InTransit
<1>5. LET c == CurrentChange(p)
      IN  /\ c.kind \in {"CREATE_DIR", "CREATE_FILE"} => c.before = Missing
          /\ c.kind \in {"DELETE_DIR", "DELETE_FILE"} => c.after = Missing
  BY <1>1, <1>4, PerformedIsSensible DEF CurrentChange, Changes
<1>6. QED
  BY <1>1, <1>2, <1>3, <1>4, <1>5
     DEF PerformCreate, RenameUpdate, PerformDelete, SetDisk, Publishing, Goto

\* Steps that neither write to a path nor verify any leave less ahead.
LEMMA StillFaithful ==
    ASSUME Faithful, UNCHANGED <<disk, lateEdits>>,
           \A r \in Procs :
               \/ Ahead(r)' = {}
               \/ /\ Ahead(r)' \subseteq Ahead(r)
                  /\ task'[r].plan = task[r].plan /\ task'[r].mode = task[r].mode
    PROVE  Faithful'
BY DEF Faithful, Expects, Changes

\* An invocation moves on without writing or verifying.
LEMMA AdvanceKeepsFaith ==
    ASSUME Basis, Faithful, NEW p \in Procs, Run(p), UNCHANGED <<disk, lateEdits>>,
           \/ Ahead(p)' = {}
           \/ Ahead(p)' \subseteq Ahead(p) /\ pc'[p] # "idle"
    PROVE  Faithful'
<1>1. /\ Alone(p)
      /\ \/ pc'[p] = "idle" /\ task'[p] = NoTask
         \/ task'[p].plan = task[p].plan /\ task'[p].mode = task[p].mode
  BY RunKeepsTask DEF Basis
<1>2. \A r \in Procs \ {p} : Ahead(r)' = Ahead(r) /\ task'[r] = task[r]
  BY <1>1 DEF Alone, Ahead, Changes, Current
<1>3. QED
  BY <1>1, <1>2, StillFaithful

\* The invocation that holds the lock is the only one with anything ahead.
LEMMA OnlyHoldersAhead ==
    ASSUME Basis, NEW p \in Procs, pc[p] \in Holding, Run(p), NEW r \in Procs \ {p}
    PROVE  Ahead(r)' = {}
<1>1. pc'[r] = pc[r] /\ pc[r] \notin Holding
  BY RunKeepsTask DEF Basis, Alone, LockExclusion, Holders
<1>2. QED
  BY <1>1 DEF Ahead, Holding

\* Publication fulfils one expectation and disturbs no other.
LEMMA PublicationKeepsFaith ==
    ASSUME Basis, Faithful, NEW p \in Procs, Run(p), disk' # disk,
           PerformCreate(p) \/ RenameUpdate(p) \/ PerformDelete(p)
    PROVE  Faithful'
<1>1. /\ pc[p] \in {"ready", "intent", "checked"} /\ pc'[p] = "performed"
      /\ Current(p) \in task[p].todo /\ UNCHANGED <<task, lateEdits>>
      /\ disk' = [disk EXCEPT ![CurrentChange(p).path] = CurrentChange(p).after]
  BY Publishes
<1>2. Ahead(p) = task[p].todo /\ Ahead(p)' = task[p].todo \ {Current(p)}
  BY <1>1 DEF Ahead, Current
<1>3. ASSUME NEW i \in Ahead(p)'
      PROVE  \/ Expects(p, i).path \in lateEdits
             \/ disk'[Expects(p, i).path] = Expects(p, i).before
  <2>1. task[p].plan \in Plan /\ Coherent(task[p].plan) /\ Ahead(p) \subseteq DOMAIN Changes(p)
    BY AheadIsPlanned DEF Basis, TypeInv, TypeOK, Task, PlansSound
  <2>2. Expects(p, i).path = Changes(p)[i].path /\ Expects(p, i).path \in Paths
    BY <1>2, <2>1, PerformedIsSensible DEF Expects, Changes
  <2>3. CurrentChange(p).path = Changes(p)[Current(p)].path
    BY <1>1, <1>2, <2>1, PerformedIsSensible DEF CurrentChange, Changes
  <2>4. Expects(p, i).path # CurrentChange(p).path
    BY <1>1, <1>2, <2>1, <2>2, <2>3 DEF Coherent, Changes
  <2>5. disk'[Expects(p, i).path] = disk[Expects(p, i).path]
    BY <1>1, <2>2, <2>4 DEF Basis, TypeInv, TypeOK
  <2>6. QED
    BY <1>2, <2>5 DEF Faithful
<1>4. \A r \in Procs \ {p} : Ahead(r)' = {}
  BY <1>1, OnlyHoldersAhead DEF Holding
<1>5. QED
  BY <1>1, <1>3, <1>4 DEF Faithful, Expects, Changes

\* A path that passes verification has the expected content.
LEMMA VerifiesExpected ==
    ASSUME NEW change, NEW live, VerifiesBefore(change, live)
    PROVE  live = change.before
BY DEF VerifiesBefore

\* Verification under the lock makes expectations true.
LEMMA VerificationMakesFaith ==
    ASSUME Basis, NEW p \in Procs, Run(p),
           \/ VerifyPlan(p) /\ pc'[p] = "verified"
           \/ VerifyRecovery(p) /\ pc'[p] = "ready"
    PROVE  Faithful'
<1> USE DEF files
<1>1. \A label : Goto(p, label) => pc'[p] = label
  BY DEF Goto, Basis, TypeInv, TypeOK
<1>2. UNCHANGED <<disk, task>> /\ pc[p] \in {"admitted", "rlocked"}
  BY <1>1 DEF VerifyPlan, VerifyRecovery, Refuse
<1>3. \A r \in Procs \ {p} : Ahead(r)' = {}
  BY <1>2, OnlyHoldersAhead DEF Holding
<1>4. ASSUME NEW i \in Ahead(p)'
      PROVE  disk[Expects(p, i).path] = Expects(p, i).before
  <2>1. CASE VerifyPlan(p) /\ pc'[p] = "verified"
    <3>1. task[p].mode = "APPLY"
      BY <2>1 DEF VerifyPlan, Basis, Standing, StandingOf, Applying
    <3>2. i \in DOMAIN Changes(p) /\ Expects(p, i) = Changes(p)[i]
      BY <1>2, <1>4, <2>1, <3>1 DEF Ahead, Changes, Expects, Performed
    <3>3. PlanHolds(task[p].plan)
      BY <1>1, <2>1 DEF VerifyPlan, Refuse
    <3>4. VerifiesBefore(Changes(p)[i], disk[Changes(p)[i].path])
      BY <3>2, <3>3 DEF PlanHolds, Changes
    <3>5. QED
      BY <3>2, <3>4, VerifiesExpected
  <2>2. CASE VerifyRecovery(p) /\ pc'[p] = "ready"
    <3>1. i \in task[p].todo
      BY <1>2, <1>4, <2>2 DEF Ahead
    <3>2. RecoveryHolds(p)
      BY <1>1, <2>2 DEF VerifyRecovery, Refuse
    <3>3. VerifiesBefore(Expects(p, i), disk[Expects(p, i).path])
      BY <3>1, <3>2 DEF RecoveryHolds, Expects
    <3>4. QED
      BY <3>3, VerifiesExpected
  <2>3. QED
    BY <2>1, <2>2
<1>5. QED
  BY <1>2, <1>3, <1>4 DEF Faithful, Expects, Changes

\* Every step of an invocation keeps faith.
LEMMA RunKeepsFaith ==
    ASSUME Basis, Faithful, NEW p \in Procs, Run(p)
    PROVE  Faithful'
<1> USE DEF files
<1>1. /\ TypeInv /\ TypeOK /\ pc \in [Procs -> Waiting \cup Holding]
      /\ task \in [Procs -> Task]
  BY DEF Basis, TypeInv, TypeOK
<1>2. \A label : Goto(p, label) => pc'[p] = label
  BY <1>1 DEF Goto
<1>3. ASSUME pc'[p] \notin {"verified", "staged", "publishing", "ready", "intent", "checked",
                            "performed", "marked"},
             UNCHANGED <<disk, lateEdits>>
      PROVE  Faithful'
  <2>1. Ahead(p)' = {}
    BY <1>3 DEF Ahead
  <2>2. QED
    BY <1>3, <2>1, AdvanceKeepsFaith
<1>4. ASSUME UNCHANGED <<disk, lateEdits, task>>,
             \/ pc[p] = "staged" /\ pc'[p] = "publishing"
             \/ pc[p] \in {"ready", "intent"} /\ pc'[p] \in {"intent", "checked"}
             \/ pc[p] = "performed" /\ pc'[p] = "marked"
      PROVE  Faithful'
  <2>1. Ahead(p)' = Ahead(p)
    BY <1>4 DEF Ahead, Changes, Current
  <2>2. QED
    BY <1>4, <2>1, AdvanceKeepsFaith
<1>5. CASE AcquireLock(p) \/ AdmitMutation(p)
  BY <1>2, <1>3, <1>5 DEF AcquireLock, AdmitMutation, Leave, Refuse
<1>6. CASE VerifyPlan(p) \/ VerifyRecovery(p)
  <2>1. /\ pc[p] \in {"admitted", "rlocked"}
        /\ pc'[p] \in {"cleared", "verified", "ready", "unwinding"}
    BY <1>2, <1>6 DEF VerifyPlan, VerifyRecovery, Refuse
  <2>2. CASE pc'[p] \in {"verified", "ready"}
    BY <1>2, <1>6, <2>2, VerificationMakesFaith DEF VerifyPlan, VerifyRecovery, Refuse
  <2>3. CASE pc'[p] \in {"cleared", "unwinding"}
    <3>1. \A r \in Procs : Ahead(r)' = {}
      BY <2>1, <2>3, OnlyHoldersAhead DEF Ahead, Holding
    <3>2. QED
      BY <3>1 DEF Faithful
  <2>4. QED
    BY <2>1, <2>2, <2>3
<1>7. CASE StageBundle(p)
  <2>1. CASE Refuse(p)
    BY <1>2, <1>3, <1>7, <2>1 DEF StageBundle, Refuse
  <2>2. CASE ~Refuse(p)
    <3>1. pc[p] = "verified" /\ pc'[p] = "staged" /\ UNCHANGED <<disk, lateEdits>>
      BY <1>2, <1>7, <2>2 DEF StageBundle
    <3>2. task'[p].plan = task[p].plan
      BY <1>1, <3>1, RunKeepsTask
    <3>3. Ahead(p)' = Ahead(p)
      BY <3>1, <3>2 DEF Ahead, Changes
    <3>4. QED
      BY <3>1, <3>3, AdvanceKeepsFaith
  <2>3. QED
    BY <2>1, <2>2
<1>8. CASE CreatePointer(p)
  BY <1>2, <1>3, <1>4, <1>8 DEF CreatePointer
<1>9. CASE WritePointer(p)
  <2> DEFINE all == DOMAIN Changes(p)
  <2>1. all \in SUBSET Nat
    BY <1>1 DEF Task, Plan, Changes
  <2>2. task' = [task EXCEPT ![p].todo = all] /\ pc'[p] = "ready"
        /\ pc[p] = "publishing" /\ UNCHANGED <<disk, lateEdits>>
    BY <1>2, <1>9 DEF WritePointer
  <2>3. Ahead(p) = all
    BY <2>2 DEF Ahead
  <2> HIDE DEF all
  <2>4. task'[p].todo = all
    BY <1>1, <2>1, <2>2, TodoUpdate
  <2>5. Ahead(p)' = all
    BY <2>2, <2>4 DEF Ahead
  <2>6. QED
    BY <2>2, <2>3, <2>5, AdvanceKeepsFaith
<1>10. CASE BeginAction(p)
  BY <1>2, <1>3, <1>4, <1>10 DEF BeginAction, Refuse
<1>11. CASE CheckUpdate(p)
  BY <1>2, <1>3, <1>4, <1>11 DEF CheckUpdate, Publishing, Refuse
<1>12. CASE PerformCreate(p) \/ RenameUpdate(p) \/ PerformDelete(p)
  <2>1. CASE disk' # disk
    BY <1>12, <2>1, PublicationKeepsFaith
  <2>2. CASE disk' = disk
    <3>1. UNCHANGED <<disk, lateEdits>>
      BY <1>12, <2>2 DEF PerformCreate, RenameUpdate, PerformDelete
    <3>2. CASE pc'[p] = "unwinding"
      BY <1>3, <3>1, <3>2
    <3>3. CASE pc'[p] # "unwinding"
      <4>1. pc[p] \in {"ready", "intent", "checked"} /\ pc'[p] = "performed" /\ UNCHANGED task
        BY <1>2, <1>12, <3>3
           DEF PerformCreate, RenameUpdate, PerformDelete, Publishing, SetDisk, Refuse
      <4>2. Ahead(p)' \subseteq Ahead(p)
        BY <4>1 DEF Ahead, Current
      <4>3. QED
        BY <3>1, <4>1, <4>2, AdvanceKeepsFaith
    <3>4. QED
      BY <3>2, <3>3
  <2>3. QED
    BY <2>1, <2>2
<1>13. CASE MarkApplied(p)
  BY <1>2, <1>4, <1>13 DEF MarkApplied
<1>14. CASE VerifyAction(p)
  <2> DEFINE rest == task[p].todo \ {Current(p)}
  <2>1. CASE Refuse(p)
    BY <1>2, <1>3, <1>14, <2>1 DEF VerifyAction, Refuse
  <2>2. CASE ~Refuse(p)
    <3>1. /\ task' = [task EXCEPT ![p].todo = rest] /\ pc'[p] = "ready"
          /\ pc[p] \in {"performed", "marked"} /\ UNCHANGED <<disk, lateEdits>>
      BY <1>2, <1>14, <2>2 DEF VerifyAction
    <3>2. rest \in SUBSET Nat /\ Ahead(p) = rest
      BY <1>1, <3>1 DEF Task, Ahead
    <3> HIDE DEF rest
    <3>3. task'[p].todo = rest
      BY <1>1, <3>1, <3>2, TodoUpdate
    <3>4. Ahead(p)' = Ahead(p)
      BY <3>1, <3>2, <3>3 DEF Ahead
    <3>5. QED
      BY <3>1, <3>4, AdvanceKeepsFaith
  <2>3. QED
    BY <2>1, <2>2
<1>15. CASE FinishActions(p) \/ WriteMigrationReceipt(p) \/ CreateReceipt(p) \/ WriteReceipt(p)
  BY <1>2, <1>3, <1>15
     DEF FinishActions, WriteMigrationReceipt, CreateReceipt, WriteReceipt, SetReceipt, Refuse
<1>16. CASE ClearPointer(p) \/ Unlock(p) \/ Replan(p) \/ LoadEvidence(p) \/ LockRecovery(p)
  BY <1>2, <1>3, <1>16 DEF ClearPointer, Unlock, Replan, LoadEvidence, LockRecovery, Leave
<1>17. QED
  BY <1>5, <1>6, <1>7, <1>8, <1>9, <1>10, <1>11, <1>12, <1>13, <1>14, <1>15, <1>16, Run(p) DEF Run

\* Every step keeps faith: what changes outside is a late edit.
LEMMA FaithStep ==
    ASSUME Basis, Faithful, [Next]_vars
    PROVE  Faithful'
<1> USE DEF files
<1>0. /\ pc \in [Procs -> Waiting \cup Holding] /\ task \in [Procs -> Task]
      /\ disk \in [Paths -> Contents]
  BY DEF Basis, TypeInv, TypeOK
<1>1. ASSUME NEW p \in Procs, Run(p)
      PROVE  Faithful'
  BY <1>1, RunKeepsFaith
<1>2. ASSUME NEW p \in Procs,
             Recover(p) \/ Fail(p) \/ Crash(p) \/ \E op \in Operations : Propose(p, op)
      PROVE  Faithful'
  <2>1. /\ pc'[p] \in {"planned", "unwinding", "idle", "approved"}
        /\ \A r \in Procs \ {p} : pc'[r] = pc[r] /\ task'[r] = task[r]
        /\ UNCHANGED <<disk, lateEdits>>
    BY <1>0, <1>2 DEF Recover, PlanRecovery, Fail, Crash, Propose, Leave, Goto
  <2>2. Ahead(p)' = {}
    BY <2>1 DEF Ahead
  <2>3. \A r \in Procs \ {p} : Ahead(r)' = Ahead(r)
    BY <2>1 DEF Ahead, Changes, Current
  <2>4. QED
    BY <2>1, <2>2, <2>3, StillFaithful
<1>3. ASSUME NEW q \in Editable, Edit(q)
      PROVE  Faithful'
  <2>1. /\ UNCHANGED <<pc, task>> /\ lateEdits' = lateEdits \cup {q}
        /\ \A path \in Paths \ {q} : disk'[path] = disk[path]
    BY <1>0, <1>3 DEF Edit
  <2>2. \A r \in Procs : Ahead(r)' = Ahead(r) /\ \A i : Expects(r, i)' = Expects(r, i)
    BY <2>1 DEF Ahead, Changes, Current, Expects
  <2>3. ASSUME NEW r \in Procs, NEW i \in Ahead(r)
        PROVE  Expects(r, i).path \in Paths
    BY <2>3, AheadIsPlanned, PerformedIsSensible
       DEF Basis, TypeInv, TypeOK, Task, PlansSound, Expects, Changes
  <2>4. QED
    BY <2>1, <2>2, <2>3 DEF Faithful
<1>4. CASE UNCHANGED <<disk, lateEdits, pc, task>>
  <2>1. \A r \in Procs : Ahead(r)' = Ahead(r)
    BY <1>4 DEF Ahead, Changes, Current
  <2>2. QED
    BY <1>4, <2>1, StillFaithful
<1>5. QED
  BY <1>1, <1>2, <1>3, <1>4 DEF Next, vars, ClearStaleLock

\* Changes still ahead find what they expect in every reachable state.
LEMMA FaithHolds == Spec => [](Basis /\ Faithful)
<1>1. Init => Basis /\ Faithful
  <2> SUFFICES ASSUME Init PROVE Faithful
    BY BasisInit
  <2>1. QED
    BY DEF Init, Faithful, Ahead
<1>2. Basis /\ Faithful /\ [Next]_vars => Basis' /\ Faithful'
  BY BasisStep, FaithStep
<1>3. QED
  BY <1>1, <1>2, PTL DEF Spec

\* Whatever fails, dies or runs at the same time, UAWP replaces or deletes only
\* contents that it verified, or such as arrived after its verification.
THEOREM EarlyEditsSurvive == Spec => OnlyLateEditsAreLost
<1>1. ASSUME Basis, Faithful, Next, NEW q \in Paths, disk'[q] # disk[q], ~EditStep
      PROVE  disk[q] \in Expected(q) \/ q \in lateEdits
  <2>1. PICK p \in Procs : PerformCreate(p) \/ RenameUpdate(p) \/ PerformDelete(p)
    BY <1>1, OnlyPublicationsWrite DEF Basis
  <2>2. /\ pc[p] \in {"ready", "intent", "checked"} /\ Current(p) \in task[p].todo
        /\ disk' = [disk EXCEPT ![CurrentChange(p).path] = CurrentChange(p).after]
    BY <1>1, <2>1, Publishes
  <2>3. CurrentChange(p).path = q
    BY <1>1, <2>2 DEF Basis, TypeInv, TypeOK
  <2>4. Expects(p, Current(p)) = CurrentChange(p) /\ Current(p) \in Ahead(p)
    BY <2>2 DEF Expects, CurrentChange, Ahead
  <2>5. q \in lateEdits \/ disk[q] = CurrentChange(p).before
    BY <1>1, <2>3, <2>4 DEF Faithful
  <2>6. Changes(p)[Current(p)].path = q
    BY <2>3 DEF CurrentChange, Performed, Undo
  <2>7. CurrentChange(p).before \in Expected(q)
    BY <2>2, <2>6 DEF Expected, CurrentChange, Holders, Holding
  <2>8. QED
    BY <2>5, <2>7
<1>2. Basis /\ Faithful /\ [Next]_vars =>
          [\A q \in Paths :
               disk'[q] # disk[q] /\ ~EditStep => disk[q] \in Expected(q) \/ q \in lateEdits]_vars
  BY <1>1
<1>3. QED
  BY FaithHolds, <1>2, PTL DEF OnlyLateEditsAreLost, Spec

\* A path that classification finds before its change can take the change, one
\* it finds after can take the inverse, unless a directory is involved.
LEMMA MatchesVerify ==
    ASSUME NEW c, NEW live, Sensible(c), c.kind # "CREATE_DIR"
    PROVE  /\ MatchesBefore(c, live) => VerifiesBefore(c, live)
           /\ MatchesAfter(c, live) => VerifiesBefore(Undo(c), live)
<1>1. MatchesBefore(c, live) => VerifiesBefore(c, live)
  BY EvidenceAssumption DEF Sensible, Kinds, MatchesBefore, VerifiesBefore
<1>2. Undo(c).before = c.after
  BY DEF Undo
<1>3. MatchesAfter(c, live) => VerifiesBefore(Undo(c), live)
  BY <1>2, EvidenceAssumption DEF Sensible, Kinds, MatchesAfter, VerifiesBefore
<1>4. QED
  BY <1>1, <1>3

\* If no plan makes a directory, every recovery that status offers passes its
\* own verification as long as the evidence is what it was approved on.
THEOREM OffersAreExecutable == NoDirectories => (Spec => []OfferedRecoveryIsExecutable)
<1> SUFFICES ASSUME NoDirectories PROVE Spec => []OfferedRecoveryIsExecutable
  OBVIOUS
<1>1. ASSUME Basis, NEW p \in Procs, pc[p] = "rlocked", BoundTo(p),
             RecoveryOffered(task[p].mode, Classification),
             Todo(task[p].mode) = task[p].todo
      PROVE  RecoveryHolds(p)
  <2>1. LivePlan = task[p].plan /\ LivePlan \in Plan /\ Coherent(LivePlan)
    BY <1>1 DEF Basis, Standing, StandingOf, Engaged, BoundTo, LivePlan, PlansSound,
                TypeInv, TypeOK, Task
  <2> DEFINE changes == LivePlan.changes
  <2>2. SUFFICES ASSUME NEW i \in task[p].todo
                 PROVE  VerifiesBefore(Performed(task[p].mode, changes, i),
                            disk[Performed(task[p].mode, changes, i).path])
    BY <2>1 DEF RecoveryHolds, Changes
  <2> DEFINE live == disk[changes[i].path]
  <2>3. i \in DOMAIN changes
    BY <1>1, <2>2 DEF Todo, RecoveryIndices, RollbackIndices, ContinueIndices
  <2>4. Sensible(changes[i]) /\ changes[i].kind # "CREATE_DIR"
    BY <2>1, <2>3 DEF Coherent, Sensible
  <2>5. CASE task[p].mode = "ROLLBACK"
    <3>1. ~MatchesBefore(changes[i], live)
      BY <1>1, <2>2, <2>5 DEF Todo, RecoveryIndices, RollbackIndices
    <3>2. Classification = "ROLLBACK_OR_CONTINUE_AVAILABLE"
      BY <1>1, <2>5 DEF RecoveryOffered
    <3>3. MatchesAfter(changes[i], live)
      BY <2>3, <3>1, <3>2 DEF Classification, Classify
    <3>4. Performed(task[p].mode, changes, i) = Undo(changes[i])
      BY <2>5 DEF Performed
    <3>5. Undo(changes[i]).path = changes[i].path
      BY DEF Undo
    <3>6. QED
      BY <2>4, <3>3, <3>4, <3>5, MatchesVerify
  <2>6. CASE task[p].mode # "ROLLBACK"
    <3>1. ~MatchesAfter(changes[i], live)
      BY <1>1, <2>2, <2>6 DEF Todo, RecoveryIndices, ContinueIndices
    <3>2. Classification # "TRANSACTION_COMPLETE"
      BY <2>3, <3>1 DEF Classification, Classify
    <3>3. MatchesBefore(changes[i], live)
      BY <1>1, <2>3, <3>1, <3>2 DEF RecoveryOffered, Classification, Classify
    <3>4. Performed(task[p].mode, changes, i) = changes[i]
      BY <2>6 DEF Performed
    <3>5. QED
      BY <2>4, <3>3, <3>4, MatchesVerify
  <2>7. QED
    BY <2>5, <2>6
<1>2. Basis => OfferedRecoveryIsExecutable
  BY <1>1 DEF OfferedRecoveryIsExecutable
<1>3. QED
  BY FaithHolds, <1>2, PTL
===========================================================================

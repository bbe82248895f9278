----------------------------- MODULE Transaction -----------------------------
(***************************************************************************)
(* UAWP's durable transaction over one initialised workspace: Apply        *)
(* (internal/workspace/apply.go, transaction_apply.go) and the approved    *)
(* rollback or continuation of an interrupted one                          *)
(* (internal/workspace/transaction_recovery.go), run by several CLI        *)
(* invocations that share nothing but the files of the workspace.          *)
(*                                                                         *)
(* Every file is a variable or a component of one: the project's paths     *)
(* (disk), .uawp/TRANSACTION.lock (lock), .uawp/RECOVERY.json (pointer),   *)
(* .uawp/recovery/<id>/{plan,journal,receipt}.json (bundle) and the        *)
(* migration receipt.  A step of an invocation is one system call, or a    *)
(* run of reads whose order nothing else can observe.                      *)
(***************************************************************************)
EXTENDS TransactionEvidence, FiniteSets, FiniteSetsExt

CONSTANTS
    Procs,               \* slots in which CLI invocations run
    Txns,                \* transaction identifiers
    Operations,          \* what users ask for: see Operation
    InitDisks,           \* possible contents of the workspace at first
    Editable,            \* paths that editors outside UAWP write to
    Budget,              \* bounds: ["edit", "fault", "crash" -> Nat]
    ExclusiveRecovery,   \* operators run a recovery alone until it holds the lock
    OperatorClearsLock,  \* an operator deletes a lock file whose owner is gone
    TornFaults           \* faults and crashes also hit between create and write

NoTxn == "NONE"
Torn  == "TORN"          \* a record created but not written: it does not decode

Plan == [changes : Seq(Change),
         inputs : UNION {[S -> Contents] : S \in SUBSET Paths},
         migrates : BOOLEAN]
NoPlan == [changes |-> << >>, inputs |-> << >>, migrates |-> FALSE]

(* An operation names what it wants to do to which path, the paths its     *)
(* approval depends on, whether it carries a migration receipt and whether *)
(* its planner insists on a status without a live transaction.             *)
Operation == [intents : Seq([kind : Kinds \ {"DELETE_DIR"}, path : Paths, after : Contents]),
              inputs : SUBSET Paths, migrates : BOOLEAN, gated : BOOLEAN]

Faults == {"edit", "fault", "crash"}

ASSUME TransactionAssumption ==
    /\ NoTxn \notin Txns /\ Torn \notin Txns
    /\ \A op \in Operations :
           /\ op \in Operation
           /\ \A i, j \in DOMAIN op.intents :
                  op.intents[i].path = op.intents[j].path => i = j
    /\ InitDisks \subseteq [Paths -> Contents]
    /\ Editable \subseteq Paths
    /\ Budget \in [Faults -> Nat]
    /\ {ExclusiveRecovery, OperatorClearsLock, TornFaults} \subseteq BOOLEAN

\* What the constructors of planned changes promise of the state they leave.
ASSUME IntentAssumption ==
    \A op \in Operations : \A i \in DOMAIN op.intents :
        LET intent == op.intents[i]
        IN  /\ intent.kind = "CREATE_DIR" => intent.after = Directory
            /\ intent.kind \in {"CREATE_FILE", "UPDATE_FILE"} => intent.after \in Files
            /\ intent.kind = "DELETE_FILE" => intent.after = Missing

VARIABLES
    disk,              \* contents of every path
    lock,              \* does .uawp/TRANSACTION.lock exist
    pointer,           \* what .uawp/RECOVERY.json says
    bundle,            \* the recovery bundle of every transaction
    migrationReceipt,  \* transaction that wrote the migration receipt file
    pc,                \* where each invocation stands
    task,              \* what each invocation holds in memory
    lateEdits,         \* history: paths edited since the last verification
    budget             \* edits, faults and crashes still to come

files == <<disk, lock, pointer, bundle, migrationReceipt>>
vars == <<files, pc, task, lateEdits, budget>>

-----------------------------------------------------------------------------
Results == {"COMPLETED", "ROLLED_BACK"}

NoBundle == [plan |-> NoPlan, journal |-> << >>, receipt |-> "NONE"]

\* mode: what runs; plan: approved or loaded; view: the journal that the
\* approval is bound to; todo: indices of the actions not yet published.
Task == [mode : {"APPLY", "ROLLBACK", "CONTINUE"}, plan : Plan, txn : Txns \cup {NoTxn},
         view : Seq(ActionStates), todo : SUBSET Nat]
NoTask == [mode |-> "APPLY", plan |-> NoPlan, txn |-> NoTxn, view |-> << >>, todo |-> {}]

Undecided == {"idle", "approved", "planned"}
Waiting == {"idle", "approved", "planned", "replanned", "loaded"}
Holding == {"locked", "admitted", "verified", "staged", "publishing", "ready",
            "intent", "checked", "performed", "marked", "finished", "stamped",
            "receipting", "receipted", "cleared", "unwinding", "rlocked"}

Holders == {p \in Procs : pc[p] \in Holding}

Changes(p) == task[p].plan.changes

Current(p) ==
    IF task[p].mode = "ROLLBACK" THEN Max(task[p].todo) ELSE Min(task[p].todo)

CurrentChange(p) == Performed(task[p].mode, Changes(p), Current(p))

Goto(p, label) == pc' = [pc EXCEPT ![p] = label]

\* The invocation ends and its slot is free for another one.
Leave(p) == Goto(p, "idle") /\ task' = [task EXCEPT ![p] = NoTask]

\* An error return: everything stays, the deferred unlock is still to run.
Refuse(p) == Goto(p, "unwinding") /\ UNCHANGED <<files, task>>

Cleanup(t) == bundle' = [bundle EXCEPT ![t] = NoBundle]

Init ==
    /\ disk \in InitDisks
    /\ lock = FALSE
    /\ pointer = NoTxn
    /\ bundle = [t \in Txns |-> NoBundle]
    /\ migrationReceipt = NoTxn
    /\ pc = [p \in Procs |-> "idle"]
    /\ task = [p \in Procs |-> NoTask]
    /\ lateEdits = {}
    /\ budget = Budget

-----------------------------------------------------------------------------
(* Planning and approval.                                                  *)

Applicable(op, live) ==
    \A i \in DOMAIN op.intents :
        LET intent == op.intents[i]
        IN  IF intent.kind \in {"CREATE_DIR", "CREATE_FILE"}
            THEN live[intent.path] = Missing
            ELSE live[intent.path] \in Files \ {intent.after}

PlanAt(op, live) ==
    [changes |-> [i \in DOMAIN op.intents |->
                     [kind |-> op.intents[i].kind, path |-> op.intents[i].path,
                      before |-> live[op.intents[i].path],
                      after |-> op.intents[i].after]],
     inputs |-> [q \in op.inputs |-> live[q]],
     migrates |-> op.migrates]

\* A user previews an operation and approves exactly the plan shown.
Propose(p, op) ==
    /\ pc[p] = "idle"
    /\ op.gated => pointer = NoTxn
    /\ Applicable(op, disk)
    /\ task' = [task EXCEPT ![p].plan = PlanAt(op, disk)]
    /\ Goto(p, "approved")
    /\ UNCHANGED <<files, lateEdits, budget>>

-----------------------------------------------------------------------------
(* Apply.                                                                  *)

Unused == {t \in Txns : bundle[t] = NoBundle}

\* Mutant: the lock file is created without O_EXCL.
AcquireLockShared(p) ==
    /\ pc[p] = "approved"
    /\ Unused # {}
    /\ lock' = TRUE
    /\ Goto(p, "locked")
    /\ UNCHANGED <<disk, pointer, bundle, migrationReceipt, task, lateEdits, budget>>

\* With ExclusiveRecovery nobody starts while a recovery has decided on its
\* evidence and does not hold the lock yet.
AcquireLock(p) ==
    /\ pc[p] = "approved"
    /\ Unused # {}
    /\ ExclusiveRecovery => \A r \in Procs : pc[r] \notin {"replanned", "loaded"}
    /\ \/ /\ ~lock
          /\ lock' = TRUE
          /\ Goto(p, "locked")
          /\ UNCHANGED task
       \/ /\ lock
          /\ Leave(p)
          /\ UNCHANGED lock
    /\ UNCHANGED <<disk, pointer, bundle, migrationReceipt, lateEdits, budget>>

AdmitMutation(p) ==
    /\ pc[p] = "locked"
    /\ \/ pointer = NoTxn /\ Goto(p, "admitted") /\ UNCHANGED <<files, task>>
       \/ pointer # NoTxn /\ Refuse(p)
    /\ UNCHANGED <<lateEdits, budget>>

\* Mutant: the bound inputs are not verified again under the lock.
PlanHoldsWithoutInputs(plan) ==
    \A i \in DOMAIN plan.changes :
        VerifiesBefore(plan.changes[i], disk[plan.changes[i].path])

PlanHolds(plan) ==
    /\ \A q \in DOMAIN plan.inputs : VerifiesInput(plan.inputs[q], disk[q])
    /\ \A i \in DOMAIN plan.changes :
           VerifiesBefore(plan.changes[i], disk[plan.changes[i].path])

VerifyPlan(p) ==
    /\ pc[p] = "admitted"
    /\ \/ /\ PlanHolds(task[p].plan)
          /\ Goto(p, IF Changes(p) = << >> THEN "cleared" ELSE "verified")
          /\ lateEdits' = {}
          /\ UNCHANGED <<files, task>>
       \/ ~PlanHolds(task[p].plan) /\ Refuse(p) /\ UNCHANGED lateEdits
    /\ UNCHANGED budget

BackupsStaged(changes) ==
    \A i \in DOMAIN changes :
        changes[i].kind \in {"UPDATE_FILE", "DELETE_FILE"} =>
            disk[changes[i].path] = changes[i].before

\* Plan, backups and journal are written to a directory of a fresh
\* transaction that nothing refers to yet.
StageBundle(p) ==
    /\ pc[p] = "verified"
    /\ \/ /\ BackupsStaged(Changes(p))
          /\ \E t \in Unused :
                 /\ bundle' = [bundle EXCEPT ![t] =
                        [plan |-> task[p].plan,
                         journal |-> [i \in DOMAIN Changes(p) |-> "PENDING"],
                         receipt |-> "NONE"]]
                 /\ task' = [task EXCEPT ![p].txn = t]
          /\ Goto(p, "staged")
          /\ UNCHANGED <<disk, lock, pointer, migrationReceipt>>
       \/ ~BackupsStaged(Changes(p)) /\ Refuse(p)
    /\ UNCHANGED <<lateEdits, budget>>

\* RECOVERY.json is created exclusively and then written: two system calls.
CreatePointer(p) ==
    /\ pc[p] = "staged"
    /\ \/ /\ pointer = NoTxn
          /\ pointer' = Torn
          /\ Goto(p, "publishing")
          /\ UNCHANGED bundle
       \/ /\ pointer # NoTxn
          /\ Cleanup(task[p].txn)
          /\ Goto(p, "unwinding")
          /\ UNCHANGED pointer
    /\ UNCHANGED <<disk, lock, migrationReceipt, task, lateEdits, budget>>

\* Mutant: the loop starts before the pointer is written.
WritePointerTooLate(p) ==
    /\ pc[p] = "publishing"
    /\ task' = [task EXCEPT ![p].todo = DOMAIN Changes(p)]
    /\ Goto(p, "ready")
    /\ UNCHANGED <<files, lateEdits, budget>>

\* If somebody removed the file in between, the content goes to an unlinked one.
WritePointer(p) ==
    /\ pc[p] = "publishing"
    /\ pointer' = IF pointer = Torn THEN task[p].txn ELSE pointer
    /\ task' = [task EXCEPT ![p].todo = DOMAIN Changes(p)]
    /\ Goto(p, "ready")
    /\ UNCHANGED <<disk, lock, bundle, migrationReceipt, lateEdits, budget>>

Record(p, state) ==
    bundle' = [bundle EXCEPT ![task[p].txn].journal[Current(p)] = state]

InputsHoldExcept(p) ==
    LET applied == {Changes(p)[i].path : i \in DOMAIN Changes(p) \ task[p].todo}
    IN  \A q \in DOMAIN task[p].plan.inputs \ applied :
            VerifiesInput(task[p].plan.inputs[q], disk[q])

\* The bound inputs that no published action touched are verified again,
\* then the journal announces the action.
BeginAction(p) ==
    /\ pc[p] = "ready" /\ task[p].mode = "APPLY" /\ task[p].todo # {}
    /\ \/ /\ InputsHoldExcept(p)
          /\ Record(p, "IN_PROGRESS")
          /\ Goto(p, "intent")
          /\ UNCHANGED <<disk, lock, pointer, migrationReceipt, task>>
       \/ ~InputsHoldExcept(p) /\ Refuse(p)
    /\ UNCHANGED <<lateEdits, budget>>

-----------------------------------------------------------------------------
(* Publication of one change, shared by Apply and by recovery.             *)

Publishing(p) ==
    \/ pc[p] = "intent"
    \/ pc[p] = "ready" /\ task[p].mode # "APPLY" /\ task[p].todo # {}

SetDisk(p, content) ==
    /\ disk' = [disk EXCEPT ![CurrentChange(p).path] = content]
    /\ Goto(p, "performed")
    /\ UNCHANGED <<lock, pointer, bundle, migrationReceipt, task>>

\* Mkdir and Link create only what is absent.
PerformCreate(p) ==
    /\ Publishing(p)
    /\ CurrentChange(p).kind \in {"CREATE_DIR", "CREATE_FILE"}
    /\ \/ disk[CurrentChange(p).path] = Missing /\ SetDisk(p, CurrentChange(p).after)
       \/ disk[CurrentChange(p).path] # Missing /\ Refuse(p)
    /\ UNCHANGED <<lateEdits, budget>>

\* writeUpdate reads the target once more, then renames over it.
CheckUpdate(p) ==
    /\ Publishing(p)
    /\ CurrentChange(p).kind = "UPDATE_FILE"
    /\ \/ /\ disk[CurrentChange(p).path] = CurrentChange(p).before
          /\ Goto(p, "checked")
          /\ UNCHANGED <<files, task>>
       \/ disk[CurrentChange(p).path] # CurrentChange(p).before /\ Refuse(p)
    /\ UNCHANGED <<lateEdits, budget>>

RenameUpdate(p) ==
    /\ pc[p] = "checked"
    /\ SetDisk(p, CurrentChange(p).after)
    /\ UNCHANGED <<lateEdits, budget>>

\* os.Remove asks only that the target exists.
PerformDelete(p) ==
    /\ Publishing(p)
    /\ CurrentChange(p).kind \in {"DELETE_FILE", "DELETE_DIR"}
    /\ \/ disk[CurrentChange(p).path] # Missing /\ SetDisk(p, Missing)
       \/ disk[CurrentChange(p).path] = Missing /\ Refuse(p)
    /\ UNCHANGED <<lateEdits, budget>>

MarkApplied(p) ==
    /\ pc[p] = "performed" /\ task[p].mode = "APPLY"
    /\ Record(p, "APPLIED")
    /\ Goto(p, "marked")
    /\ UNCHANGED <<disk, lock, pointer, migrationReceipt, task, lateEdits, budget>>

\* The published target is read back; Apply also journals the action.
VerifyAction(p) ==
    LET landed == VerifiesAfter(CurrentChange(p), disk[CurrentChange(p).path])
    IN  /\ \/ pc[p] = "marked"
           \/ pc[p] = "performed" /\ task[p].mode # "APPLY"
        /\ \/ /\ landed
              /\ IF task[p].mode = "APPLY" THEN Record(p, "VERIFIED") ELSE UNCHANGED bundle
              /\ task' = [task EXCEPT ![p].todo = @ \ {Current(p)}]
              /\ Goto(p, "ready")
              /\ UNCHANGED <<disk, lock, pointer, migrationReceipt>>
           \/ ~landed /\ Refuse(p)
        /\ UNCHANGED <<lateEdits, budget>>

-----------------------------------------------------------------------------
(* Completion: migration receipt, transaction receipt, pointer, unlock.    *)

AllAfter(plan) ==
    \A i \in DOMAIN plan.changes :
        VerifiesAfter(plan.changes[i], disk[plan.changes[i].path])

\* Only Apply verifies every path once more.
FinishActions(p) ==
    /\ pc[p] = "ready" /\ task[p].todo = {}
    /\ \/ /\ task[p].mode = "APPLY" => AllAfter(task[p].plan)
          /\ Goto(p, "finished")
          /\ UNCHANGED <<files, task>>
       \/ task[p].mode = "APPLY" /\ ~AllAfter(task[p].plan) /\ Refuse(p)
    /\ UNCHANGED <<lateEdits, budget>>

\* The receipt of a migration carries its completion time, in seconds: an
\* existing one is accepted only if the same plan wrote it in the same second.
WriteMigrationReceipt(p) ==
    LET migrates == task[p].plan.migrates /\ task[p].mode # "ROLLBACK"
        absent == migrationReceipt = NoTxn
        foreign == ~absent /\ bundle[migrationReceipt].plan # task[p].plan
    IN  /\ pc[p] = "finished"
        /\ \/ /\ ~(migrates /\ foreign)
              /\ migrationReceipt' = IF migrates /\ absent THEN task[p].txn ELSE migrationReceipt
              /\ Goto(p, "stamped")
              /\ UNCHANGED <<disk, lock, pointer, bundle, task>>
           \/ migrates /\ ~absent /\ Refuse(p)
        /\ UNCHANGED <<lateEdits, budget>>

\* Mutant: the receipt records the requested action instead of its result.
ResultIsMode(p) == task[p].mode

Result(p) == IF task[p].mode = "ROLLBACK" THEN "ROLLED_BACK" ELSE "COMPLETED"

SetReceipt(p, value, label) ==
    /\ bundle' = [bundle EXCEPT ![task[p].txn].receipt = value]
    /\ Goto(p, label)

\* A first receipt is created exclusively and then written; recovery
\* replaces an existing one in a single rename, Apply refuses it.
CreateReceipt(p) ==
    /\ pc[p] = "stamped"
    /\ \/ bundle[task[p].txn].receipt = "NONE" /\ SetReceipt(p, Torn, "receipting")
       \/ /\ bundle[task[p].txn].receipt # "NONE"
          /\ IF task[p].mode = "APPLY"
             THEN Goto(p, "unwinding") /\ UNCHANGED bundle
             ELSE SetReceipt(p, Result(p), "receipted")
    /\ UNCHANGED <<disk, lock, pointer, migrationReceipt, task, lateEdits, budget>>

WriteReceipt(p) ==
    /\ pc[p] = "receipting"
    /\ SetReceipt(p, Result(p), "receipted")
    /\ UNCHANGED <<disk, lock, pointer, migrationReceipt, task, lateEdits, budget>>

\* The pointer is removed by name, whichever transaction it holds.
ClearPointer(p) ==
    /\ pc[p] = "receipted"
    /\ \/ pointer # NoTxn /\ pointer' = NoTxn /\ Goto(p, "cleared")
       \/ pointer = NoTxn /\ UNCHANGED pointer /\ Goto(p, "unwinding")
    /\ UNCHANGED <<disk, lock, bundle, migrationReceipt, task, lateEdits, budget>>

\* The deferred unlock removes the lock file by name and ignores errors.
Unlock(p) ==
    /\ pc[p] \in {"cleared", "unwinding"}
    /\ lock' = FALSE
    /\ Leave(p)
    /\ UNCHANGED <<disk, pointer, bundle, migrationReceipt, lateEdits, budget>>

-----------------------------------------------------------------------------
(* Recovery of the transaction the pointer names.                          *)

\* loadTransactionSnapshot succeeds on records that exist, decode and agree.
Loadable ==
    /\ pointer \in Txns
    /\ bundle[pointer] # NoBundle /\ bundle[pointer].receipt # Torn

LivePlan == bundle[pointer].plan

Classification == Classify(LivePlan.changes, LivePlan.inputs, disk)

Todo(action) == RecoveryIndices(action, LivePlan.changes, disk)

\* A controller previews a recovery and approves it.
PlanRecovery(p, action) ==
    /\ pc[p] = "idle"
    /\ Loadable
    /\ RecoveryOffered(action, Classification)
    /\ task' = [task EXCEPT ![p] =
                   [mode |-> action, plan |-> LivePlan, txn |-> pointer,
                    view |-> bundle[pointer].journal, todo |-> Todo(action)]]
    /\ Goto(p, "planned")
    /\ UNCHANGED <<files, lateEdits, budget>>

BoundTo(p) ==
    /\ Loadable
    /\ pointer = task[p].txn
    /\ bundle[pointer].journal = task[p].view

\* Mutant: an approval is accepted for whatever the evidence has become.
ReplanUnchecked(p) ==
    /\ pc[p] = "planned"
    /\ ExclusiveRecovery => \A r \in Procs \ {p} : pc[r] \in Undecided
    /\ \/ BoundTo(p) /\ Goto(p, "replanned") /\ UNCHANGED task
       \/ ~BoundTo(p) /\ Leave(p)
    /\ UNCHANGED <<files, lateEdits, budget>>

\* The approving invocation plans again and compares the plan's hash.
Replan(p) ==
    LET same == /\ BoundTo(p)
                /\ RecoveryOffered(task[p].mode, Classification)
                /\ Todo(task[p].mode) = task[p].todo
    IN  /\ pc[p] = "planned"
        /\ ExclusiveRecovery => \A r \in Procs \ {p} : pc[r] \in Undecided
        /\ \/ same /\ Goto(p, "replanned") /\ UNCHANGED task
           \/ ~same /\ Leave(p)
        /\ UNCHANGED <<files, lateEdits, budget>>

\* ApplyTransactionRecovery loads the evidence before it takes the lock.
LoadEvidence(p) ==
    /\ pc[p] = "replanned"
    /\ \/ BoundTo(p) /\ Goto(p, "loaded") /\ UNCHANGED task
       \/ ~BoundTo(p) /\ Leave(p)
    /\ UNCHANGED <<files, lateEdits, budget>>

LockRecovery(p) ==
    /\ pc[p] = "loaded"
    /\ \/ ~lock /\ lock' = TRUE /\ Goto(p, "rlocked") /\ UNCHANGED task
       \/ lock /\ Leave(p) /\ UNCHANGED lock
    /\ UNCHANGED <<disk, pointer, bundle, migrationReceipt, lateEdits, budget>>

\* Mutant: nothing is verified once the lock is held.
RecoveryHoldsAlways(p) == TRUE

\* Only the paths this recovery is about to change are verified.
RecoveryHolds(p) ==
    \A i \in task[p].todo :
        LET change == Performed(task[p].mode, Changes(p), i)
        IN  VerifiesBefore(change, disk[change.path])

VerifyRecovery(p) ==
    /\ pc[p] = "rlocked"
    /\ \/ /\ RecoveryHolds(p)
          /\ Goto(p, "ready")
          /\ lateEdits' = {}
          /\ UNCHANGED <<files, task>>
       \/ ~RecoveryHolds(p) /\ Refuse(p) /\ UNCHANGED lateEdits
    /\ UNCHANGED budget

-----------------------------------------------------------------------------
(* Faults of the environment.                                              *)

Spend(what) == budget[what] > 0 /\ budget' = [budget EXCEPT ![what] = @ - 1]

MayStop(p) == pc[p] \in {"publishing", "receipting"} => TornFaults

\* Mutant: a failing invocation clears the pointer on its way out.
FailClearsPointer(p) ==
    /\ pc[p] \in Holding \ {"cleared", "unwinding"}
    /\ MayStop(p)
    /\ Spend("fault")
    /\ IF pc[p] \in {"staged", "publishing"} THEN Cleanup(task[p].txn) ELSE UNCHANGED bundle
    /\ pointer' = NoTxn
    /\ Goto(p, "unwinding")
    /\ UNCHANGED <<disk, lock, migrationReceipt, task, lateEdits>>

\* A system call of the lock's holder fails.  Until the pointer is synced the
\* staged bundle is removed, even if it is the sync that failed and the
\* pointer has its content; afterwards everything is left in place.
Fail(p) ==
    /\ pc[p] \in Holding \ {"cleared", "unwinding"}
    /\ MayStop(p)
    /\ Spend("fault")
    /\ IF pc[p] \in {"staged", "publishing"} THEN Cleanup(task[p].txn) ELSE UNCHANGED bundle
    /\ \/ UNCHANGED pointer
       \/ pc[p] = "publishing" /\ pointer = Torn /\ pointer' = task[p].txn
    /\ Goto(p, "unwinding")
    /\ UNCHANGED <<disk, lock, migrationReceipt, task, lateEdits>>

\* The process dies: no deferred function runs.
Crash(p) ==
    /\ pc[p] # "idle"
    /\ MayStop(p)
    /\ Spend("crash")
    /\ Leave(p)
    /\ UNCHANGED <<files, lateEdits>>

\* A program other than UAWP writes or deletes a file of the project.
Edit(q) ==
    /\ disk[q] # Directory
    /\ Spend("edit")
    /\ \E content \in (Files \cup {Missing}) \ {disk[q]} : disk' = [disk EXCEPT ![q] = content]
    /\ lateEdits' = lateEdits \cup {q}
    /\ UNCHANGED <<lock, pointer, bundle, migrationReceipt, pc, task>>

\* Nothing in UAWP removes the lock of a dead process; an operator may.
ClearStaleLock ==
    /\ OperatorClearsLock
    /\ lock
    /\ Holders = {}
    /\ lock' = FALSE
    /\ UNCHANGED <<disk, pointer, bundle, migrationReceipt, pc, task, lateEdits, budget>>

-----------------------------------------------------------------------------
\* What an invocation does by itself once it has been approved.
Run(p) ==
    \/ AcquireLock(p) \/ AdmitMutation(p) \/ VerifyPlan(p) \/ StageBundle(p)
    \/ CreatePointer(p) \/ WritePointer(p) \/ BeginAction(p)
    \/ PerformCreate(p) \/ CheckUpdate(p) \/ RenameUpdate(p) \/ PerformDelete(p)
    \/ MarkApplied(p) \/ VerifyAction(p) \/ FinishActions(p)
    \/ WriteMigrationReceipt(p) \/ CreateReceipt(p) \/ WriteReceipt(p)
    \/ ClearPointer(p) \/ Unlock(p)
    \/ Replan(p) \/ LoadEvidence(p) \/ LockRecovery(p) \/ VerifyRecovery(p)

Recover(p) == \E action \in {"ROLLBACK", "CONTINUE"} : PlanRecovery(p, action)

Next ==
    \/ \E p \in Procs : Run(p) \/ Recover(p) \/ Fail(p) \/ Crash(p)
    \/ \E p \in Procs, op \in Operations : Propose(p, op)
    \/ \E q \in Editable : Edit(q)
    \/ ClearStaleLock

Spec == Init /\ [][Next]_vars

-----------------------------------------------------------------------------
(* Correctness.                                                            *)

Bundle == [plan : Plan, journal : Seq(ActionStates), receipt : Results \cup {"NONE", Torn}]

\* Every file and every invocation's memory keeps its shape.
TypeOK ==
    /\ disk \in [Paths -> Contents]
    /\ lock \in BOOLEAN
    /\ pointer \in Txns \cup {NoTxn, Torn}
    /\ bundle \in [Txns -> Bundle]
    /\ migrationReceipt \in Txns \cup {NoTxn}
    /\ pc \in [Procs -> Waiting \cup Holding]
    /\ task \in [Procs -> Task]
    /\ lateEdits \subseteq Paths
    /\ budget \in [Faults -> Nat]

\* At most one invocation is between taking and removing the lock file, and
\* the file exists all that time: an O_EXCL create, early returns and an
\* unlock that removes by name never let a second one in.
LockExclusion ==
    /\ \A p, q \in Holders : p = q
    /\ Holders # {} => lock

Started(t) == \E i \in DOMAIN bundle[t].journal : bundle[t].journal[i] # "PENDING"

\* A transaction that announced its first action stays the one RECOVERY.json
\* names until a receipt says how it ended: no failure, crash or concurrent
\* invocation makes UAWP forget an unresolved transaction.
NoLostTransaction ==
    \A t \in Txns : Started(t) /\ bundle[t].receipt \notin Results => pointer = t

\* Whatever step a failure or a crash hits, the evidence left behind supports
\* a recovery: transaction status never answers MANUAL_RECOVERY_REQUIRED
\* unless another program changed the files.
AlwaysRecoverable ==
    pointer \in Txns /\ Holders = {} /\ budget["edit"] = Budget["edit"] =>
        Loadable /\ Classification # "MANUAL_RECOVERY_REQUIRED"

AllBefore(plan) ==
    \A i \in DOMAIN plan.changes : disk[plan.changes[i].path] = plan.changes[i].before

Truthful(t) ==
    \/ bundle[t].receipt = "COMPLETED" /\ AllAfter(bundle[t].plan)
    \/ bundle[t].receipt = "ROLLED_BACK" /\ AllBefore(bundle[t].plan)

\* RECOVERY.json stops naming a transaction only when its receipt is written
\* and every one of its paths is in the state that the receipt claims.
SettlesTruthfully ==
    [][pointer' # pointer /\ pointer \in Txns => Truthful(pointer)]_vars

EditStep == budget'["edit"] # budget["edit"]

\* UAWP publishes a change only while RECOVERY.json names the transaction
\* the change belongs to, so an interruption right after it is diagnosed.
MutatesUnderPointer ==
    [][disk' # disk /\ ~EditStep => \E p \in Holders : pointer = task[p].txn]_vars

\* The contents that pending publications of q are entitled to replace.
Expected(q) ==
    UNION {{Performed(task[p].mode, Changes(p), i).before :
                i \in {j \in task[p].todo : Changes(p)[j].path = q}} : p \in Holders}

\* An edit made by another program before the lock holder verified its plan
\* is never overwritten or deleted; only an edit that races with the
\* publication itself can be.
OnlyLateEditsAreLost ==
    [][\A q \in Paths :
           disk'[q] # disk[q] /\ ~EditStep => disk[q] \in Expected(q) \/ q \in lateEdits]_vars

\* A record torn by a crash hides no half-done work: while RECOVERY.json
\* cannot be decoded no transaction is unresolved, and a torn receipt belongs
\* to a transaction whose paths are all after or all before.
TornRecordsAreHarmless ==
    /\ pointer = Torn => \A t \in Txns : Started(t) => bundle[t].receipt \in Results
    /\ \A t \in Txns :
           bundle[t].receipt = Torn => AllAfter(bundle[t].plan) \/ AllBefore(bundle[t].plan)

\* A recovery approved on evidence that still stands when it holds the lock
\* passes its own verification: what transaction status offers can be done.
OfferedRecoveryIsExecutable ==
    \A p \in Procs :
        /\ pc[p] = "rlocked" /\ BoundTo(p)
        /\ RecoveryOffered(task[p].mode, Classification)
        /\ Todo(task[p].mode) = task[p].todo
        => RecoveryHolds(p)

-----------------------------------------------------------------------------
(* Why no transaction is lost: the inductive invariant behind it.          *)

\* Places in which an invocation works on the transaction RECOVERY.json names.
Engaged == {"rlocked", "ready", "intent", "checked", "performed", "marked",
            "finished", "stamped", "receipting", "receipted"}

Untouched(t) == t \in Txns /\ ~Started(t) /\ bundle[t].receipt = "NONE"

PointerOf(p) ==
    /\ pc[p] \in Engaged \cup {"replanned", "loaded"} =>
           task[p].txn \in Txns /\ pointer = task[p].txn
    /\ pc[p] \in {"replanned", "loaded"} => \A r \in Procs \ {p} : pc[r] \in Undecided
    /\ pc[p] \in {"admitted", "verified", "staged"} => pointer = NoTxn
    /\ pc[p] = "publishing" => pointer = Torn
    /\ pc[p] \in {"staged", "publishing"} => Untouched(task[p].txn)
    /\ pc[p] = "receipted" => bundle[task[p].txn].receipt \in Results

\* When recoveries are exclusive, every invocation knows what RECOVERY.json
\* says from its own place and memory: the file is removed only by the one
\* that has just written the receipt of the transaction it names.
PointerDiscipline == (\A p \in Procs : PointerOf(p)) /\ NoLostTransaction

-----------------------------------------------------------------------------
(* Liveness.  An approved invocation runs until it ends, controllers keep  *)
(* attempting the recovery of a live transaction, and operators who clear  *)
(* stale locks do so eventually.  Proposals, edits, faults and crashes are *)
(* not fair: they need never happen.                                       *)

Fairness ==
    /\ \A p \in Procs : WF_vars(Run(p)) /\ WF_vars(Recover(p))
    /\ WF_vars(ClearStaleLock)

FairSpec == Spec /\ Fairness

\* Every transaction that becomes live is resolved.
EveryTransactionResolves == \A t \in Txns : (pointer = t) ~> (pointer # t)
=============================================================================

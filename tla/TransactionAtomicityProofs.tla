-------------------- MODULE TransactionAtomicityProofs --------------------
(***************************************************************************)
(* Where nobody edits the paths of a plan and recoveries are exclusive,    *)
(* Transaction implements AtomicWorkspace, receipts tell the truth and     *)
(* torn records hide nothing, for every instance; where records cannot     *)
(* tear either, every interruption can be recovered from.                  *)
(*                                                                         *)
(* Atomicity is the inductive part that Inv and Basis lack: an invocation  *)
(* that holds the lock knows which changes are done, that the inputs it    *)
(* verified still hold until it publishes its plan, and which receipt it   *)
(* has written.                                                            *)
(***************************************************************************)
EXTENDS TransactionEditsProofs, TransactionRefinement

\* Recoveries are exclusive and no other program edits the paths of a plan.
Undisturbed == ExclusiveRecovery /\ Editable = {}

\* Where an invocation relies on the transaction that the pointer names.
Deciding == Engaged \cup {"replanned", "loaded"}

\* The indices whose change is not published yet.
Remaining(p) ==
    CASE pc[p] \in {"performed", "marked"} -> task[p].todo \ {Current(p)}
      [] pc[p] \in {"finished", "stamped", "receipting", "receipted"} -> {}
      [] OTHER -> task[p].todo

\* The path is as the invocation means to leave it.
Reached(p, i) == disk[Expects(p, i).path] = Expects(p, i).after

\* What does not remain is done.
Progressed(p) ==
    pc[p] \in Deciding => \A i \in DOMAIN Changes(p) \ Remaining(p) : Reached(p, i)

\* Until a plan is published, the inputs that its approval depends on hold.
Fresh(p) ==
    pc[p] \in {"verified", "staged", "publishing"} =>
        \A q \in DOMAIN task[p].plan.inputs : disk[q] = task[p].plan.inputs[q]

\* The receipt is not torn while actions are performed, and tells the result
\* before the pointer is removed.
Receipted(p) ==
    /\ pc[p] = "receipted" => bundle[task[p].txn].receipt = Result(p)
    /\ pc[p] \in Deciding \ {"receipting", "receipted"} =>
           bundle[task[p].txn].receipt # Torn

\* What an invocation relies on while others may step.
Knows(p) == Progressed(p) /\ Fresh(p) /\ Receipted(p)

\* A torn receipt belongs to the transaction the pointer names, all of whose
\* paths are as before or as after.
TornReceiptsAreLive ==
    \A t \in Txns :
        bundle[t].receipt = Torn =>
            pointer = t /\ (AllAfter(bundle[t].plan) \/ AllBefore(bundle[t].plan))

\* Nobody is wrong about the files, and no edit came in between.
Atomicity == (\A p \in Procs : Knows(p)) /\ TornReceiptsAreLive /\ lateEdits = {}

\* The whole inductive invariant.
Whole == Inv /\ Basis /\ Atomicity

\* While an invocation holds the lock, the others have not decided anything.
LEMMA HolderIsAlone ==
    ASSUME Inv, NEW p \in Procs, pc[p] \in Holding, NEW r \in Procs \ {p}
    PROVE  pc[r] \in Undecided
<1>1. pc[r] \in Waiting \cup Holding
  BY DEF Inv, TypeInv, TypeOK
<1>2. pc[r] \notin Holding
  BY DEF Inv, LockExclusion, Holders
<1>3. pc[r] \notin {"replanned", "loaded"}
  <2>1. pc[r] \in {"replanned", "loaded"} => pc[p] \in Undecided
    BY DEF Inv, PointerDiscipline, PointerOf
  <2>2. QED
    BY <2>1 DEF Holding, Undecided
<1>4. QED
  BY <1>1, <1>2, <1>3 DEF Waiting, Undecided

\* Who has not decided anything knows nothing that could become false.
LEMMA UndecidedKnows ==
    ASSUME NEW r \in Procs, pc'[r] \in Undecided \cup {"unwinding", "locked", "admitted", "cleared"}
    PROVE  Knows(r)'
BY DEF Knows, Progressed, Fresh, Receipted, Deciding, Engaged, Undecided

\* What an invocation knows lasts as long as its place, its memory and the files.
LEMMA StillKnows ==
    ASSUME NEW r \in Procs, Knows(r), pc'[r] = pc[r], task'[r] = task[r],
           UNCHANGED <<disk, bundle>>
    PROVE  Knows(r)'
<1>1. \A i : Reached(r, i)' = Reached(r, i)
  BY DEF Reached, Expects, Changes
<1>2. Remaining(r)' = Remaining(r)
  BY DEF Remaining, Current
<1>3. QED
  BY <1>1, <1>2 DEF Knows, Progressed, Fresh, Receipted, Changes, Result

\* What the others know outlasts the step of an invocation.
LEMMA OthersKnow ==
    ASSUME Whole, NEW p \in Procs, Run(p), NEW r \in Procs \ {p}
    PROVE  Knows(r)'
<1>1. pc'[r] = pc[r] /\ task'[r] = task[r] /\ Knows(r)
  BY RunKeepsTask DEF Whole, Basis, Alone, Atomicity
<1>2. CASE pc[p] \in Holding
  BY <1>1, <1>2, HolderIsAlone, UndecidedKnows DEF Whole
<1>3. CASE pc[p] \notin Holding
  BY <1>1, <1>3, WaitingWritesNothing, StillKnows DEF Whole, Basis
<1>4. QED
  BY <1>2, <1>3

-----------------------------------------------------------------------------
(* The actions.                                                            *)

\* Publication leaves its path as planned and every other one alone.
LEMMA PublicationReaches ==
    ASSUME Whole, NEW p \in Procs, Run(p), pc'[p] = "performed"
    PROVE  /\ pc[p] \in {"ready", "intent", "checked"}
           /\ Current(p) \in task[p].todo /\ UNCHANGED <<pointer, bundle, task>>
           /\ disk' = [disk EXCEPT ![CurrentChange(p).path] = CurrentChange(p).after]
<1> USE DEF files
<1>1. /\ TypeInv /\ pc \in [Procs -> Waiting \cup Holding]
  BY DEF Whole, Basis, TypeInv, TypeOK
<1>2. \A label : Goto(p, label) => pc'[p] = label
  BY <1>1 DEF Goto
<1>3. PerformCreate(p) \/ RenameUpdate(p) \/ PerformDelete(p)
  <2>1. ~(AcquireLock(p) \/ AdmitMutation(p) \/ VerifyPlan(p) \/ StageBundle(p)
          \/ CreatePointer(p) \/ WritePointer(p) \/ BeginAction(p) \/ CheckUpdate(p))
    BY <1>2 DEF AcquireLock, AdmitMutation, VerifyPlan, StageBundle, CreatePointer,
                WritePointer, BeginAction, CheckUpdate, Refuse, Leave
  <2>2. ~(MarkApplied(p) \/ VerifyAction(p) \/ FinishActions(p)
          \/ WriteMigrationReceipt(p) \/ CreateReceipt(p) \/ WriteReceipt(p)
          \/ ClearPointer(p) \/ Unlock(p))
    BY <1>2 DEF MarkApplied, VerifyAction, FinishActions, WriteMigrationReceipt, SetReceipt,
                CreateReceipt, WriteReceipt, ClearPointer, Unlock, Refuse, Leave
  <2>3. ~(Replan(p) \/ LoadEvidence(p) \/ LockRecovery(p) \/ VerifyRecovery(p))
    BY <1>2 DEF Replan, LoadEvidence, LockRecovery, VerifyRecovery, Refuse, Leave
  <2>4. QED
    BY <2>1, <2>2, <2>3 DEF Run
<1>4. ~Refuse(p)
  BY <1>2 DEF Refuse
<1>5. Publishing(p) \/ pc[p] = "checked"
  BY <1>3 DEF PerformCreate, RenameUpdate, PerformDelete
<1>6. Current(p) \in task[p].todo /\ Current(p) \in DOMAIN Changes(p)
  BY <1>1, <1>5, CurrentIsPending DEF Publishing, TypeInv, TaskShape, InTransit
<1>7. CurrentChange(p).kind \in {"DELETE_DIR", "DELETE_FILE"} => CurrentChange(p).after = Missing
  <2>1. task[p].plan \in Plan /\ Coherent(task[p].plan)
    BY DEF Whole, Basis, PlansSound, TypeInv, TypeOK, Task
  <2>2. QED
    BY <1>6, <2>1, PerformedIsSensible DEF CurrentChange, Changes
<1>8. QED
  BY <1>3, <1>4, <1>5, <1>6, <1>7
     DEF PerformCreate, RenameUpdate, PerformDelete, SetDisk, Publishing

\* What is not to be done any more, by the evidence a recovery is planned on,
\* is done.
LEMMA EvidenceReaches ==
    ASSUME Whole, NEW p \in Procs, NEW i \in DOMAIN Changes(p) \ task[p].todo,
           BoundTo(p), Todo(task[p].mode) = task[p].todo, pc[p] = "planned"
    PROVE  Reached(p, i)
<1> DEFINE c == Changes(p)[i]
           live == disk[c.path]
<1>1. LivePlan = task[p].plan /\ LivePlan.changes = Changes(p) /\ Sensible(c)
  BY DEF Whole, Basis, Standing, StandingOf, Recovering, BoundTo, LivePlan, PlansSound,
         Coherent, Changes
<1>2. CASE task[p].mode = "ROLLBACK"
  <2>1. MatchesBefore(c, live)
    BY <1>1, <1>2 DEF Todo, RecoveryIndices, RollbackIndices
  <2>2. live = c.before
    BY <1>1, <2>1 DEF MatchesBefore, Sensible, Kinds
  <2>3. QED
    BY <1>2, <2>2 DEF Reached, Expects, Performed, Undo
<1>3. CASE task[p].mode # "ROLLBACK"
  <2>1. MatchesAfter(c, live)
    BY <1>1, <1>3 DEF Todo, RecoveryIndices, ContinueIndices
  <2>2. live = c.after
    BY <1>1, <2>1 DEF MatchesAfter, Sensible, Kinds
  <2>3. QED
    BY <1>3, <2>2 DEF Reached, Expects, Performed
<1>4. QED
  BY <1>2, <1>3

\* What an invocation does not find left to do it finds done.
LEMMA MoverProgresses ==
    ASSUME Whole, NEW p \in Procs, Run(p)
    PROVE  Progressed(p)'
<1> USE DEF files
<1>1. /\ TypeInv /\ TypeOK /\ pc \in [Procs -> Waiting \cup Holding] /\ task \in [Procs -> Task]
      /\ disk \in [Paths -> Contents]
      /\ task[p].todo \subseteq DOMAIN Changes(p) /\ Progressed(p)
  BY DEF Whole, Basis, TypeInv, TypeOK, TaskShape, Atomicity, Knows
<1>2. \A label : Goto(p, label) => pc'[p] = label
  BY <1>1 DEF Goto
<1>3. pc'[p] # "idle" => task'[p].plan = task[p].plan /\ task'[p].mode = task[p].mode
  BY <1>1, RunKeepsTask
<1>4. pc'[p] \notin Deciding => Progressed(p)'
  BY DEF Progressed
<1>5. ASSUME pc[p] \in Deciding, pc'[p] # "idle", UNCHANGED disk,
             Remaining(p) \subseteq Remaining(p)'
      PROVE  Progressed(p)'
  <2>1. \A i : Reached(p, i)' = Reached(p, i)
    BY <1>3, <1>5 DEF Reached, Expects, Changes
  <2>2. QED
    BY <1>1, <1>3, <1>5, <2>1 DEF Progressed, Changes
<1>6. CASE AcquireLock(p) \/ AdmitMutation(p) \/ VerifyPlan(p) \/ CreatePointer(p)
  BY <1>2, <1>4, <1>6
     DEF AcquireLock, AdmitMutation, VerifyPlan, CreatePointer, Leave, Refuse, Deciding, Engaged
<1>7. CASE StageBundle(p)
  BY <1>2, <1>4, <1>7 DEF StageBundle, Refuse, Deciding, Engaged
<1>8. CASE WritePointer(p)
  <2> DEFINE all == DOMAIN Changes(p)
  <2>1. all \in SUBSET Nat
    BY <1>1 DEF Task, Plan, Changes
  <2>2. task' = [task EXCEPT ![p].todo = all] /\ pc'[p] = "ready"
    BY <1>2, <1>8 DEF WritePointer
  <2>3. all' = all
    BY <1>3, <2>2 DEF Changes
  <2> HIDE DEF all
  <2>4. task'[p].todo = all
    BY <1>1, <2>1, <2>2, TodoUpdate
  <2>5. Remaining(p)' = all
    BY <2>2, <2>4 DEF Remaining
  <2>6. QED
    BY <2>3, <2>5 DEF Progressed, all
<1>9. CASE BeginAction(p) \/ CheckUpdate(p) \/ MarkApplied(p)
  BY <1>2, <1>4, <1>5, <1>9
     DEF BeginAction, CheckUpdate, MarkApplied, Publishing, Refuse, Deciding, Engaged,
         Remaining, Current, Changes
<1>10. CASE PerformCreate(p) \/ RenameUpdate(p) \/ PerformDelete(p)
  <2>1. CASE pc'[p] # "performed"
    BY <1>2, <1>4, <1>10, <2>1
       DEF PerformCreate, RenameUpdate, PerformDelete, SetDisk, Refuse, Deciding, Engaged
  <2>2. CASE pc'[p] = "performed"
    <3>1. /\ pc[p] \in {"ready", "intent", "checked"}
          /\ Current(p) \in task[p].todo /\ UNCHANGED task
          /\ disk' = [disk EXCEPT ![CurrentChange(p).path] = CurrentChange(p).after]
      BY <2>2, PublicationReaches
    <3>2. Remaining(p) = task[p].todo /\ Remaining(p)' = task[p].todo \ {Current(p)}
          /\ pc[p] \in Deciding
      BY <2>2, <3>1 DEF Remaining, Current, Deciding, Engaged
    <3>3. task[p].plan \in Plan /\ Coherent(task[p].plan)
      BY <1>1 DEF Whole, Basis, PlansSound, Task
    <3>4. ASSUME NEW i \in DOMAIN Changes(p) \ Remaining(p)'
          PROVE  disk'[Expects(p, i).path] = Expects(p, i).after
      <4>1. Expects(p, i).path = Changes(p)[i].path /\ Expects(p, i).path \in Paths
        BY <3>3, <3>4, PerformedIsSensible DEF Expects, Changes
      <4>2. CASE i = Current(p)
        BY <1>1, <3>1, <4>1, <4>2 DEF Expects, CurrentChange
      <4>3. CASE i # Current(p)
        <5>1. CurrentChange(p).path = Changes(p)[Current(p)].path
          BY <1>1, <3>1, <3>3, PerformedIsSensible DEF CurrentChange, Changes
        <5>2. Changes(p)[i].path # Changes(p)[Current(p)].path
          BY <1>1, <3>1, <3>3, <3>4, <4>3 DEF Coherent, Changes
        <5>3. disk'[Expects(p, i).path] = disk[Expects(p, i).path]
          BY <1>1, <3>1, <4>1, <5>1, <5>2
        <5>4. Reached(p, i)
          BY <1>1, <3>2, <3>4, <4>3 DEF Progressed
        <5>5. QED
          BY <5>3, <5>4 DEF Reached
      <4>4. QED
        BY <4>2, <4>3
    <3>5. QED
      BY <3>1, <3>4 DEF Progressed, Reached, Expects, Changes
  <2>3. QED
    BY <2>1, <2>2
<1>11. CASE VerifyAction(p)
  <2> DEFINE rest == task[p].todo \ {Current(p)}
  <2>1. CASE Refuse(p)
    BY <1>2, <1>4, <2>1 DEF Refuse, Deciding, Engaged
  <2>2. CASE ~Refuse(p)
    <3>1. /\ task' = [task EXCEPT ![p].todo = rest] /\ pc'[p] = "ready"
          /\ pc[p] \in {"performed", "marked"} /\ UNCHANGED disk
      BY <1>2, <1>11, <2>2 DEF VerifyAction
    <3>2. rest \in SUBSET Nat /\ Remaining(p) = rest
      BY <1>1, <3>1 DEF Task, Remaining
    <3> HIDE DEF rest
    <3>3. task'[p].todo = rest
      BY <1>1, <3>1, <3>2, TodoUpdate
    <3>4. QED
      BY <1>5, <3>1, <3>2, <3>3 DEF Remaining, Deciding, Engaged
  <2>3. QED
    BY <2>1, <2>2
<1>12. CASE FinishActions(p)
  BY <1>2, <1>4, <1>5, <1>12 DEF FinishActions, Refuse, Deciding, Engaged, Remaining
<1>13. CASE WriteMigrationReceipt(p)
  BY <1>2, <1>4, <1>5, <1>13 DEF WriteMigrationReceipt, Refuse, Deciding, Engaged, Remaining
<1>14. CASE CreateReceipt(p) \/ WriteReceipt(p)
  BY <1>2, <1>4, <1>5, <1>14
     DEF CreateReceipt, WriteReceipt, SetReceipt, Deciding, Engaged, Remaining
<1>15. CASE ClearPointer(p) \/ Unlock(p)
  BY <1>2, <1>4, <1>15 DEF ClearPointer, Unlock, Leave, Deciding, Engaged
<1>16. CASE Replan(p)
  <2>1. CASE Leave(p)
    BY <1>2, <1>4, <2>1 DEF Leave, Deciding, Engaged
  <2>2. CASE ~Leave(p)
    <3>1. /\ pc[p] = "planned" /\ pc'[p] = "replanned" /\ UNCHANGED <<disk, task>>
          /\ BoundTo(p) /\ Todo(task[p].mode) = task[p].todo
      BY <1>2, <1>16, <2>2 DEF Replan
    <3>2. \A i \in DOMAIN Changes(p) \ task[p].todo : Reached(p, i)
      BY <3>1, EvidenceReaches
    <3>3. QED
      BY <3>1, <3>2 DEF Progressed, Remaining, Reached, Expects, Changes
  <2>3. QED
    BY <2>1, <2>2
<1>17. CASE LoadEvidence(p) \/ LockRecovery(p) \/ VerifyRecovery(p)
  BY <1>2, <1>4, <1>5, <1>17
     DEF LoadEvidence, LockRecovery, VerifyRecovery, Leave, Refuse, Deciding, Engaged, Remaining
<1>18. QED
  BY <1>6, <1>7, <1>8, <1>9, <1>10, <1>11, <1>12, <1>13, <1>14, <1>15, <1>16, <1>17, Run(p) DEF Run

\* The inputs verified under the lock hold until the plan is published.
LEMMA MoverIsFresh ==
    ASSUME Whole, NEW p \in Procs, Run(p)
    PROVE  Fresh(p)'
<1> USE DEF files
<1>1. /\ TypeInv /\ pc \in [Procs -> Waiting \cup Holding] /\ Fresh(p)
  BY DEF Whole, Basis, TypeInv, TypeOK, Atomicity, Knows
<1>2. \A label : Goto(p, label) => pc'[p] = label
  BY <1>1 DEF Goto
<1>3. pc'[p] # "idle" => task'[p].plan = task[p].plan
  BY <1>1, RunKeepsTask
<1>4. SUFFICES ASSUME pc'[p] \in {"verified", "staged", "publishing"}
               PROVE  Fresh(p)'
  BY DEF Fresh
<1>5. VerifyPlan(p) \/ StageBundle(p) \/ CreatePointer(p)
  <2>1. ~(AcquireLock(p) \/ AdmitMutation(p) \/ WritePointer(p) \/ BeginAction(p)
          \/ PerformCreate(p) \/ CheckUpdate(p) \/ RenameUpdate(p) \/ PerformDelete(p))
    BY <1>2, <1>4 DEF AcquireLock, AdmitMutation, WritePointer, BeginAction, PerformCreate,
                CheckUpdate, RenameUpdate, PerformDelete, SetDisk, Refuse, Leave
  <2>2. ~(MarkApplied(p) \/ VerifyAction(p) \/ FinishActions(p)
          \/ WriteMigrationReceipt(p) \/ CreateReceipt(p) \/ WriteReceipt(p)
          \/ ClearPointer(p) \/ Unlock(p))
    BY <1>2, <1>4 DEF MarkApplied, VerifyAction, FinishActions, WriteMigrationReceipt, SetReceipt,
                CreateReceipt, WriteReceipt, ClearPointer, Unlock, Refuse, Leave
  <2>3. ~(Replan(p) \/ LoadEvidence(p) \/ LockRecovery(p) \/ VerifyRecovery(p))
    BY <1>2, <1>4 DEF Replan, LoadEvidence, LockRecovery, VerifyRecovery, Refuse, Leave
  <2>4. QED
    BY <2>1, <2>2, <2>3 DEF Run
<1>6. UNCHANGED disk
  BY <1>5 DEF VerifyPlan, StageBundle, CreatePointer, Refuse
<1>7. CASE VerifyPlan(p)
  <2>1. PlanHolds(task[p].plan)
    BY <1>2, <1>4, <1>7 DEF VerifyPlan, Refuse
  <2>2. QED
    BY <1>3, <1>4, <1>6, <2>1 DEF Fresh, PlanHolds, VerifiesInput
<1>8. CASE StageBundle(p) \/ CreatePointer(p)
  <2>1. pc[p] \in {"verified", "staged"}
    BY <1>8 DEF StageBundle, CreatePointer
  <2>2. QED
    BY <1>1, <1>3, <1>4, <1>6, <2>1 DEF Fresh
<1>9. QED
  BY <1>5, <1>7, <1>8

\* The receipt of the transaction at work is torn only while it is written.
LEMMA MoverReceipts ==
    ASSUME Whole, NEW p \in Procs, Run(p), Inv'
    PROVE  Receipted(p)'
<1> USE DEF files
<1>1. /\ TypeInv /\ TypeOK /\ pc \in [Procs -> Waiting \cup Holding] /\ Receipted(p)
      /\ PointerOf(p) /\ PointerOf(p)'
  BY DEF Whole, Inv, PointerDiscipline, TypeInv, TypeOK, Atomicity, Knows
<1>2. \A label : Goto(p, label) => pc'[p] = label
  BY <1>1 DEF Goto
<1>3. pc'[p] # "idle" => task'[p].mode = task[p].mode
  BY <1>1, RunKeepsTask
<1>4. pc'[p] \notin Deciding => Receipted(p)'
  BY DEF Receipted, Deciding, Engaged
<1>5. ASSUME pc'[p] \in Deciding \ {"receipted"}, pc[p] \in Deciding \ {"receipting", "receipted"},
             UNCHANGED pointer,
             bundle'[pointer].receipt = bundle[pointer].receipt
      PROVE  Receipted(p)'
  <2>1. task'[p].txn = pointer /\ task[p].txn = pointer
    BY <1>1, <1>5 DEF PointerOf, Deciding
  <2>2. QED
    BY <1>1, <1>5, <2>1 DEF Receipted
<1>6. CASE AcquireLock(p) \/ AdmitMutation(p) \/ VerifyPlan(p) \/ CreatePointer(p)
  BY <1>2, <1>4, <1>6
     DEF AcquireLock, AdmitMutation, VerifyPlan, CreatePointer, Leave, Refuse, Deciding, Engaged
<1>7. CASE StageBundle(p)
  BY <1>2, <1>4, <1>7 DEF StageBundle, Refuse, Deciding, Engaged
<1>8. CASE WritePointer(p)
  <2>1. pc[p] = "publishing" /\ pc'[p] = "ready" /\ UNCHANGED bundle
    BY <1>2, <1>8 DEF WritePointer
  <2>2. pointer' = task[p].txn /\ bundle[task[p].txn].receipt = "NONE"
    BY <1>1, <1>8, <2>1 DEF WritePointer, PointerOf, Untouched
  <2>3. task'[p].txn = task[p].txn
    BY <1>1, <2>1, <2>2 DEF PointerOf, Engaged
  <2>4. QED
    BY <2>1, <2>2, <2>3 DEF Receipted, Torn
<1>9. ASSUME NEW state, Record(p, state), pointer = task[p].txn, pointer \in Txns
      PROVE  bundle'[pointer].receipt = bundle[pointer].receipt
  <2> DEFINE t == task[p].txn
             n == Current(p)
  <2>1. bundle' = [bundle EXCEPT ![t].journal[n] = state] /\ t \in Txns
    BY <1>9 DEF Record
  <2> HIDE DEF t, n
  <2>2. bundle'[t].receipt = bundle[t].receipt
    BY <1>1, <2>1 DEF TypeOK, Bundle
  <2>3. QED
    BY <1>9, <2>2 DEF t
<1>10. CASE BeginAction(p) \/ MarkApplied(p)
  BY <1>1, <1>2, <1>4, <1>5, <1>9, <1>10
     DEF BeginAction, MarkApplied, Refuse, Deciding, Engaged, PointerOf
<1>11. CASE CheckUpdate(p) \/ PerformCreate(p) \/ RenameUpdate(p) \/ PerformDelete(p)
  BY <1>2, <1>4, <1>5, <1>11
     DEF CheckUpdate, PerformCreate, RenameUpdate, PerformDelete, SetDisk, Publishing, Refuse,
         Deciding, Engaged
<1>12. CASE VerifyAction(p)
  <2>1. pc[p] \in {"performed", "marked"} /\ UNCHANGED pointer
    BY <1>12 DEF VerifyAction, Refuse
  <2>2. pointer = task[p].txn /\ pointer \in Txns
    BY <1>1, <2>1 DEF PointerOf, Engaged
  <2>3. bundle'[pointer].receipt = bundle[pointer].receipt
    BY <1>9, <1>12, <2>2 DEF VerifyAction, Refuse
  <2>4. pc'[p] \in {"ready", "unwinding"}
    BY <1>2, <1>12 DEF VerifyAction, Refuse
  <2>5. QED
    BY <1>4, <1>5, <2>1, <2>3, <2>4 DEF Deciding, Engaged
<1>13. CASE FinishActions(p) \/ WriteMigrationReceipt(p)
  BY <1>2, <1>4, <1>5, <1>13 DEF FinishActions, WriteMigrationReceipt, Refuse, Deciding, Engaged
<1>14. CASE CreateReceipt(p) \/ WriteReceipt(p)
  <2>1. /\ pc[p] \in {"stamped", "receipting"} /\ UNCHANGED <<pointer, task>>
        /\ task[p].txn \in Txns
    BY <1>1, <1>14 DEF CreateReceipt, WriteReceipt, PointerOf, Engaged
  <2>2. CASE pc'[p] = "receipted"
    <3>1. SetReceipt(p, Result(p), "receipted")
      BY <1>2, <1>14, <2>2 DEF CreateReceipt, WriteReceipt, SetReceipt
    <3>2. bundle'[task[p].txn].receipt = Result(p)
      BY <1>1, <2>1, <3>1, OtherBundles
    <3>3. QED
      BY <2>1, <2>2, <3>2 DEF Receipted, Result
  <2>3. CASE pc'[p] # "receipted"
    <3>1. pc'[p] \in {"receipting", "unwinding"}
      BY <1>2, <1>14, <2>3 DEF CreateReceipt, WriteReceipt, SetReceipt
    <3>2. QED
      BY <3>1 DEF Receipted, Deciding, Engaged
  <2>4. QED
    BY <2>2, <2>3
<1>15. CASE ClearPointer(p) \/ Unlock(p)
  BY <1>2, <1>4, <1>15 DEF ClearPointer, Unlock, Leave, Deciding, Engaged
<1>16. CASE Replan(p)
  <2>1. CASE Leave(p)
    BY <1>2, <1>4, <2>1 DEF Leave, Deciding, Engaged
  <2>2. CASE ~Leave(p)
    BY <1>2, <1>16, <2>2 DEF Replan, BoundTo, Loadable, Receipted
  <2>3. QED
    BY <2>1, <2>2
<1>17. CASE LoadEvidence(p) \/ LockRecovery(p) \/ VerifyRecovery(p)
  BY <1>2, <1>4, <1>5, <1>17
     DEF LoadEvidence, LockRecovery, VerifyRecovery, Leave, Refuse, Deciding, Engaged
<1>18. QED
  BY <1>6, <1>7, <1>8, <1>10, <1>11, <1>12, <1>13, <1>14, <1>15, <1>16, <1>17, Run(p) DEF Run

-----------------------------------------------------------------------------
(* Receipts.                                                               *)

\* When all actions are finished, every path is as the receipt will say.
LEMMA FinishedPaths ==
    ASSUME Whole, NEW p \in Procs,
           pc[p] \in {"finished", "stamped", "receipting", "receipted"}
    PROVE  /\ pointer \in Txns /\ task[p].txn = pointer
           /\ bundle[pointer].plan = task[p].plan
           /\ task[p].mode = "ROLLBACK" => AllBefore(bundle[pointer].plan)
           /\ task[p].mode # "ROLLBACK" => AllAfter(bundle[pointer].plan)
<1>1. /\ pointer \in Txns /\ task[p].txn = pointer
      /\ bundle[pointer].plan = task[p].plan
  BY DEF Whole, Inv, PointerDiscipline, PointerOf, Basis, Standing, StandingOf, Engaged
<1>2. \A i \in DOMAIN Changes(p) : Reached(p, i)
  BY DEF Whole, Atomicity, Knows, Progressed, Deciding, Engaged, Remaining
<1>3. task[p].mode = "ROLLBACK" => AllBefore(task[p].plan)
  BY <1>2 DEF Reached, Expects, Performed, Undo, AllBefore, Changes
<1>4. task[p].mode # "ROLLBACK" => AllAfter(task[p].plan)
  BY <1>2 DEF Reached, Expects, Performed, AllAfter, VerifiesAfter, Changes
<1>5. QED
  BY <1>1, <1>3, <1>4

\* Writing the journal leaves the receipt alone.
LEMMA RecordKeepsReceipt ==
    ASSUME TypeOK, NEW p \in Procs, NEW state, Record(p, state), NEW t \in Txns
    PROVE  bundle'[t].receipt = bundle[t].receipt
<1> DEFINE u == task[p].txn
           n == Current(p)
<1>1. bundle' = [bundle EXCEPT ![u].journal[n] = state]
  BY DEF Record
<1> HIDE DEF u, n
<1>2. QED
  BY <1>1 DEF TypeOK, Bundle

\* A receipt is torn by its creation and by nothing else.
LEMMA TornByCreation ==
    ASSUME Whole, NEW p \in Procs, Run(p), NEW t \in Txns,
           bundle'[t].receipt = Torn, bundle[t].receipt # Torn
    PROVE  CreateReceipt(p) /\ pc[p] = "stamped" /\ t = task[p].txn
<1> USE DEF files
<1>1. TypeInv /\ TypeOK
  BY DEF Whole, Basis, TypeInv
<1>2. bundle' # bundle /\ ~Refuse(p)
  BY DEF Refuse
<1>3. ~(AcquireLock(p) \/ AdmitMutation(p) \/ VerifyPlan(p) \/ WritePointer(p)
        \/ PerformCreate(p) \/ CheckUpdate(p) \/ RenameUpdate(p) \/ PerformDelete(p))
  BY <1>2 DEF AcquireLock, AdmitMutation, VerifyPlan, WritePointer, PerformCreate, CheckUpdate,
              RenameUpdate, PerformDelete, SetDisk
<1>4. ~(FinishActions(p) \/ WriteMigrationReceipt(p) \/ ClearPointer(p) \/ Unlock(p)
        \/ Replan(p) \/ LoadEvidence(p) \/ LockRecovery(p) \/ VerifyRecovery(p))
  BY <1>2 DEF FinishActions, WriteMigrationReceipt, ClearPointer, Unlock, Replan, LoadEvidence,
              LockRecovery, VerifyRecovery
<1>5. ~(BeginAction(p) \/ MarkApplied(p) \/ VerifyAction(p))
  BY <1>1, <1>2, RecordKeepsReceipt DEF BeginAction, MarkApplied, VerifyAction
<1>6. ~StageBundle(p)
  BY <1>1, <1>2, StagesFresh DEF Torn
<1>7. ~CreatePointer(p)
  <2>1. Cleanup(task[p].txn) => bundle'[t] \in {bundle[t], NoBundle}
    BY <1>1 DEF Cleanup, TypeOK
  <2>2. NoBundle.receipt # Torn
    BY DEF NoBundle, Torn
  <2>3. QED
    BY <1>2, <2>1, <2>2 DEF CreatePointer
<1>8. t = task[p].txn
  <2>1. pc[p] \in {"stamped", "receipting"}
    BY <1>3, <1>4, <1>5, <1>6, <1>7 DEF Run, CreateReceipt, WriteReceipt
  <2>2. UNCHANGED bundle \/ \A u \in Txns \ {task[p].txn} : bundle'[u] = bundle[u]
    BY <1>1, <2>1, RunKeepsBundles
  <2>3. QED
    BY <1>2, <2>2
<1>9. ~WriteReceipt(p)
  <2>1. WriteReceipt(p) => bundle'[t].receipt = Result(p)
    BY <1>1, <1>8, OtherBundles DEF WriteReceipt
  <2>2. QED
    BY <2>1 DEF Result, Torn
<1>10. QED
  BY <1>3, <1>4, <1>5, <1>6, <1>7, <1>8, <1>9, Run(p) DEF Run, CreateReceipt

\* Nothing is published and no record is written behind a torn receipt.
LEMMA TornStops ==
    ASSUME Whole, NEW p \in Procs, Run(p), NEW t \in Txns,
           bundle'[t].receipt = Torn, bundle[t].receipt = Torn
    PROVE  UNCHANGED <<disk, pointer, bundle>>
<1> USE DEF files
<1>1. /\ TypeInv /\ TypeOK /\ pc \in [Procs -> Waiting \cup Holding]
      /\ PointerOf(p) /\ Receipted(p) /\ pointer = t
  BY DEF Whole, Inv, PointerDiscipline, Basis, TypeInv, TypeOK, Atomicity, Knows,
         TornReceiptsAreLive
<1>2. pc[p] \notin Deciding
  <2>1. SUFFICES ASSUME pc[p] \in Deciding
                 PROVE  FALSE
    OBVIOUS
  <2>2. task[p].txn = t
    BY <1>1, <2>1 DEF PointerOf, Deciding
  <2>3. pc[p] \in {"receipting", "receipted"}
    BY <1>1, <2>1, <2>2 DEF Receipted
  <2>4. pc[p] = "receipting"
    BY <1>1, <2>2, <2>3 DEF Receipted, Result, Torn
  <2>5. WriteReceipt(p)
    <3>1. ~(AcquireLock(p) \/ AdmitMutation(p) \/ VerifyPlan(p) \/ StageBundle(p)
            \/ CreatePointer(p) \/ WritePointer(p) \/ BeginAction(p)
            \/ PerformCreate(p) \/ CheckUpdate(p) \/ RenameUpdate(p) \/ PerformDelete(p))
      BY <2>4 DEF AcquireLock, AdmitMutation, VerifyPlan, StageBundle, CreatePointer,
                  WritePointer, BeginAction, PerformCreate, CheckUpdate, RenameUpdate,
                  PerformDelete, Publishing
    <3>2. ~(MarkApplied(p) \/ VerifyAction(p) \/ FinishActions(p)
            \/ WriteMigrationReceipt(p) \/ CreateReceipt(p) \/ ClearPointer(p) \/ Unlock(p)
            \/ Replan(p) \/ LoadEvidence(p) \/ LockRecovery(p) \/ VerifyRecovery(p))
      BY <2>4 DEF MarkApplied, VerifyAction, FinishActions, WriteMigrationReceipt,
                  CreateReceipt, ClearPointer, Unlock, Replan, LoadEvidence, LockRecovery,
                  VerifyRecovery
    <3>3. QED
      BY <3>1, <3>2 DEF Run
  <2>6. bundle'[t].receipt = Result(p)
    BY <1>1, <2>2, <2>5, OtherBundles DEF WriteReceipt
  <2>7. QED
    BY <2>6 DEF Result, Torn
<1>3. pc[p] \in {"idle", "approved", "planned", "locked", "cleared", "unwinding"}
  BY <1>1, <1>2, TransactionAssumption DEF PointerOf, Deciding, Engaged, Waiting, Holding
<1>4. AcquireLock(p) \/ AdmitMutation(p) \/ Unlock(p) \/ Replan(p)
  <2>1. ~(VerifyPlan(p) \/ StageBundle(p) \/ CreatePointer(p) \/ WritePointer(p)
          \/ BeginAction(p) \/ PerformCreate(p) \/ CheckUpdate(p) \/ RenameUpdate(p)
          \/ PerformDelete(p))
    BY <1>3 DEF VerifyPlan, StageBundle, CreatePointer, WritePointer, BeginAction,
                PerformCreate, CheckUpdate, RenameUpdate, PerformDelete, Publishing
  <2>2. ~(MarkApplied(p) \/ VerifyAction(p) \/ FinishActions(p)
          \/ WriteMigrationReceipt(p) \/ CreateReceipt(p) \/ WriteReceipt(p)
          \/ ClearPointer(p) \/ LoadEvidence(p) \/ LockRecovery(p) \/ VerifyRecovery(p))
    BY <1>3 DEF MarkApplied, VerifyAction, FinishActions, WriteMigrationReceipt,
                CreateReceipt, WriteReceipt, ClearPointer, LoadEvidence, LockRecovery,
                VerifyRecovery
  <2>3. QED
    BY <2>1, <2>2 DEF Run
<1>5. QED
  BY <1>4 DEF AcquireLock, AdmitMutation, Unlock, Replan, Refuse

\* Every step of an invocation keeps torn receipts harmless.
LEMMA RunKeepsTorn ==
    ASSUME Whole, NEW p \in Procs, Run(p)
    PROVE  TornReceiptsAreLive'
<1> USE DEF files
<1>1. SUFFICES ASSUME NEW t \in Txns, bundle'[t].receipt = Torn
               PROVE  pointer' = t /\ (AllAfter(bundle[t].plan)' \/ AllBefore(bundle[t].plan)')
  BY DEF TornReceiptsAreLive
<1>2. CASE bundle[t].receipt = Torn
  <2>1. pointer = t /\ (AllAfter(bundle[t].plan) \/ AllBefore(bundle[t].plan))
    BY <1>2 DEF Whole, Atomicity, TornReceiptsAreLive
  <2>2. UNCHANGED <<disk, pointer, bundle>>
    BY <1>1, <1>2, TornStops
  <2>3. QED
    BY <2>1, <2>2 DEF AllAfter, AllBefore
<1>3. CASE bundle[t].receipt # Torn
  <2>1. CreateReceipt(p) /\ pc[p] = "stamped" /\ t = task[p].txn
    BY <1>1, <1>3, TornByCreation
  <2>2. pointer = t /\ (AllAfter(bundle[t].plan) \/ AllBefore(bundle[t].plan))
    BY <2>1, FinishedPaths
  <2>3. UNCHANGED <<disk, pointer>> /\ bundle'[t].plan = bundle[t].plan
    <3>1. pc[p] \notin {"verified", "staged"}
      BY <2>1
    <3>2. QED
      BY <2>1, <3>1, RunKeepsBundles DEF CreateReceipt, Whole, Basis
  <2>4. QED
    BY <2>2, <2>3 DEF AllAfter, AllBefore
<1>4. QED
  BY <1>2, <1>3

-----------------------------------------------------------------------------
(* Every step.                                                             *)

\* Every step keeps what the invocations know and what the receipts tell.
LEMMA AtomicityStep ==
    ASSUME Undisturbed, Whole, [Next]_vars, Inv'
    PROVE  Atomicity'
<1> USE DEF files
<1>1. /\ TypeInv /\ TypeOK /\ pc \in [Procs -> Waiting \cup Holding] /\ task \in [Procs -> Task]
      /\ Atomicity /\ (\A r \in Procs : Knows(r) /\ PointerOf(r))
  BY DEF Whole, Inv, PointerDiscipline, Basis, TypeInv, TypeOK, Atomicity
<1>2. CASE UNCHANGED <<disk, pointer, bundle, lateEdits>> /\ \A r \in Procs : Knows(r)'
  BY <1>1, <1>2 DEF Atomicity, TornReceiptsAreLive, AllAfter, AllBefore
<1>3. ASSUME NEW p \in Procs, Run(p)
      PROVE  Atomicity'
  <2>1. Knows(p)'
    BY <1>3, MoverProgresses, MoverIsFresh, MoverReceipts DEF Knows
  <2>2. \A r \in Procs \ {p} : Knows(r)'
    BY <1>3, OthersKnow
  <2>3. lateEdits' = {}
    <3>1. CASE VerifyPlan(p) \/ VerifyRecovery(p)
      BY <1>1, <3>1 DEF Atomicity, VerifyPlan, VerifyRecovery
    <3>2. CASE UNCHANGED lateEdits
      BY <1>1, <3>2 DEF Atomicity
    <3>3. QED
      BY <1>3, <3>1, <3>2
         DEF Run, AcquireLock, AdmitMutation, StageBundle, CreatePointer, WritePointer,
             BeginAction, PerformCreate, CheckUpdate, RenameUpdate, PerformDelete, MarkApplied,
             VerifyAction, FinishActions, WriteMigrationReceipt, CreateReceipt, WriteReceipt,
             ClearPointer, Unlock, Replan, LoadEvidence, LockRecovery
  <2>4. QED
    BY <1>3, <2>1, <2>2, <2>3, RunKeepsTorn DEF Atomicity
<1>4. ASSUME NEW p \in Procs,
             Recover(p) \/ Crash(p) \/ \E op \in Operations : Propose(p, op)
      PROVE  Atomicity'
  <2>1. /\ pc'[p] \in {"planned", "idle", "approved"}
        /\ \A r \in Procs \ {p} : pc'[r] = pc[r] /\ task'[r] = task[r]
        /\ UNCHANGED <<disk, pointer, bundle, lateEdits>>
    BY <1>1, <1>4 DEF Recover, PlanRecovery, Crash, Propose, Leave, Goto
  <2>2. Knows(p)'
    BY <2>1, UndecidedKnows DEF Undecided
  <2>3. \A r \in Procs \ {p} : Knows(r)'
    BY <1>1, <2>1, StillKnows
  <2>4. QED
    BY <1>2, <2>1, <2>2, <2>3
<1>5. ASSUME NEW p \in Procs, Fail(p)
      PROVE  Atomicity'
  <2>1. /\ pc'[p] = "unwinding" /\ pc[p] \in Holding
        /\ \A r \in Procs \ {p} : pc'[r] = pc[r]
        /\ UNCHANGED <<disk, lateEdits>>
        /\ IF pc[p] \in {"staged", "publishing"} THEN Cleanup(task[p].txn) ELSE UNCHANGED bundle
        /\ \/ UNCHANGED pointer
           \/ pc[p] = "publishing" /\ pointer = Torn
    BY <1>1, <1>5 DEF Fail, Goto
  <2>2. \A r \in Procs \ {p} : Knows(r)'
    BY <2>1, HolderIsAlone, UndecidedKnows DEF Whole
  <2>3. Knows(p)'
    BY <2>1, UndecidedKnows
  <2>4. ASSUME NEW t \in Txns, bundle'[t].receipt = Torn
        PROVE  pointer' = t /\ (AllAfter(bundle[t].plan)' \/ AllBefore(bundle[t].plan)')
    <3>1. bundle'[t] = bundle[t]
      <4>1. Cleanup(task[p].txn) => bundle'[t] \in {bundle[t], NoBundle}
        BY <1>1 DEF Cleanup, TypeOK
      <4>2. NoBundle.receipt # Torn
        BY DEF NoBundle, Torn
      <4>3. QED
        BY <2>1, <2>4, <4>1, <4>2
    <3>2. pointer = t /\ (AllAfter(bundle[t].plan) \/ AllBefore(bundle[t].plan))
      BY <1>1, <2>4, <3>1 DEF Atomicity, TornReceiptsAreLive
    <3>3. QED
      BY <2>1, <3>1, <3>2, TransactionAssumption DEF AllAfter, AllBefore
  <2>5. QED
    BY <1>1, <2>1, <2>2, <2>3, <2>4 DEF Atomicity, TornReceiptsAreLive
<1>6. CASE ClearStaleLock \/ UNCHANGED vars
  <2>1. UNCHANGED <<disk, pointer, bundle, lateEdits, pc, task>>
    BY <1>6 DEF ClearStaleLock, vars
  <2>2. \A r \in Procs : Knows(r)'
    BY <1>1, <2>1, StillKnows
  <2>3. QED
    BY <1>2, <2>1, <2>2
<1>7. QED
  BY <1>3, <1>4, <1>5, <1>6 DEF Next, Undisturbed

\* Initially nobody has decided anything and there is no receipt.
LEMMA AtomicityInit == Init => Atomicity
<1> SUFFICES ASSUME Init PROVE Atomicity
  OBVIOUS
<1>1. \A p \in Procs : Knows(p)
  BY DEF Init, Knows, Progressed, Fresh, Receipted, Deciding, Engaged
<1>2. TornReceiptsAreLive
  BY DEF Init, TornReceiptsAreLive, NoBundle, Torn
<1>3. QED
  BY <1>1, <1>2 DEF Init, Atomicity

\* The inductive invariant holds of every undisturbed behaviour.
LEMMA AtomicityHolds == Undisturbed => (Spec => [](Whole /\ Faithful))
<1> SUFFICES ASSUME Undisturbed PROVE Spec => [](Whole /\ Faithful)
  OBVIOUS
<1>1. Spec => []Inv
  BY InvHolds DEF Undisturbed
<1>2. Inv /\ Inv' /\ Basis /\ Atomicity /\ [Next]_vars => Atomicity'
  BY AtomicityStep DEF Whole
<1>3. Inv /\ Basis /\ Atomicity => Whole
  BY DEF Whole
<1>4. QED
  BY <1>1, <1>2, <1>3, FaithHolds, AtomicityInit, PTL DEF Spec

-----------------------------------------------------------------------------
(* What receipts say.                                                      *)

\* Only opening and resolving a transaction, and failing, move RECOVERY.json.
LEMMA PointerMoves ==
    ASSUME Next, pointer' # pointer
    PROVE  \E p \in Procs : CreatePointer(p) \/ WritePointer(p) \/ ClearPointer(p) \/ Fail(p)
<1> USE DEF files
<1>1. ASSUME NEW p \in Procs, Run(p)
      PROVE  CreatePointer(p) \/ WritePointer(p) \/ ClearPointer(p)
  <2>1. ~Refuse(p)
    BY DEF Refuse
  <2>2. ~(AcquireLock(p) \/ AdmitMutation(p) \/ VerifyPlan(p) \/ StageBundle(p)
          \/ BeginAction(p) \/ PerformCreate(p) \/ CheckUpdate(p) \/ RenameUpdate(p)
          \/ PerformDelete(p))
    BY <2>1 DEF AcquireLock, AdmitMutation, VerifyPlan, StageBundle, BeginAction, PerformCreate,
                CheckUpdate, RenameUpdate, PerformDelete, SetDisk
  <2>3. ~(MarkApplied(p) \/ VerifyAction(p) \/ FinishActions(p)
          \/ WriteMigrationReceipt(p) \/ CreateReceipt(p) \/ WriteReceipt(p) \/ Unlock(p)
          \/ Replan(p) \/ LoadEvidence(p) \/ LockRecovery(p) \/ VerifyRecovery(p))
    BY <2>1 DEF MarkApplied, VerifyAction, FinishActions, WriteMigrationReceipt, CreateReceipt,
                WriteReceipt, Unlock, Replan, LoadEvidence, LockRecovery, VerifyRecovery
  <2>4. QED
    BY <1>1, <2>2, <2>3 DEF Run
<1>2. ASSUME NEW p \in Procs, Recover(p) \/ Crash(p)
      PROVE  FALSE
  BY <1>2 DEF Recover, PlanRecovery, Crash
<1>3. ASSUME NEW p \in Procs, NEW op \in Operations, Propose(p, op)
      PROVE  FALSE
  BY <1>3 DEF Propose
<1>4. ASSUME NEW q \in Editable, Edit(q)
      PROVE  FALSE
  BY <1>4 DEF Edit
<1>5. ~ClearStaleLock
  BY DEF ClearStaleLock
<1>6. QED
  BY <1>1, <1>2, <1>3, <1>4, <1>5 DEF Next

\* Only the invocation that has written the receipt takes a transaction away
\* from the pointer.
LEMMA OnlyReceiptedSettles ==
    ASSUME Whole, Next, pointer \in Txns, pointer' # pointer
    PROVE  \E p \in Procs : ClearPointer(p) /\ pc[p] = "receipted" /\ pointer' = NoTxn
<1>1. PICK p \in Procs : CreatePointer(p) \/ WritePointer(p) \/ ClearPointer(p) \/ Fail(p)
  BY PointerMoves
<1>2. PointerOf(p)
  BY DEF Whole, Inv, PointerDiscipline
<1>3. ~CreatePointer(p) /\ ~WritePointer(p)
  BY <1>2, TransactionAssumption DEF CreatePointer, WritePointer, PointerOf
<1>4. ~Fail(p)
  BY TransactionAssumption DEF Fail
<1>5. ClearPointer(p)
  BY <1>1, <1>3, <1>4
<1>6. QED
  BY <1>5 DEF ClearPointer

\* If recoveries are exclusive and nobody edits the paths of a plan, then
\* whatever fails or dies, a transaction ends with the receipt that tells where
\* all of its paths are.
THEOREM ReceiptsTellTheTruth == Undisturbed => (Spec => SettlesTruthfully)
<1> SUFFICES ASSUME Undisturbed PROVE Spec => SettlesTruthfully
  OBVIOUS
<1>1. ASSUME Whole, Next, pointer' # pointer, pointer \in Txns
      PROVE  Truthful(pointer)
  <2>1. PICK p \in Procs : ClearPointer(p) /\ pc[p] = "receipted"
    BY <1>1, OnlyReceiptedSettles
  <2>2. bundle[task[p].txn].receipt = Result(p)
    BY <1>1, <2>1 DEF Whole, Atomicity, Knows, Receipted
  <2>3. QED
    BY <1>1, <2>1, <2>2, FinishedPaths DEF Truthful, Result
<1>2. Whole /\ [Next]_vars => [pointer' # pointer /\ pointer \in Txns => Truthful(pointer)]_vars
  BY <1>1 DEF vars, files
<1>3. QED
  BY AtomicityHolds, <1>2, PTL DEF SettlesTruthfully, Spec

\* Under the same assumptions a record torn by a crash hides no half-done work.
THEOREM TornRecordsHideNothing == Undisturbed => (Spec => []TornRecordsAreHarmless)
<1> SUFFICES ASSUME Undisturbed PROVE Spec => []TornRecordsAreHarmless
  OBVIOUS
<1>1. ASSUME Whole PROVE TornRecordsAreHarmless
  <2>1. pointer = Torn => \A t \in Txns : Started(t) => bundle[t].receipt \in Results
    BY <1>1, TransactionAssumption DEF Whole, Inv, PointerDiscipline, NoLostTransaction
  <2>2. QED
    BY <1>1, <2>1 DEF Whole, Atomicity, TornReceiptsAreLive, TornRecordsAreHarmless
<1>2. QED
  BY AtomicityHolds, <1>1, PTL

-----------------------------------------------------------------------------
(* The refinement.                                                         *)

\* Steps that move the pointer between no file and a torn one, write records
\* of the transaction it names, or prepare and remove bundles that it does not
\* name, and publications of its changes, are not seen.
LEMMA Unseen ==
    ASSUME Whole, Whole', UNCHANGED pointer \/ {pointer, pointer'} \cap Txns = {},
           pointer \in Txns => bundle'[pointer].plan = bundle[pointer].plan,
           \A t \in Txns \ {pointer} :
               /\ bundle'[t].receipt = bundle[t].receipt
               /\ bundle[t].receipt \in Results => bundle'[t].plan = bundle[t].plan,
           \A q \in Paths :
               \/ disk'[q] = disk[q]
               \/ pointer \in Txns /\ q \in ChangedPaths(LivePlan.changes)
    PROVE  UNCHANGED Atomic!avars
<1>1. /\ disk \in [Paths -> Contents] /\ disk' \in [Paths -> Contents]
      /\ NoTxn \notin Txns
  BY TransactionAssumption DEF Whole, Basis, TypeInv, TypeOK
<1>2. Resolved' = Resolved
  <2>1. CASE pointer \in Txns
    <3>1. pointer' = pointer /\ LivePlan' = LivePlan
      BY <2>1 DEF LivePlan
    <3>2. QED
      BY <2>1, <3>1 DEF Resolved
  <2>2. CASE pointer \notin Txns
    <3>1. disk' = disk
      BY <1>1, <2>2
    <3>2. QED
      BY <2>2, <3>1 DEF Resolved
  <2>3. QED
    BY <2>1, <2>2
<1>3. Opened' = Opened
  BY DEF Opened
<1>4. Outcome' = Outcome
  BY DEF Outcome
<1>5. (IF pointer \in Txns /\ bundle[pointer] # NoBundle THEN pointer ELSE NoTxn)'
          = IF pointer \in Txns /\ bundle[pointer] # NoBundle THEN pointer ELSE NoTxn
  <2>1. CASE pointer \in Txns
    <3>1. bundle[pointer] = NoBundle <=> bundle[pointer].plan.changes = << >>
      BY <2>1 DEF Whole, Basis, Standing, NoBundle, NoPlan
    <3>2. pointer' = pointer
      BY <2>1
    <3>3. bundle'[pointer] = NoBundle <=> bundle'[pointer].plan.changes = << >>
      BY <2>1, <3>2 DEF Whole, Basis, Standing, NoBundle, NoPlan
    <3>4. QED
      BY <3>1, <3>2, <3>3
  <2>2. CASE pointer \notin Txns
    BY <2>2
  <2>3. QED
    BY <2>1, <2>2
<1>6. QED
  BY <1>2, <1>3, <1>4, <1>5 DEF Atomic!avars

\* The step of an invocation that leaves the pointer alone is not seen.
LEMMA RunUnseen ==
    ASSUME Whole, Whole', NEW p \in Procs, Run(p), UNCHANGED pointer
    PROVE  UNCHANGED Atomic!avars
<1>1. /\ TypeInv /\ TypeOK /\ PointerOf(p) /\ StandingOf(p) /\ NoTxn \notin Txns
      /\ disk \in [Paths -> Contents]
  BY TransactionAssumption DEF Whole, Inv, PointerDiscipline, Basis, Standing, TypeInv, TypeOK
<1>2. \A q \in Paths :
          \/ disk'[q] = disk[q]
          \/ pointer \in Txns /\ q \in ChangedPaths(LivePlan.changes)
  <2>1. SUFFICES ASSUME disk' # disk, NEW q \in Paths, disk'[q] # disk[q]
                 PROVE  pointer \in Txns /\ q \in ChangedPaths(LivePlan.changes)
    OBVIOUS
  <2>2. PerformCreate(p) \/ RenameUpdate(p) \/ PerformDelete(p)
    BY <2>1, RunWritesByPublication
  <2>3. /\ pc[p] \in {"ready", "intent", "checked"} /\ Current(p) \in task[p].todo
        /\ disk' = [disk EXCEPT ![CurrentChange(p).path] = CurrentChange(p).after]
    BY <2>1, <2>2, Publishes DEF Whole
  <2>4. CurrentChange(p).path = q
    BY <1>1, <2>1, <2>3
  <2>5. /\ pointer \in Txns /\ task[p].txn = pointer
        /\ bundle[pointer].plan = task[p].plan
    BY <1>1, <2>3 DEF PointerOf, StandingOf, Engaged
  <2>6. Current(p) \in DOMAIN Changes(p) /\ Changes(p)[Current(p)].path = q
    BY <1>1, <2>3, <2>4 DEF TypeInv, TaskShape, CurrentChange, Performed, Undo
  <2>7. QED
    BY <2>5, <2>6 DEF ChangedPaths, LivePlan, Changes
<1>3. ASSUME UNCHANGED bundle
      PROVE  UNCHANGED Atomic!avars
  BY <1>2, <1>3, Unseen
<1>4. ASSUME pc[p] \in Engaged,
             \A t \in Txns : bundle'[t].plan = bundle[t].plan,
             \A t \in Txns \ {task[p].txn} : bundle'[t] = bundle[t]
      PROVE  UNCHANGED Atomic!avars
  BY <1>1, <1>2, <1>4, Unseen DEF PointerOf
<1>5. ASSUME pointer \notin Txns, NEW u \in Txns, bundle[u].receipt = "NONE",
             bundle'[u].receipt = "NONE",
             \A t \in Txns \ {u} : bundle'[t] = bundle[t]
      PROVE  UNCHANGED Atomic!avars
  BY <1>2, <1>5, Unseen DEF Results
<1>6. CASE /\ pc[p] = "verified" /\ task'[p].txn \in Unused
           /\ bundle'[task'[p].txn].receipt = "NONE"
           /\ \A t \in Txns \ {task'[p].txn} : bundle'[t] = bundle[t]
  BY <1>1, <1>5, <1>6 DEF Unused, NoBundle, PointerOf
<1>7. CASE pc[p] = "staged" /\ Cleanup(task[p].txn)
  BY <1>1, <1>5, <1>7, OtherBundles DEF PointerOf, Untouched, NoBundle
<1>8. QED
  BY <1>1, <1>3, <1>4, <1>6, <1>7, RunKeepsBundles

\* Writing the pointer opens the transaction on the state it was approved for.
LEMMA PointerOpens ==
    ASSUME Whole, Whole', Faithful, NEW p \in Procs, WritePointer(p)
    PROVE  \E t \in Txns : Atomic!Open(t, Opened'[t])
<1> USE DEF files
<1> DEFINE t == task[p].txn
           plan == task[p].plan
<1>1. /\ PointerOf(p) /\ StandingOf(p) /\ Fresh(p) /\ pc[p] = "publishing"
      /\ NoTxn \notin Txns /\ Torn \notin Txns /\ lateEdits = {}
      /\ disk \in [Paths -> Contents] /\ plan \in Plan /\ Coherent(plan)
  BY TransactionAssumption
     DEF Whole, Inv, PointerDiscipline, Basis, Standing, Atomicity, Knows, WritePointer,
         TypeInv, TypeOK, Task, PlansSound
<1>2. /\ pointer = Torn /\ pointer' = t /\ t \in Txns /\ UNCHANGED <<disk, bundle>>
      /\ bundle[t].receipt = "NONE" /\ bundle[t].plan = plan /\ plan.changes # << >>
  BY <1>1 DEF WritePointer, PointerOf, StandingOf, Untouched, Changes
<1>3. \A i \in DOMAIN plan.changes : disk[plan.changes[i].path] = plan.changes[i].before
  <2>1. task[p].mode = "APPLY" /\ Ahead(p) = DOMAIN plan.changes
    BY <1>1 DEF StandingOf, Applying, Ahead, Changes
  <2>2. QED
    BY <1>1, <2>1 DEF Faithful, Expects, Performed, Changes
<1>4. \A q \in DOMAIN plan.inputs : disk[q] = plan.inputs[q]
  BY <1>1 DEF Fresh
<1>5. Resolved = disk
  BY <1>1, <1>2 DEF Resolved
<1>6. Resolved' = disk
  <2>1. LivePlan' = plan
    BY <1>2 DEF LivePlan
  <2>2. ASSUME NEW q \in ChangedPaths(plan.changes)
        PROVE  plan.changes[CHOOSE i \in DOMAIN plan.changes : plan.changes[i].path = q].before
                   = disk[q]
    BY <1>3, <2>2 DEF ChangedPaths
  <2>3. QED
    BY <1>1, <1>2, <2>1, <2>2 DEF Resolved
<1>7. Opened'[t] = plan /\ Opened' = [Opened EXCEPT ![t] = plan]
  BY <1>1, <1>2 DEF Opened
<1>8. Opened[t] = NoPlan
  BY <1>1, <1>2 DEF Opened, Results
<1>9. Outcome' = Outcome
  BY <1>1, <1>2 DEF Outcome
<1>10. bundle[t] # NoBundle
  BY <1>2 DEF NoBundle, NoPlan
<1>11. NoPlan = Atomic!Unopened /\ plan # NoPlan
  BY <1>2 DEF NoPlan, Atomic!Unopened
<1>12. QED
  BY <1>1, <1>2, <1>3, <1>4, <1>5, <1>6, <1>7, <1>8, <1>9, <1>10, <1>11 DEF Atomic!Open

\* Removing the pointer resolves the transaction, one way or the other.
LEMMA ClearingResolves ==
    ASSUME Whole, Whole', NEW p \in Procs, ClearPointer(p), pc[p] = "receipted", pointer' = NoTxn
    PROVE  Atomic!Commit \/ Atomic!RollBack
<1> USE DEF files
<1> DEFINE t == pointer
           changes == bundle[t].plan.changes
           result == Result(p)
<1>1. /\ pointer \in Txns /\ task[p].txn = pointer
      /\ task[p].mode = "ROLLBACK" => AllBefore(bundle[t].plan)
      /\ task[p].mode # "ROLLBACK" => AllAfter(bundle[t].plan)
      /\ bundle[t].receipt = result
  BY FinishedPaths DEF Whole, Atomicity, Knows, Receipted
<1>2. /\ NoTxn \notin Txns /\ UNCHANGED <<disk, bundle>> /\ disk \in [Paths -> Contents]
      /\ bundle[t] # NoBundle
  BY <1>1, TransactionAssumption
     DEF ClearPointer, Whole, Basis, TypeInv, TypeOK, NoBundle, Result
<1>3. Resolved' = disk
  BY <1>2 DEF Resolved
<1>4. Opened' = Opened /\ Opened[t] = bundle[t].plan
  BY <1>1, <1>2 DEF Opened, Result, Results
<1>5. Outcome' = [Outcome EXCEPT ![t] = result]
  BY <1>1, <1>2 DEF Outcome
<1>6. CASE task[p].mode = "ROLLBACK"
  <2>1. ASSUME NEW q \in ChangedPaths(changes)
        PROVE  changes[CHOOSE i \in DOMAIN changes : changes[i].path = q].before = disk[q]
    BY <1>1, <1>6, <2>1 DEF ChangedPaths, AllBefore
  <2>2. Resolved = disk
    BY <1>1, <1>2, <2>1 DEF Resolved, LivePlan
  <2>3. QED
    BY <1>1, <1>2, <1>3, <1>4, <1>5, <1>6, <2>2 DEF Atomic!RollBack, Atomic!Resolve, Result
<1>7. CASE task[p].mode # "ROLLBACK"
  <2>1. ASSUME NEW q \in ChangedPaths(changes)
        PROVE  changes[CHOOSE i \in DOMAIN changes : changes[i].path = q].after = disk[q]
    BY <1>1, <1>7, <2>1 DEF ChangedPaths, AllAfter, VerifiesAfter
  <2>2. \A q \in Paths \ ChangedPaths(changes) : Resolved[q] = disk[q]
    BY <1>1 DEF Resolved, LivePlan
  <2>3. Atomic!Overlay(Resolved, changes) = disk
    BY <1>2, <2>1, <2>2 DEF Atomic!Overlay, Atomic!ChangedPaths, ChangedPaths
  <2>4. QED
    BY <1>1, <1>2, <1>3, <1>4, <1>5, <1>7, <2>3 DEF Atomic!Commit, Atomic!Resolve, Result
<1>8. QED
  BY <1>6, <1>7

\* A failure is not seen, not even one that leaves a pointer to no bundle.
LEMMA FailUnseen ==
    ASSUME Whole, Whole', NEW p \in Procs, Fail(p)
    PROVE  UNCHANGED Atomic!avars
<1> DEFINE u == task[p].txn
<1>1. /\ TypeOK /\ PointerOf(p) /\ NoTxn \notin Txns /\ Torn \notin Txns
      /\ disk \in [Paths -> Contents]
  BY TransactionAssumption DEF Whole, Inv, PointerDiscipline, TypeInv, TypeOK
<1>2. /\ UNCHANGED disk
      /\ IF pc[p] \in {"staged", "publishing"} THEN Cleanup(u) ELSE UNCHANGED bundle
      /\ \/ UNCHANGED pointer
         \/ pc[p] = "publishing" /\ pointer = Torn /\ pointer' = u
  BY DEF Fail
<1>3. CASE pc[p] \notin {"staged", "publishing"}
  BY <1>2, <1>3, Unseen
<1>4. CASE pc[p] \in {"staged", "publishing"}
  <2>1. /\ pointer \notin Txns /\ u \in Txns /\ bundle[u].receipt = "NONE"
        /\ bundle'[u] = NoBundle /\ \A t \in Txns \ {u} : bundle'[t] = bundle[t]
    BY <1>1, <1>2, <1>4, OtherBundles DEF PointerOf, Untouched
  <2>2. CASE UNCHANGED pointer
    BY <1>2, <2>1, <2>2, Unseen DEF Results, NoBundle
  <2>3. CASE pointer' = u
    <3>1. Resolved = disk
      BY <2>1 DEF Resolved
    <3>2. Resolved' = disk
      <4>1. ChangedPaths(bundle'[u].plan.changes) = {}
        BY <2>1 DEF ChangedPaths, NoBundle, NoPlan
      <4>2. QED
        BY <1>1, <1>2, <2>1, <2>3, <4>1 DEF Resolved, LivePlan
    <3>3. Opened' = Opened
      BY <2>1, <2>3 DEF Opened, NoBundle, Results
    <3>4. Outcome' = Outcome
      BY <2>1, <2>3 DEF Outcome, NoBundle
    <3>5. QED
      BY <1>1, <2>1, <2>3, <3>1, <3>2, <3>3, <3>4 DEF Atomic!avars
  <2>4. QED
    BY <1>2, <2>1, <2>2, <2>3
<1>5. QED
  BY <1>3, <1>4

\* Every step opens, commits or rolls back a whole plan, or is not seen.
LEMMA StepIsAtomic ==
    ASSUME Undisturbed, Whole, Whole', Faithful, [Next]_vars
    PROVE  [Atomic!AtomicNext]_(Atomic!avars)
<1> USE DEF files
<1>1. NoTxn \notin Txns /\ Torn \notin Txns /\ \A p \in Procs : PointerOf(p)
  BY TransactionAssumption DEF Whole, Inv, PointerDiscipline
<1>2. ASSUME UNCHANGED <<disk, pointer, bundle>>
      PROVE  UNCHANGED Atomic!avars
  BY <1>2, Unseen
<1>3. ASSUME NEW p \in Procs, Run(p)
      PROVE  [Atomic!AtomicNext]_(Atomic!avars)
  <2>1. CASE UNCHANGED pointer
    BY <1>3, <2>1, RunUnseen
  <2>2. CASE pointer' # pointer
    <3>1. PICK r \in Procs : CreatePointer(r) \/ WritePointer(r) \/ ClearPointer(r) \/ Fail(r)
      BY <1>3, <2>2, PointerMoves DEF Next
    <3>2. CASE CreatePointer(r)
      <4>1. pointer = NoTxn /\ pointer' = Torn /\ UNCHANGED <<disk, bundle>>
        BY <2>2, <3>2 DEF CreatePointer
      <4>2. QED
        BY <1>1, <4>1, Unseen
    <3>3. CASE WritePointer(r)
      BY <3>3, PointerOpens DEF Atomic!AtomicNext
    <3>4. CASE ClearPointer(r)
      BY <2>2, <3>4, ClearingResolves DEF Atomic!AtomicNext, ClearPointer
    <3>5. CASE Fail(r)
      BY <3>5, FailUnseen
    <3>6. QED
      BY <3>1, <3>2, <3>3, <3>4, <3>5
  <2>3. QED
    BY <2>1, <2>2
<1>4. ASSUME NEW p \in Procs, Fail(p)
      PROVE  UNCHANGED Atomic!avars
  BY <1>4, FailUnseen
<1>5. ASSUME NEW p \in Procs,
             Recover(p) \/ Crash(p) \/ \E op \in Operations : Propose(p, op)
      PROVE  UNCHANGED <<disk, pointer, bundle>>
  BY <1>5 DEF Recover, PlanRecovery, Crash, Propose
<1>6. CASE ClearStaleLock \/ UNCHANGED vars
  BY <1>2, <1>6 DEF ClearStaleLock, vars
<1>7. QED
  BY <1>2, <1>3, <1>4, <1>5, <1>6 DEF Next, Undisturbed

\* If recoveries are exclusive and nobody edits the paths of a plan, then
\* files, failures, crashes and recoveries implement a workspace that changes
\* by whole plans only, each on the state it was approved for.
THEOREM WorkspaceIsAtomic == Undisturbed => (Spec => ImplementsAtomicWorkspace)
<1> SUFFICES ASSUME Undisturbed PROVE Spec => ImplementsAtomicWorkspace
  OBVIOUS
<1>1. Init => Atomic!AtomicInit
  <2> SUFFICES ASSUME Init PROVE Atomic!AtomicInit
    OBVIOUS
  <2>1. NoTxn \notin Txns
    BY TransactionAssumption
  <2>2. Resolved = disk
    BY <2>1 DEF Init, Resolved
  <2>3. Opened = [t \in Txns |-> Atomic!Unopened]
    BY <2>1 DEF Init, Opened, NoBundle, NoPlan, Atomic!Unopened
  <2>4. Outcome = [t \in Txns |-> "NONE"]
    BY <2>1 DEF Init, Outcome, NoBundle
  <2>5. QED
    BY <2>1, <2>2, <2>3, <2>4 DEF Init, Atomic!AtomicInit
<1>2. Whole /\ Whole' /\ Faithful /\ [Next]_vars => [Atomic!AtomicNext]_(Atomic!avars)
  BY StepIsAtomic
<1>3. QED
  BY AtomicityHolds, <1>1, <1>2, PTL DEF Spec, ImplementsAtomicWorkspace, Atomic!AtomicSpec

-----------------------------------------------------------------------------
(* The evidence an interruption leaves behind.                             *)

\* No record is torn, backups keep the mode of their file, and no operation
\* creates a directory or finds one: what known defects of recovery need.
Recoverable ==
    /\ Undisturbed /\ ~TornFaults /\ Private = Paths /\ NoDirectories
    /\ \A live \in InitDisks : \A q \in Paths : live[q] # Directory

\* Every path of the live transaction is as before or as after, and what else
\* its approval depends on is as it was.
EvidenceStands ==
    pointer \in Txns =>
        /\ bundle[pointer] # NoBundle
        /\ \A i \in DOMAIN LivePlan.changes :
               LET c == LivePlan.changes[i] IN disk[c.path] \in {c.before, c.after}
        /\ \A q \in DOMAIN LivePlan.inputs \ ChangedPaths(LivePlan.changes) :
               disk[q] = LivePlan.inputs[q]

\* A receipt is torn only while somebody writes it.
TornIsInWriting ==
    \A t \in Txns :
        bundle[t].receipt = Torn => \E p \in Procs : pc[p] = "receipting" /\ task[p].txn = t

\* No path of the workspace is a directory.
FilesOnly == \A q \in Paths : disk[q] # Directory

\* What recovery needs to find after an interruption.
Evidence == EvidenceStands /\ TornIsInWriting /\ FilesOnly

\* Publication puts a path of the live transaction into a state of its plan.
LEMMA PublishedState ==
    ASSUME NoDirectories, Whole, NEW p \in Procs, Run(p), NEW q \in Paths, disk'[q] # disk[q]
    PROVE  /\ pointer \in Txns
           /\ \E i \in DOMAIN LivePlan.changes :
                  LET c == LivePlan.changes[i]
                  IN  c.path = q /\ disk'[q] \in {c.before, c.after} \ {Directory}
<1>1. /\ TypeInv /\ TypeOK /\ PointerOf(p) /\ StandingOf(p) /\ disk \in [Paths -> Contents]
      /\ Coherent(task[p].plan)
  BY DEF Whole, Inv, PointerDiscipline, Basis, Standing, TypeInv, TypeOK, PlansSound
<1>2. PerformCreate(p) \/ RenameUpdate(p) \/ PerformDelete(p)
  BY RunWritesByPublication
<1>3. /\ pc[p] \in {"ready", "intent", "checked"} /\ Current(p) \in task[p].todo
      /\ disk' = [disk EXCEPT ![CurrentChange(p).path] = CurrentChange(p).after]
  BY <1>2, Publishes DEF Whole
<1>4. CurrentChange(p).path = q /\ disk'[q] = CurrentChange(p).after
  BY <1>1, <1>3
<1>5. pointer \in Txns /\ LivePlan = task[p].plan
  BY <1>1, <1>3 DEF PointerOf, StandingOf, Engaged, LivePlan
<1>6. Current(p) \in DOMAIN LivePlan.changes
  BY <1>1, <1>3, <1>5 DEF TypeInv, TaskShape, Changes
<1> DEFINE c == LivePlan.changes[Current(p)]
<1>7. c.path = q /\ CurrentChange(p).after \in {c.before, c.after}
  BY <1>4, <1>5 DEF CurrentChange, Performed, Undo, Changes
<1>8. Directory \notin {c.before, c.after}
  <2>1. Sensible(c)
    BY <1>1, <1>5, <1>6 DEF Coherent
  <2>2. QED
    BY <2>1, EvidenceAssumption DEF Sensible, Kinds, Missing, Directory
<1>9. QED
  BY <1>4, <1>5, <1>6, <1>7, <1>8

\* While the pointer stays, evidence stands.
LEMMA EvidenceStays ==
    ASSUME NoDirectories, Whole, EvidenceStands, NEW p \in Procs, Run(p), pointer' = pointer
    PROVE  EvidenceStands'
<1>1. SUFFICES ASSUME pointer \in Txns
               PROVE  EvidenceStands'
  BY DEF EvidenceStands
<1>2. /\ TypeInv /\ TypeOK /\ PointerOf(p) /\ StandingOf(p) /\ Coherent(LivePlan)
      /\ LivePlan \in Plan /\ disk \in [Paths -> Contents] /\ disk' \in [Paths -> Contents]
  <2>1. TypeOK'
    BY TypeStep DEF Whole, Basis, Next, TypeInv
  <2>2. QED
    BY <1>1, <2>1 DEF Whole, Inv, PointerDiscipline, Basis, Standing, TypeInv, TypeOK,
                      PlansSound, LivePlan, Bundle
<1>3. pc[p] \notin {"verified", "staged"}
  BY <1>1, <1>2, TransactionAssumption DEF PointerOf
<1>4. LivePlan' = LivePlan /\ bundle'[pointer].plan = LivePlan
  BY <1>1, <1>2, <1>3, RunKeepsBundles DEF LivePlan
<1>5. LivePlan.changes # << >>
  BY <1>1 DEF EvidenceStands, Whole, Basis, Standing, LivePlan
<1>6. bundle'[pointer] # NoBundle
  BY <1>4, <1>5 DEF NoBundle, NoPlan
<1>7. ASSUME NEW i \in DOMAIN LivePlan.changes
      PROVE  disk'[LivePlan.changes[i].path] \in
                 {LivePlan.changes[i].before, LivePlan.changes[i].after}
  <2> DEFINE q == LivePlan.changes[i].path
  <2>1. q \in Paths
    <3>1. LivePlan.changes \in Seq(Change)
      BY <1>2 DEF Plan
    <3>2. LivePlan.changes[i] \in Change
      BY <1>7, <3>1, SeqElement
    <3>3. QED
      BY <3>2 DEF Change
  <2>2. CASE disk'[q] = disk[q]
    BY <1>1, <1>7, <2>2 DEF EvidenceStands
  <2>3. CASE disk'[q] # disk[q]
    <3>1. PICK j \in DOMAIN LivePlan.changes :
              /\ LivePlan.changes[j].path = q
              /\ disk'[q] \in {LivePlan.changes[j].before, LivePlan.changes[j].after}
      BY <2>1, <2>3, PublishedState
    <3>2. j = i
      BY <1>2, <1>7, <3>1 DEF Coherent
    <3>3. QED
      BY <3>1, <3>2
  <2>4. QED
    BY <2>2, <2>3
<1>8. ASSUME NEW q \in DOMAIN LivePlan.inputs \ ChangedPaths(LivePlan.changes)
      PROVE  disk'[q] = LivePlan.inputs[q]
  <2>1. q \in Paths
    BY <1>2, <1>8 DEF Plan
  <2>2. disk'[q] = disk[q]
    BY <1>8, <2>1, PublishedState DEF ChangedPaths
  <2>3. QED
    BY <1>1, <1>8, <2>2 DEF EvidenceStands
<1>9. QED
  BY <1>1, <1>4, <1>6, <1>7, <1>8 DEF EvidenceStands

\* The pointer is written when all evidence stands.
LEMMA EvidenceBegins ==
    ASSUME Whole, Faithful, NEW p \in Procs, WritePointer(p)
    PROVE  EvidenceStands'
<1> USE DEF files
<1> DEFINE plan == task[p].plan
<1>1. /\ PointerOf(p) /\ StandingOf(p) /\ Fresh(p) /\ pc[p] = "publishing" /\ lateEdits = {}
  BY DEF Whole, Inv, PointerDiscipline, Basis, Standing, Atomicity, Knows, WritePointer
<1>2. /\ pointer' \in Txns /\ UNCHANGED <<disk, bundle>>
      /\ bundle[pointer'].plan = plan /\ plan.changes # << >>
  BY <1>1 DEF WritePointer, PointerOf, StandingOf, Untouched, Changes
<1>3. \A i \in DOMAIN plan.changes : disk[plan.changes[i].path] = plan.changes[i].before
  <2>1. task[p].mode = "APPLY" /\ Ahead(p) = DOMAIN plan.changes
    BY <1>1 DEF StandingOf, Applying, Ahead, Changes
  <2>2. QED
    BY <1>1, <2>1 DEF Faithful, Expects, Performed, Changes
<1>4. \A q \in DOMAIN plan.inputs : disk[q] = plan.inputs[q]
  BY <1>1 DEF Fresh
<1>5. LivePlan' = plan /\ bundle[pointer'] # NoBundle
  BY <1>2 DEF LivePlan, NoBundle, NoPlan
<1>6. QED
  BY <1>2, <1>3, <1>4, <1>5 DEF EvidenceStands

\* Every step of an invocation keeps torn receipts in writing.
LEMMA RunKeepsWriting ==
    ASSUME Whole, TornIsInWriting, NEW p \in Procs, Run(p)
    PROVE  TornIsInWriting'
<1> USE DEF files
<1>1. /\ TypeInv /\ TypeOK /\ Alone(p) /\ pc \in [Procs -> Waiting \cup Holding]
  BY RunKeepsTask DEF Whole, Basis, TypeInv, TypeOK
<1>2. SUFFICES ASSUME NEW t \in Txns, bundle'[t].receipt = Torn
               PROVE  \E r \in Procs : pc'[r] = "receipting" /\ task'[r].txn = t
  BY DEF TornIsInWriting
<1>3. CASE bundle[t].receipt = Torn
  <2>1. PICK r \in Procs : pc[r] = "receipting" /\ task[r].txn = t
    BY <1>3 DEF TornIsInWriting
  <2>2. r # p
    <3>1. SUFFICES ASSUME r = p
                   PROVE  FALSE
      OBVIOUS
    <3>2. WriteReceipt(p)
      <4>1. ~(AcquireLock(p) \/ AdmitMutation(p) \/ VerifyPlan(p) \/ StageBundle(p)
              \/ CreatePointer(p) \/ WritePointer(p) \/ BeginAction(p)
              \/ PerformCreate(p) \/ CheckUpdate(p) \/ RenameUpdate(p) \/ PerformDelete(p))
        BY <2>1, <3>1 DEF AcquireLock, AdmitMutation, VerifyPlan, StageBundle, CreatePointer,
                    WritePointer, BeginAction, PerformCreate, CheckUpdate, RenameUpdate,
                    PerformDelete, Publishing
      <4>2. ~(MarkApplied(p) \/ VerifyAction(p) \/ FinishActions(p)
              \/ WriteMigrationReceipt(p) \/ CreateReceipt(p) \/ ClearPointer(p) \/ Unlock(p)
              \/ Replan(p) \/ LoadEvidence(p) \/ LockRecovery(p) \/ VerifyRecovery(p))
        BY <2>1, <3>1 DEF MarkApplied, VerifyAction, FinishActions, WriteMigrationReceipt,
                    CreateReceipt, ClearPointer, Unlock, Replan, LoadEvidence, LockRecovery,
                    VerifyRecovery
      <4>3. QED
        BY <4>1, <4>2 DEF Run
    <3>3. bundle'[t].receipt = Result(p)
      BY <1>1, <2>1, <3>1, <3>2, OtherBundles DEF WriteReceipt
    <3>4. QED
      BY <1>2, <3>3 DEF Result, Torn
  <2>3. QED
    BY <1>1, <2>1, <2>2 DEF Alone
<1>4. CASE bundle[t].receipt # Torn
  <2>1. CreateReceipt(p) /\ t = task[p].txn
    BY <1>2, <1>4, TornByCreation
  <2>2. pc'[p] = "receipting" /\ task' = task
    <3>1. ~SetReceipt(p, Result(p), "receipted")
      <4>1. SetReceipt(p, Result(p), "receipted") => bundle'[t].receipt = Result(p)
        BY <1>1, <2>1, OtherBundles
      <4>2. QED
        BY <1>2, <4>1 DEF Result, Torn
    <3>2. bundle' # bundle
      BY <1>2, <1>4
    <3>3. QED
      BY <1>1, <2>1, <3>1, <3>2 DEF CreateReceipt, SetReceipt, Goto
  <2>3. QED
    BY <2>1, <2>2
<1>5. QED
  BY <1>3, <1>4

\* Every step leaves the evidence of a live transaction readable and decidable.
LEMMA EvidenceStep ==
    ASSUME Recoverable, Whole, Faithful, Evidence, [Next]_vars
    PROVE  Evidence'
<1> USE DEF files
<1>1. /\ TypeInv /\ TypeOK /\ EvidenceStands /\ TornIsInWriting /\ FilesOnly
      /\ pc \in [Procs -> Waiting \cup Holding] /\ task \in [Procs -> Task]
      /\ Undisturbed /\ NoDirectories
  BY DEF Whole, Basis, TypeInv, TypeOK, Evidence, Recoverable
<1>2. ASSUME NEW p \in Procs, Run(p)
      PROVE  Evidence'
  <2>1. EvidenceStands'
    <3>1. CASE pointer' = pointer
      BY <1>1, <1>2, <3>1, EvidenceStays
    <3>2. CASE pointer' # pointer
      <4>1. PICK r \in Procs : CreatePointer(r) \/ WritePointer(r) \/ ClearPointer(r) \/ Fail(r)
        BY <1>2, <3>2, PointerMoves DEF Next
      <4>2. CASE WritePointer(r)
        BY <4>2, EvidenceBegins
      <4>3. CASE CreatePointer(r) \/ ClearPointer(r)
        <5>1. pointer' \notin Txns
          BY <3>2, <4>3, TransactionAssumption DEF CreatePointer, ClearPointer
        <5>2. QED
          BY <5>1 DEF EvidenceStands
      <4>4. ~Fail(r)
        BY <3>2 DEF Fail, MayStop, Recoverable
      <4>5. QED
        BY <4>1, <4>2, <4>3, <4>4
    <3>3. QED
      BY <3>1, <3>2
  <2>2. FilesOnly'
    BY <1>1, <1>2, PublishedState DEF FilesOnly
  <2>3. QED
    BY <1>1, <1>2, <2>1, <2>2, RunKeepsWriting DEF Evidence
<1>3. ASSUME NEW p \in Procs,
             Recover(p) \/ Crash(p) \/ Fail(p) \/ \E op \in Operations : Propose(p, op)
      PROVE  Evidence'
  <2>1. /\ pc[p] \notin {"publishing", "receipting"}
        /\ \A r \in Procs \ {p} : pc'[r] = pc[r] /\ task'[r] = task[r]
        /\ UNCHANGED <<disk, pointer>>
        /\ \/ UNCHANGED bundle
           \/ pc[p] = "staged" /\ Cleanup(task[p].txn)
    BY <1>1, <1>3 DEF Recover, PlanRecovery, Crash, Fail, Propose, Leave, Goto, MayStop,
                      Recoverable
  <2>2. \A t \in Txns : bundle'[t] \in {bundle[t], NoBundle}
    BY <1>1, <2>1 DEF Cleanup, TypeOK
  <2>3. TornIsInWriting'
    <3>1. NoBundle.receipt # Torn
      BY DEF NoBundle, Torn
    <3>2. QED
      BY <1>1, <2>1, <2>2, <3>1 DEF TornIsInWriting
  <2>4. pointer \in Txns => UNCHANGED bundle
    <3>1. pc[p] = "staged" => pointer = NoTxn
      BY DEF Whole, Inv, PointerDiscipline, PointerOf
    <3>2. QED
      BY <2>1, <3>1, TransactionAssumption
  <2>5. EvidenceStands'
    BY <1>1, <2>1, <2>4 DEF EvidenceStands, LivePlan
  <2>6. QED
    BY <1>1, <2>1, <2>3, <2>5 DEF Evidence, FilesOnly
<1>4. CASE ClearStaleLock \/ UNCHANGED vars
  BY <1>1, <1>4 DEF ClearStaleLock, vars, Evidence, EvidenceStands, LivePlan, TornIsInWriting,
                    FilesOnly
<1>5. QED
  BY <1>1, <1>2, <1>3, <1>4 DEF Next, Undisturbed

\* Paths and inputs in the states of the plan are classified as recoverable.
LEMMA EvidenceClassifies ==
    ASSUME Recoverable, Whole, Evidence, pointer \in Txns
    PROVE  Classification # "MANUAL_RECOVERY_REQUIRED"
<1> DEFINE changes == LivePlan.changes
<1>1. /\ Coherent(LivePlan) /\ LivePlan \in Plan /\ disk \in [Paths -> Contents]
      /\ EvidenceStands /\ FilesOnly /\ Private = Paths
  BY DEF Whole, Basis, PlansSound, LivePlan, TypeInv, TypeOK, Bundle, Evidence, Recoverable
<1>2. ASSUME NEW i \in DOMAIN changes
      PROVE  /\ \/ MatchesBefore(changes[i], disk[changes[i].path])
                \/ MatchesAfter(changes[i], disk[changes[i].path])
             /\ BackupOK(changes[i])
  <2>1. Sensible(changes[i]) /\ changes[i].path \in Paths
    <3>1. changes \in Seq(Change)
      BY <1>1 DEF Plan
    <3>2. changes[i] \in Change
      BY <1>2, <3>1, SeqElement
    <3>3. QED
      BY <1>1, <1>2, <3>2 DEF Coherent, Change
  <2>2. disk[changes[i].path] \in {changes[i].before, changes[i].after}
    BY <1>1, <1>2 DEF EvidenceStands
  <2>3. BackupOK(changes[i])
    BY <1>1, <2>1 DEF BackupOK
  <2>4. \/ MatchesBefore(changes[i], disk[changes[i].path])
        \/ MatchesAfter(changes[i], disk[changes[i].path])
    BY <2>1, <2>2, EvidenceAssumption DEF Sensible, Kinds, MatchesBefore, MatchesAfter
  <2>5. QED
    BY <2>3, <2>4
<1>3. ASSUME NEW q \in DOMAIN LivePlan.inputs \ ChangedPaths(changes)
      PROVE  ObservedInputMatches(LivePlan.inputs[q], disk[q])
  <2>1. q \in Paths /\ disk[q] = LivePlan.inputs[q]
    BY <1>1, <1>3 DEF EvidenceStands, Plan
  <2>2. disk[q] \in Files \cup {Missing}
    BY <1>1, <2>1 DEF FilesOnly, Contents
  <2>3. QED
    BY <2>1, <2>2 DEF ObservedInputMatches
<1>4. QED
  BY <1>2, <1>3 DEF Classification, Classify

\* Where records are not torn and no directory is involved, every failure and
\* every crash leaves evidence from which the transaction can be recovered.
THEOREM InterruptionsAreRecoverable == Recoverable => (Spec => []AlwaysRecoverable)
<1> SUFFICES ASSUME Recoverable PROVE Spec => []AlwaysRecoverable
  OBVIOUS
<1>1. Init => Evidence
  BY TransactionAssumption
     DEF Init, Evidence, EvidenceStands, TornIsInWriting, FilesOnly, NoBundle, Torn, Recoverable
<1>2. Spec => [](Whole /\ Faithful)
  BY AtomicityHolds DEF Recoverable
<1>3. Whole /\ Faithful /\ Evidence /\ [Next]_vars => Evidence'
  BY EvidenceStep
<1>4. ASSUME Whole, Evidence
      PROVE  AlwaysRecoverable
  <2>1. SUFFICES ASSUME pointer \in Txns, Holders = {}
                 PROVE  Loadable /\ Classification # "MANUAL_RECOVERY_REQUIRED"
    BY DEF AlwaysRecoverable
  <2>2. bundle[pointer].receipt # Torn
    BY <1>4, <2>1 DEF Evidence, TornIsInWriting, Holders, Holding
  <2>3. Loadable
    BY <1>4, <2>1, <2>2 DEF Loadable, Evidence, EvidenceStands
  <2>4. QED
    BY <1>4, <2>1, <2>3, EvidenceClassifies
<1>5. QED
  BY <1>1, <1>2, <1>3, <1>4, PTL DEF Spec
=============================================================================

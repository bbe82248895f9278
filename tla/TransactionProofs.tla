-------------------------- MODULE TransactionProofs --------------------------
(***************************************************************************)
(* Theorems about Transaction for every set of invocations, transactions,  *)
(* operations and paths, and every bound on edits, faults and crashes.     *)
(***************************************************************************)
EXTENDS Transaction, FiniteSetTheorems, WellFoundedInduction, TLAPS

-----------------------------------------------------------------------------
(* The action under way is one of those still to do.                       *)

Below == {pair \in Nat \X Nat : pair[1] < pair[2]}

\* Descent through the natural numbers ends.
LEMMA BelowIsWellFounded == IsWellFoundedOn(Below, Nat)
BY NatLessThanWellFounded DEF OpToRel, Below

\* A nonempty set of natural numbers has its minimum as a member.
LEMMA MinIsMember ==
    ASSUME NEW S \in SUBSET Nat, S # {}
    PROVE  Min(S) \in S
<1>1. PICK n \in S : \A m \in S : ~(<<m, n>> \in Below)
  BY BelowIsWellFounded, WFMin
<1>2. \A m \in S : n <= m
  <2> TAKE m \in S
  <2>1. ~(<<m, n>> \in Below) /\ <<m, n>> \in Nat \X Nat
    BY <1>1
  <2>2. ~(m < n)
    BY <2>1 DEF Below
  <2> QED
    BY <2>2
<1>3. QED
  BY <1>2 DEF Min

\* A nonempty set of indices has its maximum as a member.
LEMMA MaxIsMember ==
    ASSUME NEW n \in Nat, NEW S \in SUBSET (1 .. n), S # {}
    PROVE  Max(S) \in S
<1> DEFINE D == {n - i : i \in S}
<1>1. D \in SUBSET Nat
  BY SMT
<1>2. D # {}
  OBVIOUS
<1>3. PICK d \in D : \A e \in D : ~(<<e, d>> \in Below)
  <2> HIDE DEF D
  <2> QED
    BY <1>1, <1>2, BelowIsWellFounded, WFMin
<1>4. PICK i \in S : d = n - i
  BY <1>3
<1>5. \A j \in S : i >= j
  <2> TAKE j \in S
  <2>1. n - j \in D
    OBVIOUS
  <2>2. ~(<<n - j, n - i>> \in Below) /\ <<n - j, n - i>> \in Nat \X Nat
    BY <1>1, <1>3, <1>4, <2>1
  <2>3. ~(n - j < n - i)
    BY <2>2 DEF Below
  <2> QED
    BY <2>3
<1>6. QED
  BY <1>5 DEF Max

\* Elements of a sequence, without looking into what they are.
LEMMA SeqElement ==
    ASSUME NEW S, NEW s \in Seq(S), NEW i \in DOMAIN s
    PROVE  s[i] \in S
OBVIOUS

-----------------------------------------------------------------------------
(* Types.  TypeOK is not inductive: what is published comes from the plan  *)
(* at an index of todo, so todo must stay inside the plan and must not be  *)
(* empty between the announcement of an action and its verification.       *)

InTransit == {"intent", "checked", "performed", "marked"}

TaskShape ==
    \A p \in Procs :
        /\ task[p].todo \subseteq DOMAIN Changes(p)
        /\ pc[p] \in InTransit => task[p].todo # {}
        /\ pc[p] = "idle" => task[p] = NoTask

TypeInv == TypeOK /\ TaskShape

\* The action under way is still to do.
LEMMA CurrentIsPending ==
    ASSUME TypeInv, NEW p \in Procs, task[p].todo # {}
    PROVE  Current(p) \in task[p].todo
<1>1. task[p].todo \in SUBSET Nat
  BY DEF TypeInv, TypeOK, Task
<1>2. Changes(p) \in Seq(Change)
  BY DEF TypeInv, TypeOK, Task, Changes, Plan
<1>3. task[p].todo \in SUBSET (1 .. Len(Changes(p))) /\ Len(Changes(p)) \in Nat
  BY <1>2 DEF TypeInv, TaskShape
<1>4. QED
  BY <1>1, <1>3, MinIsMember, MaxIsMember DEF Current

\* The action under way is a change between two contents of a path.
LEMMA CurrentChangeType ==
    ASSUME TypeInv, NEW p \in Procs, task[p].todo # {}
    PROVE  /\ CurrentChange(p).path \in Paths
           /\ CurrentChange(p).before \in Contents
           /\ CurrentChange(p).after \in Contents
<1>1. Changes(p) \in Seq(Change)
  BY DEF TypeInv, TypeOK, Task, Changes, Plan
<1>2. Current(p) \in DOMAIN Changes(p)
  BY CurrentIsPending DEF TypeInv, TaskShape
<1>3. Changes(p)[Current(p)] \in Change
  BY <1>1, <1>2
<1>4. QED
  BY <1>3 DEF CurrentChange, Performed, Undo, Change

\* A plan made from an operation and a workspace is a plan.
LEMMA PlanAtType ==
    ASSUME TypeOK, NEW op \in Operations
    PROVE  PlanAt(op, disk) \in Plan
<1>1. op \in Operation
  BY TransactionAssumption
<1>2. PlanAt(op, disk).inputs \in [op.inputs -> Contents] /\ op.inputs \in SUBSET Paths
  BY <1>1 DEF PlanAt, Operation, TypeOK
<1>3. PlanAt(op, disk).changes \in Seq(Change)
  <2>1. op.intents \in Seq([kind : Kinds \ {"DELETE_DIR"}, path : Paths, after : Contents])
    BY <1>1 DEF Operation
  <2> DEFINE made(i) == [kind |-> op.intents[i].kind, path |-> op.intents[i].path,
                         before |-> disk[op.intents[i].path], after |-> op.intents[i].after]
  <2>2. \A i \in DOMAIN op.intents : made(i) \in Change
    <3> TAKE i \in DOMAIN op.intents
    <3>1. op.intents[i] \in [kind : Kinds \ {"DELETE_DIR"}, path : Paths, after : Contents]
      BY <2>1, SeqElement
    <3> QED
      BY <3>1 DEF Change, TypeOK
  <2>3. PlanAt(op, disk).changes = [i \in DOMAIN op.intents |-> made(i)]
    BY DEF PlanAt
  <2> HIDE DEF made
  <2>4. DOMAIN op.intents = 1 .. Len(op.intents) /\ Len(op.intents) \in Nat
    BY <2>1
  <2>5. QED
    BY <2>2, <2>3, <2>4
<1>4. PlanAt(op, disk).migrates \in BOOLEAN
  BY <1>1 DEF PlanAt, Operation
<1>5. QED
  BY <1>2, <1>3, <1>4 DEF PlanAt, Plan

\* Nobody holds anything at first.
LEMMA NoTaskType == NoTask \in Task /\ NoPlan \in Plan /\ NoBundle \in Bundle
<1>1. NoPlan \in Plan
  <2>1. << >> \in [{} -> Contents]
    OBVIOUS
  <2>2. QED
    BY <2>1 DEF NoPlan, Plan
<1>2. QED
  BY <1>1 DEF NoTask, Task, NoBundle, Bundle

\* Assigning to one place of a sequence keeps it a sequence.
LEMMA SeqUpdate ==
    ASSUME NEW S, NEW s \in Seq(S), NEW i, NEW e \in S
    PROVE  [s EXCEPT ![i] = e] \in Seq(S)
<1>1. s \in [1 .. Len(s) -> S] /\ Len(s) \in Nat
  OBVIOUS
<1>2. [s EXCEPT ![i] = e] \in [1 .. Len(s) -> S]
  BY <1>1
<1>3. QED
  BY <1>1, <1>2

\* The constants of the states before anything happened.
LEMMA TypeInit == Init => TypeInv
<1> SUFFICES ASSUME Init PROVE TypeInv
  OBVIOUS
<1>1. TypeOK
  BY NoTaskType, TransactionAssumption DEF Init, TypeOK, Waiting
<1>2. TaskShape
  BY DEF Init, TaskShape, InTransit, NoTask
<1>3. QED
  BY <1>1, <1>2 DEF TypeInv

\* What moving an invocation to another place does to TypeInv.
LEMMA GotoType ==
    ASSUME TypeInv, NEW p \in Procs, NEW label \in (Waiting \cup Holding) \ {"idle"},
           Goto(p, label), UNCHANGED task,
           label \in InTransit => task[p].todo # {}
    PROVE  /\ pc' \in [Procs -> Waiting \cup Holding]
           /\ task' \in [Procs -> Task]
           /\ TaskShape'
<1>1. pc \in [Procs -> Waiting \cup Holding] /\ task \in [Procs -> Task]
  BY DEF TypeInv, TypeOK
<1>2. TaskShape'
  BY <1>1 DEF TypeInv, TaskShape, Goto, Changes
<1>3. QED
  BY <1>1, <1>2 DEF Goto

\* What the end of an invocation does to TypeInv.
LEMMA LeaveType ==
    ASSUME TypeInv, NEW p \in Procs, Leave(p)
    PROVE  /\ pc' \in [Procs -> Waiting \cup Holding]
           /\ task' \in [Procs -> Task]
           /\ TaskShape'
<1>1. pc \in [Procs -> Waiting \cup Holding] /\ task \in [Procs -> Task]
  BY DEF TypeInv, TypeOK
<1>2. pc' \in [Procs -> Waiting \cup Holding] /\ task' \in [Procs -> Task]
  BY <1>1, NoTaskType DEF Leave, Goto, Waiting
<1>3. TaskShape'
  BY <1>1 DEF TypeInv, TaskShape, Leave, Goto, Changes, NoTask, InTransit
<1>4. QED
  BY <1>2, <1>3

\* The values that a single place of the bundle can take.
LEMMA BundleType ==
    ASSUME TypeOK, NEW t \in Txns \cup {NoTxn}
    PROVE  /\ \A value \in Results \cup {"NONE", Torn} :
                  [bundle EXCEPT ![t].receipt = value] \in [Txns -> Bundle]
           /\ \A i : \A state \in ActionStates :
                  [bundle EXCEPT ![t].journal[i] = state] \in [Txns -> Bundle]
           /\ \A b \in Bundle : [bundle EXCEPT ![t] = b] \in [Txns -> Bundle]
<1>1. bundle \in [Txns -> Bundle]
  BY DEF TypeOK
<1>2. ASSUME NEW value \in Results \cup {"NONE", Torn}
      PROVE  [bundle EXCEPT ![t].receipt = value] \in [Txns -> Bundle]
  BY <1>1 DEF Bundle
<1>3. ASSUME NEW i, NEW state \in ActionStates
      PROVE  [bundle EXCEPT ![t].journal[i] = state] \in [Txns -> Bundle]
  <2>1. \A u \in Txns : [bundle[u].journal EXCEPT ![i] = state] \in Seq(ActionStates)
    BY <1>1, SeqUpdate DEF Bundle
  <2>2. QED
    BY <1>1, <2>1 DEF Bundle
<1>4. QED
  BY <1>1, <1>2, <1>3

\* Shrinking what is still to do keeps an invocation's memory a task.
LEMMA TodoUpdate ==
    ASSUME TypeOK, NEW p \in Procs, NEW todo \in SUBSET Nat,
           task' = [task EXCEPT ![p].todo = todo]
    PROVE  /\ task' \in [Procs -> Task]
           /\ \A q \in Procs \ {p} : task'[q] = task[q]
           /\ \A q \in Procs :
                  /\ task'[q].mode = task[q].mode /\ task'[q].plan = task[q].plan
                  /\ task'[q].txn = task[q].txn /\ task'[q].view = task[q].view
                  /\ task'[q].todo = IF q = p THEN todo ELSE task[q].todo
<1>1. task \in [Procs -> Task]
  BY DEF TypeOK
<1>2. \A r \in Task : /\ [r EXCEPT !.todo = todo] \in Task
                      /\ [r EXCEPT !.todo = todo].mode = r.mode
                      /\ [r EXCEPT !.todo = todo].plan = r.plan
                      /\ [r EXCEPT !.todo = todo].txn = r.txn
                      /\ [r EXCEPT !.todo = todo].view = r.view
                      /\ [r EXCEPT !.todo = todo].todo = todo
  BY DEF Task
<1>3. \A q \in Procs : task'[q] = IF q = p THEN [task[q] EXCEPT !.todo = todo] ELSE task[q]
  BY <1>1
<1>4. task' \in [Procs -> Task]
  BY <1>1, <1>2, Zenon
<1>5. ASSUME NEW q \in Procs
      PROVE  /\ task'[q].mode = task[q].mode
             /\ task'[q].plan = task[q].plan
             /\ task'[q].txn = task[q].txn
             /\ task'[q].view = task[q].view
             /\ task'[q].todo = IF q = p THEN todo ELSE task[q].todo
  <2>1. task[q] \in Task
    BY <1>1
  <2> DEFINE new == [task[q] EXCEPT !.todo = todo]
  <2>2. /\ new.mode = task[q].mode /\ new.plan = task[q].plan
        /\ new.txn = task[q].txn /\ new.view = task[q].view /\ new.todo = todo
    BY <1>2, <2>1, Zenon
  <2>3. task'[q] = IF q = p THEN new ELSE task[q]
    BY <1>3, Zenon
  <2> HIDE DEF new
  <2>4. QED
    BY <2>2, <2>3
<1>6. \A q \in Procs \ {p} : task'[q] = task[q]
  BY <1>1
<1>7. QED
  BY <1>4, <1>5, <1>6, Zenon

\* Naming the transaction an invocation works on keeps its memory a task.
LEMMA TxnUpdate ==
    ASSUME TypeOK, NEW p \in Procs, NEW t \in Txns,
           task' = [task EXCEPT ![p].txn = t]
    PROVE  /\ task' \in [Procs -> Task]
           /\ \A q \in Procs \ {p} : task'[q] = task[q]
           /\ \A q \in Procs :
                  /\ task'[q].mode = task[q].mode /\ task'[q].plan = task[q].plan
                  /\ task'[q].txn = IF q = p THEN t ELSE task[q].txn
                  /\ task'[q].view = task[q].view /\ task'[q].todo = task[q].todo
<1>1. task \in [Procs -> Task]
  BY DEF TypeOK
<1>2. \A r \in Task : /\ [r EXCEPT !.txn = t] \in Task
                      /\ [r EXCEPT !.txn = t].mode = r.mode
                      /\ [r EXCEPT !.txn = t].plan = r.plan
                      /\ [r EXCEPT !.txn = t].txn = t
                      /\ [r EXCEPT !.txn = t].view = r.view
                      /\ [r EXCEPT !.txn = t].todo = r.todo
  BY DEF Task
<1>3. \A q \in Procs : task'[q] = IF q = p THEN [task[q] EXCEPT !.txn = t] ELSE task[q]
  BY <1>1
<1>4. task' \in [Procs -> Task]
  BY <1>1, <1>2, Zenon
<1>5. ASSUME NEW q \in Procs
      PROVE  /\ task'[q].mode = task[q].mode
             /\ task'[q].plan = task[q].plan
             /\ task'[q].txn = IF q = p THEN t ELSE task[q].txn
             /\ task'[q].view = task[q].view
             /\ task'[q].todo = task[q].todo
  <2>1. task[q] \in Task
    BY <1>1
  <2> DEFINE new == [task[q] EXCEPT !.txn = t]
  <2>2. /\ new.mode = task[q].mode /\ new.plan = task[q].plan
        /\ new.txn = t /\ new.view = task[q].view /\ new.todo = task[q].todo
    BY <1>2, <2>1, Zenon
  <2>3. task'[q] = IF q = p THEN new ELSE task[q]
    BY <1>3, Zenon
  <2> HIDE DEF new
  <2>4. QED
    BY <2>2, <2>3
<1>6. \A q \in Procs \ {p} : task'[q] = task[q]
  BY <1>1
<1>7. QED
  BY <1>4, <1>5, <1>6, Zenon

\* Approving a plan keeps an invocation's memory a task.
LEMMA PlanUpdate ==
    ASSUME TypeOK, NEW p \in Procs, NEW plan \in Plan,
           task' = [task EXCEPT ![p].plan = plan]
    PROVE  /\ task' \in [Procs -> Task]
           /\ \A q \in Procs \ {p} : task'[q] = task[q]
           /\ \A q \in Procs :
                  /\ task'[q].plan = IF q = p THEN plan ELSE task[q].plan
                  /\ task'[q].mode = task[q].mode /\ task'[q].txn = task[q].txn
                  /\ task'[q].view = task[q].view /\ task'[q].todo = task[q].todo
<1>1. task \in [Procs -> Task]
  BY DEF TypeOK
<1>2. \A r \in Task : /\ [r EXCEPT !.plan = plan] \in Task
                      /\ [r EXCEPT !.plan = plan].mode = r.mode
                      /\ [r EXCEPT !.plan = plan].plan = plan
                      /\ [r EXCEPT !.plan = plan].txn = r.txn
                      /\ [r EXCEPT !.plan = plan].view = r.view
                      /\ [r EXCEPT !.plan = plan].todo = r.todo
  BY DEF Task
<1>3. \A q \in Procs : task'[q] = IF q = p THEN [task[q] EXCEPT !.plan = plan] ELSE task[q]
  BY <1>1
<1>4. task' \in [Procs -> Task]
  BY <1>1, <1>2, Zenon
<1>5. ASSUME NEW q \in Procs
      PROVE  /\ task'[q].mode = task[q].mode
             /\ task'[q].plan = IF q = p THEN plan ELSE task[q].plan
             /\ task'[q].txn = task[q].txn
             /\ task'[q].view = task[q].view
             /\ task'[q].todo = task[q].todo
  <2>1. task[q] \in Task
    BY <1>1
  <2> DEFINE new == [task[q] EXCEPT !.plan = plan]
  <2>2. /\ new.mode = task[q].mode /\ new.plan = plan
        /\ new.txn = task[q].txn /\ new.view = task[q].view /\ new.todo = task[q].todo
    BY <1>2, <2>1, Zenon
  <2>3. task'[q] = IF q = p THEN new ELSE task[q]
    BY <1>3, Zenon
  <2> HIDE DEF new
  <2>4. QED
    BY <2>2, <2>3
<1>6. \A q \in Procs \ {p} : task'[q] = task[q]
  BY <1>1
<1>7. QED
  BY <1>4, <1>5, <1>6, Zenon

\* Writing the receipt keeps a bundle a bundle.
LEMMA ReceiptUpdate ==
    ASSUME TypeOK, NEW t \in Txns \cup {NoTxn}, NEW u \in Txns, NEW value,
           bundle' = [bundle EXCEPT ![t].receipt = value]
    PROVE  /\ bundle'[u].plan = bundle[u].plan /\ bundle'[u].journal = bundle[u].journal
           /\ bundle'[u].receipt = IF u = t THEN value ELSE bundle[u].receipt
<1>1. bundle \in [Txns -> Bundle] /\ bundle[u] \in Bundle
  BY DEF TypeOK
<1>2. bundle'[u] = IF u = t THEN [bundle[u] EXCEPT !.receipt = value] ELSE bundle[u]
  BY <1>1
<1>3. QED
  BY <1>1, <1>2 DEF Bundle

\* Writing one journal state keeps a bundle a bundle.
LEMMA JournalUpdate ==
    ASSUME TypeOK, NEW t \in Txns \cup {NoTxn}, NEW u \in Txns, NEW i, NEW state,
           bundle' = [bundle EXCEPT ![t].journal[i] = state]
    PROVE  /\ bundle'[u].plan = bundle[u].plan /\ bundle'[u].receipt = bundle[u].receipt
           /\ bundle'[u].journal = IF u = t THEN [bundle[u].journal EXCEPT ![i] = state]
                                            ELSE bundle[u].journal
<1>1. bundle \in [Txns -> Bundle] /\ bundle[u] \in Bundle
  BY DEF TypeOK
<1>2. bundle'[u] = IF u = t THEN [bundle[u] EXCEPT !.journal[i] = state] ELSE bundle[u]
  BY <1>1
<1>3. QED
  BY <1>1, <1>2 DEF Bundle

\* What the writes to a bundle do to its type.
LEMMA RecordType ==
    ASSUME TypeInv, NEW p \in Procs, NEW state \in ActionStates, Record(p, state)
    PROVE  bundle' \in [Txns -> Bundle]
<1>1. TypeOK /\ task[p].txn \in Txns \cup {NoTxn}
  BY DEF TypeInv, TypeOK, Task
<1>2. QED
  BY <1>1, BundleType, Zenon DEF Record

\* The receipt an invocation writes keeps every bundle a bundle.
LEMMA SetReceiptType ==
    ASSUME TypeInv, NEW p \in Procs, NEW value \in Results \cup {"NONE", Torn}, NEW label,
           SetReceipt(p, value, label)
    PROVE  bundle' \in [Txns -> Bundle] /\ Goto(p, label)
<1>1. TypeOK /\ task[p].txn \in Txns \cup {NoTxn}
  BY DEF TypeInv, TypeOK, Task
<1>2. QED
  BY <1>1, BundleType DEF SetReceipt

\* Removing a staged bundle keeps every bundle a bundle.
LEMMA CleanupType ==
    ASSUME TypeInv, NEW p \in Procs, Cleanup(task[p].txn)
    PROVE  bundle' \in [Txns -> Bundle]
<1>1. TypeOK /\ task[p].txn \in Txns \cup {NoTxn}
  BY DEF TypeInv, TypeOK, Task
<1>2. QED
  BY <1>1, BundleType, NoTaskType, Zenon DEF Cleanup

\* An invocation whose memory changes in one of the ways above keeps its shape.
LEMMA AssignType ==
    ASSUME TypeInv, NEW p \in Procs, NEW label \in (Waiting \cup Holding) \ (InTransit \cup {"idle"}),
           Goto(p, label), task' \in [Procs -> Task],
           \A q \in Procs \ {p} : task'[q] = task[q],
           task'[p].todo \subseteq DOMAIN task'[p].plan.changes
    PROVE  /\ pc' \in [Procs -> Waiting \cup Holding]
           /\ task' \in [Procs -> Task]
           /\ TaskShape'
<1>1. pc \in [Procs -> Waiting \cup Holding]
  BY DEF TypeInv, TypeOK
<1>2. QED
  BY <1>1 DEF Goto, TypeInv, TaskShape, Changes

\* An error return keeps the types.
LEMMA RefuseType ==
    ASSUME TypeInv, NEW p \in Procs, Refuse(p), UNCHANGED <<lateEdits, budget>>
    PROVE  TypeInv'
<1>1. "unwinding" \in (Waiting \cup Holding) \ {"idle"} /\ "unwinding" \notin InTransit
  BY DEF Holding, InTransit
<1>2. pc' \in [Procs -> Waiting \cup Holding] /\ task' \in [Procs -> Task] /\ TaskShape'
  BY <1>1, GotoType DEF Refuse
<1>3. QED
  BY <1>2 DEF TypeInv, TypeOK, Refuse, files

\* Every step keeps the types.
LEMMA TypeStep ==
    ASSUME TypeInv, [Next]_vars
    PROVE  TypeInv'
<1> USE DEF files
<1>1. ASSUME NEW p \in Procs, Run(p)
      PROVE  TypeInv'
  <2>0. \A label \in (Waiting \cup Holding) \ {"idle"} :
            /\ Goto(p, label) /\ UNCHANGED task
            /\ label \in InTransit => task[p].todo # {}
            => /\ pc' \in [Procs -> Waiting \cup Holding]
               /\ task' \in [Procs -> Task]
               /\ TaskShape'
    BY GotoType
  <2>1. CASE AcquireLock(p)
    BY <2>0, <2>1, LeaveType DEF AcquireLock, TypeInv, TypeOK, Holding, InTransit
  <2>2. CASE AdmitMutation(p)
    BY <2>0, <2>2, RefuseType DEF AdmitMutation, TypeInv, TypeOK, Holding, InTransit
  <2>3. CASE VerifyPlan(p)
    BY <2>0, <2>3, RefuseType DEF VerifyPlan, TypeInv, TypeOK, Holding, InTransit
  <2>4. CASE StageBundle(p)
    <3>1. CASE Refuse(p)
      BY <2>4, <3>1, RefuseType DEF StageBundle
    <3>2. CASE ~Refuse(p)
      <4>1. PICK t \in Unused :
                /\ bundle' = [bundle EXCEPT ![t] =
                       [plan |-> task[p].plan,
                        journal |-> [i \in DOMAIN Changes(p) |-> "PENDING"],
                        receipt |-> "NONE"]]
                /\ task' = [task EXCEPT ![p].txn = t]
        BY <2>4, <3>2 DEF StageBundle
      <4>2. t \in Txns
        BY DEF Unused
      <4>3. /\ pc' \in [Procs -> Waiting \cup Holding] /\ task' \in [Procs -> Task]
            /\ TaskShape'
        <5>1. /\ task' \in [Procs -> Task]
              /\ \A q \in Procs : task'[q].plan = task[q].plan /\ task'[q].todo = task[q].todo
              /\ \A q \in Procs \ {p} : task'[q] = task[q]
          BY <4>1, <4>2, TxnUpdate DEF TypeInv
        <5>2. QED
          BY <2>4, <3>2, <5>1, AssignType DEF StageBundle, Holding, InTransit, TypeInv, TaskShape, Changes
      <4>4. [i \in DOMAIN Changes(p) |-> "PENDING"] \in Seq(ActionStates)
        BY DEF Changes, TypeInv, TypeOK, Task, Plan, ActionStates
      <4>5. task[p].plan \in Plan
        BY DEF TypeInv, TypeOK, Task
      <4>6. bundle' \in [Txns -> Bundle]
        BY <4>1, <4>2, <4>4, <4>5 DEF TypeInv, TypeOK, Bundle
      <4>7. QED
        BY <2>4, <3>2, <4>3, <4>6 DEF StageBundle, TypeInv, TypeOK
    <3>3. QED
      BY <3>1, <3>2
  <2>5. CASE CreatePointer(p)
    BY <2>0, <2>5, CleanupType DEF CreatePointer, TypeInv, TypeOK, Holding, InTransit
  <2>6. CASE WritePointer(p)
    <3>1. /\ pc' \in [Procs -> Waiting \cup Holding] /\ task' \in [Procs -> Task]
          /\ TaskShape'
      <4>1. DOMAIN Changes(p) \in SUBSET Nat
        BY DEF TypeInv, TypeOK, Task, Plan, Changes
      <4>2. /\ task' \in [Procs -> Task]
            /\ \A q \in Procs : /\ task'[q].plan = task[q].plan
                               /\ task'[q].todo = IF q = p THEN DOMAIN Changes(p)
                                                           ELSE task[q].todo
            /\ \A q \in Procs \ {p} : task'[q] = task[q]
        BY <2>6, <4>1, TodoUpdate DEF WritePointer, TypeInv
      <4>3. QED
        BY <2>6, <4>2, AssignType DEF WritePointer, Holding, InTransit, Changes
    <3>2. pointer' \in Txns \cup {NoTxn, Torn}
      BY <2>6 DEF WritePointer, TypeInv, TypeOK, Task
    <3>3. QED
      BY <2>6, <3>1, <3>2 DEF WritePointer, TypeInv, TypeOK
  <2>7. CASE BeginAction(p)
    <3>1. CASE Refuse(p)
      BY <3>1, <2>7, RefuseType DEF BeginAction
    <3>2. CASE ~Refuse(p)
      BY <2>0, <2>7, <3>2, RecordType DEF BeginAction, ActionStates, TypeInv, TypeOK, Holding, InTransit
    <3> QED
      BY <3>1, <3>2
  <2>8. CASE PerformCreate(p)
    BY <2>0, <2>8, RefuseType, CurrentChangeType DEF PerformCreate, TypeInv, TypeOK, Holding, InTransit, SetDisk, Publishing, TaskShape
  <2>9. CASE CheckUpdate(p)
    BY <2>0, <2>9, RefuseType DEF CheckUpdate, TypeInv, TypeOK, Holding, InTransit, Publishing, TaskShape
  <2>10. CASE RenameUpdate(p)
    BY <2>0, <2>10, CurrentChangeType DEF RenameUpdate, TypeInv, TypeOK, Holding, InTransit, SetDisk, TaskShape
  <2>11. CASE PerformDelete(p)
    BY <2>0, <2>11, RefuseType DEF PerformDelete, TypeInv, TypeOK, Holding, InTransit, SetDisk, Publishing, TaskShape, Contents
  <2>12. CASE MarkApplied(p)
    BY <2>0, <2>12, RecordType DEF MarkApplied, ActionStates, TypeInv, TypeOK, TaskShape, Holding, InTransit
  <2>13. CASE VerifyAction(p)
    <3>1. CASE Refuse(p)
      BY <2>13, <3>1, RefuseType DEF VerifyAction
    <3>2. CASE ~Refuse(p)
      <4>1. /\ IF task[p].mode = "APPLY" THEN Record(p, "VERIFIED") ELSE UNCHANGED bundle
            /\ task' = [task EXCEPT ![p].todo = task[p].todo \ {Current(p)}]
            /\ Goto(p, "ready")
            /\ UNCHANGED <<disk, lock, pointer, migrationReceipt, lateEdits, budget>>
        BY <2>13, <3>2 DEF VerifyAction
      <4>2. task[p].todo \ {Current(p)} \in SUBSET DOMAIN Changes(p)
        BY DEF TypeInv, TaskShape
      <4>3. /\ pc' \in [Procs -> Waiting \cup Holding] /\ task' \in [Procs -> Task]
            /\ TaskShape'
        <5> DEFINE rest == task[p].todo \ {Current(p)}
        <5>1. rest \in SUBSET Nat /\ rest \subseteq DOMAIN task[p].plan.changes
          BY <4>2 DEF TypeInv, TypeOK, Task, Changes
        <5>2. task' = [task EXCEPT ![p].todo = rest] /\ TypeOK
          BY <4>1 DEF TypeInv
        <5> HIDE DEF rest
        <5>3. /\ task' \in [Procs -> Task]
              /\ task'[p].plan = task[p].plan /\ task'[p].todo = rest
              /\ \A q \in Procs \ {p} : task'[q] = task[q]
          <6>1. \A q \in Procs : /\ task'[q].plan = task[q].plan
                                 /\ task'[q].todo = IF q = p THEN rest ELSE task[q].todo
            BY <5>1, <5>2, TodoUpdate, Zenon
          <6>2. task' \in [Procs -> Task] /\ \A q \in Procs \ {p} : task'[q] = task[q]
            BY <5>1, <5>2, TodoUpdate, Zenon
          <6>3. QED
            BY <6>1, <6>2
        <5>4. QED
          BY <4>1, <5>1, <5>3, AssignType DEF Holding, InTransit
      <4>4. bundle' \in [Txns -> Bundle]
        BY <4>1, RecordType DEF ActionStates, TypeInv, TypeOK
      <4>5. QED
        BY <4>1, <4>3, <4>4 DEF TypeInv, TypeOK
    <3>3. QED
      BY <3>1, <3>2
  <2>14. CASE FinishActions(p)
    BY <2>0, <2>14, RefuseType DEF FinishActions, TypeInv, TypeOK, Holding, InTransit
  <2>15. CASE WriteMigrationReceipt(p)
    BY <2>0, <2>15, RefuseType DEF WriteMigrationReceipt, TypeInv, TypeOK, Holding, InTransit, Task
  <2>16. CASE CreateReceipt(p)
    BY <2>0, <2>16, SetReceiptType DEF CreateReceipt, Result, Results, TypeInv, TypeOK, Holding, InTransit
  <2>17. CASE WriteReceipt(p)
    BY <2>0, <2>17, SetReceiptType DEF WriteReceipt, Result, Results, TypeInv, TypeOK, Holding, InTransit
  <2>18. CASE ClearPointer(p)
    BY <2>0, <2>18 DEF ClearPointer, TypeInv, TypeOK, Holding, InTransit
  <2>19. CASE Unlock(p)
    BY <2>0, <2>19, LeaveType DEF Unlock, TypeInv, TypeOK, Holding, InTransit
  <2>20. CASE Replan(p)
    BY <2>0, <2>20, LeaveType DEF Replan, TypeInv, TypeOK, Holding, InTransit, Waiting
  <2>21. CASE LoadEvidence(p)
    BY <2>0, <2>21, LeaveType DEF LoadEvidence, TypeInv, TypeOK, Holding, InTransit, Waiting
  <2>22. CASE LockRecovery(p)
    BY <2>0, <2>22, LeaveType DEF LockRecovery, TypeInv, TypeOK, Holding, InTransit
  <2>23. CASE VerifyRecovery(p)
    BY <2>0, <2>23, RefuseType DEF VerifyRecovery, TypeInv, TypeOK, Holding, InTransit
  <2> QED
    BY <1>1, <2>1, <2>2, <2>3, <2>4, <2>5, <2>6, <2>7, <2>8, <2>9, <2>10, <2>11, <2>12, <2>13,
       <2>14, <2>15, <2>16, <2>17, <2>18, <2>19, <2>20, <2>21, <2>22, <2>23 DEF Run
<1>2. ASSUME NEW p \in Procs, Recover(p)
      PROVE  TypeInv'
  <2>1. PICK action \in {"ROLLBACK", "CONTINUE"} : PlanRecovery(p, action)
    BY <1>2 DEF Recover
  <2> DEFINE new == [mode |-> action, plan |-> LivePlan, txn |-> pointer,
                     view |-> bundle[pointer].journal, todo |-> Todo(action)]
  <2>2. pointer \in Txns /\ bundle[pointer] \in Bundle
    BY <2>1 DEF PlanRecovery, Loadable, TypeInv, TypeOK
  <2>3. LivePlan \in Plan /\ DOMAIN LivePlan.changes \subseteq Nat
    BY <2>2 DEF LivePlan, Bundle, Plan
  <2>4. Todo(action) \subseteq DOMAIN LivePlan.changes
    BY DEF Todo, RecoveryIndices, RollbackIndices, ContinueIndices
  <2>5. new \in Task
    BY <2>2, <2>3, <2>4 DEF Task, Bundle
  <2>6. /\ pc' \in [Procs -> Waiting \cup Holding] /\ task' \in [Procs -> Task]
        /\ TaskShape'
    <3>1. new.todo \subseteq DOMAIN new.plan.changes
      BY <2>4
    <3>2. task' = [task EXCEPT ![p] = new] /\ Goto(p, "planned")
      BY <2>1 DEF PlanRecovery
    <3> HIDE DEF new
    <3>3. /\ task' \in [Procs -> Task]
          /\ \A q \in Procs : task'[q] = IF q = p THEN new ELSE task[q]
      BY <2>5, <3>2 DEF TypeInv, TypeOK
    <3>4. QED
      BY <3>1, <3>2, <3>3, AssignType DEF Waiting, InTransit
  <2>7. QED
    BY <2>1, <2>6 DEF PlanRecovery, TypeInv, TypeOK
<1>3. ASSUME NEW p \in Procs, Fail(p)
      PROVE  TypeInv'
  <2>1. budget' \in [Faults -> Nat]
    BY <1>3 DEF Fail, Spend, TypeInv, TypeOK, Faults
  <2>2. bundle' \in [Txns -> Bundle]
    BY <1>3, CleanupType DEF Fail, TypeInv, TypeOK
  <2>3. pointer' \in Txns \cup {NoTxn, Torn}
    BY <1>3 DEF Fail, TypeInv, TypeOK, Task
  <2>4. /\ pc' \in [Procs -> Waiting \cup Holding] /\ task' \in [Procs -> Task]
        /\ TaskShape'
    BY <1>3, GotoType DEF Fail, Holding, InTransit
  <2>5. QED
    BY <1>3, <2>1, <2>2, <2>3, <2>4 DEF Fail, TypeInv, TypeOK
<1>4. ASSUME NEW p \in Procs, Crash(p)
      PROVE  TypeInv'
  <2>1. budget' \in [Faults -> Nat]
    BY <1>4 DEF Crash, Spend, TypeInv, TypeOK, Faults
  <2>2. QED
    BY <1>4, <2>1, LeaveType DEF Crash, TypeInv, TypeOK
<1>5. ASSUME NEW p \in Procs, NEW op \in Operations, Propose(p, op)
      PROVE  TypeInv'
  <2>1. PlanAt(op, disk) \in Plan
    BY PlanAtType DEF TypeInv
  <2>2. /\ task' = [task EXCEPT ![p].plan = PlanAt(op, disk)]
        /\ Goto(p, "approved") /\ task[p] = NoTask
    BY <1>5 DEF Propose, TypeInv, TaskShape
  <2>3. /\ task' \in [Procs -> Task] /\ task'[p].todo = {}
        /\ \A q \in Procs \ {p} : task'[q] = task[q]
    <3> DEFINE plan == PlanAt(op, disk)
    <3>1. plan \in Plan /\ task' = [task EXCEPT ![p].plan = plan] /\ TypeOK
      BY <2>1, <2>2 DEF TypeInv
    <3> HIDE DEF plan
    <3>2. /\ task' \in [Procs -> Task] /\ task'[p].todo = task[p].todo
          /\ \A q \in Procs \ {p} : task'[q] = task[q]
      BY <3>1, PlanUpdate
    <3>3. QED
      BY <2>2, <3>2 DEF NoTask
  <2>4. /\ pc' \in [Procs -> Waiting \cup Holding] /\ task' \in [Procs -> Task]
        /\ TaskShape'
    BY <2>2, <2>3, AssignType DEF Waiting, InTransit
  <2>5. QED
    BY <1>5, <2>4 DEF Propose, files, TypeInv, TypeOK
<1>6. ASSUME NEW q \in Editable, Edit(q)
      PROVE  TypeInv'
  <2>1. budget' \in [Faults -> Nat]
    BY <1>6 DEF Edit, Spend, TypeInv, TypeOK, Faults
  <2>2. disk' \in [Paths -> Contents]
    BY <1>6 DEF Edit, TypeInv, TypeOK, Contents
  <2>3. lateEdits' \subseteq Paths
    BY <1>6, TransactionAssumption DEF Edit, TypeInv, TypeOK
  <2>4. QED
    BY <1>6, <2>1, <2>2, <2>3 DEF Edit, TypeInv, TypeOK, TaskShape, Changes
<1>7. CASE ClearStaleLock
  BY <1>7 DEF ClearStaleLock, TypeInv, TypeOK, TaskShape, Changes
<1>8. CASE UNCHANGED vars
  BY <1>8 DEF vars, TypeInv, TypeOK, TaskShape, Changes
<1>9. QED
  BY <1>1, <1>2, <1>3, <1>4, <1>5, <1>6, <1>7, <1>8 DEF Next

\* For every workspace, set of operations and number of invocations, every
\* file and every invocation's memory keeps its shape, whatever fails, dies
\* or is edited: nothing but contents the plans mention ever reaches a path.
THEOREM TypeCorrect == Spec => []TypeOK
<1>1. TypeInv /\ [Next]_vars => TypeInv'
  BY TypeStep
<1>2. TypeInv => TypeOK
  BY DEF TypeInv
<1>3. QED
  BY TypeInit, <1>1, <1>2, PTL DEF Spec

-----------------------------------------------------------------------------
(* The lock.  LockExclusion is inductive by itself: it needs no more than  *)
(* the places between which the invocations move.                          *)

\* An invocation moves without touching the lock file, creates it where there
\* was none, or removes it on its way out.
LEMMA LockMove ==
    ASSUME TypeOK, LockExclusion, NEW p \in Procs, NEW label, Goto(p, label),
           \/ lock' = lock /\ (label \in Holding => pc[p] \in Holding)
           \/ lock = FALSE /\ lock' = TRUE
           \/ lock' = FALSE /\ pc[p] \in Holding /\ label \notin Holding
    PROVE  LockExclusion'
<1>1. \A q \in Procs : pc'[q] = IF q = p THEN label ELSE pc[q]
  BY DEF TypeOK, Goto
<1>2. \A q \in Procs : q \in Holders <=> pc[q] \in Holding
  BY DEF Holders
<1>3. \A q \in Procs : q \in Holders' <=> pc'[q] \in Holding
  BY DEF Holders
<1>4. Holders \subseteq Procs /\ Holders' \subseteq Procs
  BY DEF Holders
<1> HIDE DEF Holders
<1>5. QED
  BY <1>1, <1>2, <1>3, <1>4 DEF LockExclusion

\* Every step keeps the lock exclusive.
LEMMA LockStep ==
    ASSUME TypeOK, LockExclusion, [Next]_vars
    PROVE  LockExclusion'
<1>1. ASSUME NEW p \in Procs, Run(p)
      PROVE  LockExclusion'
  <2>0. \A label : /\ Goto(p, label)
                   /\ \/ lock' = lock /\ (label \in Holding => pc[p] \in Holding)
                      \/ lock = FALSE /\ lock' = TRUE
                      \/ lock' = FALSE /\ pc[p] \in Holding /\ label \notin Holding
                   => LockExclusion'
    BY LockMove
  <2>1. CASE AcquireLock(p)
    BY <2>0, <2>1 DEF AcquireLock, Refuse, files, Holding, Leave
  <2>2. CASE AdmitMutation(p)
    BY <2>0, <2>2 DEF AdmitMutation, Refuse, files, Holding
  <2>3. CASE VerifyPlan(p)
    BY <2>0, <2>3 DEF VerifyPlan, Refuse, files, Holding
  <2>4. CASE StageBundle(p)
    BY <2>0, <2>4 DEF StageBundle, Refuse, files, Holding
  <2>5. CASE CreatePointer(p)
    BY <2>0, <2>5 DEF CreatePointer, Refuse, files, Holding
  <2>6. CASE WritePointer(p)
    BY <2>0, <2>6 DEF WritePointer, Refuse, files, Holding
  <2>7. CASE BeginAction(p)
    BY <2>0, <2>7 DEF BeginAction, Refuse, files, Holding
  <2>8. CASE PerformCreate(p)
    BY <2>0, <2>8 DEF PerformCreate, Refuse, files, Holding, SetDisk, Publishing
  <2>9. CASE CheckUpdate(p)
    BY <2>0, <2>9 DEF CheckUpdate, Refuse, files, Holding, Publishing
  <2>10. CASE RenameUpdate(p)
    BY <2>0, <2>10 DEF RenameUpdate, Refuse, files, Holding, SetDisk
  <2>11. CASE PerformDelete(p)
    BY <2>0, <2>11 DEF PerformDelete, Refuse, files, Holding, SetDisk, Publishing
  <2>12. CASE MarkApplied(p)
    BY <2>0, <2>12 DEF MarkApplied, Refuse, files, Holding
  <2>13. CASE VerifyAction(p)
    BY <2>0, <2>13 DEF VerifyAction, Refuse, files, Holding
  <2>14. CASE FinishActions(p)
    BY <2>0, <2>14 DEF FinishActions, Refuse, files, Holding
  <2>15. CASE WriteMigrationReceipt(p)
    BY <2>0, <2>15 DEF WriteMigrationReceipt, Refuse, files, Holding
  <2>16. CASE CreateReceipt(p)
    BY <2>0, <2>16 DEF CreateReceipt, Refuse, files, Holding, SetReceipt
  <2>17. CASE WriteReceipt(p)
    BY <2>0, <2>17 DEF WriteReceipt, Refuse, files, Holding, SetReceipt
  <2>18. CASE ClearPointer(p)
    BY <2>0, <2>18 DEF ClearPointer, Refuse, files, Holding
  <2>19. CASE Unlock(p)
    BY <2>0, <2>19 DEF Unlock, Refuse, files, Holding, Leave
  <2>20. CASE Replan(p)
    BY <2>0, <2>20 DEF Replan, Refuse, files, Holding, Leave
  <2>21. CASE LoadEvidence(p)
    BY <2>0, <2>21 DEF LoadEvidence, Refuse, files, Holding, Leave
  <2>22. CASE LockRecovery(p)
    BY <2>0, <2>22 DEF LockRecovery, Refuse, files, Holding, Leave
  <2>23. CASE VerifyRecovery(p)
    BY <2>0, <2>23 DEF VerifyRecovery, Refuse, files, Holding
  <2> QED
    BY <1>1, <2>1, <2>2, <2>3, <2>4, <2>5, <2>6, <2>7, <2>8, <2>9, <2>10, <2>11, <2>12, <2>13, <2>14, <2>15, <2>16, <2>17, <2>18, <2>19, <2>20, <2>21, <2>22, <2>23 DEF Run
<1>2. ASSUME NEW p \in Procs, Recover(p)
      PROVE  LockExclusion'
  BY <1>2, LockMove DEF Recover, PlanRecovery, files, Holding
<1>3. ASSUME NEW p \in Procs, Fail(p)
      PROVE  LockExclusion'
  BY <1>3, LockMove DEF Fail, Holding
<1>4. ASSUME NEW p \in Procs, Crash(p)
      PROVE  LockExclusion'
  BY <1>4, LockMove DEF Crash, Leave, files, Holding
<1>5. ASSUME NEW p \in Procs, NEW op \in Operations, Propose(p, op)
      PROVE  LockExclusion'
  BY <1>5, LockMove DEF Propose, files, Holding
<1>6. ASSUME NEW q \in Editable, Edit(q)
      PROVE  LockExclusion'
  BY <1>6 DEF Edit, LockExclusion, Holders
<1>7. CASE ClearStaleLock
  BY <1>7 DEF ClearStaleLock, LockExclusion, Holders
<1>8. CASE UNCHANGED vars
  BY <1>8 DEF vars, files, LockExclusion, Holders
<1>9. QED
  BY <1>1, <1>2, <1>3, <1>4, <1>5, <1>6, <1>7, <1>8 DEF Next

\* Whatever fails, dies or recovers at the same time, at most one invocation
\* is between taking the lock file and removing it, and the file exists.
THEOREM LockExclusive == Spec => []LockExclusion
<1>1. Init => LockExclusion
  BY DEF Init, LockExclusion, Holders, Holding
<1>2. TypeInv /\ LockExclusion /\ [Next]_vars => LockExclusion'
  BY LockStep DEF TypeInv
<1>3. TypeInv /\ [Next]_vars => TypeInv'
  BY TypeStep
<1>4. QED
  BY TypeInit, <1>1, <1>2, <1>3, PTL DEF Spec

-----------------------------------------------------------------------------
(* No transaction is lost, and nothing is published but under the pointer, *)
(* for every instance in which recoveries are exclusive.  Neither property *)
(* is inductive: both rest on what every invocation knows of RECOVERY.json *)
(* from the place it has reached (PointerOf), which in turn rests on the   *)
(* lock.                                                                   *)

Inv == TypeInv /\ LockExclusion /\ PointerDiscipline

Others(p) == \A r \in Procs \ {p} : PointerOf(r)'

\* While an invocation holds the lock, every other one is undecided, and so
\* knows nothing that a step of the holder could make false.
LEMMA HolderMove ==
    ASSUME Inv, NEW p \in Procs, pc[p] \in Holding, NEW label, Goto(p, label)
    PROVE  Others(p)
<1> SUFFICES ASSUME NEW r \in Procs \ {p}
             PROVE  PointerOf(r)'
  BY DEF Others
<1>1. pc \in [Procs -> Waiting \cup Holding] /\ pc'[r] = pc[r]
  BY DEF Inv, TypeInv, TypeOK, Goto
<1>2. pc[r] \notin Holding
  BY DEF Inv, LockExclusion, Holders
<1>3. pc[r] \notin {"replanned", "loaded"}
  <2>1. pc[r] \in {"replanned", "loaded"} => pc[p] \in Undecided
    BY DEF Inv, PointerDiscipline, PointerOf
  <2>2. QED
    BY <2>1 DEF Holding, Undecided
<1>4. pc'[r] \in Undecided
  BY <1>1, <1>2, <1>3 DEF Waiting, Undecided
<1>5. QED
  BY <1>4 DEF PointerOf, Undecided, Engaged

\* An invocation that does not hold the lock writes no file; the others only
\* have to know that it does not decide on a recovery behind their back.
LEMMA WaitingMove ==
    ASSUME Inv, NEW p \in Procs, NEW label, Goto(p, label),
           UNCHANGED <<pointer, bundle>>,
           \A r \in Procs \ {p} : task'[r] = task[r],
           \/ label \in Undecided
           \/ \A r \in Procs \ {p} : pc[r] \notin {"replanned", "loaded"}
    PROVE  Others(p)
<1> SUFFICES ASSUME NEW r \in Procs \ {p}
             PROVE  PointerOf(r)'
  BY DEF Others
<1>1. pc'[r] = pc[r] /\ task'[r] = task[r] /\ pc'[p] = label
      /\ \A q \in Procs \ {p} : pc'[q] = pc[q]
  BY DEF Inv, TypeInv, TypeOK, Goto
<1>2. PointerOf(r)
  BY DEF Inv, PointerDiscipline
<1>3. pc'[r] \in {"replanned", "loaded"} => \A q \in Procs \ {r} : pc'[q] \in Undecided
  BY <1>1, <1>2 DEF PointerOf
<1>4. \A t : Untouched(t) => Untouched(t)'
  BY DEF Untouched, Started
<1>5. QED
  BY <1>1, <1>2, <1>3, <1>4 DEF PointerOf

\* Steps that leave the records alone lose no transaction.
LEMMA SameRecords ==
    ASSUME NoLostTransaction, UNCHANGED <<pointer, bundle>>
    PROVE  NoLostTransaction'
BY DEF NoLostTransaction, Started

\* An invocation that refuses or ends knows nothing any more.
LEMMA EndedKnows ==
    ASSUME TypeOK, NEW p \in Procs, NEW label, Goto(p, label),
           label \in {"idle", "approved", "planned", "locked", "cleared", "unwinding"}
    PROVE  PointerOf(p)'
<1>1. pc'[p] = label
  BY DEF TypeOK, Goto
<1>2. QED
  BY <1>1 DEF PointerOf, Engaged

\* Writing to the bundle of the transaction the pointer names loses none.
LEMMA PointedBundle ==
    ASSUME NoLostTransaction, UNCHANGED pointer,
           \A u \in Txns \ {pointer} : bundle'[u] = bundle[u]
    PROVE  NoLostTransaction'
BY DEF NoLostTransaction, Started

\* The holder of the lock moves on without writing a record.
LEMMA PlainMove ==
    ASSUME Inv, NEW p \in Procs, pc[p] \in Holding, NEW label, Goto(p, label),
           UNCHANGED <<pointer, bundle>>,
           label \in Engaged => pc[p] \in Engaged /\ task'[p].txn = task[p].txn,
           label \in {"admitted", "verified"} => pointer = NoTxn,
           label \notin {"replanned", "loaded", "staged", "publishing", "receipted"}
    PROVE  PointerDiscipline'
<1>1. Others(p)
  BY HolderMove
<1>2. pc'[p] = label /\ PointerOf(p)
  BY DEF Inv, TypeInv, TypeOK, Goto, PointerDiscipline
<1>3. PointerOf(p)'
  BY <1>2 DEF PointerOf
<1>4. NoLostTransaction'
  BY SameRecords DEF Inv, PointerDiscipline
<1>5. QED
  BY <1>1, <1>3, <1>4 DEF PointerDiscipline, Others

\* An error return keeps what everybody knows.
LEMMA RefuseMove ==
    ASSUME Inv, NEW p \in Procs, pc[p] \in Holding, Refuse(p)
    PROVE  PointerDiscipline'
BY PlainMove DEF Refuse, files, Engaged

\* The end of an invocation keeps what everybody knows.
LEMMA LeaveMove ==
    ASSUME Inv, NEW p \in Procs, Leave(p), UNCHANGED <<pointer, bundle>>
    PROVE  PointerDiscipline'
<1>1. Goto(p, "idle") /\ \A r \in Procs \ {p} : task'[r] = task[r]
  BY DEF Leave, Inv, TypeInv, TypeOK
<1>2. Others(p)
  BY <1>1, WaitingMove DEF Undecided
<1>3. PointerOf(p)' /\ NoLostTransaction'
  BY <1>1, EndedKnows, SameRecords DEF Inv, TypeInv, PointerDiscipline
<1>4. QED
  BY <1>2, <1>3 DEF PointerDiscipline, Others

\* The holder writes to the bundle of the transaction that the pointer names
\* and moves on to a place where it still works on it.
LEMMA EngagedMove ==
    ASSUME Inv, NEW p \in Procs, pc[p] \in Engaged, NEW label \in Engaged, Goto(p, label),
           UNCHANGED pointer, task'[p].txn = task[p].txn,
           \A u \in Txns \ {task[p].txn} : bundle'[u] = bundle[u],
           label = "receipted" => bundle'[task[p].txn].receipt \in Results
    PROVE  PointerDiscipline'
<1>1. Others(p)
  BY HolderMove DEF Engaged, Holding
<1>2. pc'[p] = label /\ PointerOf(p)
  BY DEF Inv, TypeInv, TypeOK, Goto, PointerDiscipline
<1>3. PointerOf(p)'
  BY <1>2 DEF PointerOf, Engaged
<1>4. NoLostTransaction'
  BY <1>2, PointedBundle DEF PointerOf, Inv, PointerDiscipline
<1>5. QED
  BY <1>1, <1>3, <1>4 DEF PointerDiscipline, Others

\* Only the bundle written to changes.
LEMMA OtherBundles ==
    ASSUME TypeOK, NEW p \in Procs
    PROVE  /\ \A state : Record(p, state) =>
                  \A u \in Txns \ {task[p].txn} : bundle'[u] = bundle[u]
           /\ \A value, label : SetReceipt(p, value, label) =>
                  /\ \A u \in Txns \ {task[p].txn} : bundle'[u] = bundle[u]
                  /\ Goto(p, label)
                  /\ task[p].txn \in Txns => bundle'[task[p].txn].receipt = value
           /\ Cleanup(task[p].txn) =>
                  /\ \A u \in Txns \ {task[p].txn} : bundle'[u] = bundle[u]
                  /\ task[p].txn \in Txns => bundle'[task[p].txn] = NoBundle
<1>1. bundle \in [Txns -> Bundle]
  BY DEF TypeOK
<1>2. ASSUME NEW state, Record(p, state), NEW u \in Txns \ {task[p].txn}
      PROVE  bundle'[u] = bundle[u]
  BY <1>1, <1>2, Zenon DEF Record
<1>3. ASSUME NEW value, NEW label, SetReceipt(p, value, label)
      PROVE  /\ \A u \in Txns \ {task[p].txn} : bundle'[u] = bundle[u]
             /\ Goto(p, label)
             /\ task[p].txn \in Txns => bundle'[task[p].txn].receipt = value
  <2>1. bundle' = [bundle EXCEPT ![task[p].txn].receipt = value] /\ Goto(p, label)
    BY <1>3 DEF SetReceipt
  <2>2. \A u \in Txns \ {task[p].txn} : bundle'[u] = bundle[u]
    BY <1>1, <2>1, Zenon
  <2>3. task[p].txn \in Txns => bundle'[task[p].txn].receipt = value
    <3> DEFINE t == task[p].txn
    <3>1. t \in Txns => t \in Txns \cup {NoTxn}
      OBVIOUS
    <3>2. bundle' = [bundle EXCEPT ![t].receipt = value]
      BY <2>1
    <3> HIDE DEF t
    <3>3. t \in Txns => bundle'[t].receipt = IF t = t THEN value ELSE bundle[t].receipt
      BY <3>1, <3>2, ReceiptUpdate, Zenon
    <3>4. QED
      BY <3>3 DEF t
  <2>4. QED
    BY <2>1, <2>2, <2>3
<1>4. Cleanup(task[p].txn) =>
          /\ \A u \in Txns \ {task[p].txn} : bundle'[u] = bundle[u]
          /\ task[p].txn \in Txns => bundle'[task[p].txn] = NoBundle
  BY <1>1 DEF Cleanup
<1>5. QED
  BY <1>2, <1>3, <1>4, Zenon

\* Every step of an invocation keeps what everybody knows.
LEMMA RunKeepsPointer ==
    ASSUME Inv, ExclusiveRecovery, NEW p \in Procs, Run(p)
    PROVE  PointerDiscipline'
<1> USE DEF files
<1>a. TypeOK /\ PointerOf(p) /\ NoLostTransaction
  BY DEF Inv, TypeInv, PointerDiscipline
<1>b. ASSUME Others(p), PointerOf(p)', NoLostTransaction' PROVE PointerDiscipline'
  BY <1>b DEF PointerDiscipline, Others
<1>1. CASE AcquireLock(p)
  <2>1. CASE Leave(p)
    BY <1>1, <2>1, LeaveMove DEF AcquireLock
  <2>2. CASE ~Leave(p)
    <3>1. Goto(p, "locked") /\ UNCHANGED <<pointer, bundle, task>>
          /\ \A r \in Procs : pc[r] \notin {"replanned", "loaded"}
      BY <1>1, <2>2 DEF AcquireLock
    <3>2. Others(p) /\ PointerOf(p)' /\ NoLostTransaction'
      BY <1>a, <3>1, WaitingMove, EndedKnows, SameRecords
    <3>3. QED
      BY <1>b, <3>2
  <2>3. QED
    BY <2>1, <2>2
<1>2. CASE AdmitMutation(p)
  <2>1. CASE Refuse(p)
    BY <1>2, <2>1, RefuseMove DEF AdmitMutation, Holding
  <2>2. CASE ~Refuse(p)
    BY <1>2, <1>a, <2>2, PlainMove DEF AdmitMutation, Holding, Engaged
  <2>3. QED
    BY <2>1, <2>2
<1>3. CASE VerifyPlan(p)
  <2>1. CASE Refuse(p)
    BY <1>3, <2>1, RefuseMove DEF VerifyPlan, Holding
  <2>2. CASE ~Refuse(p)
    BY <1>3, <1>a, <2>2, PlainMove DEF VerifyPlan, Holding, Engaged, PointerOf
  <2>3. QED
    BY <2>1, <2>2
<1>4. CASE StageBundle(p)
  <2>1. CASE Refuse(p)
    BY <1>4, <2>1, RefuseMove DEF StageBundle, Holding
  <2>2. CASE ~Refuse(p)
    <3>1. PICK t \in Unused :
              /\ bundle' = [bundle EXCEPT ![t] =
                     [plan |-> task[p].plan,
                      journal |-> [i \in DOMAIN Changes(p) |-> "PENDING"],
                      receipt |-> "NONE"]]
              /\ task' = [task EXCEPT ![p].txn = t]
      BY <1>4, <2>2 DEF StageBundle
    <3>2. Goto(p, "staged") /\ UNCHANGED pointer /\ pc[p] = "verified"
      BY <1>4, <2>2 DEF StageBundle
    <3>3. t \in Txns /\ pointer = NoTxn
      BY <1>a, <3>2 DEF Unused, PointerOf
    <3>4. Others(p)
      BY <3>2, HolderMove DEF Holding
    <3>5. /\ bundle'[t].journal = [i \in DOMAIN Changes(p) |-> "PENDING"]
          /\ bundle'[t].receipt = "NONE"
          /\ \A u \in Txns \ {t} : bundle'[u] = bundle[u]
      BY <1>a, <3>1, <3>3 DEF TypeOK
    <3>6. ~Started(t)' /\ Untouched(t)'
      BY <3>3, <3>5 DEF Started, Untouched
    <3>7. PointerOf(p)'
      <4>1. task'[p].txn = t
        <5>1. task'[p].txn = IF p = p THEN t ELSE task[p].txn
          BY <1>a, <3>1, <3>3, TxnUpdate, Zenon
        <5>2. QED
          BY <5>1
      <4>2. pc'[p] = "staged"
        BY <1>a, <3>2 DEF TypeOK, Goto
      <4>3. QED
        BY <3>2, <3>3, <3>6, <4>1, <4>2 DEF PointerOf, Engaged
    <3>8. NoLostTransaction'
      BY <1>a, <3>2, <3>5, <3>6 DEF NoLostTransaction, Started
    <3>9. QED
      BY <1>b, <3>4, <3>7, <3>8
  <2>3. QED
    BY <2>1, <2>2
<1>5. CASE CreatePointer(p)
  <2>1. Others(p) /\ pc[p] = "staged" /\ pointer = NoTxn /\ Untouched(task[p].txn)
    BY <1>a, <1>5, HolderMove DEF CreatePointer, PointerOf, Holding
  <2>2. pointer' = Torn /\ Goto(p, "publishing") /\ UNCHANGED <<bundle, task>>
    BY <1>5, <2>1 DEF CreatePointer
  <2>3. PointerOf(p)'
    <3>1. pc'[p] = "publishing"
      BY <1>a, <2>2 DEF TypeOK, Goto
    <3>2. Untouched(task[p].txn)'
      BY <2>1, <2>2 DEF Untouched, Started
    <3>3. QED
      BY <2>2, <3>1, <3>2 DEF PointerOf, Engaged
  <2>4. NoLostTransaction'
    BY <1>a, <2>1, <2>2, TransactionAssumption DEF NoLostTransaction, Started
  <2>5. QED
    BY <1>b, <2>1, <2>3, <2>4
<1>6. CASE WritePointer(p)
  <2> DEFINE t == task[p].txn
  <2>1. pc[p] = "publishing" /\ pointer = Torn /\ Untouched(t)
    BY <1>a, <1>6 DEF WritePointer, PointerOf
  <2>2. pointer' = t /\ t \in Txns /\ Goto(p, "ready") /\ UNCHANGED bundle
    BY <1>6, <2>1 DEF WritePointer, Untouched
  <2>3. Others(p)
    BY <2>1, <2>2, HolderMove DEF Holding
  <2>4. task'[p].txn = t
    <3>1. DOMAIN Changes(p) \in SUBSET Nat
      BY DEF Inv, TypeInv, TypeOK, Task, Plan, Changes
    <3>2. task' = [task EXCEPT ![p].todo = DOMAIN Changes(p)]
      BY <1>6 DEF WritePointer
    <3>3. QED
      BY <1>a, <3>1, <3>2, TodoUpdate
  <2>5. pc'[p] = "ready"
    BY <1>a, <2>2 DEF TypeOK, Goto
  <2>6. PointerOf(p)'
    BY <2>2, <2>4, <2>5 DEF PointerOf
  <2>7. NoLostTransaction'
    BY <1>a, <2>1, <2>2, TransactionAssumption DEF NoLostTransaction, Started
  <2>8. QED
    BY <1>b, <2>3, <2>6, <2>7
<1>7. CASE BeginAction(p)
  <2>1. CASE Refuse(p)
    BY <1>7, <2>1, RefuseMove DEF BeginAction, Holding
  <2>2. CASE ~Refuse(p)
    BY <1>7, <1>a, <2>2, EngagedMove, OtherBundles DEF BeginAction, Engaged
  <2>3. QED
    BY <2>1, <2>2
<1>8. CASE PerformCreate(p)
  <2>1. CASE Refuse(p)
    BY <1>8, <2>1, RefuseMove DEF PerformCreate, Holding, Publishing
  <2>2. CASE ~Refuse(p)
    BY <1>8, <1>a, <2>2, PlainMove DEF PerformCreate, Holding, Engaged, Publishing, SetDisk
  <2>3. QED
    BY <2>1, <2>2
<1>9. CASE CheckUpdate(p)
  <2>1. CASE Refuse(p)
    BY <1>9, <2>1, RefuseMove DEF CheckUpdate, Holding, Publishing
  <2>2. CASE ~Refuse(p)
    BY <1>9, <1>a, <2>2, PlainMove DEF CheckUpdate, Holding, Engaged, Publishing
  <2>3. QED
    BY <2>1, <2>2
<1>10. CASE RenameUpdate(p)
  <2>1. CASE Refuse(p)
    BY <1>10, <2>1, RefuseMove DEF RenameUpdate, Holding
  <2>2. CASE ~Refuse(p)
    BY <1>10, <1>a, <2>2, PlainMove DEF RenameUpdate, Holding, Engaged, SetDisk
  <2>3. QED
    BY <2>1, <2>2
<1>11. CASE PerformDelete(p)
  <2>1. CASE Refuse(p)
    BY <1>11, <2>1, RefuseMove DEF PerformDelete, Holding, Publishing
  <2>2. CASE ~Refuse(p)
    BY <1>11, <1>a, <2>2, PlainMove DEF PerformDelete, Holding, Engaged, Publishing, SetDisk
  <2>3. QED
    BY <2>1, <2>2
<1>12. CASE MarkApplied(p)
  BY <1>12, <1>a, EngagedMove, OtherBundles DEF MarkApplied, Engaged
<1>13. CASE VerifyAction(p)
  <2>1. CASE Refuse(p)
    BY <1>13, <2>1, RefuseMove DEF VerifyAction, Holding
  <2>2. CASE ~Refuse(p)
    <3> DEFINE rest == task[p].todo \ {Current(p)}
    <3>1. /\ IF task[p].mode = "APPLY" THEN Record(p, "VERIFIED") ELSE UNCHANGED bundle
          /\ task' = [task EXCEPT ![p].todo = rest]
          /\ Goto(p, "ready") /\ UNCHANGED pointer /\ pc[p] \in Engaged
      BY <1>13, <2>2 DEF VerifyAction, Engaged
    <3>2. rest \in SUBSET Nat
      BY <1>a DEF TypeOK, Task
    <3> HIDE DEF rest
    <3>3. task'[p].txn = task[p].txn
      BY <1>a, <3>1, <3>2, TodoUpdate, Zenon
    <3>4. \A u \in Txns \ {task[p].txn} : bundle'[u] = bundle[u]
      BY <1>a, <3>1, OtherBundles
    <3>5. QED
      BY <3>1, <3>3, <3>4, EngagedMove DEF Engaged
  <2>3. QED
    BY <2>1, <2>2
<1>14. CASE FinishActions(p)
  <2>1. CASE Refuse(p)
    BY <1>14, <2>1, RefuseMove DEF FinishActions, Holding
  <2>2. CASE ~Refuse(p)
    BY <1>14, <1>a, <2>2, PlainMove DEF FinishActions, Holding, Engaged
  <2>3. QED
    BY <2>1, <2>2
<1>15. CASE WriteMigrationReceipt(p)
  <2>1. CASE Refuse(p)
    BY <1>15, <2>1, RefuseMove DEF WriteMigrationReceipt, Holding
  <2>2. CASE ~Refuse(p)
    BY <1>15, <1>a, <2>2, PlainMove DEF WriteMigrationReceipt, Holding, Engaged
  <2>3. QED
    BY <2>1, <2>2
<1>16. CASE CreateReceipt(p)
  <2>1. CASE Goto(p, "unwinding") /\ UNCHANGED bundle
    BY <1>16, <2>1, PlainMove DEF CreateReceipt, Holding, Engaged
  <2>2. CASE SetReceipt(p, Torn, "receipting")
    BY <1>16, <1>a, <2>2, EngagedMove, OtherBundles DEF CreateReceipt, Engaged
  <2>3. CASE SetReceipt(p, Result(p), "receipted")
    BY <1>16, <1>a, <2>3, EngagedMove, OtherBundles
       DEF CreateReceipt, Engaged, PointerOf, Result, Results
  <2>4. QED
    BY <1>16, <2>1, <2>2, <2>3 DEF CreateReceipt
<1>17. CASE WriteReceipt(p)
  BY <1>17, <1>a, EngagedMove, OtherBundles
     DEF WriteReceipt, Engaged, PointerOf, Result, Results
<1>18. CASE ClearPointer(p)
  <2>1. /\ pc[p] = "receipted" /\ pointer = task[p].txn /\ pointer \in Txns
        /\ bundle[pointer].receipt \in Results
    BY <1>18, <1>a DEF ClearPointer, PointerOf, Engaged
  <2>2. pointer' = NoTxn /\ Goto(p, "cleared") /\ UNCHANGED <<bundle, task>>
    BY <1>18, <2>1, TransactionAssumption DEF ClearPointer
  <2>3. Others(p) /\ PointerOf(p)'
    BY <1>a, <2>1, <2>2, HolderMove, EndedKnows DEF Holding
  <2>4. NoLostTransaction'
    BY <1>a, <2>1, <2>2 DEF NoLostTransaction, Started
  <2>5. QED
    BY <1>b, <2>3, <2>4
<1>19. CASE Unlock(p)
  BY <1>19, LeaveMove DEF Unlock
<1>20. CASE Replan(p)
  <2>1. CASE Leave(p)
    BY <1>20, <2>1, LeaveMove DEF Replan
  <2>2. CASE ~Leave(p)
    <3>1. /\ Goto(p, "replanned") /\ BoundTo(p) /\ UNCHANGED <<pointer, bundle, task>>
          /\ \A r \in Procs \ {p} : pc[r] \in Undecided
      BY <1>20, <2>2 DEF Replan
    <3>2. Others(p)
      BY <3>1, WaitingMove DEF Undecided
    <3>3. PointerOf(p)'
      <4>1. pc'[p] = "replanned" /\ \A r \in Procs \ {p} : pc'[r] = pc[r]
        BY <1>a, <3>1 DEF TypeOK, Goto
      <4>2. task[p].txn \in Txns /\ pointer = task[p].txn
        BY <3>1 DEF BoundTo, Loadable
      <4>3. QED
        BY <3>1, <4>1, <4>2 DEF PointerOf, Engaged
    <3>4. NoLostTransaction'
      BY <1>a, <3>1, SameRecords
    <3>5. QED
      BY <1>b, <3>2, <3>3, <3>4
  <2>3. QED
    BY <2>1, <2>2
<1>21. CASE LoadEvidence(p)
  <2>1. CASE Leave(p)
    BY <1>21, <2>1, LeaveMove DEF LoadEvidence
  <2>2. CASE ~Leave(p)
    <3>1. Goto(p, "loaded") /\ pc[p] = "replanned" /\ UNCHANGED <<pointer, bundle, task>>
      BY <1>21, <2>2 DEF LoadEvidence
    <3>2. \A r \in Procs \ {p} : pc[r] \in Undecided
      BY <1>a, <3>1 DEF PointerOf
    <3>3. Others(p)
      BY <3>1, <3>2, WaitingMove DEF Undecided
    <3>4. PointerOf(p)'
      <4>1. pc'[p] = "loaded" /\ \A r \in Procs \ {p} : pc'[r] = pc[r]
        BY <1>a, <3>1 DEF TypeOK, Goto
      <4>2. QED
        BY <1>a, <3>1, <3>2, <4>1 DEF PointerOf, Engaged
    <3>5. NoLostTransaction'
      BY <1>a, <3>1, SameRecords
    <3>6. QED
      BY <1>b, <3>3, <3>4, <3>5
  <2>3. QED
    BY <2>1, <2>2
<1>22. CASE LockRecovery(p)
  <2>1. CASE Leave(p)
    BY <1>22, <2>1, LeaveMove DEF LockRecovery
  <2>2. CASE ~Leave(p)
    <3>1. Goto(p, "rlocked") /\ pc[p] = "loaded" /\ UNCHANGED <<pointer, bundle, task>>
      BY <1>22, <2>2 DEF LockRecovery
    <3>2. \A r \in Procs \ {p} : pc[r] \in Undecided
      BY <1>a, <3>1 DEF PointerOf
    <3>3. Others(p)
      BY <3>1, <3>2, WaitingMove DEF Undecided
    <3>4. PointerOf(p)'
      <4>1. pc'[p] = "rlocked"
        BY <1>a, <3>1 DEF TypeOK, Goto
      <4>2. QED
        BY <1>a, <3>1, <4>1 DEF PointerOf
    <3>5. NoLostTransaction'
      BY <1>a, <3>1, SameRecords
    <3>6. QED
      BY <1>b, <3>3, <3>4, <3>5
  <2>3. QED
    BY <2>1, <2>2
<1>23. CASE VerifyRecovery(p)
  <2>1. CASE Refuse(p)
    BY <1>23, <2>1, RefuseMove DEF VerifyRecovery, Holding
  <2>2. CASE ~Refuse(p)
    BY <1>23, <1>a, <2>2, PlainMove DEF VerifyRecovery, Holding, Engaged
  <2>3. QED
    BY <2>1, <2>2
<1> QED
  BY <1>1, <1>2, <1>3, <1>4, <1>5, <1>6, <1>7, <1>8, <1>9, <1>10, <1>11, <1>12, <1>13, <1>14, <1>15, <1>16, <1>17, <1>18, <1>19, <1>20, <1>21, <1>22, <1>23 DEF Run

\* Every step keeps what everybody knows.
LEMMA PointerStep ==
    ASSUME Inv, ExclusiveRecovery, [Next]_vars
    PROVE  PointerDiscipline'
<1>a. TypeOK /\ NoLostTransaction /\ \A p \in Procs : PointerOf(p)
  BY DEF Inv, TypeInv, PointerDiscipline
<1>1. ASSUME NEW p \in Procs, Run(p)
      PROVE  PointerDiscipline'
  BY <1>1, RunKeepsPointer
<1>2. ASSUME NEW p \in Procs, Recover(p)
      PROVE  PointerDiscipline'
  <2>1. /\ Goto(p, "planned") /\ UNCHANGED <<pointer, bundle>>
        /\ \A r \in Procs \ {p} : task'[r] = task[r]
    BY <1>2, <1>a DEF Recover, PlanRecovery, files, TypeOK
  <2>2. Others(p) /\ PointerOf(p)' /\ NoLostTransaction'
    BY <1>a, <2>1, WaitingMove, EndedKnows, SameRecords DEF Undecided
  <2>3. QED
    BY <2>2 DEF PointerDiscipline, Others
<1>3. ASSUME NEW p \in Procs, Fail(p)
      PROVE  PointerDiscipline'
  <2>1. /\ Goto(p, "unwinding") /\ pc[p] \in Holding
        /\ IF pc[p] \in {"staged", "publishing"} THEN Cleanup(task[p].txn) ELSE UNCHANGED bundle
        /\ \/ UNCHANGED pointer
           \/ pc[p] = "publishing" /\ pointer = Torn /\ pointer' = task[p].txn
    BY <1>3 DEF Fail
  <2>2. Others(p) /\ PointerOf(p)'
    BY <1>a, <2>1, HolderMove, EndedKnows
  <2>3. NoLostTransaction'
    <3>1. CASE pc[p] \in {"staged", "publishing"}
      <4>1. PICK t \in Txns : t = task[p].txn
        BY <1>a, <3>1 DEF PointerOf, Untouched
      <4>2. /\ bundle'[t] = NoBundle
            /\ \A u \in Txns \ {t} : bundle'[u] = bundle[u]
        BY <1>a, <2>1, <3>1, <4>1, OtherBundles
      <4>3. ~Started(t)'
        BY <4>2 DEF Started, NoBundle
      <4>4. \A u \in Txns \ {t} : Started(u)' /\ bundle'[u].receipt \notin Results
                                  => pointer' = u
        BY <1>a, <2>1, <4>2, TransactionAssumption DEF NoLostTransaction, Started
      <4>5. QED
        BY <4>3, <4>4 DEF NoLostTransaction
    <3>2. CASE pc[p] \notin {"staged", "publishing"}
      BY <1>a, <2>1, <3>2, SameRecords
    <3>3. QED
      BY <3>1, <3>2
  <2>4. QED
    BY <2>2, <2>3 DEF PointerDiscipline, Others
<1>4. ASSUME NEW p \in Procs, Crash(p)
      PROVE  PointerDiscipline'
  BY <1>4, LeaveMove DEF Crash, files
<1>5. ASSUME NEW p \in Procs, NEW op \in Operations, Propose(p, op)
      PROVE  PointerDiscipline'
  <2>1. /\ Goto(p, "approved") /\ UNCHANGED <<pointer, bundle>>
        /\ \A r \in Procs \ {p} : task'[r] = task[r]
    BY <1>5, <1>a DEF Propose, files, TypeOK
  <2>2. Others(p) /\ PointerOf(p)' /\ NoLostTransaction'
    BY <1>a, <2>1, WaitingMove, EndedKnows, SameRecords DEF Undecided
  <2>3. QED
    BY <2>2 DEF PointerDiscipline, Others
<1>6. CASE UNCHANGED <<pointer, bundle, pc, task>>
  BY <1>a, <1>6, SameRecords
     DEF PointerDiscipline, PointerOf, Untouched, Started
<1>7. ASSUME NEW q \in Editable, Edit(q)
      PROVE  PointerDiscipline'
  BY <1>6, <1>7 DEF Edit
<1>8. CASE ClearStaleLock
  BY <1>6, <1>8 DEF ClearStaleLock
<1>9. CASE UNCHANGED vars
  BY <1>6, <1>9 DEF vars, files
<1>10. QED
  BY <1>1, <1>2, <1>3, <1>4, <1>5, <1>7, <1>8, <1>9 DEF Next

\* The invariant behind the theorems below.
LEMMA InvHolds == ExclusiveRecovery => (Spec => []Inv)
<1> SUFFICES ASSUME ExclusiveRecovery PROVE Spec => []Inv
  OBVIOUS
<1>1. Init => Inv
  <2> SUFFICES ASSUME Init PROVE Inv
    OBVIOUS
  <2>1. LockExclusion
    BY DEF Init, LockExclusion, Holders, Holding
  <2>2. \A p \in Procs : PointerOf(p)
    BY DEF Init, PointerOf, Engaged
  <2>3. NoLostTransaction
    BY DEF Init, NoLostTransaction, Started, NoBundle
  <2>4. QED
    BY <2>1, <2>2, <2>3, TypeInit DEF Inv, PointerDiscipline
<1>2. Inv /\ [Next]_vars => Inv'
  BY TypeStep, LockStep, PointerStep DEF Inv, TypeInv
<1>3. QED
  BY <1>1, <1>2, PTL DEF Spec

\* If recoveries are exclusive, then whatever fails or dies, and for any
\* number of invocations and transactions, an unresolved transaction that has
\* announced an action is the one that RECOVERY.json names.
THEOREM NothingIsLost == ExclusiveRecovery => (Spec => []NoLostTransaction)
<1>1. Inv => NoLostTransaction
  BY DEF Inv, PointerDiscipline
<1>2. QED
  BY InvHolds, <1>1, PTL

\* What every position of a command knows about RECOVERY.json: whoever removes
\* or creates it finds there what it decided on.
THEOREM PointerIsDisciplined == ExclusiveRecovery => (Spec => []PointerDiscipline)
<1>1. Inv => PointerDiscipline
  BY DEF Inv
<1>2. QED
  BY InvHolds, <1>1, PTL

\* An invocation writes to a path by publishing a change.
LEMMA RunWritesByPublication ==
    ASSUME NEW p \in Procs, Run(p), disk' # disk
    PROVE  PerformCreate(p) \/ RenameUpdate(p) \/ PerformDelete(p)
<1> USE DEF files
<1>1. CASE \/ AcquireLock(p) \/ AdmitMutation(p) \/ VerifyPlan(p) \/ StageBundle(p)
           \/ CreatePointer(p) \/ WritePointer(p) \/ BeginAction(p) \/ CheckUpdate(p)
  BY <1>1 DEF AcquireLock, AdmitMutation, VerifyPlan, StageBundle, CreatePointer,
              WritePointer, BeginAction, CheckUpdate, Refuse
<1>2. CASE \/ MarkApplied(p) \/ VerifyAction(p) \/ FinishActions(p)
           \/ WriteMigrationReceipt(p) \/ CreateReceipt(p) \/ WriteReceipt(p)
           \/ ClearPointer(p) \/ Unlock(p)
  BY <1>2 DEF MarkApplied, VerifyAction, FinishActions, WriteMigrationReceipt,
              CreateReceipt, WriteReceipt, ClearPointer, Unlock, Refuse
<1>3. CASE Replan(p) \/ LoadEvidence(p) \/ LockRecovery(p) \/ VerifyRecovery(p)
  BY <1>3 DEF Replan, LoadEvidence, LockRecovery, VerifyRecovery, Refuse
<1>4. QED
  BY <1>1, <1>2, <1>3 DEF Run

\* Only publications and other programs write to the paths of the workspace.
LEMMA OnlyPublicationsWrite ==
    ASSUME TypeInv, Next, disk' # disk, ~EditStep
    PROVE  \E p \in Procs : PerformCreate(p) \/ RenameUpdate(p) \/ PerformDelete(p)
<1> USE DEF files
<1>1. ASSUME NEW p \in Procs, Run(p)
      PROVE  PerformCreate(p) \/ RenameUpdate(p) \/ PerformDelete(p)
  BY <1>1, RunWritesByPublication
<1>2. ASSUME NEW p \in Procs, Recover(p) \/ Fail(p) \/ Crash(p)
      PROVE  FALSE
  BY <1>2 DEF Recover, PlanRecovery, Fail, Crash
<1>3. ASSUME NEW p \in Procs, NEW op \in Operations, Propose(p, op)
      PROVE  FALSE
  BY <1>3 DEF Propose
<1>4. ASSUME NEW q \in Editable, Edit(q)
      PROVE  FALSE
  BY <1>4 DEF Edit, Spend, EditStep, TypeInv, TypeOK, Faults
<1>5. ~ClearStaleLock
  BY DEF ClearStaleLock
<1>6. QED
  BY <1>1, <1>2, <1>3, <1>4, <1>5 DEF Next

\* Under the same assumption UAWP changes a path only while RECOVERY.json
\* names the transaction that the change belongs to.
THEOREM PublishesUnderPointer == ExclusiveRecovery => (Spec => MutatesUnderPointer)
<1>1. ASSUME Inv, Next, disk' # disk, ~EditStep
      PROVE  \E p \in Holders : pointer = task[p].txn
  <2>1. PICK p \in Procs : PerformCreate(p) \/ RenameUpdate(p) \/ PerformDelete(p)
    BY <1>1, OnlyPublicationsWrite DEF Inv
  <2>2. pc[p] \in Engaged
    BY <2>1 DEF PerformCreate, RenameUpdate, PerformDelete, Publishing, Engaged
  <2>3. QED
    BY <1>1, <2>2 DEF Inv, PointerDiscipline, PointerOf, Holders, Engaged, Holding
<1>2. Inv /\ [Next]_vars =>
          [disk' # disk /\ ~EditStep => \E p \in Holders : pointer = task[p].txn]_vars
  BY <1>1
<1>3. QED
  BY InvHolds, <1>2, PTL DEF MutatesUnderPointer, Spec
===============================================================================

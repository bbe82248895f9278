---------------------------- MODULE PurgeProofs ----------------------------
(***************************************************************************)
(* Theorems about Purge for every set of commands, providers and export    *)
(* paths, and every bound on lives, changes and faults.                    *)
(***************************************************************************)
EXTENDS Purge, TLAPS

-----------------------------------------------------------------------------
(* What a command remembers, by what it is about and where it stands.      *)

Purging == {"mark", "fill", "export", "record", "recheck", "rename"}
Remembers(t, position) ==
    /\ t.stage = "purge" => t.op = "purge"
    /\ t.op \in {"claim", "adapter", "purge"} => t.from \in Body /\ t.to \in Body
    /\ t.op = "purge" => t.export \in Exports
    /\ t.op = "cleanup" => t.marker \in Marker
    /\ position \in Purging \cup {"verify"} => t.op = "purge"
    /\ position \in Purging \ {"mark"} => t.snapshot \in Body
    /\ position = "sweep" => t.op \in {"purge", "cleanup"}
    /\ position = "sweep" /\ t.op = "purge" => t.locked \in Births
    /\ position = "cleanup" => t.op = "cleanup"
TaskOK == \A p \in Procs : Remembers(task[p], pc[p])

(* The two halves of TypeOK.                                               *)
Commands == pc \in [Procs -> Positions] /\ task \in [Procs -> Task]

Stored ==
    /\ home \in Home \cup {NULL} /\ tombs \in [Births -> Tomb \cup {NULL}]
    /\ bridges \subseteq Providers /\ archives \in [Exports -> Body \cup {NULL}]
    /\ births \in Births /\ late \subseteq Procs /\ budget \in 0..Faults

-----------------------------------------------------------------------------
(* The commands.                                                          *)

\* A plan starts a command, at the lock or at the cleanup of a tombstone, and
\* changes nothing that is stored.
LEMMA PlanStarts ==
    ASSUME NEW p \in Procs, Plan(p)
    PROVE  \E position, t : position \in {"lock", "cleanup"} /\ Start(p, position, t)
<1>1. ASSUME NEW t, Start(p, "lock", t) \/ Start(p, "cleanup", t)
      PROVE  \E position, u : position \in {"lock", "cleanup"} /\ Start(p, position, u)
  BY <1>1
<1>2. CASE PlanClaim(p)
  BY <1>1, <1>2 DEF PlanClaim
<1>3. CASE PlanInit(p)
  BY <1>1, <1>3 DEF PlanInit
<1>4. ASSUME NEW a \in Providers, PlanAdapter(p, a)
      PROVE  \E position, u : position \in {"lock", "cleanup"} /\ Start(p, position, u)
  BY <1>1, <1>4 DEF PlanAdapter
<1>5. ASSUME NEW e \in Exports, PlanPurge(p, e)
      PROVE  \E position, u : position \in {"lock", "cleanup"} /\ Start(p, position, u)
  BY <1>1, <1>5 DEF PlanPurge
<1>6. CASE PlanPurgeAbort(p)
  BY <1>1, <1>6 DEF PlanPurgeAbort
<1>7. CASE PlanPurgeCleanup(p)
  BY <1>1, <1>7 DEF PlanPurgeCleanup
<1>8. QED
  BY <1>2, <1>3, <1>4, <1>5, <1>6, <1>7 DEF Plan

\* A command that moves and remembers something new disturbs no other.
LEMMA OneMoves ==
    ASSUME NEW p \in Procs, NEW position, NEW t, TypeOK, TaskOK,
           GoWith(p, position, t), Remembers(t, position)
    PROVE  TaskOK'
<1>1. pc \in [Procs -> Positions] /\ task \in [Procs -> Task]
  BY DEF TypeOK
<1>2. SUFFICES ASSUME NEW q \in Procs PROVE Remembers(task'[q], pc'[q])
  BY DEF TaskOK
<1>3. CASE q = p
  BY <1>1, <1>3 DEF GoWith, Go
<1>4. CASE q # p
  BY <1>1 DEF GoWith, Go, TaskOK
<1>5. QED
  BY <1>3, <1>4

\* What a command remembers agrees with where it stands after every step.
LEMMA TaskOKStep ==
    ASSUME TypeOK, TaskOK, [Next]_vars
    PROVE  TaskOK'
<1>0. /\ pc \in [Procs -> Positions] /\ task \in [Procs -> Task]
     /\ home \in Home \cup {NULL}
  BY DEF TypeOK
<1>1. CASE UNCHANGED vars
  BY <1>1 DEF vars, TaskOK
<1>2. CASE Resolve
  BY <1>2 DEF Resolve, TaskOK
<1>3. CASE ClearStaleLock
  BY <1>3 DEF ClearStaleLock, TaskOK
<1>4. CASE Edit
  BY <1>4 DEF Edit, TaskOK
<1>5. ASSUME NEW e \in Exports, LoseArchive(e)
      PROVE  TaskOK'
  BY <1>5 DEF LoseArchive, TaskOK
<1>6. ASSUME NEW p \in Procs, PlanClaim(p)
      PROVE  TaskOK'
  <2> DEFINE to == [home.body EXCEPT !.claim = home.body.claim + 1]
             t == [NoTask EXCEPT !.op = "claim", !.from = home.body, !.to = to]
  <2>1. home.body \in Body /\ home.body.claim < MaxClaims
    BY <1>6, <1>0 DEF PlanClaim, Home
  <2>2. to \in Body
    BY <2>1, PurgeAssumption DEF Body, Claims
  <2>3. GoWith(p, "lock", t)
    BY <1>6 DEF PlanClaim, Start
  <2> HIDE DEF to
  <2>4. Remembers(t, "lock")
    BY <2>1, <2>2 DEF Remembers, NoTask, Purging
  <2> QED
    BY <2>3, <2>4, OneMoves
<1>7. ASSUME NEW p \in Procs, PlanInit(p)
      PROVE  TaskOK'
  <2>1. PICK t : GoWith(p, "lock", t) /\ Remembers(t, "lock")
    BY <1>7 DEF PlanInit, Start, Remembers, NoTask, Purging
  <2> QED
    BY <2>1, OneMoves
<1>8. ASSUME NEW p \in Procs, PlanPurgeAbort(p)
      PROVE  TaskOK'
  <2>1. PICK t : GoWith(p, "lock", t) /\ Remembers(t, "lock")
    BY <1>8, <1>0, NullAssumption DEF PlanPurgeAbort, Start, Remembers, NoTask, Purging, IsMarker
  <2> QED
    BY <2>1, OneMoves
<1>9. ASSUME NEW p \in Procs, PlanPurgeCleanup(p)
      PROVE  TaskOK'
  <2>1. PICK n \in Standing : CleanupOffered(n) /\ Start(p, "cleanup",
            [NoTask EXCEPT !.op = "cleanup", !.marker = tombs[n].marker])
    BY <1>9 DEF PlanPurgeCleanup
  <2> DEFINE m == tombs[n].marker
             t == [NoTask EXCEPT !.op = "cleanup", !.marker = m]
  <2>2. m \in Marker
    BY <2>1 DEF TypeOK, Standing, CleanupOffered, IsMarker, Tomb
  <2>3. GoWith(p, "cleanup", t)
    BY <2>1 DEF Start
  <2> HIDE DEF m
  <2>4. Remembers(t, "cleanup")
    BY <2>2 DEF Remembers, NoTask, Purging
  <2> QED
    BY <2>3, <2>4, OneMoves
<1>10. ASSUME NEW p \in Procs, NEW a \in Providers, PlanAdapter(p, a)
      PROVE  TaskOK'
  <2>1. PICK adapters \in SUBSET Providers :
          Start(p, "lock", [NoTask EXCEPT !.op = "adapter", !.from = home.body,
                                          !.to = [home.body EXCEPT !.adapters = adapters]])
    BY <1>10, <1>0 DEF PlanAdapter, Home, Body
  <2> DEFINE to == [home.body EXCEPT !.adapters = adapters]
  <2>2. home.body \in Body /\ to \in Body
    BY <1>10, <1>0 DEF PlanAdapter, Home, Body
  <2> HIDE DEF to
  <2>3. PICK t : GoWith(p, "lock", t) /\ Remembers(t, "lock")
    BY <2>1, <2>2 DEF Start, Remembers, NoTask, Purging, to
  <2> QED
    BY <2>3, OneMoves
<1>11. ASSUME NEW p \in Procs, NEW e \in Exports, PlanPurge(p, e)
      PROVE  TaskOK'
  <2> DEFINE to == [home.body EXCEPT !.adapters = {}]
  <2>1. home.body \in Body /\ to \in Body
    BY <1>11, <1>0 DEF PlanPurge, Home, Body
  <2> HIDE DEF to
  <2>2. PICK t : GoWith(p, "lock", t) /\ Remembers(t, "lock")
    BY <1>11, <2>1 DEF PlanPurge, Start, Remembers, NoTask, Purging, to
  <2> QED
    BY <2>2, OneMoves
<1>12. ASSUME NEW p \in Procs, AcquireLock(p)
      PROVE  TaskOK'
  BY <1>12, <1>0, NullAssumption
     DEF AcquireLock, Go, GoWith, End, NoTask, TaskOK, Remembers, Task, Purging
<1>13. ASSUME NEW p \in Procs, Admit(p)
      PROVE  TaskOK'
  BY <1>13, <1>0 DEF Admit, Go, GoWith, End, NoTask, TaskOK, Remembers, Purging
<1>14. ASSUME NEW p \in Procs, Perform(p)
      PROVE  TaskOK'
  BY <1>14, <1>0 DEF Perform, Bound, Outcome, Rebridge, Go, GoWith, TaskOK, Remembers, Task, Purging
<1>15. ASSUME NEW p \in Procs, Release(p)
      PROVE  TaskOK'
  <2>1. task[p] \in Task /\ Remembers(task[p], pc[p])
    BY <1>0 DEF TaskOK
  <2> DEFINE t == [task[p] EXCEPT !.stage = "purge", !.locked = NULL]
  <2>2. task[p].op = "purge" => Remembers(t, "verify")
    BY <2>1 DEF Remembers, Purging
  <2>3. Remembers(NoTask, "idle")
    BY DEF Remembers, NoTask, Purging
  <2> QED
    BY <1>15, <2>2, <2>3, OneMoves DEF Release, End
<1>16. ASSUME NEW p \in Procs, BootRename(p)
      PROVE  TaskOK'
  BY <1>16, <1>0 DEF BootRename, Fresh, Go, GoWith, End, NoTask, TaskOK, Remembers, Purging
<1>17. ASSUME NEW p \in Procs, FinishBoot(p)
      PROVE  TaskOK'
  BY <1>17 DEF FinishBoot, Go, GoWith, End, Here, NoTask, TaskOK, Remembers, Purging
<1>18. ASSUME NEW p \in Procs, VerifyDetached(p)
      PROVE  TaskOK'
  BY <1>18, <1>0 DEF VerifyDetached, Storage, Go, GoWith, End, NoTask, TaskOK, Remembers, Purging
<1>19. ASSUME NEW p \in Procs, CreateMarker(p)
      PROVE  TaskOK'
  <2>1. home.body \in Body /\ task[p] \in Task /\ Remembers(task[p], "mark")
    BY <1>19, <1>0 DEF CreateMarker, Here, Home, TaskOK
  <2> DEFINE t == [task[p] EXCEPT !.snapshot = home.body]
  <2>2. Remembers(t, "fill") /\ Remembers(task[p], "release")
    BY <2>1 DEF Remembers, Purging
  <2>3. GoWith(p, "fill", t) \/ GoWith(p, "release", task[p])
    BY <1>19, <1>0 DEF CreateMarker, GoWith
  <2> QED
    BY <2>2, <2>3, OneMoves
<1>20. ASSUME NEW p \in Procs, FillMarker(p)
      PROVE  TaskOK'
  BY <1>20 DEF FillMarker, WriteMarker, Go, Here, TaskOK, Remembers, Purging
<1>21. ASSUME NEW p \in Procs, Export(p)
      PROVE  TaskOK'
  BY <1>21, <1>0 DEF Export, Go, Here, TaskOK, Remembers, Purging
<1>22. ASSUME NEW p \in Procs, RecordArchive(p)
      PROVE  TaskOK'
  BY <1>22 DEF RecordArchive, WriteMarker, Go, Here, TaskOK, Remembers, Purging
<1>23. ASSUME NEW p \in Procs, Recheck(p)
      PROVE  TaskOK'
  BY <1>23 DEF Recheck, Go, Here, TaskOK, Remembers, Purging
<1>24. ASSUME NEW p \in Procs, RenameAway(p)
      PROVE  TaskOK'
  <2>1. home.body \in Body /\ task[p] \in Task /\ Remembers(task[p], "rename")
    BY <1>24, <1>0 DEF RenameAway, Here, Home, TaskOK
  <2> DEFINE t == [task[p] EXCEPT !.locked = home.body.born]
  <2>2. home.body.born \in Births
    BY <2>1 DEF Body
  <2>3. Remembers(t, "sweep")
    BY <2>1, <2>2 DEF Remembers, Purging
  <2> QED
    BY <1>24, <2>3, OneMoves DEF RenameAway
<1>25. ASSUME NEW p \in Procs, ApplyPurgeCleanup(p)
      PROVE  TaskOK'
  BY <1>25, <1>0
     DEF ApplyPurgeCleanup, Storage, Go, GoWith, End, Here, NoTask, TaskOK, Remembers, Purging
<1>26. ASSUME NEW p \in Procs, NEW part \in Parts, Sweep(p, part)
      PROVE  TaskOK'
  <2>1. task[p] \in Task /\ Remembers(task[p], "sweep")
    BY <1>26, <1>0 DEF Sweep, Here, TaskOK
  <2>2. Remembers(task[p], "release") /\ Remembers(NoTask, "idle")
    BY <2>1 DEF Remembers, NoTask, Purging
  <2>3. CASE UNCHANGED <<pc, task>>
    BY <2>3 DEF TaskOK
  <2>4. CASE Go(p, "release") /\ UNCHANGED task
    BY <1>0, <2>2, <2>4, OneMoves DEF GoWith
  <2>5. CASE End(p)
    BY <2>2, <2>5, OneMoves DEF End
  <2> QED
    BY <1>26, <2>3, <2>4, <2>5 DEF Sweep
<1>27. ASSUME NEW p \in Procs, InterruptPerform(p)
      PROVE  TaskOK'
  BY <1>27, <1>0
     DEF InterruptPerform, Outcome, Rebridge, Bound, Go, NoTask, TaskOK, Remembers, Purging
<1>28. ASSUME NEW p \in Procs, Fail(p)
      PROVE  TaskOK'
  BY <1>28, <1>0 DEF Fail, Spend, Storage, Go, GoWith, End, NoTask, TaskOK, Remembers, Purging
<1>29. ASSUME NEW p \in Procs, Crash(p)
      PROVE  TaskOK'
  BY <1>29, <1>0 DEF Crash, Spend, Storage, Go, GoWith, End, NoTask, TaskOK, Remembers, Purging
<1>30. ASSUME NEW p \in Procs, Abandon(p)
      PROVE  TaskOK'
  BY <1>30, <1>0 DEF Abandon, Storage, Go, GoWith, End, NoTask, TaskOK, Remembers, Purging
<1>31. QED
  BY <1>1, <1>2, <1>3, <1>4, <1>5, <1>6, <1>7, <1>8, <1>9, <1>10, <1>11, <1>12, <1>13, <1>14,
     <1>15, <1>16, <1>17, <1>18, <1>19, <1>20, <1>21, <1>22, <1>23, <1>24, <1>25, <1>26, <1>27,
     <1>28, <1>29, <1>30
     DEF Next, Outside, Plan, Run, Disturb

\* A command that moves to a position and remembers a task is where commands may be.
LEMMA OneMovesTyped ==
    ASSUME NEW p \in Procs, NEW position \in Positions, NEW t \in Task, Commands,
           GoWith(p, position, t)
    PROVE  Commands'
BY DEF Commands, GoWith, Go

\* So is one that moves and remembers what it did.
LEMMA OneGoesTyped ==
    ASSUME NEW p \in Procs, NEW position \in Positions, Commands,
           Go(p, position), UNCHANGED task
    PROVE  Commands'
BY DEF Commands, Go

\* A command that ended is typed.
LEMMA OneEndsTyped ==
    ASSUME NEW p \in Procs, Commands, End(p)
    PROVE  Commands'
<1>1. NoTask \in Task /\ "idle" \in Positions
  BY DEF NoTask, Task, Ops, Positions
<1>2. QED
  BY <1>1, OneMovesTyped DEF End

\* Every step leaves the commands where commands may be.
LEMMA CommandsTypedStep ==
    ASSUME TypeOK, TaskOK, [Next]_vars
    PROVE  Commands'
<1>0. Commands /\ home \in Home \cup {NULL}
  BY DEF TypeOK, Commands
<1>1. CASE UNCHANGED vars
  BY <1>0, <1>1 DEF vars, Commands
<1>2. CASE Resolve
  BY <1>2, <1>0 DEF Resolve, Commands
<1>3. CASE ClearStaleLock
  BY <1>3, <1>0 DEF ClearStaleLock, Commands
<1>4. CASE Edit
  BY <1>4, <1>0 DEF Edit, Commands
<1>5. ASSUME NEW e \in Exports, LoseArchive(e)
      PROVE  Commands'
  BY <1>5, <1>0 DEF LoseArchive, Commands
<1>6. ASSUME NEW p \in Procs, PlanClaim(p)
      PROVE  Commands'
  <2> DEFINE to == [home.body EXCEPT !.claim = home.body.claim + 1]
             t == [NoTask EXCEPT !.op = "claim", !.from = home.body, !.to = to]
  <2>1. home.body \in Body
    BY <1>6, <1>0 DEF PlanClaim, Home
  <2>2. to \in Body
    BY <1>6, <2>1, PurgeAssumption DEF PlanClaim, Claims, Body
  <2>3. GoWith(p, "lock", t)
    BY <1>6 DEF PlanClaim, Start
  <2> HIDE DEF to
  <2>4. t \in Task
    BY <2>1, <2>2 DEF Task, NoTask, Ops
  <2> HIDE DEF t
  <2> QED
    BY <1>0, <2>3, <2>4, OneMovesTyped DEF Positions
<1>7. ASSUME NEW p \in Procs, PlanInit(p)
      PROVE  Commands'
  BY <1>7, <1>0, NullAssumption
     DEF PlanInit, Start, Storage, Go, GoWith, Here, NoTask, Commands, TaskOK, Remembers, Task,
         Positions, Locked, Ops
<1>8. ASSUME NEW p \in Procs, PlanPurgeAbort(p)
      PROVE  Commands'
  <2> DEFINE t == [NoTask EXCEPT !.op = "abort", !.marker = home.marker]
  <2>1. t \in Task
    BY <1>8, <1>0 DEF PlanPurgeAbort, IsMarker, Home, Task, NoTask, Ops
  <2>2. GoWith(p, "lock", t)
    BY <1>8 DEF PlanPurgeAbort, Start
  <2> HIDE DEF t
  <2> QED
    BY <1>0, <2>1, <2>2, OneMovesTyped DEF Positions
<1>9. ASSUME NEW p \in Procs, PlanPurgeCleanup(p)
      PROVE  Commands'
  <2>1. PICK n \in Standing : CleanupOffered(n) /\ Start(p, "cleanup",
            [NoTask EXCEPT !.op = "cleanup", !.marker = tombs[n].marker])
    BY <1>9 DEF PlanPurgeCleanup
  <2> DEFINE m == tombs[n].marker
             t == [NoTask EXCEPT !.op = "cleanup", !.marker = m]
  <2>2. m \in Marker
    BY <2>1 DEF TypeOK, Standing, CleanupOffered, IsMarker, Tomb
  <2>3. GoWith(p, "cleanup", t)
    BY <2>1 DEF Start
  <2> HIDE DEF m
  <2>4. t \in Task
    BY <2>2 DEF Task, NoTask, Ops
  <2> HIDE DEF t
  <2> QED
    BY <1>0, <2>3, <2>4, OneMovesTyped DEF Positions
<1>10. ASSUME NEW p \in Procs, NEW a \in Providers, PlanAdapter(p, a)
      PROVE  Commands'
  <2>1. PICK adapters \in SUBSET Providers :
          Start(p, "lock", [NoTask EXCEPT !.op = "adapter", !.from = home.body,
                                          !.to = [home.body EXCEPT !.adapters = adapters]])
    BY <1>10, <1>0 DEF PlanAdapter, Home, Body
  <2> DEFINE to == [home.body EXCEPT !.adapters = adapters]
             t == [NoTask EXCEPT !.op = "adapter", !.from = home.body, !.to = to]
  <2>2. home.body \in Body /\ to \in Body
    BY <1>10, <1>0 DEF PlanAdapter, Home, Body
  <2>3. GoWith(p, "lock", t)
    BY <2>1 DEF Start
  <2> HIDE DEF to
  <2>4. t \in Task
    BY <2>2 DEF Task, NoTask, Ops
  <2> HIDE DEF t
  <2> QED
    BY <1>0, <2>3, <2>4, OneMovesTyped DEF Positions
<1>11. ASSUME NEW p \in Procs, NEW e \in Exports, PlanPurge(p, e)
      PROVE  Commands'
  <2> DEFINE to == [home.body EXCEPT !.adapters = {}]
             t == [NoTask EXCEPT !.op = "purge", !.export = e, !.from = home.body, !.to = to]
  <2>1. home.body \in Body
    BY <1>11, <1>0 DEF PlanPurge, Home
  <2>2. to \in Body
    BY <1>11, <2>1 DEF PlanPurge, Body
  <2>3. GoWith(p, "lock", t)
    BY <1>11 DEF PlanPurge, Start
  <2> HIDE DEF to
  <2>4. t \in Task
    BY <2>1, <2>2 DEF Task, NoTask, Ops
  <2> HIDE DEF t
  <2> QED
    BY <1>0, <2>3, <2>4, OneMovesTyped DEF Positions
<1>12. ASSUME NEW p \in Procs, AcquireLock(p)
      PROVE  Commands'
  <2>1. CASE home = NULL
    <3>1. CASE Go(p, "boot") /\ UNCHANGED task
      BY <1>0, <3>1, OneGoesTyped DEF Positions
    <3>2. CASE End(p)
      BY <1>0, <3>2, OneEndsTyped
    <3> QED
      BY <1>12, <2>1, <3>1, <3>2 DEF AcquireLock
  <2>2. CASE home # NULL
    <3> DEFINE t == [task[p] EXCEPT !.locked = home.body.born]
    <3>1. t \in Task
      BY <1>0, <2>2 DEF Commands, Task, Home, Body
    <3>2. GoWith(p, "admit", t)
      BY <1>12, <2>2 DEF AcquireLock
    <3> HIDE DEF t
    <3> QED
      BY <1>0, <3>1, <3>2, OneMovesTyped DEF Positions, Locked
  <2> QED
    BY <2>1, <2>2
<1>13. ASSUME NEW p \in Procs, Admit(p)
      PROVE  Commands'
  <2>1. CASE Go(p, "mark") /\ UNCHANGED task
    BY <1>0, <2>1, OneGoesTyped DEF Positions, Locked
  <2>2. CASE Go(p, "perform") /\ UNCHANGED task
    BY <1>0, <2>2, OneGoesTyped DEF Positions, Locked
  <2>3. CASE End(p)
    BY <1>0, <2>3, OneEndsTyped
  <2> QED
    BY <1>13, <2>1, <2>2, <2>3 DEF Admit
<1>14. ASSUME NEW p \in Procs, Perform(p)
      PROVE  Commands'
  <2> DEFINE t == [task[p] EXCEPT !.done = TRUE]
  <2>0. t \in Task
    BY <1>14, <1>0 DEF Commands, Task
  <2> HIDE DEF t
  <2>1. CASE GoWith(p, "release", t)
    BY <1>0, <2>0, <2>1, OneMovesTyped DEF Positions, Locked
  <2>2. CASE Go(p, "release") /\ UNCHANGED task
    BY <1>0, <2>2, OneGoesTyped DEF Positions, Locked
  <2> QED
    BY <1>14, <2>1, <2>2 DEF Perform, t
<1>15. ASSUME NEW p \in Procs, Release(p)
      PROVE  Commands'
  <2> DEFINE t == [task[p] EXCEPT !.stage = "purge", !.locked = NULL]
  <2>0. t \in Task
    BY <1>15, <1>0 DEF Commands, Task
  <2> HIDE DEF t
  <2>1. CASE GoWith(p, "verify", t)
    BY <1>0, <2>0, <2>1, OneMovesTyped DEF Positions, Locked
  <2>2. CASE End(p)
    BY <1>0, <2>2, OneEndsTyped
  <2> QED
    BY <1>15, <2>1, <2>2 DEF Release, t
<1>16. ASSUME NEW p \in Procs, BootRename(p)
      PROVE  Commands'
  <2>1. CASE Go(p, "booting") /\ UNCHANGED task
    BY <1>0, <2>1, OneGoesTyped DEF Positions, Locked
  <2>2. CASE End(p)
    BY <1>0, <2>2, OneEndsTyped
  <2> QED
    BY <1>16, <2>1, <2>2 DEF BootRename
<1>17. ASSUME NEW p \in Procs, FinishBoot(p)
      PROVE  Commands'
  BY <1>17, <1>0 DEF FinishBoot, Go, GoWith, End, Here, NoTask, Commands, Task, Positions, Ops
<1>18. ASSUME NEW p \in Procs, VerifyDetached(p)
      PROVE  Commands'
  <2>1. CASE Go(p, "lock") /\ UNCHANGED task
    BY <1>0, <2>1, OneGoesTyped DEF Positions, Locked
  <2>2. CASE End(p)
    BY <1>0, <2>2, OneEndsTyped
  <2> QED
    BY <1>18, <2>1, <2>2 DEF VerifyDetached
<1>19. ASSUME NEW p \in Procs, CreateMarker(p)
      PROVE  Commands'
  <2> DEFINE t == [task[p] EXCEPT !.snapshot = home.body]
  <2>0. t \in Task
    BY <1>19, <1>0 DEF Commands, Task, CreateMarker, Home
  <2> HIDE DEF t
  <2>1. CASE GoWith(p, "fill", t)
    BY <1>0, <2>0, <2>1, OneMovesTyped DEF Positions, Locked
  <2>2. CASE Go(p, "release") /\ UNCHANGED task
    BY <1>0, <2>2, OneGoesTyped DEF Positions, Locked
  <2> QED
    BY <1>19, <2>1, <2>2 DEF CreateMarker, t
<1>20. ASSUME NEW p \in Procs, FillMarker(p)
      PROVE  Commands'
  BY <1>20, <1>0 DEF FillMarker, WriteMarker, Go, Here, Commands, Positions, Locked
<1>21. ASSUME NEW p \in Procs, Export(p)
      PROVE  Commands'
  BY <1>21, <1>0 DEF Export, Go, Here, Commands, Positions, Locked
<1>22. ASSUME NEW p \in Procs, RecordArchive(p)
      PROVE  Commands'
  BY <1>22, <1>0 DEF RecordArchive, WriteMarker, Go, Here, Commands, Positions, Locked
<1>23. ASSUME NEW p \in Procs, Recheck(p)
      PROVE  Commands'
  BY <1>23, <1>0 DEF Recheck, Storage, Go, Here, Commands, Positions, Locked
<1>24. ASSUME NEW p \in Procs, RenameAway(p)
      PROVE  Commands'
  <2> DEFINE t == [task[p] EXCEPT !.locked = home.body.born]
  <2>0. t \in Task
    BY <1>24, <1>0 DEF Commands, Task, RenameAway, Home, Body
  <2> HIDE DEF t
  <2>1. CASE GoWith(p, "sweep", t)
    BY <1>0, <2>0, <2>1, OneMovesTyped DEF Positions, Locked
  <2> QED
    BY <1>24, <2>1 DEF RenameAway, t
<1>25. ASSUME NEW p \in Procs, ApplyPurgeCleanup(p)
      PROVE  Commands'
  <2>1. CASE Go(p, "sweep") /\ UNCHANGED task
    BY <1>0, <2>1, OneGoesTyped DEF Positions, Locked
  <2>2. CASE End(p)
    BY <1>0, <2>2, OneEndsTyped
  <2> QED
    BY <1>25, <2>1, <2>2 DEF ApplyPurgeCleanup
<1>26. ASSUME NEW p \in Procs, NEW part \in Parts, Sweep(p, part)
      PROVE  Commands'
  <2>0. CASE UNCHANGED <<pc, task>>
    BY <1>0, <2>0 DEF Commands
  <2>1. CASE Go(p, "release") /\ UNCHANGED task
    BY <1>0, <2>1, OneGoesTyped DEF Positions, Locked
  <2>2. CASE End(p)
    BY <1>0, <2>2, OneEndsTyped
  <2> QED
    BY <1>26, <2>0, <2>1, <2>2 DEF Sweep
<1>27. ASSUME NEW p \in Procs, InterruptPerform(p)
      PROVE  Commands'
  BY <1>27, <1>0
     DEF InterruptPerform, Outcome, Rebridge, Bound, Spend, Go, Here, NoTask, Commands, Task,
         Positions, Ops
<1>28. ASSUME NEW p \in Procs, Fail(p)
      PROVE  Commands'
  <2>1. CASE Go(p, "release") /\ UNCHANGED task
    BY <1>0, <2>1, OneGoesTyped DEF Positions, Locked
  <2>2. CASE End(p)
    BY <1>0, <2>2, OneEndsTyped
  <2> QED
    BY <1>28, <2>1, <2>2 DEF Fail
<1>29. ASSUME NEW p \in Procs, Crash(p)
      PROVE  Commands'
  BY <1>29, <1>0 DEF Crash, Spend, Storage, Go, GoWith, End, NoTask, Commands, Task, Positions, Ops
<1>30. ASSUME NEW p \in Procs, Abandon(p)
      PROVE  Commands'
  BY <1>30, <1>0 DEF Abandon, Storage, Go, GoWith, End, NoTask, Commands, Task, Positions, Ops
<1>31. QED
  BY <1>1, <1>2, <1>3, <1>4, <1>5, <1>6, <1>7, <1>8, <1>9, <1>10, <1>11, <1>12, <1>13, <1>14,
     <1>15, <1>16, <1>17, <1>18, <1>19, <1>20, <1>21, <1>22, <1>23, <1>24, <1>25, <1>26, <1>27,
     <1>28, <1>29, <1>30
     DEF Next, Outside, Plan, Run, Disturb

-----------------------------------------------------------------------------
(* What a plan makes of a namespace.                                      *)

\* What a plan makes of a namespace is a body, of the same namespace.
LEMMA OutcomeIsBody ==
    ASSUME NEW p \in Procs, TypeOK, TaskOK, home # NULL, Bound(p)
    PROVE  Outcome(p) \in Body /\ Outcome(p).born = home.body.born
<1>1. home.body \in Body
  BY DEF TypeOK, Home
<1>2. task[p].op \in {"claim", "adapter", "purge"} => task[p].from \in Body /\ task[p].to \in Body
  BY DEF TaskOK, Remembers
<1>3. task[p].op \in {"claim", "adapter", "purge", "abort"}
  BY DEF Bound
<1>4. CASE task[p].op = "claim"
  BY <1>1, <1>2, <1>4 DEF Outcome, Body
<1>5. CASE task[p].op = "abort"
  BY <1>1, <1>5 DEF Outcome
<1>6. CASE task[p].op \in {"adapter", "purge"}
  BY <1>1, <1>2, <1>6 DEF Outcome, Body
<1>7. QED
  BY <1>3, <1>4, <1>5, <1>6

\* A plan that is applied changes the body of the namespace, or nothing of it.
LEMMA PerformMakes ==
    ASSUME NEW p \in Procs, TypeOK, TaskOK, Perform(p)
    PROVE  /\ home \in Home /\ home' \in Home
           /\ home'.lock = home.lock /\ home'.pointer = home.pointer
           /\ home'.body.born = home.body.born
           /\ home'.body = home.body \/ (Bound(p) /\ home'.body = Outcome(p))
           /\ home'.marker = home.marker \/ (task[p].op = "abort" /\ home'.marker = NULL)
<1>1. home \in Home /\ home.body \in Body
  BY DEF Perform, TypeOK, Home
<1>2. CASE Bound(p)
  <2>1. Outcome(p) \in Body /\ Outcome(p).born = home.body.born
    BY <1>2, OutcomeIsBody DEF Perform
  <2> DEFINE marker == IF task[p].op = "abort" THEN NULL ELSE home.marker
  <2>2. home' = [home EXCEPT !.body = Outcome(p), !.marker = marker]
    BY <1>2 DEF Perform
  <2>3. marker \in Marker \cup {NULL, TORN}
    BY <1>1 DEF Home
  <2> HIDE DEF marker
  <2>4. /\ home' \in Home /\ home'.lock = home.lock /\ home'.pointer = home.pointer
        /\ home'.body = Outcome(p) /\ home'.marker = marker
    BY <1>1, <2>1, <2>2, <2>3 DEF Home
  <2> QED
    BY <1>1, <1>2, <2>1, <2>4 DEF marker
<1>3. CASE ~Bound(p)
  BY <1>1, <1>3 DEF Perform
<1>4. QED
  BY <1>2, <1>3

\* An interrupted one leaves a pointer.
LEMMA InterruptMakes ==
    ASSUME NEW p \in Procs, TypeOK, TaskOK, InterruptPerform(p)
    PROVE  /\ home \in Home /\ home' \in Home /\ Outcome(p) \in Body
           /\ home'.lock = home.lock /\ home'.body = home.body
           /\ home'.marker = home.marker
           /\ home'.pointer = Outcome(p) /\ Outcome(p).born = home.body.born
<1>1. home \in Home
  BY DEF InterruptPerform, TypeOK
<1>2. Outcome(p) \in Body /\ Outcome(p).born = home.body.born
  BY OutcomeIsBody DEF InterruptPerform
<1>3. home' = [home EXCEPT !.pointer = Outcome(p)]
  BY DEF InterruptPerform
<1>4. QED
  BY <1>1, <1>2, <1>3 DEF Home

\* Writing PURGE.json changes nothing else.
LEMMA WriteMakes ==
    ASSUME NEW p \in Procs, NEW position \in Purging \ {"mark"}, NEW next,
           NEW archive \in {NULL, task[p].snapshot}, TypeOK, TaskOK,
           WriteMarker(p, position, next, archive)
    PROVE  /\ home \in Home /\ home' \in Home
           /\ home'.lock = home.lock /\ home'.body = home.body
           /\ home'.pointer = home.pointer
           /\ home'.marker = [export |-> task[p].export,
                              body |-> task[p].snapshot, archive |-> archive]
<1> DEFINE m == [export |-> task[p].export, body |-> task[p].snapshot, archive |-> archive]
<1>1. home \in Home
  BY DEF WriteMarker, TypeOK
<1>2. task[p].snapshot \in Body /\ task[p].export \in Exports
  BY DEF WriteMarker, Here, TaskOK, Remembers, Purging
<1>3. m \in Marker
  BY <1>2 DEF Marker
<1>4. home' = [home EXCEPT !.marker = m]
  BY DEF WriteMarker
<1> HIDE DEF m
<1>5. /\ home' \in Home /\ home'.lock = home.lock /\ home'.body = home.body
      /\ home'.pointer = home.pointer /\ home'.marker = m
  BY <1>1, <1>3, <1>4 DEF Home
<1>6. QED
  BY <1>1, <1>5 DEF m

\* A recovery decides for one of two bodies and removes the pointer.
LEMMA ResolveMakes ==
    ASSUME TypeOK, Resolve
    PROVE  /\ home \in Home /\ home' \in Home /\ home.pointer \in Body
           /\ ~home.lock /\ home'.lock = home.lock /\ home'.pointer = NULL
           /\ home'.body \in {home.body, home.pointer}
           /\ home'.marker \in {home.marker, NULL}
           /\ bridges' = (bridges \ (home.body.adapters \cup home.pointer.adapters))
                           \cup home'.body.adapters
<1>1. home \in Home /\ home.pointer \in Body /\ home.body \in Body
  BY DEF Resolve, TypeOK, Home
<1>2. PICK body \in {home.body, home.pointer}, marker \in {home.marker, NULL} :
          /\ home' = [home EXCEPT !.body = body, !.pointer = NULL, !.marker = marker]
          /\ bridges' = (bridges \ UNION {b.adapters : b \in {home.body, home.pointer}})
                          \cup body.adapters
  BY DEF Resolve, Rebridge
<1>3. marker \in Marker \cup {NULL, TORN} /\ body \in Body
  BY <1>1 DEF Home
<1>4. /\ home' \in Home /\ home'.lock = home.lock /\ home'.pointer = NULL
      /\ home'.body = body /\ home'.marker = marker
  BY <1>1, <1>2, <1>3 DEF Home
<1>5. bridges' = (bridges \ (home.body.adapters \cup home.pointer.adapters)) \cup body.adapters
  BY <1>2
<1>6. QED
  BY <1>1, <1>4, <1>5 DEF Resolve

\* An edit changes the claim.
LEMMA EditMakes ==
    ASSUME TypeOK, Edit
    PROVE  /\ home \in Home /\ home' \in Home
           /\ home'.lock = home.lock /\ home'.pointer = home.pointer
           /\ home'.marker = home.marker
           /\ home'.body.born = home.body.born /\ home'.body.adapters = home.body.adapters
<1>1. home \in Home /\ home.body \in Body
  BY DEF Edit, TypeOK, Home
<1>2. PICK c \in Claims : home' = [home EXCEPT !.body.claim = c]
  BY DEF Edit
<1> DEFINE body == [home.body EXCEPT !.claim = c]
<1>3. body \in Body /\ body.born = home.body.born /\ body.adapters = home.body.adapters
  BY <1>1, <1>2 DEF Body
<1>4. home' = [home EXCEPT !.body = body]
  BY <1>1, <1>2
<1> HIDE DEF body
<1>5. QED
  BY <1>1, <1>3, <1>4 DEF Home

\* An initialization makes a fresh namespace with a live transaction.
LEMMA BootMakes ==
    ASSUME NEW p \in Procs, TypeOK, BootRename(p), home = NULL
    PROVE  /\ births' = births + 1 /\ births' \in Births
           /\ home' \in Home /\ home'.lock = FALSE /\ home'.marker = NULL
           /\ home'.body = Fresh(births') /\ home'.pointer = Fresh(births')
           /\ Fresh(births') \in Body
<1>1. births' = births + 1 /\ births' \in Births
  BY PurgeAssumption DEF BootRename, TypeOK, Births
<1>2. Fresh(births') \in Body
  BY <1>1, PurgeAssumption DEF Fresh, Body, Claims
<1>3. home' = [body |-> Fresh(births'), pointer |-> Fresh(births'),
               marker |-> NULL, lock |-> FALSE]
  BY <1>1 DEF BootRename
<1>4. QED
  BY <1>1, <1>2, <1>3 DEF Home

-----------------------------------------------------------------------------
(* What is stored.                                                        *)

\* Every step leaves what is stored typed.
LEMMA StoredTypedStep ==
    ASSUME TypeOK, TaskOK, [Next]_vars
    PROVE  Stored'
<1>0. Stored /\ Commands
  BY DEF TypeOK, Stored, Commands
<1>1. CASE UNCHANGED vars
  BY <1>0, <1>1 DEF vars, Stored
<1>2. CASE Resolve
  <2>1. home \in Home /\ home.body \in Body /\ home.pointer \in Body
    BY <1>2, <1>0 DEF Resolve, Stored, Home
  <2>2. PICK body \in {home.body, home.pointer}, marker \in {home.marker, NULL} :
          /\ home' = [home EXCEPT !.body = body, !.pointer = NULL, !.marker = marker]
          /\ bridges' = (bridges \ UNION {b.adapters : b \in {home.body, home.pointer}})
                          \cup body.adapters
    BY <1>2 DEF Resolve, Rebridge
  <2>3. home' \in Home
    BY <2>1, <2>2 DEF Home
  <2>4. bridges' \subseteq Providers
    BY <1>0, <2>1, <2>2 DEF Stored, Body
  <2> QED
    BY <1>2, <1>0, <2>3, <2>4 DEF Resolve, Stored
<1>3. CASE ClearStaleLock
  BY <1>3, <1>0, NullAssumption, PurgeAssumption
     DEF ClearStaleLock, Stored, TaskOK, Remembers, Home, Marker, Tomb, Births, Parts, Purging
<1>4. CASE Edit
  <2>1. home \in Home /\ home.body \in Body
    BY <1>4, <1>0 DEF Edit, Stored, Home
  <2>2. PICK c \in Claims : home' = [home EXCEPT !.body.claim = c]
    BY <1>4 DEF Edit
  <2>3. [home.body EXCEPT !.claim = c] \in Body
    BY <2>1, <2>2 DEF Body
  <2>4. home' \in Home
    BY <2>1, <2>2, <2>3 DEF Home
  <2>5. budget' \in 0..Faults
    BY <1>4, <1>0, PurgeAssumption DEF Edit, Spend, Stored
  <2>6. late' \subseteq Procs
    BY <1>4 DEF Edit
  <2> QED
    BY <1>4, <1>0, <2>4, <2>5, <2>6 DEF Edit, Stored
<1>5. ASSUME NEW e \in Exports, LoseArchive(e)
      PROVE  Stored'
  BY <1>5, <1>0, PurgeAssumption DEF LoseArchive, Spend, Stored
<1>6. ASSUME NEW p \in Procs, Plan(p)
      PROVE  Stored'
  BY <1>6, <1>0, PlanStarts DEF Start, Storage, Stored
<1>7. ASSUME NEW p \in Procs, AcquireLock(p)
      PROVE  Stored'
  BY <1>7, <1>0, NullAssumption, PurgeAssumption
     DEF AcquireLock, Go, GoWith, End, Here, NoTask, Stored, TaskOK, Remembers, Home, Marker,
         Tomb, Births, Parts, Purging
<1>8. ASSUME NEW p \in Procs, Admit(p)
      PROVE  Stored'
  BY <1>8, <1>0, NullAssumption, PurgeAssumption
     DEF Admit, Go, GoWith, End, Here, NoTask, Stored, TaskOK, Remembers, Home, Marker, Tomb,
         Births, Parts, Purging
<1>9. ASSUME NEW p \in Procs, Perform(p)
      PROVE  Stored'
  <2>1. home \in Home /\ home.body \in Body
    BY <1>9, <1>0 DEF Perform, Stored, Home
  <2>2. CASE Bound(p)
    <3>1. Outcome(p) \in Body
      BY <1>9, <2>2, OutcomeIsBody DEF Perform
    <3>2. home' = [home EXCEPT !.body = Outcome(p),
                               !.marker = IF task[p].op = "abort" THEN NULL ELSE home.marker]
      BY <1>9, <2>2 DEF Perform
    <3> HIDE DEF Outcome
    <3>3. home' \in Home
      BY <2>1, <3>1, <3>2 DEF Home
    <3>4. bridges' = (bridges \ home.body.adapters) \cup Outcome(p).adapters
      BY <1>9, <2>2 DEF Perform, Rebridge
    <3>5. bridges' \subseteq Providers
      BY <1>0, <3>1, <3>4 DEF Stored, Body
    <3> QED
      BY <1>9, <1>0, <3>3, <3>5 DEF Perform, Stored
  <2>3. CASE ~Bound(p)
    BY <1>9, <1>0, <2>3 DEF Perform, Stored
  <2> QED
    BY <2>2, <2>3
<1>10. ASSUME NEW p \in Procs, Release(p)
      PROVE  Stored'
  BY <1>10, <1>0, NullAssumption, PurgeAssumption
     DEF Release, Go, GoWith, End, Here, NoTask, Stored, TaskOK, Remembers, Home, Marker, Tomb,
         Births, Parts, Purging
<1>11. ASSUME NEW p \in Procs, BootRename(p)
      PROVE  Stored'
  <2>1. CASE home # NULL
    BY <1>11, <1>0, <2>1 DEF BootRename, Stored
  <2>2. CASE home = NULL
    <3>1. births' \in Births
      BY <1>11, <1>0, PurgeAssumption DEF BootRename, Stored, Births
    <3>2. Fresh(births') \in Body
      BY <3>1, PurgeAssumption DEF Fresh, Body, Claims
    <3>3. home' = [body |-> Fresh(births'), pointer |-> Fresh(births'),
                   marker |-> NULL, lock |-> FALSE]
      BY <1>11, <2>2 DEF BootRename
    <3>4. home' \in Home
      BY <3>2, <3>3 DEF Home
    <3> QED
      BY <1>11, <1>0, <3>1, <3>4 DEF BootRename, Stored
  <2> QED
    BY <2>1, <2>2
<1>12. ASSUME NEW p \in Procs, FinishBoot(p)
      PROVE  Stored'
  BY <1>12, <1>0 DEF FinishBoot, Stored, TaskOK, Home
<1>13. ASSUME NEW p \in Procs, VerifyDetached(p)
      PROVE  Stored'
  BY <1>13, <1>0 DEF VerifyDetached, Storage, Go, GoWith, Stored
<1>14. ASSUME NEW p \in Procs, CreateMarker(p)
      PROVE  Stored'
  BY <1>14, <1>0 DEF CreateMarker, Stored, TaskOK, Home
<1>15. ASSUME NEW p \in Procs, FillMarker(p)
      PROVE  Stored'
  BY <1>15, <1>0, NullAssumption
     DEF FillMarker, WriteMarker, Go, Here, Stored, TaskOK, Remembers, Home, Marker, Purging
<1>16. ASSUME NEW p \in Procs, Export(p)
      PROVE  Stored'
  BY <1>16, <1>0 DEF Export, Here, Stored, TaskOK, Remembers, Purging
<1>17. ASSUME NEW p \in Procs, RecordArchive(p)
      PROVE  Stored'
  BY <1>17, <1>0
     DEF RecordArchive, WriteMarker, Go, Here, Stored, TaskOK, Remembers, Home, Marker, Purging
<1>18. ASSUME NEW p \in Procs, Recheck(p)
      PROVE  Stored'
  BY <1>18, <1>0 DEF Recheck, Storage, Stored
<1>19. ASSUME NEW p \in Procs, RenameAway(p)
      PROVE  Stored'
  BY <1>19, <1>0, NullAssumption, PurgeAssumption
     DEF RenameAway, Go, GoWith, Here, Stored, TaskOK, Remembers, Home, Marker, Tomb, Births,
         Parts, Purging
<1>20. ASSUME NEW p \in Procs, ApplyPurgeCleanup(p)
      PROVE  Stored'
  BY <1>20, <1>0 DEF ApplyPurgeCleanup, Storage, Go, GoWith, Stored
<1>21. ASSUME NEW p \in Procs, NEW part \in Parts, Sweep(p, part)
      PROVE  Stored'
  <2> DEFINE n == Swept(p)
             t == Without(tombs[n], part)
  <2>1. tombs' = [tombs EXCEPT ![n] = t]
    BY <1>21 DEF Sweep
  <2>2. n \in Births => t \in Tomb \cup {NULL}
    BY <1>0 DEF Stored, Tomb, Without
  <2>3. tombs' \in [Births -> Tomb \cup {NULL}]
    BY <1>0, <2>1, <2>2 DEF Stored
  <2> QED
    BY <1>21, <1>0, <2>3 DEF Sweep, Stored
<1>22. ASSUME NEW p \in Procs, InterruptPerform(p)
      PROVE  Stored'
  <2>1. home \in Home /\ home.body \in Body /\ Bound(p)
    BY <1>22, <1>0 DEF InterruptPerform, Stored, Home
  <2>2. Outcome(p) \in Body
    BY <1>22, OutcomeIsBody DEF InterruptPerform
  <2>3. home' \in Home
    BY <1>22, <2>1, <2>2 DEF InterruptPerform, Home
  <2>4. bridges' = bridges \/ bridges' = (bridges \ home.body.adapters) \cup Outcome(p).adapters
    BY <1>22 DEF InterruptPerform, Rebridge
  <2>5. bridges' \subseteq Providers
    BY <1>0, <2>2, <2>4 DEF Stored, Body
  <2>6. budget' \in 0..Faults
    BY <1>22, <1>0, PurgeAssumption DEF InterruptPerform, Spend, Stored
  <2> QED
    BY <1>22, <1>0, <2>3, <2>5, <2>6 DEF InterruptPerform, Stored
<1>23. ASSUME NEW p \in Procs, Fail(p)
      PROVE  Stored'
  BY <1>23, <1>0, PurgeAssumption DEF Fail, Spend, Storage, Go, Stored
<1>24. ASSUME NEW p \in Procs, Crash(p)
      PROVE  Stored'
  BY <1>24, <1>0, PurgeAssumption DEF Crash, Spend, Storage, Go, Stored
<1>25. ASSUME NEW p \in Procs, Abandon(p)
      PROVE  Stored'
  BY <1>25, <1>0 DEF Abandon, Storage, Go, Stored
<1>26. QED
  BY <1>1, <1>2, <1>3, <1>4, <1>5, <1>6, <1>7, <1>8, <1>9, <1>10, <1>11, <1>12, <1>13, <1>14,
     <1>15, <1>16, <1>17, <1>18, <1>19, <1>20, <1>21, <1>22, <1>23, <1>24, <1>25
     DEF Next, Outside, Run, Disturb

-----------------------------------------------------------------------------
(* The lock.                                                              *)

(* The lock of the namespace that stands is that of the one command that    *)
(* works in it.                                                            *)
Working == Locked \cup {"release"}
Locks ==
    /\ home # NULL => \A p \in Procs : pc[p] \in Working =>
          /\ home.lock
          /\ task[p].locked = home.body.born
          /\ \A q \in Procs : pc[q] \in Working => q = p
    /\ home = NULL => \A p \in Procs :
          pc[p] \notin Locked /\ (pc[p] = "release" => task[p].op = "purge")
    /\ \A p \in Procs : pc[p] = "sweep" /\ task[p].op = "purge" => home = NULL

(* Namespaces and tombstones are numbered in the order of their births.    *)
Ages ==
    /\ home # NULL => /\ home.body.born = births
                      /\ home.pointer # NULL => home.pointer.born = births
    /\ \A n \in Births : tombs[n] # NULL =>
          tombs[n].body.born = n /\ n <= births /\ (home # NULL => n < births)

\* Steps that leave the lock and the identity of the namespace alone.
LEMMA SameLocks ==
    ASSUME Locks, home # NULL, home' # NULL, home'.lock = home.lock,
           home'.body.born = home.body.born,
           \A q \in Procs : pc'[q] \in Working => pc[q] \in Working /\ task'[q].locked = task[q].locked,
           \A q \in Procs : pc'[q] = "sweep" /\ task'[q].op = "purge"
                             => pc[q] = "sweep" /\ task[q].op = "purge"
    PROVE  Locks'
BY DEF Locks, Working, Locked

\* At most one command works in a namespace, and its lock stands.
LEMMA LocksStep ==
    ASSUME ReinitWaits, TypeOK, TaskOK, Locks, [Next]_vars
    PROVE  Locks'
<1>0. Commands /\ home \in Home \cup {NULL}
  BY DEF TypeOK, Commands
<1>1. CASE UNCHANGED vars
  BY <1>1 DEF vars, Locks, Commands
<1>2. CASE Resolve
  BY <1>2 DEF Resolve, Locks, Working
<1>3. CASE ClearStaleLock
  BY <1>3 DEF ClearStaleLock, Holds, Locks, Working
<1>4. CASE Edit
  <2>1. /\ home # NULL /\ home' # NULL
        /\ home'.lock = home.lock /\ home'.body.born = home.body.born
    BY <1>4, EditMakes, NullAssumption
  <2>2. /\ \A q \in Procs : pc'[q] \in Working => pc[q] \in Working /\ task'[q].locked = task[q].locked
        /\ \A q \in Procs : pc'[q] = "sweep" /\ task'[q].op = "purge"
                             => pc[q] = "sweep" /\ task[q].op = "purge"
    BY <1>4 DEF Edit
  <2> HIDE DEF Working
  <2> QED
    BY <2>1, <2>2, SameLocks
<1>5. ASSUME NEW e \in Exports, LoseArchive(e)
      PROVE  Locks'
  BY <1>5 DEF LoseArchive, Locks
<1>6. ASSUME NEW p \in Procs, Plan(p)
      PROVE  Locks'
  BY <1>6, <1>0, PlanStarts DEF Start, Storage, Go, GoWith, Locks, Working, Locked, Commands
<1>7. ASSUME NEW p \in Procs, AcquireLock(p)
      PROVE  Locks'
  <2>1. CASE home = NULL
    BY <1>7, <1>0, <2>1 DEF AcquireLock, Go, GoWith, End, Locks, Locked, Commands
  <2>2. CASE home # NULL
    <3>1. \A q \in Procs : pc[q] \notin Working
      BY <1>7, <2>2 DEF AcquireLock, Locks
    <3>2. home' # NULL /\ home'.lock /\ home'.body.born = home.body.born
      BY <1>7, <1>0, <2>2, NullAssumption DEF AcquireLock, Home
    <3>3. GoWith(p, "admit", [task[p] EXCEPT !.locked = home.body.born])
      BY <1>7, <2>2 DEF AcquireLock
    <3>4. \A q \in Procs : q # p => pc'[q] = pc[q] /\ task'[q] = task[q]
      BY <3>3 DEF GoWith, Go
    <3>5. pc'[p] = "admit" /\ task'[p].locked = home.body.born
      BY <1>0, <3>3 DEF GoWith, Go, Commands
    <3>6. \A q \in Procs : q # p => pc'[q] \notin Working
      BY <3>1, <3>4
    <3> QED
      BY <2>2, <3>2, <3>4, <3>5, <3>6 DEF Locks
  <2> QED
    BY <2>1, <2>2
<1>8. ASSUME NEW p \in Procs, Admit(p)
      PROVE  Locks'
  BY <1>8, <1>0 DEF Admit, Go, GoWith, End, Here, Locks, Working, Locked, Commands
<1>9. ASSUME NEW p \in Procs, Perform(p)
      PROVE  Locks'
  <2>1. /\ home # NULL /\ home' # NULL
        /\ home'.lock = home.lock /\ home'.body.born = home.body.born
    BY <1>9, PerformMakes, NullAssumption
  <2>2. /\ \A q \in Procs : pc'[q] \in Working => pc[q] \in Working /\ task'[q].locked = task[q].locked
        /\ \A q \in Procs : pc'[q] = "sweep" /\ task'[q].op = "purge"
                             => pc[q] = "sweep" /\ task[q].op = "purge"
    BY <1>9, <1>0 DEF Perform, Commands, Go, GoWith, Here, Working, Locked, Task
  <2> HIDE DEF Working
  <2> QED
    BY <2>1, <2>2, SameLocks
<1>10. ASSUME NEW p \in Procs, Release(p)
      PROVE  Locks'
  BY <1>10, <1>0 DEF Release, Go, GoWith, End, Here, Locks, Working, Locked, Commands
<1>11. ASSUME NEW p \in Procs, BootRename(p)
      PROVE  Locks'
  BY <1>11, <1>0 DEF BootRename, Fresh, Go, GoWith, End, Here, Locks, Working, Locked, Commands
<1>12. ASSUME NEW p \in Procs, FinishBoot(p)
      PROVE  Locks'
  BY <1>12, <1>0, NullAssumption DEF FinishBoot, Go, GoWith, End, Here, Locks, Working, Locked, Home
<1>13. ASSUME NEW p \in Procs, VerifyDetached(p)
      PROVE  Locks'
  BY <1>13, <1>0 DEF VerifyDetached, Storage, Go, GoWith, End, Locks, Working, Locked, Commands
<1>14. ASSUME NEW p \in Procs, CreateMarker(p)
      PROVE  Locks'
  BY <1>14, <1>0, NullAssumption
     DEF CreateMarker, Go, GoWith, Here, Locks, Working, Locked, Commands, Home, Task
<1>15. ASSUME NEW p \in Procs, FillMarker(p)
      PROVE  Locks'
  <2>0. WriteMarker(p, "fill", "export", NULL) /\ "fill" \in Purging \ {"mark"}
    BY <1>15 DEF FillMarker, Purging
  <2>1. /\ home # NULL /\ home' # NULL
        /\ home'.lock = home.lock /\ home'.body.born = home.body.born
    BY <1>15, <2>0, WriteMakes, NullAssumption
  <2>2. /\ \A q \in Procs : pc'[q] \in Working => pc[q] \in Working /\ task'[q].locked = task[q].locked
        /\ \A q \in Procs : pc'[q] = "sweep" /\ task'[q].op = "purge"
                             => pc[q] = "sweep" /\ task[q].op = "purge"
    BY <1>15 DEF FillMarker, WriteMarker, Go, Here, Working, Locked
  <2> HIDE DEF Working
  <2> QED
    BY <2>1, <2>2, SameLocks
<1>16. ASSUME NEW p \in Procs, Export(p)
      PROVE  Locks'
  BY <1>16, <1>0 DEF Export, Go, Here, Locks, Working, Locked, Commands
<1>17. ASSUME NEW p \in Procs, RecordArchive(p)
      PROVE  Locks'
  <2>0. WriteMarker(p, "record", "recheck", task[p].snapshot) /\ "record" \in Purging \ {"mark"}
    BY <1>17 DEF RecordArchive, Purging
  <2>1. /\ home # NULL /\ home' # NULL
        /\ home'.lock = home.lock /\ home'.body.born = home.body.born
    BY <1>17, <2>0, WriteMakes, NullAssumption
  <2>2. /\ \A q \in Procs : pc'[q] \in Working => pc[q] \in Working /\ task'[q].locked = task[q].locked
        /\ \A q \in Procs : pc'[q] = "sweep" /\ task'[q].op = "purge"
                             => pc[q] = "sweep" /\ task[q].op = "purge"
    BY <1>17 DEF RecordArchive, WriteMarker, Go, Here, Working, Locked
  <2> HIDE DEF Working
  <2> QED
    BY <2>1, <2>2, SameLocks
<1>18. ASSUME NEW p \in Procs, Recheck(p)
      PROVE  Locks'
  BY <1>18 DEF Recheck, Storage, Go, Here, Locks, Working, Locked
<1>19. ASSUME NEW p \in Procs, RenameAway(p)
      PROVE  Locks'
  BY <1>19, <1>0 DEF RenameAway, Go, GoWith, Here, Locks, Working, Locked, Commands
<1>20. ASSUME NEW p \in Procs, ApplyPurgeCleanup(p)
      PROVE  Locks'
  BY <1>20, <1>0, TaskOK
     DEF ApplyPurgeCleanup, Storage, Go, GoWith, End, Here, Locks, Working, Locked, Commands,
         TaskOK, Remembers
<1>21. ASSUME NEW p \in Procs, NEW part \in Parts, Sweep(p, part)
      PROVE  Locks'
  BY <1>21, <1>0 DEF Sweep, Swept, Without, Go, GoWith, End, Here, Locks, Working, Locked, Commands
<1>22. ASSUME NEW p \in Procs, InterruptPerform(p)
      PROVE  Locks'
  <2>1. /\ home # NULL /\ home' # NULL
        /\ home'.lock = home.lock /\ home'.body.born = home.body.born
    BY <1>22, InterruptMakes, NullAssumption
  <2>2. /\ \A q \in Procs : pc'[q] \in Working => pc[q] \in Working /\ task'[q].locked = task[q].locked
        /\ \A q \in Procs : pc'[q] = "sweep" /\ task'[q].op = "purge"
                             => pc[q] = "sweep" /\ task[q].op = "purge"
    BY <1>22, <1>0 DEF InterruptPerform, Commands, Go, Here, Working, Locked
  <2> HIDE DEF Working
  <2> QED
    BY <2>1, <2>2, SameLocks
<1>23. ASSUME NEW p \in Procs, Fail(p)
      PROVE  Locks'
  BY <1>23, <1>0
     DEF Fail, Storage, Go, GoWith, End, NoTask, Locks, Working, Locked, Commands, TaskOK,
         Remembers
<1>24. ASSUME NEW p \in Procs, Crash(p)
      PROVE  Locks'
  BY <1>24, <1>0 DEF Crash, Spend, Storage, Go, GoWith, End, Locks, Working, Locked, Commands
<1>25. ASSUME NEW p \in Procs, Abandon(p)
      PROVE  Locks'
  BY <1>25 DEF Abandon, Storage, Go, GoWith, End, Locks, Working, Locked
<1>26. QED
  BY <1>1, <1>2, <1>3, <1>4, <1>5, <1>6, <1>7, <1>8, <1>9, <1>10, <1>11, <1>12, <1>13, <1>14,
     <1>15, <1>16, <1>17, <1>18, <1>19, <1>20, <1>21, <1>22, <1>23, <1>24, <1>25
     DEF Next, Outside, Run, Disturb

\* Namespaces are numbered in the order they were initialized.
LEMMA AgesStep ==
    ASSUME TypeOK, TaskOK, Ages, [Next]_vars
    PROVE  Ages'
<1>0. Commands /\ Stored
  BY DEF TypeOK, Commands, Stored
<1>1. CASE UNCHANGED vars
  BY <1>1 DEF vars, Ages, Stored
<1>2. CASE Resolve
  BY <1>2 DEF Resolve, Ages
<1>3. CASE ClearStaleLock
  BY <1>3 DEF ClearStaleLock, Ages
<1>4. CASE Edit
  BY <1>4, <1>0 DEF Edit, Ages, Stored, Home, Body
<1>5. ASSUME NEW e \in Exports, LoseArchive(e)
      PROVE  Ages'
  BY <1>5 DEF LoseArchive, Ages
<1>6. ASSUME NEW p \in Procs, Plan(p)
      PROVE  Ages'
  <2>1. UNCHANGED <<home, tombs, births>>
    BY <1>6, PlanStarts DEF Start, Storage
  <2> QED
    BY <2>1 DEF Ages
<1>7. ASSUME NEW p \in Procs, AcquireLock(p)
      PROVE  Ages'
  BY <1>7, <1>0 DEF AcquireLock, Ages, Stored, Home
<1>8. ASSUME NEW p \in Procs, Admit(p)
      PROVE  Ages'
  BY <1>8, <1>0 DEF Admit, Ages, Stored, Home
<1>9. ASSUME NEW p \in Procs, Perform(p)
      PROVE  Ages'
  <2>1. /\ home # NULL /\ home' # NULL /\ home'.pointer = home.pointer
        /\ home'.body.born = home.body.born
    BY <1>9, PerformMakes, NullAssumption
  <2> QED
    BY <1>9, <2>1 DEF Perform, Ages
<1>10. ASSUME NEW p \in Procs, Release(p)
      PROVE  Ages'
  BY <1>10 DEF Release, Ages
<1>11. ASSUME NEW p \in Procs, BootRename(p)
      PROVE  Ages'
  BY <1>11, <1>0 DEF BootRename, Fresh, Ages, Stored, Births
<1>12. ASSUME NEW p \in Procs, FinishBoot(p)
      PROVE  Ages'
  BY <1>12 DEF FinishBoot, Ages
<1>13. ASSUME NEW p \in Procs, VerifyDetached(p)
      PROVE  Ages'
  BY <1>13 DEF VerifyDetached, Storage, Ages
<1>14. ASSUME NEW p \in Procs, CreateMarker(p)
      PROVE  Ages'
  BY <1>14, <1>0 DEF CreateMarker, Ages, Stored, Home
<1>15. ASSUME NEW p \in Procs, FillMarker(p)
      PROVE  Ages'
  BY <1>15 DEF FillMarker, WriteMarker, Ages
<1>16. ASSUME NEW p \in Procs, Export(p)
      PROVE  Ages'
  BY <1>16 DEF Export, Ages
<1>17. ASSUME NEW p \in Procs, RecordArchive(p)
      PROVE  Ages'
  BY <1>17 DEF RecordArchive, WriteMarker, Ages
<1>18. ASSUME NEW p \in Procs, Recheck(p)
      PROVE  Ages'
  BY <1>18 DEF Recheck, Storage, Ages
<1>19. ASSUME NEW p \in Procs, RenameAway(p)
      PROVE  Ages'
  BY <1>19 DEF RenameAway, Ages, Births
<1>20. ASSUME NEW p \in Procs, ApplyPurgeCleanup(p)
      PROVE  Ages'
  BY <1>20 DEF ApplyPurgeCleanup, Storage, Ages
<1>21. ASSUME NEW p \in Procs, NEW part \in Parts, Sweep(p, part)
      PROVE  Ages'
  <2>1. \A n \in Births : tombs'[n] # NULL => tombs[n] # NULL /\ tombs'[n].body = tombs[n].body
    BY <1>21 DEF Sweep, Without
  <2> QED
    BY <1>21, <2>1 DEF Sweep, Ages
<1>22. ASSUME NEW p \in Procs, InterruptPerform(p)
      PROVE  Ages'
  <2>1. /\ home # NULL /\ home' # NULL /\ home'.pointer = Outcome(p)
        /\ home'.body = home.body /\ Outcome(p).born = home.body.born
    BY <1>22, InterruptMakes, NullAssumption
  <2> QED
    BY <1>22, <2>1 DEF InterruptPerform, Ages
<1>23. ASSUME NEW p \in Procs, Fail(p)
      PROVE  Ages'
  BY <1>23 DEF Fail, Spend, Storage, Ages
<1>24. ASSUME NEW p \in Procs, Crash(p)
      PROVE  Ages'
  BY <1>24 DEF Crash, Spend, Storage, Ages
<1>25. ASSUME NEW p \in Procs, Abandon(p)
      PROVE  Ages'
  BY <1>25 DEF Abandon, Storage, Ages
<1>26. QED
  BY <1>1, <1>2, <1>3, <1>4, <1>5, <1>6, <1>7, <1>8, <1>9, <1>10, <1>11, <1>12, <1>13, <1>14,
     <1>15, <1>16, <1>17, <1>18, <1>19, <1>20, <1>21, <1>22, <1>23, <1>24, <1>25
     DEF Next, Outside, Run, Disturb

-----------------------------------------------------------------------------
(* Transactions and adapters.                                             *)

(* What a command found when it was admitted holds while it works, and an  *)
(* initialization that goes on is alone with its transaction.              *)
Admissions ==
    /\ home # NULL => \A p \in Procs :
          /\ pc[p] \in Locked \ {"admit"} => home.pointer = NULL
          /\ pc[p] = "perform" /\ task[p].op # "abort" => home.marker = NULL
    /\ \A p \in Procs : pc[p] = "booting" =>
          /\ home # NULL /\ home.pointer # NULL
          /\ home.body.adapters = {} /\ home.pointer.adapters = {}
          /\ \A q \in Procs : pc[q] = "booting" => q = p

(* Registered adapters have their bridges, but under a live transaction.   *)
Bridged ==
    home # NULL =>
      /\ (home.pointer = NULL \/ home.marker # NULL) => home.body.adapters \subseteq bridges
      /\ (home.pointer # NULL /\ home.marker # NULL) => home.pointer.adapters = home.body.adapters

\* No transaction is live under a command that works, and no other one under an initialization.
LEMMA AdmissionsStep ==
    ASSUME ReinitWaits, TypeOK, TaskOK, Locks, Admissions, [Next]_vars
    PROVE  Admissions'
<1>0. Commands /\ home \in Home \cup {NULL}
  BY DEF TypeOK, Commands
<1>1. CASE UNCHANGED vars
  BY <1>1 DEF vars, Admissions, Commands
<1>2. CASE Resolve
  BY <1>2 DEF Resolve, Here, Admissions
<1>3. CASE ClearStaleLock
  BY <1>3, <1>0, NullAssumption
     DEF ClearStaleLock, Admissions, Locks, Working, Locked, Commands, Home, Task
<1>4. CASE Edit
  <2>1. /\ home # NULL /\ home' # NULL /\ home'.pointer = home.pointer
        /\ home'.marker = home.marker /\ home'.body.adapters = home.body.adapters
    BY <1>4, EditMakes, NullAssumption
  <2> QED
    BY <1>4, <2>1 DEF Edit, Admissions
<1>5. ASSUME NEW e \in Exports, LoseArchive(e)
      PROVE  Admissions'
  BY <1>5 DEF LoseArchive, Admissions
<1>6. ASSUME NEW p \in Procs, Plan(p)
      PROVE  Admissions'
  BY <1>6, <1>0, PlanStarts DEF Start, Storage, Go, GoWith, Admissions, Locked, Commands
<1>7. ASSUME NEW p \in Procs, AcquireLock(p)
      PROVE  Admissions'
  <2>1. CASE home = NULL
    BY <1>7, <1>0, <2>1 DEF AcquireLock, Go, GoWith, End, Admissions, Commands
  <2>2. CASE home # NULL
    <3>1. /\ home' # NULL /\ home'.pointer = home.pointer
          /\ home'.marker = home.marker /\ home'.body = home.body
      BY <1>7, <1>0, <2>2, NullAssumption DEF AcquireLock, Home
    <3>2. GoWith(p, "admit", [task[p] EXCEPT !.locked = home.body.born])
      BY <1>7, <2>2 DEF AcquireLock
    <3>3. \A q \in Procs : q # p => pc'[q] = pc[q] /\ task'[q] = task[q]
      BY <3>2 DEF GoWith, Go
    <3>4. pc'[p] = "admit"
      BY <1>0, <3>2 DEF GoWith, Go, Commands
    <3> QED
      BY <2>2, <3>1, <3>3, <3>4 DEF Admissions, Locked
  <2> QED
    BY <2>1, <2>2
<1>8. ASSUME NEW p \in Procs, Admit(p)
      PROVE  Admissions'
  <2>1. CASE Admitted(p)
    BY <1>8, <1>0, <2>1 DEF Admit, Admitted, Go, Admissions, Commands
  <2>2. CASE ~Admitted(p)
    <3>1. /\ home # NULL /\ home' # NULL /\ home'.pointer = home.pointer
          /\ home'.marker = home.marker /\ home'.body = home.body
      BY <1>8, <1>0, <2>2, NullAssumption DEF Admit, Home
    <3>2. End(p)
      BY <1>8, <2>2 DEF Admit
    <3> QED
      BY <1>0, <3>1, <3>2 DEF End, GoWith, Go, Admissions, Locked, Commands
  <2> QED
    BY <2>1, <2>2
<1>9. ASSUME NEW p \in Procs, Perform(p)
      PROVE  Admissions'
  BY <1>9, <1>0
     DEF Perform, Bound, Outcome, Rebridge, Go, GoWith, Here, Admissions, Locks, Working,
         Locked, Commands
<1>10. ASSUME NEW p \in Procs, Release(p)
      PROVE  Admissions'
  <2>1. CASE home = NULL
    BY <1>10, <1>0, <2>1 DEF Release, Go, GoWith, End, Admissions, Commands
  <2>2. CASE home # NULL
    <3>1. /\ home' # NULL /\ home'.pointer = home.pointer
          /\ home'.marker = home.marker /\ home'.body = home.body
      BY <1>10, <1>0, <2>2, NullAssumption DEF Release, Home
    <3>2. \A q \in Procs : q # p => pc'[q] = pc[q] /\ task'[q] = task[q]
      BY <1>10, <1>0 DEF Release, Go, GoWith, End, Commands
    <3>3. pc'[p] \in {"verify", "idle"}
      BY <1>10, <1>0 DEF Release, Go, GoWith, End, Commands
    <3> QED
      BY <2>2, <3>1, <3>2, <3>3 DEF Admissions, Locked
  <2> QED
    BY <2>1, <2>2
<1>11. ASSUME NEW p \in Procs, BootRename(p)
      PROVE  Admissions'
  <2>1. CASE home = NULL
    <3>1. /\ home' # NULL /\ home'.pointer # NULL /\ home'.marker = NULL
          /\ home'.body.adapters = {} /\ home'.pointer.adapters = {}
      <4>1. /\ home' # NULL /\ home'.pointer # NULL /\ home'.marker = NULL
            /\ home'.body = Fresh(births') /\ home'.pointer = Fresh(births')
        BY <1>11, <2>1, BootMakes, NullAssumption
      <4>2. Fresh(births').adapters = {}
        BY DEF Fresh
      <4> QED
        BY <4>1, <4>2
    <3>2. \A q \in Procs : pc[q] \notin Locked /\ pc[q] # "booting"
      BY <2>1 DEF Locks, Admissions
    <3>3. pc' = [pc EXCEPT ![p] = "booting"] /\ UNCHANGED task
      BY <1>11, <2>1 DEF BootRename, Go
    <3> QED
      BY <3>1, <3>2, <3>3 DEF Admissions, Locked
  <2>2. CASE home # NULL
    BY <1>11, <1>0, <2>2 DEF BootRename, Go, GoWith, End, Admissions, Locked, Commands
  <2> QED
    BY <2>1, <2>2
<1>12. ASSUME NEW p \in Procs, FinishBoot(p)
      PROVE  Admissions'
  BY <1>12, <1>0 DEF FinishBoot, Go, GoWith, End, Here, Admissions, Commands
<1>13. ASSUME NEW p \in Procs, VerifyDetached(p)
      PROVE  Admissions'
  BY <1>13, <1>0 DEF VerifyDetached, Storage, Go, GoWith, End, Admissions, Locked, Commands
<1>14. ASSUME NEW p \in Procs, CreateMarker(p)
      PROVE  Admissions'
  BY <1>14, <1>0
     DEF CreateMarker, Go, GoWith, Here, Admissions, Locks, Working, Locked, Commands, Home
<1>15. ASSUME NEW p \in Procs, FillMarker(p)
      PROVE  Admissions'
  BY <1>15 DEF FillMarker, WriteMarker, Go, Here, Admissions, Locks, Working, Locked
<1>16. ASSUME NEW p \in Procs, Export(p)
      PROVE  Admissions'
  BY <1>16, <1>0 DEF Export, Go, Here, Admissions, Locked, Commands
<1>17. ASSUME NEW p \in Procs, RecordArchive(p)
      PROVE  Admissions'
  BY <1>17 DEF RecordArchive, WriteMarker, Go, Here, Admissions, Locks, Working, Locked
<1>18. ASSUME NEW p \in Procs, Recheck(p)
      PROVE  Admissions'
  BY <1>18 DEF Recheck, Storage, Go, Here, Admissions, Locked
<1>19. ASSUME NEW p \in Procs, RenameAway(p)
      PROVE  Admissions'
  BY <1>19 DEF RenameAway, Go, GoWith, Here, Admissions, Locked
<1>20. ASSUME NEW p \in Procs, ApplyPurgeCleanup(p)
      PROVE  Admissions'
  BY <1>20, <1>0 DEF ApplyPurgeCleanup, Storage, Go, GoWith, End, Admissions, Locked, Commands
<1>21. ASSUME NEW p \in Procs, NEW part \in Parts, Sweep(p, part)
      PROVE  Admissions'
  BY <1>21, <1>0 DEF Sweep, Swept, Without, Go, GoWith, End, Admissions, Locked, Commands
<1>22. ASSUME NEW p \in Procs, InterruptPerform(p)
      PROVE  Admissions'
  BY <1>22, <1>0
     DEF InterruptPerform, Outcome, Rebridge, Bound, Spend, Go, Here, Admissions, Locks,
         Working, Locked, Commands
<1>23. ASSUME NEW p \in Procs, Fail(p)
      PROVE  Admissions'
  BY <1>23, <1>0 DEF Fail, Spend, Storage, Go, GoWith, End, Admissions, Locked, Commands
<1>24. ASSUME NEW p \in Procs, Crash(p)
      PROVE  Admissions'
  BY <1>24 DEF Crash, Spend, Storage, Go, GoWith, End, Admissions, Locked
<1>25. ASSUME NEW p \in Procs, Abandon(p)
      PROVE  Admissions'
  BY <1>25 DEF Abandon, Storage, Go, GoWith, End, Admissions, Locked
<1>26. QED
  BY <1>1, <1>2, <1>3, <1>4, <1>5, <1>6, <1>7, <1>8, <1>9, <1>10, <1>11, <1>12, <1>13, <1>14,
     <1>15, <1>16, <1>17, <1>18, <1>19, <1>20, <1>21, <1>22, <1>23, <1>24, <1>25
     DEF Next, Outside, Run, Disturb

\* The bridges of registered adapters stand while no transaction is live.
LEMMA BridgedStep ==
    ASSUME TypeOK, TaskOK, Admissions, Bridged, [Next]_vars
    PROVE  Bridged'
<1>0. Commands /\ Stored
  BY DEF TypeOK, Commands, Stored
<1>1. CASE UNCHANGED vars
  BY <1>1 DEF vars, Bridged, Stored
<1>2. CASE Resolve
  BY <1>2 DEF Resolve, Rebridge, Bridged
<1>3. CASE ClearStaleLock
  BY <1>3 DEF ClearStaleLock, Bridged
<1>4. CASE Edit
  <2>1. /\ home # NULL /\ home' # NULL /\ home'.pointer = home.pointer
        /\ home'.marker = home.marker /\ home'.body.adapters = home.body.adapters
    BY <1>4, EditMakes, NullAssumption
  <2> QED
    BY <1>4, <2>1 DEF Edit, Bridged
<1>5. ASSUME NEW e \in Exports, LoseArchive(e)
      PROVE  Bridged'
  BY <1>5 DEF LoseArchive, Bridged
<1>6. ASSUME NEW p \in Procs, Plan(p)
      PROVE  Bridged'
  BY <1>6, PlanStarts DEF Start, Storage, Bridged
<1>7. ASSUME NEW p \in Procs, AcquireLock(p)
      PROVE  Bridged'
  BY <1>7, <1>0 DEF AcquireLock, Bridged, Stored, Home
<1>8. ASSUME NEW p \in Procs, Admit(p)
      PROVE  Bridged'
  BY <1>8, <1>0 DEF Admit, Bridged, Stored, Home
<1>9. ASSUME NEW p \in Procs, Perform(p)
      PROVE  Bridged'
  BY <1>9, <1>0, NullAssumption
     DEF Perform, Bound, Outcome, Rebridge, Go, GoWith, Here, Bridged, Admissions, Locked,
         Stored, Home
<1>10. ASSUME NEW p \in Procs, Release(p)
      PROVE  Bridged'
  BY <1>10 DEF Release, Bridged
<1>11. ASSUME NEW p \in Procs, BootRename(p)
      PROVE  Bridged'
  BY <1>11 DEF BootRename, Fresh, Bridged
<1>12. ASSUME NEW p \in Procs, FinishBoot(p)
      PROVE  Bridged'
  BY <1>12 DEF FinishBoot, Go, GoWith, Here, Bridged, Admissions
<1>13. ASSUME NEW p \in Procs, VerifyDetached(p)
      PROVE  Bridged'
  BY <1>13 DEF VerifyDetached, Storage, Go, GoWith, Bridged
<1>14. ASSUME NEW p \in Procs, CreateMarker(p)
      PROVE  Bridged'
  BY <1>14, <1>0 DEF CreateMarker, Go, Here, Bridged, Admissions, Locked, Stored, Home
<1>15. ASSUME NEW p \in Procs, FillMarker(p)
      PROVE  Bridged'
  BY <1>15 DEF FillMarker, WriteMarker, Here, Bridged, Admissions, Locked
<1>16. ASSUME NEW p \in Procs, Export(p)
      PROVE  Bridged'
  BY <1>16 DEF Export, Bridged
<1>17. ASSUME NEW p \in Procs, RecordArchive(p)
      PROVE  Bridged'
  BY <1>17 DEF RecordArchive, WriteMarker, Here, Bridged, Admissions, Locked
<1>18. ASSUME NEW p \in Procs, Recheck(p)
      PROVE  Bridged'
  BY <1>18 DEF Recheck, Storage, Bridged
<1>19. ASSUME NEW p \in Procs, RenameAway(p)
      PROVE  Bridged'
  BY <1>19 DEF RenameAway, Bridged
<1>20. ASSUME NEW p \in Procs, ApplyPurgeCleanup(p)
      PROVE  Bridged'
  BY <1>20 DEF ApplyPurgeCleanup, Storage, Go, GoWith, Bridged
<1>21. ASSUME NEW p \in Procs, NEW part \in Parts, Sweep(p, part)
      PROVE  Bridged'
  BY <1>21, <1>0 DEF Sweep, Bridged, Admissions
<1>22. ASSUME NEW p \in Procs, InterruptPerform(p)
      PROVE  Bridged'
  <2>1. /\ home # NULL /\ home' # NULL /\ home'.body = home.body /\ Outcome(p) \in Body
        /\ home'.marker = home.marker /\ home'.pointer = Outcome(p)
    BY <1>22, InterruptMakes, NullAssumption
  <2>2. home'.pointer # NULL
    BY <2>1, NullAssumption
  <2>3. CASE home.marker = NULL
    BY <2>1, <2>2, <2>3 DEF Bridged
  <2>4. CASE home.marker # NULL
    <3>1. task[p].op = "abort" /\ home.pointer = NULL
      BY <1>22, <2>4 DEF InterruptPerform, Here, Admissions, Locked
    <3>2. Outcome(p) = home.body
      BY <3>1 DEF Outcome
    <3>3. home.body.adapters \subseteq bridges
      BY <2>1, <3>1 DEF Bridged
    <3>4. bridges' = bridges \/ bridges' = (bridges \ home.body.adapters) \cup home.body.adapters
      BY <1>22, <3>2 DEF InterruptPerform, Rebridge
    <3>5. home.body.adapters \subseteq bridges'
      BY <3>3, <3>4
    <3> QED
      BY <2>1, <2>2, <3>2, <3>5 DEF Bridged
  <2> QED
    BY <2>3, <2>4
<1>23. ASSUME NEW p \in Procs, Fail(p)
      PROVE  Bridged'
  BY <1>23 DEF Fail, Spend, Storage, Go, Bridged
<1>24. ASSUME NEW p \in Procs, Crash(p)
      PROVE  Bridged'
  BY <1>24 DEF Crash, Spend, Storage, Go, Bridged
<1>25. ASSUME NEW p \in Procs, Abandon(p)
      PROVE  Bridged'
  BY <1>25 DEF Abandon, Storage, Go, Bridged
<1>26. QED
  BY <1>1, <1>2, <1>3, <1>4, <1>5, <1>6, <1>7, <1>8, <1>9, <1>10, <1>11, <1>12, <1>13, <1>14,
     <1>15, <1>16, <1>17, <1>18, <1>19, <1>20, <1>21, <1>22, <1>23, <1>24, <1>25
     DEF Next, Outside, Run, Disturb

(* The two properties of steps that concern adapters.                      *)
Blocked == home # NULL /\ home.marker # NULL /\ home' # NULL /\ home'.marker # NULL
             => home'.body.adapters = home.body.adapters /\ bridges' = bridges
StraysGrow == \A a \in Strays' \ Strays :
                home # NULL /\ home' = NULL /\ a \in home.body.adapters

\* A pending purge blocks changes of adapters.
LEMMA BlockedStep ==
    ASSUME TypeOK, TaskOK, Admissions, Bridged, [Next]_vars
    PROVE  Blocked
<1>0. Commands /\ Stored
  BY DEF TypeOK, Commands, Stored
<1>1. CASE UNCHANGED vars
  BY <1>1 DEF vars, Blocked, Stored
<1>2. CASE Resolve
  <2>1. /\ home # NULL /\ home'.body \in {home.body, home.pointer}
        /\ home'.marker \in {home.marker, NULL} /\ home.pointer # NULL
        /\ bridges' = (bridges \ (home.body.adapters \cup home.pointer.adapters))
                        \cup home'.body.adapters
    BY <1>2, ResolveMakes, NullAssumption
  <2>2. CASE home.marker # NULL
    <3>1. home.pointer.adapters = home.body.adapters /\ home.body.adapters \subseteq bridges
      BY <2>1, <2>2 DEF Bridged
    <3>2. home'.body.adapters = home.body.adapters
      BY <2>1, <3>1
    <3>3. bridges' = bridges
      BY <2>1, <3>1, <3>2
    <3> QED
      BY <3>2, <3>3 DEF Blocked
  <2> QED
    BY <2>1, <2>2 DEF Blocked
<1>3. CASE ClearStaleLock
  BY <1>3 DEF ClearStaleLock, Blocked
<1>4. CASE Edit
  BY <1>4, EditMakes DEF Edit, Blocked
<1>5. ASSUME NEW e \in Exports, LoseArchive(e)
      PROVE  Blocked
  BY <1>5 DEF LoseArchive, Blocked
<1>6. ASSUME NEW p \in Procs, Plan(p)
      PROVE  Blocked
  BY <1>6, PlanStarts DEF Start, Storage, Blocked
<1>7. ASSUME NEW p \in Procs, AcquireLock(p)
      PROVE  Blocked
  BY <1>7, <1>0 DEF AcquireLock, Blocked, Stored, Home
<1>8. ASSUME NEW p \in Procs, Admit(p)
      PROVE  Blocked
  BY <1>8, <1>0 DEF Admit, Blocked, Stored, Home
<1>9. ASSUME NEW p \in Procs, Perform(p)
      PROVE  Blocked
  BY <1>9, <1>0, NullAssumption
     DEF Perform, Bound, Outcome, Rebridge, Go, GoWith, Here, Blocked, Admissions, Locked,
         Stored, Home
<1>10. ASSUME NEW p \in Procs, Release(p)
      PROVE  Blocked
  BY <1>10 DEF Release, Blocked
<1>11. ASSUME NEW p \in Procs, BootRename(p)
      PROVE  Blocked
  BY <1>11 DEF BootRename, Blocked
<1>12. ASSUME NEW p \in Procs, FinishBoot(p)
      PROVE  Blocked
  BY <1>12 DEF FinishBoot, Blocked
<1>13. ASSUME NEW p \in Procs, VerifyDetached(p)
      PROVE  Blocked
  BY <1>13 DEF VerifyDetached, Storage, Go, GoWith, Blocked
<1>14. ASSUME NEW p \in Procs, CreateMarker(p)
      PROVE  Blocked
  BY <1>14 DEF CreateMarker, Blocked
<1>15. ASSUME NEW p \in Procs, FillMarker(p)
      PROVE  Blocked
  BY <1>15 DEF FillMarker, WriteMarker, Blocked
<1>16. ASSUME NEW p \in Procs, Export(p)
      PROVE  Blocked
  BY <1>16 DEF Export, Blocked
<1>17. ASSUME NEW p \in Procs, RecordArchive(p)
      PROVE  Blocked
  BY <1>17 DEF RecordArchive, WriteMarker, Blocked
<1>18. ASSUME NEW p \in Procs, Recheck(p)
      PROVE  Blocked
  BY <1>18 DEF Recheck, Storage, Blocked
<1>19. ASSUME NEW p \in Procs, RenameAway(p)
      PROVE  Blocked
  BY <1>19 DEF RenameAway, Blocked
<1>20. ASSUME NEW p \in Procs, ApplyPurgeCleanup(p)
      PROVE  Blocked
  BY <1>20 DEF ApplyPurgeCleanup, Storage, Go, GoWith, Blocked
<1>21. ASSUME NEW p \in Procs, NEW part \in Parts, Sweep(p, part)
      PROVE  Blocked
  BY <1>21 DEF Sweep, Blocked
<1>22. ASSUME NEW p \in Procs, InterruptPerform(p)
      PROVE  Blocked
  <2>1. /\ home # NULL /\ home'.body = home.body /\ home'.marker = home.marker
    BY <1>22, InterruptMakes, NullAssumption
  <2>2. CASE home.marker # NULL
    <3>1. task[p].op = "abort" /\ home.pointer = NULL
      BY <1>22, <2>2 DEF InterruptPerform, Here, Admissions, Locked
    <3>2. Outcome(p) = home.body
      BY <3>1 DEF Outcome
    <3>3. home.body.adapters \subseteq bridges
      BY <2>1, <3>1 DEF Bridged
    <3>4. bridges' = bridges \/ bridges' = (bridges \ home.body.adapters) \cup home.body.adapters
      BY <1>22, <3>2 DEF InterruptPerform, Rebridge
    <3>5. bridges' = bridges
      BY <3>3, <3>4
    <3> QED
      BY <2>1, <3>5 DEF Blocked
  <2> QED
    BY <2>1, <2>2 DEF Blocked
<1>23. ASSUME NEW p \in Procs, Fail(p)
      PROVE  Blocked
  BY <1>23 DEF Fail, Spend, Storage, Go, Blocked
<1>24. ASSUME NEW p \in Procs, Crash(p)
      PROVE  Blocked
  BY <1>24 DEF Crash, Spend, Storage, Go, Blocked
<1>25. ASSUME NEW p \in Procs, Abandon(p)
      PROVE  Blocked
  BY <1>25 DEF Abandon, Storage, Go, Blocked
<1>26. QED
  BY <1>1, <1>2, <1>3, <1>4, <1>5, <1>6, <1>7, <1>8, <1>9, <1>10, <1>11, <1>12, <1>13, <1>14,
     <1>15, <1>16, <1>17, <1>18, <1>19, <1>20, <1>21, <1>22, <1>23, <1>24, <1>25
     DEF Next, Outside, Run, Disturb

\* Strays stay when what the namespace says of adapters does.
LEMMA SameStrays ==
    ASSUME home # NULL, home' # NULL, home'.body.adapters = home.body.adapters,
           home'.pointer = home.pointer, bridges' = bridges
    PROVE  StraysGrow
BY DEF Strays, StraysGrow

\* Strays come from the removal of a namespace.
LEMMA StraysGrowStep ==
    ASSUME TypeOK, TaskOK, Admissions, [Next]_vars
    PROVE  StraysGrow
<1>0. Commands /\ Stored
  BY DEF TypeOK, Commands, Stored
<1>1. CASE UNCHANGED vars
  BY <1>1 DEF vars, StraysGrow, Strays, Stored
<1>2. CASE Resolve
  BY <1>2, <1>0, NullAssumption
     DEF Resolve, Rebridge, Here, StraysGrow, Strays, Admissions, Locked, Stored, Home
<1>3. CASE ClearStaleLock
  BY <1>3, <1>0, NullAssumption
     DEF ClearStaleLock, StraysGrow, Strays, Admissions, Locked, Stored, Home
<1>4. CASE Edit
  <2>1. /\ home # NULL /\ home' # NULL /\ home'.pointer = home.pointer
        /\ home'.body.adapters = home.body.adapters
    BY <1>4, EditMakes, NullAssumption
  <2> QED
    BY <1>4, <2>1, SameStrays DEF Edit
<1>5. ASSUME NEW e \in Exports, LoseArchive(e)
      PROVE  StraysGrow
  BY <1>5 DEF LoseArchive, StraysGrow, Strays
<1>6. ASSUME NEW p \in Procs, Plan(p)
      PROVE  StraysGrow
  BY <1>6, PlanStarts DEF Start, Storage, Go, StraysGrow, Strays
<1>7. ASSUME NEW p \in Procs, AcquireLock(p)
      PROVE  StraysGrow
  <2>1. home # NULL => /\ home' # NULL /\ home'.pointer = home.pointer
                      /\ home'.body = home.body
    BY <1>7, <1>0, NullAssumption DEF AcquireLock, Stored, Home
  <2>2. CASE home # NULL
    BY <1>7, <2>1, <2>2, SameStrays DEF AcquireLock
  <2>3. CASE home = NULL
    BY <1>7, <2>3 DEF AcquireLock, Strays, StraysGrow
  <2> QED
    BY <2>2, <2>3
<1>8. ASSUME NEW p \in Procs, Admit(p)
      PROVE  StraysGrow
  <2>1. home # NULL => /\ home' # NULL /\ home'.pointer = home.pointer
                      /\ home'.body = home.body
    BY <1>8, <1>0, NullAssumption DEF Admit, Stored, Home
  <2>2. CASE home # NULL
    BY <1>8, <2>1, <2>2, SameStrays DEF Admit
  <2>3. CASE home = NULL
    BY <1>8, <2>3 DEF Admit
  <2> QED
    BY <2>2, <2>3
<1>9. ASSUME NEW p \in Procs, Perform(p)
      PROVE  StraysGrow
  <2>1. /\ home # NULL /\ home' # NULL /\ home'.pointer = home.pointer
    BY <1>9, PerformMakes, NullAssumption
  <2>2. home.pointer = NULL
    BY <1>9 DEF Perform, Here, Admissions, Locked
  <2>3. CASE bridges' = bridges /\ home' = home
    BY <2>1, <2>3, SameStrays
  <2>4. CASE /\ home'.body = Outcome(p)
             /\ bridges' = (bridges \ home.body.adapters) \cup Outcome(p).adapters
    BY <2>1, <2>2, <2>4 DEF Strays, StraysGrow
  <2>5. Bound(p) => home'.body = Outcome(p)
    BY <1>9, <1>0 DEF Perform, Stored, Home
  <2> QED
    BY <1>9, <2>3, <2>4, <2>5 DEF Perform, Rebridge
<1>10. ASSUME NEW p \in Procs, Release(p)
      PROVE  StraysGrow
  BY <1>10, <1>0, NullAssumption
     DEF Release, Go, GoWith, End, Here, NoTask, StraysGrow, Strays, Admissions, Locked, Stored,
         Home
<1>11. ASSUME NEW p \in Procs, BootRename(p)
      PROVE  StraysGrow
  BY <1>11 DEF BootRename, StraysGrow, Strays
<1>12. ASSUME NEW p \in Procs, FinishBoot(p)
      PROVE  StraysGrow
  BY <1>12 DEF FinishBoot, Go, GoWith, End, Here, StraysGrow, Strays, Admissions
<1>13. ASSUME NEW p \in Procs, VerifyDetached(p)
      PROVE  StraysGrow
  BY <1>13 DEF VerifyDetached, Storage, Go, GoWith, End, StraysGrow, Strays
<1>14. ASSUME NEW p \in Procs, CreateMarker(p)
      PROVE  StraysGrow
  BY <1>14, <1>0, NullAssumption DEF CreateMarker, StraysGrow, Strays, Stored, Home
<1>15. ASSUME NEW p \in Procs, FillMarker(p)
      PROVE  StraysGrow
  BY <1>15 DEF FillMarker, WriteMarker, Here, StraysGrow, Strays, Admissions, Locked
<1>16. ASSUME NEW p \in Procs, Export(p)
      PROVE  StraysGrow
  BY <1>16 DEF Export, StraysGrow, Strays
<1>17. ASSUME NEW p \in Procs, RecordArchive(p)
      PROVE  StraysGrow
  BY <1>17 DEF RecordArchive, WriteMarker, Here, StraysGrow, Strays, Admissions, Locked
<1>18. ASSUME NEW p \in Procs, Recheck(p)
      PROVE  StraysGrow
  BY <1>18 DEF Recheck, Storage, StraysGrow, Strays
<1>19. ASSUME NEW p \in Procs, RenameAway(p)
      PROVE  StraysGrow
  BY <1>19 DEF RenameAway, Go, Here, StraysGrow, Strays, Admissions, Locked
<1>20. ASSUME NEW p \in Procs, ApplyPurgeCleanup(p)
      PROVE  StraysGrow
  BY <1>20 DEF ApplyPurgeCleanup, Storage, Go, GoWith, End, StraysGrow, Strays
<1>21. ASSUME NEW p \in Procs, NEW part \in Parts, Sweep(p, part)
      PROVE  StraysGrow
  BY <1>21 DEF Sweep, StraysGrow, Strays, Admissions
<1>22. ASSUME NEW p \in Procs, InterruptPerform(p)
      PROVE  StraysGrow
  <2>1. /\ home # NULL /\ home' # NULL /\ home'.pointer = Outcome(p)
        /\ home'.body = home.body /\ Outcome(p) # NULL
    BY <1>22, InterruptMakes, NullAssumption
  <2>2. home.pointer = NULL
    BY <1>22 DEF InterruptPerform, Here, Admissions, Locked
  <2>3. bridges' = bridges \/ bridges' = (bridges \ home.body.adapters) \cup Outcome(p).adapters
    BY <1>22 DEF InterruptPerform, Rebridge
  <2> QED
    BY <2>1, <2>2, <2>3 DEF Strays, StraysGrow
<1>23. ASSUME NEW p \in Procs, Fail(p)
      PROVE  StraysGrow
  BY <1>23 DEF Fail, Spend, Storage, Go, GoWith, StraysGrow, Strays
<1>24. ASSUME NEW p \in Procs, Crash(p)
      PROVE  StraysGrow
  BY <1>24 DEF Crash, Spend, Storage, Go, GoWith, StraysGrow, Strays
<1>25. ASSUME NEW p \in Procs, Abandon(p)
      PROVE  StraysGrow
  BY <1>25 DEF Abandon, Storage, Go, GoWith, StraysGrow, Strays
<1>26. QED
  BY <1>1, <1>2, <1>3, <1>4, <1>5, <1>6, <1>7, <1>8, <1>9, <1>10, <1>11, <1>12, <1>13, <1>14,
     <1>15, <1>16, <1>17, <1>18, <1>19, <1>20, <1>21, <1>22, <1>23, <1>24, <1>25
     DEF Next, Outside, Run, Disturb

-----------------------------------------------------------------------------
(* Evidence of a purge.                                                   *)

(* PURGE.json, as far as the command that purges has come.                 *)
Record(p, archive) == [export |-> task[p].export, body |-> task[p].snapshot, archive |-> archive]
Recorded ==
    home # NULL => \A p \in Procs :
      /\ pc[p] \in Purging \ {"mark"} => /\ task[p].snapshot.born = home.body.born
                                        /\ task[p].snapshot.adapters = home.body.adapters
                                        /\ task[p].from.born = home.body.born
      /\ pc[p] \in {"export", "record"} => home.marker = Record(p, NULL)
      /\ pc[p] \in {"recheck", "rename"} => home.marker = Record(p, task[p].snapshot)

(* A tombstone has the marker that its cleanup wants.                      *)
Tells(n) == LET m == tombs[n].marker IN
    m \in Marker /\ m.archive = m.body /\ m.body.born = n /\ m.body.adapters = tombs[n].body.adapters
Entombed == \A n \in Births : tombs[n] # NULL => Tells(n)

(* There is one tombstone, and none while a purge may reach its rename.    *)
Alone ==
    /\ \A m, n \in Standing : m = n
    /\ \A p \in Procs : task[p].op = "purge" =>
          /\ task[p].from.born <= births
          /\ home # NULL /\ task[p].from.born = births => Standing = {}

(* Somebody is still at work on what is half written or half removed.      *)
NoLeftovers ==
    /\ ~TornFaults /\ home # NULL /\ home.marker = TORN => \E p \in Procs : pc[p] = "fill"
    /\ ~SweepFaults => \A n \in Births : PartlySwept(n) =>
          \E p \in Procs : pc[p] = "sweep" /\ Swept(p) = n

(* The archive a command is about to rely on, unless it was disturbed.     *)
Archived == \A p \in Procs \ late :
    /\ pc[p] \in {"record", "recheck", "rename"} => archives[task[p].export] = task[p].snapshot
    /\ pc[p] = "rename" /\ home # NULL => home.body = task[p].snapshot
    /\ pc[p] = "sweep" => LET n == Swept(p) IN
          /\ n <= births /\ (home # NULL => n < births)
          /\ tombs[n] # NULL /\ tombs[n].left = Parts =>
                \E e \in Exports : archives[e] = tombs[n].body

\* PURGE.json says what the command that purges has done, of the namespace that stands.
LEMMA RecordedStep ==
    ASSUME ReinitWaits, TypeOK, TaskOK, Locks, Ages, Admissions, Recorded, [Next]_vars
    PROVE  Recorded'
<1>0. Commands /\ home \in Home \cup {NULL}
  BY DEF TypeOK, Commands
<1>1. CASE UNCHANGED vars
  BY <1>1 DEF vars, Recorded, Record, Commands
<1>2. CASE Resolve
  BY <1>2 DEF Resolve, Rebridge, Recorded, Purging, Locks, Working, Locked
<1>3. CASE ClearStaleLock
  BY <1>3 DEF ClearStaleLock, Recorded, Record
<1>4. CASE Edit
  <2>1. /\ home # NULL /\ home' # NULL /\ home'.marker = home.marker
        /\ home'.body.born = home.body.born /\ home'.body.adapters = home.body.adapters
    BY <1>4, EditMakes, NullAssumption
  <2> QED
    BY <1>4, <2>1 DEF Edit, Recorded, Record
<1>5. ASSUME NEW e \in Exports, LoseArchive(e)
      PROVE  Recorded'
  BY <1>5 DEF LoseArchive, Recorded, Record
<1>6. ASSUME NEW p \in Procs, Plan(p)
      PROVE  Recorded'
  BY <1>6, <1>0, PlanStarts
     DEF Start, Storage, Go, GoWith, Here, Recorded, Record, Purging, Commands
<1>7. ASSUME NEW p \in Procs, AcquireLock(p)
      PROVE  Recorded'
  BY <1>7, <1>0
     DEF AcquireLock, Go, GoWith, End, Here, NoTask, Recorded, Purging, Locks, Working, Locked,
         Commands
<1>8. ASSUME NEW p \in Procs, Admit(p)
      PROVE  Recorded'
  BY <1>8, <1>0
     DEF Admit, Go, GoWith, End, Here, NoTask, Recorded, Purging, Locks, Working, Locked,
         Commands
<1>9. ASSUME NEW p \in Procs, Perform(p)
      PROVE  Recorded'
  BY <1>9, <1>0
     DEF Perform, Bound, Outcome, Rebridge, Go, GoWith, Here, Recorded, Purging, Locks, Working,
         Locked, Commands
<1>10. ASSUME NEW p \in Procs, Release(p)
      PROVE  Recorded'
  BY <1>10, <1>0 DEF Release, Go, GoWith, End, Here, NoTask, Recorded, Record, Purging, Commands
<1>11. ASSUME NEW p \in Procs, BootRename(p)
      PROVE  Recorded'
  BY <1>11, <1>0
     DEF BootRename, Fresh, Go, GoWith, End, Here, NoTask, Recorded, Record, Purging, Locks,
         Locked, Commands
<1>12. ASSUME NEW p \in Procs, FinishBoot(p)
      PROVE  Recorded'
  BY <1>12 DEF FinishBoot, Go, GoWith, End, Here, NoTask, Recorded, Record, Purging
<1>13. ASSUME NEW p \in Procs, VerifyDetached(p)
      PROVE  Recorded'
  BY <1>13, <1>0
     DEF VerifyDetached, Storage, Go, GoWith, End, Here, NoTask, Recorded, Record, Purging,
         Commands
<1>14. ASSUME NEW p \in Procs, CreateMarker(p)
      PROVE  Recorded'
  <2>1. CASE GoWith(p, "fill", [task[p] EXCEPT !.snapshot = home.body])
    <3>1. /\ home # NULL /\ home' # NULL /\ home'.body = home.body
          /\ task[p].from.born = home.body.born
      BY <1>14, <1>0, <2>1, NullAssumption DEF CreateMarker, SameClaim, Home, GoWith, Go, Commands
    <3>2. \A q \in Procs : q # p => pc'[q] \notin Working
      BY <1>14, <2>1, <3>1 DEF CreateMarker, Here, Locks, Working, Locked, GoWith, Go
    <3>3. /\ pc'[p] = "fill" /\ task'[p].snapshot = home.body
          /\ task'[p].from = task[p].from
      BY <1>0, <2>1 DEF GoWith, Go, Commands
    <3> QED
      BY <3>1, <3>2, <3>3 DEF Recorded, Working, Locked, Purging
  <2>2. CASE Go(p, "release") /\ UNCHANGED <<home, task>>
    BY <2>2 DEF Recorded, Record, Go, Purging
  <2> QED
    BY <1>14, <2>1, <2>2 DEF CreateMarker
<1>15. ASSUME NEW p \in Procs, FillMarker(p)
      PROVE  Recorded'
  BY <1>15 DEF FillMarker, WriteMarker, Go, Here, Recorded, Record, Purging, Locks, Working, Locked
<1>16. ASSUME NEW p \in Procs, Export(p)
      PROVE  Recorded'
  BY <1>16, <1>0 DEF Export, Go, Here, Recorded, Record, Purging, Commands
<1>17. ASSUME NEW p \in Procs, RecordArchive(p)
      PROVE  Recorded'
  BY <1>17, <1>0
     DEF RecordArchive, WriteMarker, Go, Here, Recorded, Record, Purging, Locks, Working,
         Locked, Commands
<1>18. ASSUME NEW p \in Procs, Recheck(p)
      PROVE  Recorded'
  BY <1>18 DEF Recheck, Storage, Go, Here, Recorded, Record, Purging
<1>19. ASSUME NEW p \in Procs, RenameAway(p)
      PROVE  Recorded'
  BY <1>19 DEF RenameAway, Recorded
<1>20. ASSUME NEW p \in Procs, ApplyPurgeCleanup(p)
      PROVE  Recorded'
  BY <1>20, <1>0
     DEF ApplyPurgeCleanup, Storage, Go, GoWith, End, Here, NoTask, Recorded, Record, Purging,
         Commands
<1>21. ASSUME NEW p \in Procs, NEW part \in Parts, Sweep(p, part)
      PROVE  Recorded'
  BY <1>21, <1>0
     DEF Sweep, Swept, Without, Go, GoWith, End, Here, NoTask, Recorded, Record, Purging,
         Commands
<1>22. ASSUME NEW p \in Procs, InterruptPerform(p)
      PROVE  Recorded'
  BY <1>22, <1>0
     DEF InterruptPerform, Outcome, Rebridge, Bound, Spend, Go, Here, NoTask, Recorded, Record,
         Purging, Commands
<1>23. ASSUME NEW p \in Procs, Fail(p)
      PROVE  Recorded'
  <2>1. \A q \in Procs : q # p => pc'[q] = pc[q] /\ task'[q] = task[q]
    BY <1>23, <1>0 DEF Fail, Go, GoWith, End, Commands
  <2>2. pc'[p] \notin Purging
    BY <1>23, <1>0 DEF Fail, Go, GoWith, End, Commands, Purging
  <2> QED
    BY <1>23, <2>1, <2>2 DEF Fail, Storage, Recorded, Record, Purging
<1>24. ASSUME NEW p \in Procs, Crash(p)
      PROVE  Recorded'
  BY <1>24, <1>0
     DEF Crash, Spend, Storage, Go, GoWith, End, NoTask, Recorded, Record, Purging, Commands
<1>25. ASSUME NEW p \in Procs, Abandon(p)
      PROVE  Recorded'
  BY <1>25 DEF Abandon, Storage, Go, GoWith, End, NoTask, Recorded, Record, Purging
<1>26. QED
  BY <1>1, <1>2, <1>3, <1>4, <1>5, <1>6, <1>7, <1>8, <1>9, <1>10, <1>11, <1>12, <1>13, <1>14,
     <1>15, <1>16, <1>17, <1>18, <1>19, <1>20, <1>21, <1>22, <1>23, <1>24, <1>25
     DEF Next, Outside, Run, Disturb

\* A tombstone takes its marker along, and keeps it.
LEMMA EntombedStep ==
    ASSUME TypeOK, TaskOK, Recorded, Entombed, [Next]_vars
    PROVE  Entombed'
<1>0. Commands /\ Stored
  BY DEF TypeOK, Commands, Stored
<1>1. CASE UNCHANGED vars
  BY <1>1 DEF vars, Entombed, Tells, Stored
<1>2. CASE Resolve
  BY <1>2 DEF Resolve, Entombed, Tells
<1>3. CASE ClearStaleLock
  BY <1>3 DEF ClearStaleLock, Entombed, Tells
<1>4. CASE Edit
  BY <1>4 DEF Edit, Entombed, Tells
<1>5. ASSUME NEW e \in Exports, LoseArchive(e)
      PROVE  Entombed'
  BY <1>5 DEF LoseArchive, Entombed, Tells
<1>6. ASSUME NEW p \in Procs, Plan(p)
      PROVE  Entombed'
  BY <1>6, PlanStarts DEF Start, Storage, Go, Entombed, Tells
<1>7. ASSUME NEW p \in Procs, AcquireLock(p)
      PROVE  Entombed'
  BY <1>7 DEF AcquireLock, Entombed, Tells
<1>8. ASSUME NEW p \in Procs, Admit(p)
      PROVE  Entombed'
  BY <1>8 DEF Admit, Entombed, Tells
<1>9. ASSUME NEW p \in Procs, Perform(p)
      PROVE  Entombed'
  BY <1>9 DEF Perform, Bound, Entombed, Tells
<1>10. ASSUME NEW p \in Procs, Release(p)
      PROVE  Entombed'
  BY <1>10 DEF Release, Entombed, Tells
<1>11. ASSUME NEW p \in Procs, BootRename(p)
      PROVE  Entombed'
  BY <1>11 DEF BootRename, Entombed, Tells
<1>12. ASSUME NEW p \in Procs, FinishBoot(p)
      PROVE  Entombed'
  BY <1>12 DEF FinishBoot, Entombed, Tells
<1>13. ASSUME NEW p \in Procs, VerifyDetached(p)
      PROVE  Entombed'
  BY <1>13 DEF VerifyDetached, Storage, Go, GoWith, End, Entombed, Tells
<1>14. ASSUME NEW p \in Procs, CreateMarker(p)
      PROVE  Entombed'
  BY <1>14 DEF CreateMarker, Entombed, Tells
<1>15. ASSUME NEW p \in Procs, FillMarker(p)
      PROVE  Entombed'
  BY <1>15 DEF FillMarker, WriteMarker, Entombed, Tells
<1>16. ASSUME NEW p \in Procs, Export(p)
      PROVE  Entombed'
  BY <1>16 DEF Export, Entombed, Tells
<1>17. ASSUME NEW p \in Procs, RecordArchive(p)
      PROVE  Entombed'
  BY <1>17 DEF RecordArchive, WriteMarker, Entombed, Tells
<1>18. ASSUME NEW p \in Procs, Recheck(p)
      PROVE  Entombed'
  BY <1>18 DEF Recheck, Storage, Entombed, Tells
<1>19. ASSUME NEW p \in Procs, RenameAway(p)
      PROVE  Entombed'
  <2> DEFINE n == home.body.born
             tomb == [body |-> home.body, marker |-> home.marker, left |-> Parts]
  <2>1. tombs' = [tombs EXCEPT ![n] = tomb] /\ home # NULL /\ pc[p] = "rename"
    BY <1>19 DEF RenameAway, Here
  <2>2. task[p].snapshot \in Body /\ task[p].export \in Exports
    BY <2>1 DEF TaskOK, Remembers, Purging
  <2>3. /\ home.marker = Record(p, task[p].snapshot)
        /\ task[p].snapshot.born = n /\ task[p].snapshot.adapters = home.body.adapters
    BY <2>1 DEF Recorded, Purging
  <2>4. /\ tomb.marker \in Marker /\ tomb.marker.archive = tomb.marker.body
        /\ tomb.marker.body.born = n /\ tomb.marker.body.adapters = tomb.body.adapters
    BY <2>2, <2>3 DEF Record, Marker
  <2> HIDE DEF tomb
  <2> QED
    BY <2>1, <2>4 DEF Entombed, Tells
<1>20. ASSUME NEW p \in Procs, ApplyPurgeCleanup(p)
      PROVE  Entombed'
  BY <1>20 DEF ApplyPurgeCleanup, Storage, Go, GoWith, End, Entombed, Tells
<1>21. ASSUME NEW p \in Procs, NEW part \in Parts, Sweep(p, part)
      PROVE  Entombed'
  <2>1. \A n \in Births : tombs'[n] # NULL =>
            tombs[n] # NULL /\ tombs'[n].body = tombs[n].body /\ tombs'[n].marker = tombs[n].marker
    BY <1>21 DEF Sweep, Without
  <2> QED
    BY <2>1 DEF Entombed, Tells
<1>22. ASSUME NEW p \in Procs, InterruptPerform(p)
      PROVE  Entombed'
  BY <1>22 DEF InterruptPerform, Outcome, Entombed, Tells
<1>23. ASSUME NEW p \in Procs, Fail(p)
      PROVE  Entombed'
  BY <1>23 DEF Fail, Spend, Storage, Go, GoWith, Entombed, Tells
<1>24. ASSUME NEW p \in Procs, Crash(p)
      PROVE  Entombed'
  BY <1>24 DEF Crash, Spend, Storage, Go, GoWith, Entombed, Tells
<1>25. ASSUME NEW p \in Procs, Abandon(p)
      PROVE  Entombed'
  BY <1>25 DEF Abandon, Storage, Go, GoWith, Entombed, Tells
<1>26. QED
  BY <1>1, <1>2, <1>3, <1>4, <1>5, <1>6, <1>7, <1>8, <1>9, <1>10, <1>11, <1>12, <1>13, <1>14,
     <1>15, <1>16, <1>17, <1>18, <1>19, <1>20, <1>21, <1>22, <1>23, <1>24, <1>25
     DEF Next, Outside, Run, Disturb

\* A purge reaches its rename only when there is no tombstone.
LEMMA AloneStep ==
    ASSUME TypeOK, TaskOK, Ages, Recorded, Alone, [Next]_vars
    PROVE  Alone'
<1>0. Commands /\ Stored
  BY DEF TypeOK, Commands, Stored
<1>1. CASE UNCHANGED vars
  BY <1>1 DEF vars, Alone, Standing, Commands, Stored
<1>2. CASE Resolve
  BY <1>2 DEF Resolve, Alone, Standing
<1>3. CASE ClearStaleLock
  BY <1>3 DEF ClearStaleLock, Alone, Standing
<1>4. CASE Edit
  BY <1>4 DEF Edit, Alone, Standing
<1>5. ASSUME NEW e \in Exports, LoseArchive(e)
      PROVE  Alone'
  BY <1>5 DEF LoseArchive, Alone, Standing
<1>6. ASSUME NEW p \in Procs, PlanClaim(p)
      PROVE  Alone'
  BY <1>6 DEF PlanClaim, Start, Storage, Go, GoWith, Alone, Standing
<1>7. ASSUME NEW p \in Procs, PlanInit(p)
      PROVE  Alone'
  BY <1>7 DEF PlanInit, Start, Storage, Go, GoWith, Alone, Standing
<1>8. ASSUME NEW p \in Procs, PlanPurgeAbort(p)
      PROVE  Alone'
  BY <1>8 DEF PlanPurgeAbort, Start, Storage, Go, GoWith, Alone, Standing
<1>9. ASSUME NEW p \in Procs, PlanPurgeCleanup(p)
      PROVE  Alone'
  BY <1>9
     DEF PlanPurgeCleanup, CleanupOffered, Standing, IsMarker, Start, Storage, Go, GoWith, Alone
<1>10. ASSUME NEW p \in Procs, NEW a \in Providers, PlanAdapter(p, a)
      PROVE  Alone'
  BY <1>10 DEF PlanAdapter, Start, Storage, Go, GoWith, Alone, Standing
<1>11. ASSUME NEW p \in Procs, NEW e \in Exports, PlanPurge(p, e)
      PROVE  Alone'
  <2> DEFINE t == [NoTask EXCEPT !.op = "purge", !.export = e, !.from = home.body,
                                 !.to = [home.body EXCEPT !.adapters = {}]]
  <2>1. task' = [task EXCEPT ![p] = t] /\ UNCHANGED <<home, tombs, births>>
    BY <1>11 DEF PlanPurge, Start, GoWith, Storage
  <2>2. t.from.born = births
    BY <1>11 DEF PlanPurge, Ages
  <2>3. Standing = {} /\ births <= births
    BY <1>11, <1>0 DEF PlanPurge, Stored, Births
  <2> HIDE DEF t
  <2> QED
    BY <2>1, <2>2, <2>3 DEF Alone, Standing
<1>12. ASSUME NEW p \in Procs, AcquireLock(p)
      PROVE  Alone'
  <2>1. \A q \in Procs : task'[q].op = "purge" => task[q].op = "purge" /\ task'[q].from = task[q].from
    BY <1>12, <1>0 DEF AcquireLock, GoWith, End, NoTask, Commands, Task
  <2>2. home' # NULL => home # NULL
    BY <1>12 DEF AcquireLock
  <2> QED
    BY <1>12, <2>1 DEF AcquireLock, Alone, Standing
<1>13. ASSUME NEW p \in Procs, Admit(p)
      PROVE  Alone'
  BY <1>13, <1>0 DEF Admit, Go, GoWith, End, NoTask, Alone, Standing, Commands
<1>14. ASSUME NEW p \in Procs, Perform(p)
      PROVE  Alone'
  <2>1. \A q \in Procs : task'[q].op = "purge" => task[q].op = "purge" /\ task'[q].from = task[q].from
    BY <1>14, <1>0 DEF Perform, GoWith, Commands, Task
  <2>2. home' # NULL => home # NULL
    BY <1>14 DEF Perform
  <2> QED
    BY <1>14, <2>1 DEF Perform, Alone, Standing
<1>15. ASSUME NEW p \in Procs, Release(p)
      PROVE  Alone'
  <2> DEFINE t == [task[p] EXCEPT !.stage = "purge", !.locked = NULL]
  <2>1. t.op = task[p].op /\ t.from = task[p].from /\ NoTask.op # "purge"
    BY <1>0 DEF NoTask
  <2>2. task' = [task EXCEPT ![p] = t] \/ task' = [task EXCEPT ![p] = NoTask]
    BY <1>15 DEF Release, End, GoWith
  <2> HIDE DEF t
  <2>3. \A q \in Procs : task'[q].op = "purge" => task[q].op = "purge" /\ task'[q].from = task[q].from
    BY <1>0, <2>1, <2>2 DEF Commands
  <2>4. home' # NULL => home # NULL
    BY <1>15 DEF Release
  <2> QED
    BY <1>15, <2>3 DEF Release, Alone, Standing
<1>16. ASSUME NEW p \in Procs, BootRename(p)
      PROVE  Alone'
  <2>1. \A q \in Procs : task'[q].op = "purge" => task[q].op = "purge" /\ task'[q].from = task[q].from
    BY <1>16, <1>0 DEF BootRename, GoWith, End, NoTask, Commands
  <2>2. CASE home # NULL
    BY <1>16, <2>1, <2>2 DEF BootRename, Alone, Standing
  <2>3. CASE home = NULL
    <3>1. births' = births + 1 /\ births \in Nat /\ UNCHANGED tombs
      BY <1>16, <1>0, <2>3 DEF BootRename, Stored, Births
    <3>2. \A q \in Procs : task[q].op = "purge" => task[q].from.born \in Nat
      BY PurgeAssumption DEF TaskOK, Remembers, Body, Births
    <3>3. \A q \in Procs : task'[q].op = "purge" =>
             task'[q].from.born <= births' /\ task'[q].from.born # births'
      BY <2>1, <3>1, <3>2 DEF Alone
    <3> QED
      BY <3>1, <3>3 DEF Alone, Standing
  <2> QED
    BY <2>2, <2>3
<1>17. ASSUME NEW p \in Procs, FinishBoot(p)
      PROVE  Alone'
  BY <1>17 DEF FinishBoot, Go, GoWith, End, NoTask, Alone, Standing
<1>18. ASSUME NEW p \in Procs, VerifyDetached(p)
      PROVE  Alone'
  BY <1>18, <1>0 DEF VerifyDetached, Storage, Go, GoWith, End, NoTask, Alone, Standing, Commands
<1>19. ASSUME NEW p \in Procs, CreateMarker(p)
      PROVE  Alone'
  <2>1. \A q \in Procs : task'[q].op = "purge" => task[q].op = "purge" /\ task'[q].from = task[q].from
    BY <1>19, <1>0 DEF CreateMarker, GoWith, Commands, Task
  <2>2. home' # NULL => home # NULL
    BY <1>19 DEF CreateMarker
  <2> QED
    BY <1>19, <2>1 DEF CreateMarker, Alone, Standing
<1>20. ASSUME NEW p \in Procs, FillMarker(p)
      PROVE  Alone'
  BY <1>20 DEF FillMarker, WriteMarker, Alone, Standing
<1>21. ASSUME NEW p \in Procs, Export(p)
      PROVE  Alone'
  BY <1>21 DEF Export, Alone, Standing
<1>22. ASSUME NEW p \in Procs, RecordArchive(p)
      PROVE  Alone'
  BY <1>22 DEF RecordArchive, WriteMarker, Alone, Standing
<1>23. ASSUME NEW p \in Procs, Recheck(p)
      PROVE  Alone'
  BY <1>23 DEF Recheck, Storage, Alone, Standing
<1>24. ASSUME NEW p \in Procs, RenameAway(p)
      PROVE  Alone'
  <2>1. \A q \in Procs : task'[q].op = "purge" => task[q].op = "purge" /\ task'[q].from = task[q].from
    BY <1>24 DEF RenameAway, GoWith
  <2>2. home # NULL /\ home' = NULL /\ pc[p] = "rename" /\ births' = births
    BY <1>24 DEF RenameAway, Here
  <2>3. task[p].op = "purge" /\ task[p].from.born = births
    BY <2>2 DEF TaskOK, Remembers, Purging, Recorded, Ages
  <2>4. Standing = {}
    BY <2>2, <2>3 DEF Alone
  <2>5. \A m \in Standing' : m = home.body.born
    BY <1>24, <2>4 DEF RenameAway, Standing
  <2> QED
    BY <2>1, <2>2, <2>5 DEF Alone
<1>25. ASSUME NEW p \in Procs, ApplyPurgeCleanup(p)
      PROVE  Alone'
  BY <1>25, <1>0 DEF ApplyPurgeCleanup, Storage, Go, GoWith, End, NoTask, Alone, Standing, Commands
<1>26. ASSUME NEW p \in Procs, NEW part \in Parts, Sweep(p, part)
      PROVE  Alone'
  <2>1. \A n \in Births : tombs'[n] # NULL => tombs[n] # NULL
    BY <1>26 DEF Sweep, Without
  <2>2. Standing' \subseteq Standing
    BY <2>1 DEF Standing
  <2>3. \A q \in Procs : task'[q].op = "purge" => task[q].op = "purge" /\ task'[q].from = task[q].from
    BY <1>26, <1>0 DEF Sweep, GoWith, End, NoTask, Commands
  <2>4. UNCHANGED <<home, births>>
    BY <1>26 DEF Sweep
  <2> QED
    BY <2>2, <2>3, <2>4 DEF Alone
<1>27. ASSUME NEW p \in Procs, InterruptPerform(p)
      PROVE  Alone'
  BY <1>27 DEF InterruptPerform, Outcome, Rebridge, Bound, Spend, NoTask, Alone, Standing
<1>28. ASSUME NEW p \in Procs, Fail(p)
      PROVE  Alone'
  BY <1>28, <1>0 DEF Fail, Spend, Storage, Go, GoWith, End, NoTask, Alone, Standing, Commands
<1>29. ASSUME NEW p \in Procs, Crash(p)
      PROVE  Alone'
  BY <1>29 DEF Crash, Spend, Storage, Go, GoWith, End, NoTask, Alone, Standing
<1>30. ASSUME NEW p \in Procs, Abandon(p)
      PROVE  Alone'
  BY <1>30 DEF Abandon, Storage, Go, GoWith, End, NoTask, Alone, Standing
<1>31. QED
  BY <1>1, <1>2, <1>3, <1>4, <1>5, <1>6, <1>7, <1>8, <1>9, <1>10, <1>11, <1>12, <1>13, <1>14,
     <1>15, <1>16, <1>17, <1>18, <1>19, <1>20, <1>21, <1>22, <1>23, <1>24, <1>25, <1>26, <1>27,
     <1>28, <1>29, <1>30
     DEF Next, Outside, Plan, Run, Disturb

\* Whoever leaves something half done goes on, where faults spare these moments.
LEMMA NoLeftoversStep ==
    ASSUME TypeOK, TaskOK, Ages, NoLeftovers, [Next]_vars
    PROVE  NoLeftovers'
<1>0. Commands /\ Stored
  BY DEF TypeOK, Commands, Stored
<1>1. CASE UNCHANGED vars
  BY <1>1 DEF vars, NoLeftovers, PartlySwept, Swept, Commands, Stored
<1>2. CASE Resolve
  BY <1>2, NullAssumption DEF Resolve, NoLeftovers, PartlySwept, Swept
<1>3. CASE ClearStaleLock
  BY <1>3 DEF ClearStaleLock, NoLeftovers, PartlySwept, Swept
<1>4. CASE Edit
  BY <1>4 DEF Edit, NoLeftovers, PartlySwept, Swept
<1>5. ASSUME NEW e \in Exports, LoseArchive(e)
      PROVE  NoLeftovers'
  BY <1>5 DEF LoseArchive, NoLeftovers, PartlySwept, Swept
<1>6. ASSUME NEW p \in Procs, Plan(p)
      PROVE  NoLeftovers'
  <2>1. PICK position, t : position \in {"lock", "cleanup"} /\ Start(p, position, t)
    BY <1>6, PlanStarts
  <2>2. \A q \in Procs : pc[q] \in {"fill", "sweep"} => pc'[q] = pc[q] /\ task'[q] = task[q]
    BY <2>1 DEF Start, Go, GoWith, Here
  <2>3. UNCHANGED <<home, tombs>>
    BY <2>1 DEF Start, Storage
  <2> QED
    BY <2>2, <2>3 DEF NoLeftovers, PartlySwept, Swept
<1>7. ASSUME NEW p \in Procs, AcquireLock(p)
      PROVE  NoLeftovers'
  BY <1>7, <1>0
     DEF AcquireLock, Go, GoWith, End, Here, NoTask, NoLeftovers, PartlySwept, Swept, Commands,
         Stored, Home
<1>8. ASSUME NEW p \in Procs, Admit(p)
      PROVE  NoLeftovers'
  BY <1>8, <1>0
     DEF Admit, Go, GoWith, End, Here, NoTask, NoLeftovers, PartlySwept, Swept, Commands,
         Stored, Home
<1>9. ASSUME NEW p \in Procs, Perform(p)
      PROVE  NoLeftovers'
  <2>1. home' # NULL /\ home'.marker = TORN => home # NULL /\ home.marker = TORN
    BY <1>9, PerformMakes, NullAssumption
  <2>2. \A q \in Procs : /\ pc[q] = "sweep" => pc'[q] = "sweep" /\ task'[q] = task[q]
                         /\ pc[q] = "fill" => pc'[q] = "fill" \/ ~(home' # NULL /\ home'.marker = TORN)
    BY <1>9, <1>0 DEF Perform, Go, GoWith, Here, Commands
  <2>3. UNCHANGED tombs
    BY <1>9 DEF Perform
  <2> QED
    BY <2>1, <2>2, <2>3 DEF NoLeftovers, PartlySwept, Swept
<1>10. ASSUME NEW p \in Procs, Release(p)
      PROVE  NoLeftovers'
  <2>1. home' # NULL /\ home'.marker = TORN => home # NULL /\ home.marker = TORN
    BY <1>10 DEF Release
  <2>2. home # NULL => pc[p] = "release"
    BY <1>10 DEF Release, Here
  <2>3. pc[p] # "sweep" /\ \A q \in Procs : q # p => pc'[q] = pc[q] /\ task'[q] = task[q]
    BY <1>10, <1>0 DEF Release, Here, Locked, Go, GoWith, End, Commands
  <2>4. UNCHANGED tombs
    BY <1>10 DEF Release
  <2> QED
    BY <2>1, <2>2, <2>3, <2>4 DEF NoLeftovers, PartlySwept, Swept
<1>11. ASSUME NEW p \in Procs, BootRename(p)
      PROVE  NoLeftovers'
  BY <1>11, <1>0, NullAssumption
     DEF BootRename, Fresh, Go, GoWith, End, Here, NoLeftovers, PartlySwept, Swept, Commands
<1>12. ASSUME NEW p \in Procs, FinishBoot(p)
      PROVE  NoLeftovers'
  BY <1>12 DEF FinishBoot, Go, GoWith, End, Here, NoLeftovers, PartlySwept, Swept
<1>13. ASSUME NEW p \in Procs, VerifyDetached(p)
      PROVE  NoLeftovers'
  BY <1>13, <1>0
     DEF VerifyDetached, Storage, Go, GoWith, End, Here, NoLeftovers, PartlySwept, Swept,
         Commands
<1>14. ASSUME NEW p \in Procs, CreateMarker(p)
      PROVE  NoLeftovers'
  BY <1>14, <1>0 DEF CreateMarker, Go, GoWith, Here, NoLeftovers, PartlySwept, Swept, Commands
<1>15. ASSUME NEW p \in Procs, FillMarker(p)
      PROVE  NoLeftovers'
  <2>0. WriteMarker(p, "fill", "export", NULL) /\ "fill" \in Purging \ {"mark"}
    BY <1>15 DEF FillMarker, Purging
  <2>1. home' # NULL => home'.marker # TORN
    <3>1. task[p].snapshot \in Body /\ task[p].export \in Exports
      BY <1>15 DEF FillMarker, WriteMarker, Here, TaskOK, Remembers, Purging
    <3>2. [export |-> task[p].export, body |-> task[p].snapshot, archive |-> NULL] \in Marker
      BY <3>1 DEF Marker
    <3> QED
      BY <2>0, <3>2, WriteMakes, NullAssumption
  <2>2. \A q \in Procs : pc[q] = "sweep" => pc'[q] = "sweep" /\ task'[q] = task[q]
    BY <1>15 DEF FillMarker, WriteMarker, Go, Here
  <2>3. UNCHANGED tombs
    BY <1>15 DEF FillMarker, WriteMarker
  <2> QED
    BY <2>1, <2>2, <2>3 DEF NoLeftovers, PartlySwept, Swept
<1>16. ASSUME NEW p \in Procs, Export(p)
      PROVE  NoLeftovers'
  BY <1>16, <1>0 DEF Export, Go, Here, NoLeftovers, PartlySwept, Swept, Commands
<1>17. ASSUME NEW p \in Procs, RecordArchive(p)
      PROVE  NoLeftovers'
  <2>0. WriteMarker(p, "record", "recheck", task[p].snapshot) /\ "record" \in Purging \ {"mark"}
    BY <1>17 DEF RecordArchive, Purging
  <2>1. home' # NULL => home'.marker # TORN
    <3>1. task[p].snapshot \in Body /\ task[p].export \in Exports
      BY <1>17 DEF RecordArchive, WriteMarker, Here, TaskOK, Remembers, Purging
    <3>2. [export |-> task[p].export, body |-> task[p].snapshot, archive |-> task[p].snapshot] \in Marker
      BY <3>1 DEF Marker
    <3> QED
      BY <2>0, <3>2, WriteMakes, NullAssumption
  <2>2. \A q \in Procs : pc[q] = "sweep" => pc'[q] = "sweep" /\ task'[q] = task[q]
    BY <1>17 DEF RecordArchive, WriteMarker, Go, Here
  <2>3. UNCHANGED tombs
    BY <1>17 DEF RecordArchive, WriteMarker
  <2> QED
    BY <2>1, <2>2, <2>3 DEF NoLeftovers, PartlySwept, Swept
<1>18. ASSUME NEW p \in Procs, Recheck(p)
      PROVE  NoLeftovers'
  BY <1>18 DEF Recheck, Storage, Go, Here, NoLeftovers, PartlySwept, Swept
<1>19. ASSUME NEW p \in Procs, RenameAway(p)
      PROVE  NoLeftovers'
  BY <1>19 DEF RenameAway, Go, GoWith, Here, NoLeftovers, PartlySwept, Swept
<1>20. ASSUME NEW p \in Procs, ApplyPurgeCleanup(p)
      PROVE  NoLeftovers'
  BY <1>20, <1>0
     DEF ApplyPurgeCleanup, Storage, Go, GoWith, End, Here, NoLeftovers, PartlySwept, Swept,
         Commands
<1>21. ASSUME NEW p \in Procs, NEW part \in Parts, Sweep(p, part)
      PROVE  NoLeftovers'
  <2>1. /\ pc[p] = "sweep" /\ UNCHANGED home
        /\ \A q \in Procs : q # p => pc'[q] = pc[q] /\ task'[q] = task[q]
    BY <1>21, <1>0 DEF Sweep, Here, Go, GoWith, End, Commands
  <2>2. \A n \in Births : n # Swept(p) => tombs'[n] = tombs[n]
    BY <1>21, <1>0 DEF Sweep, Stored
  <2>3. Swept(p) \in Births => tombs'[Swept(p)] = NULL \/ UNCHANGED <<pc, task>>
    BY <1>21, <1>0 DEF Sweep, Stored
  <2>4. \A q \in Procs : q # p => Swept(q)' = Swept(q)
    BY <2>1 DEF Swept
  <2>5. ~SweepFaults => \A n \in Births : PartlySwept(n)' =>
            \E q \in Procs : pc'[q] = "sweep" /\ Swept(q)' = n
    <3> SUFFICES ASSUME ~SweepFaults, NEW n \in Births, PartlySwept(n)'
                 PROVE  \E q \in Procs : pc'[q] = "sweep" /\ Swept(q)' = n
      OBVIOUS
    <3>1. CASE n = Swept(p)
      <4>1. UNCHANGED <<pc, task>>
        BY <2>3, <3>1 DEF PartlySwept
      <4> QED
        BY <2>1, <3>1, <4>1 DEF Swept
    <3>2. CASE n # Swept(p)
      <4>1. PartlySwept(n)
        BY <2>2, <3>2 DEF PartlySwept
      <4>2. PICK q \in Procs : pc[q] = "sweep" /\ Swept(q) = n
        BY <4>1 DEF NoLeftovers
      <4> QED
        BY <2>1, <2>4, <3>2, <4>2
    <3> QED
      BY <3>1, <3>2
  <2>6. ~TornFaults /\ home' # NULL /\ home'.marker = TORN => \E q \in Procs : pc'[q] = "fill"
    BY <2>1 DEF NoLeftovers
  <2> QED
    BY <2>5, <2>6 DEF NoLeftovers
<1>22. ASSUME NEW p \in Procs, InterruptPerform(p)
      PROVE  NoLeftovers'
  BY <1>22, <1>0
     DEF InterruptPerform, Outcome, Rebridge, Bound, Spend, Go, Here, NoLeftovers, PartlySwept,
         Swept, Commands
<1>23. ASSUME NEW p \in Procs, Fail(p)
      PROVE  NoLeftovers'
  <2>1. /\ UNCHANGED <<home, tombs>> /\ MayFault(p)
        /\ \A q \in Procs : q # p => pc'[q] = pc[q] /\ task'[q] = task[q]
    BY <1>23, <1>0 DEF Fail, Storage, Go, GoWith, End, Commands
  <2>2. \A q \in Procs : q # p => Swept(q)' = Swept(q)
    BY <2>1 DEF Swept
  <2>3. ~TornFaults => pc[p] # "fill"
    BY <2>1 DEF MayFault, Here
  <2>4. ~SweepFaults /\ pc[p] = "sweep" => ~PartlySwept(Swept(p))
    BY <2>1 DEF MayFault, Here
  <2>5. \A n \in Births : PartlySwept(n)' = PartlySwept(n)
    BY <2>1 DEF PartlySwept
  <2> QED
    BY <2>1, <2>2, <2>3, <2>4, <2>5 DEF NoLeftovers
<1>24. ASSUME NEW p \in Procs, Crash(p)
      PROVE  NoLeftovers'
  <2>1. /\ UNCHANGED <<home, tombs>> /\ MayFault(p)
        /\ \A q \in Procs : q # p => pc'[q] = pc[q] /\ task'[q] = task[q]
    BY <1>24 DEF Crash, Storage, Go, GoWith, End
  <2>2. \A q \in Procs : q # p => Swept(q)' = Swept(q)
    BY <2>1 DEF Swept
  <2>3. ~TornFaults => pc[p] # "fill"
    BY <2>1 DEF MayFault, Here
  <2>4. ~SweepFaults /\ pc[p] = "sweep" => ~PartlySwept(Swept(p))
    BY <2>1 DEF MayFault, Here
  <2>5. \A n \in Births : PartlySwept(n)' = PartlySwept(n)
    BY <2>1 DEF PartlySwept
  <2> QED
    BY <2>1, <2>2, <2>3, <2>4, <2>5 DEF NoLeftovers
<1>25. ASSUME NEW p \in Procs, Abandon(p)
      PROVE  NoLeftovers'
  BY <1>25 DEF Abandon, Storage, Go, GoWith, End, NoLeftovers, PartlySwept, Swept
<1>26. QED
  BY <1>1, <1>2, <1>3, <1>4, <1>5, <1>6, <1>7, <1>8, <1>9, <1>10, <1>11, <1>12, <1>13, <1>14,
     <1>15, <1>16, <1>17, <1>18, <1>19, <1>20, <1>21, <1>22, <1>23, <1>24, <1>25
     DEF Next, Outside, Run, Disturb

\* Steps that leave alone what commands compare.
LEMMA SameArchived ==
    ASSUME Archived, UNCHANGED <<tombs, archives, births>>, home' # NULL => home # NULL,
           \A q \in Procs \ late' : pc'[q] \in {"record", "recheck", "rename", "sweep"} =>
               q \notin late /\ pc'[q] = pc[q] /\ task'[q] = task[q],
           \A q \in Procs : pc'[q] = "rename" /\ home' # NULL => home'.body = home.body
    PROVE  Archived'
BY DEF Archived, Swept

\* What a command compared stays as it was, unless it is disturbed.
LEMMA ArchivedStep ==
    ASSUME ReinitWaits, TypeOK, TaskOK, Locks, Ages, Recorded, Entombed, Archived, [Next]_vars
    PROVE  Archived'
<1>0. Commands /\ Stored
  BY DEF TypeOK, Commands, Stored
<1>1. CASE UNCHANGED vars
  BY <1>1 DEF vars, Archived, Swept, Commands, Stored
<1>2. CASE Resolve
  <2>1. \A q \in Procs \ late' : pc'[q] \in {"record", "recheck", "rename", "sweep"} =>
            q \notin late /\ pc'[q] = pc[q] /\ task'[q] = task[q]
    BY <1>2, <1>0 DEF Resolve, Commands
  <2>2. \A q \in Procs : pc'[q] = "rename" /\ home' # NULL => home'.body = home.body
    BY <1>2 DEF Resolve, Locks, Working, Locked
  <2>3. UNCHANGED <<tombs, archives, births>> /\ (home' # NULL => home # NULL)
    BY <1>2 DEF Resolve
  <2> QED
    BY <2>1, <2>2, <2>3, SameArchived
<1>3. CASE ClearStaleLock
  BY <1>3 DEF ClearStaleLock, Archived, Swept
<1>4. CASE Edit
  BY <1>4 DEF Edit, Archived
<1>5. ASSUME NEW e \in Exports, LoseArchive(e)
      PROVE  Archived'
  BY <1>5 DEF LoseArchive, Archived
<1>6. ASSUME NEW p \in Procs, Plan(p)
      PROVE  Archived'
  <2>1. PICK position, t : position \in {"lock", "cleanup"} /\ Start(p, position, t)
    BY <1>6, PlanStarts
  <2>2. \A q \in Procs \ late' : pc'[q] \in {"record", "recheck", "rename", "sweep"} =>
            q \notin late /\ pc'[q] = pc[q] /\ task'[q] = task[q]
    BY <1>0, <2>1 DEF Start, Go, GoWith, Commands
  <2> QED
    BY <2>1, <2>2, SameArchived DEF Start, Storage
<1>7. ASSUME NEW p \in Procs, AcquireLock(p)
      PROVE  Archived'
  <2>1. \A q \in Procs \ late' : pc'[q] \in {"record", "recheck", "rename", "sweep"} =>
            q \notin late /\ pc'[q] = pc[q] /\ task'[q] = task[q]
    BY <1>7, <1>0 DEF AcquireLock, Go, GoWith, End, Commands
  <2>2. \A q \in Procs : pc'[q] = "rename" /\ home' # NULL => home'.body = home.body
    BY <1>7, <1>0 DEF AcquireLock, Stored, Home
  <2>3. UNCHANGED <<tombs, archives, births>> /\ (home' # NULL => home # NULL)
    BY <1>7 DEF AcquireLock
  <2> QED
    BY <2>1, <2>2, <2>3, SameArchived
<1>8. ASSUME NEW p \in Procs, Admit(p)
      PROVE  Archived'
  <2>1. \A q \in Procs \ late' : pc'[q] \in {"record", "recheck", "rename", "sweep"} =>
            q \notin late /\ pc'[q] = pc[q] /\ task'[q] = task[q]
    BY <1>8, <1>0 DEF Admit, Go, GoWith, End, Commands
  <2>2. \A q \in Procs : pc'[q] = "rename" /\ home' # NULL => home'.body = home.body
    BY <1>8, <1>0 DEF Admit, Stored, Home
  <2>3. UNCHANGED <<tombs, archives, births>> /\ (home' # NULL => home # NULL)
    BY <1>8 DEF Admit
  <2> QED
    BY <2>1, <2>2, <2>3, SameArchived
<1>9. ASSUME NEW p \in Procs, Perform(p)
      PROVE  Archived'
  <2>1. \A q \in Procs \ late' : pc'[q] \in {"record", "recheck", "rename", "sweep"} =>
            q \notin late /\ pc'[q] = pc[q] /\ task'[q] = task[q]
    BY <1>9, <1>0 DEF Perform, Go, GoWith, Commands
  <2>2. \A q \in Procs : pc'[q] = "rename" /\ home' # NULL => home'.body = home.body
    <3>1. home # NULL /\ pc[p] = "perform"
      BY <1>9 DEF Perform, Here
    <3>2. \A q \in Procs : q # p => pc[q] # "rename"
      BY <3>1 DEF Locks, Working, Locked
    <3> QED
      BY <1>9, <1>0, <3>2 DEF Perform, Go, GoWith, Commands
  <2>3. UNCHANGED <<tombs, archives, births>> /\ (home' # NULL => home # NULL)
    BY <1>9 DEF Perform
  <2> QED
    BY <2>1, <2>2, <2>3, SameArchived
<1>10. ASSUME NEW p \in Procs, Release(p)
      PROVE  Archived'
  BY <1>10, <1>0 DEF Release, Go, GoWith, End, Archived, Swept, Commands
<1>11. ASSUME NEW p \in Procs, BootRename(p)
      PROVE  Archived'
  <2>1. CASE home # NULL
    <3>1. \A q \in Procs \ late' : pc'[q] \in {"record", "recheck", "rename", "sweep"} =>
              q \notin late /\ pc'[q] = pc[q] /\ task'[q] = task[q]
      BY <1>11, <1>0 DEF BootRename, Go, GoWith, End, Commands
    <3> QED
      BY <1>11, <2>1, <3>1, SameArchived DEF BootRename
  <2>2. CASE home = NULL
    <3>1. births' = births + 1 /\ UNCHANGED <<tombs, archives, task, late>> /\ births \in Nat
      BY <1>11, <1>0, <2>2 DEF BootRename, Stored, Births
    <3>2. \A q \in Procs : /\ pc'[q] # "rename"
                           /\ pc'[q] \in {"record", "recheck", "sweep"} => pc[q] = pc'[q]
      BY <1>11, <1>0, <2>2 DEF BootRename, Go, Commands, Locks, Locked
    <3>3. \A q \in Procs : pc[q] = "sweep" => Swept(q) \in Nat
      BY PurgeAssumption DEF TaskOK, Remembers, Swept, Marker, Body, Births
    <3>4. \A q \in Procs : Swept(q)' = Swept(q)
      BY <3>1 DEF Swept
    <3>5. SUFFICES ASSUME NEW q \in Procs \ late', pc'[q] = "sweep"
                   PROVE  /\ Swept(q) <= births' /\ Swept(q) < births'
                          /\ tombs[Swept(q)] # NULL /\ tombs[Swept(q)].left = Parts =>
                                \E e \in Exports : archives[e] = tombs[Swept(q)].body
      BY <3>1, <3>2, <3>4 DEF Archived
    <3>6. Swept(q) <= births /\ Swept(q) \in Nat
      BY <3>1, <3>2, <3>3, <3>5 DEF Archived
    <3>7. tombs[Swept(q)] # NULL /\ tombs[Swept(q)].left = Parts =>
              \E e \in Exports : archives[e] = tombs[Swept(q)].body
      BY <3>1, <3>2, <3>5 DEF Archived
    <3> QED
      BY <3>1, <3>6, <3>7
  <2> QED
    BY <2>1, <2>2
<1>12. ASSUME NEW p \in Procs, FinishBoot(p)
      PROVE  Archived'
  BY <1>12 DEF FinishBoot, Go, GoWith, End, Here, Archived, Swept
<1>13. ASSUME NEW p \in Procs, VerifyDetached(p)
      PROVE  Archived'
  BY <1>13, <1>0 DEF VerifyDetached, Storage, Go, GoWith, End, Archived, Swept, Commands
<1>14. ASSUME NEW p \in Procs, CreateMarker(p)
      PROVE  Archived'
  <2>1. \A q \in Procs \ late' : pc'[q] \in {"record", "recheck", "rename", "sweep"} =>
            q \notin late /\ pc'[q] = pc[q] /\ task'[q] = task[q]
    BY <1>14, <1>0 DEF CreateMarker, Go, GoWith, Commands
  <2>2. \A q \in Procs : pc'[q] = "rename" /\ home' # NULL => home'.body = home.body
    BY <1>14, <1>0 DEF CreateMarker, Stored, Home
  <2>3. UNCHANGED <<tombs, archives, births>> /\ (home' # NULL => home # NULL)
    BY <1>14 DEF CreateMarker
  <2> QED
    BY <2>1, <2>2, <2>3, SameArchived
<1>15. ASSUME NEW p \in Procs, FillMarker(p)
      PROVE  Archived'
  BY <1>15 DEF FillMarker, WriteMarker, Go, Archived, Swept
<1>16. ASSUME NEW p \in Procs, Export(p)
      PROVE  Archived'
  <2>1. CASE Go(p, "release") /\ UNCHANGED archives
    <3>1. \A q \in Procs \ late' : pc'[q] \in {"record", "recheck", "rename", "sweep"} =>
              q \notin late /\ pc'[q] = pc[q] /\ task'[q] = task[q]
      BY <1>16, <2>1 DEF Export, Go
    <3> QED
      BY <1>16, <2>1, <3>1, SameArchived DEF Export
  <2>2. CASE ~(Go(p, "release") /\ UNCHANGED archives)
    <3>1. /\ archives' = [archives EXCEPT ![task[p].export] = task[p].snapshot]
          /\ archives[task[p].export] = NULL /\ pc' = [pc EXCEPT ![p] = "record"]
          /\ UNCHANGED <<home, tombs, births, task, late>> /\ pc[p] = "export"
      BY <1>16, <2>2 DEF Export, Go, Here
    <3>2. task[p].export \in Exports
      BY <3>1 DEF TaskOK, Remembers, Purging
    <3>3. \A e \in Exports, b \in Body : archives[e] = b => archives'[e] = b
      BY <1>0, <3>1, NullAssumption DEF Stored
    <3>4. archives'[task[p].export] = task[p].snapshot
      BY <1>0, <3>1, <3>2 DEF Stored
    <3>5. \A n \in Births : tombs[n] # NULL => tombs[n].body \in Body
      BY <1>0 DEF Stored, Tomb
    <3>6. \A q \in Procs : pc[q] = "sweep" => Swept(q) \in Births
      BY DEF TaskOK, Remembers, Swept, Marker, Body
    <3>7. \A q \in Procs : pc[q] \in {"record", "recheck", "rename"} =>
              task[q].export \in Exports /\ task[q].snapshot \in Body
      BY DEF TaskOK, Remembers, Purging
    <3>8. \A q \in Procs : Swept(q)' = Swept(q)
      BY <3>1 DEF Swept
    <3>9. \A q \in Procs : q # p => pc'[q] = pc[q]
      BY <1>0, <3>1 DEF Commands
    <3>10. pc'[p] = "record"
      BY <1>0, <3>1 DEF Commands
    <3>11. SUFFICES ASSUME NEW q \in Procs \ late
                    PROVE  /\ pc'[q] \in {"record", "recheck", "rename"} =>
                               archives'[task[q].export] = task[q].snapshot
                           /\ pc'[q] = "rename" /\ home # NULL => home.body = task[q].snapshot
                           /\ pc'[q] = "sweep" => LET n == Swept(q) IN
                               /\ n <= births /\ (home # NULL => n < births)
                               /\ tombs[n] # NULL /\ tombs[n].left = Parts =>
                                     \E e \in Exports : archives'[e] = tombs[n].body
      BY <3>1, <3>8 DEF Archived
    <3>12. CASE q = p
      BY <3>4, <3>10, <3>12
    <3>13. CASE q # p
      <4>1. pc'[q] = pc[q]
        BY <3>9, <3>13
      <4>2. pc[q] \in {"record", "recheck", "rename"} => archives'[task[q].export] = task[q].snapshot
        BY <3>3, <3>7 DEF Archived
      <4>3. pc[q] = "sweep" /\ tombs[Swept(q)] # NULL /\ tombs[Swept(q)].left = Parts =>
              \E e \in Exports : archives'[e] = tombs[Swept(q)].body
        BY <3>3, <3>5, <3>6 DEF Archived
      <4> QED
        BY <4>1, <4>2, <4>3 DEF Archived
    <3> QED
      BY <3>12, <3>13
  <2> QED
    BY <2>1, <2>2
<1>17. ASSUME NEW p \in Procs, RecordArchive(p)
      PROVE  Archived'
  BY <1>17 DEF RecordArchive, WriteMarker, Go, Here, Archived, Swept
<1>18. ASSUME NEW p \in Procs, Recheck(p)
      PROVE  Archived'
  BY <1>18 DEF Recheck, Storage, Go, Here, Archived, Swept
<1>19. ASSUME NEW p \in Procs, RenameAway(p)
      PROVE  Archived'
  <2> DEFINE n == home.body.born
             t == [task[p] EXCEPT !.locked = n]
  <2>1. /\ home # NULL /\ home' = NULL /\ pc[p] = "rename" /\ tombs[n] = NULL
        /\ tombs' = [tombs EXCEPT ![n] = [body |-> home.body, marker |-> home.marker, left |-> Parts]]
        /\ pc' = [pc EXCEPT ![p] = "sweep"] /\ task' = [task EXCEPT ![p] = t]
        /\ UNCHANGED <<archives, births, late>>
    BY <1>19 DEF RenameAway, Here, Go, GoWith
  <2>2. n = births /\ n \in Births
    BY <1>0, <2>1 DEF Ages, Stored
  <2>3. tombs'[n] # NULL /\ tombs'[n].body = home.body
    <3>1. [body |-> home.body, marker |-> home.marker, left |-> Parts] \in Tomb
      BY <1>0, <2>1 DEF Stored, Home, Tomb
    <3> QED
      BY <1>0, <2>1, <2>2, <3>1, NullAssumption DEF Stored
  <2>4. \A m \in Births : m # n => tombs'[m] = tombs[m]
    BY <1>0, <2>1 DEF Stored
  <2>5. \A q \in Procs : q # p => pc'[q] = pc[q] /\ task'[q] = task[q]
    BY <1>0, <2>1 DEF Commands
  <2>6. /\ pc'[p] = "sweep" /\ task'[p] = t /\ task[p].op = "purge"
        /\ t.op = "purge" /\ t.locked = n /\ task[p].export \in Exports
    BY <1>0, <2>1 DEF Commands, TaskOK, Remembers, Purging
  <2> HIDE DEF t
  <2>7. SUFFICES ASSUME NEW q \in Procs \ late
                 PROVE  /\ pc'[q] \in {"record", "recheck", "rename"} =>
                            archives[task'[q].export] = task'[q].snapshot
                        /\ pc'[q] = "sweep" =>
                            /\ Swept(q)' <= births
                            /\ tombs'[Swept(q)'] # NULL /\ tombs'[Swept(q)'].left = Parts =>
                                  \E e \in Exports : archives[e] = tombs'[Swept(q)'].body
    BY <2>1 DEF Archived
  <2>8. CASE q = p
    <3>1. Swept(q)' = n
      BY <2>6, <2>8 DEF Swept
    <3>2. archives[task[p].export] = home.body
      BY <2>1, <2>8 DEF Archived
    <3>3. births <= births
      BY <1>0, PurgeAssumption DEF Stored, Births
    <3> QED
      BY <2>2, <2>3, <2>6, <2>8, <3>1, <3>2, <3>3
  <2>9. CASE q # p
    <3>1. pc'[q] = pc[q] /\ task'[q] = task[q] /\ Swept(q)' = Swept(q)
      BY <2>5, <2>9 DEF Swept
    <3>2. pc[q] = "sweep" => Swept(q) <= births /\ Swept(q) < births
      BY <2>1 DEF Archived
    <3>3. pc[q] = "sweep" => Swept(q) \in Births
      BY DEF TaskOK, Remembers, Swept, Marker, Body
    <3>4. pc[q] = "sweep" => Swept(q) # n
      BY <2>2, <3>2, <3>3, PurgeAssumption DEF Births
    <3>5. pc[q] = "sweep" => tombs'[Swept(q)] = tombs[Swept(q)]
      BY <2>4, <3>3, <3>4
    <3>6. pc[q] = "sweep" /\ tombs[Swept(q)] # NULL /\ tombs[Swept(q)].left = Parts =>
              \E e \in Exports : archives[e] = tombs[Swept(q)].body
      BY DEF Archived
    <3>7. pc[q] \in {"record", "recheck", "rename"} => archives[task[q].export] = task[q].snapshot
      BY DEF Archived
    <3> QED
      BY <3>1, <3>2, <3>5, <3>6, <3>7
  <2> QED
    BY <2>8, <2>9
<1>20. ASSUME NEW p \in Procs, ApplyPurgeCleanup(p)
      PROVE  Archived'
  <2>1. CASE End(p)
    <3>1. \A q \in Procs \ late' : pc'[q] \in {"record", "recheck", "rename", "sweep"} =>
              q \notin late /\ pc'[q] = pc[q] /\ task'[q] = task[q]
      BY <1>20, <1>0, <2>1 DEF ApplyPurgeCleanup, End, GoWith, Go, Commands
    <3> QED
      BY <1>20, <2>1, <3>1, SameArchived DEF ApplyPurgeCleanup, Storage
  <2>2. CASE ~End(p)
    <3>1. PICK n \in Births : /\ tombs[n] # NULL /\ CleanupOffered(n)
                              /\ tombs[n].marker = task[p].marker
      BY <1>20, <2>2 DEF ApplyPurgeCleanup
    <3>2. /\ pc[p] = "cleanup" /\ pc' = [pc EXCEPT ![p] = "sweep"] /\ late' = late \ {p}
          /\ UNCHANGED <<task, home, tombs, archives, births>>
      BY <1>20, <2>2 DEF ApplyPurgeCleanup, Go, Here, Storage
    <3>3. task[p].op = "cleanup"
      BY <3>2 DEF TaskOK, Remembers
    <3>4. Swept(p) = n
      BY <3>1, <3>3 DEF Swept, CleanupOffered, Ages
    <3>5. n <= births /\ (home # NULL => n < births)
      BY <3>1 DEF Ages
    <3>6. \E e \in Exports : archives[e] = tombs[n].body
      BY <3>1 DEF CleanupOffered, ArchiveVerifies, Entombed, Tells, Marker
    <3>7. \A q \in Procs : Swept(q)' = Swept(q)
      BY <3>2 DEF Swept
    <3>8. \A q \in Procs : q # p => pc'[q] = pc[q]
      BY <1>0, <3>2 DEF Commands
    <3>9. pc'[p] = "sweep"
      BY <1>0, <3>2 DEF Commands
    <3> QED
      BY <3>2, <3>4, <3>5, <3>6, <3>7, <3>8, <3>9 DEF Archived
  <2> QED
    BY <2>1, <2>2
<1>21. ASSUME NEW p \in Procs, NEW part \in Parts, Sweep(p, part)
      PROVE  Archived'
  <2>1. \A n \in Births : tombs'[n] # NULL /\ tombs'[n].left = Parts => tombs'[n] = tombs[n]
    <3> SUFFICES ASSUME NEW n \in Births, n = Swept(p), tombs'[n] # NULL
                 PROVE  tombs'[n].left # Parts
      BY <1>21, <1>0 DEF Sweep, Stored
    <3>1. tombs[n] \in Tomb /\ tombs'[n] = [tombs[n] EXCEPT !.left = tombs[n].left \ {part}]
      BY <1>21, <1>0 DEF Sweep, Without, Stored
    <3>2. tombs'[n].left = tombs[n].left \ {part}
      BY <3>1 DEF Tomb
    <3> QED
      BY <3>2
  <2>2. /\ UNCHANGED <<home, archives, births, late>>
        /\ \A q \in Procs : q # p => pc'[q] = pc[q] /\ task'[q] = task[q]
        /\ pc'[p] \in {"release", "idle"} \/ (pc'[p] = pc[p] /\ task'[p] = task[p])
    BY <1>21, <1>0 DEF Sweep, Go, GoWith, End, Commands
  <2>3. \A q \in Procs : pc'[q] \in {"record", "recheck", "rename", "sweep"} =>
            pc'[q] = pc[q] /\ task'[q] = task[q] /\ Swept(q)' = Swept(q)
    BY <2>2 DEF Swept
  <2>4. \A q \in Procs : pc[q] = "sweep" => Swept(q) \in Births
    BY DEF TaskOK, Remembers, Swept, Marker, Body
  <2> QED
    BY <2>1, <2>2, <2>3, <2>4 DEF Archived
<1>22. ASSUME NEW p \in Procs, InterruptPerform(p)
      PROVE  Archived'
  <2>1. \A q \in Procs \ late' : pc'[q] \in {"record", "recheck", "rename", "sweep"} =>
            q \notin late /\ pc'[q] = pc[q] /\ task'[q] = task[q]
    BY <1>22, <1>0 DEF InterruptPerform, Go, Commands
  <2>2. \A q \in Procs : pc'[q] = "rename" /\ home' # NULL => home'.body = home.body
    BY <1>22, InterruptMakes
  <2>3. UNCHANGED <<tombs, archives, births>> /\ (home' # NULL => home # NULL)
    BY <1>22 DEF InterruptPerform
  <2> QED
    BY <2>1, <2>2, <2>3, SameArchived
<1>23. ASSUME NEW p \in Procs, Fail(p)
      PROVE  Archived'
  BY <1>23, <1>0 DEF Fail, Spend, Storage, Go, GoWith, End, Archived, Swept, Commands
<1>24. ASSUME NEW p \in Procs, Crash(p)
      PROVE  Archived'
  BY <1>24, <1>0 DEF Crash, Spend, Storage, Go, GoWith, End, Archived, Swept, Commands
<1>25. ASSUME NEW p \in Procs, Abandon(p)
      PROVE  Archived'
  BY <1>25 DEF Abandon, Storage, Go, GoWith, End, Archived, Swept
<1>26. QED
  BY <1>1, <1>2, <1>3, <1>4, <1>5, <1>6, <1>7, <1>8, <1>9, <1>10, <1>11, <1>12, <1>13, <1>14,
     <1>15, <1>16, <1>17, <1>18, <1>19, <1>20, <1>21, <1>22, <1>23, <1>24, <1>25
     DEF Next, Outside, Run, Disturb

-----------------------------------------------------------------------------
(* The invariant and the theorems.                                        *)

Inv ==
    /\ TypeOK /\ TaskOK /\ Ages /\ Locks /\ Admissions /\ Bridged
    /\ Recorded /\ Entombed /\ Alone /\ NoLeftovers /\ Archived

\* The invariant holds before the first step.
LEMMA InvInit == Init => Inv
<1> SUFFICES ASSUME Init PROVE Inv
  OBVIOUS
<1> USE DEF Init
<1>1. PICK adapters \in SUBSET Providers :
          /\ home = [body |-> [Fresh(1) EXCEPT !.adapters = adapters],
                     pointer |-> NULL, marker |-> NULL, lock |-> FALSE]
          /\ bridges = adapters
  OBVIOUS
<1>2. NoTask \in Task /\ NoTask.op = "none" /\ NoTask.stage = "apply"
  BY DEF NoTask, Task, Ops
<1>3. 1 \in Births /\ 0 \in Claims
  BY PurgeAssumption DEF Births, Claims
<1>4. home.body \in Body /\ home.body.born = 1 /\ home.body.adapters = adapters
  BY <1>1, <1>3 DEF Fresh, Body
<1>5. home \in Home /\ home # NULL /\ home.pointer = NULL /\ home.marker = NULL
  <2> DEFINE b == home.body
  <2>1. home = [body |-> b, pointer |-> NULL, marker |-> NULL, lock |-> FALSE]
    BY <1>1
  <2> HIDE DEF b
  <2>2. home \in Home
    BY <1>4, <2>1 DEF Home, b
  <2> QED
    BY <2>1, <2>2, NullAssumption
<1>6. \A p \in Procs : pc[p] = "idle" /\ task[p] = NoTask
  OBVIOUS
<1>7. \A n \in Births : tombs[n] = NULL
  OBVIOUS
<1>8. TypeOK
  BY <1>1, <1>2, <1>3, <1>5, PurgeAssumption DEF TypeOK, Positions
<1>9. TaskOK
  BY <1>2, <1>6 DEF TaskOK, Remembers, Purging
<1>10. Ages /\ Entombed
  BY <1>4, <1>5, <1>7 DEF Ages, Entombed
<1>11. Locks /\ Admissions /\ Recorded /\ Archived
  BY <1>5, <1>6 DEF Locks, Working, Locked, Admissions, Recorded, Purging, Archived
<1>12. Bridged
  BY <1>1, <1>4, <1>5 DEF Bridged
<1>13. Alone
  BY <1>2, <1>6, <1>7 DEF Alone, Standing
<1>14. NoLeftovers
  BY <1>5, <1>7, NullAssumption DEF NoLeftovers, PartlySwept
<1>15. QED
  BY <1>8, <1>9, <1>10, <1>11, <1>12, <1>13, <1>14 DEF Inv

\* What is stored and what the commands remember stays typed.
LEMMA TypesStep ==
    ASSUME TypeOK, TaskOK, [Next]_vars
    PROVE  TypeOK' /\ TaskOK'
BY CommandsTypedStep, StoredTypedStep, TaskOKStep DEF TypeOK, Commands, Stored

\* Whatever runs, crashes or fails, what is stored and what the commands
\* remember has its type: in particular nothing is made out of a namespace, a
\* marker or a tombstone that is not there.
THEOREM PurgeTypeCorrect == Spec => []TypeOK
<1>1. Init => TypeOK /\ TaskOK
  BY InvInit DEF Inv
<1>2. TypeOK /\ TaskOK /\ [Next]_vars => (TypeOK /\ TaskOK)'
  BY TypesStep
<1>3. QED
  BY <1>1, <1>2, PTL DEF Spec

\* If nobody initializes while a purge is still returning, the whole invariant
\* holds at every step.
LEMMA InvHolds == ReinitWaits => (Spec => []Inv)
<1> SUFFICES ASSUME ReinitWaits PROVE Spec => []Inv
  OBVIOUS
<1>1. Init => Inv
  BY InvInit
<1>2. Inv /\ [Next]_vars => Inv'
  BY TypesStep, AgesStep, LocksStep, AdmissionsStep, BridgedStep, RecordedStep,
     EntombedStep, AloneStep, NoLeftoversStep, ArchivedStep DEF Inv
<1>3. QED
  BY <1>1, <1>2, PTL DEF Spec

\* If nobody initializes anew before the purge that removed the namespace has
\* returned, then for any number of commands and lives, and whatever fails or dies,
\* two never work under the lock of one namespace, and the lock file stands as
\* long as one does.  The hypothesis is needed: a purge that returns removes
\* TRANSACTION.lock by its path (purge.go:82), whosever lock that is by then.
THEOREM PurgeLockExcludes == ReinitWaits => (Spec => []LockExclusion)
<1>1. Inv => LockExclusion
  BY DEF Inv, Locks, LockExclusion, Holds, Working
<1>2. QED
  BY InvHolds, <1>1, PTL

\* Under the same assumption no namespace is moved away, and no tombstone opened
\* for removal, without a verified archive of exactly that content, unless
\* another program changed one of them after the last look at it.
THEOREM RemovalsAreArchived == ReinitWaits => (Spec => ExportedBeforeRemoved)
<1>1. ASSUME Inv, NEW p \in Procs \ late
      PROVE  /\ Here(p, "rename") => \E e \in Exports : archives[e] = home.body
             /\ LET n == Swept(p) IN
                Here(p, "sweep") /\ tombs[n] # NULL /\ tombs[n].left = Parts
                   => \E e \in Exports : archives[e] = tombs[n].body
  <2>1. CASE Here(p, "rename")
    <3>1. task[p].export \in Exports
      BY <1>1, <2>1 DEF Here, Inv, TaskOK, Remembers, Purging
    <3>2. home # NULL
      BY <1>1, <2>1 DEF Here, Inv, Locks, Locked
    <3>3. archives[task[p].export] = home.body
      BY <1>1, <2>1, <3>2 DEF Here, Inv, Archived
    <3> QED
      BY <2>1, <3>1, <3>3 DEF Here
  <2>2. CASE ~Here(p, "rename")
    BY <1>1, <2>2 DEF Here, Inv, Archived
  <2>3. QED
    BY <2>1, <2>2
<1>2. Inv => [\A p \in Procs \ late :
         /\ Here(p, "rename") /\ Here(p, "sweep")'
               => \E e \in Exports : archives[e] = home.body
         /\ LET n == Swept(p) IN
            Here(p, "sweep") /\ tombs[n] # NULL /\ tombs[n].left = Parts /\ tombs'[n] # tombs[n]
               => \E e \in Exports : archives[e] = tombs[n].body]_vars
  BY <1>1
<1>3. QED
  BY InvHolds, <1>2, PTL DEF Spec, ExportedBeforeRemoved

\* Under the same assumption a pending purge keeps every other command from
\* changing the adapters.
THEOREM PendingPurgesBlock == ReinitWaits => (Spec => PendingPurgeBlocks)
<1>1. Inv /\ [Next]_vars => Blocked
  BY BlockedStep DEF Inv
<1>2. Inv /\ [Next]_vars =>
        [home # NULL /\ home.marker # NULL /\ home' # NULL /\ home'.marker # NULL
           => home'.body.adapters = home.body.adapters /\ bridges' = bridges]_vars
  BY <1>1 DEF Blocked
<1>3. QED
  BY InvHolds, <1>2, PTL DEF Spec, PendingPurgeBlocks

\* Under the same assumption a bridge loses its registration only by the removal
\* of a namespace whose archive records it.
THEOREM StraysComeFromPurges == ReinitWaits => (Spec => StraysAreArchived)
<1>1. Inv /\ [Next]_vars => StraysGrow
  BY StraysGrowStep DEF Inv
<1>2. Inv /\ [Next]_vars =>
        [\A a \in Strays' \ Strays :
          home # NULL /\ home' = NULL /\ a \in home.body.adapters]_vars
  BY <1>1 DEF StraysGrow
<1>3. QED
  BY InvHolds, <1>2, PTL DEF Spec, StraysAreArchived

\* If moreover no fault falls between creating and writing PURGE.json, nor into
\* the removal of a tombstone, every interrupted purge can be aborted or cleaned
\* up, unless another program changed what is compared.
THEOREM PurgesRecover ==
    ReinitWaits /\ ~TornFaults /\ ~SweepFaults => (Spec => []InterruptedPurgesRecover)
<1> SUFFICES ASSUME ReinitWaits, ~TornFaults, ~SweepFaults
             PROVE  Spec => []InterruptedPurgesRecover
  OBVIOUS
<1>1. ASSUME Inv, home # NULL, home.marker # NULL, \A p \in Procs : ~Holds(p)
      PROVE  IsMarker(home.marker)
  <2>1. home.marker # TORN
    BY <1>1 DEF Inv, NoLeftovers, Locks, Working, Locked, Holds
  <2>2. QED
    BY <1>1, <2>1 DEF IsMarker
<1>2. ASSUME Inv, NEW n \in Standing, Untouched(n),
             \A p \in Procs : Here(p, "sweep") => Swept(p) # n
      PROVE  CleanupOffered(n)
  <2> DEFINE m == tombs[n].marker
             b == tombs[n].body
  <2>1. n \in Births /\ tombs[n] # NULL /\ tombs[n] \in Tomb
    BY <1>2 DEF Standing, Inv, TypeOK
  <2>2. Standing = {n}
    BY <1>2 DEF Inv, Alone
  <2>3. tombs[n].left = Parts
    BY <1>2, <2>1 DEF Inv, NoLeftovers, PartlySwept, Here
  <2>4. m \in Marker /\ m.archive = m.body /\ m.body.born = n /\ m.body.adapters = b.adapters
    BY <1>2, <2>1 DEF Inv, Entombed, Tells
  <2>5. IsMarker(m) /\ archives[m.export] = m.body /\ b.claim = m.body.claim
    BY <1>2, <2>4, NullAssumption DEF Untouched, IsMarker
  <2>6. m.body \in Body /\ b \in Body /\ b.born = n
    BY <1>2, <2>1, <2>4 DEF Marker, Tomb, Inv, Ages
  <2>7. m.body = b
    BY <2>4, <2>5, <2>6 DEF Body
  <2>8. ArchiveVerifies(m)
    BY <2>4, <2>5, <2>6, NullAssumption DEF ArchiveVerifies
  <2>9. QED
    BY <2>2, <2>3, <2>5, <2>7, <2>8 DEF CleanupOffered
<1>3. Inv => InterruptedPurgesRecover
  BY <1>1, <1>2 DEF InterruptedPurgesRecover
<1>4. QED
  BY InvHolds, <1>3, PTL
=============================================================================

------------------------------- MODULE Purge -------------------------------
(***************************************************************************)
(* The life of a namespace `.uawp/`: initialization, which takes no lock,  *)
(* purge, which detaches the adapters in one transaction and exports and   *)
(* removes the namespace under a second lock, the abort of a purge that    *)
(* did not reach its rename, the cleanup of one that did not get past it,  *)
(* and the ordinary commands that meet them.                               *)
(*                                                                         *)
(* A transaction of Apply is one step here, or is interrupted and resolved *)
(* later: what the module Transaction shows of it.  A purge is modelled    *)
(* call by call.                                                           *)
(***************************************************************************)
EXTENDS Naturals

CONSTANTS
    Procs,       \* slots of running commands
    Providers,   \* adapters that may be configured
    Exports,     \* paths an export may be written to
    MaxBirths,   \* bound: how often a namespace is initialized
    MaxClaims,   \* bound: how often the content of ACTIVE_WORKER.md changes
    Faults,      \* bound: crashes, failures, changes by other programs
    TornFaults,  \* may a fault fall between creating and writing PURGE.json?
    SweepFaults, \* may a fault fall into the removal of a tombstone?
    ReinitWaits, \* does nobody initialize while a purge is still returning?
    NULL, TORN

ASSUME PurgeAssumption ==
    /\ MaxBirths \in Nat \ {0} /\ MaxClaims \in Nat /\ Faults \in Nat
    /\ {TornFaults, SweepFaults, ReinitWaits} \subseteq BOOLEAN
    /\ NULL \notin Exports

VARIABLES
    home,        \* `.uawp/`, or NULL
    tombs,       \* the directories `.uawp-purge-*`, by the namespace they were
    bridges,     \* adapters whose bridge stands in a native file
    archives,    \* what is exported at each path
    births,      \* namespaces initialized so far
    pc, task,    \* the commands
    late,        \* commands whose last check an outside change followed
    budget
vars == <<home, tombs, bridges, archives, births, pc, task, late, budget>>

-----------------------------------------------------------------------------
(* Data.  A body is what SnapshotNamespace fingerprints: every file but the *)
(* lock and PURGE.json.  Two namespaces never have the same body: their     *)
(* ACTIVE_WORKER.md has the time of initialization.                         *)

Births == 1..MaxBirths
Claims == 0..MaxClaims
Body == [born : Births, claim : Claims, adapters : SUBSET Providers]
Released(body) == body.claim % 2 = 0

Marker == [export : Exports, body : Body, archive : Body \cup {NULL}]
Home == [body : Body,
         pointer : Body \cup {NULL},           \* what a live transaction makes of it
         marker : Marker \cup {NULL, TORN},    \* PURGE.json
         lock : BOOLEAN]                       \* TRANSACTION.lock
Parts == {"body", "marker"}
Tomb == [body : Body, marker : Marker \cup {NULL, TORN}, left : SUBSET Parts]

Fresh(n) == [born |-> n, claim |-> 0, adapters |-> {}]
Standing == {n \in Births : tombs[n] # NULL}
IsMarker(m) == m \notin {NULL, TORN}

(* VerifyExportFile: the archive is whole, and the one the marker names.    *)
ArchiveVerifies(m) == m.archive # NULL /\ archives[m.export] = m.archive

(* The evidence a cleanup wants, in preview and again in ApplyPurgeCleanup: *)
(* one tombstone, whole, with a marker whose archive verifies.              *)
CleanupOffered(n) ==
    /\ Standing = {n}
    /\ tombs[n].left = Parts
    /\ IsMarker(tombs[n].marker)
    /\ ArchiveVerifies(tombs[n].marker)
    /\ tombs[n].marker.body = tombs[n].body

Ops == {"none", "init", "claim", "adapter", "purge", "abort", "cleanup"}
Task == [op : Ops,
         stage : {"apply", "purge"},     \* which of the two locks of a purge
         from : Body \cup {NULL}, to : Body \cup {NULL},   \* the plan
         export : Exports \cup {NULL},
         marker : Marker \cup {NULL},    \* PURGE.json as an abort saw it
         snapshot : Body \cup {NULL},
         locked : Births \cup {NULL},    \* the namespace whose lock it created
         done : BOOLEAN]
NoTask == [op |-> "none", stage |-> "apply", from |-> NULL, to |-> NULL,
           export |-> NULL, marker |-> NULL, snapshot |-> NULL,
           locked |-> NULL, done |-> FALSE]

(* NULL and TORN stand for what is not there, or not readable. *)
ASSUME NullAssumption ==
    /\ TORN # NULL /\ TORN \notin Marker
    /\ NULL \notin Body /\ NULL \notin Marker /\ NULL \notin Home /\ NULL \notin Tomb
    /\ NULL \notin Births

Locked == {"admit", "perform", "mark", "fill", "export", "record", "recheck", "rename"}
Positions == Locked \cup {"idle", "lock", "verify", "boot", "booting", "cleanup",
                          "sweep", "release"}

-----------------------------------------------------------------------------
(* A step of a command: its new position and what it remembers. *)

Go(p, position) == pc' = [pc EXCEPT ![p] = position]
GoWith(p, position, t) == Go(p, position) /\ task' = [task EXCEPT ![p] = t]
End(p) == GoWith(p, "idle", NoTask)
Here(p, position) == pc[p] = position
Spend == budget > 0 /\ budget' = budget - 1
Storage == <<home, tombs, bridges, archives, births>>

Start(p, position, t) ==
    /\ Here(p, "idle")
    /\ GoWith(p, position, t)
    /\ late' = late \ {p}
    /\ UNCHANGED <<Storage, budget>>

(* Planners.  Status stops a lifecycle command before a pending purge or a  *)
(* tombstone; the adapter commands and init ask it nothing.  A rollback is  *)
(* an abort, and a continuation a cleanup, when there is no transaction to  *)
(* recover.                                                                 *)
PlanClaim(p) ==
    /\ home # NULL /\ home.pointer = NULL /\ home.marker = NULL /\ Standing = {}
    /\ home.body.claim < MaxClaims
    /\ Start(p, "lock", [NoTask EXCEPT !.op = "claim", !.from = home.body,
                                       !.to = [home.body EXCEPT !.claim = @ + 1]])

PlanAdapter(p, a) ==
    /\ home # NULL
    /\ \E adapters \in {home.body.adapters \cup {a}, home.body.adapters \ {a}} \ {home.body.adapters} :
          Start(p, "lock", [NoTask EXCEPT !.op = "adapter", !.from = home.body,
                                          !.to = [home.body EXCEPT !.adapters = adapters]])

PlanInit(p) == home = NULL /\ Start(p, "lock", [NoTask EXCEPT !.op = "init"])

PlanPurge(p, e) ==
    /\ home # NULL /\ home.pointer = NULL
    /\ archives[e] = NULL /\ Standing = {}
    /\ Released(home.body)
    /\ home.body.adapters \subseteq bridges
    /\ Start(p, "lock", [NoTask EXCEPT !.op = "purge", !.export = e, !.from = home.body,
                                       !.to = [home.body EXCEPT !.adapters = {}]])

\* Mutant: the record is deleted without being read.
PlanPurgeAbortUnread(p) ==
    /\ home # NULL /\ home.pointer = NULL /\ home.marker # NULL
    /\ Start(p, "lock", [NoTask EXCEPT !.op = "abort", !.marker = home.marker])

PlanPurgeAbort(p) ==
    /\ home # NULL /\ home.pointer = NULL /\ IsMarker(home.marker)
    /\ Start(p, "lock", [NoTask EXCEPT !.op = "abort", !.marker = home.marker])

PlanPurgeCleanup(p) ==
    /\ home # NULL => home.pointer = NULL
    /\ \E n \in Standing :
       /\ CleanupOffered(n)
       /\ Start(p, "cleanup", [NoTask EXCEPT !.op = "cleanup", !.marker = tombs[n].marker])

-----------------------------------------------------------------------------
(* Apply. *)

\* Mutant: the lock file is created without O_EXCL.
AcquireLockShared(p) ==
    /\ Here(p, "lock") /\ home # NULL
    /\ home' = [home EXCEPT !.lock = TRUE]
    /\ GoWith(p, "admit", [task[p] EXCEPT !.locked = home.body.born])
    /\ UNCHANGED <<tombs, bridges, archives, births, late, budget>>

(* The lock is created exclusively; without a namespace there is none, and  *)
(* nothing to do but to initialize.                                         *)
AcquireLock(p) ==
    /\ Here(p, "lock")
    /\ \/ /\ home = NULL
          /\ IF task[p].op = "init" THEN Go(p, "boot") /\ UNCHANGED task ELSE End(p)
          /\ UNCHANGED home
       \/ /\ home # NULL /\ ~home.lock
          /\ home' = [home EXCEPT !.lock = TRUE]
          /\ GoWith(p, "admit", [task[p] EXCEPT !.locked = home.body.born])
    /\ UNCHANGED <<tombs, bridges, archives, births, late, budget>>

\* Mutants: a pending purge, or a live transaction, does not stop a command.
AdmittedOverPurge(p) == home.pointer = NULL
AdmittedOverTransaction(p) == task[p].op = "abort" \/ home.marker = NULL
Admitted(p) == /\ home.pointer = NULL
               /\ task[p].op = "abort" \/ home.marker = NULL

Admit(p) ==
    /\ Here(p, "admit") /\ home # NULL
    /\ \/ /\ Admitted(p)
          /\ Go(p, IF task[p].stage = "purge" THEN "mark" ELSE "perform")
          /\ UNCHANGED <<home, task>>
       \/ /\ ~Admitted(p)
          /\ home' = [home EXCEPT !.lock = FALSE]
          /\ End(p)
    /\ UNCHANGED <<tombs, bridges, archives, births, late, budget>>

(* verifyInputs and verifyBeforeState.  A plan is bound to the files it     *)
(* changes or names, not to the namespace: the manifests of two fresh       *)
(* namespaces are the same bytes.                                           *)
Transacts(p) == task[p].op = "purge" => task[p].from.adapters # {}
SameClaim(b, f) == b.born = f.born /\ b.claim = f.claim
Bound(p) ==
    LET b == home.body  t == task[p] IN
    \/ t.op = "claim" /\ SameClaim(b, t.from)
    \/ t.op = "adapter" /\ b.adapters = t.from.adapters
    \/ t.op = "purge" /\ SameClaim(b, t.from) /\ (Transacts(p) => b.adapters = t.from.adapters)
    \/ t.op = "abort" /\ home.marker = t.marker

(* The namespace a plan makes of this one. *)
Outcome(p) ==
    LET b == home.body  t == task[p] IN
    IF t.op = "claim" THEN [b EXCEPT !.claim = t.to.claim]
    ELSE IF t.op = "abort" \/ t.from.adapters = t.to.adapters THEN b
    ELSE [b EXCEPT !.adapters = t.to.adapters]

(* The transaction of a plan, or its recovery, leaves the bridges of one of  *)
(* the two namespaces it stands between.                                     *)
Rebridge(two, one) == bridges' = (bridges \ UNION {b.adapters : b \in two}) \cup one.adapters

Perform(p) ==
    /\ Here(p, "perform") /\ home # NULL
    /\ \/ /\ Bound(p)
          /\ home' = [home EXCEPT !.body = Outcome(p),
                                  !.marker = IF task[p].op = "abort" THEN NULL ELSE @]
          /\ Rebridge({home.body}, Outcome(p))
          /\ GoWith(p, "release", [task[p] EXCEPT !.done = TRUE])
       \/ /\ ~Bound(p)
          /\ Go(p, "release")
          /\ UNCHANGED <<home, bridges, task>>
    /\ UNCHANGED <<tombs, archives, births, late, budget>>

(* The transaction stops half-way: the native files may be written, the     *)
(* manifest is not; its pointer stays, and with a crash the lock.           *)
InterruptPerform(p) ==
    /\ Here(p, "perform") /\ home # NULL /\ Bound(p) /\ Transacts(p)
    /\ Spend
    /\ home' = [home EXCEPT !.pointer = Outcome(p)]
    /\ bridges' = bridges \/ Rebridge({home.body}, Outcome(p))
    /\ Go(p, "release") \/ Go(p, "idle")
    /\ task' = [task EXCEPT ![p] = IF pc'[p] = "idle" THEN NoTask ELSE @]
    /\ UNCHANGED <<tombs, archives, births, late>>

(* The approved recovery of an interrupted transaction, exclusive and under *)
(* the lock: rollback, or continuation - which for an abort removes         *)
(* PURGE.json after all.                                                    *)
Resolve ==
    /\ home # NULL /\ home.pointer # NULL /\ ~home.lock
    /\ \A p \in Procs : ~Here(p, "booting")
    /\ \E body \in {home.body, home.pointer}, marker \in {home.marker, NULL} :
          /\ home' = [home EXCEPT !.body = body, !.pointer = NULL, !.marker = marker]
          /\ Rebridge({home.body, home.pointer}, body)
    /\ UNCHANGED <<tombs, archives, births, pc, task, late, budget>>

(* The deferred unlock removes TRANSACTION.lock by its path: of whatever    *)
(* namespace stands there by now.  A command that finds no namespace any    *)
(* more returns with an error.                                              *)
Release(p) ==
    /\ Here(p, "release") \/ (pc[p] \in Locked /\ home = NULL)
    /\ home' = IF home = NULL THEN NULL ELSE [home EXCEPT !.lock = FALSE]
    /\ IF task[p].op = "purge" /\ task[p].stage = "apply" /\ task[p].done
       THEN GoWith(p, "verify", [task[p] EXCEPT !.stage = "purge", !.locked = NULL])
       ELSE End(p)
    /\ UNCHANGED <<tombs, bridges, archives, births, late, budget>>

-----------------------------------------------------------------------------
(* Initialization: a staged directory is renamed to `.uawp`, unlocked, with *)
(* its transaction live; rename refuses a target that is not empty.         *)

BootRename(p) ==
    /\ Here(p, "boot")
    /\ ReinitWaits => \A q \in Procs :
          ~(Here(q, "sweep") \/ Here(q, "release")) \/ task[q].op # "purge"
    /\ births < MaxBirths
    /\ \/ /\ home = NULL
          /\ births' = births + 1
          /\ home' = [body |-> Fresh(births + 1), pointer |-> Fresh(births + 1),
                      marker |-> NULL, lock |-> FALSE]
          /\ Go(p, "booting") /\ UNCHANGED task
       \/ home # NULL /\ End(p) /\ UNCHANGED <<home, births>>
    /\ UNCHANGED <<tombs, bridges, archives, late, budget>>

FinishBoot(p) ==
    /\ Here(p, "booting")
    /\ home' = IF home = NULL THEN NULL ELSE [home EXCEPT !.pointer = NULL]
    /\ End(p)
    /\ UNCHANGED <<tombs, bridges, archives, births, late, budget>>

-----------------------------------------------------------------------------
(* Purge, after its detach. *)

VerifyDetached(p) ==
    /\ Here(p, "verify")
    /\ IF home # NULL /\ home.body.adapters = {}
       THEN Go(p, "lock") /\ UNCHANGED task
       ELSE End(p)
    /\ UNCHANGED <<Storage, late, budget>>

(* Snapshot, verifyReleasedInput and the exclusive creation of PURGE.json,  *)
(* which another command can see before it is written.                      *)
CreateMarker(p) ==
    /\ Here(p, "mark") /\ home # NULL
    /\ \/ /\ SameClaim(home.body, task[p].from) /\ Released(home.body) /\ home.marker = NULL
          /\ home' = [home EXCEPT !.marker = TORN]
          /\ GoWith(p, "fill", [task[p] EXCEPT !.snapshot = home.body])
       \/ /\ ~(SameClaim(home.body, task[p].from) /\ Released(home.body) /\ home.marker = NULL)
          /\ Go(p, "release") /\ UNCHANGED <<home, task>>
    /\ UNCHANGED <<tombs, bridges, archives, births, late, budget>>

WriteMarker(p, position, next, archive) ==
    /\ Here(p, position) /\ home # NULL
    /\ home' = [home EXCEPT !.marker = [export |-> task[p].export,
                                        body |-> task[p].snapshot, archive |-> archive]]
    /\ Go(p, next)
    /\ UNCHANGED <<tombs, bridges, archives, births, task, late, budget>>

FillMarker(p) == WriteMarker(p, "fill", "export", NULL)
RecordArchive(p) == WriteMarker(p, "record", "recheck", task[p].snapshot)

\* Mutant: the hash of the archive is not recorded.
ExportUnrecorded(p) ==
    /\ Here(p, "export") /\ home # NULL
    /\ IF home.body = task[p].snapshot /\ archives[task[p].export] = NULL
       THEN /\ archives' = [archives EXCEPT ![task[p].export] = task[p].snapshot]
            /\ Go(p, "recheck")
       ELSE Go(p, "release") /\ UNCHANGED archives
    /\ UNCHANGED <<home, tombs, bridges, births, task, late, budget>>

(* CreateVerifiedExport: a link, which does not overwrite, of a verified    *)
(* archive of the snapshot, which still is the namespace.                   *)
Export(p) ==
    /\ Here(p, "export") /\ home # NULL
    /\ IF home.body = task[p].snapshot /\ archives[task[p].export] = NULL
       THEN /\ archives' = [archives EXCEPT ![task[p].export] = task[p].snapshot]
            /\ Go(p, "record")
       ELSE Go(p, "release") /\ UNCHANGED archives
    /\ UNCHANGED <<home, tombs, bridges, births, task, late, budget>>

\* Mutant: the namespace is not compared again after the export.
RecheckNothing(p) ==
    /\ Here(p, "recheck") /\ home # NULL
    /\ Go(p, "rename")
    /\ late' = IF archives[task[p].export] = task[p].snapshot THEN late \ {p} ELSE late
    /\ UNCHANGED <<Storage, task, budget>>

(* It looks at the namespace again, not at the archive. *)
Recheck(p) ==
    /\ Here(p, "recheck") /\ home # NULL
    /\ Go(p, IF home.body = task[p].snapshot THEN "rename" ELSE "release")
    /\ late' = IF archives[task[p].export] = task[p].snapshot THEN late \ {p} ELSE late
    /\ UNCHANGED <<Storage, task, budget>>

(* The commit: the namespace moves away with its lock and its marker. *)
RenameAway(p) ==
    /\ Here(p, "rename") /\ home # NULL
    /\ tombs[home.body.born] = NULL
    /\ tombs' = [tombs EXCEPT ![home.body.born] =
                    [body |-> home.body, marker |-> home.marker, left |-> Parts]]
    /\ home' = NULL
    /\ GoWith(p, "sweep", [task[p] EXCEPT !.locked = home.body.born])
    /\ UNCHANGED <<bridges, archives, births, late, budget>>

(* RemoveAll removes entry by entry, in no order the code chooses. *)
Swept(p) == IF task[p].op = "purge" THEN task[p].locked
            ELSE task[p].marker.body.born
Without(tomb, part) == IF tomb = NULL \/ tomb.left = {part} THEN NULL
                       ELSE [tomb EXCEPT !.left = @ \ {part}]
Sweep(p, part) ==
    LET n == Swept(p) IN
    /\ Here(p, "sweep")
    /\ tombs[n] # NULL => part \in tombs[n].left
    /\ tombs' = [tombs EXCEPT ![n] = Without(tombs[n], part)]
    /\ IF tombs'[n] # NULL THEN UNCHANGED <<pc, task>>
       ELSE IF task[p].op = "purge" THEN Go(p, "release") /\ UNCHANGED task
       ELSE End(p)
    /\ UNCHANGED <<home, bridges, archives, births, late, budget>>

ApplyPurgeCleanup(p) ==
    /\ Here(p, "cleanup")
    /\ IF \E n \in Births : /\ tombs[n] # NULL /\ CleanupOffered(n)
                            /\ tombs[n].marker = task[p].marker
       THEN Go(p, "sweep") /\ UNCHANGED task
       ELSE End(p)
    /\ late' = late \ {p}
    /\ UNCHANGED <<Storage, budget>>

-----------------------------------------------------------------------------
(* Faults and the world outside. *)

PartlySwept(n) == tombs[n] # NULL /\ tombs[n].left # Parts
MayFault(p) == /\ Here(p, "fill") => TornFaults
               /\ Here(p, "sweep") /\ PartlySwept(Swept(p)) => SweepFaults

(* A system call of a purge fails: it returns through its deferred unlock. *)
Fail(p) ==
    /\ pc[p] \in {"mark", "fill", "export", "record", "recheck", "rename", "sweep"}
    /\ MayFault(p) /\ Spend
    /\ IF task[p].op = "cleanup" THEN End(p) ELSE Go(p, "release") /\ UNCHANGED task
    /\ UNCHANGED <<Storage, late>>

Crash(p) ==
    /\ pc[p] \notin {"idle", "perform"}
    /\ MayFault(p) /\ Spend
    /\ End(p)
    /\ UNCHANGED <<Storage, late>>

(* The user says no, or Apply finds the lock taken. *)
Abandon(p) ==
    /\ pc[p] \in {"lock", "cleanup"}
    /\ End(p)
    /\ UNCHANGED <<Storage, late, budget>>

Holds(p) == /\ home # NULL
            /\ task[p].locked = home.body.born
            /\ pc[p] \in Locked \cup {"release"}

ClearStaleLock ==
    /\ home # NULL /\ home.lock
    /\ \A p \in Procs : ~Holds(p)
    /\ home' = [home EXCEPT !.lock = FALSE]
    /\ UNCHANGED <<tombs, bridges, archives, births, pc, task, late, budget>>

(* Another program edits a file of the namespace, or removes an archive. *)
Edit ==
    /\ home # NULL /\ Spend
    /\ \E c \in Claims \ {home.body.claim} : home' = [home EXCEPT !.body.claim = c]
    /\ late' = {p \in Procs : pc[p] # "idle"}
    /\ UNCHANGED <<tombs, bridges, archives, births, pc, task>>

LoseArchive(e) ==
    /\ archives[e] # NULL /\ Spend
    /\ archives' = [archives EXCEPT ![e] = NULL]
    /\ late' = {p \in Procs : pc[p] # "idle"}
    /\ UNCHANGED <<home, tombs, bridges, births, pc, task>>

-----------------------------------------------------------------------------
Init ==
    /\ \E adapters \in SUBSET Providers :
          /\ home = [body |-> [Fresh(1) EXCEPT !.adapters = adapters],
                     pointer |-> NULL, marker |-> NULL, lock |-> FALSE]
          /\ bridges = adapters
    /\ tombs = [n \in Births |-> NULL]
    /\ archives = [e \in Exports |-> NULL]
    /\ births = 1
    /\ pc = [p \in Procs |-> "idle"] /\ task = [p \in Procs |-> NoTask]
    /\ late = {} /\ budget = Faults

Plan(p) == \/ PlanClaim(p) \/ PlanInit(p) \/ PlanPurgeAbort(p) \/ PlanPurgeCleanup(p)
           \/ \E a \in Providers : PlanAdapter(p, a)
           \/ \E e \in Exports : PlanPurge(p, e)
Run(p) == \/ AcquireLock(p) \/ Admit(p) \/ Perform(p) \/ Release(p)
          \/ BootRename(p) \/ FinishBoot(p)
          \/ VerifyDetached(p) \/ CreateMarker(p) \/ FillMarker(p) \/ Export(p)
          \/ RecordArchive(p) \/ Recheck(p) \/ RenameAway(p) \/ ApplyPurgeCleanup(p)
          \/ \E part \in Parts : Sweep(p, part)
Disturb(p) == InterruptPerform(p) \/ Fail(p) \/ Crash(p) \/ Abandon(p)
Outside == Resolve \/ ClearStaleLock \/ Edit \/ \E e \in Exports : LoseArchive(e)

Next == Outside \/ \E p \in Procs : Plan(p) \/ Run(p) \/ Disturb(p)
Spec == Init /\ [][Next]_vars

-----------------------------------------------------------------------------
TypeOK ==
    /\ home \in Home \cup {NULL}
    /\ tombs \in [Births -> Tomb \cup {NULL}]
    /\ bridges \subseteq Providers
    /\ archives \in [Exports -> Body \cup {NULL}]
    /\ births \in Births
    /\ pc \in [Procs -> Positions]
    /\ task \in [Procs -> Task]
    /\ late \subseteq Procs
    /\ budget \in 0..Faults

(* Two commands never work under the lock of one namespace, and the lock    *)
(* file stands as long as one does: transaction.lock is what Apply, purge   *)
(* and abort exclude each other with (apply.go acquireTransactionLock).     *)
(* With ReinitWaits only: a purge that returns removes the lock file of the *)
(* namespace that stands by then (purge.go:82).                             *)
LockExclusion ==
    \A p \in Procs : Holds(p) =>
        /\ home.lock
        /\ \A q \in Procs : Holds(q) => q = p

(* A namespace is moved away, and a tombstone is opened for removal, only   *)
(* when a verified archive of exactly that content exists - unless another  *)
(* program changed one of them after the last look the command takes at it. *)
ExportedBeforeRemoved ==
    [][\A p \in Procs \ late :
         /\ Here(p, "rename") /\ Here(p, "sweep")'
               => \E e \in Exports : archives[e] = home.body
         /\ LET n == Swept(p) IN
            Here(p, "sweep") /\ tombs[n] # NULL /\ tombs[n].left = Parts /\ tombs'[n] # tombs[n]
               => \E e \in Exports : archives[e] = tombs[n].body]_vars

(* From the moment PURGE.json exists until the purge is aborted or the      *)
(* namespace is gone, no other command changes the adapters, whenever it    *)
(* was planned (apply.go:158).                                              *)
PendingPurgeBlocks ==
    [][home # NULL /\ home.marker # NULL /\ home' # NULL /\ home'.marker # NULL
         => home'.body.adapters = home.body.adapters /\ bridges' = bridges]_vars

(* A bridge in a native file loses the manifest that registers it only by   *)
(* the removal of a namespace whose archive records it: what is left behind *)
(* after an adapter was added between the two locks of a purge can be told  *)
(* from the export, and no interrupted transaction is purged over.          *)
Strays == bridges \ (IF home = NULL THEN {} ELSE
                      home.body.adapters \cup
                      (IF home.pointer = NULL THEN {} ELSE home.pointer.adapters))
StraysAreArchived ==
    [][\A a \in Strays' \ Strays :
          home # NULL /\ home' = NULL /\ a \in home.body.adapters]_vars

(* What an interrupted purge leaves can be recovered.  A pending purge that *)
(* no command owns has a readable PURGE.json, which an abort asks for; a    *)
(* tombstone nobody removes is the only one, whole, and is offered for      *)
(* cleanup, unless another program changed what is compared.                *)
Untouched(n) == LET m == tombs[n].marker IN
    IsMarker(m) => /\ archives[m.export] = m.body
                   /\ tombs[n].body.claim = m.body.claim
InterruptedPurgesRecover ==
    /\ home # NULL /\ home.marker # NULL /\ (\A p \in Procs : ~Holds(p))
          => IsMarker(home.marker)
    /\ \A n \in Standing :
          (\A p \in Procs : Here(p, "sweep") => Swept(p) # n) /\ Untouched(n)
              => CleanupOffered(n)
=============================================================================

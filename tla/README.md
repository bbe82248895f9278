# UAWP in TLA+

UAWP keeps the shared state of a project that several AI workers and people
work on in a directory `.uawp/` of that project. Its CLI has no server and no
daemon: every command is a short-lived process, and all that two commands share
is files. Each mutation is planned, shown, approved by the hash of the plan, and
then applied as a durable transaction that a later command can roll back or
continue. This directory models that protocol, the ownership lifecycle, the
adapters and the maintenance commands on top of it, and the life and end of the
namespace below it; checks them with TLC on small instances; and proves the
core of them with TLAPS.

## The system

| Part | State | Operations | What could go wrong |
|---|---|---|---|
| Durable transactions (`internal/workspace/apply.go`, `transaction_apply.go`) | the project's files, `.uawp/TRANSACTION.lock`, `.uawp/RECOVERY.json` (pointer), `.uawp/recovery/<id>/` (plan, journal, backups, receipt), migration receipts | `Apply` | crashes and failures at every system call, concurrent commands, edits by other programs |
| Recovery (`transaction_recovery.go`, `internal/transaction`) | the same files | `TransactionStatus`, `PlanTransactionRollbackAt`, `PlanTransactionContinueAt`, `ApplyTransactionRecovery` | evidence read before the lock, approvals that outlive it, half-finished recoveries |
| Plans (`internal/plan`) | immutable values: ordered changes with before and after hashes, bound inputs, metadata | constructors, canonical ID, persist and restore | an approval that covers less than what the plan depends on |
| Ownership (`internal/core`) | `.uawp/ACTIVE_WORKER.md`: status, worker, session, generation | acquire, release, stale recovery | two active sessions, an old session acting after it lost the claim, generation overflow |
| Lifecycle planners (`lifecycle.go`, `context.go`, `checkpoint.go`, `handoff.go`, `recover.go`) | `CONTEXT.md`, `DECISIONS.md`, `checkpoints/` | acquire, release, resume, context sync, checkpoint, handoff, stale recovery | a plan made under a claim that changed hands, order of context and release |
| Identity registry (`internal/identity`, `internal/cli`) | profiles, default, session binding per workspace, in the user's config directory | load, save, guided resume, binding upsert and removal | lost update, crash between the claim and its binding |
| Initialization (`init.go`, `transaction_apply.go`) | a staged `.uawp-bootstrap-<id>` renamed to `.uawp` | init | it holds no lock |
| Adapters (`adapters.go`, `internal/adapter`) | native instruction files with managed blocks and imports, the manifest's list of artifacts and consumers | add, move, remove, diagnose | an artifact shared by providers removed while another needs it; users edit the same files |
| Upgrade and repair (`upgrade.go`, `repair.go`, `internal/migration`) | state version, directories, format of the claim, migration receipt | path resolution, upgrade, repair | a version that promises more than is there, an upgrade overtaken by an edit |
| Uninstall (`uninstall.go`) | native files, manifest | detach every adapter | user content deleted, a bridge left behind |
| Export and purge (`purge.go`, `export.go`) | `PURGE.json`, the exported archive, the tombstone `.uawp-purge-*` | purge, abort, cleanup | interference between two locked sections, crashes around the commit rename |
| Status (`status.go`) | none | status, doctor | gates the planners, without a lock |
| Everything else (boundary checks, manifest codec, terminal, release tools, prompts) | none | | left out, see below and `PROJECT.json` |

Interaction is by files only. A command reads the files to plan, prints the
plan, and ends; the approving command plans again, compares the hash, and only
then calls `Apply` (in interactive use both happen in one process with the
confirmation in between). `Apply` takes the lock file, verifies bound inputs and
before states, stages a recovery bundle, creates the pointer, publishes action
by action under a journal, verifies, writes the receipt, removes the pointer and
removes the lock. An interrupted command leaves the pointer, which makes every
later `Apply` refuse; `transaction rollback` and `transaction continue` are the
only ways on.

## The models

| Module | What it is |
|---|---|
| `TransactionEvidence` | Pure part: what each kind of change expects and leaves, its inverse, classification of live evidence, what a recovery still has to perform |
| `Transaction` | The protocol: `Apply` and recovery as processes over the shared files, with failures, crashes, edits and operators |
| `AtomicWorkspace` | Abstract specification: a workspace that changes by whole approved plans |
| `TransactionRefinement` | The mapping from `Transaction` to `AtomicWorkspace` |
| `TransactionProofs` | Types and lock exclusion; no transaction is lost, nothing is published without its pointer, proved |
| `TransactionEditsProofs` | Only late edits are lost, offered recoveries can be executed, proved |
| `TransactionAtomicityProofs` | Truthful receipts, harmless torn records, the refinement of `AtomicWorkspace` and recoverability, proved |
| `Ownership` | Pure part: claims, their validation, who owns one, acquisition and release |
| `Lifecycle` | The commands of the lifecycle on the files of `.uawp/`, as concurrent invocations over atomic transactions that readers can look into |
| `ClaimedNotebook` | Abstract specification: one notebook, written in whole operations under a claim that passes on |
| `LifecycleRefinement` | The mapping from `Lifecycle` to `ClaimedNotebook` |
| `LifecycleProofs` | Fencing, succession of claims, truthful checkpoints and the refinement; types, and what the notebook of `ClaimedNotebook` keeps true of claims and audits, proved |
| `Identity` | The identity registry of a machine and the commands that use it |
| `IdentityProofs` | Every version of the registry loads, every binding was granted, commands alone keep claims bound, proved |
| `NativeEntries` | Pure part: managed blocks and imports in a native file |
| `Adapters` | Which file each provider reads, the artifacts of the manifest, addition, move and removal, between the user's edits |
| `AdaptersProofs` | What the operators on native files do, and that each command and edit keeps files and manifest in agreement, proved |
| `Migration` | Pure part: the registry of migration steps and the path it finds |
| `Maintenance` | `Adapters` together with uninstall, repair and upgrade, the last and its recovery step by step |
| `MaintenanceProofs` | Every property of `Maintenance`, proved |
| `Purge` | The life of a namespace: initialization, purge, abort and cleanup call by call, between the commands that lock |
| `PurgeProofs` | Exclusion, archived removals, blocking and recoverability of purges, proved |
| `MCTransaction`, `MCLifecycle`, `MCIdentity`, `MCMaintenance`, `MCPurge` | Instances for TLC |

`Lifecycle` builds on what `Transaction` shows, not on its steps: one transaction
is live at a time (`LockExclusion`, `NoLostTransaction`), it starts on the files
it is bound to and ends in all of it or none (`ImplementsAtomicWorkspace`), and
files change only while its pointer is there (`MutatesUnderPointer`). So it also
inherits what those results assume: recoveries are exclusive, and no other
program edits the files of `.uawp/`. `Identity`
in turn takes a lifecycle operation as one step, which is what
`ImplementsClaimedNotebook` justifies. `Adapters` takes a command as one step,
because its plan is bound to every file it reads and is applied as a
transaction; an upgrade, whose changes users may overtake, and the recovery of an
interrupted one, are several. `Maintenance` classifies what an interrupted upgrade leaves with the
operators of `TransactionEvidence`, and resolves its plan with those of
`Migration`. `Purge` takes a transaction as one step that may also stop half-way
and be resolved later.

### Transaction

`disk` maps each project path to a content (`MISSING`, `DIRECTORY` or the
content of a file; hashes are taken to be collision free, so a fingerprint is
the content). `lock`, `pointer`, `bundle` and `migrationReceipt` are the files
under `.uawp/`. `pc` and `task` are what a running command has in its program
counter and memory; a slot of `Procs` is reused by any number of commands.
`lateEdits` and `budget` belong to no file: the first remembers which paths other
programs changed since the last verification under the lock, the second bounds
edits, failures and crashes.

A step is one system call that another command could observe, or a run of reads
that nothing between them can tell apart:

| Steps | Code |
|---|---|
| `Propose` | a planner plus the approval of exactly the plan shown |
| `AcquireLock`, `AdmitMutation` | `acquireTransactionLock`: exclusive create, then the check for the pointer, with its early return |
| `VerifyPlan` | `verifyInputs`, `verifyBeforeState`, the early return of an empty plan |
| `StageBundle` | `prepareDurableTransaction` up to the journal: a directory nothing refers to yet |
| `CreatePointer`, `WritePointer` | `writeExclusiveSynced(RECOVERY.json)`: two system calls, a crash may fall between them |
| `BeginAction`, `PerformCreate`, `CheckUpdate`, `RenameUpdate`, `PerformDelete`, `MarkApplied`, `VerifyAction` | one turn of the loop of `Apply`: inputs again, journal, publication (an update re-reads and then renames), journal, verification, journal |
| `FinishActions`, `WriteMigrationReceipt`, `CreateReceipt`, `WriteReceipt`, `ClearPointer`, `Unlock` | final verification, `complete`, and the deferred unlock |
| `PlanRecovery`, `Replan`, `LoadEvidence`, `LockRecovery`, `VerifyRecovery` | preview of a recovery, the approving command's second planning, `ApplyTransactionRecovery` up to its loop; the loop itself shares the publication steps and keeps no journal, as in the code |
| `Fail` | a system call of the lock's holder fails; the bundle is removed until the pointer is durable, afterwards nothing is |
| `Crash` | the process dies, no deferred function runs |
| `Edit`, `ClearStaleLock` | another program, and the operator who deletes a dead process's lock (neither is UAWP code) |

Constants: `Operations` are the plans users may ask for, `ExclusiveRecovery`
says that an operator approves a recovery only when no other command is past its
own approval, and starts no other until the recovery holds the lock, `OperatorClearsLock` enables
`ClearStaleLock`, `TornFaults` lets failures and crashes hit between creating
and writing a record. `ExclusiveRecovery` is an assumption about operators that
the code does not enforce; `v_concurrent_recovery` shows what happens without it.

Abstractions: the workspace is initialised (bootstrap and `PURGE.json` are in
`Purge`); there are no symlinks or special files, which the code
refuses everywhere; file modes are reduced to the question whether the target
has the mode 0600 of its backup (`Private`); a plan has distinct paths, as
`Journal.Validate` requires; one migration receipt file exists and is written in
one step. In `Classify` of the code rollback and continuation are safe under the
same condition, so its results `ROLLBACK_AVAILABLE` and `CONTINUE_AVAILABLE` do
not occur and are not in the model.

### Lifecycle

`files` maps the claim (`ACTIVE_WORKER.md`), the context, the decisions and every
checkpoint to its content. `live` is the transaction that `RECOVERY.json` names,
with how many of its changes are published. `pc` and `task` belong to the
invocations. A plan has the hashes it is bound to, as contents, and its changes
in the order of their sequence numbers.

| Steps | Code |
|---|---|
| `Start` | the gate `Status` at the beginning of each planner (`status.go`) |
| `ReadClaim`, `PlanSync`, `PlanCheckpoint`, `PlanHandoff`, `PlanStaleRecovery` | the planners, which read the claim first and the other file later (`context.go`, `checkpoint.go`, `handoff.go`, `recover.go`) |
| `PlanAcquire`, `PlanRelease` | `planOwnershipTransition`, which reads the claim only (`lifecycle.go`) |
| `Draft` | what becomes of a plan: a preview, an application because its token was given, or drift (`cli/lifecycle.go:538-572`) |
| `Confirm`, `Rerun`, `Abandon` | the prompt, the second run with `--approve`, every early return |
| `Apply` | `Apply` up to the pointer: lock, verification of inputs and before states; an empty plan ends here |
| `Publish`, `Interrupt`, `Recover`, `Unpublish`, `Settle` | one change published, a crash or failure half-way, the approved recovery, one change undone, receipt and removal of the pointer |

Abstractions: names are valid; times and the purpose of a claim are left out, so
two claims that differ in nothing else are equal here and a plan bound to one
applies to the other, which only allows more; contents are members of small
sets. A checkpoint is its context and its author; two milestones of one name and
second are one file, as in the code.

### Identity

`registry` is `identity.json`; `task[t].loaded` is the copy a command loaded and
will save whole. A profile is its worker ID. IDs that the program draws are new
(`issued`), IDs that a caller names (`ExplicitAcquire`) are any. `guided` remembers the claims that
guided resumes acquired. `alone`, chosen at the start, tells machines on which
commands run one at a time from those on which they overlap.

| Steps | Code |
|---|---|
| `Load` | `loadIdentityRegistry` |
| `CreateIdentity`, `UseIdentity`, `RemoveIdentity` | `runIdentity`; the first also the beginning of a guided resume without profiles |
| `PlanResume`, `PlanHandoff` | `runGuidedResume` and `runLifecycleMutationWithRuntime` (handoff and release) up to the prompt |
| `Apply`, `Save` | the applied plan and the save of the registry that follows it |
| `Abandon`, `Crash` | refusals and answers that are no; a command that dies, or whose save fails, after its plan was applied |
| `ExplicitAcquire`, `ExplicitRelease` | what changes claims and saves no registry: automation, stale recovery, `acquire` at a terminal |

### Purge

`home` is the namespace: its body (everything `SnapshotNamespace` fingerprints,
reduced to the initialization it stems from, the content of the claim and the
registered adapters), the pointer of a live transaction, `PURGE.json` and the
lock. `tombs` are the tombstones, `bridges` the adapters whose block or import
stands in a native file, `archives` what has been exported where. `pc` and `task`
belong to the commands; `late` remembers which commands' last look an outside
change followed, as `lateEdits` does in `Transaction`.

| Steps | Code |
|---|---|
| `PlanClaim`, `PlanAdapter`, `PlanInit`, `PlanPurge`, `PlanPurgeAbort`, `PlanPurgeCleanup` | the planners with their gates: any lifecycle command, any adapter command, init, purge, and what `rollback` and `continue` become when there is a purge and no transaction |
| `AcquireLock`, `Admit`, `Perform`, `InterruptPerform`, `Release`, `Resolve` | `acquireTransactionLock` with its checks for a pointer and for `PURGE.json`, the transaction, its interruption and recovery, the deferred unlock by path |
| `BootRename`, `FinishBoot` | the rename of a staged namespace and the end of its live transaction |
| `VerifyDetached`, `CreateMarker`, `FillMarker`, `Export`, `RecordArchive`, `Recheck`, `RenameAway`, `Sweep` | `ApplyPurge` after its detach: second lock, snapshot, exclusive creation and writing of `PURGE.json`, verified archive linked without overwriting, archive hash recorded, second snapshot, commit rename, `RemoveAll` entry by entry |
| `ApplyPurgeCleanup` | the cleanup of a tombstone, on evidence compared again |
| `Fail`, `Crash`, `Abandon` | failing system calls, dying processes, early returns |
| `Edit`, `LoseArchive`, `ClearStaleLock` | other programs and the operator |

Constants: `TornFaults` and `SweepFaults` let faults hit between creating and
writing `PURGE.json`, and into the removal of a tombstone. `ReinitWaits` says
that nobody initializes anew while the command that purged is still returning;
the code does not enforce it (see the disagreements below).

### Adapters and Maintenance

`files` are the four native files at the root of the project as sequences of
tokens: line breaks, the user's lines, managed blocks and imports. `integrations`
is the manifest's list of artifacts, by path. `original` and `edits` only serve
the properties. `version`, `codec`, `dirs` and `instructions` are what an upgrade
and a repair change in the namespace, `live` is the upgrade that `RECOVERY.json`
names, with the change it is at and whether the journal announces it already, and
`recovery` is what is planned to undo or finish an interrupted one, with the
changes that are left of it. `late` is history: the native files that users edited
since they were last looked at for what is about to be published.

| Steps | Code |
|---|---|
| `AdapterAdd`, `AdapterRemove` | `PlanAdapterAdd` and `PlanAdapterRemove`, applied: the resolved entry, the artifact created, joined, moved or left, its fingerprints and its `createdFile` |
| `RouteOf`, `Candidates`, `EffectiveFacts`, `Healthy` | the resolvers of the three built-in providers, and the diagnosis of a registered adapter |
| `UpsertManagedBlock`, `RemoveManagedBlock`, `Outside` | `internal/adapter/block.go`; `Outside` is what its fingerprint `OutsideSHA256` is taken of |
| `UpsertImport`, `RemoveImport` | `internal/adapter/import.go` |
| `Uninstall` | `PlanUninstall`: every bridge in one plan |
| `Repair` | `PlanRepair`: generated files, and native files that can be put back exactly |
| `StartUpgrade` | `PlanUpgrade` with its bound inputs, approved, up to the pointer |
| `AnnounceChange`, `PublishChange`, `CompleteUpgrade` | one turn of the loop of `Apply`, in two steps: all inputs but the paths already changed are verified and the action is announced in the journal (`apply.go:78-87`); a new file is written next to the old one, which is read once more and replaced (`apply.go:89-121`, `writeUpdate`). Native files are not looked at between the two. At the end the receipts and the removal of the pointer |
| `InterruptUpgrade` | a write fails anywhere, and the command ends where it is |
| `PlanRecovery`, `BeginRecovery` | the evidence is classified, native files included, and a plan made of what is to do (`transaction_recovery.go:34-54`); approved, it takes the lock and verifies only the paths it changes (`:57-78`) |
| `PublishRecovery`, `CompleteRecovery` | one change after another, a rollback from the last and a continuation from the first (`:79-102`), then receipt and pointer (`:103-142`) |
| `AbandonRecovery` | an approval that is not given, or a write that fails between any two changes: the upgrade stays live and can be planned for again |
| `EditNative`, `LoseInstructions` | the user, between any two of these steps |

`MCMaintenance` also asks TLC, as the assumption `RegistryFindsChains`, whether
for every registry of steps between four versions that `NewRegistry` accepts
`Resolve` finds a chain exactly when there is one, and that chain. The versions
include 1.2.0 and 1.10.0, which compare differently as text.

Abstractions: a content is a short sequence of tokens, and users edit whole
lines; a managed block is its artifact and its consumers; claims are RELEASED, as
all these planners demand. One recovery at a time is planned, and only after the
upgrade has ended, which is `ExclusiveRecovery` of `Transaction`; the migration
receipt is in `Transaction` and not a path here. Nobody but UAWP writes the
records of `.uawp/`, so that `PublishChange` and `PublishRecovery`, which refuse
a record that changed since it was verified, always find it as it was; edits of
the files of a plan are in the run `txn_edits`. `Facts` are the values that
`directAgentsSupport` may have; the run takes "" and "true", since "false" leads
to the same routes as the absence of the fact.

### Properties of Lifecycle and Identity

| Property | Says |
|---|---|
| `TypeOK` | shapes; among them that every claim that is written decodes again |
| `OnlyTheHolderWrites` | context and checkpoints change only by a plan of the session whose exact claim, generation included, is ACTIVE at that write; a claim ends only by its session or a stale recovery |
| `ClaimsSucceed` | an ACTIVE claim is only released as it is, and a new one has a greater generation |
| `CheckpointsAreTruthful` | a checkpoint appears with the context and the holder of that moment and never changes |
| `ReleaseIsLast` | who sees a claim released by a live transaction sees the rest of that transaction |
| `AuditsNameEndedClaims` | `DECISIONS.md` does not say of a claim that goes on that it was ended |
| `ImplementsClaimedNotebook` | refinement: whole operations, each on the state the one before it left |
| `RegistryLoads` | the saved registry always passes its own validation |
| `BindingsWereGranted` | a binding, however old, is a claim that a guided resume acquired |
| `ClaimsStayBound` | commands that run one at a time and finish keep the exact binding of every ACTIVE claim that a guided resume acquired |
| `AloneBindingsOutliveClaims` | of commands that run one at a time, none clears the binding of an ACTIVE claim |
| `HandoffClearsAfterRelease` | the same of handoffs, however commands overlap: violated |

### Properties of Purge, Adapters and Maintenance

| Property | Says |
|---|---|
| `LockExclusion` (`Purge`) | two commands never work under the lock of one namespace, if nobody initializes anew before the purge that removed the last one has returned (`ReinitWaits`) |
| `ExportedBeforeRemoved` | a namespace is moved away, and a tombstone opened, only when a verified archive of exactly that content exists |
| `PendingPurgeBlocks` | while `PURGE.json` stays, no command changes the adapters, whenever it was planned |
| `StraysAreArchived` | a bridge loses its registration only by the removal of a namespace whose archive records it |
| `InterruptedPurgesRecover` | what an interrupted purge leaves can be aborted or cleaned up |
| `CommandsKeepBridges` | no command breaks a bridge that it does not remove |
| `OutsideIsKept` | what is the user's in a file with a block (`UserContent`: all but the block and the line break that UAWP put before it) survives every command, but for a file deleted on its fingerprint, and but for the one line break described under "Disagreements" |
| `NoStrayBridges` | a file that is not registered has no bridge left in it, whatever the user did |
| `DetachingRestores` | without edits, any sequence of commands leaves the unregistered files as they were |
| `HealthyCanBeRemoved` | what doctor calls healthy can be removed |
| `RepairHeals` | a repair that writes a file heals every provider that reads it |
| `VersionTellsLayout` | the version of the manifest never promises more than is there, between any two changes of an upgrade and of its recovery, and wherever either is given up |
| `UpgradesOnlyHealthy` | when the version changes, a provider that is not healthy is one whose files a user edited after the last look at them (`late`) |
| `OnlyBareUpgradesStop` | an upgrade stops of itself only when a user overtook it, or when it began without `.uawp/recovery` |
| `UserLinesSurvive`, `ManualOnlyAfterUserChanges` | what the user documentation says: violated |

### Properties of Transaction

| Property | Says |
|---|---|
| `TypeOK` | shapes |
| `LockExclusion` | at most one command between taking and removing the lock file, which exists meanwhile |
| `NoLostTransaction` | an unresolved transaction that announced an action is the one `RECOVERY.json` names |
| `PointerDiscipline` | what every command may rely on about `RECOVERY.json` from its own position (inductive, see below) |
| `TornRecordsAreHarmless` | an undecodable pointer or receipt hides no half-done work |
| `SettlesTruthfully` | the pointer of a transaction goes away only with a receipt that is true of the files |
| `MutatesUnderPointer` | UAWP changes files only while the pointer names the transaction |
| `ImplementsAtomicWorkspace` | refinement: plans open on exactly the state they were approved for and resolve into all of it or none of it |
| `AlwaysRecoverable` | an interruption anywhere is classified as recoverable, unless another program edited the files |
| `OfferedRecoveryIsExecutable` | a recovery that status offers passes its own verification |
| `OnlyLateEditsAreLost` | an edit made before the verification under the lock is never overwritten or deleted |
| `EveryTransactionResolves` | a live transaction is eventually resolved |

### Runs

Of `Transaction`: two process slots, two transactions, paths with two file contents each, and
plans of two changes. Two processes are enough for every pairwise race: the lock
serialises the third. Two changes are the smallest plan with a state that is
neither before nor after, two transactions the smallest number for one to damage
another. Every kind of change a planner produces occurs: update pairs (handoff,
stale recovery), create and update bound to a third file (adapter installation),
delete and update (uninstall), create directory and update with a migration
receipt (upgrade), and the empty plan (context sync of an equal context).

| Run | Instance | Result |
|---|---|---|
| `txn_atomic` | all operations, one failure and one crash anywhere, torn records included | holds, 1.05 million states |
| `txn_edits` | file operations, one foreign edit, one failure | holds, 1.24 million states |
| `txn_live` | a plan that deletes and updates, one failure and one crash, fairness | holds, 0.19 million states |
| `lifecycle` | two invocations, one worker with two sessions, two generations, two contexts, one milestone, one interruption | holds, 0.78 million states |
| `identity` | two terminals, one workspace, two profiles, two session IDs, two generations, one crash | holds, 0.60 million states |
| `purge` | two commands, one provider, one export path, two lives of a namespace, two changes of the claim, two faults | holds, 0.61 million states |
| `maintenance` | Codex and Claude Code, two edits that prepend a line or strip a file of its bridges, an upgrade from each version, one interruption of it or of its recovery | holds, 0.62 million states |
| `v_concurrent_recovery` | two updates, one failure, no `ExclusiveRecovery`: one recovery against one `Apply` | `SettlesTruthfully` violated |
| `v_lost_binding` | two terminals, two workspaces, one profile, nothing fails | `HandoffClearsAfterRelease` violated |
| `v_tombstone` | `purge` with `SweepFaults`, one fault | `InterruptedPurgesRecover` violated |
| `v_adapter_additions` | two providers that share `AGENTS.md`, one edit | `UserLinesSurvive` violated |
| `v_upgrade` | one provider, one interrupted upgrade | `ManualOnlyAfterUserChanges` violated |

In `lifecycle`, two invocations at a time make every race of a plan with another
application; there is one slot for a live transaction, so a third would only
wait. Two generations let the same session, and the other one, take the claim
again after a plan was made under the first: what fencing is about. Two workers
would repeat what two sessions of one worker show, since the code compares both
in the same condition; the proofs are for any number of all of these. In
`identity` two profiles make removal and the default matter; `v_lost_binding`
has two workspaces instead.

In `purge`, two commands make every race of a purge with one other command;
two lives of a namespace let a command that began in the first meet the second;
two faults let one interrupt a purge and the other its recovery. The claim
changes twice, so that it is RELEASED again with another content. In
`maintenance` Codex and Claude Code are the pair that shares `AGENTS.md`, and
Claude Code alone has imports, facts and moves. Two edits let one precede a
command and one follow it, or an upgrade overtake both. One interruption stops an
upgrade, or a recovery of one that stopped of itself, as those from a bare
namespace do. Larger instances were checked once without error: the three
providers with one edit of all five kinds (0.87 million states); two edits that
prepend, delete or strip (0.92 million); two that append or empty (1.02 million);
and two interruptions, so that a continuation is interrupted as well (0.90
million).

`CHECK_DEADLOCK FALSE` in the runs of `Transaction`, `Purge` and `Maintenance`: an
idle system, and one whose bounded transactions, lives or edits are used up, may
stop. The other runs check for deadlock. Symmetry in processes and transactions
is used in the runs without liveness. Bounds are `Budget` (edits, failures,
crashes), `Txns` (an `Apply` starts only while an identifier is unused),
`MaxGeneration`, `MaxInterruptions`, `MaxCrashes`, `MaxBirths`, `MaxClaims`,
`Faults` and `MaxEdits`.

## Disagreements

The five violations are listed in `PROJECT.json` with the sentence that each of
them contradicts. The runs of `Transaction` that pass assume `ExclusiveRecovery`,
private files in every updated path, and no directory among the plans for which
rollback is to be executable; those of `Purge` assume `ReinitWaits` and that no
fault falls into the writing of `PURGE.json` or the removal of a tombstone. Each
of these is needed.

So what these runs show is less than the hazards next to them. With exclusive
recoveries neither evidence that is read before the lock nor the removal of
`RECOVERY.json` by its name can do harm: `NoLostTransaction`, `PointerDiscipline`
and `SettlesTruthfully` hold under that assumption and are about failures and
crashes, and the two hazards themselves are what `v_concurrent_recovery` and its
variant below show. `AlwaysRecoverable` is checked with a failure and without a
crash, torn records, directories or other modes than 0600; crashes between
announcing and verifying an action are in `txn_atomic` and `txn_live`, where
`ImplementsAtomicWorkspace` and `EveryTransactionResolves` depend on what they
leave, and torn receipts in `txn_atomic` (`TornRecordsAreHarmless`). With
`ReinitWaits` no purge returns into a namespace that is not its own, so
`LockExclusion` says nothing of the unlock by path.

In `v_concurrent_recovery` a rollback is planned and approved while an `Apply` is
still running, between the announcement of its first change and the rename: nothing
is done, so there is nothing to undo. The `Apply` then renames, fails before it
journals that, and unlocks. The rollback compares the journal, which is unchanged
(`transaction_recovery.go:61-68`), takes the lock, verifies the paths it changes,
which are none, and leaves a receipt that says rolled back over a workspace that is
half done.

Further disagreements appear by changing one constant of a configuration:

- `v_concurrent_recovery` with two failures violates `NoLostTransaction` too:
  `ApplyTransactionRecovery` removes `RECOVERY.json` by name
  (`transaction_recovery.go:136`), so a recovery that loaded its evidence before
  another one resolved the transaction removes the pointer of a later
  transaction;
- `txn_live` with one crash and `OperatorClearsLock = FALSE` violates
  `EveryTransactionResolves`: nothing in the code removes the lock of a dead
  process;
- `txn_edits` with `Operations <- Migrations` violates
  `OfferedRecoveryIsExecutable`: a rollback that removes a directory is offered
  and refused by its own verification;
- `txn_edits` with `Private <- None` violates `AlwaysRecoverable`: the before
  state of a recovery is the mode of the backup, 0600, not of the file;
- `txn_live` with `Operations <- FileMigrations` violates
  `EveryTransactionResolves`: a migration receipt that was written before the
  interruption is there when the continuation writes it again;
- `txn_edits` with `TornFaults = TRUE` violates `AlwaysRecoverable`: if
  `RECOVERY.json` is created but cannot be synced, its bundle is removed and the
  pointer stays (`transaction_apply.go:147`); and a crash between creating and
  writing `receipt.json` (`transaction_apply.go:209`) leaves evidence that does
  not decode;
- `purge` with `TornFaults = TRUE` violates `InterruptedPurgesRecover`: a
  `PURGE.json` that was created and not written (`purge.go:95`) blocks every
  command and no abort accepts it;
- `purge` with `ReinitWaits = FALSE` violates `LockExclusion`: the purge removes
  `TRANSACTION.lock` by its path when it returns (`purge.go:82`), which by then
  may be the lock of a command in a namespace that was initialized anew.

Others can be read off the models, and the properties are stated so that they
allow them:

- between its two locks a purge lets an adapter be added; the namespace is
  removed and the bridge stays, with the archive as its only record
  (`purge.go:74`, `StraysAreArchived`). An abort does not put detached
  integrations back, which the design document asks for;
- an existing empty native file counts as created by UAWP and is deleted with
  the last consumer (`codex.go:59`, `adapters.go:131`; `DetachingRestores`);
- a block is removed with whatever byte precedes it (`block.go:79-84`). UAWP puts
  a line break before a block only if the file had a content; where it had none
  and the user later put a line before the block, the line break between the two
  is the user's, and is lost when the block goes or is written anew, although
  "user content outside a UAWP-owned block is byte-preserved"
  (`docs/user/adapters.md:56-57`). `OutsideIsKept` states the sentence with
  exactly this exception, and without it TLC finds the loss within a few steps:
  an addition that creates `AGENTS.md`, a line prepended, a removal;
- `RemoveImport` takes the line break before the line and the one after it, so
  that two neighbouring lines of the user become one (`import.go:44-55`);
- the first of two imports, so removed, joins the second one to the user's
  line: it is then no import any more and stays as text, and an uninstall
  refuses because an owned import is missing (`adapters.go:380`,
  `uninstall.go:95`);
- if the user deletes a `CLAUDE.md` that UAWP created, the plan of the removal
  deletes a file that is not there and is never applied (`adapters.go:406`,
  `Detachable`);
- an adapter whose entry moved from `AGENTS.md` to `AGENTS.override.md` cannot
  move while another provider stays, since both artifacts have one ID
  (`manifest.go:136`, `Encodes`); and an addition without facts ignores the
  persisted ones (`adapters.go:70`, `adapters.go:79`);
- an upgrade from 1.0.0 in a namespace without `.uawp/recovery` always stops at
  its first change and needs `transaction continue` (`upgrade.go:70-82`,
  `OnlyBareUpgradesStop`): it is bound to the absence of the directory that its
  own transaction makes;
- every other interrupted upgrade is classified as manual until its last change
  is made (`v_upgrade`), and no upgrade can be rolled back: a rollback would have
  to delete `.uawp/recovery`, which its own verification refuses
  (`BeginRecovery`; the order in which a rollback takes changes back is in
  `NextPlace` and is never put to the test);
- a native file that is edited between the verification of an upgrade's inputs and
  the rename of the manifest, or after a continuation was planned, is not seen
  (`apply.go:78`, `transaction_recovery.go:76`): the version then changes over a
  bridge that is gone. `UpgradesOnlyHealthy` says what is guaranteed without it.

### Fairness

`FairSpec` assumes that a command that was approved runs on
(`WF_vars(Run(p))`, ordinary scheduling), that somebody keeps attempting the
recovery of a live transaction (`WF_vars(Recover(p))`, the controllers that the
user documentation calls for), and that an operator who clears stale locks does
so eventually (`WF_vars(ClearStaleLock)`). Proposals, edits, failures and crashes
are not fair. Nothing is strongly fair: a recovery that is refused may simply be
attempted again, because the step that offers it stays enabled.

## Proofs

Three modules about `Transaction` prove, for any sets of processes, transactions,
paths and contents, any operations, budgets and initial workspaces that satisfy
`EvidenceAssumption`, `TransactionAssumption` and `IntentAssumption`. The last
says what the constructors of planned changes promise (`plan/change.go:36-60`): a
created directory is a directory, a created or updated file is a file, and a
deleted file is gone.

`TransactionProofs`:

- `TypeCorrect == Spec => []TypeOK`. Types alone are not inductive, because the
  current action of a publication is the minimum or maximum of a set of indices:
  `TaskShape` adds that the indices still to do lie within the plan and that
  between announcing and verifying an action there is one. That the minimum and
  the maximum of a nonempty set of indices exist is proved from the library's
  theorems on well-foundedness and finite sets.
- `LockExclusive == Spec => []LockExclusion`, whatever fails, dies or recovers.
  The argument classifies steps by what they do to the lock file (`LockMove`).
- `NothingIsLost == ExclusiveRecovery => (Spec => []NoLostTransaction)`.
  `NoLostTransaction` is not inductive: whoever removes `RECOVERY.json` must know
  that it names a transaction with a receipt. `PointerDiscipline` says what every
  position of a command knows about the pointer, and the inductive invariant is
  `TypeInv /\ LockExclusion /\ PointerDiscipline`. Lemmas treat once for all
  steps what a holder's move means to the others (`HolderMove`), since every
  other command is undecided then and knows nothing.
- `PointerIsDisciplined` and
  `PublishesUnderPointer == ExclusiveRecovery => (Spec => MutatesUnderPointer)`,
  from the same invariant.

`TransactionEditsProofs` adds the contents of files to the invariant:

- `EarlyEditsSurvive == Spec => OnlyLateEditsAreLost`, whatever recovers, fails or
  dies and whoever edits. `Basis` says that every plan, staged or in memory, is
  coherent (its paths are distinct, each change has the states of its kind, and
  bound inputs agree with them) and that from staging or loading on the bundle carries the plan of the
  invocation. `Faithful` says that each change still ahead of the verification
  of an invocation finds the content it expects, unless its path is in
  `lateEdits`. Both are kept by the steps of others because only the holder of the
  lock writes (`RunWritesByPublication`, `WaitingWritesNothing`).
- `OffersAreExecutable == NoDirectories => (Spec => []OfferedRecoveryIsExecutable)`:
  what classification calls recoverable is what verification asks, change by
  change. Directories are the exception named under "Disagreements".

`TransactionAtomicityProofs` takes `Undisturbed`, that recoveries are exclusive and
other programs do not edit the paths of a plan, and proves

- `ReceiptsTellTheTruth == Undisturbed => (Spec => SettlesTruthfully)`,
- `TornRecordsHideNothing == Undisturbed => (Spec => []TornRecordsAreHarmless)`,
- `WorkspaceIsAtomic == Undisturbed => (Spec => ImplementsAtomicWorkspace)`,
- `InterruptionsAreRecoverable == Recoverable => (Spec => []AlwaysRecoverable)`.

`Atomicity` is what the first three rest on. An invocation that relies on the
pointer knows that what is not left to do is done (`Progressed`), that the inputs
it verified hold until its plan is published (`Fresh`), and that the receipt it
wrote states its result (`Receipted`); a torn receipt belongs to the live
transaction, all of whose paths are as before or all as after. The refinement then
opens a transaction at `WritePointer`, commits or rolls it back at `ClearPointer`,
and maps every other step to a stutter. `Recoverable` adds that no record tears and
that backups have the mode of their file, which the disagreements show to be
needed, and leaves directories out; `Evidence` then says that each path of the
live transaction is as before or as after, and its receipt is torn only while
somebody writes it.

`LifecycleProofs` proves, for any sets of invocations, workers, sessions, contexts
and milestones, any largest generation and any number of interruptions, from
`OwnershipAssumption` and `LifecycleAssumption`:

- `Fencing == Spec => OnlyTheHolderWrites`,
- `Succession == Spec => ClaimsSucceed`,
- `TruthfulCheckpoints == Spec => CheckpointsAreTruthful`,
- `ReleasesComeLast == Spec => []ReleaseIsLast`,
- `Refinement == Spec => ImplementsClaimedNotebook`.

All five follow from one inductive invariant, `Inv` (`PlansAreKept`). None of the
properties is inductive: they say what a write does, and what a write does was
decided when its plan was made, possibly long before. `Inv` therefore says of
every plan, in memory or live, that it is what its operation makes of the files
it is bound to (`PlanOK`, one lemma for each planner), and of the live
transaction that its published paths have the contents it writes and all others
it is bound to the contents it was planned on. `StepInv` shows at once that each
step keeps `Inv` and that it writes one file lawfully or none; the action
properties are projections of that, and the refinement maps every step but
`Settle` to a stutter (`Invisible`, `SettlesWholly`).

The second part of the module draws on the refinement to prove
`LifecycleTypeCorrect == Spec => []TypeOK` and
`AuditsAreTruthful == Spec => []AuditsNameEndedClaims`. What the audits say is an
invariant of the notebook, not of the protocol: `NotebookOK` (claims name their
holder by session and generation, audits increase and precede the claim) is
kept by each operation of `ClaimedNotebook`, on the contents it has
(`NotebookIsOrdered`), and `Refinement` carries it over to the files as they are
between transactions. `FilesInOrder` adds the files as readers find them while a
transaction publishes: each path holds what it held or what the live plan
writes.

`IdentityProofs` proves, for any contexts, sessions, home registries and bounds,
from `IdentityAssumption` alone, `IdentityTypeCorrect`, `RegistriesLoad` and
`BindingsAreGranted`. The invariant says of the stored registry, and of every
copy that a command read before it took the lock or restored after, that it is
`Sound`: it loads, and each of its bindings names a session that was issued and
the generation it was granted; what was issued and granted only grows, so a copy
stays sound while others write. Removal of a profile keeps the order of the
rest (`WithoutIsRest`).

On top of it, `ClaimsStayBoundAlone == Spec => []ClaimsStayBound` and
`BindingsOutliveClaims == Spec => AloneBindingsOutliveClaims` are about commands
that run one at a time. What such a command loaded is what the home directory
still has, and no other command is under way (`AloneAtWork`); a claim is never
older than what was granted on its workspace, so that one acquired later is not
taken for a granted one (`GrantsArePast`); a command between its transaction
and its save leaves no granted claim but the one it acquired itself
(`AppliedIsLatest`); and unless one crashed, only the claim of such a command
lacks its binding (`OnlyUnsavedUnbound`). `AloneInv` is their conjunction, all but
`GrantsArePast` demanded only while the history variable `alone` says that no two
commands ever overlapped.

`PurgeProofs` proves, for any sets of commands, providers and export paths, and
any bounds on lives, changes and faults, from `PurgeAssumption` and
`NullAssumption` (which says that what stands for "not there" and "not readable"
is no record):

- `PurgeTypeCorrect == Spec => []TypeOK`, without further assumption,
- `PurgeLockExcludes == ReinitWaits => (Spec => []LockExclusion)`, which leaves out
  the case that the hypothesis rules out, a namespace initialized while the purge
  of the last one is still returning,
- `RemovalsAreArchived == ReinitWaits => (Spec => ExportedBeforeRemoved)`,
- `PendingPurgesBlock == ReinitWaits => (Spec => PendingPurgeBlocks)`,
- `StraysComeFromPurges == ReinitWaits => (Spec => StraysAreArchived)`,
- `PurgesRecover`: `InterruptedPurgesRecover`, if besides `ReinitWaits` neither
  `TornFaults` nor `SweepFaults`; `v_tombstone` shows that the last is needed.

The invariant behind all but the first is `Inv` (`InvHolds`). What a command
remembers depends on where it stands (`TaskOK`); namespaces are numbered in the
order of their births and a tombstone is older than what stands (`Ages`), so
that a lock, once taken, stays with one namespace (`Locks`); a command past its
admission knows that no transaction is live, and that only its own purge is
pending (`Admissions`); `PURGE.json` tells exactly how far its command has come
(`Recorded`), and a tombstone takes a complete one along (`Entombed`); there is
at most one tombstone, and none where a purge is planned (`Alone`); whoever
compared an archive or a snapshot can rely on it until something outside changes
it (`Archived`); and what is half done belongs to a command that goes on
(`NoLeftovers`). Each part is one lemma with one step per action; lemmas such as
`SameLocks` and `OneMoves` treat once the many actions that leave a part alone.

`AdaptersProofs` and `MaintenanceProofs` prove every property of the run
`maintenance`, for any set of the built-in providers and any number of edits and
interruptions, from `AdaptersAssumption`, `MarkersAssumption` and
`MaintenanceAssumption`. The last two say that what stands for "no artifact", "no
file", "no upgrade" and "no recovery" is none of these; the first that providers,
facts and kinds of edits are among those the model knows.

- `AdaptersInvariant == Spec => []AdaptersInv`
- `TypeCorrect == Spec => []TypeOK`
- `NoBridgeStrays == Spec => []NoStrayBridges`
- `DetachingLeavesNoTrace == Spec => []DetachingRestores`
- `HealthyIsRemovable == Spec => []HealthyCanBeRemoved`
- `BridgesAreKept == Spec => CommandsKeepBridges`
- `OutsideStays == Spec => OutsideIsKept`
- `RepairsHeal == Spec => RepairHeals`
- `UpgradeInvariant == Spec => []UpgradeInv`
- `VersionTells == Spec => []VersionTellsLayout`
- `UpgradesAreHealthy == Spec => UpgradesOnlyHealthy`
- `UpgradesGoOn == Spec => OnlyBareUpgradesStop`

That no bridge strays is not inductive: a removal takes only what the artifact
counts as its own, so the proof must know of every file what may stand in it.
`AdaptersInv` says, file by file, that an artifact is registered where its
providers look and in the form they read there (`ProperArtifact`); that a file
has no block but the one its artifact describes, and no import that neither its
artifact owns nor the user wrote himself, each at most once (`ProperBridges`);
and that without edits the content is what the commands make of the file before
UAWP (`Pristine`). A command owes to every single file what `Kept` says: these
three, that a bridge it leaves registered stands if it stood, and that what is the
user's is the same but for the two exceptions of `OutsideIsKept`. `Kept` is proved once for each thing that can
happen to a file (`BlockAttached`, `ImportAttached`, `DetachedKeeps`,
`BareManaged`, `BareImports`, `RestoredKeeps`, `UntouchedKeeps`), and every
command is a choice of these, path by path; so `CommandsKeepBridges` and
`OutsideIsKept` are projections of it, and `KeptTogether` gives the invariant.
The ground are lemmas on the operators of `NativeEntries`: where blocks, lines
and imports stand when a stretch is cut out or a token is appended, and that
removing what was appended gives back the file, for files of any length
(`CutProperties`, `CutOfAppended`, `RemoveOfAppended`, `LinesOfAppended`,
`LinesOfPrepended`). The artifact of `CLAUDE.md` has at most two imports, so the
recursion over them is unfolded; stripping a file goes over all of its tokens
and is done by counting up (`CountUp`).

Routes depend on which files have a content, so `RepairHeals` needs that a repair
changes no route: it writes only files that had, or lacked, what routes ask for
(`RouteStays`).

`UpgradeInv` is `RecordsInv`, about the records, and `LateEdits`, about native
files. `Layout`: without an upgrade, version, claim and directories fit each other.
`Binding`: what an upgrade plans is the missing directories in some order, the
claim, the manifest (`Shape`), and every provider was healthy over the files it is
bound to. Health of a state that is gone is said by `Bound`, an instance of
`Adapters` over the contents that the upgrade recorded; `BoundHealth` says that it
is the health of the files as long as these are as bound. `Standing` is what makes
`VersionTellsLayout` hold between any two changes: the manifest stands on the claim
and the claim on the directories. An upgrade keeps it because it is at
`live.next` and the records show exactly the changes before it, but for
`recovery`, which the transaction itself makes on the way (`Progress`). After an
interruption that place is of no use, since recoveries may be given up anywhere and
planned again. A continuation keeps `Standing` because it has exactly the unmade
changes left and takes the first of them (`Recovering`, `NextIsFirst`); a rollback
never gets past its verification, as it would delete a directory (`LeftOver`). What
a change makes of the records is read off its place (`ChangesByPlace`,
`MadeProperties`).

`LateEdits`: while a change is announced, or a continuation has changes left, the
native files are as the upgrade is bound to them, but for those edited since
(`late`). The announcement has just verified that (`StillAsBoundNatives`), and a
continuation is offered for unmade changes only on matching inputs
(`OfferedAsBound`). So the version changes over bound contents or late edits
(`LookedAtIsHealthy`); and the only input that can differ without an edit is
`recovery`, hence `UpgradesGoOn`.

Only model-checked: `EveryTransactionResolves` and `AlwaysRecoverable` where other
programs edit the files, of `Transaction`; the search for a chain of migrations
in any registry (`RegistryFindsChains` of `MCMaintenance`; of the registry of
this program `MaintenanceProofs` proves which chains it finds, `StepsInOrder` and
`PathUnfolds`); and the disagreements, which are counterexamples. Liveness under
fairness and `ENABLED` are out of the prover's reach, and so is what a recursive
definition computes for all inputs.

## Not modelled

- Path boundary checks, the codecs of manifest and records beyond "decodes or
  not", terminal handling, release tooling, and embedded text: pure functions or
  pure I/O without state of their own (`PROJECT.json`, components).
- In `Adapters`: the mode without managed blocks in which a provider owns its
  whole file, `.claude/CLAUDE.md` and `CLAUDE.local.md`, the fallback names and
  working directories of Codex, imports of a former layout, line endings and
  code fences. Each changes which text is recognised as a bridge, not what
  commands do with it.
- In `Maintenance`: the check that the claim is RELEASED (it is, throughout), and
  the lock file that the crash of an upgrade leaves behind, which `Transaction`
  has for every plan.
- Symbolic links, permissions and power loss: a rename or removal is either done
  or not, and what was synced stays.

## Plan

What is left, in this order:

1. The composition of `Purge` with `Adapters`, so that a detach plans on the
   bridges that are really there, and `StraysAreArchived` speaks of them.
2. `AlwaysRecoverable` for transactions whose inputs other programs edit, as a
   theorem about the paths they did not edit.

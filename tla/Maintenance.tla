----------------------------- MODULE Maintenance -----------------------------
(***************************************************************************)
(* The maintenance of a workspace: upgrade, repair and uninstall, together *)
(* with the adapters whose files they read and write.                      *)
(*                                                                         *)
(* An upgrade is a transaction of several steps, and so is its recovery;   *)
(* users go on editing between them.  What an interrupted upgrade leaves   *)
(* is judged by module TransactionEvidence, and one recovery at a time is  *)
(* planned and applied.  The other commands are one step each.  They are   *)
(* given no facts about the providers, and all of them ask for a RELEASED  *)
(* claim, which the claim is throughout.                                   *)
(***************************************************************************)
EXTENDS Adapters, Migration

CONSTANTS MaxInterruptions   \* bound: how often an upgrade or a recovery is interrupted

VARIABLES
    version,     \* the stateVersion of manifest.json
    codec,       \* the format of ACTIVE_WORKER.md: "legacy" or "current"
    dirs,        \* the directories of the namespace that are there
    instructions,\* whether INSTRUCTIONS.md is there
    live,        \* the upgrade that RECOVERY.json names, or NULL
    recovery,    \* the recovery of it that is planned or under way, or NULL
    late,        \* history: the native files that users edited since they were looked
                 \* at for a change that is announced, or for a recovery
    interruptions
records == <<version, codec, dirs, instructions>>
mvars == <<records, live, recovery, late, interruptions>>
vars == <<avars, mvars>>

Directories == {"migrations", "recovery"}
RecordFiles == {"claim", "manifest"}
Fingerprints == {"legacy", "current", "as bound", "changed"}

Evidence == INSTANCE TransactionEvidence
    WITH Paths <- Directories \cup RecordFiles \cup Paths,
         Files <- Fingerprints, Private <- RecordFiles

(* An upgrade under way that is bound to these native files; its next      *)
(* change may be announced in the journal already.                         *)
Upgrades(bound) ==
    [from : {V1_0, V1_1}, changes : Seq(Evidence!Change), next : Nat \ {0},
     announced : BOOLEAN, stopped : BOOLEAN,
     natives : [bound -> NativeContents \cup {MISSING}],
     inputs : [Directories \cup RecordFiles \cup bound -> Evidence!Contents]]

(* A recovery, with the places of the changes that it still has to make.   *)
Recoveries == [action : {"CONTINUE", "ROLLBACK"}, left : SUBSET Nat, locked : BOOLEAN]

ASSUME MaintenanceAssumption ==
    /\ MaxInterruptions \in Nat /\ NULL \notin Recoveries
    /\ \A bound \in SUBSET Paths : NULL \notin Upgrades(bound)

Current == version = CurrentStateVersion
AllHealthy == \A id \in Configured : Healthy(id, "")

(* A command that applies a plan makes the directory of its bundle.         *)
Prepared == dirs \cup {"recovery"}

(* Adapters may have been added before a namespace had that directory: the *)
(* migration from 1.0.0 finds it missing.                                   *)
AdapterMaintenance ==
    /\ live = NULL
    /\ AdapterCommand
    /\ dirs' \in {Prepared, IF version = V1_0 THEN dirs ELSE Prepared}
    /\ UNCHANGED <<version, codec, instructions, live, recovery, late, interruptions>>

-----------------------------------------------------------------------------
(* uawp uninstall: every bridge goes, in one plan. *)

OwnedImportsThere(a, c) ==
    LET left(i) == WithoutImports([a EXCEPT !.imports = SubSeq(a.imports, 1, i - 1)], c)
    IN \A i \in DOMAIN a.imports :
          ImportPossible(left(i), a.imports[i]) /\ Imports(left(i), a.imports[i])

Unhookable(p) ==
    LET a == integrations[p] IN
    \/ a.created /\ Content(p) = a.sum
    \/ IF a.mode = "MANAGED_BLOCK" THEN RemovePossible(Content(p), Block(p, a.consumers))
       ELSE OwnedImportsThere(a, Content(p))

Uninstall ==
    /\ Current /\ live = NULL
    /\ Configured # {} /\ AllHealthy
    /\ \A p \in Registered : Unhookable(p)
    /\ files' = [p \in Paths |-> IF p \in Registered THEN Emptied(p, Bare(p)) ELSE files[p]]
    /\ integrations' = [p \in Paths |-> NULL]
    /\ dirs' = Prepared
    /\ UNCHANGED <<original, edits, version, codec, instructions, live, recovery, late,
                   interruptions>>

-----------------------------------------------------------------------------
(* uawp repair: what can be put back exactly as it was. *)

WithImports(a, c) ==
    LET Put[i \in 0..Len(a.imports)] ==
            IF i = 0 THEN c ELSE UpsertImport(Put[i - 1], a.imports[i])
    IN Put[Len(a.imports)]

RoutedTo(p, id) == LET route == RouteOf(id, EffectiveFacts(id, ""))
                   IN route.path = p /\ route.mode = integrations[p].mode

Restored(p) ==
    LET a == integrations[p] IN
    IF a.mode = "MANAGED_BLOCK" THEN UpsertManagedBlock(Content(p), Block(p, a.consumers))
    ELSE WithImports(a, Content(p))
\* Mutant: nobody asks which file the providers read now.
RestorableAnywhere(p) ==
    LET a == integrations[p] IN
    /\ files[p] = MISSING => a.created
    /\ IF a.mode = "MANAGED_BLOCK"
       THEN /\ UpsertPossible(Content(p), Block(p, a.consumers))
            /\ Outside(Content(p)) = a.outside
       ELSE AllRemovable(a, Content(p)) /\ Restored(p) = a.sum

Restorable(p) ==
    LET a == integrations[p] IN
    /\ \A id \in a.consumers : RoutedTo(p, id)
    /\ files[p] = MISSING => a.created
    /\ IF a.mode = "MANAGED_BLOCK"
       THEN /\ UpsertPossible(Content(p), Block(p, a.consumers))
            /\ Outside(Content(p)) = a.outside
       ELSE AllRemovable(a, Content(p)) /\ Restored(p) = a.sum

Repair(generated, native) ==
    /\ Current /\ live = NULL
    /\ instructions' = (instructions \/ generated)
    /\ files' = [p \in Paths |-> IF native /\ p \in Registered /\ Restorable(p)
                                 THEN Written(p, Restored(p)) ELSE files[p]]
    /\ <<files, instructions>>' # <<files, instructions>>
    /\ dirs' = Prepared
    /\ UNCHANGED <<integrations, original, edits, version, codec, live, recovery, late,
                   interruptions>>

-----------------------------------------------------------------------------
(* uawp upgrade. *)

CreateDir(d) == [kind |-> "CREATE_DIR", path |-> d,
                 before |-> Evidence!Missing, after |-> Evidence!Directory]
Rewrite(file) == [kind |-> "UPDATE_FILE", path |-> file, before |-> "legacy", after |-> "current"]

(* What each migration step plans: the directories that are missing, or the *)
(* claim in its new format.                                                 *)
MissingDirectories ==
    LET missing(d) == IF d \in dirs THEN <<>> ELSE <<CreateDir(d)>>
    IN missing("migrations") \o missing("recovery")
ClaimRewritten == <<Rewrite("claim")>>
StepChanges(step) == IF step = Step(V1_0, V1_1) THEN MissingDirectories ELSE ClaimRewritten

UpgradeChanges ==
    LET steps == Resolve(Steps, version, CurrentStateVersion)
        Planned[i \in 0..Len(steps)] ==
            IF i = 0 THEN <<>> ELSE Planned[i - 1] \o StepChanges(steps[i])
    IN Append(Planned[Len(steps)], Rewrite("manifest"))

(* What an upgrade sees, of the native files whether they are as they were. *)
Seen(upgrade) ==
    [q \in Directories \cup RecordFiles \cup DOMAIN upgrade.natives |->
       CASE q \in Directories -> IF q \in dirs THEN Evidence!Directory ELSE Evidence!Missing
         [] q = "claim" -> codec
         [] q = "manifest" -> IF Current THEN "current" ELSE "legacy"
         [] OTHER -> IF files[q] = upgrade.natives[q] THEN "as bound" ELSE "changed"]

StartUpgrade ==
    LET bound == UNION {Candidates(id) : id \in Configured}
        upgrade == [from |-> version, changes |-> UpgradeChanges, next |-> 1,
                    announced |-> FALSE, stopped |-> FALSE,
                    natives |-> [p \in bound |-> files[p]],
                    inputs |-> [q \in {} |-> {}]]
    IN /\ ClassifyStateVersion(version) = "UPGRADE_REQUIRED" /\ live = NULL
       /\ AllHealthy
       /\ Resolves(Steps, version, CurrentStateVersion)
       /\ codec = "legacy"
       /\ live' = [upgrade EXCEPT !.inputs = Seen(upgrade)]
       /\ dirs' = Prepared
       /\ UNCHANGED <<avars, version, codec, instructions, recovery, late, interruptions>>

(* The records once the changes at these places are made. *)
Made(changes) ==
    LET to(q, was) == IF \E c \in changes : c.path = q
                      THEN (CHOOSE c \in changes : c.path = q).after ELSE was
        there(d) == IF d \in dirs THEN Evidence!Directory ELSE Evidence!Missing
    IN /\ dirs' = {d \in Directories : to(d, there(d)) = Evidence!Directory}
       /\ codec' = to("claim", codec)
       /\ version' = CASE to("manifest", "") = "" -> version
                       [] to("manifest", "") = "current" -> CurrentStateVersion
                       [] to("manifest", "") = "legacy" -> live.from

Running == live # NULL /\ ~live.stopped
Halted == live # NULL /\ live.stopped
Decided == (Running /\ live.announced) \/ recovery # NULL
Stop == live' = [live EXCEPT !.announced = FALSE, !.stopped = TRUE] /\ late' = {}

\* Mutant: only the namespace is looked at again.
RecordsAsBound ==
    \A q \in RecordFiles \ {live.changes[i].path : i \in 1..(live.next - 1)} :
        Evidence!VerifiesInput(live.inputs[q], Seen(live)[q])
\* Mutant: and the paths that were changed already.
AllAsBound == \A q \in DOMAIN live.inputs : Evidence!VerifiesInput(live.inputs[q], Seen(live)[q])

(* Everything the plan is bound to is looked at again before each change,   *)
(* but for the paths that were changed already.                             *)
StillAsBound ==
    \A q \in DOMAIN live.inputs \ {live.changes[i].path : i \in 1..(live.next - 1)} :
        Evidence!VerifiesInput(live.inputs[q], Seen(live)[q])

AnnounceChange ==
    /\ Running /\ ~live.announced /\ live.next <= Len(live.changes)
    /\ \/ StillAsBound /\ live' = [live EXCEPT !.announced = TRUE] /\ UNCHANGED late
       \/ ~StillAsBound /\ Stop
    /\ UNCHANGED <<avars, records, recovery, interruptions>>

Fits(change) == Evidence!VerifiesBefore(change, Seen(live)[change.path])

(* A new file is written next to the old one, which is looked at once more  *)
(* before it is replaced; the native files are not.                         *)
PublishChange ==
    /\ Running /\ live.announced
    /\ LET change == live.changes[live.next] IN
       IF Fits(change)
       THEN /\ Made({change})
            /\ live' = [live EXCEPT !.next = @ + 1, !.announced = FALSE] /\ late' = {}
       ELSE Stop /\ UNCHANGED <<version, codec, dirs>>
    /\ UNCHANGED <<avars, instructions, recovery, interruptions>>

CompleteUpgrade ==
    /\ Running /\ live.next > Len(live.changes)
    /\ \A i \in DOMAIN live.changes :
          Evidence!VerifiesAfter(live.changes[i], Seen(live)[live.changes[i].path])
    /\ live' = NULL
    /\ UNCHANGED <<avars, records, recovery, late, interruptions>>

(* The environment: a write fails, and the command ends where it is. *)
InterruptUpgrade ==
    /\ Running /\ interruptions < MaxInterruptions
    /\ Stop
    /\ interruptions' = interruptions + 1
    /\ UNCHANGED <<avars, records, recovery>>

-----------------------------------------------------------------------------
(* uawp transaction continue, and rollback. *)

(* The evidence is looked at, native files included, and a plan is made of  *)
(* what is to be done.                                                      *)
Classification == Evidence!Classify(live.changes, live.inputs, Seen(live))
PlanRecovery(action) ==
    /\ Halted /\ recovery = NULL
    /\ Evidence!RecoveryOffered(action, Classification)
    /\ recovery' = [action |-> action, locked |-> FALSE,
                    left |-> Evidence!RecoveryIndices(action, live.changes, Seen(live))]
    /\ UNCHANGED <<avars, records, live, late, interruptions>>

(* Once it is approved and the lock is taken, only the paths it changes are *)
(* looked at again.  A rollback that would delete a directory ends here.    *)
Abandon == recovery' = NULL /\ late' = {}
Planned(i) == Evidence!Performed(recovery.action, live.changes, i)

BeginRecovery ==
    /\ recovery # NULL /\ ~recovery.locked
    /\ \/ /\ \A i \in recovery.left : Fits(Planned(i))
          /\ recovery' = [recovery EXCEPT !.locked = TRUE]
          /\ UNCHANGED late
       \/ ~(\A i \in recovery.left : Fits(Planned(i))) /\ Abandon
    /\ UNCHANGED <<avars, records, live, interruptions>>

\* Mutant: a continuation goes through the changes as a rollback does.
LastPlace == CHOOSE i \in recovery.left : \A j \in recovery.left : j <= i

(* A rollback takes the changes from the last, a continuation from the first.*)
NextPlace ==
    CHOOSE i \in recovery.left : \A j \in recovery.left :
        IF recovery.action = "ROLLBACK" THEN j <= i ELSE i <= j

PublishRecovery ==
    /\ recovery # NULL /\ recovery.locked /\ recovery.left # {}
    /\ IF Fits(Planned(NextPlace))
       THEN /\ Made({Planned(NextPlace)})
            /\ recovery' = [recovery EXCEPT !.left = @ \ {NextPlace}]
            /\ UNCHANGED late
       ELSE Abandon /\ UNCHANGED <<version, codec, dirs>>
    /\ UNCHANGED <<avars, instructions, live, interruptions>>

CompleteRecovery ==
    /\ recovery # NULL /\ recovery.locked /\ recovery.left = {}
    /\ live' = NULL /\ Abandon
    /\ UNCHANGED <<avars, records, interruptions>>

(* The environment: a plan is not approved, or a write fails. *)
AbandonRecovery ==
    /\ recovery # NULL /\ (recovery.locked => interruptions < MaxInterruptions)
    /\ Abandon
    /\ interruptions' = IF recovery.locked THEN interruptions + 1 ELSE interruptions
    /\ UNCHANGED <<avars, records, live>>

-----------------------------------------------------------------------------
(* The user edits native files. *)
EditNative ==
    /\ UserEdit
    /\ late' = {p \in Paths : Decided /\ (p \in late \/ files'[p] # files[p])}
    /\ UNCHANGED <<records, live, recovery, interruptions>>

(* He, or his version control, loses a generated file. *)
LoseInstructions ==
    /\ instructions /\ edits < MaxEdits
    /\ instructions' = FALSE
    /\ edits' = edits + 1
    /\ UNCHANGED <<files, integrations, original, version, codec, dirs, live, recovery, late,
                   interruptions>>

Init ==
    /\ AdaptersInit
    /\ version \in {V1_0, V1_1, CurrentStateVersion}
    /\ codec = IF Current THEN "current" ELSE "legacy"
    /\ dirs = IF version = V1_0 THEN {} ELSE Directories
    /\ instructions = TRUE
    /\ live = NULL /\ recovery = NULL
    /\ late = {}
    /\ interruptions = 0

Next ==
    \/ AdapterMaintenance
    \/ Uninstall
    \/ \E generated, native \in BOOLEAN : Repair(generated, native)
    \/ StartUpgrade \/ AnnounceChange \/ PublishChange \/ CompleteUpgrade \/ InterruptUpgrade
    \/ \E action \in {"CONTINUE", "ROLLBACK"} : PlanRecovery(action)
    \/ BeginRecovery \/ PublishRecovery \/ CompleteRecovery \/ AbandonRecovery
    \/ EditNative \/ LoseInstructions

Spec == Init /\ [][Next]_vars

-----------------------------------------------------------------------------
(* Properties. *)

\* Each variable holds what it may, and the manifest is one that loads: no
\* provider is registered with two artifacts and no artifact ID is used twice.
TypeOK ==
    /\ files \in [Paths -> NativeContents \cup {MISSING}]
    /\ integrations \in [Paths -> Artifacts \cup {NULL}]
    /\ ValidManifest(integrations)
    /\ edits \in 0..MaxEdits /\ interruptions \in 0..MaxInterruptions
    /\ version \in {V1_0, V1_1, CurrentStateVersion}
    /\ codec \in {"legacy", "current"} /\ dirs \subseteq Directories /\ instructions \in BOOLEAN
    /\ live # NULL => /\ DOMAIN live.natives \subseteq Paths
                      /\ live \in Upgrades(DOMAIN live.natives)
                      /\ live.next <= Len(live.changes) + 1
    /\ recovery # NULL => /\ Halted /\ recovery \in Recoveries
                          /\ recovery.left \subseteq DOMAIN live.changes
    /\ late \subseteq Paths /\ (~Decided => late = {})

\* A file that is no longer registered has no bridge left in it: whatever the
\* user did to the file, the last consumer takes block and imports with him.
NoStrayBridges ==
    \A p \in Paths \ Registered :
        /\ Blocks(Content(p)) = {}
        /\ \A t \in {Agents, Instructions} :
              Imports(Content(p), t) => original[p] = ByHand /\ t = Instructions

\* Nobody having edited anything, the files that are not registered are what
\* they were before UAWP, after any sequence of commands.  An empty file that
\* was there counts as one UAWP made, and is gone.
DetachingRestores ==
    edits = 0 => \A p \in Paths \ Registered :
        \/ files[p] = original[p]
        \/ original[p] = <<>> /\ files[p] = MISSING

\* What doctor calls healthy can be removed, whatever was done to the file.
HealthyCanBeRemoved ==
    \A id \in Configured : Healthy(id, "") => \A p \in EntriesOf(id) : Detachable(p, id)

\* The manifest is written last: its version promises the format of the claim
\* and the directories, between any two changes of an upgrade and of a
\* recovery, and wherever either of them is given up.
VersionTellsLayout ==
    /\ Current => codec = "current" /\ dirs = Directories
    /\ ~Current /\ live = NULL => codec = "legacy"

\* No command breaks a bridge it does not remove, and those it registers stand:
\* a shared file, a moved entry and a repair included.
CommandsKeepBridges ==
    [][edits' = edits =>
         \A p \in Registered' : (p \in Registered => Verified(p)) => Verified(p)']_vars

\* "User content outside a UAWP-owned block is byte-preserved"
\* (docs/user/adapters.md:56), but for a file that is deleted on its fingerprint,
\* and but for the line break that a user put before a block UAWP wrote into an
\* empty file: the block is removed together with whatever stands before it.
OutsideIsKept ==
    [][edits' = edits =>
         \A p \in Paths \ {Claude} :
            \/ UserContent(p)' = UserContent(p)
            \/ /\ files'[p] = MISSING /\ p \in Registered
               /\ integrations[p].created /\ Content(p) = integrations[p].sum
            \/ /\ p \in Registered /\ integrations[p].outside = <<>>
               /\ BreakBefore(Content(p))
               /\ UserContent(p)' = Outside(Content(p))]_vars

\* A repair that writes a file heals every provider that reads it, though it
\* decided by the files as they were before it wrote any.
RepairHeals ==
    [][(\E generated, native \in BOOLEAN : Repair(generated, native)) =>
         \A p \in Registered : files'[p] # files[p] =>
             \A id \in Consumers(p) : Healthy(id, "")']_vars

\* The version changes only over bridges that stood when the upgrade, or its
\* recovery, last looked at the native files: a provider whose entry does not
\* stand then is one whose files a user edited after that.
UpgradesOnlyHealthy ==
    [][~Current /\ Current' =>
         \A id \in Configured : Candidates(id) \cap late = {} => Healthy(id, "")]_vars

\* An upgrade stops of itself only when a user overtook it, or when it began
\* in a namespace without .uawp/recovery: it is bound to the absence of the
\* directory that its own transaction then makes.
NativesAsBound == \A p \in DOMAIN live.natives : files[p] = live.natives[p]
OnlyBareUpgradesStop ==
    [][(AnnounceChange \/ PublishChange) /\ Halted' =>
         ~NativesAsBound \/ live.inputs["recovery"] = Evidence!Missing]_vars

\* "User additions are preserved" (docs/user/uninstall-and-export.md:10): no
\* command takes a line the user wrote.
UserLines(c) == SelectSeq(c, LAMBDA t : t.kind = "line")
UserLinesSurvive ==
    [][edits' = edits => \A p \in Paths : UserLines(Content(p)') = UserLines(Content(p))]_vars

\* "Manual recovery means evidence is incomplete, unsafe, or contradicted by
\* later user changes" (docs/user/transaction-recovery.md:15).
ManualOnlyAfterUserChanges ==
    Halted /\ NativesAsBound => Classification # "MANUAL_RECOVERY_REQUIRED"
=============================================================================

------------------------- MODULE TransactionEvidence -------------------------
(***************************************************************************)
(* The pure part of UAWP's durable transactions: what a planned change     *)
(* expects and leaves behind (internal/plan/change.go), how an interrupted *)
(* transaction is classified from live evidence                            *)
(* (internal/transaction/classify.go) and which of its actions a rollback  *)
(* or a continuation performs (internal/transaction/recovery.go).          *)
(*                                                                         *)
(* A workspace is a function from logical paths to contents.  SHA-256 is   *)
(* taken to be collision free, so a fingerprint is the content itself; the *)
(* two reserved fingerprints of the code keep their names.                 *)
(***************************************************************************)
EXTENDS Naturals, Sequences

CONSTANTS
    Paths,      \* logical paths a plan may touch or depend on
    Files,      \* contents of a regular file
    Private     \* the paths whose file carries mode 0600, others are 0644

Missing == "MISSING"
Directory == "DIRECTORY"
Contents == Files \cup {Missing, Directory}

ASSUME EvidenceAssumption ==
    /\ Missing \notin Files
    /\ Directory \notin Files
    /\ Private \subseteq Paths

-----------------------------------------------------------------------------
(* Planned changes.  DELETE_DIR is never planned by an operation of its    *)
(* own: it only appears as the inverse of CREATE_DIR.                      *)

Kinds == {"CREATE_DIR", "CREATE_FILE", "UPDATE_FILE", "DELETE_FILE", "DELETE_DIR"}

Change == [kind : Kinds, path : Paths, before : Contents, after : Contents]

UndoKind == [CREATE_FILE |-> "DELETE_FILE", CREATE_DIR  |-> "DELETE_DIR",
             UPDATE_FILE |-> "UPDATE_FILE",
             DELETE_FILE |-> "CREATE_FILE", DELETE_DIR  |-> "CREATE_DIR"]

\* Mutant: the inverse expects the before state it is meant to restore.
UndoExpectsBefore(change) ==
    [kind |-> UndoKind[change.kind], path |-> change.path,
     before |-> change.before, after |-> change.before]

\* The change a rollback performs to undo a published one.
Undo(change) ==
    [kind |-> UndoKind[change.kind], path |-> change.path,
     before |-> change.after, after |-> change.before]

-----------------------------------------------------------------------------
(* Verification by the applier (internal/workspace/apply.go).              *)

\* verifyBeforeState: anything but an absent target is read as a file, so a
\* change whose before state is a directory is always refused.
VerifiesBefore(change, live) ==
    IF change.before = Missing
    THEN live = Missing
    ELSE live \in Files /\ live = change.before

VerifiesAfter(change, live) == live = change.after

\* verifyInputs: a bound input is a file, an absence or a real directory.
VerifiesInput(bound, live) == live = bound

-----------------------------------------------------------------------------
(* Classification of live evidence (internal/transaction/classify.go).     *)

MatchesBefore(change, live) ==
    CASE change.kind \in {"CREATE_DIR", "CREATE_FILE"} -> live = Missing
      [] change.kind \in {"UPDATE_FILE", "DELETE_FILE"} ->
             live \in Files /\ live = change.before
      [] change.kind = "DELETE_DIR" -> live = Directory

MatchesAfter(change, live) ==
    CASE change.kind = "CREATE_DIR" -> live = Directory
      [] change.kind \in {"CREATE_FILE", "UPDATE_FILE"} ->
             live \in Files /\ live = change.after
      [] change.kind \in {"DELETE_FILE", "DELETE_DIR"} -> live = Missing

\* The backup file is written with mode 0600 but must show the mode of the
\* original target to be valid.
BackupOK(change) ==
    change.kind \in {"UPDATE_FILE", "DELETE_FILE"} => change.path \in Private

\* loadTransactionSnapshot fingerprints only absences and regular files; a
\* directory is observed as UNSAFE and matches no bound input.
ObservedInputMatches(bound, live) == live \in Files \cup {Missing} /\ live = bound

ChangedPaths(changes) == {changes[i].path : i \in DOMAIN changes}

\* Mutant: only untouched or fully published transactions are safe.
ClassifyAllOrNothing(changes, inputs, live) ==
    LET safe == \A i \in DOMAIN changes : MatchesBefore(changes[i], live[changes[i].path])
        allAfter == \A i \in DOMAIN changes : MatchesAfter(changes[i], live[changes[i].path])
    IN  IF allAfter THEN "TRANSACTION_COMPLETE"
        ELSE IF safe THEN "ROLLBACK_OR_CONTINUE_AVAILABLE"
        ELSE "MANUAL_RECOVERY_REQUIRED"

Classify(changes, inputs, live) ==
    LET settled(i) == \/ MatchesBefore(changes[i], live[changes[i].path])
                      \/ MatchesAfter(changes[i], live[changes[i].path])
        safe == /\ \A i \in DOMAIN changes : settled(i) /\ BackupOK(changes[i])
                /\ \A q \in DOMAIN inputs \ ChangedPaths(changes) :
                       ObservedInputMatches(inputs[q], live[q])
        allAfter == /\ changes # << >>
                    /\ \A i \in DOMAIN changes :
                           MatchesAfter(changes[i], live[changes[i].path])
    IN  IF allAfter THEN "TRANSACTION_COMPLETE"
        ELSE IF safe THEN "ROLLBACK_OR_CONTINUE_AVAILABLE"
        ELSE "MANUAL_RECOVERY_REQUIRED"

\* The actions a recovery still has to perform.  Both are sets of indices:
\* a rollback takes them from the last, a continuation from the first.
RollbackIndices(changes, live) ==
    {i \in DOMAIN changes : ~MatchesBefore(changes[i], live[changes[i].path])}

ContinueIndices(changes, live) ==
    {i \in DOMAIN changes : ~MatchesAfter(changes[i], live[changes[i].path])}

\* Mutant: a transaction that lacks only its receipt is not offered to anyone.
RecoveryOfferedUnlessComplete(action, class) == class = "ROLLBACK_OR_CONTINUE_AVAILABLE"

RecoveryOffered(action, class) ==
    \/ class = "ROLLBACK_OR_CONTINUE_AVAILABLE"
    \/ action = "CONTINUE" /\ class = "TRANSACTION_COMPLETE"

RecoveryIndices(action, changes, live) ==
    IF action = "ROLLBACK" THEN RollbackIndices(changes, live)
                           ELSE ContinueIndices(changes, live)

\* The change performed at index i under an action.
Performed(action, changes, i) ==
    IF action = "ROLLBACK" THEN Undo(changes[i]) ELSE changes[i]

-----------------------------------------------------------------------------
(* Journal action states (internal/transaction/types.go).                  *)

ActionStates == {"PENDING", "IN_PROGRESS", "APPLIED", "VERIFIED",
                 "ROLLED_BACK", "ROLLBACK_VERIFIED"}
=============================================================================

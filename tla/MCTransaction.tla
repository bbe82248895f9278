---------------------------- MODULE MCTransaction ----------------------------
(* Instances of Transaction for TLC: a few project paths with small        *)
(* contents and operations of the shapes that UAWP's planners produce.      *)
EXTENDS TransactionRefinement, TLC

CONSTANTS p1, p2, t1, t2

v0 == "v0"
v1 == "v1"

Symmetry == Permutations(Procs) \cup Permutations(Txns)

Intent(kind, path, after) == [kind |-> kind, path |-> path, after |-> after]

Op(intents, inputs, migrates) ==
    [intents |-> intents, inputs |-> inputs, migrates |-> migrates, gated |-> TRUE]

\* Hand-off, stale recovery: two updates in sequence, bound to both files.
UpdatePair == Op(<<Intent("UPDATE_FILE", "a", v1), Intent("UPDATE_FILE", "b", v1)>>,
                 {"a", "b"}, FALSE)
\* Adapter installation: a new native file and an updated manifest, bound to
\* a file it leaves alone; its planner does not look at the status.
CreateAndUpdate == [Op(<<Intent("CREATE_FILE", "c", v0), Intent("UPDATE_FILE", "b", v1)>>,
                       {"a"}, FALSE) EXCEPT !.gated = FALSE]
\* Uninstall: native artifact deleted, manifest updated.
DeleteAndUpdate == Op(<<Intent("DELETE_FILE", "b", Missing), Intent("UPDATE_FILE", "a", v1)>>,
                      {"a"}, FALSE)
\* Upgrade: a directory, then a file, then the migration receipt.
Migrate == Op(<<Intent("CREATE_DIR", "d", Directory), Intent("UPDATE_FILE", "a", v1)>>, {}, TRUE)
\* Upgrade from 1.1.0: integrations and the manifest, then the migration receipt.
MigrateFiles == Op(<<Intent("UPDATE_FILE", "a", v1), Intent("UPDATE_FILE", "b", v1)>>, {}, TRUE)
\* Context synchronisation of an unchanged context: an empty plan.
Nothing == Op(<< >>, {"a"}, FALSE)

AllOperations == {UpdatePair, CreateAndUpdate, DeleteAndUpdate, Migrate, Nothing}
FileOperations == {UpdatePair, CreateAndUpdate, DeleteAndUpdate}
TwoUpdates == {UpdatePair}
Migrations == {Migrate}
FileMigrations == {MigrateFiles}
OneDeletion == {DeleteAndUpdate}

MCPaths == {"a", "b", "c"}
MCPathsAndDirectory == {"a", "b", "c", "d"}
MCFiles == {v0, v1}
InitialDisk == {[q \in MCPaths |-> IF q = "c" THEN Missing ELSE v0]}
InitialDiskAndDirectory ==
    {[q \in MCPathsAndDirectory |-> IF q \in {"c", "d"} THEN Missing ELSE v0]}

Bound(edits, faults, crashes) ==
    [f \in Faults |-> CASE f = "edit" -> edits [] f = "fault" -> faults [] f = "crash" -> crashes]
OneFault == Bound(0, 1, 0)
OneCrash == Bound(0, 0, 1)
FaultAndCrash == Bound(0, 1, 1)
EditAndFault == Bound(1, 1, 0)
None == {}
=============================================================================

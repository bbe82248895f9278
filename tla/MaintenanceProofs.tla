------------------------- MODULE MaintenanceProofs ----------------------------
(***************************************************************************)
(* Theorems about Maintenance, for every set of providers and any number of *)
(* edits and interruptions.  Two invariants carry them: AdaptersInv ties   *)
(* the native files to the manifest, and UpgradeInv ties version, claim and *)
(* directories to the changes that an upgrade and its recovery have made,  *)
(* and the files they look at to the health that was found there.          *)
(***************************************************************************)
EXTENDS Maintenance, AdaptersProofs, FiniteSetTheorems

-----------------------------------------------------------------------------
(* Repair and uninstallation.                                              *)

\* Imports put in one after the other.
LEMMA WithImportsUnfolds ==
    ASSUME NEW a, NEW c
    PROVE  /\ a.imports = <<>> => WithImports(a, c) = c
           /\ \A t : a.imports = <<t>> => WithImports(a, c) = UpsertImport(c, t)
           /\ \A t, u : a.imports = <<t, u>> =>
                 WithImports(a, c) = UpsertImport(UpsertImport(c, t), u)
<1> DEFINE n == Len(a.imports)
           IsPut(f) == f = [i \in 0..n |->
              IF i = 0 THEN c ELSE UpsertImport(f[i - 1], a.imports[i])]
           Put == CHOOSE f : IsPut(f)
<1>1. WithImports(a, c) = Put[n]
  BY Zenon DEF WithImports
<1> DEFINE one == UpsertImport(c, a.imports[1])
           two == UpsertImport(one, a.imports[2])
           f == [i \in 0..n |-> IF i = 0 THEN c ELSE IF i = 1 THEN one ELSE two]
<1>2. ASSUME n \in {0, 1, 2}
      PROVE  IsPut(Put)
  <2>1. \A i \in 0..n : f[i] = IF i = 0 THEN c ELSE UpsertImport(f[i - 1], a.imports[i])
    <3> TAKE i \in 0..n
    <3>1. i \in {0, 1, 2} /\ (i # 0 => i - 1 \in 0..n)
      <4> HIDE DEF n
      <4> QED
        BY <1>2
    <3>2. CASE i = 0
      BY <3>2
    <3>3. CASE i = 1
      <4>1. f[i] = one /\ f[i - 1] = c
        BY <3>1, <3>3
      <4> HIDE DEF f
      <4> QED
        BY <3>3, <4>1
    <3>4. CASE i = 2
      <4>1. f[i] = two /\ f[i - 1] = one
        BY <3>1, <3>4
      <4> HIDE DEF f
      <4> QED
        BY <3>4, <4>1
    <3> QED
      BY <3>1, <3>2, <3>3, <3>4
  <2>2. f = [i \in 0..n |-> f[i]]
    OBVIOUS
  <2> HIDE DEF f
  <2>3. IsPut(f)
    BY <2>1, <2>2
  <2> HIDE DEF IsPut
  <2> QED
    BY <2>3
<1> HIDE DEF Put
<1>3. ASSUME n \in {0, 1, 2}, NEW i \in 0..n
      PROVE  Put[i] = IF i = 0 THEN c ELSE UpsertImport(Put[i - 1], a.imports[i])
  BY <1>2, <1>3
<1>4. n = 0 => Put[n] = c
  BY <1>3
<1>5. n = 1 => Put[n] = UpsertImport(c, a.imports[1])
  <2> SUFFICES ASSUME n = 1 PROVE Put[1] = UpsertImport(c, a.imports[1])
    OBVIOUS
  <2>1. Put[0] = c
    BY <1>3
  <2>2. Put[1] = UpsertImport(Put[1 - 1], a.imports[1])
    BY <1>3
  <2> QED
    BY <2>1, <2>2
<1>6. n = 2 => Put[n] = UpsertImport(UpsertImport(c, a.imports[1]), a.imports[2])
  <2> SUFFICES ASSUME n = 2
               PROVE  Put[2] = UpsertImport(UpsertImport(c, a.imports[1]), a.imports[2])
    OBVIOUS
  <2>1. Put[0] = c
    BY <1>3
  <2>2. Put[1] = UpsertImport(Put[1 - 1], a.imports[1])
    BY <1>3
  <2>3. Put[2] = UpsertImport(Put[2 - 1], a.imports[2])
    BY <1>3
  <2> QED
    BY <2>1, <2>2, <2>3
<1>7. a.imports = <<>> => n = 0
  OBVIOUS
<1>8. \A t : a.imports = <<t>> => n = 1 /\ a.imports[1] = t
  OBVIOUS
<1>9. \A t, u : a.imports = <<t, u>> => n = 2 /\ a.imports[1] = t /\ a.imports[2] = u
  OBVIOUS
<1> HIDE DEF n
<1> QED
  BY <1>1, <1>4, <1>5, <1>6, <1>7, <1>8, <1>9

\* CLAUDE.md with its imports.
LEMMA WithImportsProperties ==
    ASSUME NEW c \in NativeContents, Blocks(c) = {},
           \A t \in Targets : ImportPossible(c, t), NEW a, a # NULL,
           a.imports \in {<<>>, <<Instructions>>, <<Agents, Instructions>>}
    PROVE  LET r == WithImports(a, c) IN
           /\ r \in NativeContents /\ Blocks(r) = {}
           /\ \A u \in Targets : /\ ImportPossible(r, u)
                                 /\ Imports(c, u) => Imports(r, u)
                                 /\ Imports(r, u) => Imports(c, u) \/ Owns(a, u)
           /\ r # c => Imports(r, Instructions) /\ r # <<>>
<1>1. Instructions \in Targets /\ Agents \in Targets
  BY DEF Targets
<1>2. CASE a.imports = <<>>
  <2>1. WithImports(a, c) = c
    BY <1>2, WithImportsUnfolds
  <2> QED
    BY <2>1
<1>3. CASE a.imports = <<Instructions>>
  <2>1. PICK r : r = UpsertImport(c, Instructions)
    OBVIOUS
  <2>2. WithImports(a, c) = r
    BY <1>3, <2>1, WithImportsUnfolds
  <2>3. Owns(a, Instructions)
    <3>1. DOMAIN a.imports = {1} /\ a.imports[1] = Instructions
      BY <1>3
    <3> QED
      BY <3>1 DEF Owns
  <2>4. /\ r \in NativeContents /\ Blocks(r) = {}
        /\ \A u \in Targets : /\ ImportPossible(r, u)
                              /\ Imports(c, u) => Imports(r, u)
                              /\ Imports(r, u) => Imports(c, u) \/ u = Instructions
        /\ Imports(r, Instructions)
        /\ Imports(c, Instructions) => r = c
        /\ ~Imports(c, Instructions) => r = Appended(c, ImportOf(Instructions)) /\ r # <<>>
    BY <1>1, <2>1, ImportAdded
  <2> QED
    BY <2>2, <2>3, <2>4
<1>4. CASE a.imports = <<Agents, Instructions>>
  <2>1. PICK s : s = UpsertImport(c, Agents)
    OBVIOUS
  <2>2. PICK r : r = UpsertImport(s, Instructions)
    OBVIOUS
  <2>3. WithImports(a, c) = r
    BY <1>4, <2>1, <2>2, WithImportsUnfolds
  <2>4. Owns(a, Agents) /\ Owns(a, Instructions)
    <3>1. DOMAIN a.imports = {1, 2} /\ a.imports[1] = Agents /\ a.imports[2] = Instructions
      BY <1>4
    <3> QED
      BY <3>1 DEF Owns
  <2>5. /\ s \in NativeContents /\ Blocks(s) = {}
        /\ \A u \in Targets : /\ ImportPossible(s, u)
                              /\ Imports(c, u) => Imports(s, u)
                              /\ Imports(s, u) => Imports(c, u) \/ u = Agents
        /\ Imports(s, Agents)
        /\ Imports(c, Agents) => s = c
        /\ ~Imports(c, Agents) => s = Appended(c, ImportOf(Agents)) /\ s # <<>>
    BY <1>1, <2>1, ImportAdded
  <2>6. /\ r \in NativeContents /\ Blocks(r) = {}
        /\ \A u \in Targets : /\ ImportPossible(r, u)
                              /\ Imports(s, u) => Imports(r, u)
                              /\ Imports(r, u) => Imports(s, u) \/ u = Instructions
        /\ Imports(r, Instructions)
        /\ Imports(s, Instructions) => r = s
        /\ ~Imports(s, Instructions) => r = Appended(s, ImportOf(Instructions)) /\ r # <<>>
    BY <1>1, <2>2, <2>5, ImportAdded
  <2>7. r # <<>>
    <3>1. DOMAIN <<>> = {}
      OBVIOUS
    <3>2. ~Imports(<<>>, Instructions)
      BY <3>1 DEF Imports, Lines
    <3> QED
      BY <2>6, <3>2
  <2> QED
    BY <2>3, <2>4, <2>5, <2>6, <2>7
<1> QED
  BY <1>2, <1>3, <1>4

\* What repair makes of a file.
LEMMA RestoredKeeps ==
    ASSUME AdaptersInv, NEW p \in Registered, Restorable(p)
    PROVE  /\ Kept(p, Written(p, Restored(p)), integrations[p])
           /\ Written(p, Restored(p)) # files[p] =>
                 /\ VerifiedAs(p, FileContent(Written(p, Restored(p))), integrations[p])
                 /\ FileContent(Written(p, Restored(p))) # <<>>
<1> DEFINE a == integrations[p]
           c == Content(p)
<1>1. /\ p \in Paths /\ a # NULL /\ a \in Artifacts
      /\ a.mode = IF p = Claude THEN "IMPORT" ELSE "MANAGED_BLOCK"
      /\ c \in NativeContents /\ c = FileContent(files[p])
      /\ Consumers(p) \in SUBSET Providers /\ a.consumers = Consumers(p)
      /\ ProperBridges(p, c, a)
      /\ ProperFile(p, files[p], a)
      /\ edits = 0 => Pristine(p, files[p], a)
  BY RegisteredArtifact, ContentIsProper DEF Consumers
<1>2. Kept(p, files[p], a)
  BY <1>1, UntouchedKeeps
<1>3. Written(p, c) = files[p]
  BY DEF Written
<1>4. ProperArtifact(p, a)
  BY <1>1 DEF ProperFile
<1>5. CASE p # Claude
  <2> DEFINE b == Block(p, Consumers(p))
             u == UpsertManagedBlock(c, b)
  <2>1. Restored(p) = u
    BY <1>1, <1>5 DEF Restored
  <2>2. CASE Blocks(c) # {}
    <3>1. u = c
      BY <2>2 DEF UpsertManagedBlock
    <3> QED
      BY <1>2, <1>3, <2>1, <3>1
  <2>3. CASE Blocks(c) = {}
    <3>1. /\ u = Appended(c, b)
          /\ u \in NativeContents /\ u # <<>>
          /\ RemovePossible(u, b)
          /\ \A i \in Blocks(u) : Blocks(u) = {i} /\ u[i] = b
          /\ Delimited(u)
          /\ Places(c, "import") = {} => Places(u, "import") = {}
          /\ Outside(u) = c /\ RemoveManagedBlock(u) = c
          /\ \A x : x # NULL /\ x.outside = c => UserPart(u, x) = c
      BY <1>1, <2>3, Upserted
    <3> DEFINE file == Written(p, u)
    <3>2. file \in NativeContents \cup {MISSING} /\ FileContent(file) = u
      BY <1>1, <3>1, WrittenContent
    <3> HIDE DEF file, u
    <3>3. ProperBridges(p, u, a)
      BY <1>1, <1>5, <3>1 DEF ProperBridges
    <3>4. edits # 0
      <4> SUFFICES ASSUME edits = 0 PROVE FALSE
        OBVIOUS
      <4> DEFINE was == FileContent(original[p])
                 v == UpsertManagedBlock(was, b)
      <4>1. c = Appended(was, Block(p, a.consumers))
        BY <1>1, <1>5 DEF Pristine
      <4>2. was \in NativeContents /\ Blocks(was) = {}
        BY <1>1, ContentIsProper, OriginalContent
      <4>3. v = Appended(was, b) /\ RemovePossible(v, b)
        BY <1>1, <4>2, Upserted
      <4>4. Blocks(v) # {} /\ v = c
        BY <1>1, <4>1, <4>3 DEF RemovePossible
      <4> QED
        BY <2>3, <4>4
    <3>5. VerifiedAs(p, u, a)
      BY <1>1, <1>5, <3>1 DEF VerifiedAs
    <3>6. UserPart(u, a) = UserContent(p)
      <4>1. Outside(c) = c
        BY <2>3 DEF Outside
      <4>2. a.outside = c
        BY <1>1, <1>5, <4>1 DEF Restorable
      <4>3. UserContent(p) = c
        BY <2>3 DEF UserContent, UserPart, Undelimited
      <4> QED
        BY <1>1, <3>1, <4>2, <4>3
    <3>7. Kept(p, file, a) /\ FileContent(file) = u /\ u # <<>> /\ VerifiedAs(p, u, a)
      BY <1>4, <3>1, <3>2, <3>3, <3>4, <3>5, <3>6 DEF Kept, ProperFile
    <3> QED
      BY <2>1, <3>7 DEF file
  <2> QED
    BY <2>2, <2>3
<1>6. CASE p = Claude
  <2> DEFINE r == WithImports(a, c)
  <2>1. Restored(p) = r /\ Restored(p) = a.sum
    BY <1>1, <1>6 DEF Restored, Restorable
  <2>2. /\ Blocks(c) = {}
        /\ \A t \in Targets : ImportPossible(c, t)
        /\ \A t \in Targets :
              Imports(c, t) => Owns(a, t) \/ (original[p] = ByHand /\ t = Instructions)
        /\ a.imports \in {<<>>, <<Instructions>>, <<Agents, Instructions>>}
    BY <1>1, <1>6, RegisteredArtifact DEF ProperBridges
  <2>3. /\ r \in NativeContents /\ Blocks(r) = {}
        /\ \A u \in Targets : /\ ImportPossible(r, u)
                              /\ Imports(c, u) => Imports(r, u)
                              /\ Imports(r, u) => Imports(c, u) \/ Owns(a, u)
        /\ r # c => Imports(r, Instructions) /\ r # <<>>
    BY <1>1, <2>2, WithImportsProperties
  <2>4. CASE r = c
    BY <1>2, <1>3, <2>1, <2>4
  <2>5. CASE r # c
    <3> DEFINE file == Written(p, r)
    <3>1. file \in NativeContents \cup {MISSING} /\ FileContent(file) = r
      BY <1>1, <2>3, WrittenContent
    <3> HIDE DEF file, r
    <3>2. ProperBridges(p, r, a)
      BY <1>6, <2>2, <2>3 DEF ProperBridges
    <3>3. edits # 0
      BY <1>1, <2>1, <2>5 DEF Pristine
    <3>4. VerifiedAs(p, r, a)
      <4>1. Instructions \in Targets
        BY DEF Targets
      <4> QED
        BY <1>1, <1>6, <2>3, <2>5, <4>1 DEF VerifiedAs
    <3>5. Kept(p, file, a)
      BY <1>4, <1>6, <3>1, <3>2, <3>3, <3>4 DEF Kept, ProperFile
    <3> QED
      BY <2>1, <2>3, <2>5, <3>1, <3>4, <3>5 DEF file
  <2> QED
    BY <2>4, <2>5
<1> QED
  BY <1>5, <1>6

\* A repair keeps every file, those included that it does not write.
LEMMA RepairKeeps ==
    ASSUME AdaptersInv, NEW generated, NEW native, Repair(generated, native)
    PROVE  /\ \A p \in Paths : Kept(p, files'[p], integrations'[p])
           /\ AdaptersInv'
<1>1. /\ files' = [p \in Paths |-> IF native /\ p \in Registered /\ Restorable(p)
                                   THEN Written(p, Restored(p)) ELSE files[p]]
      /\ UNCHANGED <<integrations, original, edits>>
  BY DEF Repair
<1>2. ASSUME NEW p \in Paths
      PROVE  Kept(p, files'[p], integrations'[p])
  <2>1. CASE native /\ p \in Registered /\ Restorable(p)
    BY <1>1, <2>1, RestoredKeeps
  <2>2. CASE ~(native /\ p \in Registered /\ Restorable(p))
    <3>1. files'[p] = files[p]
      BY <1>1, <2>2
    <3> QED
      BY <1>1, <3>1, UntouchedKeeps
  <2> QED
    BY <2>1, <2>2
<1>3. files' \in [Paths -> NativeContents \cup {MISSING}]
  <2>1. \A p \in Paths : files'[p] \in NativeContents \cup {MISSING}
    BY <1>2 DEF Kept, ProperFile
  <2> QED
    BY <1>1, <2>1
<1>4. integrations' \in [Paths -> Artifacts \cup {NULL}] /\ ValidManifest(integrations')
      /\ UNCHANGED <<original, edits>>
  BY <1>1 DEF AdaptersInv
<1>5. AdaptersInv'
  BY <1>2, <1>3, <1>4, KeptTogether
<1> QED
  BY <1>2, <1>5

\* An uninstallation keeps every file: all bridges go and nothing else.
LEMMA UninstallKeeps ==
    ASSUME AdaptersInv, Uninstall
    PROVE  /\ \A p \in Paths : Kept(p, files'[p], integrations'[p])
           /\ AdaptersInv'
<1>1. /\ \A p \in Registered : Unhookable(p)
      /\ files' = [p \in Paths |-> IF p \in Registered THEN Emptied(p, Bare(p)) ELSE files[p]]
      /\ integrations' = [p \in Paths |-> NULL]
      /\ UNCHANGED <<original, edits>>
  BY DEF Uninstall
<1>2. ASSUME NEW p \in Paths
      PROVE  Kept(p, files'[p], integrations'[p])
  <2>1. CASE p \in Registered
    <3>1. CASE p = Claude
      BY <1>1, <2>1, <3>1, BareImports
    <3>2. CASE p # Claude
      <4>1. integrations[p].mode = "MANAGED_BLOCK"
        BY <2>1, <3>2, RegisteredArtifact
      <4>2. \/ integrations[p].created /\ Content(p) = integrations[p].sum
            \/ RemovePossible(Content(p), Block(p, Consumers(p)))
        BY <1>1, <2>1, <4>1 DEF Unhookable, Consumers
      <4> QED
        BY <1>1, <2>1, <3>2, <4>2, BareManaged
    <3> QED
      BY <3>1, <3>2
  <2>2. CASE p \notin Registered
    <3>1. integrations[p] = NULL /\ files'[p] = files[p] /\ integrations'[p] = NULL
      BY <1>1, <2>2 DEF Registered
    <3> QED
      BY <3>1, UntouchedKeeps
  <2> QED
    BY <2>1, <2>2
<1>3. files' \in [Paths -> NativeContents \cup {MISSING}]
  <2>1. \A p \in Paths : files'[p] \in NativeContents \cup {MISSING}
    BY <1>2 DEF Kept, ProperFile
  <2> QED
    BY <1>1, <2>1
<1>4. integrations' \in [Paths -> Artifacts \cup {NULL}] /\ ValidManifest(integrations')
      /\ UNCHANGED <<original, edits>>
  BY <1>1 DEF ValidManifest
<1>5. AdaptersInv'
  BY <1>2, <1>3, <1>4, KeptTogether
<1> QED
  BY <1>2, <1>5

-----------------------------------------------------------------------------
(* The invariant of the adapters, and what follows from it.                *)

\* Providers look for the paths that are modelled.
LEMMA CandidatesArePaths ==
    ASSUME NEW id \in Providers
    PROVE  Candidates(id) \subseteq Paths
BY KnownProviders DEF Candidates, Paths

\* What a step may do to the native files and the manifest.
LEMMA NativeSteps ==
    ASSUME [Next]_vars
    PROVE  \/ AdapterMaintenance
           \/ Uninstall
           \/ \E generated, native \in BOOLEAN : Repair(generated, native)
           \/ UNCHANGED avars
           \/ UserEdit
           \/ LoseInstructions
<1>1. StartUpgrade \/ AnnounceChange \/ PublishChange \/ CompleteUpgrade \/ InterruptUpgrade
         => UNCHANGED avars
  BY DEF StartUpgrade, AnnounceChange, PublishChange, CompleteUpgrade, InterruptUpgrade
<1>2. (\E action \in {"CONTINUE", "ROLLBACK"} : PlanRecovery(action)) \/ BeginRecovery
         \/ PublishRecovery \/ CompleteRecovery \/ AbandonRecovery => UNCHANGED avars
  BY DEF PlanRecovery, BeginRecovery, PublishRecovery, CompleteRecovery, AbandonRecovery
<1>3. (UNCHANGED vars => UNCHANGED avars) /\ (EditNative => UserEdit)
  BY DEF vars, EditNative
<1> QED
  BY <1>1, <1>2, <1>3 DEF Next

\* Every command keeps every file, whatever else it does.
LEMMA CommandsKeep ==
    ASSUME AdaptersInv, [Next]_vars, edits' = edits
    PROVE  \A p \in Paths : Kept(p, files'[p], integrations'[p])
<1>1. CASE AdapterMaintenance
  BY <1>1, RemoveKeeps, AddKeeps DEF AdapterMaintenance, AdapterCommand
<1>2. CASE Uninstall
  BY <1>2, UninstallKeeps
<1>3. CASE \E generated, native \in BOOLEAN : Repair(generated, native)
  BY <1>3, RepairKeeps
<1>4. CASE UNCHANGED avars
  BY <1>4, UntouchedKeeps DEF avars
<1>5. ~UserEdit /\ ~LoseInstructions
  BY EditsAreBounded DEF AdaptersInv, UserEdit, Edit, LoseInstructions
<1> QED
  BY <1>1, <1>2, <1>3, <1>4, <1>5, NativeSteps

\* Every step of the maintenance keeps the invariant of the adapters.
LEMMA AdaptersInvStep ==
    ASSUME AdaptersInv, [Next]_vars
    PROVE  AdaptersInv'
<1>1. CASE AdapterMaintenance
  BY <1>1, RemoveKeeps, AddKeeps DEF AdapterMaintenance, AdapterCommand
<1>2. CASE Uninstall
  BY <1>2, UninstallKeeps
<1>3. CASE \E generated, native \in BOOLEAN : Repair(generated, native)
  BY <1>3, RepairKeeps
<1>4. CASE UNCHANGED avars
  <2>1. \A p \in Paths : Kept(p, files'[p], integrations'[p])
    BY <1>4, UntouchedKeeps DEF avars
  <2>2. /\ files' \in [Paths -> NativeContents \cup {MISSING}]
        /\ integrations' \in [Paths -> Artifacts \cup {NULL}]
        /\ ValidManifest(integrations')
        /\ UNCHANGED <<original, edits>>
    BY <1>4 DEF AdaptersInv, avars
  <2> QED
    BY <2>1, <2>2, KeptTogether
<1>5. CASE UserEdit
  <2>1. PICK id \in Providers : \E p \in Candidates(id), how \in Edits : Edit(p, how)
    BY <1>5 DEF UserEdit
  <2> QED
    BY <2>1, CandidatesArePaths, EditKeepsInv
<1>6. CASE LoseInstructions
  <2>1. edits < MaxEdits /\ edits' = edits + 1 /\ UNCHANGED <<files, integrations, original>>
    BY <1>6 DEF LoseInstructions
  <2>2. edits' \in 0..MaxEdits /\ edits' # 0
    BY <2>1, EditsAreBounded DEF AdaptersInv
  <2>3. ASSUME NEW p \in Paths
        PROVE  ProperFile(p, files[p], integrations[p])'
    <3>1. ProperFile(p, files[p], integrations[p])
      BY DEF AdaptersInv
    <3>2. files'[p] \in NativeContents \cup {MISSING} /\ ProperArtifact(p, integrations[p])'
      BY <2>1, <3>1 DEF ProperFile
    <3>3. ProperBridges(p, FileContent(files[p]), integrations[p])'
      BY <2>1, <3>1 DEF ProperFile, ProperBridges
    <3> QED
      BY <2>2, <3>2, <3>3 DEF ProperFile
  <2>4. ValidManifest(integrations)'
    BY <2>1 DEF AdaptersInv, ValidManifest
  <2>5. /\ (files \in [Paths -> NativeContents \cup {MISSING}])'
        /\ (integrations \in [Paths -> Artifacts \cup {NULL}])'
        /\ (original \in [Paths -> Originals])'
        /\ (\A p \in Paths : original[p] = ByHand => p = Claude)'
    BY <2>1 DEF AdaptersInv
  <2> QED
    BY <2>2, <2>3, <2>4, <2>5 DEF AdaptersInv
<1> QED
  BY <1>1, <1>2, <1>3, <1>4, <1>5, <1>6, NativeSteps

\* Wherever the maintenance gets to, files and manifest agree as they should:
\* artifacts are registered where providers look for them, bridges are where
\* artifacts say, and what nobody edited is what commands made of it.
THEOREM AdaptersInvariant == Spec => []AdaptersInv
<1>1. Init => AdaptersInv
  BY InitKeepsInv DEF Init
<1>2. AdaptersInv /\ [Next]_vars => AdaptersInv'
  BY AdaptersInvStep
<1> QED
  BY <1>1, <1>2, PTL DEF Spec

\* A file that nobody registers has no bridge.
THEOREM NoBridgeStrays == Spec => []NoStrayBridges
<1>1. AdaptersInv => NoStrayBridges
  <2> SUFFICES ASSUME AdaptersInv, NEW p \in Paths \ Registered
               PROVE  /\ Blocks(Content(p)) = {}
                      /\ \A t \in {Agents, Instructions} :
                            Imports(Content(p), t) => original[p] = ByHand /\ t = Instructions
    BY DEF NoStrayBridges
  <2>1. integrations[p] = NULL /\ ProperBridges(p, Content(p), NULL)
    BY ContentIsProper DEF ProperFile
  <2>2. CASE p = Claude
    BY <2>1, <2>2 DEF ProperBridges, Owns, Targets
  <2>3. CASE p # Claude
    <3>1. Blocks(Content(p)) = {} /\ Places(Content(p), "import") = {}
      BY <2>1, <2>3 DEF ProperBridges
    <3>2. \A t : ~Imports(Content(p), t)
      BY <3>1, Kinds DEF Imports, Lines, Places
    <3> QED
      BY <3>1, <3>2
  <2> QED
    BY <2>2, <2>3
<1> QED
  BY <1>1, AdaptersInvariant, PTL

\* Without the user's edits, what is not registered is as it was before UAWP.
THEOREM DetachingLeavesNoTrace == Spec => []DetachingRestores
<1>1. AdaptersInv => DetachingRestores
  <2> SUFFICES ASSUME AdaptersInv, edits = 0, NEW p \in Paths \ Registered
               PROVE  files[p] = original[p] \/ (original[p] = <<>> /\ files[p] = MISSING)
    BY DEF DetachingRestores
  <2>1. integrations[p] = NULL /\ Pristine(p, files[p], NULL)
    BY ContentIsProper DEF ProperFile
  <2> QED
    BY <2>1 DEF Pristine
<1> QED
  BY <1>1, AdaptersInvariant, PTL

\* A provider has one entry.
LEMMA OneEntry ==
    ASSUME AdaptersInv, NEW id, NEW p \in EntriesOf(id), NEW q \in EntriesOf(id)
    PROVE  p = q
BY DEF AdaptersInv, ValidManifest, EntriesOf, Registered, Consumers

\* What stands in a file that is verified, and that there is something in it.
LEMMA VerifiedFile ==
    ASSUME AdaptersInv, NEW p \in Registered, Verified(p)
    PROVE  /\ Content(p) # <<>> /\ files[p] # MISSING
           /\ p # Claude => RemovePossible(Content(p), Block(p, Consumers(p)))
           /\ BarePossible(p)
<1>1. /\ integrations[p].mode = IF p = Claude THEN "IMPORT" ELSE "MANAGED_BLOCK"
      /\ integrations[p].imports \in IF p = Claude
            THEN {<<>>, <<Instructions>>, <<Agents, Instructions>>} ELSE {<<>>}
      /\ ProperBridges(p, Content(p), integrations[p])
  BY RegisteredArtifact
<1>2. DOMAIN <<>> = {}
  OBVIOUS
<1>3. ~Imports(<<>>, Instructions) /\ \A b : ~RemovePossible(<<>>, b)
  BY <1>2 DEF Imports, Lines, RemovePossible, Blocks, Places
<1>4. p # Claude => RemovePossible(Content(p), Block(p, Consumers(p)))
  BY <1>1 DEF Verified, Consumers
<1>5. p = Claude => Imports(Content(p), Instructions)
  BY <1>1 DEF Verified
<1>6. Content(p) # <<>>
  BY <1>3, <1>4, <1>5
<1>7. files[p] # MISSING
  BY <1>6 DEF Content
<1>8. p = Claude => AllRemovable(integrations[p], Content(p))
  <2> SUFFICES ASSUME p = Claude, NEW i \in DOMAIN integrations[p].imports
               PROVE  ImportPossible(Content(p), integrations[p].imports[i])
    BY DEF AllRemovable
  <2> DEFINE imports == integrations[p].imports
  <2>1. imports \in {<<>>, <<Instructions>>, <<Agents, Instructions>>}
    BY <1>1
  <2>2. \A t \in Targets : ImportPossible(Content(p), t)
    BY <1>1 DEF ProperBridges
  <2>3. imports[i] \in Targets
    <3>1. CASE imports = <<>>
      BY <1>2, <3>1
    <3>2. CASE imports = <<Instructions>>
      BY <3>2 DEF Targets
    <3>3. CASE imports = <<Agents, Instructions>>
      BY <3>3 DEF Targets
    <3> QED
      BY <2>1, <3>1, <3>2, <3>3
  <2> QED
    BY <2>2, <2>3
<1>9. BarePossible(p)
  BY <1>1, <1>4, <1>8 DEF BarePossible, Consumers
<1> QED
  BY <1>4, <1>6, <1>7, <1>9

\* What is healthy can be taken away.
THEOREM HealthyIsRemovable == Spec => []HealthyCanBeRemoved
<1>1. AdaptersInv => HealthyCanBeRemoved
  <2> SUFFICES ASSUME AdaptersInv, NEW id \in Configured, Healthy(id, ""), NEW p \in EntriesOf(id)
               PROVE  Detachable(p, id)
    BY DEF HealthyCanBeRemoved
  <2>1. PICK q \in EntriesOf(id) : Verified(q)
    BY DEF Healthy
  <2>2. p \in Registered /\ Verified(p) /\ id \in Consumers(p)
    BY <2>1, OneEntry DEF EntriesOf
  <2>3. /\ files[p] # MISSING /\ BarePossible(p)
        /\ p # Claude => RemovePossible(Content(p), Block(p, Consumers(p)))
    BY <2>2, VerifiedFile
  <2>4. Remaining(p, id) # {} => p # Claude
    <3> SUFFICES ASSUME p = Claude, NEW other \in Remaining(p, id) PROVE FALSE
      OBVIOUS
    <3>1. \A i \in Consumers(p) : i = "claude-code"
      BY <2>2, RegisteredArtifact, ClaudeIsForClaude
    <3> QED
      BY <2>2, <3>1 DEF Remaining
  <2> QED
    BY <2>3, <2>4 DEF Detachable
<1> QED
  BY <1>1, AdaptersInvariant, PTL

\* A command breaks no bridge it does not remove.
THEOREM BridgesAreKept == Spec => CommandsKeepBridges
<1> DEFINE Keeps == edits' = edits =>
                \A p \in Registered' : (p \in Registered => Verified(p)) => Verified(p)'
<1>1. AdaptersInv /\ [Next]_vars => Keeps
  <2> SUFFICES ASSUME AdaptersInv, [Next]_vars, edits' = edits, NEW p \in Registered',
                      p \in Registered => Verified(p)
               PROVE  Verified(p)'
    OBVIOUS
  <2>1. p \in Paths /\ integrations'[p] # NULL
    BY DEF Registered
  <2>2. Kept(p, files'[p], integrations'[p])
    BY <2>1, CommandsKeep
  <2>3. VerifiedAs(p, FileContent(files'[p]), integrations'[p])
    BY <2>1, <2>2 DEF Kept
  <2>4. Content(p)' = FileContent(files'[p])
    BY DEF Content, FileContent
  <2> QED
    BY <2>3, <2>4 DEF Verified, VerifiedAs
<1>2. AdaptersInv /\ [Next]_vars => [Keeps]_vars
  BY <1>1
<1> HIDE DEF Keeps
<1>3. Spec => [][Keeps]_vars
  BY <1>2, AdaptersInvariant, PTL DEF Spec
<1> QED
  BY <1>3 DEF CommandsKeepBridges, Keeps

\* What a user has outside of the blocks stays as it is, his line break before a
\* block included, but for a file that is deleted on its fingerprint, and but for
\* the line break he put before a block that was written into an empty file.
THEOREM OutsideStays == Spec => OutsideIsKept
<1> DEFINE Keeps == edits' = edits =>
                \A p \in Paths \ {Claude} :
                   \/ UserContent(p)' = UserContent(p)
                   \/ /\ files'[p] = MISSING /\ p \in Registered
                      /\ integrations[p].created /\ Content(p) = integrations[p].sum
                   \/ /\ p \in Registered /\ integrations[p].outside = <<>>
                      /\ BreakBefore(Content(p))
                      /\ UserContent(p)' = Outside(Content(p))
<1>1. AdaptersInv /\ [Next]_vars => Keeps
  <2> SUFFICES ASSUME AdaptersInv, [Next]_vars, edits' = edits, NEW p \in Paths \ {Claude}
               PROVE  \/ UserContent(p)' = UserContent(p)
                      \/ /\ files'[p] = MISSING /\ p \in Registered
                         /\ integrations[p].created /\ Content(p) = integrations[p].sum
                      \/ /\ p \in Registered /\ integrations[p].outside = <<>>
                         /\ BreakBefore(Content(p))
                         /\ UserContent(p)' = Outside(Content(p))
    OBVIOUS
  <2>1. Kept(p, files'[p], integrations'[p])
    BY CommandsKeep
  <2>2. Content(p)' = FileContent(files'[p])
    BY DEF Content, FileContent
  <2>3. UserContent(p)' = UserPart(FileContent(files'[p]), integrations'[p])
    BY <2>2 DEF UserContent
  <2> QED
    BY <2>1, <2>3 DEF Kept
<1>2. AdaptersInv /\ [Next]_vars => [Keeps]_vars
  BY <1>1
<1> HIDE DEF Keeps
<1>3. Spec => [][Keeps]_vars
  BY <1>2, AdaptersInvariant, PTL DEF Spec
<1> QED
  BY <1>3 DEF OutsideIsKept, Keeps

-----------------------------------------------------------------------------
(* What is repaired is healed.                                             *)

\* Two files of the same provider are not both registered.
LEMMA OneRegistered ==
    ASSUME AdaptersInv, NEW p \in Registered, NEW q \in Registered, p # q
    PROVE  ArtifactID(p) # ArtifactID(q) /\ Consumers(p) \cap Consumers(q) = {}
BY DEF AdaptersInv, ValidManifest, Registered, Consumers

\* Only WorkBuddy reads CODEBUDDY.md.
LEMMA CodeBuddyIsForWorkBuddy ==
    ASSUME NEW id \in Providers, CodeBuddy \in Candidates(id)
    PROVE  id = "workbuddy"
BY KnownProviders DEF Candidates, Override, Agents, Claude, CodeBuddy

\* The other file a provider could be routed to is not one that repair writes.
LEMMA RouteStays ==
    ASSUME AdaptersInv, NEW generated, NEW native, Repair(generated, native),
           NEW p \in Registered, files'[p] # files[p], NEW id \in Consumers(p), RoutedTo(p, id)
    PROVE  /\ RouteOf(id, EffectiveFacts(id, ""))'.path = p
           /\ RouteOf(id, EffectiveFacts(id, ""))'.mode = integrations'[p].mode
<1>1. PICK facts : facts = EffectiveFacts(id, "")
  OBVIOUS
<1>2. /\ files' = [q \in Paths |-> IF native /\ q \in Registered /\ Restorable(q)
                                   THEN Written(q, Restored(q)) ELSE files[q]]
      /\ UNCHANGED <<integrations, original, edits>>
  BY DEF Repair
<1>3. EffectiveFacts(id, "")' = facts
  BY <1>1, <1>2 DEF EffectiveFacts, EntriesOf, Registered, Consumers
<1>4. p \in Paths /\ id \in Providers /\ p \in Candidates(id) /\ Consumers(p) # {}
  BY RegisteredArtifact
<1>5. Present(p)'
  <2>1. Restorable(p) /\ files'[p] = Written(p, Restored(p))
    BY <1>2, <1>4
  <2>2. FileContent(files'[p]) # <<>>
    BY <2>1, RestoredKeeps
  <2> QED
    BY <2>2 DEF Present, Content, FileContent
<1>6. ASSUME NEW q \in Paths \ Registered
      PROVE  Present(q)' <=> Present(q)
  BY <1>2 DEF Present, Content
<1>7. /\ RouteOf(id, facts).path = p
      /\ RouteOf(id, facts).mode = integrations[p].mode
  BY <1>1 DEF RoutedTo
<1>8. id \in {"codex", "claude-code", "workbuddy"}
  BY <1>4, KnownProviders
<1>9. /\ RouteOf(id, EffectiveFacts(id, ""))'.path = RouteOf(id, facts)'.path
      /\ RouteOf(id, EffectiveFacts(id, ""))'.mode = RouteOf(id, facts)'.mode
      /\ RouteOf(id, facts)'.path = p /\ RouteOf(id, facts)'.mode = RouteOf(id, facts).mode
  <2>1. CASE id = "codex"
    <3>1. CASE p = Override
      BY <1>3, <1>5, <1>7, <2>1, <3>1 DEF RouteOf, CodexRoute, Route
    <3>2. CASE p # Override
      <4>1. p = Agents /\ ~Present(Override) /\ Override \in Paths
        BY <1>4, <1>7, <2>1, <3>2 DEF RouteOf, CodexRoute, Route, Candidates, Paths
      <4>2. Override \notin Registered
        <5>1. ArtifactID(Override) = ArtifactID(Agents) /\ Override # Agents
          BY DEF ArtifactID, Agents, Override, Claude, CodeBuddy
        <5> QED
          BY <4>1, <5>1, OneRegistered
      <4>3. ~Present(Override)'
        BY <1>6, <4>1, <4>2
      <4> QED
        BY <1>3, <1>7, <2>1, <4>1, <4>3 DEF RouteOf, CodexRoute, Route
    <3> QED
      BY <3>1, <3>2
  <2>2. CASE id = "workbuddy"
    <3>1. CASE p = CodeBuddy
      BY <1>3, <1>5, <1>7, <2>2, <3>1 DEF RouteOf, WorkBuddyRoute, Route
    <3>2. CASE p # CodeBuddy
      <4>1. p = Agents /\ ~Present(CodeBuddy) /\ CodeBuddy \in Paths
        BY <1>4, <1>7, <2>2, <3>2 DEF RouteOf, WorkBuddyRoute, Route, Candidates, Paths
      <4>2. CodeBuddy \notin Registered
        <5> SUFFICES ASSUME CodeBuddy \in Registered PROVE FALSE
          OBVIOUS
        <5>1. Consumers(CodeBuddy) # {} /\ \A i \in Consumers(CodeBuddy) : i = "workbuddy"
          BY RegisteredArtifact, CodeBuddyIsForWorkBuddy
        <5>2. "workbuddy" \in Consumers(CodeBuddy) /\ "workbuddy" \in Consumers(p)
          BY <2>2, <5>1
        <5> QED
          BY <3>2, <5>2, OneRegistered
      <4>3. ~Present(CodeBuddy)'
        BY <1>6, <4>1, <4>2
      <4> QED
        BY <1>3, <1>5, <1>7, <2>2, <4>1, <4>3 DEF RouteOf, WorkBuddyRoute, Route
    <3> QED
      BY <3>1, <3>2
  <2>3. CASE id = "claude-code"
    <3>1. CASE p = Claude
      BY <1>3, <1>5, <1>7, <2>3, <3>1 DEF RouteOf, ClaudeRoute, Route, Claude, Agents
    <3>2. CASE p # Claude
      <4>1. p = Agents /\ ~Present(Claude) /\ facts = "true" /\ Claude \in Paths
        BY <1>4, <1>7, <2>3, <3>2 DEF RouteOf, ClaudeRoute, Route, Candidates, Paths
      <4>2. Claude \notin Registered
        <5> SUFFICES ASSUME Claude \in Registered PROVE FALSE
          OBVIOUS
        <5>1. Consumers(Claude) # {} /\ \A i \in Consumers(Claude) : i = "claude-code"
          BY RegisteredArtifact, ClaudeIsForClaude
        <5>2. "claude-code" \in Consumers(Claude) /\ "claude-code" \in Consumers(p)
          BY <2>3, <5>1
        <5> QED
          BY <3>2, <5>2, OneRegistered
      <4>3. ~Present(Claude)'
        BY <1>6, <4>1, <4>2
      <4> QED
        BY <1>3, <1>5, <1>7, <2>3, <4>1, <4>3 DEF RouteOf, ClaudeRoute, Route
    <3> QED
      BY <3>1, <3>2
  <2> QED
    BY <1>8, <2>1, <2>2, <2>3
<1> QED
  BY <1>2, <1>7, <1>9

\* A repair heals who reads what it writes.
THEOREM RepairsHeal == Spec => RepairHeals
<1> DEFINE Heals == (\E generated, native \in BOOLEAN : Repair(generated, native)) =>
                \A p \in Registered : files'[p] # files[p] =>
                    \A id \in Consumers(p) : Healthy(id, "")'
<1>1. AdaptersInv /\ [Next]_vars => Heals
  <2> SUFFICES ASSUME AdaptersInv, NEW generated \in BOOLEAN, NEW native \in BOOLEAN,
                      Repair(generated, native), NEW p \in Registered, files'[p] # files[p],
                      NEW id \in Consumers(p)
               PROVE  Healthy(id, "")'
    OBVIOUS
  <2>1. /\ files' = [q \in Paths |-> IF native /\ q \in Registered /\ Restorable(q)
                                     THEN Written(q, Restored(q)) ELSE files[q]]
        /\ UNCHANGED <<integrations, original, edits>>
    BY DEF Repair
  <2>2. p \in Paths
    BY DEF Registered
  <2>3. Restorable(p) /\ files'[p] = Written(p, Restored(p))
    BY <2>1, <2>2
  <2>4. VerifiedAs(p, FileContent(files'[p]), integrations[p])
    BY <2>3, RestoredKeeps
  <2>5. Verified(p)'
    BY <2>1, <2>4 DEF Verified, VerifiedAs, Content, FileContent
  <2>6. RoutedTo(p, id)
    BY <2>3 DEF Restorable, Consumers
  <2>7. /\ RouteOf(id, EffectiveFacts(id, ""))'.path = p
        /\ RouteOf(id, EffectiveFacts(id, ""))'.mode = integrations'[p].mode
    BY <2>6, RouteStays
  <2>8. p \in EntriesOf(id)'
    BY <2>1 DEF EntriesOf, Registered, Consumers
  <2> QED
    BY <2>5, <2>7, <2>8 DEF Healthy
<1>2. AdaptersInv /\ [Next]_vars => [Heals]_vars
  BY <1>1
<1> HIDE DEF Heals
<1>3. Spec => [][Heals]_vars
  BY <1>2, AdaptersInvariant, PTL DEF Spec
<1> QED
  BY <1>3 DEF RepairHeals, Heals

-----------------------------------------------------------------------------
(* The migration steps, and the plan they make.                            *)

\* The two migration steps.
First == Step(V1_0, V1_1)
Second == Step(V1_1, CurrentStateVersion)

\* The versions and the steps of this program.
LEMMA StepsInOrder ==
    /\ V1_0 # V1_1 /\ V1_0 # CurrentStateVersion /\ V1_1 # CurrentStateVersion
    /\ First # Second /\ Cardinality(Steps) = 2
    /\ Leaving(Steps, V1_0) = {First} /\ Leaving(Steps, V1_1) = {Second}
    /\ First.to = V1_1 /\ Second.to = CurrentStateVersion
    /\ ~Before(CurrentStateVersion, V1_0)
    /\ ~Before(CurrentStateVersion, V1_1)
    /\ ~Before(CurrentStateVersion, CurrentStateVersion)
<1> DEFINE target == CurrentStateVersion
<1>1. /\ V1_0[1] = 1 /\ V1_0[2] = 0 /\ V1_0[3] = 0
      /\ V1_1[1] = 1 /\ V1_1[2] = 1 /\ V1_1[3] = 0
      /\ target[1] = 1 /\ target[2] = 2 /\ target[3] = 0
  BY DEF V1_0, V1_1, CurrentStateVersion
<1>2. \A i \in 1..3 : i \in {1, 2, 3}
  OBVIOUS
<1>3. ~Before(target, V1_0) /\ ~Before(target, V1_1) /\ ~Before(target, target)
  <2> HIDE DEF target
  <2>1. \A i \in 1..3 : ~(target[i] < V1_0[i]) /\ ~(target[i] < V1_1[i]) /\ ~(target[i] < target[i])
    BY <1>1, <1>2
  <2> QED
    BY <2>1 DEF Before
<1>4. V1_0 # V1_1 /\ V1_0 # target /\ V1_1 # target
  <2> HIDE DEF target
  <2> QED
    BY <1>1
<1> HIDE DEF target
<1>5. /\ First.from = V1_0 /\ First.to = V1_1 /\ Second.from = V1_1 /\ Second.to = target
      /\ Steps = {First, Second}
  BY DEF First, Second, Step, Steps, target
<1>6. First # Second
  BY <1>4, <1>5
<1>7. Leaving(Steps, V1_0) = {First} /\ Leaving(Steps, V1_1) = {Second}
  BY <1>4, <1>5 DEF Leaving
<1>8. Cardinality(Steps) = 2
  <2>1. Cardinality({Second}) = 1 /\ IsFiniteSet({Second})
    BY FS_Singleton
  <2>2. Cardinality({Second} \cup {First}) = Cardinality({Second}) + 1
    BY <1>6, <2>1, FS_AddElement
  <2>3. Steps = {Second} \cup {First}
    BY <1>5
  <2> QED
    BY <2>1, <2>2, <2>3
<1> QED
  BY <1>3, <1>4, <1>5, <1>6, <1>7, <1>8 DEF target

\* The way of steps that Resolve goes, from its beginning and one step on.
Start(from) == [at |-> from, taken |-> <<>>, ok |-> ~Before(CurrentStateVersion, from)]
After(w) ==
    IF ~w.ok \/ w.at = CurrentStateVersion THEN w
    ELSE IF Leaving(Steps, w.at) = {} THEN [w EXCEPT !.ok = FALSE]
    ELSE LET s == CHOOSE s \in Leaving(Steps, w.at) : TRUE IN
         IF Before(CurrentStateVersion, s.to) THEN [w EXCEPT !.ok = FALSE]
         ELSE [at |-> s.to, taken |-> Append(w.taken, s), ok |-> TRUE]

\* Resolve looks for a way of at most two steps.
LEMMA PathUnfolds ==
    ASSUME NEW from
    PROVE  Path(Steps, from, CurrentStateVersion) = After(After(Start(from)))
<1> DEFINE IsWalk(f) == f = [n \in 0..2 |-> IF n = 0 THEN Start(from) ELSE After(f[n - 1])]
           Walk == CHOOSE f : IsWalk(f)
<1>1. Path(Steps, from, CurrentStateVersion) = Walk[2]
  <2> DEFINE Walked == CHOOSE f : f = [n \in 0..Cardinality(Steps) |->
                          IF n = 0 THEN Start(from) ELSE After(f[n - 1])]
  <2>1. Path(Steps, from, CurrentStateVersion) = Walked[Cardinality(Steps)]
    BY Zenon DEF Path, Start, After
  <2>2. Cardinality(Steps) = 2
    BY StepsInOrder
  <2> QED
    BY Zenon, <2>1, <2>2
<1> DEFINE one == After(Start(from))
           two == After(one)
           f == [n \in 0..2 |-> IF n = 0 THEN Start(from) ELSE IF n = 1 THEN one ELSE two]
<1>2. IsWalk(f)
  <2>1. \A n \in 0..2 : f[n] = IF n = 0 THEN Start(from) ELSE After(f[n - 1])
    <3> TAKE n \in 0..2
    <3>1. n = 0 \/ n = 1 \/ n = 2
      OBVIOUS
    <3>2. f[0] = Start(from) /\ f[1] = one /\ f[2] = two
      OBVIOUS
    <3> HIDE DEF f
    <3>3. n = 1 => n - 1 = 0
      OBVIOUS
    <3>4. n = 2 => n - 1 = 1
      OBVIOUS
    <3> QED
      BY <3>1, <3>2, <3>3, <3>4
  <2>2. f = [n \in 0..2 |-> f[n]]
    OBVIOUS
  <2> HIDE DEF f
  <2> QED
    BY <2>1, <2>2
<1> HIDE DEF f
<1>3. IsWalk(Walk)
  <2> HIDE DEF IsWalk
  <2> QED
    BY <1>2
<1> HIDE DEF Walk
<1>4. Walk[0] = Start(from)
  BY <1>3
<1>5. Walk[1] = After(Walk[0])
  <2>1. 1 \in 0..2 /\ 1 # 0 /\ 1 - 1 = 0
    OBVIOUS
  <2> QED
    BY <1>3, <2>1
<1>6. Walk[2] = After(Walk[1])
  <2>1. 2 \in 0..2 /\ 2 # 0 /\ 2 - 1 = 1
    OBVIOUS
  <2> QED
    BY <1>3, <2>1
<1> QED
  BY <1>1, <1>4, <1>5, <1>6

\* The ways from both older versions.
LEMMA WaysFound ==
    /\ Resolve(Steps, V1_0, CurrentStateVersion) = <<First, Second>>
    /\ Resolve(Steps, V1_1, CurrentStateVersion) = <<Second>>
<1> DEFINE target == CurrentStateVersion
           Begun(v) == [at |-> v, taken |-> <<>>, ok |-> TRUE]
<1>1. Start(V1_0) = Begun(V1_0) /\ Start(V1_1) = Begun(V1_1)
  BY StepsInOrder DEF Start
<1>2. ASSUME NEW w, w.ok = TRUE, w.at = V1_0
      PROVE  After(w) = [at |-> V1_1, taken |-> Append(w.taken, First), ok |-> TRUE]
  <2>1. (CHOOSE s \in {First} : TRUE) = First
    OBVIOUS
  <2> QED
    BY <1>2, <2>1, StepsInOrder DEF After
<1>3. ASSUME NEW w, w.ok = TRUE, w.at = V1_1
      PROVE  After(w) = [at |-> target, taken |-> Append(w.taken, Second), ok |-> TRUE]
  <2>1. (CHOOSE s \in {Second} : TRUE) = Second
    OBVIOUS
  <2> QED
    BY <1>3, <2>1, StepsInOrder DEF After
<1>4. ASSUME NEW w, w.at = target
      PROVE  After(w) = w
  BY <1>4 DEF After
<1>5. Append(<<>>, First) = <<First>> /\ Append(<<>>, Second) = <<Second>>
      /\ Append(<<First>>, Second) = <<First, Second>>
  <2>1. Append(<<>>, First) = <<First>>
    OBVIOUS
  <2>2. Append(<<>>, Second) = <<Second>>
    OBVIOUS
  <2>3. Append(<<First>>, Second) = <<First, Second>>
    <3>1. PICK T : T = {First, Second}
      OBVIOUS
    <3>2. \A s, t \in T : <<s, t>> = Append(<<s>>, t)
      OBVIOUS
    <3> QED
      BY <3>1, <3>2
  <2> QED
    BY <2>1, <2>2, <2>3
<1> HIDE DEF target
<1>6. PICK w1 : w1 = After(Start(V1_0))
  OBVIOUS
<1>7. w1.at = V1_1 /\ w1.taken = <<First>> /\ w1.ok = TRUE
  <2>1. PICK w0 : w0 = Start(V1_0)
    OBVIOUS
  <2>2. w0.at = V1_0 /\ w0.taken = <<>> /\ w0.ok = TRUE
    BY <1>1, <2>1
  <2>3. w1 = [at |-> V1_1, taken |-> Append(w0.taken, First), ok |-> TRUE]
    BY <1>2, <1>6, <2>1, <2>2
  <2> QED
    BY <1>5, <2>2, <2>3
<1>8. After(w1).taken = <<First, Second>>
  <2>1. After(w1) = [at |-> target, taken |-> Append(w1.taken, Second), ok |-> TRUE]
    BY <1>3, <1>7
  <2> QED
    BY <1>5, <1>7, <2>1
<1>9. PICK v1 : v1 = After(Start(V1_1))
  OBVIOUS
<1>10. v1.at = target /\ v1.taken = <<Second>>
  <2>1. PICK v0 : v0 = Start(V1_1)
    OBVIOUS
  <2>2. v0.at = V1_1 /\ v0.taken = <<>> /\ v0.ok = TRUE
    BY <1>1, <2>1
  <2>3. v1 = [at |-> target, taken |-> Append(v0.taken, Second), ok |-> TRUE]
    BY <1>3, <1>9, <2>1, <2>2
  <2> QED
    BY <1>5, <2>2, <2>3
<1>11. After(v1) = v1
  BY <1>4, <1>10
<1> QED
  BY <1>6, <1>8, <1>9, <1>10, <1>11, PathUnfolds DEF Resolve

\* What an upgrade plans, of both older versions.
LEMMA UpgradeChangesUnfold ==
    /\ version = V1_0 => UpgradeChanges
          = Append((<<>> \o MissingDirectories) \o <<Rewrite("claim")>>, Rewrite("manifest"))
    /\ version = V1_1 => UpgradeChanges = Append(<<>> \o <<Rewrite("claim")>>, Rewrite("manifest"))
<1> DEFINE steps == Resolve(Steps, version, CurrentStateVersion)
           n == Len(steps)
           IsPlan(f) == f = [i \in 0..n |->
              IF i = 0 THEN <<>> ELSE f[i - 1] \o StepChanges(steps[i])]
           Plan == CHOOSE f : IsPlan(f)
<1>1. UpgradeChanges = Append(Plan[n], Rewrite("manifest"))
  BY Zenon DEF UpgradeChanges
<1> DEFINE one == <<>> \o StepChanges(steps[1])
           two == one \o StepChanges(steps[2])
           f == [i \in 0..n |-> IF i = 0 THEN <<>> ELSE IF i = 1 THEN one ELSE two]
<1>2. ASSUME n \in {1, 2}
      PROVE  IsPlan(Plan)
  <2>1. \A i \in 0..n : f[i] = IF i = 0 THEN <<>> ELSE f[i - 1] \o StepChanges(steps[i])
    <3> TAKE i \in 0..n
    <3>1. i \in {0, 1, 2} /\ (i # 0 => i - 1 \in 0..n)
      <4> HIDE DEF n
      <4> QED
        BY <1>2
    <3>2. CASE i = 0
      BY <3>2
    <3>3. CASE i = 1
      <4>1. f[i] = one /\ f[i - 1] = <<>>
        BY <3>1, <3>3
      <4> HIDE DEF f
      <4> QED
        BY <3>3, <4>1
    <3>4. CASE i = 2
      <4>1. f[i] = two /\ f[i - 1] = one
        BY <3>1, <3>4
      <4> HIDE DEF f
      <4> QED
        BY <3>4, <4>1
    <3> QED
      BY <3>1, <3>2, <3>3, <3>4
  <2>2. f = [i \in 0..n |-> f[i]]
    OBVIOUS
  <2> HIDE DEF f
  <2>3. IsPlan(f)
    BY <2>1, <2>2
  <2> HIDE DEF IsPlan
  <2> QED
    BY <2>3
<1> HIDE DEF Plan
<1>3. ASSUME n \in {1, 2}, NEW i \in 0..n
      PROVE  Plan[i] = IF i = 0 THEN <<>> ELSE Plan[i - 1] \o StepChanges(steps[i])
  BY <1>2, <1>3
<1>4. n = 1 => Plan[n] = <<>> \o StepChanges(steps[1])
  <2> SUFFICES ASSUME n = 1 PROVE Plan[1] = <<>> \o StepChanges(steps[1])
    OBVIOUS
  <2>1. Plan[0] = <<>>
    BY <1>3
  <2>2. Plan[1] = Plan[0] \o StepChanges(steps[1])
    <3>1. Plan[1] = Plan[1 - 1] \o StepChanges(steps[1])
      BY <1>3
    <3>2. 1 - 1 = 0
      OBVIOUS
    <3> QED
      BY Zenon, <3>1, <3>2
  <2> QED
    BY Zenon, <2>1, <2>2
<1>5. n = 2 => Plan[n] = (<<>> \o StepChanges(steps[1])) \o StepChanges(steps[2])
  <2> SUFFICES ASSUME n = 2
               PROVE  Plan[2] = (<<>> \o StepChanges(steps[1])) \o StepChanges(steps[2])
    OBVIOUS
  <2>1. Plan[0] = <<>>
    BY <1>3
  <2>2. Plan[1] = Plan[0] \o StepChanges(steps[1])
    <3>1. Plan[1] = Plan[1 - 1] \o StepChanges(steps[1])
      BY <1>3
    <3>2. 1 - 1 = 0
      OBVIOUS
    <3> QED
      BY Zenon, <3>1, <3>2
  <2>3. Plan[2] = Plan[1] \o StepChanges(steps[2])
    <3>1. Plan[2] = Plan[2 - 1] \o StepChanges(steps[2])
      BY <1>3
    <3>2. 2 - 1 = 1
      OBVIOUS
    <3> QED
      BY Zenon, <3>1, <3>2
  <2> QED
    BY Zenon, <2>1, <2>2, <2>3
<1>6. StepChanges(First) = MissingDirectories /\ StepChanges(Second) = <<Rewrite("claim")>>
  BY StepsInOrder DEF StepChanges, First, ClaimRewritten
<1>7. version = V1_0 => n = 2 /\ steps[1] = First /\ steps[2] = Second
  <2>1. version = V1_0 => steps = <<First, Second>>
    BY WaysFound
  <2> HIDE DEF steps
  <2> QED
    BY <2>1
<1>8. version = V1_1 => n = 1 /\ steps[1] = Second
  <2>1. version = V1_1 => steps = <<Second>>
    BY WaysFound
  <2> HIDE DEF steps
  <2> QED
    BY <2>1
<1> HIDE DEF n, steps
<1> QED
  BY <1>1, <1>4, <1>5, <1>6, <1>7, <1>8

\* The changes of an upgrade: the directories that are missing, the claim, the manifest.
Shape(changes, fresh) ==
    /\ changes \in Seq(Evidence!Change) /\ Len(changes) \in Nat /\ Len(changes) >= 2
    /\ changes[Len(changes) - 1] = Rewrite("claim")
    /\ changes[Len(changes)] = Rewrite("manifest")
    /\ \A i \in 1..(Len(changes) - 2) : \E d \in fresh : changes[i] = CreateDir(d)
    /\ \A d \in fresh : \E i \in 1..(Len(changes) - 2) : changes[i] = CreateDir(d)
    /\ \A i, j \in 1..Len(changes) : changes[i].path = changes[j].path => i = j

\* What the migration steps plan are changes.
LEMMA UpgradeChangesTyped ==
    /\ \A d \in Directories : CreateDir(d) \in Evidence!Change /\ CreateDir(d).path = d
    /\ \A file \in RecordFiles : Rewrite(file) \in Evidence!Change /\ Rewrite(file).path = file
    /\ "claim" \notin Directories /\ "manifest" \notin Directories
BY DEF CreateDir, Rewrite, Directories, RecordFiles, Fingerprints, Evidence!Change,
       Evidence!Kinds, Evidence!Contents, Evidence!Missing, Evidence!Directory

\* A plan that has made directories first has the shape of an upgrade.
LEMMA PlanShape ==
    ASSUME NEW fresh \in SUBSET Directories, NEW D \in Seq(Evidence!Change),
           \A i \in 1..Len(D) : \E d \in fresh : D[i] = CreateDir(d),
           \A d \in fresh : \E i \in 1..Len(D) : D[i] = CreateDir(d),
           \A i, j \in 1..Len(D) : D[i].path = D[j].path => i = j
    PROVE  Shape(Append(D \o <<Rewrite("claim")>>, Rewrite("manifest")), fresh)
<1>1. PICK claim : claim = Rewrite("claim")
  OBVIOUS
<1>2. PICK manifest : manifest = Rewrite("manifest")
  OBVIOUS
<1>3. /\ claim \in Evidence!Change /\ claim.path = "claim"
      /\ manifest \in Evidence!Change /\ manifest.path = "manifest"
      /\ "claim" # "manifest"
  BY <1>1, <1>2, UpgradeChangesTyped DEF RecordFiles
<1>4. Len(D) \in Nat
  BY LenProperties
<1> DEFINE E == D \o <<claim>>
           changes == Append(E, manifest)
<1>5. E \in Seq(Evidence!Change) /\ Len(E) = Len(D) + 1
      /\ (\A i \in 1..Len(D) : E[i] = D[i]) /\ E[Len(D) + 1] = claim
  <2>1. <<claim>> \in Seq(Evidence!Change) /\ Len(<<claim>>) = 1 /\ <<claim>>[1] = claim
    BY <1>3
  <2> DEFINE one == <<claim>>
  <2>2. one \in Seq(Evidence!Change) /\ Len(one) = 1 /\ one[1] = claim
    BY <2>1
  <2> HIDE DEF one
  <2>3. /\ D \o one \in Seq(Evidence!Change) /\ Len(D \o one) = Len(D) + Len(one)
        /\ \A i \in 1..(Len(D) + Len(one)) :
              (D \o one)[i] = IF i <= Len(D) THEN D[i] ELSE one[i - Len(D)]
    <3>1. PICK T : T = Evidence!Change
      OBVIOUS
    <3>2. one \in Seq(T) /\ D \in Seq(T)
      BY <2>2, <3>1
    <3>3. /\ D \o one \in Seq(T) /\ Len(D \o one) = Len(D) + Len(one)
          /\ \A i \in 1..(Len(D) + Len(one)) :
                (D \o one)[i] = IF i <= Len(D) THEN D[i] ELSE one[i - Len(D)]
      BY <3>2, ConcatProperties
    <3> QED
      BY <3>1, <3>3
  <2>4. \A i \in 1..Len(D) : (D \o one)[i] = D[i]
    BY <1>4, <2>2, <2>3
  <2>5. (D \o one)[Len(D) + 1] = claim
    <3>1. Len(D) + 1 \in 1..(Len(D) + 1) /\ ~(Len(D) + 1 <= Len(D)) /\ Len(D) + 1 - Len(D) = 1
      BY <1>4
    <3> QED
      BY <2>2, <2>3, <3>1
  <2> QED
    BY <2>2, <2>3, <2>4, <2>5 DEF one
<1> HIDE DEF E
<1>6. changes \in Seq(Evidence!Change) /\ Len(changes) = Len(D) + 2
      /\ (\A i \in 1..Len(D) : changes[i] = D[i])
      /\ changes[Len(D) + 1] = claim /\ changes[Len(D) + 2] = manifest
  <2>1. /\ changes \in Seq(Evidence!Change) /\ Len(changes) = Len(E) + 1
        /\ \A i \in 1..Len(E) : changes[i] = E[i]
        /\ changes[Len(E) + 1] = manifest
    BY <1>3, <1>5, AppendProperties
  <2> QED
    BY <1>4, <1>5, <2>1
<1> HIDE DEF changes
<1>7. \A i \in 1..Len(changes) : i \in 1..Len(D) \/ i = Len(D) + 1 \/ i = Len(D) + 2
  BY <1>4, <1>6
<1>8. \A i \in 1..Len(D) : changes[i].path \in Directories
  BY <1>6, UpgradeChangesTyped
<1>9. \A i, j \in 1..Len(changes) : changes[i].path = changes[j].path => i = j
  <2> SUFFICES ASSUME NEW i \in 1..Len(changes), NEW j \in 1..Len(changes),
                      changes[i].path = changes[j].path
               PROVE  i = j
    OBVIOUS
  <2>1. CASE i \in 1..Len(D) /\ j \in 1..Len(D)
    BY <1>6, <2>1
  <2>2. CASE i \notin 1..Len(D) \/ j \notin 1..Len(D)
    BY <1>3, <1>6, <1>7, <1>8, <2>2, UpgradeChangesTyped
  <2> QED
    BY <2>1, <2>2
<1>10. Len(changes) \in Nat /\ Len(changes) >= 2 /\ Len(changes) - 1 = Len(D) + 1
       /\ Len(changes) - 2 = Len(D)
  BY <1>4, <1>6
<1>11. Shape(changes, fresh)
  <2>1. \A i \in 1..(Len(changes) - 2) : \E d \in fresh : changes[i] = CreateDir(d)
    BY <1>6, <1>10
  <2>2. \A d \in fresh : \E i \in 1..(Len(changes) - 2) : changes[i] = CreateDir(d)
    BY <1>6, <1>10
  <2>3. changes[Len(changes) - 1] = Rewrite("claim") /\ changes[Len(changes)] = Rewrite("manifest")
    BY <1>1, <1>2, <1>6, <1>10
  <2>4. changes \in Seq(Evidence!Change) /\ Len(changes) \in Nat /\ Len(changes) >= 2
    BY <1>6, <1>10
  <2> QED
    BY <1>9, <2>1, <2>2, <2>3, <2>4 DEF Shape
<1> QED
  BY <1>1, <1>2, <1>11 DEF changes, E

\* What an upgrade plans, by what is there when it starts.
Fresh == IF version = V1_0 THEN Directories \ dirs ELSE {}

\* What an upgrade plans has that shape.
LEMMA UpgradeChangesShape ==
    ASSUME version \in {V1_0, V1_1}
    PROVE  Shape(UpgradeChanges, Fresh)
<1> DEFINE M == CreateDir("migrations")
           R == CreateDir("recovery")
<1>1. /\ M \in Evidence!Change /\ R \in Evidence!Change
      /\ M.path = "migrations" /\ R.path = "recovery" /\ "migrations" # "recovery"
      /\ Directories = {"migrations", "recovery"}
  BY UpgradeChangesTyped DEF Directories
<1>2. PICK T : T = Evidence!Change
  OBVIOUS
<1> HIDE DEF M, R
<1>3. /\ <<>> \in Seq(T) /\ Len(<<>>) = 0 /\ \A i \in 1..0 : FALSE
  OBVIOUS
<1>4. <<M>> \in Seq(T) /\ Len(<<M>>) = 1 /\ <<M>>[1] = M
  BY <1>1, <1>2
<1>5. <<R>> \in Seq(T) /\ Len(<<R>>) = 1 /\ <<R>>[1] = R
  BY <1>1, <1>2
<1>6. <<M, R>> \in Seq(T) /\ Len(<<M, R>>) = 2 /\ <<M, R>>[1] = M /\ <<M, R>>[2] = R
  BY <1>1, <1>2
<1>7. (\A i \in 1..1 : i = 1) /\ (\A i \in 1..2 : i = 1 \/ i = 2)
      /\ 1 \in 1..1 /\ 1 \in 1..2 /\ 2 \in 1..2
  OBVIOUS
<1>8. ASSUME NEW D, NEW fresh \in SUBSET Directories,
             \/ D = <<>> /\ fresh = {}
             \/ D = <<M>> /\ fresh = {"migrations"}
             \/ D = <<R>> /\ fresh = {"recovery"}
             \/ D = <<M, R>> /\ fresh = {"migrations", "recovery"}
      PROVE  Shape(Append(D \o <<Rewrite("claim")>>, Rewrite("manifest")), fresh)
  <2>1. /\ D \in Seq(Evidence!Change)
        /\ \A i \in 1..Len(D) : \E d \in fresh : D[i] = CreateDir(d)
        /\ \A d \in fresh : \E i \in 1..Len(D) : D[i] = CreateDir(d)
        /\ \A i, j \in 1..Len(D) : D[i].path = D[j].path => i = j
    <3>1. CASE D = <<>> /\ fresh = {}
      BY <1>2, <1>3, <3>1
    <3>2. CASE D = <<M>> /\ fresh = {"migrations"}
      BY <1>2, <1>4, <1>7, <3>2 DEF M
    <3>3. CASE D = <<R>> /\ fresh = {"recovery"}
      BY <1>2, <1>5, <1>7, <3>3 DEF R
    <3>4. CASE D = <<M, R>> /\ fresh = {"migrations", "recovery"}
      <4>1. Len(D) = 2 /\ D[1] = M /\ D[2] = R /\ D \in Seq(T)
        BY <1>6, <3>4
      <4>2. \A i \in 1..Len(D) : \E d \in fresh : D[i] = CreateDir(d)
        BY <1>7, <3>4, <4>1 DEF M, R
      <4>3. \A d \in fresh : \E i \in 1..Len(D) : D[i] = CreateDir(d)
        BY <1>7, <3>4, <4>1 DEF M, R
      <4>4. \A i, j \in 1..Len(D) : D[i].path = D[j].path => i = j
        BY <1>1, <1>7, <4>1
      <4> QED
        BY <1>2, <4>1, <4>2, <4>3, <4>4
    <3> QED
      BY <1>8, <3>1, <3>2, <3>3, <3>4
  <2> QED
    BY <2>1, PlanShape
<1>9. \A s \in Seq(T) : <<>> \o s = s /\ s \o <<>> = s
  BY ConcatEmptySeq
<1>10. CASE version = V1_1
  <2>1. Fresh = {}
    BY <1>10, StepsInOrder DEF Fresh
  <2>2. <<>> = <<>> /\ Fresh = {} /\ Fresh \in SUBSET Directories
    BY <2>1
  <2>3. Shape(Append(<<>> \o <<Rewrite("claim")>>, Rewrite("manifest")), Fresh)
    BY <1>8, <2>2
  <2> QED
    BY <1>10, <2>3, UpgradeChangesUnfold
<1>11. CASE version = V1_0
  <2>1. Fresh = Directories \ dirs /\ Fresh \in SUBSET Directories
    BY <1>11 DEF Fresh
  <2> DEFINE missing(d) == IF d \in dirs THEN <<>> ELSE <<CreateDir(d)>>
  <2>2. MissingDirectories = missing("migrations") \o missing("recovery")
    BY DEF MissingDirectories
  <2>3. /\ missing("migrations") = IF "migrations" \in dirs THEN <<>> ELSE <<M>>
        /\ missing("recovery") = IF "recovery" \in dirs THEN <<>> ELSE <<R>>
    BY DEF M, R
  <2> HIDE DEF missing
  <2>4. <<M>> \o <<R>> = <<M, R>>
    <3>1. \A x, y \in T : <<x>> \o <<y>> = Append(<<x>>, y)
      OBVIOUS
    <3>2. \A x, y \in T : <<x, y>> = Append(<<x>>, y)
      OBVIOUS
    <3> QED
      BY <1>1, <1>2, <3>1, <3>2
  <2>5. PICK D : D = MissingDirectories
    OBVIOUS
  <2>6. /\ D \in Seq(T)
        /\ \/ D = <<>> /\ Fresh = {}
           \/ D = <<M>> /\ Fresh = {"migrations"}
           \/ D = <<R>> /\ Fresh = {"recovery"}
           \/ D = <<M, R>> /\ Fresh = {"migrations", "recovery"}
    <3>1. CASE "migrations" \in dirs /\ "recovery" \in dirs
      BY <1>1, <1>3, <1>9, <2>1, <2>2, <2>3, <2>5, <3>1
    <3>2. CASE "migrations" \notin dirs /\ "recovery" \in dirs
      BY <1>1, <1>4, <1>9, <2>1, <2>2, <2>3, <2>5, <3>2
    <3>3. CASE "migrations" \in dirs /\ "recovery" \notin dirs
      BY <1>1, <1>5, <1>9, <2>1, <2>2, <2>3, <2>5, <3>3
    <3>4. CASE "migrations" \notin dirs /\ "recovery" \notin dirs
      BY <1>1, <1>6, <2>1, <2>2, <2>3, <2>4, <2>5, <3>4
    <3> QED
      BY <3>1, <3>2, <3>3, <3>4
  <2>7. <<>> \o D = D
    BY <1>9, <2>6
  <2>8. Shape(Append(D \o <<Rewrite("claim")>>, Rewrite("manifest")), Fresh)
    BY <1>8, <2>1, <2>6
  <2> QED
    BY <1>11, <2>5, <2>7, <2>8, UpgradeChangesUnfold
<1> QED
  BY <1>10, <1>11

-----------------------------------------------------------------------------
(* The health that an upgrade found.                                       *)

\* The adapters over the files as the upgrade found them.
Bound == INSTANCE Adapters
    WITH files <- [p \in Paths |-> IF p \in DOMAIN live.natives THEN live.natives[p] ELSE MISSING]

\* Health depends on the files that a provider may be routed to, and on the manifest.
LEMMA BoundHealth ==
    ASSUME AdaptersInv, NEW id \in Configured, Candidates(id) \subseteq DOMAIN live.natives,
           \A p \in Candidates(id) : files[p] = live.natives[p]
    PROVE  Bound!Healthy(id, "") <=> Healthy(id, "")
<1>1. id \in Providers
  <2>1. PICK p \in Registered : id \in Consumers(p)
    BY DEF Configured
  <2> QED
    BY <2>1, RegisteredArtifact
<1>2. Candidates(id) \subseteq Paths
  BY <1>1, CandidatesArePaths
<1>3. Bound!EntriesOf(id) = EntriesOf(id)
  BY DEF Bound!EntriesOf, Bound!Registered, Bound!Consumers, EntriesOf, Registered, Consumers,
         Bound!Paths, Paths, Bound!Override, Bound!Agents, Bound!Claude, Bound!CodeBuddy,
         Override, Agents, Claude, CodeBuddy
<1>4. \A p \in Candidates(id) : Bound!Content(p) = Content(p)
  BY <1>2 DEF Bound!Content, Content
<1>5. \A p \in Candidates(id) : Bound!Present(p) <=> Present(p)
  BY <1>4 DEF Bound!Present, Present
<1>6. PICK facts : facts = EffectiveFacts(id, "")
  OBVIOUS
<1>7. Bound!EffectiveFacts(id, "") = facts
  <2>1. \A S : Bound!Only(S) = Only(S)
    BY Zenon DEF Bound!Only, Only
  <2> QED
    BY <1>3, <1>6, <2>1 DEF Bound!EffectiveFacts, EffectiveFacts
<1>8. /\ Bound!RouteOf(id, facts).path = RouteOf(id, facts).path
      /\ Bound!RouteOf(id, facts).mode = RouteOf(id, facts).mode
  <2>1. id \in {"codex", "claude-code", "workbuddy"}
    BY <1>1, KnownProviders
  <2>2. CASE id = "codex"
    <3>1. Bound!Present(Override) <=> Present(Override)
      BY <1>5, <2>2 DEF Candidates
    <3> QED
      BY <2>2, <3>1 DEF Bound!RouteOf, RouteOf, Bound!CodexRoute, CodexRoute, Bound!Route, Route,
                   Bound!Override, Bound!Agents, Override, Agents
  <2>3. CASE id = "claude-code"
    <3>1. (Bound!Present(Claude) <=> Present(Claude)) /\ (Bound!Present(Agents) <=> Present(Agents))
      BY <1>5, <2>3 DEF Candidates
    <3> QED
      BY <2>3, <3>1 DEF Bound!RouteOf, RouteOf, Bound!ClaudeRoute, ClaudeRoute, Bound!Route, Route,
                   Bound!Claude, Bound!Agents, Claude, Agents
  <2>4. CASE id = "workbuddy"
    <3>1. (Bound!Present(CodeBuddy) <=> Present(CodeBuddy))
          /\ (Bound!Present(Agents) <=> Present(Agents))
      BY <1>5, <2>4 DEF Candidates
    <3> QED
      BY <2>4, <3>1 DEF Bound!RouteOf, RouteOf, Bound!WorkBuddyRoute, WorkBuddyRoute, Bound!Route,
                   Route, Bound!CodeBuddy, Bound!Agents, CodeBuddy, Agents
  <2> QED
    BY <2>1, <2>2, <2>3, <2>4
<1>9. ASSUME NEW p \in EntriesOf(id)
      PROVE  Bound!Verified(p) <=> Verified(p)
  <2>1. p \in Registered /\ id \in Consumers(p)
    BY DEF EntriesOf
  <2>2. p \in Candidates(id)
    BY <2>1, RegisteredArtifact
  <2>3. PICK c : c = Content(p)
    OBVIOUS
  <2>4. Bound!Content(p) = c
    BY <1>4, <2>2, <2>3
  <2>5. \A b : Bound!RemovePossible(c, b) <=> RemovePossible(c, b)
    BY DEF Bound!RemovePossible, RemovePossible, Bound!Blocks, Blocks, Bound!Places, Places
  <2>6. /\ Bound!ImportPossible(c, Bound!Instructions) <=> ImportPossible(c, Instructions)
        /\ Bound!Imports(c, Bound!Instructions) <=> Imports(c, Instructions)
    BY DEF Bound!ImportPossible, ImportPossible, Bound!Imports, Imports, Bound!Lines, Lines,
           Bound!ImportOf, ImportOf, Bound!NL, NL, Bound!Instructions, Instructions
  <2>7. Bound!Block(p, integrations[p].consumers) = Block(p, integrations[p].consumers)
    BY DEF Bound!Block, Block, Bound!BlockOf, BlockOf, Bound!ArtifactID, ArtifactID,
           Bound!Override, Bound!Agents, Bound!Claude, Bound!CodeBuddy,
           Override, Agents, Claude, CodeBuddy
  <2> QED
    BY <2>3, <2>4, <2>5, <2>6, <2>7 DEF Bound!Verified, Verified
<1> QED
  BY <1>3, <1>6, <1>7, <1>8, <1>9 DEF Bound!Healthy, Healthy

-----------------------------------------------------------------------------
(* What changes make of the records.                                       *)

\* As long as the upgrade and the manifest stay, so does what it found.
LEMMA BoundHealthStays ==
    ASSUME NEW id, live'.natives = live.natives, integrations' = integrations
    PROVE  Bound!Healthy(id, "")' <=> Bound!Healthy(id, "")
<1>1. \A p : Bound!Content(p)' = Bound!Content(p)
  BY DEF Bound!Content, Bound!Paths
<1>2. \A p : Bound!Present(p)' <=> Bound!Present(p)
  <2> TAKE p
  <2>1. Bound!Content(p)' = Bound!Content(p)
    BY <1>1
  <2> QED
    BY <2>1 DEF Bound!Present
<1>3. Bound!EntriesOf(id)' = Bound!EntriesOf(id)
  BY DEF Bound!EntriesOf, Bound!Registered, Bound!Consumers
<1>4. PICK facts : facts = Bound!EffectiveFacts(id, "")
  OBVIOUS
<1>5. Bound!EffectiveFacts(id, "")' = facts
  <2>1. Bound!Only(Bound!EntriesOf(id))' = Bound!Only(Bound!EntriesOf(id))
    BY <1>3 DEF Bound!Only
  <2> QED
    BY <1>3, <1>4, <2>1 DEF Bound!EffectiveFacts
<1>6. PICK route : route = Bound!RouteOf(id, facts)
  OBVIOUS
<1>7. Bound!RouteOf(id, facts)' = route
  <2>1. Bound!CodexRoute' = Bound!CodexRoute
    BY <1>2 DEF Bound!CodexRoute, Bound!Route
  <2>2. Bound!WorkBuddyRoute' = Bound!WorkBuddyRoute
    BY <1>2 DEF Bound!WorkBuddyRoute, Bound!Route
  <2>3. Bound!ClaudeRoute(facts)' = Bound!ClaudeRoute(facts)
    BY <1>2 DEF Bound!ClaudeRoute, Bound!Route
  <2> QED
    BY <1>6, <2>1, <2>2, <2>3 DEF Bound!RouteOf
<1>8. ASSUME NEW p
      PROVE  Bound!Verified(p)' <=> Bound!Verified(p)
  <2>1. Bound!Content(p)' = Bound!Content(p)
    BY <1>1
  <2> QED
    BY <2>1 DEF Bound!Verified
<1> QED
  BY <1>3, <1>4, <1>5, <1>6, <1>7, <1>8 DEF Bound!Healthy

\* Directories, records and native files are told apart, and so are their contents.
LEMMA DirectoryMarkers ==
    /\ Evidence!Missing # Evidence!Directory
    /\ Evidence!Missing \notin Fingerprints /\ Evidence!Directory \notin Fingerprints
    /\ "claim" \notin Directories /\ "manifest" \notin Directories /\ "claim" # "manifest"
    /\ Directories \cap Paths = {} /\ RecordFiles \cap Paths = {}
BY DEF Evidence!Missing, Evidence!Directory, Fingerprints, Directories, RecordFiles, Paths,
       Override, Agents, Claude, CodeBuddy

\* What changes make of the records, at most one change of each path.
LEMMA MadeProperties ==
    ASSUME NEW S, \A c, e \in S : c.path = e.path => c = e, dirs \subseteq Directories, Made(S)
    PROVE  /\ dirs' \subseteq Directories
           /\ \A c \in S : c.path \in Directories =>
                 (c.path \in dirs' <=> c.after = Evidence!Directory)
           /\ \A d \in Directories : (\A c \in S : c.path # d) => (d \in dirs' <=> d \in dirs)
           /\ \A c \in S : c.path = "claim" => codec' = c.after
           /\ (\A c \in S : c.path # "claim") => codec' = codec
           /\ \A c \in S : c.path = "manifest" /\ c.after = "current" =>
                 version' = CurrentStateVersion
           /\ \A c \in S : c.path = "manifest" /\ c.after = "legacy" => version' = live.from
           /\ (\A c \in S : c.path # "manifest") => version' = version
<1> DEFINE to(q, was) == IF \E c \in S : c.path = q
                         THEN (CHOOSE c \in S : c.path = q).after ELSE was
<1>1. /\ dirs' = {d \in Directories :
                    to(d, IF d \in dirs THEN Evidence!Directory ELSE Evidence!Missing)
                       = Evidence!Directory}
      /\ codec' = to("claim", codec)
      /\ version' = CASE to("manifest", "") = "" -> version
                      [] to("manifest", "") = "current" -> CurrentStateVersion
                      [] to("manifest", "") = "legacy" -> live.from
  BY DEF Made
<1>2. ASSUME NEW c \in S, NEW was
      PROVE  to(c.path, was) = c.after
  <2>1. (CHOOSE e \in S : e.path = c.path) = c
    OBVIOUS
  <2> QED
    BY <2>1
<1>3. ASSUME NEW q, \A c \in S : c.path # q, NEW was
      PROVE  to(q, was) = was
  BY <1>3
<1> HIDE DEF to
<1>4. ASSUME NEW c \in S, c.path \in Directories
      PROVE  c.path \in dirs' <=> c.after = Evidence!Directory
  <2>1. to(c.path, IF c.path \in dirs THEN Evidence!Directory ELSE Evidence!Missing) = c.after
    BY <1>2
  <2> QED
    BY <1>1, <1>4, <2>1
<1>5. ASSUME NEW d \in Directories, \A c \in S : c.path # d
      PROVE  d \in dirs' <=> d \in dirs
  <2> DEFINE was == IF d \in dirs THEN Evidence!Directory ELSE Evidence!Missing
  <2>1. to(d, was) = was
    <3> HIDE DEF was
    <3> QED
      BY <1>3, <1>5
  <2>2. was = Evidence!Directory <=> d \in dirs
    BY DirectoryMarkers
  <2>3. d \in dirs' <=> to(d, was) = Evidence!Directory
    BY <1>1
  <2> QED
    BY <2>1, <2>2, <2>3
<1>6. ASSUME NEW c \in S, c.path = "manifest", c.after = "current"
      PROVE  version' = CurrentStateVersion
  <2>1. to("manifest", "") = "current"
    BY <1>2, <1>6
  <2> QED
    BY <1>1, <2>1
<1>7. ASSUME NEW c \in S, c.path = "manifest", c.after = "legacy"
      PROVE  version' = live.from
  <2>1. to("manifest", "") = "legacy"
    BY <1>2, <1>7
  <2> QED
    BY <1>1, <2>1
<1>8. (\A c \in S : c.path # "manifest") => version' = version
  <2> SUFFICES ASSUME \A c \in S : c.path # "manifest" PROVE version' = version
    OBVIOUS
  <2>1. to("manifest", "") = ""
    BY <1>3
  <2> QED
    BY <1>1, <2>1
<1>9. \A c \in S : c.path = "claim" => codec' = c.after
  BY <1>1, <1>2
<1>10. (\A c \in S : c.path # "claim") => codec' = codec
  BY <1>1, <1>3
<1>11. dirs' \subseteq Directories
  BY <1>1
<1> QED
  BY <1>4, <1>5, <1>6, <1>7, <1>8, <1>9, <1>10, <1>11

-----------------------------------------------------------------------------
(* The invariant of the upgrade.                                           *)

\* The records, whether an upgrade is under way or not, and the counters.
Layout ==
    /\ version \in {V1_0, V1_1, CurrentStateVersion} /\ codec \in {"legacy", "current"}
    /\ dirs \subseteq Directories /\ instructions \in BOOLEAN
    /\ interruptions \in 0..MaxInterruptions
    /\ version # V1_0 => dirs = Directories
    /\ live = NULL => codec = IF Current THEN "current" ELSE "legacy"

\* The directories that were not there when the upgrade began.
Absent == {d \in Directories : live.inputs[d] = Evidence!Missing}

\* What an upgrade is bound to.
Binding ==
    /\ DOMAIN live.natives \subseteq Paths /\ live \in Upgrades(DOMAIN live.natives)
    /\ Shape(live.changes, Absent)
    /\ DOMAIN live.natives = UNION {Candidates(id) : id \in Configured}
    /\ \A p \in DOMAIN live.natives : live.inputs[p] = "as bound"
    /\ \A file \in RecordFiles : live.inputs[file] = "legacy"
    /\ \A d \in Directories \ Absent : live.inputs[d] = Evidence!Directory
    /\ Absent # {} => live.from = V1_0
    /\ \A id \in Configured : Bound!Healthy(id, "")

\* The manifest stands on the claim and the claim on the directories, wherever
\* an upgrade and its recovery are.
Standing ==
    /\ Directories \ Absent \subseteq dirs /\ "recovery" \in dirs
    /\ version \in {live.from, CurrentStateVersion}
    /\ Current => codec = "current"
    /\ codec = "current" => dirs = Directories

\* While it runs, the records show how far the upgrade is.
Progress ==
    LET n == Len(live.changes) IN
    /\ live.next <= n + 1
    /\ live.announced => ~live.stopped /\ live.next <= n
    /\ ~live.stopped =>
          /\ codec = IF live.next > n - 1 THEN "current" ELSE "legacy"
          /\ version = IF live.next > n THEN CurrentStateVersion ELSE live.from
          /\ \A i \in 1..(n - 2) :
                /\ i < live.next => live.changes[i].path \in dirs
                /\ i >= live.next /\ live.changes[i].path \in dirs =>
                      live.changes[i].path = "recovery"

\* The changes whose outcome is not there.
Outcome(q) ==
    \/ q \in Directories /\ q \in dirs
    \/ q = "claim" /\ codec = "current"
    \/ q = "manifest" /\ Current
Unmade == {i \in DOMAIN live.changes : ~Outcome(live.changes[i].path)}

\* A continuation has the rest of the changes before it; a rollback would have
\* to delete the directory that every command makes, and takes no lock.
Recovering ==
    /\ live # NULL /\ live.stopped /\ recovery \in Recoveries
    /\ recovery.left \subseteq DOMAIN live.changes
    /\ recovery.action = "CONTINUE" => recovery.left = Unmade
    /\ recovery.action = "ROLLBACK" =>
          ~recovery.locked /\ \E i \in recovery.left : live.changes[i] = CreateDir("recovery")

RecordsInv ==
    /\ Layout
    /\ live # NULL => Binding /\ Standing /\ Progress
    /\ recovery # NULL => Recovering

\* Where the next step may change the version, the native files are what the
\* upgrade is bound to, but for those that users edited since they were looked at.
LookedAt ==
    \/ Running /\ live.announced
    \/ recovery # NULL /\ recovery.action = "CONTINUE" /\ recovery.left # {}
LateEdits ==
    /\ late \subseteq Paths /\ (~Decided => late = {})
    /\ LookedAt => \A p \in DOMAIN live.natives \ late : files[p] = live.natives[p]

\* The inductive invariant of the upgrade.
UpgradeInv == RecordsInv /\ LateEdits

\* An upgrade is told from none, and its fields are what they are declared to be.
LEMMA UpgradeFields ==
    ASSUME Binding
    PROVE  /\ live.from \in {V1_0, V1_1} /\ live.next \in Nat /\ live.next >= 1
           /\ live.announced \in BOOLEAN /\ live.stopped \in BOOLEAN /\ live # NULL
           /\ live.changes \in Seq(Evidence!Change) /\ Len(live.changes) \in Nat
           /\ DOMAIN live.inputs = Directories \cup RecordFiles \cup DOMAIN live.natives
           /\ DOMAIN live.changes = 1..Len(live.changes)
           /\ live.from # CurrentStateVersion
<1>1. DOMAIN live.natives \in SUBSET Paths /\ live \in Upgrades(DOMAIN live.natives)
  BY DEF Binding
<1>2. live # NULL
  BY <1>1, MaintenanceAssumption
<1>3. /\ live.from \in {V1_0, V1_1} /\ live.next \in Nat \ {0}
      /\ live.announced \in BOOLEAN /\ live.stopped \in BOOLEAN
      /\ live.changes \in Seq(Evidence!Change)
      /\ DOMAIN live.inputs = Directories \cup RecordFiles \cup DOMAIN live.natives
  BY <1>1 DEF Upgrades
<1>4. Len(live.changes) \in Nat /\ DOMAIN live.changes = 1..Len(live.changes)
  BY <1>3, LenProperties
<1> QED
  BY <1>2, <1>3, <1>4, StepsInOrder

\* A step of the upgrade leaves what it is bound to.
LEMMA BindingStays ==
    ASSUME Binding, NEW next \in Nat \ {0}, NEW announced \in BOOLEAN, NEW stopped \in BOOLEAN,
           live' = [live EXCEPT !.next = next, !.announced = announced, !.stopped = stopped],
           integrations' = integrations
    PROVE  /\ Binding' /\ Absent' = Absent /\ live' # NULL
           /\ live'.changes = live.changes /\ live'.inputs = live.inputs
           /\ live'.from = live.from /\ live'.natives = live.natives
           /\ live'.next = next /\ live'.announced = announced /\ live'.stopped = stopped
<1>1. DOMAIN live.natives \subseteq Paths /\ live \in Upgrades(DOMAIN live.natives)
  BY DEF Binding
<1>2. /\ live'.changes = live.changes /\ live'.inputs = live.inputs
      /\ live'.from = live.from /\ live'.natives = live.natives
      /\ live'.next = next /\ live'.announced = announced /\ live'.stopped = stopped
      /\ live' \in Upgrades(DOMAIN live.natives)
  BY <1>1 DEF Upgrades
<1>3. Absent' = Absent
  BY <1>2 DEF Absent
<1>4. UNCHANGED Configured
  BY DEF Configured, Registered, Consumers
<1>5. \A id \in Configured' : Bound!Healthy(id, "")'
  BY <1>2, <1>4, BoundHealthStays DEF Binding
<1>6. live' \in Upgrades(DOMAIN live.natives)'
  BY <1>2 DEF Upgrades
<1>7. Shape(live.changes, Absent)'
  <2>1. Shape(live.changes, Absent)
    BY DEF Binding
  <2> QED
    BY <1>2, <1>3, <2>1 DEF Shape
<1>8. Binding'
  BY <1>1, <1>2, <1>3, <1>4, <1>5, <1>6, <1>7 DEF Binding
<1>9. live' # NULL
  <2>1. DOMAIN live.natives \in SUBSET Paths
    BY <1>1
  <2> QED
    BY <1>2, <2>1, MaintenanceAssumption
<1> QED
  BY <1>2, <1>3, <1>8, <1>9

\* And so does a step that is not one of the upgrade.
LEMMA BindingUntouched ==
    ASSUME Binding, UNCHANGED <<integrations, live>>
    PROVE  Binding' /\ Absent' = Absent
<1>1. /\ DOMAIN live.natives \subseteq Paths /\ live \in Upgrades(DOMAIN live.natives)
  BY DEF Binding
<1>2. Absent' = Absent
  BY DEF Absent
<1>3. UNCHANGED Configured
  BY DEF Configured, Registered, Consumers
<1>4. \A id \in Configured' : Bound!Healthy(id, "")'
  BY <1>3, BoundHealthStays DEF Binding
<1>5. (live \in Upgrades(DOMAIN live.natives))'
  BY <1>1 DEF Upgrades
<1>6. Binding'
  BY <1>1, <1>2, <1>3, <1>4, <1>5 DEF Binding, Shape
<1> QED
  BY <1>2, <1>6

\* What the manifest records, and the upgrade, are not touched; a recovery of it
\* may be planned, locked or given up.
LEMMA RecordsUntouched ==
    ASSUME RecordsInv, UNCHANGED <<integrations, version, codec, dirs, live>>,
           instructions' \in BOOLEAN, interruptions' \in 0..MaxInterruptions,
           recovery' # NULL => recovery' = recovery \/ Recovering'
    PROVE  RecordsInv'
<1>1. Layout'
  BY DEF RecordsInv, Layout, Current
<1>2. ASSUME live # NULL
      PROVE  Binding' /\ Standing' /\ Progress'
  <2>1. Binding /\ Standing /\ Progress
    BY <1>2 DEF RecordsInv
  <2>2. Binding' /\ Absent' = Absent
    BY <2>1, BindingUntouched
  <2>3. Standing'
    BY <2>1, <2>2 DEF Standing, Current
  <2>4. Progress'
    BY <2>1 DEF Progress
  <2> QED
    BY <2>2, <2>3, <2>4
<1>3. ASSUME recovery' # NULL
      PROVE  Recovering'
  <2>1. CASE recovery' = recovery
    <3>1. Recovering
      BY <1>3, <2>1 DEF RecordsInv
    <3>2. Unmade' = Unmade
      BY DEF Unmade, Outcome, Current
    <3> QED
      BY <2>1, <3>1, <3>2 DEF Recovering, Recoveries
  <2> QED
    BY <1>3, <2>1
<1> QED
  BY <1>1, <1>2, <1>3 DEF RecordsInv

\* No recovery is planned while the upgrade runs.
LEMMA NoneWhileRunning ==
    ASSUME RecordsInv, Running
    PROVE  recovery = NULL /\ Layout /\ Binding /\ Standing /\ Progress /\ live # NULL
           /\ live.stopped = FALSE
<1>1. Layout /\ Binding /\ Standing /\ Progress /\ live # NULL /\ ~live.stopped
  BY DEF RecordsInv, Running
<1>2. live.stopped \in BOOLEAN
  BY <1>1, UpgradeFields
<1>3. recovery = NULL
  BY <1>1 DEF RecordsInv, Recovering
<1> QED
  BY <1>1, <1>2, <1>3

\* A stopped upgrade is where it was.
LEMMA UpgradeStops ==
    ASSUME RecordsInv, Running, Stop, UNCHANGED <<integrations, version, codec, dirs, recovery>>,
           instructions' \in BOOLEAN, interruptions' \in 0..MaxInterruptions
    PROVE  RecordsInv'
<1>1. Layout /\ Binding /\ Standing /\ Progress /\ live # NULL /\ recovery = NULL
  BY NoneWhileRunning
<1>2. live.next \in Nat \ {0} /\ live \in Upgrades(DOMAIN live.natives)
  <2>1. live.next \in Nat /\ live.next >= 1
    BY <1>1, UpgradeFields
  <2>2. live.next # 0
    BY <2>1
  <2>3. live \in Upgrades(DOMAIN live.natives)
    BY <1>1 DEF Binding
  <2> QED
    BY <2>1, <2>2, <2>3
<1>3. live' = [live EXCEPT !.next = live.next, !.announced = FALSE, !.stopped = TRUE]
  BY <1>2 DEF Stop, Upgrades
<1>4. FALSE \in BOOLEAN /\ TRUE \in BOOLEAN
  OBVIOUS
<1>5. /\ Binding' /\ Absent' = Absent /\ live' # NULL
      /\ live'.changes = live.changes /\ live'.inputs = live.inputs
      /\ live'.from = live.from /\ live'.natives = live.natives
      /\ live'.next = live.next /\ live'.announced = FALSE /\ live'.stopped = TRUE
  BY <1>1, <1>2, <1>3, <1>4, BindingStays
<1>6. Progress'
  BY <1>1, <1>5 DEF Progress
<1>7. Standing'
  BY <1>1, <1>5 DEF Standing, Current
<1>8. Layout'
  BY <1>1, <1>5 DEF Layout
<1> QED
  BY <1>1, <1>5, <1>6, <1>7, <1>8 DEF RecordsInv

\* A change that is announced leaves the upgrade where it is.
LEMMA ChangeAnnounced ==
    ASSUME RecordsInv, AnnounceChange
    PROVE  RecordsInv'
<1>1. /\ Running /\ live.next <= Len(live.changes)
      /\ \/ live' = [live EXCEPT !.announced = TRUE]
         \/ Stop
      /\ UNCHANGED <<integrations, version, codec, dirs, instructions, recovery, interruptions>>
  BY DEF AnnounceChange, avars, records
<1>2. /\ Layout /\ Binding /\ Standing /\ Progress /\ live # NULL /\ recovery = NULL
      /\ live.stopped = FALSE
  BY <1>1, NoneWhileRunning
<1>3. instructions' \in BOOLEAN /\ interruptions' \in 0..MaxInterruptions
  BY <1>1, <1>2 DEF Layout
<1>4. CASE live' = [live EXCEPT !.announced = TRUE]
  <2>1. live.next \in Nat \ {0} /\ live \in Upgrades(DOMAIN live.natives)
    <3>1. live.next \in Nat /\ live.next >= 1
      BY <1>2, UpgradeFields
    <3>2. live.next # 0
      BY <3>1
    <3> QED
      BY <1>2, <3>1, <3>2 DEF Binding
  <2>2. live' = [live EXCEPT !.next = live.next, !.announced = TRUE, !.stopped = FALSE]
    BY <1>2, <1>4, <2>1 DEF Upgrades
  <2>3. FALSE \in BOOLEAN /\ TRUE \in BOOLEAN
    OBVIOUS
  <2>4. /\ Binding' /\ Absent' = Absent /\ live' # NULL
        /\ live'.changes = live.changes /\ live'.inputs = live.inputs
        /\ live'.from = live.from /\ live'.natives = live.natives
        /\ live'.next = live.next /\ live'.announced = TRUE /\ live'.stopped = FALSE
    BY <1>1, <1>2, <2>1, <2>2, <2>3, BindingStays
  <2>5. Progress'
    BY <1>1, <1>2, <2>4 DEF Progress
  <2>6. Standing'
    BY <1>1, <1>2, <2>4 DEF Standing, Current
  <2>7. Layout'
    BY <1>1, <1>2, <2>4 DEF Layout
  <2> QED
    BY <1>1, <1>2, <2>4, <2>5, <2>6, <2>7 DEF RecordsInv
<1>5. CASE Stop
  BY <1>1, <1>3, <1>5, UpgradeStops
<1> QED
  BY <1>1, <1>4, <1>5

\* BoundHealth, of the state after a step.
LEMMA BoundHealthAfter ==
    (\A id : /\ AdaptersInv /\ id \in Configured /\ Candidates(id) \subseteq DOMAIN live.natives
             /\ \A p \in Candidates(id) : files[p] = live.natives[p]
             => (Bound!Healthy(id, "") <=> Healthy(id, "")))'
<1> DEFINE Agree == \A id : /\ AdaptersInv /\ id \in Configured
                            /\ Candidates(id) \subseteq DOMAIN live.natives
                            /\ \A p \in Candidates(id) : files[p] = live.natives[p]
                            => (Bound!Healthy(id, "") <=> Healthy(id, ""))
<1>1. Agree
  BY BoundHealth
<1> HIDE DEF Agree
<1>2. Agree'
  BY <1>1, PTL
<1> QED
  BY <1>2 DEF Agree

\* Health stays while files and manifest do.
LEMMA HealthyStays ==
    ASSUME NEW id, UNCHANGED <<files, integrations>>
    PROVE  Healthy(id, "")' <=> Healthy(id, "")
<1>1. \A p : Content(p)' = Content(p)
  BY DEF Content
<1>2. \A p : Present(p)' <=> Present(p)
  <2> TAKE p
  <2>1. Content(p)' = Content(p)
    BY <1>1
  <2> QED
    BY <2>1 DEF Present
<1>3. EntriesOf(id)' = EntriesOf(id)
  BY DEF EntriesOf, Registered, Consumers
<1>4. PICK facts : facts = EffectiveFacts(id, "")
  OBVIOUS
<1>5. EffectiveFacts(id, "")' = facts
  <2>1. Only(EntriesOf(id))' = Only(EntriesOf(id))
    BY <1>3 DEF Only
  <2> QED
    BY <1>3, <1>4, <2>1 DEF EffectiveFacts
<1>6. PICK route : route = RouteOf(id, facts)
  OBVIOUS
<1>7. RouteOf(id, facts)' = route
  <2>1. CodexRoute' = CodexRoute
    BY <1>2 DEF CodexRoute, Route
  <2>2. WorkBuddyRoute' = WorkBuddyRoute
    BY <1>2 DEF WorkBuddyRoute, Route
  <2>3. ClaudeRoute(facts)' = ClaudeRoute(facts)
    BY <1>2 DEF ClaudeRoute, Route
  <2> QED
    BY <1>6, <2>1, <2>2, <2>3 DEF RouteOf
<1>8. ASSUME NEW p
      PROVE  Verified(p)' <=> Verified(p)
  <2>1. Content(p)' = Content(p)
    BY <1>1
  <2> QED
    BY <2>1 DEF Verified
<1> QED
  BY <1>3, <1>4, <1>5, <1>6, <1>7, <1>8 DEF Healthy

\* What is configured are providers, and they look for native files.
LEMMA ConfiguredProviders ==
    ASSUME AdaptersInv
    PROVE  /\ Configured \subseteq Providers
           /\ UNION {Candidates(id) : id \in Configured} \subseteq Paths
<1>1. Configured \subseteq Providers
  <2> SUFFICES ASSUME NEW id \in Configured PROVE id \in Providers
    OBVIOUS
  <2>1. PICK p \in Registered : id \in Consumers(p)
    BY DEF Configured
  <2> QED
    BY <2>1, RegisteredArtifact
<1> QED
  BY <1>1, CandidatesArePaths

\* An upgrade is bound to what was healthy when it looked.
LEMMA UpgradeStarts ==
    ASSUME AdaptersInv, RecordsInv, StartUpgrade
    PROVE  RecordsInv'
<1> DEFINE bound == UNION {Candidates(id) : id \in Configured}
           upgrade == [from |-> version, changes |-> UpgradeChanges, next |-> 1,
                       announced |-> FALSE, stopped |-> FALSE,
                       natives |-> [p \in bound |-> files[p]],
                       inputs |-> [q \in {} |-> {}]]
<1>1. /\ ClassifyStateVersion(version) = "UPGRADE_REQUIRED" /\ live = NULL
      /\ \A id \in Configured : Healthy(id, "")
      /\ codec = "legacy"
      /\ live' = [upgrade EXCEPT !.inputs = Seen(upgrade)]
      /\ dirs' = Prepared
      /\ UNCHANGED <<avars, version, codec, instructions, recovery, interruptions>>
  BY DEF StartUpgrade, AllHealthy
<1>2. Layout /\ recovery = NULL
  BY <1>1 DEF RecordsInv, Recovering
<1>3. version \in {V1_0, V1_1} /\ version # CurrentStateVersion
  BY <1>1, StepsInOrder DEF ClassifyStateVersion
<1>4. Shape(UpgradeChanges, Fresh)
  BY <1>3, UpgradeChangesShape
<1>5. bound \subseteq Paths /\ files \in [Paths -> NativeContents \cup {MISSING}]
  BY ConfiguredProviders DEF AdaptersInv
<1> DEFINE natives == [p \in bound |-> files[p]]
<1>6. PICK inputs : inputs = Seen(upgrade)
  OBVIOUS
<1>7. /\ DOMAIN natives = bound /\ natives \in [bound -> NativeContents \cup {MISSING}]
      /\ \A p \in bound : natives[p] = files[p]
  BY <1>5
<1>8. upgrade.natives = natives
  OBVIOUS
<1> HIDE DEF bound, natives
<1>9. PICK begun : begun.natives = natives /\ inputs = Seen(begun)
  <2>1. PICK begun : begun = upgrade
    OBVIOUS
  <2> QED
    BY <1>6, <1>8, <2>1
<1>10. /\ inputs = [q \in Directories \cup RecordFiles \cup DOMAIN begun.natives |->
            CASE q \in Directories -> IF q \in dirs THEN Evidence!Directory ELSE Evidence!Missing
              [] q = "claim" -> codec
              [] q = "manifest" -> IF Current THEN "current" ELSE "legacy"
              [] OTHER -> IF files[q] = begun.natives[q] THEN "as bound" ELSE "changed"]
       /\ Directories \cup RecordFiles \cup DOMAIN begun.natives
             = Directories \cup RecordFiles \cup bound
       /\ \A p \in bound : begun.natives[p] = natives[p]
  BY <1>7, <1>9 DEF Seen
<1>11. /\ DOMAIN inputs = Directories \cup RecordFiles \cup bound
       /\ \A d \in Directories :
             inputs[d] = IF d \in dirs THEN Evidence!Directory ELSE Evidence!Missing
       /\ inputs["claim"] = "legacy" /\ inputs["manifest"] = "legacy"
       /\ \A p \in bound : inputs[p] = "as bound"
  <2>1. DOMAIN inputs = Directories \cup RecordFiles \cup bound
    BY <1>10
  <2>2. \A d \in Directories :
           inputs[d] = IF d \in dirs THEN Evidence!Directory ELSE Evidence!Missing
    BY <1>10, DirectoryMarkers
  <2>3. inputs["claim"] = "legacy"
    BY <1>1, <1>10, DirectoryMarkers DEF RecordFiles
  <2>4. inputs["manifest"] = "legacy"
    BY <1>3, <1>10, DirectoryMarkers DEF RecordFiles, Current
  <2>5. \A p \in bound : inputs[p] = "as bound"
    <3> TAKE p \in bound
    <3>1. p \notin Directories /\ p # "claim" /\ p # "manifest"
      BY <1>5, DirectoryMarkers DEF RecordFiles
    <3> QED
      BY <1>7, <1>10, <3>1
  <2> QED
    BY <2>1, <2>2, <2>3, <2>4, <2>5
<1>12. \A q \in Directories \cup RecordFiles \cup bound : inputs[q] \in Evidence!Contents
  <2>1. \A q \in Directories : inputs[q] \in Evidence!Contents
    BY <1>11 DEF Evidence!Contents
  <2>2. \A q \in RecordFiles \cup bound : inputs[q] \in Evidence!Contents
    BY <1>11 DEF Evidence!Contents, RecordFiles, Fingerprints
  <2> QED
    BY <2>1, <2>2
<1>13. inputs \in [Directories \cup RecordFiles \cup bound -> Evidence!Contents]
  BY <1>10, <1>12
<1>14. live' = [from |-> version, changes |-> UpgradeChanges, next |-> 1,
                announced |-> FALSE, stopped |-> FALSE,
                natives |-> natives, inputs |-> inputs]
  BY <1>1, <1>6 DEF natives
<1> HIDE DEF upgrade
<1>15. /\ live'.from = version /\ live'.changes = UpgradeChanges /\ live'.next = 1
       /\ live'.natives = natives /\ live'.inputs = inputs
       /\ live'.announced = FALSE /\ live'.stopped = FALSE
  BY <1>14
<1>16. live' \in Upgrades(bound)
  <2>1. UpgradeChanges \in Seq(Evidence!Change)
    BY <1>4 DEF Shape
  <2>2. 1 \in Nat \ {0} /\ FALSE \in BOOLEAN
    OBVIOUS
  <2> QED
    BY <1>3, <1>7, <1>13, <1>14, <2>1, <2>2 DEF Upgrades
<1>17. Absent' = Directories \ dirs /\ Absent' = Fresh
  <2>1. Absent' = Directories \ dirs
    BY <1>11, <1>15, DirectoryMarkers DEF Absent
  <2> QED
    BY <1>2, <1>3, <2>1 DEF Fresh, Layout
<1>18. UNCHANGED Configured
  BY <1>1 DEF Configured, Registered, Consumers, avars
<1>19. (DOMAIN live.natives)' = bound /\ (UNION {Candidates(id) : id \in Configured})' = bound
  BY <1>7, <1>15, <1>18 DEF bound
<1>20. \A id \in Configured' : Bound!Healthy(id, "")'
  <2> SUFFICES ASSUME NEW id \in Configured PROVE Bound!Healthy(id, "")'
    BY <1>18
  <2>1. Healthy(id, "")
    BY <1>1
  <2>2. Healthy(id, "")'
    BY <1>1, <2>1, HealthyStays DEF avars
  <2>3. AdaptersInv'
    BY <1>1 DEF avars, AdaptersInv, ProperFile, ProperBridges, Pristine
  <2>4. /\ (id \in Configured)' /\ (Candidates(id) \subseteq DOMAIN live.natives)'
        /\ (\A p \in Candidates(id) : files[p] = live.natives[p])'
    <3>1. Candidates(id) \subseteq bound
      BY DEF bound
    <3> QED
      BY <1>1, <1>7, <1>15, <1>18, <1>19, <3>1 DEF avars
  <2> QED
    BY <2>2, <2>3, <2>4, BoundHealthAfter
<1>21. Binding'
  <2>1. (DOMAIN live.natives \subseteq Paths)' /\ (live \in Upgrades(DOMAIN live.natives))'
    BY <1>5, <1>7, <1>15, <1>16
  <2>2. Shape(live.changes, Absent)'
    BY <1>4, <1>15, <1>17 DEF Shape
  <2>3. (DOMAIN live.natives = UNION {Candidates(id) : id \in Configured})'
    BY <1>19
  <2>4. (\A p \in DOMAIN live.natives : live.inputs[p] = "as bound")'
    BY <1>11, <1>15, <1>19
  <2>5. (\A file \in RecordFiles : live.inputs[file] = "legacy")'
    BY <1>11, <1>15 DEF RecordFiles
  <2>6. (\A d \in Directories \ Absent : live.inputs[d] = Evidence!Directory)'
    BY <1>11, <1>15, <1>17
  <2>7. (Absent # {} => live.from = V1_0)'
    BY <1>15, <1>17 DEF Fresh
  <2> QED
    BY <1>20, <2>1, <2>2, <2>3, <2>4, <2>5, <2>6, <2>7 DEF Binding
<1>22. Progress'
  <2> DEFINE n == Len(UpgradeChanges)
  <2>1. /\ n \in Nat /\ n >= 2
        /\ \A i \in 1..(n - 2) : \E d \in Fresh : UpgradeChanges[i] = CreateDir(d)
    BY <1>4 DEF Shape
  <2>2. Len(live.changes)' = n
    BY <1>15
  <2> HIDE DEF n
  <2>3. (Directories \ Absent)' \subseteq dirs'
    BY <1>1, <1>17 DEF Prepared
  <2>4. ~(1 > n - 1) /\ ~(1 > n) /\ 1 <= n + 1
    BY <2>1
  <2>5. ASSUME NEW i \in 1..(n - 2)
        PROVE  /\ ~(i < 1)
               /\ UpgradeChanges[i].path \in dirs' => UpgradeChanges[i].path = "recovery"
    <3>1. PICK d \in Fresh : UpgradeChanges[i] = CreateDir(d)
      BY <2>1
    <3>2. d \in Directories \ dirs /\ UpgradeChanges[i].path = d
      BY <1>17, <3>1, UpgradeChangesTyped
    <3>3. d \in dirs' => d = "recovery"
      BY <1>1, <3>2 DEF Prepared
    <3>4. ~(i < 1)
      BY <2>1
    <3> QED
      BY <3>2, <3>3, <3>4
  <2>6. codec' = "legacy" /\ version' = version
    BY <1>1
  <2> QED
    BY <1>15, <2>2, <2>3, <2>4, <2>5, <2>6 DEF Progress
<1>23. Standing'
  <2>1. (Directories \ Absent)' \subseteq dirs' /\ "recovery" \in dirs'
    BY <1>1, <1>17 DEF Prepared
  <2> QED
    BY <1>1, <1>3, <1>15, <2>1 DEF Standing, Current
<1>24. Layout'
  <2>1. live' # NULL
    <3>1. bound \in SUBSET Paths
      BY <1>5
    <3> QED
      BY <1>16, <3>1, MaintenanceAssumption
  <2>2. Prepared \subseteq Directories /\ (dirs = Directories => Prepared = Directories)
    BY <1>2 DEF Layout, Prepared, Directories
  <2> QED
    BY <1>1, <1>2, <2>1, <2>2 DEF Layout
<1> QED
  BY <1>1, <1>2, <1>21, <1>22, <1>23, <1>24 DEF RecordsInv

-----------------------------------------------------------------------------
(* An upgrade under way.                                                   *)

\* What an upgrade sees of everything it is bound to.
LEMMA SeenProperties ==
    ASSUME Binding
    PROVE  /\ \A d \in Directories :
                 Seen(live)[d] = IF d \in dirs THEN Evidence!Directory ELSE Evidence!Missing
           /\ Seen(live)["claim"] = codec
           /\ Seen(live)["manifest"] = IF Current THEN "current" ELSE "legacy"
           /\ \A p \in DOMAIN live.natives :
                 Seen(live)[p] = IF files[p] = live.natives[p] THEN "as bound" ELSE "changed"
<1>1. DOMAIN live.natives \subseteq Paths
  BY DEF Binding
<1>2. Seen(live) = [q \in Directories \cup RecordFiles \cup DOMAIN live.natives |->
         CASE q \in Directories -> IF q \in dirs THEN Evidence!Directory ELSE Evidence!Missing
           [] q = "claim" -> codec
           [] q = "manifest" -> IF Current THEN "current" ELSE "legacy"
           [] OTHER -> IF files[q] = live.natives[q] THEN "as bound" ELSE "changed"]
  BY DEF Seen
<1>3. \A d \in Directories :
         Seen(live)[d] = IF d \in dirs THEN Evidence!Directory ELSE Evidence!Missing
  BY <1>2, DirectoryMarkers
<1>4. Seen(live)["claim"] = codec
  BY <1>2, DirectoryMarkers DEF RecordFiles
<1>5. Seen(live)["manifest"] = IF Current THEN "current" ELSE "legacy"
  BY <1>2, DirectoryMarkers DEF RecordFiles
<1>6. ASSUME NEW p \in DOMAIN live.natives
      PROVE  Seen(live)[p] = IF files[p] = live.natives[p] THEN "as bound" ELSE "changed"
  <2>1. p \notin Directories /\ p # "claim" /\ p # "manifest"
    BY <1>1, DirectoryMarkers DEF RecordFiles
  <2> QED
    BY <1>2, <2>1
<1> QED
  BY <1>3, <1>4, <1>5, <1>6

\* The changes of an upgrade by their places.
LEMMA ChangesByPlace ==
    ASSUME Binding, NEW n, n = Len(live.changes)
    PROVE  /\ n \in Nat /\ n >= 2 /\ DOMAIN live.changes = 1..n
           /\ n - 1 \in 1..n /\ n \in 1..n
           /\ live.changes[n - 1] = Rewrite("claim") /\ live.changes[n] = Rewrite("manifest")
           /\ \A i \in 1..(n - 2) : i \in 1..n /\ \E d \in Absent : live.changes[i] = CreateDir(d)
           /\ \A d \in Absent : \E i \in 1..(n - 2) : live.changes[i] = CreateDir(d)
           /\ \A i, j \in 1..n : live.changes[i].path = live.changes[j].path => i = j
           /\ \A i \in 1..n : i \in 1..(n - 2) \/ i = n - 1 \/ i = n
           /\ Absent \subseteq Directories
<1>1. Shape(live.changes, Absent)
  BY DEF Binding
<1>2. n \in Nat /\ n >= 2 /\ DOMAIN live.changes = 1..n
  BY <1>1, LenProperties DEF Shape
<1>3. /\ live.changes[n - 1] = Rewrite("claim") /\ live.changes[n] = Rewrite("manifest")
      /\ \A i \in 1..(n - 2) : \E d \in Absent : live.changes[i] = CreateDir(d)
      /\ \A d \in Absent : \E i \in 1..(n - 2) : live.changes[i] = CreateDir(d)
      /\ \A i, j \in 1..n : live.changes[i].path = live.changes[j].path => i = j
  BY <1>1 DEF Shape
<1>4. /\ n - 1 \in 1..n /\ n \in 1..n /\ \A i \in 1..(n - 2) : i \in 1..n
      /\ \A i \in 1..n : i \in 1..(n - 2) \/ i = n - 1 \/ i = n
  BY <1>2
<1>5. Absent \subseteq Directories
  BY DEF Absent
<1> QED
  BY <1>2, <1>3, <1>4, <1>5

\* What the changes are, field by field.
LEMMA ChangeFields ==
    /\ \A d \in Directories : LET c == CreateDir(d) IN
          /\ c.kind = "CREATE_DIR" /\ c.path = d
          /\ c.before = Evidence!Missing /\ c.after = Evidence!Directory
    /\ \A file \in RecordFiles : LET c == Rewrite(file) IN
          c.kind = "UPDATE_FILE" /\ c.path = file /\ c.before = "legacy" /\ c.after = "current"
    /\ "claim" \in RecordFiles /\ "manifest" \in RecordFiles
    /\ RecordFiles = {"claim", "manifest"}
BY DEF CreateDir, Rewrite, RecordFiles

\* No change of an upgrade is of a native file.
LEMMA ChangesAreRecords ==
    ASSUME Binding, NEW p \in DOMAIN live.natives, NEW i \in 1..Len(live.changes)
    PROVE  live.changes[i].path # p /\ p \in DOMAIN live.inputs
<1>1. PICK n : n = Len(live.changes)
  OBVIOUS
<1>2. /\ live.changes[n - 1] = Rewrite("claim") /\ live.changes[n] = Rewrite("manifest")
      /\ \A j \in 1..(n - 2) : j \in 1..n /\ \E d \in Absent : live.changes[j] = CreateDir(d)
      /\ \A j \in 1..n : j \in 1..(n - 2) \/ j = n - 1 \/ j = n
      /\ Absent \subseteq Directories
  BY <1>1, ChangesByPlace
<1>3. live.changes[i].path \in Directories \cup RecordFiles
  <2>1. CASE i \in 1..(n - 2)
    <3>1. PICK d \in Directories : live.changes[i] = CreateDir(d)
      BY <1>2, <2>1
    <3> QED
      BY <3>1, ChangeFields
  <2>2. CASE i = n - 1 \/ i = n
    BY <1>2, <2>2, ChangeFields
  <2> QED
    BY <1>1, <1>2, <2>1, <2>2
<1>4. p \in Paths /\ p \in DOMAIN live.inputs
  BY UpgradeFields DEF Binding
<1> QED
  BY <1>3, <1>4, DirectoryMarkers

\* A change is made where its place says, or the upgrade stops.
LEMMA ChangePublished ==
    ASSUME RecordsInv, PublishChange
    PROVE  RecordsInv'
<1>1. /\ Layout /\ Binding /\ Standing /\ Progress /\ live # NULL /\ recovery = NULL
      /\ live.stopped = FALSE
  BY NoneWhileRunning DEF PublishChange
<1>2. PICK n : n = Len(live.changes)
  OBVIOUS
<1>3. /\ n \in Nat /\ n >= 2 /\ DOMAIN live.changes = 1..n
      /\ n - 1 \in 1..n /\ n \in 1..n
      /\ live.changes[n - 1] = Rewrite("claim") /\ live.changes[n] = Rewrite("manifest")
      /\ \A i \in 1..(n - 2) : i \in 1..n /\ \E d \in Absent : live.changes[i] = CreateDir(d)
      /\ \A d \in Absent : \E i \in 1..(n - 2) : live.changes[i] = CreateDir(d)
      /\ \A i, j \in 1..n : live.changes[i].path = live.changes[j].path => i = j
      /\ \A i \in 1..n : i \in 1..(n - 2) \/ i = n - 1 \/ i = n
      /\ Absent \subseteq Directories
  BY <1>1, <1>2, ChangesByPlace
<1>4. PICK j : j = live.next
  OBVIOUS
<1>5. PICK change : change = live.changes[j]
  OBVIOUS
<1>6. /\ j \in Nat /\ j >= 1 /\ live.stopped \in BOOLEAN /\ live.from \in {V1_0, V1_1}
      /\ live.from # CurrentStateVersion
  BY <1>1, <1>4, UpgradeFields
<1>7. /\ Running /\ UNCHANGED <<avars, instructions, recovery, interruptions>>
      /\ \/ Made({change}) /\ live' = [live EXCEPT !.next = @ + 1, !.announced = FALSE]
         \/ Stop /\ UNCHANGED <<version, codec, dirs>>
  BY <1>4, <1>5 DEF PublishChange
<1>8. j \in 1..n
  <2>1. j <= n
    BY <1>1, <1>2, <1>4 DEF PublishChange, Progress
  <2> QED
    BY <1>3, <1>6, <2>1
<1>9. UNCHANGED integrations /\ instructions' \in BOOLEAN /\ interruptions' \in 0..MaxInterruptions
  BY <1>1, <1>7 DEF avars, Layout
<1>10. CASE Stop /\ UNCHANGED <<version, codec, dirs>>
  BY <1>7, <1>9, <1>10, UpgradeStops
<1>11. CASE Made({change}) /\ live' = [live EXCEPT !.next = @ + 1, !.announced = FALSE]
  <2>1. live' = [live EXCEPT !.next = j + 1, !.announced = FALSE, !.stopped = FALSE]
    <3>1. live \in Upgrades(DOMAIN live.natives) /\ live.stopped = FALSE
      BY <1>1 DEF Binding
    <3> QED
      BY <1>4, <1>11, <3>1 DEF Upgrades
  <2>2. j + 1 \in Nat \ {0} /\ FALSE \in BOOLEAN
    BY <1>6
  <2>3. /\ Binding' /\ Absent' = Absent /\ live' # NULL
        /\ live'.changes = live.changes /\ live'.inputs = live.inputs
        /\ live'.from = live.from /\ live'.natives = live.natives
        /\ live'.next = j + 1 /\ live'.announced = FALSE /\ live'.stopped = FALSE
    BY <1>1, <1>9, <2>1, <2>2, BindingStays
  <2>4. /\ dirs' \subseteq Directories
        /\ change.path \in Directories =>
              (change.path \in dirs' <=> change.after = Evidence!Directory)
        /\ \A d \in Directories : change.path # d => (d \in dirs' <=> d \in dirs)
        /\ change.path = "claim" => codec' = change.after
        /\ change.path # "claim" => codec' = codec
        /\ change.path = "manifest" /\ change.after = "current" => version' = CurrentStateVersion
        /\ change.path # "manifest" => version' = version
    <3>1. \A c, e \in {change} : c.path = e.path => c = e
      OBVIOUS
    <3>2. PICK S : S = {change}
      OBVIOUS
    <3>3. /\ \A c, e \in S : c.path = e.path => c = e
          /\ dirs \subseteq Directories /\ Made(S)
      BY <1>1, <1>11, <3>1, <3>2 DEF Layout
    <3>4. /\ dirs' \subseteq Directories
          /\ \A c \in S : c.path \in Directories =>
                (c.path \in dirs' <=> c.after = Evidence!Directory)
          /\ \A d \in Directories : (\A c \in S : c.path # d) => (d \in dirs' <=> d \in dirs)
          /\ \A c \in S : c.path = "claim" => codec' = c.after
          /\ (\A c \in S : c.path # "claim") => codec' = codec
          /\ \A c \in S : c.path = "manifest" /\ c.after = "current" =>
                version' = CurrentStateVersion
          /\ \A c \in S : c.path = "manifest" /\ c.after = "legacy" => version' = live.from
          /\ (\A c \in S : c.path # "manifest") => version' = version
      BY <3>3, MadeProperties
    <3> QED
      BY <3>2, <3>4
  <2>5. /\ Directories \ Absent \subseteq dirs
        /\ codec = IF j > n - 1 THEN "current" ELSE "legacy"
        /\ version = IF j > n THEN CurrentStateVersion ELSE live.from
        /\ \A i \in 1..(n - 2) :
              /\ i < j => live.changes[i].path \in dirs
              /\ i >= j /\ live.changes[i].path \in dirs => live.changes[i].path = "recovery"
    BY <1>1, <1>2, <1>4 DEF Progress, Standing
  <2>6. ASSUME /\ dirs \subseteq dirs' /\ dirs' \subseteq Directories /\ j + 1 <= n + 1
               /\ codec' = IF j + 1 > n - 1 THEN "current" ELSE "legacy"
               /\ version' = IF j + 1 > n THEN CurrentStateVersion ELSE live.from
               /\ \A i \in 1..(n - 2) :
                     /\ i < j + 1 => live.changes[i].path \in dirs'
                     /\ i >= j + 1 /\ live.changes[i].path \in dirs' =>
                           live.changes[i].path = "recovery"
               /\ version' # V1_0 => dirs' = Directories
               /\ codec' = "current" => dirs' = Directories
        PROVE  RecordsInv'
    <3>1. Progress'
      BY <1>2, <2>3, <2>5, <2>6 DEF Progress
    <3>2. Standing'
      <4>1. j + 1 > n => j + 1 > n - 1
        BY <1>3, <1>6
      <4>2. Directories \ Absent \subseteq dirs' /\ "recovery" \in dirs'
        BY <1>1, <2>6 DEF Standing
      <4>3. version' \in {live.from, CurrentStateVersion}
        BY <2>6
      <4>4. version' = CurrentStateVersion => codec' = "current"
        BY <1>6, <2>6, <4>1
      <4> QED
        BY <2>3, <2>6, <4>2, <4>3, <4>4 DEF Standing, Current
    <3>3. Layout'
      BY <1>6, <1>9, <2>3, <2>6 DEF Layout
    <3> QED
      BY <1>1, <1>7, <2>3, <3>1, <3>2, <3>3 DEF RecordsInv
  <2>7. version # V1_0 => dirs = Directories
    BY <1>1 DEF Layout
  <2>8. CASE j \in 1..(n - 2)
    <3>1. PICK d \in Absent : change = CreateDir(d)
      BY <1>3, <1>5, <2>8
    <3>2. d \in Directories /\ change.path = d /\ change.after = Evidence!Directory
          /\ d # "claim" /\ d # "manifest"
      BY <1>3, <3>1, ChangeFields, DirectoryMarkers
    <3>3. d \in dirs' /\ dirs \subseteq dirs' /\ codec' = codec /\ version' = version
      BY <1>1, <2>4, <3>2 DEF Layout
    <3>4. ~(j > n - 1) /\ ~(j + 1 > n - 1) /\ ~(j > n) /\ ~(j + 1 > n)
      BY <1>3, <2>8
    <3>5. ASSUME NEW i \in 1..(n - 2)
          PROVE  /\ i < j + 1 => live.changes[i].path \in dirs'
                 /\ i >= j + 1 /\ live.changes[i].path \in dirs' =>
                       live.changes[i].path = "recovery"
      <4>1. i \in 1..n /\ live.changes[i].path \in Directories
        BY <1>3, ChangeFields
      <4>2. CASE i = j
        BY <1>5, <1>6, <3>2, <3>3, <4>2
      <4>3. CASE i # j
        <5>1. live.changes[i].path # d
          BY <1>3, <1>5, <1>8, <3>2, <4>1, <4>3
        <5>2. live.changes[i].path \in dirs' <=> live.changes[i].path \in dirs
          BY <2>4, <3>2, <4>1, <5>1
        <5>3. (i < j + 1 => i < j) /\ (i >= j + 1 => i >= j)
          BY <1>6, <4>3
        <5> QED
          BY <2>5, <5>2, <5>3
      <4> QED
        BY <4>2, <4>3
    <3>6. /\ j + 1 <= n + 1 /\ dirs' \subseteq Directories
          /\ (version' # V1_0 => dirs' = Directories) /\ codec' # "current"
      <4>1. j + 1 <= n + 1
        BY <1>3, <1>6, <1>8
      <4>2. dirs' \subseteq Directories
        BY <2>4
      <4>3. version' # V1_0 => dirs' = Directories
        BY <2>7, <3>3, <4>2
      <4>4. codec' # "current"
        BY <2>5, <3>3, <3>4
      <4> QED
        BY <4>1, <4>2, <4>3, <4>4
    <3> QED
      BY <2>5, <2>6, <3>3, <3>4, <3>5, <3>6
  <2>9. CASE j = n - 1
    <3>1. change.path = "claim" /\ change.after = "current"
      BY <1>3, <1>5, <2>9, ChangeFields
    <3>2. codec' = "current" /\ version' = version /\ dirs' = dirs
      BY <1>1, <2>4, <3>1, DirectoryMarkers DEF Layout
    <3>3. j + 1 > n - 1 /\ ~(j > n) /\ ~(j + 1 > n) /\ j + 1 <= n + 1
      BY <1>3, <2>9
    <3>4. \A i \in 1..(n - 2) : i < j /\ i < j + 1 /\ ~(i >= j + 1)
      BY <1>3, <2>9
    <3>5. dirs = Directories
      <4>1. \A d \in Absent : d \in dirs
        BY <1>3, <2>5, <3>4, ChangeFields
      <4> QED
        BY <1>1, <2>5, <4>1 DEF Layout
    <3> QED
      BY <1>1, <2>5, <2>6, <2>7, <3>2, <3>3, <3>4, <3>5 DEF Layout
  <2>10. CASE j = n
    <3>1. change.path = "manifest" /\ change.after = "current"
      BY <1>3, <1>5, <2>10, ChangeFields
    <3>2. codec' = codec /\ version' = CurrentStateVersion /\ dirs' = dirs
      BY <1>1, <2>4, <3>1, DirectoryMarkers DEF Layout
    <3>3. j > n - 1 /\ j + 1 > n - 1 /\ j + 1 > n /\ j + 1 <= n + 1
      BY <1>3, <2>10
    <3>4. \A i \in 1..(n - 2) : i < j /\ i < j + 1 /\ ~(i >= j + 1)
      BY <1>3, <2>10
    <3>5. dirs = Directories
      <4>1. \A d \in Absent : d \in dirs
        BY <1>3, <2>5, <3>4, ChangeFields
      <4> QED
        BY <1>1, <2>5, <4>1 DEF Layout
    <3> QED
      BY <1>1, <2>5, <2>6, <3>2, <3>3, <3>4, <3>5 DEF Layout
  <2> QED
    BY <1>3, <1>8, <2>8, <2>9, <2>10
<1> QED
  BY <1>7, <1>10, <1>11

-----------------------------------------------------------------------------
(* The recovery of an upgrade.                                             *)

\* What is left to be done is what the records do not show, and what is done
\* is checked against them.
LEMMA LeftOver ==
    ASSUME Layout, Binding
    PROVE  /\ Evidence!ContinueIndices(live.changes, Seen(live)) = Unmade
           /\ \A i \in DOMAIN live.changes :
                 live.changes[i] = CreateDir("recovery") /\ "recovery" \in dirs =>
                    /\ i \in Evidence!RollbackIndices(live.changes, Seen(live))
                    /\ ~Evidence!VerifiesBefore(Evidence!Undo(live.changes[i]),
                                                Seen(live)["recovery"])
<1>1. PICK n : n = Len(live.changes)
  OBVIOUS
<1>2. /\ n \in Nat /\ n >= 2 /\ DOMAIN live.changes = 1..n
      /\ live.changes[n - 1] = Rewrite("claim") /\ live.changes[n] = Rewrite("manifest")
      /\ \A i \in 1..(n - 2) : i \in 1..n /\ \E d \in Absent : live.changes[i] = CreateDir(d)
      /\ \A i \in 1..n : i \in 1..(n - 2) \/ i = n - 1 \/ i = n
      /\ Absent \subseteq Directories
  BY <1>1, ChangesByPlace
<1>3. /\ \A d \in Directories :
            Seen(live)[d] = IF d \in dirs THEN Evidence!Directory ELSE Evidence!Missing
      /\ Seen(live)["claim"] = codec
      /\ Seen(live)["manifest"] = IF Current THEN "current" ELSE "legacy"
  BY SeenProperties
<1>4. codec \in Fingerprints /\ "current" \in Fingerprints /\ "legacy" \in Fingerprints
      /\ "current" # "legacy"
  BY DEF Layout, Fingerprints
<1>5. ASSUME NEW i \in 1..n
      PROVE  Evidence!MatchesAfter(live.changes[i], Seen(live)[live.changes[i].path])
                <=> Outcome(live.changes[i].path)
  <2>1. CASE i \in 1..(n - 2)
    <3>1. PICK d \in Directories : live.changes[i] = CreateDir(d)
      BY <1>2, <2>1
    <3>2. live.changes[i].path = d /\ live.changes[i].kind = "CREATE_DIR"
      BY <3>1, ChangeFields
    <3>3. Outcome(d) <=> d \in dirs
      BY DirectoryMarkers DEF Outcome
    <3>4. Seen(live)[d] = Evidence!Directory <=> d \in dirs
      BY <1>3, DirectoryMarkers
    <3> QED
      BY <3>2, <3>3, <3>4 DEF Evidence!MatchesAfter
  <2>2. CASE i = n - 1
    <3>1. live.changes[i].path = "claim" /\ live.changes[i].kind = "UPDATE_FILE"
          /\ live.changes[i].after = "current"
      BY <1>2, <2>2, ChangeFields
    <3>2. Outcome("claim") <=> codec = "current"
      BY DirectoryMarkers DEF Outcome
    <3> QED
      BY <1>3, <1>4, <3>1, <3>2 DEF Evidence!MatchesAfter
  <2>3. CASE i = n
    <3>1. live.changes[i].path = "manifest" /\ live.changes[i].kind = "UPDATE_FILE"
          /\ live.changes[i].after = "current"
      BY <1>2, <2>3, ChangeFields
    <3>2. Outcome("manifest") <=> Current
      BY DirectoryMarkers DEF Outcome
    <3> QED
      BY <1>3, <1>4, <3>1, <3>2 DEF Evidence!MatchesAfter
  <2> QED
    BY <1>2, <2>1, <2>2, <2>3
<1>6. Evidence!ContinueIndices(live.changes, Seen(live)) = Unmade
  BY <1>2, <1>5 DEF Evidence!ContinueIndices, Unmade
<1>7. ASSUME NEW i \in DOMAIN live.changes, live.changes[i] = CreateDir("recovery"),
             "recovery" \in dirs
      PROVE  /\ i \in Evidence!RollbackIndices(live.changes, Seen(live))
             /\ ~Evidence!VerifiesBefore(Evidence!Undo(live.changes[i]), Seen(live)["recovery"])
  <2>1. "recovery" \in Directories
    BY DEF Directories
  <2>2. /\ live.changes[i].path = "recovery" /\ live.changes[i].kind = "CREATE_DIR"
        /\ live.changes[i].after = Evidence!Directory
    BY <1>7, <2>1, ChangeFields
  <2>3. Seen(live)["recovery"] = Evidence!Directory
    BY <1>3, <1>7, <2>1
  <2>4. ~Evidence!MatchesBefore(live.changes[i], Evidence!Directory)
    BY <2>2, DirectoryMarkers DEF Evidence!MatchesBefore
  <2>5. i \in Evidence!RollbackIndices(live.changes, Seen(live))
    BY <2>2, <2>3, <2>4 DEF Evidence!RollbackIndices
  <2>6. Evidence!Undo(live.changes[i]).before = Evidence!Directory
    BY <2>2 DEF Evidence!Undo
  <2>7. ~Evidence!VerifiesBefore(Evidence!Undo(live.changes[i]), Evidence!Directory)
    BY <2>6, DirectoryMarkers DEF Evidence!VerifiesBefore
  <2> QED
    BY <2>3, <2>5, <2>7
<1> QED
  BY <1>6, <1>7

\* A recovery is planned on evidence: for a continuation that has something to
\* do, and for a rollback, nothing that the upgrade is bound to was changed.
LEMMA OfferedAsBound ==
    ASSUME Binding, NEW action \in {"CONTINUE", "ROLLBACK"},
           Evidence!RecoveryOffered(action, Classification),
           action = "CONTINUE" =>
               Evidence!ContinueIndices(live.changes, Seen(live)) # {}
    PROVE  NativesAsBound /\ "recovery" \in Absent
<1>1. PICK n : n = Len(live.changes)
  OBVIOUS
<1>2. /\ n \in Nat /\ n >= 2 /\ DOMAIN live.changes = 1..n
      /\ live.changes[n - 1] = Rewrite("claim") /\ live.changes[n] = Rewrite("manifest")
      /\ \A i \in 1..(n - 2) : i \in 1..n /\ \E d \in Absent : live.changes[i] = CreateDir(d)
      /\ \A i \in 1..n : i \in 1..(n - 2) \/ i = n - 1 \/ i = n
      /\ Absent \subseteq Directories
  BY <1>1, ChangesByPlace
<1>3. PICK changes, inputs, seen :
          changes = live.changes /\ inputs = live.inputs /\ seen = Seen(live)
  OBVIOUS
<1>4. Classification = Evidence!Classify(changes, inputs, seen)
  BY <1>3 DEF Classification
<1>5. Classification = "ROLLBACK_OR_CONTINUE_AVAILABLE"
  <2>1. CASE action = "ROLLBACK"
    BY <2>1 DEF Evidence!RecoveryOffered
  <2>2. CASE action = "CONTINUE"
    <3>1. PICK i \in DOMAIN changes : ~Evidence!MatchesAfter(changes[i], seen[changes[i].path])
      BY <1>3, <2>2 DEF Evidence!ContinueIndices
    <3>2. Classification # "TRANSACTION_COMPLETE"
      BY <1>4, <3>1 DEF Evidence!Classify
    <3> QED
      BY <3>2 DEF Evidence!RecoveryOffered
  <2> QED
    BY <2>1, <2>2
<1>6. \A q \in DOMAIN inputs \ Evidence!ChangedPaths(changes) :
         Evidence!ObservedInputMatches(inputs[q], seen[q])
  BY <1>4, <1>5 DEF Evidence!Classify
<1>7. ASSUME NEW p \in DOMAIN live.natives
      PROVE  files[p] = live.natives[p]
  <2>1. p \in DOMAIN inputs \ Evidence!ChangedPaths(changes)
    <3>1. n \in 1..n
      BY <1>2
    <3>2. p \in DOMAIN live.inputs /\ \A i \in 1..n : live.changes[i].path # p
      BY <1>1, <3>1, ChangesAreRecords
    <3> QED
      BY <1>2, <1>3, <3>2 DEF Evidence!ChangedPaths
  <2>2. seen[p] = inputs[p] /\ inputs[p] = "as bound"
    BY <1>3, <1>6, <2>1 DEF Evidence!ObservedInputMatches, Binding
  <2>3. Seen(live)[p] = IF files[p] = live.natives[p] THEN "as bound" ELSE "changed"
    BY SeenProperties
  <2> QED
    BY <1>3, <2>2, <2>3
<1>8. "recovery" \in Absent
  <2> SUFFICES ASSUME "recovery" \notin Absent PROVE FALSE
    OBVIOUS
  <2>1. "recovery" \in Directories
    BY DEF Directories
  <2>2. \A i \in 1..n : live.changes[i].path # "recovery"
    BY <1>2, <2>1, ChangeFields, DirectoryMarkers
  <2>3. "recovery" \in DOMAIN inputs
    BY <1>3, <2>1, UpgradeFields
  <2>4. "recovery" \in DOMAIN inputs \ Evidence!ChangedPaths(changes)
    BY <1>2, <1>3, <2>2, <2>3 DEF Evidence!ChangedPaths
  <2>5. inputs["recovery"] = Evidence!Directory
    BY <1>3, <2>1 DEF Binding
  <2>6. inputs["recovery"] \in Fingerprints \cup {Evidence!Missing}
    BY <1>6, <2>4 DEF Evidence!ObservedInputMatches
  <2> QED
    BY <2>5, <2>6, DirectoryMarkers
<1> QED
  BY <1>7, <1>8 DEF NativesAsBound

\* What is planned is what the evidence leaves to be done.
LEMMA RecoveryPlanned ==
    ASSUME RecordsInv, NEW action \in {"CONTINUE", "ROLLBACK"}, PlanRecovery(action)
    PROVE  RecordsInv'
<1>1. /\ live # NULL /\ live.stopped
      /\ Evidence!RecoveryOffered(action, Classification)
      /\ UNCHANGED <<integrations, version, codec, dirs, instructions, live, interruptions>>
  BY DEF PlanRecovery, Halted, avars, records
<1>2. Layout /\ Binding /\ Standing
  BY <1>1 DEF RecordsInv
<1>3. PICK left : left = Evidence!RecoveryIndices(action, live.changes, Seen(live))
  OBVIOUS
<1>4. recovery' = [action |-> action, locked |-> FALSE, left |-> left]
  BY <1>3 DEF PlanRecovery
<1>5. recovery'.action = action /\ recovery'.locked = FALSE /\ recovery'.left = left
  BY <1>4
<1>6. left \subseteq DOMAIN live.changes
  BY <1>3 DEF Evidence!RecoveryIndices, Evidence!RollbackIndices, Evidence!ContinueIndices
<1>7. recovery' \in Recoveries
  <2>1. left \in SUBSET Nat
    <3>1. DOMAIN live.changes = 1..Len(live.changes) /\ Len(live.changes) \in Nat
      BY <1>2, UpgradeFields
    <3>2. 1..Len(live.changes) \subseteq Nat
      OBVIOUS
    <3> QED
      BY <1>6, <3>1, <3>2
  <2>2. FALSE \in BOOLEAN
    OBVIOUS
  <2> QED
    BY <1>4, <2>1, <2>2 DEF Recoveries
<1>8. ASSUME action = "CONTINUE"
      PROVE  left = Unmade
  BY <1>2, <1>3, <1>8, LeftOver DEF Evidence!RecoveryIndices
<1>9. ASSUME action = "ROLLBACK"
      PROVE  \E i \in left : live.changes[i] = CreateDir("recovery")
  <2>1. "recovery" \in Absent
    BY <1>1, <1>2, <1>9, OfferedAsBound
  <2>2. PICK n : n = Len(live.changes)
    OBVIOUS
  <2>3. PICK i \in 1..(n - 2) : live.changes[i] = CreateDir("recovery")
    BY <1>2, <2>1, <2>2, ChangesByPlace
  <2>4. i \in DOMAIN live.changes
    BY <1>2, <2>2, ChangesByPlace
  <2>5. "recovery" \in dirs
    BY <1>2 DEF Standing
  <2>6. i \in Evidence!RollbackIndices(live.changes, Seen(live))
    BY <1>2, <2>3, <2>4, <2>5, LeftOver
  <2> QED
    BY <1>3, <1>9, <2>3, <2>6 DEF Evidence!RecoveryIndices
<1>10. Unmade' = Unmade
  BY <1>1 DEF Unmade, Outcome, Current
<1>11. Recovering'
  BY <1>1, <1>5, <1>6, <1>7, <1>8, <1>9, <1>10 DEF Recovering
<1>12. instructions' \in BOOLEAN /\ interruptions' \in 0..MaxInterruptions
  BY <1>1, <1>2 DEF Layout
<1> QED
  BY <1>1, <1>11, <1>12, RecordsUntouched

\* A rollback takes no lock: what it would delete is verified as a file.
LEMMA RecoveryBegins ==
    ASSUME RecordsInv, BeginRecovery
    PROVE  RecordsInv'
<1>1. /\ recovery # NULL /\ ~recovery.locked
      /\ UNCHANGED <<integrations, version, codec, dirs, instructions, live, interruptions>>
      /\ \/ /\ \A i \in recovery.left : Fits(Planned(i))
            /\ recovery' = [recovery EXCEPT !.locked = TRUE]
         \/ recovery' = NULL
  BY DEF BeginRecovery, Abandon, avars, records
<1>2. Recovering /\ live # NULL
  BY <1>1 DEF RecordsInv, Recovering
<1>3. Layout /\ Binding /\ Standing
  BY <1>2 DEF RecordsInv
<1>4. instructions' \in BOOLEAN /\ interruptions' \in 0..MaxInterruptions
  BY <1>1, <1>3 DEF Layout
<1>5. CASE recovery' = NULL
  BY <1>1, <1>4, <1>5, RecordsUntouched
<1>6. CASE /\ \A i \in recovery.left : Fits(Planned(i))
           /\ recovery' = [recovery EXCEPT !.locked = TRUE]
  <2>1. recovery \in Recoveries
    BY <1>2 DEF Recovering
  <2>2. /\ recovery'.action = recovery.action /\ recovery'.left = recovery.left
        /\ recovery' \in Recoveries /\ recovery.action \in {"CONTINUE", "ROLLBACK"}
    BY <1>6, <2>1 DEF Recoveries
  <2>3. recovery.action # "ROLLBACK"
    <3> SUFFICES ASSUME recovery.action = "ROLLBACK" PROVE FALSE
      OBVIOUS
    <3>1. PICK i \in recovery.left : live.changes[i] = CreateDir("recovery")
      BY <1>2 DEF Recovering
    <3>2. i \in DOMAIN live.changes
      BY <1>2 DEF Recovering
    <3>3. "recovery" \in dirs /\ "recovery" \in Directories
      BY <1>3 DEF Standing, Directories
    <3>4. ~Evidence!VerifiesBefore(Evidence!Undo(live.changes[i]), Seen(live)["recovery"])
      BY <1>3, <3>1, <3>2, <3>3, LeftOver
    <3>5. PICK c : c = live.changes[i]
      OBVIOUS
    <3>6. Planned(i) = Evidence!Undo(c)
      BY <3>5 DEF Planned, Evidence!Performed
    <3>7. Evidence!Undo(c).path = "recovery"
      BY <3>1, <3>3, <3>5, ChangeFields DEF Evidence!Undo
    <3>8. Evidence!VerifiesBefore(Evidence!Undo(c), Seen(live)["recovery"])
      BY <1>6, <3>6, <3>7 DEF Fits
    <3> QED
      BY <3>4, <3>5, <3>8
  <2>4. Unmade' = Unmade
    BY <1>1 DEF Unmade, Outcome, Current
  <2>5. Recovering'
    BY <1>1, <1>2, <2>2, <2>3, <2>4 DEF Recovering
  <2> QED
    BY <1>1, <1>4, <2>5, RecordsUntouched
<1> QED
  BY <1>1, <1>5, <1>6

\* A continuation takes the first of the changes that are left: the directory
\* that is missing, then the claim, then the manifest.
LEMMA NextIsFirst ==
    ASSUME Binding, Standing, recovery.action = "CONTINUE", recovery.left = Unmade, Unmade # {}
    PROVE  NextPlace \in Unmade /\ \A j \in Unmade : NextPlace <= j
<1>1. PICK n : n = Len(live.changes)
  OBVIOUS
<1>2. /\ n \in Nat /\ n >= 2 /\ DOMAIN live.changes = 1..n
      /\ n - 1 \in 1..n /\ n \in 1..n
      /\ \A i \in 1..(n - 2) : i \in 1..n /\ \E d \in Absent : live.changes[i] = CreateDir(d)
      /\ \A i, j \in 1..n : live.changes[i].path = live.changes[j].path => i = j
      /\ \A i \in 1..n : i \in 1..(n - 2) \/ i = n - 1 \/ i = n
      /\ Absent \subseteq Directories
  BY <1>1, ChangesByPlace
<1>3. \A i \in Unmade : i \in 1..n
  BY <1>2 DEF Unmade
<1>4. ASSUME NEW i \in 1..(n - 2), NEW j \in 1..(n - 2), i \in Unmade, j \in Unmade
      PROVE  i = j
  <2>1. PICK d \in Directories : live.changes[i] = CreateDir(d)
    BY <1>2
  <2>2. PICK e \in Directories : live.changes[j] = CreateDir(e)
    BY <1>2
  <2>3. live.changes[i].path = d /\ live.changes[j].path = e
    BY <2>1, <2>2, ChangeFields
  <2>4. d \notin dirs /\ e \notin dirs
    BY <1>4, <2>3 DEF Unmade, Outcome
  <2>5. d = "migrations" /\ e = "migrations"
    BY <2>1, <2>2, <2>4 DEF Standing, Directories
  <2> QED
    BY <1>2, <2>3, <2>5
<1>5. \E i \in Unmade : \A j \in Unmade : i <= j
  <2>1. ASSUME NEW i \in 1..(n - 2), i \in Unmade
        PROVE  \A j \in Unmade : i <= j
    <3> SUFFICES ASSUME NEW j \in Unmade PROVE i <= j
      OBVIOUS
    <3>1. CASE j \in 1..(n - 2)
      <4>1. i = j
        BY <1>4, <2>1, <3>1
      <4> QED
        BY <4>1
    <3>2. CASE j = n - 1 \/ j = n
      BY <1>2, <3>2
    <3> QED
      BY <1>2, <1>3, <3>1, <3>2
  <2>2. ASSUME \A i \in 1..(n - 2) : i \notin Unmade, n - 1 \in Unmade
        PROVE  \A j \in Unmade : n - 1 <= j
    <3> SUFFICES ASSUME NEW j \in Unmade PROVE n - 1 <= j
      OBVIOUS
    <3>1. j = n - 1 \/ j = n
      BY <1>2, <1>3, <2>2
    <3> QED
      BY <1>2, <3>1
  <2>3. ASSUME \A i \in 1..(n - 2) : i \notin Unmade, n - 1 \notin Unmade
        PROVE  n \in Unmade /\ \A j \in Unmade : n <= j
    <3>1. \A j \in Unmade : j = n
      BY <1>2, <1>3, <2>3
    <3> QED
      BY <1>2, <3>1
  <2>4. CASE \E i \in 1..(n - 2) : i \in Unmade
    BY <2>1, <2>4
  <2>5. CASE \A i \in 1..(n - 2) : i \notin Unmade
    BY <2>2, <2>3, <2>5
  <2> QED
    BY <2>4, <2>5
<1>6. NextPlace = CHOOSE i \in Unmade : \A j \in Unmade : i <= j
  BY DEF NextPlace
<1> QED
  BY <1>5, <1>6

\* A change that a continuation makes leaves the rest to be made.
LEMMA RecoveryPublishes ==
    ASSUME RecordsInv, PublishRecovery
    PROVE  RecordsInv'
<1>1. /\ recovery # NULL /\ recovery.locked /\ recovery.left # {}
      /\ UNCHANGED <<integrations, instructions, live, interruptions>>
  BY DEF PublishRecovery, avars
<1>2. Recovering /\ live # NULL /\ live.stopped /\ recovery \in Recoveries
  BY <1>1 DEF RecordsInv, Recovering
<1>3. Layout /\ Binding /\ Standing /\ Progress
  BY <1>2 DEF RecordsInv
<1>4. instructions' \in BOOLEAN /\ interruptions' \in 0..MaxInterruptions
  BY <1>1, <1>3 DEF Layout
<1>5. recovery.action = "CONTINUE" /\ recovery.left = Unmade
  BY <1>1, <1>2 DEF Recovering, Recoveries
<1>6. PICK i : i = NextPlace
  OBVIOUS
<1>7. i \in Unmade /\ \A j \in Unmade : i <= j
  BY <1>1, <1>3, <1>5, <1>6, NextIsFirst
<1>8. PICK n : n = Len(live.changes)
  OBVIOUS
<1>9. /\ n \in Nat /\ n >= 2 /\ DOMAIN live.changes = 1..n
      /\ n - 1 \in 1..n /\ n \in 1..n
      /\ live.changes[n - 1] = Rewrite("claim") /\ live.changes[n] = Rewrite("manifest")
      /\ \A j \in 1..(n - 2) : j \in 1..n /\ \E d \in Absent : live.changes[j] = CreateDir(d)
      /\ \A d \in Absent : \E j \in 1..(n - 2) : live.changes[j] = CreateDir(d)
      /\ \A j, k \in 1..n : live.changes[j].path = live.changes[k].path => j = k
      /\ \A j \in 1..n : j \in 1..(n - 2) \/ j = n - 1 \/ j = n
      /\ Absent \subseteq Directories
  BY <1>3, <1>8, ChangesByPlace
<1>10. PICK change : change = live.changes[i]
  OBVIOUS
<1>11. Planned(i) = change /\ i \in 1..n
  <2>1. Planned(i) = live.changes[i]
    BY <1>5 DEF Planned, Evidence!Performed
  <2> QED
    BY <1>7, <1>9, <1>10, <2>1 DEF Unmade
<1>12. \/ Made({change}) /\ recovery' = [recovery EXCEPT !.left = @ \ {i}]
       \/ recovery' = NULL /\ UNCHANGED <<version, codec, dirs>>
  BY <1>6, <1>11 DEF PublishRecovery, Abandon
<1>13. CASE recovery' = NULL /\ UNCHANGED <<version, codec, dirs>>
  BY <1>1, <1>4, <1>13, RecordsUntouched
<1>14. CASE Made({change}) /\ recovery' = [recovery EXCEPT !.left = @ \ {i}]
  <2>1. /\ recovery'.action = "CONTINUE" /\ recovery'.left = Unmade \ {i}
        /\ recovery' \in Recoveries
    BY <1>2, <1>5, <1>14 DEF Recoveries
  <2>2. /\ dirs' \subseteq Directories
        /\ change.path \in Directories =>
              (change.path \in dirs' <=> change.after = Evidence!Directory)
        /\ \A d \in Directories : change.path # d => (d \in dirs' <=> d \in dirs)
        /\ change.path = "claim" => codec' = change.after
        /\ change.path # "claim" => codec' = codec
        /\ change.path = "manifest" /\ change.after = "current" => version' = CurrentStateVersion
        /\ change.path # "manifest" => version' = version
    <3>1. \A c, e \in {change} : c.path = e.path => c = e
      OBVIOUS
    <3>2. PICK S : S = {change}
      OBVIOUS
    <3>3. /\ \A c, e \in S : c.path = e.path => c = e
          /\ dirs \subseteq Directories /\ Made(S)
      BY <1>3, <1>14, <3>1, <3>2 DEF Layout
    <3>4. /\ dirs' \subseteq Directories
          /\ \A c \in S : c.path \in Directories =>
                (c.path \in dirs' <=> c.after = Evidence!Directory)
          /\ \A d \in Directories : (\A c \in S : c.path # d) => (d \in dirs' <=> d \in dirs)
          /\ \A c \in S : c.path = "claim" => codec' = c.after
          /\ (\A c \in S : c.path # "claim") => codec' = codec
          /\ \A c \in S : c.path = "manifest" /\ c.after = "current" =>
                version' = CurrentStateVersion
          /\ \A c \in S : c.path = "manifest" /\ c.after = "legacy" => version' = live.from
          /\ (\A c \in S : c.path # "manifest") => version' = version
      BY <3>3, MadeProperties
    <3> QED
      BY <3>2, <3>4
  <2>3. Binding' /\ Absent' = Absent
    BY <1>1, <1>3, BindingUntouched
  <2>4. live.from \in {V1_0, V1_1} /\ live.from # CurrentStateVersion
    BY <1>3, UpgradeFields
  <2> DEFINE There(q) == \/ q \in Directories /\ q \in dirs'
                         \/ q = "claim" /\ codec' = "current"
                         \/ q = "manifest" /\ version' = CurrentStateVersion
  <2>5. ASSUME /\ dirs \subseteq dirs' /\ codec' \in {"legacy", "current"}
               /\ version' \in {live.from, CurrentStateVersion}
               /\ version' = CurrentStateVersion => codec' = "current"
               /\ codec' = "current" => dirs' = Directories
               /\ version' # V1_0 => dirs' = Directories
               /\ \A j \in 1..n : There(live.changes[j].path) <=>
                                     Outcome(live.changes[j].path) \/ j = i
        PROVE  RecordsInv'
    <3>1. Unmade' = Unmade \ {i}
      BY <1>1, <1>9, <2>5 DEF Unmade, Outcome, Current
    <3>2. Recovering'
      <4>1. recovery'.left \subseteq (DOMAIN live.changes)'
        BY <1>1, <2>1 DEF Unmade
      <4> QED
        BY <1>1, <1>2, <2>1, <3>1, <4>1 DEF Recovering
    <3>3. Progress'
      BY <1>1, <1>2, <1>3 DEF Progress
    <3>4. Standing'
      <4>1. Directories \ Absent \subseteq dirs' /\ "recovery" \in dirs'
        BY <1>3, <2>5 DEF Standing
      <4> QED
        BY <1>1, <2>3, <2>5, <4>1 DEF Standing, Current
    <3>5. Layout'
      BY <1>1, <1>2, <1>3, <1>4, <2>2, <2>4, <2>5 DEF Layout
    <3> QED
      BY <1>1, <1>2, <2>3, <3>2, <3>3, <3>4, <3>5 DEF RecordsInv
  <2>6. /\ version \in {live.from, CurrentStateVersion}
        /\ version = CurrentStateVersion => codec = "current"
        /\ codec = "current" => dirs = Directories
        /\ version # V1_0 => dirs = Directories
        /\ codec \in {"legacy", "current"} /\ dirs \subseteq Directories
    BY <1>3 DEF Standing, Layout, Current
  <2>7. /\ \A d \in Directories : Outcome(d) <=> d \in dirs
        /\ \A d \in Directories : There(d) <=> d \in dirs'
        /\ Outcome("claim") <=> codec = "current"
        /\ There("claim") <=> codec' = "current"
        /\ Outcome("manifest") <=> version = CurrentStateVersion
        /\ There("manifest") <=> version' = CurrentStateVersion
    BY DirectoryMarkers DEF Outcome, Current
  <2> HIDE DEF There
  <2>8. /\ live.changes[n - 1].path = "claim" /\ live.changes[n].path = "manifest"
        /\ live.changes[n - 1].after = "current" /\ live.changes[n].after = "current"
        /\ \A j \in 1..(n - 2) : live.changes[j].path \in Directories
    BY <1>9, ChangeFields
  <2>9. CASE i \in 1..(n - 2)
    <3>1. PICK d \in Directories : change = CreateDir(d)
      BY <1>9, <1>10, <2>9
    <3>2. change.path = d /\ change.after = Evidence!Directory /\ d # "claim" /\ d # "manifest"
      BY <3>1, ChangeFields, DirectoryMarkers
    <3>3. d \in dirs' /\ dirs \subseteq dirs' /\ codec' = codec /\ version' = version
      BY <1>3, <2>2, <3>2 DEF Layout
    <3>4. dirs = Directories => dirs' = Directories
      BY <2>2, <3>3
    <3>5. ASSUME NEW j \in 1..n
          PROVE  There(live.changes[j].path) <=> Outcome(live.changes[j].path) \/ j = i
      <4>1. CASE j = i
        BY <1>10, <2>7, <3>2, <3>3, <4>1
      <4>2. CASE j # i /\ j \in 1..(n - 2)
        <5>1. live.changes[j].path # d
          BY <1>9, <1>10, <1>11, <3>2, <4>2
        <5> QED
          BY <2>2, <2>7, <2>8, <3>2, <4>2, <5>1
      <4>3. CASE j # i /\ (j = n - 1 \/ j = n)
        BY <2>7, <2>8, <3>3, <4>3
      <4> QED
        BY <1>9, <4>1, <4>2, <4>3
    <3> QED
      BY <2>5, <2>6, <3>3, <3>4, <3>5
  <2>10. ASSUME i \notin 1..(n - 2)
         PROVE  dirs = Directories
    <3>1. ASSUME NEW j \in 1..(n - 2)
          PROVE  live.changes[j].path \in dirs
      <4>1. j \in 1..n /\ ~(i <= j)
        BY <1>9, <1>11, <2>10
      <4>2. Outcome(live.changes[j].path)
        BY <1>7, <1>9, <4>1 DEF Unmade
      <4> QED
        BY <2>7, <2>8, <4>2
    <3>2. \A d \in Absent : d \in dirs
      BY <1>9, <3>1, ChangeFields
    <3> QED
      BY <1>3, <2>6, <3>2 DEF Standing
  <2>11. CASE i = n - 1
    <3>1. change.path = "claim" /\ change.after = "current"
      BY <1>10, <2>8, <2>11
    <3>2. codec' = "current" /\ version' = version /\ dirs' = dirs
      BY <1>3, <2>2, <3>1, DirectoryMarkers DEF Layout
    <3>3. dirs = Directories
      BY <1>9, <2>10, <2>11
    <3>4. ASSUME NEW j \in 1..n
          PROVE  There(live.changes[j].path) <=> Outcome(live.changes[j].path) \/ j = i
      <4>1. CASE j = n - 1
        BY <2>7, <2>8, <2>11, <3>2, <4>1
      <4>2. CASE j = n
        <5>1. j # i
          BY <1>9, <2>11, <4>2
        <5> QED
          BY <2>7, <2>8, <3>2, <4>2, <5>1
      <4>3. CASE j \in 1..(n - 2)
        <5>1. j # i
          BY <1>9, <2>11, <4>3
        <5> QED
          BY <2>7, <2>8, <3>2, <4>3, <5>1
      <4> QED
        BY <1>9, <4>1, <4>2, <4>3
    <3> QED
      BY <2>5, <2>6, <3>2, <3>3, <3>4
  <2>12. CASE i = n
    <3>1. change.path = "manifest" /\ change.after = "current"
      BY <1>10, <2>8, <2>12
    <3>2. codec' = codec /\ version' = CurrentStateVersion /\ dirs' = dirs
      BY <1>3, <2>2, <3>1, DirectoryMarkers DEF Layout
    <3>3. dirs = Directories
      BY <1>9, <2>10, <2>12
    <3>4. codec = "current"
      <4>1. ~(i <= n - 1)
        BY <1>9, <2>12
      <4>2. Outcome("claim")
        BY <1>7, <1>9, <2>8, <4>1 DEF Unmade
      <4> QED
        BY <2>7, <4>2
    <3>5. ASSUME NEW j \in 1..n
          PROVE  There(live.changes[j].path) <=> Outcome(live.changes[j].path) \/ j = i
      <4>1. CASE j = n
        BY <2>7, <2>8, <2>12, <3>2, <4>1
      <4>2. CASE j = n - 1
        <5>1. j # i
          BY <1>9, <2>12, <4>2
        <5> QED
          BY <2>7, <2>8, <3>2, <4>2, <5>1
      <4>3. CASE j \in 1..(n - 2)
        <5>1. j # i
          BY <1>9, <2>12, <4>3
        <5> QED
          BY <2>7, <2>8, <3>2, <4>3, <5>1
      <4> QED
        BY <1>9, <4>1, <4>2, <4>3
    <3> QED
      BY <2>5, <2>6, <3>2, <3>3, <3>4, <3>5
  <2> QED
    BY <1>9, <1>11, <2>9, <2>11, <2>12
<1> QED
  BY <1>12, <1>13, <1>14

\* Where a recovery ends, nothing is left of the upgrade.
LEMMA RecoveryCompletes ==
    ASSUME RecordsInv, CompleteRecovery
    PROVE  RecordsInv'
<1>1. /\ recovery # NULL /\ recovery.locked /\ recovery.left = {}
      /\ live' = NULL /\ recovery' = NULL
      /\ UNCHANGED <<version, codec, dirs, instructions, interruptions>>
  BY DEF CompleteRecovery, Abandon, records
<1>2. Recovering /\ live # NULL /\ recovery \in Recoveries
  BY <1>1 DEF RecordsInv, Recovering
<1>3. Layout /\ Binding /\ Standing
  BY <1>2 DEF RecordsInv
<1>4. Unmade = {}
  BY <1>1, <1>2 DEF Recovering, Recoveries
<1>5. PICK n : n = Len(live.changes)
  OBVIOUS
<1>6. n \in DOMAIN live.changes /\ live.changes[n] = Rewrite("manifest")
  BY <1>3, <1>5, ChangesByPlace
<1>7. Outcome("manifest")
  BY <1>4, <1>6, ChangeFields DEF Unmade
<1>8. Current /\ codec = "current"
  BY <1>3, <1>7, DirectoryMarkers DEF Outcome, Standing
<1>9. Layout'
  BY <1>1, <1>3, <1>8 DEF Layout, Current
<1> QED
  BY <1>1, <1>9 DEF RecordsInv

-----------------------------------------------------------------------------
(* Every step keeps the invariant of the upgrade.                          *)

\* A command that is one step changes neither the version nor the claim.
LEMMA CommandPrepares ==
    ASSUME RecordsInv, live = NULL, dirs' \in {Prepared, IF version = V1_0 THEN dirs ELSE Prepared},
           instructions' \in BOOLEAN, UNCHANGED <<version, codec, live, recovery, interruptions>>
    PROVE  RecordsInv'
<1>1. Prepared \subseteq Directories /\ (dirs = Directories => Prepared = Directories)
  BY DEF RecordsInv, Layout, Prepared, Directories
<1>2. dirs' = Prepared \/ (version = V1_0 /\ dirs' = dirs)
  OBVIOUS
<1>3. Layout'
  BY <1>1, <1>2 DEF RecordsInv, Layout, Current
<1>4. recovery' = NULL
  BY DEF RecordsInv, Recovering
<1> QED
  BY <1>3, <1>4 DEF RecordsInv

\* Where the upgrade ends, the version tells the format of the claim.
LEMMA UpgradeCompletes ==
    ASSUME RecordsInv, CompleteUpgrade
    PROVE  RecordsInv'
<1>1. /\ Layout /\ Binding /\ Standing /\ Progress /\ live # NULL /\ recovery = NULL
      /\ live.stopped = FALSE
  BY NoneWhileRunning DEF CompleteUpgrade
<1>2. /\ live.next > Len(live.changes) /\ live' = NULL
      /\ UNCHANGED <<version, codec, dirs, instructions, recovery, interruptions>>
  BY DEF CompleteUpgrade, records
<1>3. version = CurrentStateVersion /\ codec = "current"
  BY <1>1, <1>2 DEF Progress, Standing, Current
<1>4. Layout'
  BY <1>1, <1>2, <1>3 DEF Layout, Current
<1> QED
  BY <1>1, <1>2, <1>4 DEF RecordsInv

\* Every step keeps what is said of the records.
LEMMA RecordsInvStep ==
    ASSUME AdaptersInv, RecordsInv, [Next]_vars
    PROVE  RecordsInv'
<1>1. instructions \in BOOLEAN /\ interruptions \in 0..MaxInterruptions
  BY DEF RecordsInv, Layout
<1>2. CASE AdapterMaintenance
  BY <1>1, <1>2, CommandPrepares DEF AdapterMaintenance
<1>3. CASE Uninstall
  BY <1>1, <1>3, CommandPrepares DEF Uninstall
<1>4. ASSUME NEW generated \in BOOLEAN, NEW native \in BOOLEAN, Repair(generated, native)
      PROVE  RecordsInv'
  <2>1. instructions' \in BOOLEAN
    BY <1>4 DEF Repair
  <2> QED
    BY <1>4, <2>1, CommandPrepares DEF Repair
<1>5. CASE StartUpgrade
  BY <1>5, UpgradeStarts
<1>6. CASE AnnounceChange
  BY <1>6, ChangeAnnounced
<1>7. CASE PublishChange
  BY <1>7, ChangePublished
<1>8. CASE CompleteUpgrade
  BY <1>8, UpgradeCompletes
<1>9. CASE InterruptUpgrade
  <2>1. interruptions' \in 0..MaxInterruptions
    BY <1>1, <1>9, MaintenanceAssumption DEF InterruptUpgrade
  <2> QED
    BY <1>1, <1>9, <2>1, UpgradeStops DEF InterruptUpgrade, avars, records
<1>10. ASSUME NEW action \in {"CONTINUE", "ROLLBACK"}, PlanRecovery(action)
       PROVE  RecordsInv'
  BY <1>10, RecoveryPlanned
<1>11. CASE BeginRecovery
  BY <1>11, RecoveryBegins
<1>12. CASE PublishRecovery
  BY <1>12, RecoveryPublishes
<1>13. CASE CompleteRecovery
  BY <1>13, RecoveryCompletes
<1>14. CASE AbandonRecovery
  <2>1. interruptions' \in 0..MaxInterruptions
    <3>1. recovery # NULL => recovery.locked \in BOOLEAN
      BY DEF RecordsInv, Recovering, Recoveries
    <3> QED
      BY <1>1, <1>14, <3>1, MaintenanceAssumption DEF AbandonRecovery
  <2>2. recovery' = NULL /\ UNCHANGED <<integrations, version, codec, dirs, instructions, live>>
    BY <1>14 DEF AbandonRecovery, Abandon, avars, records
  <2> QED
    BY <1>1, <2>1, <2>2, RecordsUntouched
<1>15. CASE EditNative
  BY <1>1, <1>15, RecordsUntouched DEF EditNative, UserEdit, Edit, records
<1>16. CASE LoseInstructions
  BY <1>1, <1>16, RecordsUntouched DEF LoseInstructions
<1>17. CASE UNCHANGED vars
  BY <1>1, <1>17, RecordsUntouched DEF vars, avars, mvars, records
<1> QED
  BY <1>2, <1>3, <1>4, <1>5, <1>6, <1>7, <1>8, <1>9, <1>10, <1>11, <1>12, <1>13, <1>14, <1>15,
     <1>16, <1>17 DEF Next

\* What an upgrade looks at before it makes a change shows that nobody edited.
LEMMA StillAsBoundNatives ==
    ASSUME Binding, live.next <= Len(live.changes) + 1, StillAsBound
    PROVE  NativesAsBound
<1> SUFFICES ASSUME NEW p \in DOMAIN live.natives PROVE files[p] = live.natives[p]
  BY DEF NativesAsBound
<1>1. live.next \in Nat /\ Len(live.changes) \in Nat
  BY UpgradeFields
<1>2. \A i \in 1..(live.next - 1) : i \in 1..Len(live.changes)
  BY <1>1
<1>3. p \in DOMAIN live.inputs
  <2>1. PICK n : n = Len(live.changes)
    OBVIOUS
  <2>2. n \in 1..n
    BY <2>1, ChangesByPlace
  <2> QED
    BY <2>1, <2>2, ChangesAreRecords
<1>4. p \notin {live.changes[i].path : i \in 1..(live.next - 1)}
  BY <1>2, ChangesAreRecords
<1>5. Evidence!VerifiesInput(live.inputs[p], Seen(live)[p])
  BY <1>3, <1>4 DEF StillAsBound
<1>6. Seen(live)[p] = live.inputs[p] /\ live.inputs[p] = "as bound"
  BY <1>5 DEF Evidence!VerifiesInput, Binding
<1>7. Seen(live)[p] = IF files[p] = live.natives[p] THEN "as bound" ELSE "changed"
  BY SeenProperties
<1> QED
  BY <1>6, <1>7

\* Nothing is decided, or looked at, before the next plan is made.
LEMMA NothingDecided ==
    ASSUME LateEdits, ~Decided
    PROVE  late = {}
BY DEF LateEdits

\* A stopped upgrade has announced nothing.
LEMMA Stopped ==
    ASSUME Binding, Stop
    PROVE  late' = {} /\ (~Running' \/ ~live'.announced)
<1>1. live \in Upgrades(DOMAIN live.natives)
  BY DEF Binding
<1>2. live'.announced = FALSE /\ late' = {}
  BY <1>1 DEF Stop, Upgrades
<1> QED
  BY <1>2

\* Every step keeps what is said of the native files: they are looked at before
\* a change is announced, and before a recovery is planned, and whatever users
\* edit from then on is remembered.
LEMMA LateEditsStep ==
    ASSUME AdaptersInv, RecordsInv, LateEdits, [Next]_vars
    PROVE  LateEdits'
<1>1. ASSUME late' = {}, ~Running' \/ ~live'.announced, recovery' = NULL
      PROVE  LateEdits'
  BY <1>1 DEF LateEdits, LookedAt, Decided
<1>2. late = {} \/ Decided
  BY NothingDecided
<1>3. ASSUME live = NULL
      PROVE  recovery = NULL /\ late = {}
  BY <1>2, <1>3 DEF RecordsInv, Recovering, Decided, Running
<1>4. CASE AdapterMaintenance \/ Uninstall \/ \E generated, native \in BOOLEAN :
                                                  Repair(generated, native)
  <2>1. live = NULL /\ UNCHANGED <<live, recovery, late>>
    BY <1>4 DEF AdapterMaintenance, Uninstall, Repair
  <2> QED
    BY <1>1, <1>3, <2>1 DEF Running
<1>5. CASE StartUpgrade
  <2>1. live = NULL /\ live'.announced = FALSE /\ UNCHANGED <<recovery, late>>
    BY <1>5 DEF StartUpgrade
  <2> QED
    BY <1>1, <1>3, <2>1
<1>6. CASE AnnounceChange
  <2>1. /\ Running /\ ~live.announced /\ UNCHANGED <<files, recovery>>
        /\ \/ StillAsBound /\ live' = [live EXCEPT !.announced = TRUE] /\ UNCHANGED late
           \/ Stop
    BY <1>6 DEF AnnounceChange, avars
  <2>2. recovery = NULL /\ Binding /\ Progress
    BY <2>1, NoneWhileRunning
  <2>3. CASE StillAsBound /\ live' = [live EXCEPT !.announced = TRUE] /\ UNCHANGED late
    <3>1. late = {}
      BY <1>2, <2>1, <2>2 DEF Decided
    <3>2. \A p \in DOMAIN live.natives : files[p] = live.natives[p]
      BY <2>2, <2>3, StillAsBoundNatives DEF Progress, NativesAsBound
    <3>3. live'.natives = live.natives
      BY <2>2, <2>3 DEF Binding, Upgrades
    <3> QED
      BY <2>1, <2>2, <2>3, <3>1, <3>2, <3>3 DEF LateEdits
  <2>4. CASE Stop
    BY <1>1, <2>1, <2>2, <2>4, Stopped
  <2> QED
    BY <2>1, <2>3, <2>4
<1>7. CASE PublishChange
  <2>1. /\ Running /\ UNCHANGED recovery
        /\ \/ live' = [live EXCEPT !.next = @ + 1, !.announced = FALSE] /\ late' = {}
           \/ Stop
    BY <1>7 DEF PublishChange
  <2>2. recovery = NULL /\ Binding
    BY <2>1, NoneWhileRunning
  <2>3. CASE live' = [live EXCEPT !.next = @ + 1, !.announced = FALSE] /\ late' = {}
    <3>1. live'.announced = FALSE
      BY <2>2, <2>3 DEF Binding, Upgrades
    <3> QED
      BY <1>1, <2>1, <2>2, <2>3, <3>1
  <2>4. CASE Stop
    BY <1>1, <2>1, <2>2, <2>4, Stopped
  <2> QED
    BY <2>1, <2>3, <2>4
<1>8. CASE CompleteUpgrade
  <2>1. Running /\ live.next > Len(live.changes) /\ live' = NULL /\ UNCHANGED <<recovery, late>>
    BY <1>8 DEF CompleteUpgrade
  <2>2. recovery = NULL /\ Binding /\ Progress
    BY <2>1, NoneWhileRunning
  <2>3. ~live.announced
    BY <2>1, <2>2, UpgradeFields DEF Progress
  <2>4. late = {}
    BY <1>2, <2>2, <2>3 DEF Decided
  <2> QED
    BY <1>1, <2>1, <2>2, <2>4 DEF Running
<1>9. CASE InterruptUpgrade
  <2>1. Running /\ Stop /\ UNCHANGED recovery
    BY <1>9 DEF InterruptUpgrade
  <2>2. recovery = NULL /\ Binding
    BY <2>1, NoneWhileRunning
  <2> QED
    BY <1>1, <2>1, <2>2, Stopped
<1>10. ASSUME NEW action \in {"CONTINUE", "ROLLBACK"}, PlanRecovery(action)
       PROVE  LateEdits'
  <2>1. /\ Halted /\ recovery = NULL
        /\ Evidence!RecoveryOffered(action, Classification)
        /\ UNCHANGED <<files, live, late>>
    BY <1>10 DEF PlanRecovery, avars
  <2>2. PICK left : left = Evidence!RecoveryIndices(action, live.changes, Seen(live))
    OBVIOUS
  <2>3. recovery'.action = action /\ recovery'.left = left
    BY <1>10, <2>2 DEF PlanRecovery
  <2>4. Binding
    BY <2>1 DEF Halted, RecordsInv
  <2>5. late = {} /\ ~Running /\ ~Running'
    BY <1>2, <2>1 DEF Decided, Halted, Running
  <2>6. ASSUME action = "CONTINUE", left # {}
        PROVE  \A p \in DOMAIN live.natives : files[p] = live.natives[p]
    <3>1. Evidence!ContinueIndices(live.changes, Seen(live)) # {}
      BY <2>2, <2>6 DEF Evidence!RecoveryIndices
    <3>2. NativesAsBound
      BY <2>1, <2>4, <3>1, OfferedAsBound
    <3> QED
      BY <3>2 DEF NativesAsBound
  <2> QED
    BY <2>1, <2>3, <2>5, <2>6 DEF LateEdits, LookedAt
<1>11. ASSUME recovery # NULL, recovery' # NULL, recovery'.action = recovery.action,
              recovery'.left \subseteq recovery.left, UNCHANGED <<files, live, late>>
       PROVE  LateEdits'
  <2>1. ~Running /\ ~Running'
    BY <1>11 DEF RecordsInv, Recovering, Running
  <2>2. LookedAt' => LookedAt
    BY <1>11, <2>1 DEF LookedAt
  <2>3. Decided'
    BY <1>11 DEF Decided
  <2> QED
    BY <1>11, <2>2, <2>3 DEF LateEdits
<1>12. CASE BeginRecovery
  <2>1. /\ recovery # NULL /\ UNCHANGED <<files, live>>
        /\ \/ recovery' = [recovery EXCEPT !.locked = TRUE] /\ UNCHANGED late
           \/ Abandon
    BY <1>12 DEF BeginRecovery, avars
  <2>2. recovery \in Recoveries /\ live.stopped
    BY <2>1 DEF RecordsInv, Recovering
  <2>3. CASE recovery' = [recovery EXCEPT !.locked = TRUE] /\ UNCHANGED late
    <3>1. /\ recovery'.action = recovery.action /\ recovery'.left = recovery.left
          /\ recovery' \in Recoveries
      BY <2>2, <2>3 DEF Recoveries
    <3> QED
      BY <1>11, <2>1, <2>3, <3>1, MaintenanceAssumption
  <2>4. CASE Abandon
    BY <1>1, <2>1, <2>2, <2>4 DEF Abandon, Running
  <2> QED
    BY <2>1, <2>3, <2>4
<1>13. CASE PublishRecovery
  <2>1. /\ recovery # NULL /\ UNCHANGED <<files, live>>
        /\ \/ recovery' = [recovery EXCEPT !.left = @ \ {NextPlace}] /\ UNCHANGED late
           \/ Abandon
    BY <1>13 DEF PublishRecovery, avars
  <2>2. recovery \in Recoveries /\ live.stopped
    BY <2>1 DEF RecordsInv, Recovering
  <2>3. CASE recovery' = [recovery EXCEPT !.left = @ \ {NextPlace}] /\ UNCHANGED late
    <3>1. /\ recovery'.action = recovery.action /\ recovery'.left \subseteq recovery.left
          /\ recovery' \in Recoveries
      BY <2>2, <2>3 DEF Recoveries
    <3> QED
      BY <1>11, <2>1, <2>3, <3>1, MaintenanceAssumption
  <2>4. CASE Abandon
    BY <1>1, <2>1, <2>2, <2>4 DEF Abandon, Running
  <2> QED
    BY <2>1, <2>3, <2>4
<1>14. CASE CompleteRecovery
  BY <1>1, <1>14 DEF CompleteRecovery, Abandon, Running
<1>15. CASE AbandonRecovery
  <2>1. recovery # NULL /\ Abandon /\ UNCHANGED live
    BY <1>15 DEF AbandonRecovery
  <2>2. live.stopped
    BY <2>1 DEF RecordsInv, Recovering
  <2> QED
    BY <1>1, <2>1, <2>2 DEF Abandon, Running
<1>16. CASE EditNative
  <2>1. UNCHANGED <<live, recovery>>
        /\ late' = {p \in Paths : Decided /\ (p \in late \/ files'[p] # files[p])}
    BY <1>16 DEF EditNative
  <2>2. (Decided' <=> Decided) /\ (LookedAt' <=> LookedAt)
    BY <2>1 DEF Decided, LookedAt, Running
  <2>3. late' \subseteq Paths /\ (~Decided => late' = {})
    BY <2>1
  <2>4. ASSUME LookedAt, NEW p \in DOMAIN live.natives, p \notin late'
        PROVE  files'[p] = live.natives[p]
    <3>1. Decided /\ live # NULL
      BY <2>4 DEF LookedAt, Decided, Running, RecordsInv, Recovering
    <3>2. p \in Paths
      BY <3>1 DEF RecordsInv, Binding
    <3>3. p \notin late /\ files'[p] = files[p]
      BY <2>1, <2>4, <3>1, <3>2
    <3> QED
      BY <2>4, <3>3 DEF LateEdits
  <2> QED
    BY <2>1, <2>2, <2>3, <2>4 DEF LateEdits
<1>17. CASE LoseInstructions \/ UNCHANGED vars
  <2>1. UNCHANGED <<files, live, recovery, late>>
    BY <1>17 DEF LoseInstructions, vars, avars, mvars
  <2> QED
    BY <2>1 DEF LateEdits, LookedAt, Decided, Running
<1> QED
  BY <1>4, <1>5, <1>6, <1>7, <1>8, <1>9, <1>10, <1>12, <1>13, <1>14, <1>15, <1>16, <1>17 DEF Next

\* It holds of a workspace of any version that no upgrade has begun on.
LEMMA UpgradeInvStarts ==
    ASSUME Init
    PROVE  UpgradeInv
<1>1. /\ version \in {V1_0, V1_1, CurrentStateVersion}
      /\ codec = IF Current THEN "current" ELSE "legacy"
      /\ dirs = IF version = V1_0 THEN {} ELSE Directories
      /\ instructions = TRUE /\ live = NULL /\ recovery = NULL /\ late = {}
      /\ interruptions = 0
  BY DEF Init
<1>2. 0 \in 0..MaxInterruptions
  BY MaintenanceAssumption
<1>3. RecordsInv
  BY <1>1, <1>2 DEF RecordsInv, Layout
<1>4. LateEdits
  BY <1>1 DEF LateEdits, LookedAt, Running
<1> QED
  BY <1>3, <1>4 DEF UpgradeInv

\* Between any two changes of an upgrade, and of a recovery that goes through
\* them one by one and may be given up anywhere, the manifest stands on the claim
\* and the claim on the directories; a continuation has exactly the rest to do,
\* and what the version may change on is as it was when it was healthy, but for
\* the files that users edited since.
THEOREM UpgradeInvariant == Spec => []UpgradeInv
<1>1. Init => UpgradeInv
  BY UpgradeInvStarts
<1>2. AdaptersInv /\ UpgradeInv /\ [Next]_vars => UpgradeInv'
  BY RecordsInvStep, LateEditsStep DEF UpgradeInv
<1> QED
  BY <1>1, <1>2, AdaptersInvariant, PTL DEF Spec

\* Each variable holds what it may.
THEOREM TypeCorrect == Spec => []TypeOK
<1>1. AdaptersInv /\ UpgradeInv => TypeOK
  <2> SUFFICES ASSUME AdaptersInv, UpgradeInv PROVE TypeOK
    OBVIOUS
  <2>1. /\ files \in [Paths -> NativeContents \cup {MISSING}]
        /\ integrations \in [Paths -> Artifacts \cup {NULL}]
        /\ ValidManifest(integrations) /\ edits \in 0..MaxEdits
    BY DEF AdaptersInv
  <2>2. Layout
    BY DEF UpgradeInv, RecordsInv
  <2>3. live # NULL => /\ DOMAIN live.natives \subseteq Paths
                       /\ live \in Upgrades(DOMAIN live.natives)
                       /\ live.next <= Len(live.changes) + 1
    BY DEF UpgradeInv, RecordsInv, Binding, Progress
  <2>4. recovery # NULL => /\ Halted /\ recovery \in Recoveries
                           /\ recovery.left \subseteq DOMAIN live.changes
    BY DEF UpgradeInv, RecordsInv, Recovering, Halted
  <2>5. late \subseteq Paths /\ (~Decided => late = {})
    BY DEF UpgradeInv, LateEdits
  <2> QED
    BY <2>1, <2>2, <2>3, <2>4, <2>5 DEF TypeOK, Layout
<1> QED
  BY <1>1, AdaptersInvariant, UpgradeInvariant, PTL

\* The version never promises a format of the claim or a directory that is not
\* there, between any two changes that an upgrade or a recovery publishes.
THEOREM VersionTells == Spec => []VersionTellsLayout
<1>1. UpgradeInv => VersionTellsLayout
  <2> SUFFICES ASSUME UpgradeInv PROVE VersionTellsLayout
    OBVIOUS
  <2>1. Layout
    BY DEF UpgradeInv, RecordsInv
  <2>2. Current => dirs = Directories
    BY <2>1, StepsInOrder DEF Layout, Current
  <2>3. ~Current /\ live = NULL => codec = "legacy"
    BY <2>1 DEF Layout
  <2>4. Current => codec = "current"
    <3>1. CASE live = NULL
      BY <2>1, <3>1 DEF Layout
    <3>2. CASE live # NULL
      BY <3>2 DEF UpgradeInv, RecordsInv, Standing
    <3> QED
      BY <3>1, <3>2
  <2> QED
    BY <2>2, <2>3, <2>4 DEF VersionTellsLayout
<1> QED
  BY <1>1, UpgradeInvariant, PTL

-----------------------------------------------------------------------------
(* Upgrades and users' edits.                                              *)

\* Where the version may change, a provider whose files nobody edited since they
\* were looked at is healthy: his files are those that were found to be.
LEMMA LookedAtIsHealthy ==
    ASSUME AdaptersInv, UpgradeInv, LookedAt, NEW id \in Configured, Candidates(id) \cap late = {}
    PROVE  Healthy(id, "")
<1>1. live # NULL
  BY DEF LookedAt, Running, UpgradeInv, RecordsInv, Recovering
<1>2. Binding
  BY <1>1 DEF UpgradeInv, RecordsInv
<1>3. Candidates(id) \subseteq DOMAIN live.natives /\ Bound!Healthy(id, "")
  BY <1>2 DEF Binding
<1>4. \A p \in Candidates(id) : files[p] = live.natives[p]
  BY <1>3 DEF UpgradeInv, LateEdits
<1> QED
  BY <1>3, <1>4, BoundHealth

\* When the version changes, every provider is healthy but those whose files were
\* edited after the last look: of an upgrade, when it announced the change; of a
\* recovery, when it was planned.
THEOREM UpgradesAreHealthy == Spec => UpgradesOnlyHealthy
<1> DEFINE Healthily == ~Current /\ Current' =>
                \A id \in Configured : Candidates(id) \cap late = {} => Healthy(id, "")
<1>1. AdaptersInv /\ UpgradeInv /\ [Next]_vars => Healthily
  <2> SUFFICES ASSUME AdaptersInv, UpgradeInv, [Next]_vars, ~Current, Current'
               PROVE  LookedAt
    BY LookedAtIsHealthy
  <2>1. version' # version
    BY DEF Current
  <2>2. PublishChange \/ PublishRecovery
    BY <2>1 DEF Next, AdapterMaintenance, Uninstall, Repair, StartUpgrade, AnnounceChange,
                CompleteUpgrade, InterruptUpgrade, PlanRecovery, BeginRecovery, CompleteRecovery,
                AbandonRecovery, EditNative, LoseInstructions, vars, mvars, records
  <2>3. CASE PublishChange
    BY <2>3 DEF PublishChange, LookedAt
  <2>4. CASE PublishRecovery
    <3>1. recovery # NULL /\ recovery.locked /\ recovery.left # {}
      BY <2>4 DEF PublishRecovery
    <3>2. recovery.action = "CONTINUE"
      BY <3>1 DEF UpgradeInv, RecordsInv, Recovering, Recoveries
    <3> QED
      BY <3>1, <3>2 DEF LookedAt
  <2> QED
    BY <2>2, <2>3, <2>4
<1>2. AdaptersInv /\ UpgradeInv /\ [Next]_vars => [Healthily]_vars
  BY <1>1
<1> HIDE DEF Healthily
<1>3. Spec => [][Healthily]_vars
  BY <1>2, AdaptersInvariant, UpgradeInvariant, PTL DEF Spec
<1> QED
  BY <1>3 DEF UpgradesOnlyHealthy, Healthily

\* What an upgrade bound to .uawp/recovery has not changed yet is as it saw it.
LEMMA UnchangedIsAsSeen ==
    ASSUME Binding, Standing, Progress, ~live.stopped,
           live.inputs["recovery"] # Evidence!Missing,
           NEW q \in Directories \cup RecordFiles,
           \A i \in 1..(live.next - 1) : live.changes[i].path # q
    PROVE  Seen(live)[q] = live.inputs[q]
<1>1. PICK n : n = Len(live.changes)
  OBVIOUS
<1>2. /\ n \in Nat /\ n >= 2 /\ n - 1 \in 1..n /\ n \in 1..n
      /\ live.changes[n - 1] = Rewrite("claim") /\ live.changes[n] = Rewrite("manifest")
      /\ \A d \in Absent : \E i \in 1..(n - 2) : live.changes[i] = CreateDir(d)
  BY <1>1, ChangesByPlace
<1>3. live.next \in Nat /\ live.next >= 1 /\ live.from # CurrentStateVersion
  BY UpgradeFields
<1>4. /\ \A d \in Directories :
            Seen(live)[d] = IF d \in dirs THEN Evidence!Directory ELSE Evidence!Missing
      /\ Seen(live)["claim"] = codec
      /\ Seen(live)["manifest"] = IF Current THEN "current" ELSE "legacy"
  BY SeenProperties
<1>5. /\ Directories \ Absent \subseteq dirs
      /\ codec = IF live.next > n - 1 THEN "current" ELSE "legacy"
      /\ version = IF live.next > n THEN CurrentStateVersion ELSE live.from
      /\ \A i \in 1..(n - 2) :
            i >= live.next /\ live.changes[i].path \in dirs => live.changes[i].path = "recovery"
  BY <1>1 DEF Progress, Standing
<1>6. ASSUME NEW i \in 1..n, live.changes[i].path = q
      PROVE  i >= live.next
  <2> SUFFICES ASSUME i < live.next PROVE FALSE
    BY <1>2, <1>3
  <2>1. i \in 1..(live.next - 1)
    BY <1>2, <1>3
  <2> QED
    BY <1>6, <2>1
<1>7. CASE q \in Absent
  <2>1. PICK i \in 1..(n - 2) : live.changes[i] = CreateDir(q)
    BY <1>2, <1>7
  <2>2. live.changes[i].path = q /\ q \in Directories
    BY <1>7, <2>1, ChangeFields DEF Absent
  <2>3. i >= live.next
    <3>1. i \in 1..n
      BY <1>2
    <3> QED
      BY <1>6, <2>2, <3>1
  <2>4. q # "recovery" /\ live.inputs[q] = Evidence!Missing
    BY <1>7 DEF Absent
  <2>5. q \notin dirs
    BY <1>5, <2>2, <2>3, <2>4
  <2> QED
    BY <1>4, <2>2, <2>4, <2>5
<1>8. CASE q \in Directories \ Absent
  BY <1>4, <1>5, <1>8 DEF Binding
<1>9. CASE q = "claim"
  <2>1. n - 1 >= live.next
    BY <1>2, <1>6, <1>9, ChangeFields
  <2>2. codec = "legacy"
    BY <1>2, <1>3, <1>5, <2>1
  <2> QED
    BY <1>4, <1>9, <2>2 DEF Binding, RecordFiles
<1>10. CASE q = "manifest"
  <2>1. n >= live.next
    BY <1>2, <1>6, <1>10, ChangeFields
  <2>2. version # CurrentStateVersion
    BY <1>2, <1>3, <1>5, <2>1
  <2> QED
    BY <1>4, <1>10, <2>2 DEF Binding, RecordFiles, Current
<1> QED
  BY <1>7, <1>8, <1>9, <1>10 DEF RecordFiles

\* Such an upgrade makes its next change unless users edited.
LEMMA UpgradeGoesOn ==
    ASSUME UpgradeInv, Running, live.next <= Len(live.changes), NativesAsBound,
           live.inputs["recovery"] # Evidence!Missing,
           NEW change, change = live.changes[live.next]
    PROVE  StillAsBound /\ Evidence!VerifiesBefore(change, Seen(live)[change.path])
<1>1. Binding /\ Standing /\ Progress /\ ~live.stopped
  BY DEF UpgradeInv, RecordsInv, Running
<1>2. PICK n : n = Len(live.changes)
  OBVIOUS
<1>3. /\ n \in Nat /\ n >= 2 /\ n - 1 \in 1..n /\ n \in 1..n
      /\ live.changes[n - 1] = Rewrite("claim") /\ live.changes[n] = Rewrite("manifest")
      /\ \A i \in 1..(n - 2) : i \in 1..n /\ \E d \in Absent : live.changes[i] = CreateDir(d)
      /\ \A i, j \in 1..n : live.changes[i].path = live.changes[j].path => i = j
      /\ \A i \in 1..n : i \in 1..(n - 2) \/ i = n - 1 \/ i = n
      /\ Absent \subseteq Directories
  BY <1>1, <1>2, ChangesByPlace
<1>4. /\ live.next \in Nat /\ live.next >= 1
      /\ DOMAIN live.inputs = Directories \cup RecordFiles \cup DOMAIN live.natives
  BY <1>1, UpgradeFields
<1>5. StillAsBound
  <2> SUFFICES ASSUME NEW q \in DOMAIN live.inputs
                        \ {live.changes[i].path : i \in 1..(live.next - 1)}
               PROVE  Seen(live)[q] = live.inputs[q]
    BY DEF StillAsBound, Evidence!VerifiesInput
  <2>1. \A i \in 1..(live.next - 1) : live.changes[i].path # q
    OBVIOUS
  <2>2. CASE q \in Directories \cup RecordFiles
    BY <1>1, <2>1, <2>2, UnchangedIsAsSeen
  <2>3. CASE q \in DOMAIN live.natives
    <3>1. live.inputs[q] = "as bound" /\ files[q] = live.natives[q]
      BY <1>1, <2>3 DEF Binding, NativesAsBound
    <3>2. Seen(live)[q] = IF files[q] = live.natives[q] THEN "as bound" ELSE "changed"
      BY <1>1, <2>3, SeenProperties
    <3> QED
      BY <3>1, <3>2
  <2> QED
    BY <1>4, <2>2, <2>3
<1>6. live.next \in 1..n
  BY <1>2, <1>3, <1>4
<1>7. \A i \in 1..(live.next - 1) : live.changes[i].path # change.path
  <2> SUFFICES ASSUME NEW i \in 1..(live.next - 1), live.changes[i].path = change.path
               PROVE  FALSE
    OBVIOUS
  <2>1. i \in 1..n /\ i # live.next
    BY <1>3, <1>6
  <2> QED
    BY <1>3, <1>6, <2>1
<1>8. CASE live.next \in 1..(n - 2)
  <2>1. PICK d \in Absent : change = CreateDir(d)
    BY <1>3, <1>8
  <2>2. change.path = d /\ change.before = Evidence!Missing /\ d \in Directories
    BY <1>3, <2>1, ChangeFields
  <2>3. Seen(live)[d] = Evidence!Missing
    BY <1>1, <1>7, <2>2, UnchangedIsAsSeen DEF Absent
  <2> QED
    BY <1>5, <2>2, <2>3 DEF Evidence!VerifiesBefore
<1>9. CASE live.next \in {n - 1, n}
  <2>1. PICK file \in RecordFiles : change = Rewrite(file)
    BY <1>3, <1>9, ChangeFields
  <2>2. change.path = file /\ change.before = "legacy"
    BY <2>1, ChangeFields
  <2>3. Seen(live)[file] = "legacy"
    BY <1>1, <1>7, <2>2, UnchangedIsAsSeen DEF Binding
  <2>4. "legacy" \in Fingerprints /\ "legacy" # Evidence!Missing
    BY DirectoryMarkers DEF Fingerprints
  <2> QED
    BY <1>5, <2>2, <2>3, <2>4 DEF Evidence!VerifiesBefore
<1> QED
  BY <1>3, <1>6, <1>8, <1>9

\* An upgrade stops of itself only when users overtook it, or on a namespace
\* without the directory that it makes itself.
THEOREM UpgradesGoOn == Spec => OnlyBareUpgradesStop
<1> DEFINE GoesOn == (AnnounceChange \/ PublishChange) /\ Halted' =>
                         ~NativesAsBound \/ live.inputs["recovery"] = Evidence!Missing
<1>1. UpgradeInv => GoesOn
  <2> SUFFICES ASSUME UpgradeInv, AnnounceChange \/ PublishChange, Halted', NativesAsBound,
                      live.inputs["recovery"] # Evidence!Missing
               PROVE  FALSE
    OBVIOUS
  <2>1. Running
    BY DEF AnnounceChange, PublishChange
  <2>2. Binding /\ Progress /\ live.stopped = FALSE
    BY <2>1, NoneWhileRunning DEF UpgradeInv
  <2>3. live \in Upgrades(DOMAIN live.natives)
    BY <2>2 DEF Binding
  <2>4. PICK change : change = live.changes[live.next]
    OBVIOUS
  <2>5. live.next <= Len(live.changes)
    BY <2>2 DEF AnnounceChange, PublishChange, Progress
  <2>6. StillAsBound /\ Evidence!VerifiesBefore(change, Seen(live)[change.path])
    BY <2>1, <2>4, <2>5, UpgradeGoesOn
  <2>7. CASE AnnounceChange
    <3>1. live' = [live EXCEPT !.announced = TRUE]
      BY <2>6, <2>7 DEF AnnounceChange
    <3> QED
      BY <2>2, <2>3, <3>1 DEF Upgrades, Halted
  <2>8. CASE PublishChange
    <3>1. live' = [live EXCEPT !.next = @ + 1, !.announced = FALSE]
      BY <2>4, <2>6, <2>8 DEF PublishChange, Fits
    <3> QED
      BY <2>2, <2>3, <3>1 DEF Upgrades, Halted
  <2> QED
    BY <2>7, <2>8
<1>2. UpgradeInv => [GoesOn]_vars
  BY <1>1
<1> HIDE DEF GoesOn
<1>3. Spec => [][GoesOn]_vars
  BY <1>2, UpgradeInvariant, PTL
<1> QED
  BY <1>3 DEF OnlyBareUpgradesStop, GoesOn
===============================================================================

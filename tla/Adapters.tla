------------------------------ MODULE Adapters ------------------------------
(***************************************************************************)
(* The adapters: which native file each provider reads, the artifacts the  *)
(* manifest registers, and the commands that add and remove them, between  *)
(* the edits of the user, who owns those files.                            *)
(*                                                                         *)
(* A command is one step.  Its plan is bound to every file it reads, so a  *)
(* plan that something overtook is not applied.                            *)
(***************************************************************************)
EXTENDS NativeEntries, FiniteSets

CONSTANTS
    Providers,   \* the adapters in use
    Facts,       \* what may be known of directAgentsSupport
    Edits,       \* how users edit native files
    MaxEdits,    \* bound: how often they do
    MISSING, NULL

Override == "AGENTS.override.md"
Agents == "AGENTS.md"
Claude == "CLAUDE.md"
CodeBuddy == "CODEBUDDY.md"
Paths == {Override, Agents, Claude, CodeBuddy}
Instructions == ".uawp/INSTRUCTIONS.md"

ASSUME AdaptersAssumption ==
    /\ Providers \subseteq {"codex", "claude-code", "workbuddy"}
    /\ "" \in Facts /\ Facts \subseteq {"", "true", "false"}
    /\ Edits \subseteq {"prepend", "append", "delete", "empty", "strip"}
    /\ MaxEdits \in Nat

VARIABLES
    files,       \* the native files
    integrations,\* the artifacts of the manifest, by their path
    original,    \* the native files before UAWP came
    edits        \* the user's edits so far
avars == <<files, integrations, original, edits>>

-----------------------------------------------------------------------------
(* Data. *)

ArtifactID(p) == CASE p \in {Agents, Override} -> "uawp-entry-agents-v1"
                   [] p = Claude -> "uawp-entry-claude-v1"
                   [] p = CodeBuddy -> "uawp-entry-codebuddy-v1"
Modes == {"MANAGED_BLOCK", "IMPORT"}

Tokens == {NL} \cup {Line(n) : n \in 0..MaxEdits} \cup {ImportOf(t) : t \in {Agents, Instructions}}
               \cup {BlockOf(ArtifactID(p), c) : p \in Paths, c \in SUBSET Providers}
NativeContents == Seq(Tokens)

(* A fingerprint stands for the content it is taken of. *)
Artifacts == [mode : Modes, consumers : (SUBSET Providers) \ {{}}, facts : Facts,
              created : BOOLEAN, imports : Seq({Agents, Instructions}),
              sum : NativeContents, outside : NativeContents]

ASSUME MarkersAssumption == MISSING \notin NativeContents /\ NULL \notin Artifacts

Content(p) == IF files[p] = MISSING THEN <<>> ELSE files[p]
Present(p) == Content(p) # <<>>

Registered == {p \in Paths : integrations[p] # NULL}
Consumers(p) == integrations[p].consumers
Configured == UNION {Consumers(p) : p \in Registered}
EntriesOf(id) == {p \in Registered : id \in Consumers(p)}
Block(p, consumers) == BlockOf(ArtifactID(p), consumers)

(* ValidateManifest, which EncodeManifest asks before there is a plan. *)
ValidManifest(arts) ==
    LET taken == {p \in Paths : arts[p] # NULL} IN
    /\ \A p \in taken : arts[p].consumers # {}
    /\ \A p, q \in taken : p # q => /\ ArtifactID(p) # ArtifactID(q)
                                    /\ arts[p].consumers \cap arts[q].consumers = {}
\* Mutant: the manifest is encoded as it comes.
EncodesAnything(arts) == TRUE

Encodes(arts) == ValidManifest(arts)

-----------------------------------------------------------------------------
(* Resolve: the entry a provider reads, by what is there and not empty.     *)

(* CandidatePaths: the files that decide it. *)
Candidates(id) == CASE id = "codex" -> {Override, Agents}
                    [] id = "claude-code" -> {Claude, Agents}
                    [] id = "workbuddy" -> {CodeBuddy, Agents}

Route(p, mode, create) == [path |-> p, mode |-> mode, create |-> create]

CodexRoute ==
    Route(IF Present(Override) THEN Override ELSE Agents, "MANAGED_BLOCK",
          ~Present(Override) /\ ~Present(Agents))
WorkBuddyRoute ==
    Route(IF Present(Agents) /\ ~Present(CodeBuddy) THEN Agents ELSE CodeBuddy,
          "MANAGED_BLOCK", ~Present(CodeBuddy) /\ ~Present(Agents))
ClaudeRoute(direct) ==
    IF ~Present(Claude) /\ Present(Agents) /\ direct = "true"
    THEN Route(Agents, "MANAGED_BLOCK", FALSE)
    ELSE Route(Claude, "IMPORT", ~Present(Claude))

RouteOf(id, direct) == CASE id = "codex" -> CodexRoute
                         [] id = "workbuddy" -> WorkBuddyRoute
                         [] id = "claude-code" -> ClaudeRoute(direct)

(* A new CLAUDE.md would hide the AGENTS.md that was read so far.           *)
HidesAgents(route) == route.path = Claude /\ route.create /\ Present(Agents)

(* Facts given with a command come before those persisted with an artifact. *)
EffectiveFacts(id, given) ==
    IF given = "" /\ EntriesOf(id) # {} THEN integrations[Only(EntriesOf(id))].facts ELSE given

\* Mutant: an entry that is not there is not looked at.
VerifiedWherePresent(p) ==
    \/ files[p] = MISSING
    \/ LET a == integrations[p] IN
       IF a.mode = "MANAGED_BLOCK" THEN RemovePossible(Content(p), Block(p, a.consumers))
       ELSE Imports(Content(p), Instructions)

(* verifyRegisteredArtifact: what was registered stands in its file.        *)
Verified(p) ==
    LET a == integrations[p] IN
    IF a.mode = "MANAGED_BLOCK" THEN RemovePossible(Content(p), Block(p, a.consumers))
    ELSE ImportPossible(Content(p), Instructions) /\ Imports(Content(p), Instructions)

(* diagnoseRegisteredAdapter: neither ENTRY_DRIFT nor INTEGRATION_DRIFT.    *)
Healthy(id, given) ==
    \E p \in EntriesOf(id) :
        /\ RouteOf(id, EffectiveFacts(id, given)).path = p
        /\ RouteOf(id, EffectiveFacts(id, given)).mode = integrations[p].mode
        /\ Verified(p)

-----------------------------------------------------------------------------
(* What a plan makes of one file. *)

Written(p, after) == IF after = Content(p) THEN files[p] ELSE after

\* Mutant: only the import of the instructions is taken out.
WithoutBridgeImport(a, c) == IF a.imports = <<>> THEN c ELSE RemoveImport(c, Instructions)

AllRemovable(a, c) == \A i \in DOMAIN a.imports : ImportPossible(c, a.imports[i])
WithoutImports(a, c) ==
    LET Strip[i \in 0..Len(a.imports)] ==
            IF i = 0 THEN c ELSE RemoveImport(Strip[i - 1], a.imports[i])
    IN Strip[Len(a.imports)]

\* Mutant: the fingerprint of a created file is not asked for.
BareUnchecked(p) ==
    LET a == integrations[p]  c == Content(p) IN
    IF a.created THEN <<>>
    ELSE IF a.mode = "MANAGED_BLOCK" THEN RemoveManagedBlock(c)
    ELSE WithoutImports(a, c)

(* Without its bridge.  A file UAWP created and nobody changed goes whole.  *)
Bare(p) ==
    LET a == integrations[p]  c == Content(p) IN
    IF a.created /\ c = a.sum THEN <<>>
    ELSE IF a.mode = "MANAGED_BLOCK" THEN RemoveManagedBlock(c)
    ELSE WithoutImports(a, c)
BarePossible(p) ==
    LET a == integrations[p]  c == Content(p) IN
    \/ a.created /\ c = a.sum
    \/ IF a.mode = "MANAGED_BLOCK" THEN RemovePossible(c, Block(p, a.consumers))
       ELSE AllRemovable(a, c)

Emptied(p, after) == IF after = <<>> /\ integrations[p].created THEN MISSING ELSE Written(p, after)

(* detachConsumer: the last consumer takes the bridge with him, another one *)
(* only his name.                                                           *)
Remaining(p, id) == Consumers(p) \ {id}
Rest(p) == RemoveManagedBlock(Content(p))
\* Mutant: the first consumer that leaves takes the bridge with him.
DetachedWhole(p, id) == Bare(p)

DetachedContent(p, id) ==
    IF Remaining(p, id) = {} THEN Bare(p)
    ELSE UpsertManagedBlock(Rest(p), Block(p, Remaining(p, id)))
Detached(p, id) ==
    IF Remaining(p, id) = {} THEN NULL
    ELSE [integrations[p] EXCEPT
            !.consumers = Remaining(p, id),
            !.facts = IF id = "claude-code" THEN "" ELSE @,
            !.sum = DetachedContent(p, id),
            !.outside = Rest(p)]
DetachedFile(p, id) == Emptied(p, DetachedContent(p, id))

(* A file that is gone cannot be deleted: such a plan is never applied.     *)
Detachable(p, id) ==
    /\ IF Remaining(p, id) = {} THEN BarePossible(p)
       ELSE RemovePossible(Content(p), Block(p, Consumers(p)))
    /\ files[p] = MISSING => ~integrations[p].created

-----------------------------------------------------------------------------
(* uawp adapter add.  An adapter whose entry changed moves: it is detached  *)
(* from the old one in the same plan.                                       *)

Attached(arts, route, id, given) ==
    LET old == arts[route.path]
        before == Content(route.path)
        consumers == {id} \cup (IF old = NULL THEN {} ELSE old.consumers)
        base == IF old = NULL THEN before
                ELSE RemoveManagedBlock(before)
        block == Block(route.path, consumers)
        missing(t) == IF Imports(before, t) THEN <<>> ELSE <<t>>
        new == (IF HidesAgents(route) THEN missing(Agents) ELSE <<>>) \o missing(Instructions)
        kept == IF HidesAgents(route) THEN UpsertImport(before, Agents) ELSE before
        after == IF route.mode = "IMPORT" THEN UpsertImport(kept, Instructions)
                 ELSE UpsertManagedBlock(base, block)
    IN [mode |-> route.mode, consumers |-> consumers,
        facts |-> IF id = "claude-code" THEN given ELSE IF old = NULL THEN "" ELSE old.facts,
        created |-> IF old = NULL THEN route.create ELSE old.created,
        imports |-> IF route.mode = "IMPORT" THEN new ELSE <<>>,
        sum |-> after,
        outside |-> IF route.mode = "IMPORT" THEN before ELSE Outside(base)]

Attachable(arts, route, id) ==
    LET old == arts[route.path]  c == Content(route.path) IN
    /\ old # NULL => old.mode = route.mode
    /\ IF route.mode = "IMPORT" THEN \A t \in {Agents, Instructions} : ImportPossible(c, t)
       ELSE IF old = NULL THEN UpsertPossible(c, Block(route.path, {id}))
       ELSE RemovePossible(c, Block(route.path, old.consumers))

AdapterAdd(id, given) ==
    LET route == RouteOf(id, given)
        moved == [p \in Paths |-> IF p \in EntriesOf(id) THEN Detached(p, id) ELSE integrations[p]]
    IN /\ route.path \notin EntriesOf(id)
       /\ \A p \in EntriesOf(id) : Detachable(p, id)
       /\ Attachable(moved, route, id)
       /\ integrations' = [moved EXCEPT ![route.path] = Attached(moved, route, id, given)]
       /\ Encodes(integrations')
       /\ files' = [p \in Paths |->
             IF p = route.path THEN Written(p, integrations'[p].sum)
             ELSE IF p \in EntriesOf(id) THEN DetachedFile(p, id) ELSE files[p]]
       /\ UNCHANGED <<original, edits>>

(* uawp adapter remove. *)
AdapterRemove(id) ==
    \E p \in EntriesOf(id) :
       /\ Detachable(p, id)
       /\ integrations' = [integrations EXCEPT ![p] = Detached(p, id)]
       /\ Encodes(integrations')
       /\ files' = [files EXCEPT ![p] = DetachedFile(p, id)]
       /\ UNCHANGED <<original, edits>>

-----------------------------------------------------------------------------
(* The user.  Who takes the bridge out of a file that has nothing else       *)
(* deletes it.                                                               *)
Edited(p, how) ==
    LET c == Content(p)  line == Line(edits + 1) IN
    CASE how = "prepend" -> <<line>> \o (IF c = <<>> THEN c ELSE <<NL>> \o c)
      [] how = "append" -> Appended(c, line)
      [] how = "delete" -> MISSING
      [] how = "empty" -> <<>>
      [] how = "strip" -> IF Stripped(c) = <<>> THEN MISSING ELSE Stripped(c)

Edit(p, how) ==
    /\ edits < MaxEdits
    /\ Edited(p, how) # files[p]
    /\ how = "strip" => files[p] # MISSING
    /\ files' = [files EXCEPT ![p] = Edited(p, how)]
    /\ edits' = edits + 1
    /\ UNCHANGED <<integrations, original>>

(* What of a content is his: all of it but the block, and but the line break *)
(* before the block, if the file had a content when UAWP put the block there *)
(* and so a line break with it.                                              *)
BreakBefore(content) ==
    /\ Blocks(content) # {}
    /\ Only(Blocks(content)) > 1 /\ content[Only(Blocks(content)) - 1] = NL
UserPart(content, a) ==
    LET at == Only(Blocks(content)) IN
    IF a = NULL \/ Blocks(content) = {} THEN content
    ELSE Cut(content, IF a.outside # <<>> /\ BreakBefore(content) THEN at - 1 ELSE at, at)
UserContent(p) == UserPart(Content(p), integrations[p])

-----------------------------------------------------------------------------
ByHand == <<Line(0), NL, ImportOf(Instructions)>>   \* a bridge the user wrote himself

AdaptersInit ==
    /\ files \in [Paths -> {MISSING, <<>>, <<Line(0)>>, ByHand}]
    /\ \A p \in Paths :
          /\ p \notin UNION {Candidates(id) : id \in Providers} => files[p] = MISSING
          /\ files[p] = <<>> => p = Agents
          /\ files[p] = ByHand => p = Claude
    /\ integrations = [p \in Paths |-> NULL]
    /\ original = files
    /\ edits = 0

AdapterCommand ==
    \E id \in Providers :
        \/ AdapterRemove(id)
        \/ \E given \in Facts : AdapterAdd(id, given)
UserEdit ==
    \E p \in UNION {Candidates(id) : id \in Providers}, how \in Edits : Edit(p, how)
=============================================================================

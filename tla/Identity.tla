------------------------------- MODULE Identity -------------------------------
(***************************************************************************)
(* The identity registry of a machine (internal/identity) and the commands *)
(* at a terminal that use it: guided resume, handoff or release through a  *)
(* local binding (internal/cli/lifecycle.go) and uawp identity create, use *)
(* and remove (internal/cli/identity.go).                                  *)
(*                                                                         *)
(* Every command loads the whole registry, may wait for its user, applies  *)
(* a plan to a workspace, and saves the registry it loaded with its own    *)
(* change.  Nothing locks the registry.  What a plan does to a claim is    *)
(* atomic here: module Lifecycle shows that it is.                         *)
(***************************************************************************)
EXTENDS Ownership, Sequences, SequencesExt

CONSTANTS
    Terminals,    \* slots in which commands run
    Workspaces,
    MaxCrashes    \* bound: commands that die after they changed a workspace

\* A profile is known by its worker ID: each has one of its own.
Profiles == Workers

ASSUME IdentityAssumption == MaxCrashes \in Nat /\ Nobody \notin Profiles

VARIABLES
    registry,   \* identity.json
    claim,      \* the claim on every workspace
    pc,         \* where each command stands
    task,       \* what each command holds in memory
    issued,     \* profile and session IDs drawn so far, never drawn again
    guided,     \* history: claims that guided resumes acquired
    alone,      \* do commands that use the registry run one at a time
    crashes     \* crashes so far

vars == <<registry, claim, pc, task, issued, guided, alone, crashes>>

-----------------------------------------------------------------------------
NoBinding == [session |-> Nobody, generation |-> 0]

Registry == [profiles : Seq(Profiles), default : Profiles \cup {Nobody},
             bindings : [Workspaces \X Profiles ->
                            [session : Sessions \cup {Nobody}, generation : Generations]]]

EmptyRegistry == [profiles |-> << >>, default |-> Nobody,
                  bindings |-> [key \in Workspaces \X Profiles |-> NoBinding]]

\* Mutant: a binding that is there already is kept.
InsertBinding(r, key, binding) ==
    [r EXCEPT !.bindings[key] = IF @ = NoBinding THEN binding ELSE @]

UpsertBinding(r, key, binding) == [r EXCEPT !.bindings[key] = binding]

RemoveBinding(r, key) == [r EXCEPT !.bindings[key] = NoBinding]

AddProfile(r, profile) ==
    [r EXCEPT !.profiles = Append(@, profile),
              !.default = IF @ = Nobody THEN profile ELSE @]

\* Profiles are distinct: there is one place to remove.
Without(profiles, profile) ==
    RemoveAt(profiles, CHOOSE i \in DOMAIN profiles : profiles[i] = profile)

\* Mutant: the bindings of a removed profile stay.
RemoveProfileOnly(r, profile) ==
    LET rest == Without(r.profiles, profile)
    IN  [r EXCEPT !.profiles = rest,
                  !.default = IF @ # profile THEN @ ELSE IF rest = << >> THEN Nobody ELSE rest[1]]

RemoveProfile(r, profile) ==
    LET rest == Without(r.profiles, profile)
    IN  [r EXCEPT !.profiles = rest,
                  !.default = IF @ # profile THEN @ ELSE IF rest = << >> THEN Nobody ELSE rest[1],
                  !.bindings = [k \in DOMAIN @ |-> IF k[2] = profile THEN NoBinding ELSE @[k]]]

\* key: workspace and profile; loaded: the registry as loaded; basis: the
\* claim the plan is bound to; session: the one to act as.
NoTask == [command |-> "NONE", key |-> << >>, loaded |-> EmptyRegistry,
           basis |-> Bootstrapped, session |-> Nobody]

Goto(t, label, held) ==
    pc' = [pc EXCEPT ![t] = label] /\ task' = [task EXCEPT ![t] = held]

Leave(t) == Goto(t, "idle", NoTask)

Init ==
    /\ registry = EmptyRegistry
    /\ claim = [w \in Workspaces |-> Bootstrapped]
    /\ pc = [t \in Terminals |-> "idle"]
    /\ task = [t \in Terminals |-> NoTask]
    /\ issued = {} /\ guided = {} /\ crashes = 0
    /\ alone \in BOOLEAN

-----------------------------------------------------------------------------
Commands == {"resume", "handoff", "create", "use", "remove"}

Load(t, command) ==
    /\ pc[t] = "idle"
    /\ alone => \A u \in Terminals : pc[u] = "idle"
    /\ Goto(t, "loaded", [NoTask EXCEPT !.command = command, !.loaded = registry])
    /\ UNCHANGED <<registry, claim, issued, guided, alone, crashes>>

Runs(t, command, label) == pc[t] = label /\ task[t].command = command

\* identity create; a guided resume without any profile begins with it.
CreateIdentity(t) ==
    /\ \/ Runs(t, "create", "loaded")
       \/ Runs(t, "resume", "loaded") /\ task[t].loaded.profiles = << >>
    /\ \E profile \in Profiles \ issued :
           /\ issued' = issued \cup {profile}
           /\ registry' = AddProfile(task[t].loaded, profile)
    /\ IF task[t].command = "create" THEN Leave(t)
       ELSE Goto(t, "loaded", [task[t] EXCEPT !.loaded = registry'])
    /\ UNCHANGED <<claim, guided, alone, crashes>>

UseIdentity(t) ==
    /\ Runs(t, "use", "loaded")
    /\ \E profile \in ToSet(task[t].loaded.profiles) :
           registry' = [task[t].loaded EXCEPT !.default = profile]
    /\ Leave(t)
    /\ UNCHANGED <<claim, issued, guided, alone, crashes>>

RemoveIdentity(t) ==
    /\ Runs(t, "remove", "loaded")
    /\ \E profile \in ToSet(task[t].loaded.profiles) :
           registry' = RemoveProfile(task[t].loaded, profile)
    /\ Leave(t)
    /\ UNCHANGED <<claim, issued, guided, alone, crashes>>

\* The session of the binding, or a new one; the claim is free.
PlanResume(t) ==
    /\ Runs(t, "resume", "loaded")
    /\ \E w \in Workspaces, profile \in ToSet(task[t].loaded.profiles) :
           LET bound == task[t].loaded.bindings[<<w, profile>>]
           IN  /\ CanAcquire(claim[w])
               /\ \E session \in IF bound # NoBinding THEN {bound.session} ELSE Sessions \ issued :
                      /\ issued' = issued \cup {session}
                      /\ Goto(t, "approved", [task[t] EXCEPT !.key = <<w, profile>>,
                                              !.basis = claim[w], !.session = session])
    /\ UNCHANGED <<registry, claim, guided, alone, crashes>>

\* The actor is the binding, or --profile with a session and a generation;
\* whichever it is, it owns the claim.
PlanHandoff(t) ==
    /\ Runs(t, "handoff", "loaded")
    /\ \E w \in Workspaces, profile \in ToSet(task[t].loaded.profiles) :
           /\ claim[w].status = "ACTIVE" /\ claim[w].worker = profile
           /\ Goto(t, "approved", [task[t] EXCEPT !.key = <<w, profile>>,
                                   !.basis = claim[w], !.session = claim[w].session])
    /\ UNCHANGED <<registry, claim, issued, guided, alone, crashes>>

\* Confirmed: the plan applies if the claim is still the one it was made for.
Apply(t) ==
    /\ pc[t] = "approved" /\ claim[task[t].key[1]] = task[t].basis
    /\ LET w == task[t].key[1]
           next == IF task[t].command = "resume"
                   THEN Acquire(claim[w], task[t].key[2], task[t].session)
                   ELSE Release(claim[w])
       IN  /\ claim' = [claim EXCEPT ![w] = next]
           /\ guided' = IF task[t].command = "resume"
                        THEN guided \cup {<<w, ActorOf(next)>>} ELSE guided
    /\ Goto(t, "applied", task[t])
    /\ UNCHANGED <<registry, issued, alone, crashes>>

\* Mutant: the binding carries the generation of the claim before.
SaveOldGeneration(t) ==
    /\ pc[t] = "applied"
    /\ registry' = IF task[t].command = "resume"
                   THEN UpsertBinding(task[t].loaded, task[t].key,
                          [session |-> task[t].session, generation |-> task[t].basis.generation])
                   ELSE RemoveBinding(task[t].loaded, task[t].key)
    /\ Leave(t)
    /\ UNCHANGED <<claim, issued, guided, alone, crashes>>

Save(t) ==
    /\ pc[t] = "applied"
    /\ registry' =
           IF task[t].command = "resume"
           THEN UpsertBinding(task[t].loaded, task[t].key,
                    [session |-> task[t].session,
                     generation |-> Acquire(task[t].basis, task[t].key[2],
                                            task[t].session).generation])
           ELSE RemoveBinding(task[t].loaded, task[t].key)
    /\ Leave(t)
    /\ UNCHANGED <<claim, issued, guided, alone, crashes>>

\* Mutant: a handoff that does not succeed clears the binding all the same.
AbandonUnbinding(t) ==
    /\ pc[t] \in {"loaded", "approved"}
    /\ registry' = IF task[t].command = "handoff" /\ pc[t] = "approved"
                   THEN RemoveBinding(task[t].loaded, task[t].key) ELSE registry
    /\ Leave(t)
    /\ UNCHANGED <<claim, issued, guided, alone, crashes>>

\* A blocked resume, a refused plan, an answer that is no, a closed terminal.
Abandon(t) ==
    /\ pc[t] \in {"loaded", "approved"}
    /\ Leave(t)
    /\ UNCHANGED <<registry, claim, issued, guided, alone, crashes>>

\* The command dies, or its save fails, when the workspace has changed.
Crash(t) ==
    /\ pc[t] = "applied" /\ crashes < MaxCrashes
    /\ crashes' = crashes + 1
    /\ Leave(t)
    /\ UNCHANGED <<registry, claim, issued, guided, alone>>

\* What else changes a claim saves no registry: automation with its own IDs,
\* stale recovery, and acquire at a terminal, which takes the session of the
\* binding and leaves the generation of the binding as it was.
ExplicitAcquire(w) ==
    /\ CanAcquire(claim[w])
    /\ \E worker \in Workers, session \in Sessions :
           /\ issued' = issued \cup {session}
           /\ claim' = [claim EXCEPT ![w] = Acquire(@, worker, session)]
    /\ UNCHANGED <<registry, pc, task, guided, alone, crashes>>

ExplicitRelease(w) ==
    /\ claim[w].status = "ACTIVE"
    /\ claim' = [claim EXCEPT ![w] = Release(@)]
    /\ UNCHANGED <<registry, pc, task, issued, guided, alone, crashes>>

Command(t) ==
    \/ \E command \in Commands : Load(t, command)
    \/ CreateIdentity(t) \/ UseIdentity(t) \/ RemoveIdentity(t)
    \/ PlanResume(t) \/ PlanHandoff(t) \/ Apply(t) \/ Save(t)
    \/ Abandon(t) \/ Crash(t)

Next ==
    \/ \E t \in Terminals : Command(t)
    \/ \E w \in Workspaces : ExplicitAcquire(w) \/ ExplicitRelease(w)

Spec == Init /\ [][Next]_vars

-----------------------------------------------------------------------------
(* Properties.                                                             *)

Bound(r, w, profile) == [worker |-> profile, session |-> r.bindings[<<w, profile>>].session,
                         generation |-> r.bindings[<<w, profile>>].generation]

\* The type invariant.
TypeOK ==
    /\ registry \in Registry
    /\ claim \in [Workspaces -> Claim]
    /\ \A w \in Workspaces : ValidOwnership(claim[w])
    /\ pc \in [Terminals -> {"idle", "loaded", "approved", "applied"}]
    /\ \A t \in Terminals : task[t].command \in Commands \cup {"NONE"}
    /\ issued \subseteq Profiles \cup Sessions
    /\ alone \in BOOLEAN /\ crashes \in 0 .. MaxCrashes

\* Whatever commands run at once, die or overwrite each other's changes, the
\* registry always loads: profiles are distinct, the default is one of them,
\* and so is the profile of every binding (validateRegistry).
RegistryLoads ==
    /\ IsInjective(registry.profiles)
    /\ registry.default # Nobody => registry.default \in ToSet(registry.profiles)
    /\ \A w \in Workspaces, profile \in Profiles :
           registry.bindings[<<w, profile>>] # NoBinding =>
               /\ profile \in ToSet(registry.profiles)
               /\ registry.bindings[<<w, profile>>].generation # 0

\* A binding, however old, is a claim that a guided resume acquired: nobody
\* ever acts under a claim that was another session's.
BindingsWereGranted ==
    \A w \in Workspaces, profile \in Profiles :
        registry.bindings[<<w, profile>>] # NoBinding =>
            <<w, Bound(registry, w, profile)>> \in guided

\* Commands that run one at a time and finish never orphan a claim: as long
\* as one that a guided resume acquired is ACTIVE, its binding is there, and
\* resume, sync and handoff continue it without naming it.
ClaimsStayBound ==
    alone /\ crashes = 0 =>
    \A w \in Workspaces :
        LET holder == ActorOf(claim[w])
        IN  claim[w].status = "ACTIVE" /\ <<w, holder>> \in guided
                /\ holder.worker \in ToSet(registry.profiles)
            => \/ Bound(registry, w, holder.worker) = holder
               \/ \E t \in Terminals : pc[t] = "applied"

\* A binding that disappears although its profile stays.
Unbinds(w, profile) ==
    /\ registry.bindings[<<w, profile>>] # NoBinding
    /\ registry'.bindings[<<w, profile>>] = NoBinding
    /\ profile \in ToSet(registry'.profiles)

\* Of commands that run one at a time, none clears a binding while the claim
\* it stands for is ACTIVE, whatever fails and whoever else changes claims.
AloneBindingsOutliveClaims ==
    [][alone => \A w \in Workspaces, profile \in Profiles :
           Unbinds(w, profile) => ~Owns(Bound(registry, w, profile), claim[w])]_vars

\* docs/user/lifecycle.md:32-34: handoff clears the local binding only after
\* verified release.
HandoffClearsAfterRelease ==
    [][(\E t \in Terminals : Runs(t, "handoff", "applied") /\ pc'[t] = "idle") =>
       \A w \in Workspaces, profile \in Profiles :
           Unbinds(w, profile) => ~Owns(Bound(registry, w, profile), claim[w])]_vars
=============================================================================

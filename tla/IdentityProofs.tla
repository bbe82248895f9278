--------------------------- MODULE IdentityProofs ---------------------------
(***************************************************************************)
(* Theorems about Identity for every number of terminals, workspaces,      *)
(* profiles and sessions, every largest generation and any crashes.        *)
(***************************************************************************)
EXTENDS Identity, TLAPS

-----------------------------------------------------------------------------
(* The invariant.  Commands save what they loaded, however old, so what     *)
(* holds of the registry has to hold of every copy in memory: with what has *)
(* been drawn and granted by now, which only grows.                         *)

Loads(r) ==
    /\ IsInjective(r.profiles)
    /\ r.default # Nobody => r.default \in ToSet(r.profiles)
    /\ \A w \in Workspaces, profile \in Profiles :
           r.bindings[<<w, profile>>] # NoBinding =>
               /\ profile \in ToSet(r.profiles)
               /\ r.bindings[<<w, profile>>].generation # 0

Granted(r, grants) ==
    \A w \in Workspaces, profile \in Profiles :
        r.bindings[<<w, profile>>] # NoBinding => <<w, Bound(r, w, profile)>> \in grants

Sound(r, drawn, grants) ==
    r \in Registry /\ Loads(r) /\ Granted(r, grants) /\ ToSet(r.profiles) \subseteq drawn

Task == [command : Commands \cup {"NONE"}, key : (Workspaces \X Profiles) \cup {<< >>},
         loaded : Registry, basis : Claim, session : Sessions \cup {Nobody}]

(* What a command remembers when its plan is approved, and when applied.    *)
Approved(t) ==
    /\ t.command \in {"resume", "handoff"}
    /\ t.key \in Workspaces \X Profiles
    /\ t.key[2] \in ToSet(t.loaded.profiles)
    /\ t.command = "resume" => t.session \in Sessions /\ CanAcquire(t.basis)
    /\ t.command = "handoff" => t.basis.status = "ACTIVE"

Applied(t, grants) ==
    t.command = "resume" =>
        <<t.key[1], ActorOf(Acquire(t.basis, t.key[2], t.session))>> \in grants

Types ==
    /\ claim \in [Workspaces -> Claim] /\ \A w \in Workspaces : ValidOwnership(claim[w])
    /\ pc \in [Terminals -> {"idle", "loaded", "approved", "applied"}]
    /\ task \in [Terminals -> Task]
    /\ issued \subseteq Profiles \cup Sessions /\ guided \subseteq Workspaces \X Actor
    /\ alone \in BOOLEAN /\ crashes \in 0 .. MaxCrashes

Inv ==
    /\ Types
    /\ Sound(registry, issued, guided)
    /\ \A t \in Terminals :
          /\ Sound(task[t].loaded, issued, guided)
          /\ pc[t] \in {"approved", "applied"} => Approved(task[t])
          /\ pc[t] = "applied" => Applied(task[t], guided)

-----------------------------------------------------------------------------
(* Claims.                                                                 *)

\* An acquisition writes a valid ACTIVE claim whose generation is not 0.
LEMMA AcquireIsValid ==
    ASSUME NEW c \in Claim, CanAcquire(c), NEW w \in Workers, NEW s \in Sessions
    PROVE  /\ Acquire(c, w, s) \in Claim
           /\ ValidOwnership(Acquire(c, w, s))
           /\ Acquire(c, w, s).generation # 0
<1>1. c.generation \in Nat /\ c.generation < MaxGeneration /\ MaxGeneration \in Nat
  BY OwnershipAssumption DEF Claim, CanAcquire, Generations
<1>2. \A a, b \in Nat : a < b => a % b = a
  BY SMT
<1>3. (c.generation + 1) % (MaxGeneration + 1) = c.generation + 1
  BY <1>1, <1>2
<1>4. c.generation + 1 \in Generations /\ c.generation + 1 # 0
  BY <1>1 DEF Generations
<1> QED
  BY <1>3, <1>4, OwnershipAssumption DEF Acquire, Claim, ValidOwnership

\* A release of an ACTIVE claim writes a valid one.
LEMMA ReleaseIsValid ==
    ASSUME NEW c \in Claim, ValidOwnership(c), c.status = "ACTIVE"
    PROVE  Release(c) \in Claim /\ ValidOwnership(Release(c))
BY DEF Release, Claim, ValidOwnership

-----------------------------------------------------------------------------
(* Registries.                                                             *)

\* What was sound stays so: profiles stay drawn, and claims granted.
LEMMA SoundStays ==
    ASSUME NEW r, NEW drawn, NEW grants, NEW drawn2, NEW grants2,
           Sound(r, drawn, grants), drawn \subseteq drawn2, grants \subseteq grants2
    PROVE  Sound(r, drawn2, grants2)
BY DEF Sound, Granted

LEMMA EmptyIsSound ==
    ASSUME NEW drawn, NEW grants
    PROVE  Sound(EmptyRegistry, drawn, grants)
<1>1. NoBinding \in [session : Sessions \cup {Nobody}, generation : Generations]
  BY OwnershipAssumption DEF NoBinding, Generations
<1>2. /\ EmptyRegistry.profiles = << >> /\ EmptyRegistry.default = Nobody
      /\ \A w \in Workspaces, p \in Profiles : EmptyRegistry.bindings[<<w, p>>] = NoBinding
  BY DEF EmptyRegistry
<1>3. EmptyRegistry \in Registry
  BY <1>1 DEF EmptyRegistry, Registry
<1>4. IsInjective(<< >>) /\ ToSet(<< >>) = {}
  BY DEF IsInjective, ToSet
<1> QED
  BY <1>2, <1>3, <1>4 DEF Sound, Loads, Granted

\* A profile that was never drawn before is distinct from all others.
LEMMA AddIsSound ==
    ASSUME NEW r, NEW drawn, NEW grants, Sound(r, drawn, grants),
           NEW profile \in Profiles \ drawn
    PROVE  Sound(AddProfile(r, profile), drawn \cup {profile}, grants)
<1> DEFINE s == AddProfile(r, profile)
<1>1. r \in Registry /\ r.profiles \in Seq(Profiles)
  BY DEF Sound, Registry
<1>2. /\ s \in Registry /\ s.bindings = r.bindings
      /\ s.profiles = Append(r.profiles, profile)
      /\ s.default = IF r.default = Nobody THEN profile ELSE r.default
  <2> DEFINE default == IF r.default = Nobody THEN profile ELSE r.default
             profiles == Append(r.profiles, profile)
  <2>1. profiles \in Seq(Profiles) /\ default \in Profiles \cup {Nobody}
    BY <1>1 DEF Registry
  <2>2. s = [r EXCEPT !.profiles = profiles, !.default = default]
    BY DEF AddProfile
  <2> HIDE DEF profiles, default, s
  <2>3. s \in Registry /\ s.bindings = r.bindings /\ s.profiles = profiles /\ s.default = default
    BY <1>1, <2>1, <2>2 DEF Registry
  <2> QED
    BY <2>3 DEF profiles, default
<1>3. ToSet(s.profiles) = ToSet(r.profiles) \cup {profile}
  <2>1. /\ DOMAIN s.profiles = DOMAIN r.profiles \cup {Len(r.profiles) + 1}
        /\ \A i \in DOMAIN r.profiles : s.profiles[i] = r.profiles[i]
        /\ s.profiles[Len(r.profiles) + 1] = profile
    BY <1>1, <1>2
  <2> QED
    BY <2>1 DEF ToSet
<1>4. IsInjective(s.profiles)
  <2>1. profile \notin ToSet(r.profiles) /\ IsInjective(r.profiles)
    BY DEF Sound, Loads
  <2>2. /\ DOMAIN s.profiles = DOMAIN r.profiles \cup {Len(r.profiles) + 1}
        /\ \A i \in DOMAIN r.profiles : s.profiles[i] = r.profiles[i]
        /\ s.profiles[Len(r.profiles) + 1] = profile
    BY <1>1, <1>2
  <2> QED
    BY <2>1, <2>2 DEF IsInjective, ToSet
<1> HIDE DEF s
<1>5. Loads(s) /\ Granted(s, grants)
  BY <1>2, <1>3, <1>4 DEF Sound, Loads, Granted, Bound
<1>6. ToSet(s.profiles) \subseteq drawn \cup {profile}
  BY <1>3 DEF Sound
<1> QED
  BY <1>2, <1>5, <1>6 DEF Sound, s

LEMMA UseIsSound ==
    ASSUME NEW r, NEW drawn, NEW grants, Sound(r, drawn, grants),
           NEW profile \in ToSet(r.profiles)
    PROVE  Sound([r EXCEPT !.default = profile], drawn, grants)
<1> DEFINE s == [r EXCEPT !.default = profile]
<1>1. r \in Registry /\ r.profiles \in Seq(Profiles)
  BY DEF Sound, Registry
<1>2. profile \in Profiles
  BY <1>1 DEF ToSet
<1>3. /\ s \in Registry /\ s.bindings = r.bindings
      /\ s.profiles = r.profiles /\ s.default = profile
  BY <1>1, <1>2 DEF Registry
<1> HIDE DEF s
<1>4. Sound(s, drawn, grants)
  BY <1>3 DEF Sound, Loads, Granted, Bound
<1> QED
  BY <1>4 DEF s

\* What a concatenation has at its places.
LEMMA Concatenation ==
    ASSUME NEW S, NEW a \in Seq(S), NEW b \in Seq(S)
    PROVE  /\ a \o b \in Seq(S) /\ Len(a \o b) = Len(a) + Len(b)
           /\ \A i \in 1..Len(a) : (a \o b)[i] = a[i]
           /\ \A i \in 1..Len(b) : (a \o b)[Len(a) + i] = b[i]
OBVIOUS

\* Removal leaves the other profiles, in their order.
LEMMA WithoutIsRest ==
    ASSUME NEW profiles \in Seq(Profiles), IsInjective(profiles), NEW profile \in ToSet(profiles)
    PROVE  /\ Without(profiles, profile) \in Seq(Profiles)
           /\ IsInjective(Without(profiles, profile))
           /\ ToSet(Without(profiles, profile)) = ToSet(profiles) \ {profile}
           /\ Without(profiles, profile) # << >> =>
                 Without(profiles, profile)[1] \in ToSet(Without(profiles, profile))
<1> DEFINE at == CHOOSE i \in DOMAIN profiles : profiles[i] = profile
           rest == Without(profiles, profile)
<1>1. at \in 1..Len(profiles) /\ profiles[at] = profile
  BY DEF ToSet
<1> HIDE DEF at
<1>2. rest = SubSeq(profiles, 1, at - 1) \o SubSeq(profiles, at + 1, Len(profiles))
  BY DEF Without, RemoveAt, at
<1> HIDE DEF rest
<1>3. /\ rest \in Seq(Profiles) /\ Len(rest) = Len(profiles) - 1
      /\ \A i \in 1..Len(rest) : rest[i] = IF i < at THEN profiles[i] ELSE profiles[i + 1]
  <2> DEFINE front == SubSeq(profiles, 1, at - 1)
             back == SubSeq(profiles, at + 1, Len(profiles))
  <2>1. /\ front \in Seq(Profiles) /\ Len(front) = at - 1
        /\ \A i \in 1..(at - 1) : front[i] = profiles[i]
    BY <1>1
  <2>2. /\ back \in Seq(Profiles) /\ Len(back) = Len(profiles) - at
        /\ \A i \in 1..(Len(profiles) - at) : back[i] = profiles[at + i]
    BY <1>1
  <2> HIDE DEF front, back
  <2>3. /\ front \o back \in Seq(Profiles) /\ Len(front \o back) = Len(front) + Len(back)
        /\ \A i \in 1..Len(front) : (front \o back)[i] = front[i]
        /\ \A i \in 1..Len(back) : (front \o back)[Len(front) + i] = back[i]
    <3>1. front \in Seq(Profiles) /\ back \in Seq(Profiles)
      BY <2>1, <2>2
    <3> QED
      BY <3>1, Concatenation
  <2>4. rest = front \o back
    BY <1>2 DEF front, back
  <2>5. Len(rest) = Len(profiles) - 1 /\ Len(front) = at - 1 /\ Len(back) = Len(profiles) - at
    <3>1. Len(rest) = Len(front) + Len(back)
      BY <2>3, <2>4
    <3> QED
      BY <1>1, <2>1, <2>2, <3>1
  <2>6. ASSUME NEW i \in 1..Len(rest)
        PROVE  rest[i] = IF i < at THEN profiles[i] ELSE profiles[i + 1]
    <3>1. CASE i < at
      BY <1>1, <2>1, <2>3, <2>4, <2>5, <3>1
    <3>2. CASE ~(i < at)
      <4>1. PICK j \in 1..Len(back) : i = Len(front) + j
        <5>1. /\ i - (at - 1) \in 1..Len(back)
              /\ i = Len(front) + (i - (at - 1))
          BY <1>1, <2>5, <3>2
        <5> QED
          BY <5>1
      <4>2. rest[i] = back[j]
        BY <2>3, <2>4, <4>1
      <4>3. back[j] = profiles[at + j]
        BY <2>2, <2>5, <4>1
      <4> QED
        BY <1>1, <2>5, <3>2, <4>1, <4>2, <4>3
    <3> QED
      BY <3>1, <3>2
  <2> QED
    BY <2>3, <2>4, <2>5, <2>6
<1>4. IsInjective(rest)
  <2> SUFFICES ASSUME NEW i \in 1..Len(rest), NEW j \in 1..Len(rest), rest[i] = rest[j]
               PROVE  i = j
    BY <1>3 DEF IsInjective
  <2> DEFINE place(k) == IF k < at THEN k ELSE k + 1
  <2>1. place(i) \in 1..Len(profiles) /\ place(j) \in 1..Len(profiles)
    BY <1>1, <1>3
  <2>2. profiles[place(i)] = profiles[place(j)]
    BY <1>3
  <2>3. place(i) = place(j)
    BY <2>1, <2>2 DEF IsInjective
  <2> QED
    BY <1>1, <1>3, <2>3
<1>5. ASSUME NEW q \in ToSet(rest) PROVE q \in ToSet(profiles) \ {profile}
  <2>1. PICK i \in 1..Len(rest) : q = rest[i]
    BY <1>3 DEF ToSet
  <2> DEFINE k == IF i < at THEN i ELSE i + 1
  <2>2. k \in 1..Len(profiles) /\ k # at /\ q = profiles[k]
    BY <1>1, <1>3, <2>1
  <2> HIDE DEF k
  <2> QED
    BY <1>1, <2>2 DEF IsInjective, ToSet
<1>6. ASSUME NEW q \in ToSet(profiles) \ {profile} PROVE q \in ToSet(rest)
  <2>1. PICK k \in 1..Len(profiles) : q = profiles[k]
    BY DEF ToSet
  <2>2. k # at
    BY <1>1, <2>1
  <2>3. \E i \in 1..Len(rest) : q = rest[i]
    <3>1. CASE k < at
      BY <1>1, <1>3, <2>1, <3>1
    <3>2. CASE k > at
      <4>1. k - 1 \in 1..Len(rest) /\ rest[k - 1] = profiles[k]
        BY <1>1, <1>3, <3>2
      <4> QED
        BY <2>1, <4>1
    <3> QED
      BY <1>1, <2>2, <3>1, <3>2
  <2> QED
    BY <1>3, <2>3 DEF ToSet
<1>7. rest # << >> => rest[1] \in ToSet(rest)
  BY <1>3 DEF ToSet
<1> QED
  BY <1>3, <1>4, <1>5, <1>6, <1>7 DEF rest

LEMMA RemoveIsSound ==
    ASSUME NEW r, NEW drawn, NEW grants, Sound(r, drawn, grants),
           NEW profile \in ToSet(r.profiles)
    PROVE  Sound(RemoveProfile(r, profile), drawn, grants)
<1> DEFINE s == RemoveProfile(r, profile)
           rest == Without(r.profiles, profile)
<1>1. r \in Registry /\ r.profiles \in Seq(Profiles) /\ IsInjective(r.profiles)
  BY DEF Sound, Registry, Loads
<1>2. /\ rest \in Seq(Profiles) /\ IsInjective(rest)
      /\ ToSet(rest) = ToSet(r.profiles) \ {profile}
      /\ rest # << >> => rest[1] \in ToSet(rest)
  BY <1>1, WithoutIsRest
<1>3. \A q \in ToSet(rest) : q \in Profiles
  BY <1>2 DEF ToSet
<1> HIDE DEF rest
<1>4. NoBinding \in [session : Sessions \cup {Nobody}, generation : Generations]
  BY OwnershipAssumption DEF NoBinding, Generations
<1>5. /\ s.profiles = rest
      /\ s.default = IF r.default # profile THEN r.default
                     ELSE IF rest = << >> THEN Nobody ELSE rest[1]
      /\ s.bindings = [k \in Workspaces \X Profiles |->
                          IF k[2] = profile THEN NoBinding ELSE r.bindings[k]]
      /\ s = [profiles |-> s.profiles, default |-> s.default, bindings |-> s.bindings]
  <2> DEFINE default == IF r.default # profile THEN r.default
                        ELSE IF rest = << >> THEN Nobody ELSE rest[1]
             bindings == [k \in DOMAIN r.bindings |->
                             IF k[2] = profile THEN NoBinding ELSE r.bindings[k]]
  <2>1. s = [r EXCEPT !.profiles = rest, !.default = default, !.bindings = bindings]
    BY DEF RemoveProfile, rest
  <2>2. DOMAIN r.bindings = Workspaces \X Profiles
    BY <1>1 DEF Registry
  <2> HIDE DEF default, bindings, s
  <2>3. /\ s.profiles = rest /\ s.default = default /\ s.bindings = bindings
        /\ s = [profiles |-> rest, default |-> default, bindings |-> bindings]
    BY <1>1, <2>1 DEF Registry
  <2> QED
    BY <2>2, <2>3 DEF default, bindings
<1> HIDE DEF s
<1>6. s \in Registry
  BY <1>1, <1>2, <1>3, <1>4, <1>5 DEF Registry
<1>7. \A w \in Workspaces, p \in Profiles :
         s.bindings[<<w, p>>] = IF p = profile THEN NoBinding ELSE r.bindings[<<w, p>>]
  BY <1>5
<1>8. Loads(s)
  BY <1>2, <1>5, <1>7 DEF Sound, Loads
<1>9. Granted(s, grants)
  BY <1>7 DEF Sound, Granted, Bound
<1> QED
  BY <1>2, <1>5, <1>6, <1>8, <1>9 DEF Sound, s

LEMMA UpsertIsSound ==
    ASSUME NEW r, NEW drawn, NEW grants, Sound(r, drawn, grants),
           NEW w \in Workspaces, NEW p \in Profiles, p \in ToSet(r.profiles),
           NEW b \in [session : Sessions \cup {Nobody}, generation : Generations],
           b.generation # 0,
           <<w, [worker |-> p, session |-> b.session, generation |-> b.generation]>> \in grants
    PROVE  Sound(UpsertBinding(r, <<w, p>>, b), drawn, grants)
<1> DEFINE s == UpsertBinding(r, <<w, p>>, b)
<1>1. r \in Registry
  BY DEF Sound
<1>2. /\ s \in Registry /\ s.profiles = r.profiles /\ s.default = r.default
      /\ \A v \in Workspaces, q \in Profiles :
            s.bindings[<<v, q>>] = IF v = w /\ q = p THEN b ELSE r.bindings[<<v, q>>]
  BY <1>1 DEF UpsertBinding, Registry
<1> HIDE DEF s
<1>3. Loads(s)
  BY <1>2 DEF Sound, Loads
<1>4. Granted(s, grants)
  BY <1>2 DEF Sound, Granted, Bound
<1> QED
  BY <1>2, <1>3, <1>4 DEF Sound, s

LEMMA UnbindIsSound ==
    ASSUME NEW r, NEW drawn, NEW grants, Sound(r, drawn, grants),
           NEW w \in Workspaces, NEW p \in Profiles
    PROVE  Sound(RemoveBinding(r, <<w, p>>), drawn, grants)
<1> DEFINE s == RemoveBinding(r, <<w, p>>)
<1>1. r \in Registry
  BY DEF Sound
<1>2. NoBinding \in [session : Sessions \cup {Nobody}, generation : Generations]
  BY OwnershipAssumption DEF NoBinding, Generations
<1>3. /\ s \in Registry /\ s.profiles = r.profiles /\ s.default = r.default
      /\ \A v \in Workspaces, q \in Profiles :
            s.bindings[<<v, q>>] = IF v = w /\ q = p THEN NoBinding ELSE r.bindings[<<v, q>>]
  BY <1>1, <1>2 DEF RemoveBinding, Registry
<1> HIDE DEF s
<1>4. Loads(s)
  BY <1>3 DEF Sound, Loads
<1>5. Granted(s, grants)
  BY <1>3 DEF Sound, Granted, Bound
<1> QED
  BY <1>3, <1>4, <1>5 DEF Sound, s

-----------------------------------------------------------------------------
(* Commands.                                                               *)

\* The invariant holds before the first step.
LEMMA InvInit == Init => Inv
<1> SUFFICES ASSUME Init PROVE Inv
  OBVIOUS
<1>1. /\ Bootstrapped \in Claim /\ ValidOwnership(Bootstrapped) /\ EmptyRegistry \in Registry
  BY EmptyIsSound, OwnershipAssumption
     DEF Sound, Bootstrapped, Claim, ValidOwnership, Generations
<1>2. NoTask \in Task /\ NoTask.loaded = EmptyRegistry
  BY <1>1 DEF NoTask, Task, Bootstrapped
<1>3. Types
  BY <1>1, <1>2, IdentityAssumption DEF Init, Types
<1> QED
  BY <1>2, <1>3, EmptyIsSound DEF Init, Inv

\* What every command but the one that moves knows stays so.
LEMMA OthersStay ==
    ASSUME Inv, NEW t \in Terminals, NEW label, NEW held, Goto(t, label, held),
           issued \subseteq issued', guided \subseteq guided',
           Sound(held.loaded, issued', guided'),
           label \in {"approved", "applied"} => Approved(held),
           label = "applied" => Applied(held, guided')
    PROVE  \A u \in Terminals :
              /\ Sound(task'[u].loaded, issued', guided')
              /\ pc'[u] \in {"approved", "applied"} => Approved(task'[u])
              /\ pc'[u] = "applied" => Applied(task'[u], guided')
<1> SUFFICES ASSUME NEW u \in Terminals
             PROVE  /\ Sound(task'[u].loaded, issued', guided')
                    /\ pc'[u] \in {"approved", "applied"} => Approved(task'[u])
                    /\ pc'[u] = "applied" => Applied(task'[u], guided')
  OBVIOUS
<1>1. pc \in [Terminals -> {"idle", "loaded", "approved", "applied"}] /\ task \in [Terminals -> Task]
  BY DEF Inv, Types
<1>2. CASE u = t
  BY <1>1, <1>2 DEF Goto
<1>3. CASE u # t
  <2>1. pc'[u] = pc[u] /\ task'[u] = task[u]
    BY <1>1, <1>3 DEF Goto
  <2>2. Sound(task[u].loaded, issued', guided')
    BY SoundStays DEF Inv
  <2>3. pc[u] = "applied" => Applied(task[u], guided')
    BY DEF Inv, Applied
  <2> QED
    BY <2>1, <2>2, <2>3 DEF Inv
<1> QED
  BY <1>2, <1>3

\* A command that moves remembers what has its type.
LEMMA MoveIsTyped ==
    ASSUME Inv, NEW t \in Terminals, NEW label \in {"idle", "loaded", "approved", "applied"},
           NEW held \in Task, Goto(t, label, held)
    PROVE  /\ pc' \in [Terminals -> {"idle", "loaded", "approved", "applied"}]
           /\ task' \in [Terminals -> Task]
BY DEF Inv, Types, Goto

\* An idle command remembers nothing that could be wrong.
LEMMA NoTaskIsSound ==
    NoTask \in Task /\ \A drawn, grants : Sound(NoTask.loaded, drawn, grants)
<1>1. Bootstrapped \in Claim /\ EmptyRegistry \in Registry
  BY EmptyIsSound, OwnershipAssumption DEF Sound, Bootstrapped, Claim, Generations
<1>2. NoTask \in Task /\ NoTask.loaded = EmptyRegistry
  BY <1>1 DEF NoTask, Task, Bootstrapped
<1> QED
  BY <1>2, EmptyIsSound

\* A command that leaves: what is saved has to be sound, and claims stay.
LEMMA LeaveKeeps ==
    ASSUME Inv, NEW t \in Terminals, Leave(t), UNCHANGED <<claim, guided, alone>>,
           issued \subseteq issued', issued' \subseteq Profiles \cup Sessions,
           crashes' \in 0 .. MaxCrashes,
           Sound(registry', issued', guided')
    PROVE  Inv'
<1>1. Goto(t, "idle", NoTask)
  BY DEF Leave
<1>2. Types'
  BY <1>1, MoveIsTyped, NoTaskIsSound DEF Inv, Types
<1> QED
  BY <1>1, <1>2, OthersStay, NoTaskIsSound DEF Inv

\* Every step keeps the invariant.
LEMMA InvStep == Inv /\ [Next]_vars => Inv'
<1> SUFFICES ASSUME Inv, [Next]_vars PROVE Inv'
  OBVIOUS
<1>0. /\ Types /\ Sound(registry, issued, guided)
      /\ \A t \in Terminals : task[t] \in Task /\ Sound(task[t].loaded, issued, guided)
  BY DEF Inv, Types
<1>1. CASE UNCHANGED vars
  BY <1>1 DEF Inv, Types, vars
<1>2. ASSUME NEW t \in Terminals, NEW command \in Commands, Load(t, command)
      PROVE  Inv'
  <2> DEFINE held == [NoTask EXCEPT !.command = command, !.loaded = registry]
  <2>1. Goto(t, "loaded", held) /\ UNCHANGED <<registry, claim, issued, guided, alone, crashes>>
    BY <1>2 DEF Load
  <2>2. held \in Task /\ held.loaded = registry
    BY <1>0, NoTaskIsSound DEF Task, Sound
  <2> HIDE DEF held
  <2>3. Types'
    BY <1>0, <2>1, <2>2, MoveIsTyped DEF Types
  <2> QED
    BY <1>0, <2>1, <2>2, <2>3, OthersStay DEF Inv
<1>3. ASSUME NEW t \in Terminals, CreateIdentity(t)
      PROVE  Inv'
  <2>1. PICK profile \in Profiles \ issued :
            issued' = issued \cup {profile} /\ registry' = AddProfile(task[t].loaded, profile)
    BY <1>3 DEF CreateIdentity
  <2>2. Sound(registry', issued', guided) /\ UNCHANGED <<claim, guided, alone, crashes>>
    BY <1>0, <1>3, <2>1, AddIsSound DEF CreateIdentity
  <2>3. issued \subseteq issued' /\ issued' \subseteq Profiles \cup Sessions
    BY <1>0, <2>1 DEF Types
  <2>4. CASE task[t].command = "create"
    BY <1>0, <1>3, <2>2, <2>3, <2>4, LeaveKeeps DEF CreateIdentity, Types
  <2>5. CASE task[t].command # "create"
    <3> DEFINE held == [task[t] EXCEPT !.loaded = registry']
    <3>1. Goto(t, "loaded", held)
      BY <1>3, <2>5 DEF CreateIdentity
    <3>2. held \in Task /\ held.loaded = registry'
      BY <1>0, <2>2 DEF Task, Sound
    <3> HIDE DEF held
    <3>3. Types'
      BY <1>0, <2>2, <2>3, <3>1, <3>2, MoveIsTyped DEF Types
    <3> QED
      BY <2>2, <2>3, <3>1, <3>2, <3>3, OthersStay DEF Inv
  <2> QED
    BY <2>4, <2>5
<1>4. ASSUME NEW t \in Terminals, UseIdentity(t)
      PROVE  Inv'
  <2>1. Sound(registry', issued, guided)
    BY <1>0, <1>4, UseIsSound DEF UseIdentity
  <2> QED
    BY <1>0, <1>4, <2>1, LeaveKeeps DEF UseIdentity, Types
<1>5. ASSUME NEW t \in Terminals, RemoveIdentity(t)
      PROVE  Inv'
  <2>1. Sound(registry', issued, guided)
    BY <1>0, <1>5, RemoveIsSound DEF RemoveIdentity
  <2> QED
    BY <1>0, <1>5, <2>1, LeaveKeeps DEF RemoveIdentity, Types
<1>6. ASSUME NEW t \in Terminals, PlanResume(t)
      PROVE  Inv'
  <2>1. PICK w \in Workspaces, profile \in ToSet(task[t].loaded.profiles) :
          LET bound == task[t].loaded.bindings[<<w, profile>>]
          IN  /\ CanAcquire(claim[w])
              /\ \E session \in IF bound # NoBinding THEN {bound.session} ELSE Sessions \ issued :
                     /\ issued' = issued \cup {session}
                     /\ Goto(t, "approved", [task[t] EXCEPT !.key = <<w, profile>>,
                                             !.basis = claim[w], !.session = session])
    BY <1>6 DEF PlanResume
  <2> DEFINE bound == task[t].loaded.bindings[<<w, profile>>]
  <2>2. PICK session \in IF bound # NoBinding THEN {bound.session} ELSE Sessions \ issued :
            /\ issued' = issued \cup {session}
            /\ Goto(t, "approved", [task[t] EXCEPT !.key = <<w, profile>>,
                                    !.basis = claim[w], !.session = session])
    BY <2>1
  <2>3. profile \in Profiles
    BY <1>0 DEF Sound, Registry, ToSet
  <2>4. session \in Sessions
    <3>1. CASE bound # NoBinding
      <4>1. <<w, Bound(task[t].loaded, w, profile)>> \in Workspaces \X Actor
        BY <1>0, <2>3, <3>1 DEF Sound, Granted, Types
      <4> QED
        BY <2>2, <3>1, <4>1 DEF Bound, Actor
    <3> QED
      BY <2>2, <3>1
  <2> DEFINE held == [task[t] EXCEPT !.key = <<w, profile>>, !.basis = claim[w], !.session = session]
  <2>5. /\ held \in Task /\ held.loaded = task[t].loaded /\ held.command = task[t].command
        /\ held.key = <<w, profile>> /\ held.basis = claim[w] /\ held.session = session
    BY <1>0, <2>3, <2>4 DEF Task, Types
  <2>6. Goto(t, "approved", held)
    BY <2>2
  <2> HIDE DEF held
  <2>7. /\ UNCHANGED <<registry, claim, guided, alone, crashes>> /\ task[t].command = "resume"
        /\ issued \subseteq issued' /\ issued' \subseteq Profiles \cup Sessions
    BY <1>0, <1>6, <2>2, <2>4 DEF PlanResume, Runs, Types
  <2>8. Approved(held)
    BY <2>1, <2>3, <2>4, <2>5, <2>7 DEF Approved
  <2>9. Types'
    BY <1>0, <2>5, <2>6, <2>7, MoveIsTyped DEF Types
  <2>10. Sound(registry', issued', guided') /\ Sound(held.loaded, issued', guided')
    BY <1>0, <2>5, <2>7, SoundStays
  <2> QED
    BY <2>5, <2>6, <2>7, <2>8, <2>9, <2>10, OthersStay DEF Inv
<1>7. ASSUME NEW t \in Terminals, PlanHandoff(t)
      PROVE  Inv'
  <2>1. PICK w \in Workspaces, profile \in ToSet(task[t].loaded.profiles) :
           /\ claim[w].status = "ACTIVE" /\ claim[w].worker = profile
           /\ Goto(t, "approved", [task[t] EXCEPT !.key = <<w, profile>>,
                                   !.basis = claim[w], !.session = claim[w].session])
    BY <1>7 DEF PlanHandoff
  <2>2. profile \in Profiles
    BY <1>0 DEF Sound, Registry, ToSet
  <2> DEFINE held == [task[t] EXCEPT !.key = <<w, profile>>, !.basis = claim[w],
                                     !.session = claim[w].session]
  <2>3. claim[w] \in Claim
    BY <1>0 DEF Types
  <2>4. /\ held \in Task /\ held.loaded = task[t].loaded /\ held.command = task[t].command
        /\ held.key = <<w, profile>> /\ held.basis = claim[w]
    BY <1>0, <2>2, <2>3 DEF Task, Claim
  <2>5. Goto(t, "approved", held)
    BY <2>1
  <2> HIDE DEF held
  <2>6. UNCHANGED <<registry, claim, issued, guided, alone, crashes>> /\ task[t].command = "handoff"
    BY <1>7 DEF PlanHandoff, Runs
  <2>7. Approved(held)
    BY <2>1, <2>2, <2>4, <2>6 DEF Approved
  <2>8. Types'
    BY <1>0, <2>4, <2>5, <2>6, MoveIsTyped DEF Types
  <2> QED
    BY <1>0, <2>4, <2>5, <2>6, <2>7, <2>8, OthersStay DEF Inv
<1>8. ASSUME NEW t \in Terminals, Apply(t)
      PROVE  Inv'
  <2> DEFINE w == task[t].key[1]
             next == IF task[t].command = "resume"
                     THEN Acquire(claim[w], task[t].key[2], task[t].session)
                     ELSE Release(claim[w])
  <2>1. /\ claim' = [claim EXCEPT ![w] = next]
        /\ guided' = IF task[t].command = "resume"
                     THEN guided \cup {<<w, ActorOf(next)>>} ELSE guided
        /\ Goto(t, "applied", task[t]) /\ claim[w] = task[t].basis
        /\ UNCHANGED <<registry, issued, alone, crashes>>
    BY <1>8 DEF Apply
  <2>2. Approved(task[t])
    BY <1>8 DEF Apply, Inv
  <2>3. w \in Workspaces /\ task[t].key[2] \in Workers
    BY <2>2 DEF Approved, Profiles
  <2>4. claim[w] \in Claim /\ ValidOwnership(claim[w])
    BY <1>0, <2>3 DEF Types
  <2>5. next \in Claim /\ ValidOwnership(next)
    <3>1. CASE task[t].command = "resume"
      BY <2>1, <2>2, <2>3, <2>4, <3>1, AcquireIsValid DEF Approved
    <3>2. CASE task[t].command = "handoff"
      BY <2>1, <2>2, <2>4, <3>2, ReleaseIsValid DEF Approved
    <3> QED
      BY <2>2, <3>1, <3>2 DEF Approved
  <2>6. task[t].command = "resume" => ActorOf(next) \in Actor
    BY <2>1, <2>2, <2>3, <2>4, AcquireIsValid DEF Approved, ActorOf, Actor, Acquire, Claim
  <2>7. Applied(task[t], guided')
    BY <2>1 DEF Applied
  <2> HIDE DEF next, w
  <2>8. guided \subseteq guided' /\ guided' \subseteq Workspaces \X Actor
    BY <1>0, <2>1, <2>3, <2>6 DEF Types
  <2>9. Types'
    BY <1>0, <2>1, <2>3, <2>5, <2>8, MoveIsTyped DEF Types
  <2>10. Sound(registry', issued', guided') /\ Sound(task[t].loaded, issued', guided')
    BY <1>0, <2>1, <2>8, SoundStays
  <2> QED
    BY <2>1, <2>2, <2>7, <2>8, <2>9, <2>10, OthersStay DEF Inv
<1>9. ASSUME NEW t \in Terminals, Save(t)
      PROVE  Inv'
  <2>1. Approved(task[t]) /\ Applied(task[t], guided)
    BY <1>9 DEF Save, Inv
  <2>2. PICK w \in Workspaces, p \in Profiles : task[t].key = <<w, p>>
    BY <2>1 DEF Approved
  <2>3. task[t].key[1] = w /\ task[t].key[2] = p /\ p \in ToSet(task[t].loaded.profiles)
    BY <2>1, <2>2 DEF Approved
  <2>4. Sound(registry', issued, guided)
    <3>1. CASE task[t].command = "resume"
      <4> DEFINE next == Acquire(task[t].basis, p, task[t].session)
                 b == [session |-> task[t].session, generation |-> next.generation]
      <4>1. task[t].basis \in Claim /\ p \in Workers
        BY <1>0, <2>2 DEF Task, Profiles
      <4>2. next \in Claim /\ next.generation # 0
        BY <2>1, <3>1, <4>1, AcquireIsValid DEF Approved
      <4>3. b \in [session : Sessions \cup {Nobody}, generation : Generations] /\ b.generation # 0
        BY <2>1, <3>1, <4>2 DEF Approved, Claim
      <4>4. ActorOf(next) = [worker |-> p, session |-> b.session, generation |-> b.generation]
        BY DEF ActorOf, Acquire
      <4>5. <<w, ActorOf(next)>> \in guided
        BY <2>1, <2>3, <3>1 DEF Applied
      <4>6. registry' = UpsertBinding(task[t].loaded, <<w, p>>, b)
        BY <1>9, <2>2, <2>3, <3>1 DEF Save
      <4> HIDE DEF next, b
      <4> QED
        BY <1>0, <2>3, <4>3, <4>4, <4>5, <4>6, UpsertIsSound
    <3>2. CASE task[t].command # "resume"
      BY <1>0, <1>9, <2>2, <3>2, UnbindIsSound DEF Save
    <3> QED
      BY <3>1, <3>2
  <2> QED
    BY <1>0, <1>9, <2>4, LeaveKeeps DEF Save, Types
<1>10. ASSUME NEW t \in Terminals, Abandon(t)
       PROVE  Inv'
  BY <1>0, <1>10, LeaveKeeps DEF Abandon, Types
<1>11. ASSUME NEW t \in Terminals, Crash(t)
       PROVE  Inv'
  <2>1. crashes' \in 0 .. MaxCrashes
    BY <1>0, <1>11, IdentityAssumption DEF Crash, Types
  <2> QED
    BY <1>0, <1>11, <2>1, LeaveKeeps DEF Crash, Types
<1>12. ASSUME NEW w \in Workspaces, ExplicitAcquire(w)
       PROVE  Inv'
  <2>1. PICK worker \in Workers, session \in Sessions :
            /\ issued' = issued \cup {session}
            /\ claim' = [claim EXCEPT ![w] = Acquire(claim[w], worker, session)]
    BY <1>12 DEF ExplicitAcquire
  <2>2. claim[w] \in Claim /\ CanAcquire(claim[w])
    BY <1>0, <1>12 DEF Types, ExplicitAcquire
  <2>3. /\ Acquire(claim[w], worker, session) \in Claim
        /\ ValidOwnership(Acquire(claim[w], worker, session))
    BY <2>2, AcquireIsValid
  <2>4. UNCHANGED <<registry, pc, task, guided, alone, crashes>> /\ issued \subseteq issued'
    BY <1>12, <2>1 DEF ExplicitAcquire
  <2>5. Types'
    BY <1>0, <2>1, <2>3, <2>4 DEF Types
  <2>6. \A r : Sound(r, issued, guided) => Sound(r, issued', guided)
    BY <2>4, SoundStays
  <2> QED
    BY <2>4, <2>5, <2>6 DEF Inv
<1>13. ASSUME NEW w \in Workspaces, ExplicitRelease(w)
       PROVE  Inv'
  <2>1. Release(claim[w]) \in Claim /\ ValidOwnership(Release(claim[w]))
    BY <1>0, <1>13, ReleaseIsValid DEF Types, ExplicitRelease
  <2>2. claim' = [claim EXCEPT ![w] = Release(claim[w])]
    BY <1>13 DEF ExplicitRelease
  <2> QED
    BY <1>0, <1>13, <2>1, <2>2 DEF Inv, Types, ExplicitRelease
<1>14. QED
  BY <1>1, <1>2, <1>3, <1>4, <1>5, <1>6, <1>7, <1>8, <1>9, <1>10, <1>11, <1>12, <1>13
     DEF Next, Command

LEMMA InvHolds == Spec => []Inv
<1>1. QED
  BY InvInit, InvStep, PTL DEF Spec

-----------------------------------------------------------------------------
\* Every claim that any sequence of commands writes is a valid one, and the
\* registry and what commands hold of it keep their shapes.
THEOREM IdentityTypeCorrect == Spec => []TypeOK
<1>1. Inv => TypeOK
  BY DEF Inv, Types, TypeOK, Sound, Task
<1>2. QED
  BY InvHolds, <1>1, PTL

\* Whatever commands run at once, die or overwrite each other's changes, the
\* registry that was saved last passes its own validation.
THEOREM RegistriesLoad == Spec => []RegistryLoads
<1>1. Inv => RegistryLoads
  BY DEF Inv, Sound, Loads, RegistryLoads
<1>2. QED
  BY InvHolds, <1>1, PTL

\* A binding, however old the copy it comes from, is a claim that a guided
\* resume acquired in that workspace with that profile.
THEOREM BindingsAreGranted == Spec => []BindingsWereGranted
<1>1. Inv => BindingsWereGranted
  BY DEF Inv, Sound, Granted, BindingsWereGranted
<1>2. QED
  BY InvHolds, <1>1, PTL

-----------------------------------------------------------------------------
(* What commands that run one at a time know: the registry they loaded is   *)
(* the one that is saved, and nobody else makes a plan meanwhile.           *)

\* The claim on a workspace is ACTIVE as a guided resume acquired it.
Continued(w) == claim[w].status = "ACTIVE" /\ <<w, ActorOf(claim[w])>> \in guided

AloneAtWork ==
    \A t \in Terminals :
        pc[t] # "idle" => task[t].loaded = registry /\ \A u \in Terminals : pc[u] # "idle" => u = t

\* Guided resumes act as profiles that were drawn, and no claim is older than
\* one they acquired.
GrantsArePast ==
    \A grant \in guided : /\ grant[2].worker \in issued
                          /\ grant[2].generation <= claim[grant[1]].generation

\* Between its plan and its save a command leaves no claim on its workspace
\* that a guided resume acquired, but the one it acquired itself.
AppliedIsLatest ==
    \A t \in Terminals :
        pc[t] = "applied" /\ Continued(task[t].key[1]) =>
            /\ task[t].command = "resume"
            /\ ActorOf(claim[task[t].key[1]]) =
                   ActorOf(Acquire(task[t].basis, task[t].key[2], task[t].session))

\* Only the claim of a command that has not saved yet lacks its binding.
OnlyUnsavedUnbound ==
    \A w \in Workspaces :
        Continued(w) /\ claim[w].worker \in ToSet(registry.profiles) =>
            \/ Bound(registry, w, claim[w].worker) = ActorOf(claim[w])
            \/ \E t \in Terminals : pc[t] = "applied" /\ task[t].key[1] = w

\* The invariant; without a crash it includes the last part.
AloneInv ==
    /\ GrantsArePast
    /\ alone => AloneAtWork /\ AppliedIsLatest /\ (crashes = 0 => OnlyUnsavedUnbound)

\* An acquisition is one generation younger.
LEMMA AcquireIsYounger ==
    ASSUME NEW c \in Claim, CanAcquire(c), NEW w, NEW s
    PROVE  Acquire(c, w, s).generation = c.generation + 1
<1>1. c.generation \in Nat /\ c.generation < MaxGeneration /\ MaxGeneration \in Nat
  BY OwnershipAssumption DEF Claim, CanAcquire, Generations
<1>2. \A a, b \in Nat : a < b => a % b = a
  BY SMT
<1> QED
  BY <1>1, <1>2 DEF Acquire

\* What an application does to the claim on its workspace, and to no other.
LEMMA ApplyActs ==
    ASSUME Inv, NEW t \in Terminals, Apply(t)
    PROVE  LET w == task[t].key[1]
               next == Acquire(task[t].basis, task[t].key[2], task[t].session)
           IN  /\ w \in Workspaces /\ claim[w] = task[t].basis
               /\ pc[t] = "approved" /\ pc'[t] = "applied" /\ task' = task
               /\ \A v \in Workspaces \ {w} : claim'[v] = claim[v]
               /\ \/ /\ task[t].command = "resume" /\ CanAcquire(claim[w])
                     /\ claim'[w] = next /\ guided' = guided \cup {<<w, ActorOf(next)>>}
                     /\ ActorOf(next).worker \in issued
                  \/ /\ task[t].command = "handoff" /\ guided' = guided
                     /\ claim'[w] = Release(claim[w]) /\ claim'[w].status = "RELEASED"
<1>1. Approved(task[t]) /\ Sound(task[t].loaded, issued, guided) /\ Types
  BY DEF Apply, Inv
<1>2. PICK w \in Workspaces, p \in Profiles : task[t].key = <<w, p>>
  BY <1>1 DEF Approved
<1>3. p \in issued
  BY <1>1, <1>2 DEF Approved, Sound
<1>4. claim \in [Workspaces -> Claim] /\ task \in [Terminals -> Task] /\ task' = task
      /\ pc' = [pc EXCEPT ![t] = "applied"] /\ pc \in [Terminals -> {"idle", "loaded", "approved", "applied"}]
  BY <1>1 DEF Types, Apply, Goto
<1>5. CASE task[t].command = "resume"
  BY <1>1, <1>2, <1>3, <1>4, <1>5 DEF Apply, Approved, ActorOf, Acquire
<1>6. CASE task[t].command = "handoff"
  BY <1>1, <1>2, <1>4, <1>6 DEF Apply, Release, Claim
<1> QED
  BY <1>1, <1>5, <1>6 DEF Approved

\* Steps that change a claim or the grants.
LEMMA OnlyClaimSteps ==
    ASSUME [Next]_vars
    PROVE  \/ UNCHANGED <<claim, guided>>
           \/ \E t \in Terminals : Apply(t)
           \/ UNCHANGED guided /\ \E w \in Workspaces : ExplicitAcquire(w) \/ ExplicitRelease(w)
BY DEF Next, Command, vars, Load, CreateIdentity, UseIdentity, RemoveIdentity, PlanResume,
       PlanHandoff, Save, Abandon, Crash, ExplicitAcquire, ExplicitRelease

\* IDs stay drawn, and whether commands run alone is decided once.
LEMMA IssuedGrows == [Next]_vars => issued \subseteq issued' /\ alone' = alone
BY DEF Next, Command, vars, Load, CreateIdentity, UseIdentity, RemoveIdentity, PlanResume,
       PlanHandoff, Apply, Save, Abandon, Crash, ExplicitAcquire, ExplicitRelease

\* A claim that a step leaves as a guided resume acquired it was so before, or
\* is what that step acquired.
LEMMA ContinuedComesFrom ==
    ASSUME Inv, GrantsArePast, [Next]_vars, NEW w \in Workspaces, Continued(w)'
    PROVE  \/ Continued(w) /\ claim'[w] = claim[w]
           \/ \E t \in Terminals : Apply(t) /\ task[t].key[1] = w
<1>0. claim \in [Workspaces -> Claim]
  BY DEF Inv, Types
<1>1. CASE UNCHANGED <<claim, guided>>
  BY <1>1 DEF Continued
<1>2. ASSUME NEW t \in Terminals, Apply(t), task[t].key[1] # w
      PROVE  Continued(w) /\ claim'[w] = claim[w]
  <2>1. claim'[w] = claim[w]
    BY <1>2, ApplyActs
  <2>2. <<w, ActorOf(claim[w])>> \in guided' => <<w, ActorOf(claim[w])>> \in guided
    BY <1>2, ApplyActs
  <2> QED
    BY <2>1, <2>2 DEF Continued
<1>3. ASSUME NEW v \in Workspaces, ExplicitAcquire(v), guided' = guided
      PROVE  Continued(w) /\ claim'[w] = claim[w]
  <2>1. PICK worker \in Workers, session \in Sessions :
            claim' = [claim EXCEPT ![v] = Acquire(claim[v], worker, session)]
    BY <1>3 DEF ExplicitAcquire
  <2>2. CASE v # w
    BY <1>0, <1>3, <2>1, <2>2 DEF Continued
  <2>3. CASE v = w
    <3>1. claim'[w].generation = claim[w].generation + 1 /\ claim[w].generation \in Nat
      BY <1>0, <1>3, <2>1, <2>3, AcquireIsYounger DEF ExplicitAcquire, Claim, Generations
    <3>2. claim'[w].generation <= claim[w].generation
      BY <1>3, <3>1 DEF Continued, GrantsArePast, ActorOf
    <3> QED
      BY <3>1, <3>2
  <2> QED
    BY <2>2, <2>3
<1>4. ASSUME NEW v \in Workspaces, ExplicitRelease(v), guided' = guided
      PROVE  Continued(w) /\ claim'[w] = claim[w]
  BY <1>0, <1>4 DEF ExplicitRelease, Release, Continued, Claim
<1> QED
  BY <1>1, <1>2, <1>3, <1>4, OnlyClaimSteps

\* Generations only grow, and every grant is of the present or the past.
LEMMA GrantsStep ==
    ASSUME Inv, GrantsArePast, [Next]_vars
    PROVE  GrantsArePast'
<1>0. claim \in [Workspaces -> Claim] /\ guided \subseteq Workspaces \X Actor
      /\ issued \subseteq issued'
      /\ \A w \in Workspaces : claim[w] \in Claim /\ claim[w].generation \in Nat
      /\ \A grant \in guided : grant[1] \in Workspaces /\ grant[2].generation \in Nat
  BY IssuedGrows DEF Inv, Types, Claim, Generations, Actor
<1>1. CASE UNCHANGED <<claim, guided>>
  BY <1>0, <1>1 DEF GrantsArePast
<1>2. ASSUME NEW t \in Terminals, Apply(t)
      PROVE  GrantsArePast'
  <2> DEFINE w == task[t].key[1]
             next == Acquire(task[t].basis, task[t].key[2], task[t].session)
  <2>1. w \in Workspaces /\ \A v \in Workspaces \ {w} : claim'[v] = claim[v]
    BY <1>2, ApplyActs
  <2>2. CASE task[t].command = "resume"
    <3>1. /\ claim'[w] = next /\ guided' = guided \cup {<<w, ActorOf(next)>>}
          /\ ActorOf(next).worker \in issued
          /\ next.generation = claim[w].generation + 1
      BY <1>0, <1>2, <2>1, <2>2, ApplyActs, AcquireIsYounger
    <3>2. /\ <<w, ActorOf(next)>>[1] = w /\ <<w, ActorOf(next)>>[2] = ActorOf(next)
          /\ ActorOf(next).generation = next.generation
      BY DEF ActorOf
    <3>3. \A v \in Workspaces : claim[v].generation <= claim'[v].generation
                                 /\ claim'[v].generation \in Nat
      <4> HIDE DEF next, w
      <4> QED
        BY <1>0, <2>1, <3>1
    <3> HIDE DEF next, w
    <3>4. \A grant \in guided : grant[2].worker \in issued' /\
              grant[2].generation <= claim'[grant[1]].generation
      BY <1>0, <3>3 DEF GrantsArePast
    <3> QED
      BY <1>0, <2>1, <3>1, <3>2, <3>3, <3>4 DEF GrantsArePast
  <2>3. CASE task[t].command # "resume"
    <3>1. guided' = guided /\ claim'[w] = Release(claim[w])
      BY <1>2, <2>3, ApplyActs
    <3>2. Release(claim[w]).generation = claim[w].generation
      BY <1>0, <2>1 DEF Release, Claim
    <3> HIDE DEF w
    <3>3. \A v \in Workspaces : claim'[v].generation = claim[v].generation
      BY <2>1, <3>1, <3>2
    <3> QED
      BY <1>0, <3>1, <3>3 DEF GrantsArePast
  <2> QED
    BY <2>2, <2>3
<1>3. ASSUME NEW v \in Workspaces, ExplicitAcquire(v) \/ ExplicitRelease(v), guided' = guided
      PROVE  GrantsArePast'
  <2>1. \A w \in Workspaces : claim[w].generation <= claim'[w].generation
    <3>1. CASE ExplicitAcquire(v)
      <4>1. PICK worker \in Workers, session \in Sessions :
                claim' = [claim EXCEPT ![v] = Acquire(claim[v], worker, session)]
        BY <3>1 DEF ExplicitAcquire
      <4>2. Acquire(claim[v], worker, session).generation = claim[v].generation + 1
        BY <1>0, <3>1, AcquireIsYounger DEF ExplicitAcquire
      <4> QED
        BY <1>0, <4>1, <4>2
    <3>2. CASE ExplicitRelease(v)
      BY <1>0, <3>2 DEF ExplicitRelease, Release, Claim
    <3> QED
      BY <1>3, <3>1, <3>2
  <2>2. \A w \in Workspaces : claim'[w].generation \in Nat
    <3>1. CASE ExplicitAcquire(v)
      <4>1. PICK worker \in Workers, session \in Sessions :
                claim' = [claim EXCEPT ![v] = Acquire(claim[v], worker, session)]
        BY <3>1 DEF ExplicitAcquire
      <4>2. Acquire(claim[v], worker, session).generation = claim[v].generation + 1
        BY <1>0, <3>1, AcquireIsYounger DEF ExplicitAcquire
      <4> QED
        BY <1>0, <4>1, <4>2
    <3>2. CASE ExplicitRelease(v)
      BY <1>0, <3>2 DEF ExplicitRelease, Release, Claim
    <3> QED
      BY <1>3, <3>1, <3>2
  <2> QED
    BY <1>0, <1>3, <2>1, <2>2 DEF GrantsArePast
<1> QED
  BY <1>1, <1>2, <1>3, OnlyClaimSteps

\* A command that moves and goes on keeps what it loaded or saves it.
LEMMA MoverLoads ==
    ASSUME Inv, NEW t \in Terminals, Command(t)
    PROVE  /\ \A u \in Terminals \ {t} : pc'[u] = pc[u] /\ task'[u] = task[u]
           /\ pc[t] = "idle" => registry' = registry
                                /\ (alone => \A u \in Terminals : pc[u] = "idle")
           /\ pc'[t] # "idle" =>
                 \/ task'[t].loaded = registry'
                 \/ /\ pc[t] # "idle" /\ registry' = registry
                    /\ task'[t].loaded = task[t].loaded
           /\ pc'[t] = "applied" => Apply(t)
<1>0. /\ pc \in [Terminals -> {"idle", "loaded", "approved", "applied"}]
      /\ task \in [Terminals -> Task]
  BY DEF Inv, Types
<1>1. \A label, held : Goto(t, label, held) =>
         /\ pc'[t] = label /\ task'[t] = held
         /\ \A u \in Terminals \ {t} : pc'[u] = pc[u] /\ task'[u] = task[u]
  BY <1>0 DEF Goto
<1>2. CASE \E command \in Commands : Load(t, command)
  <2>1. PICK command \in Commands : Load(t, command)
    BY <1>2
  <2> DEFINE held == [NoTask EXCEPT !.command = command, !.loaded = registry]
  <2>2. held.loaded = registry
    BY DEF NoTask
  <2>3. Goto(t, "loaded", held) /\ registry' = registry /\ pc[t] = "idle"
        /\ (alone => \A u \in Terminals : pc[u] = "idle")
    BY <2>1 DEF Load
  <2> HIDE DEF held
  <2> QED
    BY <1>1, <2>2, <2>3
<1>3. CASE CreateIdentity(t)
  <2>1. CASE task[t].command = "create"
    BY <1>1, <1>3, <2>1 DEF CreateIdentity, Leave, Runs
  <2>2. CASE task[t].command # "create"
    BY <1>0, <1>1, <1>3, <2>2 DEF CreateIdentity, Runs, Task
  <2> QED
    BY <2>1, <2>2
<1>4. CASE UseIdentity(t) \/ RemoveIdentity(t)
  BY <1>1, <1>4 DEF UseIdentity, RemoveIdentity, Leave, Runs
<1>5. CASE PlanResume(t)
  <2>1. PICK key, basis, session :
            Goto(t, "approved", [task[t] EXCEPT !.key = key, !.basis = basis, !.session = session])
    BY <1>5 DEF PlanResume
  <2> DEFINE held == [task[t] EXCEPT !.key = key, !.basis = basis, !.session = session]
  <2>2. held.loaded = task[t].loaded
    BY <1>0 DEF Task
  <2>3. Goto(t, "approved", held) /\ registry' = registry /\ pc[t] = "loaded"
    BY <1>5, <2>1 DEF PlanResume, Runs
  <2> HIDE DEF held
  <2> QED
    BY <1>1, <2>2, <2>3
<1>6. CASE PlanHandoff(t)
  <2>1. PICK key, basis, session :
            Goto(t, "approved", [task[t] EXCEPT !.key = key, !.basis = basis, !.session = session])
    BY <1>6 DEF PlanHandoff
  <2> DEFINE held == [task[t] EXCEPT !.key = key, !.basis = basis, !.session = session]
  <2>2. held.loaded = task[t].loaded
    BY <1>0 DEF Task
  <2>3. Goto(t, "approved", held) /\ registry' = registry /\ pc[t] = "loaded"
    BY <1>6, <2>1 DEF PlanHandoff, Runs
  <2> HIDE DEF held
  <2> QED
    BY <1>1, <2>2, <2>3
<1>7. CASE Apply(t)
  BY <1>1, <1>7 DEF Apply
<1>8. CASE Save(t) \/ Abandon(t) \/ Crash(t)
  BY <1>1, <1>8 DEF Save, Abandon, Crash, Leave
<1> QED
  BY <1>2, <1>3, <1>4, <1>5, <1>6, <1>7, <1>8 DEF Command

\* Alone, every command at work holds the registry as it is.
LEMMA AtWorkStep ==
    ASSUME Inv, alone, AloneAtWork, [Next]_vars
    PROVE  AloneAtWork'
<1>1. ASSUME NEW t \in Terminals, Command(t)
      PROVE  AloneAtWork'
  BY <1>1, MoverLoads DEF AloneAtWork
<1>2. CASE UNCHANGED vars \/ \E w \in Workspaces : ExplicitAcquire(w) \/ ExplicitRelease(w)
  BY <1>2 DEF vars, ExplicitAcquire, ExplicitRelease, AloneAtWork
<1> QED
  BY <1>1, <1>2 DEF Next

\* Nothing acquires a claim under a command that has applied its plan.
LEMMA LatestStep ==
    ASSUME Inv, GrantsArePast, alone, AloneAtWork, AppliedIsLatest, [Next]_vars
    PROVE  AppliedIsLatest'
<1> SUFFICES ASSUME NEW u \in Terminals, NEW w, pc'[u] = "applied", w = task'[u].key[1], Continued(w)'
             PROVE  /\ task'[u].command = "resume"
                    /\ ActorOf(claim'[w]) =
                           ActorOf(Acquire(task'[u].basis, task'[u].key[2], task'[u].session))
  BY DEF AppliedIsLatest, Continued
<1>1. CASE Apply(u)
  BY <1>1, ApplyActs DEF Continued
<1>2. CASE ~Apply(u)
  <2>1. pc[u] = "applied" /\ task'[u] = task[u]
    <3>1. ASSUME NEW t \in Terminals, Command(t)
          PROVE  pc[u] = "applied" /\ task'[u] = task[u]
      BY <1>2, <3>1, MoverLoads
    <3>2. CASE UNCHANGED vars \/ \E v \in Workspaces : ExplicitAcquire(v) \/ ExplicitRelease(v)
      BY <3>2 DEF vars, ExplicitAcquire, ExplicitRelease
    <3> QED
      BY <3>1, <3>2 DEF Next
  <2>2. w \in Workspaces /\ w = task[u].key[1]
    BY <2>1 DEF Inv, Approved
  <2>3. ~\E t \in Terminals : Apply(t)
    BY <1>2, <2>1 DEF AloneAtWork, Apply
  <2>4. Continued(w) /\ claim'[w] = claim[w]
    BY <2>1, <2>2, <2>3, ContinuedComesFrom
  <2> QED
    BY <2>1, <2>2, <2>4 DEF AppliedIsLatest
<1> QED
  BY <1>1, <1>2

\* Which profiles and bindings a change of the registry leaves as they were.
LEMMA RegistryChanges ==
    ASSUME NEW r, NEW drawn, NEW grants, Sound(r, drawn, grants)
    PROVE  /\ \A profile \in Profiles :
                 /\ AddProfile(r, profile).bindings = r.bindings
                 /\ ToSet(AddProfile(r, profile).profiles) = ToSet(r.profiles) \cup {profile}
           /\ \A profile \in ToSet(r.profiles) :
                 /\ ToSet(RemoveProfile(r, profile).profiles) = ToSet(r.profiles) \ {profile}
                 /\ \A w \in Workspaces, p \in Profiles \ {profile} :
                       RemoveProfile(r, profile).bindings[<<w, p>>] = r.bindings[<<w, p>>]
<1>1. r \in Registry /\ r.profiles \in Seq(Profiles) /\ IsInjective(r.profiles)
  BY DEF Sound, Registry, Loads
<1>2. ASSUME NEW profile \in Profiles
      PROVE  /\ AddProfile(r, profile).bindings = r.bindings
             /\ ToSet(AddProfile(r, profile).profiles) = ToSet(r.profiles) \cup {profile}
  <2> DEFINE s == Append(r.profiles, profile)
  <2>1. /\ AddProfile(r, profile).bindings = r.bindings
        /\ AddProfile(r, profile).profiles = s
    BY <1>1 DEF AddProfile, Registry
  <2>2. /\ DOMAIN s = DOMAIN r.profiles \cup {Len(r.profiles) + 1}
        /\ \A i \in DOMAIN r.profiles : s[i] = r.profiles[i]
        /\ s[Len(r.profiles) + 1] = profile
    BY <1>1
  <2>3. ToSet(s) = ToSet(r.profiles) \cup {profile}
    BY <2>2 DEF ToSet
  <2> QED
    BY <2>1, <2>3
<1>3. ASSUME NEW profile \in ToSet(r.profiles)
      PROVE  /\ ToSet(RemoveProfile(r, profile).profiles) = ToSet(r.profiles) \ {profile}
             /\ \A w \in Workspaces, p \in Profiles \ {profile} :
                   RemoveProfile(r, profile).bindings[<<w, p>>] = r.bindings[<<w, p>>]
  <2>1. ToSet(Without(r.profiles, profile)) = ToSet(r.profiles) \ {profile}
    BY <1>1, WithoutIsRest
  <2>2. /\ RemoveProfile(r, profile).profiles = Without(r.profiles, profile)
        /\ RemoveProfile(r, profile).bindings =
              [k \in DOMAIN r.bindings |-> IF k[2] = profile THEN NoBinding ELSE r.bindings[k]]
    BY <1>1 DEF RemoveProfile, Registry
  <2>3. DOMAIN r.bindings = Workspaces \X Profiles
    BY <1>1 DEF Registry
  <2> QED
    BY <2>1, <2>2, <2>3
<1> QED
  BY <1>2, <1>3

\* The registry and who is applied change in these steps only.
LEMMA OnlyRegistrySteps ==
    ASSUME Inv, [Next]_vars
    PROVE  \/ /\ registry' = registry
              /\ \A t \in Terminals : pc[t] = "applied" => pc'[t] = "applied" /\ task'[t] = task[t]
           \/ \E t \in Terminals : CreateIdentity(t) \/ UseIdentity(t) \/ RemoveIdentity(t)
           \/ \E t \in Terminals : Save(t) \/ Crash(t)
<1>0. pc \in [Terminals -> {"idle", "loaded", "approved", "applied"}] /\ task \in [Terminals -> Task]
  BY DEF Inv, Types
<1>1. ASSUME NEW t \in Terminals,
             \/ \E command \in Commands : Load(t, command)
             \/ PlanResume(t) \/ PlanHandoff(t) \/ Abandon(t)
      PROVE  /\ registry' = registry
             /\ \A u \in Terminals : pc[u] = "applied" => pc'[u] = "applied" /\ task'[u] = task[u]
  BY <1>0, <1>1 DEF Load, PlanResume, PlanHandoff, Abandon, Leave, Goto, Runs
<1>2. ASSUME NEW t \in Terminals, Apply(t)
      PROVE  /\ registry' = registry
             /\ \A u \in Terminals : pc[u] = "applied" => pc'[u] = "applied" /\ task'[u] = task[u]
  BY <1>0, <1>2 DEF Apply, Goto
<1>3. CASE UNCHANGED vars \/ \E w \in Workspaces : ExplicitAcquire(w) \/ ExplicitRelease(w)
  BY <1>3 DEF vars, ExplicitAcquire, ExplicitRelease
<1> QED
  BY <1>1, <1>2, <1>3 DEF Next, Command

\* Without a crash, no step leaves a claim without its binding for good.
LEMMA UnboundStep ==
    ASSUME Inv, AloneInv, alone, crashes' = 0, OnlyUnsavedUnbound, [Next]_vars
    PROVE  OnlyUnsavedUnbound'
<1> SUFFICES ASSUME NEW w \in Workspaces, Continued(w)', claim'[w].worker \in ToSet(registry'.profiles)
             PROVE  \/ Bound(registry', w, claim'[w].worker) = ActorOf(claim'[w])
                    \/ \E t \in Terminals : pc'[t] = "applied" /\ task'[t].key[1] = w
  BY DEF OnlyUnsavedUnbound, Bound
<1>0. /\ AloneAtWork /\ AppliedIsLatest /\ GrantsArePast /\ Sound(registry, issued, guided)
      /\ task \in [Terminals -> Task] /\ crashes \in Nat
  BY DEF AloneInv, Inv, Types
<1>1. ASSUME NEW t \in Terminals, Apply(t), task[t].key[1] = w
      PROVE  pc'[t] = "applied" /\ task'[t].key[1] = w
  BY <1>1, ApplyActs
<1>2. CASE Continued(w) /\ claim'[w] = claim[w]
  <2> DEFINE holder == claim[w].worker
  <2>1. /\ holder \in issued /\ holder \in Profiles
        /\ holder \in ToSet(registry.profiles) =>
              \/ Bound(registry, w, holder) = ActorOf(claim[w])
              \/ \E t \in Terminals : pc[t] = "applied" /\ task[t].key[1] = w
    <3>1. ActorOf(claim[w]).worker \in issued
      BY <1>0, <1>2 DEF Continued, GrantsArePast
    <3>2. ActorOf(claim[w]) \in Actor
      BY <1>2 DEF Continued, Inv, Types
    <3> QED
      BY <1>2, <3>1, <3>2 DEF OnlyUnsavedUnbound, ActorOf, Actor, Profiles
  <2>2. CASE /\ registry' = registry
             /\ \A t \in Terminals : pc[t] = "applied" => pc'[t] = "applied" /\ task'[t] = task[t]
    BY <1>2, <2>1, <2>2
  <2>3. ASSUME NEW t \in Terminals, CreateIdentity(t) \/ UseIdentity(t) \/ RemoveIdentity(t)
        PROVE  Bound(registry', w, holder) = ActorOf(claim[w])
    <3>1. pc[t] = "loaded" /\ task[t].loaded = registry
      BY <1>0, <2>3 DEF AloneAtWork, CreateIdentity, UseIdentity, RemoveIdentity, Runs
    <3>2. ~\E u \in Terminals : pc[u] = "applied"
      BY <1>0, <3>1 DEF AloneAtWork
    <3>3. CASE CreateIdentity(t)
      <4>1. PICK profile \in Profiles \ issued : registry' = AddProfile(registry, profile)
        BY <3>1, <3>3 DEF CreateIdentity
      <4>2. registry'.bindings = registry.bindings /\ holder \in ToSet(registry.profiles)
        BY <1>0, <1>2, <2>1, <4>1, RegistryChanges
      <4> QED
        BY <2>1, <3>2, <4>2 DEF Bound
    <3>4. CASE UseIdentity(t)
      <4>1. registry'.bindings = registry.bindings /\ registry'.profiles = registry.profiles
        BY <1>0, <3>1, <3>4 DEF UseIdentity, Sound, Registry
      <4> QED
        BY <1>2, <2>1, <3>2, <4>1 DEF Bound
    <3>5. CASE RemoveIdentity(t)
      <4>1. PICK profile \in ToSet(registry.profiles) : registry' = RemoveProfile(registry, profile)
        BY <3>1, <3>5 DEF RemoveIdentity
      <4>2. holder \in ToSet(registry.profiles) \ {profile}
        BY <1>0, <1>2, <4>1, RegistryChanges
      <4>3. registry'.bindings[<<w, holder>>] = registry.bindings[<<w, holder>>]
        BY <1>0, <2>1, <4>1, <4>2, RegistryChanges
      <4> QED
        BY <2>1, <3>2, <4>2, <4>3 DEF Bound
    <3> QED
      BY <2>3, <3>3, <3>4, <3>5
  <2>4. ASSUME NEW t \in Terminals, Save(t)
        PROVE  Bound(registry', w, holder) = ActorOf(claim[w])
    <3>1. pc[t] = "applied" /\ task[t].loaded = registry /\ Approved(task[t])
      BY <1>0, <2>4 DEF AloneAtWork, Save, Inv
    <3>2. \A u \in Terminals : pc[u] = "applied" => u = t
      BY <1>0, <3>1 DEF AloneAtWork
    <3>3. PICK v \in Workspaces, p \in Profiles : task[t].key = <<v, p>>
      BY <3>1 DEF Approved
    <3> DEFINE next == Acquire(task[t].basis, p, task[t].session)
               b == IF task[t].command = "resume"
                    THEN [session |-> task[t].session, generation |-> next.generation]
                    ELSE NoBinding
    <3>4. registry' = [registry EXCEPT !.bindings[<<v, p>>] = b]
      BY <2>4, <3>1, <3>3 DEF Save, UpsertBinding, RemoveBinding
    <3>5. /\ registry'.profiles = registry.profiles
          /\ \A q \in Profiles : registry'.bindings[<<w, q>>] =
                 IF v = w /\ q = p THEN b ELSE registry.bindings[<<w, q>>]
      <4> HIDE DEF b
      <4> QED
        BY <1>0, <3>4 DEF Sound, Registry
    <3>6. CASE v = w
      <4>1. task[t].command = "resume" /\ ActorOf(claim[w]) = ActorOf(next)
        BY <1>0, <1>2, <3>1, <3>3, <3>6 DEF AppliedIsLatest
      <4>2. holder = p /\ registry'.bindings[<<w, holder>>] = b
        BY <2>1, <3>5, <3>6, <4>1 DEF ActorOf, Acquire
      <4> QED
        BY <4>1, <4>2 DEF Bound, ActorOf, Acquire
    <3>7. CASE v # w
      BY <1>2, <2>1, <3>2, <3>3, <3>5, <3>7 DEF Bound
    <3> QED
      BY <3>6, <3>7
  <2>5. ASSUME NEW t \in Terminals, Crash(t)
        PROVE  FALSE
    <3>1. crashes' = crashes + 1
      BY <2>5 DEF Crash
    <3> QED
      BY <1>0, <3>1
  <2> QED
    BY <1>2, <2>2, <2>3, <2>4, <2>5, OnlyRegistrySteps
<1> QED
  BY <1>0, <1>1, <1>2, ContinuedComesFrom

\* There are no fewer crashes than there were.
LEMMA CrashesGrow == Inv /\ [Next]_vars /\ crashes' = 0 => crashes = 0
<1> SUFFICES ASSUME Inv, [Next]_vars, crashes' = 0 PROVE crashes = 0
  OBVIOUS
<1>1. crashes' = crashes \/ crashes' = crashes + 1
  BY DEF Next, Command, vars, Load, CreateIdentity, UseIdentity, RemoveIdentity,
         PlanResume, PlanHandoff, Apply, Save, Abandon, Crash, ExplicitAcquire, ExplicitRelease
<1>2. crashes \in Nat
  BY DEF Inv, Types
<1> QED
  BY <1>1, <1>2

\* What commands know when they run one at a time.
LEMMA AloneInvHolds == Spec => []AloneInv
<1>1. Init => AloneInv
  <2> SUFFICES ASSUME Init PROVE AloneInv
    OBVIOUS
  <2>1. guided = {} /\ \A t \in Terminals : pc[t] = "idle"
    BY DEF Init
  <2> QED
    BY <2>1 DEF AloneInv, GrantsArePast, AloneAtWork, AppliedIsLatest, OnlyUnsavedUnbound, Continued
<1>2. Inv /\ AloneInv /\ [Next]_vars => AloneInv'
  BY GrantsStep, AtWorkStep, LatestStep, UnboundStep, CrashesGrow, IssuedGrows DEF AloneInv
<1>3. QED
  BY InvHolds, <1>1, <1>2, PTL DEF Spec

\* As long as commands run one at a time and none dies between its plan and its
\* save, every ACTIVE claim that a guided resume acquired keeps its binding.
THEOREM ClaimsStayBoundAlone == Spec => []ClaimsStayBound
<1>1. AloneInv => ClaimsStayBound
  BY DEF AloneInv, ClaimsStayBound, OnlyUnsavedUnbound, Continued, ActorOf
<1>2. QED
  BY AloneInvHolds, <1>1, PTL

\* Of commands that run one at a time, none clears a binding of a claim that is
\* still ACTIVE, whatever dies.
THEOREM BindingsOutliveClaims == Spec => AloneBindingsOutliveClaims
<1>1. ASSUME Inv, AloneInv, [Next]_vars, alone,
             NEW w \in Workspaces, NEW p \in Profiles,
             Unbinds(w, p), Owns(Bound(registry, w, p), claim[w])
      PROVE  FALSE
  <2>0. /\ AloneAtWork /\ AppliedIsLatest /\ Sound(registry, issued, guided)
        /\ task \in [Terminals -> Task]
    BY <1>1 DEF AloneInv, Inv, Types
  <2>1. Continued(w)
    BY <1>1, <2>0 DEF Owns, Continued, Unbinds, Sound, Granted
  <2>2. registry' # registry
    BY <1>1 DEF Unbinds
  <2>3. ASSUME NEW t \in Terminals, CreateIdentity(t) \/ UseIdentity(t) \/ RemoveIdentity(t)
        PROVE  FALSE
    <3>1. task[t].loaded = registry
      BY <2>0, <2>3 DEF AloneAtWork, CreateIdentity, UseIdentity, RemoveIdentity, Runs
    <3>2. CASE CreateIdentity(t)
      <4>1. PICK profile \in Profiles \ issued : registry' = AddProfile(registry, profile)
        BY <3>1, <3>2 DEF CreateIdentity
      <4>2. registry'.bindings = registry.bindings
        BY <2>0, <4>1, RegistryChanges
      <4> QED
        BY <1>1, <4>2 DEF Unbinds
    <3>3. CASE UseIdentity(t)
      <4>1. registry'.bindings = registry.bindings
        BY <2>0, <3>1, <3>3 DEF UseIdentity, Sound, Registry
      <4> QED
        BY <1>1, <4>1 DEF Unbinds
    <3>4. CASE RemoveIdentity(t)
      <4>1. PICK profile \in ToSet(registry.profiles) : registry' = RemoveProfile(registry, profile)
        BY <3>1, <3>4 DEF RemoveIdentity
      <4>2. p # profile
        BY <1>1, <2>0, <4>1, RegistryChanges DEF Unbinds
      <4>3. registry'.bindings[<<w, p>>] = registry.bindings[<<w, p>>]
        BY <2>0, <4>1, <4>2, RegistryChanges
      <4> QED
        BY <1>1, <4>3 DEF Unbinds
    <3> QED
      BY <2>3, <3>2, <3>3, <3>4
  <2>4. ASSUME NEW t \in Terminals, Save(t)
        PROVE  FALSE
    <3>1. pc[t] = "applied" /\ task[t].loaded = registry /\ Approved(task[t])
      BY <1>1, <2>0, <2>4 DEF AloneAtWork, Save, Inv
    <3>2. PICK v \in Workspaces, q \in Profiles : task[t].key = <<v, q>>
      BY <3>1 DEF Approved
    <3> DEFINE next == Acquire(task[t].basis, q, task[t].session)
               b == IF task[t].command = "resume"
                    THEN [session |-> task[t].session, generation |-> next.generation]
                    ELSE NoBinding
    <3>3. registry' = [registry EXCEPT !.bindings[<<v, q>>] = b]
      BY <2>4, <3>1, <3>2 DEF Save, UpsertBinding, RemoveBinding
    <3>4. registry'.bindings[<<w, p>>] = IF v = w /\ p = q THEN b ELSE registry.bindings[<<w, p>>]
      <4> HIDE DEF b
      <4> QED
        BY <2>0, <3>3 DEF Sound, Registry
    <3>5. v = w /\ q = p /\ b = NoBinding
      <4> HIDE DEF b
      <4> QED
        BY <1>1, <3>4 DEF Unbinds
    <3>6. task[t].command = "resume"
      BY <2>0, <2>1, <3>1, <3>2, <3>5 DEF AppliedIsLatest
    <3>7. task[t].session \in Sessions
      BY <3>1, <3>6 DEF Approved
    <3> QED
      BY <3>5, <3>6, <3>7, OwnershipAssumption DEF NoBinding
  <2>5. ASSUME NEW t \in Terminals, Crash(t)
        PROVE  FALSE
    BY <2>2, <2>5 DEF Crash
  <2> QED
    BY <1>1, <2>2, <2>3, <2>4, <2>5, OnlyRegistrySteps
<1> DEFINE Kept == alone => \A w \in Workspaces, profile \in Profiles :
                               Unbinds(w, profile) => ~Owns(Bound(registry, w, profile), claim[w])
<1>2. Inv /\ AloneInv /\ [Next]_vars => [Kept]_vars
  BY <1>1
<1> HIDE DEF Kept
<1>3. Spec => [][Kept]_vars
  BY InvHolds, AloneInvHolds, <1>2, PTL DEF Spec
<1>4. QED
  BY <1>3 DEF Kept, AloneBindingsOutliveClaims
=============================================================================

------------------------------ MODULE Ownership ------------------------------
(***************************************************************************)
(* The claim on a workspace that .uawp/ACTIVE_WORKER.md records            *)
(* (internal/core/ownership.go, ownership_transition.go).  Names are valid *)
(* by assumption: trimming, line breaks and lengths are checked on each of *)
(* them alone.  Agent, purpose and times are not modelled: an operation    *)
(* stamps the time it was planned at, and no decision reads it but the     *)
(* check that a release does not precede its acquisition.                  *)
(***************************************************************************)
EXTENDS Naturals

CONSTANTS
    Workers,         \* worker IDs
    Sessions,        \* session IDs
    MaxGeneration    \* the largest generation, 2^64 - 1 in the code

Nobody == "NONE"   \* worker and session of a workspace that nobody acquired yet

ASSUME OwnershipAssumption ==
    /\ Nobody \notin Workers \cup Sessions
    /\ MaxGeneration \in Nat \ {0}

Generations == 0 .. MaxGeneration

Claim == [status : {"ACTIVE", "RELEASED"}, worker : Workers \cup {Nobody},
          session : Sessions \cup {Nobody}, generation : Generations]

\* What uawp init writes.
Bootstrapped == [status |-> "RELEASED", worker |-> Nobody,
                 session |-> Nobody, generation |-> 0]

Actor == [worker : Workers, session : Sessions, generation : Generations]

ActorOf(claim) ==
    [worker |-> claim.worker, session |-> claim.session, generation |-> claim.generation]

NoActor == ActorOf(Bootstrapped)

\* Checked whenever a claim is decoded or encoded.
ValidOwnership(claim) ==
    /\ claim.status = "ACTIVE" => claim.session # Nobody /\ claim.generation # 0
    /\ claim.status = "RELEASED" => (claim.session = Nobody <=> claim.generation = 0)

\* Mutant: a session keeps its rights whatever generation its claim has.
OwnsAnyGeneration(actor, claim) ==
    /\ claim.status = "ACTIVE"
    /\ claim.worker = actor.worker /\ claim.session = actor.session

\* ValidateActiveActor compares worker, session and generation.
Owns(actor, claim) ==
    claim.status = "ACTIVE" /\ actor.generation # 0 /\ ActorOf(claim) = actor

CanAcquire(claim) == claim.status = "RELEASED" /\ claim.generation # MaxGeneration

\* Mutant: the new claim keeps the generation of the old one.
AcquireSameGeneration(claim, worker, session) ==
    [claim EXCEPT !.status = "ACTIVE", !.worker = worker, !.session = session]

Acquire(claim, worker, session) ==
    [status |-> "ACTIVE", worker |-> worker, session |-> session,
     generation |-> (claim.generation + 1) % (MaxGeneration + 1)]

\* Release and RecoverStaleOwnership keep the tuple and change the status.
Release(claim) == [claim EXCEPT !.status = "RELEASED"]
=============================================================================

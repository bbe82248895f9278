--------------------------- MODULE MCMaintenance ---------------------------
(* Maintenance over a few providers and kinds of edits, and the registry of *)
(* migration steps against a reference definition.                          *)
EXTENDS Maintenance, TLC

SomeVersions == {<<1, 0, 0>>, <<1, 2, 0>>, <<1, 10, 0>>, <<2, 0, 0>>}
SomeSteps == {s \in {Step(v, w) : v \in SomeVersions, w \in SomeVersions} : Before(s.from, s.to)}

\* A chain of steps that leads from one version to another.
IsChain(path, from, to) ==
    /\ path = <<>> => from = to
    /\ path # <<>> => path[1].from = from /\ path[Len(path)].to = to
    /\ \A i \in 1..(Len(path) - 1) : path[i].to = path[i + 1].from
Chains(steps) == UNION {[1..n -> steps] : n \in 0..Cardinality(SomeVersions) - 1}

\* For every registry that NewRegistry accepts, Resolve finds a chain of steps
\* exactly if there is one, and what it finds is that chain.
ASSUME RegistryFindsChains ==
    \A steps \in {s \in SUBSET SomeSteps : Accepted(s)}, v \in SomeVersions, w \in SomeVersions :
        /\ Resolves(steps, v, w) <=> \E path \in Chains(steps) : IsChain(path, v, w)
        /\ Resolves(steps, v, w) => IsChain(Resolve(steps, v, w), v, w)
=============================================================================

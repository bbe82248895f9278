------------------------------ MODULE Migration ------------------------------
(***************************************************************************)
(* The registry of migration steps: what it accepts, and the steps it      *)
(* finds from one state version to another.                                *)
(***************************************************************************)
EXTENDS Naturals, Sequences, FiniteSets

Versions == Nat \X Nat \X Nat

(* compareVersion: the components in their order, as numbers.               *)
Before(v, w) == \E i \in 1..3 : v[i] < w[i] /\ \A j \in 1..(i - 1) : v[j] = w[j]

Step(from, to) == [from |-> from, to |-> to]

(* NewRegistry: every step goes forward, and no two start at one version.   *)
(* That there is no cycle follows.                                          *)
Accepted(steps) ==
    /\ \A s \in steps : Before(s.from, s.to)
    /\ \A s, t \in steps : s.from = t.from => s = t

Leaving(steps, v) == {s \in steps : s.from = v}

(* Resolve: from step to step, for as many as there are; it fails at a      *)
(* version no step leaves, or when a step jumps over the target.            *)
Path(steps, from, to) ==
    LET Walk[n \in 0..Cardinality(steps)] ==
            IF n = 0 THEN [at |-> from, taken |-> <<>>, ok |-> ~Before(to, from)]
            ELSE LET w == Walk[n - 1] IN
                 IF ~w.ok \/ w.at = to THEN w
                 ELSE IF Leaving(steps, w.at) = {} THEN [w EXCEPT !.ok = FALSE]
                 ELSE LET s == CHOOSE s \in Leaving(steps, w.at) : TRUE IN
                      IF Before(to, s.to) THEN [w EXCEPT !.ok = FALSE]
                      ELSE [at |-> s.to, taken |-> Append(w.taken, s), ok |-> TRUE]
    IN Walk[Cardinality(steps)]
Resolves(steps, from, to) == LET w == Path(steps, from, to) IN w.ok /\ w.at = to
Resolve(steps, from, to) == Path(steps, from, to).taken

-----------------------------------------------------------------------------
(* The steps of this program, and how it classifies a version it finds.     *)

V1_0 == <<1, 0, 0>>
V1_1 == <<1, 1, 0>>
CurrentStateVersion == <<1, 2, 0>>
Steps == {Step(V1_0, V1_1), Step(V1_1, CurrentStateVersion)}

ClassifyStateVersion(v) ==
    IF v = CurrentStateVersion THEN "CURRENT"
    ELSE IF v \in {V1_0, V1_1} THEN "UPGRADE_REQUIRED"
    ELSE IF v[1] > 1 THEN "FUTURE_MAJOR" ELSE "UNSUPPORTED"
=============================================================================

------------------------- MODULE MCProvenanceStore -------------------------
(* Small instances of ProvenanceStore for TLC. *)
EXTENDS StoreRefinesLedger, TLC

(* Threads differ in nothing but their name. *)
ThreadSymmetry == Permutations(Threads)

NoClaims == {}

(* What records are produced in and requests ask for: nothing in particular,   *)
(* one model or the other, and the generation of a dependency.                 *)
NoEnv          == [dim \in {} |-> 0]
Model(m)       == [dim \in {"ModelIdentity"} |-> m]
OfDependency   == [dim \in {"ModelIdentity", "DependencyGen"} |-> 1]
AllEnvs        == {NoEnv, Model(1), Model(2)}
AllRequests    == AllEnvs \cup {OfDependency}
NoEnvOnly      == {NoEnv}
NoRequests     == {}

(* A record of subject s with provenance identity p that derives from the     *)
(* states in and the provenance records par; it names no worker.              *)
Rec(s, p, in, par) ==
    [subject |-> s, prov |-> p, inputs |-> in, parents |-> par,
     worker |-> 0, env |-> NoEnv, validity |-> "VALID", attrs |-> {"model"},
     external |-> FALSE, wellTyped |-> TRUE]

(* Lineages over four subjects: roots, chains by state and by provenance      *)
(* reference, a diamond edge, forks; and the offers validate_record or         *)
(* insert_validated must turn down: a null subject, a reference to itself,     *)
(* a repeated reference, a provenance identity used for two subjects, two      *)
(* records for one subject, references that point at each other.               *)
LineageCandidates ==
    { [Rec(1, 1, <<>>, <<>>) EXCEPT !.external = TRUE],
      [Rec(1, 1, <<2>>, <<>>) EXCEPT !.attrs = {"model", "attempt"}],
      [Rec(2, 2, <<1>>, <<>>) EXCEPT !.attrs = {"attempt"}, !.env = Model(1)],
      [Rec(2, 2, <<1>>, <<>>) EXCEPT !.validity = "STALE"],
      [Rec(2, 2, <<>>, <<>>) EXCEPT !.external = TRUE],
      [Rec(1, 3, <<>>, <<>>) EXCEPT !.external = TRUE],
      [Rec(3, 3, <<1>>, <<2>>) EXCEPT !.worker = 1, !.env = Model(2)],
      Rec(3, 3, <<>>, <<1>>),
      [Rec(3, 2, <<1>>, <<>>) EXCEPT !.validity = "INVALIDATED"],
      Rec(3, 3, <<3>>, <<>>),
      Rec(3, 3, <<>>, <<3>>),
      Rec(3, 3, <<1, 1>>, <<>>),
      Rec(0, 1, <<1>>, <<>>),
      Rec(3, 3, <<>>, <<>>) }

(* With the roots above: a diamond over four subjects, its lower half drawn by *)
(* provenance reference, and a chain.                                          *)
DiamondCandidates ==
    { Rec(2, 2, <<1>>, <<>>),
      [Rec(3, 3, <<>>, <<1>>) EXCEPT !.validity = "INVALIDATED"],
      Rec(3, 3, <<2>>, <<>>),
      [Rec(4, 4, <<2>>, <<3>>) EXCEPT !.env = Model(1), !.validity = "UNKNOWN"] }

Lineages == LineageCandidates \cup DiamondCandidates

(* A worker's result, its resubmission under another provenance identity, and  *)
(* an offer without a subject.                                                 *)
RaceCandidates ==
    { [Rec(1, 1, <<>>, <<>>) EXCEPT !.external = TRUE, !.worker = 1],
      [Rec(1, 2, <<>>, <<>>) EXCEPT !.external = TRUE, !.worker = 1],
      [Rec(0, 2, <<>>, <<>>) EXCEPT !.external = TRUE] }

Unconstrained == [dim \in GenDims |-> IF dim \in PlainDims THEN 0 ELSE None]

(* Claims of the worker's first boot under the first epoch and of its second   *)
(* boot under the second one.                                                  *)
BootClaims ==
    { [epoch |-> 1, worker |-> 1, boot |-> 1, gen |-> Unconstrained],
      [epoch |-> 2, worker |-> 1, boot |-> 2, gen |-> Unconstrained] }

(* Claims that pin generations: a plain dimension, whose null value pins       *)
(* nothing; an attempt; and an optional one, explicitly pinned to null.        *)
PinnedClaims ==
    { [epoch |-> 1, worker |-> 0, boot |-> 1,
       gen |-> [Unconstrained EXCEPT !["StateGeneration"] = 2]],
      [epoch |-> 1, worker |-> 1, boot |-> 1,
       gen |-> [Unconstrained EXCEPT !["AttemptId"] = 2,
                                     !["DependencyGeneration"] = 0]] }

RaceClaims == BootClaims \cup PinnedClaims
=============================================================================

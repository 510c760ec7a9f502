----------------------------- MODULE Authority -----------------------------
(***************************************************************************)
(* The mutation authority of include/stateprovenance/authority.hpp: the    *)
(* values AuthorityState holds as current, its setters, and                *)
(* evaluate_claim, which compares a claim with them one fence dimension    *)
(* after the other.                                                        *)
(*                                                                         *)
(* An authority is a record [epoch, boot, gen]: the coordinator epoch, the *)
(* boot registered for each worker (a function on the registered workers)  *)
(* and the current value of every other dimension (0 when unset).  A claim *)
(* is a record [epoch, worker, boot, gen].                                 *)
(***************************************************************************)
EXTENDS Naturals

CONSTANT None          \* an empty std::optional

(* The dimensions whose null value 0 means "not constrained", on either side. *)
PlainDims == {"AttemptId", "AttemptGeneration",
              "StateGeneration", "ProvenanceGeneration"}

(* The dimensions a claim carries in a std::optional. *)
OptionalDims == {"ArtifactGeneration", "ModelGeneration", "AdapterGeneration",
                 "CompositionGeneration", "PolicyGeneration",
                 "DependencyGeneration"}

GenDims   == PlainDims \cup OptionalDims
FenceDims == {"CoordinatorEpoch", "WorkerBootId"} \cup GenDims

(* The place of each dimension in evaluate_claim's sequence of comparisons. *)
FenceRank == [dim \in FenceDims |->
    CASE dim = "CoordinatorEpoch"      -> 1
      [] dim = "WorkerBootId"          -> 2
      [] dim = "AttemptId"             -> 3
      [] dim = "AttemptGeneration"     -> 4
      [] dim = "StateGeneration"       -> 5
      [] dim = "ProvenanceGeneration"  -> 6
      [] dim = "ArtifactGeneration"    -> 7
      [] dim = "ModelGeneration"       -> 8
      [] dim = "AdapterGeneration"     -> 9
      [] dim = "CompositionGeneration" -> 10
      [] dim = "PolicyGeneration"      -> 11
      [] dim = "DependencyGeneration"  -> 12]

InitialAuthority == [epoch |-> 1,
                     boot  |-> [w \in {} |-> 0],
                     gen   |-> [dim \in GenDims |-> 0]]

----------------------------------------------------------------------------
(* Setters.  None of them compares the new value with the old one.           *)

NextEpoch(auth) == [auth EXCEPT !.epoch = auth.epoch + 1]

WithBoot(auth, worker, boot) ==
    [auth EXCEPT !.boot = [w \in DOMAIN auth.boot \cup {worker} |->
                              IF w = worker THEN boot ELSE auth.boot[w]]]

WithAttempt(auth, id, generation) ==
    [auth EXCEPT !.gen = [dim \in GenDims |->
                             CASE dim = "AttemptId"         -> id
                               [] dim = "AttemptGeneration" -> generation
                               [] OTHER                     -> auth.gen[dim]]]

WithGeneration(auth, dim, generation) ==
    [auth EXCEPT !.gen = [x \in GenDims |->
                             IF x = dim THEN generation ELSE auth.gen[x]]]

----------------------------------------------------------------------------
(* Fencing.                                                                  *)

(* The dimensions the claim asserts something about. *)
Constrained(claim) ==
    {"CoordinatorEpoch"}
      \cup (IF claim.worker = 0 THEN {} ELSE {"WorkerBootId"})
      \cup {dim \in PlainDims : claim.gen[dim] # 0}
      \cup {dim \in OptionalDims : claim.gen[dim] # None}

StaleBoot(auth, claim) ==
    /\ claim.worker # 0
    /\ ~ (/\ claim.worker \in DOMAIN auth.boot
          /\ auth.boot[claim.worker] = claim.boot)

StaleGeneration(auth, claim, dim) ==
    /\ claim.gen[dim] # (IF dim \in PlainDims THEN 0 ELSE None)
    /\ auth.gen[dim] # 0
    /\ claim.gen[dim] # auth.gen[dim]

(* Fault: a claim is refused only for an epoch ahead of the current one. *)
StaleAheadOnly(auth, claim, dim) ==
    \/ dim = "CoordinatorEpoch" /\ claim.epoch > auth.epoch
    \/ dim = "WorkerBootId" /\ StaleBoot(auth, claim)
    \/ dim \in GenDims /\ StaleGeneration(auth, claim, dim)

(* One comparison of evaluate_claim fails. *)
Stale(auth, claim, dim) ==
    \/ dim = "CoordinatorEpoch" /\ claim.epoch # auth.epoch
    \/ dim = "WorkerBootId" /\ StaleBoot(auth, claim)
    \/ dim \in GenDims /\ StaleGeneration(auth, claim, dim)

(* evaluate_claim run against an authority that does not change meanwhile. *)
Accepts(auth, claim) == \A dim \in FenceDims : ~ Stale(auth, claim, dim)
=============================================================================

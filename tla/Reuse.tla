------------------------------- MODULE Reuse -------------------------------
(***************************************************************************)
(* evaluate_reuse of include/stateprovenance/compat.hpp: whether the        *)
(* environment a record was produced in satisfies a request.               *)
(*                                                                         *)
(* An environment and a request are functions on the dimensions they set;  *)
(* a null identity, a null generation or an empty string sets nothing.     *)
(***************************************************************************)
EXTENDS Naturals

CONSTANTS
    Environments,   \* environments records are produced in
    Requests        \* environments callers ask check_reuse for

(* The dimensions evaluate_reuse compares, in its order. *)
ComparedDims ==
    {"ModelIdentity", "ModelRevision", "Tokenizer", "AdapterIdentity",
     "AdapterRevision", "AdapterComposition", "Backend", "Runtime", "Toolchain",
     "Architecture", "ComputeCapability", "ABI", "Dtype", "Layout",
     "TensorGeometry", "ModelGen", "AdapterGen", "CompositionGen", "RuntimeGen",
     "PolicyGen", "ArtifactGen"}

(* The fields of ReuseRequest. *)
RequestDims == ComparedDims \cup {"CompositionIdentity", "DependencyGen"}

ASSUME ReuseAssumption ==
    \A env \in Environments \cup Requests :
        DOMAIN env \subseteq RequestDims /\ \A dim \in DOMAIN env : env[dim] \in Nat \ {0}

Compared(request) == DOMAIN request \cap ComparedDims

Incomplete(env, request) == Compared(request) \ DOMAIN env

Mismatched(env, request) ==
    {dim \in Compared(request) \cap DOMAIN env : env[dim] # request[dim]}

(* The validity is the one the record was published with. *)
Evaluate(env, validity, request) ==
    CASE validity \in {"INVALIDATED", "STALE"} -> validity
      [] validity \notin {"INVALIDATED", "STALE"} ->
            IF Mismatched(env, request) # {} THEN "INCOMPATIBLE"
            ELSE IF Incomplete(env, request) # {} THEN "INCOMPLETE_PROVENANCE"
            ELSE IF validity = "UNKNOWN" THEN "UNKNOWN"
            ELSE "ELIGIBLE"
=============================================================================

--------------------------- MODULE MCCoordinator ---------------------------
(* Small instances of Coordinator for TLC.  Connections are strings. *)
EXTENDS Coordinator

(* An environment that sets nothing, and no requests. *)
NoEnv       == [dim \in {} |-> 0]
NoEnvOnly   == {NoEnv}
NoRequests  == {}

Root(s)     == [subject |-> s, prov |-> s, inputs |-> <<>>, parents |-> <<>>,
                worker |-> 1, env |-> NoEnv, validity |-> "VALID", attrs |-> {},
                external |-> TRUE, wellTyped |-> TRUE]

(* Its bytes can be read, but validate_record refuses the record. *)
Illtyped == [Root(2) EXCEPT !.wellTyped = FALSE]

(* A result of worker 1 that derives from its first one. *)
Child == [Root(2) EXCEPT !.inputs = <<1>>]

ProofRecords == {Root(1), Child, Illtyped}

(* Worker 1 publishes a root; its restarted process publishes it again.         *)
ProofSession ==
    [a1 |-> [worker |-> 1, boot |-> 1, data |-> Root(1)],
     a2 |-> [worker |-> 1, boot |-> 2, data |-> Root(1)]]

Retry      == [c \in {"a1", "a2"} |-> ProofSession[c]]
OneRestart == [c \in {"a1", "a2"} |->
                  IF c = "a1" THEN [ProofSession[c] EXCEPT !.data = None]
                              ELSE ProofSession[c]]
OneWorker  == [c \in {"a1"} |-> ProofSession[c]]

(* The authority mp_proof sets up, and its second provenance generation. *)
ProofSettings ==
    { [dim \in {"StateGeneration", "ProvenanceGeneration", "AttemptId", "AttemptGeneration"} |->
          IF dim = "ProvenanceGeneration" THEN 2 ELSE 1] }

ClaimsOver(epochs, generations) ==
    { [epoch |-> e, worker |-> w, boot |-> b,
       gen |-> [dim \in GenDims |-> CASE dim = "StateGeneration" -> s
                                      [] dim = "ProvenanceGeneration" -> p
                                      [] dim \in {"AttemptId", "AttemptGeneration"} -> 1
                                      [] OTHER -> None]] :
      e \in epochs, w \in Workers, b \in Boots, s \in generations, p \in generations }

ProofClaims == ClaimsOver({1, 2}, {1, 2})
LateClaims  == ClaimsOver((1..9) \cup {16}, {1})

(* Records a control client publishes under a claim of worker w's first boot, as *)
(* mp_proof does.                                                              *)
Replay(data, w) ==
    { [data |-> d, claim |-> c] :
      d \in data, c \in {x \in ClaimsOver({1}, {1}) : x.worker = w /\ x.boot = 1} }

OldBootReplay == Replay({Root(1)}, 1)             \* the killed process's result
StaleReplay   == Replay({Root(1), Illtyped}, 2)   \* of a worker nobody registered
ChildReplay   == Replay({Child}, 1)               \* the worker's derived result

----------------------------------------------------------------------------
(* The scenarios.  Nobody asks for anything, unless it says so. *)
Scenario(session, ops) ==
    [session |-> session, controls |-> {"ctl"}, ops |-> ops, settings |-> {},
     replays |-> {}, mayCrash |-> FALSE, killable |-> {}]

(* The worker may be killed at any moment and its successor publishes the result *)
(* again; the coordinator is saved, crashes and restarts.                       *)
Recovering ==
    [Scenario(Retry, {"Save"}) EXCEPT !.mayCrash = TRUE, !.killable = {"a1"}]

(* A control client publishes a derived result under the worker's claim. *)
Deriving ==
    [Scenario(OneWorker, {"Save", "Publish"}) EXCEPT
        !.replays = ChildReplay, !.mayCrash = TRUE, !.killable = {"a1"}]

(* The authority moves between a worker's Hello and its publish. *)
Moving ==
    [Scenario(OneWorker, {"Shutdown", "Malformed", "Publish", "SetAuthority", "RollEpoch"})
        EXCEPT !.settings = ProofSettings, !.replays = StaleReplay]

(* A worker that only registers is killed, and its result replayed. *)
Replaced ==
    [Scenario(OneRestart, {"Publish"}) EXCEPT
        !.replays = OldBootReplay, !.killable = {"a1"}]

(* Queries while a worker publishes. *)
Asking ==
    [Scenario(OneWorker, {"Publish", "Query", "Stats"}) EXCEPT !.replays = ChildReplay]

ProofScenarios == {Recovering, Deriving, Moving, Replaced, Asking}
Late           == {Scenario(OneWorker, {"RollEpoch"})}
Closing        == {Scenario(OneWorker, {"Shutdown"})}
=============================================================================

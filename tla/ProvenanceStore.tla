-------------------------- MODULE ProvenanceStore --------------------------
(***************************************************************************)
(* The ProvenanceStore class of include/stateprovenance/store.hpp.         *)
(*                                                                         *)
(* Every operation takes the class's reader/writer lock for its whole      *)
(* duration and is one step here, with one exception: the fenced publish   *)
(* calls AuthorityState::evaluate_claim before it takes the lock, so each  *)
(* of its comparisons is a step of its own (FencePass, FenceReject), and   *)
(* the insertion under the lock (FenceCommit) another one.  The threads    *)
(* inside such a call are the processes of the model.                      *)
(*                                                                         *)
(* The process that owns the store may die; the next one starts with the   *)
(* last snapshot that was saved (Recover).                                 *)
(***************************************************************************)
EXTENDS Naturals, Sequences, ProvenanceGraph, Authority, Reuse

CONSTANTS
    StateIds,       \* identities of subjects, non-zero
    ProvIds,        \* identities of provenance records, non-zero
    Workers,        \* identities of workers, non-zero
    Boots,          \* boot identities
    Attrs,          \* keys of the secondary indexes (model, producer, attempt...)
    Candidates,     \* the record data callers offer, well formed or not
    Claims,         \* the authority claims callers offer
    Threads,        \* threads that may be inside a fenced publish
    Generations,    \* generation values (and attempt ids) the setters are given
    MovingDims,     \* bound: the generation dimensions the setters touch
    MaxEpoch        \* bound: the coordinator epoch stops rolling here

Validities == {"VALID", "STALE", "INVALIDATED", "UNKNOWN"}

(* RecordData, reduced to what the store's control depends on.  wellTyped     *)
(* stands for the scalar checks of validate_record (generations, producer and *)
(* kind set, dependency ids and requirements well formed), external for the   *)
(* presence of an execution or a dependency.                                  *)
RecordData ==
    [subject : StateIds \cup {0}, prov : ProvIds \cup {0},
     inputs : Seq(StateIds \cup {0}), parents : Seq(ProvIds \cup {0}),
     worker : Workers \cup {0}, env : Environments, validity : Validities,
     attrs : SUBSET Attrs, external : BOOLEAN, wellTyped : BOOLEAN]

ClaimData ==
    [epoch : Nat, worker : Workers \cup {0}, boot : Boots,
     gen : [GenDims -> Nat \cup {None}]]

ASSUME StoreAssumption ==
    /\ StateIds \subseteq Nat \ {0}
    /\ ProvIds \subseteq Nat \ {0}
    /\ Workers \subseteq Nat \ {0}
    /\ Boots \subseteq Nat
    /\ Candidates \subseteq RecordData
    /\ Claims \subseteq ClaimData
    /\ Generations \subseteq Nat
    /\ MovingDims \subseteq GenDims
    /\ MaxEpoch \in Nat

VARIABLES
    records,            \* records_: StateId -> frozen RecordData
    provToState,        \* prov_to_state_: ProvenanceId -> StateId
    graph,              \* graph_
    status,             \* status_: StateId -> current validity and its cause
    byValidity,         \* by_validity_
    byAttr,             \* by_model_, by_producer_, ..., by_evidence_
    authority,          \* authority_
    workers,            \* workers_: workers named by a stored record
    runtimeGeneration,  \* runtime_generation_
    calls,              \* the fenced publish each thread is in
    saved               \* the last snapshot saved

lineageVars == <<records, provToState, graph, status, byValidity, byAttr, workers>>
vars == <<lineageVars, authority, runtimeGeneration, calls, saved>>

----------------------------------------------------------------------------
(* Records *)

Elements(seq) == {seq[i] : i \in DOMAIN seq}

NoDuplicates(seq) == \A i, j \in DOMAIN seq : seq[i] = seq[j] => i = j

(* Fault: a null subject is let through. *)
ValidRecordNullSubject(d) ==
    /\ d.prov # 0
    /\ d.wellTyped
    /\ NoDuplicates(d.inputs)
    /\ NoDuplicates(d.parents)

(* validate_record *)
ValidRecord(d) ==
    /\ d.prov # 0
    /\ d.subject # 0
    /\ d.wellTyped
    /\ d.inputs # <<>> \/ d.parents # <<>> \/ d.external
    /\ NoDuplicates(d.inputs)
    /\ NoDuplicates(d.parents)
    /\ d.prov \notin Elements(d.parents)

(* Fault: a provenance identity may be used again. *)
AdmissibleReusedProvenance(d) ==
    /\ d.subject \notin DOMAIN records
    /\ Elements(d.inputs) \subseteq DOMAIN records
    /\ Elements(d.parents) \subseteq DOMAIN provToState

(* Fault: a second record of a subject replaces the first. *)
AdmissibleReplaces(d) ==
    /\ d.prov \notin DOMAIN provToState
    /\ Elements(d.inputs) \subseteq DOMAIN records
    /\ Elements(d.parents) \subseteq DOMAIN provToState

(* The rejections at the head of insert_validated. *)
Admissible(d) ==
    /\ d.subject \notin DOMAIN records
    /\ d.prov \notin DOMAIN provToState
    /\ Elements(d.inputs) \subseteq DOMAIN records
    /\ Elements(d.parents) \subseteq DOMAIN provToState

ParentStates(d) ==
    Elements(d.inputs) \cup {provToState[p] : p \in Elements(d.parents)}

With(f, x, value) == [y \in DOMAIN f \cup {x} |-> IF y = x THEN value ELSE f[y]]

InitialStatus(d) == [validity |-> d.validity, cause |-> 0]

NamedWorkers(d) == IF d.worker = 0 THEN {} ELSE {d.worker}

(* insert_validated past its rejections: the node and its arcs are drawn     *)
(* first; if an arc is refused, the call fails there and leaves the node and *)
(* the arcs drawn so far behind.                                             *)
Insert(d) ==
    LET s  == d.subject
        ps == ParentStates(d)
        g  == AddNode(graph, s)
    IN  /\ graph' = LinkParents(g, ps, s)
        /\ IF RefusedParents(g, ps, s) = {}
           THEN /\ records' = With(records, s, d)
                /\ provToState' = With(provToState, d.prov, s)
                /\ status' = With(status, s, InitialStatus(d))
                /\ byValidity' = [byValidity EXCEPT ![d.validity] = @ \cup {s}]
                /\ byAttr' = [a \in Attrs |->
                                 IF a \in d.attrs THEN byAttr[a] \cup {s}
                                                  ELSE byAttr[a]]
                /\ workers' = workers \cup NamedWorkers(d)
           ELSE UNCHANGED <<records, provToState, status, byValidity, byAttr, workers>>

(* publish(data): the unfenced overload. *)
Publish(d) ==
    /\ ValidRecord(d)
    /\ Admissible(d)
    /\ Insert(d)
    /\ UNCHANGED <<authority, runtimeGeneration, calls, saved>>

----------------------------------------------------------------------------
(* Fenced publish, publish(data, claim).  A call remembers the dimensions    *)
(* evaluate_claim has still to compare.  Two history fields serve only the    *)
(* properties: entered is the epoch at the moment of the call, and steady     *)
(* says that nothing wrote the authority or the runtime generation since.     *)

Idle == [phase |-> "idle"]

FenceEnter(t) ==
    /\ calls[t].phase = "idle"
    /\ \E d \in Candidates, c \in Claims :
          /\ ValidRecord(d)
          /\ calls' = [calls EXCEPT ![t] =
                          [phase |-> "fencing", data |-> d, claim |-> c,
                           todo |-> Constrained(c), entered |-> authority.epoch,
                           steady |-> TRUE]]
    /\ UNCHANGED <<lineageVars, authority, runtimeGeneration, saved>>

(* The comparison evaluate_claim is at. *)
IsNext(call, dim) ==
    /\ dim \in call.todo
    /\ \A other \in call.todo : FenceRank[dim] <= FenceRank[other]

(* Fault: a current boot is taken as proof of everything else. *)
FencePassTrustsBoot(t) ==
    /\ calls[t].phase = "fencing"
    /\ \E dim \in FenceDims :
          /\ IsNext(calls[t], dim)
          /\ ~ Stale(authority, calls[t].claim, dim)
          /\ calls' = [calls EXCEPT ![t].todo =
                           IF dim = "WorkerBootId" THEN {} ELSE @ \ {dim}]
    /\ UNCHANGED <<lineageVars, authority, runtimeGeneration, saved>>

FencePass(t) ==
    /\ calls[t].phase = "fencing"
    /\ \E dim \in FenceDims :
          /\ IsNext(calls[t], dim)
          /\ ~ Stale(authority, calls[t].claim, dim)
          /\ calls' = [calls EXCEPT ![t].todo = @ \ {dim}]
    /\ UNCHANGED <<lineageVars, authority, runtimeGeneration, saved>>

FenceReject(t) ==
    /\ calls[t].phase = "fencing"
    /\ \E dim \in FenceDims :
          /\ IsNext(calls[t], dim)
          /\ Stale(authority, calls[t].claim, dim)
    /\ calls' = [calls EXCEPT ![t] = Idle]
    /\ UNCHANGED <<lineageVars, authority, runtimeGeneration, saved>>

Admitted(t) == calls[t].phase = "fencing" /\ calls[t].todo = {}

(* publish_validated: the claim is not looked at again. *)
FenceCommit(t) ==
    /\ Admitted(t)
    /\ calls' = [calls EXCEPT ![t] = Idle]
    /\ IF Admissible(calls[t].data)
       THEN Insert(calls[t].data)
       ELSE UNCHANGED lineageVars
    /\ UNCHANGED <<authority, runtimeGeneration, saved>>

----------------------------------------------------------------------------
(* Invalidation *)

(* Fault: propagation reaches the direct derivatives only. *)
AffectedChildrenOnly(root) == {root} \cup graph.children[root]

(* Fault: what is stale already is left out. *)
AffectedValidOnly(root) ==
    {root} \cup {s \in Descendants(graph, root) : status[s].validity = "VALID"}

(* propagate_invalidation from one root. *)
Affected(root) == {root} \cup Descendants(graph, root)

(* Fault: the affected subjects stay listed under their former validity. *)
ReindexedTwice(affected) ==
    [byValidity EXCEPT !["INVALIDATED"] = @ \cup affected]

(* by_validity_ once the affected subjects are invalidated: those that were   *)
(* not yet are moved from the set of their former validity.                   *)
Reindexed(affected) ==
    [v \in Validities |->
        IF v = "INVALIDATED"
        THEN byValidity[v] \cup affected
        ELSE {s \in byValidity[v] : ~ (s \in affected /\ status[s].validity = v)}]

Invalidate(root) ==
    LET affected == Affected(root)
    IN  /\ root \in DOMAIN records
        /\ status' = [s \in DOMAIN status \cup affected |->
                         IF s \in affected
                         THEN [validity |-> "INVALIDATED", cause |-> root]
                         ELSE status[s]]
        /\ byValidity' = Reindexed(affected)
        /\ UNCHANGED <<records, provToState, graph, byAttr, workers,
                       authority, runtimeGeneration, calls, saved>>

----------------------------------------------------------------------------
(* Authority *)

Disturbed(call) ==
    IF call.phase = "fencing" THEN [call EXCEPT !.steady = FALSE] ELSE call

ChangeAuthority(new) ==
    /\ authority' = new
    /\ calls' = [t \in Threads |-> Disturbed(calls[t])]
    /\ UNCHANGED <<lineageVars, runtimeGeneration, saved>>

RollEpoch ==
    /\ authority.epoch < MaxEpoch
    /\ ChangeAuthority(NextEpoch(authority))

RegisterBoot(w, b) == ChangeAuthority(WithBoot(authority, w, b))

BeginAttempt(id, generation) ==
    /\ {"AttemptId", "AttemptGeneration"} \subseteq MovingDims
    /\ ChangeAuthority(WithAttempt(authority, id, generation))

(* roll_state_generation, roll_provenance_generation, set_*_generation *)
SetGeneration(dim, generation) ==
    /\ dim \in MovingDims \ {"AttemptId", "AttemptGeneration"}
    /\ ChangeAuthority(WithGeneration(authority, dim, generation))

SetRuntimeGeneration(generation) ==
    /\ runtimeGeneration' = generation
    /\ calls' = [t \in Threads |-> Disturbed(calls[t])]
    /\ UNCHANGED <<lineageVars, authority, saved>>

----------------------------------------------------------------------------
(* Snapshot and restore *)

(* snapshot(): the boots of the workers some stored record names, and no others. *)
CurrentSnapshot ==
    [records   |-> records,
     status    |-> status,
     authority |-> [authority EXCEPT
                       !.boot = [w \in workers \cap DOMAIN authority.boot |->
                                    authority.boot[w]]]]

SaveSnapshot ==
    /\ saved' = CurrentSnapshot
    /\ UNCHANGED <<lineageVars, authority, runtimeGeneration, calls>>

(* What insert_validated builds from the records of a snapshot when it meets *)
(* them parents first.                                                       *)
ProvIndex(recs) ==
    [p \in {recs[s].prov : s \in DOMAIN recs} |->
        CHOOSE s \in DOMAIN recs : recs[s].prov = p]

RecordParents(recs, d) ==
    Elements(d.inputs)
      \cup {s \in DOMAIN recs : recs[s].prov \in Elements(d.parents)}

GraphOf(recs) ==
    [nodes    |-> DOMAIN recs,
     parents  |-> [s \in DOMAIN recs |-> RecordParents(recs, recs[s])],
     children |-> [s \in DOMAIN recs |->
                      {c \in DOMAIN recs : s \in RecordParents(recs, recs[c])}]]

AttrIndex(recs) == [a \in Attrs |-> {s \in DOMAIN recs : a \in recs[s].attrs}]

ValidityIndex(recs, st) ==
    [v \in Validities |->
        {s \in DOMAIN st : st[s].validity = v}
          \cup (IF v = "VALID" THEN DOMAIN recs \ DOMAIN st ELSE {})]

(* The process dies, with every call in flight; a new one restores the last   *)
(* snapshot saved (an empty one if there is none) before it serves anything.  *)
Recover ==
    /\ records' = saved.records
    /\ provToState' = ProvIndex(saved.records)
    /\ graph' = GraphOf(saved.records)
    /\ byAttr' = AttrIndex(saved.records)
    /\ status' = saved.status
    /\ byValidity' = ValidityIndex(saved.records, saved.status)
    /\ authority' = saved.authority
    /\ workers' = DOMAIN saved.authority.boot
                    \cup UNION {NamedWorkers(saved.records[s]) :
                                   s \in DOMAIN saved.records}
    /\ runtimeGeneration' = 0
    /\ calls' = [t \in Threads |-> Idle]
    /\ UNCHANGED saved

----------------------------------------------------------------------------
EmptyFunction == [x \in {} |-> 0]

EmptySnapshot == [records |-> EmptyFunction, status |-> EmptyFunction,
                  authority |-> InitialAuthority]

Init ==
    /\ records = EmptyFunction
    /\ provToState = EmptyFunction
    /\ graph = EmptyGraph
    /\ status = EmptyFunction
    /\ byValidity = [v \in Validities |-> {}]
    /\ byAttr = [a \in Attrs |-> {}]
    /\ authority = InitialAuthority
    /\ workers = {}
    /\ runtimeGeneration = 0
    /\ calls = [t \in Threads |-> Idle]
    /\ saved = EmptySnapshot

Next ==
    \/ \E d \in Candidates : Publish(d)
    \/ \E t \in Threads : FenceEnter(t) \/ FencePass(t) \/ FenceReject(t) \/ FenceCommit(t)
    \/ \E s \in StateIds : Invalidate(s)
    \/ RollEpoch
    \/ \E w \in Workers, b \in Boots : RegisterBoot(w, b)
    \/ \E id, generation \in Generations : BeginAttempt(id, generation)
    \/ \E dim \in GenDims, generation \in Generations : SetGeneration(dim, generation)
    \/ \E generation \in Generations : SetRuntimeGeneration(generation)
    \/ SaveSnapshot
    \/ Recover

Spec == Init /\ [][Next]_vars

----------------------------------------------------------------------------
(* Reuse: check_reuse(id, request).  The overlay decides first, then the      *)
(* ancestors, then what evaluate_reuse says of the record.                    *)

AncestorIs(s, validity) ==
    \E a \in Ancestors(graph, s) \cap DOMAIN status : status[a].validity = validity

(* Fault: the ancestors are looked at only if the environment fits. *)
CheckReuseEnvironmentFirst(s, request) ==
    LET verdict == Evaluate(records[s].env, records[s].validity, request)
    IN  IF status[s].validity # "VALID" THEN status[s].validity
        ELSE IF verdict # "ELIGIBLE" THEN verdict
        ELSE IF AncestorIs(s, "INVALIDATED") THEN "INVALIDATED"
        ELSE IF AncestorIs(s, "STALE") THEN "STALE"
        ELSE verdict

CheckReuse(s, request) ==
    LET verdict == Evaluate(records[s].env, records[s].validity, request)
    IN  IF s \notin DOMAIN records THEN "UNKNOWN"
        ELSE IF s \in DOMAIN status /\ status[s].validity # "VALID"
             THEN status[s].validity
        ELSE IF AncestorIs(s, "INVALIDATED") THEN "INVALIDATED"
        ELSE IF AncestorIs(s, "STALE") /\ verdict # "INVALIDATED" THEN "STALE"
        ELSE verdict

----------------------------------------------------------------------------
(* Properties *)

StatusType == [validity : Validities, cause : StateIds \cup {0}]

AuthorityOK(auth) ==
    \E known \in SUBSET Workers :
        auth \in [epoch : Nat, boot : [known -> Boots], gen : [GenDims -> Nat]]

CallType ==
    {Idle} \cup [phase : {"fencing"}, data : {d \in Candidates : ValidRecord(d)},
                 claim : Claims, todo : SUBSET FenceDims, entered : Nat, steady : BOOLEAN]

LineageTypeOK ==
    /\ DOMAIN records \subseteq StateIds
    /\ \A s \in DOMAIN records : records[s] \in Candidates
    /\ DOMAIN provToState \subseteq ProvIds
    /\ \A p \in DOMAIN provToState : provToState[p] \in StateIds
    /\ graph.nodes \subseteq StateIds
    /\ graph.parents \in [graph.nodes -> SUBSET StateIds]
    /\ graph.children \in [graph.nodes -> SUBSET StateIds]
    /\ DOMAIN status \subseteq StateIds
    /\ \A s \in DOMAIN status : status[s] \in StatusType
    /\ byValidity \in [Validities -> SUBSET StateIds]
    /\ byAttr \in [Attrs -> SUBSET StateIds]
    /\ workers \subseteq Workers

ControlTypeOK ==
    /\ AuthorityOK(authority)
    /\ runtimeGeneration \in Nat
    /\ calls \in [Threads -> CallType]

SnapshotTypeOK ==
    /\ DOMAIN saved.records \subseteq StateIds
    /\ \A s \in DOMAIN saved.records : saved.records[s] \in Candidates
    /\ DOMAIN saved.status = DOMAIN saved.records
    /\ \A s \in DOMAIN saved.status : saved.status[s] \in StatusType
    /\ AuthorityOK(saved.authority)

(* Every variable holds a value of its C++ type. *)
TypeOK == LineageTypeOK /\ ControlTypeOK /\ SnapshotTypeOK

(* A set of records a store may hold: each is stored under its own identity,  *)
(* no provenance identity is used twice, every reference is resolved inside   *)
(* the set, and the derivation has no cycle.                                  *)
LineageOK(recs) ==
    /\ \A s \in DOMAIN recs : recs[s].subject = s /\ ValidRecord(recs[s])
    /\ \A s, r \in DOMAIN recs : recs[s].prov = recs[r].prov => s = r
    /\ \A s \in DOMAIN recs :
          /\ Elements(recs[s].inputs) \subseteq DOMAIN recs
          /\ \A p \in Elements(recs[s].parents) :
                \E r \in DOMAIN recs : recs[r].prov = p
    /\ WellFounded(DOMAIN recs, GraphOf(recs).parents)

(* Lineage: what is stored never dangles and never cycles, in the store and in *)
(* what a restart would load.  insert_validated rejects dangling references    *)
(* and draws arcs only into a new node; would_create_cycle guards each arc.    *)
Lineage == LineageOK(records) /\ LineageOK(saved.records)

(* The structures kept beside the records agree with them: the graph drawn arc *)
(* by arc in both directions, prov_to_state_ and the secondary indexes.  In    *)
(* particular graph.nodes = DOMAIN records: no insertion stopped half way at a *)
(* refused arc and left a node behind.                                         *)
DerivedStructuresAgree ==
    /\ graph = GraphOf(records)
    /\ provToState = ProvIndex(records)
    /\ byAttr = AttrIndex(records)

(* by_validity_ and status_ are moved by different statements of publish,     *)
(* invalidate and restore; a query of the index answers what the overlay says.*)
ValidityIndexAgrees ==
    /\ DOMAIN status = DOMAIN records
    /\ byValidity = ValidityIndex(records, status)

(* A record invalidated because of another one really derives from it, that   *)
(* one is still invalid, and so is every record on a path between them: the    *)
(* causal chain the store reports is never broken by a later operation.        *)
CausalChainUnbroken ==
    \A s \in DOMAIN status :
        LET c == status[s].cause
        IN  c # 0 => /\ status[s].validity = "INVALIDATED"
                     /\ c = s \/ c \in Ancestors(graph, s)
                     /\ \A x \in {c} \cup (Descendants(graph, c) \cap Ancestors(graph, s)) :
                           status[x].validity = "INVALIDATED"

(* How bad a verdict is: a refusal of the environment can be lifted by another *)
(* request, a stale or invalidated derivation by none.                        *)
Severity(verdict) ==
    CASE verdict = "ELIGIBLE" -> 0
      [] verdict \in {"INCOMPATIBLE", "INCOMPLETE_PROVENANCE", "UNKNOWN"} -> 1
      [] verdict = "STALE" -> 2
      [] verdict = "INVALIDATED" -> 3

(* While the process lives, the verdict on a stored subject never becomes      *)
(* milder, for any request, whatever is published below, above or beside it:   *)
(* check_reuse combines a frozen record, an overlay that is only ever          *)
(* invalidated and ancestors that are fixed when the record is inserted.       *)
VerdictsOnlyWorsen ==
    [][\/ Recover
       \/ \A s \in DOMAIN records, request \in Requests :
             Severity(CheckReuse(s, request)) <= Severity(CheckReuse(s, request)')]_vars

(* A verdict that blames the environment, or none, is given only to a subject  *)
(* whose whole derivation is sound, published after an invalidation or before, *)
(* when the overlay still calls the subject itself VALID.  A subject of        *)
(* unknown validity is called unknown whatever its ancestors.                  *)
UnsoundLineageIsNamed ==
    \A s \in DOMAIN records, request \in Requests :
        (\E a \in {s} \cup Ancestors(graph, s) : status[a].validity \in {"STALE", "INVALIDATED"})
            => \/ Severity(CheckReuse(s, request)) >= 2
               \/ status[s].validity = "UNKNOWN"

(* A claim of an epoch that had been rolled over when the call began is never *)
(* admitted: evaluate_claim reads without the lock, but the epoch only grows   *)
(* while the process lives.                                                    *)
RolledEpochNeverAdmitted ==
    \A t \in Threads :
        Admitted(t) => calls[t].claim.epoch >= calls[t].entered

(* A call during which nothing writes the authority is admitted only if every *)
(* dimension of its claim is current: the comparisons of evaluate_claim leave  *)
(* none out, and an authority restored from a snapshot fences like any other.  *)
SteadyCallIsFenced ==
    \A t \in Threads :
        Admitted(t) /\ calls[t].steady => Accepts(authority, calls[t].claim)

----------------------------------------------------------------------------
(* Promises of the documentation that the code does not keep; each is the one *)
(* property of a run in which TLC finds it violated.                          *)

CommitsInto(t) ==
    /\ Admitted(t)
    /\ calls'[t] = Idle
    /\ calls[t].data.subject \in DOMAIN records' \ DOMAIN records

(* README.md, "Distributed Authority": old work never becomes current after   *)
(* an epoch roll, worker restart or generation rollover.  publish reads the   *)
(* authority before it takes the lock under which it inserts.                 *)
CommittedWorkIsCurrent ==
    [][\A t \in Threads :
          CommitsInto(t) => Accepts(authority, calls[t].claim)]_vars

(* The same promise across a restart of the coordinator from a snapshot: a    *)
(* claim of an epoch that has been rolled over is refused from then on.       *)
(* restore sets the epoch of the snapshot, whatever was rolled since.         *)
FencedOutStaysOut ==
    [][\A c \in Claims :
          c.epoch < authority.epoch /\ DOMAIN saved.records # {}
             => Stale(authority, c, "CoordinatorEpoch")']_vars

(* compat.hpp: empty request fields mean "not constraining", so a field that   *)
(* is set constrains.  evaluate_reuse does not compare the dependency          *)
(* generation nor the identity of the composition.                             *)
EveryFieldConstrains ==
    \A s \in DOMAIN records, request \in Requests :
        CheckReuse(s, request) = "ELIGIBLE" =>
            \A dim \in DOMAIN request :
                dim \in DOMAIN records[s].env /\ records[s].env[dim] = request[dim]
=============================================================================

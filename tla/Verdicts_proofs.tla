-------------------------- MODULE Verdicts_proofs --------------------------
(***************************************************************************)
(* Theorems about what the store says of a derivation: the cause it names  *)
(* for an invalidation and the verdicts of check_reuse, for every set of   *)
(* identities, candidate records, requests and threads.                    *)
(*                                                                         *)
(* They rest on StoreInv, and on one fact more about each step: the graph  *)
(* only grows below, so the ancestors of a stored record never change      *)
(* while the process lives.                                                *)
(*                                                                         *)
(* The same facts about closures show, at the end, that the store           *)
(* implements the ledger: under the mapping of StoreRefinesLedger           *)
(*                                                                         *)
(*     Publish, FenceCommit   append an entry                              *)
(*     Invalidate             condemns what derives from the subject       *)
(*     SaveSnapshot           takes a checkpoint                           *)
(*     Recover                restarts from it                             *)
(*     all others             stutter                                      *)
(***************************************************************************)
EXTENDS StoreRefinesLedger, ProvenanceStore_proofs

----------------------------------------------------------------------------
(* The closures Ancestors and Descendants are made of, in any graph, finite   *)
(* or not: a closure is the least closed set, and each proof names the closed *)
(* set it is compared with.                                                   *)

(* The neighbours of a node are nodes. *)
Adjacency(adjacent) == \A x \in DOMAIN adjacent : adjacent[x] \subseteq DOMAIN adjacent

(* forth and back hold the same arcs, one from each end. *)
BothEnds(forth, back) ==
    /\ DOMAIN forth = DOMAIN back
    /\ Adjacency(forth)
    /\ Adjacency(back)
    /\ \A x, y \in DOMAIN forth : y \in forth[x] <=> x \in back[y]

(* wide has the nodes of adjacent, with the same neighbours, and perhaps more. *)
Extension(wide, adjacent) ==
    /\ Adjacency(adjacent)
    /\ DOMAIN adjacent \subseteq DOMAIN wide
    /\ \A x \in DOMAIN adjacent : wide[x] = adjacent[x]

----------------------------------------------------------------------------
(* A closure is contained in every closed set that holds the neighbours. *)
LEMMA ClosureLeast ==
    ASSUME NEW adjacent, NEW n, NEW S \in SUBSET DOMAIN adjacent,
           adjacent[n] \subseteq S, ClosedUnder(adjacent, S)
    PROVE  Closure(adjacent, n) \subseteq S
  BY DEF Closure

(* It holds the neighbours themselves. *)
LEMMA ClosureDirect ==
    ASSUME NEW adjacent, NEW n, NEW m \in adjacent[n], m \in DOMAIN adjacent
    PROVE  m \in Closure(adjacent, n)
  BY DEF Closure

(* It is transitive: what is reached from a node that is reached is reached. *)
LEMMA ClosureTransitive ==
    ASSUME NEW adjacent, NEW n,
           NEW m \in Closure(adjacent, n), NEW k \in Closure(adjacent, m)
    PROVE  k \in Closure(adjacent, n)
<1> SUFFICES ASSUME NEW S \in SUBSET DOMAIN adjacent,
                    adjacent[n] \subseteq S, ClosedUnder(adjacent, S)
             PROVE  k \in S
  BY DEF Closure
<1>1. m \in S
  BY DEF Closure
<1>2. adjacent[m] \subseteq S
  BY <1>1 DEF ClosedUnder
<1> QED
  BY <1>2 DEF Closure

(* What one end of an arc reaches forth reaches it back: the set of the nodes *)
(* from which n is reached back is closed under forth.                        *)
LEMMA ClosureReversed ==
    ASSUME NEW forth, NEW back, BothEnds(forth, back),
           NEW n \in DOMAIN forth, NEW m \in Closure(forth, n)
    PROVE  n \in Closure(back, m)
<1> DEFINE S == {x \in DOMAIN forth : n \in Closure(back, x)}
<1>1. forth[n] \subseteq S
  <2> SUFFICES ASSUME NEW x \in forth[n] PROVE x \in DOMAIN forth /\ n \in Closure(back, x)
    OBVIOUS
  <2>1. x \in DOMAIN forth /\ n \in back[x]
    BY DEF BothEnds, Adjacency
  <2> QED
    BY <2>1, ClosureDirect DEF BothEnds
<1>2. ASSUME NEW x \in S, NEW y \in forth[x]
      PROVE  y \in S
  <2>1. y \in DOMAIN forth /\ x \in back[y] /\ x \in DOMAIN back
    BY DEF BothEnds, Adjacency
  <2>2. x \in Closure(back, y)
    BY <2>1, ClosureDirect
  <2>3. n \in Closure(back, y)
    BY <2>2, ClosureTransitive
  <2> QED
    BY <2>1, <2>3
<1>3. ClosedUnder(forth, S)
  BY <1>2 DEF ClosedUnder
<1>4. Closure(forth, n) \subseteq S
  <2> HIDE DEF S
  <2>1. S \subseteq DOMAIN forth
    BY DEF S
  <2> QED
    BY <1>1, <1>3, <2>1, ClosureLeast
<1> QED
  BY <1>4

(* Nodes added beside the old ones change no closure of an old one. *)
LEMMA ClosureExtended ==
    ASSUME NEW wide, NEW adjacent, Extension(wide, adjacent), NEW n \in DOMAIN adjacent
    PROVE  Closure(wide, n) = Closure(adjacent, n)
<1>1. Closure(wide, n) \subseteq Closure(adjacent, n)
  <2> DEFINE S == Closure(adjacent, n)
  <2>1. S \subseteq DOMAIN adjacent
    BY DEF Closure
  <2>2. wide[n] \subseteq S
    BY ClosureDirect DEF Extension, Adjacency
  <2>3. ASSUME NEW x \in S, NEW y \in wide[x] PROVE y \in S
    <3>1. y \in adjacent[x] /\ y \in DOMAIN adjacent
      BY <2>1 DEF Extension, Adjacency
    <3>2. y \in Closure(adjacent, x)
      BY <3>1, ClosureDirect
    <3> QED
      BY <3>2, ClosureTransitive
  <2>4. ClosedUnder(wide, S)
    BY <2>3 DEF ClosedUnder
  <2> HIDE DEF S
  <2>5. Closure(wide, n) \subseteq S
    BY <2>1, <2>2, <2>4, ClosureLeast DEF Extension
  <2> QED
    BY <2>5 DEF S
<1>2. ASSUME NEW m \in Closure(adjacent, n)
      PROVE  m \in Closure(wide, n)
  <2> SUFFICES ASSUME NEW S \in SUBSET DOMAIN wide, wide[n] \subseteq S, ClosedUnder(wide, S)
               PROVE  m \in S
    BY DEF Closure, Extension
  <2>1. adjacent[n] \subseteq S \cap DOMAIN adjacent
    BY DEF Extension, Adjacency
  <2>2. ClosedUnder(adjacent, S \cap DOMAIN adjacent)
    BY DEF ClosedUnder, Extension, Adjacency
  <2>3. S \cap DOMAIN adjacent \in SUBSET DOMAIN adjacent
    OBVIOUS
  <2> QED
    BY <2>1, <2>2, <2>3 DEF Closure
<1> QED
  BY <1>1, <1>2

----------------------------------------------------------------------------
(* The invariant *)

(* CausalChainUnbroken of an overlay st and a graph g.  A restart brings back *)
(* the overlay of the snapshot, so the snapshot must satisfy it as well.      *)
CausalOK(st, g) ==
    \A s \in DOMAIN st :
        LET c == st[s].cause
        IN  c # 0 => /\ st[s].validity = "INVALIDATED"
                     /\ c = s \/ c \in Ancestors(g, s)
                     /\ \A x \in {c} \cup (Descendants(g, c) \cap Ancestors(g, s)) :
                           st[x].validity = "INVALIDATED"

CausalInv ==
    /\ StoreInv
    /\ CausalOK(status, graph)
    /\ CausalOK(saved.status, GraphOf(saved.records))

----------------------------------------------------------------------------
(* The graph of a lineage. *)

(* graph.hpp keeps the arcs twice, and the two are inverse to each other. *)
LEMMA GraphHasBothEnds ==
    ASSUME NEW recs, LineageOK(recs)
    PROVE  /\ BothEnds(GraphOf(recs).parents, GraphOf(recs).children)
           /\ BothEnds(GraphOf(recs).children, GraphOf(recs).parents)
           /\ DOMAIN GraphOf(recs).parents = DOMAIN recs
           /\ DOMAIN GraphOf(recs).children = DOMAIN recs
           /\ GraphOf(recs).nodes = DOMAIN recs
<1>1. \A s \in DOMAIN recs : RecordParents(recs, recs[s]) \subseteq DOMAIN recs
  BY ParentsAreStored
<1> QED
  BY <1>1 DEF GraphOf, BothEnds, Adjacency

(* derives_from read from either end: one record is an ancestor of another    *)
(* exactly when that one is its descendant.                                   *)
LEMMA AncestorsAndDescendants ==
    ASSUME NEW recs, LineageOK(recs), NEW a, NEW s
    PROVE  a \in Ancestors(GraphOf(recs), s) <=> s \in Descendants(GraphOf(recs), a)
<1> DEFINE g == GraphOf(recs)
<1>1. /\ BothEnds(g.parents, g.children)
      /\ BothEnds(g.children, g.parents)
      /\ DOMAIN g.parents = g.nodes /\ DOMAIN g.children = g.nodes
  BY GraphHasBothEnds
<1> HIDE DEF g
<1>2. ASSUME a \in Ancestors(g, s) PROVE s \in Descendants(g, a)
  <2>1. s \in g.nodes /\ a \in Closure(g.parents, s)
    BY <1>2 DEF Ancestors
  <2>2. a \in g.nodes
    BY <1>1, <2>1 DEF Closure
  <2> QED
    BY <1>1, <2>1, <2>2, ClosureReversed DEF Descendants
<1>3. ASSUME s \in Descendants(g, a) PROVE a \in Ancestors(g, s)
  <2>1. a \in g.nodes /\ s \in Closure(g.children, a)
    BY <1>3 DEF Descendants
  <2>2. s \in g.nodes
    BY <1>1, <2>1 DEF Closure
  <2> QED
    BY <1>1, <2>1, <2>2, ClosureReversed DEF Ancestors
<1> QED
  BY <1>2, <1>3 DEF g

(* What derives from a record is stored. *)
LEMMA RelativesAreStored ==
    ASSUME NEW recs, LineageOK(recs), NEW s
    PROVE  /\ Ancestors(GraphOf(recs), s) \subseteq DOMAIN recs
           /\ Descendants(GraphOf(recs), s) \subseteq DOMAIN recs
  BY GraphHasBothEnds DEF Ancestors, Descendants, Closure

(* An insertion gives no stored record a new ancestor. *)
LEMMA InsertKeepsAncestors ==
    ASSUME NEW recs, LineageOK(recs), NEW d, Fresh(recs, d), NEW s \in DOMAIN recs
    PROVE  Ancestors(GraphOf(With(recs, d.subject, d)), s) = Ancestors(GraphOf(recs), s)
<1> DEFINE new == With(recs, d.subject, d)
<1>1. /\ DOMAIN new = DOMAIN recs \cup {d.subject}
      /\ \A r \in DOMAIN recs : new[r] = recs[r]
  BY DEF With, Fresh
<1>2. \A r \in DOMAIN recs : RecordParents(new, recs[r]) = RecordParents(recs, recs[r])
  BY OldParentsKept
<1>3. \A r \in DOMAIN recs : RecordParents(recs, recs[r]) \subseteq DOMAIN recs
  BY ParentsAreStored
<1> HIDE DEF new
<1>4. Extension(GraphOf(new).parents, GraphOf(recs).parents)
  BY <1>1, <1>2, <1>3 DEF Extension, Adjacency, GraphOf
<1>5. Closure(GraphOf(new).parents, s) = Closure(GraphOf(recs).parents, s)
  <2>1. s \in DOMAIN GraphOf(recs).parents
    BY DEF GraphOf
  <2> QED
    BY <1>4, <2>1, ClosureExtended
<1>6. s \in GraphOf(new).nodes /\ s \in GraphOf(recs).nodes
  BY <1>1 DEF GraphOf
<1>7. Ancestors(GraphOf(new), s) = Ancestors(GraphOf(recs), s)
  BY <1>5, <1>6 DEF Ancestors
<1> QED
  BY <1>7 DEF new

----------------------------------------------------------------------------
(* The steps, as far as the lineage and the snapshot are concerned: a record  *)
(* is inserted, fenced or not; a subject is invalidated; a snapshot is saved  *)
(* or restored; nothing else writes either.                                   *)

Inserts ==
    \E d \in Candidates :
        ValidRecord(d) /\ Admissible(d) /\ Insert(d) /\ UNCHANGED saved

LEMMA LineageSteps ==
    ASSUME StoreInv, [Next]_vars
    PROVE  \/ Inserts
           \/ \E root \in StateIds : Invalidate(root)
           \/ SaveSnapshot
           \/ Recover
           \/ UNCHANGED <<lineageVars, saved>>
<1>1. ASSUME NEW d \in Candidates, Publish(d) PROVE Inserts
  BY <1>1 DEF Publish, Inserts
<1>2. ASSUME NEW t \in Threads, FenceEnter(t) \/ FencePass(t) \/ FenceReject(t)
      PROVE  UNCHANGED <<lineageVars, saved>>
  BY <1>2 DEF FenceEnter, FencePass, FenceReject
<1>3. ASSUME NEW t \in Threads, FenceCommit(t)
      PROVE  Inserts \/ UNCHANGED <<lineageVars, saved>>
  <2>1. /\ calls[t].data \in Candidates
        /\ ValidRecord(calls[t].data)
    <3>1. calls[t] \in CallType /\ calls[t].phase = "fencing"
      BY <1>3 DEF FenceCommit, Admitted, StoreInv, ControlTypeOK
    <3> QED
      BY <3>1 DEF CallType, Idle
  <2>2. CASE Admissible(calls[t].data)
    BY <1>3, <2>1, <2>2 DEF FenceCommit, Inserts
  <2>3. CASE ~ Admissible(calls[t].data)
    BY <1>3, <2>3 DEF FenceCommit
  <2> QED
    BY <2>2, <2>3
<1>4. ASSUME NEW new, ChangeAuthority(new)
      PROVE  UNCHANGED <<lineageVars, saved>>
  BY <1>4 DEF ChangeAuthority
<1>5. CASE RollEpoch
  BY <1>4, <1>5 DEF RollEpoch
<1>6. ASSUME NEW w \in Workers, NEW b \in Boots, RegisterBoot(w, b)
      PROVE  UNCHANGED <<lineageVars, saved>>
  BY <1>4, <1>6 DEF RegisterBoot
<1>7. ASSUME NEW id \in Generations, NEW generation \in Generations,
             BeginAttempt(id, generation)
      PROVE  UNCHANGED <<lineageVars, saved>>
  BY <1>4, <1>7 DEF BeginAttempt
<1>8. ASSUME NEW dim \in GenDims, NEW generation \in Generations,
             SetGeneration(dim, generation)
      PROVE  UNCHANGED <<lineageVars, saved>>
  BY <1>4, <1>8 DEF SetGeneration
<1>9. ASSUME NEW generation \in Generations, SetRuntimeGeneration(generation)
      PROVE  UNCHANGED <<lineageVars, saved>>
  BY <1>9 DEF SetRuntimeGeneration
<1>10. CASE UNCHANGED vars
  BY <1>10 DEF vars
<1> QED
  BY <1>1, <1>2, <1>3, <1>5, <1>6, <1>7, <1>8, <1>9, <1>10 DEF Next

(* What an insertion does to what was stored before: nothing. *)
LEMMA InsertKeepsTheOld ==
    ASSUME StoreInv, Inserts
    PROVE  \E z :
              /\ z \notin DOMAIN records
              /\ DOMAIN records' = DOMAIN records \cup {z}
              /\ DOMAIN status' = DOMAIN status \cup {z}
              /\ status'[z].cause = 0
              /\ \A s \in DOMAIN records :
                    /\ records'[s] = records[s]
                    /\ status'[s] = status[s]
                    /\ Ancestors(graph', s) = Ancestors(graph, s)
<1>1. PICK d \in Candidates : ValidRecord(d) /\ Admissible(d) /\ Insert(d)
  BY DEF Inserts
<1>2. LineageInv /\ Fresh(records, d)
  BY <1>1, AdmissibleIsFresh DEF StoreInv, LineageInv
<1>3. /\ records' = With(records, d.subject, d)
      /\ status' = With(status, d.subject, InitialStatus(d))
      /\ graph' = GraphOf(records')
  BY <1>1, <1>2, InsertCompletes
<1>4. graph = GraphOf(records) /\ DOMAIN status = DOMAIN records /\ LineageOK(records)
  BY <1>2 DEF LineageInv, DerivedStructuresAgree, ValidityIndexAgrees
<1>5. \A s \in DOMAIN records : Ancestors(graph', s) = Ancestors(graph, s)
  BY <1>2, <1>3, <1>4, InsertKeepsAncestors
<1>6. d.subject \notin DOMAIN records
  BY <1>2 DEF Fresh
<1>7. /\ DOMAIN records' = DOMAIN records \cup {d.subject}
      /\ DOMAIN status' = DOMAIN status \cup {d.subject}
      /\ status'[d.subject].cause = 0
      /\ \A s \in DOMAIN records : records'[s] = records[s] /\ status'[s] = status[s]
  BY <1>3, <1>4, <1>6 DEF With, InitialStatus
<1> QED
  BY <1>5, <1>6, <1>7

(* What an invalidation does to the overlay. *)
LEMMA InvalidateRaises ==
    ASSUME StoreInv, NEW root \in StateIds, Invalidate(root)
    PROVE  /\ Affected(root) \subseteq DOMAIN status
           /\ DOMAIN status' = DOMAIN status
           /\ \A s \in Affected(root) :
                 status'[s] = [validity |-> "INVALIDATED", cause |-> root]
           /\ \A s \in DOMAIN status \ Affected(root) : status'[s] = status[s]
<1>1. /\ DOMAIN status = DOMAIN records
      /\ graph = GraphOf(records)
      /\ LineageOK(records)
  BY DEF StoreInv, LineageInv, ValidityIndexAgrees, DerivedStructuresAgree
<1>2. Affected(root) \subseteq DOMAIN records
  BY <1>1, RelativesAreStored DEF Invalidate, Affected
<1> QED
  BY <1>1, <1>2 DEF Invalidate

----------------------------------------------------------------------------
(* Causes *)

(* A record published below an invalidated one has no cause of its own, and   *)
(* lies on no path between two records that were there before.                *)
LEMMA InsertKeepsCauses ==
    ASSUME StoreInv, StoreInv', CausalOK(status, graph), Inserts
    PROVE  CausalOK(status', graph')
<1>1. PICK z :
         /\ z \notin DOMAIN records
         /\ DOMAIN status' = DOMAIN status \cup {z}
         /\ status'[z].cause = 0
         /\ \A s \in DOMAIN records :
               status'[s] = status[s] /\ Ancestors(graph', s) = Ancestors(graph, s)
  BY InsertKeepsTheOld
<1>2. /\ DOMAIN status = DOMAIN records
      /\ graph = GraphOf(records) /\ LineageOK(records)
      /\ graph' = GraphOf(records') /\ LineageOK(records')
  BY DEF StoreInv, LineageInv, ValidityIndexAgrees, DerivedStructuresAgree
<1> SUFFICES ASSUME NEW s \in DOMAIN status', status'[s].cause # 0
             PROVE  LET c == status'[s].cause
                    IN  /\ status'[s].validity = "INVALIDATED"
                        /\ c = s \/ c \in Ancestors(graph', s)
                        /\ \A x \in {c} \cup (Descendants(graph', c) \cap Ancestors(graph', s)) :
                              status'[x].validity = "INVALIDATED"
  BY DEF CausalOK
<1> DEFINE c == status[s].cause
<1>3. s \in DOMAIN records /\ status'[s] = status[s]
  BY <1>1, <1>2
<1>4. /\ status[s].validity = "INVALIDATED"
      /\ c = s \/ c \in Ancestors(graph, s)
      /\ \A x \in {c} \cup (Descendants(graph, c) \cap Ancestors(graph, s)) :
            status[x].validity = "INVALIDATED"
  BY <1>2, <1>3 DEF CausalOK
<1>5. Ancestors(graph', s) = Ancestors(graph, s) /\ Ancestors(graph, s) \subseteq DOMAIN records
  BY <1>1, <1>2, <1>3, RelativesAreStored
<1>6. ASSUME NEW x \in Descendants(graph', c) \cap Ancestors(graph', s)
      PROVE  x \in Descendants(graph, c) \cap Ancestors(graph, s)
  <2>1. x \in DOMAIN records /\ x \in Ancestors(graph, s)
    BY <1>5
  <2>2. c \in Ancestors(graph', x)
    BY <1>2, AncestorsAndDescendants
  <2>3. c \in Ancestors(graph, x)
    BY <1>1, <2>1, <2>2
  <2> QED
    BY <1>2, <2>1, <2>3, AncestorsAndDescendants
<1>7. c \in DOMAIN records
  BY <1>3, <1>4, <1>5
<1>8. ASSUME NEW x \in {c} \cup (Descendants(graph', c) \cap Ancestors(graph', s))
      PROVE  status'[x].validity = "INVALIDATED"
  <2>1. x \in {c} \cup (Descendants(graph, c) \cap Ancestors(graph, s))
    BY <1>6
  <2>2. x \in DOMAIN records
    BY <2>1, <1>5, <1>7
  <2> QED
    BY <2>1, <2>2, <1>1, <1>4
<1> QED
  BY <1>3, <1>4, <1>5, <1>8

(* An invalidation takes over the cause of what it reaches; a chain it does   *)
(* not reach keeps its links, some of which it may invalidate once more.      *)
LEMMA InvalidateKeepsCauses ==
    ASSUME StoreInv, CausalOK(status, graph), NEW root \in StateIds, Invalidate(root)
    PROVE  CausalOK(status', graph')
<1> DEFINE affected == Affected(root)
<1>1. /\ affected \subseteq DOMAIN status
      /\ DOMAIN status' = DOMAIN status
      /\ \A s \in affected : status'[s] = [validity |-> "INVALIDATED", cause |-> root]
      /\ \A s \in DOMAIN status \ affected : status'[s] = status[s]
  BY InvalidateRaises
<1>2. /\ DOMAIN status = DOMAIN records
      /\ graph = GraphOf(records) /\ LineageOK(records) /\ graph' = graph
  BY DEF StoreInv, LineageInv, ValidityIndexAgrees, DerivedStructuresAgree, Invalidate
<1>3. affected = {root} \cup Descendants(graph, root)
  BY DEF Affected
<1> HIDE DEF affected
<1> SUFFICES ASSUME NEW s \in DOMAIN status', status'[s].cause # 0
             PROVE  LET c == status'[s].cause
                    IN  /\ status'[s].validity = "INVALIDATED"
                        /\ c = s \/ c \in Ancestors(graph, s)
                        /\ \A x \in {c} \cup (Descendants(graph, c) \cap Ancestors(graph, s)) :
                              status'[x].validity = "INVALIDATED"
  BY <1>2 DEF CausalOK
<1>4. CASE s \in affected
  <2>1. status'[s].validity = "INVALIDATED" /\ status'[s].cause = root
    BY <1>1, <1>4
  <2>2. root = s \/ root \in Ancestors(graph, s)
    BY <1>2, <1>3, <1>4, AncestorsAndDescendants
  <2>3. \A x \in {root} \cup (Descendants(graph, root) \cap Ancestors(graph, s)) :
           status'[x].validity = "INVALIDATED"
    BY <1>1, <1>3
  <2> QED
    BY <2>1, <2>2, <2>3
<1>5. CASE s \notin affected
  <2> DEFINE c == status[s].cause
  <2>1. s \in DOMAIN status /\ status'[s] = status[s]
    BY <1>1, <1>5
  <2>2. /\ status[s].validity = "INVALIDATED"
        /\ c = s \/ c \in Ancestors(graph, s)
        /\ \A x \in {c} \cup (Descendants(graph, c) \cap Ancestors(graph, s)) :
              status[x].validity = "INVALIDATED"
    BY <2>1 DEF CausalOK
  <2>3. Ancestors(graph, s) \subseteq DOMAIN status
    BY <1>2, RelativesAreStored
  <2>4. \A x \in {c} \cup (Descendants(graph, c) \cap Ancestors(graph, s)) :
           x \in DOMAIN status /\ status'[x].validity = "INVALIDATED"
    BY <1>1, <2>1, <2>2, <2>3
  <2> QED
    BY <2>1, <2>2, <2>4
<1> QED
  BY <1>4, <1>5

(* Every operation of the store keeps each cause it has named true: a publish *)
(* because the new record is below all others, an invalidation because it     *)
(* reaches all that is between, a restart because the snapshot was as sound.  *)
THEOREM CausesPreserved == CausalInv /\ [Next]_vars => CausalInv'
<1> SUFFICES ASSUME CausalInv, [Next]_vars PROVE CausalInv'
  OBVIOUS
<1> USE DEF CausalInv
<1>1. StoreInv'
  BY NextPreserves
<1>2. CASE Inserts
  <2>1. CausalOK(status', graph')
    BY <1>1, <1>2, InsertKeepsCauses
  <2> QED
    BY <1>1, <1>2, <2>1 DEF Inserts
<1>3. ASSUME NEW root \in StateIds, Invalidate(root) PROVE CausalInv'
  <2>1. CausalOK(status', graph')
    BY <1>3, InvalidateKeepsCauses
  <2> QED
    BY <1>1, <1>3, <2>1 DEF Invalidate
<1>4. CASE SaveSnapshot
  <2>1. saved'.records = records /\ saved'.status = status
    BY <1>4 DEF SaveSnapshot, CurrentSnapshot
  <2>2. graph = GraphOf(records)
    BY DEF StoreInv, LineageInv, DerivedStructuresAgree
  <2> QED
    BY <1>1, <1>4, <2>1, <2>2 DEF SaveSnapshot, lineageVars
<1>5. CASE Recover
  BY <1>1, <1>5 DEF Recover
<1>6. CASE UNCHANGED <<lineageVars, saved>>
  BY <1>1, <1>6 DEF lineageVars
<1> QED
  BY <1>2, <1>3, <1>4, <1>5, <1>6, LineageSteps

(* The cause invalidation_cause reports is the subject itself or one of its   *)
(* ancestors, still invalid, with every record on a path between them: no     *)
(* publish, invalidate, save or restart breaks a causal chain.                *)
THEOREM CausesAreUnbroken == Spec => []CausalChainUnbroken
<1>1. Init => CausalInv
  <2> SUFFICES ASSUME Init PROVE CausalInv
    OBVIOUS
  <2>1. StoreInv
    BY InitEstablishes
  <2>2. CausalOK(status, graph) /\ CausalOK(saved.status, GraphOf(saved.records))
    BY DEF Init, CausalOK, EmptySnapshot, EmptyFunction
  <2> QED
    BY <2>1, <2>2 DEF CausalInv
<1>2. CausalInv => CausalChainUnbroken
  BY DEF CausalInv, CausalOK, CausalChainUnbroken
<1> QED
  BY <1>1, <1>2, CausesPreserved, PTL DEF Spec

----------------------------------------------------------------------------
(* Verdicts *)

Verdicts == {"ELIGIBLE", "INCOMPATIBLE", "INCOMPLETE_PROVENANCE", "UNKNOWN",
             "STALE", "INVALIDATED"}

(* The order of the verdicts is total, with INVALIDATED at its end. *)
LEMMA SeverityOrders ==
    ASSUME NEW verdict \in Verdicts
    PROVE  /\ Severity(verdict) \in 0..3
           /\ Severity(verdict) >= 2 <=> verdict \in {"STALE", "INVALIDATED"}
           /\ Severity(verdict) = 3 <=> verdict = "INVALIDATED"
  BY DEF Severity, Verdicts

(* evaluate_reuse answers with a verdict, and STALE or INVALIDATED for what   *)
(* was recorded as such.                                                      *)
LEMMA EvaluateTyped ==
    ASSUME NEW env, NEW validity \in Validities, NEW request
    PROVE  Evaluate(env, validity, request) \in Verdicts
<1>1. CASE validity \in {"INVALIDATED", "STALE"}
  BY <1>1 DEF Evaluate, Verdicts
<1>2. CASE validity \notin {"INVALIDATED", "STALE"}
  BY <1>2 DEF Evaluate, Verdicts
<1> QED
  BY <1>1, <1>2

(* check_reuse, read through what decides it: the record, the overlay entry   *)
(* of the subject, and whether an ancestor is invalid or stale.               *)
Combine(verdict, validity, invalid, stale) ==
    IF validity # "VALID" THEN validity
    ELSE IF invalid THEN "INVALIDATED"
    ELSE IF stale /\ verdict # "INVALIDATED" THEN "STALE"
    ELSE verdict

LEMMA CheckReuseCombines ==
    ASSUME NEW s \in DOMAIN records, s \in DOMAIN status, NEW request
    PROVE  CheckReuse(s, request)
             = Combine(Evaluate(records[s].env, records[s].validity, request),
                       status[s].validity,
                       AncestorIs(s, "INVALIDATED"), AncestorIs(s, "STALE"))
  BY DEF CheckReuse, Combine

(* Combine is monotone: an overlay entry that stays or becomes INVALIDATED,   *)
(* and ancestors that become worse, never make the verdict milder.            *)
LEMMA CombineIsMonotone ==
    ASSUME NEW verdict \in Verdicts,
           NEW old \in Validities, NEW new, new \in {old, "INVALIDATED"},
           NEW invalid \in BOOLEAN, NEW invalidNow \in BOOLEAN, invalid => invalidNow,
           NEW stale \in BOOLEAN, NEW staleNow \in BOOLEAN, stale => staleNow \/ invalidNow
    PROVE  Severity(Combine(verdict, old, invalid, stale))
             <= Severity(Combine(verdict, new, invalidNow, staleNow))
<1>1. Combine(verdict, old, invalid, stale) \in Verdicts
  BY DEF Combine, Verdicts, Validities
<1>2. Combine(verdict, new, invalidNow, staleNow) \in Verdicts
  BY DEF Combine, Verdicts, Validities
<1>3. CASE Combine(verdict, new, invalidNow, staleNow) = "INVALIDATED"
  BY <1>1, <1>3, SeverityOrders DEF Verdicts
<1>4. CASE new = old /\ old # "VALID"
  BY <1>1, <1>4, SeverityOrders DEF Combine
<1>5. CASE new = old /\ old = "VALID" /\ ~ invalidNow
  <2>1. CASE stale /\ verdict # "INVALIDATED"
    BY <1>1, <1>5, <2>1, SeverityOrders DEF Combine
  <2>2. CASE ~ stale /\ staleNow /\ verdict # "INVALIDATED"
    <3>1. /\ Combine(verdict, old, invalid, stale) = verdict
          /\ Combine(verdict, new, invalidNow, staleNow) = "STALE"
      BY <1>5, <2>2 DEF Combine
    <3>2. Severity("STALE") = 2
      BY DEF Severity
    <3>3. Severity(verdict) \in 0..3 /\ Severity(verdict) # 3
      BY <2>2, SeverityOrders
    <3> QED
      BY <3>1, <3>2, <3>3
  <2>3. CASE verdict = "INVALIDATED" \/ (~ stale /\ ~ staleNow)
    BY <1>1, <1>5, <2>3, SeverityOrders DEF Combine
  <2> QED
    BY <2>1, <2>2, <2>3
<1> QED
  BY <1>3, <1>4, <1>5 DEF Combine, Validities

(* What every state of the store offers the lemmas above. *)
LEMMA LineageFacts ==
    ASSUME StoreInv
    PROVE  /\ DOMAIN status = DOMAIN records
           /\ \A s \in DOMAIN records :
                 /\ records[s].validity \in Validities
                 /\ status[s].validity \in Validities
                 /\ Ancestors(graph, s) \subseteq DOMAIN status
<1>1. /\ DOMAIN status = DOMAIN records
      /\ graph = GraphOf(records) /\ LineageOK(records)
  BY DEF StoreInv, LineageInv, ValidityIndexAgrees, DerivedStructuresAgree
<1>2. \A s \in DOMAIN records : records[s].validity \in Validities
  BY StoreAssumption DEF StoreInv, LineageInv, LineageTypeOK, RecordData
<1>3. \A s \in DOMAIN records : status[s].validity \in Validities
  BY <1>1 DEF StoreInv, LineageInv, LineageTypeOK, StatusType
<1>4. \A s \in DOMAIN records : Ancestors(graph, s) \subseteq DOMAIN status
  BY <1>1, RelativesAreStored
<1> QED
  BY <1>1, <1>2, <1>3, <1>4

(* check_reuse decides by the overlay, then by the ancestors, before it looks *)
(* at the environment: no request gets a verdict that hides an unsound        *)
(* derivation.                                                                *)
THEOREM UnsoundnessIsNamed == Spec => []UnsoundLineageIsNamed
<1>1. StoreInv => UnsoundLineageIsNamed
  <2> SUFFICES ASSUME StoreInv,
                      NEW s \in DOMAIN records, NEW request \in Requests,
                      NEW a \in {s} \cup Ancestors(graph, s),
                      status[a].validity \in {"STALE", "INVALIDATED"},
                      status[s].validity # "UNKNOWN"
               PROVE  Severity(CheckReuse(s, request)) >= 2
    BY DEF UnsoundLineageIsNamed
  <2> DEFINE verdict == Evaluate(records[s].env, records[s].validity, request)
             combined == Combine(verdict, status[s].validity,
                                 AncestorIs(s, "INVALIDATED"), AncestorIs(s, "STALE"))
  <2>1. CheckReuse(s, request) = combined
    BY LineageFacts, CheckReuseCombines
  <2>2. status[s].validity \in Validities
    BY LineageFacts
  <2>3. a # s => AncestorIs(s, "INVALIDATED") \/ AncestorIs(s, "STALE")
    BY LineageFacts DEF AncestorIs
  <2>4. combined \in {"STALE", "INVALIDATED"}
    <3> HIDE DEF verdict
    <3> QED
      BY <2>2, <2>3 DEF Combine, Validities
  <2> QED
    BY <2>1, <2>4, SeverityOrders DEF Verdicts
<1> QED
  BY <1>1, StoreInvariant, PTL

(* A step other than a restart leaves each stored record and its ancestors as *)
(* they are, and changes an overlay entry only to INVALIDATED.                *)
LEMMA LivingStepsOnlyRaise ==
    ASSUME StoreInv, [Next]_vars, ~ Recover, NEW s \in DOMAIN records
    PROVE  /\ s \in DOMAIN records'
           /\ records'[s] = records[s]
           /\ status'[s].validity \in {status[s].validity, "INVALIDATED"}
           /\ Ancestors(graph', s) = Ancestors(graph, s)
<1>1. DOMAIN status = DOMAIN records
  BY LineageFacts
<1>2. CASE Inserts
  BY <1>2, InsertKeepsTheOld
<1>3. ASSUME NEW root \in StateIds, Invalidate(root)
      PROVE  /\ s \in DOMAIN records'
             /\ records'[s] = records[s]
             /\ status'[s].validity \in {status[s].validity, "INVALIDATED"}
             /\ Ancestors(graph', s) = Ancestors(graph, s)
  <2>1. status'[s].validity \in {status[s].validity, "INVALIDATED"}
    <3>1. CASE s \in Affected(root)
      <4>1. status'[s] = [validity |-> "INVALIDATED", cause |-> root]
        BY <1>3, <3>1, InvalidateRaises
      <4> QED
        BY <4>1
    <3>2. CASE s \notin Affected(root)
      BY <1>1, <1>3, <3>2, InvalidateRaises
    <3> QED
      BY <3>1, <3>2
  <2>2. records' = records /\ graph' = graph
    BY <1>3 DEF Invalidate
  <2> QED
    BY <2>1, <2>2
<1>4. CASE SaveSnapshot
  BY <1>4 DEF SaveSnapshot, lineageVars
<1>5. CASE UNCHANGED <<lineageVars, saved>>
  BY <1>5 DEF lineageVars
<1> QED
  BY <1>2, <1>3, <1>4, <1>5, LineageSteps

(* While the process lives no publish, fenced or not, no invalidation and no  *)
(* change of the authority makes the verdict on a stored subject milder, for  *)
(* any request: a refusal can be relied upon until the next restart.          *)
THEOREM VerdictsWorsen == Spec => VerdictsOnlyWorsen
<1>1. ASSUME StoreInv, StoreInv', [Next]_vars, ~ Recover,
             NEW s \in DOMAIN records, NEW request \in Requests
      PROVE  Severity(CheckReuse(s, request)) <= Severity(CheckReuse(s, request)')
  <2> DEFINE verdict == Evaluate(records[s].env, records[s].validity, request)
  <2>1. /\ s \in DOMAIN records' /\ records'[s] = records[s]
        /\ status'[s].validity \in {status[s].validity, "INVALIDATED"}
        /\ Ancestors(graph', s) = Ancestors(graph, s)
    BY <1>1, LivingStepsOnlyRaise
  <2>2. \A a \in Ancestors(graph, s) :
           status'[a].validity \in {status[a].validity, "INVALIDATED"}
    BY <1>1, LineageFacts, LivingStepsOnlyRaise
  <2>3. /\ s \in DOMAIN status /\ s \in DOMAIN status'
        /\ Ancestors(graph, s) \subseteq DOMAIN status
        /\ Ancestors(graph, s) \subseteq DOMAIN status'
    <3>1. DOMAIN status = DOMAIN records /\ DOMAIN status' = DOMAIN records'
      BY <1>1 DEF StoreInv, LineageInv, ValidityIndexAgrees
    <3>2. Ancestors(graph, s) \subseteq DOMAIN records
      BY <1>1, <3>1, LineageFacts
    <3>3. \A x \in DOMAIN records : x \in DOMAIN records'
      BY <1>1, LivingStepsOnlyRaise
    <3> QED
      BY <2>1, <3>1, <3>2, <3>3
  <2>4. CheckReuse(s, request)
          = Combine(verdict, status[s].validity,
                    AncestorIs(s, "INVALIDATED"), AncestorIs(s, "STALE"))
    BY <2>3, CheckReuseCombines
  <2>5. CheckReuse(s, request)'
          = Combine(verdict, status'[s].validity,
                    AncestorIs(s, "INVALIDATED")', AncestorIs(s, "STALE")')
    BY <2>1, <2>3 DEF CheckReuse, Combine
  <2>6. /\ AncestorIs(s, "INVALIDATED") => AncestorIs(s, "INVALIDATED")'
        /\ AncestorIs(s, "STALE") => AncestorIs(s, "STALE")' \/ AncestorIs(s, "INVALIDATED")'
    BY <2>1, <2>2, <2>3 DEF AncestorIs
  <2>7. /\ verdict \in Verdicts
        /\ status[s].validity \in Validities
    BY <1>1, LineageFacts, EvaluateTyped
  <2>8. /\ AncestorIs(s, "INVALIDATED") \in BOOLEAN /\ AncestorIs(s, "STALE") \in BOOLEAN
        /\ AncestorIs(s, "INVALIDATED")' \in BOOLEAN /\ AncestorIs(s, "STALE")' \in BOOLEAN
    BY DEF AncestorIs
  <2> HIDE DEF verdict
  <2>9. Severity(Combine(verdict, status[s].validity,
                         AncestorIs(s, "INVALIDATED"), AncestorIs(s, "STALE")))
          <= Severity(Combine(verdict, status'[s].validity,
                              AncestorIs(s, "INVALIDATED")', AncestorIs(s, "STALE")'))
    BY <2>1, <2>6, <2>7, <2>8, CombineIsMonotone
  <2> QED
    BY <2>4, <2>5, <2>9
<1>2. StoreInv /\ StoreInv' /\ [Next]_vars
        => [\/ Recover
            \/ \A s \in DOMAIN records, request \in Requests :
                  Severity(CheckReuse(s, request)) <= Severity(CheckReuse(s, request)')]_vars
  BY <1>1
<1> QED
  BY <1>2, StoreInvariant, PTL DEF Spec, VerdictsOnlyWorsen

----------------------------------------------------------------------------
(* The ledger *)

(* The mapped variables in a state whose graph is the one of its records. *)
EntriesOf(recs) == LedgerOf(recs, GraphOf(recs).parents)

Invalid(st) == {s \in DOMAIN st : st[s].validity = "INVALIDATED"}

LEMMA EntriesFacts ==
    ASSUME NEW recs
    PROVE  /\ DOMAIN EntriesOf(recs) = DOMAIN recs
           /\ \A s \in DOMAIN recs :
                 EntriesOf(recs)[s] = [content |-> recs[s],
                                       parents |-> RecordParents(recs, recs[s])]
  BY DEF EntriesOf, LedgerOf, GraphOf

LEMMA IndexedInvalid ==
    ASSUME NEW recs, NEW st
    PROVE  ValidityIndex(recs, st)["INVALIDATED"] = Invalid(st)
  BY DEF ValidityIndex, Validities, Invalid

(* The mapping, read through StoreInv. *)
LEMMA MappedState ==
    ASSUME StoreInv
    PROVE  /\ LedgerOf(records, graph.parents) = EntriesOf(records)
           /\ byValidity["INVALIDATED"] = Invalid(status)
<1>1. graph = GraphOf(records)
  BY DEF StoreInv, LineageInv, DerivedStructuresAgree
<1>2. byValidity = ValidityIndex(records, status)
  BY DEF StoreInv, LineageInv, ValidityIndexAgrees
<1> QED
  BY <1>1, <1>2, IndexedInvalid DEF EntriesOf

----------------------------------------------------------------------------
(* The ledger derives over the parents of its entries, the store propagates   *)
(* over the children of its graph; both reach the same records.               *)
LEMMA PropagationIsDerivation ==
    ASSUME NEW recs, LineageOK(recs), NEW root \in DOMAIN recs, NEW x \in DOMAIN recs
    PROVE  (\A S \in SUBSET DOMAIN recs :
               (/\ root \in S
                /\ \A e \in DOMAIN recs : RecordParents(recs, recs[e]) \cap S # {} => e \in S)
                   => x \in S)
             <=> x \in {root} \cup Descendants(GraphOf(recs), root)
<1> DEFINE chi == GraphOf(recs).children
           Holds(S) == /\ root \in S
                       /\ \A e \in DOMAIN recs :
                             RecordParents(recs, recs[e]) \cap S # {} => e \in S
<1>1. /\ DOMAIN chi = DOMAIN recs
      /\ \A s, e \in DOMAIN recs : e \in chi[s] <=> s \in RecordParents(recs, recs[e])
      /\ \A s \in DOMAIN recs : chi[s] \subseteq DOMAIN recs
      /\ Descendants(GraphOf(recs), root) = Closure(chi, root)
  BY DEF GraphOf, Descendants
<1> HIDE DEF chi
<1>2. ASSUME NEW S \in SUBSET DOMAIN recs, Holds(S),
             x \in {root} \cup Closure(chi, root)
      PROVE  x \in S
  <2>1. \A s \in S : chi[s] \subseteq S
    BY <1>1, <1>2
  <2>2. ClosedUnder(chi, S) /\ chi[root] \subseteq S
    BY <1>2, <2>1 DEF ClosedUnder
  <2>3. Closure(chi, root) \subseteq S
    BY <1>1, <2>2, ClosureLeast
  <2> QED
    BY <1>2, <2>3
<1>3. ASSUME \A S \in SUBSET DOMAIN recs : Holds(S) => x \in S
      PROVE  x \in {root} \cup Closure(chi, root)
  <2> DEFINE R == {root} \cup Closure(chi, root)
  <2>1. R \subseteq DOMAIN recs
    BY <1>1 DEF Closure
  <2>2. ASSUME NEW e \in DOMAIN recs, NEW p \in RecordParents(recs, recs[e]), p \in R
        PROVE  e \in R
    <3>1. p \in DOMAIN recs /\ e \in chi[p]
      BY <1>1, <2>1, <2>2
    <3>2. e \in Closure(chi, p)
      BY <1>1, <3>1, ClosureDirect
    <3>3. CASE p = root
      BY <3>2, <3>3
    <3>4. CASE p \in Closure(chi, root)
      BY <3>2, <3>4, ClosureTransitive
    <3> QED
      BY <2>2, <3>3, <3>4
  <2> HIDE DEF R
  <2>3. root \in R
    BY DEF R
  <2>4. Holds(R)
    BY <2>2, <2>3
  <2>5. x \in R
    BY <1>3, <2>1, <2>4
  <2> QED
    BY <2>5 DEF R
<1> QED
  BY <1>1, <1>2, <1>3

LEMMA LedgerDerives ==
    ASSUME StoreInv, NEW root \in DOMAIN records
    PROVE  {x \in DOMAIN records : Ledger!DerivesFrom(x, root)} = Affected(root)
<1>1. graph = GraphOf(records) /\ LineageOK(records)
  BY DEF StoreInv, LineageInv, DerivedStructuresAgree
<1>2. Affected(root) \subseteq DOMAIN records
  BY <1>1, RelativesAreStored DEF Affected
<1>3. ASSUME NEW x \in DOMAIN records
      PROVE  Ledger!DerivesFrom(x, root)
               <=> \A S \in SUBSET DOMAIN records :
                      (/\ root \in S
                       /\ \A e \in DOMAIN records :
                             RecordParents(records, records[e]) \cap S # {} => e \in S)
                          => x \in S
  <2>1. /\ DOMAIN LedgerOf(records, graph.parents) = DOMAIN records
        /\ \A e \in DOMAIN records :
              LedgerOf(records, graph.parents)[e].parents = RecordParents(records, records[e])
    <3>1. ASSUME NEW e \in DOMAIN records
          PROVE  EntriesOf(records)[e].parents = RecordParents(records, records[e])
      <4>1. EntriesOf(records)[e] = [content |-> records[e],
                                     parents |-> RecordParents(records, records[e])]
        BY EntriesFacts
      <4> QED
        BY <4>1
    <3> QED
      BY <3>1, MappedState, EntriesFacts
  <2> QED
    BY <2>1 DEF Ledger!DerivesFrom
<1>4. ASSUME NEW x \in DOMAIN records
      PROVE  Ledger!DerivesFrom(x, root) <=> x \in Affected(root)
  BY <1>1, <1>3, PropagationIsDerivation DEF Affected
<1> QED
  BY <1>2, <1>4

----------------------------------------------------------------------------
(* The steps *)

LEMMA StartsAsLedger == Init => Ledger!LedgerInit
<1> SUFFICES ASSUME Init PROVE Ledger!LedgerInit
  OBVIOUS
<1>1. LedgerOf(records, graph.parents) = [e \in {} |-> 0]
  BY DEF Init, EmptyFunction, LedgerOf
<1>2. byValidity["INVALIDATED"] = {}
  BY DEF Init, Validities
<1>3. LedgerOf(saved.records, GraphOf(saved.records).parents) = [e \in {} |-> 0]
  BY DEF Init, EmptySnapshot, EmptyFunction, LedgerOf
<1>4. {s \in DOMAIN saved.status : saved.status[s].validity = "INVALIDATED"} = {}
  BY DEF Init, EmptySnapshot, EmptyFunction
<1> QED
  BY <1>1, <1>2, <1>3, <1>4 DEF Ledger!LedgerInit

(* A publish appends one entry whose parents are entries already, condemned   *)
(* if the record says so of itself.                                           *)
LEMMA InsertAppends ==
    ASSUME StoreInv, StoreInv', Inserts
    PROVE  Ledger!LedgerNext
<1> DEFINE old == LedgerOf(records, graph.parents)
           new == LedgerOf(records', graph.parents')
<1>1. PICK d \in Candidates :
         ValidRecord(d) /\ Admissible(d) /\ Insert(d) /\ UNCHANGED saved
  BY DEF Inserts
<1> DEFINE e == d.subject
           parents == RecordParents(records', d)
<1>2. /\ records' = With(records, e, d)
      /\ status' = With(status, e, InitialStatus(d))
      /\ graph' = GraphOf(records')
  BY <1>1, InsertCompletes DEF StoreInv
<1>3. LineageOK(records) /\ Fresh(records, d) /\ DOMAIN status = DOMAIN records
  BY <1>1, AdmissibleIsFresh DEF StoreInv, LineageInv, ValidityIndexAgrees
<1>4. old = EntriesOf(records) /\ new = EntriesOf(records')
  BY MappedState, <1>2 DEF EntriesOf
<1>5. parents \subseteq DOMAIN records
  BY <1>2, <1>3, NewParents
<1>6. e \notin DOMAIN records /\ e \in StateIds
  BY <1>1, <1>3, StoreAssumption DEF Fresh, ValidRecord, RecordData
<1>7. new = [x \in DOMAIN old \cup {e} |->
                IF x = e THEN [content |-> d, parents |-> parents] ELSE old[x]]
  <2>1. DOMAIN old = DOMAIN records /\ DOMAIN records' = DOMAIN records \cup {e}
    BY <1>2, <1>4, EntriesFacts DEF With
  <2>2. ASSUME NEW x \in DOMAIN records'
        PROVE  [content |-> records'[x], parents |-> graph'.parents[x]]
                 = IF x = e THEN [content |-> d, parents |-> parents] ELSE old[x]
    <3>1. graph'.parents[x] = RecordParents(records', records'[x])
      BY <1>2 DEF GraphOf
    <3>2. CASE x = e
      BY <1>2, <3>1, <3>2 DEF With
    <3>3. CASE x # e
      <4>1. x \in DOMAIN records /\ records'[x] = records[x]
        BY <1>2, <2>1, <3>3 DEF With
      <4>2. RecordParents(records', records[x]) = RecordParents(records, records[x])
        BY <1>2, <1>3, <4>1, OldParentsKept
      <4>3. old[x] = [content |-> records[x],
                      parents |-> RecordParents(records, records[x])]
        BY <1>4, <4>1, EntriesFacts
      <4> QED
        BY <3>1, <3>3, <4>1, <4>2, <4>3
    <3> QED
      BY <3>2, <3>3
  <2> HIDE DEF old, parents, e
  <2> QED
    BY <2>1, <2>2 DEF LedgerOf
<1>8. byValidity["INVALIDATED"]' \in {byValidity["INVALIDATED"],
                                      byValidity["INVALIDATED"] \cup {e}}
  <2>1. /\ byValidity["INVALIDATED"] = Invalid(status)
        /\ byValidity'["INVALIDATED"] = Invalid(status')
    BY MappedState, IndexedInvalid DEF StoreInv, LineageInv, ValidityIndexAgrees
  <2>2. /\ DOMAIN status' = DOMAIN status \cup {e}
        /\ \A s \in DOMAIN status : status'[s] = status[s]
    BY <1>2, <1>3, <1>6 DEF With
  <2>3. Invalid(status') \in {Invalid(status), Invalid(status) \cup {e}}
    BY <1>3, <1>6, <2>2 DEF Invalid
  <2> QED
    BY <2>1, <2>3
<1>9. DOMAIN old = DOMAIN records
  BY <1>4, EntriesFacts
<1>10. parents \in SUBSET DOMAIN old
  BY <1>5, <1>9
<1>11. Ledger!Append(e, d, parents)
  BY <1>1, <1>6, <1>7, <1>8, <1>9, <1>10 DEF Ledger!Append
<1> HIDE DEF old, new, parents, e
<1> QED
  BY <1>1, <1>6, <1>10, <1>11 DEF Ledger!LedgerNext, old

(* An invalidation condemns what derives from its root, and nothing else. *)
LEMMA InvalidateCondemns ==
    ASSUME StoreInv, StoreInv', NEW root \in StateIds, Invalidate(root)
    PROVE  Ledger!LedgerNext
<1>1. /\ root \in DOMAIN records
      /\ byValidity' = Reindexed(Affected(root))
      /\ UNCHANGED <<records, graph, saved>>
  BY DEF Invalidate
<1>2. byValidity'["INVALIDATED"] = byValidity["INVALIDATED"] \cup Affected(root)
  BY <1>1 DEF Reindexed, Validities
<1>3. DOMAIN LedgerOf(records, graph.parents) = DOMAIN records
  BY DEF LedgerOf
<1>4. Affected(root) = {x \in DOMAIN records : Ledger!DerivesFrom(x, root)}
  BY <1>1, LedgerDerives
<1>5. Ledger!Condemn(root)
  BY <1>1, <1>2, <1>3, <1>4 DEF Ledger!Condemn
<1> QED
  BY <1>5 DEF Ledger!LedgerNext

(* A snapshot taken is a checkpoint of the ledger. *)
LEMMA SaveCheckpoints ==
    ASSUME StoreInv, SaveSnapshot
    PROVE  Ledger!LedgerNext
<1>1. /\ saved'.records = records /\ saved'.status = status
      /\ UNCHANGED <<records, graph, byValidity>>
  BY DEF SaveSnapshot, CurrentSnapshot, lineageVars
<1>2. /\ LedgerOf(records, graph.parents) = LedgerOf(records, GraphOf(records).parents)
      /\ byValidity["INVALIDATED"]
           = {s \in DOMAIN status : status[s].validity = "INVALIDATED"}
  BY MappedState DEF EntriesOf, Invalid
<1>3. Ledger!Checkpoint
  BY <1>1, <1>2 DEF Ledger!Checkpoint
<1> QED
  BY <1>3 DEF Ledger!LedgerNext

(* A restart brings back the checkpoint, graph and index included. *)
LEMMA RecoverRestarts ==
    ASSUME StoreInv, StoreInv', Recover
    PROVE  Ledger!LedgerNext
<1>1. /\ records' = saved.records /\ graph' = GraphOf(saved.records)
      /\ status' = saved.status /\ UNCHANGED saved
  BY DEF Recover
<1>2. byValidity'["INVALIDATED"] = Invalid(status')
  BY IndexedInvalid DEF StoreInv, LineageInv, ValidityIndexAgrees
<1>3. Ledger!Restart
  BY <1>1, <1>2 DEF Ledger!Restart, Invalid
<1> QED
  BY <1>3 DEF Ledger!LedgerNext

(* Every behaviour of the store is a behaviour of the ledger: publishing only *)
(* appends below existing entries and rewrites none, invalidating condemns    *)
(* exactly what derives from the subject, a restart goes back to the snapshot *)
(* as a whole, and no other call, nor a fenced publish in flight, shows.      *)
THEOREM StoreImplementsLedger == Spec => ImplementsLedger
<1>1. StoreInv /\ StoreInv' /\ [Next]_vars => [Ledger!LedgerNext]_(Ledger!ledgerVars)
  <2> SUFFICES ASSUME StoreInv, StoreInv', [Next]_vars
               PROVE  Ledger!LedgerNext \/ UNCHANGED Ledger!ledgerVars
    OBVIOUS
  <2>1. CASE UNCHANGED <<lineageVars, saved>>
    BY <2>1 DEF lineageVars, Ledger!ledgerVars
  <2> QED
    BY <2>1, LineageSteps, InsertAppends, InvalidateCondemns, SaveCheckpoints, RecoverRestarts
<1> QED
  BY <1>1, StartsAsLedger, StoreInvariant, PTL DEF Spec, ImplementsLedger, Ledger!LedgerSpec
=============================================================================

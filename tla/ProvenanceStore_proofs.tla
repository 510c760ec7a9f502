----------------------- MODULE ProvenanceStore_proofs -----------------------
(***************************************************************************)
(* Theorems about ProvenanceStore, for every set of identities, candidate  *)
(* records, claims and threads.                                            *)
(*                                                                         *)
(* None of the invariants is inductive alone: that an insertion types its  *)
(* arcs needs the lineage, that it draws every arc needs the graph to be   *)
(* the one of the records, and a restart needs all of that of the snapshot.*)
(* StoreInv conjoins them.                                                 *)
(*                                                                         *)
(* What the unlocked comparisons of evaluate_claim still guarantee follows *)
(* at the end, from FenceInv.                                              *)
(***************************************************************************)
EXTENDS ProvenanceStore, TLAPS

LineageInv ==
    /\ LineageTypeOK
    /\ LineageOK(records)
    /\ DerivedStructuresAgree
    /\ ValidityIndexAgrees

SnapshotInv ==
    /\ SnapshotTypeOK
    /\ LineageOK(saved.records)

StoreInv == LineageInv /\ SnapshotInv /\ ControlTypeOK

----------------------------------------------------------------------------
(* The provenance index of a well formed lineage inverts "has the provenance  *)
(* identity": prov_to_state_.at(p) is the one record published under p.       *)
LEMMA ProvIndexInverts ==
    ASSUME NEW recs, LineageOK(recs), NEW s \in DOMAIN recs
    PROVE  /\ recs[s].prov \in DOMAIN ProvIndex(recs)
           /\ ProvIndex(recs)[recs[s].prov] = s
<1>1. recs[s].prov \in DOMAIN ProvIndex(recs)
  BY DEF ProvIndex
<1>2. ProvIndex(recs)[recs[s].prov] = CHOOSE r \in DOMAIN recs : recs[r].prov = recs[s].prov
  BY DEF ProvIndex
<1>3. \A r \in DOMAIN recs : recs[r].prov = recs[s].prov => r = s
  BY DEF LineageOK
<1> QED
  BY <1>1, <1>2, <1>3

(* The parents of a stored record are stored. *)
LEMMA ParentsAreStored ==
    ASSUME NEW recs, LineageOK(recs), NEW s \in DOMAIN recs
    PROVE  RecordParents(recs, recs[s]) \subseteq DOMAIN recs
  BY DEF LineageOK, RecordParents

----------------------------------------------------------------------------
(* What insert_validated does with a record that passed its rejections: the   *)
(* assumptions of the lemmas below.  recs stands for the records before, d    *)
(* for the new one.                                                           *)

Fresh(recs, d) ==
    /\ ValidRecord(d)
    /\ d.subject \notin DOMAIN recs
    /\ d.prov \notin {recs[s].prov : s \in DOMAIN recs}
    /\ Elements(d.inputs) \subseteq DOMAIN recs
    /\ Elements(d.parents) \subseteq {recs[s].prov : s \in DOMAIN recs}

(* A new record changes the parents of no old one: its provenance identity    *)
(* was unknown, and an old record refers to known ones only.                  *)
LEMMA OldParentsKept ==
    ASSUME NEW recs, LineageOK(recs), NEW d, Fresh(recs, d), NEW s \in DOMAIN recs
    PROVE  RecordParents(With(recs, d.subject, d), recs[s]) = RecordParents(recs, recs[s])
<1> DEFINE new == With(recs, d.subject, d)
<1>1. DOMAIN new = DOMAIN recs \cup {d.subject}
  BY DEF With
<1>2. \A r \in DOMAIN recs : new[r] = recs[r]
  BY DEF With, Fresh
<1>3. new[d.subject] = d
  BY DEF With
<1>4. d.prov \notin Elements(recs[s].parents)
  BY DEF Fresh, LineageOK
<1>5. RecordParents(new, recs[s]) = RecordParents(recs, recs[s])
  <2> HIDE DEF new
  <2> QED
    BY <1>1, <1>2, <1>3, <1>4 DEF RecordParents, Fresh
<1> QED
  BY <1>5

(* The parents of the new record are the states its references resolve to     *)
(* through prov_to_state_.                                                    *)
LEMMA NewParents ==
    ASSUME NEW recs, LineageOK(recs), NEW d, Fresh(recs, d)
    PROVE  /\ RecordParents(With(recs, d.subject, d), d)
                = Elements(d.inputs) \cup {ProvIndex(recs)[p] : p \in Elements(d.parents)}
           /\ RecordParents(With(recs, d.subject, d), d) \subseteq DOMAIN recs
<1> DEFINE new == With(recs, d.subject, d)
<1>1. DOMAIN new = DOMAIN recs \cup {d.subject}
  BY DEF With
<1>2. \A r \in DOMAIN recs : new[r] = recs[r]
  BY DEF With, Fresh
<1>3. new[d.subject] = d
  BY DEF With
<1>4. d.prov \notin Elements(d.parents)
  BY DEF Fresh, ValidRecord
<1>5. \A r \in DOMAIN recs : ProvIndex(recs)[recs[r].prov] = r
  BY ProvIndexInverts
<1>6. {s \in DOMAIN new : new[s].prov \in Elements(d.parents)}
         = {ProvIndex(recs)[p] : p \in Elements(d.parents)}
  <2> HIDE DEF new
  <2>1. ASSUME NEW s \in DOMAIN new, new[s].prov \in Elements(d.parents)
        PROVE  \E p \in Elements(d.parents) : s = ProvIndex(recs)[p]
    BY <2>1, <1>1, <1>2, <1>3, <1>4, <1>5
  <2>2. ASSUME NEW p \in Elements(d.parents)
        PROVE  /\ ProvIndex(recs)[p] \in DOMAIN new
               /\ new[ProvIndex(recs)[p]].prov \in Elements(d.parents)
    <3>1. PICK r \in DOMAIN recs : recs[r].prov = p
      BY DEF Fresh
    <3> QED
      BY <3>1, <1>1, <1>2, <1>5
  <2> QED
    BY <2>1, <2>2
<1>7. \A p \in Elements(d.parents) : ProvIndex(recs)[p] \in DOMAIN recs
  BY <1>5 DEF Fresh
<1>8. RecordParents(new, d) = Elements(d.inputs) \cup {ProvIndex(recs)[p] : p \in Elements(d.parents)}
  <2> HIDE DEF new
  <2> QED
    BY <1>6 DEF RecordParents
<1> QED
  BY <1>7, <1>8 DEF Fresh

(* Insertion keeps a lineage well formed.  Acyclicity: a new node is a parent *)
(* of no old one, so a set that holds old nodes has a minimal one among them.  *)
LEMMA InsertKeepsLineage ==
    ASSUME NEW recs, LineageOK(recs), NEW d, Fresh(recs, d)
    PROVE  LineageOK(With(recs, d.subject, d))
<1> DEFINE new == With(recs, d.subject, d)
<1>1. DOMAIN new = DOMAIN recs \cup {d.subject}
  BY DEF With
<1>2. \A r \in DOMAIN recs : new[r] = recs[r]
  BY DEF With, Fresh
<1>3. new[d.subject] = d
  BY DEF With
<1>4. \A s \in DOMAIN recs : RecordParents(new, recs[s]) = RecordParents(recs, recs[s])
  BY OldParentsKept
<1>5. RecordParents(new, d) \subseteq DOMAIN recs
  BY NewParents
<1>6. d.subject \notin DOMAIN recs
  BY DEF Fresh
<1> HIDE DEF new
<1>7. \A s \in DOMAIN new : new[s].subject = s /\ ValidRecord(new[s])
  BY <1>1, <1>2, <1>3 DEF LineageOK, Fresh
<1>8. \A s, r \in DOMAIN new : new[s].prov = new[r].prov => s = r
  BY <1>1, <1>2, <1>3 DEF LineageOK, Fresh
<1>9. \A s \in DOMAIN new :
         /\ Elements(new[s].inputs) \subseteq DOMAIN new
         /\ \A p \in Elements(new[s].parents) : \E r \in DOMAIN new : new[r].prov = p
  BY <1>1, <1>2, <1>3 DEF LineageOK, Fresh
<1>10. WellFounded(DOMAIN new, GraphOf(new).parents)
  <2> DEFINE par == GraphOf(new).parents
  <2>1. \A s \in DOMAIN new : par[s] = RecordParents(new, new[s])
    BY DEF GraphOf
  <2>2. \A s \in DOMAIN recs : par[s] = GraphOf(recs).parents[s]
    BY <2>1, <1>1, <1>2, <1>4 DEF GraphOf
  <2>3. \A s \in DOMAIN new : par[s] \subseteq DOMAIN recs
    BY <2>1, <1>1, <1>2, <1>3, <1>4, <1>5, ParentsAreStored
  <2> HIDE DEF par
  <2> SUFFICES ASSUME NEW S \in SUBSET DOMAIN new, S # {}
               PROVE  \E s \in S : par[s] \cap S = {}
    BY DEF WellFounded, par
  <2>4. CASE S \cap DOMAIN recs # {}
    <3>1. PICK s \in S \cap DOMAIN recs :
                 GraphOf(recs).parents[s] \cap (S \cap DOMAIN recs) = {}
      BY <2>4 DEF LineageOK, WellFounded
    <3>2. par[s] \cap S = {}
      BY <3>1, <2>2, <2>3, <1>1
    <3> QED
      BY <3>1, <3>2
  <2>5. CASE S \cap DOMAIN recs = {}
    <3>1. \A s \in S : par[s] \cap S = {}
      BY <2>5, <2>3
    <3> QED
      BY <3>1
  <2> QED
    BY <2>4, <2>5
<1>11. LineageOK(new)
  BY <1>7, <1>8, <1>9, <1>10 DEF LineageOK
<1> QED
  BY <1>11 DEF new

(* add_arc refuses no arc of an insertion: the parents are nodes, the child is *)
(* not, and a node just added reaches nothing.                                *)
LEMMA NoArcRefused ==
    ASSUME NEW recs, LineageOK(recs), NEW d, Fresh(recs, d),
           DOMAIN recs \subseteq Nat \ {0},
           NEW ps \in SUBSET DOMAIN recs
    PROVE  RefusedParents(AddNode(GraphOf(recs), d.subject), ps, d.subject) = {}
<1> DEFINE child == d.subject
           g == AddNode(GraphOf(recs), child)
<1>1. child \notin DOMAIN recs /\ child # 0
  BY DEF Fresh, ValidRecord
<1>2. /\ g.nodes = DOMAIN recs \cup {child}
      /\ g.children = [x \in DOMAIN recs \cup {child} |->
                          IF x = child THEN {} ELSE GraphOf(recs).children[x]]
  BY <1>1 DEF AddNode, GraphOf
<1>3. \A x \in DOMAIN recs : g.children[x] \subseteq DOMAIN recs
  <2>1. \A x \in DOMAIN recs : GraphOf(recs).children[x] \subseteq DOMAIN recs
    BY DEF GraphOf
  <2> HIDE DEF g
  <2> QED
    BY <2>1, <1>1, <1>2
<1>4. g.children[child] = {}
  BY <1>2
<1>5. DOMAIN g.children = DOMAIN recs \cup {child}
  BY <1>2
<1> HIDE DEF g
<1>6. Descendants(g, child) = {}
  <2>1. ClosedUnder(g.children, {})
    BY DEF ClosedUnder
  <2>2. Closure(g.children, child) = {}
    BY <2>1, <1>4 DEF Closure
  <2> QED
    BY <2>2 DEF Descendants
<1>7. \A p \in ps : ~ ArcRefused(g, p, child)
  BY <1>1, <1>2, <1>3, <1>6 DEF ArcRefused, WouldCreateCycle
<1>8. RefusedParents(g, ps, child) = {}
  BY <1>7 DEF RefusedParents
<1> QED
  BY <1>8 DEF g

(* The graph the arcs of an insertion draw is the graph of the records.        *)
LEMMA InsertDrawsGraph ==
    ASSUME NEW recs, LineageOK(recs), NEW d, Fresh(recs, d),
           DOMAIN recs \subseteq Nat \ {0},
           NEW ps, ps = RecordParents(With(recs, d.subject, d), d)
    PROVE  LinkParents(AddNode(GraphOf(recs), d.subject), ps, d.subject)
             = GraphOf(With(recs, d.subject, d))
<1> DEFINE child == d.subject
           new == With(recs, child, d)
           g == AddNode(GraphOf(recs), child)
<1>1. child \notin DOMAIN recs
  BY DEF Fresh
<1>2. /\ DOMAIN new = DOMAIN recs \cup {child}
      /\ \A r \in DOMAIN recs : new[r] = recs[r]
      /\ new[child] = d
  BY <1>1 DEF With
<1>3. \A s \in DOMAIN recs : RecordParents(new, recs[s]) = RecordParents(recs, recs[s])
  BY OldParentsKept
<1>4. ps \subseteq DOMAIN recs
  BY NewParents
<1>5. LinkedParents(g, ps, child) = ps
  BY <1>4, NoArcRefused DEF LinkedParents
<1>6. /\ g.nodes = DOMAIN recs \cup {child}
      /\ g.parents = [x \in DOMAIN recs \cup {child} |->
                          IF x = child THEN {} ELSE RecordParents(recs, recs[x])]
      /\ g.children = [x \in DOMAIN recs \cup {child} |->
                          IF x = child THEN {}
                          ELSE {c \in DOMAIN recs : x \in RecordParents(recs, recs[c])}]
  BY <1>1 DEF AddNode, GraphOf
<1> HIDE DEF new, g
<1>7. [x \in g.nodes |-> IF x = child THEN g.parents[x] \cup ps ELSE g.parents[x]]
        = [s \in DOMAIN new |-> RecordParents(new, new[s])]
  <2>1. RecordParents(new, new[child]) = ps
    BY <1>2 DEF new
  <2>2. \A s \in DOMAIN recs : RecordParents(new, new[s]) = RecordParents(recs, recs[s])
    BY <1>2, <1>3
  <2>3. ASSUME NEW x \in DOMAIN new
        PROVE  (IF x = child THEN g.parents[x] \cup ps ELSE g.parents[x])
                 = RecordParents(new, new[x])
    BY <2>1, <2>2, <1>1, <1>2, <1>6
  <2> QED
    BY <2>3, <1>2, <1>6
<1>8. ASSUME NEW x \in DOMAIN new
      PROVE  (IF x \in ps THEN g.children[x] \cup {child} ELSE g.children[x])
               = {c \in DOMAIN new : x \in RecordParents(new, new[c])}
  <2>1. RecordParents(new, new[child]) = ps
    BY <1>2 DEF new
  <2>2. \A c \in DOMAIN recs : RecordParents(new, new[c]) = RecordParents(recs, recs[c])
    BY <1>2, <1>3
  <2>3. \A c \in DOMAIN recs : RecordParents(recs, recs[c]) \subseteq DOMAIN recs
    BY ParentsAreStored
  <2>4. CASE x = child
    BY <2>1, <2>2, <2>3, <2>4, <1>1, <1>2, <1>4, <1>6
  <2>5. CASE x \in DOMAIN recs
    BY <2>1, <2>2, <2>5, <1>1, <1>2, <1>6
  <2> QED
    BY <2>4, <2>5, <1>2
<1>9. [x \in g.nodes |-> IF x \in ps THEN g.children[x] \cup {child} ELSE g.children[x]]
        = [s \in DOMAIN new |-> {c \in DOMAIN new : s \in RecordParents(new, new[c])}]
  BY <1>2, <1>6, <1>8
<1>10. LinkParents(g, ps, child) = GraphOf(new)
  BY <1>2, <1>5, <1>6, <1>7, <1>9 DEF LinkParents, GraphOf
<1> QED
  BY <1>10 DEF new, g

(* The indexes grow by the one record inserted. *)
LEMMA InsertExtendsProvIndex ==
    ASSUME NEW recs, LineageOK(recs), NEW d, Fresh(recs, d)
    PROVE  ProvIndex(With(recs, d.subject, d)) = With(ProvIndex(recs), d.prov, d.subject)
<1> DEFINE new == With(recs, d.subject, d)
<1>1. /\ DOMAIN new = DOMAIN recs \cup {d.subject}
      /\ \A r \in DOMAIN recs : new[r] = recs[r]
      /\ new[d.subject] = d
  BY DEF With, Fresh
<1>2. LineageOK(new)
  BY InsertKeepsLineage
<1> HIDE DEF new
<1>3. {new[s].prov : s \in DOMAIN new} = {recs[s].prov : s \in DOMAIN recs} \cup {d.prov}
  BY <1>1
<1>4. \A s \in DOMAIN new : ProvIndex(new)[new[s].prov] = s
  BY <1>2, ProvIndexInverts
<1>5. \A s \in DOMAIN recs : ProvIndex(recs)[recs[s].prov] = s
  BY ProvIndexInverts
<1>6. DOMAIN ProvIndex(new) = DOMAIN ProvIndex(recs) \cup {d.prov}
  BY <1>3 DEF ProvIndex
<1>7. ASSUME NEW p \in DOMAIN ProvIndex(new)
      PROVE  ProvIndex(new)[p] = With(ProvIndex(recs), d.prov, d.subject)[p]
  <2>1. CASE p = d.prov
    BY <2>1, <1>1, <1>4 DEF With
  <2>2. CASE p # d.prov
    <3>1. PICK s \in DOMAIN recs : recs[s].prov = p
      BY <2>2, <1>6 DEF ProvIndex
    <3>2. ProvIndex(new)[p] = s /\ ProvIndex(recs)[p] = s
      BY <3>1, <1>1, <1>4, <1>5
    <3> QED
      BY <3>2, <2>2, <1>6 DEF With
  <2> QED
    BY <2>1, <2>2
<1>8. ProvIndex(new) = [p \in DOMAIN ProvIndex(new) |-> ProvIndex(new)[p]]
  BY DEF ProvIndex
<1>9. ProvIndex(new) = With(ProvIndex(recs), d.prov, d.subject)
  BY <1>6, <1>7, <1>8 DEF With
<1> QED
  BY <1>9 DEF new

(* An insertion adds the subject to the secondary indexes of its own attributes. *)
LEMMA InsertExtendsAttrIndex ==
    ASSUME NEW recs, NEW d, d.subject \notin DOMAIN recs
    PROVE  AttrIndex(With(recs, d.subject, d))
             = [a \in Attrs |-> IF a \in d.attrs THEN AttrIndex(recs)[a] \cup {d.subject}
                                                 ELSE AttrIndex(recs)[a]]
<1> DEFINE new == With(recs, d.subject, d)
<1>1. /\ DOMAIN new = DOMAIN recs \cup {d.subject}
      /\ \A r \in DOMAIN recs : new[r] = recs[r]
      /\ new[d.subject] = d
  BY DEF With
<1> HIDE DEF new
<1>2. ASSUME NEW a \in Attrs
      PROVE  {s \in DOMAIN new : a \in new[s].attrs}
               = IF a \in d.attrs THEN AttrIndex(recs)[a] \cup {d.subject}
                                  ELSE AttrIndex(recs)[a]
  <2>1. AttrIndex(recs)[a] = {s \in DOMAIN recs : a \in recs[s].attrs}
    BY DEF AttrIndex
  <2> QED
    BY <1>1, <2>1
<1> QED
  BY <1>2 DEF AttrIndex, new

(* An insertion lists the subject under its initial validity and nowhere else. *)
LEMMA InsertExtendsValidityIndex ==
    ASSUME NEW recs, NEW st, DOMAIN st = DOMAIN recs,
           NEW d, d.subject \notin DOMAIN recs, d.validity \in Validities
    PROVE  ValidityIndex(With(recs, d.subject, d), With(st, d.subject, InitialStatus(d)))
             = [ValidityIndex(recs, st) EXCEPT ![d.validity] = @ \cup {d.subject}]
<1> DEFINE new == With(recs, d.subject, d)
           newSt == With(st, d.subject, InitialStatus(d))
<1>1. DOMAIN newSt = DOMAIN new /\ DOMAIN newSt = DOMAIN st \cup {d.subject}
  BY DEF With
<1>2. /\ \A s \in DOMAIN st : newSt[s] = st[s]
      /\ newSt[d.subject].validity = d.validity
  BY DEF With, InitialStatus
<1>3. ValidityIndex(recs, st) = [v \in Validities |-> {s \in DOMAIN st : st[s].validity = v}]
  BY DEF ValidityIndex
<1> HIDE DEF new, newSt
<1>4. ValidityIndex(new, newSt)
        = [v \in Validities |-> {s \in DOMAIN newSt : newSt[s].validity = v}]
  BY <1>1 DEF ValidityIndex
<1>5. ASSUME NEW v \in Validities
      PROVE  {s \in DOMAIN newSt : newSt[s].validity = v}
               = IF v = d.validity
                 THEN {s \in DOMAIN st : st[s].validity = v} \cup {d.subject}
                 ELSE {s \in DOMAIN st : st[s].validity = v}
  BY <1>1, <1>2
<1>6. ValidityIndex(new, newSt)
        = [ValidityIndex(recs, st) EXCEPT ![d.validity] = @ \cup {d.subject}]
  BY <1>3, <1>4, <1>5
<1> QED
  BY <1>6 DEF new, newSt

----------------------------------------------------------------------------
(* The steps that write the lineage. *)

(* The rejections of insert_validated, together with validate_record, are     *)
(* exactly what the lemmas above assume of the new record.                    *)
LEMMA AdmissibleIsFresh ==
    ASSUME DerivedStructuresAgree, NEW d, ValidRecord(d), Admissible(d)
    PROVE  Fresh(records, d)
<1>1. DOMAIN provToState = {records[s].prov : s \in DOMAIN records}
  BY DEF DerivedStructuresAgree, ProvIndex
<1> QED
  BY <1>1 DEF Fresh, Admissible

(* An insertion whose record passed the rejections completes - no arc of it is *)
(* refused - and every structure afterwards is the one of the new records.     *)
LEMMA InsertBuilds ==
    ASSUME LineageOK(records), DerivedStructuresAgree, ValidityIndexAgrees,
           DOMAIN records \subseteq StateIds,
           NEW d \in RecordData, ValidRecord(d), Admissible(d), Insert(d)
    PROVE  /\ records' = With(records, d.subject, d)
           /\ status' = With(status, d.subject, InitialStatus(d))
           /\ workers' = workers \cup NamedWorkers(d)
           /\ graph' = GraphOf(records')
           /\ provToState' = ProvIndex(records')
           /\ byAttr' = AttrIndex(records')
           /\ byValidity' = ValidityIndex(records', status')
<1>1. Fresh(records, d)
  BY AdmissibleIsFresh
<1>2. LineageOK(records) /\ graph = GraphOf(records) /\ provToState = ProvIndex(records)
      /\ byAttr = AttrIndex(records) /\ DOMAIN status = DOMAIN records
      /\ byValidity = ValidityIndex(records, status)
  BY DEF DerivedStructuresAgree, ValidityIndexAgrees
<1>3. DOMAIN records \subseteq Nat \ {0}
  BY StoreAssumption
<1>4. /\ ParentStates(d) = RecordParents(With(records, d.subject, d), d)
      /\ ParentStates(d) \subseteq DOMAIN records
  BY <1>1, <1>2, NewParents DEF ParentStates
<1>5. RefusedParents(AddNode(graph, d.subject), ParentStates(d), d.subject) = {}
  BY <1>1, <1>2, <1>3, <1>4, NoArcRefused
<1>6. /\ records' = With(records, d.subject, d)
      /\ status' = With(status, d.subject, InitialStatus(d))
      /\ workers' = workers \cup NamedWorkers(d)
      /\ graph' = LinkParents(AddNode(graph, d.subject), ParentStates(d), d.subject)
      /\ provToState' = With(provToState, d.prov, d.subject)
      /\ byValidity' = [byValidity EXCEPT ![d.validity] = @ \cup {d.subject}]
      /\ byAttr' = [a \in Attrs |-> IF a \in d.attrs THEN byAttr[a] \cup {d.subject}
                                                     ELSE byAttr[a]]
  BY <1>5 DEF Insert
<1>7. graph' = GraphOf(records')
  BY <1>1, <1>2, <1>3, <1>4, <1>6, InsertDrawsGraph
<1>8. provToState' = ProvIndex(records')
  BY <1>1, <1>2, <1>6, InsertExtendsProvIndex
<1>9. d.subject \notin DOMAIN records /\ d.validity \in Validities
  BY DEF Admissible, RecordData
<1>10. byAttr' = AttrIndex(records')
  BY <1>2, <1>6, <1>9, InsertExtendsAttrIndex
<1>11. byValidity' = ValidityIndex(records', status')
  <2>1. ValidityIndex(With(records, d.subject, d), With(status, d.subject, InitialStatus(d)))
          = [ValidityIndex(records, status) EXCEPT ![d.validity] = @ \cup {d.subject}]
    BY <1>2, <1>9, InsertExtendsValidityIndex
  <2> QED
    BY <2>1, <1>2, <1>6
<1> QED
  BY <1>6, <1>7, <1>8, <1>10, <1>11

LEMMA InsertCompletes ==
    ASSUME LineageInv, NEW d \in Candidates, ValidRecord(d), Admissible(d), Insert(d)
    PROVE  /\ records' = With(records, d.subject, d)
           /\ status' = With(status, d.subject, InitialStatus(d))
           /\ workers' = workers \cup NamedWorkers(d)
           /\ graph' = GraphOf(records')
           /\ provToState' = ProvIndex(records')
           /\ byAttr' = AttrIndex(records')
           /\ byValidity' = ValidityIndex(records', status')
  BY InsertBuilds, StoreAssumption DEF LineageInv, LineageTypeOK

(* The structures derived from a well formed lineage are well typed. *)
LEMMA DerivedStructuresTyped ==
    ASSUME NEW recs, LineageOK(recs), DOMAIN recs \subseteq StateIds,
           \A s \in DOMAIN recs : recs[s] \in Candidates,
           NEW st, DOMAIN st = DOMAIN recs
    PROVE  /\ DOMAIN ProvIndex(recs) \subseteq ProvIds
           /\ \A p \in DOMAIN ProvIndex(recs) : ProvIndex(recs)[p] \in StateIds
           /\ GraphOf(recs).nodes \subseteq StateIds
           /\ GraphOf(recs).parents \in [GraphOf(recs).nodes -> SUBSET StateIds]
           /\ GraphOf(recs).children \in [GraphOf(recs).nodes -> SUBSET StateIds]
           /\ AttrIndex(recs) \in [Attrs -> SUBSET StateIds]
           /\ ValidityIndex(recs, st) \in [Validities -> SUBSET StateIds]
<1>1. \A s \in DOMAIN recs : recs[s].prov \in ProvIds
  BY StoreAssumption DEF RecordData, LineageOK, ValidRecord
<1>2. \A s \in DOMAIN recs : ProvIndex(recs)[recs[s].prov] = s
  BY ProvIndexInverts
<1>3. DOMAIN ProvIndex(recs) = {recs[s].prov : s \in DOMAIN recs}
  BY DEF ProvIndex
<1>4. \A s \in DOMAIN recs : RecordParents(recs, recs[s]) \subseteq StateIds
  BY ParentsAreStored
<1>5. /\ GraphOf(recs).nodes \subseteq StateIds
      /\ GraphOf(recs).parents \in [GraphOf(recs).nodes -> SUBSET StateIds]
      /\ GraphOf(recs).children \in [GraphOf(recs).nodes -> SUBSET StateIds]
  BY <1>4 DEF GraphOf
<1>6. AttrIndex(recs) \in [Attrs -> SUBSET StateIds]
  BY DEF AttrIndex
<1>7. ValidityIndex(recs, st) \in [Validities -> SUBSET StateIds]
  BY DEF ValidityIndex
<1> QED
  BY <1>1, <1>2, <1>3, <1>5, <1>6, <1>7

(* An insertion into a safe lineage leaves it safe, and the indexes exact. *)
LEMMA InsertPreserves ==
    ASSUME LineageInv, NEW d \in Candidates, ValidRecord(d), Admissible(d), Insert(d)
    PROVE  LineageInv'
<1>1. Fresh(records, d)
  BY AdmissibleIsFresh DEF LineageInv
<1>2. LineageOK(records')
  BY <1>1, InsertCompletes, InsertKeepsLineage DEF LineageInv
<1>3. /\ DerivedStructuresAgree'
      /\ ValidityIndexAgrees'
  BY InsertCompletes DEF DerivedStructuresAgree, ValidityIndexAgrees, LineageInv, With
<1>4. d \in RecordData /\ d.subject \in StateIds
  BY StoreAssumption DEF RecordData, ValidRecord
<1>5. /\ DOMAIN records' = DOMAIN records \cup {d.subject}
      /\ DOMAIN status' = DOMAIN status \cup {d.subject}
      /\ \A s \in DOMAIN records' : records'[s] \in Candidates
      /\ \A s \in DOMAIN status' : status'[s] \in StatusType
  <2>1. InitialStatus(d) \in StatusType
    BY <1>4 DEF InitialStatus, StatusType, RecordData
  <2>2. records' = With(records, d.subject, d)
        /\ status' = With(status, d.subject, InitialStatus(d))
    BY InsertCompletes
  <2> QED
    BY <2>1, <2>2 DEF With, LineageInv, LineageTypeOK
<1>6. workers' \subseteq Workers
  BY <1>4, InsertCompletes DEF NamedWorkers, RecordData, LineageInv, LineageTypeOK
<1>7. DOMAIN records' \subseteq StateIds /\ DOMAIN status' = DOMAIN records'
  BY <1>4, <1>5 DEF LineageInv, LineageTypeOK, ValidityIndexAgrees
<1>8. LineageTypeOK'
  BY <1>2, <1>5, <1>6, <1>7, InsertCompletes, DerivedStructuresTyped DEF LineageTypeOK
<1> QED
  BY <1>2, <1>3, <1>8 DEF LineageInv

(* An invalidation moves what it affects from one validity to another. *)
LEMMA InvalidatePreserves ==
    ASSUME LineageInv, NEW root \in StateIds, Invalidate(root)
    PROVE  LineageInv'
<1> DEFINE affected == Affected(root)
<1>1. /\ DOMAIN status = DOMAIN records
      /\ byValidity = [v \in Validities |-> {s \in DOMAIN status : status[s].validity = v}]
      /\ graph.nodes = DOMAIN records
      /\ DOMAIN graph.children = DOMAIN records
  BY DEF LineageInv, ValidityIndexAgrees, ValidityIndex, DerivedStructuresAgree, GraphOf
<1>2. affected \subseteq DOMAIN records
  BY <1>1 DEF Invalidate, Affected, Descendants, Closure
<1>3. /\ DOMAIN status' = DOMAIN status
      /\ \A s \in affected : status'[s] = [validity |-> "INVALIDATED", cause |-> root]
      /\ \A s \in DOMAIN status \ affected : status'[s] = status[s]
  BY <1>1, <1>2 DEF Invalidate
<1>4. byValidity' = [v \in Validities |->
                        IF v = "INVALIDATED"
                        THEN byValidity[v] \cup affected
                        ELSE {s \in byValidity[v] :
                                 ~ (s \in affected /\ status[s].validity = v)}]
  BY DEF Invalidate, Reindexed
<1>5. records' = records /\ provToState' = provToState /\ graph' = graph
      /\ byAttr' = byAttr /\ workers' = workers
  BY DEF Invalidate
<1> HIDE DEF affected
<1>6. ValidityIndexAgrees'
  <2>1. ValidityIndex(records', status')
          = [v \in Validities |-> {s \in DOMAIN status' : status'[s].validity = v}]
    BY <1>1, <1>3, <1>5 DEF ValidityIndex
  <2>2. ASSUME NEW v \in Validities
        PROVE  {s \in DOMAIN status' : status'[s].validity = v} = byValidity'[v]
    <3>1. CASE v = "INVALIDATED"
      BY <3>1, <1>1, <1>2, <1>3, <1>4
    <3>2. CASE v # "INVALIDATED"
      BY <3>2, <1>1, <1>2, <1>3, <1>4
    <3> QED
      BY <3>1, <3>2
  <2>3. byValidity' = [v \in Validities |-> byValidity'[v]]
    BY <1>4
  <2> QED
    BY <2>1, <2>2, <2>3, <1>1, <1>3, <1>5 DEF ValidityIndexAgrees
<1>7. \A s \in DOMAIN status' : status'[s] \in StatusType
  BY <1>3 DEF LineageInv, LineageTypeOK, StatusType, Validities
<1>8. byValidity' \in [Validities -> SUBSET StateIds]
  BY <1>1, <1>2, <1>4 DEF LineageInv, LineageTypeOK
<1>9. LineageTypeOK'
  BY <1>3, <1>5, <1>7, <1>8 DEF LineageInv, LineageTypeOK
<1> QED
  BY <1>5, <1>6, <1>9 DEF LineageInv, DerivedStructuresAgree

(* A restart rebuilds from the snapshot what the snapshot was taken of. *)
LEMMA RecoverPreserves ==
    ASSUME SnapshotInv, Recover
    PROVE  LineageInv'
<1>1. LineageOK(saved.records) /\ DOMAIN saved.status = DOMAIN saved.records
  BY DEF SnapshotInv, SnapshotTypeOK
<1>2. DerivedStructuresAgree' /\ ValidityIndexAgrees'
  BY <1>1 DEF Recover, DerivedStructuresAgree, ValidityIndexAgrees
<1>3. \A s \in DOMAIN saved.records : NamedWorkers(saved.records[s]) \subseteq Workers
  BY StoreAssumption DEF SnapshotInv, SnapshotTypeOK, NamedWorkers, RecordData
<1>4. workers' \subseteq Workers
  BY <1>3 DEF Recover, SnapshotInv, SnapshotTypeOK, AuthorityOK
<1>5. LineageTypeOK'
  BY <1>1, <1>4, DerivedStructuresTyped
     DEF Recover, LineageTypeOK, SnapshotInv, SnapshotTypeOK
<1> QED
  BY <1>1, <1>2, <1>5 DEF LineageInv, Recover

(* Steps that leave the lineage alone. *)
LEMMA LineageUnchanged ==
    ASSUME LineageInv, UNCHANGED lineageVars
    PROVE  LineageInv'
  BY DEF LineageInv, lineageVars, LineageTypeOK, DerivedStructuresAgree,
         ValidityIndexAgrees

(* Steps that leave the snapshot alone. *)
LEMMA SnapshotUnchanged ==
    ASSUME SnapshotInv, UNCHANGED saved
    PROVE  SnapshotInv'
  BY DEF SnapshotInv, SnapshotTypeOK

(* A snapshot of a good store restores a good store. *)
LEMMA SavePreserves ==
    ASSUME LineageInv, ControlTypeOK, SaveSnapshot
    PROVE  SnapshotInv'
<1>1. PICK known \in SUBSET Workers :
         authority \in [epoch : Nat, boot : [known -> Boots], gen : [GenDims -> Nat]]
  BY DEF ControlTypeOK, AuthorityOK
<1>2. saved'.authority \in [epoch : Nat, boot : [workers \cap known -> Boots],
                            gen : [GenDims -> Nat]]
  BY <1>1 DEF SaveSnapshot, CurrentSnapshot
<1>3. AuthorityOK(saved'.authority)
  BY <1>1, <1>2 DEF AuthorityOK
<1>4. saved'.records = records /\ saved'.status = status
  BY DEF SaveSnapshot, CurrentSnapshot
<1> QED
  BY <1>3, <1>4 DEF SnapshotInv, SnapshotTypeOK, LineageInv, LineageTypeOK,
                    ValidityIndexAgrees

----------------------------------------------------------------------------
(* Authority and calls. *)
LEMMA AuthorityTyped ==
    ASSUME AuthorityOK(authority)
    PROVE  /\ AuthorityOK(NextEpoch(authority))
           /\ \A w \in Workers, b \in Boots : AuthorityOK(WithBoot(authority, w, b))
           /\ \A id, generation \in Generations :
                 AuthorityOK(WithAttempt(authority, id, generation))
           /\ \A dim \in GenDims, generation \in Generations :
                 AuthorityOK(WithGeneration(authority, dim, generation))
<1>1. PICK known \in SUBSET Workers :
         authority \in [epoch : Nat, boot : [known -> Boots], gen : [GenDims -> Nat]]
  BY DEF AuthorityOK
<1>2. AuthorityOK(NextEpoch(authority))
  BY <1>1 DEF AuthorityOK, NextEpoch
<1>3. ASSUME NEW w \in Workers, NEW b \in Boots
      PROVE  AuthorityOK(WithBoot(authority, w, b))
  <2>1. WithBoot(authority, w, b)
          \in [epoch : Nat, boot : [known \cup {w} -> Boots], gen : [GenDims -> Nat]]
    BY <1>1 DEF WithBoot
  <2>2. known \cup {w} \in SUBSET Workers
    OBVIOUS
  <2> QED
    BY <2>1, <2>2 DEF AuthorityOK
<1>4. ASSUME NEW id \in Generations, NEW generation \in Generations
      PROVE  AuthorityOK(WithAttempt(authority, id, generation))
  BY <1>1, StoreAssumption DEF AuthorityOK, WithAttempt
<1>5. ASSUME NEW dim \in GenDims, NEW generation \in Generations
      PROVE  AuthorityOK(WithGeneration(authority, dim, generation))
  BY <1>1, StoreAssumption DEF AuthorityOK, WithGeneration
<1> QED
  BY <1>2, <1>3, <1>4, <1>5

(* A claim constrains fence dimensions only. *)
LEMMA ConstrainedTyped ==
    ASSUME NEW c
    PROVE  Constrained(c) \subseteq FenceDims
  BY DEF Constrained, FenceDims, GenDims

(* A disturbed call is a call. *)
LEMMA DisturbedTyped ==
    ASSUME NEW call \in CallType
    PROVE  Disturbed(call) \in CallType
<1>1. CASE call = Idle
  BY <1>1 DEF Disturbed, Idle, CallType
<1>2. CASE call # Idle
  BY <1>2 DEF Disturbed, CallType
<1> QED
  BY <1>1, <1>2

(* A setter leaves the authority and the calls well typed. *)
LEMMA ChangeAuthorityTyped ==
    ASSUME ControlTypeOK, NEW new, AuthorityOK(new), ChangeAuthority(new)
    PROVE  ControlTypeOK'
  BY DisturbedTyped DEF ControlTypeOK, ChangeAuthority

----------------------------------------------------------------------------
(* A store that was just constructed is sound. *)
THEOREM InitEstablishes == Init => StoreInv
<1> SUFFICES ASSUME Init PROVE StoreInv
  OBVIOUS
<1>1. LineageOK(EmptyFunction)
  BY DEF LineageOK, EmptyFunction, WellFounded
<1>2. AuthorityOK(InitialAuthority)
  BY DEF AuthorityOK, InitialAuthority
<1>3. DerivedStructuresAgree
  BY DEF Init, DerivedStructuresAgree, EmptyFunction, EmptyGraph, GraphOf, ProvIndex, AttrIndex
<1>4. ValidityIndexAgrees
  BY DEF Init, ValidityIndexAgrees, ValidityIndex, EmptyFunction
<1>5. LineageTypeOK
  BY DEF Init, LineageTypeOK, EmptyFunction, EmptyGraph
<1>6. SnapshotInv
  BY <1>1, <1>2 DEF Init, SnapshotInv, SnapshotTypeOK, EmptySnapshot, EmptyFunction
<1>7. ControlTypeOK
  BY <1>2 DEF Init, ControlTypeOK, CallType
<1> QED
  BY <1>1, <1>3, <1>4, <1>5, <1>6, <1>7 DEF StoreInv, LineageInv, Init

(* Every operation of the store keeps it sound: both publishes, an insertion  *)
(* cut short by a refused arc, invalidation, the setters, a snapshot and a    *)
(* restart from the last one.                                                 *)
THEOREM NextPreserves == StoreInv /\ [Next]_vars => StoreInv'
<1> SUFFICES ASSUME StoreInv, [Next]_vars PROVE StoreInv'
  OBVIOUS
<1> USE DEF StoreInv
<1>1. ASSUME NEW d \in Candidates, Publish(d) PROVE StoreInv'
  <2>1. LineageInv'
    BY <1>1, InsertPreserves DEF Publish
  <2>2. SnapshotInv'
    BY <1>1, SnapshotUnchanged DEF Publish
  <2>3. ControlTypeOK'
    BY <1>1 DEF Publish, ControlTypeOK
  <2> QED
    BY <2>1, <2>2, <2>3
<1>2. ASSUME NEW t \in Threads, FenceEnter(t) PROVE StoreInv'
  <2>1. LineageInv' /\ SnapshotInv'
    BY <1>2, LineageUnchanged, SnapshotUnchanged DEF FenceEnter
  <2>2. PICK d \in Candidates, c \in Claims :
           /\ ValidRecord(d)
           /\ calls' = [calls EXCEPT ![t] =
                          [phase |-> "fencing", data |-> d, claim |-> c,
                           todo |-> Constrained(c), entered |-> authority.epoch,
                           steady |-> TRUE]]
    BY <1>2 DEF FenceEnter
  <2>3. [phase |-> "fencing", data |-> d, claim |-> c, todo |-> Constrained(c),
         entered |-> authority.epoch, steady |-> TRUE] \in CallType
    BY <2>2, ConstrainedTyped DEF CallType, ControlTypeOK, AuthorityOK
  <2>4. ControlTypeOK'
    BY <1>2, <2>2, <2>3 DEF ControlTypeOK, FenceEnter
  <2> QED
    BY <2>1, <2>4
<1>3. ASSUME NEW t \in Threads, FencePass(t) PROVE StoreInv'
  <2>1. LineageInv' /\ SnapshotInv'
    BY <1>3, LineageUnchanged, SnapshotUnchanged DEF FencePass
  <2>2. PICK dim \in FenceDims : calls' = [calls EXCEPT ![t].todo = @ \ {dim}]
    BY <1>3 DEF FencePass
  <2>3. calls[t] \in CallType /\ calls[t].phase = "fencing"
    BY <1>3 DEF FencePass, ControlTypeOK
  <2>4. [calls[t] EXCEPT !.todo = @ \ {dim}] \in CallType
    BY <2>3 DEF CallType, Idle
  <2>5. ControlTypeOK'
    BY <1>3, <2>2, <2>4 DEF ControlTypeOK, FencePass
  <2> QED
    BY <2>1, <2>5
<1>4. ASSUME NEW t \in Threads, FenceReject(t) PROVE StoreInv'
  <2>1. LineageInv' /\ SnapshotInv'
    BY <1>4, LineageUnchanged, SnapshotUnchanged DEF FenceReject
  <2>2. ControlTypeOK'
    BY <1>4 DEF ControlTypeOK, FenceReject, CallType
  <2> QED
    BY <2>1, <2>2
<1>5. ASSUME NEW t \in Threads, FenceCommit(t) PROVE StoreInv'
  <2>1. /\ calls[t].data \in Candidates
        /\ ValidRecord(calls[t].data)
    <3>1. calls[t] \in CallType /\ calls[t].phase = "fencing"
      BY <1>5 DEF FenceCommit, Admitted, ControlTypeOK
    <3> QED
      BY <3>1 DEF CallType, Idle
  <2>2. LineageInv'
    BY <1>5, <2>1, InsertPreserves, LineageUnchanged DEF FenceCommit
  <2>3. SnapshotInv'
    BY <1>5, SnapshotUnchanged DEF FenceCommit
  <2>4. ControlTypeOK'
    BY <1>5 DEF ControlTypeOK, FenceCommit, CallType
  <2> QED
    BY <2>2, <2>3, <2>4
<1>6. ASSUME NEW s \in StateIds, Invalidate(s) PROVE StoreInv'
  <2>1. LineageInv'
    BY <1>6, InvalidatePreserves
  <2>2. SnapshotInv'
    BY <1>6, SnapshotUnchanged DEF Invalidate
  <2>3. ControlTypeOK'
    BY <1>6 DEF Invalidate, ControlTypeOK
  <2> QED
    BY <2>1, <2>2, <2>3
<1>7. ASSUME NEW new, AuthorityOK(new), ChangeAuthority(new) PROVE StoreInv'
  <2>1. LineageInv' /\ SnapshotInv'
    BY <1>7, LineageUnchanged, SnapshotUnchanged DEF ChangeAuthority
  <2>2. ControlTypeOK'
    BY <1>7, ChangeAuthorityTyped
  <2> QED
    BY <2>1, <2>2
<1>8. AuthorityOK(authority)
  BY DEF ControlTypeOK
<1>9. CASE RollEpoch
  BY <1>7, <1>8, <1>9, AuthorityTyped DEF RollEpoch
<1>10. ASSUME NEW w \in Workers, NEW b \in Boots, RegisterBoot(w, b) PROVE StoreInv'
  BY <1>7, <1>8, <1>10, AuthorityTyped DEF RegisterBoot
<1>11. ASSUME NEW id \in Generations, NEW generation \in Generations,
              BeginAttempt(id, generation)
       PROVE  StoreInv'
  BY <1>7, <1>8, <1>11, AuthorityTyped DEF BeginAttempt
<1>12. ASSUME NEW dim \in GenDims, NEW generation \in Generations,
              SetGeneration(dim, generation)
       PROVE  StoreInv'
  BY <1>7, <1>8, <1>12, AuthorityTyped DEF SetGeneration
<1>13. ASSUME NEW generation \in Generations, SetRuntimeGeneration(generation)
       PROVE  StoreInv'
  <2>1. LineageInv' /\ SnapshotInv'
    BY <1>13, LineageUnchanged, SnapshotUnchanged DEF SetRuntimeGeneration
  <2>2. ControlTypeOK'
    BY <1>13, StoreAssumption, DisturbedTyped DEF SetRuntimeGeneration, ControlTypeOK
  <2> QED
    BY <2>1, <2>2
<1>14. CASE SaveSnapshot
  <2>1. LineageInv' /\ SnapshotInv'
    BY <1>14, LineageUnchanged, SavePreserves DEF SaveSnapshot
  <2>2. ControlTypeOK'
    BY <1>14 DEF SaveSnapshot, ControlTypeOK
  <2> QED
    BY <2>1, <2>2
<1>15. CASE Recover
  <2>1. LineageInv' /\ SnapshotInv'
    BY <1>15, RecoverPreserves, SnapshotUnchanged DEF Recover
  <2>2. ControlTypeOK'
    BY <1>15 DEF Recover, ControlTypeOK, CallType, SnapshotInv, SnapshotTypeOK
  <2> QED
    BY <2>1, <2>2
<1>16. CASE UNCHANGED vars
  <2>1. LineageInv' /\ SnapshotInv'
    BY <1>16, LineageUnchanged, SnapshotUnchanged DEF vars
  <2>2. ControlTypeOK'
    BY <1>16 DEF vars, ControlTypeOK
  <2> QED
    BY <2>1, <2>2
<1> QED
  BY <1>1, <1>2, <1>3, <1>4, <1>5, <1>6, <1>9, <1>10, <1>11, <1>12, <1>13,
     <1>14, <1>15, <1>16 DEF Next

----------------------------------------------------------------------------
(* StoreInv holds in every reachable state of the store. *)
THEOREM StoreInvariant == Spec => []StoreInv
  BY InitEstablishes, NextPreserves, PTL DEF Spec

(* Type correctness: every variable of the store keeps its type. *)
THEOREM TypeCorrectness == Spec => []TypeOK
<1>1. StoreInv => TypeOK
  BY DEF StoreInv, LineageInv, SnapshotInv, TypeOK
<1> QED
  BY <1>1, StoreInvariant, PTL

(* Publishing, fenced or not, and restarting keep the lineage closed and      *)
(* acyclic, in the store and in the snapshot a restart would load.             *)
THEOREM LineageIsSafe == Spec => []Lineage
<1>1. StoreInv => Lineage
  BY DEF StoreInv, LineageInv, SnapshotInv, Lineage
<1> QED
  BY <1>1, StoreInvariant, PTL

(* The graph, prov_to_state_ and the indexes always are those of the records: *)
(* add_arc never refuses an arc of insert_validated, so no insertion is left   *)
(* half done.                                                                 *)
THEOREM StructuresAgree == Spec => []DerivedStructuresAgree
<1>1. StoreInv => DerivedStructuresAgree
  BY DEF StoreInv, LineageInv
<1> QED
  BY <1>1, StoreInvariant, PTL

(* by_validity_ lists every record under the state the overlay has for it, and *)
(* under no other: publish, invalidate and restore, which write both, keep it. *)
THEOREM ValidityIndexIsExact == Spec => []ValidityIndexAgrees
<1>1. StoreInv => ValidityIndexAgrees
  BY DEF StoreInv, LineageInv
<1> QED
  BY <1>1, StoreInvariant, PTL

----------------------------------------------------------------------------
(* What the unlocked evaluation of a claim still guarantees.  publish may     *)
(* admit a claim that is stale by the time it inserts, but a call that        *)
(* nothing disturbs is fenced in every dimension, and an epoch that was       *)
(* rolled over before the call began never passes.                            *)
(*                                                                            *)
(* FenceInv says what the comparisons made so far have established.           *)

Fencing(t) == calls[t].phase = "fencing"

(* The epoch the call began under is not ahead of the current one, and once   *)
(* the epoch was compared the claim is at least as new as that.               *)
EpochFenced(t) ==
    Fencing(t) => /\ calls[t].entered <= authority.epoch
                  /\ \/ "CoordinatorEpoch" \in calls[t].todo
                     \/ calls[t].claim.epoch >= calls[t].entered

(* In an undisturbed call every dimension no longer to be compared is current. *)
DimensionsFenced(t) ==
    Fencing(t) /\ calls[t].steady =>
        \A dim \in FenceDims \ calls[t].todo :
            ~ Stale(authority, calls[t].claim, dim)

FenceInv == \A t \in Threads : EpochFenced(t) /\ DimensionsFenced(t)

----------------------------------------------------------------------------
(* A dimension the claim does not constrain is never stale. *)
LEMMA UnconstrainedIsCurrent ==
    ASSUME NEW auth, NEW c, NEW dim \in FenceDims \ Constrained(c)
    PROVE  ~ Stale(auth, c, dim)
<1>1. dim # "CoordinatorEpoch"
  BY DEF Constrained
<1>2. dim \in GenDims => ~ StaleGeneration(auth, c, dim)
  BY DEF Constrained, StaleGeneration, GenDims
<1>3. dim = "WorkerBootId" => ~ StaleBoot(auth, c)
  BY DEF Constrained, StaleBoot
<1> QED
  BY <1>1, <1>2, <1>3 DEF Stale

(* Epochs can be compared. *)
LEMMA EpochIsNat ==
    ASSUME ControlTypeOK
    PROVE  authority.epoch \in Nat
  BY DEF ControlTypeOK, AuthorityOK

(* A step that leaves the authority and a thread's call alone keeps what is   *)
(* known of that call.                                                        *)
LEMMA CallUntouched ==
    ASSUME FenceInv, NEW t \in Threads, calls'[t] = calls[t], authority' = authority
    PROVE  EpochFenced(t)' /\ DimensionsFenced(t)'
  BY DEF FenceInv, EpochFenced, DimensionsFenced, Fencing

(* Nothing is to be known of a call that is not in flight. *)
LEMMA IdleCallFenced ==
    ASSUME NEW t \in Threads, calls'[t] = Idle
    PROVE  EpochFenced(t)' /\ DimensionsFenced(t)'
  BY DEF EpochFenced, DimensionsFenced, Fencing, Idle

(* A write to the authority that does not lower the epoch: the calls in flight *)
(* are no longer steady.                                                      *)
LEMMA DisturbanceFenced ==
    ASSUME FenceInv, ControlTypeOK, authority'.epoch \in Nat,
           authority.epoch <= authority'.epoch,
           calls' = [t \in Threads |-> Disturbed(calls[t])]
    PROVE  FenceInv'
<1> SUFFICES ASSUME NEW t \in Threads
             PROVE  EpochFenced(t)' /\ DimensionsFenced(t)'
  BY DEF FenceInv
<1>1. calls'[t] = Disturbed(calls[t])
  OBVIOUS
<1>2. calls[t] \in CallType
  BY DEF ControlTypeOK
<1>3. CASE ~ Fencing(t)
  <2>1. calls'[t] = calls[t]
    BY <1>1, <1>3 DEF Disturbed, Fencing
  <2> QED
    BY <2>1, <1>3 DEF EpochFenced, DimensionsFenced, Fencing
<1>4. CASE Fencing(t)
  <2>1. /\ calls[t].entered \in Nat
        /\ calls'[t] = [calls[t] EXCEPT !.steady = FALSE]
    BY <1>1, <1>2, <1>4 DEF Disturbed, Fencing, CallType, Idle
  <2>2. /\ calls'[t].steady = FALSE
        /\ calls'[t].entered = calls[t].entered
        /\ calls'[t].todo = calls[t].todo
        /\ calls'[t].claim = calls[t].claim
    BY <2>1, <1>2, <1>4 DEF CallType, Fencing, Idle
  <2>3. EpochFenced(t)'
    BY <2>1, <2>2, <1>4, EpochIsNat DEF FenceInv, EpochFenced
  <2> QED
    BY <2>2, <2>3 DEF DimensionsFenced
<1> QED
  BY <1>3, <1>4

----------------------------------------------------------------------------
(* No call is in flight when the process starts. *)
THEOREM FenceInit == Init => FenceInv
  BY DEF Init, FenceInv, EpochFenced, DimensionsFenced, Fencing, Idle

(* Every comparison of evaluate_claim, and every setter that comes between    *)
(* two of them, keeps what the comparisons made so far have established.      *)
THEOREM FenceNext == StoreInv /\ FenceInv /\ [Next]_vars => FenceInv'
<1> SUFFICES ASSUME StoreInv, FenceInv, [Next]_vars PROVE FenceInv'
  OBVIOUS
<1>1. ControlTypeOK /\ authority.epoch \in Nat
  BY EpochIsNat DEF StoreInv
<1>2. CASE calls' = calls /\ authority' = authority
  BY <1>2, CallUntouched DEF FenceInv
<1>3. ASSUME NEW u \in Threads, FenceEnter(u) PROVE FenceInv'
  <2>1. PICK d \in Candidates, c \in Claims :
           calls' = [calls EXCEPT ![u] =
                          [phase |-> "fencing", data |-> d, claim |-> c,
                           todo |-> Constrained(c), entered |-> authority.epoch,
                           steady |-> TRUE]]
    BY <1>3 DEF FenceEnter
  <2>2. authority' = authority /\ calls \in [Threads -> CallType]
    BY <1>1, <1>3 DEF FenceEnter, ControlTypeOK
  <2>3. EpochFenced(u)' /\ DimensionsFenced(u)'
    BY <2>1, <2>2, <1>1, UnconstrainedIsCurrent
       DEF EpochFenced, DimensionsFenced, Fencing, Constrained
  <2>4. \A t \in Threads \ {u} : calls'[t] = calls[t]
    BY <2>1, <2>2
  <2> QED
    BY <2>2, <2>3, <2>4, CallUntouched DEF FenceInv
<1>4. ASSUME NEW u \in Threads, FencePass(u) PROVE FenceInv'
  <2>1. PICK dim \in FenceDims :
           /\ IsNext(calls[u], dim)
           /\ ~ Stale(authority, calls[u].claim, dim)
           /\ calls' = [calls EXCEPT ![u].todo = @ \ {dim}]
    BY <1>4 DEF FencePass
  <2>2. authority' = authority /\ calls \in [Threads -> CallType]
    BY <1>1, <1>4 DEF FencePass, ControlTypeOK
  <2>3. /\ calls[u] \in CallType
        /\ calls[u].phase = "fencing"
        /\ calls'[u] = [calls[u] EXCEPT !.todo = @ \ {dim}]
    BY <2>1, <2>2, <1>4 DEF FencePass
  <2>4. /\ calls'[u].todo = calls[u].todo \ {dim}
        /\ calls'[u].claim = calls[u].claim
        /\ calls'[u].entered = calls[u].entered
        /\ calls'[u].steady = calls[u].steady
        /\ calls[u].entered \in Nat
        /\ calls[u].claim \in Claims
    BY <2>3 DEF CallType, Idle
  <2>5. dim = "CoordinatorEpoch" => calls[u].claim.epoch = authority.epoch
    BY <2>1 DEF Stale
  <2>6. EpochFenced(u)'
    BY <2>2, <2>3, <2>4, <2>5, <1>1 DEF EpochFenced, FenceInv, Fencing
  <2>7. DimensionsFenced(u)'
    BY <2>1, <2>2, <2>3, <2>4 DEF DimensionsFenced, FenceInv, Fencing
  <2>8. \A t \in Threads \ {u} : calls'[t] = calls[t]
    BY <2>1, <2>2
  <2> QED
    BY <2>2, <2>6, <2>7, <2>8, CallUntouched DEF FenceInv
<1>5. ASSUME NEW u \in Threads, calls' = [calls EXCEPT ![u] = Idle], authority' = authority
      PROVE  FenceInv'
  <2>1. calls \in [Threads -> CallType]
    BY <1>1 DEF ControlTypeOK
  <2>2. calls'[u] = Idle /\ \A t \in Threads \ {u} : calls'[t] = calls[t]
    BY <2>1, <1>5
  <2> QED
    BY <2>2, <1>5, CallUntouched, IdleCallFenced DEF FenceInv
<1>6. ASSUME NEW u \in Threads, FenceReject(u) PROVE FenceInv'
  BY <1>5, <1>6 DEF FenceReject
<1>7. ASSUME NEW u \in Threads, FenceCommit(u) PROVE FenceInv'
  BY <1>5, <1>7 DEF FenceCommit
<1>8. ASSUME NEW new, ChangeAuthority(new), new.epoch \in Nat, authority.epoch <= new.epoch
      PROVE  FenceInv'
  BY <1>1, <1>8, DisturbanceFenced DEF ChangeAuthority
<1>9. PICK known \in SUBSET Workers :
         authority \in [epoch : Nat, boot : [known -> Boots], gen : [GenDims -> Nat]]
  BY <1>1 DEF ControlTypeOK, AuthorityOK
<1>10. CASE RollEpoch
  <2>1. NextEpoch(authority).epoch = authority.epoch + 1
    BY <1>9 DEF NextEpoch
  <2> QED
    BY <2>1, <1>1, <1>8, <1>10 DEF RollEpoch
<1>11. ASSUME NEW w \in Workers, NEW b \in Boots, RegisterBoot(w, b) PROVE FenceInv'
  <2>1. WithBoot(authority, w, b).epoch = authority.epoch
    BY <1>9 DEF WithBoot
  <2> QED
    BY <2>1, <1>1, <1>8, <1>11 DEF RegisterBoot
<1>12. ASSUME NEW id \in Generations, NEW generation \in Generations,
              BeginAttempt(id, generation)
       PROVE  FenceInv'
  <2>1. WithAttempt(authority, id, generation).epoch = authority.epoch
    BY <1>9 DEF WithAttempt
  <2> QED
    BY <2>1, <1>1, <1>8, <1>12 DEF BeginAttempt
<1>13. ASSUME NEW dim \in GenDims, NEW generation \in Generations,
              SetGeneration(dim, generation)
       PROVE  FenceInv'
  <2>1. WithGeneration(authority, dim, generation).epoch = authority.epoch
    BY <1>9 DEF WithGeneration
  <2> QED
    BY <2>1, <1>1, <1>8, <1>13 DEF SetGeneration
<1>14. ASSUME NEW generation \in Generations, SetRuntimeGeneration(generation)
       PROVE  FenceInv'
  BY <1>1, <1>14, DisturbanceFenced DEF SetRuntimeGeneration
<1>15. CASE Recover
  BY <1>15, IdleCallFenced DEF Recover, FenceInv
<1>16. ASSUME NEW d \in Candidates, Publish(d) PROVE FenceInv'
  BY <1>2, <1>16 DEF Publish
<1>17. ASSUME NEW s \in StateIds, Invalidate(s) PROVE FenceInv'
  BY <1>2, <1>17 DEF Invalidate
<1>18. CASE SaveSnapshot
  BY <1>2, <1>18 DEF SaveSnapshot
<1>19. CASE UNCHANGED vars
  BY <1>2, <1>19 DEF vars
<1> QED
  BY <1>3, <1>4, <1>6, <1>7, <1>10, <1>11, <1>12, <1>13, <1>14, <1>15, <1>16,
     <1>17, <1>18, <1>19 DEF Next

(* What evaluate_claim has compared so far is known, in every state of the    *)
(* store, whatever was interleaved with it.                                   *)
THEOREM FenceInvariant == Spec => []FenceInv
  BY StoreInvariant, FenceInit, FenceNext, PTL DEF Spec

----------------------------------------------------------------------------
(* A claim whose epoch had been rolled over when publish was called is never  *)
(* admitted, however the setters interleave with evaluate_claim.              *)
THEOREM RolledEpochIsFenced == Spec => []RolledEpochNeverAdmitted
<1>1. FenceInv => RolledEpochNeverAdmitted
  BY DEF FenceInv, EpochFenced, Fencing, RolledEpochNeverAdmitted, Admitted
<1> QED
  BY <1>1, FenceInvariant, PTL

(* A call of publish that no setter disturbs is admitted only if evaluate_claim *)
(* would accept its claim as a whole.                                         *)
THEOREM SteadyCallsAreFenced == Spec => []SteadyCallIsFenced
<1>1. FenceInv => SteadyCallIsFenced
  BY DEF FenceInv, DimensionsFenced, Fencing, SteadyCallIsFenced, Admitted, Accepts
<1> QED
  BY <1>1, FenceInvariant, PTL
=============================================================================

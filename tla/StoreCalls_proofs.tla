-------------------------- MODULE StoreCalls_proofs --------------------------
(***************************************************************************)
(* Theorems about one call: the loading of a file, the decoding of one, and *)
(* the searches in both.                                                    *)
(*                                                                         *)
(* restore, for every file that decodes: what it leaves in the store is the *)
(* largest sound part of the file, and a snapshot this program may have     *)
(* saved comes back as it was.  The ordering is Kahn's algorithm as         *)
(* GraphSearch_proofs has it, each insertion the one of                     *)
(* ProvenanceStore_proofs.  What joins them is RestoreInv: the records      *)
(* offered so far stand before all that refer to them, so one is refused    *)
(* only if no self-contained part of the file holds it.                     *)
(*                                                                         *)
(* decode_snapshot, for every snapshot encode_snapshot may be given: it     *)
(* gives that snapshot back or, if a count is beyond what it accepts,       *)
(* nothing, and of anything shorter or longer nothing.  Each reader is      *)
(* shown to read what its writer writes and to leave what follows (Reads),  *)
(* or to refuse it whatever follows (Refuses), and to read what it reads of *)
(* a prefix in the same way of the whole (Steady).                          *)
(***************************************************************************)
EXTENDS StoreCalls, ProvenanceStore_proofs, GraphSearch_proofs

----------------------------------------------------------------------------
(* Facts about files *)

(* What stands in a sequence is finite. *)
LEMMA ElementsFinite ==
    ASSUME NEW N, NEW seq \in Seq(N)
    PROVE  /\ IsFiniteSet(DOMAIN seq)
           /\ IsFiniteSet(Elements(seq))
<1>1. DOMAIN seq = 1..Len(seq) /\ Len(seq) \in Nat
  OBVIOUS
<1>2. IsFiniteSet(1..Len(seq))
  BY <1>1, FS_Interval
<1>3. seq \in Surjection(1..Len(seq), Elements(seq))
  <2>1. seq \in [1..Len(seq) -> Elements(seq)]
    BY <1>1 DEF Elements
  <2> QED
    BY <2>1, <1>1 DEF Elements, Surjection
<1> QED
  BY <1>1, <1>2, <1>3, FS_Surjection

(* by_id keeps a record of every subject. *)
LEMMA RecordOfSubject ==
    ASSUME NEW f, f.records \in Seq(RecordData), NEW s \in Subjects(f)
    PROVE  \E i \in DOMAIN f.records :
              RecordOf(f, s) = f.records[i] /\ f.records[i].subject = s
<1> DEFINE n == Len(f.records)
           At == {i \in DOMAIN f.records : f.records[i].subject = s}
           FromEnd == {n - i : i \in At}
<1>1. n \in Nat /\ DOMAIN f.records = 1..n
  OBVIOUS
<1>2. At # {}
  BY DEF Subjects
<1> HIDE DEF n
<1>3. FromEnd \in SUBSET Nat /\ FromEnd # {}
  BY <1>1, <1>2
<1>4. PICK k : k = Least(FromEnd)
  OBVIOUS
<1>5. k \in FromEnd /\ \A m \in FromEnd : k <= m
  BY <1>3, <1>4, LeastOf
<1>6. PICK last \in At : k = n - last
  BY <1>5
<1>7. \A j \in At : n - last <= n - j
  BY <1>5, <1>6
<1>8. \A j \in At : j <= last
  BY <1>1, <1>7
<1>9. \E i \in DOMAIN f.records :
         /\ f.records[i].subject = s
         /\ \A j \in DOMAIN f.records : f.records[j].subject = s => j <= i
  BY <1>6, <1>8
<1> QED
  BY <1>9 DEF RecordOf

(* The subjects of a file are no more than its records, and as many only if   *)
(* no two records have one subject.                                           *)
LEMMA SubjectsFinite ==
    ASSUME NEW f, f.records \in Seq(RecordData)
    PROVE  /\ IsFiniteSet(Subjects(f))
           /\ Cardinality(Subjects(f)) <= Len(f.records)
           /\ Cardinality(Subjects(f)) = Len(f.records) =>
                 \A i, j \in DOMAIN f.records :
                    f.records[i].subject = f.records[j].subject => i = j
<1> DEFINE n == Len(f.records)
           subject == [i \in 1..n |-> f.records[i].subject]
<1>1. n \in Nat /\ DOMAIN f.records = 1..n
  OBVIOUS
<1>2. IsFiniteSet(1..n) /\ Cardinality(1..n) = n
  BY <1>1, FS_Interval
<1>3. subject \in Surjection(1..n, Subjects(f))
  BY <1>1 DEF Subjects, Surjection
<1>4. /\ IsFiniteSet(Subjects(f))
      /\ Cardinality(Subjects(f)) <= n
      /\ Cardinality(Subjects(f)) = n <=> subject \in Injection(1..n, Subjects(f))
  BY <1>2, <1>3, FS_Surjection
<1>5. subject \in Injection(1..n, Subjects(f)) =>
         \A i, j \in 1..n : f.records[i].subject = f.records[j].subject => i = j
  BY DEF Injection, IsInjective
<1> QED
  BY <1>1, <1>4, <1>5

(* What decode_snapshot has made sure of. *)
LEMMA DecodedFile ==
    ASSUME NEW f, f.records \in Seq(RecordData), Decodes(f)
    PROVE  /\ Subjects(f) \subseteq StateIds
           /\ \A s \in Subjects(f) : /\ RecordOf(f, s) \in RecordData
                                     /\ RecordOf(f, s).subject = s
                                     /\ ValidRecord(RecordOf(f, s))
           /\ \A s, r \in Subjects(f) : RecordOf(f, s).prov = RecordOf(f, r).prov => s = r
<1>1. \A i \in DOMAIN f.records : f.records[i] \in RecordData /\ ValidRecord(f.records[i])
  BY DEF Decodes
<1>2. \A i \in DOMAIN f.records : f.records[i].subject \in StateIds
  BY <1>1 DEF RecordData, ValidRecord
<1>3. \A s, r \in Subjects(f) : RecordOf(f, s).prov = RecordOf(f, r).prov => s = r
  BY RecordOfSubject DEF Decodes
<1> QED
  BY <1>1, <1>2, <1>3, RecordOfSubject DEF Subjects

(* A parent is an input, or the subject of the record a reference names. *)
LEMMA ParentsInFile ==
    ASSUME NEW f, f.records \in Seq(RecordData), NEW s \in Subjects(f)
    PROVE  /\ Elements(RecordOf(f, s).inputs) \subseteq ParentsIn(f)[s]
           /\ \A r \in Subjects(f) :
                 RecordOf(f, r).prov \in Elements(RecordOf(f, s).parents) => r \in ParentsIn(f)[s]
           /\ DOMAIN ParentsIn(f) = Subjects(f)
           /\ IsFiniteSet(ParentsIn(f)[s])
<1> DEFINE d == RecordOf(f, s)
           Referred == {i \in DOMAIN f.records : f.records[i].prov \in Elements(d.parents)}
<1>1. ParentsIn(f)[s] = Elements(d.inputs) \cup {f.records[i].subject : i \in Referred}
  BY DEF ParentsIn
<1>2. DOMAIN ParentsIn(f) = Subjects(f)
  BY DEF ParentsIn
<1>3. d \in RecordData
  BY RecordOfSubject
<1>4. IsFiniteSet(Elements(d.inputs))
  <2>1. d.inputs \in Seq(StateIds \cup {0})
    BY <1>3 DEF RecordData
  <2> QED
    BY <2>1, ElementsFinite
<1>5. IsFiniteSet({f.records[i].subject : i \in Referred})
  <2>1. {f.records[i].subject : i \in Referred} \subseteq Subjects(f)
    BY DEF Subjects
  <2> QED
    BY <2>1, SubjectsFinite, FS_Subset
<1> HIDE DEF d
<1>6. IsFiniteSet(ParentsIn(f)[s])
  BY <1>1, <1>4, <1>5, FS_Union
<1>7. ASSUME NEW r \in Subjects(f), RecordOf(f, r).prov \in Elements(d.parents)
      PROVE  r \in ParentsIn(f)[s]
  <2>1. PICK i \in DOMAIN f.records : RecordOf(f, r) = f.records[i] /\ f.records[i].subject = r
    BY RecordOfSubject
  <2> QED
    BY <2>1, <1>1, <1>7
<1> QED
  BY <1>1, <1>2, <1>6, <1>7 DEF d

(* In a file every subject of which has one record, that record is by_id's. *)
LEMMA OneRecordEach ==
    ASSUME NEW f, f.records \in Seq(RecordData),
           Cardinality(Subjects(f)) = Len(f.records),
           NEW i \in DOMAIN f.records
    PROVE  RecordOf(f, f.records[i].subject) = f.records[i]
<1>1. f.records[i].subject \in Subjects(f)
  BY DEF Subjects
<1>2. PICK j \in DOMAIN f.records : /\ RecordOf(f, f.records[i].subject) = f.records[j]
                                    /\ f.records[j].subject = f.records[i].subject
  BY <1>1, RecordOfSubject
<1> QED
  BY <1>2, SubjectsFinite

----------------------------------------------------------------------------
(* The invariant *)

(* What the store holds when the records of the subjects in offered have been  *)
(* handed to insert_validated.                                                *)
Holds(offered) ==
    /\ records = [s \in DOMAIN records |-> RecordOf(input, s)]
    /\ DOMAIN records \subseteq offered
    /\ \A S \in SUBSET Subjects(input) : SelfContained(S) => S \cap offered \subseteq DOMAIN records
    /\ LineageOK(records)
    /\ DerivedStructuresAgree
    /\ workers = DOMAIN input.authority.boot
                    \cup UNION {NamedWorkers(records[s]) : s \in DOMAIN records}

AllPlaced == OnList = Subjects(input) /\ Len(list) = Len(input.records)

FileKept ==
    /\ input \in Files
    /\ saved = SnapshotIn(input)
    /\ runtimeGeneration = 0
    /\ calls = [t \in Threads |-> Idle]

Ordering ==
    /\ Decodes(input)
    /\ searched = GraphOfParents(ParentsIn(input))
    /\ Kahn
    /\ authority = input.authority

RestoreInv ==
    /\ FileKept
    /\ loading \in {"decode", "refused", "order", "thrown", "insert", "restored"}
    /\ loading = "decode" => list = <<>> /\ todo = {} /\ next = 1
    /\ loading \in {"order", "insert", "restored"} => Ordering
    /\ loading = "order" => next = 1 /\ Holds({}) /\ ValidityIndexAgrees
    /\ loading = "insert" => /\ AllPlaced
                             /\ next \in 1..(Len(list) + 1)
                             /\ Holds(Before(next)) /\ ValidityIndexAgrees
    /\ loading = "restored" => Holds(Subjects(input))

LEMMA FileRecords == RestoreInv => input.records \in Seq(RecordData)
  BY RestoreAssumption DEF RestoreInv, FileKept

LEMMA RestoreStarts == RestoreInit => RestoreInv
  BY DEF RestoreInit, RestoreInv, FileKept, Holding, StartOrder

(* An empty store, and the structures beside its records. *)
LEMMA EmptyStore ==
    /\ LineageOK(EmptyFunction)
    /\ GraphOf(EmptyFunction) = EmptyGraph
    /\ ProvIndex(EmptyFunction) = EmptyFunction
    /\ AttrIndex(EmptyFunction) = [a \in Attrs |-> {}]
    /\ ValidityIndex(EmptyFunction, EmptyFunction) = [v \in Validities |-> {}]
<1>1. LineageOK(EmptyFunction)
  BY DEF LineageOK, EmptyFunction, WellFounded
<1> QED
  BY <1>1 DEF GraphOf, EmptyGraph, ProvIndex, AttrIndex, ValidityIndex, EmptyFunction

(* restore starts with nothing in the store and Kahn's algorithm at its start. *)
LEMMA ClearStep ==
    ASSUME RestoreInv, Clear
    PROVE  RestoreInv'
<1> DEFINE P == ParentsIn(input)
<1>1. /\ FileKept /\ list = <<>> /\ todo = {} /\ next = 1 /\ Decodes(input)
      /\ UNCHANGED <<runtimeGeneration, calls, saved, input, next, list, todo, cur>>
      /\ loading' = "order" /\ authority' = input.authority
  BY DEF RestoreInv, Clear, walkVars
<1>2. input.records \in Seq(RecordData)
  BY FileRecords
<1>3. /\ DOMAIN P = Subjects(input)
      /\ Subjects(input) \subseteq Nat \ {0}
      /\ IsFiniteSet(Subjects(input))
      /\ \A n \in Subjects(input) : IsFiniteSet(P[n])
  <2>1. DOMAIN P = Subjects(input)
    BY DEF ParentsIn
  <2>2. Subjects(input) \subseteq Nat \ {0}
    BY <1>1, <1>2, DecodedFile, StoreAssumption
  <2>3. IsFiniteSet(Subjects(input))
    BY <1>2, SubjectsFinite
  <2> QED
    BY <2>1, <2>2, <2>3, <1>2, ParentsInFile
<1>4. /\ searched' = GraphOfParents(P)
      /\ inDegree' = [n \in DOMAIN P |-> Cardinality(P[n])]
      /\ ready' = {n \in DOMAIN P : inDegree'[n] = 0}
  BY <1>3 DEF Clear, InDegrees
<1>5. /\ searched'.nodes = DOMAIN P /\ searched'.parents = P
      /\ searched'.children = [n \in DOMAIN P |-> {c \in DOMAIN P : n \in P[c]}]
  BY <1>4 DEF GraphOfParents
<1> HIDE DEF P
<1>6. Kahn'
  <2>1. OnList' = {} /\ Len(list') = 0 /\ list' = <<>> /\ todo' = {}
    BY <1>1 DEF OnList
  <2>2. KahnTypeOK' /\ KahnOrder'
    BY <2>1, <1>3, <1>5 DEF KahnTypeOK, KahnOrder, NoRepeats
  <2>3. \A n \in DOMAIN P : Owed(n)' = P[n]
    BY <2>1, <1>5 DEF Owed
  <2>4. \A n \in DOMAIN P : inDegree'[n] = 0 <=> P[n] = {}
    BY <1>3, <1>4, FS_EmptySet
  <2>5. KahnCounts'
    BY <2>1, <2>3, <2>4, <1>4, <1>5 DEF KahnCounts
  <2> QED
    BY <2>2, <2>5 DEF Kahn
<1>7. Ordering'
  <2>1. searched' = GraphOfParents(ParentsIn(input'))
    BY <1>1, <1>4 DEF P
  <2>2. Decodes(input')
    BY <1>1
  <2> QED
    BY <2>1, <2>2, <1>1, <1>6 DEF Ordering
<1>8. /\ records' = EmptyFunction /\ status' = EmptyFunction
      /\ provToState' = EmptyFunction /\ graph' = EmptyGraph
      /\ byValidity' = [v \in Validities |-> {}] /\ byAttr' = [a \in Attrs |-> {}]
      /\ workers' = DOMAIN input.authority.boot
  BY DEF Clear
<1>9. DerivedStructuresAgree' /\ ValidityIndexAgrees' /\ LineageOK(records')
  BY <1>8, EmptyStore DEF DerivedStructuresAgree, ValidityIndexAgrees
<1>10. Holds({})'
  <2>1. DOMAIN records' = {} /\ records' = [s \in DOMAIN records' |-> RecordOf(input', s)]
    BY <1>8 DEF EmptyFunction
  <2> QED
    BY <2>1, <1>1, <1>8, <1>9 DEF Holds
<1>11. FileKept'
  BY <1>1 DEF FileKept
<1> QED
  BY <1>1, <1>7, <1>9, <1>10, <1>11 DEF RestoreInv

(* What the store holds does not depend on the order being built. *)
LEMMA HoldingKept ==
    ASSUME NEW offered, Holds(offered), UNCHANGED <<records, provToState, graph, byAttr, workers, input>>
    PROVE  Holds(offered)'
<1>1. \A S : SelfContained(S)' = SelfContained(S)
  BY DEF SelfContained
<1>2. DerivedStructuresAgree'
  BY DEF Holds, DerivedStructuresAgree
<1> QED
  BY <1>1, <1>2 DEF Holds

LEMMA OrderStep ==
    ASSUME RestoreInv, Order
    PROVE  RestoreInv'
<1>1. /\ FileKept /\ Ordering /\ next = 1 /\ Holds({}) /\ ValidityIndexAgrees
      /\ loading = "order" /\ loading' = "order" /\ next' = 1
      /\ (TakeReady \/ Decrement)
      /\ UNCHANGED <<vars, input>>
  BY DEF RestoreInv, Order
<1>2. Kahn' /\ searched' = searched
  BY <1>1, TakeReadyStep, DecrementStep DEF Ordering, TakeReady, Decrement
<1>3. UNCHANGED <<records, provToState, graph, status, byValidity, byAttr, workers, authority,
                  runtimeGeneration, calls, saved>>
  BY <1>1 DEF vars, lineageVars
<1>4. FileKept' /\ ValidityIndexAgrees'
  BY <1>1, <1>3 DEF FileKept, ValidityIndexAgrees
<1>5. Holds({})'
  BY <1>1, <1>3, HoldingKept
<1>6. Ordering'
  BY <1>1, <1>2, <1>3 DEF Ordering
<1> QED
  BY <1>1, <1>4, <1>5, <1>6 DEF RestoreInv

(* The order restore accepts places every subject. *)
LEMMA CompleteOrder ==
    ASSUME input.records \in Seq(RecordData), Ordering, Len(list) = Len(input.records)
    PROVE  AllPlaced
<1>1. searched.nodes = Subjects(input) /\ KahnTypeOK
  BY DEF Ordering, GraphOfParents, ParentsIn, Kahn
<1>2. Cardinality(OnList) = Len(list) /\ (Len(list) = Cardinality(Subjects(input)) <=> OnList = Subjects(input))
      /\ OnList \subseteq Subjects(input)
  BY <1>1, PlacedOnce
<1>3. Cardinality(Subjects(input)) <= Len(list) /\ IsFiniteSet(Subjects(input))
  BY SubjectsFinite
<1>4. Cardinality(OnList) <= Cardinality(Subjects(input))
  BY <1>2, <1>3, FS_Subset
<1>5. Cardinality(Subjects(input)) \in Nat /\ Len(list) \in Nat
  BY <1>1, <1>3, FS_CardinalityType DEF KahnTypeOK
<1> QED
  BY <1>2, <1>3, <1>4, <1>5 DEF AllPlaced

LEMMA OrderedStep ==
    ASSUME RestoreInv, Ordered
    PROVE  RestoreInv'
<1>1. /\ FileKept /\ Ordering /\ next = 1 /\ Holds({}) /\ ValidityIndexAgrees
      /\ Len(list) = Len(input.records) /\ loading' = "insert"
      /\ UNCHANGED <<vars, searchVars, input, next>>
  BY DEF RestoreInv, Ordered
<1>2. UNCHANGED <<records, provToState, graph, status, byValidity, byAttr, workers, authority,
                  runtimeGeneration, calls, saved>>
  BY <1>1 DEF vars, lineageVars
<1>3. UNCHANGED <<searched, list, todo, cur, inDegree, ready>>
  BY <1>1 DEF searchVars, walkVars, otherVars
<1>4. AllPlaced /\ Len(list) \in Nat
  BY <1>1, FileRecords, CompleteOrder
<1>5. FileKept' /\ ValidityIndexAgrees' /\ AllPlaced'
  BY <1>1, <1>2, <1>3, <1>4 DEF FileKept, ValidityIndexAgrees, AllPlaced, OnList
<1>6. Kahn'
  BY <1>1, <1>3, KahnStutters DEF Ordering
<1>7. Ordering'
  BY <1>1, <1>2, <1>3, <1>6 DEF Ordering
<1>8. Holds({})'
  BY <1>1, <1>2, HoldingKept
<1>9. Before(next') = {} /\ Before(next)' = {} /\ next' \in 1..(Len(list') + 1)
  BY <1>1, <1>3, <1>4 DEF Before
<1>10. Holds(Before(next))'
  BY <1>8, <1>9 DEF Holds
<1> QED
  BY <1>1, <1>5, <1>7, <1>9, <1>10 DEF RestoreInv

(* The record that is next is refused only if nothing self-contained holds it: *)
(* what such a set holds of its parents was offered before, and taken.        *)
LEMMA RefusedRecords ==
    ASSUME RestoreInv, loading = "insert", next <= Len(list),
           ~ Admissible(RecordOf(input, list[next])),
           NEW S \in SUBSET Subjects(input), SelfContained(S)
    PROVE  list[next] \notin S
<1> SUFFICES ASSUME list[next] \in S PROVE FALSE
  OBVIOUS
<1>1. PICK s : s = list[next]
  OBVIOUS
<1> DEFINE d == RecordOf(input, s)
<1>2. /\ Ordering /\ AllPlaced /\ next \in 1..(Len(list) + 1) /\ Holds(Before(next))
      /\ input.records \in Seq(RecordData)
  BY FileRecords DEF RestoreInv
<1>3. /\ searched.nodes = Subjects(input) /\ searched.parents = ParentsIn(input)
      /\ KahnTypeOK /\ KahnOrder /\ Decodes(input)
  BY <1>2 DEF Ordering, GraphOfParents, ParentsIn, Kahn
<1>4. Len(list) \in Nat /\ next \in 1..Len(list) /\ list \in Seq(Subjects(input))
  BY <1>2, <1>3 DEF KahnTypeOK
<1>5. s \in S /\ s \in Subjects(input)
  BY <1>1
<1>6. s \notin Before(next)
  BY <1>1, <1>3, <1>4 DEF KahnTypeOK, NoRepeats, Before
<1>7. ParentsIn(input)[s] \subseteq Before(next)
  BY <1>1, <1>3, <1>4 DEF KahnOrder
<1>8. \A r \in S : r \in ParentsIn(input)[s] => r \in DOMAIN records
  BY <1>2, <1>7 DEF Holds
<1>9. \A r \in DOMAIN records : records[r] = RecordOf(input, r) /\ r \in Subjects(input) /\ r # s
  <2>1. records = [r \in DOMAIN records |-> RecordOf(input, r)]
    BY <1>2 DEF Holds
  <2>2. \A r \in DOMAIN records : records[r] = RecordOf(input, r)
    BY <2>1
  <2>3. Before(next) \subseteq Subjects(input)
    BY <1>4 DEF Before
  <2> QED
    BY <2>2, <2>3, <1>2, <1>6 DEF Holds
<1>10. DOMAIN provToState = {records[r].prov : r \in DOMAIN records}
  BY <1>2 DEF Holds, DerivedStructuresAgree, ProvIndex
<1>11. d.subject = s /\ \A r \in Subjects(input) : RecordOf(input, r).prov = d.prov => r = s
  BY <1>2, <1>3, <1>5, DecodedFile
<1>12. d.subject \notin DOMAIN records /\ d.prov \notin DOMAIN provToState
  BY <1>9, <1>10, <1>11
<1>13. Elements(d.inputs) \subseteq DOMAIN records
  <2>1. Elements(d.inputs) \subseteq S
    BY <1>5 DEF SelfContained
  <2>2. Elements(d.inputs) \subseteq ParentsIn(input)[s]
    BY <1>2, <1>5, ParentsInFile
  <2> QED
    BY <2>1, <2>2, <1>8
<1>14. Elements(d.parents) \subseteq DOMAIN provToState
  <2> SUFFICES ASSUME NEW p \in Elements(d.parents) PROVE p \in DOMAIN provToState
    OBVIOUS
  <2>1. PICK r \in S : RecordOf(input, r).prov = p
    BY <1>5 DEF SelfContained
  <2>2. r \in ParentsIn(input)[s]
    BY <2>1, <1>2, <1>5, ParentsInFile
  <2>3. r \in DOMAIN records
    BY <2>2, <1>8
  <2> QED
    BY <2>1, <2>3, <1>9, <1>10
<1>15. Admissible(d)
  BY <1>12, <1>13, <1>14 DEF Admissible
<1> QED
  BY <1>1, <1>15

LEMMA InsertStep ==
    ASSUME RestoreInv, InsertNext
    PROVE  RestoreInv'
<1>1. PICK s, d : s = list[next] /\ d = RecordOf(input, s)
  OBVIOUS
<1>2. /\ loading = "insert" /\ next <= Len(list) /\ next' = next + 1
      /\ IF Admissible(d) THEN Insert(d) ELSE UNCHANGED lineageVars
      /\ UNCHANGED <<authority, runtimeGeneration, calls, saved, searchVars, input, loading>>
  BY <1>1 DEF InsertNext
<1>3. /\ FileKept /\ Ordering /\ AllPlaced /\ next \in 1..(Len(list) + 1)
      /\ Holds(Before(next)) /\ ValidityIndexAgrees
      /\ input.records \in Seq(RecordData)
  BY <1>2, FileRecords DEF RestoreInv
<1>4. UNCHANGED <<searched, list, todo, cur, inDegree, ready>>
  BY <1>2 DEF searchVars, walkVars, otherVars
<1>5. searched.nodes = Subjects(input) /\ KahnTypeOK /\ Decodes(input)
  BY <1>3 DEF Ordering, GraphOfParents, ParentsIn, Kahn
<1>6. Len(list) \in Nat /\ next \in 1..Len(list) /\ list \in Seq(Subjects(input))
  BY <1>2, <1>3, <1>5 DEF KahnTypeOK
<1>7. s \in Subjects(input)
  BY <1>1, <1>6
<1>8. /\ d \in RecordData /\ d.subject = s /\ ValidRecord(d)
      /\ Subjects(input) \subseteq StateIds
  BY <1>1, <1>3, <1>5, <1>7, DecodedFile
<1>9. Before(next)' = Before(next) \cup {s} /\ Before(next) \subseteq Subjects(input)
      /\ s \notin Before(next) /\ next' \in 1..(Len(list') + 1)
  <2>1. 1..(next' - 1) = 1..(next - 1) \cup {next}
    BY <1>2, <1>6
  <2>2. Before(next)' = Before(next) \cup {s}
    BY <2>1, <1>1, <1>4 DEF Before
  <2>3. s \notin Before(next)
    BY <1>1, <1>5, <1>6 DEF KahnTypeOK, NoRepeats, Before
  <2>4. Before(next) \subseteq Subjects(input)
    BY <1>6 DEF Before
  <2>5. next' \in 1..(Len(list') + 1)
    BY <1>2, <1>4, <1>6
  <2> QED
    BY <2>2, <2>3, <2>4, <2>5
<1>10. /\ records = [r \in DOMAIN records |-> RecordOf(input, r)]
       /\ DOMAIN records \subseteq Before(next)
       /\ LineageOK(records) /\ DerivedStructuresAgree
       /\ workers = DOMAIN input.authority.boot
                       \cup UNION {NamedWorkers(records[r]) : r \in DOMAIN records}
       /\ \A S \in SUBSET Subjects(input) :
             SelfContained(S) => S \cap Before(next) \subseteq DOMAIN records
  BY <1>3 DEF Holds
<1>11. \A S : SelfContained(S)' = SelfContained(S)
  BY <1>2 DEF SelfContained
<1>12. Holds(Before(next))' /\ ValidityIndexAgrees'
  <2>1. CASE Admissible(d)
    <3>1. /\ records' = With(records, s, d)
          /\ status' = With(status, s, InitialStatus(d))
          /\ workers' = workers \cup NamedWorkers(d)
          /\ graph' = GraphOf(records')
          /\ provToState' = ProvIndex(records')
          /\ byAttr' = AttrIndex(records')
          /\ byValidity' = ValidityIndex(records', status')
      <4>1. DOMAIN records \subseteq StateIds
        BY <1>8, <1>9, <1>10
      <4> QED
        BY <4>1, <2>1, <1>2, <1>3, <1>8, <1>10, InsertBuilds
    <3>2. DOMAIN records' = DOMAIN records \cup {s} /\ DOMAIN status' = DOMAIN records'
      BY <3>1, <1>3 DEF With, ValidityIndexAgrees
    <3>3. DerivedStructuresAgree' /\ ValidityIndexAgrees'
      BY <3>1, <3>2 DEF DerivedStructuresAgree, ValidityIndexAgrees
    <3>4. LineageOK(records')
      BY <2>1, <3>1, <1>8, <1>10, AdmissibleIsFresh, InsertKeepsLineage
    <3>5. /\ \A r \in DOMAIN records : records'[r] = records[r]
          /\ records'[s] = d
      BY <3>1, <1>9, <1>10 DEF With
    <3>6. records' = [r \in DOMAIN records' |-> RecordOf(input, r)]
      <4>1. \A r \in DOMAIN records' : records'[r] = RecordOf(input, r)
        BY <3>2, <3>5, <1>1, <1>10
      <4>2. records' = [r \in DOMAIN records' |-> records'[r]]
        BY <3>1 DEF With
      <4> QED
        BY <4>1, <4>2
    <3>7. workers' = DOMAIN input.authority.boot
                       \cup UNION {NamedWorkers(records'[r]) : r \in DOMAIN records'}
      BY <3>1, <3>2, <3>5, <1>10
    <3>8. DOMAIN records' \subseteq Before(next) \cup {s}
      BY <3>2, <1>10
    <3>9. \A S \in SUBSET Subjects(input) :
             SelfContained(S) => S \cap (Before(next) \cup {s}) \subseteq DOMAIN records'
      BY <3>2, <1>10
    <3> QED
      BY <3>3, <3>4, <3>6, <3>7, <3>8, <3>9, <1>2, <1>9, <1>11 DEF Holds
  <2>2. CASE ~ Admissible(d)
    <3>1. UNCHANGED <<records, provToState, graph, status, byValidity, byAttr, workers>>
      BY <2>2, <1>2 DEF lineageVars
    <3>2. DerivedStructuresAgree' /\ ValidityIndexAgrees'
      BY <3>1, <1>3, <1>10 DEF DerivedStructuresAgree, ValidityIndexAgrees
    <3>3. \A S \in SUBSET Subjects(input) :
             SelfContained(S) => S \cap (Before(next) \cup {s}) \subseteq DOMAIN records
      BY <2>2, <1>1, <1>2, <1>10, RefusedRecords
    <3> QED
      BY <3>1, <3>2, <3>3, <1>2, <1>9, <1>10, <1>11 DEF Holds
  <2> QED
    BY <2>1, <2>2
<1>13. FileKept'
  BY <1>2, <1>3 DEF FileKept
<1>14. Kahn'
  BY <1>3, <1>4, KahnStutters DEF Ordering
<1>15. Ordering' /\ AllPlaced'
  BY <1>2, <1>3, <1>4, <1>14 DEF Ordering, AllPlaced, OnList
<1> QED
  BY <1>2, <1>9, <1>12, <1>13, <1>15 DEF RestoreInv

LEMMA OverlayStep ==
    ASSUME RestoreInv, Overlay
    PROVE  RestoreInv'
<1>1. /\ FileKept /\ Ordering /\ AllPlaced /\ next \in 1..(Len(list) + 1)
      /\ Holds(Before(next)) /\ next > Len(list)
      /\ UNCHANGED <<records, provToState, graph, byAttr, workers, authority,
                      runtimeGeneration, calls, saved, searchVars, input, next>>
      /\ loading' = "restored"
  BY DEF RestoreInv, Overlay
<1>2. UNCHANGED <<searched, list, todo, cur, inDegree, ready>>
  BY <1>1 DEF searchVars, walkVars, otherVars
<1>3. Len(list) \in Nat
  BY <1>1 DEF Ordering, Kahn, KahnTypeOK
<1>4. next - 1 = Len(list)
  BY <1>1, <1>3
<1>5. Before(next) = Subjects(input)
  BY <1>1, <1>4 DEF Before, OnList, AllPlaced
<1>6. Holds(Subjects(input))'
  BY <1>1, <1>5, HoldingKept DEF Holds
<1>7. FileKept'
  BY <1>1 DEF FileKept
<1>8. Kahn'
  BY <1>1, <1>2, KahnStutters DEF Ordering
<1>9. Ordering'
  BY <1>1, <1>2, <1>8 DEF Ordering
<1> QED
  BY <1>1, <1>6, <1>7, <1>9 DEF RestoreInv

LEMMA RefuseStep ==
    ASSUME RestoreInv, DecodeRefuses \/ Throw
    PROVE  RestoreInv'
<1>1. FileKept' /\ loading' \in {"refused", "thrown"}
  BY DEF RestoreInv, FileKept, DecodeRefuses, Throw, vars
<1> QED
  BY <1>1 DEF RestoreInv

LEMMA RestoreStutters ==
    ASSUME RestoreInv, UNCHANGED restoreVars
    PROVE  RestoreInv'
<1>1. /\ UNCHANGED <<records, provToState, graph, status, byValidity, byAttr, workers, authority,
                     runtimeGeneration, calls, saved>>
      /\ UNCHANGED <<searched, list, todo, cur, inDegree, ready>>
      /\ UNCHANGED <<input, loading, next>>
  BY DEF restoreVars, vars, lineageVars, searchVars, walkVars, otherVars
<1>2. Kahn => Kahn'
  BY <1>1, KahnStutters
<1>3. Ordering => Ordering'
  BY <1>1, <1>2 DEF Ordering
<1>4. Holds({}) => Holds({})'
  BY <1>1, HoldingKept
<1>5. Holds(Subjects(input)) => Holds(Subjects(input))'
  BY <1>1, HoldingKept DEF Holds
<1>6. Holds(Before(next)) => Holds(Before(next))'
  <2>1. Before(next)' = Before(next)
    BY <1>1 DEF Before
  <2> QED
    BY <2>1, <1>1, HoldingKept DEF Holds
<1>7. FileKept' /\ (ValidityIndexAgrees => ValidityIndexAgrees') /\ (AllPlaced => AllPlaced')
  BY <1>1 DEF RestoreInv, FileKept, ValidityIndexAgrees, AllPlaced, OnList
<1> QED
  BY <1>1, <1>3, <1>4, <1>5, <1>6, <1>7 DEF RestoreInv

LEMMA RestoreKeepsInv == RestoreInv /\ [RestoreStep]_restoreVars => RestoreInv'
  BY RefuseStep, ClearStep, OrderStep, OrderedStep, InsertStep, OverlayStep, RestoreStutters
     DEF RestoreStep

(* The store holds every self-contained part of the file, and is one itself.  *)
LEMMA LargestSound == RestoreInv => RestoredIsLargestSound
<1> SUFFICES ASSUME RestoreInv, Restored PROVE RestoredIsLargestSound
  BY DEF RestoredIsLargestSound
<1>1. Holds(Subjects(input))
  BY DEF RestoreInv, Restored
<1>2. /\ records = [s \in DOMAIN records |-> RecordOf(input, s)]
      /\ DOMAIN records \subseteq Subjects(input)
      /\ LineageOK(records) /\ DerivedStructuresAgree
      /\ \A S \in SUBSET Subjects(input) : SelfContained(S) => S \subseteq DOMAIN records
  BY <1>1 DEF Holds
<1>3. \A s \in DOMAIN records : records[s] = RecordOf(input, s)
  BY <1>2
<1>4. SelfContained(DOMAIN records)
  <2> SUFFICES ASSUME NEW s \in DOMAIN records
               PROVE  /\ Elements(RecordOf(input, s).inputs) \subseteq DOMAIN records
                      /\ \A p \in Elements(RecordOf(input, s).parents) :
                            \E r \in DOMAIN records : RecordOf(input, r).prov = p
    BY DEF SelfContained
  <2>1. /\ Elements(records[s].inputs) \subseteq DOMAIN records
        /\ \A p \in Elements(records[s].parents) : \E r \in DOMAIN records : records[r].prov = p
    BY <1>2 DEF LineageOK
  <2> QED
    BY <2>1, <1>3
<1>5. DOMAIN records = UNION {S \in SUBSET Subjects(input) : SelfContained(S)}
  BY <1>2, <1>4
<1> QED
  BY <1>2, <1>3, <1>5 DEF RestoredIsLargestSound

(* Whatever file is accepted, no dangling reference and no cycle gets into    *)
(* the store, its graph and indexes agree with its records, and no record is  *)
(* dropped that could be kept.                                                *)
THEOREM RestoreKeepsLargestSoundPart == RestoreSpec => []RestoredIsLargestSound
<1>1. RestoreSpec => []RestoreInv
  BY RestoreStarts, RestoreKeepsInv, PTL DEF RestoreSpec
<1> QED
  BY <1>1, LargestSound, PTL

----------------------------------------------------------------------------
(* A snapshot this program may have saved *)

OwnSnapshot ==
    LineageOK(saved.records) /\ Len(input.records) = Cardinality(DOMAIN saved.records)

(* The records of such a file are those of the snapshot, in some order. *)
LEMMA OwnRecords ==
    ASSUME RestoreInv, OwnSnapshot
    PROVE  /\ DOMAIN saved.records = Subjects(input)
           /\ \A s \in Subjects(input) : saved.records[s] = RecordOf(input, s)
           /\ \A i \in DOMAIN input.records : /\ input.records[i].subject \in Subjects(input)
                                             /\ saved.records[input.records[i].subject]
                                                   = input.records[i]
           /\ Cardinality(Subjects(input)) = Len(input.records)
<1>1. input.records \in Seq(RecordData) /\ saved = SnapshotIn(input)
  BY FileRecords DEF RestoreInv, FileKept
<1>2. saved.records = [s \in Subjects(input) |-> RecordOf(input, s)]
  BY <1>1 DEF SnapshotIn
<1>3. Cardinality(Subjects(input)) = Len(input.records)
  BY <1>2 DEF OwnSnapshot
<1>4. \A i \in DOMAIN input.records : input.records[i].subject \in Subjects(input)
  BY DEF Subjects
<1> QED
  BY <1>1, <1>2, <1>3, <1>4, OneRecordEach

(* decode_snapshot has nothing against it but its size. *)
LEMMA OwnSnapshotDecodes ==
    ASSUME RestoreInv, OwnSnapshot, DecodeRefuses
    PROVE  Len(input.records) > MaxRecords
<1>1. \A i \in DOMAIN input.records : ValidRecord(input.records[i])
  BY OwnRecords DEF OwnSnapshot, LineageOK
<1>2. \A i, j \in DOMAIN input.records : input.records[i].prov = input.records[j].prov => i = j
  <2> SUFFICES ASSUME NEW i \in DOMAIN input.records, NEW j \in DOMAIN input.records,
                      input.records[i].prov = input.records[j].prov
               PROVE  i = j
    OBVIOUS
  <2>1. input.records[i].subject = input.records[j].subject
    BY OwnRecords DEF OwnSnapshot, LineageOK
  <2> QED
    BY <2>1, FileRecords, OwnRecords, SubjectsFinite
<1>3. ~ (Len(input.records) <= MaxRecords)
  BY <1>1, <1>2 DEF DecodeRefuses, Decodes
<1>4. Len(input.records) \in Nat /\ MaxRecords \in Nat
  BY FileRecords, LimitsAssumption
<1> QED
  BY <1>3, <1>4

(* The parents of a subject in the file are its parents in the snapshot. *)
LEMMA OwnParents ==
    ASSUME RestoreInv, OwnSnapshot, NEW s \in Subjects(input)
    PROVE  ParentsIn(input)[s] = GraphOf(saved.records).parents[s]
<1> DEFINE d == RecordOf(input, s)
<1>1. ParentsIn(input)[s]
        = Elements(d.inputs)
            \cup {input.records[i].subject :
                    i \in {i \in DOMAIN input.records : input.records[i].prov \in Elements(d.parents)}}
  BY DEF ParentsIn
<1>2. GraphOf(saved.records).parents[s]
        = Elements(d.inputs)
            \cup {r \in Subjects(input) : saved.records[r].prov \in Elements(d.parents)}
  BY OwnRecords DEF GraphOf, RecordParents
<1>3. ASSUME NEW r \in Subjects(input)
      PROVE  \E i \in DOMAIN input.records : saved.records[r] = input.records[i]
                                             /\ input.records[i].subject = r
  BY FileRecords, OwnRecords, RecordOfSubject
<1> HIDE DEF d
<1>4. {input.records[i].subject :
          i \in {i \in DOMAIN input.records : input.records[i].prov \in Elements(d.parents)}}
        = {r \in Subjects(input) : saved.records[r].prov \in Elements(d.parents)}
  BY <1>3, OwnRecords
<1> QED
  BY <1>1, <1>2, <1>4

(* It has no cycle and no dangling reference, so every record is placed. *)
LEMMA OwnSnapshotIsOrdered ==
    ASSUME RestoreInv, OwnSnapshot, Throw
    PROVE  FALSE
<1>1. /\ Ordering /\ OrderDone /\ Len(list) # Len(input.records)
      /\ searched.nodes = Subjects(input) /\ searched.parents = ParentsIn(input)
  <2>1. Ordering /\ OrderDone /\ Len(list) # Len(input.records)
    BY DEF RestoreInv, Throw
  <2>2. searched = GraphOfParents(ParentsIn(input)) /\ DOMAIN ParentsIn(input) = Subjects(input)
    BY <2>1 DEF Ordering, ParentsIn
  <2> QED
    BY <2>1, <2>2 DEF GraphOfParents
<1>2. KahnTypeOK /\ KahnCounts
  BY <1>1 DEF Ordering, Kahn
<1>3. OnList # Subjects(input) /\ OnList \subseteq Subjects(input)
  BY <1>1, <1>2, OwnRecords, PlacedOnce
<1>4. \A n \in Subjects(input) \ OnList : ~ (ParentsIn(input)[n] \subseteq OnList)
  BY <1>1, <1>2 DEF KahnCounts, OrderDone, Owed
<1> DEFINE left == Subjects(input) \ OnList
<1>5. PICK s \in left : GraphOf(saved.records).parents[s] \cap left = {}
  <2>1. WellFounded(Subjects(input), GraphOf(saved.records).parents)
    BY OwnRecords DEF OwnSnapshot, LineageOK
  <2>2. left \in SUBSET Subjects(input) /\ left # {}
    BY <1>3
  <2> QED
    BY <2>1, <2>2 DEF WellFounded
<1>6. GraphOf(saved.records).parents[s] \subseteq Subjects(input)
  <2>1. RecordParents(saved.records, saved.records[s]) \subseteq Subjects(input)
    BY OwnRecords, ParentsAreStored DEF OwnSnapshot
  <2> QED
    BY <2>1, OwnRecords DEF GraphOf
<1>7. ParentsIn(input)[s] = GraphOf(saved.records).parents[s]
  BY OwnParents
<1> QED
  BY <1>4, <1>5, <1>6, <1>7

(* When the overlay goes on top, everything is as it was saved. *)
LEMMA OwnSnapshotReturns ==
    ASSUME RestoreInv, RestoreInv', OwnSnapshot, Overlay
    PROVE  Recover
<1>1. /\ FileKept /\ Ordering /\ loading' = "restored"
      /\ UNCHANGED <<records, provToState, graph, byAttr, workers, authority,
                      runtimeGeneration, calls, saved, input>>
      /\ status' = input.status
      /\ byValidity' = ValidityIndex(records, input.status)
  BY DEF RestoreInv, Overlay
<1>2. Holds(Subjects(input))'
  BY <1>1 DEF RestoreInv
<1>3. SelfContained(Subjects(input))'
  <2> DEFINE N == Subjects(input)
  <2>1. DOMAIN saved.records = N /\ \A s \in N : saved.records[s] = RecordOf(input, s)
    BY OwnRecords
  <2>2. \A s \in N : /\ Elements(saved.records[s].inputs) \subseteq N
                     /\ \A p \in Elements(saved.records[s].parents) :
                           \E r \in N : saved.records[r].prov = p
    BY <2>1 DEF OwnSnapshot, LineageOK
  <2> HIDE DEF N
  <2>3. \A s \in N : /\ Elements(RecordOf(input, s).inputs) \subseteq N
                     /\ \A p \in Elements(RecordOf(input, s).parents) :
                           \E r \in N : RecordOf(input, r).prov = p
    BY <2>1, <2>2
  <2> QED
    BY <2>3, <1>1 DEF SelfContained, N
<1>4. DOMAIN records = Subjects(input)
  BY <1>1, <1>2, <1>3 DEF Holds
<1>5. records = saved.records
  <2>1. records = [s \in DOMAIN records |-> RecordOf(input, s)]
    BY <1>1, <1>2 DEF Holds
  <2> QED
    BY <2>1, <1>1, <1>4 DEF FileKept, SnapshotIn
<1>6. /\ graph' = GraphOf(records) /\ provToState' = ProvIndex(records)
      /\ byAttr' = AttrIndex(records)
      /\ workers' = DOMAIN input.authority.boot
                       \cup UNION {NamedWorkers(records[s]) : s \in DOMAIN records}
  BY <1>1, <1>2 DEF Holds, DerivedStructuresAgree
<1>7. saved.status = input.status /\ saved.authority = input.authority
  BY <1>1 DEF FileKept, SnapshotIn
<1>8. authority' = saved.authority /\ runtimeGeneration' = 0 /\ calls' = [t \in Threads |-> Idle]
  BY <1>1, <1>7 DEF Ordering, FileKept
<1> QED
  BY <1>1, <1>5, <1>6, <1>7, <1>8 DEF Recover

RecoversOwn ==
    OwnSnapshot => /\ loading' # "thrown"
                   /\ loading' = "refused" => Len(input.records) > MaxRecords
                   /\ Restored' /\ ~ Restored => Recover

LEMMA StepRecovers ==
    ASSUME RestoreInv, RestoreStep
    PROVE  RecoversOwn
<1> SUFFICES ASSUME OwnSnapshot
             PROVE  /\ loading' # "thrown"
                    /\ loading' = "refused" => Len(input.records) > MaxRecords
                    /\ Restored' /\ ~ Restored => Recover
  BY DEF RecoversOwn
<1>1. CASE DecodeRefuses
  BY <1>1, OwnSnapshotDecodes DEF DecodeRefuses, Restored
<1>2. CASE Throw
  <2>1. FALSE
    BY <1>2, OwnSnapshotIsOrdered
  <2> QED
    BY <2>1
<1>3. CASE Clear \/ Order \/ Ordered \/ InsertNext
  BY <1>3 DEF Clear, Order, Ordered, InsertNext, Restored
<1>4. CASE Overlay
  <2>1. loading' = "restored"
    BY <1>4 DEF Overlay
  <2>2. RestoreInv'
    BY RestoreKeepsInv
  <2>3. Recover
    BY <1>4, <2>2, OwnSnapshotReturns, Zenon
  <2> QED
    BY <2>1, <2>3
<1> QED
  BY <1>1, <1>2, <1>3, <1>4 DEF RestoreStep

(* A snapshot this program may have saved, however large and whatever order   *)
(* its records are in, is refused for its size or comes back as it was saved: *)
(* the whole of restore amounts to the step Recover of ProvenanceStore.       *)
THEOREM RestoreImplementsRecover == RestoreSpec => RestoreIsRecover
<1>1. RestoreInv /\ [RestoreStep]_restoreVars => [RecoversOwn]_restoreVars
  BY StepRecovers
<1>2. RestoreSpec => []RestoreInv
  BY RestoreStarts, RestoreKeepsInv, PTL DEF RestoreSpec
<1>3. RestoreSpec => [][RecoversOwn]_restoreVars
  BY <1>1, <1>2, PTL DEF RestoreSpec
<1> QED
  BY <1>3 DEF RestoreIsRecover, RecoversOwn, OwnSnapshot

----------------------------------------------------------------------------
(* Readers *)

(* A reader reads v of a code if it gives v and leaves what follows the code.   *)
Reads(reader, code, v) ==
    code \in Payload /\ \A t \in Payload : reader[code \o t] = Got(v, t)

Refuses(reader, code) ==
    code \in Payload /\ \A t \in Payload : ~ reader[code \o t].ok

(* What is read of something is read in the same way when more follows.         *)
Steady(reader) ==
    \A in, t \in Payload : reader[in].ok =>
        \E v : \E rest \in Payload : /\ reader[in] = Got(v, rest)
                                     /\ reader[in \o t] = Got(v, rest \o t)

(* Payloads are joined as sequences are. *)
LEMMA Joined ==
    /\ <<>> \in Payload
    /\ \A a, b \in Payload : a \o b \in Payload
    /\ \A a \in Payload : <<>> \o a = a /\ a \o <<>> = a
    /\ \A a, b, c \in Payload : (a \o b) \o c = a \o (b \o c)
<1>1. \A a, b \in Seq(Nat) : a \o b \in Seq(Nat)
  BY ConcatProperties
<1>2. \A a \in Seq(Nat) : <<>> \o a = a /\ a \o <<>> = a
  BY ConcatEmptySeq
<1>3. ASSUME NEW a \in Seq(Nat), NEW b \in Seq(Nat), NEW c \in Seq(Nat)
      PROVE  (a \o b) \o c = a \o (b \o c)
  OBVIOUS
<1>4. <<>> \in Seq(Nat)
  BY EmptySeq
<1> QED
  BY <1>1, <1>2, <1>3, <1>4, Zenon DEF Payload

LEMMA RestOfConcat ==
    ASSUME NEW s \in Seq(Nat), NEW t \in Seq(Nat), NEW n \in Nat, n <= Len(s) - 1
    PROVE  SubSeq(s \o t, n + 2, Len(s \o t)) = SubSeq(s, n + 2, Len(s)) \o t
<1>1. Len(s) \in Nat /\ Len(t) \in Nat /\ s \o t \in Seq(Nat) /\ Len(s \o t) = Len(s) + Len(t)
  BY ConcatProperties
<1>2. PICK left : left = SubSeq(s \o t, n + 2, Len(s \o t))
  OBVIOUS
<1>3. PICK a : a = SubSeq(s, n + 2, Len(s))
  OBVIOUS
<1>4. /\ left \in Seq(Nat) /\ Len(left) = Len(s) + Len(t) - n - 1
      /\ \A i \in 1..Len(left) : left[i] = (s \o t)[n + 1 + i]
  <2>1. PICK w \in Seq(Nat) : w = s \o t
    BY <1>1
  <2>2. PICK m \in Nat : m = Len(w) /\ n + 1 <= m
    BY <1>1, <2>1
  <2>3. left = SubSeq(w, n + 2, m)
    BY <1>2, <2>1, <2>2
  <2>4. left = [i \in 1..(m - n - 1) |-> w[n + 1 + i]]
    BY <2>2, <2>3
  <2>5. \A i \in 1..(m - n - 1) : w[n + 1 + i] \in Nat
    BY <2>2
  <2>6. m - n - 1 \in Nat
    BY <2>2
  <2>7. left \in Seq(Nat) /\ Len(left) = m - n - 1
    BY <2>4, <2>5, <2>6
  <2>8. m = Len(s) + Len(t)
    BY <1>1, <2>1, <2>2
  <2>9. \A i \in 1..(m - n - 1) : left[i] = w[n + 1 + i]
    BY <2>4
  <2>10. m - n - 1 = Len(s) + Len(t) - n - 1
    BY <1>1, <2>8
  <2>11. Len(left) = Len(s) + Len(t) - n - 1
    BY <2>7, <2>10, Zenon
  <2>12. \A i \in 1..Len(left) : left[i] = (s \o t)[n + 1 + i]
    BY <2>1, <2>7, <2>9, Zenon
  <2> QED
    BY <2>7, <2>11, <2>12, Zenon
<1>5. /\ a \in Seq(Nat) /\ Len(a) = Len(s) - n - 1
      /\ \A i \in 1..Len(a) : a[i] = s[n + 1 + i]
  BY <1>1, <1>3
<1>6. /\ a \o t \in Seq(Nat) /\ Len(a \o t) = Len(a) + Len(t)
      /\ \A i \in 1..(Len(a) + Len(t)) : (a \o t)[i] = IF i <= Len(a) THEN a[i] ELSE t[i - Len(a)]
      /\ \A i \in 1..(Len(s) + Len(t)) : (s \o t)[i] = IF i <= Len(s) THEN s[i] ELSE t[i - Len(s)]
  BY <1>5, ConcatProperties
<1>7. ASSUME NEW i \in 1..Len(left) PROVE left[i] = (a \o t)[i]
  <2>1. PICK j \in Nat : j = n + 1 + i
    BY <1>4
  <2>2. PICK la \in Nat : la = Len(a) /\ la = Len(s) - n - 1
    <3>1. Len(a) \in Nat /\ Len(a) = Len(s) - n - 1
      BY <1>5
    <3> QED
      BY <3>1
  <2>3. i \in 1..(la + Len(t)) /\ j \in 1..(Len(s) + Len(t))
    BY <1>1, <1>4, <2>1, <2>2
  <2>4. left[i] = (s \o t)[j]
    BY <1>4, <2>1
  <2>5. /\ (a \o t)[i] = IF i <= la THEN a[i] ELSE t[i - la]
        /\ (s \o t)[j] = IF j <= Len(s) THEN s[j] ELSE t[j - Len(s)]
    BY <1>6, <2>2, <2>3
  <2>6. CASE i <= la
    <3>1. j <= Len(s) /\ i \in 1..la
      BY <1>1, <2>1, <2>2, <2>6
    <3>2. a[i] = s[j]
      BY <1>5, <2>1, <2>2, <3>1
    <3> QED
      BY <2>4, <2>5, <2>6, <3>1, <3>2
  <2>7. CASE ~ i <= la
    <3>1. ~ j <= Len(s) /\ j - Len(s) = i - la
      BY <1>1, <2>1, <2>2, <2>7
    <3> QED
      BY <2>4, <2>5, <2>7, <3>1
  <2> QED
    BY <2>6, <2>7
<1>8. Len(left) = Len(a \o t) /\ Len(left) \in Nat
  BY <1>1, <1>4, <1>5, <1>6
<1>9. left = a \o t
  BY <1>4, <1>6, <1>7, <1>8, SeqEqual
<1> QED
  BY <1>2, <1>3, <1>9

----------------------------------------------------------------------------
(* One value *)

LEMMA ScalarReader ==
    ASSUME NEW name
    PROVE  /\ Steady(Scalar(name))
           /\ \A v : name \notin Strings /\ IsFlat(name, v) => Reads(Scalar(name), <<v>>, v)
<1>1. ASSUME NEW in \in Payload, NEW t \in Payload, Scalar(name)[in].ok
      PROVE  /\ Scalar(name)[in] = Got(Head(in), Tail(in))
             /\ Scalar(name)[in \o t] = Got(Head(in), Tail(in) \o t)
             /\ Tail(in) \in Payload
  <2>1. in \in Seq(Nat) /\ t \in Seq(Nat)
    BY DEF Payload
  <2>2. in # <<>> /\ Scalar(name)[in] = Got(Head(in), Tail(in))
        /\ (name \in DOMAIN LastOf => ~ Head(in) > LastOf[name])
        /\ (name \in DOMAIN Expected => Head(in) = Expected[name])
    BY <1>1 DEF Scalar, Failed
  <2>3. /\ in \o t \in Seq(Nat) /\ in \o t # <<>>
        /\ Head(in \o t) = Head(in) /\ Tail(in \o t) = Tail(in) \o t /\ Tail(in) \in Seq(Nat)
    BY <2>1, <2>2
  <2> QED
    BY <2>2, <2>3 DEF Scalar, Payload
<1>2. Steady(Scalar(name))
  BY <1>1 DEF Steady
<1>3. ASSUME NEW v, name \notin Strings, IsFlat(name, v)
      PROVE  Reads(Scalar(name), <<v>>, v)
  <2>1. /\ v \in Nat
        /\ name \in DOMAIN LastOf => v <= LastOf[name]
        /\ name \in DOMAIN Expected => v = Expected[name]
    BY <1>3 DEF IsFlat
  <2>2. name \in DOMAIN LastOf => LastOf[name] \in Nat
    BY DEF LastOf
  <2>3. name \in DOMAIN LastOf => ~ v > LastOf[name]
    BY <2>1, <2>2
  <2>4. ASSUME NEW t \in Seq(Nat)
        PROVE  <<v>> \o t \in Seq(Nat) /\ <<v>> \o t # <<>> /\ Head(<<v>> \o t) = v
               /\ Tail(<<v>> \o t) = t
    BY <2>1
  <2>5. <<v>> \in Seq(Nat)
    BY <2>1
  <2> QED
    BY <2>1, <2>3, <2>4, <2>5 DEF Reads, Scalar, Payload
<1> QED
  BY <1>2, <1>3

LEMMA TextReader ==
    /\ Steady(Text)
    /\ \A v : v \in Seq(Nat) /\ Len(v) <= MaxString => Reads(Text, <<Len(v)>> \o v, v)
<1>1. ASSUME NEW in \in Payload, NEW t \in Payload, Text[in].ok
      PROVE  \E v : \E rest \in Payload : /\ Text[in] = Got(v, rest)
                                          /\ Text[in \o t] = Got(v, rest \o t)
  <2>1. in \in Seq(Nat) /\ t \in Seq(Nat)
    BY DEF Payload
  <2>2. PICK n \in Nat : /\ in # <<>> /\ n = Head(in) /\ n <= Len(in) - 1 /\ ~ n > MaxString
                         /\ Text[in] = Got(SubSeq(in, 2, n + 1), SubSeq(in, n + 2, Len(in)))
    <3>1. in # <<>> /\ ~ Head(in) > MaxString /\ ~ Head(in) > Len(in) - 1
          /\ Text[in] = Got(SubSeq(in, 2, Head(in) + 1), SubSeq(in, Head(in) + 2, Len(in)))
      BY <1>1 DEF Text, Failed
    <3>2. Head(in) \in Nat /\ Len(in) \in Nat
      BY <2>1, <3>1
    <3> QED
      BY <3>1, <3>2
  <2>3. /\ in \o t \in Seq(Nat) /\ in \o t # <<>> /\ Head(in \o t) = n
        /\ Len(in \o t) = Len(in) + Len(t) /\ Len(in) \in Nat /\ Len(t) \in Nat
    BY <2>1, <2>2
  <2>4. ~ n > Len(in \o t) - 1
    BY <2>2, <2>3
  <2>5. Text[in \o t] = Got(SubSeq(in \o t, 2, n + 1), SubSeq(in \o t, n + 2, Len(in \o t)))
    BY <2>2, <2>3, <2>4 DEF Text, Payload
  <2>6. SubSeq(in \o t, 2, n + 1) = SubSeq(in, 2, n + 1)
    BY <2>1, <2>2, <2>3
  <2>7. SubSeq(in \o t, n + 2, Len(in \o t)) = SubSeq(in, n + 2, Len(in)) \o t
    BY <2>1, <2>2, <2>3, RestOfConcat
  <2>8. SubSeq(in, n + 2, Len(in)) \in Seq(Nat)
    BY <2>1, <2>2, <2>3
  <2> QED
    BY <2>2, <2>5, <2>6, <2>7, <2>8 DEF Payload
<1>2. ASSUME NEW v \in Seq(Nat), Len(v) <= MaxString
      PROVE  Reads(Text, <<Len(v)>> \o v, v)
  <2>1. PICK n \in Nat : n = Len(v)
    OBVIOUS
  <2>2. <<n>> \o v \in Seq(Nat)
    BY <2>1
  <2>3. ASSUME NEW t \in Seq(Nat)
        PROVE  Text[(<<n>> \o v) \o t] = Got(v, t)
    <3>1. PICK in \in Seq(Nat) : in = (<<n>> \o v) \o t
      BY <2>2, ConcatProperties
    <3>2. /\ in # <<>> /\ Head(in) = n /\ Len(in) = 1 + n + Len(t) /\ Len(t) \in Nat
      BY <2>1, <3>1
    <3>3. SubSeq(in, 2, n + 1) = v
      BY <2>1, <3>1, <3>2
    <3>4. SubSeq(in, n + 2, Len(in)) = t
      BY <2>1, <3>1, <3>2
    <3>5. ~ n > MaxString /\ ~ n > Len(in) - 1
      BY <1>2, <2>1, <3>2, LimitsAssumption
    <3> QED
      BY <3>1, <3>2, <3>3, <3>4, <3>5 DEF Text, Payload
  <2> QED
    BY <2>1, <2>2, <2>3 DEF Reads, Payload
<1> QED
  BY <1>1, <1>2 DEF Steady

----------------------------------------------------------------------------
(* One code after another.  FlattenSeq and InTurn are defined by recursion on   *)
(* the number of codes, so that a function with that recursion is shown to exist. *)

Flattens(flat, n, codes) ==
    /\ flat \in [0..n -> Payload]
    /\ flat[0] = <<>>
    /\ \A k \in Nat : k < n => flat[k + 1] = flat[k] \o codes[k + 1]

LEMMA FlattenSteps ==
    ASSUME NEW n \in Nat, NEW codes \in [1..n -> Payload]
    PROVE  \E flat : Flattens(flat, n, codes) /\ FlattenSeq(codes) = flat[n]
<1>1. PICK have : have = {m \in Nat : \E f \in [0..m -> Payload] :
                            /\ f[0] = <<>>
                            /\ \A k \in Nat : k < m => f[k + 1] = f[k] \o codes[k + 1]}
  OBVIOUS
<1>2. 0 \in have
  <2>1. PICK f : f = [k \in 0..0 |-> <<>>]
    OBVIOUS
  <2>2. f \in [0..0 -> Payload]
    BY <2>1, EmptySeq DEF Payload
  <2>3. f[0] = <<>> /\ \A k \in Nat : ~ k < 0
    BY <2>1
  <2> QED
    BY <1>1, <2>2, <2>3
<1>3. ASSUME NEW m \in Nat, m < n, m \in have
      PROVE  m + 1 \in have
  <2>1. PICK f \in [0..m -> Payload] :
           /\ f[0] = <<>>
           /\ \A k \in Nat : k < m => f[k + 1] = f[k] \o codes[k + 1]
    BY <1>1, <1>3
  <2>2. PICK c \in Payload : c = f[m] \o codes[m + 1]
    <3>1. f[m] \in Seq(Nat) /\ codes[m + 1] \in Seq(Nat)
      BY <1>3, <2>1 DEF Payload
    <3> QED
      BY <3>1, ConcatProperties DEF Payload
  <2>3. PICK h : h = [k \in 0..(m + 1) |-> IF k = m + 1 THEN c ELSE f[k]]
    OBVIOUS
  <2>4. \A k \in 0..(m + 1) : k # m + 1 => k \in 0..m
    OBVIOUS
  <2>5. h \in [0..(m + 1) -> Payload]
    BY <2>1, <2>3, <2>4
  <2>6. h[0] = <<>>
    BY <2>1, <2>3
  <2>7. ASSUME NEW k \in Nat, k < m + 1 PROVE h[k + 1] = h[k] \o codes[k + 1]
    <3>1. h[k] = f[k] /\ k + 1 \in 0..(m + 1)
      BY <2>3, <2>7
    <3>2. CASE k = m
      BY <2>2, <2>3, <3>1, <3>2
    <3>3. CASE k # m
      <4>1. k < m /\ k + 1 # m + 1
        BY <2>7, <3>3
      <4> QED
        BY <2>1, <2>3, <3>1, <4>1
    <3> QED
      BY <3>2, <3>3
  <2> QED
    BY <1>1, <2>5, <2>6, <2>7
<1>4. n \in have
  BY <1>2, <1>3, UpTo, n \in 0..n
<1>5. PICK flat \in [0..n -> Payload] :
         /\ flat[0] = <<>>
         /\ \A k \in Nat : k < n => flat[k + 1] = flat[k] \o codes[k + 1]
  BY <1>1, <1>4
<1>6. Len(codes) = n
  OBVIOUS
<1>7. FlattenSeq(codes) = flat[n]
  <2>1. CASE n = 0
    BY <1>5, <1>6, <2>1 DEF FlattenSeq
  <2>2. CASE n # 0
    <3> DEFINE Rec(g) == g = [i \in 1..n |-> IF i = 1 THEN codes[i] ELSE g[i - 1] \o codes[i]]
    <3>1. PICK h : h = [i \in 1..n |-> flat[i]]
      OBVIOUS
    <3>2. flat[1] = codes[1]
      <4>1. 0 < n /\ 1 \in 1..n
        BY <2>2
      <4>2. flat[0 + 1] = flat[0] \o codes[0 + 1]
        BY <1>5, <4>1
      <4>3. codes[1] \in Seq(Nat)
        BY <4>1 DEF Payload
      <4> QED
        BY <1>5, <4>2, <4>3, ConcatEmptySeq
    <3>3. ASSUME NEW i \in 1..n, i # 1 PROVE flat[i] = h[i - 1] \o codes[i]
      <4>1. i - 1 \in Nat /\ i - 1 < n /\ (i - 1) + 1 = i /\ i - 1 \in 1..n
        BY <3>3
      <4>2. flat[(i - 1) + 1] = flat[i - 1] \o codes[(i - 1) + 1]
        BY <1>5, <4>1
      <4> QED
        BY <3>1, <4>1, <4>2
    <3>4. Rec(h)
      BY <3>1, <3>2, <3>3
    <3>5. PICK g : Rec(g) /\ FlattenSeq(codes) = g[n]
      <4>1. Rec(CHOOSE g : Rec(g))
        BY <3>4
      <4>2. FlattenSeq(codes) = (CHOOSE g : Rec(g))[n]
        BY <1>6, <2>2 DEF FlattenSeq
      <4> QED
        BY <4>1, <4>2
    <3>6. PICK agree : agree = {i \in Nat : i = 0 \/ g[i] = flat[i]}
      OBVIOUS
    <3>7. ASSUME NEW i \in Nat, i < n, i \in agree PROVE i + 1 \in agree
      <4>1. i + 1 \in 1..n /\ (i + 1) - 1 = i
        BY <3>7
      <4>2. CASE i = 0
        BY <3>2, <3>5, <3>6, <4>1, <4>2
      <4>3. CASE i # 0
        <5>1. PICK j \in 1..n : j = i + 1 /\ j # 1 /\ j - 1 = i
          BY <4>1, <4>3
        <5>2. g[j] = g[j - 1] \o codes[j]
          BY <3>5, <5>1
        <5>3. flat[i + 1] = flat[i] \o codes[i + 1]
          BY <1>5, <3>7
        <5>4. g[i] = flat[i]
          BY <3>6, <3>7, <4>3
        <5>5. g[i + 1] = flat[i + 1]
          BY <5>1, <5>2, <5>3, <5>4
        <5> QED
          BY <3>6, <5>5, i + 1 \in Nat
      <4> QED
        BY <4>2, <4>3
    <3>8. n \in agree
      BY <3>6, <3>7, UpTo, n \in 0..n
    <3> QED
      BY <2>2, <3>5, <3>6, <3>8
  <2> QED
    BY <2>1, <2>2
<1> QED
  BY <1>5, <1>7 DEF Flattens

LEMMA Flattened ==
    ASSUME NEW n \in Nat, NEW codes \in [1..n -> Payload]
    PROVE  FlattenSeq(codes) \in Payload
<1>1. PICK flat : Flattens(flat, n, codes) /\ FlattenSeq(codes) = flat[n]
  BY FlattenSteps
<1> QED
  BY <1>1 DEF Flattens

(* What was written up to here begins all that is written.                      *)
LEMMA FlattenSplits ==
    ASSUME NEW n \in Nat, NEW codes \in [1..n -> Payload], NEW flat, Flattens(flat, n, codes),
           NEW j \in 0..n
    PROVE  \E rest \in Payload : flat[n] = flat[j] \o rest
<1>1. PICK S : S = {k \in Nat : j <= k /\ k <= n => \E rest \in Payload : flat[k] = flat[j] \o rest}
  OBVIOUS
<1>2. flat[j] \in Seq(Nat) /\ flat[j] \o <<>> = flat[j] /\ <<>> \in Payload
  BY ConcatEmptySeq, EmptySeq DEF Flattens, Payload
<1>3. j \in S /\ (0 < j => 0 \in S) /\ (j = 0 => 0 \in S)
  <2>1. j \in S
    BY <1>1, <1>2
  <2> QED
    BY <1>1, <2>1
<1>4. ASSUME NEW k \in Nat, k < n, k \in S PROVE k + 1 \in S
  <2>1. CASE k + 1 <= j
    BY <1>1, <1>3, <2>1
  <2>2. CASE j <= k
    <3>1. PICK rest \in Payload : flat[k] = flat[j] \o rest
      BY <1>1, <1>4, <2>2
    <3>2. PICK c \in Payload : c = codes[k + 1]
      BY <1>4, k + 1 \in 1..n
    <3>3. flat[k + 1] = (flat[j] \o rest) \o c
      BY <1>4, <3>1, <3>2 DEF Flattens
    <3>4. flat[j] \in Payload
      BY DEF Flattens
    <3>5. flat[k + 1] = flat[j] \o (rest \o c) /\ rest \o c \in Payload
      BY <3>2, <3>3, <3>4, Joined
    <3> QED
      BY <1>1, <3>5, k + 1 \in Nat
  <2> QED
    BY <2>1, <2>2
<1>5. n \in S
  BY <1>3, <1>4, UpTo, 0 \in S, n \in 0..n
<1> QED
  BY <1>1, <1>5

(* What InTurn has read after each reader.                                       *)
Turns(readers, in) ==
    CHOOSE read : read = [k \in 0..Len(readers) |->
        IF k = 0 THEN Got(<<>>, in) ELSE Then(read[k - 1], readers[k])]

LEMMA TurnByTurn ==
    ASSUME NEW readers, NEW n \in Nat, Len(readers) = n, NEW in \in Payload
    PROVE  /\ Turns(readers, in)[0] = Got(<<>>, in)
           /\ \A k \in Nat : k < n =>
                 Turns(readers, in)[k + 1] = Then(Turns(readers, in)[k], readers[k + 1])
           /\ InTurn(readers)[in] = Turns(readers, in)[n]
<1> DEFINE Rec(m, f) == f = [k \in 0..m |-> IF k = 0 THEN Got(<<>>, in)
                                            ELSE Then(f[k - 1], readers[k])]
<1> HIDE DEF Got, Then
<1>1. PICK have : have = {m \in Nat : \E f : Rec(m, f)}
  OBVIOUS
<1>2. 0 \in have
  <2>1. Rec(0, [k \in 0..0 |-> Got(<<>>, in)])
    OBVIOUS
  <2> QED
    BY <1>1, <2>1
<1>3. ASSUME NEW m \in Nat, m < n, m \in have
      PROVE  m + 1 \in have
  <2>1. PICK f : Rec(m, f)
    BY <1>1, <1>3
  <2>2. PICK c : c = Then(f[m], readers[m + 1])
    OBVIOUS
  <2>3. PICK h : h = [k \in 0..(m + 1) |-> IF k = m + 1 THEN c ELSE f[k]]
    OBVIOUS
  <2>4. ASSUME NEW k \in 0..(m + 1)
        PROVE  h[k] = IF k = 0 THEN Got(<<>>, in) ELSE Then(h[k - 1], readers[k])
    <3>1. CASE k = 0
      BY <2>1, <2>3, <3>1
    <3>2. CASE k = m + 1
      BY <2>2, <2>3, <3>2
    <3>3. CASE k # 0 /\ k # m + 1
      <4>1. k \in 0..m /\ k - 1 \in 0..m /\ k - 1 # m + 1 /\ k - 1 \in 0..(m + 1)
        BY <3>3
      <4>2. h[k] = f[k] /\ h[k - 1] = f[k - 1]
        BY <2>3, <4>1, <3>3
      <4>3. f[k] = Then(f[k - 1], readers[k])
        BY <2>1, <3>3, <4>1
      <4> QED
        BY <3>3, <4>2, <4>3
    <3> QED
      BY <3>1, <3>2, <3>3
  <2>5. Rec(m + 1, h)
    BY <2>3, <2>4
  <2> QED
    BY <1>1, <2>5
<1>4. \E f : Rec(n, f)
  <2>1. n \in have
    BY <1>2, <1>3, UpTo, n \in 0..n
  <2> QED
    BY <1>1, <2>1
<1>5. Rec(n, Turns(readers, in))
  <2>1. Turns(readers, in) = CHOOSE f : Rec(n, f)
    BY DEF Turns
  <2> QED
    BY <1>4, <2>1
<1>6. InTurn(readers)[in] = Turns(readers, in)[n]
  BY DEF InTurn, Turns
<1>7. ASSUME NEW k \in Nat, k < n
      PROVE  Turns(readers, in)[k + 1] = Then(Turns(readers, in)[k], readers[k + 1])
  <2>1. k + 1 \in 0..n /\ k + 1 # 0 /\ (k + 1) - 1 = k
    BY <1>7
  <2> QED
    BY <1>5, <2>1
<1>8. Turns(readers, in)[0] = Got(<<>>, in)
  BY <1>5
<1> QED
  BY <1>6, <1>7, <1>8

LEMMA ThenReads ==
    ASSUME NEW a, NEW left, NEW reader, NEW b, NEW t, reader[left] = Got(b, t)
    PROVE  Then(Got(a, left), reader) = Got(Append(a, b), t)
<1>1. Got(a, left).rest = left /\ Got(a, left).got = a /\ Got(a, left).ok
  BY DEF Got
<1>2. reader[left].ok /\ reader[left].got = b /\ reader[left].rest = t
  BY DEF Got
<1> QED
  BY <1>1, <1>2 DEF Then

LEMMA ThenRefuses ==
    ASSUME NEW before, NEW reader, ~ before.ok \/ ~ reader[before.rest].ok
    PROVE  ~ Then(before, reader).ok
  BY DEF Then, Failed

LEMMA AppendPrefix ==
    ASSUME NEW k \in Nat, NEW vals
    PROVE  Append([i \in 1..k |-> vals[i]], vals[k + 1]) = [i \in 1..(k + 1) |-> vals[i]]
<1>1. PICK a : a = [i \in 1..k |-> vals[i]]
  OBVIOUS
<1>2. PICK V : V = {vals[i] : i \in 1..(k + 1)}
  OBVIOUS
<1>3. a \in Seq(V) /\ Len(a) = k /\ vals[k + 1] \in V
  BY <1>1, <1>2
<1>4. PICK c : c = Append(a, vals[k + 1])
  OBVIOUS
<1>5. /\ c \in Seq(V) /\ Len(c) = k + 1
      /\ \A i \in 1..k : c[i] = a[i]
      /\ c[k + 1] = vals[k + 1]
  BY <1>3, <1>4, AppendProperties
<1>6. c = [i \in 1..(k + 1) |-> c[i]]
  BY <1>5
<1>7. \A i \in 1..(k + 1) : c[i] = vals[i]
  BY <1>1, <1>5
<1> QED
  BY <1>1, <1>4, <1>6, <1>7

Firsts(vals, m) == [i \in 1..m |-> vals[i]]

(* As long as the readers read, what follows is left as it is.                  *)
HaveRead(readers, flat, m, vals) ==
    \A t \in Payload : Turns(readers, flat[m] \o t)[m] = Got(Firsts(vals, m), t)

LEMMA TurnsRead ==
    ASSUME NEW n \in Nat, NEW codes \in [1..n -> Payload], NEW flat, Flattens(flat, n, codes),
           NEW readers, Len(readers) = n, NEW vals, NEW m \in 0..n,
           \A i \in 1..m : Reads(readers[i], codes[i], vals[i])
    PROVE  HaveRead(readers, flat, m, vals)
<1>1. PICK S : S = {k \in Nat : \A t \in Payload :
                       Turns(readers, flat[k] \o t)[k] = Got(Firsts(vals, k), t)}
  OBVIOUS
<1>2. 0 \in S
  <2> SUFFICES ASSUME NEW t \in Payload
               PROVE  Turns(readers, flat[0] \o t)[0] = Got(Firsts(vals, 0), t)
    BY <1>1
  <2>1. flat[0] \o t = t
    BY ConcatEmptySeq DEF Flattens, Payload
  <2>2. Turns(readers, t)[0] = Got(<<>>, t)
    BY TurnByTurn
  <2>3. Firsts(vals, 0) = <<>>
    BY DEF Firsts
  <2> QED
    BY <2>1, <2>2, <2>3
<1>3. ASSUME NEW k \in Nat, k < m, k \in S PROVE k + 1 \in S
  <2> SUFFICES ASSUME NEW t \in Payload
               PROVE  Turns(readers, flat[k + 1] \o t)[k + 1] = Got(Firsts(vals, k + 1), t)
    BY <1>1
  <2>1. k < n /\ k + 1 \in 1..n /\ k + 1 \in 1..m /\ k \in 0..n
    BY <1>3
  <2>2. /\ flat[k] \in Payload /\ codes[k + 1] \in Payload
        /\ flat[k + 1] = flat[k] \o codes[k + 1]
    BY <2>1 DEF Flattens
  <2>3. PICK left \in Payload : left = codes[k + 1] \o t
    BY <2>2, Joined
  <2>4. PICK in \in Payload : in = flat[k + 1] \o t /\ in = flat[k] \o left
    <3>1. flat[k] \o left \in Payload
      BY <2>2, Joined
    <3>2. (flat[k] \o codes[k + 1]) \o t = flat[k] \o left
      BY <2>2, <2>3, Joined
    <3> QED
      BY <2>2, <3>1, <3>2
  <2>5. Turns(readers, in)[k] = Got(Firsts(vals, k), left)
    BY <1>1, <1>3, <2>4
  <2>6. readers[k + 1][left] = Got(vals[k + 1], t)
    BY <2>1, <2>3 DEF Reads
  <2>7. Turns(readers, in)[k + 1] = Then(Turns(readers, in)[k], readers[k + 1])
    BY <2>1, TurnByTurn
  <2>8. Turns(readers, in)[k + 1] = Got(Append(Firsts(vals, k), vals[k + 1]), t)
    BY <2>5, <2>6, <2>7, ThenReads
  <2> QED
    BY <2>4, <2>8, AppendPrefix, Zenon DEF Firsts
<1>4. m \in S
  BY <1>2, <1>3, UpTo, m \in Nat, m \in 0..m
<1> QED
  BY <1>1, <1>4 DEF HaveRead

(* All are read, or the first that is refused ends the reading.                 *)
LEMMA InTurnDecides ==
    ASSUME NEW n \in Nat, NEW codes \in [1..n -> Payload], NEW readers, Len(readers) = n, NEW vals,
           \A i \in 1..n : Reads(readers[i], codes[i], vals[i]) \/ Refuses(readers[i], codes[i])
    PROVE  /\ (\A i \in 1..n : Reads(readers[i], codes[i], vals[i])) =>
                 Reads(InTurn(readers), FlattenSeq(codes), Firsts(vals, n))
           /\ (\E i \in 1..n : Refuses(readers[i], codes[i])) =>
                 Refuses(InTurn(readers), FlattenSeq(codes))
<1>1. PICK flat : Flattens(flat, n, codes) /\ FlattenSeq(codes) = flat[n]
  BY FlattenSteps
<1>2. flat[n] \in Payload /\ flat[n] \in Seq(Nat)
  BY <1>1 DEF Flattens, Payload
<1>3. ASSUME \A i \in 1..n : Reads(readers[i], codes[i], vals[i])
      PROVE  Reads(InTurn(readers), FlattenSeq(codes), Firsts(vals, n))
  <2>1. ASSUME NEW t \in Payload
        PROVE  InTurn(readers)[flat[n] \o t] = Got(Firsts(vals, n), t)
    <3>1. Turns(readers, flat[n] \o t)[n] = Got(Firsts(vals, n), t)
      <4>1. HaveRead(readers, flat, n, vals)
        <5>1. n \in 0..n
          OBVIOUS
        <5> QED
          BY <1>1, <1>3, <5>1, TurnsRead, Zenon
      <4> QED
        BY <4>1 DEF HaveRead
    <3>2. flat[n] \o t \in Payload
      BY <1>2, Joined
    <3> QED
      BY <3>1, <3>2, TurnByTurn
  <2> QED
    BY <1>1, <1>2, <2>1 DEF Reads
<1>4. ASSUME NEW some \in 1..n, Refuses(readers[some], codes[some])
      PROVE  Refuses(InTurn(readers), FlattenSeq(codes))
  <2>1. PICK bad : bad = {i \in 1..n : Refuses(readers[i], codes[i])}
    OBVIOUS
  <2>2. PICK j : j = Least(bad)
    OBVIOUS
  <2>3. j \in bad /\ \A i \in bad : j <= i
    <3>1. bad \in SUBSET Nat /\ bad # {}
      BY <1>4, <2>1
    <3> QED
      BY <2>2, <3>1, LeastOf
  <2>4. j \in 1..n /\ Refuses(readers[j], codes[j])
    BY <2>1, <2>3
  <2>5. PICK k \in Nat : k + 1 = j /\ k < n /\ k \in 0..n
    BY <2>4, j - 1 \in Nat
  <2>6. \A i \in 1..k : Reads(readers[i], codes[i], vals[i])
    <3> SUFFICES ASSUME NEW i \in 1..k PROVE Reads(readers[i], codes[i], vals[i])
      OBVIOUS
    <3>1. i \in 1..n /\ ~ j <= i
      BY <2>4, <2>5
    <3> QED
      BY <2>1, <2>3, <3>1
  <2>7. PICK rest \in Payload : flat[n] = flat[j] \o rest
    BY <1>1, <2>4, FlattenSplits, j \in 0..n
  <2>8. ASSUME NEW t \in Payload PROVE ~ InTurn(readers)[flat[n] \o t].ok
    <3>1. /\ flat[k] \in Payload /\ flat[j] \in Payload /\ codes[j] \in Payload
          /\ flat[j] = flat[k] \o codes[j]
      <4>1. /\ flat \in [0..n -> Payload]
            /\ flat[k + 1] = flat[k] \o codes[k + 1]
        BY <1>1, <2>5 DEF Flattens
      <4>2. k \in 0..n /\ j \in 0..n
        BY <2>4, <2>5
      <4> QED
        BY <2>4, <2>5, <4>1, <4>2
    <3>2. PICK after \in Payload : after = rest \o t
      BY Joined
    <3>3. PICK left \in Payload : left = codes[j] \o after
      BY <3>1, Joined
    <3>4. PICK in \in Payload : in = flat[n] \o t
      BY <1>2, Joined
    <3>5. in = flat[k] \o left
      <4>1. (flat[j] \o rest) \o t = flat[j] \o after
        BY <2>7, <3>1, <3>2, Joined, Zenon
      <4>2. (flat[k] \o codes[j]) \o after = flat[k] \o left
        <5>1. (flat[k] \o codes[j]) \o after = flat[k] \o (codes[j] \o after)
          BY <3>1, <3>2, Joined, Zenon
        <5> QED
          BY <3>3, <5>1, Zenon
      <4> QED
        BY <2>7, <3>1, <3>4, <4>1, <4>2
    <3>6. Turns(readers, in)[k] = Got(Firsts(vals, k), left)
      <4>1. HaveRead(readers, flat, k, vals)
        BY <1>1, <2>5, <2>6, TurnsRead, Zenon
      <4> QED
        BY <3>5, <4>1 DEF HaveRead
    <3>7. ~ readers[j][left].ok
      BY <2>4, <3>2, <3>3 DEF Refuses
    <3>8. ~ Turns(readers, in)[j].ok
      <4>1. Turns(readers, in)[j] = Then(Turns(readers, in)[k], readers[j])
        <5>1. \A l \in Nat : l < n =>
                 Turns(readers, in)[l + 1] = Then(Turns(readers, in)[l], readers[l + 1])
          BY TurnByTurn, Zenon
        <5>2. Turns(readers, in)[k + 1] = Then(Turns(readers, in)[k], readers[k + 1])
          BY <2>5, <5>1, Zenon
        <5> QED
          BY <2>5, <5>2, Zenon
      <4>2. Turns(readers, in)[k].rest = left
        BY <3>6 DEF Got
      <4> QED
        BY <3>7, <4>1, <4>2, ThenRefuses
    <3>9. ~ Turns(readers, in)[n].ok
      <4>1. PICK S : S = {i \in Nat : j <= i => ~ Turns(readers, in)[i].ok}
        OBVIOUS
      <4>2. 0 \in S
        BY <2>4, <4>1
      <4>3. ASSUME NEW i \in Nat, i < n, i \in S PROVE i + 1 \in S
        <5>1. CASE i + 1 <= j
          BY <2>4, <3>8, <4>1, <5>1
        <5>2. CASE j <= i
          <6>1. ~ Turns(readers, in)[i].ok
            BY <4>1, <4>3, <5>2
          <6>2. \A l \in Nat : l < n =>
                   Turns(readers, in)[l + 1] = Then(Turns(readers, in)[l], readers[l + 1])
            BY TurnByTurn, Zenon
          <6>3. Turns(readers, in)[i + 1] = Then(Turns(readers, in)[i], readers[i + 1])
            BY <4>3, <6>2
          <6> QED
            BY <4>1, <6>1, <6>3, ThenRefuses
        <5> QED
          BY <2>4, <5>1, <5>2
      <4>4. n \in S
        BY <4>2, <4>3, UpTo, n \in 0..n
      <4> QED
        BY <2>4, <4>1, <4>4
    <3> QED
      BY <3>4, <3>9, TurnByTurn
  <2> QED
    BY <1>1, <1>2, <2>8 DEF Refuses
<1> QED
  BY <1>3, <1>4

(* A prefix that all read is read in the same way of the whole.                 *)
LEMMA SteadyInTurn ==
    ASSUME NEW n \in Nat, NEW readers, Len(readers) = n,
           \A i \in 1..n : Steady(readers[i])
    PROVE  Steady(InTurn(readers))
<1> SUFFICES ASSUME NEW in \in Payload, NEW t \in Payload, InTurn(readers)[in].ok
             PROVE  \E v : \E rest \in Payload : /\ InTurn(readers)[in] = Got(v, rest)
                                                /\ InTurn(readers)[in \o t] = Got(v, rest \o t)
  BY DEF Steady
<1>1. PICK more \in Payload : more = in \o t
  BY ConcatProperties DEF Payload
<1> DEFINE Same(k) == \E v : \E rest \in Payload :
                         /\ Turns(readers, in)[k] = Got(v, rest)
                         /\ Turns(readers, more)[k] = Got(v, rest \o t)
<1>2. PICK S : S = {k \in Nat : Turns(readers, in)[k].ok => Same(k)}
  OBVIOUS
<1>3. 0 \in S
  <2>1. Turns(readers, in)[0] = Got(<<>>, in) /\ Turns(readers, more)[0] = Got(<<>>, in \o t)
    BY <1>1, TurnByTurn
  <2> QED
    BY <1>2, <2>1
<1>4. ASSUME NEW k \in Nat, k < n, k \in S PROVE k + 1 \in S
  <2> SUFFICES ASSUME Turns(readers, in)[k + 1].ok PROVE Same(k + 1)
    BY <1>2
  <2>1. /\ Turns(readers, in)[k + 1] = Then(Turns(readers, in)[k], readers[k + 1])
        /\ Turns(readers, more)[k + 1] = Then(Turns(readers, more)[k], readers[k + 1])
    BY <1>4, TurnByTurn
  <2>2. /\ Turns(readers, in)[k].ok
        /\ readers[k + 1][Turns(readers, in)[k].rest].ok
    BY <2>1, ThenRefuses
  <2>3. PICK v : \E rest \in Payload : /\ Turns(readers, in)[k] = Got(v, rest)
                                       /\ Turns(readers, more)[k] = Got(v, rest \o t)
    BY <1>2, <1>4, <2>2
  <2> PICK rest \in Payload : /\ Turns(readers, in)[k] = Got(v, rest)
                              /\ Turns(readers, more)[k] = Got(v, rest \o t)
    BY <2>3
  <2>4. Turns(readers, in)[k].rest = rest
    BY DEF Got
  <2>5. PICK w : \E left \in Payload : /\ readers[k + 1][rest] = Got(w, left)
                                       /\ readers[k + 1][rest \o t] = Got(w, left \o t)
    <3>1. Steady(readers[k + 1])
      BY <1>4
    <3> QED
      BY <2>2, <2>4, <3>1 DEF Steady
  <2> PICK left \in Payload : /\ readers[k + 1][rest] = Got(w, left)
                              /\ readers[k + 1][rest \o t] = Got(w, left \o t)
    BY <2>5
  <2>6. Turns(readers, in)[k + 1] = Got(Append(v, w), left)
    BY <2>1, ThenReads
  <2>7. Turns(readers, more)[k + 1] = Got(Append(v, w), left \o t)
    BY <2>1, ThenReads
  <2> QED
    BY <2>6, <2>7
<1>5. n \in S
  BY <1>3, <1>4, UpTo, n \in 0..n
<1>6. InTurn(readers)[in] = Turns(readers, in)[n] /\ InTurn(readers)[more] = Turns(readers, more)[n]
  BY TurnByTurn
<1> QED
  BY <1>1, <1>2, <1>5, <1>6

----------------------------------------------------------------------------
(* Vectors and records *)

(* A count, and what follows it.                                                *)
LEMMA CountFirst ==
    ASSUME NEW n \in Nat, NEW body \in Payload, NEW t \in Payload
    PROVE  /\ <<n>> \o body \in Payload
           /\ (<<n>> \o body) \o t \in Payload
           /\ (<<n>> \o body) \o t # <<>>
           /\ Head((<<n>> \o body) \o t) = n
           /\ Tail((<<n>> \o body) \o t) = body \o t
<1>1. <<n>> \in Payload
  BY DEF Payload
<1>2. <<n>> \o body \in Payload /\ body \o t \in Payload
  BY <1>1, Joined
<1>3. PICK rest \in Seq(Nat) : rest = body \o t
  BY <1>2 DEF Payload
<1>4. (<<n>> \o body) \o t = <<n>> \o rest
  BY <1>1, <1>3, Joined
<1>5. /\ <<n>> \o rest \in Seq(Nat) /\ <<n>> \o rest # <<>>
      /\ Head(<<n>> \o rest) = n /\ Tail(<<n>> \o rest) = rest
  OBVIOUS
<1> QED
  BY <1>2, <1>3, <1>4, <1>5 DEF Payload

LEMMA RepeatedDecides ==
    ASSUME NEW reader, NEW limit \in Nat,
           NEW n \in Nat, NEW codes \in [1..n -> Payload], NEW v, v = Firsts(v, n),
           \A i \in 1..n : Reads(reader, codes[i], v[i]) \/ Refuses(reader, codes[i])
    PROVE  /\ n <= limit /\ (\A i \in 1..n : Reads(reader, codes[i], v[i])) =>
                 Reads(Repeated(reader, limit), <<n>> \o FlattenSeq(codes), v)
           /\ n > limit \/ (\E i \in 1..n : Refuses(reader, codes[i])) =>
                 Refuses(Repeated(reader, limit), <<n>> \o FlattenSeq(codes))
<1>1. PICK readers : readers = [i \in 1..n |-> reader]
  OBVIOUS
<1>2. Len(readers) = n /\ \A i \in 1..n : readers[i] = reader
  BY <1>1
<1>3. PICK body \in Payload : body = FlattenSeq(codes)
  BY Flattened
<1>4. ASSUME NEW t \in Payload
      PROVE  Repeated(reader, limit)[(<<n>> \o body) \o t] =
                IF n > limit THEN Failed ELSE InTurn(readers)[body \o t]
  <2>1. PICK in \in Payload : /\ in = (<<n>> \o body) \o t /\ in # <<>>
                              /\ Head(in) = n /\ Tail(in) = body \o t
    BY CountFirst
  <2>2. Repeated(reader, limit)[in] =
           IF in = <<>> \/ Head(in) > limit THEN Failed
           ELSE InTurn([i \in 1..Head(in) |-> reader])[Tail(in)]
    BY DEF Repeated
  <2> QED
    BY <1>1, <2>1, <2>2
<1>5. <<n>> \o body \in Payload
  BY CountFirst, Joined
<1>6. /\ (\A i \in 1..n : Reads(reader, codes[i], v[i])) => Reads(InTurn(readers), body, v)
      /\ (\E i \in 1..n : Refuses(reader, codes[i])) => Refuses(InTurn(readers), body)
  <2>1. \A i \in 1..n : Reads(readers[i], codes[i], v[i]) \/ Refuses(readers[i], codes[i])
    BY <1>2
  <2>2. /\ (\A i \in 1..n : Reads(readers[i], codes[i], v[i])) =>
              Reads(InTurn(readers), FlattenSeq(codes), Firsts(v, n))
        /\ (\E i \in 1..n : Refuses(readers[i], codes[i])) =>
              Refuses(InTurn(readers), FlattenSeq(codes))
    BY <1>2, <2>1, InTurnDecides, Zenon
  <2> QED
    BY <1>2, <1>3, <2>2
<1>7. ASSUME n <= limit, \A i \in 1..n : Reads(reader, codes[i], v[i])
      PROVE  Reads(Repeated(reader, limit), <<n>> \o body, v)
  <2>1. \A t \in Payload : InTurn(readers)[body \o t] = Got(v, t)
    BY <1>6, <1>7 DEF Reads
  <2>2. ~ n > limit
    BY <1>7
  <2> QED
    BY <1>4, <1>5, <2>1, <2>2 DEF Reads
<1>8. ASSUME n > limit \/ \E i \in 1..n : Refuses(reader, codes[i])
      PROVE  Refuses(Repeated(reader, limit), <<n>> \o body)
  <2> SUFFICES ASSUME NEW t \in Payload
               PROVE  ~ Repeated(reader, limit)[(<<n>> \o body) \o t].ok
    BY <1>5 DEF Refuses
  <2>1. CASE n > limit
    BY <1>4, <2>1 DEF Failed
  <2>2. CASE ~ n > limit
    <3>1. ~ InTurn(readers)[body \o t].ok
      BY <1>6, <1>8, <2>2 DEF Refuses
    <3> QED
      BY <1>4, <2>2, <3>1
  <2> QED
    BY <2>1, <2>2
<1> QED
  BY <1>3, <1>7, <1>8

LEMMA SteadyRepeated ==
    ASSUME NEW reader, NEW limit \in Nat, Steady(reader)
    PROVE  Steady(Repeated(reader, limit))
<1> SUFFICES ASSUME NEW in \in Payload, NEW t \in Payload, Repeated(reader, limit)[in].ok
             PROVE  \E v : \E rest \in Payload :
                       /\ Repeated(reader, limit)[in] = Got(v, rest)
                       /\ Repeated(reader, limit)[in \o t] = Got(v, rest \o t)
  BY DEF Steady
<1>1. in # <<>> /\ ~ Head(in) > limit
      /\ Repeated(reader, limit)[in] = InTurn([i \in 1..Head(in) |-> reader])[Tail(in)]
  BY DEF Repeated, Failed
<1> in \in Seq(Nat)
  BY DEF Payload
<1>2. PICK n \in Nat : n = Head(in)
  BY <1>1, HeadTailProperties
<1>3. PICK body \in Payload : body = Tail(in)
  <2>1. Tail(in) \in Seq(Nat)
    BY <1>1, HeadTailProperties
  <2> QED
    BY <2>1 DEF Payload
<1>4. PICK more \in Payload : /\ more = in \o t /\ more # <<>>
                              /\ Head(more) = n /\ Tail(more) = body \o t
  <2>1. in = <<n>> \o body
    BY <1>1, <1>2, <1>3
  <2>2. /\ (<<n>> \o body) \o t \in Payload
        /\ (<<n>> \o body) \o t # <<>>
        /\ Head((<<n>> \o body) \o t) = n
        /\ Tail((<<n>> \o body) \o t) = body \o t
    BY CountFirst
  <2> QED
    BY <2>1, <2>2
<1>5. PICK readers : readers = [i \in 1..n |-> reader]
  OBVIOUS
<1>6. Len(readers) = n /\ \A i \in 1..n : Steady(readers[i])
  BY <1>5
<1>7. Steady(InTurn(readers))
  BY <1>6, SteadyInTurn
<1>8. Repeated(reader, limit)[more] = InTurn(readers)[body \o t]
  BY <1>1, <1>2, <1>4, <1>5 DEF Repeated
<1>9. Repeated(reader, limit)[in] = InTurn(readers)[body]
  BY <1>1, <1>2, <1>3, <1>5
<1> QED
  BY <1>4, <1>7, <1>8, <1>9 DEF Steady

(* What is read of each name in turn is the record whose fields were written.   *)
LEMMA FieldsDecide ==
    ASSUME NEW n \in Nat, NEW names, names = Firsts(names, n), NEW readers, Len(readers) = n,
           NEW codes \in [1..n -> Payload], NEW v, HasFields(names, v),
           \A i \in 1..n : \/ Reads(readers[i], codes[i], v[names[i]])
                          \/ Refuses(readers[i], codes[i])
    PROVE  /\ (\A i \in 1..n : Reads(readers[i], codes[i], v[names[i]])) =>
                 Reads(Fields(names, readers), FlattenSeq(codes), v)
           /\ (\E i \in 1..n : Refuses(readers[i], codes[i])) =>
                 Refuses(Fields(names, readers), FlattenSeq(codes))
<1>1. PICK vals : vals = [i \in 1..n |-> v[names[i]]]
  OBVIOUS
<1>2. PICK body \in Payload : body = FlattenSeq(codes)
  BY Flattened
<1>3. DOMAIN names = 1..n
  BY DEF Firsts
<1>4. ASSUME NEW in \in Payload
      PROVE  Fields(names, readers)[in] =
                IF InTurn(readers)[in].ok
                THEN Got(RecordFrom(names, InTurn(readers)[in].got), InTurn(readers)[in].rest)
                ELSE Failed
  BY DEF Fields
<1>5. /\ (\A i \in 1..n : Reads(readers[i], codes[i], v[names[i]])) =>
            Reads(InTurn(readers), body, vals)
      /\ (\E i \in 1..n : Refuses(readers[i], codes[i])) => Refuses(InTurn(readers), body)
  <2>1. \A i \in 1..n : vals[i] = v[names[i]]
    BY <1>1
  <2>2. \A i \in 1..n : Reads(readers[i], codes[i], vals[i]) \/ Refuses(readers[i], codes[i])
    BY <2>1
  <2>3. vals = Firsts(vals, n)
    BY <1>1 DEF Firsts
  <2>4. /\ (\A i \in 1..n : Reads(readers[i], codes[i], vals[i])) =>
              Reads(InTurn(readers), FlattenSeq(codes), Firsts(vals, n))
        /\ (\E i \in 1..n : Refuses(readers[i], codes[i])) =>
              Refuses(InTurn(readers), FlattenSeq(codes))
    BY <2>2, InTurnDecides, Zenon
  <2> QED
    BY <1>2, <2>1, <2>3, <2>4
<1>6. RecordFrom(names, vals) = v
  <2>1. ASSUME NEW name \in ToSet(names)
        PROVE  vals[CHOOSE i \in DOMAIN names : names[i] = name] = v[name]
    <3>1. \E i \in 1..n : names[i] = name
      BY <1>3 DEF ToSet
    <3>2. PICK i \in 1..n : i = (CHOOSE j \in DOMAIN names : names[j] = name) /\ names[i] = name
      BY <1>3, <3>1
    <3> QED
      BY <1>1, <3>2
  <2> QED
    BY <2>1 DEF HasFields, RecordFrom
<1>7. ASSUME \A i \in 1..n : Reads(readers[i], codes[i], v[names[i]])
      PROVE  Reads(Fields(names, readers), body, v)
  <2>1. ASSUME NEW t \in Payload PROVE Fields(names, readers)[body \o t] = Got(v, t)
    <3>1. InTurn(readers)[body \o t] = Got(vals, t)
      BY <1>5, <1>7 DEF Reads
    <3>2. /\ InTurn(readers)[body \o t].ok
          /\ InTurn(readers)[body \o t].got = vals
          /\ InTurn(readers)[body \o t].rest = t
      BY <3>1 DEF Got
    <3>3. body \o t \in Payload
      BY Joined
    <3> QED
      BY <1>4, <1>6, <3>2, <3>3
  <2> QED
    BY <2>1 DEF Reads
<1>8. ASSUME \E i \in 1..n : Refuses(readers[i], codes[i])
      PROVE  Refuses(Fields(names, readers), body)
  <2>1. ASSUME NEW t \in Payload PROVE ~ Fields(names, readers)[body \o t].ok
    <3>1. ~ InTurn(readers)[body \o t].ok
      BY <1>5, <1>8 DEF Refuses
    <3>2. Fields(names, readers)[body \o t] = Failed
      BY <1>4, <3>1, Joined
    <3> QED
      BY <3>2 DEF Failed
  <2> QED
    BY <2>1 DEF Refuses
<1> QED
  BY <1>2, <1>7, <1>8

LEMMA SteadyFields ==
    ASSUME NEW n \in Nat, NEW names, NEW readers, Len(readers) = n,
           \A i \in 1..n : Steady(readers[i])
    PROVE  Steady(Fields(names, readers))
<1> SUFFICES ASSUME NEW in \in Payload, NEW t \in Payload, Fields(names, readers)[in].ok
             PROVE  \E v : \E rest \in Payload :
                       /\ Fields(names, readers)[in] = Got(v, rest)
                       /\ Fields(names, readers)[in \o t] = Got(v, rest \o t)
  BY DEF Steady
<1>1. ASSUME NEW u \in Payload
      PROVE  Fields(names, readers)[u] =
                IF InTurn(readers)[u].ok
                THEN Got(RecordFrom(names, InTurn(readers)[u].got), InTurn(readers)[u].rest)
                ELSE Failed
  BY DEF Fields
<1>2. InTurn(readers)[in].ok
  BY <1>1 DEF Failed
<1>3. Steady(InTurn(readers))
  BY SteadyInTurn
<1>4. PICK w : \E rest \in Payload : /\ InTurn(readers)[in] = Got(w, rest)
                                     /\ InTurn(readers)[in \o t] = Got(w, rest \o t)
  BY <1>2, <1>3 DEF Steady
<1>5. PICK rest \in Payload : /\ InTurn(readers)[in] = Got(w, rest)
                              /\ InTurn(readers)[in \o t] = Got(w, rest \o t)
  BY <1>4
<1>6. ASSUME NEW x PROVE Got(w, x).ok /\ Got(w, x).rest = x /\ Got(w, x).got = w
  BY DEF Got
<1>7. Fields(names, readers)[in] = Got(RecordFrom(names, w), rest)
  BY <1>1, <1>5, <1>6
<1>8. Fields(names, readers)[in \o t] = Got(RecordFrom(names, w), rest \o t)
  <2>1. in \o t \in Payload
    BY Joined
  <2> QED
    BY <1>1, <1>5, <1>6, <2>1
<1> QED
  BY <1>7, <1>8

----------------------------------------------------------------------------
(* The fields of a snapshot *)

LEMMA ListIsSequence ==
    ASSUME NEW S, NEW names \in Seq(S)
    PROVE  Len(names) \in Nat /\ names = Firsts(names, Len(names))
  BY DEF Firsts

(* Reader and writer have the same lists.                                       *)
LEMMA SameLists ==
    /\ ReadRecord = WrittenRecord
    /\ ReadAuthority = WrittenAuthority
    /\ Read = Written
<1>1. ReadRecord = WrittenRecord
  BY Zenon DEF ReadRecord, WrittenRecord
<1>2. ReadAuthority = WrittenAuthority
  BY Zenon DEF ReadAuthority, WrittenAuthority
<1> QED
  BY <1>1, <1>2, Zenon DEF Read, Written

IsList(names) == Len(names) \in Nat /\ names = Firsts(names, Len(names))

LEMMA ListsAreSequences ==
    /\ IsList(WrittenRecord)
    /\ \A name \in DOMAIN Written : IsList(Written[name])
<1>1. IsList(WrittenRecord)
  <2>1. Len(WrittenRecord) = 49 /\ WrittenRecord = Firsts(WrittenRecord, 49)
    BY DEF WrittenRecord, Firsts
  <2> QED
    BY <2>1 DEF IsList
<1>2. IsList(<<"magic", "version", "records", "status">> \o WrittenAuthority)
  <2>1. PICK S : S = {WrittenAuthority[i] : i \in 1..12} \cup {"magic", "version", "records", "status"}
    OBVIOUS
  <2>2. WrittenAuthority \in Seq(S)
    <3>1. Len(WrittenAuthority) = 12 /\ WrittenAuthority = Firsts(WrittenAuthority, 12)
      BY DEF WrittenAuthority, Firsts
    <3> QED
      BY <2>1, <3>1 DEF Firsts
  <2>3. <<"magic", "version", "records", "status">> \in Seq(S)
    BY <2>1
  <2>4. <<"magic", "version", "records", "status">> \o WrittenAuthority \in Seq(S)
    BY <2>2, <2>3, ConcatProperties
  <2> QED
    BY <2>4, ListIsSequence DEF IsList
<1>3. /\ IsList(<<"id", "validity", "reason", "provenance_generation", "detail">>)
      /\ IsList(<<"worker", "boot">>)
      /\ IsList(<<"id">>)
      /\ IsList(<<"id", "generation", "kind", "revision">>)
      /\ IsList(<<"dimension", "required_value", "note">>)
  BY DEF IsList, Firsts
<1>4. ASSUME NEW name \in DOMAIN Written PROVE IsList(Written[name])
  <2>1. name \in {"snapshot", "records", "status", "boots", "input_states", "parent_provenance",
                  "dependencies", "requirements"}
    BY DEF Written
  <2>2. /\ Written["snapshot"] = <<"magic", "version", "records", "status">> \o WrittenAuthority
        /\ Written["records"] = WrittenRecord
        /\ Written["status"] = <<"id", "validity", "reason", "provenance_generation", "detail">>
        /\ Written["boots"] = <<"worker", "boot">>
        /\ Written["input_states"] = <<"id">>
        /\ Written["parent_provenance"] = <<"id">>
        /\ Written["dependencies"] = <<"id", "generation", "kind", "revision">>
        /\ Written["requirements"] = <<"dimension", "required_value", "note">>
    BY DEF Written
  <2> QED
    BY <1>1, <1>2, <1>3, <2>1, <2>2
<1> QED
  BY <1>1, <1>4

LEMMA FlatServes ==
    ASSUME NEW name
    PROVE  /\ Steady(FlatReader(name))
           /\ \A v : IsFlat(name, v) => Reads(FlatReader(name), WriteFlat(name, v), v)
<1>1. CASE name \in Strings
  <2>1. FlatReader(name) = Text
    BY <1>1 DEF FlatReader
  <2>2. ASSUME NEW v, IsFlat(name, v) PROVE Reads(Text, WriteFlat(name, v), v)
    <3>1. v \in Seq(Nat) /\ Len(v) <= MaxString /\ WriteFlat(name, v) = <<Len(v)>> \o v
      BY <1>1, <2>2 DEF IsFlat, WriteFlat
    <3>2. \A w : w \in Seq(Nat) /\ Len(w) <= MaxString => Reads(Text, <<Len(w)>> \o w, w)
      BY TextReader
    <3> QED
      BY <3>1, <3>2
  <2> QED
    BY <2>1, <2>2, TextReader
<1>2. CASE name \notin Strings
  <2>1. FlatReader(name) = Scalar(name)
    BY <1>2 DEF FlatReader
  <2>2. ASSUME NEW v, IsFlat(name, v) PROVE Reads(Scalar(name), WriteFlat(name, v), v)
    BY <1>2, <2>2, ScalarReader DEF WriteFlat
  <2> QED
    BY <2>1, <2>2, ScalarReader
<1> QED
  BY <1>1, <1>2

LEMMA ItemServes ==
    ASSUME NEW vector \in Vectors
    PROVE  /\ Steady(ItemReader(vector))
           /\ \A v : IsItem(vector, v) =>
                 Reads(ItemReader(vector), InOrder(Written[vector], v, WriteFlat), v)
<1>1. PICK names : names = Written[vector] /\ names = Read[vector]
  BY SameLists
<1>2. PICK n \in Nat : n = Len(names) /\ names = Firsts(names, n)
  <2>1. vector \in DOMAIN Written
    BY DEF Vectors
  <2> QED
    BY <1>1, <2>1, ListsAreSequences DEF IsList
<1>3. DOMAIN names = 1..n
  BY <1>2 DEF Firsts
<1>4. PICK readers : readers = [i \in 1..n |-> FlatReader(names[i])]
  OBVIOUS
<1>5. Len(readers) = n /\ \A i \in 1..n : readers[i] = FlatReader(names[i])
  BY <1>4
<1>6. ItemReader(vector) = Fields(names, readers)
  BY <1>1, <1>3, <1>4, Zenon DEF ItemReader
<1>7. Steady(ItemReader(vector))
  <2>1. \A i \in 1..n : Steady(readers[i])
    BY <1>5, FlatServes
  <2> QED
    BY <1>5, <1>6, <2>1, SteadyFields
<1>8. ASSUME NEW v, IsItem(vector, v)
      PROVE  Reads(ItemReader(vector), InOrder(Written[vector], v, WriteFlat), v)
  <2>1. PICK codes : codes = [i \in 1..n |-> WriteFlat(names[i], v[names[i]])]
    OBVIOUS
  <2>2. InOrder(names, v, WriteFlat) = FlattenSeq(codes)
    BY <1>3, <2>1, Zenon DEF InOrder
  <2>3. HasFields(names, v) /\ \A i \in 1..n : IsFlat(names[i], v[names[i]])
    <3>1. HasFields(names, v) /\ \A name \in DOMAIN v : IsFlat(name, v[name])
      BY <1>1, <1>8 DEF IsItem
    <3>2. DOMAIN v = ToSet(names)
      BY <3>1 DEF HasFields
    <3>3. \A i \in 1..n : names[i] \in ToSet(names)
      BY <1>3 DEF ToSet
    <3> QED
      BY <3>1, <3>2, <3>3
  <2>4. \A i \in 1..n : Reads(readers[i], codes[i], v[names[i]])
    BY <1>5, <2>1, <2>3, FlatServes
  <2>5. codes \in [1..n -> Payload]
    BY <2>1, <2>4 DEF Reads
  <2>6. Reads(Fields(names, readers), FlattenSeq(codes), v)
    BY <1>2, <1>5, <2>3, <2>4, <2>5, FieldsDecide
  <2> QED
    BY <1>1, <1>6, <2>2, <2>6
<1> QED
  BY <1>7, <1>8

(* What the reader accepts of a field, of a record and of a part.               *)
FieldFits(name, v) == name \in Vectors => Len(v) <= MaxVec

RecordFits(v) == \A i \in DOMAIN WrittenRecord : FieldFits(WrittenRecord[i], v[WrittenRecord[i]])

PartFits(name, v) ==
    IF name = "records" THEN Len(v) <= MaxRecords /\ \A i \in DOMAIN v : RecordFits(v[i])
    ELSE FieldFits(name, v)

LEMMA FieldServes ==
    ASSUME NEW name
    PROVE  /\ Steady(FieldReader(name))
           /\ \A v : IsField(name, v) =>
                 /\ FieldFits(name, v) => Reads(FieldReader(name), WriteField(name, v), v)
                 /\ ~ FieldFits(name, v) => Refuses(FieldReader(name), WriteField(name, v))
<1>1. CASE name \notin Vectors
  <2>1. FieldReader(name) = FlatReader(name)
    BY <1>1 DEF FieldReader
  <2>2. ASSUME NEW v, IsField(name, v)
        PROVE  FieldFits(name, v) /\ Reads(FieldReader(name), WriteField(name, v), v)
    <3>1. IsFlat(name, v)
      BY <1>1, <2>2 DEF IsField
    <3>2. WriteField(name, v) = WriteFlat(name, v)
      BY <1>1 DEF WriteField
    <3> QED
      BY <1>1, <2>1, <3>1, <3>2, FlatServes DEF FieldFits
  <2> QED
    BY <2>1, <2>2, FlatServes
<1>2. CASE name \in Vectors
  <2>1. FieldReader(name) = Repeated(ItemReader(name), MaxVec)
    BY <1>2 DEF FieldReader
  <2>2. Steady(FieldReader(name))
    BY <1>2, <2>1, ItemServes, SteadyRepeated, LimitsAssumption
  <2>3. ASSUME NEW v, IsField(name, v)
        PROVE  /\ FieldFits(name, v) => Reads(FieldReader(name), WriteField(name, v), v)
               /\ ~ FieldFits(name, v) => Refuses(FieldReader(name), WriteField(name, v))
    <3>1. PICK n \in Nat : n = Len(v) /\ v = Firsts(v, n) /\ \A i \in DOMAIN v : IsItem(name, v[i])
      BY <1>2, <2>3 DEF IsField, IsVector, Firsts
    <3>2. DOMAIN v = 1..n
      BY <3>1 DEF Firsts
    <3>3. PICK codes : codes = [i \in 1..n |-> InOrder(Written[name], v[i], WriteFlat)]
      OBVIOUS
    <3>4. \A i \in 1..n : Reads(ItemReader(name), codes[i], v[i])
      BY <1>2, <3>1, <3>2, <3>3, ItemServes
    <3>5. codes \in [1..n -> Payload]
      BY <3>3, <3>4 DEF Reads
    <3>6. WriteField(name, v) = <<n>> \o FlattenSeq(codes)
      <4>1. WriteField(name, v) = <<Len(codes)>> \o FlattenSeq(codes)
        BY <1>2, <3>2, <3>3, Zenon DEF WriteField, Counted
      <4>2. Len(codes) = n
        BY <3>5
      <4> QED
        BY <4>1, <4>2, Zenon
    <3>7. FieldFits(name, v) <=> n <= MaxVec
      BY <1>2, <3>1 DEF FieldFits
    <3>8. ~ n <= MaxVec <=> n > MaxVec
      BY LimitsAssumption
    <3>9. /\ n <= MaxVec => Reads(Repeated(ItemReader(name), MaxVec), <<n>> \o FlattenSeq(codes), v)
          /\ n > MaxVec => Refuses(Repeated(ItemReader(name), MaxVec), <<n>> \o FlattenSeq(codes))
      BY <3>1, <3>4, <3>5, RepeatedDecides, LimitsAssumption
    <3> QED
      BY <2>1, <3>6, <3>7, <3>8, <3>9
  <2> QED
    BY <2>2, <2>3
<1> QED
  BY <1>1, <1>2

LEMMA RecordServes ==
    /\ Steady(RecordReader)
    /\ \A v : IsRecord(v) =>
          /\ RecordFits(v) => Reads(RecordReader, WriteRecord(v), v)
          /\ ~ RecordFits(v) => Refuses(RecordReader, WriteRecord(v))
<1>1. PICK names : names = WrittenRecord /\ names = ReadRecord
  BY SameLists
<1>2. PICK n \in Nat : n = Len(names) /\ names = Firsts(names, n)
  BY <1>1, ListsAreSequences DEF IsList
<1>3. DOMAIN names = 1..n
  BY <1>2 DEF Firsts
<1>4. PICK readers : readers = [i \in 1..n |-> FieldReader(names[i])]
  OBVIOUS
<1>5. Len(readers) = n /\ \A i \in 1..n : readers[i] = FieldReader(names[i])
  BY <1>4
<1>6. RecordReader = Fields(names, readers)
  BY <1>1, <1>3, <1>4, Zenon DEF RecordReader
<1>7. Steady(RecordReader)
  <2>1. \A i \in 1..n : Steady(readers[i])
    BY <1>5, FieldServes
  <2> QED
    BY <1>5, <1>6, <2>1, SteadyFields
<1>8. ASSUME NEW v, IsRecord(v)
      PROVE  /\ RecordFits(v) => Reads(RecordReader, WriteRecord(v), v)
             /\ ~ RecordFits(v) => Refuses(RecordReader, WriteRecord(v))
  <2>1. PICK codes : codes = [i \in 1..n |-> WriteField(names[i], v[names[i]])]
    OBVIOUS
  <2>2. WriteRecord(v) = FlattenSeq(codes)
    BY <1>1, <1>3, <2>1, Zenon DEF WriteRecord, InOrder
  <2>3. HasFields(names, v) /\ \A i \in 1..n : IsField(names[i], v[names[i]])
    <3>1. HasFields(names, v) /\ \A name \in DOMAIN v : IsField(name, v[name])
      BY <1>1, <1>8 DEF IsRecord
    <3>2. DOMAIN v = ToSet(names)
      BY <3>1 DEF HasFields
    <3>3. \A i \in 1..n : names[i] \in ToSet(names)
      BY <1>3 DEF ToSet
    <3> QED
      BY <3>1, <3>2, <3>3
  <2>4. \A i \in 1..n :
           /\ FieldFits(names[i], v[names[i]]) => Reads(readers[i], codes[i], v[names[i]])
           /\ ~ FieldFits(names[i], v[names[i]]) => Refuses(readers[i], codes[i])
    BY <1>5, <2>1, <2>3, FieldServes
  <2>5. codes \in [1..n -> Payload]
    BY <2>1, <2>4 DEF Reads, Refuses
  <2>6. RecordFits(v) <=> \A i \in 1..n : FieldFits(names[i], v[names[i]])
    BY <1>1, <1>3 DEF RecordFits
  <2>7. \A i \in 1..n : Reads(readers[i], codes[i], v[names[i]]) \/ Refuses(readers[i], codes[i])
    BY <2>4
  <2>8. /\ (\A i \in 1..n : Reads(readers[i], codes[i], v[names[i]])) =>
              Reads(Fields(names, readers), FlattenSeq(codes), v)
        /\ (\E i \in 1..n : Refuses(readers[i], codes[i])) =>
              Refuses(Fields(names, readers), FlattenSeq(codes))
    BY <1>2, <1>5, <2>3, <2>5, <2>7, FieldsDecide
  <2> QED
    BY <1>6, <2>2, <2>4, <2>6, <2>8
<1> QED
  BY <1>7, <1>8

LEMMA PartServes ==
    ASSUME NEW name
    PROVE  /\ Steady(PartReader(name))
           /\ \A v : IsPart(name, v) =>
                 /\ PartFits(name, v) => Reads(PartReader(name), WritePart(name, v), v)
                 /\ ~ PartFits(name, v) => Refuses(PartReader(name), WritePart(name, v))
<1>1. CASE name # "records"
  <2>1. PartReader(name) = FieldReader(name)
    BY <1>1 DEF PartReader
  <2>2. \A v : /\ IsPart(name, v) <=> IsField(name, v)
               /\ PartFits(name, v) <=> FieldFits(name, v)
               /\ WritePart(name, v) = WriteField(name, v)
    BY <1>1 DEF IsPart, PartFits, WritePart
  <2> QED
    BY <2>1, <2>2, FieldServes
<1>2. CASE name = "records"
  <2>1. PartReader(name) = Repeated(RecordReader, MaxRecords)
    BY <1>2 DEF PartReader
  <2>2. Steady(PartReader(name))
    BY <2>1, RecordServes, SteadyRepeated, LimitsAssumption
  <2>3. ASSUME NEW v, IsPart(name, v)
        PROVE  /\ PartFits(name, v) => Reads(PartReader(name), WritePart(name, v), v)
               /\ ~ PartFits(name, v) => Refuses(PartReader(name), WritePart(name, v))
    <3>1. PICK n \in Nat : n = Len(v) /\ v = Firsts(v, n) /\ \A i \in DOMAIN v : IsRecord(v[i])
      BY <1>2, <2>3 DEF IsPart, IsVector, Firsts
    <3>2. DOMAIN v = 1..n
      BY <3>1 DEF Firsts
    <3>3. PICK codes : codes = [i \in 1..n |-> WriteRecord(v[i])]
      OBVIOUS
    <3>4. \A i \in 1..n :
             /\ RecordFits(v[i]) => Reads(RecordReader, codes[i], v[i])
             /\ ~ RecordFits(v[i]) => Refuses(RecordReader, codes[i])
      BY <3>1, <3>2, <3>3, RecordServes
    <3>5. codes \in [1..n -> Payload]
      BY <3>3, <3>4 DEF Reads, Refuses
    <3>6. WritePart(name, v) = <<n>> \o FlattenSeq(codes)
      <4>1. WritePart(name, v) = <<Len(codes)>> \o FlattenSeq(codes)
        BY <1>2, <3>2, <3>3, Zenon DEF WritePart, Counted
      <4>2. Len(codes) = n
        BY <3>5
      <4> QED
        BY <4>1, <4>2, Zenon
    <3>7. PartFits(name, v) <=> n <= MaxRecords /\ \A i \in 1..n : RecordFits(v[i])
      BY <1>2, <3>1, <3>2 DEF PartFits
    <3>8. ~ n <= MaxRecords <=> n > MaxRecords
      BY LimitsAssumption
    <3>9. \A i \in 1..n : Reads(RecordReader, codes[i], v[i]) \/ Refuses(RecordReader, codes[i])
      BY <3>4
    <3>10. /\ n <= MaxRecords /\ (\A i \in 1..n : Reads(RecordReader, codes[i], v[i])) =>
                Reads(Repeated(RecordReader, MaxRecords), <<n>> \o FlattenSeq(codes), v)
           /\ n > MaxRecords \/ (\E i \in 1..n : Refuses(RecordReader, codes[i])) =>
                Refuses(Repeated(RecordReader, MaxRecords), <<n>> \o FlattenSeq(codes))
      BY <3>1, <3>5, <3>9, RepeatedDecides, LimitsAssumption
    <3> QED
      BY <2>1, <3>4, <3>6, <3>7, <3>8, <3>10
  <2> QED
    BY <2>2, <2>3
<1> QED
  BY <1>1, <1>2

LEMMA NamesOfSnapshot ==
    /\ {"records", "status", "boots"} \subseteq ToSet(Written.snapshot)
    /\ ToSet(Written.snapshot) \cap Vectors \subseteq {"status", "boots"}
<1>1. PICK S : S = {WrittenAuthority[i] : i \in 1..12} \cup {"magic", "version", "records", "status"}
  OBVIOUS
<1>2. PICK first \in Seq(S) : first = <<"magic", "version", "records", "status">>
  <2>1. <<"magic", "version", "records", "status">> \in Seq(S)
    BY <1>1
  <2> QED
    BY <2>1
<1>3. /\ Len(first) = 4 /\ first[1] = "magic" /\ first[2] = "version"
      /\ first[3] = "records" /\ first[4] = "status"
  BY <1>2
<1>4. PICK second \in Seq(S) : second = WrittenAuthority
  <2>1. Len(WrittenAuthority) = 12 /\ WrittenAuthority = Firsts(WrittenAuthority, 12)
    BY DEF WrittenAuthority, Firsts
  <2>2. WrittenAuthority \in Seq(S)
    BY <1>1, <2>1 DEF Firsts
  <2> QED
    BY <2>2
<1>5. /\ Len(second) = 12 /\ second[2] = "boots"
      /\ \A i \in 1..12 : second[i] \notin Vectors \ {"boots"}
  <2>1. Vectors = {"status", "boots", "input_states", "parent_provenance", "dependencies",
                   "requirements"}
    BY DEF Vectors, Written
  <2> QED
    BY <1>4, <2>1 DEF WrittenAuthority
<1>6. Vectors \cap {"magic", "version", "records"} = {}
  BY DEF Vectors, Written
<1>7. PICK names : names = Written.snapshot /\ names = first \o second
  BY <1>2, <1>4 DEF Written
<1>8. /\ names \in Seq(S) /\ Len(names) = 16
      /\ \A i \in 1..16 : names[i] = IF i <= 4 THEN first[i] ELSE second[i - 4]
  <2>1. /\ first \o second \in Seq(S)
        /\ Len(first \o second) = Len(first) + Len(second)
        /\ \A i \in 1..(Len(first) + Len(second)) :
              (first \o second)[i] = IF i <= Len(first) THEN first[i] ELSE second[i - Len(first)]
    BY ConcatProperties
  <2>2. Len(first) + Len(second) = 16
    BY <1>3, <1>5
  <2> QED
    BY <1>3, <1>7, <2>1, <2>2
<1>9. DOMAIN names = 1..16
  BY <1>8
<1>10. names[3] = "records" /\ names[4] = "status" /\ names[6] = "boots"
  BY <1>3, <1>5, <1>8
<1>11. ASSUME NEW i \in 1..16, names[i] \in Vectors PROVE names[i] \in {"status", "boots"}
  <2>1. CASE i <= 4
    <3>1. i \in {1, 2, 3, 4}
      BY <2>1
    <3> QED
      BY <1>3, <1>6, <1>8, <1>11, <2>1, <3>1
  <2>2. CASE ~ i <= 4
    <3>1. i - 4 \in 1..12
      BY <2>2
    <3>2. names[i] = second[i - 4]
      BY <1>8, <2>2
    <3> QED
      BY <1>5, <1>11, <3>1, <3>2
  <2> QED
    BY <2>1, <2>2
<1>12. {"records", "status", "boots"} \subseteq ToSet(names)
  <2>1. 3 \in 1..16 /\ 4 \in 1..16 /\ 6 \in 1..16
    OBVIOUS
  <2> QED
    BY <1>9, <1>10, <2>1 DEF ToSet
<1>13. ToSet(names) \cap Vectors \subseteq {"status", "boots"}
  BY <1>9, <1>11 DEF ToSet
<1> QED
  BY <1>7, <1>12, <1>13

LEMMA RecordFitsByFields ==
    ASSUME NEW v, IsRecord(v)
    PROVE  RecordFits(v) <=> \A name \in Vectors \cap DOMAIN v : Len(v[name]) <= MaxVec
<1>1. DOMAIN v = ToSet(WrittenRecord)
  BY DEF IsRecord, HasFields
<1> QED
  BY <1>1 DEF RecordFits, FieldFits, ToSet

LEMMA FitsByParts ==
    ASSUME NEW s, IsSnapshot(s)
    PROVE  Fits(s) <=> \A i \in DOMAIN Written.snapshot :
                          PartFits(Written.snapshot[i], s[Written.snapshot[i]])
<1>1. DOMAIN s = ToSet(Written.snapshot) /\ \A name \in DOMAIN s : IsPart(name, s[name])
  BY DEF IsSnapshot, HasFields
<1>2. (\A i \in DOMAIN Written.snapshot : PartFits(Written.snapshot[i], s[Written.snapshot[i]]))
         <=> \A name \in DOMAIN s : PartFits(name, s[name])
  BY <1>1 DEF ToSet
<1>3. {"records", "status", "boots"} \subseteq DOMAIN s /\ DOMAIN s \cap Vectors \subseteq {"status", "boots"}
  BY <1>1, NamesOfSnapshot
<1>4. "status" \in Vectors /\ "boots" \in Vectors /\ "records" \notin Vectors
  BY DEF Vectors, Written
<1>5. \A name \in DOMAIN s \ {"records"} :
         PartFits(name, s[name]) <=> (name \in {"status", "boots"} => Len(s[name]) <= MaxVec)
  BY <1>3, <1>4 DEF PartFits, FieldFits
<1>6. PartFits("records", s.records) <=>
         /\ Len(s.records) <= MaxRecords
         /\ \A i \in DOMAIN s.records : \A name \in Vectors \cap DOMAIN s.records[i] :
               Len(s.records[i][name]) <= MaxVec
  <2>1. \A i \in DOMAIN s.records : IsRecord(s.records[i])
    BY <1>1, <1>3 DEF IsPart
  <2>2. \A i \in DOMAIN s.records :
           RecordFits(s.records[i]) <=>
              \A name \in Vectors \cap DOMAIN s.records[i] : Len(s.records[i][name]) <= MaxVec
    BY <2>1, RecordFitsByFields
  <2> QED
    BY <2>2 DEF PartFits
<1>7. (\A name \in DOMAIN s : PartFits(name, s[name])) <=>
         /\ PartFits("records", s["records"])
         /\ Len(s["status"]) <= MaxVec /\ Len(s["boots"]) <= MaxVec
  BY <1>3, <1>5
<1> QED
  BY <1>2, <1>6, <1>7 DEF Fits

LEMMA CutInTwo ==
    ASSUME NEW e \in Seq(Nat), NEW n \in 0..Len(e), n < Len(e)
    PROVE  \E tail \in Payload : /\ e = SubSeq(e, 1, n) \o tail /\ tail # <<>>
                                 /\ SubSeq(e, 1, n) \in Payload
<1>1. PICK m \in Nat : m = Len(e) /\ n \in 0..m /\ n < m /\ n \in Nat
  OBVIOUS
<1>2. SubSeq(e, 1, n) \o SubSeq(e, n + 1, m) = SubSeq(e, 1, m)
  <2>1. 1 \in 1..(Len(e) + 1) /\ n \in (1 - 1)..Len(e) /\ m \in n..Len(e)
    BY <1>1
  <2> QED
    BY <2>1, ConcatAdjacentSubSeq
<1>3. SubSeq(e, 1, m) = e
  BY <1>1, SubSeqFull
<1>4. \A i \in 1..m : e[i] \in Nat
  BY <1>1
<1>5. SubSeq(e, 1, n) \in Seq(Nat)
  BY <1>1, <1>4, SubSeqProperties
<1>6. SubSeq(e, n + 1, m) \in Seq(Nat) /\ Len(SubSeq(e, n + 1, m)) = m - n
  BY <1>1, <1>4, SubSeqProperties
<1>7. SubSeq(e, n + 1, m) # <<>>
  <2>1. m - n # 0
    BY <1>1
  <2> QED
    BY <1>6, <2>1, EmptySeq
<1> QED
  BY <1>2, <1>3, <1>5, <1>6, <1>7 DEF Payload

(* A snapshot that fits is read back, and the reader stops before what follows  *)
(* it; one that does not fit is refused, whatever follows it.                   *)
LEMMA SnapshotServes ==
    /\ Steady(SnapshotReader)
    /\ \A s : IsSnapshot(s) =>
          /\ Fits(s) => Reads(SnapshotReader, EncodeSnapshot(s), s)
          /\ ~ Fits(s) => Refuses(SnapshotReader, EncodeSnapshot(s))
<1>1. PICK names : names = Written.snapshot /\ names = Read.snapshot
  BY SameLists
<1>2. PICK n \in Nat : n = Len(names) /\ names = Firsts(names, n)
  <2>1. "snapshot" \in DOMAIN Written
    BY DEF Written
  <2> QED
    BY <1>1, <2>1, ListsAreSequences DEF IsList
<1>3. DOMAIN names = 1..n
  BY <1>2 DEF Firsts
<1>4. PICK readers : readers = [i \in 1..n |-> PartReader(names[i])]
  OBVIOUS
<1>5. Len(readers) = n /\ \A i \in 1..n : readers[i] = PartReader(names[i])
  BY <1>4
<1>6. SnapshotReader = Fields(names, readers)
  BY <1>1, <1>3, <1>4, Zenon DEF SnapshotReader
<1>7. Steady(SnapshotReader)
  <2>1. \A i \in 1..n : Steady(readers[i])
    BY <1>5, PartServes
  <2> QED
    BY <1>5, <1>6, <2>1, SteadyFields
<1>8. ASSUME NEW s, IsSnapshot(s)
      PROVE  /\ Fits(s) => Reads(SnapshotReader, EncodeSnapshot(s), s)
             /\ ~ Fits(s) => Refuses(SnapshotReader, EncodeSnapshot(s))
  <2>1. PICK codes : codes = [i \in 1..n |-> WritePart(names[i], s[names[i]])]
    OBVIOUS
  <2>2. EncodeSnapshot(s) = FlattenSeq(codes)
    BY <1>1, <1>3, <2>1, Zenon DEF EncodeSnapshot, InOrder
  <2>3. HasFields(names, s) /\ \A i \in 1..n : IsPart(names[i], s[names[i]])
    <3>1. HasFields(names, s) /\ \A name \in DOMAIN s : IsPart(name, s[name])
      BY <1>1, <1>8 DEF IsSnapshot
    <3>2. DOMAIN s = ToSet(names)
      BY <3>1 DEF HasFields
    <3>3. \A i \in 1..n : names[i] \in ToSet(names)
      BY <1>3 DEF ToSet
    <3> QED
      BY <3>1, <3>2, <3>3
  <2>4. \A i \in 1..n :
           /\ PartFits(names[i], s[names[i]]) => Reads(readers[i], codes[i], s[names[i]])
           /\ ~ PartFits(names[i], s[names[i]]) => Refuses(readers[i], codes[i])
    BY <1>5, <2>1, <2>3, PartServes
  <2>5. codes \in [1..n -> Payload]
    BY <2>1, <2>4 DEF Reads, Refuses
  <2>6. Fits(s) <=> \A i \in 1..n : PartFits(names[i], s[names[i]])
    BY <1>1, <1>3, <1>8, FitsByParts
  <2>7. \A i \in 1..n : Reads(readers[i], codes[i], s[names[i]]) \/ Refuses(readers[i], codes[i])
    BY <2>4
  <2>8. /\ (\A i \in 1..n : Reads(readers[i], codes[i], s[names[i]])) =>
              Reads(Fields(names, readers), FlattenSeq(codes), s)
        /\ (\E i \in 1..n : Refuses(readers[i], codes[i])) =>
              Refuses(Fields(names, readers), FlattenSeq(codes))
    BY <1>2, <1>5, <2>3, <2>5, <2>7, FieldsDecide
  <2> QED
    BY <1>6, <2>2, <2>4, <2>6, <2>8
<1> QED
  BY <1>7, <1>8

----------------------------------------------------------------------------
(* Payloads, whole, cut short or followed by something *)

(* Between the snapshot given and the result is one call of encode_snapshot,    *)
(* what became of the payload, and one call of decode_snapshot.                 *)
WireInv ==
    loading \in {"wire", "decoded"} =>
        /\ wire.given \in Payloads
        /\ wire.payload \in Transmissions(wire.given)
        /\ loading = "decoded" => wire.result = DecodeSnapshot(wire.payload)

LEMMA DecodedRight ==
    ASSUME NEW s, IsSnapshot(s), NEW payload \in Transmissions(s)
    PROVE  /\ DecodeSnapshot(payload).ok <=> payload = EncodeSnapshot(s) /\ Fits(s)
           /\ DecodeSnapshot(payload).ok => DecodeSnapshot(payload).got = s
<1>1. PICK e \in Seq(Nat) : e = EncodeSnapshot(s) /\ Len(e) \in Nat
  <2>1. EncodeSnapshot(s) \in Seq(Nat)
    BY SnapshotServes DEF Reads, Refuses, Payload
  <2> QED
    BY <2>1
<1>2. /\ Fits(s) => Reads(SnapshotReader, e, s)
      /\ ~ Fits(s) => Refuses(SnapshotReader, e)
  BY <1>1, SnapshotServes
<1>3. CASE payload = e
  <2>1. e \o <<>> = e /\ <<>> \in Payload
    BY <1>1, Joined DEF Payload
  <2>2. CASE Fits(s)
    <3>1. SnapshotReader[e] = Got(s, <<>>)
      BY <1>2, <2>1, <2>2 DEF Reads
    <3> QED
      BY <1>1, <1>3, <2>2, <3>1 DEF DecodeSnapshot, Got
  <2>3. CASE ~ Fits(s)
    <3>1. ~ SnapshotReader[e].ok
      BY <1>2, <2>1, <2>3 DEF Refuses
    <3> QED
      BY <1>3, <2>3, <3>1 DEF DecodeSnapshot, Failed
  <2> QED
    BY <2>2, <2>3
<1>4. ASSUME payload # e PROVE ~ DecodeSnapshot(payload).ok
  <2>1. CASE payload = Append(e, 0)
    <3>1. payload = e \o <<0>> /\ <<0>> \in Payload /\ <<0>> # <<>>
      BY <2>1 DEF Payload
    <3>2. CASE Fits(s)
      <4>1. SnapshotReader[payload] = Got(s, <<0>>)
        BY <1>2, <3>1, <3>2 DEF Reads
      <4> QED
        BY <3>1, <4>1 DEF DecodeSnapshot, Got, Failed
    <3>3. CASE ~ Fits(s)
      <4>1. ~ SnapshotReader[payload].ok
        BY <1>2, <3>1, <3>3 DEF Refuses
      <4> QED
        BY <4>1 DEF DecodeSnapshot, Failed
    <3> QED
      BY <3>2, <3>3
  <2>2. ASSUME NEW n \in 0..Len(e), payload = SubSeq(e, 1, n)
        PROVE  ~ DecodeSnapshot(payload).ok
    <3> SUFFICES ASSUME SnapshotReader[payload].ok, SnapshotReader[payload].rest = <<>>
                 PROVE  FALSE
      BY DEF DecodeSnapshot, Failed
    <3>1. n < Len(e)
      <4>1. n = Len(e) => SubSeq(e, 1, n) = e
        BY SubSeqFull
      <4> QED
        BY <1>1, <1>4, <2>2, <4>1
    <3>2. PICK tail \in Payload : e = payload \o tail /\ tail # <<>> /\ payload \in Payload
      BY <1>1, <2>2, <3>1, CutInTwo
    <3>3. PICK v : \E rest \in Payload : /\ SnapshotReader[payload] = Got(v, rest)
                                         /\ SnapshotReader[e] = Got(v, rest \o tail)
      <4>1. Steady(SnapshotReader)
        BY SnapshotServes
      <4>2. \E v : \E rest \in Payload :
               /\ SnapshotReader[payload] = Got(v, rest)
               /\ SnapshotReader[payload \o tail] = Got(v, rest \o tail)
        BY <3>2, <4>1 DEF Steady
      <4> QED
        BY <3>2, <4>2
    <3>4. PICK rest \in Payload : /\ SnapshotReader[payload] = Got(v, rest)
                                  /\ SnapshotReader[e] = Got(v, rest \o tail)
      BY <3>3
    <3>5. rest = <<>>
      BY <3>4 DEF Got
    <3>6. SnapshotReader[e].ok /\ SnapshotReader[e].rest = tail
      BY <3>4, <3>5, Joined DEF Got
    <3>7. e \o <<>> = e /\ <<>> \in Payload
      BY <1>1, Joined DEF Payload
    <3>8. Fits(s)
      BY <1>2, <3>6, <3>7 DEF Refuses
    <3>9. SnapshotReader[e] = Got(s, <<>>)
      BY <1>2, <3>7, <3>8 DEF Reads
    <3> QED
      BY <3>2, <3>6, <3>9 DEF Got
  <2> QED
    BY <1>1, <2>1, <2>2 DEF Transmissions
<1> QED
  BY <1>1, <1>3, <1>4

(* For every snapshot encode_snapshot may be given, and of its payload every    *)
(* prefix and one extension: decode_snapshot accepts exactly the whole payload *)
(* of a snapshot whose counts are within its bounds, and gives every field back. *)
THEOREM DecodeInvertsEncodeAlways == CallSpec => []DecodeInvertsEncode
<1>1. CallInit => WireInv
  BY DEF CallInit, WireInv, RestoreInit, SearchInit
<1>2. WireInv /\ [CallNext]_callVars => WireInv'
  <2> SUFFICES ASSUME WireInv, [CallNext]_callVars PROVE WireInv'
    OBVIOUS
  <2>1. CASE Search
    BY <2>1 DEF WireInv, Search
  <2>2. CASE Decode
    BY <2>2 DEF WireInv, Decode
  <2>3. CASE Restore
    <3>1. RestoreStep
      BY <2>3 DEF Restore
    <3>2. loading' \notin {"wire", "decoded"}
      BY <3>1 DEF RestoreStep, DecodeRefuses, Clear, Order, Throw, Ordered, InsertNext, Overlay
    <3> QED
      BY <3>2 DEF WireInv
  <2>4. CASE UNCHANGED callVars
    BY <2>4 DEF WireInv, callVars, restoreVars
  <2> QED
    BY <2>1, <2>2, <2>3, <2>4 DEF CallNext
<1>3. WireInv => DecodeInvertsEncode
  BY DecodedRight, PayloadsAssumption DEF WireInv, DecodeInvertsEncode
<1> QED
  BY <1>1, <1>2, <1>3, PTL DEF CallSpec

----------------------------------------------------------------------------
(* One call: the loops of GraphSearch run in it alone, or inside restore. *)

Loading == loading \notin {"none", "wire", "decoded"}

CallInv == SearchInv /\ (Loading => RestoreInv /\ task.op = "order")

(* Where a file is loaded there is nothing to order before the file is decoded. *)
LEMMA NothingToOrder ==
    ASSUME searched = EmptyGraph, StartOrder, NothingDone
    PROVE  SearchInv
<1>1. task.op = "order" /\ list = <<>> /\ todo = {}
  BY DEF StartOrder
<1>2. searched.nodes = {} /\ searched.children = [n \in {} |-> {}]
  BY DEF EmptyGraph
<1>3. IsFiniteSet(searched.nodes)
  BY <1>2, FS_EmptySet
<1>4. /\ inDegree = [n \in searched.nodes |-> Cardinality(searched.parents[n])]
      /\ ready = {n \in searched.nodes : inDegree[n] = 0}
  BY DEF NothingDone
<1>5. Kahn
  BY <1>1, <1>2, <1>3, <1>4, KahnStarts
<1> QED
  BY <1>1, <1>5 DEF SearchInv, WalkInv, CycleInv, PropagationInv, ChainInv, KahnInv, Walks

LEMMA CallStarts == CallInit => CallInv
<1> SUFFICES ASSUME CallInit PROVE CallInv
  OBVIOUS
<1>1. CASE SearchInit /\ loading = "none"
  BY <1>1, SearchStarts DEF CallInv, Loading
<1>2. CASE RestoreInit
  <2>1. searched = EmptyGraph /\ StartOrder /\ NothingDone
    BY <1>2 DEF RestoreInit
  <2> QED
    BY <1>2, <2>1, NothingToOrder, RestoreStarts DEF CallInv, StartOrder
<1>3. CASE searched = EmptyGraph /\ StartOrder /\ NothingDone /\ loading = "wire"
  BY <1>3, NothingToOrder DEF CallInv, Loading
<1> QED
  BY <1>1, <1>2, <1>3 DEF CallInit

LEMMA RestoreKeepsCallInv ==
    ASSUME CallInv, RestoreStep
    PROVE  CallInv'
<1>1. Loading
  BY DEF Loading, RestoreStep, DecodeRefuses, Clear, Order, Throw, Ordered, InsertNext, Overlay
<1>2. RestoreInv /\ task.op = "order" /\ SearchInv
  BY <1>1 DEF CallInv
<1>3. RestoreInv'
  BY <1>2, RestoreKeepsInv
<1>4. task' = task
  BY DEF RestoreStep, DecodeRefuses, Clear, Order, Throw, Ordered, InsertNext, Overlay,
         TakeReady, Decrement, searchVars
<1>5. SearchInv'
  <2>1. CASE Clear
    <3>1. loading' = "order"
      BY <2>1 DEF Clear
    <3>2. Kahn'
      BY <1>3, <3>1 DEF RestoreInv, Ordering
    <3> QED
      BY <1>2, <1>4, <3>2
         DEF SearchInv, WalkInv, CycleInv, PropagationInv, ChainInv, KahnInv, Walks
  <2>2. CASE Order
    BY <1>2, <2>2, SearchKept DEF Order, SearchNext
  <2>3. CASE DecodeRefuses \/ Throw \/ Ordered \/ InsertNext \/ Overlay
    <3>1. UNCHANGED searchVars
      BY <2>3 DEF DecodeRefuses, Throw, Ordered, InsertNext, Overlay
    <3> QED
      BY <1>2, <3>1, SearchKept
  <2> QED
    BY <2>1, <2>2, <2>3 DEF RestoreStep
<1> QED
  BY <1>2, <1>3, <1>4, <1>5 DEF CallInv

LEMMA CallKeepsInv == CallInv /\ [CallNext]_callVars => CallInv'
<1> SUFFICES ASSUME CallInv, [CallNext]_callVars PROVE CallInv'
  OBVIOUS
<1>1. CASE Search
  BY <1>1, SearchKept DEF Search, CallInv, Loading
<1>2. CASE Decode
  BY <1>2, SearchKept DEF Decode, CallInv, Loading
<1>3. CASE Restore
  BY <1>3, RestoreKeepsCallInv DEF Restore
<1>4. CASE UNCHANGED callVars
  <2>1. UNCHANGED searchVars /\ UNCHANGED restoreVars /\ UNCHANGED <<loading, task>>
    BY <1>4 DEF callVars, restoreVars, searchVars
  <2> QED
    BY <2>1, SearchKept, RestoreStutters DEF CallInv, Loading
<1> QED
  BY <1>1, <1>2, <1>3, <1>4 DEF CallNext

LEMMA CallInvariant == CallSpec => []CallInv
  BY CallStarts, CallKeepsInv, PTL DEF CallSpec

(* The loops compute what GraphSearch says of them, and a file leaves its      *)
(* largest sound part, in the behaviours in which a call is any of these: the  *)
(* orders that records_in_topo_order finds inside restore are as right as     *)
(* those of topological_order.                                                *)
THEOREM CallsAreRight == CallSpec => [](SearchesAreRight /\ RestoredIsLargestSound)
<1>1. CallInv => SearchesAreRight /\ RestoredIsLargestSound
  <2> SUFFICES ASSUME CallInv PROVE SearchesAreRight /\ RestoredIsLargestSound
    OBVIOUS
  <2>1. Restored => RestoreInv
    BY DEF CallInv, Loading, Restored
  <2> QED
    BY <2>1, SearchResults, LargestSound DEF CallInv, RestoredIsLargestSound
<1> QED
  BY <1>1, CallInvariant, PTL

(* The same of a snapshot this program may have saved: no other call is in the *)
(* way.                                                                        *)
THEOREM CallsRecover == CallSpec => RestoreIsRecover
<1>1. CallInv /\ [CallNext]_callVars => [RecoversOwn]_restoreVars
  <2> SUFFICES ASSUME CallInv, CallNext PROVE RecoversOwn \/ UNCHANGED restoreVars
    BY DEF callVars
  <2>1. CASE Search \/ Decode
    <3>1. loading' \in {"none", "decoded"}
      BY <2>1 DEF Search, Decode
    <3> QED
      BY <3>1 DEF RecoversOwn, Restored
  <2>2. CASE Restore
    <3>1. RestoreStep
      BY <2>2 DEF Restore
    <3>2. Loading
      BY <3>1 DEF Loading, RestoreStep, DecodeRefuses, Clear, Order, Throw, Ordered,
                  InsertNext, Overlay
    <3> QED
      BY <3>1, <3>2, StepRecovers DEF CallInv
  <2> QED
    BY <2>1, <2>2 DEF CallNext
<1>2. CallSpec => [][RecoversOwn]_restoreVars
  BY <1>1, CallInvariant, PTL DEF CallSpec
<1> QED
  BY <1>2 DEF RestoreIsRecover, RecoversOwn, OwnSnapshot
=============================================================================

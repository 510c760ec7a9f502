---------------------------- MODULE StoreRestore ----------------------------
(***************************************************************************)
(* ProvenanceStore::restore over whatever a snapshot file decodes to, one   *)
(* step for every record that is ordered or inserted: decode_snapshot's    *)
(* checks, the store cleared, the records ordered by Kahn's algorithm (the *)
(* loop of GraphSearch, run here on the parents the file names) and handed *)
(* to insert_validated one by one, the overlay put on top.                 *)
(*                                                                         *)
(* A file that passed its CRC need not come from this program: references  *)
(* may dangle or point at each other, a subject may appear twice, and the  *)
(* overlay may name subjects the file has no record of.                    *)
(***************************************************************************)
EXTENDS ProvenanceStore, GraphSearch, FileLimits

CONSTANTS
    Files,          \* what files hold: [records, status, authority], records
                    \*   being the sequence of records in the file
    Formers         \* records the store may hold before the call

ASSUME RestoreAssumption == \A f \in Files : f.records \in Seq(RecordData)

VARIABLES
    input,      \* the decoded file
    loading,    \* where the call is
    next        \* position, in the order, of the record to insert

restoreVars == <<vars, searchVars, input, loading, next>>

Subjects(f) == {f.records[i].subject : i \in DOMAIN f.records}

(* by_id: of two records of one subject, the later one. *)
RecordOf(f, s) ==
    LET last == CHOOSE i \in DOMAIN f.records :
                   /\ f.records[i].subject = s
                   /\ \A j \in DOMAIN f.records : f.records[j].subject = s => j <= i
    IN  f.records[last]

(* The file as the store's own snapshots are: one record for each subject. *)
SnapshotIn(f) == [records   |-> [s \in Subjects(f) |-> RecordOf(f, s)],
                  status    |-> f.status,
                  authority |-> f.authority]

(* decode_snapshot *)
Decodes(f) ==
    /\ Len(f.records) <= MaxRecords
    /\ \A i \in DOMAIN f.records : ValidRecord(f.records[i])
    /\ \A i, j \in DOMAIN f.records : f.records[i].prov = f.records[j].prov => i = j

(* parents_map: an input counts whether the file holds it or not, a provenance *)
(* reference only if it does.                                                  *)
ParentsIn(f) ==
    [s \in Subjects(f) |->
        LET d == RecordOf(f, s)
        IN  Elements(d.inputs) \cup
                {f.records[i].subject :
                    i \in {i \in DOMAIN f.records : f.records[i].prov \in Elements(d.parents)}}]

InDegrees(f) == [s \in Subjects(f) |-> Cardinality(ParentsIn(f)[s])]

----------------------------------------------------------------------------
DecodeRefuses ==
    /\ loading = "decode"
    /\ ~ Decodes(input)
    /\ loading' = "refused"
    /\ UNCHANGED <<vars, searchVars, input, next>>

(* restore clears the store, sets the authority and starts the ordering. *)
Clear ==
    /\ loading = "decode"
    /\ Decodes(input)
    /\ records' = EmptyFunction
    /\ provToState' = EmptyFunction
    /\ graph' = EmptyGraph
    /\ status' = EmptyFunction
    /\ byValidity' = [v \in Validities |-> {}]
    /\ byAttr' = [a \in Attrs |-> {}]
    /\ authority' = input.authority
    /\ workers' = DOMAIN input.authority.boot
    /\ searched' = GraphOfParents(ParentsIn(input))
    /\ inDegree' = InDegrees(input)
    /\ ready' = {s \in DOMAIN inDegree' : inDegree'[s] = 0}
    /\ loading' = "order"
    /\ UNCHANGED <<runtimeGeneration, calls, saved, input, next,
                   task, walkVars, cur, seen, found, head, origin>>

Order ==
    /\ loading = "order"
    /\ TakeReady \/ Decrement
    /\ UNCHANGED <<vars, input, loading, next>>

(* restore throws: the store is left empty, under the authority of the file. *)
Throw ==
    /\ loading = "order"
    /\ OrderDone /\ Len(list) # Len(input.records)
    /\ loading' = "thrown"
    /\ UNCHANGED <<vars, searchVars, input, next>>

Ordered ==
    /\ loading = "order"
    /\ OrderDone /\ Len(list) = Len(input.records)
    /\ loading' = "insert"
    /\ UNCHANGED <<vars, searchVars, input, next>>

(* Fault: a record that is refused is tried again. *)
InsertAgain ==
    /\ loading = "insert"
    /\ next <= Len(list)
    /\ Admissible(RecordOf(input, list[next]))
    /\ Insert(RecordOf(input, list[next]))
    /\ next' = next + 1
    /\ UNCHANGED <<authority, runtimeGeneration, calls, saved, searchVars, input, loading>>

(* The answer of insert_validated is ignored. *)
InsertNext ==
    /\ loading = "insert"
    /\ next <= Len(list)
    /\ LET d == RecordOf(input, list[next])
       IN  IF Admissible(d) THEN Insert(d) ELSE UNCHANGED lineageVars
    /\ next' = next + 1
    /\ UNCHANGED <<authority, runtimeGeneration, calls, saved, searchVars, input, loading>>

(* Fault: only what is not in the overlay yet is taken over. *)
OverlayMerged ==
    /\ loading = "insert"
    /\ next > Len(list)
    /\ status' = [s \in DOMAIN input.status \cup DOMAIN status |->
                     IF s \in DOMAIN status THEN status[s] ELSE input.status[s]]
    /\ byValidity' = ValidityIndex(records, status')
    /\ loading' = "restored"
    /\ UNCHANGED <<records, provToState, graph, byAttr, workers, authority,
                   runtimeGeneration, calls, saved, searchVars, input, next>>

Overlay ==
    /\ loading = "insert"
    /\ next > Len(list)
    /\ status' = input.status
    /\ byValidity' = ValidityIndex(records, input.status)
    /\ loading' = "restored"
    /\ UNCHANGED <<records, provToState, graph, byAttr, workers, authority,
                   runtimeGeneration, calls, saved, searchVars, input, next>>

----------------------------------------------------------------------------
(* A behaviour is the loading of one file into a store that may hold records  *)
(* already; saved is then that file.                                          *)
Holding(recs, file) ==
    /\ records = recs
    /\ provToState = ProvIndex(recs)
    /\ graph = GraphOf(recs)
    /\ status = [s \in DOMAIN recs |-> InitialStatus(recs[s])]
    /\ byValidity = ValidityIndex(recs, status)
    /\ byAttr = AttrIndex(recs)
    /\ authority = InitialAuthority
    /\ workers = UNION {NamedWorkers(recs[s]) : s \in DOMAIN recs}
    /\ runtimeGeneration = 0
    /\ calls = [t \in Threads |-> Idle]
    /\ saved = file

RestoreInit ==
    \E f \in Files, recs \in Formers :
        /\ searched = EmptyGraph /\ StartOrder /\ NothingDone
        /\ Holding(recs, SnapshotIn(f))
        /\ input = f
        /\ loading = "decode"
        /\ next = 1

RestoreStep ==
    DecodeRefuses \/ Clear \/ Order \/ Throw \/ Ordered \/ InsertNext \/ Overlay

RestoreSpec == RestoreInit /\ [][RestoreStep]_restoreVars

----------------------------------------------------------------------------
(* Properties *)

Restored == loading = "restored"

(* A snapshot this program may have saved (Lineage says what those are) is     *)
(* neither refused nor thrown out, and the whole of restore amounts to the     *)
(* step Recover of ProvenanceStore, whatever the store held before: records,   *)
(* graph, indexes, overlay and authority are exactly those saved.              *)
RestoreIsRecover ==
    [][LineageOK(saved.records) /\ Len(input.records) = Cardinality(DOMAIN saved.records)
          => /\ loading' # "thrown"
             /\ loading' = "refused" => Len(input.records) > MaxRecords
             /\ Restored' /\ ~ Restored => Recover]_restoreVars

(* A set of records of the file that refers to nothing outside itself. *)
SelfContained(S) ==
    \A s \in S : /\ Elements(RecordOf(input, s).inputs) \subseteq S
                 /\ \A p \in Elements(RecordOf(input, s).parents) :
                       \E r \in S : RecordOf(input, r).prov = p

(* Whatever file is accepted, no dangling reference and no cycle gets into     *)
(* the store, its graph and indexes agree with its records, nothing of its     *)
(* former content is left, and no record is dropped that could be kept.        *)
RestoredIsLargestSound ==
    Restored =>
        /\ LineageOK(records)
        /\ DerivedStructuresAgree
        /\ DOMAIN records = UNION {S \in SUBSET Subjects(input) : SelfContained(S)}
        /\ \A s \in DOMAIN records : records[s] = RecordOf(input, s)

(* The call returns or throws, on a cyclic file too. *)
RestoreReturns == loading = "decode" ~> loading \in {"refused", "thrown", "restored"}

----------------------------------------------------------------------------
(* README.md, "Persistence": malformed references are rejected.  A parent      *)
(* provenance the file does not hold is left out of the ordering, and the      *)
(* refusal of insert_validated is ignored: the record is silently dropped.     *)
MalformedReferencesRejected ==
    Restored => Subjects(input) \subseteq DOMAIN records
=============================================================================

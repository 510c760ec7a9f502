----------------------------- MODULE WireFormat -----------------------------
(***************************************************************************)
(* encode_snapshot and decode_snapshot of include/stateprovenance/persist.hpp *)
(* with the functions they call: what the payload of a snapshot file is.    *)
(*                                                                         *)
(* The writer and the reader list the same fields in code of their own.     *)
(* Here each list is translated from its own function, and a few operators  *)
(* write, or read, whatever a list says.  A payload is a sequence of        *)
(* scalars: an integer that is cut in the middle is read like one that is   *)
(* missing, and a string is its length and then its characters.  The checks *)
(* decode_snapshot makes on records it has read are in StoreRestore.        *)
(***************************************************************************)
EXTENDS FileLimits, SequencesExt

Expected == [magic |-> 7, version |-> 1]        \* kPayloadMagic, kFormatVersion

Strings ==
    {"model_revision", "tokenizer", "adapter_revision", "composition_fingerprint",
     "architecture", "compute_capability", "abi", "dtype", "layout", "shape",
     "kind", "revision", "required_value", "note", "policy_fingerprint",
     "content_digest", "detail"}

(* The fields in the order in which they are written. *)
WrittenRecord ==
    <<"provenance_id", "provenance_generation", "subject_id", "subject_kind",
      "state_generation", "producer_id", "producer_generation", "execution_id",
      "attempt_id", "attempt_generation", "created_at", "model_id",
      "model_generation", "model_revision", "tokenizer", "adapter_id",
      "adapter_generation", "adapter_revision", "composition_id",
      "composition_generation", "composition_fingerprint", "runtime_id",
      "runtime_generation", "artifact_generation", "backend_id", "toolchain_id",
      "device_id", "architecture", "compute_capability", "abi", "dtype", "layout",
      "shape", "input_states", "parent_provenance", "dependencies",
      "requirements", "policy_id", "policy_generation", "policy_fingerprint",
      "content_digest", "coordinator_epoch", "worker_id", "worker_boot",
      "evidence", "validity", "invalidation_reason", "reuse_eligibility", "note">>

WrittenAuthority ==
    <<"epoch", "boots", "attempt_id", "attempt_generation", "state_generation",
      "provenance_generation", "artifact_generation", "model_generation",
      "adapter_generation", "composition_generation", "policy_generation",
      "dependency_generation">>

(* The items of every vector, and the whole. *)
Written ==
    [snapshot          |-> <<"magic", "version", "records", "status">> \o WrittenAuthority,
     records           |-> WrittenRecord,
     status            |-> <<"id", "validity", "reason", "provenance_generation", "detail">>,
     boots             |-> <<"worker", "boot">>,
     input_states      |-> <<"id">>,
     parent_provenance |-> <<"id">>,
     dependencies      |-> <<"id", "generation", "kind", "revision">>,
     requirements      |-> <<"dimension", "required_value", "note">>]

Vectors == DOMAIN Written \ {"snapshot", "records"}

(* The fields in the order in which they are read. *)
ReadRecord ==
    <<"provenance_id", "provenance_generation", "subject_id", "subject_kind",
      "state_generation", "producer_id", "producer_generation", "execution_id",
      "attempt_id", "attempt_generation", "created_at", "model_id",
      "model_generation", "model_revision", "tokenizer", "adapter_id",
      "adapter_generation", "adapter_revision", "composition_id",
      "composition_generation", "composition_fingerprint", "runtime_id",
      "runtime_generation", "artifact_generation", "backend_id", "toolchain_id",
      "device_id", "architecture", "compute_capability", "abi", "dtype", "layout",
      "shape", "input_states", "parent_provenance", "dependencies",
      "requirements", "policy_id", "policy_generation", "policy_fingerprint",
      "content_digest", "coordinator_epoch", "worker_id", "worker_boot",
      "evidence", "validity", "invalidation_reason", "reuse_eligibility", "note">>

(* Fault: two fields of the authority are read in the wrong order. *)
ReadAuthorityExchanged ==
    [WrittenAuthority EXCEPT ![3] = "attempt_generation", ![4] = "attempt_id"]

ReadAuthority ==
    <<"epoch", "boots", "attempt_id", "attempt_generation", "state_generation",
      "provenance_generation", "artifact_generation", "model_generation",
      "adapter_generation", "composition_generation", "policy_generation",
      "dependency_generation">>

Read ==
    [snapshot          |-> <<"magic", "version", "records", "status">> \o ReadAuthority,
     records           |-> ReadRecord,
     status            |-> <<"id", "validity", "reason", "provenance_generation", "detail">>,
     boots             |-> <<"worker", "boot">>,
     input_states      |-> <<"id">>,
     parent_provenance |-> <<"id">>,
     dependencies      |-> <<"id", "generation", "kind", "revision">>,
     requirements      |-> <<"dimension", "required_value", "note">>]

(* is_valid of each enumeration: values 0 to here. *)
LastOf == [subject_kind |-> 15, evidence |-> 5, validity |-> 3, dimension |-> 28,
           invalidation_reason |-> 11, reason |-> 11, reuse_eligibility |-> 6]

----------------------------------------------------------------------------
(* What the structures of the code hold: a string that may be written, the      *)
(* values of an enumeration, an integer; items of vectors; records; the whole.   *)
(* A count is a u32, so that no vector of 2^32 items or more is meant.           *)

IsFlat(name, v) ==
    IF name \in Strings THEN v \in Seq(Nat) /\ Len(v) <= MaxString
    ELSE /\ v \in Nat
         /\ name \in DOMAIN LastOf => v <= LastOf[name]
         /\ name \in DOMAIN Expected => v = Expected[name]

HasFields(names, v) == v = [name \in ToSet(names) |-> v[name]]

IsVector(v) == Len(v) \in Nat /\ v = [i \in 1..Len(v) |-> v[i]]

IsItem(vector, v) ==
    HasFields(Written[vector], v) /\ \A name \in DOMAIN v : IsFlat(name, v[name])

IsField(name, v) ==
    IF name \in Vectors THEN IsVector(v) /\ \A i \in DOMAIN v : IsItem(name, v[i])
    ELSE IsFlat(name, v)

IsRecord(v) == HasFields(WrittenRecord, v) /\ \A name \in DOMAIN v : IsField(name, v[name])

IsPart(name, v) ==
    IF name = "records" THEN IsVector(v) /\ \A i \in DOMAIN v : IsRecord(v[i])
    ELSE IsField(name, v)

IsSnapshot(s) == HasFields(Written.snapshot, s) /\ \A name \in DOMAIN s : IsPart(name, s[name])

----------------------------------------------------------------------------
(* Writing: no number of items is compared with what the reader accepts.  Only *)
(* a string beyond MaxString is refused, by an exception: none is ever written. *)

InOrder(names, v, Write(_, _)) ==
    FlattenSeq([i \in DOMAIN names |-> Write(names[i], v[names[i]])])

Counted(items) == <<Len(items)>> \o FlattenSeq(items)

WriteFlat(name, v) == IF name \in Strings THEN <<Len(v)>> \o v ELSE <<v>>

WriteField(name, v) ==
    IF name \in Vectors
    THEN Counted([i \in DOMAIN v |-> InOrder(Written[name], v[i], WriteFlat)])
    ELSE WriteFlat(name, v)

WriteRecord(v) == InOrder(WrittenRecord, v, WriteField)

WritePart(name, v) ==
    IF name = "records"
    THEN Counted([i \in DOMAIN v |-> WriteRecord(v[i])])
    ELSE WriteField(name, v)

EncodeSnapshot(s) == InOrder(Written.snapshot, s, WritePart)

----------------------------------------------------------------------------
(* Reading.  A reader is a function of what is left of the payload.             *)

Payload == Seq(Nat)

Failed == [ok |-> FALSE]

Got(v, rest) == [ok |-> TRUE, got |-> v, rest |-> rest]

Scalar(name) == [in \in Payload |->
    IF \/ in = <<>>
       \/ name \in DOMAIN LastOf /\ Head(in) > LastOf[name]
       \/ name \in DOMAIN Expected /\ Head(in) # Expected[name]
    THEN Failed
    ELSE Got(Head(in), Tail(in))]

Text == [in \in Payload |->
    IF in = <<>> \/ Head(in) > MaxString \/ Head(in) > Len(in) - 1
    THEN Failed
    ELSE Got(SubSeq(in, 2, Head(in) + 1), SubSeq(in, Head(in) + 2, Len(in)))]

(* One reader after another, until one fails; what they give, in a sequence.    *)
Then(before, reader) ==
    LET part == reader[before.rest]
    IN  IF before.ok /\ part.ok
        THEN Got(Append(before.got, part.got), part.rest)
        ELSE Failed

InTurn(readers) == [in \in Payload |->
    LET read[k \in 0..Len(readers)] ==
            IF k = 0 THEN Got(<<>>, in) ELSE Then(read[k - 1], readers[k])
    IN  read[Len(readers)]]

Repeated(reader, limit) == [in \in Payload |->
    IF in = <<>> \/ Head(in) > limit
    THEN Failed
    ELSE InTurn([i \in 1..Head(in) |-> reader])[Tail(in)]]

RecordFrom(names, values) ==
    [name \in ToSet(names) |-> values[CHOOSE i \in DOMAIN names : names[i] = name]]

Fields(names, readers) == [in \in Payload |->
    LET read == InTurn(readers)[in]
    IN  IF read.ok THEN Got(RecordFrom(names, read.got), read.rest) ELSE Failed]

FlatReader(name) == IF name \in Strings THEN Text ELSE Scalar(name)

ItemReader(vector) ==
    Fields(Read[vector], [i \in DOMAIN Read[vector] |-> FlatReader(Read[vector][i])])

FieldReader(name) ==
    IF name \in Vectors THEN Repeated(ItemReader(name), MaxVec) ELSE FlatReader(name)

RecordReader == Fields(ReadRecord, [i \in DOMAIN ReadRecord |-> FieldReader(ReadRecord[i])])

PartReader(name) ==
    IF name = "records" THEN Repeated(RecordReader, MaxRecords) ELSE FieldReader(name)

SnapshotReader ==
    Fields(Read.snapshot, [i \in DOMAIN Read.snapshot |-> PartReader(Read.snapshot[i])])

(* Nothing may follow a snapshot. *)
DecodeSnapshot(payload) ==
    LET read == SnapshotReader[payload]
    IN  IF read.ok /\ read.rest = <<>> THEN read ELSE Failed

----------------------------------------------------------------------------
(* The snapshots whose counts the reader accepts. *)
Fits(s) ==
    /\ Len(s.records) <= MaxRecords
    /\ Len(s.status) <= MaxVec
    /\ Len(s.boots) <= MaxVec
    /\ \A i \in DOMAIN s.records : \A name \in Vectors \cap DOMAIN s.records[i] :
          Len(s.records[i][name]) <= MaxVec
=============================================================================

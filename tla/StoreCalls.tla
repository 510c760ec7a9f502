----------------------------- MODULE StoreCalls -----------------------------
(***************************************************************************)
(* One call into the store and what it is made of: a search of GraphSearch, *)
(* the loading of a file (StoreRestore), or decode_snapshot on a payload    *)
(* encode_snapshot wrote (WireFormat), whole, cut short or followed by      *)
(* something.                                                              *)
(***************************************************************************)
EXTENDS StoreRestore, WireFormat

CONSTANTS
    Payloads        \* what encode_snapshot is given

ASSUME PayloadsAssumption == \A s \in Payloads : IsSnapshot(s)

VARIABLES
    wire        \* [given, payload, result] of a decode_snapshot

callVars == <<restoreVars, wire>>

NoWire == [given |-> None, payload |-> <<>>, result |-> None]

(* All prefixes of what is written, and one scalar more than it. *)
Transmissions(s) ==
    LET written == EncodeSnapshot(s)
    IN  {SubSeq(written, 1, n) : n \in 0..Len(written)} \cup {Append(written, 0)}

NothingLoaded ==
    /\ Holding(EmptyFunction, EmptySnapshot)
    /\ input = [records |-> <<>>]
    /\ next = 1

CallInit ==
    \/ /\ SearchInit /\ NothingLoaded
       /\ loading = "none"
       /\ wire = NoWire
    \/ RestoreInit /\ wire = NoWire
    \/ /\ searched = EmptyGraph /\ StartOrder /\ NothingDone /\ NothingLoaded
       /\ loading = "wire"
       /\ \E s \in Payloads : \E payload \in Transmissions(s) :
             wire = [given |-> s, payload |-> payload, result |-> None]

Decode ==
    /\ loading = "wire"
    /\ wire' = [wire EXCEPT !.result = DecodeSnapshot(wire.payload)]
    /\ loading' = "decoded"
    /\ UNCHANGED <<vars, searchVars, input, next>>

Search == SearchNext /\ loading = "none" /\ UNCHANGED <<vars, input, loading, next, wire>>

Restore == RestoreStep /\ UNCHANGED wire

CallNext == Search \/ Decode \/ Restore

CallSpec == CallInit /\ [][CallNext]_callVars

(* A call runs on a thread that is scheduled until it returns. *)
FairCallSpec == CallSpec /\ WF_callVars(Search \/ Restore)

----------------------------------------------------------------------------
(* Properties *)

(* What decode_snapshot accepts is exactly what encode_snapshot was given, in   *)
(* every field: no prefix of it, nothing longer, and no snapshot with a count  *)
(* the reader bounds and the writer does not.                                 *)
DecodeInvertsEncode ==
    loading = "decoded" =>
        /\ wire.result.ok <=> wire.payload = EncodeSnapshot(wire.given) /\ Fits(wire.given)
        /\ wire.result.ok => wire.result.got = wire.given
=============================================================================

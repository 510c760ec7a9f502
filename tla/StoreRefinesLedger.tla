------------------------- MODULE StoreRefinesLedger -------------------------
(***************************************************************************)
(* The refinement mapping from ProvenanceStore to ProvenanceLedger.  It     *)
(* reads the structures the store answers queries from: the parents of an   *)
(* entry are those of the graph, and the condemned entries are the ones in  *)
(* the validity index.                                                      *)
(***************************************************************************)
EXTENDS ProvenanceStore

LedgerOf(recs, parents) ==
    [s \in DOMAIN recs |-> [content |-> recs[s], parents |-> parents[s]]]

Ledger == INSTANCE ProvenanceLedger WITH
    EntryIds   <- StateIds,
    Contents   <- Candidates,
    entries    <- LedgerOf(records, graph.parents),
    condemned  <- byValidity["INVALIDATED"],
    checkpoint <- [entries   |-> LedgerOf(saved.records,
                                          GraphOf(saved.records).parents),
                   condemned |-> {s \in DOMAIN saved.status :
                                     saved.status[s].validity = "INVALIDATED"}]

(* Every behaviour of the store is, seen through the mapping, a behaviour of  *)
(* the ledger: publishing only ever appends below existing entries, never      *)
(* rewrites one; invalidating condemns exactly what derives from the subject;  *)
(* a restart goes back to the last snapshot as a whole; and every other        *)
(* operation, a call in flight included, leaves the ledger alone.              *)
ImplementsLedger == Ledger!LedgerSpec
=============================================================================

-------------------------- MODULE ProvenanceLedger --------------------------
(***************************************************************************)
(* What ProvenanceStore promises, without its graph, indexes, overlay and  *)
(* authority: a ledger of immutable entries, each derived from entries     *)
(* already there; a growing set of condemned entries; and checkpoints the  *)
(* ledger can go back to when its process is restarted.                    *)
(*                                                                         *)
(* README.md of the repository, "Provenance Model", "Derivation Graph" and *)
(* "Invalidation".                                                         *)
(***************************************************************************)
EXTENDS Naturals

CONSTANTS EntryIds,     \* identities of entries
          Contents      \* what an entry says about its subject

VARIABLES entries,      \* the ledger: entry identity -> [content, parents]
          condemned,    \* the entries recorded or declared as invalid
          checkpoint    \* the ledger a restart goes back to

ledgerVars == <<entries, condemned, checkpoint>>

(* x derives from root: every set that holds root and, with the parents of an *)
(* entry, the entry itself, holds x.                                          *)
DerivesFrom(x, root) ==
    \A S \in SUBSET DOMAIN entries :
        (/\ root \in S
         /\ \A e \in DOMAIN entries : entries[e].parents \cap S # {} => e \in S)
            => x \in S

LedgerInit ==
    /\ entries = [e \in {} |-> 0]
    /\ condemned = {}
    /\ checkpoint = [entries |-> entries, condemned |-> {}]

(* A new entry, condemned from the start if it records an invalid subject. *)
Append(e, content, parents) ==
    /\ e \notin DOMAIN entries
    /\ parents \subseteq DOMAIN entries
    /\ entries' = [x \in DOMAIN entries \cup {e} |->
                      IF x = e THEN [content |-> content, parents |-> parents]
                               ELSE entries[x]]
    /\ condemned' \in {condemned, condemned \cup {e}}
    /\ UNCHANGED checkpoint

(* All that derives from an entry, and nothing else, is condemned with it. *)
Condemn(root) ==
    /\ root \in DOMAIN entries
    /\ condemned' = condemned \cup {x \in DOMAIN entries : DerivesFrom(x, root)}
    /\ UNCHANGED <<entries, checkpoint>>

Checkpoint ==
    /\ checkpoint' = [entries |-> entries, condemned |-> condemned]
    /\ UNCHANGED <<entries, condemned>>

Restart ==
    /\ entries' = checkpoint.entries
    /\ condemned' = checkpoint.condemned
    /\ UNCHANGED checkpoint

LedgerNext ==
    \/ \E e \in EntryIds, content \in Contents :
          \E parents \in SUBSET DOMAIN entries : Append(e, content, parents)
    \/ \E e \in EntryIds : Condemn(e)
    \/ Checkpoint
    \/ Restart

LedgerSpec == LedgerInit /\ [][LedgerNext]_ledgerVars
=============================================================================

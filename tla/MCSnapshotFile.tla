--------------------------- MODULE MCSnapshotFile ---------------------------
(* Small instances of SnapshotFile for TLC. *)
EXTENDS SnapshotFile

(* Two savers and no failure at all. *)
TwoSavers == { [windows |-> FALSE, active |-> 2, faulty |-> {}, power |-> FALSE] }
=============================================================================

----------------------------- MODULE FileLimits -----------------------------
(* The bounds include/stateprovenance/persist.hpp puts on what it reads.      *)
EXTENDS Naturals

CONSTANTS
    MaxRecords,     \* kMaxRecords
    MaxVec,         \* kMaxVecLen
    MaxString       \* kMaxStringLen

ASSUME LimitsAssumption == MaxRecords \in Nat /\ MaxVec \in Nat /\ MaxString \in Nat
=============================================================================

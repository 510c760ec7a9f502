--------------------------- MODULE MCCommandLine ---------------------------
(* A small instance of CommandLine for TLC. *)
EXTENDS CommandLine, TLC

CONSTANTS s1, s2, c1, c2, c3, c4, l1

Turn(w, refused) == [windows |-> w, active |-> 1, faulty |-> refused, power |-> FALSE]

(* Savers in turn; a write or the creation of the temporary file may be *)
(* refused, and besides nothing else, a rename, a load, or both.         *)
OrderlySettings ==
    { Turn(w, {"direct", "create"} \cup refused) :
      w \in BOOLEAN, refused \in SUBSET {"rename", "load"} }

(* Savers in turn, nothing fails. *)
CalmSettings == { Turn(FALSE, {}) }

(* Concurrent savers, a write may be refused, and power may fail. *)
ChaoticSettings ==
    { [windows |-> w, active |-> 2, faulty |-> Modes, power |-> TRUE] : w \in BOOLEAN }

(* Power may fail under a command. *)
DarkSettings == { [windows |-> FALSE, active |-> 1, faulty |-> {}, power |-> TRUE] }

CommandSettings == OrderlySettings \cup CalmSettings \cup DarkSettings
AllSettings     == CommandSettings \cup ChaoticSettings

(* A subject registered by one of two commands, another one, an invalidation *)
(* and a rewrite of the file.                                                *)
TheCommands == c1 :> [op |-> "register",   subject |-> "A"]
            @@ c2 :> [op |-> "register",   subject |-> "B"]
            @@ c3 :> [op |-> "invalidate", subject |-> "A"]
            @@ c4 :> [op |-> "recover",    subject |-> "A"]
=============================================================================

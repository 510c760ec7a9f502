------------------------ MODULE SnapshotFile_proofs ------------------------
(***************************************************************************)
(* Theorems about the snapshot file: for any number of savers and loaders, *)
(* in every setting, a load that succeeds returns what one save was given; *)
(* in an orderly setting the path names the acknowledged snapshot or a     *)
(* later one, or, where a refused rename lets it, nothing, and no load is  *)
(* refused by its checks or stale.                                         *)
(*                                                                         *)
(* Neither is inductive.  FileInv says why they hold: every block anywhere *)
(* was written by some save; and in an orderly setting the file being      *)
(* written, the file at the path and the files being read are different    *)
(* ones, the last two complete.                                            *)
(***************************************************************************)
EXTENDS SnapshotFile, FiniteSetTheorems, TLAPS

Filled(v) == [b \in Blocks |-> v]

SaverStates ==
    {Resting} \cup [at : {"write", "rename", "retry"}, save : 1..saves, to : Files,
                    mode : Modes, block : Blocks]

ReadingStates ==
    [at : {"read"}, from : Files, got : [Blocks -> 0..saves], block : 1..3, since : Nat]

LoadedStates ==
    {done \in [at : {"loaded", "refused"}, snapshot : [Blocks -> 0..saves], since : Nat] :
        done.at = "loaded" => ChecksumMatches(done.snapshot)}

(* Every block holds what some save wrote, or nothing, on the device, behind  *)
(* the names and in the buffers of the loaders.                               *)
FileTypeOK ==
    /\ setting \in Settings
    /\ saves \in 0..MaxSaves
    /\ acked \in 0..saves
    /\ file \in [Files -> [Blocks -> 0..saves]]
    /\ atPath \in Files \cup {None}
    /\ atTmp \in Files \cup {None}
    /\ saver \in [Savers -> SaverStates]
    /\ loader \in [Loaders -> {Waiting, Unread} \cup ReadingStates \cup LoadedStates]

(* In an orderly setting the one saver there is writes to the file path.tmp   *)
(* names, which is complete when it is renamed, and is not acknowledged yet.  *)
SaverOwnsTmp ==
    \A s \in Savers : saver[s] # Resting =>
        /\ \A o \in Savers : saver[o] # Resting => o = s
        /\ saver[s].save = saves /\ acked < saves
        /\ atTmp = saver[s].to
        /\ saver[s].at = "write" /\ saver[s].block = 2 => file[atTmp][1] = saves
        /\ saver[s].at \in {"rename", "retry"} => file[atTmp] = Filled(saves)
        /\ saver[s].at = "retry" => PathMayVanish

(* The file at the path, if there is one, is complete, is the one acknowledged *)
(* last, and is not the temporary file; a file number that was not given out  *)
(* is fresh.                                                                  *)
PathIsComplete ==
    /\ atTmp # None => atTmp \in 1..saves
    /\ acked # 0 /\ atPath = None => PathMayVanish /\ acked < saves
    /\ atPath # None => /\ atPath \in 1..saves
                        /\ atPath # atTmp
                        /\ acked # 0
                        /\ file[atPath] = Filled(acked)

(* A file somebody reads is never written again. *)
ReadersUndisturbed ==
    \A l \in Loaders :
        /\ loader[l].at = "read" =>
              LET c == loader[l]
              IN  /\ c.from \in 1..saves /\ c.from # atTmp
                  /\ c.since \in 1..saves
                  /\ file[c.from] = Filled(c.since)
                  /\ \A b \in Blocks : b < c.block => c.got[b] = c.since
        /\ loader[l].at \in {"loaded", "refused"} =>
              loader[l].at = "loaded" /\ loader[l].snapshot = Filled(loader[l].since)

OrderlyInv == SaverOwnsTmp /\ PathIsComplete /\ ReadersUndisturbed

FileInv == FileTypeOK /\ (Orderly => OrderlyInv)

----------------------------------------------------------------------------
LEMMA StatesGrow ==
    ASSUME saves \in Nat, saves' \in Nat, saves <= saves'
    PROVE  /\ SaverStates \subseteq SaverStates'
           /\ ReadingStates \subseteq ReadingStates'
           /\ LoadedStates \subseteq LoadedStates'
           /\ [Blocks -> 0..saves] \subseteq [Blocks -> 0..saves']
  BY DEF SaverStates, ReadingStates, LoadedStates

(* In an orderly setting a saver starts only when no other is at work. *)
LEMMA SaversTakeTurns ==
    ASSUME Orderly, SaverOwnsTmp, Cardinality(Active) < setting.active
    PROVE  \A s \in Savers : saver[s] = Resting
<1> SUFFICES ASSUME NEW s \in Savers, saver[s] # Resting PROVE FALSE
  OBVIOUS
<1>1. Active = {s}
  BY DEF Active, SaverOwnsTmp
<1>2. Cardinality(Active) = 1
  BY <1>1, FS_Singleton
<1> QED
  BY <1>2 DEF Orderly

LEMMA FileStarts == Init => FileInv
<1> SUFFICES ASSUME Init PROVE FileInv
  OBVIOUS
<1>1. FileTypeOK
  BY FileAssumption DEF Init, FileTypeOK, Empty, Hole, Blocks, Files, SaverStates
<1>2. OrderlyInv
  BY DEF Init, OrderlyInv, SaverOwnsTmp, PathIsComplete, ReadersUndisturbed, Waiting
<1> QED
  BY <1>1, <1>2 DEF FileInv

----------------------------------------------------------------------------
(* The steps of a saver *)

(* What the unlocked steps leave alone keeps its type when saves stays. *)
LEMMA SavesUnchanged ==
    ASSUME UNCHANGED saves
    PROVE  /\ SaverStates' = SaverStates
           /\ ReadingStates' = ReadingStates
           /\ LoadedStates' = LoadedStates
  BY DEF SaverStates, ReadingStates, LoadedStates

LEMMA OpenTmpPreserves ==
    ASSUME FileInv, NEW s \in Savers, OpenTmp(s)
    PROVE  FileInv'
<1> DEFINE f == IF atTmp = None THEN saves + 1 ELSE atTmp
<1>1. PICK mode \in Modes :
         saver' = [saver EXCEPT ![s] =
            [at |-> "write", save |-> saves + 1, to |-> f, mode |-> mode, block |-> 1]]
  BY DEF OpenTmp
<1>2. /\ saves < MaxSaves /\ saves' = saves + 1
      /\ atTmp' = f /\ file' = [file EXCEPT ![f] = Empty]
      /\ UNCHANGED <<setting, atPath, loader, acked>>
  BY DEF OpenTmp
<1>3. saves \in Nat /\ saves' \in 1..MaxSaves /\ f \in Files /\ f # None
  BY <1>2, FileAssumption DEF FileInv, FileTypeOK, Files
<1> HIDE DEF f
<1>4. FileTypeOK'
  <2>1. /\ SaverStates \subseteq SaverStates'
        /\ ReadingStates \subseteq ReadingStates'
        /\ LoadedStates \subseteq LoadedStates'
        /\ [Blocks -> 0..saves] \subseteq [Blocks -> 0..saves']
    BY <1>2, <1>3, StatesGrow
  <2>2. [at |-> "write", save |-> saves + 1, to |-> f, mode |-> mode, block |-> 1] \in SaverStates'
    BY <1>2, <1>3 DEF SaverStates, Blocks
  <2>3. saver' \in [Savers -> SaverStates']
    BY <1>1, <2>1, <2>2 DEF FileInv, FileTypeOK
  <2>4. Empty \in [Blocks -> 0..saves']
    BY <1>3 DEF Empty, Hole
  <2>5. file' \in [Files -> [Blocks -> 0..saves']]
    BY <1>2, <2>1, <2>4 DEF FileInv, FileTypeOK
  <2>6. loader' \in [Loaders -> {Waiting, Unread} \cup ReadingStates' \cup LoadedStates']
    BY <1>2, <2>1 DEF FileInv, FileTypeOK
  <2>7. /\ setting' \in Settings /\ saves' \in 0..MaxSaves /\ acked' \in 0..saves'
        /\ atPath' \in Files \cup {None} /\ atTmp' \in Files \cup {None}
    BY <1>2, <1>3 DEF FileInv, FileTypeOK
  <2> QED
    BY <2>3, <2>5, <2>6, <2>7 DEF FileTypeOK
<1>5. ASSUME Orderly PROVE OrderlyInv'
  <2>1. OrderlyInv
    BY <1>5 DEF FileInv
  <2>2. \A o \in Savers : saver[o] = Resting
    BY <1>5, <2>1, SaversTakeTurns DEF OrderlyInv, OpenTmp
  <2>3. SaverOwnsTmp'
    BY <1>1, <1>2, <1>3, <2>2 DEF SaverOwnsTmp, FileInv, FileTypeOK
  <2>4. f \in 1..saves' /\ f # atPath /\ \A l \in Loaders : loader[l].at = "read" => f # loader[l].from
    <3>1. /\ atTmp # None => atTmp \in 1..saves
          /\ atPath # None => atPath \in 1..saves /\ atPath # atTmp
          /\ \A l \in Loaders : loader[l].at = "read" =>
                loader[l].from \in 1..saves /\ loader[l].from # atTmp
      BY <2>1 DEF OrderlyInv, PathIsComplete, ReadersUndisturbed
    <3>2. CASE atTmp = None
      BY <1>2, <1>3, <3>1, <3>2 DEF f
    <3>3. CASE atTmp # None
      BY <1>2, <1>3, <3>1, <3>3 DEF f
    <3> QED
      BY <3>2, <3>3
  <2>5. \A g \in Files : g # f => file'[g] = file[g]
    BY <1>2 DEF FileInv, FileTypeOK
  <2>6. PathIsComplete'
    BY <1>2, <1>3, <2>1, <2>4, <2>5 DEF OrderlyInv, PathIsComplete, PathMayVanish,
                                            FileInv, FileTypeOK, Files
  <2>7. ReadersUndisturbed'
    <3> SUFFICES ASSUME NEW l \in Loaders
                 PROVE  /\ loader[l].at = "read" =>
                              LET c == loader[l]
                              IN  /\ c.from \in 1..saves' /\ c.from # atTmp'
                                  /\ c.since \in 1..saves'
                                  /\ file'[c.from] = Filled(c.since)
                                  /\ \A b \in Blocks : b < c.block => c.got[b] = c.since
                        /\ loader[l].at \in {"loaded", "refused"} =>
                              loader[l].at = "loaded" /\ loader[l].snapshot = Filled(loader[l].since)
      BY <1>2 DEF ReadersUndisturbed
    <3>1. loader[l].at = "read" => loader[l].from \in Files
      <4>1. loader[l].at = "read" => loader[l].from \in 1..saves
        BY <2>1 DEF OrderlyInv, ReadersUndisturbed
      <4> QED
        BY <4>1, <1>2, <1>3, FileAssumption DEF Files, FileInv, FileTypeOK
    <3> QED
      BY <1>2, <1>3, <2>1, <2>4, <2>5, <3>1 DEF OrderlyInv, ReadersUndisturbed
  <2> QED
    BY <2>3, <2>6, <2>7 DEF OrderlyInv
<1> QED
  BY <1>2, <1>4, <1>5 DEF FileInv, Orderly

(* What the states of the processes are made of. *)
LEMMA ProcessFacts ==
    ASSUME FileTypeOK
    PROVE  /\ \A s \in Savers : saver[s].at \in {"write", "rename", "retry"} =>
                 /\ saver[s] # Resting
                 /\ saver[s] \in [at : {"write", "rename", "retry"}, save : 1..saves,
                                   to : Files, mode : Modes, block : Blocks]
           /\ \A s \in Savers : saver[s] # Resting =>
                 saver[s].at \in {"write", "rename", "retry"}
           /\ \A l \in Loaders : loader[l].at = "read" => loader[l] \in ReadingStates
           /\ \A l \in Loaders : loader[l].at \in {"loaded", "refused"} =>
                 loader[l] \in LoadedStates
  BY DEF FileTypeOK, SaverStates, ReadingStates, LoadedStates, Resting, Waiting, Unread

LEMMA WriteBlockPreserves ==
    ASSUME FileInv, NEW s \in Savers, WriteBlock(s)
    PROVE  FileInv'
<1> DEFINE c == saver[s]
           next == IF c.block = 2 THEN [c EXCEPT !.at = "rename"] ELSE [c EXCEPT !.block = 2]
<1>1. /\ c.at = "write" /\ c # Resting
      /\ c \in [at : {"write", "rename", "retry"}, save : 1..saves,
                to : Files, mode : Modes, block : Blocks]
  BY ProcessFacts DEF WriteBlock, FileInv
<1>2. /\ file' = [file EXCEPT ![c.to] = [@ EXCEPT ![c.block] = c.save]]
      /\ saver' = [saver EXCEPT ![s] = next]
      /\ UNCHANGED <<setting, atPath, atTmp, loader, saves, acked>>
  BY DEF WriteBlock
<1>3. /\ next.save = c.save /\ next.to = c.to /\ next.mode = c.mode
      /\ next \in [at : {"write", "rename", "retry"}, save : 1..saves,
                    to : Files, mode : Modes, block : Blocks]
      /\ c.block = 1 => next.at = "write" /\ next.block = 2
      /\ c.block = 2 => next.at = "rename"
  BY <1>1 DEF Blocks
<1> HIDE DEF next
<1>4. FileTypeOK'
  <2>1. [file[c.to] EXCEPT ![c.block] = c.save] \in [Blocks -> 0..saves]
    BY <1>1 DEF FileInv, FileTypeOK
  <2>2. file' \in [Files -> [Blocks -> 0..saves]]
    BY <1>1, <1>2, <2>1 DEF FileInv, FileTypeOK
  <2>3. saver' \in [Savers -> SaverStates]
    BY <1>2, <1>3 DEF FileInv, FileTypeOK, SaverStates
  <2> QED
    BY <1>2, <2>2, <2>3, SavesUnchanged DEF FileInv, FileTypeOK
<1>5. ASSUME Orderly PROVE OrderlyInv'
  <2>1. OrderlyInv
    BY <1>5 DEF FileInv
  <2>2. /\ \A o \in Savers : saver[o] # Resting => o = s
        /\ c.save = saves /\ acked < saves /\ atTmp = c.to /\ c.to # None
        /\ c.block = 2 => file[atTmp][1] = saves
    BY <1>1, <2>1, FileAssumption DEF OrderlyInv, SaverOwnsTmp, Files
  <2>3. /\ file'[atTmp] = [file[atTmp] EXCEPT ![c.block] = saves]
        /\ file[atTmp] \in [Blocks -> 0..saves]
        /\ \A g \in Files : g # atTmp => file'[g] = file[g]
    BY <1>1, <1>2, <2>2 DEF FileInv, FileTypeOK
  <2>4. /\ c.block = 1 => file'[atTmp][1] = saves
        /\ c.block = 2 => file'[atTmp] = Filled(saves)
    BY <2>2, <2>3 DEF Filled, Blocks
  <2>5. SaverOwnsTmp'
    <3> SUFFICES ASSUME NEW o \in Savers, saver'[o] # Resting
                 PROVE  /\ \A p \in Savers : saver'[p] # Resting => p = o
                        /\ saver'[o].save = saves /\ acked < saves
                        /\ atTmp = saver'[o].to
                        /\ saver'[o].at = "write" /\ saver'[o].block = 2 => file'[atTmp][1] = saves
                        /\ saver'[o].at \in {"rename", "retry"} => file'[atTmp] = Filled(saves)
                        /\ saver'[o].at # "retry"
      BY <1>2 DEF SaverOwnsTmp
    <3>1. \A p \in Savers : p # s => saver'[p] = saver[p]
      BY <1>2 DEF FileInv, FileTypeOK
    <3>2. o = s /\ saver'[o] = next
      BY <1>2, <2>2, <3>1 DEF FileInv, FileTypeOK
    <3>3. c.block = 1 \/ c.block = 2
      BY <1>1 DEF Blocks
    <3> QED
      BY <1>3, <2>2, <2>4, <3>1, <3>2, <3>3
  <2>6. PathIsComplete'
    BY <1>2, <2>1, <2>3, FileAssumption DEF OrderlyInv, PathIsComplete, PathMayVanish,
                                            FileInv, FileTypeOK
  <2>7. ReadersUndisturbed'
    <3>1. \A l \in Loaders : loader[l].at = "read" => loader[l].from \in Files
      BY ProcessFacts DEF FileInv, ReadingStates
    <3> QED
      BY <1>2, <2>1, <2>3, <3>1 DEF OrderlyInv, ReadersUndisturbed
  <2> QED
    BY <2>5, <2>6, <2>7 DEF OrderlyInv
<1> QED
  BY <1>2, <1>4, <1>5 DEF FileInv, Orderly

(* Steps that end or advance one call and touch no file.  In an orderly        *)
(* setting the call ends, or has its rename refused where the path may vanish. *)
LEMMA SaverMovesOn ==
    ASSUME FileInv, NEW s \in Savers, saver[s].at \in {"write", "rename", "retry"},
           UNCHANGED <<setting, file, atTmp, loader, saves, acked>>,
           NEW next, saver' = [saver EXCEPT ![s] = next],
           next = Resting \/ (next = [saver[s] EXCEPT !.at = next.at]
                                /\ next.at \in {"rename", "retry"}),
           Orderly => \/ next = Resting /\ atPath' = atPath
                      \/ saver[s].at = "rename" /\ next.at = "retry" /\ PathMayVanish,
           atPath' \in {atPath, None}
    PROVE  FileInv'
<1>1. next \in SaverStates
  BY ProcessFacts DEF FileInv, SaverStates
<1>2. FileTypeOK'
  BY <1>1, SavesUnchanged DEF FileInv, FileTypeOK
<1>3. ASSUME Orderly PROVE OrderlyInv'
  <2>1. /\ OrderlyInv /\ saver[s] # Resting
        /\ \A o \in Savers : saver'[o] = IF o = s THEN next ELSE saver[o]
    BY <1>3, ProcessFacts DEF FileInv, FileTypeOK
  <2>2. SaverOwnsTmp'
    <3>1. CASE next = Resting
      BY <2>1, <3>1 DEF OrderlyInv, SaverOwnsTmp, PathMayVanish
    <3>2. CASE next # Resting
      <4>1. /\ saver[s].at = "rename" /\ next.at = "retry" /\ PathMayVanish
            /\ next = [saver[s] EXCEPT !.at = next.at]
        BY <1>3, <3>2
      <4>2. saver[s] \in [at : {"write", "rename", "retry"}, save : 1..saves,
                          to : Files, mode : Modes, block : Blocks]
        BY ProcessFacts DEF FileInv
      <4>3. next.save = saver[s].save /\ next.to = saver[s].to
        BY <4>1, <4>2
      <4>4. \A o \in Savers : o # s => saver'[o] = Resting
        BY <2>1 DEF OrderlyInv, SaverOwnsTmp
      <4> QED
        BY <2>1, <4>1, <4>3, <4>4 DEF OrderlyInv, SaverOwnsTmp, PathMayVanish
    <3> QED
      BY <3>1, <3>2
  <2>3. PathIsComplete'
    <3>1. atPath' # atPath => PathMayVanish /\ acked < saves
      BY <1>3, <2>1 DEF OrderlyInv, SaverOwnsTmp
    <3> QED
      BY <2>1, <3>1 DEF OrderlyInv, PathIsComplete, PathMayVanish
  <2> QED
    BY <2>1, <2>2, <2>3 DEF OrderlyInv, ReadersUndisturbed
<1> QED
  BY <1>2, <1>3 DEF FileInv, Orderly

LEMMA WriteRefusedPreserves ==
    ASSUME FileInv, NEW s \in Savers, WriteRefused(s)
    PROVE  FileInv'
<1> DEFINE next == IF saver[s].mode = "direct" THEN Resting ELSE [saver[s] EXCEPT !.at = "rename"]
<1>1. /\ saver[s].at = "write"
      /\ saver' = [saver EXCEPT ![s] = next]
      /\ UNCHANGED <<setting, file, onDevice, atPath, atTmp, loader, saves, acked>>
  BY DEF WriteRefused
<1>2. saver[s].mode \in Modes
  BY <1>1, ProcessFacts DEF FileInv
<1>3. Orderly => next = Resting
  BY <1>2 DEF WriteRefused, Orderly, Modes
<1>4. next = Resting \/ (next = [saver[s] EXCEPT !.at = next.at]
                           /\ next.at \in {"rename", "retry"})
  <2>1. CASE saver[s].mode = "direct"
    BY <2>1
  <2>2. CASE saver[s].mode # "direct"
    <3>1. saver[s] \in [at : {"write", "rename", "retry"}, save : 1..saves,
                        to : Files, mode : Modes, block : Blocks]
      BY <1>1, ProcessFacts DEF FileInv
    <3>2. next.at = "rename"
      BY <2>2, <3>1
    <3> QED
      BY <2>2, <3>2
  <2> QED
    BY <2>1, <2>2
<1> HIDE DEF next
<1> QED
  BY <1>1, <1>3, <1>4, SaverMovesOn

(* Replacement: the complete temporary file becomes the one at the path, and  *)
(* its number is that of the save acknowledged by the same step.              *)
LEMMA RenameOverPreserves ==
    ASSUME FileInv, NEW s \in Savers, RenameOver(s)
    PROVE  FileInv'
<1>1. /\ saver[s].at \in {"rename", "retry"} /\ atTmp # None
      /\ atPath' = atTmp /\ atTmp' = None
      /\ acked' = IF saver[s].save > acked THEN saver[s].save ELSE acked
      /\ saver' = [saver EXCEPT ![s] = Resting]
      /\ UNCHANGED <<setting, file, onDevice, loader, saves>>
  BY DEF RenameOver, MayMove
<1>2. saver[s] # Resting /\ saver[s].save \in 1..saves /\ saves \in Nat /\ acked \in 0..saves
  BY <1>1, ProcessFacts DEF FileInv, FileTypeOK
<1>3. FileTypeOK'
  BY <1>1, <1>2, SavesUnchanged DEF FileInv, FileTypeOK, SaverStates
<1>4. ASSUME Orderly PROVE OrderlyInv'
  <2>1. OrderlyInv
    BY <1>4 DEF FileInv
  <2>2. /\ \A o \in Savers : saver[o] # Resting => o = s
        /\ saver[s].save = saves
        /\ file[atTmp] = Filled(saves)
    BY <1>1, <1>2, <2>1 DEF OrderlyInv, SaverOwnsTmp
  <2>3. acked' = saves /\ saves # 0
    BY <1>1, <1>2, <2>2
  <2>4. SaverOwnsTmp'
    BY <1>1, <2>2 DEF SaverOwnsTmp, FileInv, FileTypeOK
  <2>5. PathIsComplete'
    BY <1>1, <1>2, <2>1, <2>2, <2>3, FileAssumption DEF OrderlyInv, PathIsComplete
  <2>6. ReadersUndisturbed'
    <3>1. \A l \in Loaders : loader[l].at = "read" => loader[l].from # None
      BY ProcessFacts, FileAssumption DEF FileInv, ReadingStates, Files
    <3> QED
      BY <1>1, <2>1, <3>1 DEF OrderlyInv, ReadersUndisturbed
  <2> QED
    BY <2>4, <2>5, <2>6 DEF OrderlyInv
<1> QED
  BY <1>1, <1>3, <1>4 DEF FileInv, Orderly

(* The rename is refused.  A saver that is alone still has its temporary file, *)
(* so elsewhere than on Windows this is a refusal of the system.              *)
LEMMA RenameFailsPreserves ==
    ASSUME FileInv, NEW s \in Savers, RenameFails(s)
    PROVE  FileInv'
<1>1. /\ saver[s].at = "rename" /\ saver[s] # Resting
      /\ saver[s] \in [at : {"write", "rename", "retry"}, save : 1..saves,
                        to : Files, mode : Modes, block : Blocks]
      /\ UNCHANGED <<setting, file, atTmp, loader, saves, acked>>
  BY ProcessFacts DEF RenameFails, FileInv
<1>2. CASE setting.windows
  BY <1>1, <1>2, SaverMovesOn DEF RenameFails
<1>3. CASE ~ setting.windows
  <2>1. Orderly => PathMayVanish
    <3>1. saver[s].to # None
      BY <1>1, FileAssumption DEF Files
    <3> QED
      BY <1>1, <1>3, <3>1 DEF RenameFails, RenameRefused, MayMove, PathMayVanish, FileInv,
                              OrderlyInv, SaverOwnsTmp
  <2>2. saver' = [saver EXCEPT ![s] = [saver[s] EXCEPT !.at = "retry"]]
    BY <1>3 DEF RenameFails
  <2>3. [saver[s] EXCEPT !.at = "retry"].at = "retry"
    BY <1>1
  <2>4. atPath' \in {atPath, None}
    BY <1>3 DEF RenameFails
  <2> QED
    BY <1>1, <2>1, <2>2, <2>3, <2>4, SaverMovesOn
<1> QED
  BY <1>2, <1>3

(* A call that ends without renaming, or is killed. *)
LEMMA SaverGivesUpPreserves ==
    ASSUME FileInv, NEW s \in Savers, RetryFails(s) \/ Kill(s)
    PROVE  FileInv'
<1>1. saver[s].at \in {"write", "rename", "retry"}
  BY ProcessFacts DEF RetryFails, Kill, FileInv
<1>2. /\ saver' = [saver EXCEPT ![s] = Resting]
      /\ UNCHANGED <<setting, file, atPath, atTmp, loader, saves, acked>>
  BY DEF RetryFails, Kill
<1> QED
  BY <1>1, <1>2, SaverMovesOn

LEMMA SaveOnPreserves ==
    ASSUME FileInv, NEW s \in Savers, SaveOn(s)
    PROVE  FileInv'
  BY WriteBlockPreserves, WriteRefusedPreserves, RenameOverPreserves, RenameFailsPreserves,
     SaverGivesUpPreserves DEF SaveOn

----------------------------------------------------------------------------
(* The steps of a loader *)

(* A step of one loader keeps the invariant if its new state is well formed   *)
(* and, in an orderly setting, undisturbed.                                   *)
LEMMA LoaderMovesOn ==
    ASSUME FileInv, NEW l \in Loaders, NEW next,
           loader' = [loader EXCEPT ![l] = next],
           UNCHANGED <<setting, file, atPath, atTmp, saver, saves, acked>>,
           next \in {Waiting, Unread} \cup ReadingStates \cup LoadedStates,
           Orderly =>
              /\ next.at = "read" =>
                    /\ next.from \in 1..saves /\ next.from # atTmp
                    /\ next.since \in 1..saves
                    /\ file[next.from] = Filled(next.since)
                    /\ \A b \in Blocks : b < next.block => next.got[b] = next.since
              /\ next.at \in {"loaded", "refused"} =>
                    next.at = "loaded" /\ next.snapshot = Filled(next.since)
    PROVE  FileInv'
<1>1. FileTypeOK'
  BY SavesUnchanged DEF FileInv, FileTypeOK
<1>2. ASSUME Orderly PROVE OrderlyInv'
  <2>1. OrderlyInv
    BY <1>2 DEF FileInv
  <2>2. \A k \in Loaders : loader'[k] = IF k = l THEN next ELSE loader[k]
    BY DEF FileInv, FileTypeOK
  <2>3. ReadersUndisturbed'
    BY <1>2, <2>1, <2>2 DEF OrderlyInv, ReadersUndisturbed
  <2> QED
    BY <2>1, <2>3 DEF OrderlyInv, SaverOwnsTmp, PathIsComplete, PathMayVanish
<1> QED
  BY <1>1, <1>2 DEF FileInv, Orderly

LEMMA OpenPathPreserves ==
    ASSUME FileInv, NEW l \in Loaders, OpenPath(l)
    PROVE  FileInv'
<1> DEFINE next == [at |-> "read", from |-> atPath, got |-> Empty, block |-> 1, since |-> acked]
<1>1. /\ atPath # None
      /\ loader' = [loader EXCEPT ![l] = next]
      /\ UNCHANGED <<setting, file, onDevice, atPath, atTmp, saver, saves, acked>>
  BY DEF OpenPath
<1>2. next \in ReadingStates
  BY <1>1 DEF FileInv, FileTypeOK, ReadingStates, Empty, Hole
<1>3. Orderly =>
         /\ next.from \in 1..saves /\ next.from # atTmp
         /\ next.since \in 1..saves
         /\ file[next.from] = Filled(next.since)
         /\ \A b \in Blocks : ~ (b < next.block)
  BY <1>1 DEF FileInv, FileTypeOK, OrderlyInv, PathIsComplete, Blocks
<1> QED
  BY <1>1, <1>2, <1>3, LoaderMovesOn DEF Blocks

LEMMA ReadBlockPreserves ==
    ASSUME FileInv, NEW l \in Loaders, ReadBlock(l)
    PROVE  FileInv'
<1> DEFINE c == loader[l]
           got == [c.got EXCEPT ![c.block] = file[c.from][c.block]]
           next == [[c EXCEPT !.got = got] EXCEPT !.block = c.block + 1]
<1>1. /\ c.at = "read" /\ c.block \in Blocks
      /\ loader' = [loader EXCEPT ![l] = next]
      /\ UNCHANGED <<setting, file, onDevice, atPath, atTmp, saver, saves, acked>>
  BY DEF ReadBlock
<1>2. c \in ReadingStates
  BY <1>1, ProcessFacts DEF FileInv
<1>3. got \in [Blocks -> 0..saves]
  BY <1>1, <1>2 DEF ReadingStates, FileInv, FileTypeOK
<1>4. /\ next \in ReadingStates
      /\ next.at = "read" /\ next.from = c.from /\ next.since = c.since
      /\ next.got = got /\ next.block = c.block + 1
  <2> HIDE DEF got
  <2>1. PICK from \in Files, old \in [Blocks -> 0..saves], block \in 1..3, since \in Nat :
           c = [at |-> "read", from |-> from, got |-> old, block |-> block, since |-> since]
    BY <1>2 DEF ReadingStates
  <2>2. [c EXCEPT !.got = got]
          = [at |-> "read", from |-> from, got |-> got, block |-> block, since |-> since]
    BY <2>1
  <2>3. next = [at |-> "read", from |-> from, got |-> got, block |-> block + 1, since |-> since]
    <3> DEFINE mid == [c EXCEPT !.got = got]
    <3>1. c.block = block
      BY <2>1
    <3>2. [mid EXCEPT !.block = block + 1]
            = [at |-> "read", from |-> from, got |-> got, block |-> block + 1, since |-> since]
      <4>1. mid = [at |-> "read", from |-> from, got |-> got, block |-> block, since |-> since]
        BY <2>2
      <4> HIDE DEF mid
      <4> QED
        BY <4>1
    <3> QED
      BY <3>1, <3>2
  <2>4. block + 1 \in 1..3
    BY <1>1, <2>1 DEF Blocks
  <2> HIDE DEF c, next
  <2> QED
    BY <1>3, <2>1, <2>3, <2>4 DEF ReadingStates
<1>5. ASSUME Orderly
      PROVE  /\ c.from \in 1..saves /\ c.from # atTmp
             /\ c.since \in 1..saves
             /\ file[c.from] = Filled(c.since)
             /\ \A b \in Blocks : b < c.block + 1 => got[b] = c.since
  <2>1. /\ c.from \in 1..saves /\ c.from # atTmp
        /\ c.since \in 1..saves
        /\ file[c.from] = Filled(c.since)
        /\ \A b \in Blocks : b < c.block => c.got[b] = c.since
    BY <1>1, <1>5 DEF FileInv, OrderlyInv, ReadersUndisturbed
  <2>2. \A b \in Blocks : b < c.block + 1 => got[b] = c.since
    BY <1>1, <1>2, <2>1 DEF Filled, ReadingStates, Blocks
  <2> QED
    BY <2>1, <2>2
<1> HIDE DEF c, got, next
<1> QED
  BY <1>1, <1>4, <1>5, LoaderMovesOn

LEMMA FinishLoadPreserves ==
    ASSUME FileInv, NEW l \in Loaders, FinishLoad(l)
    PROVE  FileInv'
<1> DEFINE c == loader[l]
           next == [at |-> IF ChecksumMatches(c.got) THEN "loaded" ELSE "refused",
                    snapshot |-> c.got, since |-> c.since]
<1>1. /\ c.at = "read" /\ c.block \notin Blocks
      /\ loader' = [loader EXCEPT ![l] = next]
      /\ UNCHANGED <<setting, file, onDevice, atPath, atTmp, saver, saves, acked>>
  BY DEF FinishLoad
<1>2. c \in ReadingStates
  BY <1>1, ProcessFacts DEF FileInv
<1>3. next \in LoadedStates /\ next.at # "read"
  BY <1>2 DEF ReadingStates, LoadedStates
<1>4. Orderly => next.at = "loaded" /\ next.snapshot = Filled(next.since)
  <2> SUFFICES ASSUME Orderly PROVE next.at = "loaded" /\ next.snapshot = Filled(next.since)
    OBVIOUS
  <2>1. c.since \in 1..saves /\ \A b \in Blocks : c.got[b] = c.since
    <3>1. c.block = 3
      BY <1>1, <1>2 DEF ReadingStates, Blocks
    <3> QED
      BY <1>1, <3>1 DEF FileInv, OrderlyInv, ReadersUndisturbed, Blocks
  <2>2. c.got = Filled(c.since)
    BY <1>2, <2>1 DEF Filled, ReadingStates
  <2>3. ChecksumMatches(c.got)
    BY <2>1 DEF ChecksumMatches, Blocks, Hole
  <2> QED
    BY <2>2, <2>3
<1> HIDE DEF next
<1> QED
  BY <1>1, <1>3, <1>4, LoaderMovesOn

LEMMA ReadRefusedPreserves ==
    ASSUME FileInv, NEW l \in Loaders, ReadRefused(l)
    PROVE  FileInv'
  BY LoaderMovesOn DEF ReadRefused, Unread

LEMMA LoadOnPreserves ==
    ASSUME FileInv, NEW l \in Loaders, LoadOn(l)
    PROVE  FileInv'
  BY OpenPathPreserves, ReadBlockPreserves, FinishLoadPreserves, ReadRefusedPreserves DEF LoadOn

----------------------------------------------------------------------------
(* The environment *)

LEMMA WriteBackPreserves ==
    ASSUME FileInv, NEW f \in Files, WriteBack(f)
    PROVE  FileInv'
<1>1. UNCHANGED <<setting, file, atPath, atTmp, saver, loader, saves, acked>>
  BY DEF WriteBack
<1>2. FileTypeOK'
  BY <1>1, SavesUnchanged DEF FileInv, FileTypeOK
<1>3. Orderly => OrderlyInv'
  BY <1>1 DEF FileInv, OrderlyInv, SaverOwnsTmp, PathIsComplete, PathMayVanish, ReadersUndisturbed
<1> QED
  BY <1>1, <1>2, <1>3 DEF FileInv, Orderly

(* Power does not fail in an orderly setting; elsewhere a file keeps its      *)
(* blocks or loses them all.                                                  *)
LEMMA PowerLossPreserves ==
    ASSUME FileInv, PowerLoss
    PROVE  FileInv'
<1>1. ~ Orderly /\ UNCHANGED <<setting, atPath, atTmp, saves, acked>>
  BY DEF PowerLoss, Orderly
<1>2. file' \in [Files -> [Blocks -> 0..saves]]
  BY DEF PowerLoss, FileInv, FileTypeOK, Empty, Hole
<1>3. FileTypeOK'
  BY <1>1, <1>2, SavesUnchanged DEF FileInv, FileTypeOK, PowerLoss, SaverStates
<1> QED
  BY <1>1, <1>3 DEF FileInv, Orderly

(* A command that is killed ends what it was doing as saver and as loader. *)
LEMMA AbandonPreserves ==
    ASSUME FileInv, NEW s,
           saver' = [saver EXCEPT ![s] = Resting],
           loader' = [loader EXCEPT ![s] = Waiting],
           UNCHANGED <<setting, file, atPath, atTmp, saves, acked>>
    PROVE  FileInv'
<1>1. FileTypeOK'
  BY SavesUnchanged DEF FileInv, FileTypeOK, SaverStates
<1>2. ASSUME Orderly PROVE OrderlyInv'
  <2>1. /\ \A o \in Savers : saver'[o] \in {saver[o], Resting}
        /\ \A l \in Loaders : loader'[l] \in {loader[l], Waiting}
    BY DEF FileInv, FileTypeOK
  <2>2. SaverOwnsTmp'
    BY <1>2, <2>1 DEF FileInv, OrderlyInv, SaverOwnsTmp, PathMayVanish
  <2>3. ReadersUndisturbed'
    BY <1>2, <2>1 DEF FileInv, OrderlyInv, ReadersUndisturbed, Waiting
  <2> QED
    BY <1>2, <2>2, <2>3 DEF FileInv, OrderlyInv, PathIsComplete, PathMayVanish
<1> QED
  BY <1>1, <1>2 DEF FileInv, Orderly

LEMMA FileUnchanged ==
    ASSUME FileInv, UNCHANGED vars
    PROVE  FileInv'
<1>1. FileTypeOK'
  BY SavesUnchanged DEF FileInv, FileTypeOK, vars
<1> QED
  BY <1>1 DEF FileInv, Orderly, OrderlyInv, SaverOwnsTmp, PathIsComplete, PathMayVanish,
              ReadersUndisturbed, vars

----------------------------------------------------------------------------
(* Every step of save_file, of load_file and of the operating system,         *)
(* failures, kills and a loss of power included, keeps the invariant.         *)
THEOREM FileNextPreserves == FileInv /\ [Next]_vars => FileInv'
<1> SUFFICES ASSUME FileInv, [Next]_vars PROVE FileInv'
  OBVIOUS
<1>1. ASSUME NEW s \in Savers, OpenTmp(s) \/ SaveOn(s) \/ Kill(s) PROVE FileInv'
  BY <1>1, OpenTmpPreserves, SaveOnPreserves, SaverGivesUpPreserves
<1>2. ASSUME NEW l \in Loaders, LoadOn(l) PROVE FileInv'
  BY <1>2, LoadOnPreserves
<1>3. ASSUME NEW f \in Files, WriteBack(f) PROVE FileInv'
  BY <1>3, WriteBackPreserves
<1>4. CASE PowerLoss
  BY <1>4, PowerLossPreserves
<1>5. CASE UNCHANGED vars
  BY <1>5, FileUnchanged
<1> QED
  BY <1>1, <1>2, <1>3, <1>4, <1>5 DEF Next

(* The invariant of the files, in every state savers and loaders reach. *)
THEOREM FileInvariant == Spec => []FileInv
  BY FileStarts, FileNextPreserves, PTL DEF Spec

(* What FileInv says of the properties. *)
LEMMA FileInvSuffices ==
    ASSUME FileInv
    PROVE  LoadedWasSaved /\ AckedSnapshotSurvives /\ LoadIsFresh
<1>1. LoadedWasSaved
  <2> SUFFICES ASSUME NEW l \in Loaders, loader[l].at = "loaded"
               PROVE  \E v \in 1..saves : loader[l].snapshot = [b \in Blocks |-> v]
    BY DEF LoadedWasSaved
  <2> DEFINE bytes == loader[l].snapshot
  <2>1. bytes \in [Blocks -> 0..saves] /\ ChecksumMatches(bytes)
    BY ProcessFacts DEF FileInv, LoadedStates
  <2> HIDE DEF bytes
  <2>2. bytes = [b \in Blocks |-> bytes[1]] /\ bytes[1] \in 0..saves /\ bytes[1] # 0
    BY <2>1 DEF ChecksumMatches, Blocks, Hole
  <2>3. saves \in Nat
    BY DEF FileInv, FileTypeOK
  <2>4. bytes[1] \in 1..saves
    BY <2>2, <2>3
  <2> QED
    BY <2>2, <2>4 DEF bytes
<1>2. AckedSnapshotSurvives
  <2> SUFFICES ASSUME Orderly, acked # 0, atPath # None PROVE PathIsSound
    BY DEF AckedSnapshotSurvives, FileInv, OrderlyInv, PathIsComplete
  <2>1. file[atPath] = Filled(acked) /\ acked \in Nat
    BY DEF FileInv, FileTypeOK, OrderlyInv, PathIsComplete
  <2> QED
    BY <2>1 DEF PathIsSound, ChecksumMatches, Filled, Blocks, Hole
<1>3. LoadIsFresh
  <2> SUFFICES ASSUME Orderly, NEW l \in Loaders
               PROVE  /\ loader[l].at # "refused"
                      /\ loader[l].at = "loaded" => loader[l].snapshot[1] >= loader[l].since
    BY DEF LoadIsFresh
  <2>1. loader[l].at \in {"loaded", "refused"} =>
           loader[l].at = "loaded" /\ loader[l].snapshot = Filled(loader[l].since)
    BY DEF FileInv, OrderlyInv, ReadersUndisturbed
  <2>2. loader[l].at = "loaded" => loader[l].since \in Nat
    BY ProcessFacts DEF FileInv, LoadedStates
  <2> QED
    BY <2>1, <2>2 DEF Filled, Blocks
<1> QED
  BY <1>1, <1>2, <1>3

(* Corruption is detected, for any number of savers and loaders and whatever  *)
(* fails: a load that succeeds returns the snapshot of one save, never a      *)
(* mixture of two, and never a file with a lost block.                        *)
THEOREM LoadsAreSnapshots == Spec => []LoadedWasSaved
<1>1. FileInv => LoadedWasSaved
  BY FileInvSuffices
<1> QED
  BY <1>1, FileInvariant, PTL

(* Where savers take turns, power stays on and writes are refused, if at all, *)
(* while the stream is open, whatever else the system refuses: the path names  *)
(* a complete snapshot no older than the last acknowledged, or, only after a   *)
(* later save was begun where renames may be refused, nothing.                *)
THEOREM AckedSnapshotsSurvive == Spec => []AckedSnapshotSurvives
<1>1. FileInv => AckedSnapshotSurvives
  BY FileInvSuffices
<1> QED
  BY <1>1, FileInvariant, PTL

(* There no load that can read the file is refused by its checks, and none     *)
(* returns less than what was acknowledged when it began, although the file is *)
(* replaced or removed while it is read.                                      *)
THEOREM LoadsAreFresh == Spec => []LoadIsFresh
<1>1. FileInv => LoadIsFresh
  BY FileInvSuffices
<1> QED
  BY <1>1, FileInvariant, PTL
=============================================================================

------------------------- MODULE CommandLine_proofs -------------------------
(***************************************************************************)
(* Theorems about the commands of spc on a snapshot file, for any number   *)
(* of commands and readers.                                                *)
(*                                                                         *)
(* The commands call save_file and load_file as SnapshotFile has them, so  *)
(* FileInv holds here too, in every setting.  In an orderly one the store  *)
(* a command works on is followed from the file it loads to the file it    *)
(* saves (CommandInv).                                                     *)
(***************************************************************************)
EXTENDS CommandLine, SnapshotFile_proofs

Places == {"ready", "load", "apply", "save", "exited"}

CommandTypeOK ==
    /\ DOMAIN step \subseteq DOMAIN Commands
    /\ step \in [DOMAIN step -> Places]
    /\ DOMAIN store = DOMAIN Commands
    /\ DOMAIN content = 0..MaxSaves
    /\ succeeded \subseteq DOMAIN step

(* The store the file holds: what save number acked was given, or nothing. *)
Held == IF atPath = None THEN {} ELSE content[acked]

(* One command runs at a time, and the one that saves is the only saver. *)
CommandsTakeTurns ==
    /\ \A c, d \in Running : c = d
    /\ \A s \in Savers : saver[s] # Resting => s \in DOMAIN step /\ step[s] = "save"
    /\ \A c \in DOMAIN step : step[c] = "save" => saver[c] # Resting

(* A command may have begun with a fresh store although the file is sound. *)
StartedOver(c) == "load" \in setting.faulty /\ Op(c) # "recover"

(* What the running command has in its store, from place to place. *)
StoreFollowsFile ==
    \A c \in DOMAIN step :
        /\ step[c] = "ready" => loader[c] = Waiting
        /\ step[c] \in {"ready", "load"} => store[c] = {}
        /\ step[c] = "load" /\ loader[c].at = "unread" => "load" \in setting.faulty
        /\ step[c] = "load" /\ loader[c].at \in {"read", "loaded", "refused"} =>
              atPath # None /\ loader[c].since = acked
        /\ step[c] = "apply" => store[c] = Held \/ (StartedOver(c) /\ store[c] = {})
        /\ step[c] = "save" => /\ content[saves] = store[c]
                               /\ \/ store[c] = Held \cup Change(c)
                                  \/ StartedOver(c) /\ store[c] = Change(c)
                                  \/ saver[c].at = "retry"

SuccessIsHeld ==
    ~ ChangesMayBeLost =>
        \A c \in succeeded : Change(c) \subseteq Held \/ (Op(c) = "invalidate" /\ SaveMayFail)

TurnsInv ==
    /\ CommandsTakeTurns
    /\ StoreFollowsFile
    /\ SuccessIsHeld

CommandInv ==
    /\ FileInv
    /\ CommandTypeOK
    /\ Orderly /\ ~ Direct => TurnsInv

----------------------------------------------------------------------------
LEMMA CommandStarts == CommandInit => CommandInv
<1> SUFFICES ASSUME CommandInit PROVE CommandInv
  OBVIOUS
<1>1. FileInv
  BY FileStarts DEF CommandInit
<1>2. CommandTypeOK
  BY FileAssumption DEF CommandInit, CommandTypeOK, Places
<1>3. TurnsInv
  <2>1. \A c \in DOMAIN step : step[c] = "ready" /\ c \in Savers \cap Loaders
    BY CommandAssumption DEF CommandInit
  <2>2. CommandsTakeTurns
    BY <2>1 DEF CommandsTakeTurns, Running, CommandInit, Init
  <2>3. StoreFollowsFile
    BY <2>1 DEF StoreFollowsFile, CommandInit, Init, Waiting
  <2>4. SuccessIsHeld
    BY DEF CommandInit, SuccessIsHeld
  <2> QED
    BY <2>2, <2>3, <2>4 DEF TurnsInv
<1> QED
  BY <1>1, <1>2, <1>3 DEF CommandInv

(* Where one command runs at a time the file holds the store that the save    *)
(* acknowledged last was given, or nothing.                                   *)
LEMMA StoredIsHeld ==
    ASSUME FileInv, Orderly
    PROVE  Stored = Held
<1>1. atPath # None => file[atPath] = Filled(acked)
  BY DEF FileInv, OrderlyInv, PathIsComplete
<1> QED
  BY <1>1 DEF Stored, Held, Filled, Blocks

(* What a step of save_file does to the save it belongs to, in an orderly     *)
(* setting: it goes on, or is acknowledged, or has failed where it may; and   *)
(* only a rename that is refused takes the path away.                         *)
LEMMA SaveOutcome ==
    ASSUME FileInv, Orderly, NEW s \in Savers, SaveOn(s)
    PROVE  /\ UNCHANGED <<loader, saves, setting>>
           /\ saver[s].save = saves /\ acked < saves
           /\ \A o \in Savers : o # s => saver'[o] = saver[o]
           /\ \/ acked' = acked /\ atPath' = atPath
              \/ acked' = acked /\ atPath' = None /\ PathMayVanish /\ saver[s].at = "rename"
              \/ /\ acked' = saves /\ atPath' # None /\ saver'[s] = Resting
                 /\ saver[s].at = "rename" \/ (PathMayVanish /\ saver[s].at = "retry")
           /\ saver'[s] # Resting =>
                 saver'[s].at = "retry" \/ (atPath' = atPath /\ saver[s].at # "retry")
           /\ saver'[s] = Resting => acked' = saves \/ SaveMayFail
<1>1. /\ saver[s].at \in {"write", "rename", "retry"} /\ saver[s] # Resting
      /\ saver[s] \in [at : {"write", "rename", "retry"}, save : 1..saves,
                        to : Files, mode : Modes, block : Blocks]
  <2>1. saver[s].at \in {"write", "rename", "retry"}
    BY DEF SaveOn, WriteBlock, WriteRefused, RenameOver, RenameFails, RetryFails
  <2> QED
    BY <2>1, ProcessFacts DEF FileInv
<1>2. /\ saver[s].save = saves /\ acked < saves /\ acked \in 0..saves /\ saves \in Nat
      /\ saver[s].to = atTmp /\ atTmp # None
      /\ saver[s].at = "retry" => PathMayVanish
  BY <1>1, FileAssumption DEF FileInv, FileTypeOK, OrderlyInv, SaverOwnsTmp, Files
<1>3. CASE WriteBlock(s)
  <2>1. saver'[s].at \in {"write", "rename"} /\ saver[s].at = "write"
    <3>1. [saver[s] EXCEPT !.at = "rename"].at = "rename"
      BY <1>1
    <3>2. [saver[s] EXCEPT !.block = 2].at = saver[s].at
      BY <1>1
    <3> QED
      BY <1>3, <3>1, <3>2 DEF WriteBlock, FileInv, FileTypeOK
  <2>2. saver'[s] # Resting
    BY <2>1 DEF Resting
  <2> QED
    BY <1>2, <1>3, <2>1, <2>2 DEF WriteBlock, FileInv, FileTypeOK
<1>4. CASE WriteRefused(s)
  <2>1. saver[s].mode = "direct" /\ SaveMayFail
    BY <1>1, <1>4 DEF WriteRefused, SaveMayFail, Orderly, Modes
  <2>2. saver' = [saver EXCEPT ![s] = Resting]
    BY <1>4, <2>1 DEF WriteRefused
  <2> QED
    BY <1>2, <1>4, <2>1, <2>2 DEF WriteRefused, FileInv, FileTypeOK
<1>5. CASE RenameOver(s)
  <2>1. acked' = saves
    BY <1>2, <1>5 DEF RenameOver
  <2> QED
    BY <1>2, <1>5, <2>1 DEF RenameOver, MayMove, FileInv, FileTypeOK
<1>6. CASE RenameFails(s)
  <2>1. CASE setting.windows
    BY <1>2, <1>6, <2>1 DEF RenameFails, SaveMayFail, FileInv, FileTypeOK
  <2>2. CASE ~ setting.windows
    <3>1. PathMayVanish
      BY <1>2, <1>6, <2>2 DEF RenameFails, RenameRefused, MayMove, PathMayVanish
    <3>2. /\ saver' = [saver EXCEPT ![s] = [saver[s] EXCEPT !.at = "retry"]]
          /\ saver[s].at = "rename" /\ atPath' \in {atPath, None}
          /\ UNCHANGED <<setting, loader, saves, acked>>
      BY <1>6, <2>2 DEF RenameFails
    <3>3. saver'[s] = [saver[s] EXCEPT !.at = "retry"] /\ saver'[s].at = "retry"
      BY <1>1, <3>2 DEF FileInv, FileTypeOK
    <3> QED
      BY <1>2, <3>1, <3>2, <3>3 DEF Resting, FileInv, FileTypeOK
  <2> QED
    BY <2>1, <2>2
<1>7. CASE RetryFails(s)
  BY <1>2, <1>7 DEF RetryFails, PathMayVanish, SaveMayFail, FileInv, FileTypeOK
<1> QED
  BY <1>3, <1>4, <1>5, <1>6, <1>7 DEF SaveOn

----------------------------------------------------------------------------
(* The file and the types, in every setting *)

LEMMA CommandFilePreserved ==
    ASSUME CommandInv, [CommandNext]_commandVars
    PROVE  FileInv'
<1>1. \A c \in DOMAIN step : c \in Savers /\ c \in Loaders
  BY CommandAssumption DEF CommandInv, CommandTypeOK
<1>2. FileInv
  BY DEF CommandInv
<1>3. ASSUME NEW c \in DOMAIN step,
             Start(c) \/ LoadFails(c) \/ Restore(c) \/ ApplyFails(c) \/ ApplyUnsaved(c)
      PROVE  FileInv'
  BY <1>2, <1>3, FileUnchanged DEF Start, LoadFails, Restore, ApplyFails, ApplyUnsaved
<1>4. ASSUME NEW c \in DOMAIN step, LoadStep(c) PROVE FileInv'
  BY <1>1, <1>2, <1>4, LoadOnPreserves DEF LoadStep
<1>5. ASSUME NEW c \in DOMAIN step, Apply(c) PROVE FileInv'
  BY <1>1, <1>2, <1>5, OpenTmpPreserves DEF Apply
<1>6. ASSUME NEW c \in DOMAIN step, SaveStep(c) PROVE FileInv'
  BY <1>1, <1>2, <1>6, SaveOnPreserves DEF SaveStep
<1>7. ASSUME NEW c \in DOMAIN step, KillCommand(c) PROVE FileInv'
  BY <1>2, <1>7, AbandonPreserves DEF KillCommand
<1>8. CASE Others
  <2>1. ASSUME NEW l \in Loaders, LoadOn(l) PROVE FileInv'
    BY <1>2, <2>1, LoadOnPreserves
  <2>2. ASSUME NEW f \in Files, WriteBack(f) PROVE FileInv'
    BY <1>2, <2>2, WriteBackPreserves
  <2>3. ASSUME NEW s \in Savers, OpenTmp(s) \/ SaveOn(s) \/ Kill(s) PROVE FileInv'
    BY <1>2, <2>3, OpenTmpPreserves, SaveOnPreserves, SaverGivesUpPreserves
  <2> QED
    BY <1>8, <2>1, <2>2, <2>3 DEF Others
<1>9. CASE PowerLost
  BY <1>2, <1>9, PowerLossPreserves DEF PowerLost
<1>10. CASE UNCHANGED commandVars
  BY <1>2, <1>10, FileUnchanged DEF commandVars
<1> QED
  BY <1>3, <1>4, <1>5, <1>6, <1>7, <1>8, <1>9, <1>10 DEF CommandNext

LEMMA CommandTypesPreserved ==
    ASSUME CommandTypeOK, [CommandNext]_commandVars
    PROVE  CommandTypeOK' /\ DOMAIN step' = DOMAIN step /\ UNCHANGED setting
<1>1. ASSUME NEW c \in DOMAIN step,
             Start(c) \/ LoadStep(c) \/ LoadFails(c) \/ Restore(c) \/ ApplyFails(c)
               \/ ApplyUnsaved(c) \/ SaveStep(c) \/ KillCommand(c)
      PROVE  /\ step' \in [DOMAIN step -> Places]
             /\ DOMAIN store' = DOMAIN store /\ content' = content
             /\ succeeded' \subseteq succeeded \cup {c}
  BY <1>1 DEF CommandTypeOK, Start, LoadStep, LoadFails, Restore, ApplyFails, ApplyUnsaved,
              SaveStep, KillCommand, Goto, Exit, Places
<1>2. ASSUME NEW c \in DOMAIN step, Apply(c)
      PROVE  /\ step' \in [DOMAIN step -> Places]
             /\ DOMAIN store' = DOMAIN store /\ DOMAIN content' = DOMAIN content
             /\ succeeded' = succeeded
  BY <1>2 DEF CommandTypeOK, Apply, Goto, Places
<1>3. ASSUME Others \/ PowerLost \/ UNCHANGED commandVars
      PROVE  /\ step' \in [DOMAIN step -> Places]
             /\ UNCHANGED <<store, content, succeeded>>
  BY <1>3 DEF CommandTypeOK, Others, PowerLost, commandVars, Places
<1>4. UNCHANGED setting
  <2>1. \A s : OpenTmp(s) \/ SaveOn(s) \/ Kill(s) => UNCHANGED setting
    BY DEF OpenTmp, SaveOn, WriteBlock, WriteRefused, RenameOver, RenameFails, RetryFails, Kill
  <2>2. \A l : LoadOn(l) => UNCHANGED setting
    BY DEF LoadOn, OpenPath, ReadBlock, FinishLoad, ReadRefused
  <2>3. ASSUME NEW c \in DOMAIN step,
               Start(c) \/ LoadStep(c) \/ LoadFails(c) \/ Restore(c) \/ ApplyFails(c)
                 \/ Apply(c) \/ ApplyUnsaved(c) \/ SaveStep(c) \/ KillCommand(c)
        PROVE  UNCHANGED setting
    BY <2>1, <2>2, <2>3 DEF Start, LoadStep, LoadFails, Restore, ApplyFails, Apply, ApplyUnsaved,
                            SaveStep, KillCommand, vars
  <2>4. Others \/ PowerLost \/ UNCHANGED commandVars => UNCHANGED setting
    BY <2>1, <2>2 DEF Others, PowerLost, WriteBack, PowerLoss, commandVars, vars
  <2> QED
    BY <2>3, <2>4 DEF CommandNext
<1> QED
  BY <1>1, <1>2, <1>3, <1>4 DEF CommandNext, CommandTypeOK

----------------------------------------------------------------------------
(* One command after the other, in an orderly setting *)

(* A step of one command keeps the invariant if what it leaves the command    *)
(* with fits the place it goes to.                                            *)
LEMMA CommandMovesOn ==
    ASSUME TurnsInv, NEW c \in DOMAIN step, c \in Savers,
           c \in Running \/ Running = {},
           NEW place \in {"load", "apply", "save", "exited"},
           Goto(c, place),
           \A d \in DOMAIN step : d # c => store'[d] = store[d] /\ loader'[d] = loader[d],
           \A s \in Savers : s # c => saver'[s] = saver[s],
           place = "save" <=> saver'[c] # Resting,
           place = "load" =>
              /\ store'[c] = {}
              /\ loader'[c].at = "unread" => "load" \in setting'.faulty
              /\ loader'[c].at \in {"read", "loaded", "refused"} =>
                    atPath' # None /\ loader'[c].since = acked',
           place = "apply" => store'[c] = Held' \/ (StartedOver(c)' /\ store'[c] = {}),
           place = "save" =>
              /\ content'[saves'] = store'[c]
              /\ \/ store'[c] = Held' \cup Change(c)
                 \/ StartedOver(c)' /\ store'[c] = Change(c)
                 \/ saver'[c].at = "retry",
           SuccessIsHeld'
    PROVE  TurnsInv'
<1>1. /\ DOMAIN step' = DOMAIN step /\ step'[c] = place
      /\ \A d \in DOMAIN step : d # c => step'[d] = step[d]
  BY DEF Goto
<1>2. \A d \in DOMAIN step : d # c => step[d] \notin {"load", "apply", "save"}
  BY DEF TurnsInv, CommandsTakeTurns, Running
<1>3. CommandsTakeTurns'
  <2>1. \A d \in Running' : d = c
    BY <1>1, <1>2 DEF Running
  <2>2. \A s \in Savers : saver'[s] # Resting => s \in DOMAIN step' /\ step'[s] = "save"
    BY <1>1, <1>2 DEF TurnsInv, CommandsTakeTurns
  <2>3. \A d \in DOMAIN step' : step'[d] = "save" => saver'[d] # Resting
    BY <1>1, <1>2
  <2> QED
    BY <2>1, <2>2, <2>3 DEF CommandsTakeTurns
<1>4. StoreFollowsFile'
  <2> SUFFICES ASSUME NEW d \in DOMAIN step
               PROVE  /\ step'[d] = "ready" => loader'[d] = Waiting
                      /\ step'[d] \in {"ready", "load"} => store'[d] = {}
                      /\ step'[d] = "load" /\ loader'[d].at = "unread" =>
                            "load" \in setting'.faulty
                      /\ step'[d] = "load" /\ loader'[d].at \in {"read", "loaded", "refused"} =>
                            atPath' # None /\ loader'[d].since = acked'
                      /\ step'[d] = "apply" =>
                            store'[d] = Held' \/ (StartedOver(d)' /\ store'[d] = {})
                      /\ step'[d] = "save" =>
                            /\ content'[saves'] = store'[d]
                            /\ \/ store'[d] = Held' \cup Change(d)
                               \/ StartedOver(d)' /\ store'[d] = Change(d)
                               \/ saver'[d].at = "retry"
    BY <1>1 DEF StoreFollowsFile, Change, Op
  <2>1. CASE d = c
    BY <1>1, <2>1
  <2>2. CASE d # c
    BY <1>1, <1>2, <2>2 DEF TurnsInv, StoreFollowsFile
  <2> QED
    BY <2>1, <2>2
<1> QED
  BY <1>3, <1>4 DEF TurnsInv

(* What an orderly step may do to the stored snapshot. *)
HeldMoves ==
    \/ Held' = Held
    \/ \E c \in Running :
          \/ Held' = Held \cup Change(c)
          \/ PathMayVanish /\ saver[c].at = "rename" /\ Held' = {}
          \/ PathMayVanish /\ saver[c].at = "retry" /\ Held' = store[c]
          \/ StartedOver(c) /\ saver[c].at = "rename" /\ Held' = Change(c)

(* The reported successes stay stored when the file only grows. *)
LEMMA SuccessKept ==
    ASSUME SuccessIsHeld, UNCHANGED setting,
           ChangesMayBeLost \/ Held \subseteq Held',
           \A c \in succeeded' \ succeeded :
              Change(c) \subseteq Held' \/ (Op(c) = "invalidate" /\ SaveMayFail)
    PROVE  SuccessIsHeld'
  BY DEF SuccessIsHeld, SaveMayFail, ChangesMayBeLost, PathMayVanish, Change, Op

(* A command that stops short, refused or killed, leaves the file alone. *)
LEMMA CommandStops ==
    ASSUME TurnsInv, NEW c \in DOMAIN step, c \in Savers, c \in Running,
           Exit(c, FALSE),
           saver'[c] = Resting,
           \A d \in DOMAIN step : d # c => loader'[d] = loader[d],
           \A s \in Savers : s # c => saver'[s] = saver[s],
           UNCHANGED <<setting, atPath, acked, store, content>>
    PROVE  TurnsInv' /\ HeldMoves
<1>1. Held' = Held
  BY DEF Held
<1>2. SuccessIsHeld'
  BY <1>1, SuccessKept DEF TurnsInv, Exit
<1>3. TurnsInv'
  BY <1>1, <1>2, CommandMovesOn DEF Exit, TurnsInv
<1> QED
  BY <1>1, <1>3 DEF HeldMoves

(* A step of one command that touches neither the file nor a saver.           *)
LEMMA CommandPrepares ==
    ASSUME TurnsInv, NEW c \in DOMAIN step, c \in Savers,
           c \in Running \/ Running = {},
           NEW place \in {"load", "apply"},
           Goto(c, place),
           \A d \in DOMAIN step : d # c => store'[d] = store[d] /\ loader'[d] = loader[d],
           UNCHANGED <<setting, atPath, saver, acked, content, succeeded>>,
           step[c] # "save",
           place = "load" =>
              /\ store'[c] = {}
              /\ loader'[c].at = "unread" => "load" \in setting.faulty
              /\ loader'[c].at \in {"read", "loaded", "refused"} =>
                    atPath # None /\ loader'[c].since = acked,
           place = "apply" => store'[c] = Held \/ (StartedOver(c) /\ store'[c] = {})
    PROVE  TurnsInv' /\ HeldMoves
<1>1. Held' = Held
  BY DEF Held
<1>2. SuccessIsHeld'
  BY <1>1, SuccessKept DEF TurnsInv
<1>3. saver'[c] = Resting
  BY DEF TurnsInv, CommandsTakeTurns
<1>4. TurnsInv'
  BY <1>1, <1>2, <1>3, CommandMovesOn DEF TurnsInv, StartedOver, Op
<1> QED
  BY <1>1, <1>4 DEF HeldMoves

LEMMA StartTurns ==
    ASSUME CommandInv, TurnsInv, NEW c \in DOMAIN step, c \in Savers, Start(c)
    PROVE  TurnsInv' /\ HeldMoves
<1>1. store[c] = {} /\ loader[c] = Waiting
  BY DEF TurnsInv, StoreFollowsFile, Start
<1> QED
  BY <1>1, CommandPrepares DEF Start, vars, Waiting

LEMMA LoadStepTurns ==
    ASSUME CommandInv, TurnsInv, NEW c \in DOMAIN step, c \in Savers, c \in Loaders, LoadStep(c)
    PROVE  TurnsInv' /\ HeldMoves
<1>1. step[c] = "load" /\ c \in Running /\ store[c] = {}
  BY DEF LoadStep, Running, TurnsInv, StoreFollowsFile
<1>2. Goto(c, "load")
  BY <1>1 DEF LoadStep, Goto, CommandInv, CommandTypeOK
<1>3. /\ \A d \in Loaders : d # c => loader'[d] = loader[d]
      /\ UNCHANGED <<setting, atPath, saver, acked, content, succeeded, store>>
  BY DEF LoadStep, LoadOn, OpenPath, ReadBlock, FinishLoad, ReadRefused,
         CommandInv, FileInv, FileTypeOK
<1>4. /\ loader'[c].at = "unread" => "load" \in setting.faulty
      /\ loader'[c].at \in {"read", "loaded", "refused"} =>
            atPath # None /\ loader'[c].since = acked
  <2>1. CASE OpenPath(c)
    BY <2>1 DEF OpenPath, CommandInv, FileInv, FileTypeOK
  <2>2. CASE ReadBlock(c)
    <3>1. loader[c].at = "read" /\ loader[c] \in ReadingStates
      BY <2>2, ProcessFacts DEF ReadBlock, CommandInv, FileInv
    <3>2. atPath # None /\ loader[c].since = acked
      BY <1>1, <3>1 DEF TurnsInv, StoreFollowsFile
    <3>3. loader'[c].since = loader[c].since /\ loader'[c].at = "read"
      <4> DEFINE mid == [loader[c] EXCEPT !.got = [loader[c].got EXCEPT ![loader[c].block] =
                                                     file[loader[c].from][loader[c].block]]]
      <4>1. loader'[c] = [mid EXCEPT !.block = loader[c].block + 1]
        BY <2>2 DEF ReadBlock, CommandInv, FileInv, FileTypeOK
      <4>2. mid.since = loader[c].since /\ mid.at = "read"
        BY <3>1 DEF ReadingStates
      <4>3. "since" \in DOMAIN mid /\ "at" \in DOMAIN mid
        BY <3>1 DEF ReadingStates
      <4> HIDE DEF mid
      <4> QED
        BY <4>1, <4>2, <4>3
    <3> QED
      BY <3>2, <3>3
  <2>3. CASE FinishLoad(c)
    <3>1. /\ loader[c].at = "read"
          /\ loader'[c].since = loader[c].since /\ loader'[c].at \in {"loaded", "refused"}
      BY <2>3 DEF FinishLoad, CommandInv, FileInv, FileTypeOK
    <3> QED
      BY <1>1, <3>1 DEF TurnsInv, StoreFollowsFile
  <2>4. CASE ReadRefused(c)
    BY <2>4 DEF ReadRefused, Unread, CommandInv, FileInv, FileTypeOK
  <2> QED
    BY <2>1, <2>2, <2>3, <2>4 DEF LoadStep, LoadOn
<1>5. \A d \in DOMAIN step : d \in Loaders
  BY CommandAssumption DEF CommandInv, CommandTypeOK
<1> QED
  BY <1>1, <1>2, <1>3, <1>4, <1>5, CommandPrepares

(* No load is refused by the checks, so a command goes on with a fresh store  *)
(* when there is no file to lose, or where a sound file may not be readable.  *)
LEMMA LoadFailsTurns ==
    ASSUME CommandInv, Orderly, TurnsInv, NEW c \in DOMAIN step, c \in Savers, c \in Loaders,
           LoadFails(c)
    PROVE  TurnsInv' /\ HeldMoves
<1>1. step[c] = "load" /\ c \in Running /\ store[c] = {}
  BY DEF LoadFails, Running, TurnsInv, StoreFollowsFile
<1>2. atPath = None \/ "load" \in setting.faulty
  BY <1>1 DEF LoadFails, CommandInv, FileInv, OrderlyInv, ReadersUndisturbed, TurnsInv,
              StoreFollowsFile
<1>3. Held = {} \/ "load" \in setting.faulty
  BY <1>2 DEF Held
<1>4. UNCHANGED <<setting, atPath, saver, loader, acked, store, content>> /\ saver[c] = Resting
  BY <1>1 DEF LoadFails, vars, TurnsInv, CommandsTakeTurns
<1>5. CASE Op(c) = "recover"
  BY <1>1, <1>4, <1>5, CommandStops DEF LoadFails
<1>6. CASE Op(c) # "recover"
  BY <1>1, <1>3, <1>4, <1>6, CommandPrepares DEF LoadFails, StartedOver
<1> QED
  BY <1>5, <1>6

LEMMA RestoreTurns ==
    ASSUME CommandInv, Orderly, TurnsInv, NEW c \in DOMAIN step, c \in Savers, c \in Loaders,
           Restore(c)
    PROVE  TurnsInv' /\ HeldMoves
<1>1. step[c] = "load" /\ c \in Running /\ loader[c].at = "loaded" /\ loader[c] # Waiting
  BY DEF Restore, Running, Waiting
<1>2. atPath # None /\ loader[c].since = acked
  BY <1>1 DEF TurnsInv, StoreFollowsFile
<1>3. loader[c].snapshot[1] = acked
  BY <1>1, <1>2 DEF CommandInv, FileInv, OrderlyInv, ReadersUndisturbed, Filled, Blocks
<1>4. /\ store'[c] = Held
      /\ \A d \in DOMAIN step : d # c => store'[d] = store[d]
  BY <1>2, <1>3 DEF Restore, Held, CommandInv, CommandTypeOK
<1> QED
  BY <1>1, <1>4, CommandPrepares DEF Restore, vars

LEMMA ApplyFailsTurns ==
    ASSUME CommandInv, TurnsInv, NEW c \in DOMAIN step, c \in Savers, ApplyFails(c)
    PROVE  TurnsInv' /\ HeldMoves
<1>1. step[c] = "apply" /\ c \in Running /\ saver[c] = Resting
  BY DEF ApplyFails, Running, TurnsInv, CommandsTakeTurns
<1> QED
  BY <1>1, CommandStops DEF ApplyFails, vars

(* The change is made to what the file holds, or to a fresh store. *)
LEMMA ApplyTurns ==
    ASSUME CommandInv, Orderly, TurnsInv, NEW c \in DOMAIN step, c \in Savers, Apply(c)
    PROVE  TurnsInv' /\ HeldMoves
<1>1. /\ step[c] = "apply" /\ c \in Running
      /\ store[c] = Held \/ (StartedOver(c) /\ store[c] = {})
  BY DEF Apply, Running, TurnsInv, StoreFollowsFile
<1>2. /\ saves < MaxSaves /\ saves' = saves + 1
      /\ UNCHANGED <<setting, atPath, loader, acked, succeeded>>
  BY DEF Apply, OpenTmp
<1>3. saves \in Nat /\ acked \in 0..saves /\ saves' \in 1..MaxSaves
  BY <1>2, FileAssumption DEF CommandInv, FileInv, FileTypeOK
<1>4. saver'[c] # Resting /\ \A s \in Savers : s # c => saver'[s] = saver[s]
  BY DEF Apply, OpenTmp, Resting, CommandInv, FileInv, FileTypeOK
<1>5. /\ store'[c] = store[c] \cup Change(c)
      /\ \A d \in DOMAIN step : d # c => store'[d] = store[d]
  BY DEF Apply, CommandInv, CommandTypeOK
<1>6. /\ content'[saves'] = store'[c]
      /\ \A v \in 0..MaxSaves : v # saves' => content'[v] = content[v]
  BY <1>3 DEF Apply, CommandInv, CommandTypeOK
<1>7. Held' = Held
  <2>1. acked \in 0..MaxSaves /\ acked # saves'
    BY <1>2, <1>3, FileAssumption
  <2> QED
    BY <1>2, <1>6, <2>1 DEF Held
<1>8. SuccessIsHeld'
  BY <1>2, <1>7, SuccessKept DEF TurnsInv
<1>9. store'[c] = Held' \cup Change(c) \/ (StartedOver(c)' /\ store'[c] = Change(c))
  BY <1>1, <1>2, <1>5, <1>7 DEF StartedOver, Op
<1>10. TurnsInv'
  BY <1>1, <1>2, <1>4, <1>5, <1>6, <1>8, <1>9, CommandMovesOn DEF Apply
<1> QED
  BY <1>7, <1>10 DEF HeldMoves

(* Nothing is written: only invalidate reports success. *)
LEMMA ApplyUnsavedTurns ==
    ASSUME CommandInv, TurnsInv, NEW c \in DOMAIN step, c \in Savers, ApplyUnsaved(c)
    PROVE  TurnsInv' /\ HeldMoves
<1>1. /\ step[c] = "apply" /\ c \in Running /\ saver[c] = Resting /\ SaveMayFail
      /\ UNCHANGED <<setting, atPath, saver, loader, acked, content>>
      /\ \A d \in DOMAIN step : d # c => store'[d] = store[d]
      /\ Goto(c, "exited")
      /\ succeeded' = IF Op(c) = "invalidate" THEN succeeded \cup {c} ELSE succeeded
  BY DEF ApplyUnsaved, Running, TurnsInv, CommandsTakeTurns, SaveMayFail, Exit, vars,
         CommandInv, CommandTypeOK
<1>2. Held' = Held
  BY <1>1 DEF Held
<1>3. SuccessIsHeld'
  BY <1>1, <1>2, SuccessKept DEF TurnsInv
<1>4. TurnsInv'
  BY <1>1, <1>3, CommandMovesOn
<1> QED
  BY <1>2, <1>4 DEF HeldMoves

(* The save that returns has put the store of the command in the file, or     *)
(* says it has not, or belongs to an invalidate that does not look.           *)
LEMMA SaveStepTurns ==
    ASSUME CommandInv, Orderly, TurnsInv, NEW c \in DOMAIN step, c \in Savers, SaveStep(c)
    PROVE  TurnsInv' /\ HeldMoves
<1>1. /\ step[c] = "save" /\ c \in Running
      /\ content[saves] = store[c]
      /\ \/ store[c] = Held \cup Change(c)
         \/ StartedOver(c) /\ store[c] = Change(c)
         \/ saver[c].at = "retry"
      /\ UNCHANGED <<store, content>>
  BY DEF SaveStep, Running, TurnsInv, StoreFollowsFile
<1>2. /\ UNCHANGED <<loader, saves, setting>>
      /\ saver[c].save = saves /\ acked < saves
      /\ \A s \in Savers : s # c => saver'[s] = saver[s]
      /\ \/ acked' = acked /\ atPath' = atPath
         \/ acked' = acked /\ atPath' = None /\ PathMayVanish /\ saver[c].at = "rename"
         \/ /\ acked' = saves /\ atPath' # None /\ saver'[c] = Resting
            /\ saver[c].at = "rename" \/ (PathMayVanish /\ saver[c].at = "retry")
      /\ saver'[c] # Resting =>
            saver'[c].at = "retry" \/ (atPath' = atPath /\ saver[c].at # "retry")
      /\ saver'[c] = Resting => acked' = saves \/ SaveMayFail
  BY SaveOutcome DEF SaveStep, CommandInv
<1>3. saves \in Nat /\ acked \in Nat
  BY DEF CommandInv, FileInv, FileTypeOK
<1>4. /\ acked' # saves => acked' = acked /\ (Held' = Held \/ (PathMayVanish /\ Held' = {}))
      /\ acked' = saves => Held' = store[c]
  BY <1>1, <1>2, <1>3 DEF Held
<1>5. HeldMoves
  <2>1. CASE acked' = acked /\ atPath' = atPath
    BY <1>1, <2>1 DEF HeldMoves, Held
  <2>2. CASE acked' = acked /\ atPath' = None /\ PathMayVanish /\ saver[c].at = "rename"
    BY <1>1, <2>2 DEF HeldMoves, Held
  <2>3. CASE acked' = saves
    <3>1. saver[c].at = "rename" \/ (PathMayVanish /\ saver[c].at = "retry")
      BY <1>2, <1>3, <2>3
    <3>2. Held' = store[c]
      BY <1>4, <2>3
    <3> QED
      BY <1>1, <3>1, <3>2 DEF HeldMoves
  <2> QED
    BY <1>2, <2>1, <2>2, <2>3
<1>6. ChangesMayBeLost \/ Held \subseteq Held'
  <2>1. saver[c].at = "retry" => PathMayVanish
    BY <1>1 DEF CommandInv, FileInv, OrderlyInv, SaverOwnsTmp, Resting
  <2> QED
    BY <1>1, <1>4, <2>1 DEF ChangesMayBeLost, StartedOver
<1>7. CASE saver'[c] # Resting
  <2>1. Goto(c, "save") /\ UNCHANGED succeeded
    BY <1>1, <1>7 DEF SaveStep, Goto, CommandInv, CommandTypeOK
  <2>2. SuccessIsHeld'
    BY <1>2, <1>6, <2>1, SuccessKept DEF TurnsInv
  <2>3. \/ store[c] = Held' \cup Change(c)
        \/ StartedOver(c)' /\ store[c] = Change(c)
        \/ saver'[c].at = "retry"
    <3>1. saver'[c].at = "retry" \/ (Held' = Held /\ saver[c].at # "retry")
      BY <1>1, <1>2, <1>3, <1>7 DEF Held
    <3> QED
      BY <1>1, <1>2, <3>1 DEF StartedOver, Op
  <2>4. TurnsInv'
    BY <1>1, <1>2, <1>7, <2>1, <2>2, <2>3, CommandMovesOn
  <2> QED
    BY <1>5, <2>4
<1>8. CASE saver'[c] = Resting
  <2>1. /\ Goto(c, "exited")
        /\ succeeded' = IF Op(c) = "invalidate" \/ acked' = saves THEN succeeded \cup {c}
                                                                ELSE succeeded
    BY <1>2, <1>8 DEF SaveStep, Exit
  <2>2. ChangesMayBeLost \/ acked' # saves \/ Change(c) \subseteq Held'
    <3>1. saver[c].at = "retry" => PathMayVanish
      BY <1>1 DEF CommandInv, FileInv, OrderlyInv, SaverOwnsTmp, Resting
    <3> QED
      BY <1>1, <1>4, <3>1 DEF ChangesMayBeLost
  <2>3. SuccessIsHeld'
    <3> SUFFICES ASSUME ~ ChangesMayBeLost PROVE SuccessIsHeld'
      BY <1>2 DEF SuccessIsHeld, ChangesMayBeLost, PathMayVanish
    <3>1. \A d \in succeeded' \ succeeded :
             Change(d) \subseteq Held' \/ (Op(d) = "invalidate" /\ SaveMayFail)
      BY <1>2, <1>8, <2>1, <2>2
    <3> QED
      BY <1>2, <1>6, <3>1, SuccessKept DEF TurnsInv
  <2>4. TurnsInv'
    BY <1>1, <1>2, <1>8, <2>1, <2>3, CommandMovesOn
  <2> QED
    BY <1>5, <2>4
<1> QED
  BY <1>7, <1>8

LEMMA KillCommandTurns ==
    ASSUME CommandInv, TurnsInv, NEW c \in DOMAIN step, c \in Savers, KillCommand(c)
    PROVE  TurnsInv' /\ HeldMoves
<1>1. /\ c \in Running /\ Exit(c, FALSE)
      /\ UNCHANGED <<setting, atPath, acked, store, content>>
  BY DEF KillCommand
<1>2. /\ saver'[c] = Resting
      /\ \A s \in Savers : s # c => saver'[s] = saver[s]
      /\ \A d \in Loaders : d # c => loader'[d] = loader[d]
  BY DEF KillCommand, CommandInv, FileInv, FileTypeOK
<1>3. \A d \in DOMAIN step : d \in Loaders
  BY CommandAssumption DEF CommandInv, CommandTypeOK
<1> QED
  BY <1>1, <1>2, <1>3, CommandStops

(* Readers that are no commands disturb nothing, and power does not fail. *)
LEMMA OtherTurns ==
    ASSUME CommandInv, Orderly, ~ Direct, TurnsInv,
           Others \/ PowerLost \/ UNCHANGED commandVars
    PROVE  TurnsInv' /\ HeldMoves
<1>1. /\ UNCHANGED <<setting, step, store, content, succeeded, atPath, saver, saves, acked>>
      /\ \A d \in DOMAIN Commands : d \in Loaders => loader'[d] = loader[d]
  BY DEF Others, PowerLost, PowerLoss, WriteBack, Orderly, LoadOn, OpenPath, ReadBlock,
         FinishLoad, ReadRefused, commandVars, vars, CommandInv, FileInv, FileTypeOK
<1>2. \A d \in DOMAIN step : loader'[d] = loader[d]
  BY <1>1, CommandAssumption DEF CommandInv, CommandTypeOK
<1>3. Held' = Held
  BY <1>1 DEF Held
<1>4. SuccessIsHeld'
  BY <1>1, <1>3, SuccessKept DEF TurnsInv
<1>5. CommandsTakeTurns'
  BY <1>1 DEF TurnsInv, CommandsTakeTurns, Running
<1>6. StoreFollowsFile'
  BY <1>1, <1>2, <1>3 DEF TurnsInv, StoreFollowsFile, StartedOver, Change, Op
<1> QED
  BY <1>1, <1>3, <1>4, <1>5, <1>6 DEF TurnsInv, HeldMoves

LEMMA TurnsPreserved ==
    ASSUME CommandInv, Orderly, ~ Direct, [CommandNext]_commandVars
    PROVE  TurnsInv' /\ HeldMoves
<1>1. TurnsInv
  BY DEF CommandInv
<1>2. \A c \in DOMAIN step : c \in Savers /\ c \in Loaders
  BY CommandAssumption DEF CommandInv, CommandTypeOK
<1>3. ASSUME NEW c \in DOMAIN step,
             Start(c) \/ LoadStep(c) \/ LoadFails(c) \/ Restore(c)
      PROVE  TurnsInv' /\ HeldMoves
  BY <1>1, <1>2, <1>3, StartTurns, LoadStepTurns, LoadFailsTurns, RestoreTurns
<1>4. ASSUME NEW c \in DOMAIN step,
             ApplyFails(c) \/ Apply(c) \/ ApplyUnsaved(c) \/ SaveStep(c) \/ KillCommand(c)
      PROVE  TurnsInv' /\ HeldMoves
  BY <1>1, <1>2, <1>4, ApplyFailsTurns, ApplyTurns, ApplyUnsavedTurns, SaveStepTurns,
     KillCommandTurns
<1>5. Others \/ PowerLost \/ UNCHANGED commandVars => TurnsInv' /\ HeldMoves
  BY <1>1, OtherTurns
<1> QED
  BY <1>3, <1>4, <1>5 DEF CommandNext

(* Every step of the commands, the readers and the environment keeps the      *)
(* invariant that follows each command's store from the file to the file.     *)
THEOREM CommandNextPreserves == CommandInv /\ [CommandNext]_commandVars => CommandInv'
<1> SUFFICES ASSUME CommandInv, [CommandNext]_commandVars PROVE CommandInv'
  OBVIOUS
<1>1. FileInv'
  BY CommandFilePreserved
<1>2. CommandTypeOK' /\ DOMAIN step' = DOMAIN step /\ UNCHANGED setting
  BY CommandTypesPreserved DEF CommandInv
<1>3. Orderly' /\ ~ Direct' => TurnsInv'
  BY <1>2, TurnsPreserved DEF Orderly, Direct
<1> QED
  BY <1>1, <1>2, <1>3 DEF CommandInv

(* CommandInv holds of every state the commands reach. *)
THEOREM CommandInvariant == CommandSpec => []CommandInv
  BY CommandStarts, CommandNextPreserves, PTL DEF CommandSpec

(* Whoever saves and loads, in a command or on its own, and whatever fails, a *)
(* load that succeeds returns what one save was given.                        *)
THEOREM CommandsLoadSnapshots == CommandSpec => []LoadedWasSaved
<1>1. CommandInv => LoadedWasSaved
  BY FileInvSuffices DEF CommandInv
<1> QED
  BY <1>1, CommandInvariant, PTL

(* In an orderly setting no command replaces a snapshot acknowledged to        *)
(* whomever by an older or a torn one; the path is missing only after a later *)
(* save was begun where a rename may be refused.                              *)
THEOREM CommandsKeepSnapshots == CommandSpec => []AckedSnapshotSurvives
<1>1. CommandInv => AckedSnapshotSurvives
  BY FileInvSuffices DEF CommandInv
<1> QED
  BY <1>1, CommandInvariant, PTL

(* In an orderly setting no load, of a command or of a reader beside it, is   *)
(* refused by its checks or stale.                                            *)
THEOREM CommandsLoadFresh == CommandSpec => []LoadIsFresh
<1>1. CommandInv => LoadIsFresh
  BY FileInvSuffices DEF CommandInv
<1> QED
  BY <1>1, CommandInvariant, PTL

(* In an orderly setting where no rename and no load is refused, what a       *)
(* command reported done is in the file for good, for any number of commands, *)
(* killed or failing before and after it; but for an invalidate whose save    *)
(* could fail.                                                                *)
THEOREM SuccessesAreStored == CommandSpec => []SucceededIsStored
<1>1. CommandInv => SucceededIsStored
  BY StoredIsHeld DEF CommandInv, TurnsInv, SuccessIsHeld, SucceededIsStored
<1> QED
  BY <1>1, CommandInvariant, PTL

(* In every orderly setting, refused renames and loads included: a step of a  *)
(* command adds its change to what the file holds, or is one of the two       *)
(* losses, where the setting has it, or the retry that puts the file back.    *)
THEOREM LossesAreKnown == CommandSpec => OnlyRefusalsLoseChanges
<1> DEFINE Follows == Orderly => Stored = Held
           Step == Orderly /\ ~ Direct =>
                      \/ Stored' = Stored
                      \/ \E c \in Running :
                            Adds(c) \/ Vanishes(c) \/ PutBack(c) \/ StartsOver(c)
<1>1. CommandInv => Follows
  BY StoredIsHeld DEF CommandInv
<1>2. ASSUME CommandInv, Follows, Follows', [CommandNext]_commandVars
      PROVE  Step
  <2> SUFFICES ASSUME Orderly, ~ Direct
               PROVE  \/ Stored' = Stored
                      \/ \E c \in Running :
                            Adds(c) \/ Vanishes(c) \/ PutBack(c) \/ StartsOver(c)
    OBVIOUS
  <2>1. HeldMoves
    BY <1>2, TurnsPreserved
  <2>2. Orderly'
    BY <1>2, CommandTypesPreserved DEF CommandInv, Orderly
  <2>3. Stored = Held /\ Stored' = Held'
    BY <1>2, <2>2
  <2> QED
    BY <2>1, <2>3 DEF HeldMoves, StartedOver, Adds, Vanishes, PutBack, StartsOver
<1>3. OnlyRefusalsLoseChanges <=> [][Step]_commandVars
  BY PTL DEF OnlyRefusalsLoseChanges
<1> QED
  BY <1>1, <1>2, CommandInvariant, PTL DEF CommandSpec, OnlyRefusalsLoseChanges
=============================================================================

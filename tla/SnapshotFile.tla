---------------------------- MODULE SnapshotFile ----------------------------
(***************************************************************************)
(* save_file and load_file of include/stateprovenance/persist.hpp, run by  *)
(* any number of threads or processes on one path.                         *)
(*                                                                         *)
(* A saver writes path.tmp, a name all savers share, and renames it to the *)
(* path.  The names and the files behind them are modelled apart: a saver  *)
(* that has opened the temporary file keeps writing to the same file after *)
(* another one has renamed it.  A file has two blocks; save number v fills *)
(* both with v, and a load accepts a file whose two blocks agree (length   *)
(* and CRC-32 are right), a hole being a block never written or lost.      *)
(*                                                                         *)
(* Processes may be killed at any step, the system may refuse a write, a   *)
(* rename, a removal or a read for whatever reason, and the machine may    *)
(* lose power, which keeps what reached the device.                        *)
(***************************************************************************)
EXTENDS Naturals, FiniteSets

CONSTANTS
    None,           \* no file behind a name
    Savers,         \* threads or processes that call save_file
    Loaders,        \* threads or processes that call load_file
    MaxSaves,       \* bound: calls of save_file altogether
    Settings        \* what may surround the calls: on Windows or elsewhere,
                    \*   how many savers the callers let run at a time, what
                    \*   the system may refuse, whether power may fail

(* How ofstream writes: "direct" from f.write, or "buffered", until the stream *)
(* is closed (small snapshots).                                               *)
Modes == {"direct", "buffered"}

(* What the system may refuse: a write of either mode, to create path.tmp, to  *)
(* rename it or remove the path, to open or read the path.                    *)
Faults == Modes \cup {"create", "rename", "load"}

ASSUME FileAssumption ==
    /\ MaxSaves \in Nat \ {0}
    /\ None \notin 1..MaxSaves
    /\ Settings \subseteq [windows : BOOLEAN, active : Nat \ {0},
                           faulty : SUBSET Faults, power : BOOLEAN]

VARIABLES
    setting,    \* the setting of the behaviour, which never changes
    file,       \* the blocks of every file ever created, by file number
    onDevice,   \* the files whose blocks the system has written back
    atPath,     \* the file the path names, or None
    atTmp,      \* the file path.tmp names, or None
    saver,      \* what each saver is doing
    loader,     \* what each loader is doing
    saves,      \* history: the number of save_file calls begun
    acked       \* history: the latest save that returned success

vars == <<setting, file, onDevice, atPath, atTmp, saver, loader, saves, acked>>

Hole   == 0
Blocks == {1, 2}
Empty  == [b \in Blocks |-> Hole]
Files  == 1..MaxSaves

(* Fault: the checksum is not compared. *)
ChecksumIgnored(bytes) == bytes[1] # Hole

(* The length and the CRC-32 in the header match the payload. *)
ChecksumMatches(bytes) == bytes[1] # Hole /\ bytes[2] = bytes[1]

Resting == [at |-> "rest"]
Active  == {s \in Savers : saver[s] # Resting}

----------------------------------------------------------------------------
(* save_file *)

(* Fault: the snapshot is written in place, without a temporary file. *)
OpenInPlace(s) ==
    /\ saver[s] = Resting
    /\ Cardinality(Active) < setting.active
    /\ saves < MaxSaves
    /\ saves' = saves + 1
    /\ LET f == IF atPath = None THEN saves + 1 ELSE atPath
       IN  /\ atPath' = f
           /\ atTmp' = f
           /\ file' = [file EXCEPT ![f] = Empty]
           /\ saver' = [saver EXCEPT ![s] =
                 [at |-> "write", save |-> saves + 1, to |-> f, mode |-> "direct", block |-> 1]]
    /\ UNCHANGED <<setting, onDevice, loader, acked>>

(* std::ofstream f(tmp, binary | trunc): an existing temporary file is emptied. *)
OpenTmp(s) ==
    /\ saver[s] = Resting
    /\ Cardinality(Active) < setting.active
    /\ saves < MaxSaves
    /\ saves' = saves + 1
    /\ LET f == IF atTmp = None THEN saves + 1 ELSE atTmp
       IN  /\ atTmp' = f
           /\ file' = [file EXCEPT ![f] = Empty]
           /\ onDevice' = onDevice \ {f}
           /\ \E mode \in Modes :
                 saver' = [saver EXCEPT ![s] =
                    [at |-> "write", save |-> saves + 1, to |-> f, mode |-> mode, block |-> 1]]
    /\ UNCHANGED <<setting, atPath, loader, acked>>

(* One block reaches the file: from f.write, or when the stream closes. *)
WriteBlock(s) ==
    /\ saver[s].at = "write"
    /\ LET c == saver[s]
       IN  /\ file' = [file EXCEPT ![c.to][c.block] = c.save]
           /\ onDevice' = onDevice \ {c.to}
           /\ saver' = [saver EXCEPT ![s] = IF c.block = 2
                                            THEN [c EXCEPT !.at = "rename"]
                                            ELSE [c EXCEPT !.block = 2]]
    /\ UNCHANGED <<setting, atPath, atTmp, loader, saves, acked>>

(* Fault: the failure of a direct write goes unnoticed as well. *)
WriteRefusedUnnoticed(s) ==
    /\ saver[s].at = "write"
    /\ saver[s].mode \in setting.faulty
    /\ saver' = [saver EXCEPT ![s].at = "rename"]
    /\ UNCHANGED <<setting, file, onDevice, atPath, atTmp, loader, saves, acked>>

(* The device refuses the write.  The stream is tested after f.write, so a    *)
(* direct write that fails ends the call; a buffered one fails in the          *)
(* destructor, after the test, and the call goes on.                          *)
WriteRefused(s) ==
    /\ saver[s].at = "write"
    /\ saver[s].mode \in setting.faulty
    /\ saver' = [saver EXCEPT ![s] = IF @.mode = "direct" THEN Resting
                                     ELSE [@ EXCEPT !.at = "rename"]]
    /\ UNCHANGED <<setting, file, onDevice, atPath, atTmp, loader, saves, acked>>

(* Windows refuses to move, or to replace, a file another process has open. *)
OpenFiles(s) == {saver[o].to : o \in {o \in Savers \ {s} : saver[o].at = "write"}}
                \cup {loader[l].from : l \in {l \in Loaders : loader[l].at = "read"}}

MayMove(s) == atTmp # None /\ (setting.windows => OpenFiles(s) \cap {atTmp, atPath} = {})

RenameOver(s) ==
    /\ saver[s].at \in {"rename", "retry"}
    /\ MayMove(s)
    /\ atPath' = atTmp
    /\ atTmp' = None
    /\ acked' = IF saver[s].save > acked THEN saver[s].save ELSE acked
    /\ saver' = [saver EXCEPT ![s] = Resting]
    /\ UNCHANGED <<setting, file, onDevice, loader, saves>>

RenameRefused(s) == ~ MayMove(s) \/ "rename" \in setting.faulty

(* The rename fails, for whatever reason.  Elsewhere than on Windows the path  *)
(* is then removed, unless that is refused too, and the rename tried again.    *)
RenameFails(s) ==
    /\ saver[s].at = "rename"
    /\ RenameRefused(s)
    /\ IF setting.windows
       THEN /\ saver' = [saver EXCEPT ![s] = Resting]
            /\ UNCHANGED atPath
       ELSE /\ saver' = [saver EXCEPT ![s].at = "retry"]
            /\ atPath' = None \/ ("rename" \in setting.faulty /\ UNCHANGED atPath)
    /\ UNCHANGED <<setting, file, onDevice, atTmp, loader, saves, acked>>

RetryFails(s) ==
    /\ saver[s].at = "retry"
    /\ RenameRefused(s)
    /\ saver' = [saver EXCEPT ![s] = Resting]
    /\ UNCHANGED <<setting, file, onDevice, atPath, atTmp, loader, saves, acked>>

(* What follows in save_file once the temporary file is open. *)
SaveOn(s) ==
    WriteBlock(s) \/ WriteRefused(s) \/ RenameOver(s) \/ RenameFails(s) \/ RetryFails(s)

----------------------------------------------------------------------------
(* load_file: the file is opened once and read block by block into got; since *)
(* is the latest save acknowledged when the load began.                       *)

Waiting == [at |-> "rest"]
Unread  == [at |-> "unread"]

OpenPath(l) ==
    /\ loader[l].at # "read"
    /\ atPath # None
    /\ loader' = [loader EXCEPT ![l] =
                     [at |-> "read", from |-> atPath, got |-> Empty, block |-> 1,
                      since |-> acked]]
    /\ UNCHANGED <<setting, file, onDevice, atPath, atTmp, saver, saves, acked>>

ReadBlock(l) ==
    /\ loader[l].at = "read"
    /\ loader[l].block \in Blocks
    /\ LET c == loader[l]
       IN  loader' = [loader EXCEPT ![l].got[c.block] = file[c.from][c.block],
                                    ![l].block = @ + 1]
    /\ UNCHANGED <<setting, file, onDevice, atPath, atTmp, saver, saves, acked>>

FinishLoad(l) ==
    /\ loader[l].at = "read"
    /\ loader[l].block \notin Blocks
    /\ loader' = [loader EXCEPT ![l] =
                     [at |-> IF ChecksumMatches(@.got) THEN "loaded" ELSE "refused",
                      snapshot |-> @.got, since |-> @.since]]
    /\ UNCHANGED <<setting, file, onDevice, atPath, atTmp, saver, saves, acked>>

(* The file is there and cannot be opened, measured or read. *)
ReadRefused(l) ==
    /\ "load" \in setting.faulty
    /\ loader[l].at = "read" \/ atPath # None
    /\ loader' = [loader EXCEPT ![l] = Unread]
    /\ UNCHANGED <<setting, file, onDevice, atPath, atTmp, saver, saves, acked>>

LoadOn(l) == OpenPath(l) \/ ReadBlock(l) \/ FinishLoad(l) \/ ReadRefused(l)

----------------------------------------------------------------------------
(* The environment *)

Kill(s) ==
    /\ saver[s] # Resting
    /\ saver' = [saver EXCEPT ![s] = Resting]
    /\ UNCHANGED <<setting, file, onDevice, atPath, atTmp, loader, saves, acked>>

WriteBack(f) ==
    /\ setting.power
    /\ f \in {atPath, atTmp} \ onDevice
    /\ onDevice' = onDevice \cup {f}
    /\ UNCHANGED <<setting, file, atPath, atTmp, saver, loader, saves, acked>>

(* save_file never asks for a file to be synchronised, so what was not written *)
(* back may be lost although the rename was not.                               *)
PowerLoss ==
    /\ setting.power
    /\ file' = [f \in Files |-> IF f \in onDevice THEN file[f] ELSE Empty]
    /\ saver' = [s \in Savers |-> Resting]
    /\ loader' = [l \in Loaders |-> Waiting]
    /\ UNCHANGED <<setting, onDevice, atPath, atTmp, saves, acked>>

----------------------------------------------------------------------------
Init ==
    /\ setting \in Settings
    /\ file = [f \in Files |-> Empty]
    /\ onDevice = {}
    /\ atPath = None
    /\ atTmp = None
    /\ saver = [s \in Savers |-> Resting]
    /\ loader = [l \in Loaders |-> Waiting]
    /\ saves = 0
    /\ acked = 0

Next ==
    \/ \E s \in Savers : OpenTmp(s) \/ SaveOn(s) \/ Kill(s)
    \/ \E l \in Loaders : LoadOn(l)
    \/ \E f \in Files : WriteBack(f)
    \/ PowerLoss

Spec == Init /\ [][Next]_vars

----------------------------------------------------------------------------
(* Properties *)

PathIsSound == ChecksumMatches(file[atPath]) /\ file[atPath][1] >= acked

(* Savers take turns, power stays on, and a write is refused, if at all, while *)
(* the stream is still open.                                                  *)
Orderly == setting.active = 1 /\ ~ setting.power /\ "buffered" \notin setting.faulty

(* Where a refused rename is followed by the removal of the path. *)
PathMayVanish == ~ setting.windows /\ "rename" \in setting.faulty

(* What is left of atomic durable replacement in an orderly setting.  Whatever *)
(* later saves are refused or killed half way, the path never names a torn    *)
(* snapshot nor one older than the last acknowledged.  It names none at all    *)
(* only where a rename may be refused and the path is then removed, and there  *)
(* only once a later save has been begun: the retry may fail, or the process   *)
(* die before it, and the acknowledged snapshot is gone.                       *)
AckedSnapshotSurvives ==
    Orderly /\ acked # 0 =>
        IF atPath = None THEN PathMayVanish /\ acked < saves ELSE PathIsSound

(* In an orderly setting a load that can read the file is never refused by its *)
(* checks, and returns what was acknowledged when it began or something newer, *)
(* although the file is replaced, or removed, and temporary files abandoned,   *)
(* during the load.                                                           *)
LoadIsFresh ==
    Orderly =>
        \A l \in Loaders : /\ loader[l].at # "refused"
                           /\ loader[l].at = "loaded" => loader[l].snapshot[1] >= loader[l].since

(* Corruption is detected: even when savers overwrite each other's temporary  *)
(* file while it is read, writes are lost and power fails, a load that        *)
(* succeeds returns the snapshot one save was given, never a mixture.         *)
LoadedWasSaved ==
    \A l \in Loaders :
        loader[l].at = "loaded" =>
            \E v \in 1..saves : loader[l].snapshot = [b \in Blocks |-> v]

(* persist.hpp, save_file: atomic durable replacement, whoever saves.  TLC     *)
(* finds it violated by two savers alone: they share the temporary file.      *)
AtomicDurableReplacement == acked # 0 => atPath # None /\ PathIsSound
=============================================================================

---------------------------- MODULE CommandLine ----------------------------
(***************************************************************************)
(* The commands of the spc tool (cli/main.cpp) on a snapshot file.  Each    *)
(* one that writes loads the file into a store of its own, changes the      *)
(* store and saves it over the file, through load_file and save_file as     *)
(* SnapshotFile has them; save and recover are run with the same file as    *)
(* source and target.  The commands that only read are its other loaders.   *)
(*                                                                         *)
(* A snapshot is the set of changes made to it.  The commands that write    *)
(* are run one at a time, each once, and those that read at any moment.     *)
(* In the other behaviours, Direct, the file functions are called by        *)
(* threads and processes of any kind, as in SnapshotFile.                   *)
(***************************************************************************)
EXTENDS SnapshotFile

CONSTANTS
    Commands,       \* process -> [op, subject]
    Turns           \* the settings under which commands are run

ASSUME CommandAssumption ==
    /\ DOMAIN Commands \subseteq Savers \cap Loaders
    /\ \A c \in DOMAIN Commands :
          Commands[c].op \in {"register", "invalidate", "save", "recover"}
    /\ Turns \subseteq Settings

VARIABLES
    step,       \* where each command is; no command at all in direct behaviours
    store,      \* the private store of each command
    content,    \* the store that save number v was given
    succeeded   \* the commands that reported success

commandVars == <<vars, step, store, content, succeeded>>

Direct == DOMAIN step = {}

Op(c)     == Commands[c].op
Change(c) == IF Op(c) \in {"register", "invalidate"} THEN {Commands[c]} ELSE {}
Running   == {c \in DOMAIN step : step[c] \in {"load", "apply", "save"}}

Goto(c, place) == step' = [step EXCEPT ![c] = place]

Exit(c, success) ==
    /\ Goto(c, "exited")
    /\ succeeded' = IF success THEN succeeded \cup {c} ELSE succeeded

----------------------------------------------------------------------------
Start(c) ==
    /\ step[c] = "ready"
    /\ Running = {}
    /\ Goto(c, "load")
    /\ UNCHANGED <<vars, store, content, succeeded>>

LoadStep(c) ==
    /\ step[c] = "load"
    /\ loader[c] = Waiting \/ loader[c].at = "read"
    /\ LoadOn(c)
    /\ UNCHANGED <<step, store, content, succeeded>>

(* load_store, or load_file for recover: whether the file is absent, cannot be *)
(* opened or read, or does not pass the checks, all but recover go on with a   *)
(* fresh store.                                                               *)
LoadFails(c) ==
    /\ step[c] = "load"
    /\ (atPath = None /\ loader[c] = Waiting) \/ loader[c].at \in {"refused", "unread"}
    /\ IF Op(c) = "recover" THEN Exit(c, FALSE)
                            ELSE Goto(c, "apply") /\ UNCHANGED succeeded
    /\ UNCHANGED <<vars, store, content>>

(* Fault: the loaded snapshot is not restored into the store. *)
RestoreForgotten(c) ==
    /\ step[c] = "load"
    /\ loader[c].at = "loaded"
    /\ Goto(c, "apply")
    /\ UNCHANGED <<vars, store, content, succeeded>>

Restore(c) ==
    /\ step[c] = "load"
    /\ loader[c].at = "loaded"
    /\ store' = [store EXCEPT ![c] = content[loader[c].snapshot[1]]]
    /\ Goto(c, "apply")
    /\ UNCHANGED <<vars, content, succeeded>>

(* publish refuses a subject the store holds, invalidate one it does not. *)
Refused(c) ==
    LET held == [op |-> "register", subject |-> Commands[c].subject] \in store[c]
    IN  (Op(c) = "register" /\ held) \/ (Op(c) = "invalidate" /\ ~ held)

ApplyFails(c) ==
    /\ step[c] = "apply"
    /\ Refused(c)
    /\ Exit(c, FALSE)
    /\ UNCHANGED <<vars, store, content>>

(* The change is made and save_file called with the result. *)
Apply(c) ==
    /\ step[c] = "apply"
    /\ ~ Refused(c)
    /\ OpenTmp(c)
    /\ store' = [store EXCEPT ![c] = @ \cup Change(c)]
    /\ content' = [content EXCEPT ![saves'] = store'[c]]
    /\ Goto(c, "save")
    /\ UNCHANGED succeeded

(* The change is made, and save_file cannot create the temporary file. *)
ApplyUnsaved(c) ==
    /\ step[c] = "apply"
    /\ ~ Refused(c)
    /\ "create" \in setting.faulty
    /\ store' = [store EXCEPT ![c] = @ \cup Change(c)]
    /\ Exit(c, Op(c) = "invalidate")
    /\ UNCHANGED <<vars, content>>

(* Fault: no command looks at the result of its save. *)
SaveStepIgnored(c) ==
    /\ step[c] = "save"
    /\ SaveOn(c)
    /\ IF saver'[c] = Resting THEN Exit(c, TRUE) ELSE UNCHANGED <<step, succeeded>>
    /\ UNCHANGED <<store, content>>

(* When save_file returns the command ends; invalidate ignores the result. *)
SaveStep(c) ==
    /\ step[c] = "save"
    /\ SaveOn(c)
    /\ IF saver'[c] = Resting
       THEN Exit(c, Op(c) = "invalidate" \/ acked' = saver[c].save)
       ELSE UNCHANGED <<step, succeeded>>
    /\ UNCHANGED <<store, content>>

----------------------------------------------------------------------------
(* The environment *)

KillCommand(c) ==
    /\ c \in Running
    /\ saver' = [saver EXCEPT ![c] = Resting]
    /\ loader' = [loader EXCEPT ![c] = Waiting]
    /\ Exit(c, FALSE)
    /\ UNCHANGED <<setting, file, onDevice, atPath, atTmp, saves, acked, store, content>>

Others ==
    /\ \/ \E l \in Loaders \ DOMAIN Commands : LoadOn(l)
       \/ \E f \in Files : WriteBack(f)
       \/ Direct /\ \E s \in Savers \ DOMAIN Commands : OpenTmp(s) \/ SaveOn(s) \/ Kill(s)
    /\ UNCHANGED <<step, store, content, succeeded>>

PowerLost ==
    /\ PowerLoss
    /\ step' = [c \in DOMAIN step |-> IF c \in Running THEN "exited" ELSE step[c]]
    /\ UNCHANGED <<store, content, succeeded>>

CommandInit ==
    /\ Init
    /\ \/ step = <<>>
       \/ setting \in Turns /\ step = [c \in DOMAIN Commands |-> "ready"]
    /\ store = [c \in DOMAIN Commands |-> {}]
    /\ content = [v \in 0..MaxSaves |-> {}]
    /\ succeeded = {}

CommandNext ==
    \/ \E c \in DOMAIN step :
          \/ Start(c) \/ LoadStep(c) \/ LoadFails(c) \/ Restore(c)
          \/ ApplyFails(c) \/ Apply(c) \/ ApplyUnsaved(c) \/ SaveStep(c) \/ KillCommand(c)
    \/ Others
    \/ PowerLost

CommandSpec == CommandInit /\ [][CommandNext]_commandVars

----------------------------------------------------------------------------
(* Properties *)

Stored == IF atPath = None THEN {} ELSE content[file[atPath][1]]

SaveMayFail == setting.windows \/ setting.faulty \cap {"direct", "create", "rename"} # {}

(* The two ways in which stored changes are lost in an orderly setting: a      *)
(* refused rename removes the file, and a command that cannot read a sound     *)
(* file goes on with a fresh store and saves it over the file.                *)
ChangesMayBeLost == PathMayVanish \/ "load" \in setting.faulty

(* In an orderly setting that has neither of the two, what a command reported  *)
(* done is in the file for good, whichever commands were killed or failed      *)
(* before and after it.  The one exception is invalidate, which does not look  *)
(* at the result of its save: what it reports is stored only where a save      *)
(* cannot fail.                                                               *)
SucceededIsStored ==
    Orderly /\ ~ Direct /\ ~ ChangesMayBeLost =>
        \A c \in succeeded :
            Change(c) \subseteq Stored \/ (Op(c) = "invalidate" /\ SaveMayFail)

Adds(c)       == Stored' = Stored \cup Change(c)
Vanishes(c)   == PathMayVanish /\ saver[c].at = "rename" /\ Stored' = {}
PutBack(c)    == PathMayVanish /\ saver[c].at = "retry" /\ Stored' = store[c]
StartsOver(c) == /\ "load" \in setting.faulty /\ Op(c) # "recover"
                 /\ saver[c].at = "rename" /\ Stored' = Change(c)

(* In an orderly setting a command changes the file, if at all, by adding its   *)
(* own change to what it held: no death and no refused write or creation takes *)
(* back what earlier commands stored.  The exceptions are the two losses, each *)
(* in the step of a save and the setting it belongs to, and the retry that     *)
(* puts back a file that was removed.                                         *)
OnlyRefusalsLoseChanges ==
    [][Orderly /\ ~ Direct =>
          \/ Stored' = Stored
          \/ \E c \in Running : Adds(c) \/ Vanishes(c) \/ PutBack(c) \/ StartsOver(c)
      ]_commandVars
=============================================================================

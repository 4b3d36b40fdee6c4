------------------------------ MODULE InstallTx ------------------------------
(***************************************************************************)
(* The installer's file transaction: install_settings in src/nemt.c, with  *)
(* the helpers it calls.  One transaction reads the ownership record,      *)
(* refuses what it does not own, snapshots four files, changes them one    *)
(* after the other and rolls the changed ones back when a step fails.      *)
(*                                                                         *)
(* Every file operation is a step of its own, so that the game starting,   *)
(* another program replacing train.exe, an I/O error or the death of the   *)
(* installer process can fall between any two of them.                     *)
(***************************************************************************)
EXTENDS Naturals, Sequences

CONSTANTS
    Config,      \* the settings a user can ask for
    Release,     \* the NEMT releases whose DINPUT.dll an installer may ship
    NoFile,      \* the content of a path where there is no file
    Foreign,     \* a file some other program put there
    BadRecord,   \* an installation.json read_record does not accept
    NotRunning,  \* the status.json the installer writes
    Live,        \* a status.json the runtime writes
    NoGame,      \* no train.exe of this folder is running
    Faults       \* which environment faults a run admits, see FaultKinds

FaultKinds == {"io", "cleanup", "crash", "game", "exe"}

File == {"settings", "proxy", "manifest", "status"}

\* DINPUT.dll lies beside train.exe, the other three in the NEMT folder.
InFolder == File \ {"proxy"}

\* installation.json as format_manifest writes it: "enabled", "proxyHash" and
\* the fields that repeat the settings.
Record == [enabled : BOOLEAN, hash : Release, cfg : Config]

Sentinel == {NoFile, Foreign, BadRecord, NotRunning, Live}
Content  == Config \cup Release \cup Record \cup Sentinel

ASSUME FaultsAssumption == Faults \subseteq FaultKinds

\* A file's content tells what kind of file it is.
ASSUME ContentAssumption ==
    /\ Sentinel \cap (Config \cup Release \cup Record) = {}
    /\ Config \cap Release = {}
    /\ Record \cap (Config \cup Release) = {}
    /\ NoFile \notin {Foreign, BadRecord, NotRunning, Live}
    /\ Foreign \notin {BadRecord, NotRunning, Live}
    /\ BadRecord \notin {NotRunning, Live}
    /\ NotRunning # Live
    /\ NoGame \notin Content

VARIABLES
    disk,     \* what each of the four files holds
    dir,      \* the NEMT folder: "none", "user" (not made by NEMT) or "nemt"
    litter,   \* the files of the NEMT folder whose "<path>.nemt.tmp" is there
    exeSame,  \* train.exe still hashes to the value taken when it was selected
    game,     \* NoGame, or the DINPUT.dll content the running game loaded
    pc,       \* where install_settings stands
    tx,       \* its local variables
    damage    \* the worst transaction cut short or left half undone since the
              \* last successful one: "none", "remove" or "install"

vars == <<disk, dir, litter, exeSame, game, pc, tx, damage>>
env  == <<exeSame, game>>

\* The order of FileSnapshot old[4].
FileAt == <<"settings", "proxy", "manifest", "status">>

NoFiles == [f \in File |-> NoFile]

Pcs == {"idle", "verify", "record", "running", "guard", "release", "snapshot",
        "recheck", "mkdir", "writeTmp", "activate", "proxy", "manifest",
        "status", "removeProxy", "removeSettings", "disable", "final",
        "deleteTmp", "rollback", "report"}

Tx == [op      : {"install", "remove"},
       cfg     : Config,
       rel     : Release,
       rec     : Record \cup {NoFile},  \* what read_record found
       old     : [File -> Content],     \* the snapshots
       changed : SUBSET File,           \* old[i].changed
       created : BOOLEAN,               \* the folder was made by this call
       tmp     : BOOLEAN,               \* tmp[0] is set
       i       : 0..4,                  \* loop index
       broken  : BOOLEAN,               \* rollback_files returned 0
       result  : {"none", "ok", "refused", "rolledback", "broken"}]

Fresh(op, c, r) ==
    [op |-> op, cfg |-> c, rel |-> r, rec |-> NoFile, old |-> NoFiles,
     changed |-> {}, created |-> FALSE, tmp |-> FALSE, i |-> 0,
     broken |-> FALSE, result |-> "none"]

\* The locals between two calls carry nothing from one call to the next.
Idle(t) == Fresh("remove", t.cfg, t.rel)

TypeOK ==
    /\ disk \in [File -> Content]
    /\ dir \in {"none", "user", "nemt"}
    /\ litter \subseteq InFolder
    /\ exeSame \in BOOLEAN
    /\ game \in Content \cup {NoGame}
    /\ pc \in Pcs
    /\ tx \in Tx
    /\ damage \in {"none", "remove", "install"}

\* A game folder NEMT never touched: possibly another program's DINPUT.dll, and
\* possibly a NEMT folder of the user's own with an INI or an unreadable record.
Init ==
    /\ \E p, s \in {NoFile, Foreign}, m \in {NoFile, BadRecord} :
          /\ disk = [settings |-> s, proxy |-> p, manifest |-> m, status |-> NoFile]
          /\ \/ dir = "user"
             \/ dir = "none" /\ s = NoFile /\ m = NoFile
    /\ litter = {}
    /\ exeSame = TRUE
    /\ game = NoGame
    /\ pc = "idle"
    /\ \E c \in Config, r \in Release : tx = Fresh("remove", c, r)
    /\ damage = "none"

-----------------------------------------------------------------------------
(* Conditions the code tests. *)

Owned == tx.rec \in Record

\* Mutant: any DLL will do once there is a record; its hash is not compared.
ProxyOurs_NoHash == disk["proxy"] = NoFile \/ Owned

\* The existing DINPUT.dll is absent or is the one the record names.
ProxyOurs == disk["proxy"] = NoFile \/ (Owned /\ disk["proxy"] = tx.rec.hash)

\* Mutant: the folder is not looked at.
FolderOurs_Unchecked == TRUE

\* An existing NEMT folder without a record is not the installer's.
FolderOurs == tx.op = "remove" \/ dir = "none" \/ Owned

\* Windows keeps a loaded DLL from being replaced or deleted.
Locked(f) == f = "proxy" /\ game \notin {NoGame, NoFile}

\* RemoveDirectory succeeds on an empty folder only.
FolderEmpty ==
    litter = {} /\ \A f \in InFolder : disk[f] = NoFile

\* The temporary file of f after a write of f failed: the writer deletes it, and
\* that can fail too.
LitterAfterFailure(f) ==
    \/ litter' = litter \ {f}
    \/ "cleanup" \in Faults /\ litter' = litter \cup ({f} \cap InFolder)

Goto(p) == pc' = p

\* Leave without having touched anything.
Refuse == /\ pc' = "report"
          /\ tx' = [tx EXCEPT !.result = "refused"]

Worse(op) == IF op = "install" \/ damage = "install" THEN "install" ELSE "remove"

-----------------------------------------------------------------------------
(* Checks before anything is changed. *)

Begin(op, c, r) ==
    /\ pc = "idle"
    /\ tx' = Fresh(op, c, r)
    /\ Goto("verify")
    /\ UNCHANGED <<disk, dir, litter, env, damage>>

VerifyExe ==
    /\ pc = "verify"
    /\ \/ exeSame /\ Goto("record") /\ UNCHANGED tx
       \/ (~exeSame \/ "io" \in Faults) /\ Refuse
    /\ UNCHANGED <<disk, dir, litter, env, damage>>

ReadRecord ==
    /\ pc = "record"
    /\ \/ /\ disk["manifest"] \in Record \cup {NoFile}
          /\ tx' = [tx EXCEPT !.rec = disk["manifest"]]
          /\ Goto("running")
       \/ /\ disk["manifest"] \notin Record \cup {NoFile} \/ "io" \in Faults
          /\ Refuse
    /\ UNCHANGED <<disk, dir, litter, env, damage>>

\* An unreadable process list counts as a running game.
CheckRunning ==
    /\ pc = "running"
    /\ \/ game = NoGame /\ Goto("guard") /\ UNCHANGED tx
       \/ (game # NoGame \/ "io" \in Faults) /\ Refuse
    /\ UNCHANGED <<disk, dir, litter, env, damage>>

CheckOwnership ==
    /\ pc = "guard"
    /\ \/ (~ProxyOurs \/ ~FolderOurs \/ "io" \in Faults) /\ Refuse
       \/ /\ ProxyOurs /\ tx.op = "remove" /\ ~Owned
          /\ tx' = [tx EXCEPT !.result = "ok"]
          /\ Goto("report")
       \/ /\ ProxyOurs /\ tx.op = "remove" /\ Owned
          /\ Goto("snapshot") /\ UNCHANGED tx
       \/ /\ ProxyOurs /\ FolderOurs /\ tx.op = "install"
          /\ Goto("release") /\ UNCHANGED tx
    /\ UNCHANGED <<disk, dir, litter, env, damage>>

VerifyRelease ==
    /\ pc = "release"
    /\ \/ Goto("snapshot") /\ UNCHANGED tx
       \/ "io" \in Faults /\ Refuse
    /\ UNCHANGED <<disk, dir, litter, env, damage>>

Snapshot ==
    /\ pc = "snapshot"
    /\ \/ LET f == FileAt[tx.i + 1] IN
          /\ tx.i < 4
          /\ tx' = [tx EXCEPT !.old = [@ EXCEPT ![f] = disk[f]], !.i = @ + 1]
          /\ Goto(IF tx.i = 3 THEN "recheck" ELSE "snapshot")
       \/ "io" \in Faults /\ Refuse
    /\ UNCHANGED <<disk, dir, litter, env, damage>>

Recheck ==
    /\ pc = "recheck"
    /\ \/ /\ exeSame /\ game = NoGame
          /\ Goto(IF tx.op = "remove" THEN "removeProxy" ELSE "mkdir")
          /\ UNCHANGED tx
       \/ (~exeSame \/ game # NoGame \/ "io" \in Faults) /\ Refuse
    /\ UNCHANGED <<disk, dir, litter, env, damage>>

-----------------------------------------------------------------------------
(* The changes.  A failing one goes to the rollback label. *)

\* Mutant: the file is replaced and old[i].changed is not set.
Replace_Unmarked(f, v, next) ==
    \/ /\ ~Locked(f)
       /\ disk' = [disk EXCEPT ![f] = v]
       /\ litter' = litter \ {f}
       /\ Goto(next)
       /\ UNCHANGED tx
    \/ /\ Locked(f) \/ "io" \in Faults
       /\ LitterAfterFailure(f)
       /\ Goto("deleteTmp")
       /\ UNCHANGED <<disk, tx>>

\* One of write_atomic, copy_verified and the final MoveFileEx of settings.ini:
\* replace f by v in one rename, or leave f as it was.
Replace(f, v, next) ==
    \/ /\ ~Locked(f)
       /\ disk' = [disk EXCEPT ![f] = v]
       /\ litter' = litter \ {f}
       /\ tx' = [tx EXCEPT !.changed = @ \cup {f}]
       /\ Goto(next)
    \/ /\ Locked(f) \/ "io" \in Faults
       /\ LitterAfterFailure(f)
       /\ Goto("deleteTmp")
       /\ UNCHANGED <<disk, tx>>

\* Uninstall deletes only what the snapshot saw.
Remove(f, next) ==
    \/ /\ tx.old[f] = NoFile
       /\ Goto(next) /\ UNCHANGED <<disk, tx>>
    \/ /\ tx.old[f] # NoFile /\ ~Locked(f)
       /\ disk' = [disk EXCEPT ![f] = NoFile]
       /\ tx' = [tx EXCEPT !.changed = @ \cup {f}]
       /\ Goto(next)
    \/ /\ tx.old[f] # NoFile /\ (Locked(f) \/ "io" \in Faults)
       /\ Goto("deleteTmp") /\ UNCHANGED <<disk, tx>>

MakeFolder ==
    /\ pc = "mkdir"
    /\ \/ dir # "none" /\ Goto("writeTmp") /\ UNCHANGED <<dir, tx>>
       \/ /\ dir = "none"
          /\ dir' = "nemt"
          /\ tx' = [tx EXCEPT !.created = TRUE]
          /\ Goto("writeTmp")
       \/ /\ dir = "none" /\ "io" \in Faults
          /\ Goto("deleteTmp") /\ UNCHANGED <<dir, tx>>
    /\ UNCHANGED <<disk, litter, env, damage>>

\* write_settings writes settings.ini.nemt.tmp piece by piece.
WriteTmp ==
    /\ pc = "writeTmp"
    /\ tx' = [tx EXCEPT !.tmp = TRUE]
    /\ \/ litter' = litter \cup {"settings"} /\ Goto("activate")
       \/ /\ "io" \in Faults
          /\ litter' \in {litter, litter \cup {"settings"}}
          /\ Goto("deleteTmp")
    /\ UNCHANGED <<disk, dir, env, damage>>

ActivateSettings ==
    /\ pc = "activate"
    /\ \/ /\ disk' = [disk EXCEPT !["settings"] = tx.cfg]
          /\ litter' = litter \ {"settings"}
          /\ tx' = [tx EXCEPT !.tmp = FALSE, !.changed = @ \cup {"settings"}]
          /\ Goto("proxy")
       \/ "io" \in Faults /\ Goto("deleteTmp") /\ UNCHANGED <<disk, litter, tx>>
    /\ UNCHANGED <<dir, env, damage>>

InstallProxy ==
    /\ pc = "proxy"
    /\ Replace("proxy", tx.rel, "manifest")
    /\ UNCHANGED <<dir, env, damage>>

\* format_manifest for an enabled installation.
NewRecord == [enabled |-> TRUE, hash |-> tx.rel, cfg |-> tx.cfg]

WriteManifest ==
    /\ pc = "manifest"
    /\ Replace("manifest", NewRecord, "status")
    /\ UNCHANGED <<dir, env, damage>>

WriteStatus ==
    /\ pc = "status"
    /\ Replace("status", NotRunning, "final")
    /\ UNCHANGED <<dir, env, damage>>

RemoveProxy ==
    /\ pc = "removeProxy"
    /\ Remove("proxy", "removeSettings")
    /\ UNCHANGED <<dir, litter, env, damage>>

\* Mutant: uninstall keeps settings.ini, as it keeps status.json.
RemoveSettings_Kept ==
    /\ pc = "removeSettings"
    /\ Goto("disable")
    /\ UNCHANGED <<disk, dir, litter, tx, env, damage>>

RemoveSettings ==
    /\ pc = "removeSettings"
    /\ Remove("settings", "disable")
    /\ UNCHANGED <<dir, litter, env, damage>>

\* Mutant: uninstall deletes the record instead of disabling it.
Disabled_Deleted(rec) == NoFile

\* The text of the record is kept, only the value of "enabled" is replaced.
Disabled(rec) == [rec EXCEPT !.enabled = FALSE]

DisableRecord ==
    /\ pc = "disable"
    /\ Replace("manifest", Disabled(tx.rec), "final")
    /\ UNCHANGED <<dir, env, damage>>

FinalCheck ==
    /\ pc = "final"
    /\ \/ /\ exeSame
          /\ tx' = [tx EXCEPT !.result = "ok"]
          /\ damage' = "none"
          /\ Goto("report")
       \/ /\ ~exeSame \/ "io" \in Faults
          /\ Goto("deleteTmp") /\ UNCHANGED <<tx, damage>>
    /\ UNCHANGED <<disk, dir, litter, env>>

-----------------------------------------------------------------------------
(* The rollback label. *)

\* Mutant: the loop of rollback_files starts one past the last snapshot.
DeleteTmp_OffByOne ==
    /\ pc = "deleteTmp"
    /\ IF tx.tmp
       THEN \/ litter' = litter \ {"settings"}
            \/ "cleanup" \in Faults /\ UNCHANGED litter
       ELSE UNCHANGED litter
    /\ tx' = [tx EXCEPT !.i = 5]
    /\ Goto("rollback")
    /\ UNCHANGED <<disk, dir, env, damage>>

DeleteTmp ==
    /\ pc = "deleteTmp"
    /\ IF tx.tmp
       THEN \/ litter' = litter \ {"settings"}
            \/ "cleanup" \in Faults /\ UNCHANGED litter
       ELSE UNCHANGED litter
    /\ tx' = [tx EXCEPT !.i = 4]
    /\ Goto("rollback")
    /\ UNCHANGED <<disk, dir, env, damage>>

\* One iteration of the loop of rollback_files, from the last file to the first:
\* a file that existed is written back, one that did not is deleted.
RestoreFile ==
    /\ pc = "rollback" /\ tx.i > 0
    /\ LET f == FileAt[tx.i] IN
       \/ /\ f \notin tx.changed
          /\ tx' = [tx EXCEPT !.i = @ - 1]
          /\ UNCHANGED <<disk, litter>>
       \/ /\ f \in tx.changed /\ ~Locked(f)
          /\ disk' = [disk EXCEPT ![f] = tx.old[f]]
          /\ litter' = IF tx.old[f] = NoFile THEN litter ELSE litter \ {f}
          /\ tx' = [tx EXCEPT !.i = @ - 1]
       \/ /\ f \in tx.changed /\ (Locked(f) \/ "cleanup" \in Faults)
          /\ IF tx.old[f] = NoFile THEN UNCHANGED litter ELSE LitterAfterFailure(f)
          /\ tx' = [tx EXCEPT !.i = @ - 1, !.broken = TRUE]
          /\ UNCHANGED disk
    /\ UNCHANGED <<dir, env, pc, damage>>

\* After a complete rollback the folder this call made is removed again; the
\* result of RemoveDirectory is not looked at.
EndRollback ==
    /\ pc = "rollback" /\ tx.i = 0
    /\ Goto("report")
    /\ tx' = [tx EXCEPT !.result = IF tx.broken THEN "broken" ELSE "rolledback"]
    /\ \/ /\ ~tx.broken /\ tx.created /\ FolderEmpty
          /\ dir' = "none" /\ UNCHANGED damage
       \/ /\ ~tx.broken /\ ~tx.created
          /\ UNCHANGED <<dir, damage>>
       \/ /\ \/ tx.broken
             \/ tx.created /\ (~FolderEmpty \/ "cleanup" \in Faults)
          /\ damage' = Worse(tx.op) /\ UNCHANGED dir
    /\ UNCHANGED <<disk, litter, env>>

Return ==
    /\ pc = "report"
    /\ Goto("idle")
    /\ tx' = Idle(tx)
    /\ UNCHANGED <<disk, dir, litter, env, damage>>

-----------------------------------------------------------------------------
(* The environment. *)

\* Between these points a call has something to undo.
Changing == {"mkdir", "writeTmp", "activate", "proxy", "manifest", "status",
             "removeProxy", "removeSettings", "disable", "final",
             "deleteTmp", "rollback"}

\* The file whose temporary copy the current step may be writing.
InFlight ==
    CASE pc \in {"writeTmp", "activate"} -> {"settings"}
      [] pc \in {"manifest", "disable"} -> {"manifest"}
      [] pc = "status" -> {"status"}
      [] pc = "rollback" /\ tx.i > 0 -> {FileAt[tx.i]} \cap tx.changed \cap InFolder
      [] OTHER -> {}

\* The installer process dies.  Its locals are gone; the disk stays as it is.
Crash ==
    /\ "crash" \in Faults /\ pc # "idle"
    /\ Goto("idle")
    /\ tx' = Idle(tx)
    /\ \E left \in SUBSET InFlight : litter' = litter \cup left
    /\ damage' = IF pc \in Changing /\ (tx.created \/ tx.changed # {})
                 THEN Worse(tx.op) ELSE damage
    /\ UNCHANGED <<disk, dir, env>>

\* Another program replaces train.exe, or puts the selected one back.
SwapExe ==
    /\ "exe" \in Faults /\ game = NoGame
    /\ exeSame' = ~exeSame
    /\ UNCHANGED <<disk, dir, litter, game, pc, tx, damage>>

\* The user selects the executable again: inspect_msts takes its present hash.
SelectExe ==
    /\ pc = "idle" /\ ~exeSame
    /\ exeSame' = TRUE
    /\ UNCHANGED <<disk, dir, litter, game, pc, tx, damage>>

StartGame ==
    /\ "game" \in Faults /\ game = NoGame
    /\ game' = disk["proxy"]
    /\ UNCHANGED <<disk, dir, litter, exeSame, pc, tx, damage>>

ExitGame ==
    /\ game # NoGame
    /\ game' = NoGame
    /\ UNCHANGED <<disk, dir, litter, exeSame, pc, tx, damage>>

\* write_status of the runtime: CREATE_ALWAYS fails without the folder.
RuntimeStatus ==
    /\ game \in Release /\ dir # "none"
    /\ disk' = [disk EXCEPT !["status"] = Live]
    /\ UNCHANGED <<dir, litter, exeSame, game, pc, tx, damage>>

\* Between two transactions the user drops in another program's DINPUT.dll, or
\* deletes the one that is there.
UserProxy ==
    /\ pc = "idle" /\ ~Locked("proxy")
    /\ \E v \in {NoFile, Foreign} : disk' = [disk EXCEPT !["proxy"] = v]
    /\ UNCHANGED <<dir, litter, env, pc, tx, damage>>

-----------------------------------------------------------------------------
Step == \/ VerifyExe \/ ReadRecord \/ CheckRunning \/ CheckOwnership
        \/ VerifyRelease \/ Snapshot \/ Recheck
        \/ MakeFolder \/ WriteTmp \/ ActivateSettings \/ InstallProxy
        \/ WriteManifest \/ WriteStatus
        \/ RemoveProxy \/ RemoveSettings \/ DisableRecord
        \/ FinalCheck \/ DeleteTmp \/ RestoreFile \/ EndRollback \/ Return

Next == \/ \E op \in {"install", "remove"}, c \in Config, r \in Release : Begin(op, c, r)
        \/ Step
        \/ Crash \/ SwapExe \/ SelectExe
        \/ StartGame \/ ExitGame \/ RuntimeStatus \/ UserProxy

Spec == Init /\ [][Next]_vars

-----------------------------------------------------------------------------
(* Properties. *)

\* What a folder must satisfy for the next Apply or Uninstall to be let
\* through: a DINPUT.dll of ours is the one the record names, and a NEMT folder
\* of ours holds a record.
Retryable ==
    /\ disk["proxy"] \in Release =>
          disk["manifest"] \in Record /\ disk["manifest"].hash = disk["proxy"]
    /\ dir = "nemt" => disk["manifest"] \in Record

\* No uninstall leaves the folder in a state that later calls refuse, wherever
\* the process dies, whatever fails and even if the rollback fails too: it
\* removes DINPUT.dll before it touches the record.  Only an Apply that was cut
\* short or could not be rolled back can do that; without one, the ownership checks
\* accept every DLL and every folder that are NEMT's.
OnlyApplyStrands ==
    damage # "install" =>
        /\ pc = "idle" => Retryable
        /\ pc = "guard" => /\ disk["proxy"] \in Release => ProxyOurs
                           /\ dir = "nemt" => FolderOurs

\* The record, the settings and the DLL tell the same story: an enabled record
\* has the settings it repeats and no other release's DLL; a disabled one has
\* neither settings nor DLL.
Whole(d) ==
    d["manifest"] \in Record =>
        IF d["manifest"].enabled
        THEN /\ d["settings"] = d["manifest"].cfg
             /\ d["proxy"] \in {d["manifest"].hash, NoFile, Foreign}
        ELSE d["settings"] = NoFile /\ d["proxy"] \in {NoFile, Foreign}

\* Between transactions none of which was cut short, the installer's three
\* files agree: what load_selection_settings shows is what the game will use.
RecordTellsTruth == pc = "idle" /\ damage = "none" => Whole(disk)

\* "Changes were rolled back": after that message the settings, the DLL and the
\* record are the ones snapshotted, whichever step failed; status.json is too,
\* unless a game that started meanwhile has written it.
RolledBackIsUnchanged ==
    pc = "report" /\ tx.result = "rolledback" =>
        /\ \A f \in {"settings", "proxy", "manifest"} : disk[f] = tx.old[f]
        /\ disk["status"] \in {tx.old["status"], Live}

\* "NEMT removes its owned runtime and settings" (docs/installation.md): when an
\* Uninstall looks at a DINPUT.dll that is a NEMT release, it accepts it.  An
\* Apply that dies between the DLL and the record makes this false.
OwnRuntimeRemovable ==
    pc = "guard" /\ tx.op = "remove" /\ disk["proxy"] \in Release => ProxyOurs

\* "Existing DINPUT.dll is unrelated or modified. It will not be changed.": no
\* step of a transaction changes a file another program put there, not even to
\* put it back afterwards.
ForeignKept ==
    [][pc # "idle" => \A f \in File : disk[f] = Foreign => disk'[f] = Foreign]_vars

-----------------------------------------------------------------------------
(* The inductive invariant behind these properties, in named parts. *)

Checking == {"verify", "record", "running", "guard", "release", "snapshot", "recheck"}
PastGuard == {"release", "snapshot", "recheck"} \cup Changing
Writing   == Changing \ {"mkdir", "deleteTmp", "rollback"}

\* The files rolled back in full; status.json may be the running game's.
Restorable == {"settings", "proxy", "manifest"}

Kinds(d) ==
    /\ d["settings"] \in Config \cup {NoFile, Foreign}
    /\ d["proxy"] \in Release \cup {NoFile, Foreign}
    /\ d["manifest"] \in Record \cup {NoFile, BadRecord}
    /\ d["status"] \in {NoFile, NotRunning, Live}

KindsOK == Kinds(disk) /\ Kinds(tx.old)

NothingDoneYet ==
    /\ pc \in Checking \cup {"idle"} => tx.changed = {} /\ ~tx.created
    /\ pc \in (Checking \cup {"idle"}) \ {"snapshot", "recheck"} =>
          tx.old = NoFiles /\ tx.i = 0

RecordIsDisks ==
    /\ pc \in {"running", "guard", "release", "snapshot", "recheck"} =>
          disk["manifest"] = tx.rec
    /\ pc \in {"recheck"} \cup Changing => tx.old["manifest"] = tx.rec
    /\ pc \in PastGuard /\ tx.op = "remove" => Owned
    /\ pc \in {"removeProxy", "removeSettings", "disable"} => tx.op = "remove"

SnapshotsHold ==
    /\ pc = "snapshot" =>
          \A k \in 1..4 : k <= tx.i /\ FileAt[k] \in Restorable =>
              tx.old[FileAt[k]] = disk[FileAt[k]]
    /\ pc \in {"recheck"} \cup Changing =>
          \A f \in Restorable : f \notin tx.changed => disk[f] = tx.old[f]

StatusSnapshotHolds ==
    pc \in {"recheck"} \cup Changing /\ "status" \notin tx.changed =>
        disk["status"] \in {tx.old["status"], Live}

RestoredSoFar ==
    pc = "rollback" /\ ~tx.broken =>
        /\ \A k \in 1..4 : k > tx.i /\ FileAt[k] \in Restorable =>
              disk[FileAt[k]] = tx.old[FileAt[k]]
        /\ tx.i < 4 => disk["status"] \in {tx.old["status"], Live}

FolderHolds ==
    /\ dir = "none" => \A f \in InFolder : disk[f] = NoFile
    /\ pc \in Writing => dir # "none"
    /\ pc \in Changing /\ tx.changed # {} => dir # "none"

NoForeignTouched ==
    /\ disk["manifest"] \in Record => disk["settings"] # Foreign
    /\ pc \in PastGuard =>
          \A f \in File : disk[f] # Foreign /\ tx.old[f] # Foreign

Bookkeeping ==
    /\ KindsOK /\ NothingDoneYet /\ RecordIsDisks
    /\ SnapshotsHold /\ StatusSnapshotHolds /\ RestoredSoFar
    /\ FolderHolds /\ NoForeignTouched /\ RolledBackIsUnchanged

SafeInv == TypeOK /\ Bookkeeping

\* What the checks of ownership found still holds of what a rollback restores.
GuardHolds ==
    /\ pc \in {"release", "snapshot", "recheck"} => ProxyOurs
    /\ pc \in Changing =>
          tx.old["proxy"] = NoFile \/ (Owned /\ tx.old["proxy"] = tx.rec.hash)
    /\ pc \in PastGuard /\ tx.op = "install" /\ ~tx.created => dir = "none" \/ Owned

\* How far an Apply has come.
InstallSoFar ==
    /\ pc \in {"mkdir", "writeTmp", "activate", "proxy", "manifest", "status"} =>
          tx.op = "install"
    /\ tx.op = "install" =>
          /\ pc \in {"proxy", "manifest", "status", "final"} => disk["settings"] = tx.cfg
          /\ pc \in {"manifest", "status", "final"} => disk["proxy"] = tx.rel
          /\ pc \in {"status", "final"} => disk["manifest"] = NewRecord

\* How far an Uninstall has come; at every moment the record still names the
\* DLL that is there.
RemoveSoFar ==
    tx.op = "remove" =>
        /\ pc \in Changing =>
              /\ disk["manifest"] \in {tx.rec, Disabled(tx.rec)}
              /\ disk["proxy"] \in {NoFile, tx.rec.hash}
        /\ pc = "removeProxy" => tx.changed = {}
        /\ pc = "removeSettings" => tx.changed \subseteq {"proxy"}
        /\ pc \in {"removeSettings", "disable", "final"} => disk["proxy"] = NoFile
        /\ pc \in {"disable", "final"} => disk["settings"] = NoFile
        /\ pc = "final" => disk["manifest"] = Disabled(tx.rec)

\* Outside a change the disk is sound, within one what it can go back to is.
Settled ==
    /\ pc \notin Changing /\ damage # "install" => Retryable
    /\ pc \notin Changing /\ damage = "none" => Whole(disk)
    /\ pc \in Changing /\ damage = "none" => Whole(tx.old)

Progress == GuardHolds /\ InstallSoFar /\ RemoveSoFar /\ Settled

FullInv == SafeInv /\ Progress

-----------------------------------------------------------------------------
(* What the transaction promises: OwnedFiles. *)

\* While a transaction has something to undo, the files count as what its
\* snapshots hold.
Visible == IF pc \in Changing THEN tx.old ELSE disk

Promise == INSTANCE OwnedFiles WITH
               files <- [settings |-> Visible["settings"],
                         proxy    |-> Visible["proxy"],
                         manifest |-> Visible["manifest"]],
               hurt  <- damage

\* An Apply or an Uninstall changes the three owned files at once or not at
\* all, and only on files that are the installer's own; every exception is a
\* process death or a failed rollback, and is recorded as damage.
AllOrNothing == Promise!Spec

\* What the refinement needs besides FullInv: a half-done change leaves a record
\* that was there before or is one of ours, and an uninstall invents nothing.
Midway ==
    pc \in Changing =>
        /\ disk["manifest"] \in {tx.old["manifest"]} \cup Record
        /\ tx.op = "remove" =>
              \A f \in {"settings", "proxy"} : disk[f] \in {tx.old[f], NoFile}
=============================================================================

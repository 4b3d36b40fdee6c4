--------------------------- MODULE InstallTx_proofs ---------------------------
(***************************************************************************)
(* Theorems about the installer's transaction, for every set of settings   *)
(* and releases and every choice of faults.                                *)
(***************************************************************************)
EXTENDS InstallTx, TLAPS

LEMMA FileAtIsFile == \A k \in 1..4 : FileAt[k] \in File
BY DEF FileAt, File

LEMMA FreshType ==
    ASSUME NEW op \in {"install", "remove"}, NEW c \in Config, NEW r \in Release
    PROVE  Fresh(op, c, r) \in Tx
BY DEF Fresh, Tx, NoFiles, Content, Sentinel

LEMMA IdleType == ASSUME NEW t \in Tx PROVE Idle(t) \in Tx
<1>1. t.cfg \in Config /\ t.rel \in Release
  BY DEF Tx
<1> QED BY <1>1, FreshType DEF Idle

LEMMA InitType == Init => TypeOK
<1> SUFFICES ASSUME Init PROVE TypeOK
  OBVIOUS
<1>1. disk \in [File -> Content] /\ dir \in {"none", "user", "nemt"}
  BY DEF Init, File, Content, Sentinel
<1>2. tx \in Tx
  BY FreshType DEF Init
<1> QED BY <1>1, <1>2 DEF Init, TypeOK, Pcs

\* The steps that read and decide.
LEMMA CheckType ==
    ASSUME TypeOK,
           VerifyExe \/ ReadRecord \/ CheckRunning \/ CheckOwnership
             \/ VerifyRelease \/ Snapshot \/ Recheck
    PROVE  TypeOK'
<1> USE DEF TypeOK, Refuse, Goto, env, Pcs, Tx
<1>1. CASE VerifyExe BY <1>1 DEF VerifyExe
<1>2. CASE ReadRecord BY <1>2 DEF ReadRecord
<1>3. CASE CheckRunning BY <1>3 DEF CheckRunning
<1>4. CASE CheckOwnership BY <1>4 DEF CheckOwnership
<1>5. CASE VerifyRelease BY <1>5 DEF VerifyRelease
<1>6. CASE Snapshot
  <2>1. CASE "io" \in Faults /\ Refuse
    BY <1>6, <2>1 DEF Snapshot
  <2>2. CASE ~Refuse
    <3> DEFINE k == tx.i + 1
               f == FileAt[k]
    <3>1. tx.i \in 0..3 /\ k \in 1..4 /\ f \in File
      BY <1>6, <2>2, FileAtIsFile DEF Snapshot
    <3> DEFINE old == [tx.old EXCEPT ![f] = disk[f]]
    <3>2. /\ tx' = [tx EXCEPT !.old = old, !.i = k]
          /\ pc' \in Pcs
          /\ UNCHANGED <<disk, dir, litter, exeSame, game, damage>>
      BY <1>6, <2>2 DEF Snapshot
    <3>3. old \in [File -> Content] /\ k \in 0..4
      BY <3>1
    <3> HIDE DEF old, k
    <3>4. tx' \in Tx
      BY <3>2, <3>3
    <3> QED BY <3>2, <3>4
  <2> QED BY <1>6, <2>1, <2>2 DEF Snapshot
<1>7. CASE Recheck BY <1>7 DEF Recheck
<1> QED BY <1>1, <1>2, <1>3, <1>4, <1>5, <1>6, <1>7

LEMMA ReplaceType ==
    ASSUME TypeOK, NEW f \in File, NEW v \in Content, NEW p \in Pcs,
           Replace(f, v, p)
    PROVE  disk' \in [File -> Content] /\ litter' \subseteq InFolder /\ tx' \in Tx
           /\ pc' \in Pcs
BY DEF TypeOK, Replace, LitterAfterFailure, Goto, Tx, Pcs, InFolder

LEMMA RemoveType ==
    ASSUME TypeOK, NEW f \in File, NEW p \in Pcs, Remove(f, p)
    PROVE  disk' \in [File -> Content] /\ tx' \in Tx /\ pc' \in Pcs
BY DEF TypeOK, Remove, Goto, Tx, Pcs, Content, Sentinel

\* The steps that change files.
LEMMA ChangeType ==
    ASSUME TypeOK,
           MakeFolder \/ WriteTmp \/ ActivateSettings \/ InstallProxy \/ WriteManifest
             \/ WriteStatus \/ RemoveProxy \/ RemoveSettings \/ FinalCheck
    PROVE  TypeOK'
<1>1. CASE MakeFolder BY <1>1 DEF MakeFolder, TypeOK, Goto, env, Pcs, Tx
<1>2. CASE WriteTmp BY <1>2 DEF WriteTmp, TypeOK, Goto, env, Pcs, Tx, InFolder, File
<1>3. CASE ActivateSettings
  <2>1. tx.cfg \in Content /\ "settings" \in File
    BY DEF TypeOK, Tx, Content, File
  <2>2. disk' \in [File -> Content]
    BY <1>3, <2>1 DEF ActivateSettings, TypeOK
  <2>3. tx' \in Tx
    <3>1. tx.changed \cup {"settings"} \in SUBSET File
      BY <2>1 DEF TypeOK, Tx
    <3> QED BY <1>3, <3>1 DEF ActivateSettings, TypeOK, Tx
  <2> QED BY <1>3, <2>2, <2>3 DEF ActivateSettings, TypeOK, Goto, env, Pcs
<1>4. CASE InstallProxy
  BY <1>4, ReplaceType DEF InstallProxy, TypeOK, env, Pcs, Tx, File, Content
<1>5. CASE WriteManifest
  <2>1. NewRecord \in Content
    BY DEF NewRecord, TypeOK, Tx, Content, Record
  <2> QED BY <1>5, <2>1, ReplaceType DEF WriteManifest, TypeOK, env, Pcs, File
<1>6. CASE WriteStatus
  BY <1>6, ReplaceType DEF WriteStatus, TypeOK, env, Pcs, File, Content, Sentinel
<1>7. CASE RemoveProxy
  BY <1>7, RemoveType DEF RemoveProxy, TypeOK, env, Pcs, File
<1>8. CASE RemoveSettings
  BY <1>8, RemoveType DEF RemoveSettings, TypeOK, env, Pcs, File
<1>9. CASE FinalCheck BY <1>9 DEF FinalCheck, TypeOK, Goto, env, Pcs, Tx
<1> QED BY <1>1, <1>2, <1>3, <1>4, <1>5, <1>6, <1>7, <1>8, <1>9

LEMMA UndoType ==
    ASSUME TypeOK, DeleteTmp \/ RestoreFile \/ EndRollback \/ Return \/ Crash
    PROVE  TypeOK'
<1>1. CASE DeleteTmp BY <1>1 DEF DeleteTmp, TypeOK, Goto, env, Pcs, Tx
<1>2. CASE RestoreFile
  <2>1. FileAt[tx.i] \in File /\ tx.i - 1 \in 0..4
    BY <1>2, FileAtIsFile DEF RestoreFile, TypeOK, Tx
  <2>2. disk' \in [File -> Content]
    BY <1>2, <2>1 DEF RestoreFile, TypeOK, Tx
  <2>3. litter' \subseteq InFolder
    BY <1>2, <2>1 DEF RestoreFile, LitterAfterFailure, TypeOK
  <2>4. tx' \in Tx
    BY <1>2, <2>1 DEF RestoreFile, TypeOK, Tx
  <2> QED BY <1>2, <2>2, <2>3, <2>4 DEF RestoreFile, TypeOK, env
<1>3. CASE EndRollback BY <1>3 DEF EndRollback, Worse, TypeOK, Goto, env, Pcs, Tx
<1>4. CASE Return BY <1>4, IdleType DEF Return, TypeOK, Goto, env, Pcs
<1>5. CASE Crash
  <2>1. InFlight \subseteq InFolder
    BY DEF InFlight, InFolder, File
  <2> QED BY <1>5, <2>1, IdleType DEF Crash, Worse, TypeOK, Goto, env, Pcs
<1> QED BY <1>1, <1>2, <1>3, <1>4, <1>5

LEMMA EnvType ==
    ASSUME TypeOK, SwapExe \/ SelectExe \/ StartGame \/ ExitGame \/ RuntimeStatus \/ UserProxy
    PROVE  TypeOK'
<1>1. {NoFile, Foreign, Live} \subseteq Content /\ {"proxy", "status"} \subseteq File
  BY DEF Content, Sentinel, File
<1>2. CASE StartGame BY <1>1, <1>2 DEF StartGame, TypeOK
<1>3. CASE ExitGame BY <1>3 DEF ExitGame, TypeOK
<1>4. CASE RuntimeStatus BY <1>1, <1>4 DEF RuntimeStatus, TypeOK
<1>5. CASE UserProxy BY <1>1, <1>5 DEF UserProxy, TypeOK, env
<1>6. CASE SwapExe \/ SelectExe BY <1>6 DEF SwapExe, SelectExe, TypeOK
<1> QED BY <1>2, <1>3, <1>4, <1>5, <1>6

-----------------------------------------------------------------------------
(* Bookkeeping: what the locals of the call say about the disk. *)

LEMMA NotForeign ==
    \A v \in Config \cup Release \cup Record \cup {NoFile, BadRecord, NotRunning, Live} : v # Foreign
BY ContentAssumption DEF Sentinel

\* What every step that changes at most one file f does to the bookkeeping.
LEMMA ChangeKeeps ==
    ASSUME SafeInv, NEW f \in File,
           pc \in {"activate", "proxy", "manifest", "status",
                   "removeProxy", "removeSettings", "disable"},
           pc' \in {"proxy", "manifest", "status", "removeSettings", "disable",
                    "final", "deleteTmp"},
           pc' \in {"removeSettings", "disable"} => tx.op = "remove",
           dir' = dir,
           tx'.old = tx.old, tx'.op = tx.op, tx'.rec = tx.rec,
           \A g \in File : g # f => disk'[g] = disk[g],
           \/ disk'[f] = disk[f] /\ tx'.changed = tx.changed
           \/ tx'.changed = tx.changed \cup {f},
           Kinds(disk'), disk'[f] # Foreign
    PROVE  Bookkeeping'
<1>1. KindsOK'
  BY DEF SafeInv, Bookkeeping, KindsOK, Kinds
<1>2. NothingDoneYet' /\ RestoredSoFar' /\ RolledBackIsUnchanged'
  BY DEF NothingDoneYet, RestoredSoFar, RolledBackIsUnchanged, Checking
<1>3. RecordIsDisks'
  BY DEF SafeInv, Bookkeeping, RecordIsDisks, PastGuard, Changing, Owned
<1>4. SnapshotsHold' /\ StatusSnapshotHolds'
  BY DEF SafeInv, Bookkeeping, SnapshotsHold, StatusSnapshotHolds, Changing, Restorable, File
<1>5. FolderHolds'
  BY DEF SafeInv, Bookkeeping, FolderHolds, Writing, Changing
<1>6. NoForeignTouched'
  BY DEF SafeInv, Bookkeeping, NoForeignTouched, PastGuard, Changing, File
<1> QED BY <1>1, <1>2, <1>3, <1>4, <1>5, <1>6 DEF Bookkeeping

\* Replace writes one file or none.
LEMMA ReplaceKeeps ==
    ASSUME SafeInv, NEW f \in File, NEW v, NEW p, Replace(f, v, p),
           pc \in {"proxy", "manifest", "status", "disable"},
           p \in {"manifest", "status", "final"},
           dir' = dir, Kinds([disk EXCEPT ![f] = v]), v # Foreign
    PROVE  Bookkeeping'
<1>1. disk \in [File -> Content] /\ tx \in Tx
  BY DEF SafeInv, TypeOK
<1>2. Kinds(disk) /\ disk[f] # Foreign
  BY DEF SafeInv, Bookkeeping, KindsOK, NoForeignTouched, PastGuard, Changing
<1>3. CASE disk' = disk /\ tx' = tx /\ pc' = "deleteTmp"
  BY <1>2, <1>3, ChangeKeeps
<1>4. CASE /\ disk' = [disk EXCEPT ![f] = v] /\ pc' = p
           /\ tx' = [tx EXCEPT !.changed = @ \cup {f}]
  <2>1. /\ \A g \in File : g # f => disk'[g] = disk[g]
        /\ disk'[f] = v
    BY <1>1, <1>4
  <2>2. /\ tx'.old = tx.old /\ tx'.op = tx.op /\ tx'.rec = tx.rec
        /\ tx'.changed = tx.changed \cup {f}
    BY <1>1, <1>4 DEF Tx
  <2>3. Kinds(disk')
    BY <1>4
  <2> QED BY <1>4, <2>1, <2>2, <2>3, ChangeKeeps
<1> QED BY <1>3, <1>4 DEF Replace, Goto

LEMMA RemoveKeeps ==
    ASSUME SafeInv, NEW f \in {"proxy", "settings"}, NEW p, Remove(f, p),
           pc \in {"removeProxy", "removeSettings"},
           p \in {"removeSettings", "disable"}, dir' = dir
    PROVE  Bookkeeping'
<1>1. disk \in [File -> Content] /\ tx \in Tx /\ f \in File
  BY DEF SafeInv, TypeOK, File
<1>2. Kinds(disk) /\ disk[f] # Foreign /\ tx.op = "remove"
  BY <1>1 DEF SafeInv, Bookkeeping, KindsOK, NoForeignTouched, RecordIsDisks, PastGuard, Changing
<1>3. CASE disk' = disk /\ tx' = tx /\ pc' \in {p, "deleteTmp"}
  BY <1>1, <1>2, <1>3, ChangeKeeps
<1>4. CASE /\ disk' = [disk EXCEPT ![f] = NoFile] /\ pc' = p
           /\ tx' = [tx EXCEPT !.changed = @ \cup {f}]
  <2>1. /\ \A g \in File : g # f => disk'[g] = disk[g]
        /\ disk'[f] = NoFile /\ disk'[f] # Foreign
    BY <1>1, <1>4, NotForeign
  <2>2. /\ tx'.old = tx.old /\ tx'.op = tx.op /\ tx'.rec = tx.rec
        /\ tx'.changed = tx.changed \cup {f}
    BY <1>1, <1>4 DEF Tx
  <2>3. Kinds(disk')
    BY <1>1, <1>2, <2>1 DEF Kinds, File
  <2> QED BY <1>1, <1>2, <1>4, <2>1, <2>2, <2>3, ChangeKeeps
<1> QED BY <1>3, <1>4 DEF Remove, Goto

\* The steps that write or delete one of the four files on the way forward.
LEMMA WriteKeeps ==
    ASSUME SafeInv,
           ActivateSettings \/ InstallProxy \/ WriteManifest \/ WriteStatus
             \/ RemoveProxy \/ RemoveSettings \/ DisableRecord
    PROVE  Bookkeeping'
<1>1. disk \in [File -> Content] /\ tx \in Tx /\ tx.rel \in Release /\ tx.cfg \in Config
  BY DEF SafeInv, TypeOK, Tx
<1>2. Kinds(disk)
  BY DEF SafeInv, Bookkeeping, KindsOK
<1>3. CASE ActivateSettings
  <2>1. CASE pc' = "deleteTmp"
    <3>1. /\ disk' = disk /\ tx' = tx /\ dir' = dir /\ pc = "activate"
          /\ disk["settings"] # Foreign
      BY <1>3, <2>1 DEF ActivateSettings, Goto, SafeInv, Bookkeeping, NoForeignTouched,
         PastGuard, Changing, File
    <3> QED BY <1>2, <2>1, <3>1, ChangeKeeps DEF File
  <2>2. CASE pc' # "deleteTmp"
    <3>1. /\ pc = "activate" /\ pc' = "proxy" /\ dir' = dir
          /\ disk' = [disk EXCEPT !["settings"] = tx.cfg]
          /\ tx' = [tx EXCEPT !.tmp = FALSE, !.changed = @ \cup {"settings"}]
      BY <1>3, <2>2 DEF ActivateSettings, Goto
    <3>2. /\ \A g \in File : g # "settings" => disk'[g] = disk[g]
          /\ disk'["settings"] = tx.cfg /\ tx.cfg # Foreign
      BY <1>1, <3>1, NotForeign DEF File
    <3>3. /\ tx'.old = tx.old /\ tx'.op = tx.op /\ tx'.rec = tx.rec
          /\ tx'.changed = tx.changed \cup {"settings"}
      BY <1>1, <3>1 DEF Tx
    <3>4. Kinds(disk')
      BY <1>1, <1>2, <3>2 DEF Kinds, File
    <3> QED BY <3>1, <3>2, <3>3, <3>4, ChangeKeeps DEF File
  <2> QED BY <2>1, <2>2
<1>4. CASE InstallProxy
  <2>1. tx.rel # Foreign /\ Kinds([disk EXCEPT !["proxy"] = tx.rel])
    BY <1>1, <1>2, NotForeign DEF Kinds, File
  <2> QED BY <1>4, <2>1, ReplaceKeeps DEF InstallProxy, File
<1>5. CASE WriteManifest
  <2>1. NewRecord \in Record
    BY <1>1 DEF NewRecord, Record
  <2>2. Replace("manifest", NewRecord, "status") /\ pc = "manifest" /\ dir' = dir
    BY <1>5 DEF WriteManifest
  <2>3. NewRecord # Foreign /\ Kinds([disk EXCEPT !["manifest"] = NewRecord])
    BY <1>1, <1>2, <2>1, NotForeign DEF Kinds, File
  <2> QED BY <2>2, <2>3, ReplaceKeeps DEF File
<1>6. CASE WriteStatus
  <2>1. NotRunning # Foreign /\ Kinds([disk EXCEPT !["status"] = NotRunning])
    BY <1>1, <1>2, NotForeign DEF Kinds, File
  <2> QED BY <1>6, <2>1, ReplaceKeeps DEF WriteStatus, File
<1>7. CASE RemoveProxy BY <1>7, RemoveKeeps DEF RemoveProxy
<1>8. CASE RemoveSettings BY <1>8, RemoveKeeps DEF RemoveSettings
<1>9. CASE DisableRecord
  <2> DEFINE v == Disabled(tx.rec)
  <2>1. tx.rec \in Record
    BY <1>9 DEF DisableRecord, SafeInv, Bookkeeping, RecordIsDisks, PastGuard, Changing, Owned
  <2>2. v \in Record
    BY <2>1 DEF Disabled, Record
  <2>3. Replace("manifest", v, "final") /\ pc = "disable" /\ dir' = dir
    BY <1>9 DEF DisableRecord
  <2> HIDE DEF v
  <2>4. v # Foreign /\ Kinds([disk EXCEPT !["manifest"] = v])
    BY <1>1, <1>2, <2>2, NotForeign DEF Kinds, File
  <2> QED BY <2>3, <2>4, ReplaceKeeps DEF File
<1> QED BY <1>3, <1>4, <1>5, <1>6, <1>7, <1>8, <1>9

\* The ownership checks: past them nothing foreign is among the four files.
LEMMA CheckOwnershipKeeps == ASSUME SafeInv, CheckOwnership PROVE Bookkeeping'
<1> USE DEF Owned, Goto, Refuse, env
<1>1. tx.old = NoFiles /\ tx.i = 0 /\ tx.changed = {} /\ ~tx.created /\ disk["manifest"] = tx.rec
  BY DEF CheckOwnership, SafeInv, Bookkeeping, NothingDoneYet, RecordIsDisks, Checking
<1>2. /\ pc' \in {"report", "snapshot", "release"}
      /\ UNCHANGED <<disk, dir>>
      /\ \/ tx' = tx /\ pc' # "report"
         \/ pc' = "report" /\ tx' = [tx EXCEPT !.result = "ok"]
         \/ pc' = "report" /\ tx' = [tx EXCEPT !.result = "refused"]
      /\ pc' = "snapshot" => ProxyOurs /\ Owned
      /\ pc' = "release" => ProxyOurs /\ FolderOurs /\ tx.op = "install"
  BY DEF CheckOwnership
<1>3. tx'.old = NoFiles /\ tx'.i = 0 /\ tx'.rec = tx.rec /\ tx'.op = tx.op /\ (pc' = "report" => tx'.result # "rolledback")
  BY <1>1, <1>2 DEF SafeInv, TypeOK, Tx
<1>4. pc' # "report" => tx' = tx
  BY <1>2
<1> HIDE DEF Owned, Goto, Refuse, env
<1>5. KindsOK'
  BY <1>1, <1>2, <1>3 DEF SafeInv, Bookkeeping, KindsOK, Kinds
<1>6. NothingDoneYet' /\ RecordIsDisks' /\ SnapshotsHold'
  BY <1>1, <1>2, <1>3, <1>4 DEF NothingDoneYet, RecordIsDisks, SnapshotsHold, Checking, Changing, PastGuard, Owned
<1>7. StatusSnapshotHolds' /\ RestoredSoFar' /\ RolledBackIsUnchanged'
  BY <1>2, <1>3 DEF StatusSnapshotHolds, RestoredSoFar, RolledBackIsUnchanged, Changing
<1>8. FolderHolds'
  BY <1>2 DEF SafeInv, Bookkeeping, FolderHolds, Writing, Changing
<1>9. NoForeignTouched'
  <2>1. disk'["manifest"] \in Record => disk'["settings"] # Foreign
    BY <1>2 DEF SafeInv, Bookkeeping, NoForeignTouched
  <2>2. ASSUME pc' # "report" PROVE \A f \in File : disk[f] # Foreign
    <3>1. disk["proxy"] # Foreign
      BY <1>2, <2>2, ContentAssumption DEF ProxyOurs, Owned, Record, Sentinel
    <3>2. disk["settings"] # Foreign
      BY <1>1, <1>2, <2>2, ContentAssumption DEF FolderOurs, Owned, SafeInv, Bookkeeping, NoForeignTouched, FolderHolds, InFolder, File
    <3>3. disk["manifest"] # Foreign /\ disk["status"] # Foreign
      BY ContentAssumption DEF SafeInv, Bookkeeping, KindsOK, Kinds, Sentinel
    <3> QED BY <3>1, <3>2, <3>3 DEF File
  <2>3. \A f \in File : NoFiles[f] # Foreign
    BY ContentAssumption DEF NoFiles
  <2> QED BY <1>2, <1>3, <2>1, <2>2, <2>3 DEF NoForeignTouched, PastGuard, Changing
<1> QED BY <1>5, <1>6, <1>7, <1>8, <1>9 DEF Bookkeeping

\* One snapshot_file.
LEMMA SnapshotKeeps == ASSUME SafeInv, Snapshot PROVE Bookkeeping'
<1>1. CASE pc' = "report"
  <2>1. pc' = "report" /\ UNCHANGED <<disk, dir>> /\ tx'.old = tx.old /\ tx'.result = "refused"
    BY <1>1 DEF Snapshot, Refuse, Goto, SafeInv, TypeOK, Tx
  <2> QED BY <2>1 DEF SafeInv, Bookkeeping, KindsOK, Kinds, NothingDoneYet, RecordIsDisks, SnapshotsHold, StatusSnapshotHolds, RestoredSoFar, FolderHolds, NoForeignTouched, RolledBackIsUnchanged, Checking, PastGuard, Writing, Changing
<1>2. CASE pc' # "report"
  <2> DEFINE n == tx.i + 1
             f == FileAt[n]
  <2>1. tx.i \in 0..3 /\ n \in 1..4 /\ f \in File
    BY <1>2 DEF Snapshot, Refuse,  SafeInv, TypeOK, Tx, FileAt, File
  <2>2. /\ tx' = [tx EXCEPT !.old = [tx.old EXCEPT ![f] = disk[f]], !.i = n]
        /\ pc = "snapshot" /\ pc' = IF tx.i = 3 THEN "recheck" ELSE "snapshot"
        /\ UNCHANGED <<disk, dir>>
    BY <1>2 DEF Snapshot, Refuse, Goto
  <2>3. /\ \A g \in File : tx'.old[g] = IF g = f THEN disk[g] ELSE tx.old[g]
        /\ tx'.i = n /\ tx'.changed = tx.changed /\ tx'.created = tx.created
        /\ tx'.rec = tx.rec /\ tx'.op = tx.op /\ tx.changed = {} /\ ~tx.created
    BY <2>1, <2>2 DEF SafeInv, TypeOK, Tx, Bookkeeping, NothingDoneYet, Checking
  <2> HIDE DEF f
  <2>4. KindsOK'
    BY <2>2, <2>3 DEF SafeInv, Bookkeeping, KindsOK, Kinds, File
  <2>5. NothingDoneYet' /\ FolderHolds' /\ NoForeignTouched'
    BY <2>2, <2>3 DEF SafeInv, Bookkeeping, NothingDoneYet, FolderHolds, NoForeignTouched, Checking, PastGuard, Writing, Changing
  <2>6. \A k \in 1..4 : k <= n /\ FileAt[k] \in Restorable => tx'.old[FileAt[k]] = disk'[FileAt[k]]
    <3> SUFFICES ASSUME NEW k \in 1..4, k <= n, FileAt[k] \in Restorable
                 PROVE  tx'.old[FileAt[k]] = disk'[FileAt[k]]
      OBVIOUS
    <3>1. FileAt[k] \in File
      BY DEF FileAt, File
    <3>2. CASE k = n
      BY <2>2, <2>3, <3>1, <3>2 DEF f
    <3>3. CASE k # n
      <4>1. k <= tx.i
        BY <2>1, <3>3
      <4>2. tx.old[FileAt[k]] = disk[FileAt[k]]
        BY <2>2, <4>1 DEF SafeInv, Bookkeeping, SnapshotsHold
      <4> QED BY <2>2, <2>3, <3>1, <4>2
    <3> QED BY <3>2, <3>3
  <2>7. SnapshotsHold' /\ RecordIsDisks'
    <3>1. pc' = "snapshot" => SnapshotsHold' /\ RecordIsDisks'
      BY <2>2, <2>3, <2>6 DEF SafeInv, Bookkeeping, SnapshotsHold, RecordIsDisks, PastGuard, Changing, Owned
    <3>2. ASSUME pc' = "recheck" PROVE SnapshotsHold' /\ RecordIsDisks'
      <4>1. \A g \in Restorable : tx'.old[g] = disk'[g]
        <5>1. n = 4
          BY <2>2, <3>2, <2>1
        <5> QED BY <5>1, <2>6 DEF Restorable, FileAt
      <4> QED BY <2>2, <2>3, <3>2, <4>1 DEF SafeInv, Bookkeeping, SnapshotsHold, RecordIsDisks, PastGuard, Changing, Owned, Restorable
    <3> QED BY <2>2, <3>1, <3>2
  <2>8. StatusSnapshotHolds'
    <3>1. pc' = "recheck" => f = "status"
      BY <2>2 DEF f, FileAt
    <3> QED BY <2>2, <2>3, <3>1 DEF StatusSnapshotHolds, Changing, File
  <2>9. RestoredSoFar' /\ RolledBackIsUnchanged'
    BY <2>2 DEF RestoredSoFar, RolledBackIsUnchanged
  <2> QED BY <2>4, <2>5, <2>7, <2>8, <2>9 DEF Bookkeeping
<1> QED BY <1>1, <1>2


\* One iteration of rollback_files.
LEMMA RestoreKeeps == ASSUME SafeInv, RestoreFile PROVE Bookkeeping'
<1> DEFINE f == FileAt[tx.i]
<1>1. tx.i \in 1..4 /\ f \in File
  BY DEF RestoreFile, SafeInv, TypeOK, Tx, FileAt, File
<1>2. /\ pc = "rollback" /\ pc' = "rollback" /\ dir' = dir
      /\ \/ f \notin tx.changed /\ disk' = disk
         \/ f \in tx.changed /\ disk' = [disk EXCEPT ![f] = tx.old[f]]
         \/ f \in tx.changed /\ disk' = disk /\ tx'.broken
      /\ \/ tx' = [tx EXCEPT !.i = @ - 1]
         \/ tx' = [tx EXCEPT !.i = @ - 1, !.broken = TRUE]
  BY DEF RestoreFile, SafeInv, TypeOK, Tx
<1>3. /\ tx'.old = tx.old /\ tx'.op = tx.op /\ tx'.rec = tx.rec /\ tx'.i = tx.i - 1
      /\ tx'.changed = tx.changed /\ tx'.created = tx.created
      /\ ~tx'.broken => ~tx.broken
  BY <1>2 DEF SafeInv, TypeOK, Tx
<1>4. /\ \A g \in File : disk'[g] = disk[g] \/ (g = f /\ g \in tx.changed /\ disk'[g] = tx.old[g])
      /\ ~tx'.broken /\ f \in tx.changed => disk'[f] = tx.old[f]
      /\ \A g \in File : g # f => disk'[g] = disk[g]
      /\ f \notin tx.changed => disk'[f] = disk[f]
  BY <1>1, <1>2 DEF SafeInv, TypeOK, Tx
<1>f. f = FileAt[tx.i]
  OBVIOUS
<1> HIDE DEF f
<1>5. KindsOK'
  <2>1. disk'["settings"] \in {disk["settings"], tx.old["settings"]}
        /\ disk'["proxy"] \in {disk["proxy"], tx.old["proxy"]}
        /\ disk'["manifest"] \in {disk["manifest"], tx.old["manifest"]}
        /\ disk'["status"] \in {disk["status"], tx.old["status"]}
    BY <1>4 DEF File
  <2> QED BY <1>3, <2>1 DEF SafeInv, Bookkeeping, KindsOK, Kinds
<1>6. NothingDoneYet' /\ RolledBackIsUnchanged'
  BY <1>2 DEF NothingDoneYet, RolledBackIsUnchanged, Checking
<1>7. RecordIsDisks' /\ FolderHolds'
  BY <1>2, <1>3, <1>4 DEF SafeInv, Bookkeeping, RecordIsDisks, FolderHolds, PastGuard, Writing,
     Changing, Owned, InFolder
<1>8. NoForeignTouched'
  <2>1. \A g \in File : disk[g] # Foreign /\ tx.old[g] # Foreign
    BY <1>2 DEF SafeInv, Bookkeeping, NoForeignTouched, PastGuard, Changing
  <2>2. \A g \in File : disk'[g] # Foreign
    BY <1>4, <2>1
  <2> QED BY <1>3, <2>1, <2>2 DEF NoForeignTouched, File
<1>9. SnapshotsHold'
  BY <1>2, <1>3, <1>4 DEF SafeInv, Bookkeeping, SnapshotsHold, Changing, Restorable, File
<1>10. StatusSnapshotHolds'
  BY <1>2, <1>3, <1>4 DEF SafeInv, Bookkeeping, StatusSnapshotHolds, Changing, File
<1>11. RestoredSoFar'
  <2> SUFFICES ASSUME ~tx'.broken
               PROVE  /\ \A k \in 1..4 : k > tx'.i /\ FileAt[k] \in Restorable =>
                            disk'[FileAt[k]] = tx'.old[FileAt[k]]
                      /\ tx'.i < 4 => disk'["status"] \in {tx'.old["status"], Live}
    BY DEF RestoredSoFar
  <2>1. f \in Restorable => disk'[f] = tx.old[f]
    BY <1>1, <1>2, <1>4 DEF SafeInv, Bookkeeping, SnapshotsHold, Changing
  <2>2. ASSUME NEW k \in 1..4, k > tx'.i, FileAt[k] \in Restorable
        PROVE  disk'[FileAt[k]] = tx'.old[FileAt[k]]
    <3>1. CASE k = tx.i
      BY <1>3, <2>1, <2>2, <3>1, <1>f
    <3>2. CASE k # tx.i
      <4>1. k > tx.i
        BY <1>1, <1>3, <2>2, <3>2
      <4>2. disk[FileAt[k]] = tx.old[FileAt[k]]
        BY <1>2, <1>3, <2>2, <4>1 DEF SafeInv, Bookkeeping, RestoredSoFar
      <4>3. FileAt[k] \in File
        BY DEF FileAt, File
      <4> QED BY <1>3, <1>4, <4>2, <4>3
    <3> QED BY <3>1, <3>2
  <2>3. disk'["status"] \in {tx'.old["status"], Live}
    <3>1. CASE tx.i = 4
      <4>1. f = "status"
        BY <3>1, <1>f DEF FileAt
      <4> QED BY <1>2, <1>3, <1>4, <4>1 DEF SafeInv, Bookkeeping, StatusSnapshotHolds, Changing, File
    <3>2. CASE tx.i # 4
      <4>1. tx.i < 4 /\ f # "status"
        BY <1>1, <3>2, <1>f DEF FileAt
      <4>2. disk["status"] \in {tx.old["status"], Live}
        BY <1>2, <1>3, <4>1 DEF SafeInv, Bookkeeping, RestoredSoFar
      <4> QED BY <1>3, <1>4, <4>1, <4>2 DEF File
    <3> QED BY <3>1, <3>2
  <2> QED BY <2>2, <2>3
<1> QED BY <1>5, <1>6, <1>7, <1>8, <1>9, <1>10, <1>11 DEF Bookkeeping

\* The steps that read and decide, and the start of a call.
LEMMA ChecksKeep ==
    ASSUME SafeInv, TypeOK',
           \/ \E op \in {"install", "remove"}, c \in Config, r \in Release : Begin(op, c, r)
           \/ VerifyExe \/ ReadRecord \/ CheckRunning \/ VerifyRelease \/ Recheck
    PROVE  Bookkeeping'
<1> USE DEF SafeInv, Bookkeeping, TypeOK, Tx, KindsOK, NothingDoneYet, RecordIsDisks,
            SnapshotsHold, StatusSnapshotHolds, RestoredSoFar, FolderHolds, NoForeignTouched,
            RolledBackIsUnchanged, Checking, PastGuard, Writing, Changing, Goto, Refuse, Owned
<1>1. ASSUME NEW op \in {"install", "remove"}, NEW c \in Config, NEW r \in Release,
             Begin(op, c, r)
      PROVE  Bookkeeping'
  BY <1>1 DEF Begin, Fresh, Kinds, NoFiles, File
<1>2. CASE VerifyExe BY <1>2 DEF VerifyExe
<1>3. CASE ReadRecord BY <1>3 DEF ReadRecord
<1>4. CASE CheckRunning BY <1>4 DEF CheckRunning
<1>5. CASE VerifyRelease
  <2>1. /\ pc = "release" /\ pc' \in {"snapshot", "report"} /\ UNCHANGED <<disk, dir>>
        /\ tx'.old = tx.old /\ tx'.op = tx.op /\ tx'.rec = tx.rec /\ tx'.i = tx.i
        /\ tx'.changed = tx.changed /\ tx'.created = tx.created
        /\ pc' = "report" => tx'.result = "refused"
    BY <1>5 DEF VerifyRelease
  <2>2. tx.i = 0
    BY <2>1
  <2>3. KindsOK' /\ NothingDoneYet' /\ RecordIsDisks'
    BY <2>1
  <2>4. SnapshotsHold' /\ StatusSnapshotHolds' /\ RestoredSoFar'
    BY <2>1, <2>2
  <2>5. FolderHolds' /\ NoForeignTouched' /\ RolledBackIsUnchanged'
    BY <2>1
  <2> QED BY <2>3, <2>4, <2>5
<1>6. CASE Recheck
  <2>1. CASE pc' = "report"
    <3>1. /\ UNCHANGED <<disk, dir>> /\ tx'.old = tx.old /\ tx'.result = "refused"
      BY <1>6, <2>1 DEF Recheck
    <3> QED BY <2>1, <3>1
  <2>2. CASE pc' # "report"
    <3>1. /\ pc = "recheck" /\ UNCHANGED <<disk, dir, tx>>
          /\ pc' = IF tx.op = "remove" THEN "removeProxy" ELSE "mkdir"
      BY <1>6, <2>2 DEF Recheck
    <3>2. KindsOK' /\ NothingDoneYet' /\ RecordIsDisks'
      BY <3>1
    <3>3. SnapshotsHold' /\ StatusSnapshotHolds' /\ RestoredSoFar'
      BY <3>1
    <3>4. FolderHolds'
      <4>1. NoFile \notin Record
        BY ContentAssumption DEF Sentinel
      <4>2. tx.op = "remove" => disk["manifest"] \in Record
        BY <3>1
      <4>3. tx.op = "remove" => dir # "none"
        BY <4>1, <4>2 DEF InFolder, File
      <4> QED BY <3>1, <4>3
    <3>5. NoForeignTouched' /\ RolledBackIsUnchanged'
      BY <3>1
    <3> QED BY <3>2, <3>3, <3>4, <3>5
  <2> QED BY <2>1, <2>2
<1> QED BY <1>1, <1>2, <1>3, <1>4, <1>5, <1>6

\* The steps that leave the four files alone: the folder, the temporary file,
\* the end of a call and its death.
LEMMA EndsKeep ==
    ASSUME SafeInv, TypeOK',
           MakeFolder \/ WriteTmp \/ FinalCheck \/ DeleteTmp \/ EndRollback \/ Return \/ Crash
    PROVE  Bookkeeping'
<1> USE DEF SafeInv, Bookkeeping, TypeOK, Tx, KindsOK, NothingDoneYet, RecordIsDisks,
            SnapshotsHold, StatusSnapshotHolds, RestoredSoFar, FolderHolds, NoForeignTouched,
            RolledBackIsUnchanged, Checking, PastGuard, Writing, Changing, Goto, Owned
<1>1. CASE MakeFolder BY <1>1 DEF MakeFolder
<1>2. CASE WriteTmp BY <1>2 DEF WriteTmp
<1>3. CASE FinalCheck BY <1>3 DEF FinalCheck
<1>4. CASE DeleteTmp BY <1>4 DEF DeleteTmp
<1>5. CASE EndRollback
  BY <1>5 DEF EndRollback, FolderEmpty, Restorable, FileAt
<1>6. CASE Return BY <1>6 DEF Return, Idle, Fresh, Kinds, NoFiles, File
<1>7. CASE Crash BY <1>7 DEF Crash, Idle, Fresh, Kinds, NoFiles, File
<1> QED BY <1>1, <1>2, <1>3, <1>4, <1>5, <1>6, <1>7

\* The environment: the game, its runtime, another program.
LEMMA EnvKeeps ==
    ASSUME SafeInv, TypeOK',
           SwapExe \/ SelectExe \/ StartGame \/ ExitGame \/ RuntimeStatus \/ UserProxy
    PROVE  Bookkeeping'
<1> USE DEF SafeInv, Bookkeeping, TypeOK, Tx, KindsOK, NothingDoneYet, RecordIsDisks,
            SnapshotsHold, StatusSnapshotHolds, RestoredSoFar, FolderHolds, NoForeignTouched,
            RolledBackIsUnchanged, Checking, PastGuard, Writing, Changing, Owned
<1>1. CASE SwapExe BY <1>1 DEF SwapExe
<1>2. CASE SelectExe BY <1>2 DEF SelectExe
<1>3. CASE StartGame BY <1>3 DEF StartGame
<1>4. CASE ExitGame BY <1>4 DEF ExitGame
<1>5. CASE RuntimeStatus
  BY <1>5, ContentAssumption DEF RuntimeStatus, Kinds, InFolder, File, FileAt, Restorable, Sentinel
<1>6. CASE UserProxy
  BY <1>6 DEF UserProxy, Kinds, InFolder, File, env
<1> QED BY <1>1, <1>2, <1>3, <1>4, <1>5, <1>6

-----------------------------------------------------------------------------
(* Progress: what has been done so far, and what can still be undone. *)

\* A step from one change to the next keeps what a rollback restores.
LEMMA StayKeeps ==
    ASSUME SafeInv, Progress, pc \in Changing, pc' \in Changing, dir' = dir, damage' = damage,
           tx'.old = tx.old, tx'.op = tx.op, tx'.rec = tx.rec, tx'.created = tx.created
    PROVE  GuardHolds' /\ Settled'
BY DEF Progress, GuardHolds, Settled, Owned, PastGuard, Changing, Whole

\* The steps that read and decide.
LEMMA ChecksProgress ==
    ASSUME SafeInv, Progress, SafeInv',
           \/ \E op \in {"install", "remove"}, c \in Config, r \in Release : Begin(op, c, r)
           \/ VerifyExe \/ ReadRecord \/ CheckRunning \/ CheckOwnership \/ VerifyRelease
           \/ Snapshot
    PROVE  Progress'
<1>1. /\ UNCHANGED <<disk, dir, damage>>
      /\ pc \notin Changing /\ pc' \notin Changing
  BY DEF Begin, VerifyExe, ReadRecord, CheckRunning, CheckOwnership, VerifyRelease, Snapshot,
     Goto, Refuse, Changing
<1>2. Settled'
  BY <1>1 DEF Progress, Settled, Retryable, Whole
<1>3. InstallSoFar' /\ RemoveSoFar'
  BY <1>1 DEF InstallSoFar, RemoveSoFar, Changing
<1>4. GuardHolds'
  <2>1. CASE \/ VerifyExe \/ ReadRecord \/ CheckRunning
             \/ \E op \in {"install", "remove"}, c \in Config, r \in Release : Begin(op, c, r)
    <3>1. pc' \in {"verify", "record", "running", "guard", "report"}
      BY <2>1 DEF Begin, VerifyExe, ReadRecord, CheckRunning, Goto, Refuse
    <3> QED BY <3>1 DEF GuardHolds, PastGuard, Changing
  <2>2. CASE CheckOwnership
    <3>1. \/ pc' = "report"
          \/ pc' = "snapshot" /\ tx' = tx /\ ProxyOurs /\ tx.op = "remove"
          \/ pc' = "release" /\ tx' = tx /\ ProxyOurs /\ FolderOurs
      BY <2>2 DEF CheckOwnership, Goto, Refuse
    <3>2. ProxyOurs /\ tx' = tx => ProxyOurs'
      BY <1>1 DEF ProxyOurs, Owned
    <3> QED BY <1>1, <3>1, <3>2 DEF GuardHolds, PastGuard, Changing, FolderOurs, Owned
  <2>3. CASE VerifyRelease \/ Snapshot
    <3>1. /\ pc \in {"release", "snapshot"} /\ pc' \in {"snapshot", "recheck", "report"}
          /\ tx'.rec = tx.rec /\ tx'.op = tx.op /\ tx'.created = tx.created
      BY <2>3 DEF VerifyRelease, Snapshot, Goto, Refuse, SafeInv, TypeOK, Tx
    <3> QED BY <1>1, <3>1 DEF Progress, GuardHolds, PastGuard, Changing, ProxyOurs, Owned
  <2> QED BY <2>1, <2>2, <2>3
<1> QED BY <1>2, <1>3, <1>4 DEF Progress

LEMMA RecheckProgress == ASSUME SafeInv, Progress, SafeInv', Recheck PROVE Progress'
<1>1. CASE pc' = "report"
  <2>1. UNCHANGED <<disk, dir, damage>> /\ pc = "recheck"
    BY <1>1 DEF Recheck
  <2> QED BY <1>1, <2>1 DEF Progress, GuardHolds, InstallSoFar, RemoveSoFar, Settled,
             Retryable, Whole, PastGuard, Changing
<1>2. CASE pc' # "report"
  <2>1. /\ pc = "recheck" /\ UNCHANGED <<disk, dir, damage, tx>>
        /\ pc' = IF tx.op = "remove" THEN "removeProxy" ELSE "mkdir"
    BY <1>2 DEF Recheck, Goto, Refuse
  <2>2. /\ tx.changed = {} /\ ~tx.created
        /\ \A f \in Restorable : disk[f] = tx.old[f]
        /\ disk["manifest"] = tx.rec
        /\ tx.op = "remove" => Owned
    BY <2>1 DEF SafeInv, Bookkeeping, NothingDoneYet, SnapshotsHold, RecordIsDisks, Checking,
       PastGuard
  <2>3. GuardHolds'
    BY <2>1, <2>2 DEF Progress, GuardHolds, ProxyOurs, Owned, PastGuard, Restorable
  <2>4. InstallSoFar' /\ RemoveSoFar'
    <3>1. tx.op \in {"install", "remove"}
      BY DEF SafeInv, TypeOK, Tx
    <3>2. disk["proxy"] \in {NoFile, tx.rec.hash} \/ ~Owned
      BY <2>1 DEF Progress, GuardHolds, ProxyOurs
    <3> QED BY <2>1, <2>2, <3>1, <3>2 DEF InstallSoFar, RemoveSoFar, Changing
  <2>5. Settled'
    BY <2>1, <2>2 DEF Progress, Settled, Whole, Restorable, Changing
  <2> QED BY <2>3, <2>4, <2>5 DEF Progress
<1> QED BY <1>1, <1>2

\* The files an Apply or an Uninstall has changed so far.
LEMMA WriteProgress ==
    ASSUME SafeInv, Progress, SafeInv',
           MakeFolder \/ WriteTmp \/ ActivateSettings \/ InstallProxy \/ WriteManifest
             \/ WriteStatus \/ RemoveProxy \/ RemoveSettings \/ DisableRecord
    PROVE  Progress'
<1> USE DEF Goto
<1>1. disk \in [File -> Content] /\ tx \in Tx /\ tx.op \in {"install", "remove"}
  BY DEF SafeInv, TypeOK, Tx
<1>2. CASE MakeFolder
  <2>1. /\ pc = "mkdir" /\ pc' \in {"writeTmp", "deleteTmp"} /\ UNCHANGED <<disk, damage>>
        /\ tx'.old = tx.old /\ tx'.op = tx.op /\ tx'.rec = tx.rec
        /\ (dir' = dir /\ tx' = tx) \/ tx'.created
    BY <1>1, <1>2 DEF MakeFolder, Tx
  <2>2. tx.op = "install"
    BY <2>1 DEF Progress, InstallSoFar
  <2>3. GuardHolds' /\ Settled'
    BY <2>1 DEF Progress, GuardHolds, Settled, Owned, PastGuard, Changing, Whole
  <2>4. InstallSoFar' /\ RemoveSoFar'
    BY <2>1, <2>2 DEF InstallSoFar, RemoveSoFar
  <2> QED BY <2>3, <2>4 DEF Progress
<1>3. CASE WriteTmp
  <2>1. /\ pc = "writeTmp" /\ pc' \in {"activate", "deleteTmp"} /\ UNCHANGED <<disk, dir, damage>>
        /\ tx'.old = tx.old /\ tx'.op = tx.op /\ tx'.rec = tx.rec /\ tx'.created = tx.created
    BY <1>1, <1>3 DEF WriteTmp, Tx
  <2>2. tx.op = "install"
    BY <2>1 DEF Progress, InstallSoFar
  <2>3. InstallSoFar' /\ RemoveSoFar'
    BY <2>1, <2>2 DEF InstallSoFar, RemoveSoFar
  <2> QED BY <2>1, <2>3, StayKeeps DEF Progress, Changing
<1>4. CASE ActivateSettings
  <2>1. /\ pc = "activate" /\ dir' = dir /\ damage' = damage
        /\ tx'.old = tx.old /\ tx'.op = tx.op /\ tx'.rec = tx.rec /\ tx'.created = tx.created
        /\ tx'.cfg = tx.cfg
        /\ pc' = "deleteTmp" \/ (pc' = "proxy" /\ disk'["settings"] = tx.cfg)
    BY <1>1, <1>4 DEF ActivateSettings, Tx, File
  <2>2. tx.op = "install"
    BY <2>1 DEF Progress, InstallSoFar
  <2>3. InstallSoFar' /\ RemoveSoFar'
    BY <2>1, <2>2 DEF InstallSoFar, RemoveSoFar
  <2> QED BY <2>1, <2>3, StayKeeps DEF Progress, Changing
<1>5. ASSUME NEW f \in File, NEW v, NEW p \in {"manifest", "status", "final"},
             Replace(f, v, p), dir' = dir, damage' = damage,
             pc \in {"proxy", "manifest", "status", "disable"}
      PROVE  /\ tx'.op = tx.op /\ tx'.rec = tx.rec /\ tx'.cfg = tx.cfg /\ tx'.rel = tx.rel
             /\ GuardHolds' /\ Settled'
             /\ \/ pc' = "deleteTmp" /\ disk' = disk
                \/ /\ pc' = p /\ disk'[f] = v
                   /\ \A g \in File : g # f => disk'[g] = disk[g]
  <2>1. /\ tx'.old = tx.old /\ tx'.op = tx.op /\ tx'.rec = tx.rec /\ tx'.created = tx.created
        /\ tx'.cfg = tx.cfg /\ tx'.rel = tx.rel
    BY <1>1, <1>5 DEF Replace, Tx
  <2>2. \/ pc' = "deleteTmp" /\ disk' = disk
        \/ /\ pc' = p /\ disk'[f] = v
           /\ \A g \in File : g # f => disk'[g] = disk[g]
    BY <1>1, <1>5 DEF Replace
  <2> QED BY <1>5, <2>1, <2>2, StayKeeps DEF Changing
<1>6. CASE InstallProxy
  <2>1. Replace("proxy", tx.rel, "manifest") /\ pc = "proxy" /\ dir' = dir /\ damage' = damage
    BY <1>6 DEF InstallProxy
  <2>2. tx.op = "install" /\ disk["settings"] = tx.cfg
    BY <2>1 DEF Progress, InstallSoFar
  <2>3. InstallSoFar' /\ RemoveSoFar'
    BY <1>5, <2>1, <2>2 DEF InstallSoFar, RemoveSoFar, File
  <2> QED BY <1>5, <2>1, <2>3 DEF Progress, File
<1>7. CASE WriteManifest
  <2>1. Replace("manifest", NewRecord, "status") /\ pc = "manifest" /\ dir' = dir /\ damage' = damage
    BY <1>7 DEF WriteManifest
  <2>2. tx.op = "install" /\ disk["settings"] = tx.cfg /\ disk["proxy"] = tx.rel
    BY <2>1 DEF Progress, InstallSoFar
  <2>3. NewRecord' = NewRecord
    BY <1>5, <2>1 DEF NewRecord, File
  <2>4. InstallSoFar' /\ RemoveSoFar'
    BY <1>5, <2>1, <2>2, <2>3 DEF InstallSoFar, RemoveSoFar, File
  <2> QED BY <1>5, <2>1, <2>4 DEF Progress, File
<1>8. CASE WriteStatus
  <2>1. Replace("status", NotRunning, "final") /\ pc = "status" /\ dir' = dir /\ damage' = damage
    BY <1>8 DEF WriteStatus
  <2>2. /\ tx.op = "install" /\ disk["settings"] = tx.cfg /\ disk["proxy"] = tx.rel
        /\ disk["manifest"] = NewRecord
    BY <2>1 DEF Progress, InstallSoFar
  <2>3. NewRecord' = NewRecord
    BY <1>5, <2>1 DEF NewRecord, File
  <2>4. InstallSoFar' /\ RemoveSoFar'
    BY <1>5, <2>1, <2>2, <2>3 DEF InstallSoFar, RemoveSoFar, File
  <2> QED BY <1>5, <2>1, <2>4 DEF Progress, File
<1>9. ASSUME NEW f \in {"proxy", "settings"}, NEW p \in {"removeSettings", "disable"},
             Remove(f, p), dir' = dir, damage' = damage,
             pc \in {"removeProxy", "removeSettings"}
      PROVE  /\ tx'.op = tx.op /\ tx'.rec = tx.rec
             /\ GuardHolds' /\ Settled'
             /\ \/ pc' = "deleteTmp" /\ disk' = disk
                \/ /\ pc' = p /\ disk'[f] = NoFile
                   /\ \A g \in File : g # f => disk'[g] = disk[g]
                \/ pc' = p /\ disk' = disk /\ tx.old[f] = NoFile
             /\ tx'.changed \subseteq tx.changed \cup {f}
  <2>1. /\ tx'.old = tx.old /\ tx'.op = tx.op /\ tx'.rec = tx.rec /\ tx'.created = tx.created
        /\ tx'.changed \subseteq tx.changed \cup {f}
    BY <1>1, <1>9 DEF Remove, Tx
  <2>2. \/ pc' = "deleteTmp" /\ disk' = disk
        \/ /\ pc' = p /\ disk'[f] = NoFile
           /\ \A g \in File : g # f => disk'[g] = disk[g]
        \/ pc' = p /\ disk' = disk /\ tx.old[f] = NoFile
    BY <1>1, <1>9 DEF Remove, File
  <2> QED BY <1>9, <2>1, <2>2, StayKeeps DEF Changing
<1>10. pc \in Changing => \A f \in Restorable : f \notin tx.changed => disk[f] = tx.old[f]
  BY DEF SafeInv, Bookkeeping, SnapshotsHold
<1>11. CASE RemoveProxy
  <2>1. Remove("proxy", "removeSettings") /\ pc = "removeProxy" /\ dir' = dir /\ damage' = damage
    BY <1>11 DEF RemoveProxy
  <2>2. tx.op = "remove" /\ tx.changed = {} /\ disk["proxy"] = tx.old["proxy"]
    BY <1>10, <2>1 DEF SafeInv, Bookkeeping, RecordIsDisks, Progress, RemoveSoFar, Restorable, Changing
  <2>3. InstallSoFar' /\ RemoveSoFar'
    BY <1>9, <2>1, <2>2 DEF Progress, InstallSoFar, RemoveSoFar, Changing, File
  <2> QED BY <1>9, <2>1, <2>3 DEF Progress
<1>12. CASE RemoveSettings
  <2>1. Remove("settings", "disable") /\ pc = "removeSettings" /\ dir' = dir /\ damage' = damage
    BY <1>12 DEF RemoveSettings
  <2>2. /\ tx.op = "remove" /\ tx.changed \subseteq {"proxy"}
        /\ disk["settings"] = tx.old["settings"] /\ disk["proxy"] = NoFile
    BY <1>10, <2>1 DEF SafeInv, Bookkeeping, RecordIsDisks, Progress, RemoveSoFar, Restorable, Changing
  <2>3. InstallSoFar' /\ RemoveSoFar'
    BY <1>9, <2>1, <2>2 DEF Progress, InstallSoFar, RemoveSoFar, Changing, File
  <2> QED BY <1>9, <2>1, <2>3 DEF Progress
<1>13. CASE DisableRecord
  <2>1. Replace("manifest", Disabled(tx.rec), "final") /\ pc = "disable" /\ dir' = dir /\ damage' = damage
    BY <1>13 DEF DisableRecord
  <2>2. tx.op = "remove" /\ disk["proxy"] = NoFile /\ disk["settings"] = NoFile
    BY <2>1 DEF SafeInv, Bookkeeping, RecordIsDisks, Progress, RemoveSoFar
  <2>3. InstallSoFar' /\ RemoveSoFar'
    BY <1>5, <2>1, <2>2 DEF Progress, InstallSoFar, RemoveSoFar, Changing, File
  <2> QED BY <1>5, <2>1, <2>3 DEF Progress, File
<1> QED BY <1>2, <1>3, <1>4, <1>6, <1>7, <1>8, <1>11, <1>12, <1>13


\* The rollback, the end of a call, and its death.
LEMMA EndsProgress ==
    ASSUME SafeInv, Progress, SafeInv',
           FinalCheck \/ DeleteTmp \/ RestoreFile \/ EndRollback \/ Return \/ Crash
    PROVE  Progress'
<1> USE DEF Goto
<1>1. /\ tx \in Tx /\ tx.op \in {"install", "remove"} /\ NoFile \notin Record \cup Release
      /\ damage \in {"none", "remove", "install"}
  BY ContentAssumption DEF SafeInv, TypeOK, Tx, Sentinel
<1>2. ASSUME pc' \in {"idle", "report"}, Settled' PROVE Progress'
  BY <1>2 DEF Progress, GuardHolds, InstallSoFar, RemoveSoFar, PastGuard, Changing
<1>3. pc \in Changing => tx.old["manifest"] = tx.rec
  BY DEF SafeInv, Bookkeeping, RecordIsDisks
\* In the middle of an Uninstall the record names the DLL that is there.
<1>4. pc \in Changing /\ tx.op = "remove" => Retryable
  BY <1>1 DEF Progress, RemoveSoFar, SafeInv, Bookkeeping, RecordIsDisks, PastGuard, Owned,
     Retryable, Disabled, Record
\* Once the files are the snapshotted ones, so are the reasons the checks passed.
<1>5. ASSUME pc \in Changing, \A f \in Restorable : disk[f] = tx.old[f]
      PROVE  /\ disk["proxy"] \in Release =>
                   disk["manifest"] \in Record /\ disk["manifest"].hash = disk["proxy"]
             /\ ~tx.created => Retryable
             /\ damage = "none" => Whole(disk)
  <2>1. /\ disk["proxy"] = tx.old["proxy"] /\ disk["manifest"] = tx.rec
        /\ disk["settings"] = tx.old["settings"]
    BY <1>3, <1>5 DEF Restorable
  <2>2. disk["proxy"] \in Release =>
            disk["manifest"] \in Record /\ disk["manifest"].hash = disk["proxy"]
    BY <1>1, <1>5, <2>1 DEF Progress, GuardHolds, Owned
  <2>3. ~tx.created => Retryable
    BY <1>1, <1>4, <1>5, <2>1, <2>2 DEF Progress, GuardHolds, PastGuard, Owned, Retryable
  <2> QED BY <1>3, <1>5, <2>1, <2>2, <2>3 DEF Progress, Settled, Whole
\* A call that leaves something half done owns up to it.
<1>10. ASSUME pc \in Changing, UNCHANGED <<disk, dir>>, damage' = Worse(tx.op),
              pc' \in {"idle", "report"}
       PROVE  Progress'
  <2>1. damage' # "none" /\ (tx.op = "install" => damage' = "install")
    BY <1>10 DEF Worse
  <2>2. tx.op = "remove" => Retryable'
    BY <1>4, <1>10 DEF Retryable
  <2> QED BY <1>1, <1>2, <1>10, <2>1, <2>2 DEF Settled, Changing
<1>6. CASE FinalCheck
  <2>1. CASE pc' = "deleteTmp"
    <3>1. UNCHANGED <<disk, dir, tx, damage>> /\ pc = "final"
      BY <1>6, <2>1 DEF FinalCheck
    <3> QED BY <2>1, <3>1, StayKeeps DEF Progress, InstallSoFar, RemoveSoFar, Changing
  <2>2. CASE pc' # "deleteTmp"
    <3>1. pc = "final" /\ pc' = "report" /\ UNCHANGED <<disk, dir>>
      BY <1>6, <2>2 DEF FinalCheck
    <3>2. CASE tx.op = "install"
      <4>1. disk["settings"] = tx.cfg /\ disk["proxy"] = tx.rel /\ disk["manifest"] = NewRecord
        BY <3>1, <3>2 DEF Progress, InstallSoFar
      <4>2. NewRecord \in Record /\ NewRecord.hash = tx.rel /\ NewRecord.cfg = tx.cfg
            /\ NewRecord.enabled
        BY <1>1 DEF NewRecord, Record, Tx
      <4>3. Retryable' /\ Whole(disk')
        BY <3>1, <4>1, <4>2 DEF Retryable, Whole
      <4> QED BY <1>2, <3>1, <4>3 DEF Settled, Changing
    <3>3. CASE tx.op = "remove"
      <4>1. tx.rec \in Record
        BY <3>1, <3>3 DEF SafeInv, Bookkeeping, RecordIsDisks, PastGuard, Changing, Owned
      <4>2. /\ disk["settings"] = NoFile /\ disk["proxy"] = NoFile
            /\ disk["manifest"] \in Record /\ ~disk["manifest"].enabled
        BY <3>1, <3>3, <4>1 DEF Progress, RemoveSoFar, Disabled, Record
      <4>3. Retryable' /\ Whole(disk')
        BY <1>1, <3>1, <4>2 DEF Retryable, Whole
      <4> QED BY <1>2, <3>1, <4>3 DEF Settled, Changing
    <3> QED BY <1>1, <3>2, <3>3
  <2> QED BY <2>1, <2>2
<1>7. CASE DeleteTmp
  <2>1. /\ pc = "deleteTmp" /\ pc' = "rollback" /\ UNCHANGED <<disk, dir, damage>>
        /\ tx'.old = tx.old /\ tx'.op = tx.op /\ tx'.rec = tx.rec /\ tx'.created = tx.created
    BY <1>1, <1>7 DEF DeleteTmp, Tx
  <2> QED BY <2>1, StayKeeps DEF Progress, InstallSoFar, RemoveSoFar, Changing
<1>8. CASE RestoreFile
  <2>1. /\ pc = "rollback" /\ pc' = "rollback" /\ UNCHANGED <<dir, damage>>
        /\ tx'.old = tx.old /\ tx'.op = tx.op /\ tx'.rec = tx.rec /\ tx'.created = tx.created
    BY <1>1, <1>8 DEF RestoreFile, Tx
  <2>3. \A f \in File : disk'[f] \in {disk[f], tx.old[f]}
    BY <1>8 DEF RestoreFile, SafeInv, TypeOK
  <2>2. InstallSoFar' /\ RemoveSoFar'
    BY <1>3, <2>1, <2>3 DEF Progress, GuardHolds, InstallSoFar, RemoveSoFar, Changing, File
  <2> QED BY <2>1, <2>2, StayKeeps DEF Progress, Changing
<1>9. CASE EndRollback
  <2>1. /\ pc = "rollback" /\ pc' = "report" /\ disk' = disk /\ tx.i = 0
        /\ \/ ~tx.broken /\ tx.created /\ FolderEmpty /\ dir' = "none" /\ damage' = damage
           \/ ~tx.broken /\ ~tx.created /\ dir' = dir /\ damage' = damage
           \/ damage' = Worse(tx.op) /\ dir' = dir
    BY <1>9 DEF EndRollback
  <2>2. ~tx.broken => \A f \in Restorable : disk[f] = tx.old[f]
    BY <2>1 DEF SafeInv, Bookkeeping, RestoredSoFar, Restorable, FileAt
  <2>3. CASE ~tx.broken /\ tx.created /\ dir' = "none" /\ damage' = damage
    <3>1. Retryable' /\ (damage' = "none" => Whole(disk'))
      BY <1>5, <2>1, <2>2, <2>3 DEF Retryable, Whole, Changing
    <3> QED BY <1>2, <2>1, <3>1 DEF Settled, Changing
  <2>4. CASE ~tx.broken /\ ~tx.created /\ dir' = dir /\ damage' = damage
    <3>1. Retryable' /\ (damage' = "none" => Whole(disk'))
      BY <1>5, <2>1, <2>2, <2>4 DEF Retryable, Whole, Changing
    <3> QED BY <1>2, <2>1, <3>1 DEF Settled, Changing
  <2>5. CASE damage' = Worse(tx.op) /\ dir' = dir
    BY <1>10, <2>1, <2>5 DEF Changing
  <2> QED BY <2>1, <2>3, <2>4, <2>5
<1>11. CASE Return
  <2>1. pc = "report" /\ pc' = "idle" /\ UNCHANGED <<disk, dir, damage>>
    BY <1>11 DEF Return
  <2> QED BY <1>2, <2>1 DEF Progress, Settled, Retryable, Whole, Changing
<1>12. CASE Crash
  <2>1. pc' = "idle" /\ UNCHANGED <<disk, dir>>
    BY <1>12 DEF Crash
  <2>2. CASE pc \in Changing /\ (tx.created \/ tx.changed # {})
    BY <1>10, <1>12, <2>1, <2>2 DEF Crash
  <2>3. CASE pc \in Changing /\ ~tx.created /\ tx.changed = {}
    <3>1. \A f \in Restorable : disk[f] = tx.old[f]
      BY <2>3 DEF SafeInv, Bookkeeping, SnapshotsHold
    <3>2. damage' = damage
      BY <1>12, <2>3 DEF Crash
    <3>3. Retryable' /\ (damage' = "none" => Whole(disk'))
      BY <1>5, <2>1, <2>3, <3>1, <3>2 DEF Retryable, Whole
    <3> QED BY <1>2, <2>1, <3>3 DEF Settled, Changing
  <2>4. CASE pc \notin Changing
    <3>1. damage' = damage
      BY <1>12, <2>4 DEF Crash
    <3> QED BY <1>2, <2>1, <2>4, <3>1 DEF Progress, Settled, Retryable, Whole, Changing
  <2> QED BY <2>2, <2>3, <2>4
<1> QED BY <1>6, <1>7, <1>8, <1>9, <1>11, <1>12

LEMMA EnvProgress ==
    ASSUME SafeInv, Progress, SafeInv',
           SwapExe \/ SelectExe \/ StartGame \/ ExitGame \/ RuntimeStatus \/ UserProxy
    PROVE  Progress'
<1>1. disk \in [File -> Content] /\ NoFile \notin Release /\ Foreign \notin Release
  BY ContentAssumption DEF SafeInv, TypeOK, Sentinel
<1>2. /\ UNCHANGED <<dir, pc, tx, damage>>
      /\ disk'["settings"] = disk["settings"] /\ disk'["manifest"] = disk["manifest"]
      /\ \/ disk'["proxy"] = disk["proxy"]
         \/ pc = "idle" /\ disk'["proxy"] \in {NoFile, Foreign}
  BY <1>1 DEF SwapExe, SelectExe, StartGame, ExitGame, RuntimeStatus, UserProxy, File
<1>3. GuardHolds'
  BY <1>2 DEF Progress, GuardHolds, ProxyOurs, Owned, PastGuard, Changing
<1>4. InstallSoFar' /\ RemoveSoFar'
  BY <1>2 DEF Progress, InstallSoFar, RemoveSoFar, NewRecord, Changing
<1>5. Settled'
  <2>1. CASE disk'["proxy"] = disk["proxy"]
    BY <1>2, <2>1 DEF Progress, Settled, Retryable, Whole
  <2>2. CASE pc = "idle" /\ disk'["proxy"] \in {NoFile, Foreign}
    BY <1>1, <1>2, <2>2 DEF Progress, Settled, Retryable, Whole, Changing
  <2> QED BY <1>2, <2>1, <2>2
<1> QED BY <1>3, <1>4, <1>5 DEF Progress

-----------------------------------------------------------------------------
(* The invariant and what follows from it. *)

LEMMA StepType == ASSUME SafeInv, Next PROVE TypeOK'
<1>1. TypeOK
  BY DEF SafeInv
<1>2. CASE \E op \in {"install", "remove"}, c \in Config, r \in Release : Begin(op, c, r)
  BY <1>1, <1>2, FreshType DEF Begin, TypeOK, Goto, env, Pcs
<1>3. CASE DisableRecord
  <2>1. tx.rec \in Record
    BY <1>3 DEF DisableRecord, SafeInv, Bookkeeping, RecordIsDisks, PastGuard, Changing, Owned
  <2>2. Disabled(tx.rec) \in Content
    BY <2>1 DEF Disabled, Record, Content
  <2> QED BY <1>1, <1>3, <2>2, ReplaceType DEF DisableRecord, TypeOK, env, Pcs, File
<1> QED BY <1>1, <1>2, <1>3, CheckType, ChangeType, UndoType, EnvType DEF Next, Step

LEMMA StepKeeps == ASSUME SafeInv, Next PROVE SafeInv'
<1>1. TypeOK'
  BY StepType
<1> QED BY <1>1, ChecksKeep, CheckOwnershipKeeps, SnapshotKeeps, WriteKeeps, RestoreKeeps,
           EndsKeep, EnvKeeps DEF Next, Step, SafeInv

LEMMA StepProgress == ASSUME FullInv, Next PROVE FullInv'
<1>1. SafeInv' /\ SafeInv /\ Progress
  BY StepKeeps DEF FullInv
<1> QED BY <1>1, ChecksProgress, RecheckProgress, WriteProgress, EndsProgress, EnvProgress
        DEF Next, Step, FullInv

LEMMA StutterKeeps == ASSUME FullInv, UNCHANGED vars PROVE FullInv'
<1>1. /\ disk' = disk /\ dir' = dir /\ litter' = litter /\ exeSame' = exeSame
      /\ game' = game /\ pc' = pc /\ tx' = tx /\ damage' = damage
  BY DEF vars
<1>2. SafeInv'
  BY <1>1 DEF FullInv, SafeInv, Bookkeeping, TypeOK, KindsOK, Kinds, NothingDoneYet,
     RecordIsDisks, SnapshotsHold, StatusSnapshotHolds, RestoredSoFar, FolderHolds,
     NoForeignTouched, RolledBackIsUnchanged, Owned
<1>3. Progress'
  BY <1>1 DEF FullInv, Progress, GuardHolds, InstallSoFar, RemoveSoFar, Settled, Retryable,
     Whole, ProxyOurs, Owned, NewRecord
<1> QED BY <1>2, <1>3 DEF FullInv

LEMMA InitInv == Init => FullInv
<1> SUFFICES ASSUME Init PROVE FullInv
  OBVIOUS
<1>1. pc = "idle" /\ damage = "none"
  BY DEF Init
<1>2. PICK c \in Config, r \in Release : tx = Fresh("remove", c, r)
  BY DEF Init
<1>3. /\ disk["settings"] \in {NoFile, Foreign} /\ disk["proxy"] \in {NoFile, Foreign}
      /\ disk["manifest"] \in {NoFile, BadRecord} /\ disk["status"] = NoFile
      /\ dir \in {"none", "user"}
      /\ dir = "none" => disk["settings"] = NoFile /\ disk["manifest"] = NoFile
  BY DEF Init
<1>4. {NoFile, BadRecord, Foreign} \cap (Record \cup Release) = {}
  BY ContentAssumption DEF Sentinel
<1>5. Bookkeeping
  <2>1. tx.old = NoFiles /\ tx.i = 0 /\ tx.changed = {} /\ ~tx.created
    BY <1>2 DEF Fresh
  <2>2. KindsOK
    BY <1>3, <2>1 DEF KindsOK, Kinds, NoFiles, File
  <2>3. NothingDoneYet /\ RecordIsDisks /\ SnapshotsHold /\ StatusSnapshotHolds
        /\ RestoredSoFar /\ RolledBackIsUnchanged
    BY <1>1, <2>1 DEF NothingDoneYet, RecordIsDisks, SnapshotsHold, StatusSnapshotHolds,
       RestoredSoFar, RolledBackIsUnchanged, PastGuard, Changing
  <2>4. FolderHolds /\ NoForeignTouched
    BY <1>1, <1>3, <1>4, <2>1 DEF FolderHolds, NoForeignTouched, PastGuard, Writing, Changing,
       InFolder, File
  <2> QED BY <2>2, <2>3, <2>4 DEF Bookkeeping
<1>6. Progress
  BY <1>1, <1>3, <1>4 DEF Progress, GuardHolds, InstallSoFar, RemoveSoFar, Settled, Retryable,
     Whole, PastGuard, Changing
<1> QED BY <1>5, <1>6, InitType DEF FullInv, SafeInv

\* The inductive invariant holds throughout.
THEOREM Invariance == Spec => []FullInv
<1>1. FullInv /\ [Next]_vars => FullInv'
  BY StepProgress, StutterKeeps
<1> QED BY <1>1, InitInv, PTL DEF Spec

\* Every variable of the transaction keeps to its type, whatever fails.
THEOREM TypeCorrect == Spec => []TypeOK
<1>1. FullInv => TypeOK
  BY DEF FullInv, SafeInv
<1> QED BY <1>1, Invariance, PTL

\* After a rollback reported as complete, install_settings has left the three
\* owned files exactly as snapshot_file found them.
THEOREM RollbackRestores == Spec => []RolledBackIsUnchanged
<1>1. FullInv => RolledBackIsUnchanged
  BY DEF FullInv, SafeInv, Bookkeeping
<1> QED BY <1>1, Invariance, PTL

\* Wherever an uninstall dies or fails, read_record and the ownership checks let
\* the next call through: what they refuse of NEMT's own is what an Apply left.
THEOREM UninstallNeverStrands == Spec => []OnlyApplyStrands
<1>1. FullInv => OnlyApplyStrands
  <2> SUFFICES ASSUME FullInv, damage # "install"
               PROVE  /\ pc = "idle" => Retryable
                      /\ pc = "guard" => /\ disk["proxy"] \in Release => ProxyOurs
                                         /\ dir = "nemt" => FolderOurs
    BY DEF OnlyApplyStrands
  <2>1. pc \in {"idle", "guard"} => Retryable
    BY DEF FullInv, Progress, Settled, Changing
  <2>2. pc = "guard" => disk["manifest"] = tx.rec
    BY DEF FullInv, SafeInv, Bookkeeping, RecordIsDisks
  <2> QED BY <2>1, <2>2 DEF Retryable, ProxyOurs, FolderOurs, Owned
<1> QED BY <1>1, Invariance, PTL

\* Between undisturbed transactions installation.json describes settings.ini and
\* DINPUT.dll.
THEOREM RecordIsTrue == Spec => []RecordTellsTruth
<1>1. FullInv => RecordTellsTruth
  BY DEF FullInv, Progress, Settled, RecordTellsTruth, Changing
<1> QED BY <1>1, Invariance, PTL

LEMMA StepKeepsForeign ==
    ASSUME SafeInv, Next, pc # "idle", NEW f \in File, disk[f] = Foreign
    PROVE  disk'[f] = Foreign
<1>1. disk \in [File -> Content] /\ f # "status"
  BY ContentAssumption DEF SafeInv, TypeOK, Bookkeeping, KindsOK, Kinds, Sentinel
<1>2. pc \notin Changing
  BY DEF SafeInv, Bookkeeping, NoForeignTouched, PastGuard
<1>3. disk' = disk \/ RuntimeStatus
  BY <1>2 DEF Next, Step, Changing, Begin, VerifyExe, ReadRecord, CheckRunning, CheckOwnership,
     VerifyRelease, Snapshot, Recheck, MakeFolder, WriteTmp, ActivateSettings, InstallProxy,
     WriteManifest, WriteStatus, RemoveProxy, RemoveSettings, DisableRecord, FinalCheck,
     DeleteTmp, RestoreFile, EndRollback, Return, Crash, SwapExe, SelectExe, StartGame,
     ExitGame, UserProxy
<1>4. CASE RuntimeStatus
  BY <1>1, <1>4 DEF RuntimeStatus
<1> QED BY <1>3, <1>4

\* No step of a transaction changes a file that another program put there.
THEOREM ForeignFilesKept == Spec => ForeignKept
<1>1. FullInv /\ [Next]_vars =>
        [pc # "idle" => \A f \in File : disk[f] = Foreign => disk'[f] = Foreign]_vars
  BY StepKeepsForeign DEF FullInv
<1> QED BY <1>1, Invariance, PTL DEF Spec, ForeignKept
-----------------------------------------------------------------------------
(* The transaction keeps the promise of OwnedFiles. *)

\* A step inside a change keeps the snapshots, puts a file back, removes it, or
\* makes it what the transaction wants; or it ends the change.
LEMMA WithinChange ==
    ASSUME SafeInv, Progress, Next, pc \in Changing
    PROVE  \/ /\ pc' \in Changing /\ damage' = damage
              /\ tx'.old = tx.old /\ tx'.op = tx.op
              /\ \/ disk'["manifest"] \in {disk["manifest"], tx.old["manifest"]}
                 \/ disk'["manifest"] \in Record
              /\ tx.op = "remove" =>
                    \A f \in {"settings", "proxy"} :
                        disk'[f] \in {disk[f], tx.old[f], NoFile}
           \/ FinalCheck /\ pc' = "report"
           \/ EndRollback \/ Crash
<1> DEFINE Stays == /\ pc' \in Changing /\ damage' = damage
                    /\ tx'.old = tx.old /\ tx'.op = tx.op
           Kept(f) == disk'[f] = disk[f]
<1>1. disk \in [File -> Content] /\ tx \in Tx /\ tx.op \in {"install", "remove"}
  BY DEF SafeInv, TypeOK, Tx
<1>2. CASE MakeFolder \/ WriteTmp \/ DeleteTmp \/ SwapExe \/ StartGame \/ ExitGame
  <2>1. Stays /\ disk' = disk
    BY <1>1, <1>2 DEF MakeFolder, WriteTmp, DeleteTmp, SwapExe, StartGame, ExitGame, Goto,
       Changing, Tx, env
  <2> QED BY <2>1
<1>3. CASE ActivateSettings
  <2>1. Stays /\ Kept("manifest") /\ pc = "activate"
    BY <1>1, <1>3 DEF ActivateSettings, Goto, Changing, Tx, File
  <2>2. tx.op = "install"
    BY <2>1 DEF Progress, InstallSoFar
  <2> QED BY <2>1, <2>2
<1>4. ASSUME NEW f \in File, NEW v, NEW p \in Changing, Replace(f, v, p), damage' = damage
      PROVE  Stays /\ disk'[f] \in {disk[f], v} /\ \A g \in File : g # f => Kept(g)
  BY <1>1, <1>4 DEF Replace, Goto, Changing, Tx
<1>5. CASE InstallProxy
  <2>1. Stays /\ Kept("manifest") /\ pc = "proxy"
    BY <1>4, <1>5 DEF InstallProxy, Changing, File
  <2>2. tx.op = "install"
    BY <2>1 DEF Progress, InstallSoFar
  <2> QED BY <2>1, <2>2
<1>6. CASE WriteManifest
  <2>1. Stays /\ disk'["manifest"] \in {disk["manifest"], NewRecord} /\ pc = "manifest"
    BY <1>4, <1>6 DEF WriteManifest, Changing, File
  <2>2. NewRecord \in Record /\ tx.op = "install"
    BY <1>1, <2>1 DEF NewRecord, Record, Tx, Progress, InstallSoFar
  <2> QED BY <2>1, <2>2
<1>7. CASE WriteStatus
  <2>1. Stays /\ Kept("manifest") /\ pc = "status"
    BY <1>4, <1>7 DEF WriteStatus, Changing, File
  <2>2. tx.op = "install"
    BY <2>1 DEF Progress, InstallSoFar
  <2> QED BY <2>1, <2>2
<1>8. CASE DisableRecord
  <2>1. /\ Stays /\ disk'["manifest"] \in {disk["manifest"], Disabled(tx.rec)}
        /\ Kept("settings") /\ Kept("proxy") /\ pc = "disable"
    BY <1>4, <1>8 DEF DisableRecord, Changing, File
  <2>2. tx.rec \in Record
    BY <2>1 DEF SafeInv, Bookkeeping, RecordIsDisks, PastGuard, Changing, Owned
  <2>3. Disabled(tx.rec) \in Record
    BY <2>2 DEF Disabled, Record
  <2> QED BY <2>1, <2>3
<1>9. ASSUME NEW f \in {"settings", "proxy"}, NEW p \in Changing, Remove(f, p), damage' = damage
      PROVE  Stays /\ disk'[f] \in {disk[f], NoFile} /\ \A g \in File : g # f => Kept(g)
  BY <1>1, <1>9 DEF Remove, Goto, Changing, Tx, File
<1>10. CASE RemoveProxy
  BY <1>9, <1>10 DEF RemoveProxy, Changing, File
<1>11. CASE RemoveSettings
  BY <1>9, <1>11 DEF RemoveSettings, Changing, File
<1>12. CASE FinalCheck
  BY <1>1, <1>12 DEF FinalCheck, Goto, Changing, Tx
<1>13. CASE RestoreFile
  <2>1. tx.i \in 1..4
    BY <1>1, <1>13 DEF RestoreFile, Tx
  <2> DEFINE f == FileAt[tx.i]
  <2>2. f \in File
    BY <2>1, FileAtIsFile
  <2>3. Stays /\ (disk' = disk \/ disk' = [disk EXCEPT ![f] = tx.old[f]])
    BY <1>1, <1>13 DEF RestoreFile, Changing, Tx
  <2>4. \A g \in File : disk'[g] \in {disk[g], tx.old[g]}
    BY <1>1, <2>2, <2>3
  <2> QED BY <2>3, <2>4 DEF File
<1>14. CASE RuntimeStatus
  BY <1>1, <1>14 DEF RuntimeStatus, File
<1> QED
  BY <1>2, <1>3, <1>5, <1>6, <1>7, <1>8, <1>10, <1>11, <1>12, <1>13, <1>14
     DEF Next, Step, Changing, Begin, VerifyExe, ReadRecord, CheckRunning, CheckOwnership,
     VerifyRelease, Snapshot, Recheck, Return, SelectExe, UserProxy

\* Outside a change only the user touches the owned files, and a change begins
\* with the last check.
LEMMA OutsideChange ==
    ASSUME TypeOK, Next, pc \notin Changing
    PROVE  /\ damage' = damage
           /\ UserProxy \/ \A f \in Restorable : disk'[f] = disk[f]
           /\ pc' \in Changing => Recheck /\ tx' = tx /\ disk' = disk
<1>1. disk \in [File -> Content]
  BY DEF TypeOK
<1>2. damage' = damage /\ (disk' = disk \/ RuntimeStatus \/ UserProxy)
  BY DEF Next, Step, Changing, Begin, VerifyExe, ReadRecord, CheckRunning, CheckOwnership,
     VerifyRelease, Snapshot, Recheck, MakeFolder, WriteTmp, ActivateSettings, InstallProxy,
     WriteManifest, WriteStatus, RemoveProxy, RemoveSettings, DisableRecord, FinalCheck,
     DeleteTmp, RestoreFile, EndRollback, Return, Crash, SwapExe, SelectExe, StartGame,
     ExitGame, RuntimeStatus, UserProxy
<1>3. RuntimeStatus => \A f \in Restorable : disk'[f] = disk[f]
  BY <1>1 DEF RuntimeStatus, Restorable, File
<1>4. pc' \in Changing => Recheck /\ tx' = tx /\ disk' = disk
  <2>1. ASSUME NEW p \in Pcs, Goto(p), p \notin Changing PROVE pc' \notin Changing
    BY <2>1 DEF Goto
  <2>2. Refuse => pc' \notin Changing
    BY DEF Refuse, Changing
  <2>3. CASE Recheck
    BY <2>2, <2>3 DEF Recheck
  <2>4. CASE \/ \E op \in {"install", "remove"}, c \in Config, r \in Release : Begin(op, c, r)
             \/ VerifyExe \/ ReadRecord \/ CheckRunning \/ CheckOwnership
             \/ VerifyRelease \/ Snapshot
    BY <2>4 DEF Begin, VerifyExe, ReadRecord, CheckRunning, CheckOwnership, VerifyRelease,
       Snapshot, Refuse, Goto, Changing
  <2>5. CASE \/ Return \/ Crash \/ SwapExe \/ SelectExe
             \/ StartGame \/ ExitGame \/ RuntimeStatus \/ UserProxy
    BY <2>5 DEF Return, Crash, SwapExe, SelectExe, StartGame, ExitGame, RuntimeStatus,
       UserProxy, Goto, Changing
  <2> QED
    BY <2>3, <2>4, <2>5 DEF Next, Step, Changing, MakeFolder, WriteTmp, ActivateSettings,
       InstallProxy, WriteManifest, WriteStatus, RemoveProxy, RemoveSettings, DisableRecord,
       FinalCheck, DeleteTmp, RestoreFile, EndRollback
<1> QED BY <1>2, <1>3, <1>4

\* At the last check the disk is what the snapshots hold.
LEMMA RecheckIsSnapshot ==
    ASSUME SafeInv, Recheck
    PROVE  \A f \in Restorable : disk[f] = tx.old[f]
BY DEF SafeInv, Bookkeeping, NothingDoneYet, SnapshotsHold, Recheck, Checking

LEMMA MidwayKeeps == ASSUME FullInv, Midway, Next PROVE Midway'
<1>1. SafeInv /\ Progress /\ TypeOK
  BY DEF FullInv, SafeInv
<1>2. CASE pc \in Changing /\ pc' \in Changing
  <2>1. ~(FinalCheck /\ pc' = "report") /\ ~EndRollback /\ ~Crash
    BY <1>2 DEF EndRollback, Crash, Goto, Changing
  <2> QED BY <1>1, <1>2, <2>1, WithinChange DEF Midway
<1>3. CASE pc \notin Changing /\ pc' \in Changing
  BY <1>1, <1>3, OutsideChange, RecheckIsSnapshot DEF Midway, Restorable
<1> QED BY <1>2, <1>3 DEF Midway

\* What a change that ends badly leaves is what Hurt allows.
LEMMA BadEnd ==
    ASSUME FullInv, Midway, pc \in Changing, pc' \notin Changing,
           disk' = disk, damage' = Worse(tx.op)
    PROVE  Promise!Hurt
<1> DEFINE old == [settings |-> tx.old["settings"], proxy |-> tx.old["proxy"],
                   manifest |-> tx.old["manifest"]]
<1>1. /\ Visible = tx.old /\ Visible' = disk
      /\ tx.op \in {"install", "remove"} /\ damage \in {"none", "remove", "install"}
  BY DEF Visible, FullInv, SafeInv, TypeOK, Tx
<1>2. /\ tx.old["manifest"] = tx.rec
      /\ tx.op = "remove" => tx.rec \in Record
      /\ tx.old["proxy"] = NoFile \/ (tx.rec \in Record /\ tx.old["proxy"] = tx.rec.hash)
  BY DEF FullInv, SafeInv, Bookkeeping, RecordIsDisks, PastGuard, Owned, Progress, GuardHolds
<1>3. \A f \in {"settings", "proxy"} : disk[f] # Foreign /\ tx.old[f] # Foreign
  BY DEF FullInv, SafeInv, Bookkeeping, NoForeignTouched, PastGuard, File
<1>4. disk["settings"] \in Config \cup {NoFile} /\ disk["proxy"] \in Release \cup {NoFile}
  BY <1>3 DEF FullInv, SafeInv, Bookkeeping, KindsOK, Kinds
<1>5. disk["manifest"] \in {tx.rec} \cup Record
  BY <1>2 DEF Midway
<1>6. damage' = "remove" =>
        /\ \A f \in {"settings", "proxy"} : disk[f] \in {tx.old[f], NoFile}
        /\ tx.rec \in Record /\ disk["manifest"].hash = tx.rec.hash
  <2>1. damage' = "remove" => tx.op = "remove"
    BY <1>1 DEF Worse
  <2>2. tx.op = "remove" => disk["manifest"] \in {tx.rec, Disabled(tx.rec)}
    BY DEF FullInv, Progress, RemoveSoFar
  <2>3. tx.rec \in Record => Disabled(tx.rec).hash = tx.rec.hash
    BY DEF Disabled, Record
  <2> QED BY <1>2, <2>1, <2>2, <2>3 DEF Midway
<1>7. damage' \in {"remove", "install"} /\ (damage = "install" => damage' = "install")
  BY <1>1 DEF Worse
<1> QED BY <1>1, <1>2, <1>3, <1>4, <1>5, <1>6, <1>7 DEF Promise!Hurt, Promise!Ours

\* A change that ends well is an Apply or an Uninstall.
LEMMA GoodEnd ==
    ASSUME FullInv, FinalCheck, pc' = "report"
    PROVE  \/ \E c \in Config, r \in Release : Promise!Apply(c, r)
           \/ Promise!Uninstall
<1>1. pc = "final" /\ pc \in Changing /\ pc' \notin Changing /\ disk' = disk
      /\ damage' = "none" /\ tx \in Tx
  BY DEF FinalCheck, Goto, Changing, FullInv, SafeInv, TypeOK
<1>2. Visible = tx.old /\ Visible' = disk
  BY <1>1 DEF Visible
<1>3. /\ tx.old["manifest"] = tx.rec
      /\ tx.op = "remove" => tx.rec \in Record
      /\ tx.old["proxy"] = NoFile \/ (tx.rec \in Record /\ tx.old["proxy"] = tx.rec.hash)
      /\ tx.old["settings"] # Foreign
  BY <1>1 DEF FullInv, SafeInv, Bookkeeping, RecordIsDisks, PastGuard, Owned, Progress,
     GuardHolds, NoForeignTouched, File
<1>4. Promise!Ours
  BY <1>2, <1>3 DEF Promise!Ours
<1>5. CASE tx.op = "install"
  <2>1. disk["settings"] = tx.cfg /\ disk["proxy"] = tx.rel /\ disk["manifest"] = NewRecord
    BY <1>1, <1>5 DEF FullInv, Progress, InstallSoFar
  <2>2. Promise!Apply(tx.cfg, tx.rel)
    BY <1>1, <1>2, <1>3, <1>4, <2>1 DEF Promise!Apply, NewRecord
  <2>3. tx.cfg \in Config /\ tx.rel \in Release
    BY <1>1 DEF Tx
  <2> QED BY <2>2, <2>3
<1>6. CASE tx.op = "remove"
  <2>1. /\ disk["settings"] = NoFile /\ disk["proxy"] = NoFile
        /\ disk["manifest"] = Disabled(tx.rec)
    BY <1>1, <1>6 DEF FullInv, Progress, RemoveSoFar
  <2> QED BY <1>1, <1>2, <1>3, <1>4, <1>6, <2>1 DEF Promise!Uninstall, Disabled
<1> QED BY <1>1, <1>5, <1>6 DEF Tx

\* The abstract files do not move when the restorable files seen do not.
LEMMA SameVisible ==
    ASSUME \A f \in Restorable : Visible'[f] = Visible[f], damage' = damage
    PROVE  UNCHANGED Promise!vars
BY DEF Promise!vars, Restorable

\* Every step of the transaction is one of the promise's, or none.
LEMMA StepKeepsPromise == ASSUME FullInv, Midway, Next PROVE [Promise!Next]_(Promise!vars)
<1>1. SafeInv /\ Progress /\ TypeOK
  BY DEF FullInv, SafeInv
<1>2. CASE pc \notin Changing
  <2>1. CASE pc' \in Changing
    <3>1. Recheck /\ Visible = disk /\ Visible' = tx.old /\ damage' = damage
      BY <1>1, <1>2, <2>1, OutsideChange DEF Visible
    <3> QED BY <1>1, <3>1, RecheckIsSnapshot, SameVisible
  <2>2. CASE pc' \notin Changing /\ ~UserProxy
    <3>1. Visible = disk /\ Visible' = disk'
      BY <1>2, <2>2 DEF Visible
    <3> QED BY <1>1, <1>2, <2>2, <3>1, OutsideChange, SameVisible
  <2>3. CASE UserProxy
    <3>1. PICK v \in {NoFile, Foreign} : disk' = [disk EXCEPT !["proxy"] = v]
      BY <2>3 DEF UserProxy
    <3>2. /\ disk'["proxy"] = v /\ disk'["settings"] = disk["settings"]
          /\ disk'["manifest"] = disk["manifest"] /\ damage' = damage
      BY <1>1, <2>3, <3>1 DEF TypeOK, File, UserProxy
    <3>3. Visible = disk /\ Visible' = disk'
      BY <2>3 DEF Visible, UserProxy, Changing
    <3>4. Promise!UserProxy
      BY <3>2, <3>3 DEF Promise!UserProxy
    <3> QED BY <3>4 DEF Promise!Next
  <2> QED BY <2>1, <2>2, <2>3
<1>3. CASE pc \in Changing
  <2>1. CASE pc' \in Changing
    <3>1. ~(FinalCheck /\ pc' = "report") /\ ~EndRollback /\ ~Crash
      BY <2>1 DEF EndRollback, Crash, Goto, Changing
    <3>2. tx'.old = tx.old /\ damage' = damage
      BY <1>1, <1>3, <3>1, WithinChange
    <3>3. Visible = tx.old /\ Visible' = tx.old
      BY <1>3, <2>1, <3>2 DEF Visible
    <3> QED BY <3>2, <3>3, SameVisible
  <2>2. CASE FinalCheck /\ pc' = "report"
    BY <2>2, GoodEnd DEF Promise!Next
  <2>3. CASE EndRollback
    <3>1. pc' = "report" /\ disk' = disk /\ pc' \notin Changing
      BY <2>3 DEF EndRollback, Goto, Changing
    <3>2. CASE damage' = Worse(tx.op)
      BY <1>3, <3>1, <3>2, BadEnd DEF Promise!Next
    <3>3. CASE damage' = damage /\ ~tx.broken
      <4>1. tx.i = 0 /\ pc = "rollback"
        BY <2>3 DEF EndRollback
      <4>2. \A f \in Restorable : disk[f] = tx.old[f]
        BY <1>1, <3>3, <4>1 DEF SafeInv, Bookkeeping, RestoredSoFar, FileAt, Restorable
      <4>3. Visible = tx.old /\ Visible' = disk
        BY <1>3, <3>1 DEF Visible
      <4> QED BY <3>3, <4>2, <4>3, SameVisible
    <3> QED BY <2>3, <3>2, <3>3 DEF EndRollback
  <2>4. CASE Crash
    <3>1. pc' = "idle" /\ disk' = disk /\ pc' \notin Changing
      BY <2>4 DEF Crash, Goto, Changing
    <3>2. CASE tx.created \/ tx.changed # {}
      <4>1. damage' = Worse(tx.op)
        BY <1>3, <2>4, <3>2 DEF Crash
      <4> QED BY <1>3, <3>1, <4>1, BadEnd DEF Promise!Next
    <3>3. CASE ~tx.created /\ tx.changed = {}
      <4>1. damage' = damage
        BY <2>4, <3>3 DEF Crash
      <4>2. \A f \in Restorable : disk[f] = tx.old[f]
        BY <1>1, <1>3, <3>3 DEF SafeInv, Bookkeeping, SnapshotsHold
      <4>3. Visible = tx.old /\ Visible' = disk
        BY <1>3, <3>1 DEF Visible
      <4> QED BY <4>1, <4>2, <4>3, SameVisible
    <3> QED BY <3>2, <3>3
  <2>5. pc' \in Changing \/ (FinalCheck /\ pc' = "report") \/ EndRollback \/ Crash
    BY <1>1, <1>3, WithinChange
  <2> QED BY <2>1, <2>2, <2>3, <2>4, <2>5
<1> QED BY <1>2, <1>3

\* What the installer shows a user between transactions, whatever fails or dies:
\* the owned files change at once or not at all, only when they are NEMT's own,
\* and every exception is remembered as damage.
THEOREM KeepsPromise == Spec => AllOrNothing
<1>1. Init => Promise!Init /\ Midway
  <2> SUFFICES ASSUME Init PROVE Promise!Init /\ Midway
    OBVIOUS
  <2>1. pc = "idle" /\ Visible = disk /\ damage = "none"
    BY DEF Init, Visible, Changing
  <2>2. /\ disk["settings"] \in {NoFile, Foreign} /\ disk["proxy"] \in {NoFile, Foreign}
        /\ disk["manifest"] \in {NoFile, BadRecord}
    BY DEF Init
  <2>3. {NoFile, BadRecord} \cap Record = {}
    BY ContentAssumption DEF Sentinel
  <2> QED BY <2>1, <2>2, <2>3 DEF Promise!Init, Midway, Changing
<1>2. FullInv /\ Midway /\ [Next]_vars => Midway'
  <2>1. Midway /\ UNCHANGED vars => Midway'
    BY DEF Midway, vars
  <2> QED BY <2>1, MidwayKeeps
<1>3. FullInv /\ Midway /\ [Next]_vars => [Promise!Next]_(Promise!vars)
  <2>1. UNCHANGED vars => UNCHANGED Promise!vars
    BY DEF vars, Promise!vars, Visible
  <2> QED BY <2>1, StepKeepsPromise
<1> QED BY <1>1, <1>2, <1>3, Invariance, PTL DEF Spec, AllOrNothing, Promise!Spec
=============================================================================

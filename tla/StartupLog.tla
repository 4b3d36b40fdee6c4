----------------------------- MODULE StartupLog -----------------------------
(***************************************************************************)
(* The log file of a session (runtime/startup-log.h, startup.h             *)
(* startup_write, movie.h movie_log).                                      *)
(*                                                                         *)
(* startup.log is closed and rotated through the numbered backups when a   *)
(* session begins and whenever the next record does not fit.  A rotation   *)
(* is a series of deletions and renames: each can fail, because another    *)
(* program has the file open, and the process can die between any two.     *)
(* Whatever the operating system refuses switches the log off for the rest *)
(* of the session, except for the records about the startup movie, which   *)
(* open the file that is there.                                            *)
(*                                                                         *)
(* All writers hold startup_lock, so the steps of one rotation are         *)
(* interleaved with the death of the process and with nothing else.        *)
(***************************************************************************)
EXTENDS Integers, FiniteSets

CONSTANTS
    MaxBackup,  \* the highest number a backup can have (20)
    Fits,       \* records a file can hold (max_log_bytes)
    Records     \* bound: records written in all sessions together

ASSUME LogAssumption == MaxBackup \in Nat \ {0} /\ Fits \in Nat \ {0} /\ Records \in Nat

VARIABLES
    logs,     \* startup_log: the session writes a log
    file,     \* the records in startup.log (0) and in each backup, or NoLog
    backups,  \* max_backup_logs, as read at the start of the session
    open,     \* startup_file is a handle of startup.log
    rotating, \* the file the rotation is at, and what it does to it
    waiting,  \* a record is to be written when the rotation is done
    last      \* the number of the last record that was made

logVars == <<logs, file, backups, open, rotating, waiting, last>>

NoLog == {0}
Index == 0..MaxBackup

\* Every record is as long as any other and has its own number, a later one a
\* higher one.
Number == 1..Records

LogTypeOK ==
    /\ file \in [Index -> (SUBSET Number) \cup {NoLog}]
    /\ backups \in Index
    /\ logs \in BOOLEAN /\ open \in BOOLEAN /\ waiting \in BOOLEAN
    /\ rotating \in [step : {"none", "delete", "rename", "create"}, at : Index]
    /\ last \in 0..Records

Content(i) == file[i] \ NoLog

Rotation(step, i) == [step |-> step, at |-> i]

LogInit ==
    /\ file = [i \in Index |-> NoLog]
    /\ backups = 0
    /\ logs = FALSE /\ open = FALSE /\ waiting = FALSE
    /\ rotating = Rotation("none", 0)
    /\ last = 0

-----------------------------------------------------------------------------
(* startup_open_log, one file operation at a time. *)

AfterDeleting == IF backups = 0 THEN Rotation("create", 0) ELSE Rotation("rename", backups - 1)

\* The deletions go down to the first backup above the retention, and one more
\* when there is to be a backup at all.
Lowest == IF backups = 0 THEN 1 ELSE backups

startup_open_log == open' = FALSE /\ rotating' = Rotation("delete", MaxBackup)

\* A rotation that ends early leaves the session without a log.
GiveUp == rotating' = Rotation("none", 0) /\ waiting' = FALSE

\* A file that does not exist is no failure.
DeleteLog(refused) ==
    LET i == rotating.at
    IN  /\ rotating.step = "delete"
        /\ IF refused /\ file[i] # NoLog
           THEN GiveUp /\ UNCHANGED file
           ELSE /\ file' = [file EXCEPT ![i] = NoLog]
                /\ rotating' = IF i = Lowest THEN AfterDeleting ELSE Rotation("delete", i - 1)
                /\ UNCHANGED waiting
        /\ UNCHANGED <<logs, backups, open, last>>

Renamed(i) == [file EXCEPT ![i + 1] = file[i], ![i] = NoLog]

\* Mutant: the renaming goes on below startup.log.
AfterRenaming_Onward(i) == Rotation("rename", i - 1)

AfterRenaming(i) == IF i = 0 THEN Rotation("create", 0) ELSE Rotation("rename", i - 1)

\* Mutant: a backup that cannot be renamed is passed over.
RenameLog_Onward(refused) ==
    LET i == rotating.at
    IN  /\ rotating.step = "rename"
        /\ file' = IF refused \/ file[i] = NoLog THEN file ELSE Renamed(i)
        /\ rotating' = AfterRenaming(i)
        /\ UNCHANGED <<logs, backups, open, waiting, last>>

\* MoveFileEx with MOVEFILE_REPLACE_EXISTING.
RenameLog(refused) ==
    LET i == rotating.at
    IN  /\ rotating.step = "rename"
        /\ IF refused /\ file[i] # NoLog
           THEN GiveUp /\ UNCHANGED file
           ELSE /\ file' = IF file[i] = NoLog THEN file ELSE Renamed(i)
                /\ rotating' = AfterRenaming(i)
                /\ UNCHANGED waiting
        /\ UNCHANGED <<logs, backups, open, last>>

\* CREATE_ALWAYS, and then the record the rotation was for, which can be cut off.
CreateLog(refused) ==
    /\ rotating.step = "create"
    /\ IF refused
       THEN UNCHANGED <<file, open>>
       ELSE /\ file' = [file EXCEPT ![0] = IF waiting THEN {last} ELSE {}]
            /\ open' \in {TRUE, ~waiting}
    /\ GiveUp
    /\ UNCHANGED <<logs, backups, last>>

-----------------------------------------------------------------------------
(* The writers. *)

Idle == logs /\ rotating.step = "none"

\* startup_write.  A record can be cut off, or come to the file and not to the
\* disk: both close the log.
startup_write(result) ==
    /\ Idle /\ open /\ last < Records
    /\ last' = last + 1
    /\ IF Cardinality(file[0]) < Fits
       THEN /\ file' = [file EXCEPT ![0] = @ \cup {last + 1}]
            /\ open' = (result = "flushed")
            /\ UNCHANGED <<rotating, waiting>>
       ELSE /\ startup_open_log
            /\ waiting' = TRUE
            /\ UNCHANGED file
    /\ UNCHANGED <<logs, backups>>

\* movie_log without a handle: the file is opened, if it exists and nobody else
\* has it, and closed again.
movie_log ==
    /\ Idle /\ ~open /\ last < Records
    /\ file[0] # NoLog /\ Cardinality(file[0]) < Fits
    /\ last' = last + 1
    /\ file' = [file EXCEPT ![0] = @ \cup {last + 1}]
    /\ UNCHANGED <<logs, backups, open, rotating, waiting>>

\* install_startup_hooks in a new process: the settings may have changed since.
StartSession(keep) ==
    /\ ~logs /\ logs' = TRUE
    /\ backups' = keep
    /\ startup_open_log
    /\ waiting' = FALSE
    /\ UNCHANGED <<file, last>>

\* The process ends or dies, in the middle of a rotation or not.
EndSession ==
    /\ logs
    /\ logs' = FALSE /\ open' = FALSE /\ waiting' = FALSE
    /\ rotating' = Rotation("none", 0)
    /\ UNCHANGED <<file, backups, last>>

LogNext ==
    \/ \E refused \in BOOLEAN :
          DeleteLog(refused) \/ RenameLog(refused) \/ CreateLog(refused)
    \/ \E result \in {"flushed", "cut off"} : startup_write(result)
    \/ movie_log
    \/ \E keep \in Index : StartSession(keep)
    \/ EndSession

-----------------------------------------------------------------------------
(* Properties. *)

\* Every record of a file is younger than those of any file with a higher number,
\* and no file outgrows the limit.
LogOrdered ==
    /\ \A i \in Index, j \in Index :
          i < j => \A a \in Content(i), b \in Content(j) : a > b
    /\ \A i \in Index : Cardinality(Content(i)) <= Fits

\* The records of file i that are in no file after the step.
Lost(i) == Content(i) \ UNION {file'[j] : j \in Index}

\* What a step of a rotation destroys is beyond the retention: backups that are too
\* many, or the last one, or startup.log itself when no backup is kept.
OnlySurplusLost == \A i \in Index : Lost(i) # {} => i >= backups

\* "Restart/size rotation, confined to the named startup log family": whatever is
\* refused, wherever the process dies and however the retention is changed, the
\* files stay in the order of their numbers, within the limit, and a record is
\* lost only with the oldest file that is kept.
LogKept == []LogOrdered /\ [][OnlySurplusLost]_logVars

=============================================================================

--------------------------- MODULE StartupLog_proofs ---------------------------
(***************************************************************************)
(* The files of the log, for any number of backups and any size: what a    *)
(* step of a rotation overwrites is empty or beyond the retention, and     *)
(* what is written is younger than everything there is.                    *)
(***************************************************************************)
EXTENDS StartupLog, FiniteSetTheorems, TLAPS

USE DEF Rotation

\* As long as a rotation is under way: the file it is at, and what is already out
\* of the way of the files below.
RotationHolds ==
    /\ rotating.step = "delete" => rotating.at >= Lowest
    /\ rotating.step = "rename" =>
          /\ rotating.at + 1 \in Index /\ rotating.at < backups
          /\ Content(rotating.at + 1) = {}
    /\ rotating.step = "create" => backups = 0 \/ Content(0) = {}
    /\ rotating.step = "none" => ~waiting
    /\ waiting => last # 0
    /\ open => rotating.step = "none" /\ file[0] # NoLog

\* The record that waits for the end of a rotation is not written yet.
RecordsYoung ==
    \A i \in Index : \A a \in Content(i) : a <= last /\ (waiting => a < last)

LogInv == LogTypeOK /\ RotationHolds /\ RecordsYoung /\ LogOrdered

LEMMA IndexType == 0 \in Index /\ Index \subseteq Nat /\ MaxBackup \in Index /\ 1 \in Index
BY LogAssumption DEF LogAssumption, Index

LEMMA FileType ==
    ASSUME LogTypeOK, NEW i \in Index
    PROVE  /\ Content(i) \subseteq Number /\ IsFiniteSet(Content(i))
           /\ file[i] = NoLog => Content(i) = {}
           /\ file[i] # NoLog => Content(i) = file[i]
<1>1. file[i] \in (SUBSET Number) \cup {NoLog} /\ 0 \notin Number
  BY DEF LogTypeOK, Number
<1>2. Content(i) \subseteq Number
  BY <1>1 DEF Content, NoLog
<1>3. IsFiniteSet(Number)
  BY FS_Interval, LogAssumption DEF Number, LogAssumption
<1>4. IsFiniteSet(Content(i))
  BY <1>2, <1>3, FS_Subset
<1> QED  BY <1>1, <1>2, <1>4 DEF Content, NoLog

LEMMA LogStarts == LogInit => LogInv
<1> SUFFICES ASSUME LogInit PROVE LogInv
  OBVIOUS
<1>1. LogTypeOK
  <2>1. 0 \in 0..Records /\ 0 \in Index  BY IndexType, LogAssumption DEF LogAssumption
  <2>2. file \in [Index -> (SUBSET Number) \cup {NoLog}]  BY DEF LogInit
  <2> QED  BY <2>1, <2>2 DEF LogInit, LogTypeOK
<1>2. \A i \in Index : Content(i) = {}
  BY DEF LogInit, Content
<1>3. LogOrdered
  BY <1>2, FS_EmptySet, LogAssumption DEF LogOrdered, LogAssumption
<1> QED  BY <1>1, <1>2, <1>3 DEF LogInit, LogInv, RotationHolds, RecordsYoung

\* Nothing that is not lost is new: each file is what one was, and the order of
\* those that have anything in them is what it was.
LEMMA FilesKept ==
    ASSUME LogInv, last' = last, waiting' => waiting,
           \A i \in Index : Content(i)' \in {Content(i), {}}
    PROVE  RecordsYoung' /\ LogOrdered'
<1>1. RecordsYoung'
  BY DEF LogInv, RecordsYoung
<1>2. LogOrdered'
  <2>1. \A i \in Index, j \in Index :
           i < j => \A a \in Content(i)', b \in Content(j)' : a > b
    BY DEF LogInv, LogOrdered
  <2>2. \A i \in Index : Cardinality(Content(i)') <= Fits
    BY FS_EmptySet, LogAssumption DEF LogInv, LogOrdered, LogAssumption
  <2> QED  BY <2>1, <2>2 DEF LogOrdered
<1> QED  BY <1>1, <1>2

LEMMA DeleteKeeps ==
    ASSUME LogInv, NEW refused \in BOOLEAN, DeleteLog(refused),
           NEW i \in Index, i = rotating.at
    PROVE  LogInv' /\ OnlySurplusLost
<1>1. /\ rotating.step = "delete" /\ i \in Index /\ i >= Lowest
      /\ LogTypeOK /\ backups \in Nat /\ UNCHANGED <<logs, backups, open, last>>
  BY IndexType DEF DeleteLog, LogInv, LogTypeOK, RotationHolds
<1>2. ~open /\ (waiting => last # 0)
  BY <1>1 DEF LogInv, RotationHolds
<1>3. CASE GiveUp /\ UNCHANGED file
  <2>1. LogTypeOK'  BY <1>1, <1>3, IndexType DEF GiveUp, LogTypeOK
  <2>2. \A j \in Index : Content(j)' = Content(j)  BY <1>3 DEF Content
  <2>3. RecordsYoung' /\ LogOrdered'
    BY <1>1, <1>3, <2>2, FilesKept DEF GiveUp
  <2>4. OnlySurplusLost
    BY <1>3 DEF OnlySurplusLost, Lost, Content
  <2> QED  BY <1>1, <1>2, <1>3, <2>1, <2>3, <2>4 DEF LogInv, RotationHolds, GiveUp
<1>4. CASE /\ file' = [file EXCEPT ![i] = NoLog]
           /\ rotating' = IF i = Lowest THEN AfterDeleting ELSE Rotation("delete", i - 1)
           /\ UNCHANGED waiting
  <2>1. /\ file'[i] = NoLog /\ \A j \in Index \ {i} : file'[j] = file[j]
        /\ file' \in [Index -> (SUBSET Number) \cup {NoLog}]
    BY <1>1, <1>4 DEF LogTypeOK
  <2>2. Content(i)' = {} /\ \A j \in Index \ {i} : Content(j)' = Content(j)
    BY <2>1 DEF Content
  <2>3. RecordsYoung' /\ LogOrdered'
    BY <1>1, <1>4, <2>2, FilesKept
  <2>4. OnlySurplusLost
    <3>1. SUFFICES ASSUME NEW j \in Index, Lost(j) # {} PROVE j >= backups
      BY DEF OnlySurplusLost
    <3>2. j = i
      BY <2>1, <3>1 DEF Lost, Content
    <3> QED  BY <1>1, <3>2, IndexType DEF Lowest
  <2>5. CASE i = Lowest /\ backups = 0
    <3>1. rotating' = Rotation("create", 0)  BY <1>4, <2>5 DEF AfterDeleting
    <3>2. RotationHolds'  BY <1>1, <1>2, <1>4, <2>5, <3>1 DEF RotationHolds
    <3> QED  BY <1>1, <1>4, <2>1, <2>3, <2>4, <3>1, <3>2, IndexType DEF LogInv, LogTypeOK
  <2>6. CASE i = Lowest /\ backups # 0
    <3>1. i = backups /\ rotating' = Rotation("rename", backups - 1)
      BY <1>4, <2>6 DEF AfterDeleting, Lowest
    <3>2. backups - 1 \in Index /\ (backups - 1) + 1 = i /\ backups - 1 < backups
      BY <1>1, <2>6, <3>1, IndexType DEF Index
    <3>3. rotating'.step = "rename" /\ rotating'.at + 1 = i /\ rotating'.at < backups
      BY <3>1, <3>2
    <3>4. Content(rotating.at + 1)' = {}
      BY <2>2, <3>3 DEF Content
    <3>5. RotationHolds'
      <4>1. (rotating.at + 1)' \in Index  BY <1>1, <3>3
      <4>2. rotating'.step = "rename"  BY <3>3
      <4> QED  BY <1>1, <1>2, <1>4, <3>3, <3>4, <4>1, <4>2 DEF RotationHolds
    <3> QED  BY <1>1, <1>4, <2>1, <2>3, <2>4, <3>1, <3>2, <3>5 DEF LogInv, LogTypeOK
  <2>7. CASE i # Lowest
    <3>1. rotating' = Rotation("delete", i - 1)  BY <1>4, <2>7
    <3>2. Lowest \in Nat /\ Lowest >= 0 /\ i \in Nat  BY <1>1, IndexType DEF Lowest
    <3>3. i - 1 \in Index /\ i - 1 >= Lowest
      <4>1. i > Lowest /\ i <= MaxBackup /\ i \in Int /\ Lowest \in Int /\ MaxBackup \in Int
        BY <1>1, <2>7, <3>2, LogAssumption DEF Index, LogAssumption
      <4> QED  BY <3>2, <4>1 DEF Index
    <3>4. Lowest' = Lowest  BY <1>1 DEF Lowest
    <3>5. RotationHolds'  BY <1>1, <1>2, <1>4, <3>1, <3>3, <3>4 DEF RotationHolds
    <3> QED  BY <1>1, <1>4, <2>1, <2>3, <2>4, <3>1, <3>3, <3>5 DEF LogInv, LogTypeOK
  <2> QED  BY <2>5, <2>6, <2>7
<1> QED  BY <1>3, <1>4 DEF DeleteLog

LEMMA RenameKeeps ==
    ASSUME LogInv, NEW refused \in BOOLEAN, RenameLog(refused),
           NEW i \in Index, i = rotating.at
    PROVE  LogInv' /\ OnlySurplusLost
<1>1. /\ rotating.step = "rename" /\ i \in Index /\ i + 1 \in Index /\ i < backups
      /\ Content(i + 1) = {} /\ ~open /\ i \in Nat /\ (waiting => last # 0)
      /\ LogTypeOK /\ backups \in Nat /\ UNCHANGED <<logs, backups, open, last>>
  BY IndexType DEF RenameLog, LogInv, LogTypeOK, RotationHolds
<1>2. CASE GiveUp /\ UNCHANGED file
  <2>1. LogTypeOK'  BY <1>1, <1>2, IndexType DEF GiveUp, LogTypeOK
  <2>2. \A j \in Index : Content(j)' = Content(j)  BY <1>2 DEF Content
  <2>3. RecordsYoung' /\ LogOrdered'
    BY <1>1, <1>2, <2>2, FilesKept DEF GiveUp
  <2>4. OnlySurplusLost
    BY <1>2 DEF OnlySurplusLost, Lost, Content
  <2> QED  BY <1>1, <1>2, <2>1, <2>3, <2>4 DEF LogInv, RotationHolds, GiveUp
<1>3. CASE /\ file' = IF file[i] = NoLog THEN file ELSE Renamed(i)
           /\ rotating' = AfterRenaming(i)
           /\ UNCHANGED waiting
  <2>1. /\ Content(i)' = {} /\ Content(i + 1)' = Content(i)
        /\ \A j \in Index \ {i, i + 1} : file'[j] = file[j] /\ Content(j)' = Content(j)
        /\ file' \in [Index -> (SUBSET Number) \cup {NoLog}]
    <3>1. CASE file[i] = NoLog
      <4>1. file' = file /\ Content(i) = {}  BY <1>1, <1>3, <3>1, FileType
      <4> QED  BY <1>1, <4>1 DEF Content, LogTypeOK
    <3>2. CASE file[i] # NoLog
      <4>1. file' = [file EXCEPT ![i + 1] = file[i], ![i] = NoLog]
        BY <1>3, <3>2 DEF Renamed
      <4>2. i # i + 1  BY <1>1
      <4>3. file'[i] = NoLog /\ file'[i + 1] = file[i]
        BY <1>1, <4>1, <4>2 DEF LogTypeOK
      <4> QED  BY <1>1, <4>1, <4>3 DEF Content, LogTypeOK
    <3> QED  BY <3>1, <3>2
  <2>2. RecordsYoung'
    BY <1>1, <1>3, <2>1 DEF LogInv, RecordsYoung
  <2>3. LogOrdered'
    <3>1. ASSUME NEW j \in Index, NEW k \in Index, j < k,
                 NEW a \in Content(j)', NEW b \in Content(k)'
          PROVE  a > b
      <4>0. j # i /\ k # i /\ j \in Nat /\ k \in Nat  BY <2>1, <3>1, IndexType
      <4>1. CASE j = i + 1
        <5>1. a \in Content(i) /\ b \in Content(k) /\ i < k
          BY <1>1, <2>1, <3>1, <4>0, <4>1
        <5> QED  BY <1>1, <5>1 DEF LogInv, LogOrdered
      <4>2. CASE k = i + 1
        <5>1. b \in Content(i) /\ a \in Content(j) /\ j < i
          BY <1>1, <2>1, <3>1, <4>0, <4>2
        <5> QED  BY <1>1, <5>1 DEF LogInv, LogOrdered
      <4>3. CASE j # i + 1 /\ k # i + 1
        <5>1. a \in Content(j) /\ b \in Content(k)  BY <2>1, <4>0, <4>3
        <5> QED  BY <3>1, <5>1 DEF LogInv, LogOrdered
      <4> QED  BY <4>1, <4>2, <4>3
    <3>2. ASSUME NEW j \in Index PROVE Cardinality(Content(j)') <= Fits
      <4>1. CASE j = i  BY <2>1, <4>1, FS_EmptySet, LogAssumption DEF LogAssumption
      <4>2. CASE j = i + 1  BY <1>1, <2>1, <4>2 DEF LogInv, LogOrdered
      <4>3. CASE j \notin {i, i + 1}  BY <2>1, <4>3 DEF LogInv, LogOrdered
      <4> QED  BY <4>1, <4>2, <4>3
    <3> QED  BY <3>1, <3>2 DEF LogOrdered
  <2>4. OnlySurplusLost
    <3>1. SUFFICES ASSUME NEW j \in Index PROVE Lost(j) = {}
      BY DEF OnlySurplusLost
    <3>2. Content(j) \subseteq UNION {file'[k] : k \in Index}
      <4>1. CASE j = i
        BY <1>1, <2>1, <4>1 DEF Content
      <4>2. CASE j = i + 1  BY <1>1, <4>2
      <4>3. CASE j \notin {i, i + 1}  BY <2>1, <4>3 DEF Content
      <4> QED  BY <4>1, <4>2, <4>3
    <3> QED  BY <3>2 DEF Lost
  <2>5. CASE i = 0
    <3>1. rotating' = Rotation("create", 0)  BY <1>3, <2>5 DEF AfterRenaming
    <3>2. Content(0)' = {}  BY <2>1, <2>5
    <3>3. RotationHolds'  BY <1>1, <1>3, <3>1, <3>2 DEF RotationHolds
    <3> QED  BY <1>1, <1>3, <2>1, <2>2, <2>3, <2>4, <3>1, <3>3, IndexType DEF LogInv, LogTypeOK
  <2>6. CASE i # 0
    <3>1. rotating' = Rotation("rename", i - 1)  BY <1>3, <2>6 DEF AfterRenaming
    <3>2. i - 1 \in Index /\ (i - 1) + 1 = i /\ i - 1 < backups
      <4>1. i <= MaxBackup /\ MaxBackup \in Int
        BY LogAssumption DEF Index, LogAssumption
      <4> QED  BY <1>1, <2>6, <4>1 DEF Index
    <3>3. rotating'.step = "rename" /\ rotating'.at + 1 = i /\ rotating'.at < backups
      BY <3>1, <3>2
    <3>4. Content(rotating.at + 1)' = {}
      BY <2>1, <3>3 DEF Content
    <3>5. RotationHolds'
      <4>1. (rotating.at + 1)' \in Index  BY <1>1, <3>3
      <4>2. rotating'.step = "rename"  BY <3>3
      <4> QED  BY <1>1, <1>3, <3>3, <3>4, <4>1, <4>2 DEF RotationHolds
    <3> QED  BY <1>1, <1>3, <2>1, <2>2, <2>3, <2>4, <3>1, <3>2, <3>5 DEF LogInv, LogTypeOK
  <2> QED  BY <2>5, <2>6
<1> QED  BY <1>2, <1>3 DEF RenameLog

\* A record that is younger than all others goes to startup.log.
LEMMA RecordAdded ==
    ASSUME LogInv, NEW n \in Number, NEW old, old = {} \/ old = Content(0),
           \A i \in Index : \A a \in Content(i) : a < n,
           Cardinality(old) < Fits,
           file' = [file EXCEPT ![0] = old \cup {n}]
    PROVE  LogOrdered'
<1>1. /\ Content(0)' = old \cup {n}
      /\ \A i \in Index \ {0} : Content(i)' = Content(i)
  <2>1. old \subseteq Number /\ 0 \notin Number
    BY IndexType, FileType DEF LogInv, Number
  <2> QED  BY <2>1, IndexType DEF Content, LogInv, LogTypeOK, NoLog
<1>2. Cardinality(old \cup {n}) <= Fits
  <2>1. IsFiniteSet(old)  BY FS_EmptySet, IndexType, FileType DEF LogInv
  <2>2. n \notin old
    <3>1. \A a \in old : a < n  BY IndexType
    <3> QED  BY <3>1 DEF Number
  <2>3. Cardinality(old \cup {n}) = Cardinality(old) + 1
    BY <2>1, <2>2, FS_AddElement
  <2>4. Cardinality(old) \in Nat  BY <2>1, FS_CardinalityType
  <2> QED  BY <2>3, <2>4, LogAssumption DEF LogAssumption
<1>3. ASSUME NEW i \in Index, NEW j \in Index, i < j,
             NEW a \in Content(i)', NEW b \in Content(j)'
      PROVE  a > b
  <2>1. j # 0 /\ b \in Content(j)  BY <1>1, <1>3, IndexType
  <2>2. b \in Number  BY <2>1, FileType DEF LogInv
  <2>3. CASE a = n  BY <2>1, <2>2, <2>3 DEF Number
  <2>4. CASE a # n
    <3>1. a \in Content(i)  BY <1>1, <1>3, <2>4
    <3> QED  BY <1>3, <2>1, <3>1 DEF LogInv, LogOrdered
  <2> QED  BY <2>3, <2>4
<1> QED  BY <1>1, <1>2, <1>3 DEF LogInv, LogOrdered

LEMMA CreateKeeps ==
    ASSUME LogInv, NEW refused \in BOOLEAN, CreateLog(refused)
    PROVE  LogInv' /\ OnlySurplusLost
<1>1. /\ rotating.step = "create" /\ (backups = 0 \/ Content(0) = {}) /\ ~open
      /\ LogTypeOK /\ rotating' = Rotation("none", 0) /\ waiting' = FALSE /\ last \in Nat
      /\ UNCHANGED <<logs, backups, last>>
  BY LogAssumption DEF CreateLog, GiveUp, LogInv, LogTypeOK, RotationHolds, LogAssumption
<1>2. CASE UNCHANGED <<file, open>>
  <2>1. \A j \in Index : Content(j)' = Content(j)  BY <1>2 DEF Content
  <2>2. RecordsYoung' /\ LogOrdered'  BY <1>1, <2>1, FilesKept
  <2>3. OnlySurplusLost  BY <1>2 DEF OnlySurplusLost, Lost, Content
  <2>4. LogTypeOK'  BY <1>1, <1>2, IndexType DEF LogTypeOK
  <2>5. RotationHolds'  BY <1>1, <1>2 DEF RotationHolds
  <2> QED  BY <2>2, <2>3, <2>4, <2>5 DEF LogInv
<1>3. CASE /\ file' = [file EXCEPT ![0] = IF waiting THEN {last} ELSE {}]
           /\ open' \in {TRUE, ~waiting}
  <2>1. OnlySurplusLost
    <3>1. SUFFICES ASSUME NEW j \in Index, Lost(j) # {} PROVE j >= backups
      BY DEF OnlySurplusLost
    <3>2. j = 0  BY <1>1, <1>3, <3>1 DEF Lost, Content, LogTypeOK
    <3>3. Content(0) # {}  BY <3>1, <3>2 DEF Lost
    <3> QED  BY <1>1, <3>2, <3>3
  <2>2. CASE ~waiting
    <3>1. file' = [file EXCEPT ![0] = {}]  BY <1>3, <2>2
    <3>2. /\ file'[0] = {} /\ Content(0)' = {}
          /\ \A j \in Index : Content(j)' \in {Content(j), {}}
      BY <1>1, <3>1, IndexType DEF LogTypeOK, Content
    <3>3. RecordsYoung' /\ LogOrdered'  BY <1>1, <3>2, FilesKept
    <3>4. file'[0] # NoLog /\ file' \in [Index -> (SUBSET Number) \cup {NoLog}]
      BY <1>1, <3>1, <3>2 DEF NoLog, LogTypeOK
    <3>5. open' \in BOOLEAN /\ waiting' \in BOOLEAN  BY <1>1, <1>3, <2>2
    <3>6. LogTypeOK'  BY <1>1, <3>4, <3>5, IndexType DEF LogTypeOK
    <3>7. RotationHolds'  BY <1>1, <3>4 DEF RotationHolds
    <3> QED  BY <2>1, <3>3, <3>6, <3>7 DEF LogInv
  <2>3. CASE waiting
    <3> DEFINE old == {}
    <3>1. file' = [file EXCEPT ![0] = old \cup {last}]  BY <1>3, <2>3
    <3>2. \A i \in Index : \A a \in Content(i) : a < last
      BY <2>3 DEF LogInv, RecordsYoung
    <3>3. last \in Number
      <4>1. last \in 0..Records  BY <1>1 DEF LogTypeOK
      <4>2. last # 0
        BY <2>3 DEF LogInv, RotationHolds
      <4> QED  BY <4>1, <4>2 DEF Number
    <3>4. LogOrdered'
      <4>1. old = {} /\ Cardinality(old) < Fits
        BY FS_EmptySet, LogAssumption DEF LogAssumption
      <4> HIDE DEF old
      <4> QED  BY <3>1, <3>2, <3>3, <4>1, RecordAdded
    <3>5. /\ file'[0] = {last} /\ Content(0)' = {last}
          /\ \A j \in Index \ {0} : Content(j)' = Content(j)
          /\ file' \in [Index -> (SUBSET Number) \cup {NoLog}]
      BY <1>1, <3>1, <3>3, IndexType DEF LogTypeOK, Content, NoLog, Number
    <3>6. RecordsYoung'
      <4>1. SUFFICES ASSUME NEW j \in Index, NEW a \in Content(j)' PROVE a <= last
        BY <1>1 DEF RecordsYoung
      <4>2. a = last \/ a \in Content(j)  BY <3>5
      <4> QED  BY <1>1, <4>2 DEF LogInv, RecordsYoung
    <3>7. file'[0] # NoLog  BY <3>3, <3>5 DEF NoLog, Number
    <3>8. open' \in BOOLEAN /\ waiting' \in BOOLEAN  BY <1>1, <1>3, <2>3
    <3>9. LogTypeOK'  BY <1>1, <3>5, <3>8, IndexType DEF LogTypeOK
    <3>10. RotationHolds'  BY <1>1, <3>7 DEF RotationHolds
    <3> QED  BY <2>1, <3>4, <3>6, <3>9, <3>10 DEF LogInv
  <2> QED  BY <2>2, <2>3
<1> QED  BY <1>2, <1>3 DEF CreateLog

\* Another record comes to startup.log.
LEMMA RecordWritten ==
    ASSUME LogInv, rotating.step = "none", file[0] # NoLog, last < Records,
           Cardinality(file[0]) < Fits, last' = last + 1,
           file' = [file EXCEPT ![0] = @ \cup {last + 1}],
           UNCHANGED <<rotating, waiting, backups, logs>>, open' \in BOOLEAN
    PROVE  LogInv' /\ OnlySurplusLost
<1>1. /\ LogTypeOK /\ last \in Nat /\ last + 1 \in Number /\ last + 1 \in 0..Records
      /\ Content(0) = file[0] /\ file[0] \subseteq Number /\ ~waiting
  BY IndexType, FileType, LogAssumption
     DEF LogInv, LogTypeOK, Number, LogAssumption, RotationHolds
<1>2. \A i \in Index : \A a \in Content(i) : a < last + 1
  <2>1. SUFFICES ASSUME NEW i \in Index, NEW a \in Content(i) PROVE a < last + 1
    OBVIOUS
  <2>2. a <= last /\ a \in Number  BY FileType, <1>1 DEF LogInv, RecordsYoung
  <2> QED  BY <1>1, <2>2 DEF Number
<1>3. file' = [file EXCEPT ![0] = Content(0) \cup {last + 1}]
  BY <1>1
<1>4. LogOrdered'
  BY <1>1, <1>2, <1>3, RecordAdded
<1>5. /\ file'[0] = Content(0) \cup {last + 1} /\ Content(0)' = Content(0) \cup {last + 1}
      /\ \A j \in Index \ {0} : file'[j] = file[j] /\ Content(j)' = Content(j)
      /\ file' \in [Index -> (SUBSET Number) \cup {NoLog}] /\ file'[0] # NoLog
  BY <1>1, <1>3, IndexType DEF LogTypeOK, Content, NoLog, Number
<1>6. RecordsYoung'
  <2>1. SUFFICES ASSUME NEW i \in Index, NEW a \in Content(i)' PROVE a <= last + 1
    BY <1>1 DEF RecordsYoung
  <2>2. a = last + 1 \/ a \in Content(i)  BY <1>5
  <2> QED  BY <1>1, <1>2, <2>2, FileType DEF Number
<1>7. OnlySurplusLost
  <2>1. SUFFICES ASSUME NEW j \in Index PROVE Lost(j) = {}
    BY DEF OnlySurplusLost
  <2>2. Content(j) \subseteq file'[j]
    BY <1>5 DEF Content
  <2> QED  BY <2>2 DEF Lost
<1>8. LogTypeOK'
  BY <1>1, <1>5 DEF LogTypeOK
<1>9. RotationHolds'
  BY <1>1, <1>5 DEF RotationHolds, LogInv
<1> QED  BY <1>4, <1>6, <1>7, <1>8, <1>9 DEF LogInv

\* A rotation begins: nothing has moved yet.
LEMMA RotationBegins ==
    ASSUME LogInv, startup_open_log, UNCHANGED file, backups' \in Index,
           logs' \in BOOLEAN, waiting' \in BOOLEAN,
           \/ last' = last /\ ~waiting'
           \/ last' = last + 1 /\ last < Records
    PROVE  LogInv' /\ OnlySurplusLost
<1>1. \A i \in Index : Content(i)' = Content(i)
  BY DEF Content
<1>2. LogTypeOK /\ last \in Nat /\ last' \in 0..Records /\ last' >= last
  BY LogAssumption DEF LogInv, LogTypeOK, LogAssumption
<1>3. LogTypeOK'
  BY <1>2, IndexType DEF LogTypeOK, startup_open_log
<1>4. rotating' = Rotation("delete", MaxBackup) /\ ~open'
  BY DEF startup_open_log
<1>5. MaxBackup >= Lowest'
  BY IndexType, LogAssumption DEF Lowest, Index, LogAssumption
<1>6. RotationHolds'
  BY <1>2, <1>4, <1>5 DEF RotationHolds
<1>7. RecordsYoung'
  <2>1. SUFFICES ASSUME NEW i \in Index, NEW a \in Content(i)
                 PROVE  a <= last' /\ (waiting' => a < last')
    BY <1>1 DEF RecordsYoung
  <2>2. a <= last /\ a \in Nat
    BY <1>2, FileType DEF LogInv, RecordsYoung, Number
  <2> QED  BY <1>2, <2>2
<1>8. LogOrdered'
  BY <1>1 DEF LogInv, LogOrdered
<1>9. OnlySurplusLost
  BY DEF OnlySurplusLost, Lost, Content
<1> QED  BY <1>3, <1>6, <1>7, <1>8, <1>9 DEF LogInv

LEMMA LogStep == LogInv /\ [LogNext]_logVars => LogInv' /\ [OnlySurplusLost]_logVars
<1> SUFFICES ASSUME LogInv, [LogNext]_logVars PROVE LogInv' /\ [OnlySurplusLost]_logVars
  OBVIOUS
<1>1. ASSUME NEW refused \in BOOLEAN,
             DeleteLog(refused) \/ RenameLog(refused) \/ CreateLog(refused)
      PROVE  LogInv' /\ OnlySurplusLost
  <2>1. rotating.at \in Index
    BY DEF LogInv, LogTypeOK
  <2> QED  BY <1>1, <2>1, DeleteKeeps, RenameKeeps, CreateKeeps
<1>2. ASSUME NEW result \in {"flushed", "cut off"}, startup_write(result)
      PROVE  LogInv' /\ OnlySurplusLost
  <2>1. CASE Cardinality(file[0]) < Fits
    <3>1. open' \in BOOLEAN /\ file[0] # NoLog
      BY <1>2, <2>1 DEF startup_write, LogInv, RotationHolds
    <3> QED  BY <1>2, <2>1, <3>1, RecordWritten DEF startup_write, Idle
  <2>2. CASE ~(Cardinality(file[0]) < Fits)
    <3>1. backups' \in Index /\ logs' \in BOOLEAN /\ waiting' \in BOOLEAN
      BY <1>2, <2>2 DEF startup_write, LogInv, LogTypeOK
    <3> QED  BY <1>2, <2>2, <3>1, RotationBegins DEF startup_write
  <2> QED  BY <2>1, <2>2
<1>3. CASE movie_log
  <2>1. open' \in BOOLEAN  BY <1>3 DEF movie_log, LogInv, LogTypeOK
  <2> QED  BY <1>3, <2>1, RecordWritten DEF movie_log, Idle
<1>4. ASSUME NEW keep \in Index, StartSession(keep) PROVE LogInv' /\ OnlySurplusLost
  <2>1. backups' \in Index /\ logs' \in BOOLEAN /\ waiting' \in BOOLEAN
    BY <1>4 DEF StartSession
  <2> QED  BY <1>4, <2>1, RotationBegins DEF StartSession
<1>5. CASE EndSession
  <2>1. \A i \in Index : Content(i)' = Content(i)  BY <1>5 DEF EndSession, Content
  <2>2. RecordsYoung' /\ LogOrdered'  BY <1>5, <2>1, FilesKept DEF EndSession
  <2>3. OnlySurplusLost  BY <1>5 DEF EndSession, OnlySurplusLost, Lost, Content
  <2>4. LogTypeOK'  BY <1>5, IndexType DEF EndSession, LogInv, LogTypeOK
  <2>5. RotationHolds'  BY <1>5 DEF EndSession, RotationHolds
  <2> QED  BY <2>2, <2>3, <2>4, <2>5 DEF LogInv
<1>6. CASE UNCHANGED logVars
  BY <1>6 DEF logVars, LogInv, LogTypeOK, RotationHolds, RecordsYoung, LogOrdered,
              Content, Lowest
<1> QED  BY <1>1, <1>2, <1>3, <1>4, <1>5, <1>6 DEF LogNext

=============================================================================

---------------------------- MODULE Panel_proofs ----------------------------
(***************************************************************************)
(* Proofs about Panel: the type invariant, that the runtime accepts what   *)
(* the panel writes, that the dependent controls follow their boxes, and   *)
(* that the choice of a display is kept.                                   *)
(***************************************************************************)
EXTENDS Panel, TLAPS

LEMMA OptionNames ==
    /\ {"fps", "end", "crawl", "window", "verbose", "vsync"} \subseteq Option
    /\ {"cores", "cab", "highres", "tilt", "walking"} \subseteq Option
BY DEF Option, InRecord, InIni

\* What a key is taken for is a Boolean; the operators on settings return settings.
LEMMA ReadsType == ASSUME NEW t, NEW d \in BOOLEAN PROVE Reads(t, d) \in BOOLEAN
BY DEF Reads

LEMMA DefaultsType == Defaults \in Settings /\ Nothing \in Settings
BY DEF Defaults, Nothing, Settings

LEMMA LoadSettingsType == ASSUME NEW f \in Files PROVE LoadSettings(f) \in Settings
BY ReadsType, DefaultsType DEF LoadSettings, Settings

LEMMA ManifestType == ASSUME NEW f \in Files PROVE SettingsFromManifest(f) \in Settings
<1>1. CASE f.state = "none"
  BY <1>1, DefaultsType DEF SettingsFromManifest
<1>2. CASE f.state # "none"
  <2> DEFINE Bool(o) == f.state \in {"on", "legacy"} /\ f.record[o] = "true"
  <2> DEFINE S(o) == CASE o = "window" -> f.record[o] = "missing" \/ Bool(o)
                  [] o = "end"    -> Bool(o) /\ f.state = "on"
                  [] o = "crawl"  -> Bool(o) \/ f.state = "legacy"
                  [] o \in {"fps", "verbose", "vsync"} -> Bool(o)
                  [] OTHER        -> FALSE
  <2>1. ASSUME NEW o \in Option PROVE S(o) \in BOOLEAN
    OBVIOUS
  <2>2. SettingsFromManifest(f) = [o \in Option |-> S(o)]
    BY <1>2, Zenon DEF SettingsFromManifest
  <2> HIDE DEF S
  <2> QED BY <2>1, <2>2 DEF Settings
<1> QED BY <1>1, <1>2

LEMMA SelectionType ==
    ASSUME NEW f \in Files, NEW wide \in BOOLEAN
    PROVE  LoadSelectionSettings(f, wide) \in Settings
<1> DEFINE s == SettingsFromManifest(f)
           extra == LoadSettings(f)
           S(o) == CASE o = "vsync" -> Reads(f.ini.opt[o], s[o])
                  [] o = "cab"   -> wide /\ extra[o]
                  [] o \in InIni \ {"cab"} -> extra[o]
                  [] OTHER       -> s[o]
<1>1. s \in [Option -> BOOLEAN] /\ extra \in [Option -> BOOLEAN]
  BY ManifestType, LoadSettingsType DEF Settings
<1> HIDE DEF s, extra
<1>2. ASSUME NEW o \in Option PROVE S(o) \in BOOLEAN
  BY <1>1, ReadsType
<1>3. LoadSelectionSettings(f, wide) = [o \in Option |-> S(o)] \/ LoadSelectionSettings(f, wide) = s
  BY Zenon DEF LoadSelectionSettings, s, extra
<1> HIDE DEF S
<1> QED BY <1>1, <1>2, <1>3 DEF Settings

LEMMA MonitorType == ASSUME NEW f \in Files PROVE LoadMonitor(f) \in Monitor
BY DEF LoadMonitor, Files, Ini, Monitor

LEMMA UiType == ASSUME PanelTypeOK PROVE UiToSettings \in Settings
<1> DEFINE S(o) == CASE o = "cores" -> IF cpu THEN checks["cores"] ELSE LoadSettings(files)["cores"]
          [] o = "vsync" -> checks["vsync"] /\ checks["fps"]
          [] o = "cab"   -> checks["cab"] /\ info = "wide"
          [] o = "end"   -> checks["end"] \/ checks["crawl"]
          [] OTHER       -> checks[o]
<1>1. checks \in [Option -> BOOLEAN] /\ LoadSettings(files) \in [Option -> BOOLEAN] /\ cpu \in BOOLEAN
  BY LoadSettingsType DEF PanelTypeOK, Settings
<1>2. ASSUME NEW o \in Option PROVE S(o) \in BOOLEAN
  BY <1>1, OptionNames
<1>3. UiToSettings = [o \in Option |-> S(o)]
  BY Zenon DEF UiToSettings
<1> HIDE DEF S
<1> QED BY <1>2, <1>3 DEF Settings

LEMMA RecommendType ==
    ASSUME PanelTypeOK, NEW s \in Settings, NEW large \in BOOLEAN
    PROVE  Recommend(s, large) \in Settings
<1> DEFINE S(o) == CASE o = "cores"   -> cpu \/ s[o]
          [] o = "cab"     -> info = "wide"
          [] o = "verbose" -> FALSE
          [] o = "highres" -> IF wrapper THEN s[o] ELSE large
          [] o = "walking" -> s[o]
          [] OTHER         -> TRUE
<1>1. s \in [Option -> BOOLEAN] /\ wrapper \in BOOLEAN /\ cpu \in BOOLEAN
  BY DEF PanelTypeOK, Settings
<1>2. ASSUME NEW o \in Option PROVE S(o) \in BOOLEAN
  BY <1>1
<1>3. Recommend(s, large) = [o \in Option |-> S(o)]
  BY Zenon DEF Recommend
<1> HIDE DEF S
<1> QED BY <1>2, <1>3 DEF Settings

LEMMA ControlsType ==
    ASSUME NEW c, NEW i PROVE SetValidControls(c, i) \in [Option \cup {"monitor"} -> BOOLEAN]
BY DEF SetValidControls

LEMMA WriteType ==
    ASSUME NEW f \in Files, NEW s \in Settings, NEW m \in Monitor
    PROVE  WriteSettings(f, s, m) \in Ini
BY DEF WriteSettings, Ini, Files, Settings, Writes, LoadNumber, Text, Number, Binding

LEMMA AppliedType ==
    ASSUME PanelTypeOK, NEW f \in Files, NEW s \in Settings
    PROVE  Applied(f, s) \in Files
<1>1. picked \in Monitor
  BY DEF PanelTypeOK, Monitor
<1>2. WriteSettings(f, s, picked) \in Ini
  BY <1>1, WriteType
<1>3. [o \in InRecord \cup {"vsync"} |-> Writes(s[o])] \in [InRecord \cup {"vsync"} -> Text \ {"odd"}]
  BY DEF Writes, Text
<1> QED BY <1>2, <1>3 DEF Applied, Files

LEMMA RemovedType == ASSUME NEW f \in Files PROVE Removed(f) \in Files
<1>1. DefaultIni \in Ini
  BY DEF DefaultIni, Ini, Text, Number, Binding, Monitor
<1> QED BY <1>1 DEF Removed, Files

-----------------------------------------------------------------------------
\* What both ways out of load_selection have in common.
LEMMA FormType ==
    ASSUME PanelTypeOK, NEW s \in Settings, NEW m \in Monitor, NEW i, SettingsToUi(s, m, i)
    PROVE  /\ checks' \in Settings
           /\ enabled' \in [Option \cup {"monitor"} -> BOOLEAN]
           /\ offered' \subseteq Monitor
           /\ picked' \in offered'
<1>1. SetValidControls(s, i) \in [Option \cup {"monitor"} -> BOOLEAN]
  BY ControlsType
<1> QED BY <1>1 DEF SettingsToUi, PopulateMonitors, PanelTypeOK, Monitor

LEMMA LoadType ==
    ASSUME PanelTypeOK, NEW f \in Files, LoadSelection(f)
    PROVE  /\ info' \in {"none", "narrow", "wide"}
           /\ checks' \in Settings
           /\ enabled' \in [Option \cup {"monitor"} -> BOOLEAN]
           /\ offered' \subseteq Monitor
           /\ picked' \in offered'
<1>1. CASE /\ exe # "bad" /\ f.state # "bad"
           /\ info' = exe
           /\ SettingsToUi(LoadSelectionSettings(f, exe = "wide"), LoadMonitor(f), exe)
  <2>1. LoadSelectionSettings(f, exe = "wide") \in Settings
    BY SelectionType
  <2>2. LoadMonitor(f) \in Monitor
    BY MonitorType
  <2> HIDE DEF PanelTypeOK
  <2>3. info' \in {"none", "narrow", "wide"}
    BY <1>1 DEF PanelTypeOK
  <2> QED BY <1>1, <2>1, <2>2, <2>3, FormType
<1>2. CASE info' = "none" /\ SettingsToUi(Nothing, Automatic, "none")
  <2>1. Automatic \in Monitor
    BY DEF Monitor
  <2> QED BY <1>2, <2>1, DefaultsType, FormType
<1> QED BY <1>1, <1>2 DEF LoadSelection

LEMMA ToggledType == ASSUME PanelTypeOK, NEW o \in Option PROVE Toggled(o) \in Settings
BY OptionNames DEF Toggled, PanelTypeOK, Settings

LEMMA ChangeType == ASSUME PanelTypeOK, Change PROVE edits' \in 0 .. MaxEdits
BY PanelAssumption DEF Change, PanelTypeOK

\* Each group of actions keeps the types.
LEMMA ClickTypes == ASSUME PanelTypeOK, NEW o \in Clickable, Click(o) PROVE PanelTypeOK'
<1>1. o \in Option
  BY PanelAssumption
<1>2. checks' \in Settings
  BY <1>1, ToggledType DEF Click
<1>3. enabled' \in [Option \cup {"monitor"} -> BOOLEAN]
  <2>1. DOMAIN enabled = Option \cup {"monitor"} /\ enabled \in [Option \cup {"monitor"} -> BOOLEAN]
    BY DEF PanelTypeOK
  <2>2. SetValidControls(checks', info) \in [Option \cup {"monitor"} -> BOOLEAN]
    BY ControlsType
  <2> DEFINE E(x) == IF x \in Refreshed(o) THEN SetValidControls(checks', info)[x] ELSE enabled[x]
  <2>3. \A x \in Option \cup {"monitor"}: E(x) \in BOOLEAN
    BY <2>1, <2>2
  <2>4. enabled' = [x \in Option \cup {"monitor"} |-> E(x)]
    BY <2>1 DEF Click
  <2> HIDE DEF E
  <2> QED BY <2>3, <2>4
<1>4. edits' \in 0 .. MaxEdits
  BY ChangeType DEF Click
<1> QED BY <1>2, <1>3, <1>4 DEF Click, OnlyForm, gameVars, PanelTypeOK

LEMMA FormTypes ==
    ASSUME PanelTypeOK, SelectGame \/ Pick \/ Recommended \/ DisplayChange \/ SaveFails \/ Restart
    PROVE  PanelTypeOK'
<1>1. CASE SelectGame
  <2>1. files \in Files
    BY DEF PanelTypeOK
  <2>2. LoadSelection(files)
    BY <1>1 DEF SelectGame
  <2>3. /\ info' \in {"none", "narrow", "wide"}
        /\ checks' \in Settings
        /\ enabled' \in [Option \cup {"monitor"} -> BOOLEAN]
        /\ offered' \subseteq Monitor
        /\ picked' \in offered'
    BY <2>1, <2>2, LoadType
  <2> QED BY <1>1, <2>3 DEF SelectGame, OnlyForm, gameVars, PanelTypeOK
<1>2. CASE Pick
  BY <1>2, PanelAssumption DEF Pick, Change, OnlyForm, gameVars, PanelTypeOK
<1>3. CASE Recommended
  <2>1. PICK large \in BOOLEAN: SettingsToUi(Recommend(UiToSettings, large), picked, info)
    BY <1>3 DEF Recommended
  <2>2. UiToSettings \in Settings
    BY UiType
  <2>3. Recommend(UiToSettings, large) \in Settings
    BY <2>2, RecommendType
  <2>4. picked \in Monitor
    BY DEF PanelTypeOK, Monitor
  <2>5. /\ checks' \in Settings
        /\ enabled' \in [Option \cup {"monitor"} -> BOOLEAN]
        /\ offered' \subseteq Monitor
        /\ picked' \in offered'
    BY <2>1, <2>3, <2>4, FormType
  <2> QED BY <1>3, <2>5 DEF Recommended, OnlyForm, gameVars, PanelTypeOK
<1>4. CASE DisplayChange
  BY <1>4 DEF DisplayChange, PopulateMonitors, gameVars, PanelTypeOK, Monitor
<1>5. CASE SaveFails
  <2>1. enabled' \in [Option \cup {"monitor"} -> BOOLEAN]
    BY <1>5, ControlsType DEF SaveFails
  <2> QED BY <1>5, <2>1 DEF SaveFails, OnlyForm, gameVars, PanelTypeOK
<1>6. CASE Restart
  <2>1. enabled' \in [Option \cup {"monitor"} -> BOOLEAN]
    BY <1>6 DEF Restart, PanelTypeOK
  <2>2. cpu' \in BOOLEAN /\ info' = "none" /\ checks' \in Settings
    BY <1>6, DefaultsType DEF Restart
  <2> QED BY <1>6, <2>1, <2>2 DEF Restart, gameVars, PanelTypeOK
<1> QED BY <1>1, <1>2, <1>3, <1>4, <1>5, <1>6

LEMMA SaveTypes == ASSUME PanelTypeOK, NEW remove \in BOOLEAN, Save(remove) PROVE PanelTypeOK'
<1> DEFINE removes == remove \/ ~AnyFeatureEnabled(UiToSettings)
<1>1. /\ files' = IF removes THEN Removed(files) ELSE Applied(files, UiToSettings)
      /\ edited' = (edited /\ removes)
      /\ LoadSelection(files')
      /\ UNCHANGED <<cpu, displays, exe, wrapper, edits>>
  BY DEF Save
<1>2. files' \in Files
  <2>1. files \in Files /\ UiToSettings \in Settings
    BY UiType DEF PanelTypeOK
  <2>2. Removed(files) \in Files /\ Applied(files, UiToSettings) \in Files
    BY <2>1, RemovedType, AppliedType
  <2> QED BY <1>1, <2>2
<1>3. /\ info' \in {"none", "narrow", "wide"}
      /\ checks' \in Settings
      /\ enabled' \in [Option \cup {"monitor"} -> BOOLEAN]
      /\ offered' \subseteq Monitor
      /\ picked' \in offered'
  BY <1>1, <1>2, LoadType
<1>4. edited' \in BOOLEAN
  BY <1>1 DEF PanelTypeOK
<1> HIDE DEF removes
<1> QED BY <1>1, <1>2, <1>3, <1>4 DEF PanelTypeOK

LEMMA OutsideTypes == ASSUME PanelTypeOK, EditIni \/ Meddle PROVE PanelTypeOK'
<1>1. CASE EditIni
  <2>1. edits' \in 0 .. MaxEdits
    BY <1>1, ChangeType, Zenon DEF EditIni
  <2>2. files \in Files
    BY DEF PanelTypeOK
  <2>3. ASSUME NEW o \in Editable, NEW t \in Text,
               files' = [files EXCEPT !.hasIni = TRUE, !.ini.opt[o] = t]
        PROVE  files' \in Files
    BY <2>2, <2>3 DEF Files, Ini
  <2>4. ASSUME NEW n \in Number, files' = [files EXCEPT !.hasIni = TRUE, !.ini.log = n]
        PROVE  files' \in Files
    BY <2>2, <2>4 DEF Files, Ini
  <2>5. ASSUME NEW b \in Binding, files' = [files EXCEPT !.hasIni = TRUE, !.ini.key = b]
        PROVE  files' \in Files
    BY <2>2, <2>5 DEF Files, Ini
  <2>6. ASSUME NEW m \in Display, files' = [files EXCEPT !.hasIni = TRUE, !.ini.monitor = m]
        PROVE  files' \in Files
    BY <2>2, <2>6 DEF Files, Ini, Monitor
  <2>7. files' \in Files
    BY <1>1, <2>3, <2>4, <2>5, <2>6 DEF EditIni
  <2> QED BY <1>1, <2>1, <2>7 DEF EditIni, formVars, PanelTypeOK
<1>2. CASE Meddle
  <2>1. edits' \in 0 .. MaxEdits
    BY <1>2, ChangeType, Zenon DEF Meddle
  <2>2. files' \in Files
    BY <1>2 DEF Meddle, PanelTypeOK, Files
  <2>3. exe' \in {"narrow", "wide", "bad"} /\ wrapper' \in BOOLEAN
    BY <1>2 DEF Meddle, PanelTypeOK
  <2> QED BY <1>2, <2>1, <2>2, <2>3 DEF Meddle, formVars, PanelTypeOK
<1> QED BY <1>1, <1>2

LEMMA InitTypes == ASSUME PanelInit PROVE PanelTypeOK
<1>1. files \in Files
  <2>1. DefaultIni \in Ini
    BY DEF DefaultIni, Ini, Text, Number, Binding, Monitor
  <2> QED BY <2>1 DEF PanelInit, Files, Text
<1>2. checks \in Settings /\ enabled \in [Option \cup {"monitor"} -> BOOLEAN]
  BY DefaultsType, ControlsType DEF PanelInit
<1>3. /\ cpu \in BOOLEAN /\ displays \subseteq Display
      /\ exe \in {"narrow", "wide", "bad"} /\ wrapper \in BOOLEAN
      /\ info \in {"none", "narrow", "wide"}
      /\ offered \subseteq Monitor /\ picked \in offered \cup {Automatic}
      /\ edits = 0 /\ edited \in BOOLEAN
  BY DEF PanelInit
<1>4. edits \in 0 .. MaxEdits
  BY <1>3, PanelAssumption
<1> QED BY <1>1, <1>2, <1>3, <1>4 DEF PanelTypeOK

LEMMA NextTypes == ASSUME PanelTypeOK, [PanelNext]_panelVars PROVE PanelTypeOK'
<1>1. CASE \E o \in Clickable: Click(o)
  BY <1>1, ClickTypes
<1>2. CASE SelectGame \/ Pick \/ Recommended \/ DisplayChange \/ SaveFails \/ Restart
  BY <1>2, FormTypes
<1>3. CASE PanelApply \/ PanelUninstall
  BY <1>3, SaveTypes DEF PanelApply, PanelUninstall
<1>4. CASE EditIni \/ Meddle
  BY <1>4, OutsideTypes
<1>5. CASE UNCHANGED panelVars
  BY <1>5 DEF panelVars, gameVars, formVars, PanelTypeOK
<1> QED BY <1>1, <1>2, <1>3, <1>4, <1>5 DEF PanelNext

\* Every variable of the panel and of the files keeps its type, and the display that is picked is
\* one of the list (src/nemt.c:569-583).
THEOREM PanelTypeCorrect == PanelSpec => []PanelTypeOK
<1>1. PanelInit => PanelTypeOK
  BY InitTypes
<1>2. PanelTypeOK /\ [PanelNext]_panelVars => PanelTypeOK'
  BY NextTypes
<1> QED BY <1>1, <1>2, PTL DEF PanelSpec

-----------------------------------------------------------------------------
\* What the panel writes is read back as it was, by itself and by the runtime.
LEMMA AppliedFields ==
    ASSUME NEW f, NEW s \in Settings
    PROVE  /\ Applied(f, s).hasIni
           /\ Applied(f, s).state = "on"
           /\ Applied(f, s).ini.monitor = picked
           /\ Applied(f, s).ini.key = f.ini.key
           /\ Applied(f, s).ini.log = LoadNumber(f.ini.log)
           /\ \A o \in Option: Applied(f, s).ini.opt[o] = Writes(s[o])
           /\ \A o \in InRecord \cup {"vsync"}: Applied(f, s).record[o] = Writes(s[o])
BY DEF Applied, WriteSettings

LEMMA RemovedState == ASSUME NEW f \in Files PROVE Removed(f).state \in {"none", "off"}
BY DEF Removed, Files

LEMMA WritesReads == ASSUME NEW b \in BOOLEAN, NEW d PROVE Reads(Writes(b), d) = b
BY DEF Reads, Writes

LEMMA RoundTrip ==
    ASSUME NEW f \in Files, NEW s \in Settings, NEW wide \in BOOLEAN, NEW o \in Option
    PROVE  LoadSelectionSettings(Applied(f, s), wide)[o] = (s[o] /\ (o = "cab" => wide))
<1> DEFINE g == Applied(f, s)
<1>1. s[o] \in BOOLEAN
  BY DEF Settings
<1>2. g.hasIni /\ g.state = "on" /\ g.ini.opt[o] = Writes(s[o])
  BY AppliedFields
<1>3. o \in InRecord \cup {"vsync"} => g.record[o] = Writes(s[o])
  BY AppliedFields
<1> SUFFICES LoadSelectionSettings(g, wide)[o] = (s[o] /\ (o = "cab" => wide))
  OBVIOUS
<1>0. LoadSelectionSettings(g, wide)[o] =
        CASE o = "vsync" -> Reads(g.ini.opt[o], SettingsFromManifest(g)[o])
          [] o = "cab"   -> wide /\ LoadSettings(g)[o]
          [] o \in InIni \ {"cab"} -> LoadSettings(g)[o]
          [] OTHER       -> SettingsFromManifest(g)[o]
  <2>1. g.state \in {"on", "legacy"} /\ g.hasIni
    BY <1>2
  <2> QED BY <2>1, Zenon DEF LoadSelectionSettings
<1> HIDE DEF g
<1>4. LoadSettings(g)[o] = s[o]
  BY <1>1, <1>2, WritesReads DEF LoadSettings
<1>5. Writes(s[o]) # "missing" /\ (Writes(s[o]) = "true") = s[o]
  BY <1>1 DEF Writes
<1>6. o \in InRecord => SettingsFromManifest(g)[o] = s[o]
  <2>1. CASE o = "window"
    BY <1>1, <1>2, <1>3, <1>5, <2>1, Zenon DEF SettingsFromManifest, InRecord
  <2>2. CASE o = "end"
    BY <1>1, <1>2, <1>3, <1>5, <2>2, Zenon DEF SettingsFromManifest, InRecord
  <2>3. CASE o = "crawl"
    BY <1>1, <1>2, <1>3, <1>5, <2>3, Zenon DEF SettingsFromManifest, InRecord
  <2>4. CASE o = "fps" \/ o = "verbose"
    BY <1>1, <1>2, <1>3, <1>5, <2>4, Zenon DEF SettingsFromManifest, InRecord
  <2> QED BY <2>1, <2>2, <2>3, <2>4 DEF InRecord
<1>7. CASE o = "vsync"
  <2>1. LoadSelectionSettings(g, wide)["vsync"]
            = Reads(g.ini.opt["vsync"], SettingsFromManifest(g)["vsync"])
    <3>1. g.state \in {"on", "legacy"} /\ g.hasIni
      BY <1>2
    <3>2. "vsync" \in Option /\ "vsync" \notin InIni /\ "vsync" # "cab"
      BY DEF Option, InIni
    <3> QED BY <3>1, <3>2, Zenon DEF LoadSelectionSettings
  <2> QED BY <1>1, <1>2, <1>7, <2>1, WritesReads
<1>8. CASE o = "cab"
  <2>1. LoadSelectionSettings(g, wide)[o] = (wide /\ LoadSettings(g)[o])
    BY <1>0, <1>8, Zenon
  <2> QED BY <1>1, <1>4, <1>8, <2>1
<1>9. CASE o \in InIni \ {"cab"}
  <2>1. o # "vsync" /\ o # "cab"
    BY <1>9 DEF InIni
  <2>2. LoadSelectionSettings(g, wide)[o] = LoadSettings(g)[o]
    BY <1>0, <1>9, <2>1, Zenon
  <2> QED BY <1>1, <1>4, <2>1, <2>2
<1>10. CASE o \in InRecord
  <2>1. o # "vsync" /\ o # "cab" /\ o \notin InIni
    BY <1>10 DEF InRecord, InIni
  <2>2. LoadSelectionSettings(g, wide)[o] = SettingsFromManifest(g)[o]
    BY <1>0, <2>1, Zenon
  <2> QED BY <1>1, <1>6, <1>10, <2>1, <2>2
<1> QED BY <1>7, <1>8, <1>9, <1>10 DEF Option

\* What ui_to_settings makes of the boxes.
LEMMA UiBoxes ==
    ASSUME PanelTypeOK, NEW o \in Option
    PROVE  /\ UiToSettings[o] # checks[o] =>
                \/ o = "vsync" /\ ~checks["fps"]
                \/ o = "end" /\ checks["crawl"]
                \/ o = "cores" /\ ~cpu
                \/ o = "cab" /\ info # "wide"
           /\ UiToSettings["cab"] => info = "wide"
           /\ UiToSettings["crawl"] => UiToSettings["end"]
<1>1. checks \in [Option -> BOOLEAN]
  BY DEF PanelTypeOK, Settings
<1>2. /\ UiToSettings["vsync"] = (checks["vsync"] /\ checks["fps"])
      /\ UiToSettings["cab"] = (checks["cab"] /\ info = "wide")
      /\ UiToSettings["end"] = (checks["end"] \/ checks["crawl"])
      /\ UiToSettings["crawl"] = checks["crawl"]
      /\ cpu => UiToSettings["cores"] = checks["cores"]
  BY OptionNames, Zenon DEF UiToSettings
<1>3. o \notin {"cores", "vsync", "cab", "end"} => UiToSettings[o] = checks[o]
  BY Zenon DEF UiToSettings
<1> QED BY <1>1, <1>2, <1>3, OptionNames

\* A step that ends with "settings saved".
LEMMA SavedStep ==
    ASSUME PanelTypeOK, Saved
    PROVE  /\ files' = Applied(files, UiToSettings)
           /\ info' = info /\ exe = info /\ info \in {"narrow", "wide"}
           /\ SettingsToUi(LoadSelectionSettings(files', info = "wide"), LoadMonitor(files'), info)
<1> DEFINE removes == FALSE \/ ~AnyFeatureEnabled(UiToSettings)
<1>1. /\ ~Refused(removes)
      /\ info # "none"
      /\ files' = IF removes THEN Removed(files) ELSE Applied(files, UiToSettings)
      /\ LoadSelection(files')
      /\ files'.state = "on" /\ info' # "none"
  BY DEF Saved, PanelApply, Save
<1>2. files' = Applied(files, UiToSettings)
  <2>1. Removed(files).state # "on"
    BY RemovedState DEF PanelTypeOK
  <2> QED BY <1>1, <2>1
<1>3. exe = info
  BY <1>1 DEF Refused
<1>4. info \in {"narrow", "wide"}
  BY <1>1 DEF PanelTypeOK
<1>5. /\ info' = exe
      /\ SettingsToUi(LoadSelectionSettings(files', exe = "wide"), LoadMonitor(files'), exe)
  BY <1>1 DEF LoadSelection
<1> QED BY <1>2, <1>3, <1>4, <1>5

\* What is on the form when Apply is pressed is on the form when the saved files have been shown
\* again (src/nemt.c:172-195, 239-268, 635-658).
THEOREM FormRoundTrip == PanelSpec => SavedAsShown
<1>1. ASSUME PanelTypeOK, Saved, NEW o \in Option, checks'[o] # checks[o]
      PROVE  \/ o = "vsync" /\ ~checks["fps"]
             \/ o = "end" /\ checks["crawl"]
             \/ o = "cores" /\ ~cpu
             \/ o = "cab" /\ info # "wide"
  <2>1. checks' = LoadSelectionSettings(Applied(files, UiToSettings), info = "wide")
    BY <1>1, SavedStep DEF SettingsToUi
  <2>2. checks'[o] = (UiToSettings[o] /\ (o = "cab" => info = "wide"))
    <3>1. files \in Files /\ UiToSettings \in Settings
      BY <1>1, UiType DEF PanelTypeOK
    <3> QED BY <2>1, <3>1, RoundTrip
  <2>3. checks[o] \in BOOLEAN /\ UiToSettings[o] \in BOOLEAN
    BY <1>1, UiType DEF PanelTypeOK, Settings
  <2> QED BY <1>1, <2>2, <2>3, UiBoxes
<1>2. PanelTypeOK /\ [PanelNext]_panelVars => [Saved =>
          \A o \in Option:
              checks'[o] # checks[o] =>
                  \/ o = "vsync" /\ ~checks["fps"]
                  \/ o = "end" /\ checks["crawl"]
                  \/ o = "cores" /\ ~cpu
                  \/ o = "cab" /\ info # "wide"]_panelVars
  BY <1>1
<1> QED BY <1>2, PanelTypeCorrect, PTL DEF PanelSpec, SavedAsShown

\* What was set by hand survives Apply (src/nemt.c:158-169, 635-641).
THEOREM ManualSettingsKept == PanelSpec => ManualKept
<1>1. ASSUME PanelTypeOK, Saved
      PROVE  /\ files'.ini.key = files.ini.key
             /\ files.ini.log # "odd" => files'.ini.log = files.ini.log
             /\ ~cpu => (files'.ini.opt["cores"] = "true") = (files.ini.opt["cores"] = "true")
  <2>1. files' = Applied(files, UiToSettings) /\ UiToSettings \in Settings
    BY <1>1, SavedStep, UiType
  <2>2. /\ files'.ini.key = files.ini.key
        /\ files'.ini.log = LoadNumber(files.ini.log)
        /\ files'.ini.opt["cores"] = Writes(UiToSettings["cores"])
    BY <2>1, AppliedFields, OptionNames
  <2>3. ~cpu => UiToSettings["cores"] = (files.ini.opt["cores"] = "true")
    <3>1. ~cpu => UiToSettings["cores"] = LoadSettings(files)["cores"]
      BY OptionNames, Zenon DEF UiToSettings
    <3>2. LoadSettings(files)["cores"] = (files.ini.opt["cores"] = "true")
      BY OptionNames DEF LoadSettings, Reads, Defaults
    <3> QED BY <3>1, <3>2
  <2>4. files.ini.log # "odd" => files'.ini.log = files.ini.log
    BY <2>2 DEF LoadNumber
  <2>5. ~cpu => (files'.ini.opt["cores"] = "true") = (files.ini.opt["cores"] = "true")
    BY <2>2, <2>3 DEF Writes
  <2> QED BY <2>2, <2>4, <2>5
<1>2. PanelTypeOK /\ [PanelNext]_panelVars => [Saved /\ files.hasIni =>
          /\ files'.ini.key = files.ini.key
          /\ files.ini.log # "odd" => files'.ini.log = files.ini.log
          /\ ~cpu => (files'.ini.opt["cores"] = "true") = (files.ini.opt["cores"] = "true")]_panelVars
  BY <1>1
<1> QED BY <1>2, PanelTypeCorrect, PTL DEF PanelSpec, ManualKept

-----------------------------------------------------------------------------
\* The runtime accepts what the panel has written (runtime/config.h:16-102).
THEOREM WrittenIsAccepted == PanelSpec => []RuntimeAccepts
<1>1. PanelInit => RuntimeAccepts
  BY DEF PanelInit, RuntimeAccepts
<1>2. ASSUME PanelTypeOK, RuntimeAccepts, [PanelNext]_panelVars
      PROVE  RuntimeAccepts'
  <2>1. CASE \E remove \in BOOLEAN: Save(remove)
    <3>1. PICK remove \in BOOLEAN: Save(remove)
      BY <2>1
    <3> DEFINE removes == remove \/ ~AnyFeatureEnabled(UiToSettings)
    <3>2. files' = IF removes THEN Removed(files) ELSE Applied(files, UiToSettings)
      BY <3>1 DEF Save
    <3>3. CASE files' = Removed(files)
      BY <1>2, <3>3, RemovedState DEF RuntimeAccepts, PanelTypeOK
    <3>4. CASE files' = Applied(files, UiToSettings)
      <4>1. UiToSettings \in Settings
        BY <1>2, UiType
      <4>2. /\ \A o \in Option: files'.ini.opt[o] = Writes(UiToSettings[o])
            /\ files'.ini.log = LoadNumber(files.ini.log)
        BY <3>4, <4>1, AppliedFields
      <4>3. UiToSettings["crawl"] => UiToSettings["end"]
        BY <1>2, OptionNames, UiBoxes
      <4>4. Accepted(files'.ini) \/ files'.ini.key = "bad"
        BY <4>1, <4>2, <4>3, OptionNames DEF Accepted, LoadNumber, Writes, Settings
      <4> QED BY <4>4 DEF RuntimeAccepts
    <3> HIDE DEF removes
    <3> QED BY <3>2, <3>3, <3>4
  <2>2. CASE UNCHANGED <<files, edited>>
    BY <1>2, <2>2 DEF RuntimeAccepts
  <2>3. CASE EditIni
    BY <2>3 DEF EditIni, RuntimeAccepts
  <2>4. CASE Meddle
    <3>1. files' = [files EXCEPT !.state = "bad"] => files'.state # "on"
      BY <1>2 DEF PanelTypeOK, Files
    <3> QED BY <1>2, <2>4, <3>1 DEF Meddle, RuntimeAccepts
  <2>5. CASE SelectGame \/ (\E o \in Clickable: Click(o)) \/ Pick \/ Recommended \/ DisplayChange
             \/ SaveFails \/ Restart \/ UNCHANGED panelVars
    BY <2>2, <2>5 DEF SelectGame, Click, Pick, Recommended, DisplayChange, SaveFails, Restart,
                      OnlyForm, gameVars, panelVars
  <2> QED BY <1>2, <2>1, <2>3, <2>4, <2>5 DEF PanelNext, PanelApply, PanelUninstall
<1> QED BY <1>1, <1>2, PanelTypeCorrect, PTL DEF PanelSpec

\* The choice of a display outlives its disconnection, and Apply saves it and shows it again
\* (src/nemt.c:569-583, 848).
THEOREM DisplayChoiceKept == PanelSpec => DisplayKept
<1>1. ASSUME PanelTypeOK, [PanelNext]_panelVars, displays' # displays
      PROVE  picked' = picked
  <2>1. DisplayChange
    BY <1>1 DEF PanelNext, SelectGame, Click, Pick, Recommended, PanelApply, PanelUninstall, Save, SaveFails,
                Restart, EditIni, Meddle, OnlyForm, panelVars
  <2> QED BY <2>1 DEF DisplayChange, PopulateMonitors
<1>2. ASSUME PanelTypeOK, Saved
      PROVE  files'.ini.monitor = picked /\ picked' = picked
  <2>1. UiToSettings \in Settings
    BY <1>2, UiType
  <2>2. files'.ini.monitor = picked /\ files'.state = "on" /\ files'.hasIni
    BY <1>2, <2>1, SavedStep, AppliedFields
  <2>3. picked' = LoadMonitor(files')
    BY <1>2, SavedStep DEF SettingsToUi, PopulateMonitors
  <2> QED BY <2>2, <2>3 DEF LoadMonitor
<1>3. PanelTypeOK /\ [PanelNext]_panelVars =>
        [/\ displays' # displays => picked' = picked
         /\ Saved => files'.ini.monitor = picked /\ picked' = picked]_panelVars
  BY <1>1, <1>2
<1> QED BY <1>3, PanelTypeCorrect, PTL DEF PanelSpec, DisplayKept

\* Apply keeps every choice that has no control to show it (src/nemt.c:158-169, 569-583, 635-641).
THEOREM HiddenChoicesKept == PanelSpec => ChoicesKept
<1> QED BY ManualSettingsKept, DisplayChoiceKept DEF ChoicesKept

-----------------------------------------------------------------------------
\* The controls the property is about are those of SetValidControls for the boxes and the
\* selection of the moment.
Follows(e, c, i) ==
    /\ e["vsync"] = (i # "none" /\ c["fps"])
    /\ e["monitor"] = (i # "none" /\ c["window"])
    /\ e["tilt"] = (i # "none" /\ c["crawl"])
    /\ (\E x \in Option \cup {"monitor"}: e[x]) => i # "none"

LEMMA ControlsFollow == ASSUME NEW c \in Settings, NEW i PROVE Follows(SetValidControls(c, i), c, i)
BY OptionNames DEF SetValidControls, Follows, Settings

LEMMA FollowsIff == ASSUME PanelTypeOK PROVE DependentsFollow <=> Follows(enabled, checks, info)
<1>1. DOMAIN enabled = Option \cup {"monitor"}
  BY DEF PanelTypeOK
<1> QED BY <1>1 DEF DependentsFollow, Follows

LEMMA ShownFollows ==
    ASSUME NEW s \in Settings, NEW m, NEW i, SettingsToUi(s, m, i)
    PROVE  Follows(enabled', checks', i)
BY ControlsFollow DEF SettingsToUi

LEMMA LoadFollows ==
    ASSUME PanelTypeOK, NEW f \in Files, LoadSelection(f) PROVE Follows(enabled', checks', info')
<1>1. CASE /\ info' = exe
           /\ SettingsToUi(LoadSelectionSettings(f, exe = "wide"), LoadMonitor(f), exe)
  <2>1. LoadSelectionSettings(f, exe = "wide") \in Settings
    BY SelectionType
  <2> QED BY <1>1, <2>1, ShownFollows
<1>2. CASE info' = "none" /\ SettingsToUi(Nothing, Automatic, "none")
  BY <1>2, DefaultsType, ShownFollows
<1> QED BY <1>1, <1>2 DEF LoadSelection

\* A click leaves no dependent control behind: the ones it does not look at depend on boxes it
\* does not change.
LEMMA ClickFollows ==
    ASSUME PanelTypeOK, Follows(enabled, checks, info), NEW o \in Option, Click(o)
    PROVE  Follows(enabled', checks', info')
<1>1. checks' = Toggled(o) /\ info' = info /\ enabled[o]
  BY DEF Click
<1>2. checks' \in Settings /\ checks \in [Option -> BOOLEAN]
  BY <1>1, ToggledType DEF PanelTypeOK, Settings
<1>3. ASSUME NEW x \in Option \cup {"monitor"}
      PROVE  enabled'[x] = IF x \in Refreshed(o) THEN SetValidControls(checks', info)[x] ELSE enabled[x]
  BY DEF Click, PanelTypeOK
<1>4. info # "none"
  BY <1>1 DEF Follows
<1>5. /\ o # "fps" => checks'["fps"] = checks["fps"]
      /\ o # "window" => checks'["window"] = checks["window"]
      /\ o \notin {"crawl", "end"} => checks'["crawl"] = checks["crawl"]
  BY <1>1, <1>2, OptionNames DEF Toggled
<1>6. /\ o = "fps" => "vsync" \in Refreshed(o)
      /\ o = "window" => "monitor" \in Refreshed(o)
      /\ o \in {"crawl", "end"} => "tilt" \in Refreshed(o)
  BY Zenon DEF Refreshed
<1>7. Follows(SetValidControls(checks', info), checks', info)
  BY <1>2, ControlsFollow
<1>8. enabled'["vsync"] = (info # "none" /\ checks'["fps"])
  BY <1>3, <1>5, <1>6, <1>7, OptionNames DEF Follows
<1>9. enabled'["monitor"] = (info # "none" /\ checks'["window"])
  BY <1>3, <1>5, <1>6, <1>7, OptionNames DEF Follows
<1>10. enabled'["tilt"] = (info # "none" /\ checks'["crawl"])
  BY <1>3, <1>5, <1>6, <1>7, OptionNames DEF Follows
<1> QED BY <1>1, <1>4, <1>8, <1>9, <1>10 DEF Follows

\* A control that only matters together with a box follows that box, whichever handler changed it
\* (src/nemt.c:537-555, 840-845).
THEOREM DependentControlsFollow == PanelSpec => []DependentsFollow
<1>1. ASSUME PanelInit PROVE DependentsFollow
  <2>1. PanelTypeOK /\ checks \in Settings
    BY <1>1, InitTypes DEF PanelTypeOK
  <2>2. Follows(enabled, checks, info)
    BY <1>1, <2>1, ControlsFollow DEF PanelInit
  <2> QED BY <2>1, <2>2, FollowsIff
<1>2. ASSUME PanelTypeOK, PanelTypeOK', DependentsFollow, [PanelNext]_panelVars
      PROVE  DependentsFollow'
  <2>1. Follows(enabled, checks, info)
    BY <1>2, FollowsIff
  <2>2. SUFFICES Follows(enabled', checks', info')
    <3>1. DOMAIN enabled' = Option \cup {"monitor"}
      BY <1>2 DEF PanelTypeOK
    <3> QED BY <3>1 DEF DependentsFollow, Follows
  <2>3. CASE SelectGame
    BY <1>2, <2>3, LoadFollows DEF SelectGame, PanelTypeOK
  <2>4. CASE \E o \in Clickable: Click(o)
    BY <1>2, <2>1, <2>4, ClickFollows, PanelAssumption
  <2>5. CASE Recommended
    <3>1. PICK large \in BOOLEAN: SettingsToUi(Recommend(UiToSettings, large), picked, info)
      BY <2>5 DEF Recommended
    <3>2. Recommend(UiToSettings, large) \in Settings
      BY <1>2, UiType, RecommendType
    <3>3. info' = info
      BY <2>5 DEF Recommended
    <3> QED BY <3>1, <3>2, <3>3, ShownFollows
  <2>6. CASE \E remove \in BOOLEAN: Save(remove)
    BY <1>2, <2>6, LoadFollows DEF Save, PanelTypeOK
  <2>7. CASE SaveFails
    <3>1. checks \in Settings /\ enabled' = SetValidControls(checks, info)
      BY <1>2, <2>7 DEF SaveFails, PanelTypeOK
    <3>2. checks' = checks /\ info' = info
      BY <2>7 DEF SaveFails
    <3> QED BY <3>1, <3>2, ControlsFollow
  <2>8. CASE DisplayChange
    <3>1. /\ checks' = checks /\ info' = info
          /\ \A x \in Option \cup {"monitor"}: x # "highres" => enabled'[x] = enabled[x]
          /\ enabled'["highres"] => info # "none"
      BY <1>2, <2>8, OptionNames DEF DisplayChange, PanelTypeOK
    <3> QED BY <2>1, <3>1, OptionNames DEF Follows
  <2>9. CASE Restart
    BY <1>2, <2>9, OptionNames DEF Restart, PanelTypeOK, Follows, Nothing
  <2>10. CASE UNCHANGED <<enabled, checks, info>>
    BY <2>1, <2>10
  <2>11. CASE Pick \/ EditIni \/ Meddle \/ UNCHANGED panelVars
    BY <2>10, <2>11 DEF Pick, EditIni, Meddle, formVars, panelVars
  <2> QED BY <1>2, <2>3, <2>4, <2>5, <2>6, <2>7, <2>8, <2>9, <2>11 DEF PanelNext, PanelApply, PanelUninstall
<1> QED BY <1>1, <1>2, PanelTypeCorrect, PTL DEF PanelSpec

-----------------------------------------------------------------------------
\* The preference for fast cores outlives Apply on a machine that cannot tell them from the others
\* exactly when another option still has an effect, or nothing is installed (src/nemt.c:641,
\* 706-707).
THEOREM CoresOutliveApply == PanelSpec => CoresKeptExactly
<1>1. ASSUME PanelTypeOK, PanelApply, ~cpu, files.hasIni, files.ini.opt["cores"] = "true"
      PROVE  (files'.ini.opt["cores"] = "true") =
                 (AnyFeatureEnabled(UiToSettings) \/ files.state = "none")
  <2>1. files \in Files /\ UiToSettings \in Settings
    BY <1>1, UiType DEF PanelTypeOK
  <2>2. files' = IF ~AnyFeatureEnabled(UiToSettings) THEN Removed(files)
                 ELSE Applied(files, UiToSettings)
    BY <1>1 DEF PanelApply, Save
  <2>3. CASE AnyFeatureEnabled(UiToSettings)
    <3>1. files'.ini.opt["cores"] = Writes(UiToSettings["cores"])
      BY <2>1, <2>2, <2>3, AppliedFields, OptionNames
    <3>2. UiToSettings["cores"] = LoadSettings(files)["cores"]
      BY <1>1, OptionNames, Zenon DEF UiToSettings
    <3>3. LoadSettings(files)["cores"] = TRUE
      BY <1>1, OptionNames DEF LoadSettings, Reads
    <3> QED BY <2>3, <3>1, <3>2, <3>3 DEF Writes
  <2>4. CASE ~AnyFeatureEnabled(UiToSettings)
    <3>1. files' = Removed(files)
      BY <2>2, <2>4
    <3>2. files.state = "none" => files'.ini.opt["cores"] = "true"
      BY <1>1, <3>1 DEF Removed
    <3>3. files.state # "none" => files'.ini.opt["cores"] = "missing"
      BY <2>1, <3>1, OptionNames DEF Removed, DefaultIni, Files
    <3> QED BY <2>4, <3>2, <3>3
  <2> QED BY <2>3, <2>4
<1>2. PanelTypeOK /\ [PanelNext]_panelVars =>
        [PanelApply /\ ~cpu /\ files.hasIni /\ files.ini.opt["cores"] = "true" =>
            (files'.ini.opt["cores"] = "true") =
                (AnyFeatureEnabled(UiToSettings) \/ files.state = "none")]_panelVars
  BY <1>1
<1> QED BY <1>2, PanelTypeCorrect, PTL DEF PanelSpec, CoresKeptExactly

-----------------------------------------------------------------------------
\* After "settings saved" the form stands for the very settings that were saved.
LEMMA SavedSettings ==
    ASSUME PanelTypeOK, Saved
    PROVE  UiToSettings' = UiToSettings /\ picked' = picked /\ cpu' = cpu
<1>1. cpu' = cpu
  BY DEF Saved, PanelApply, Save
<1>2. /\ files' = Applied(files, UiToSettings) /\ info' = info
      /\ checks' = LoadSelectionSettings(files', info = "wide")
      /\ picked' = LoadMonitor(files')
  BY SavedStep DEF SettingsToUi, PopulateMonitors
<1>3. files \in Files /\ UiToSettings \in Settings /\ cpu \in BOOLEAN
  BY UiType DEF PanelTypeOK
<1>4. picked' = picked
  BY <1>2, <1>3, AppliedFields DEF LoadMonitor
<1>5. ASSUME NEW o \in Option PROVE checks'[o] = UiToSettings[o]
  <2>1. checks'[o] = (UiToSettings[o] /\ (o = "cab" => info = "wide"))
    BY <1>2, <1>3, RoundTrip
  <2>2. UiToSettings["cab"] => info = "wide"
    BY OptionNames, UiBoxes
  <2> QED BY <1>3, <2>1, <2>2 DEF Settings
<1>6. ASSUME NEW o \in Option PROVE UiToSettings'[o] = UiToSettings[o]
  <2>1. /\ UiToSettings["vsync"] = (checks["vsync"] /\ checks["fps"])
        /\ UiToSettings["end"] = (checks["end"] \/ checks["crawl"])
        /\ UiToSettings["cab"] = (checks["cab"] /\ info = "wide")
        /\ UiToSettings["fps"] = checks["fps"]
        /\ UiToSettings["crawl"] = checks["crawl"]
    BY OptionNames, Zenon DEF UiToSettings
  <2>2. CASE o = "cores" /\ cpu
    <3>1. UiToSettings'["cores"] = checks'["cores"]
      BY <1>1, <2>2, OptionNames, Zenon DEF UiToSettings
    <3> QED BY <1>5, <2>2, <3>1
  <2>3. CASE o = "cores" /\ ~cpu
    <3>1. UiToSettings'["cores"] = LoadSettings(files')["cores"]
      BY <1>1, <2>3, OptionNames, Zenon DEF UiToSettings
    <3>2. LoadSettings(files')["cores"] = Reads(Writes(UiToSettings["cores"]), Defaults["cores"])
      BY <1>2, <1>3, AppliedFields, OptionNames DEF LoadSettings
    <3>3. UiToSettings["cores"] \in BOOLEAN
      BY <1>3, OptionNames DEF Settings
    <3> QED BY <2>3, <3>1, <3>2, <3>3, WritesReads
  <2>4. CASE o = "vsync"
    <3>1. UiToSettings'["vsync"] = (checks'["vsync"] /\ checks'["fps"])
      BY OptionNames, Zenon DEF UiToSettings
    <3> QED BY <1>3, <1>5, <2>1, <2>4, <3>1, OptionNames DEF Settings, PanelTypeOK
  <2>5. CASE o = "cab"
    <3>1. UiToSettings'["cab"] = (checks'["cab"] /\ info' = "wide")
      BY OptionNames, Zenon DEF UiToSettings
    <3> QED BY <1>2, <1>5, <2>1, <2>5, <3>1, OptionNames DEF Settings, PanelTypeOK
  <2>6. CASE o = "end"
    <3>1. UiToSettings'["end"] = (checks'["end"] \/ checks'["crawl"])
      BY OptionNames, Zenon DEF UiToSettings
    <3> QED BY <1>5, <2>1, <2>6, <3>1, OptionNames DEF Settings, PanelTypeOK
  <2>7. CASE o \notin {"cores", "vsync", "cab", "end"}
    <3>1. UiToSettings'[o] = checks'[o]
      BY <2>7, Zenon DEF UiToSettings
    <3> QED BY <1>5, <3>1
  <2> QED BY <2>2, <2>3, <2>4, <2>5, <2>6, <2>7
<1>7. UiToSettings' = UiToSettings
  <2>1. /\ UiToSettings = [o \in Option |-> UiToSettings[o]]
        /\ UiToSettings' = [o \in Option |-> UiToSettings'[o]]
    BY DEF UiToSettings
  <2> QED BY <1>6, <2>1
<1> QED BY <1>1, <1>4, <1>7

\* Saving once is enough: Apply again would write the same files (src/nemt.c:158-169, 635-658,
\* 706-712).
THEOREM SavingOnceIsEnough == PanelSpec => SettledAtOnce
<1>1. ASSUME PanelTypeOK, Saved
      PROVE  (AnyFeatureEnabled(UiToSettings) /\ Applied(files, UiToSettings) = files)'
  <2>1. files' = Applied(files, UiToSettings) /\ AnyFeatureEnabled(UiToSettings)
    <3>1. AnyFeatureEnabled(UiToSettings)
      <4>1. ~AnyFeatureEnabled(UiToSettings) => files' = Removed(files)
        BY <1>1 DEF Saved, PanelApply, Save
      <4> QED BY <1>1, <4>1, RemovedState DEF PanelTypeOK, Saved
    <3> QED BY <1>1, <3>1, SavedStep
  <2>2. UiToSettings' = UiToSettings /\ picked' = picked /\ cpu' = cpu
    BY <1>1, SavedSettings
  <2>3. files'.ini.key = files.ini.key /\ files'.ini.log = LoadNumber(files.ini.log)
    BY <1>1, <2>1, UiType, AppliedFields
  <2>4. LoadNumber(files'.ini.log) = LoadNumber(files.ini.log)
    BY <2>3 DEF LoadNumber
  <2>5. AnyFeatureEnabled(UiToSettings)'
    BY <2>1, <2>2 DEF AnyFeatureEnabled
  <2>6. Applied(files', UiToSettings) = Applied(files, UiToSettings)
    BY <2>3, <2>4 DEF Applied, WriteSettings
  <2>7. Applied(files, UiToSettings)' = Applied(files', UiToSettings)
    BY <2>2, Zenon DEF Applied, WriteSettings
  <2> QED BY <2>1, <2>5, <2>6, <2>7
<1>2. PanelTypeOK /\ [PanelNext]_panelVars =>
        [Saved => (AnyFeatureEnabled(UiToSettings) /\ Applied(files, UiToSettings) = files)']_panelVars
  BY <1>1
<1> QED BY <1>2, PanelTypeCorrect, PTL DEF PanelSpec, SettledAtOnce

\* Both together: what Apply saves is a fixed point of the panel.
THEOREM SavedFormSettles == PanelSpec => FormSettles
BY FormRoundTrip, SavingOnceIsEnough DEF FormSettles
=============================================================================

------------------------------- MODULE Panel -------------------------------
(***************************************************************************)
(* The control panel (src/nemt.c, src/settings_model.h) over the files it  *)
(* writes and the runtime reads (runtime/config.h).                        *)
(*                                                                         *)
(* An option has up to four places: the check box, the key of              *)
(* settings.ini, the member of installation.json, and the local Settings   *)
(* of a handler.  The panel shows some options from the record, others     *)
(* from settings.ini and one from both; the runtime reads settings.ini     *)
(* only; and settings.ini has options without a control, which the user    *)
(* edits by hand.                                                          *)
(*                                                                         *)
(* Everything runs on the window's thread, one message after the other;    *)
(* install_settings handles no messages, so nothing comes while g_busy.    *)
(* It happens at once or not at all: that is OwnedFiles, and InstallTx     *)
(* shows how.                                                              *)
(***************************************************************************)
EXTENDS Naturals

CONSTANTS
    Display,        \* the displays that can be connected
    Clickable,      \* bound: the options that are clicked
    Editable,       \* bound: the options whose key is edited by hand
    MaxEdits        \* bound: clicks, and changes from outside of the panel

\* One option stands for all those that are treated alike: "verbose" also for the log, "walking"
\* for the others that the recommendation leaves alone, "tilt" for those it turns on.  The cameras
\* are left out; they are "end" without its tie to crawling.
InRecord == {"fps", "end", "crawl", "window", "verbose"}
InIni == {"cores", "cab", "highres", "tilt", "walking"}
Option == InRecord \cup InIni \cup {"vsync"}

Automatic == "primary display"
Monitor == Display \cup {Automatic}

ASSUME PanelAssumption ==
    /\ Clickable \subseteq Option /\ Editable \subseteq Option
    /\ Automatic \notin Display
    /\ MaxEdits \in Nat

Settings == [Option -> BOOLEAN]
Text == {"true", "false", "missing", "odd"}     \* "odd" is no Boolean
Number == {"default", "custom", "odd"}          \* MaxLogSizeKB and its like; "odd" is out of range
Binding == {"default", "custom", "bad"}         \* the walking key; a "bad" one is reserved or taken
Ini == [opt: [Option -> Text], monitor: Monitor, log: Number, key: Binding]

\* The folder NEMT: whether there is a settings.ini, its keys, whose record installation.json is
\* ("on" and "off" are this runtime's, "legacy" is that of another one, enabled) and its members.
Files == [hasIni: BOOLEAN, ini: Ini, state: {"none", "on", "off", "legacy", "bad"},
          record: [InRecord \cup {"vsync"} -> Text \ {"odd"}]]

VARIABLES
    \* the machine and the game folder
    cpu,        \* g_cpu_supported
    displays,   \* the displays that are connected
    exe,        \* train.exe: "narrow", "wide" or "bad"
    wrapper,    \* a graphics DLL is beside it
    files,
    \* the panel
    info,       \* g_info: "none" or the kind of train.exe that is selected
    checks,     \* the check boxes
    enabled,    \* the controls that can be used
    picked,     \* the display that is selected
    offered,    \* the displays the list offers
    \* bound and history
    edits,
    edited      \* settings.ini is not as the panel has written it

gameVars == <<exe, wrapper, files>>
formVars == <<info, checks, enabled, picked, offered>>
panelVars == <<cpu, displays, gameVars, formVars, edits, edited>>

\* Type invariant; the display that is picked is one of the list.
PanelTypeOK ==
    /\ cpu \in BOOLEAN
    /\ displays \subseteq Display
    /\ exe \in {"narrow", "wide", "bad"} /\ wrapper \in BOOLEAN
    /\ files \in Files
    /\ info \in {"none", "narrow", "wide"}
    /\ checks \in Settings
    /\ enabled \in [Option \cup {"monitor"} -> BOOLEAN]
    /\ offered \subseteq Monitor /\ picked \in offered \cup {Automatic}
    /\ edits \in 0 .. MaxEdits
    /\ edited \in BOOLEAN

-----------------------------------------------------------------------------
\* ini_get and true_text, with what a key that is missing is taken for.
Reads(text, default) == IF text = "missing" THEN default ELSE text = "true"

\* bt
Writes(on) == IF on THEN "true" ELSE "false"

\* settings_defaults
Defaults == [o \in Option |-> o = "window"]

Nothing == [o \in Option |-> FALSE]

DefaultIni == [opt |-> [o \in Option |-> "missing"], monitor |-> Automatic,
               log |-> "default", key |-> "default"]

\* load_settings, for the options with a control.
LoadSettings(f) == [o \in Option |-> Reads(f.ini.opt[o], Defaults[o])]

\* Mutant: a number is passed on as it is.
LoadNumber_Unchecked(n) == n

\* load_settings, for a number.
LoadNumber(n) == IF n = "odd" THEN "default" ELSE n

\* write_settings of s and the display m, with the options without a control as they were loaded.
WriteSettings(f, s, m) ==
    [opt |-> [o \in Option |-> Writes(s[o])], monitor |-> m,
     log |-> LoadNumber(f.ini.log), key |-> f.ini.key]

\* config_valid, after read_config.
Accepted(c) ==
    /\ \A o \in Option: c.opt[o] # "odd"
    /\ c.log # "odd"
    /\ c.opt["crawl"] = "true" => c.opt["end"] = "true"
    /\ c.opt["walking"] = "true" => c.key # "bad"

-----------------------------------------------------------------------------
\* settings_from_manifest
SettingsFromManifest(f) ==
    LET active == f.state \in {"on", "legacy"}
        Bool(o) == active /\ f.record[o] = "true"
    IN  IF f.state = "none" THEN Defaults
        ELSE [o \in Option |->
                CASE o = "window" -> f.record[o] = "missing" \/ Bool(o)
                  [] o = "end"    -> Bool(o) /\ f.state = "on"
                  [] o = "crawl"  -> Bool(o) \/ f.state = "legacy"
                  [] o \in {"fps", "verbose", "vsync"} -> Bool(o)
                  [] OTHER        -> FALSE]

\* Mutant: one of the options that settings.ini alone has is not copied.
LoadSelectionSettings_NoTilt(f, wide) ==
    LET s == SettingsFromManifest(f)
        extra == LoadSettings(f)
    IN  IF f.state \in {"on", "legacy"} /\ f.hasIni
        THEN [o \in Option |->
                CASE o = "vsync" -> Reads(f.ini.opt[o], s[o])
                  [] o = "cab"   -> wide /\ extra[o]
                  [] o \in InIni \ {"cab", "tilt"} -> extra[o]
                  [] OTHER       -> s[o]]
        ELSE s

\* load_selection_settings, for a wide or a narrow train.exe.
LoadSelectionSettings(f, wide) ==
    LET s == SettingsFromManifest(f)
        extra == LoadSettings(f)
    IN  IF f.state \in {"on", "legacy"} /\ f.hasIni
        THEN [o \in Option |->
                CASE o = "vsync" -> Reads(f.ini.opt[o], s[o])
                  [] o = "cab"   -> wide /\ extra[o]
                  [] o \in InIni \ {"cab"} -> extra[o]
                  [] OTHER       -> s[o]]
        ELSE s

\* The display it leaves in the settings.
LoadMonitor(f) == IF f.state \in {"on", "legacy"} /\ f.hasIni THEN f.ini.monitor ELSE Automatic

\* set_valid_controls and refresh_crawl, with the boxes c and the selection i.
SetValidControls(c, i) ==
    [x \in Option \cup {"monitor"} |->
        /\ i # "none"
        /\ x = "cores"   => cpu
        /\ x = "cab"     => i = "wide"
        /\ x = "vsync"   => c["fps"]
        /\ x = "monitor" => c["window"]
        /\ x = "highres" => ~wrapper
        /\ x = "tilt"    => c["crawl"]]

\* Mutant: a display that is not connected is not offered.
PopulateMonitors_Connected(saved, now) ==
    /\ offered' = now \cup {Automatic}
    /\ picked' = IF saved \in now THEN saved ELSE Automatic

\* populate_monitors, with the displays that are connected now: the saved one is offered and selected even when it is not connected.
PopulateMonitors(saved, now) ==
    /\ offered' = now \cup {Automatic, saved}
    /\ picked' = saved

\* settings_to_ui of s and the display m, for the selection i.
SettingsToUi(s, m, i) ==
    /\ checks' = s
    /\ enabled' = SetValidControls(s, i)
    /\ PopulateMonitors(m, displays)

\* ui_to_settings: the boxes, over what settings.ini has at this moment.
UiToSettings ==
    [o \in Option |->
        CASE o = "cores" -> IF cpu THEN checks["cores"] ELSE LoadSettings(files)["cores"]
          [] o = "vsync" -> checks["vsync"] /\ checks["fps"]
          [] o = "cab"   -> checks["cab"] /\ info = "wide"
          [] o = "end"   -> checks["end"] \/ checks["crawl"]
          [] OTHER       -> checks[o]]

\* any_feature_enabled, of the settings that are effective on this machine.
AnyFeatureEnabled(s) == \E o \in Option \ {"vsync", "tilt"}: s[o] /\ (o = "cores" => cpu)

-----------------------------------------------------------------------------
PanelInit ==
    /\ cpu \in BOOLEAN /\ displays \in SUBSET Display
    /\ exe \in {"narrow", "wide"} /\ wrapper = FALSE
    /\ \E state \in {"none", "legacy"}:
          files = [hasIni |-> FALSE, ini |-> DefaultIni, state |-> state,
                   record |-> [o \in InRecord \cup {"vsync"} |-> "missing"]]
    /\ info = "none" /\ checks = Nothing
    /\ enabled = SetValidControls(checks, "none")
    /\ picked = Automatic /\ offered = {}
    /\ edits = 0 /\ edited = TRUE

OnlyForm == UNCHANGED <<cpu, displays, gameVars, edited>>

\* load_selection over the files f.  It fails when train.exe or the record cannot be used or
\* read, and leaves an empty form.
LoadSelection(f) ==
    \/ /\ exe # "bad" /\ f.state # "bad"
       /\ info' = exe
       /\ SettingsToUi(LoadSelectionSettings(f, exe = "wide"), LoadMonitor(f), exe)
    \/ /\ info' = "none"
       /\ SettingsToUi(Nothing, Automatic, "none")

\* A file is browsed for, dropped, or, at the start, found or given on the command line.
SelectGame ==
    /\ LoadSelection(files)
    /\ UNCHANGED edits
    /\ OnlyForm

Change == edits < MaxEdits /\ edits' = edits + 1

\* Crawling implies that the activity's end is prevented, in both directions.
Toggled(o) ==
    LET c == [checks EXCEPT ![o] = ~@]
    IN  IF o = "crawl" /\ c[o] THEN [c EXCEPT !["end"] = TRUE]
        ELSE IF o = "end" /\ ~c[o] THEN [c EXCEPT !["crawl"] = FALSE]
        ELSE c

\* Mutant: the end of crawling that a click on the other box brings about goes unnoticed.
Refreshed_NotEnd(o) ==
    CASE o = "crawl"   -> {"tilt"}
      [] o = "fps"     -> {"vsync"}
      [] o = "window"  -> {"monitor", "highres"}
      [] o = "highres" -> {"highres"}
      [] OTHER         -> {}

\* The controls that the handler of box o looks at again.
Refreshed(o) ==
    CASE o \in {"crawl", "end"} -> {"tilt"}
      [] o = "fps"     -> {"vsync"}
      [] o = "window"  -> {"monitor", "highres"}
      [] o = "highres" -> {"highres"}
      [] OTHER         -> {}

\* WM_COMMAND of a check box.
Click(o) ==
    /\ enabled[o] /\ Change
    /\ checks' = Toggled(o)
    /\ enabled' = [x \in DOMAIN enabled |->
                      IF x \in Refreshed(o) THEN SetValidControls(checks', info)[x] ELSE enabled[x]]
    /\ UNCHANGED <<info, picked, offered>>
    /\ OnlyForm

\* A display is picked; its CBN_SELCHANGE ends at the test for BN_CLICKED.
Pick ==
    /\ enabled["monitor"] /\ Change
    /\ picked' \in offered \ {picked}
    /\ UNCHANGED <<info, checks, enabled, offered>>
    /\ OnlyForm

\* settings_recommended, and the choice of high resolution when the display is large.
Recommend(s, large) ==
    [o \in Option |->
        CASE o = "cores"   -> cpu \/ s[o]
          [] o = "cab"     -> info = "wide"
          [] o = "verbose" -> FALSE
          [] o = "highres" -> IF wrapper THEN s[o] ELSE large
          [] o = "walking" -> s[o]
          [] OTHER         -> TRUE]

\* Use Recommended.
Recommended ==
    /\ info # "none"
    /\ \E large \in BOOLEAN: SettingsToUi(Recommend(UiToSettings, large), picked, info)
    /\ UNCHANGED <<info, edits>>
    /\ OnlyForm

\* WM_DISPLAYCHANGE
DisplayChange ==
    /\ displays' \in SUBSET Display \ {displays}
    /\ PopulateMonitors(picked, displays')
    /\ enabled' = [enabled EXCEPT !["highres"] = info # "none" /\ ~wrapper]
    /\ UNCHANGED <<cpu, gameVars, info, checks, edits, edited>>

-----------------------------------------------------------------------------
\* The files install_settings leaves behind.
Applied(f, s) ==
    [hasIni |-> TRUE, ini |-> WriteSettings(f, s, picked), state |-> "on",
     record |-> [o \in InRecord \cup {"vsync"} |-> Writes(s[o])]]

Removed(f) ==
    IF f.state = "none" THEN f
    ELSE [f EXCEPT !.hasIni = FALSE, !.ini = DefaultIni, !.state = "off"]

\* What it refuses: another train.exe than the selected one, a record it cannot use, and a
\* folder without one.
Refused(remove) ==
    \/ exe # info
    \/ files.state = "bad"
    \/ ~remove /\ files.hasIni /\ files.state = "none"

\* do_save.  Apply removes the toolkit when no option has an effect.
Save(remove) ==
    LET s == UiToSettings
        removes == remove \/ ~AnyFeatureEnabled(s)
    IN  /\ info # "none"
        /\ ~Refused(removes)
        /\ files' = IF removes THEN Removed(files) ELSE Applied(files, s)
        /\ edited' = (edited /\ removes)
        /\ LoadSelection(files')
        /\ UNCHANGED <<cpu, displays, exe, wrapper, edits>>

PanelApply == Save(FALSE)
PanelUninstall == Save(TRUE)

\* do_save, when install_settings refuses, or fails and rolls back.
SaveFails ==
    /\ info # "none"
    /\ enabled' = SetValidControls(checks, info)
    /\ UNCHANGED <<info, checks, picked, offered, edits>>
    /\ OnlyForm

-----------------------------------------------------------------------------
\* The panel is closed and started again, maybe on another machine.
Restart ==
    /\ cpu' \in BOOLEAN
    /\ info' = "none" /\ checks' = Nothing
    /\ enabled' = [x \in DOMAIN enabled |-> FALSE]
    /\ picked' = Automatic /\ offered' = {}
    /\ UNCHANGED <<displays, gameVars, edits, edited>>

\* settings.ini is edited by hand, or put there.
EditIni ==
    /\ Change
    /\ \/ \E o \in Editable, t \in Text: files' = [files EXCEPT !.hasIni = TRUE, !.ini.opt[o] = t]
       \/ \E n \in Number: files' = [files EXCEPT !.hasIni = TRUE, !.ini.log = n]
       \/ \E b \in Binding: files' = [files EXCEPT !.hasIni = TRUE, !.ini.key = b]
       \/ \E m \in Display: files' = [files EXCEPT !.hasIni = TRUE, !.ini.monitor = m]
    /\ edited' = TRUE
    /\ UNCHANGED <<cpu, displays, exe, wrapper, formVars>>

\* Another program changes train.exe, the graphics DLL or the record.
Meddle ==
    /\ Change
    /\ \/ exe' \in {"narrow", "wide", "bad"} /\ UNCHANGED <<wrapper, files>>
       \/ wrapper' = ~wrapper /\ UNCHANGED <<exe, files>>
       \/ files' = [files EXCEPT !.state = "bad"] /\ UNCHANGED <<exe, wrapper>>
    /\ UNCHANGED <<cpu, displays, formVars, edited>>

PanelNext ==
    \/ SelectGame
    \/ \E o \in Clickable: Click(o)
    \/ Pick
    \/ Recommended
    \/ DisplayChange
    \/ PanelApply
    \/ PanelUninstall
    \/ SaveFails
    \/ Restart
    \/ EditIni
    \/ Meddle

PanelSpec == PanelInit /\ [][PanelNext]_panelVars

-----------------------------------------------------------------------------
\* "Settings saved" is shown.
Saved == files'.state = "on" /\ info' # "none" /\ PanelApply

\* What is on the form when Apply is pressed is on the form when the saved files have been shown
\* again: no box that could be used changes on the way through settings.ini, the record and the
\* two readers, except for the frame limit without unlocked frames and the end of the activity
\* under crawling, which the panel itself puts right.
SavedAsShown ==
    [][Saved =>
          \A o \in Option:
              checks'[o] # checks[o] =>
                  \/ o = "vsync" /\ ~checks["fps"]
                  \/ o = "end" /\ checks["crawl"]
                  \/ o = "cores" /\ ~cpu
                  \/ o = "cab" /\ info # "wide"]_panelVars

\* The runtime accepts what the panel has written, whatever was edited by hand before, as long as
\* the key bindings are usable (the panel copies these without looking at them).
RuntimeAccepts ==
    files.state = "on" /\ ~edited /\ files.ini.key # "bad" => Accepted(files.ini)

\* What was set by hand survives Apply, and so does the preference for fast cores on a machine
\* that cannot tell them from the others.
ManualKept ==
    [][Saved /\ files.hasIni =>
          /\ files'.ini.key = files.ini.key
          /\ files.ini.log # "odd" => files'.ini.log = files.ini.log
          /\ ~cpu => (files'.ini.opt["cores"] = "true") = (files.ini.opt["cores"] = "true")]_panelVars

\* A control that only matters together with a box follows that box, whichever handler changed
\* it, and nothing but Browse can be used without a selection.
DependentsFollow ==
    /\ enabled["vsync"] = (info # "none" /\ checks["fps"])
    /\ enabled["monitor"] = (info # "none" /\ checks["window"])
    /\ enabled["tilt"] = (info # "none" /\ checks["crawl"])
    /\ (\E x \in DOMAIN enabled: enabled[x]) => info # "none"

\* The choice of a display outlives its disconnection: connecting and disconnecting does not
\* change what is picked, and Apply saves it and shows it again.
DisplayKept ==
    [][/\ displays' # displays => picked' = picked
       /\ Saved => files'.ini.monitor = picked /\ picked' = picked]_panelVars

\* What Apply writes keeps what the user has chosen where no control shows it now: settings
\* made by hand, a preference that is disabled, a display that is not there.
ChoicesKept == ManualKept /\ DisplayKept

\* Documented (docs/cpu-preference.md:21): Apply preserves the saved preference for fast cores
\* when its box is disabled.
CoresKept ==
    [][PanelApply /\ ~cpu /\ files.hasIni /\ files.ini.opt["cores"] = "true" =>
          files'.ini.opt["cores"] = "true"]_panelVars
\* Exactly then it does: when another option still has an effect, or nothing is installed that
\* could be removed.
CoresKeptExactly ==
    [][PanelApply /\ ~cpu /\ files.hasIni /\ files.ini.opt["cores"] = "true" =>
          (files'.ini.opt["cores"] = "true") =
              (AnyFeatureEnabled(UiToSettings) \/ files.state = "none")]_panelVars

\* Saving once is enough: Apply pressed again over what "settings saved" has left on the form
\* would write the same settings.ini and the same record.
SettledAtOnce == [][Saved => (AnyFeatureEnabled(UiToSettings) /\ Applied(files, UiToSettings) = files)']_panelVars
\* What Apply saves is a fixed point of the panel: shown again it is the form that was saved, and
\* saved again it is the same files.
FormSettles == SavedAsShown /\ SettledAtOnce
=============================================================================

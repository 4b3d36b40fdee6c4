------------------------------- MODULE Editors -------------------------------
(***************************************************************************)
(* The editors' window and keyboard (runtime/editors.h editor_frame,       *)
(* editor_toggle_fullscreen, editor_proc, editor_rebuild;                  *)
(* editor_keyboard.h editor_key_event_hook; editor_keys.h                  *)
(* editor_key_swap).                                                       *)
(*                                                                         *)
(* An editor's window gets a frame that can be sized, and Alt+Enter takes  *)
(* all of it away.  The launcher, which shares the window, gets its own    *)
(* frame back in its first frame after an editor.  A new size is given to  *)
(* the renderer at the start of a frame, some time after the last change.  *)
(*                                                                         *)
(* Keys are swapped in the events the game reads: the arrows become the    *)
(* keys that move the camera, and with Ctrl two more of them, and those    *)
(* keys become nothing.  A release is given the meaning of its press, as   *)
(* the focus and the modifiers can have changed in between.                *)
(***************************************************************************)
EXTENDS Naturals

CONSTANTS
    Editor,   \* the modes with an editor: 1 (routes), 3 (activities), 4 (cabs)
    Size,     \* the sizes a window can have
    Launched, \* the launcher's own
    Arrow,    \* the arrow keys
    Letter,   \* the keys of the six bindings
    Bound,    \* Bound[a]: the binding of an arrow
    CtrlBound \* CtrlBound[a]: its binding with Ctrl, where it has one

ASSUME EditorsAssumption ==
    /\ "launcher" \notin Editor /\ Launched \in Size
    /\ {"nothing", "not held"} \cap (Arrow \cup Letter) = {}
    /\ Bound \in [Arrow -> Letter]
    /\ DOMAIN CtrlBound \subseteq Arrow /\ CtrlBound \in [DOMAIN CtrlBound -> Letter]

VARIABLES
    mode,       \* editor_mode()
    last_mode,  \* editor_last_mode
    windows,    \* editor_windows
    frame_of,   \* the style of the window: the launcher's, an editor's, or none
    fullscreen, \* editor_fullscreen
    saved,      \* editor_saved_style
    base,       \* editor_base_style
    resize,     \* editor_pending
    sizing,     \* editor_sizing
    size,       \* the size of the window
    rendered,   \* the size the renderer was built for
    unseen,     \* an editor was left without a frame since it was entered (history)
    focus,      \* editor_route_focus()
    mods,       \* of Ctrl and Alt, those that the game takes to be held down
    down,       \* the other keys that are held down
    routes,     \* editor_key_routes of a key in editor_key_held
    pressed,    \* the keys the game takes to be held down
    stuck       \* those of them whose release the game was not told of (history)

windowVars  == <<mode, last_mode, windows, frame_of, fullscreen, saved, base,
                 resize, sizing, size, rendered, unseen>>
keyVars     == <<focus, mods, down, routes, pressed, stuck>>
editorsVars == <<windowVars, keyVars>>

Style == {"launcher", "editor", "none"}
Key   == Arrow \cup Letter

EditorsTypeOK ==
    /\ {mode, last_mode} \subseteq Editor \cup {"launcher"}
    /\ {windows, fullscreen, resize, sizing, unseen, focus} \subseteq BOOLEAN
    /\ {frame_of, saved, base} \subseteq Style
    /\ {size, rendered} \subseteq Size
    /\ routes \in [Key -> Key \cup {"nothing", "not held"}]
    /\ mods \subseteq {"ctrl", "alt"} /\ down \subseteq Key
    /\ pressed \subseteq Key /\ stuck \subseteq Key

EditorsInit ==
    /\ mode = "launcher" /\ last_mode = "launcher"
    /\ windows = TRUE /\ fullscreen = FALSE /\ resize = FALSE /\ sizing = FALSE
    /\ frame_of = "launcher" /\ saved = "launcher" /\ base = "launcher"
    /\ size = Launched /\ rendered = Launched
    /\ unseen = FALSE /\ focus = FALSE
    /\ mods = {} /\ down = {} /\ pressed = {} /\ stuck = {}
    /\ routes = [k \in Key |-> "not held"]

-----------------------------------------------------------------------------
(* The window. *)

\* The style that is left when a fullscreen window is toggled back.
Plain == IF fullscreen THEN saved ELSE frame_of

\* Mutant: the launcher's frame is saved as the window happens to be.
EnterEditor_KeepFullscreen(to) ==
    /\ fullscreen' = FALSE
    /\ base' = IF last_mode = "launcher" THEN frame_of ELSE base
    /\ frame_of' = "editor"
    /\ size' = to

\* The first frame in an editor undoes a fullscreen that was toggled before it.
EnterEditor(to) ==
    /\ fullscreen' = FALSE
    /\ base' = IF last_mode = "launcher" THEN Plain ELSE base
    /\ frame_of' = "editor"
    /\ size' = to

\* A size that the renderer cannot take switches the feature off.
editor_rebuild(accepted) ==
    /\ windows' = (accepted \/ size' = rendered)
    /\ rendered' = IF accepted THEN size' ELSE rendered

\* due: the delay is over, the window is not minimized and its size is possible.
EditorFrame(due, accepted, to) ==
    LET entered == mode # last_mode
        apply   == (resize \/ entered) /\ due /\ ~sizing
    IN  /\ mode # "launcher" /\ windows
        /\ IF entered THEN EnterEditor(to)
                      ELSE UNCHANGED <<fullscreen, base, frame_of, size>>
        /\ resize' = ((resize \/ entered) /\ ~apply)
        /\ IF apply THEN editor_rebuild(accepted) ELSE UNCHANGED <<windows, rendered>>
        /\ unseen' = (unseen /\ ~entered)
        /\ last_mode' = mode
        /\ UNCHANGED <<mode, saved, sizing, keyVars>>

\* The launcher's frame is put around what the game has built for it.  Without the
\* feature a frame in an editor does as little as another one in the launcher.
LauncherFrame ==
    LET left == last_mode # "launcher" /\ windows
    IN  /\ mode = "launcher" \/ ~windows
        /\ IF left /\ mode = "launcher"
           THEN /\ fullscreen' = FALSE /\ resize' = FALSE
                /\ frame_of' = base
                /\ size' = rendered
                /\ unseen' = FALSE
           ELSE UNCHANGED <<fullscreen, resize, frame_of, size, unseen>>
        /\ last_mode' = mode
        /\ UNCHANGED <<mode, windows, saved, base, sizing, rendered, keyVars>>

\* Alt+Enter.  The toolkit gets the monitor's size, or the old one back.
editor_toggle_fullscreen(to) ==
    /\ windows /\ mode # "launcher"
    /\ fullscreen' = ~fullscreen
    /\ saved' = IF fullscreen THEN saved ELSE frame_of
    /\ frame_of' = IF fullscreen THEN saved ELSE "none"
    /\ resize' = TRUE
    /\ size' = to
    /\ UNCHANGED <<mode, last_mode, windows, base, sizing, rendered, unseen, keyVars>>

\* Only an editor with the feature notices that its window is being sized.
WindowSized(to) ==
    /\ size' = to
    /\ resize' = (resize \/ (windows /\ mode # "launcher"))
    /\ UNCHANGED <<mode, last_mode, windows, frame_of, fullscreen, saved, base,
                   sizing, rendered, unseen, keyVars>>

SizeMove(enter) ==
    /\ windows /\ mode # "launcher"
    /\ sizing' = enter
    /\ resize' = (resize \/ ~enter)
    /\ UNCHANGED <<mode, last_mode, windows, frame_of, fullscreen, saved, base,
                   size, rendered, unseen, keyVars>>

\* The game leaves one mode for another, and builds its renderer for that.
ModeChanges(to, built) ==
    /\ mode' = to /\ to # mode
    /\ rendered' = built
    /\ unseen' = (unseen \/ to = last_mode)
    /\ UNCHANGED <<last_mode, windows, frame_of, fullscreen, saved, base,
                   resize, sizing, size, keyVars>>

-----------------------------------------------------------------------------
(* The keys. *)

\* Alt, and Ctrl with a key that has no binding of its own, keep a key what it is.
editor_key_swap(k) ==
    IF "alt" \in mods THEN k
    ELSE IF "ctrl" \in mods
         THEN IF k \in DOMAIN CtrlBound THEN CtrlBound[k] ELSE k
         ELSE IF k \in Arrow THEN Bound[k] ELSE IF k \in Letter THEN "nothing" ELSE k

\* What the game was told that k is.
Meaning(k) == IF routes[k] = "not held" THEN k ELSE routes[k]

Press(k) ==
    LET mapped == IF focus THEN editor_key_swap(k) ELSE k
    IN  /\ k \notin down /\ down' = down \cup {k}
        /\ routes' = [routes EXCEPT ![k] = mapped]
        /\ pressed' = pressed \cup ({mapped} \ {"nothing"})
        /\ stuck' = stuck \ {mapped}
        /\ UNCHANGED <<windowVars, focus, mods>>

\* Mutant: a release is mapped as a press would be.
Release_MapAgain(k) ==
    LET mapped == IF focus THEN editor_key_swap(k) ELSE k
    IN  /\ k \in down /\ down' = down \ {k}
        /\ routes' = [routes EXCEPT ![k] = "not held"]
        /\ pressed' = pressed \ {mapped}
        /\ stuck' = stuck \ {mapped}
        /\ UNCHANGED <<windowVars, focus, mods>>

Release(k) ==
    /\ k \in down /\ down' = down \ {k}
    /\ routes' = [routes EXCEPT ![k] = "not held"]
    /\ pressed' = pressed \ {Meaning(k)}
    /\ stuck' = stuck \ {Meaning(k)}
    /\ UNCHANGED <<windowVars, focus, mods>>

\* Without the keyboard, which another program has, the game reads no events.
PressElsewhere(k) ==
    /\ k \notin down /\ down' = down \cup {k}
    /\ ~focus
    /\ UNCHANGED <<windowVars, focus, mods, routes, pressed, stuck>>

ReleaseElsewhere(k) ==
    /\ k \in down /\ down' = down \ {k}
    /\ ~focus
    /\ stuck' = stuck \cup ({Meaning(k)} \cap pressed)
    /\ UNCHANGED <<windowVars, focus, mods, routes, pressed>>

FocusChanges ==
    /\ focus' = ~focus
    /\ UNCHANGED <<windowVars, mods, down, routes, pressed, stuck>>

\* Neither is an arrow or can be bound, so both stay what they are.
Modifier(m) ==
    /\ mods' = IF m \in mods THEN mods \ {m} ELSE mods \cup {m}
    /\ UNCHANGED <<windowVars, focus, down, routes, pressed, stuck>>

WindowNext ==
    \/ \E due \in BOOLEAN, accepted \in BOOLEAN, to \in Size : EditorFrame(due, accepted, to)
    \/ LauncherFrame
    \/ \E to \in Size : editor_toggle_fullscreen(to) \/ WindowSized(to)
    \/ \E enter \in BOOLEAN : SizeMove(enter)
    \/ \E to \in Editor \cup {"launcher"}, built \in Size : ModeChanges(to, built)

KeysNext ==
    \/ \E k \in Key : Press(k) \/ Release(k) \/ PressElsewhere(k) \/ ReleaseElsewhere(k)
    \/ \E m \in {"ctrl", "alt"} : Modifier(m)
    \/ FocusChanges

-----------------------------------------------------------------------------
(* Properties. *)

\* "Restore its frame around that client size instead of applying a stale maximized
\* editor placement": whatever was toggled, sized or left in whatever order, the
\* launcher has its own frame after the first frame in it, an editor has the one it
\* should have, and no change of an editor's size is forgotten.  It needs one frame
\* in the editor, as a fullscreen toggled before is undone by that frame only.
FrameRestored ==
    windows /\ ~unseen /\ mode = last_mode =>
       IF mode = "launcher"
       THEN frame_of = "launcher" /\ ~fullscreen /\ ~resize
       ELSE /\ frame_of = IF fullscreen THEN "none" ELSE "editor"
            /\ ~resize => rendered = size

\* "A release follows the mapping chosen by its matching press": a key that the game
\* takes to be down is what a key that is held was when it was pressed, however
\* focus and modifiers changed, unless its release never came to the game.
KeysReleased == pressed \subseteq stuck \cup {Meaning(k) : k \in down}

=============================================================================

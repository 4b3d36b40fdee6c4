----------------------------- MODULE OwnedFiles -----------------------------
(***************************************************************************)
(* What the installer promises about the three files it owns: an Apply or  *)
(* an Uninstall happens at once or not at all, and only on files that were *)
(* the installer's own.  The only other outcome is a transaction that died *)
(* or whose rollback failed, and then hurt says so until the next success. *)
(***************************************************************************)
CONSTANTS Config, Release, Record, NoFile, Foreign

VARIABLES files,  \* [settings, proxy, manifest]
          hurt    \* the worst incomplete transaction since the last success

vars == <<files, hurt>>

Ours == \/ files.proxy = NoFile
        \/ files.manifest \in Record /\ files.proxy = files.manifest.hash

Init == /\ files.settings \in {NoFile, Foreign}
        /\ files.proxy \in {NoFile, Foreign}
        /\ files.manifest \notin Record
        /\ hurt = "none"

Apply(c, r) ==
    /\ Ours
    /\ files.settings # Foreign
    /\ files' = [settings |-> c, proxy |-> r,
                 manifest |-> [enabled |-> TRUE, hash |-> r, cfg |-> c]]
    /\ hurt' = "none"

Uninstall ==
    /\ Ours /\ files.manifest \in Record
    /\ files' = [settings |-> NoFile, proxy |-> NoFile,
                 manifest |-> [files.manifest EXCEPT !.enabled = FALSE]]
    /\ hurt' = "none"

UserProxy ==
    /\ \E v \in {NoFile, Foreign} : files' = [files EXCEPT !.proxy = v]
    /\ UNCHANGED hurt

\* A transaction died or could not be undone: each file is as before, gone, or
\* as the transaction wanted it.  A foreign file is as before.
Hurt ==
    /\ Ours
    /\ hurt' \in {"remove", "install"}
    /\ hurt = "install" => hurt' = "install"
    /\ files.settings = Foreign => files'.settings = Foreign
    /\ files.proxy = Foreign => files'.proxy = Foreign
    /\ files'.settings \in {files.settings, NoFile} \cup Config
    /\ files'.proxy \in {files.proxy, NoFile} \cup Release
    /\ files'.manifest \in {files.manifest} \cup Record
    \* A cut-short uninstall never invents content.
    /\ hurt' = "remove" =>
          /\ files'.settings \in {files.settings, NoFile}
          /\ files'.proxy \in {files.proxy, NoFile}
          /\ files.manifest \in Record /\ files'.manifest.hash = files.manifest.hash

Next == \/ \E c \in Config, r \in Release : Apply(c, r)
        \/ Uninstall \/ UserProxy \/ Hurt

Spec == Init /\ [][Next]_vars
=============================================================================

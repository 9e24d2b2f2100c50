------------------------------ MODULE Editor ------------------------------
(***************************************************************************)
(* `podbench vscode` (launcher.py and editor.py) after its seat has landed: *)
(* the checks, the one question asked of the seat, VS Code's machine        *)
(* settings, the extensions and the window.                                *)
(*                                                                         *)
(* Several runs of the verb may work on one home at once, beside users who *)
(* edit its settings or delete its server, and a seat that dies.  Every    *)
(* child a run starts (ssh, kubectl, code) is a step of its own, and the   *)
(* write of the settings is two: the remote shell opens and truncates the  *)
(* file, and the content follows into what it opened, which need not be    *)
(* the file by then.                                                       *)
(*                                                                         *)
(* VS Code is external: the operators and actions under "VS Code" and "The *)
(* user and the seat" say what the code takes it to do.                    *)
(***************************************************************************)
EXTENDS Naturals, FiniteSets

CONSTANTS Runs,       \* invocations of the verb
          Desks,      \* the pods and the command lines they meet
          NoPath,     \* None, of a folder or an interpreter
          Attempts    \* bound: SERVER_CLI_ATTEMPTS

ASSUME AttemptsAssumption == Attempts \in Nat \ {0}

EXTENSIONS == [debugpy |-> {"ms-python.python", "ms-python.debugpy"},
               cppdbg  |-> {"ms-vscode.cpptools"},
               lldb    |-> {"vadimcn.vscode-lldb"},
               go      |-> {"golang.go"},
               coreclr |-> {}]
extensions_for(types) == UNION {EXTENSIONS[t] : t \in types}

(* A settings file: what it is, and the keys in it that matter.  "text" is  *)
(* JSONC; "declined" is an exclude a user turned off, "theirs" anything     *)
(* else of theirs.                                                          *)
SettingsFile == [kind : {"absent", "barred", "junk", "text"},
                 keys : SUBSET {"excludes", "interpreter", "declined", "theirs"}]

(* A desk: [pod, types, debugpy, narrates, egress, file, cmds, faults].    *)
(*   pod       [hotfix, app, identity, root, reused, key, alias]           *)
(*     hotfix    the halves of the layout it carries: "volume", "supervisor" *)
(*     app       how the application mounts the claim: "whole", "subPath"  *)
(*               or "none"                                                 *)
(*     identity  the seat was authored with the convention mounts          *)
(*     root      its home was mounted at /                                 *)
(*     reused    the run reconnected to it                                 *)
(*     key       authorized_keys: "present", "absent" or "unread"          *)
(*     alias     the wiring found an alias                                 *)
(*   types     the debuggers that fit the target                           *)
(*   debugpy   where the target's debugpy is: "image", "opt" or "claim"    *)
(*   narrates  the interpreter it names, or NoPath                         *)
(*   egress    an extension can be downloaded                              *)
(*   file      the settings the seat starts with                           *)
(*   cmds      run -> [code, socket, held]                                 *)
(*     code      what is on PATH: "none", "remote" or "desktop"            *)
(*     socket    --agent-socket: "none", "live" or "stale"                 *)
(*     held      the extensions of the laptop itself                       *)
(*   faults    how often a child may fail or somebody else interfere       *)
ASSUME DesksAssumption ==
  \A d \in Desks : /\ d.types \subseteq DOMAIN EXTENSIONS
                   /\ d.file \in SettingsFile
                   /\ d.faults \in Nat

VARIABLES desk,
          verb,       \* run -> where it is and what it holds
          up,         \* the seat's container runs
          home,       \* ~/.vscode-server: the settings, who has them open, extensions, server
          window,     \* run -> the window it asked for
          faults,     \* what may still happen
          was,        \* every extension that was ever unpacked here
          disturbed   \* runs whose settings somebody else changed: since, or amid the write

editorVars == <<desk, verb, up, home, window, faults, was, disturbed>>

Blank == [pc |-> "idle", wanted |-> {}, interpreter |-> NoPath, read |-> {}, todo |-> {},
          attempted |-> FALSE, missing |-> {}, left |-> 0,
          warned |-> FALSE, named |-> {}, claimed |-> {}, told |-> FALSE, landed |-> {}]

-----------------------------------------------------------------------------
(* The seat and the folder. *)

HOTFIX_APP_PATH == "/podbench/app"
seat_home == IF desk.pod.root THEN "/" ELSE "/home/podbench"

is_hotfixed == desk.pod.hotfix = {"volume", "supervisor"}

(* resolve_mounts refuses an application's subPath; the convention mounts   *)
(* degrade that to a note, and fall back to the constant path where the     *)
(* application does not mount the claim.                                   *)
resolve_mounts(mount) == IF mount = "subPath" THEN {} ELSE {HOTFIX_APP_PATH}
hotfix_claim_mounts == IF is_hotfixed THEN resolve_mounts(desk.pod.app) ELSE {}

(* Where this seat has the claim: a seat without the mounts has it nowhere. *)
seat_claim_path == IF desk.pod.identity THEN hotfix_claim_mounts ELSE {}

editor_folder == IF seat_claim_path = {} THEN seat_home ELSE HOTFIX_APP_PATH

(* The one directory, beside the target's own, that is searched for debugpy. *)
provision_destination == IF seat_claim_path = {} THEN "opt" ELSE "claim"

(* The tree the target's interpreter is in is the folder that opens. *)
interpreter_for_folder(path) == IF path = editor_folder THEN path ELSE NoPath

(* The key is looked for on a reconnect; what could not be read refuses nothing. *)
seat_authorises == IF desk.pod.reused THEN desk.pod.key ELSE "unread"
editor_key_refusal == seat_authorises = "absent"

_agent_answers(socket) == socket = "live"
forwarded_agent(socket) == socket = "none" \/ _agent_answers(socket)

resolve_editor(code) == code = "desktop"

-----------------------------------------------------------------------------
(* The machine settings. *)

File(kind, keys) == [kind |-> kind, keys |-> keys]
Absent == File("absent", {})
Guarded(file) == file.keys \cap {"excludes", "declined"} # {}

(* merge_machine_settings: what it adds to a document with these keys. *)
Additions(keys, interpreter) ==
  {k \in {"excludes"} : "declined" \notin keys} \cup {k \in {"interpreter"} : interpreter # NoPath}
merge_machine_settings(keys, interpreter) == keys \cup Additions(keys, interpreter)

(* None: nothing to add.  Absent or blank text is always written whole. *)
Unchanged(file, interpreter) ==
  /\ file.kind = "text"
  /\ file.keys # {}
  /\ Additions(file.keys, interpreter) \subseteq file.keys

-----------------------------------------------------------------------------
(* The steps of a run. *)

EditorInit ==
  /\ desk \in Desks
  /\ verb = [r \in Runs |-> Blank]
  /\ up = TRUE
  /\ home = [file |-> desk.file, open |-> {}, exts |-> {}, server |-> FALSE]
  /\ window = [r \in Runs |-> [state |-> "none", knows |-> {}, queued |-> {}]]
  /\ faults = desk.faults
  /\ was = {}
  /\ disturbed = [after |-> {}, amid |-> {}]

Becomes(r, local) == verb' = [verb EXCEPT ![r] = local]
Goes(r, pc) == Becomes(r, [verb[r] EXCEPT !.pc = pc])

(* A child that fails: the seat is gone, or this call met a fault. *)
ChildFails ==
  \/ ~up /\ UNCHANGED faults
  \/ up /\ faults > 0 /\ faults' = faults - 1
ChildWorks == up /\ UNCHANGED faults

(* vscode_command before anything travels over the alias: the CLI is found, *)
(* the seat lands, its key is not known to be absent, and it has an alias.  *)
(* open_seat: the folder is not /, and the agent to be forwarded answers.   *)
vscode_command(r) ==
  /\ verb[r].pc = "idle"
  /\ r \in DOMAIN desk.cmds
  /\ Goes(r, IF /\ resolve_editor(desk.cmds[r].code)
                /\ ~editor_key_refusal
                /\ desk.pod.alias
                /\ editor_folder # "/"
                /\ forwarded_agent(desk.cmds[r].socket)
             THEN "reach" ELSE "refused")
  /\ UNCHANGED <<desk, up, home, window, faults, was, disturbed>>

check_reachable(r) ==
  /\ verb[r].pc = "reach"
  /\ \/ ChildWorks /\ Goes(r, "author")
     \/ ChildFails /\ Goes(r, "refused")
  /\ UNCHANGED <<desk, up, home, window, was, disturbed>>

(* The debuggers that fit: debugpy only where it is looked for. *)
Assessed == {t \in desk.types : t = "debugpy" => desk.debugpy \in {"image", provision_destination}}

(* The interpreter is read off a failed run too, when it was narrated. *)
_author(r) ==
  /\ verb[r].pc = "author"
  /\ LET narrated == interpreter_for_folder(desk.narrates)
     IN \/ /\ ChildWorks
           /\ Becomes(r, [verb[r] EXCEPT !.pc = "settings", !.interpreter = narrated,
                                        !.wanted = extensions_for(Assessed)])
        \/ /\ ChildFails
           /\ \E found \in {NoPath, narrated} :
                Becomes(r, [verb[r] EXCEPT !.pc = "settings", !.interpreter = found])
  /\ UNCHANGED <<desk, up, home, window, was, disturbed>>

SettingsDone(local) == [local EXCEPT !.pc = "install", !.todo = local.wanted]
SettingsWarned(local) == [SettingsDone(local) EXCEPT !.warned = TRUE]

(* _machine_settings reads over ssh; what will not parse is left as it is. *)
ReadSettings(r) ==
  /\ verb[r].pc = "settings"
  /\ LET local == verb[r]
         file  == home.file
     IN \/ /\ ChildWorks
           /\ Becomes(r, CASE file.kind \in {"barred", "junk"} -> SettingsWarned(local)
                           [] Unchanged(file, local.interpreter) -> SettingsDone(local)
                           [] OTHER -> [local EXCEPT !.pc = "truncate", !.read = file.keys])
        \/ ChildFails /\ Becomes(r, SettingsWarned(local))
  /\ UNCHANGED <<desk, up, home, window, was, disturbed>>

(* Whom a change of the file concerns: those past their own settings, and   *)
(* those who have truncated it and not yet written, but for who changed it. *)
Past == {r \in Runs : verb[r].pc \notin {"idle", "reach", "author", "settings", "truncate", "write"}}
Writing == {r \in Runs : verb[r].pc = "write"}
Touched(by) ==
  disturbed' = IF home'.file = home.file
               THEN disturbed
               ELSE [after |-> disturbed.after \cup Past, amid |-> disturbed.amid \cup (Writing \ by)]

(* mkdir -p && cat >: the shell opens the file and truncates it, and ssh    *)
(* still carries the text.                                                  *)
Truncate(r) ==
  /\ verb[r].pc = "truncate"
  /\ \/ /\ ChildWorks
        /\ Goes(r, "write")
        /\ home' = [home EXCEPT !.file = File("text", {}), !.open = @ \cup {r}]
        /\ Touched({r})
     \/ /\ ChildFails
        /\ Becomes(r, SettingsWarned(verb[r]))
        /\ UNCHANGED <<home, disturbed>>
  /\ UNCHANGED <<desk, up, window, was>>

(* The text goes over what the opened file now holds, whole if that is      *)
(* nothing or the same; of a longer one a tail stays, and nothing parses.   *)
Mixed == File("junk", {})
Overlay(keys) ==
  {File("text", keys)} \cup (IF home.file \in {File("text", {}), File("text", keys)} THEN {} ELSE {Mixed})

(* Into a file that has left the path, the text is lost, with status 0.     *)
Lands(r, files) ==
  /\ \E file \in IF r \in home.open THEN files ELSE {home.file} :
       home' = [home EXCEPT !.file = file, !.open = @ \ {r}]
  /\ Touched({r})
Arrives(r) == Lands(r, Overlay(merge_machine_settings(verb[r].read, verb[r].interpreter)))

(* The connection is lost before the text, or in the middle of it. *)
Breaks(r) == Lands(r, {home.file, Mixed})

(* mistaken: the exit status of the write is not looked at *)
WriteSettingsUnchecked(r) ==
  /\ verb[r].pc = "write"
  /\ \/ ChildWorks /\ Arrives(r)
     \/ ChildFails /\ (Arrives(r) \/ Breaks(r))
  /\ Becomes(r, SettingsDone(verb[r]))
  /\ UNCHANGED <<desk, up, window, was>>

WriteSettings(r) ==
  /\ verb[r].pc = "write"
  /\ \/ ChildWorks /\ Arrives(r) /\ Becomes(r, SettingsDone(verb[r]))
     \/ ChildFails /\ (Arrives(r) \/ Breaks(r)) /\ Becomes(r, SettingsWarned(verb[r]))
  /\ UNCHANGED <<desk, up, window, was>>

-----------------------------------------------------------------------------
(* The extensions and the window. *)

Unpacks(e) == home' = [home EXCEPT !.exts = @ \cup {e}, !.server = TRUE] /\ was' = was \cup {e}
Landing(local, e) == IF e \in home.exts THEN local.landed ELSE local.landed \cup {e}

(* `code --remote --install-extension`, on the laptop.  Status 0 proves     *)
(* nothing: one the laptop holds is answered for there, and the others may  *)
(* only have been queued for the window.                                   *)
InstallLocally(r, e) ==
  /\ verb[r].pc = "install"
  /\ e \in verb[r].todo
  /\ LET local == [verb[r] EXCEPT !.todo = @ \ {e}]
         worked == [local EXCEPT !.attempted = TRUE]
     IN \/ /\ faults > 0 /\ faults' = faults - 1
           /\ Becomes(r, [local EXCEPT !.named = @ \cup {e}])
           /\ UNCHANGED <<home, was, window>>
        \/ /\ e \in desk.cmds[r].held
           /\ Becomes(r, worked)
           /\ UNCHANGED <<home, was, window, faults>>
        \/ /\ e \notin desk.cmds[r].held
           /\ Becomes(r, worked)
           /\ window' = [window EXCEPT ![r].queued = @ \cup {e}]
           /\ UNCHANGED <<home, was, faults>>
        \/ /\ e \notin desk.cmds[r].held /\ desk.egress
           /\ ChildWorks
           /\ Becomes(r, [worked EXCEPT !.landed = Landing(local, e)])
           /\ Unpacks(e)
           /\ UNCHANGED window
  /\ UNCHANGED <<desk, up, disturbed>>

(* mistaken: an install that exited 0 is taken to be in the seat *)
VerifiedByStatus(local, asked) ==
  [local EXCEPT !.claimed = @ \cup (asked \ local.named), !.missing = {},
                !.told = @ \/ asked \ local.named # {}]

unpacked_extensions == home.exts

(* _verify_installed, of a seat that could be listed. *)
Verified(local, asked) ==
  [local EXCEPT !.claimed = @ \cup (asked \cap unpacked_extensions),
                !.missing = asked \ unpacked_extensions,
                !.told = @ \/ asked \cap unpacked_extensions # {}]

(* ... and of one that could not: unverified, and neither claimed nor missed. *)
Unverified(local, asked) == [local EXCEPT !.named = @ \cup asked, !.missing = {}]

Verify(r) ==
  /\ verb[r].pc = "install"
  /\ verb[r].todo = {}
  /\ LET local == [verb[r] EXCEPT !.pc = "open"]
     IN \/ ~local.attempted /\ Becomes(r, local) /\ UNCHANGED faults
        \/ local.attempted /\ ChildWorks /\ Becomes(r, Verified(local, local.wanted))
        \/ local.attempted /\ ChildFails /\ Becomes(r, Unverified(local, local.wanted))
  /\ UNCHANGED <<desk, up, home, window, was, disturbed>>

(* The window is asked for; what is still missing waits for its server. *)
OpenWindow(r) ==
  /\ verb[r].pc = "open"
  /\ \/ /\ Becomes(r, [verb[r] EXCEPT !.pc = IF verb[r].missing = {} THEN "done" ELSE "server",
                                     !.left = Attempts])
        /\ window' = [window EXCEPT ![r].state = "asked"]
        /\ UNCHANGED faults
     \/ /\ faults > 0 /\ faults' = faults - 1
        /\ Goes(r, "failed")
        /\ UNCHANGED window
  /\ UNCHANGED <<desk, up, home, was, disturbed>>

(* _MISSING_REMEDY names what is still not there. *)
Remedied(local) == [local EXCEPT !.pc = "done", !.named = @ \cup local.missing]

_server_cli(r) ==
  /\ verb[r].pc = "server"
  /\ \/ /\ home.server
        /\ ChildWorks
        /\ Becomes(r, [verb[r] EXCEPT !.pc = "through", !.todo = verb[r].missing])
     \/ /\ \/ ~home.server /\ UNCHANGED faults
           \/ ChildFails
        /\ Becomes(r, IF verb[r].left = 1 THEN Remedied(verb[r]) ELSE [verb[r] EXCEPT !.left = @ - 1])
  /\ UNCHANGED <<desk, up, home, window, was, disturbed>>

(* The install the seat's own server makes, whatever its status said. *)
InstallThrough(r, e) ==
  /\ verb[r].pc = "through"
  /\ e \in verb[r].todo
  /\ LET local == [verb[r] EXCEPT !.todo = @ \ {e}]
     IN \/ /\ ChildWorks
           /\ home.server /\ (desk.egress \/ e \in home.exts)
           /\ Becomes(r, [local EXCEPT !.landed = Landing(local, e)])
           /\ Unpacks(e)
        \/ /\ \/ ~(home.server /\ desk.egress) /\ UNCHANGED faults
              \/ ChildFails
           /\ Becomes(r, [local EXCEPT !.named = @ \cup {e}])
           /\ UNCHANGED <<home, was>>
  /\ UNCHANGED <<desk, up, window, disturbed>>

(* _SEAT_INSTALL_RELOAD_NOTE: fewer are missing than before. *)
ReloadAdvised(before, after) == Cardinality(after) < Cardinality(before)

Reverify(r) ==
  /\ verb[r].pc = "through"
  /\ verb[r].todo = {}
  /\ LET asked == verb[r].missing
         Ends(local) == Becomes(r, Remedied([local EXCEPT !.told =
                                               verb[r].told \/ ReloadAdvised(asked, local.missing)]))
     IN \/ ChildWorks /\ Ends(Verified(verb[r], asked))
        \/ ChildFails /\ Ends(Unverified(verb[r], asked))
  /\ UNCHANGED <<desk, up, home, window, was, disturbed>>

-----------------------------------------------------------------------------
(* VS Code. *)

(* A window that connects bootstraps the server, installs what was queued   *)
(* for it and knows the extensions it finds.                               *)
Connect(r) ==
  /\ window[r].state = "asked"
  /\ up
  /\ home.server \/ desk.egress
  /\ LET exts == home.exts \cup (IF desk.egress THEN window[r].queued ELSE {})
     IN /\ home' = [home EXCEPT !.exts = exts, !.server = TRUE]
        /\ was' = was \cup exts
        /\ window' = [window EXCEPT ![r] = [state |-> "open", knows |-> exts, queued |-> {}]]
  /\ UNCHANGED <<desk, verb, up, faults, disturbed>>

-----------------------------------------------------------------------------
(* The user and the seat. *)

Interferes == faults > 0 /\ faults' = faults - 1
Closed == [r \in Runs |-> IF window[r].state = "open" THEN [window[r] EXCEPT !.state = "closed"] ELSE window[r]]

(* Kill VS Code Server on Host deletes ~/.vscode-server. *)
KillServer ==
  /\ Interferes
  /\ home' = [file |-> Absent, open |-> {}, exts |-> {}, server |-> FALSE]
  /\ window' = Closed
  /\ verb' = [r \in Runs |-> [verb[r] EXCEPT !.landed = {}]]
  /\ Touched({})
  /\ UNCHANGED <<desk, up, was>>

(* An editor writes the file in place or puts another there. *)
UserSaves ==
  /\ Interferes
  /\ \E file \in {File("text", {"theirs"}), File("text", {"theirs", "declined"}), Mixed}, open \in {home.open, {}} :
       home' = [home EXCEPT !.file = file, !.open = open]
  /\ Touched({})
  /\ UNCHANGED <<desk, verb, up, window, was>>

SeatDies ==
  /\ up
  /\ Interferes
  /\ up' = FALSE
  /\ window' = Closed
  /\ UNCHANGED <<desk, verb, home, was, disturbed>>

-----------------------------------------------------------------------------
RunStep(r) ==
  \/ vscode_command(r) \/ check_reachable(r) \/ _author(r)
  \/ ReadSettings(r) \/ Truncate(r) \/ WriteSettings(r)
  \/ \E e \in verb[r].todo : InstallLocally(r, e) \/ InstallThrough(r, e)
  \/ Verify(r) \/ OpenWindow(r) \/ _server_cli(r) \/ Reverify(r)

EditorNext ==
  \/ \E r \in Runs : RunStep(r) \/ Connect(r)
  \/ KillServer \/ UserSaves \/ SeatDies

EditorSpec == EditorInit /\ [][EditorNext]_editorVars

-----------------------------------------------------------------------------
(* Properties. *)

(* editor.py, open_seat: the walk starts with the window, so a window a run *)
(* asked for finds the excludes (or a user's refusal of them) on disk, or   *)
(* the run has warned that it may not, or somebody else has changed the     *)
(* file: since the run was done with it, or between its truncation by the   *)
(* run and its text.                                                        *)
WindowsAreGuarded ==
  \A r \in Runs :
    window[r].state # "none" =>
      Guarded(home.file) \/ verb[r].warned \/ r \in disturbed.after \cup disturbed.amid

(* editor.py, open_seat, "the excludes have to be on disk before the window *)
(* that starts the walk": as above, whatever happened amid the write.  Not  *)
(* so: status 0 of the write says nothing of the file at the path.          *)
ExcludesComeFirst ==
  \A r \in Runs :
    window[r].state # "none" => Guarded(home.file) \/ verb[r].warned \/ r \in disturbed.after

(* editor.py, _verify_installed and _install_through_the_seat: what a run   *)
(* reports as unpacked has been in the seat, and a run that ends well has   *)
(* reported or named every extension the target's debuggers need.          *)
ExtensionsAreAnswered ==
  \A r \in Runs :
    /\ verb[r].claimed \subseteq was
    /\ verb[r].pc = "done" => verb[r].wanted \subseteq verb[r].claimed \cup verb[r].named

(* editor.py, _SEAT_INSTALL_RELOAD_NOTE: an extension that a run unpacked   *)
(* behind an open window's back is not registered there, so the run has     *)
(* said to reload, or that it could not tell.                              *)
StaleWindowsAreTold ==
  \A r, w \in Runs :
    (/\ verb[r].pc = "done"
     /\ window[w].state = "open"
     /\ (verb[r].landed \cap home.exts) \ window[w].knows # {})
    => verb[r].told \/ verb[r].landed \subseteq verb[r].named

(* editor.py, open_seat: what a run says of the target's extensions, and of *)
(* the windows already open, is so and is complete.                         *)
EditorReportIsTrue == ExtensionsAreAnswered /\ StaleWindowsAreTold

=============================================================================

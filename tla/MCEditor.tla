----------------------------- MODULE MCEditor -----------------------------
(***************************************************************************)
(* Instances of Editor for TLC: one run on every kind of seat and laptop,  *)
(* and two runs that work on one home.                                     *)
(***************************************************************************)
EXTENDS Editor, TLC

Python == {"ms-python.python", "ms-python.debugpy"}
Laptop == [code |-> "desktop", socket |-> "none", held |-> {}]
Holding == [Laptop EXCEPT !.held = {"ms-python.python"}]

Plain == [hotfix |-> {}, app |-> "none", identity |-> TRUE, root |-> FALSE,
          reused |-> TRUE, key |-> "present", alias |-> TRUE]
Hotfixed == [Plain EXCEPT !.hotfix = {"volume", "supervisor"}, !.app = "whole"]

AtStart == File("text", {"excludes"})

Desk == [pod |-> Plain, types |-> {"debugpy"}, debugpy |-> "image", narrates |-> HOTFIX_APP_PATH, egress |-> TRUE,
         file |-> AtStart, cmds |-> (1 :> Laptop), faults |-> 0]

(* What is refused, and where the folder and the interpreter are. *)
RefusalDesks ==
  {[Desk EXCEPT !.pod = pod, !.debugpy = debugpy, !.cmds = (1 :> cmd)] :
     pod \in {Plain, Hotfixed, [Plain EXCEPT !.root = TRUE], [Plain EXCEPT !.key = "absent"],
              [Plain EXCEPT !.key = "unread"], [Plain EXCEPT !.reused = FALSE], [Plain EXCEPT !.alias = FALSE],
              [Hotfixed EXCEPT !.app = "subPath"], [Hotfixed EXCEPT !.app = "none"],
              [Hotfixed EXCEPT !.identity = FALSE], [Hotfixed EXCEPT !.hotfix = {"volume"}]},
     debugpy \in {"image", "opt", "claim"}, cmd \in {Laptop, Holding, [Laptop EXCEPT !.code = "remote"], [Laptop EXCEPT !.code = "none"],
              [Laptop EXCEPT !.socket = "stale"], [Laptop EXCEPT !.socket = "live"]}}

(* One run, every file and laptop, and two things that go wrong. *)
AloneDesks ==
  {[Desk EXCEPT !.pod = pod, !.types = types, !.egress = egress, !.file = file,
                !.cmds = (1 :> [Laptop EXCEPT !.held = held]), !.faults = 2] :
     pod \in {Plain, Hotfixed}, types \in {{"debugpy"}, {"cppdbg"}, {"coreclr"}}, egress \in BOOLEAN,
     held \in {{}, {"ms-python.python"}, Python},
     file \in {Absent, AtStart, File("barred", {}), File("junk", {}), File("text", {"theirs"}),
               File("text", {"theirs", "declined"})}}

(* Two runs on one home. *)
Pair(file, cmd) ==
  [Desk EXCEPT !.pod = Hotfixed, !.file = file, !.cmds = (1 :> Holding @@ 2 :> cmd), !.faults = 1]
PairDesks ==
  {Pair(file, Laptop) : file \in {AtStart, Absent, File("text", {"theirs"})}}
    \cup {Pair(AtStart, [Laptop EXCEPT !.held = Python])}

(* One run, and one thing that goes wrong. *)
LoneDesks == {[Desk EXCEPT !.file = Absent, !.faults = 1]}

AllDesks == RefusalDesks \cup AloneDesks \cup PairDesks

=============================================================================

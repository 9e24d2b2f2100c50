----------------------------- MODULE HotfixLoop -----------------------------
(***************************************************************************)
(* `podbench hotfix restart` against the supervisor of a hotfixed pod.     *)
(* The supervisor is the application container's own shell loop: start the *)
(* application, record its pid, wait for it, and then relaunch it if the   *)
(* hold file is there, or exit - which restarts the container and takes    *)
(* every seat with it.  A restart is one script run in the same container: *)
(* hold, kill the recorded child's tree, wait for a new pid, release.      *)
(*                                                                         *)
(* A launch is one turn of the loop.  It has two processes: the wrapper,   *)
(* which is the supervisor's child, and the worker the wrapper starts,     *)
(* which loads the code and takes the port.  Both may end by themselves.   *)
(* The working tree on the claim is a revision; users edit and commit it.  *)
(***************************************************************************)
EXTENDS Integers, Sequences, FiniteSets

CONSTANTS Restarters,   \* command lines that run `hotfix restart`
          MaxLaunches,  \* bound: turns of the supervisor's loop
          MaxBoots,     \* bound: starts of the container
          MaxEdits,     \* bound: changes of the working tree
          MaxCalls,     \* bound: restarts one command line runs
          MaxFaults     \* bound: processes of the application that end by themselves,
                        \* and scripts killed with SIGKILL

ASSUME HotfixLoopAssumption ==
  /\ MaxLaunches \in Nat /\ MaxBoots \in Nat /\ MaxEdits \in Nat /\ MaxCalls \in Nat
  /\ MaxFaults \in Nat

VARIABLES
  launches,    \* every turn of the loop so far
  group,       \* the process group the application's worker is in
  port,        \* the launch whose worker has the port, or 0
  sup,         \* the supervisor's next step
  boots,       \* starts of the container
  pidfile,     \* HOTFIX_CHILD_PID_PATH: a launch, or 0 when there is no file
  hold,        \* HOTFIX_HOLD_PATH
  tree,        \* the revision of the working tree; 0 before the claim is seeded
  exits, kills, \* counters of the faults
  late,        \* history: a wait for a new pid ran out
  overlapped,  \* history: a script held the pod while another still did
  pc,          \* the next step of each restart
  calls,       \* restarts it has run
  base,        \* history: the revision when it began
  child,       \* the pid its script read
  doomed,      \* the processes its script found in that pid's tree
  whole,       \* history: those were all the application's processes
  report       \* how it ended

app       == <<launches, group, port>>
files     == <<pidfile, hold>>
counters  == <<exits, kills, late>>
restarts  == <<pc, calls, base, child, doomed, whole, report>>
vars == <<launches, group, port, sup, boots, pidfile, hold, tree, exits, kills, late,
          overlapped, pc, calls, base, child, doomed, whole, report>>

-----------------------------------------------------------------------------
Part == {"unborn", "running", "gone"}

(* claimed: the subshell found a python in the claim's venv and put it first *)
(* on PATH.  own: the wrapper ended without being killed by a restart.  code *)
(* is the revision its worker loaded, 0 for the image's.                     *)
Launch == [wrapper : Part, worker : Part, claimed : BOOLEAN, code : Nat, own : BOOLEAN]

Group == {"child", "other"}     \* the one the wrapper leads, or its own, or the supervisor's
Hold  == {"none", "held", "expired"}

Scripted == {"tree", "kill", "poll", "release"}       \* the hold is this script's to remove
Stage == {"idle", "require", "hold"} \cup Scripted

Current == Len(launches)                 \* the supervisor's $child
Alive(n) == {part \in {"wrapper", "worker"} : launches[n][part] = "running"}
Running == UNION {{<<n, part>> : part \in Alive(n)} : n \in DOMAIN launches}

(* Processes of launch n that PPid links to its wrapper; a worker whose      *)
(* wrapper has ended is PID 1's child.                                       *)
TreeOf(n) == IF n = 0 \/ launches[n].wrapper # "running" THEN {}
             ELSE {<<n, part>> : part \in Alive(n)}

(* The application's processes without those in dead. *)
Survivors(dead) ==
  [n \in DOMAIN launches |->
     [launches[n] EXCEPT
        !.wrapper = IF <<n, "wrapper">> \in dead THEN "gone" ELSE @,
        !.worker  = IF <<n, "worker">> \in dead THEN "gone" ELSE @]]

PortWithout(dead) == IF <<port, "worker">> \in dead THEN 0 ELSE port

-----------------------------------------------------------------------------
Init ==
  /\ launches = <<>>
  /\ group \in Group
  /\ port = 0
  /\ sup = "fork"
  /\ boots = 1
  /\ pidfile = 0 /\ hold = "none"
  /\ tree = 0
  /\ exits = 0 /\ kills = 0 /\ late = FALSE
  /\ overlapped = FALSE
  /\ pc = [r \in Restarters |-> "idle"]
  /\ calls = [r \in Restarters |-> 0]
  /\ base = [r \in Restarters |-> 0]
  /\ child = [r \in Restarters |-> 0]
  /\ doomed = [r \in Restarters |-> {}]
  /\ whole = [r \in Restarters |-> FALSE]
  /\ report = [r \in Restarters |-> "none"]

-----------------------------------------------------------------------------
(* hold_loop_args: the supervisor. *)

(* The subshell is forked.  The switch to the claim is inside the loop, so   *)
(* a claim seeded since the last launch is seen by this one.                 *)
ForkDecidedOnce ==                 \* mistaken: the switch is read at the container's start
  /\ sup = "fork"
  /\ Current < MaxLaunches
  /\ launches' = Append(launches, [wrapper |-> "running", worker |-> "unborn", code |-> 0,
                                   claimed |-> IF Current = 0 THEN tree > 0 ELSE launches[1].claimed,
                                   own |-> FALSE])
  /\ sup' = "record"
  /\ UNCHANGED <<group, port, boots, files, tree, counters, overlapped, restarts>>

Fork ==
  /\ sup = "fork"
  /\ Current < MaxLaunches
  /\ launches' = Append(launches, [wrapper |-> "running", worker |-> "unborn", code |-> 0,
                                   claimed |-> tree > 0, own |-> FALSE])
  /\ sup' = "record"
  /\ UNCHANGED <<group, port, boots, files, tree, counters, overlapped, restarts>>

RecordChild ==
  /\ sup = "record"
  /\ pidfile' = Current
  /\ sup' = "wait"
  /\ UNCHANGED <<app, boots, hold, tree, counters, overlapped, restarts>>

Wait ==
  /\ sup = "wait"
  /\ launches[Current].wrapper = "gone"
  /\ sup' = "reap"
  /\ UNCHANGED <<app, boots, files, tree, counters, overlapped, restarts>>

(* kill -TERM -"$child": the group the child leads, if it leads one.  An     *)
(* application in a session of its own, or in the supervisor's group, is not *)
(* in it.                                                                    *)
Reap ==
  /\ sup = "reap"
  /\ LET dead == IF group = "child" THEN {<<Current, "worker">>} \cap Running ELSE {}
     IN launches' = Survivors(dead) /\ port' = PortWithout(dead)
  /\ sup' = "test"
  /\ UNCHANGED <<group, boots, files, tree, counters, overlapped, restarts>>

(* The container has ended: every process in it goes with it, a script of a  *)
(* restart included, whose trap does not run, and so does its /tmp.  The     *)
(* kubelet starts it again.  The restart whose script it was fails.          *)
ContainerRestarts ==
  /\ boots < MaxBoots
  /\ boots' = boots + 1
  /\ launches' = Survivors(Running)
  /\ port' = 0
  /\ sup' = "fork"
  /\ pidfile' = 0 /\ hold' = "none"
  /\ pc' = [r \in Restarters |-> IF pc[r] \in Scripted THEN "idle" ELSE pc[r]]
  /\ report' = [r \in Restarters |-> IF pc[r] \in Scripted THEN "failed" ELSE report[r]]
  /\ UNCHANGED <<group, tree, counters, overlapped, calls, base, child, doomed, whole>>

(* [ -e hold ] || exit: the file's existence is all that is asked. *)
RelaunchHeld ==
  /\ sup = "test"
  /\ hold # "none"
  /\ sup' = "fork"
  /\ UNCHANGED <<app, boots, files, tree, counters, overlapped, restarts>>

ExitUnheld ==
  /\ sup = "test"
  /\ hold = "none"
  /\ ContainerRestarts

(* The kubelet's liveness probe, wrapped_liveness_probe: it fails when       *)
(* nothing serves the port and the pod is not held.                          *)
ProbeFailsHeld ==                  \* mistaken: the probe is not wrapped
  /\ sup = "wait"
  /\ port = 0 /\ launches[Current].worker # "unborn"
  /\ ContainerRestarts

ProbeFails ==
  /\ sup = "wait"
  /\ port = 0 /\ launches[Current].worker # "unborn"
  /\ hold = "none"
  /\ ContainerRestarts

-----------------------------------------------------------------------------
(* The application, and the people who work on the claim. *)

(* The wrapper starts its worker, which loads the code and takes the port    *)
(* if it is free; a worker that finds it taken comes up deaf.                *)
WorkerStarts(n) ==
  /\ launches[n].wrapper = "running" /\ launches[n].worker = "unborn"
  /\ launches' = [launches EXCEPT ![n].worker = "running",
                                  ![n].code = IF launches[n].claimed THEN tree ELSE 0]
  /\ port' = IF port = 0 THEN n ELSE port
  /\ UNCHANGED <<group, sup, boots, files, tree, counters, overlapped, restarts>>

(* The worker ends by itself, or the wrapper does and leaves it behind. *)
ExitsAlone(n, part) ==
  /\ part \in Alive(n)
  /\ exits + kills < MaxFaults
  /\ exits' = exits + 1
  /\ launches' = [Survivors({<<n, part>>}) EXCEPT ![n].own = TRUE]
  /\ port' = PortWithout({<<n, part>>})
  /\ UNCHANGED <<group, sup, boots, files, tree, kills, late, overlapped, restarts>>

(* A wrapper whose worker is gone ends too. *)
WrapperFollows(n) ==
  /\ launches[n].wrapper = "running" /\ launches[n].worker = "gone"
  /\ launches' = Survivors({<<n, "wrapper">>})
  /\ UNCHANGED <<group, port, sup, boots, files, tree, counters, overlapped, restarts>>

(* hotfix init seeds the claim and records its manifest; require_supervisor  *)
(* is its first step too.                                                    *)
Seed ==
  /\ tree = 0
  /\ pidfile # 0
  /\ tree' = 1
  /\ UNCHANGED <<app, sup, boots, files, counters, overlapped, restarts>>

Edit ==
  /\ tree > 0
  /\ tree <= MaxEdits
  /\ tree' = tree + 1
  /\ UNCHANGED <<app, sup, boots, files, counters, overlapped, restarts>>

-----------------------------------------------------------------------------
(* restart_app. *)

Goto(r, stage) == pc' = [pc EXCEPT ![r] = stage] /\ UNCHANGED report
Return(r, how) == /\ pc' = [pc EXCEPT ![r] = "idle"]
                  /\ report' = [report EXCEPT ![r] = how]

Outside == <<app, sup, boots, files, tree, counters, overlapped>>

(* read_manifest: without one there is no checkout to load. *)
Begin(r) ==
  /\ pc[r] = "idle"
  /\ calls[r] < MaxCalls
  /\ tree > 0
  /\ calls' = [calls EXCEPT ![r] = @ + 1]
  /\ base' = [base EXCEPT ![r] = tree]
  /\ child' = [child EXCEPT ![r] = 0]
  /\ doomed' = [doomed EXCEPT ![r] = {}]
  /\ whole' = [whole EXCEPT ![r] = FALSE]
  /\ pc' = [pc EXCEPT ![r] = "require"]
  /\ report' = [report EXCEPT ![r] = "none"]
  /\ UNCHANGED Outside

(* require_supervisor, asked of the running container before any kill; then *)
(* --reinstall, when it is asked for, which rebuilds the venv or ends it.    *)
RequireSupervisor(r) ==
  /\ pc[r] = "require"
  /\ \/ pidfile # 0 /\ Goto(r, "hold")
     \/ pidfile = 0 /\ Return(r, "refused")
  /\ UNCHANGED <<Outside, calls, base, child, doomed, whole>>

ReinstallFails(r) ==
  /\ pc[r] = "hold"
  /\ Return(r, "failed")
  /\ UNCHANGED <<Outside, calls, base, child, doomed, whole>>

-----------------------------------------------------------------------------
(* HOLD_AND_RELAUNCH: one script, one exec in the application container. *)

(* No pid file, no relaunch; else the hold is written with its deadline, the *)
(* trap is set and the recorded pid read.                                    *)
TakeHold(r) ==
  /\ pc[r] = "hold"
  /\ \/ /\ pidfile # 0
        /\ hold' = "held"
        /\ child' = [child EXCEPT ![r] = pidfile]
        /\ overlapped' = (overlapped \/ \E s \in Restarters \ {r} : pc[s] \in Scripted)
        /\ Goto(r, "tree")
     \/ /\ pidfile = 0
        /\ Return(r, "failed")
        /\ UNCHANGED <<hold, child, overlapped>>
  /\ UNCHANGED <<app, sup, boots, pidfile, tree, counters, calls, base, doomed, whole>>

(* /proc is read once and the tree below the recorded child collected by     *)
(* PPid.                                                                     *)
CollectTreeRootOnly(r) ==          \* mistaken: the recorded pid alone
  /\ pc[r] = "tree"
  /\ doomed' = [doomed EXCEPT ![r] = TreeOf(child[r]) \cap {<<child[r], "wrapper">>}]
  /\ whole' = [whole EXCEPT ![r] = TreeOf(child[r]) = Running /\ Cardinality(Running) = 2]
  /\ Goto(r, "kill")
  /\ UNCHANGED <<Outside, calls, base, child>>

CollectTree(r) ==
  /\ pc[r] = "tree"
  /\ doomed' = [doomed EXCEPT ![r] = TreeOf(child[r])]
  /\ whole' = [whole EXCEPT ![r] = TreeOf(child[r]) = Running /\ Cardinality(Running) = 2]
  /\ Goto(r, "kill")
  /\ UNCHANGED <<Outside, calls, base, child>>

(* SIGTERM to each, and SIGKILL five seconds later to what is left. *)
KillTree(r) ==
  /\ pc[r] = "kill"
  /\ launches' = Survivors(doomed[r])
  /\ port' = PortWithout(doomed[r])
  /\ Goto(r, "poll")
  /\ UNCHANGED <<group, sup, boots, files, tree, counters, overlapped,
                 calls, base, child, doomed, whole>>

(* Until the pid file names another, or thirty seconds are over. *)
PidChanged(r) ==
  /\ pc[r] = "poll"
  /\ pidfile # child[r]
  /\ Goto(r, "release")
  /\ UNCHANGED <<Outside, calls, base, child, doomed, whole>>

PollRunsOut(r) ==
  /\ pc[r] = "poll"
  /\ late' = TRUE
  /\ Goto(r, "release")
  /\ UNCHANGED <<app, sup, boots, files, tree, exits, kills, overlapped,
                 calls, base, child, doomed, whole>>

(* trap EXIT: whoever wrote the file, it is removed.  The script's status is *)
(* 0, also after a wait that ran out; what restart_app then reads of git and *)
(* of the pid file for its report is left out.                               *)
ReleaseForgotten(r) ==             \* mistaken: the trap is not set
  /\ pc[r] = "release"
  /\ Return(r, "relaunched")
  /\ UNCHANGED <<Outside, calls, base, child, doomed, whole>>

Release(r) ==
  /\ pc[r] = "release"
  /\ hold' = "none"
  /\ Return(r, "relaunched")
  /\ UNCHANGED <<app, sup, boots, pidfile, tree, counters, overlapped,
                 calls, base, child, doomed, whole>>

(* The script is killed with SIGKILL, which no trap sees. *)
ScriptKilled(r) ==
  /\ pc[r] \in Scripted
  /\ exits + kills < MaxFaults
  /\ kills' = kills + 1
  /\ Return(r, "failed")
  /\ UNCHANGED <<app, sup, boots, files, tree, exits, late, overlapped,
                 calls, base, child, doomed, whole>>

(* The hold's deadline passes while no script is there to remove it. *)
HoldExpires ==
  /\ hold = "held"
  /\ \A r \in Restarters : pc[r] \notin Scripted
  /\ hold' = "expired"
  /\ UNCHANGED <<app, sup, boots, pidfile, tree, counters, overlapped, restarts>>

-----------------------------------------------------------------------------
Supervisor == Fork \/ RecordChild \/ Wait \/ Reap \/ RelaunchHeld \/ ExitUnheld

Application(n) == \/ WorkerStarts(n) \/ WrapperFollows(n)
                  \/ \E part \in {"wrapper", "worker"} : ExitsAlone(n, part)

Restart(r) == \/ RequireSupervisor(r) \/ ReinstallFails(r)
              \/ TakeHold(r) \/ CollectTree(r) \/ KillTree(r) \/ PidChanged(r)
              \/ PollRunsOut(r) \/ Release(r)

Next == \/ Supervisor
        \/ ProbeFails
        \/ \E n \in DOMAIN launches : Application(n)
        \/ Seed \/ Edit
        \/ HoldExpires
        \/ \E r \in Restarters : Begin(r) \/ Restart(r) \/ ScriptKilled(r)

(* The shell's loop and the script run on; the application's wrapper starts  *)
(* its worker and follows it.  Nobody is obliged to call a restart, to edit, *)
(* to crash or to fail.                                                      *)
Fairness == /\ WF_vars(Supervisor)
            /\ \A n \in 1..MaxLaunches : WF_vars(n \in DOMAIN launches /\ (WorkerStarts(n) \/ WrapperFollows(n)))
            /\ \A r \in Restarters : WF_vars(Restart(r))

Spec == Init /\ [][Next]_vars /\ Fairness

-----------------------------------------------------------------------------
TypeOK ==
  /\ launches \in Seq(Launch)
  /\ group \in Group
  /\ port \in 0..Current
  /\ sup \in {"fork", "record", "wait", "reap", "test"}
  /\ boots \in Nat /\ tree \in Nat
  /\ pidfile \in 0..Current
  /\ hold \in Hold
  /\ exits \in Nat /\ kills \in Nat /\ late \in BOOLEAN /\ overlapped \in BOOLEAN
  /\ pc \in [Restarters -> Stage]
  /\ calls \in [Restarters -> Nat]
  /\ base \in [Restarters -> 0..tree]
  /\ child \in [Restarters -> 0..Current]
  /\ doomed \in [Restarters -> SUBSET ((1..Current) \X {"wrapper", "worker"})]
  /\ whole \in [Restarters -> BOOLEAN]
  /\ report \in [Restarters -> {"none", "refused", "failed", "relaunched"}]

(* _relaunch's "The hold file is removed on every path": a pod is held only  *)
(* while some restart's script is still there to release it.                 *)
HeldByAScript == hold # "none" /\ kills = 0 => \E r \in Restarters : pc[r] \in Scripted

(* The tree kill: once a script that saw the whole application has killed    *)
(* it, no process of it is left, in whatever session or process group, to    *)
(* keep the port from the relaunched one.                                    *)
Killed(r) == whole[r] /\ (pc[r] \in {"poll", "release"} \/ report[r] = "relaunched")
NothingOldServes == \A r \in Restarters : Killed(r) =>
                       \A n \in 1..child[r] : Alive(n) = {}

(* Whatever has started since runs the claim's working tree, at least as     *)
(* new as when the restart began: never the image's code, on a claim seeded  *)
(* after the container had started, or what an earlier launch had loaded.    *)
RunsWhatWasSaved ==
  \A r \in Restarters : Killed(r) =>
     \A n \in DOMAIN launches : launches[n].worker = "running" => launches[n].code >= base[r]

(* require_supervisor and the hold keep a restart from restarting the        *)
(* container, which would kill every seat: a container restarts only after   *)
(* its application has ended or died of itself, or a wait for the new pid    *)
(* ran out, or two restarts held the pod at once.                            *)
OwnExit == \E n \in DOMAIN launches : launches[n].own
SeatsSurvive ==
  [][boots' # boots => OwnExit \/ late \/ overlapped \/ kills > 0]_vars

(* Every hold is released, so the pod is fail-fast again, unless the script  *)
(* that took it was killed.                                                  *)
HoldEnds == hold # "none" ~> (hold = "none" \/ kills > 0)

=============================================================================

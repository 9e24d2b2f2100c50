------------------------------ MODULE RunLoop ------------------------------
(***************************************************************************)
(* `podbench run` and `podbench stop`: the inner loop of a dev pod.  run   *)
(* kills the recorded child, looks at the port, starts the new child,      *)
(* records it and polls until that child serves the port; stop is run's    *)
(* first half.  The record is a file on the workspace volume and outlives  *)
(* every caller.                                                           *)
(*                                                                         *)
(* The kernel, the children and the processes of the pod's other           *)
(* containers are the environment: under shareProcessNamespace all of them *)
(* draw on one set of pids, and a pid comes round again once its process   *)
(* has been reaped.  A caller's step is one look at or one change of what  *)
(* it shares with them; a caller may be killed between any two.            *)
(***************************************************************************)
EXTENDS Integers, FiniteSets

CONSTANTS Callers,      \* command lines, each run one after another
          Pids,         \* the pod's process ids
          MaxCalls,     \* bound: command lines a caller runs
          MaxBirths,    \* bound: processes started
          MaxCrashes    \* bound: callers killed

ASSUME RunLoopAssumption ==
  /\ Pids \subseteq Nat \ {0}
  /\ MaxCalls \in Nat /\ MaxBirths \in Nat /\ MaxCrashes \in Nat

VARIABLES
  proc,        \* the process of each pid, or None
  births,      \* the clock: processes are born one at a time
  record,      \* the state file
  crashes,     \* callers killed so far
  careful,     \* history: none of them between starting a child and recording it
  pc,          \* the next step of each caller
  verb,        \* what it was called for
  calls,       \* command lines it has run
  held,        \* the record it loaded
  looked,      \* history: when it last looked at that process
  child,       \* the process it started
  seen,        \* the socket of its child it saw in ss, by its owner's birth
  outcome      \* how its last call ended

kernel  == <<proc, births>>
callers == <<pc, verb, calls, held, looked, child, seen, outcome>>
vars    == <<proc, births, record, crashes, careful,
             pc, verb, calls, held, looked, child, seen, outcome>>

-----------------------------------------------------------------------------
(* A process.  born stands for its start time, field 22 of its stat; shares  *)
(* is SO_REUSEPORT; doomed has a SIGKILL pending.                            *)
Process == [born : Nat \ {0}, app : BOOLEAN, state : {"running", "zombie"},
            bound : BOOLEAN, shares : BOOLEAN, doomed : BOOLEAN]
None == [born |-> 0, app |-> FALSE, state |-> "zombie", bound |-> FALSE,
         shares |-> FALSE, doomed |-> FALSE]

Unknown == -1     \* start_ticks is null

(* RunState.  ticks is what the file says, of is history: the process the    *)
(* caller started.                                                           *)
RunState == [pid : Pids, ticks : (Nat \ {0}) \cup {Unknown}, of : Nat \ {0}]
NoRecord == [pid |-> 0, ticks |-> Unknown, of |-> 0]

Verb  == {"run", "stop"}
Stage == {"idle", "load", "check", "term", "grace", "kill", "clear", "preflight", "spawn",
          "snapshot", "save", "verify", "ss", "inode"}

Exists(p) == proc[p] # None

(* ProcessSnapshot.alive: a zombie is not. *)
AliveAt(p) == Exists(p) /\ proc[p].state = "running"

Listening == {p \in Pids : Exists(p) /\ proc[p].bound}

(* RunState.is_live: pid and start time, as far as both are known. *)
IsLiveByPid(r) == AliveAt(r.pid)                        \* mistaken: pids compared only
IsLive(r) == AliveAt(r.pid) /\ (r.ticks = Unknown \/ r.ticks = proc[r.pid].born)

-----------------------------------------------------------------------------
Init ==
  /\ proc = [p \in Pids |-> None]
  /\ births = 0
  /\ record = NoRecord
  /\ crashes = 0
  /\ careful = TRUE
  /\ pc = [c \in Callers |-> "idle"]
  /\ verb = [c \in Callers |-> "stop"]
  /\ calls = [c \in Callers |-> 0]
  /\ held = [c \in Callers |-> NoRecord]
  /\ looked = [c \in Callers |-> 0]
  /\ child = [c \in Callers |-> NoRecord]
  /\ seen = [c \in Callers |-> 0]
  /\ outcome = [c \in Callers |-> "none"]

Goto(c, stage) == pc' = [pc EXCEPT ![c] = stage] /\ UNCHANGED outcome

(* The command ends; ok is exit status 0. *)
Return(c, result) == /\ pc' = [pc EXCEPT ![c] = "idle"]
                     /\ outcome' = [outcome EXCEPT ![c] = result]

Begin(c, v) ==
  /\ pc[c] = "idle"
  /\ calls[c] < MaxCalls
  /\ calls' = [calls EXCEPT ![c] = @ + 1]
  /\ verb' = [verb EXCEPT ![c] = v]
  /\ held' = [held EXCEPT ![c] = NoRecord]
  /\ child' = [child EXCEPT ![c] = NoRecord]
  /\ pc' = [pc EXCEPT ![c] = "load"]
  /\ outcome' = [outcome EXCEPT ![c] = "none"]
  /\ UNCHANGED <<kernel, record, crashes, careful, looked, seen>>

-----------------------------------------------------------------------------
(* stop, which run begins with. *)

(* stop returns: to its caller, or to the rest of start. *)
Stopped(c) == IF verb[c] = "run" THEN Goto(c, "preflight") ELSE Return(c, "ok")

(* load_state; a file that cannot be parsed is no record. *)
LoadState(c) ==
  /\ pc[c] = "load"
  /\ held' = [held EXCEPT ![c] = record]
  /\ IF record = NoRecord THEN Stopped(c) ELSE Goto(c, "check")
  /\ UNCHANGED <<kernel, record, crashes, careful, verb, calls, looked, child, seen>>

(* The record's process is looked at, before the first signal and then every *)
(* poll until it is gone.                                                    *)
Look(c) ==
  /\ pc[c] \in {"check", "grace"}
  /\ looked' = [looked EXCEPT ![c] = births]
  /\ IF ~IsLive(held[c]) THEN Goto(c, "clear")
     ELSE IF pc[c] = "check" THEN Goto(c, "term")
     ELSE Goto(c, "grace")
  /\ UNCHANGED <<kernel, record, crashes, careful, verb, calls, held, child, seen>>

(* os.kill: ProcessLookupError, uncaught, when the process is gone by now. *)
Signal(c, stage) ==
  \/ Exists(held[c].pid) /\ Goto(c, stage)
  \/ ~Exists(held[c].pid) /\ Return(c, "failed")

Term(c) ==
  /\ pc[c] = "term"
  /\ Signal(c, "grace")
  /\ UNCHANGED <<kernel, record, crashes, careful, verb, calls, held, looked, child, seen>>

GraceOver(c) ==
  /\ pc[c] = "grace"
  /\ Goto(c, "kill")
  /\ UNCHANGED <<kernel, record, crashes, careful, verb, calls, held, looked, child, seen>>

KillTermOnly(c) ==                 \* mistaken: the child is forgotten, not killed
  /\ pc[c] = "kill"
  /\ Signal(c, "clear")
  /\ UNCHANGED <<kernel, record, crashes, careful, verb, calls, held, looked, child, seen>>

Kill(c) ==
  /\ pc[c] = "kill"
  /\ Signal(c, "clear")
  /\ proc' = IF AliveAt(held[c].pid) THEN [proc EXCEPT ![held[c].pid].doomed = TRUE] ELSE proc
  /\ UNCHANGED <<births, record, crashes, careful, verb, calls, held, looked, child, seen>>

ClearState(c) ==
  /\ pc[c] = "clear"
  /\ record' = NoRecord
  /\ Stopped(c)
  /\ UNCHANGED <<kernel, crashes, careful, verb, calls, held, looked, child, seen>>

-----------------------------------------------------------------------------
(* start. *)

(* preflight_port: any listener at all, or an ss that fails, ends the run. *)
PreflightBlind(c) ==               \* mistaken: the port is not looked at
  /\ pc[c] = "preflight"
  /\ Goto(c, "spawn")
  /\ UNCHANGED <<kernel, record, crashes, careful, verb, calls, held, looked, child, seen>>

Preflight(c) ==
  /\ pc[c] = "preflight"
  /\ \/ Listening = {} /\ Goto(c, "spawn")
     \/ Return(c, "failed")
  /\ UNCHANGED <<kernel, record, crashes, careful, verb, calls, held, looked, child, seen>>

Fresh(app, shares) == [born |-> births + 1, app |-> app, state |-> "running", bound |-> FALSE,
                       shares |-> shares, doomed |-> FALSE]

Spawn(c) ==
  /\ pc[c] = "spawn"
  /\ \/ \E p \in Pids, shares \in BOOLEAN :
          /\ births < MaxBirths /\ ~Exists(p)
          /\ proc' = [proc EXCEPT ![p] = Fresh(TRUE, shares)]
          /\ births' = births + 1
          /\ child' = [child EXCEPT ![c] = [pid |-> p, ticks |-> Unknown, of |-> births + 1]]
          /\ Goto(c, "snapshot")
     \/ /\ Return(c, "failed")     \* OSError: the command cannot be executed
        /\ UNCHANGED <<kernel, child>>
  /\ UNCHANGED <<record, crashes, careful, verb, calls, held, looked, seen>>

(* read_process of whatever bears the child's pid by now, if anything. *)
SnapshotUnsaved(c) ==              \* mistaken: recorded only once it serves
  /\ pc[c] = "snapshot"
  /\ child' = [child EXCEPT ![c].ticks = IF Exists(child[c].pid) THEN proc[child[c].pid].born
                                                                  ELSE Unknown]
  /\ Goto(c, "verify")
  /\ UNCHANGED <<kernel, record, crashes, careful, verb, calls, held, looked, seen>>

Snapshot(c) ==
  /\ pc[c] = "snapshot"
  /\ child' = [child EXCEPT ![c].ticks = IF Exists(child[c].pid) THEN proc[child[c].pid].born
                                                                  ELSE Unknown]
  /\ Goto(c, "save")
  /\ UNCHANGED <<kernel, record, crashes, careful, verb, calls, held, looked, seen>>

SaveState(c) ==
  /\ pc[c] = "save"
  /\ record' = child[c]
  /\ Goto(c, "verify")
  /\ UNCHANGED <<kernel, crashes, careful, verb, calls, held, looked, child, seen>>

(* The verify loop: the child must be alive ... *)
Verify(c) ==
  /\ pc[c] = "verify"
  /\ IF AliveAt(child[c].pid) THEN Goto(c, "ss") ELSE Return(c, "failed")
  /\ UNCHANGED <<kernel, record, crashes, careful, verb, calls, held, looked, child, seen>>

(* ... verify_listener: ss must attribute a listener to its pid ... *)
PollForever(c) == Goto(c, "verify")     \* mistaken: no deadline
PollOrTimeOut(c) == Goto(c, "verify") \/ Return(c, "failed")

Ss(c) ==
  /\ pc[c] = "ss"
  /\ \/ /\ child[c].pid \in Listening
        /\ seen' = [seen EXCEPT ![c] = proc[child[c].pid].born]
        /\ Goto(c, "inode") \/ Return(c, "ok")       \* ok: ss reports no inode
     \/ /\ child[c].pid \notin Listening /\ Listening # {}
        /\ Return(c, "failed")
        /\ UNCHANGED seen
     \/ /\ PollOrTimeOut(c)                          \* nobody listens, or ss fails
        /\ UNCHANGED seen
  /\ UNCHANGED <<kernel, record, crashes, careful, verb, calls, held, looked, child>>

(* ... and that pid must hold the socket. *)
Inode(c) ==
  /\ pc[c] = "inode"
  /\ IF child[c].pid \in Listening /\ proc[child[c].pid].born = seen[c]
       THEN Return(c, "ok")
       ELSE PollOrTimeOut(c)
  /\ UNCHANGED <<kernel, record, crashes, careful, verb, calls, held, looked, child, seen>>

(* The caller is killed, or ^C; its child has a session of its own. *)
Crash(c) ==
  /\ pc[c] # "idle"
  /\ crashes < MaxCrashes
  /\ crashes' = crashes + 1
  /\ careful' = (careful /\ pc[c] \notin {"snapshot", "save"})
  /\ Return(c, "failed")
  /\ UNCHANGED <<kernel, record, verb, calls, held, looked, child, seen>>

-----------------------------------------------------------------------------
(* The kernel and the other processes of the pod. *)

Unseen == UNCHANGED <<record, crashes, careful, callers>>

(* A second bind succeeds only where every listener shares the port. *)
Bind(p) ==
  /\ AliveAt(p) /\ ~proc[p].doomed /\ ~proc[p].bound
  /\ \A q \in Listening : proc[p].shares /\ proc[q].shares
  /\ proc' = [proc EXCEPT ![p].bound = TRUE]
  /\ UNCHANGED births
  /\ Unseen

(* A process ends: of its own accord, on a signal, or because bind failed. *)
Exit(p) ==
  /\ AliveAt(p)
  /\ proc' = [proc EXCEPT ![p].state = "zombie", ![p].bound = FALSE]
  /\ UNCHANGED births
  /\ Unseen

Reap(p) ==
  /\ Exists(p) /\ ~AliveAt(p)
  /\ proc' = [proc EXCEPT ![p] = None]
  /\ UNCHANGED births
  /\ Unseen

(* A process of somebody else's. *)
OtherStarts(p) ==
  /\ births < MaxBirths /\ ~Exists(p)
  /\ \E shares \in BOOLEAN : proc' = [proc EXCEPT ![p] = Fresh(FALSE, shares)]
  /\ births' = births + 1
  /\ Unseen

-----------------------------------------------------------------------------
Step(c) ==
  \/ LoadState(c) \/ Look(c) \/ Term(c) \/ GraceOver(c) \/ Kill(c) \/ ClearState(c)
  \/ Preflight(c) \/ Spawn(c) \/ Snapshot(c) \/ SaveState(c)
  \/ Verify(c) \/ Ss(c) \/ Inode(c)

Next ==
  \/ \E c \in Callers : Step(c) \/ Crash(c) \/ \E v \in Verb : Begin(c, v)
  \/ \E p \in Pids : Bind(p) \/ Exit(p) \/ Reap(p) \/ OtherStarts(p)

Spec == Init /\ [][Next]_vars

(* A caller keeps taking steps, its grace and its timeout run out however    *)
(* often it polls, and the kernel delivers a SIGKILL.                        *)
TimeOut(c) == pc[c] \in {"ss", "inode"} /\ Step(c) /\ pc'[c] = "idle"

FairSpec ==
  /\ Spec
  /\ \A c \in Callers : WF_vars(Step(c)) /\ WF_vars(GraceOver(c)) /\ SF_vars(TimeOut(c))
  /\ \A p \in Pids : WF_vars(proc[p].doomed /\ Exit(p))

-----------------------------------------------------------------------------
(* Properties. *)

TypeOK ==
  /\ proc \in [Pids -> Process \cup {None}]
  /\ births \in Nat
  /\ record \in RunState \cup {NoRecord}
  /\ crashes \in Nat
  /\ careful \in BOOLEAN
  /\ pc \in [Callers -> Stage]
  /\ verb \in [Callers -> Verb]
  /\ calls \in [Callers -> Nat]
  /\ held \in [Callers -> RunState \cup {NoRecord}]
  /\ looked \in [Callers -> Nat]
  /\ child \in [Callers -> RunState \cup {NoRecord}]
  /\ seen \in [Callers -> Nat]
  /\ outcome \in [Callers -> {"none", "ok", "failed"}]

(* A child that podbench started and did not kill is in the record, where    *)
(* stop finds it - whatever was interrupted, with one caller at a time and   *)
(* but for one killed between starting the child and recording it.           *)
Abandoned(p) ==
  /\ AliveAt(p) /\ proc[p].app /\ ~proc[p].doomed
  /\ proc[p].born # record.of
  /\ \A c \in Callers : pc[c] \in {"snapshot", "save"} => proc[p].born # child[c].of

NoChildAbandoned == careful => \A p \in Pids : ~Abandoned(p)

(* Under the same conditions, old code and new never serve the port at once: *)
(* not even where both share it, and the old child was slow to bind.         *)
OneVersionServes == careful => Cardinality({p \in Listening : proc[p].app}) <= 1

(* A signal goes to the process the record names, or to one that took its    *)
(* pid since is_live looked, where the record has the start time of its own  *)
(* child: not none, nor that of a process that took the pid at once.         *)
Signals(c) == \/ pc[c] = "term"  /\ pc'[c] = "grace"
              \/ pc[c] = "kill"  /\ pc'[c] = "clear"

Hits(c) == proc[held[c].pid].born

SignalsWhatItLookedAt ==
  [][\A c \in Callers : Signals(c) /\ held[c].ticks = held[c].of =>
        Hits(c) = held[c].of \/ Hits(c) > looked[c]]_vars

(* What stop reported as stopped is gone in the end, even when it ignored    *)
(* SIGTERM.                                                                  *)
Gone(born) == \A p \in Pids : AliveAt(p) => proc[p].born # born

StoppedIsGone ==
  \A c \in Callers : \A born \in 1 .. MaxBirths :
    (pc[c] = "idle" /\ outcome[c] = "ok" /\ verb[c] = "stop" /\ held[c].of = born) ~> Gone(born)

(* Every command ends. *)
CommandEnds == \A c \in Callers : (pc[c] # "idle") ~> (pc[c] = "idle")

=============================================================================

----------------------------- MODULE CapReport -----------------------------
(***************************************************************************)
(* `podbench capreport` (probe.py, with the /proc readings of proc.py) and *)
(* what a launcher makes of its answer (model.py, launcher.py).            *)
(*                                                                         *)
(* Each seat of a pod may run the probe, several at a time, beside a user's *)
(* gdb and processes that exit.  A probe chooses a process, reads what     *)
(* /proc says of it, attaches to a child of its own and then to the        *)
(* process itself, and derives a verdict and the name of what refused.     *)
(* Every read and every ptrace call is a step of its own.                  *)
(*                                                                         *)
(* The kernel's rules are external: the operators under "The kernel".      *)
(***************************************************************************)
EXTENDS Integers, FiniteSets, Sequences

CONSTANTS Seats,      \* the seats of the pod, each with its probe
          Procs,      \* the pids of the target container
          Scenes,     \* the pods: what the node, the seats and the processes are
          NoScope,    \* the node has no Yama
          NoPid,      \* no process
          Unread      \* an id /proc did not give

(* A scene.                                                                *)
(*   filter  the seats' seccomp: none, or one that permits or denies ptrace *)
(*   lsm     the labels of seat and target; "hidden" differ and were not read *)
(*   seize   the kernel knows PTRACE_SEIZE                                 *)
(*   seats   those that probe                                              *)
(*     cid     the seat was told the target's container                    *)
(*     libc    ptrace(2) can be called                                     *)
(*     behind  its launcher is older than the launch-only verdict          *)
(*   faults  how many calls may fail or probes be killed                   *)
ProcKind == [uid : Nat, gid : Nat, shell : BOOLEAN, threads : Nat, depth : Nat]
SeatKind == [uid : Nat, gid : Nat, cap : BOOLEAN, cid : BOOLEAN, libc : BOOLEAN, behind : BOOLEAN]
IsScene(sc) ==
  /\ sc.yama \in {NoScope} \cup 0..3 /\ sc.filter \in {"none", "permits", "denies"}
  /\ sc.lsm \in {"none", "same", "differ", "hidden"} /\ sc.seize \in BOOLEAN /\ sc.faults \in Nat
  /\ sc.procs \in [Procs -> ProcKind]
  /\ DOMAIN sc.seats \subseteq Seats /\ \A s \in DOMAIN sc.seats : sc.seats[s] \in SeatKind

ASSUME CapReportAssumption ==
  /\ Procs \subseteq Nat \ {0} /\ NoPid \notin Procs
  /\ NoScope \notin 0..3 /\ Unread \notin Nat
  /\ {"none", "gdb", "kernel"} \cap Seats = {}
  /\ \A sc \in Scenes : IsScene(sc)

VARIABLES scene,      \* the pod
          proc,       \* pid -> its state, its tracer, and whether it is stopped
          probe,      \* seat -> the probe that runs in it
          faults,     \* what may still fail
          steady,     \* seat -> nobody else has touched the process it probes
          refused     \* seat -> the mechanisms met while it looked

vars == <<scene, proc, probe, faults, steady, refused>>

-----------------------------------------------------------------------------
(* The readings and the verdicts. *)

PTRACE_READ_PATHS == {"root", "maps", "environ"}
WORLD_READ_PATHS  == {"cmdline", "status", "fd"}
Verdicts == {"LIVE_ATTACH", "READ_ONLY", "LAUNCH_ONLY", "NONE"}
NOT_PROBED == "not-probed"

(* What one probe has measured so far. *)
Blank == [pc |-> "idle", pid |-> NoPid, uid |-> Unread, gid |-> Unread,
          tracer |-> FALSE, reads |-> {}, matrix |-> FALSE, child |-> "none",
          attach |-> "none", warned |-> FALSE, verdict |-> "NONE", blocker |-> "none"]

Seat(s) == scene.seats[s]

-----------------------------------------------------------------------------
(* The kernel. *)

(* __ptrace_may_access: the capability, or both ids. *)
UidRefuses(s, p) == ~Seat(s).cap /\ Seat(s).uid # scene.procs[p].uid
GidRefuses(s, p) == ~Seat(s).cap /\ Seat(s).gid # scene.procs[p].gid
CredentialsMatch(s, p) == ~UidRefuses(s, p) /\ ~GidRefuses(s, p)

(* Scope 1 spares descendants, 2 those with the capability, 3 nobody. *)
YamaRefuses(s, descendant) ==
  \/ scene.yama = 1 /\ ~Seat(s).cap /\ ~descendant
  \/ scene.yama = 2 /\ ~Seat(s).cap
  \/ scene.yama = 3

LsmRefuses == scene.lsm \in {"differ", "hidden"}
FilterRefuses == scene.filter = "denies"

MayTraceChild(s) == ~FilterRefuses /\ ~YamaRefuses(s, TRUE)

(* A zombie has no address space: its maps and environment open unchecked. *)
MayRead(s, p) ==
  CASE proc[p].state = "run"    -> WORLD_READ_PATHS \cup {path \in PTRACE_READ_PATHS : CredentialsMatch(s, p)}
    [] proc[p].state = "zombie" -> WORLD_READ_PATHS \cup {"maps", "environ"}
    [] proc[p].state = "gone"   -> {}

Refusers(s, p) ==
     {m \in {"uid-mismatch"}   : UidRefuses(s, p)}
  \cup {m \in {"gid-mismatch"} : GidRefuses(s, p)}
  \cup {m \in {"yama-scope"}   : YamaRefuses(s, FALSE)}
  \cup {m \in {"lsm-mismatch"} : LsmRefuses}
  \cup {m \in {"seccomp"}      : FilterRefuses}
  \cup {m \in {"already-traced"} : proc[p].tracer # "none"}

MayAttach(s, p) == proc[p].state = "run" /\ Refusers(s, p) = {}

-----------------------------------------------------------------------------
(* Which process is probed. *)

(* The key of proc.debug_candidates, least first. *)
Flag(b) == IF b THEN 1 ELSE 0
Rank(s, p) ==
  LET shell == scene.procs[p].shell
  IN <<Flag(shell), Flag(proc[p].state # "run"), Flag("root" \notin MayRead(s, p)),
       IF shell THEN 0 ELSE -scene.procs[p].threads,
       IF shell THEN 0 ELSE -scene.procs[p].depth, p>>
Before(a, b) == \E i \in DOMAIN a : a[i] < b[i] /\ \A j \in 1..(i - 1) : a[j] = b[j]

Present == {p \in Procs : proc[p].state # "gone"}
debug_candidates(s) == {p \in Present : \A q \in Present \ {p} : Before(Rank(s, p), Rank(s, q))}

-----------------------------------------------------------------------------
(* What is derived from the measurements. *)

(* mistaken: any path that opens counts, those that need no permission too *)
ptrace_reads_okAny(reads) == reads # {}
ptrace_reads_ok(reads) == PTRACE_READ_PATHS \subseteq reads

SeccompMode == IF scene.filter = "none" THEN 0 ELSE 2

(* The filter is blamed wherever there is one, whether or not it refuses.  *)
_classify_structural(s) ==
  IF SeccompMode \in {1, 2} THEN "seccomp"
  ELSE IF scene.yama = 3 \/ (scene.yama = 2 /\ ~Seat(s).cap) THEN "yama-scope"
  ELSE "unknown"

(* Both labels must be known: one that could not be read is no mismatch. *)
LabelsDiffer == scene.lsm = "differ"

(* mistaken: a gid nobody read is compared like one that was *)
WithoutCapUnread(s, m) ==
  IF m.uid = Unread THEN "no-cap-sys-ptrace"
  ELSE IF m.uid # Seat(s).uid THEN "uid-mismatch"
  ELSE IF m.gid # Seat(s).gid THEN "gid-mismatch"
  ELSE IF scene.yama \notin {NoScope, 0} THEN "yama-scope" ELSE "unknown"

(* Without the capability the ids are compared first, as the kernel does,  *)
(* and an id that was not read is no mismatch.                             *)
WithoutCap(s, m) ==
  IF m.uid = Unread THEN "no-cap-sys-ptrace"
  ELSE IF m.uid # Seat(s).uid THEN "uid-mismatch"
  ELSE IF m.gid # Unread /\ m.gid # Seat(s).gid THEN "gid-mismatch"
  ELSE IF scene.yama \notin {NoScope, 0} THEN "yama-scope" ELSE "unknown"

_classify_denial(s, m) ==
  IF m.tracer THEN "already-traced"
  ELSE IF Seat(s).cap THEN (IF LabelsDiffer THEN "lsm-mismatch" ELSE "unknown")
  ELSE WithoutCap(s, m)

Unattempted(m) == m.attach \in {"none", "skipped"}

derive_verdict(s, m) ==
  IF m.child = "denied"
    THEN [verdict |-> IF ptrace_reads_ok(m.reads) THEN "READ_ONLY" ELSE "NONE",
          blocker |-> _classify_structural(s)]
  ELSE IF m.pid = NoPid \/ m.attach = "ok"
    THEN [verdict |-> "LIVE_ATTACH", blocker |-> "none"]
  ELSE [verdict |-> IF ptrace_reads_ok(m.reads) THEN "READ_ONLY"
                    ELSE IF m.child = "ok" THEN "LAUNCH_ONLY" ELSE "NONE",
        blocker |-> IF Unattempted(m) /\ Seat(s).cap THEN "none" ELSE _classify_denial(s, m)]

-----------------------------------------------------------------------------
(* What a launcher makes of the report. *)

(* model.measured_verdict: from the attempts, never from the verdict. *)
measured_verdict(m) ==
  IF m.attach = "ok" THEN "LIVE_ATTACH"
  ELSE IF ptrace_reads_ok(m.reads) THEN "READ_ONLY"
  ELSE IF m.child = "ok" THEN "LAUNCH_ONLY"
  ELSE IF Unattempted(m) /\ m.child # "denied" /\ ~m.matrix THEN NOT_PROBED
  ELSE "NONE"

(* A verdict this launcher has never heard of is shown as no access. *)
capability_report_from_json(s, m) ==
  IF Seat(s).behind /\ m.verdict = "LAUNCH_ONLY" THEN [m EXCEPT !.verdict = "NONE"] ELSE m

(* The row of a listing, and the boxes an attach ticks. *)
_seat_verdict(s) ==
  IF probe[s].pc = "done" THEN measured_verdict(capability_report_from_json(s, probe[s]))
  ELSE NOT_PROBED
features(s) ==
  LET report == capability_report_from_json(s, probe[s])
  IN {f \in {"attach"} : report.verdict = "LIVE_ATTACH"}
       \cup {f \in {"reads"} : ptrace_reads_ok(report.reads)}
       \cup {f \in {"launch"} : report.child = "ok"}

-----------------------------------------------------------------------------
(* Bookkeeping. *)

(* A step by one hand on a process unsettles every probe of it but its own. *)
Disturbs(p, own) == [s \in Seats |-> steady[s] /\ (s = own \/ probe[s].pid # p)]
Untouched == UNCHANGED <<scene, proc, faults, steady, refused>>
Quiet == UNCHANGED <<scene, proc, faults, steady>>
Fault == faults > 0 /\ faults' = faults - 1
Move(s, pc, m) == probe' = [probe EXCEPT ![s] = [m EXCEPT !.pc = pc]]
Notes(s, p) == refused' = [refused EXCEPT ![s] = @ \cup Refusers(s, p)]

-----------------------------------------------------------------------------
(* A probe. *)

Begin(s) ==
  /\ probe[s].pc = "idle"
  /\ Move(s, "discover", Blank)
  /\ steady' = [steady EXCEPT ![s] = TRUE]
  /\ refused' = [refused EXCEPT ![s] = {}]
  /\ UNCHANGED <<scene, proc, faults>>

(* discover_target: no container id or no process leaves the seat alone to *)
(* be reported on, and so does a best candidate that is dead.              *)
discover_target(s) ==
  /\ probe[s].pc = "discover"
  /\ \/ /\ ~Seat(s).cid \/ Present = {}
        /\ Move(s, "scratch", [probe[s] EXCEPT !.pid = NoPid])
     \/ /\ Seat(s).cid
        /\ \E best \in debug_candidates(s) :
             IF proc[best].state = "run" THEN Move(s, "status", [probe[s] EXCEPT !.pid = best])
             ELSE Move(s, "scratch", [probe[s] EXCEPT !.pid = NoPid])
  /\ Untouched

(* read_uid, read_gid, read_tracer_pid: world-readable, unless the process *)
(* has gone or the read fails.                                             *)
ReadStatus(s) ==
  LET p == probe[s].pid
      there == proc[p].state # "gone"
  IN /\ probe[s].pc = "status"
     /\ \E uid \in {scene.procs[p].uid, Unread}, gid \in {scene.procs[p].gid, Unread} :
          /\ ~there => uid = Unread /\ gid = Unread
          /\ IF there /\ (uid = Unread \/ gid = Unread) THEN Fault ELSE UNCHANGED faults
          /\ Move(s, "matrix", [probe[s] EXCEPT !.uid = uid, !.gid = gid,
                                                !.tracer = there /\ proc[p].tracer # "none"])
     /\ Notes(s, p)
     /\ UNCHANGED <<scene, proc, steady>>

proc_read_matrix(s) ==
  /\ probe[s].pc = "matrix"
  /\ Move(s, "scratch", [probe[s] EXCEPT !.reads = MayRead(s, probe[s].pid), !.matrix = TRUE])
  /\ Untouched

(* attach_child: the child is the probe's own, and killed with an alarm.   *)
attach_child(s) ==
  LET m == probe[s]
      outcome == IF ~Seat(s).libc THEN "skipped"
                 ELSE IF MayTraceChild(s) THEN "ok" ELSE "denied"
  IN /\ m.pc = "scratch"
     /\ Move(s, IF m.pid = NoPid \/ ~Seat(s).libc THEN "report" ELSE "seize",
             [m EXCEPT !.child = outcome,
                       !.attach = IF m.pid # NoPid /\ ~Seat(s).libc THEN "skipped" ELSE @])
     /\ Untouched

(* _seize_from_a_child: the seizing child exits at once, and its exit is   *)
(* the detach.  EIO, or a fork that fails, leads to the stopping call.     *)
SeizeAnswers(s, p) == scene.seize \/ FilterRefuses
SeizeDenied(s) ==
  LET p == probe[s].pid
  IN /\ probe[s].pc = "seize" /\ SeizeAnswers(s, p) /\ ~MayAttach(s, p)
     /\ Move(s, "report", [probe[s] EXCEPT !.attach = "denied"])
     /\ Notes(s, p)
     /\ Quiet
Seize(s) ==
  LET p == probe[s].pid
  IN /\ probe[s].pc = "seize" /\ SeizeAnswers(s, p) /\ MayAttach(s, p)
     /\ Move(s, "seized", [probe[s] EXCEPT !.attach = "ok"])
     /\ proc' = [proc EXCEPT ![p].tracer = s]
     /\ steady' = Disturbs(p, s)
     /\ UNCHANGED <<scene, faults, refused>>
SeizerExits(s) ==
  LET p == probe[s].pid
  IN /\ probe[s].pc = "seized"
     /\ Move(s, "report", probe[s])
     /\ proc' = [proc EXCEPT ![p].tracer = IF @ = s THEN "none" ELSE @]
     /\ steady' = Disturbs(p, s)
     /\ UNCHANGED <<scene, faults, refused>>
SeizeUnanswered(s) ==
  /\ probe[s].pc = "seize"
  /\ Move(s, "attach", probe[s])
  /\ IF SeizeAnswers(s, probe[s].pid) THEN Fault ELSE UNCHANGED faults
  /\ UNCHANGED <<scene, proc, steady, refused>>

(* _attach_and_detach: the call that stops its tracee. *)
Attach(s) ==
  LET p == probe[s].pid
  IN /\ probe[s].pc = "attach" /\ MayAttach(s, p)
     /\ Move(s, "stopping", [probe[s] EXCEPT !.attach = "ok"])
     /\ proc' = [proc EXCEPT ![p].tracer = s, ![p].stopped = TRUE]
     /\ steady' = Disturbs(p, s)
     /\ UNCHANGED <<scene, faults, refused>>
AttachDenied(s) ==
  LET p == probe[s].pid
  IN /\ probe[s].pc = "attach" /\ ~MayAttach(s, p)
     /\ Move(s, "report", [probe[s] EXCEPT !.attach = "denied"])
     /\ Notes(s, p)
     /\ Quiet

Released(p, s) == [proc EXCEPT ![p].tracer = IF @ = s THEN "none" ELSE @,
                               ![p].stopped = FALSE]
Detach(s) ==
  LET p == probe[s].pid
  IN /\ probe[s].pc = "stopping" /\ proc[p].state = "run"
     /\ Move(s, "report", probe[s])
     /\ proc' = Released(p, s)
     /\ steady' = Disturbs(p, s)
     /\ UNCHANGED <<scene, faults, refused>>
(* It fails on a process that has died, and now and then on one that lives. *)
DetachFails(s) ==
  LET p == probe[s].pid
  IN /\ probe[s].pc = "stopping"
     /\ IF proc[p].state = "run" THEN Fault ELSE UNCHANGED faults
     /\ Move(s, "undetached", probe[s])
     /\ UNCHANGED <<scene, proc, steady, refused>>

(* mistaken: a detach that failed is as good as one that did not *)
_resumeNot(s) ==
  /\ probe[s].pc = "undetached"
  /\ Move(s, "report", probe[s])
  /\ Untouched
(* _resume: SIGCONT by hand, and a note whether or not it was delivered.   *)
_resume(s) ==
  LET p == probe[s].pid
  IN /\ probe[s].pc = "undetached"
     /\ \/ /\ proc' = Released(p, s)
           /\ UNCHANGED faults
        \/ /\ IF proc[p].state = "gone" THEN UNCHANGED faults ELSE Fault
           /\ UNCHANGED proc
     /\ Move(s, "report", [probe[s] EXCEPT !.warned = TRUE])
     /\ steady' = Disturbs(p, s)
     /\ UNCHANGED <<scene, refused>>

(* A tracer that ends lets go of what it traces. *)
LetGo(s) == [p \in Procs |-> [proc[p] EXCEPT !.tracer = IF @ = s THEN "none" ELSE @]]

Report(s) ==
  LET d == derive_verdict(s, probe[s])
  IN /\ probe[s].pc = "report"
     /\ Move(s, "done", [probe[s] EXCEPT !.verdict = d.verdict, !.blocker = d.blocker])
     /\ proc' = LetGo(s)
     /\ steady' = IF proc' = proc THEN steady ELSE Disturbs(probe[s].pid, s)
     /\ UNCHANGED <<scene, faults, refused>>

-----------------------------------------------------------------------------
(* Everything else. *)

(* The probe is killed: with its container, or by whoever started it.  A   *)
(* process it had stopped may run on, or not.                              *)
Killed(s) ==
  /\ probe[s].pc \notin {"idle", "done", "killed"}
  /\ Fault
  /\ Move(s, "killed", probe[s])
  /\ proc' \in {LetGo(s), [p \in Procs |-> [LetGo(s)[p] EXCEPT !.stopped = @ /\ p # probe[s].pid]]}
  /\ steady' = Disturbs(probe[s].pid, s)
  /\ UNCHANGED <<scene, refused>>

GdbAttaches(p) ==
  /\ proc[p].state = "run" /\ proc[p].tracer = "none"
  /\ Fault
  /\ proc' = [proc EXCEPT ![p].tracer = "gdb"]
  /\ steady' = Disturbs(p, "gdb")
  /\ UNCHANGED <<scene, probe, refused>>
GdbLeaves(p) ==
  /\ proc[p].tracer = "gdb"
  /\ proc' = [proc EXCEPT ![p].tracer = "none"]
  /\ steady' = Disturbs(p, "gdb")
  /\ UNCHANGED <<scene, probe, faults, refused>>

Exits(p) ==
  /\ proc[p].state = "run"
  /\ Fault
  /\ proc' = [proc EXCEPT ![p] = [state |-> "zombie", tracer |-> "none", stopped |-> FALSE]]
  /\ steady' = Disturbs(p, "kernel")
  /\ UNCHANGED <<scene, probe, refused>>
IsReaped(p) ==
  /\ proc[p].state = "zombie"
  /\ proc' = [proc EXCEPT ![p].state = "gone"]
  /\ steady' = Disturbs(p, "kernel")
  /\ UNCHANGED <<scene, probe, faults, refused>>

-----------------------------------------------------------------------------

Init ==
  /\ scene \in Scenes
  /\ proc = [p \in Procs |-> [state |-> "run", tracer |-> "none", stopped |-> FALSE]]
  /\ probe = [s \in Seats |-> Blank]
  /\ faults = scene.faults
  /\ steady = [s \in Seats |-> TRUE]
  /\ refused = [s \in Seats |-> {}]

ProbeStep(s) ==
  \/ Begin(s) \/ discover_target(s) \/ ReadStatus(s) \/ proc_read_matrix(s)
  \/ attach_child(s) \/ SeizeDenied(s) \/ Seize(s) \/ SeizerExits(s) \/ SeizeUnanswered(s)
  \/ Attach(s) \/ AttachDenied(s) \/ Detach(s) \/ DetachFails(s) \/ _resume(s) \/ Report(s)

Next ==
  \/ \E s \in DOMAIN scene.seats : ProbeStep(s) \/ Killed(s)
  \/ \E p \in Procs : GdbAttaches(p) \/ GdbLeaves(p) \/ Exits(p) \/ IsReaped(p)

Spec == Init /\ [][Next]_vars

-----------------------------------------------------------------------------
(* The state has its types: proved in CapReportProofs.                     *)
Mechanism == {"uid-mismatch", "gid-mismatch", "yama-scope", "lsm-mismatch", "seccomp",
              "already-traced", "no-cap-sys-ptrace", "unknown"}
Stage == {"idle", "discover", "status", "matrix", "scratch", "seize", "seized", "attach",
          "stopping", "undetached", "report", "done", "killed"}
Process == [state : {"run", "zombie", "gone"}, tracer : {"none", "gdb"} \cup Seats,
            stopped : BOOLEAN]
Measured == [pc : Stage, pid : Procs \cup {NoPid}, uid : Nat \cup {Unread},
             gid : Nat \cup {Unread}, tracer : BOOLEAN,
             reads : SUBSET (PTRACE_READ_PATHS \cup WORLD_READ_PATHS), matrix : BOOLEAN,
             child : {"none", "ok", "denied", "skipped"},
             attach : {"none", "ok", "denied", "skipped"}, warned : BOOLEAN,
             verdict : Verdicts, blocker : Mechanism \cup {"none"}]
TypeOK ==
  /\ IsScene(scene) /\ faults \in Nat
  /\ proc \in [Procs -> Process]
  /\ probe \in [Seats -> Measured]
  /\ steady \in [Seats -> BOOLEAN]
  /\ refused \in [Seats -> SUBSET Mechanism]

(* Properties. *)

(* The workload goes on running: a process is left stopped only while the  *)
(* fallback of an old kernel or a failed fork is at work on it, where the  *)
(* probe was killed in the middle of that, or where the report says that   *)
(* it may be stopped (CtypesAttacher, _resume).                            *)
WorkloadRunsOn ==
  \A p \in Procs : proc[p].stopped =>
    \E s \in Seats : /\ probe[s].pid = p
                     /\ probe[s].pc \in {"stopping", "undetached", "killed"} \/ probe[s].warned

(* What may really be done to the process a probe settled on. *)
TheKernelsVerdict(s) ==
  LET p == probe[s].pid
  IN IF MayAttach(s, p) THEN "LIVE_ATTACH"
     ELSE IF PTRACE_READ_PATHS \subseteq MayRead(s, p) THEN "READ_ONLY"
     ELSE IF MayTraceChild(s) THEN "LAUNCH_ONLY" ELSE "NONE"

Answered(s) == probe[s].pc = "done" /\ probe[s].pid # NoPid /\ Seat(s).libc

(* A process nobody else touched while it was probed gets exactly the      *)
(* verdict the kernel would give, whichever ptrace call was used, whatever *)
(* /proc did not answer and whoever probed beside it (derive_verdict).     *)
VerdictIsTheKernels ==
  \A s \in DOMAIN scene.seats :
    Answered(s) /\ steady[s] => probe[s].verdict = TheKernelsVerdict(s)

(* Where ptrace works at all, a mechanism is named as what said no only if *)
(* it did say no while the probe looked, though the ids, the tracer and    *)
(* the attempt are read one after another (_classify_denial).              *)
NamedMechanismRefuses ==
  \A s \in DOMAIN scene.seats :
    Answered(s) /\ probe[s].child = "ok"
      => probe[s].blocker \in refused[s] \cup {"none", "unknown", "no-cap-sys-ptrace"}

(* A listing claims of a seat only what was attempted there and worked,    *)
(* and nothing of a process that was never found, though its launcher may  *)
(* be older than the verdict and the seat may have had no target           *)
(* (measured_verdict, features).                                           *)
RowClaimsWhatWasMeasured ==
  \A s \in DOMAIN scene.seats :
    LET row == _seat_verdict(s)
    IN probe[s].pc = "done" =>
         /\ row \in {"LIVE_ATTACH", "READ_ONLY"} => probe[s].pid # NoPid
         /\ row = "LAUNCH_ONLY" => MayTraceChild(s)
         /\ Answered(s) /\ steady[s] => row = TheKernelsVerdict(s)
         /\ Answered(s) /\ steady[s] /\ "attach" \in features(s) => row = "LIVE_ATTACH"

(* The probe's own verdict, and the row a listing makes of it later, are    *)
(* what the kernel allows (derive_verdict, measured_verdict).               *)
VerdictsAreMeasured == VerdictIsTheKernels /\ RowClaimsWhatWasMeasured

=============================================================================

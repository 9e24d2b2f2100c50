---------------------------- MODULE DebugConfig ----------------------------
(***************************************************************************)
(* `podbench debug-config` in a seat beside a running workload             *)
(* (vscode.py, provision.py, dap.py, proc.py): it finds the debugger       *)
(* server a target already has, measures what the seat can do, with        *)
(* --provision installs debugpy into the target and injects a server, and  *)
(* writes the configurations that came out into launch.json.               *)
(*                                                                         *)
(* A debugpy adapter is a child of the process it serves and debugpy       *)
(* serves a process once.  Several runs, of one seat or of several, act on *)
(* one target; the workload is restarted, starts its own server and loses  *)
(* one, and others take ports, at any point.  The best candidate process   *)
(* is the one modelled; a --program of the user's own is not.              *)
(***************************************************************************)
EXTENDS Flavours

CONSTANTS
    Runs,           \* the debug-config commands
    NoRun,
    Conventional,   \* the port an app that ran `-m debugpy` is on
    Fresh,          \* the ports the kernel hands out
    Pinned,         \* the port a user may pin with --port
    Scenarios       \* the scenarios: see the fields below

(* A pod is [p, s, dest, claim, shared, who, opts, again, faults]: the process
   and the seat as Flavours has them, the tree at the provisioning destination,
   whether that is on the hotfix claim, whether the runs write one launch.json,
   who runs the command, with which options, whether more than once, and how
   many faults may happen. *)
Ports == Fresh \cup {Conventional, Pinned}

Options == [provision : BOOLEAN, print : BOOLEAN, port : {0, Pinned}, wanted : SUBSET Flavour]

ASSUME PortsAssumption == Ports \subseteq Nat \ {0} /\ NoRun \notin Runs

ASSUME ScenariosAssumption ==
    \A c \in Scenarios : /\ c.p \in Target /\ c.s \in Looker /\ c.dest \in DebugpyTree
                         /\ c.opts \in [Runs -> Options]

VARIABLES
    pod,    \* the scenario, fixed at the start
    app,    \* [gen, served, adapter, ok, held]: the process and its server
    tree,   \* what stands at the provisioning destination
    ports,  \* who else holds each port: "free", "sidecar" or "stranger"
    file,   \* the debugpy entry of each launch.json: process -> port
    run,    \* each command's own variables
    mishaps \* how many faults have happened

debugVars == <<pod, app, tree, ports, file, run, mishaps>>

Pids == 0 .. 2
NoEntries == [q \in Pids |-> 0]
Blank == [listening |-> 0, dest |-> "none"]

Idle == [pc |-> "idle", pid |-> 0, found |-> 0, answers |-> TRUE, wanted |-> {},
         probe |-> 0, chosen |-> 0, attach |-> "unasked", asked |-> FALSE,
         sight |-> Blank, proved |-> FALSE, entry |-> 0, read |-> NoEntries,
         calm |-> TRUE]

DebugInit ==
    /\ pod \in Scenarios
    /\ app = [gen |-> 0, served |-> FALSE, adapter |-> 0, ok |-> FALSE, held |-> NoRun]
    /\ tree = pod.dest
    /\ ports = [q \in Ports |-> "free"]
    /\ file = [f \in Runs |-> NoEntries]
    /\ run = [r \in Runs |-> Idle]
    /\ mishaps = 0

(***************************************************************************)
(* What a run can see.                                                     *)
(***************************************************************************)
Opts(r)   == pod.opts[r]
Python    == Language(pod.p, pod.s) = "python"
Live(r)   == app.gen = run[r].pid
FileOf(r) == IF pod.shared THEN CHOOSE f \in Runs : TRUE ELSE r

(* The adapter serving a process, by parentage: its port is in its own argv. *)
DebugpyAdapter == app.adapter

(* The outcomes of a DAP `initialize` on a port: the target's own adapter
   answers if it is not wedged, another holder of the port may answer or not. *)
Initialize(q) ==
    IF app.adapter = q THEN {app.ok}
    ELSE IF ports[q] = "free" THEN {FALSE} ELSE BOOLEAN

(* mistaken: the server is looked for on the conventional port alone. *)
ListeningByPort(r) ==
    IF Python /\ (app.adapter = run[r].probe \/ ports[run[r].probe] = "sidecar")
    THEN run[r].probe ELSE 0

(* The target's server as a run finds it: the adapter it was shown at the start,
   or a listener on the port it looks at whose socket belongs to a container of
   this pod.  A socket nobody can attribute is no server. *)
Listening(r) ==
    IF run[r].found # 0 THEN run[r].found
    ELSE IF Python /\ (app.adapter = run[r].probe \/ ports[run[r].probe] = "sidecar")
         THEN run[r].probe ELSE 0

(* The attach itself is asked once, where the answer could change something. *)
MeasuredAttach(r, listening) ==
    IF pod.p.here \/ ~Python \/ listening # 0 \/ pod.s.cap \/ Opts(r).print THEN "unasked"
    ELSE IF pod.s.attachable /\ Live(r) /\ app.held = NoRun THEN "yes" ELSE "no"

Measured(r) ==
    LET listening == Listening(r)
    IN  [run[r] EXCEPT
           !.sight = [listening |-> listening, dest |-> IF Live(r) THEN tree ELSE "gone"],
           !.attach = IF run[r].asked THEN @ ELSE MeasuredAttach(r, listening),
           !.asked = TRUE]

(* A process that is gone is read no more than one the kernel refuses. *)
Seat(r) == [pod.s EXCEPT !.readable = @ /\ run[r].sight.dest # "gone"]

Verdicts(r, wanted) ==
    Assess(pod.p, Seat(r), run[r].sight.dest, run[r].attach, run[r].sight.listening # 0, wanted)

(* The ports a server started by this run may be given: the user's, or one the
   kernel says is free; the conventional one where it could not be asked. *)
ServingPort(r) ==
    IF Opts(r).port # 0 THEN {Opts(r).port}
    ELSE IF pod.p.here \/ ~Python THEN {Conventional}
    ELSE IF run[r].chosen # 0 THEN {run[r].chosen}
    ELSE {q \in Fresh : ports[q] = "free" /\ app.adapter # q} \cup {Conventional}

Set(r, record) == run' = [run EXCEPT ![r] = record]

(***************************************************************************)
(* One command, step by step.                                              *)
(***************************************************************************)
Begin(r) ==
    /\ run[r].pc = "idle"
    /\ r \in pod.who
    /\ LET found == DebugpyAdapter
       IN  Set(r, [Idle EXCEPT
                     !.pc = IF found # 0 /\ ~pod.p.here THEN "prove" ELSE "measure",
                     !.pid = app.gen, !.found = found, !.wanted = Opts(r).wanted,
                     !.probe = IF Opts(r).port = 0 THEN Conventional ELSE Opts(r).port])
    /\ UNCHANGED <<pod, app, tree, ports, file, mishaps>>

(* Parentage proves whose the adapter is; it is asked whether it answers. *)
Prove(r) ==
    /\ run[r].pc = "prove"
    /\ \E answer \in Initialize(run[r].found) :
         Set(r, [run[r] EXCEPT !.pc = "measure", !.answers = answer,
                               !.wanted = IF answer THEN @ ELSE @ \ {"debugpy"}])
    /\ UNCHANGED <<pod, app, tree, ports, file, mishaps>>

Measure(r) ==
    /\ run[r].pc = "measure"
    /\ Set(r, [Measured(r) EXCEPT
                 !.pc = IF Opts(r).provision /\ run[r].answers THEN "provision" ELSE "emit"])
    /\ UNCHANGED <<pod, app, tree, ports, file, mishaps>>

(* Whether --provision installs anything: never over a copy the target can
   already load, except its own. *)
Installs(r) ==
    LET sight == run[r].sight
        place == TargetDebugpy(pod.p, Seat(r), sight.dest)
    IN  /\ ~pod.p.here /\ Python /\ sight.listening = 0
        /\ pod.p.published
        /\ place \in {"dest", "nowhere"} \/ ~HelperPresent(pod.p, Seat(r), sight.dest)
        /\ pod.s.uv
        /\ VersionKnown(pod.p, pod.s)

Provision(r) ==
    /\ run[r].pc = "provision"
    /\ Set(r, [run[r] EXCEPT !.pc = IF Installs(r) THEN "install" ELSE "inject"])
    /\ UNCHANGED <<pod, app, tree, ports, file, mishaps>>

(* The probe refuses the destination, or uv the download: nothing is written. *)
InstallRefused(r) ==
    /\ run[r].pc = "install"
    /\ Set(r, [run[r] EXCEPT !.pc = "inject"])
    /\ UNCHANGED <<pod, app, tree, ports, file, mishaps>>

(* uv fills the tree in: it is importable before its helper is there. *)
UvUnpacks(r) ==
    /\ run[r].pc = "install"
    /\ pod.s.readable /\ Live(r)
    /\ tree' = "bare"
    /\ Set(r, [run[r] EXCEPT !.pc = "unpacking"])
    /\ UNCHANGED <<pod, app, ports, file, mishaps>>

UvEnds(r) ==
    /\ run[r].pc = "unpacking"
    /\ \/ /\ Live(r)
          /\ tree' = "whole"
          /\ Set(r, [run[r] EXCEPT !.pc = "remeasure"])
       \/ /\ tree' = tree
          /\ Set(r, [run[r] EXCEPT !.pc = "inject"])
    /\ UNCHANGED <<pod, app, ports, file, mishaps>>

Remeasure(r) ==
    /\ run[r].pc = "remeasure"
    /\ Set(r, [Measured(r) EXCEPT !.pc = "inject"])
    /\ UNCHANGED <<pod, app, tree, ports, file, mishaps>>

(* What an injection needs, of the world and not of what was seen of it. *)
Attaches(r) == Live(r) /\ pod.s.attachable /\ pod.s.driver /\ pod.s.shim
Loads(place) == pod.p.published /\ Tree(pod.p, pod.s, tree, place) = "whole" /\ place # "nowhere"
Possible(r) ==
    /\ Attaches(r)
    /\ Loads(TargetDebugpy(pod.p, Seat(r), run[r].sight.dest))

(* gdb holds the app from here, unless it cannot attach at all. *)
Inject(r) ==
    /\ run[r].pc = "inject"
    /\ IF pod.p.here \/ ~Python \/ run[r].sight.listening # 0
          \/ ~Verdicts(r, Flavour)["debugpy"].ok
       THEN /\ Set(r, [run[r] EXCEPT !.pc = "emit"])
            /\ app' = app
       ELSE /\ \E q \in ServingPort(r) :
                 Set(r, [run[r] EXCEPT !.pc = "injecting", !.chosen = q])
            /\ app' = IF Attaches(r) /\ app.held = NoRun THEN [app EXCEPT !.held = r] ELSE app
    /\ UNCHANGED <<pod, tree, ports, file, mishaps>>

Freed(r) == IF app.held = r THEN [app EXCEPT !.held = NoRun] ELSE app

(* The driver returns 0.  Of a process nobody served it may have left an
   adapter on a free port, which may answer or not; a process is served once. *)
InjectReturns(r) ==
    LET q == run[r].chosen
    IN  /\ run[r].pc = "injecting"
        /\ \/ /\ app' = Freed(r)
              /\ Set(r, [run[r] EXCEPT !.pc = "handshake"])
           \/ /\ app.held = r /\ Possible(r) /\ ~app.served
              /\ ports[q] = "free" /\ app.adapter = 0
              /\ \E ok \in BOOLEAN :
                   app' = [Freed(r) EXCEPT !.served = TRUE, !.adapter = q, !.ok = ok]
              /\ Set(r, [run[r] EXCEPT !.pc = "handshake"])
        /\ UNCHANGED <<pod, tree, ports, file, mishaps>>

(* No debugpy entry is written by a run whose injection was not proved. *)
Withheld(r) == [run[r] EXCEPT !.pc = "emit", !.wanted = @ \ {"debugpy"}]

InjectFails(r) ==
    /\ run[r].pc = "injecting"
    /\ app' = Freed(r)
    /\ Set(r, Withheld(r))
    /\ UNCHANGED <<pod, tree, ports, file, mishaps>>

(* mistaken: nothing bounds a driver that never returns. *)
InjectTimesOutNever(r) == FALSE /\ UNCHANGED debugVars

(* `timeout` ends a driver that has not returned, and the hold with it. *)
InjectTimesOut(r) ==
    /\ run[r].pc = "injecting"
    /\ \E served \in {app.served, app.held = r \/ app.served} :
         app' = [Freed(r) EXCEPT !.served = served]
    /\ Set(r, Withheld(r))
    /\ UNCHANGED <<pod, tree, ports, file, mishaps>>

Handshake(r) ==
    /\ run[r].pc = "handshake"
    /\ \E answer \in Initialize(run[r].chosen) :
         Set(r, [run[r] EXCEPT !.pc = "settle", !.proved = answer, !.probe = run[r].chosen])
    /\ UNCHANGED <<pod, app, tree, ports, file, mishaps>>

(* mistaken: the injector's exit status is believed. *)
SettleUnproved(r) ==
    /\ run[r].pc = "settle"
    /\ Set(r, [Measured(r) EXCEPT !.pc = "emit"])
    /\ UNCHANGED <<pod, app, tree, ports, file, mishaps>>

(* The port the server was really put on is looked at, and what did not answer
   is withheld. *)
Settle(r) ==
    /\ run[r].pc = "settle"
    /\ Set(r, [Measured(r) EXCEPT !.pc = "emit",
                 !.wanted = IF run[r].proved THEN @ ELSE @ \ {"debugpy"}])
    /\ UNCHANGED <<pod, app, tree, ports, file, mishaps>>

Emit(r) ==
    LET emitted == Emitted(Verdicts(r, run[r].wanted), run[r].wanted)
        named   == IF run[r].sight.listening # 0 THEN {run[r].sight.listening}
                                                 ELSE ServingPort(r)
    IN  /\ run[r].pc = "emit"
        /\ \E q \in named :
             Set(r, [run[r] EXCEPT
                       !.pc = IF emitted = {} \/ Opts(r).print THEN "done" ELSE "read",
                       !.entry = IF "debugpy" \in emitted THEN q ELSE 0])
        /\ UNCHANGED <<pod, app, tree, ports, file, mishaps>>

(* launch.json is read, merged by entry name -- a name holds the pid -- and
   written whole. *)
Read(r) ==
    /\ run[r].pc = "read"
    /\ Set(r, [run[r] EXCEPT !.pc = "write", !.read = file[FileOf(r)]])
    /\ UNCHANGED <<pod, app, tree, ports, file, mishaps>>

MergedEntries(r) ==
    IF run[r].entry = 0 THEN run[r].read
    ELSE [run[r].read EXCEPT ![run[r].pid] = run[r].entry]

Write(r) ==
    /\ run[r].pc = "write"
    /\ file' = [file EXCEPT ![FileOf(r)] = MergedEntries(r)]
    /\ Set(r, [run[r] EXCEPT !.pc = "done", !.read = NoEntries])
    /\ UNCHANGED <<pod, app, tree, ports, mishaps>>

(* The next command of the same seat. *)
Again(r) ==
    /\ run[r].pc = "done"
    /\ pod.again
    /\ Set(r, Idle)
    /\ UNCHANGED <<pod, app, tree, ports, file, mishaps>>

(***************************************************************************)
(* The workload and its neighbours.                                        *)
(***************************************************************************)
Fault ==
    /\ mishaps < pod.faults
    /\ mishaps' = mishaps + 1
    /\ run' = [r \in Runs |-> [run[r] EXCEPT !.calm = FALSE]]
    /\ UNCHANGED <<pod, file>>

(* A restart takes the adapter, and the copy unless it is on the claim. *)
WorkloadRestarts ==
    /\ Fault
    /\ app.gen < 2
    /\ app' = [gen |-> app.gen + 1, served |-> FALSE, adapter |-> 0, ok |-> FALSE,
               held |-> NoRun]
    /\ tree' = IF pod.claim THEN tree ELSE "none"
    /\ UNCHANGED ports

AdapterWedges ==
    /\ Fault
    /\ app.adapter # 0 /\ app.ok
    /\ app' = [app EXCEPT !.ok = FALSE]
    /\ UNCHANGED <<tree, ports>>

AdapterDies ==
    /\ Fault
    /\ app.adapter # 0
    /\ app' = [app EXCEPT !.adapter = 0, !.ok = FALSE]
    /\ UNCHANGED <<tree, ports>>

(* The app calls debugpy.listen() itself. *)
AppListens ==
    /\ Fault
    /\ Python
    /\ ~app.served /\ app.held = NoRun /\ ports[Conventional] = "free"
    /\ app' = [app EXCEPT !.served = TRUE, !.adapter = Conventional, !.ok = TRUE]
    /\ UNCHANGED <<tree, ports>>

(* Another container of the pod, or another pod of a shared network. *)
PortTaken ==
    /\ Fault
    /\ \E q \in Ports, kind \in {"sidecar", "stranger"} :
         /\ ports[q] = "free" /\ app.adapter # q
         /\ ports' = [ports EXCEPT ![q] = kind]
    /\ UNCHANGED <<app, tree>>

DebugNext ==
    \/ \E r \in Runs :
         \/ Begin(r) \/ Prove(r) \/ Measure(r)
         \/ Provision(r) \/ InstallRefused(r) \/ UvUnpacks(r) \/ UvEnds(r) \/ Remeasure(r)
         \/ Inject(r) \/ InjectReturns(r) \/ InjectFails(r) \/ InjectTimesOut(r)
         \/ Handshake(r) \/ Settle(r)
         \/ Emit(r) \/ Read(r) \/ Write(r) \/ Again(r)
    \/ WorkloadRestarts \/ AdapterWedges \/ AdapterDies \/ AppListens \/ PortTaken

(* `timeout` fires whatever the driver waits for; nothing else is promised. *)
DebugSpec == DebugInit /\ [][DebugNext]_debugVars /\ \A r \in Runs : WF_debugVars(InjectTimesOut(r))

(***************************************************************************)
(* Properties.                                                             *)
(***************************************************************************)
Answers(q) == app.adapter = q /\ app.ok

(* The run asked no server whether it answers: it was shown none at its start
   and injected none. *)
Unasked(r) == run[r].found = 0 /\ run[r].chosen = 0

(* An entry that a --provision run left, whoever else was injecting and as long
   as the workload and its neighbours stayed as they were, names a port on which
   the target's own server is, and one that answers unless the run asked none:
   the handshake decides what is written, where there is one (vscode.py
   2230-2275).  A run that is shown a listener by its port when it looks goes by
   the port alone. *)
ProvisionedEntryWorks ==
    \A r \in Runs :
        LET q == run[r].entry
        IN  run[r].pc = "done" /\ Opts(r).provision /\ ~pod.p.here /\ run[r].calm
              /\ q # 0 /\ ports[q] = "free"
            => app.adapter = q /\ (app.ok \/ Unasked(r))

(* What _withhold's comment says of every run: an entry is one that answers.
   The code does not keep it beside an injection that came out wedged. *)
ProvisionedEntryAnswers ==
    \A r \in Runs :
        LET q == run[r].entry
        IN  run[r].pc = "done" /\ Opts(r).provision /\ ~pod.p.here /\ run[r].calm
              /\ q # 0 /\ ports[q] = "free" => Answers(q)

(* A run that found the target's server keeps the entry that reaches it: it does
   not start a second one and write the new number over it (vscode.py 1991). *)
WorkingEntryKept ==
    [][\A r \in Runs :
         LET old == file[FileOf(r)][run[r].pid]
         IN  run[r].pc = "write" /\ run'[r].pc = "done" /\ run[r].calm /\ run[r].found # 0
               /\ Live(r) /\ old # 0 /\ Answers(old)
             => file'[FileOf(r)][run[r].pid] = old]_debugVars

(* The workload does not stay stopped under an injection (provision.py 384). *)
AppIsReleased == \A r \in Runs : app.held = r ~> app.held # r

(* An injection offered on a measured attach can be made, as long as what was
   measured still stands (flavour.py 1099, 1720). *)
OfferedInjectionIsPossible ==
    \A r \in Runs :
        run[r].pc = "emit" /\ Python /\ ~pod.p.here /\ run[r].sight.listening = 0
          /\ Verdicts(r, Flavour)["debugpy"].ok /\ run[r].attach = "yes"
          /\ run[r].sight.dest = tree /\ Live(r)
        => Possible(r)

(* A refusal shown never sends the reader to an entry that is not in the file
   beside it (flavour.py 1552, 1621). *)
EntriesNamedAreWritten ==
    \A r \in Runs : run[r].pc = "emit" =>
        LET v == Verdicts(r, run[r].wanted)
        IN  \A f \in Shown(v, run[r].wanted, Opts(r).wanted # Flavour) \ {"gdb"} :
                v[f].see # "none" => v[f].see \in Emitted(v, run[r].wanted)

(* A JVM or a BEAM that shows itself is never given a native entry, whatever its
   executable is called and however native that file is; where it also goes by
   the name of Python it may get Python's (flavour.py 903). *)
RuntimesAreNamed ==
    \A r \in Runs : run[r].pc = "emit" =>
        LET p == pod.p
        IN  (p.exe \in {"java", "beam"} \/ p.mapped # "none") =>
              Emitted(Verdicts(r, run[r].wanted), run[r].wanted)
                \subseteq IF InterpreterOf(p, Seat(r)) = "python" THEN {"debugpy"} ELSE {}

(* What a run concludes from its survey of the target is so: what it offers can
   be done, what it refers to is there, and a managed runtime is told from a
   native program (flavour.py, judge and assess). *)
SurveyIsTrue == OfferedInjectionIsPossible /\ EntriesNamedAreWritten /\ RuntimesAreNamed

=============================================================================

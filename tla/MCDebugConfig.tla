---------------------------- MODULE MCDebugConfig ----------------------------
(* Small scenarios for DebugConfig. *)
EXTENDS DebugConfig

App == [exe |-> "app", argv0 |-> "app", mapped |-> "none", elf |-> "native", dwarf |-> "mapped",
        symtab |-> TRUE, version |-> "hidden", venv |-> "none", system |-> "none",
        published |-> TRUE, here |-> FALSE, script |-> FALSE]
Py == [App EXCEPT !.exe = "python", !.argv0 = "python", !.version = "exe", !.script = TRUE]

Full == [readable |-> TRUE, attachable |-> TRUE, cap |-> FALSE, driver |-> TRUE, shim |-> TRUE,
         gdb |-> TRUE, dlv |-> TRUE, uv |-> TRUE, shadow |-> FALSE, loads |-> TRUE]

Plain   == [provision |-> FALSE, print |-> FALSE, port |-> 0, wanted |-> Flavour]
Provide == [Plain EXCEPT !.provision = TRUE]
Pin(o) == [o EXCEPT !.port = Pinned]

Base == [p |-> Py, s |-> Full, dest |-> "none", claim |-> FALSE, shared |-> TRUE,
         who |-> Runs, opts |-> [r \in Runs |-> Provide], again |-> FALSE, faults |-> 0]

One == CHOOSE r \in Runs : TRUE
Given(here, there) == [r \in Runs |-> IF r = One THEN here ELSE there]

(* Two commands on one Python target, nothing else going wrong. *)
PairPods ==
    {[Base EXCEPT !.opts = Given(o[1], o[2]), !.p.venv = v, !.shared = f] :
       o \in {<<Provide, Provide>>, <<Provide, Plain>>, <<Pin(Provide), Pin(Provide)>>},
       v \in {"none", "bare", "whole"}, f \in {TRUE}}

(* One seat's commands, one after another, while the workload and its
   neighbours do as they please. *)
FaultPods ==
    {[Base EXCEPT !.who = {One}, !.opts = Given(o, o), !.claim = c, !.again = TRUE,
                  !.faults = 2] :
       o \in {Provide, Plain, Pin(Provide)}, c \in BOOLEAN}

(* Every kind of process before every kind of seat. *)
Processes ==
    {App, [App EXCEPT !.elf = "rust", !.dwarf = "none"], [App EXCEPT !.elf = "go", !.dwarf = "binary"],
     [App EXCEPT !.dwarf = "none", !.symtab = FALSE],
     [App EXCEPT !.exe = "java", !.argv0 = "java", !.mapped = "jvm"],
     [App EXCEPT !.mapped = "jvm"], [App EXCEPT !.exe = "beam", !.mapped = "erlang"],
     [App EXCEPT !.exe = "node"], [App EXCEPT !.elf = "go", !.here = TRUE],
     [Py EXCEPT !.here = TRUE], [Py EXCEPT !.mapped = "jvm"]}

NativeSeats ==
    {[Full EXCEPT !.readable = b[1], !.gdb = b[2], !.dlv = b[3], !.shadow = b[4], !.loads = b[5]] :
       b \in [1 .. 5 -> BOOLEAN]}

PythonSeats ==
    {[Full EXCEPT !.readable = b[1], !.attachable = b[1] /\ b[2], !.cap = b[1] /\ b[2] /\ b[3],
                  !.driver = b[4], !.shim = b[5]] : b \in [1 .. 5 -> BOOLEAN]}

Pythons ==
    {[Py EXCEPT !.venv = v, !.system = y, !.published = b /\ v # "bare"] :
       v \in {"none", "bare", "whole"}, y \in {"none", "whole"}, b \in BOOLEAN}

Wants == {Flavour} \cup {{f} : f \in Flavour}

Alone(p, s, o) == [Base EXCEPT !.p = p, !.s = s, !.who = {One}, !.opts = Given(o, o)]

SurveyPods ==
    {Alone(p, s, [Plain EXCEPT !.wanted = w]) : p \in Processes, s \in NativeSeats, w \in Wants}
    \cup {Alone(p, s, [Plain EXCEPT !.print = b]) : p \in Pythons, s \in PythonSeats, b \in BOOLEAN}

(* Two --provision commands that were given the same port. *)
PinnedPods == {[Base EXCEPT !.opts = Given(Pin(Provide), Pin(Provide))]}

AllPods == PairPods \cup FaultPods \cup SurveyPods
=============================================================================

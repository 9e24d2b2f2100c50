------------------------------ MODULE Flavours ------------------------------
(***************************************************************************)
(* What `podbench debug-config` learns of one process and offers for it:   *)
(* the language it names, the debugpy tree it finds, what it knows about   *)
(* ptrace, and one verdict per debugger (flavour.py, execfile.py).  The    *)
(* module has no state; DebugConfig runs it inside the verb.               *)
(*                                                                         *)
(* A process `p` is a record of what is true of the target:                *)
(*   exe, argv0   what its executable and its argv[0] are called           *)
(*   mapped       a runtime's library among its mapped objects, or "none"  *)
(*   elf          what its ELF sections say                                *)
(*   dwarf        where debug information is: "binary", "mapped", "none"   *)
(*   symtab       whether some mapped object has a symbol table            *)
(*   version      what gives a CPython's X.Y away, or "hidden"             *)
(*   venv, system the debugpy tree of its virtualenv, of its image         *)
(*   published    whether debugpy ships a helper for its architecture      *)
(*   here         whether it runs in the seat's own mount namespace        *)
(*   script       whether its argv names a script                          *)
(* A seat `s` is a record of what is true of the container that looks:     *)
(*   readable, attachable, cap    PTRACE_MODE_READ and ATTACH on the       *)
(*                                target, and CAP_SYS_PTRACE held          *)
(*   driver, shim, gdb, dlv, uv   the tools of its image                   *)
(*   shadow       whether it keeps a file at the target's exe path         *)
(*   loads        whether its gdb can read the target's binary             *)
(* A tree is "none", "bare" (importable, no attach helper) or "whole".     *)
(***************************************************************************)
EXTENDS Naturals, FiniteSets

Flavour == {"gdb", "lldb", "delve", "debugpy"}

DebugpyTree == {"none", "bare", "whole"}

Target == [exe : {"app", "python", "node", "java", "beam"},
           argv0 : {"app", "python", "node", "java", "beam"},
           mapped : {"none", "jvm", "erlang"}, elf : {"native", "rust", "go"},
           dwarf : {"binary", "mapped", "none"}, symtab : BOOLEAN,
           version : {"argv", "exe", "library", "hidden"},
           venv : DebugpyTree, system : DebugpyTree,
           published : BOOLEAN, here : BOOLEAN, script : BOOLEAN]

Looker == [readable : BOOLEAN, attachable : BOOLEAN, cap : BOOLEAN, driver : BOOLEAN,
           shim : BOOLEAN, gdb : BOOLEAN, dlv : BOOLEAN, uv : BOOLEAN, shadow : BOOLEAN,
           loads : BOOLEAN]

(***************************************************************************)
(* What the process is.                                                    *)
(***************************************************************************)
(* Every path under /proc/<pid>/root, the exe link and maps are gated on one
   PTRACE_MODE_READ comparison; argv is world-readable. *)
Exe(p, s)    == IF s.readable THEN p.exe ELSE "unread"
Elf(p, s)    == IF s.readable THEN p.elf ELSE "unread"
Mapped(p, s) == IF s.readable THEN p.mapped ELSE "none"

(* The managed runtime the process is by name, the executable's name first. *)
InterpreterOf(p, s) ==
    LET named == {"python", "node"}
    IN  IF Exe(p, s) \in named THEN Exe(p, s)
        ELSE IF p.argv0 \in named THEN p.argv0 ELSE "none"

(* A runtime podbench has no debugger for, by its names and then by the
   libraries mapped into it. *)
RuntimeOf(p, s) ==
    LET names == [java |-> "jvm", beam |-> "erlang"]
    IN  IF Exe(p, s) \in DOMAIN names THEN names[Exe(p, s)]
        ELSE IF p.argv0 \in DOMAIN names THEN names[p.argv0]
        ELSE Mapped(p, s)

Language(p, s) ==
    IF InterpreterOf(p, s) # "none" THEN InterpreterOf(p, s)
    ELSE IF RuntimeOf(p, s) # "none" THEN RuntimeOf(p, s)
    ELSE IF Elf(p, s) = "unread" THEN "unknown" ELSE Elf(p, s)

Managed == {"python", "node", "jvm", "erlang"}

(* The languages the gdb and lldb path is for; gdb on Go is a fallback. *)
NativeLanguages == {"native", "rust", "unknown"}

(* X.Y out of a name, or out of the one library directory there is. *)
VersionKnown(p, s) == p.version = "argv" \/ (s.readable /\ p.version \in {"exe", "library"})

(***************************************************************************)
(* What the seat brings to it.                                             *)
(***************************************************************************)
(* Where the target can import debugpy from: the provisioned copy, then its
   virtualenv, then its image; nobody looks in a tree the kernel refuses. *)
TargetDebugpy(p, s, dest) ==
    IF ~s.readable THEN "nowhere"
    ELSE IF dest # "none" THEN "dest"
    ELSE IF p.venv # "none" THEN "venv"
    ELSE IF p.system # "none" THEN "system" ELSE "nowhere"

Tree(p, s, dest, place) ==
    CASE place = "dest"    -> dest
      [] place = "venv"    -> p.venv
      [] place = "system"  -> p.system
      [] place = "nowhere" -> IF s.driver THEN "whole" ELSE "none"

(* mistaken: the helper is looked for in the seat's own tree. *)
HelperPresentHere(p, s, dest) == s.readable /\ p.published /\ s.driver

(* The helper is looked for in the tree the injection loads, for the target's
   architecture, which is unknown where its ELF was not read. *)
HelperPresent(p, s, dest) ==
    /\ s.readable
    /\ p.published
    /\ Tree(p, s, dest, TargetDebugpy(p, s, dest)) = "whole"

(* What is known about ptracing the target: a measurement first, then the
   capability, then the read the kernel allowed or refused. *)
PtraceEvidence(s, attach) ==
    CASE attach = "yes" -> "attached"
      [] attach = "no"  -> "refused"
      [] attach = "unasked" /\ s.cap -> "capability"
      [] OTHER -> IF s.readable THEN "credentials" ELSE "denied"

RootfsDenied(s, attach) == PtraceEvidence(s, attach) = "denied"

(* The file of the seat's own that would be read for the target's, if any. *)
ShadowingFile(p, s) == s.shadow /\ ~p.here /\ Exe(p, s) # "unread"

(* gdb's answer when asked to load it, for those languages alone. *)
LoadError(p, s) ==
    Language(p, s) \in NativeLanguages /\ Exe(p, s) # "unread" /\ s.gdb /\ ~s.loads

(***************************************************************************)
(* One verdict per flavour: whether it is offered, why not, whether the    *)
(* refusal goes unsaid unless the flavour was asked for, and the flavour   *)
(* whose entry it sends the reader to.                                     *)
(***************************************************************************)
Offered(why) == [ok |-> TRUE, why |-> {why}, quiet |-> FALSE, see |-> "none"]
Refused(why) == [ok |-> FALSE, why |-> {why}, quiet |-> FALSE, see |-> "none"]
Mismatch     == [Refused("language") EXCEPT !.quiet = TRUE]
Pointing(v, f) == [v EXCEPT !.see = f]

(* Where symbols are, once the binary is known to carry none. *)
SymbolsElsewhere(p, s) ==
    CASE ~s.readable -> "unmeasured"
      [] s.readable /\ p.dwarf = "mapped" -> "lined"
      [] s.readable /\ p.dwarf = "none" /\ p.symtab -> "named"
      [] OTHER -> "bare"

GdbReason(p, s) ==
    IF Elf(p, s) = "unread" THEN "assumed"
    ELSE IF p.dwarf = "binary" THEN "symbols" ELSE SymbolsElsewhere(p, s)

(* The refusal every flavour with a `program` shares. *)
OrNoProgram(p, s, verdict) == IF Exe(p, s) = "unread" THEN Refused("no program") ELSE verdict

AssessGdb(p, s) ==
    CASE Language(p, s) \in {"python", "node"} -> Mismatch
      [] Language(p, s) \in {"jvm", "erlang"}  -> Refused("runtime")
      [] Language(p, s) \notin Managed /\ ~s.gdb -> Refused("no gdb")
      [] Language(p, s) \notin Managed /\ s.gdb /\ LoadError(p, s) ->
            IF ShadowingFile(p, s) THEN Refused("load") ELSE Pointing(Refused("load"), "lldb")
      [] OTHER -> OrNoProgram(p, s, Offered(GdbReason(p, s)))

(* Where a target goes whose own flavour is refused: the entry beside this one
   is named only if it is written. *)
GdbFallback(verdict, entry) == IF entry THEN Pointing(verdict, "gdb") ELSE verdict

AssessLldb(p, s, gdbEntry) ==
    CASE Language(p, s) \in Managed -> Mismatch
      [] Language(p, s) \notin Managed /\ p.here -> Refused("dev")
      [] Language(p, s) \notin Managed /\ ShadowingFile(p, s) ->
            GdbFallback(Refused("shadow"), gdbEntry)
      [] OTHER -> OrNoProgram(p, s, Offered("native"))

AssessDelve(p, s, gdbEntry) ==
    CASE Language(p, s) # "go" -> Mismatch
      [] Language(p, s) = "go" /\ ~s.dlv -> GdbFallback(Refused("no dlv"), gdbEntry)
      [] OTHER -> OrNoProgram(p, s, Offered("go"))

(* What stands between the seat and an injection.  On a refused rootfs nobody
   looked for the target's copy or the helper, so neither is said missing. *)
Unmet(p, s, dest, attach) ==
    LET place == TargetDebugpy(p, s, dest)
        tree  == place # "nowhere" \/ s.driver
        looked == ~RootfsDenied(s, attach)
    IN  {w \in {"denied", "driver", "unimportable", "sysroot", "helper", "unpublished",
                "refused", "load"} :
           CASE w = "denied"       -> ~looked
             [] w = "driver"       -> ~s.driver
             [] w = "unimportable" -> looked /\ place = "nowhere"
             [] w = "sysroot"      -> ~s.shim
             [] w = "helper"       -> looked /\ tree /\ ~HelperPresent(p, s, dest) /\ p.published
             [] w = "unpublished"  -> looked /\ tree /\ ~HelperPresent(p, s, dest) /\ ~p.published
             [] w = "refused"      -> PtraceEvidence(s, attach) = "refused"
             [] w = "load"         -> LoadError(p, s)}

(* An injection offered on a read alone says the attach was not measured. *)
InjectionReason(s, attach) ==
    IF PtraceEvidence(s, attach) = "credentials" THEN "unmeasured" ELSE "met"

AssessDebugpy(p, s, dest, attach, listening) ==
    CASE Language(p, s) # "python" -> Mismatch
      [] Language(p, s) = "python" /\ p.here ->
            IF s.driver THEN Offered("dev") ELSE Refused("driver")
      [] Language(p, s) = "python" /\ ~p.here /\ listening -> Offered("listening")
      [] OTHER ->
            IF Unmet(p, s, dest, attach) = {} THEN Offered(InjectionReason(s, attach))
            ELSE [Refused("unmet") EXCEPT !.why = Unmet(p, s, dest, attach)]

(* `wanted` changes no verdict: it decides which entries a refusal may name. *)
Assess(p, s, dest, attach, listening, wanted) ==
    LET gdb   == AssessGdb(p, s)
        entry == gdb.ok /\ "gdb" \in wanted
    IN  [f \in Flavour |->
           CASE f = "gdb"     -> gdb
             [] f = "lldb"    -> AssessLldb(p, s, entry)
             [] f = "delve"   -> AssessDelve(p, s, entry)
             [] f = "debugpy" -> AssessDebugpy(p, s, dest, attach, listening)]

(* The refusals the reader is shown: one ruled out by language alone is noise
   unless it was asked for by name. *)
Shown(verdicts, wanted, explicit) ==
    {f \in wanted : ~verdicts[f].ok /\ (explicit \/ ~verdicts[f].quiet)}

Emitted(verdicts, wanted) == {f \in wanted : verdicts[f].ok}
=============================================================================

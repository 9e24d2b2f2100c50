-------------------------------- MODULE Resize ------------------------------
(***************************************************************************)
(* In-place resize: `attach --resize`, and `podbench vscode`, which raises *)
(* a target an editor does not fit in.                                     *)
(*                                                                         *)
(* A run reads the pod, what it uses and the namespace's LimitRanges in    *)
(* separate calls, plans a patch or refuses it with advice, and submits    *)
(* it.  Other runs and the pod's controller write in between; the kubelet  *)
(* actuates what the API server stored when it can.  Quantities are in one *)
(* unit of memory; 0 is an absent limit, request, ceiling or ratio.        *)
(***************************************************************************)
EXTENDS Integers, FiniteSets, FiniteSetsExt

CONSTANTS Users,            \* command lines, each run one after another
          Pods,             \* what a pod's template may say
          Ranges,           \* what the namespace's LimitRanges may say
          Wants,            \* what --resize and --resize-cpu may say
          EditorLimit,      \* EDITOR_LIMIT
          EditorHeadroom,   \* EDITOR_HEADROOM
          MaxCalls,         \* bound: runs of all command lines
          MaxChanges        \* bound: regenerations of the pod

Resource  == {"memory", "cpu"}
Container == {"app", "sidecar"}          \* a run's target is app
Amount    == [req : Nat, lim : Nat]
LimitRange == [ceiling : Nat, ratio : Nat]

(* A stored pod states the request of every limit: the API server defaults   *)
(* one that nobody stated to the limit.                                      *)
Defaulted(pod) == \A c \in Container, r \in Resource : pod[c][r].lim # 0 => pod[c][r].req # 0

ASSUME ResizeAssumption ==
  /\ Pods \subseteq [Container -> [Resource -> Amount]]
  /\ \A pod \in Pods : Defaulted(pod)
  /\ Ranges \subseteq [Resource -> LimitRange]
  /\ Wants \subseteq [Resource -> Amount]
  /\ EditorLimit \in Nat /\ EditorHeadroom \in Nat /\ EditorHeadroom < EditorLimit
  /\ MaxCalls \in Nat /\ MaxChanges \in Nat

VARIABLES
  spec,        \* the resources of the pod's containers, as stored
  cgroup,      \* the memory limits the kubelet has actuated
  used,        \* the memory the pod uses
  claims,      \* whether app holds a resource claim
  ranges,      \* the LimitRanges of the namespace
  changes,
  raises,      \* history: limits raised for an editor since anybody else set one
  calls,
  pc,
  run,         \* a run's locals: its flags, the pod and the LimitRanges as it read them
  steady,      \* history: nothing but this run has changed the pod since it was read
  report       \* what the run said of the resize

cluster == <<spec, cgroup, used, claims, ranges, changes, raises>>
vars == <<spec, cgroup, used, claims, ranges, changes, raises, calls, pc, run, steady, report>>

-----------------------------------------------------------------------------
(* The API server. *)

QosClass(pod) ==
  IF \A c \in Container, r \in Resource : pod[c][r] = [req |-> 0, lim |-> 0] THEN "BestEffort"
  ELSE IF \A c \in Container, r \in Resource : pod[c][r].lim # 0 /\ pod[c][r].req = pod[c][r].lim
       THEN "Guaranteed" ELSE "Burstable"

(* A strategic merge of the patch: what it does not name stays, and a        *)
(* request nobody states is defaulted to the limit.                          *)
Merged(pod, patch) ==
  [pod EXCEPT !["app"] = [r \in Resource |->
     IF patch[r].lim = 0 THEN pod["app"][r]
     ELSE [lim |-> patch[r].lim,
           req |-> IF patch[r].req # 0 THEN patch[r].req
                   ELSE IF pod["app"][r].req # 0 THEN pod["app"][r].req ELSE patch[r].lim]]]

(* What a LimitRange, and the API server, say of one resource: a request on  *)
(* its own is within any limit.                                              *)
Violations(amount, range) ==
  (IF range.ceiling # 0 /\ amount.lim > range.ceiling THEN {"ceiling"} ELSE {}) \cup
  (IF range.ratio # 0 /\ amount.lim > range.ratio * amount.req THEN {"ratio"} ELSE {}) \cup
  (IF amount.lim # 0 /\ amount.req > amount.lim THEN {"request"} ELSE {})

Within(pod) == \A c \in Container, r \in Resource : Violations(pod[c][r], ranges[r]) = {}

Refusals(pod, patch) ==
  LET new == Merged(pod, patch)
  IN (IF claims THEN {"claims"} ELSE {}) \cup
     (IF QosClass(new) # QosClass(pod) THEN {"class"} ELSE {}) \cup
     UNION {Violations(new["app"][r], ranges[r]) : r \in Resource}

-----------------------------------------------------------------------------
(* The arithmetic of resize.py. *)

(* pod_memory_limit: the sum of the limits, 0 as soon as one is absent. *)
PodMemoryLimit(pod) ==
  IF \E c \in Container : pod[c]["memory"].lim = 0 THEN 0
  ELSE pod["app"]["memory"].lim + pod["sidecar"]["memory"].lim

(* Headroom: free is clamped at zero; below() is false of what is unknown. *)
Headroom == [limit : Nat, measured : BOOLEAN, used : Nat]
Free(h)  == Max({0, h.limit - h.used})
Below(h, needed) == h.limit # 0 /\ h.measured /\ Free(h) < needed

(* editor_limit: the headroom decides whether, the constant what to. *)
EditorLimitShortfall(h, current) ==        \* mistaken: the shortfall, added to what there is
  IF ~Below(h, EditorHeadroom) \/ current = 0 THEN 0
  ELSE current + EditorHeadroom - Free(h)
EditorLimitFor(h, current) ==
  IF ~Below(h, EditorHeadroom) \/ current = 0 \/ current >= EditorLimit THEN 0 ELSE EditorLimit

(* namespace_limits: the most restrictive value of every readable range; a   *)
(* list that is refused constrains nothing.                                  *)
NamespaceLimits(readable) ==
  IF readable THEN ranges ELSE [r \in Resource |-> [ceiling |-> 0, ratio |-> 0]]

(* _request_for: 0 leaves the request where it is. *)
WasGuaranteed(have) == have.req # 0 /\ have.req = have.lim
RequestForAlone(want, have, ratio) ==     \* mistaken: the limit is raised on its own
  want.req
RequestFor(want, have, ratio) ==
  IF want.req # 0 THEN want.req
  ELSE IF ratio = 0 \/ (have.req # 0 /\ have.req * ratio >= want.lim) THEN 0
  ELSE (want.lim + ratio - 1) \div ratio          \* format_memory rounds up

Unsubmittable(want, have, ratio) ==
  /\ want.req = 0 /\ ratio = 1
  /\ ~(have.req # 0 /\ have.req >= want.lim) /\ ~WasGuaranteed(have)

(* parse_want: a request above the limit it is given with. *)
Backwards(want) == want.req > want.lim

(* plan_resize: why a patch is not even planned. *)
PlanRefusals(wants, current, limits) ==
  UNION {LET w == wants[r]
         IN IF w.lim = 0 THEN {}
            ELSE (IF Backwards(w) THEN {"request"} ELSE {}) \cup
                 (IF limits[r].ceiling # 0 /\ w.lim > limits[r].ceiling THEN {"ceiling"} ELSE {}) \cup
                 (IF Unsubmittable(w, current[r], limits[r].ratio) THEN {"ratio"} ELSE {})
         : r \in Resource}

PlanResize(wants, current, limits) ==
  [r \in Resource |-> IF wants[r].lim = 0 THEN wants[r]
                      ELSE [lim |-> wants[r].lim,
                            req |-> RequestFor(wants[r], current[r], limits[r].ratio)]]

(* qos_preserving_flags: every patched request at its new limit, unless it   *)
(* is there already.                                                         *)
Pinned(current, patch) ==
  \A r \in Resource : patch[r].lim # 0 =>
    patch[r].lim = IF patch[r].req # 0 THEN patch[r].req ELSE current[r].req

Nothing == [r \in Resource |-> [req |-> 0, lim |-> 0]]

QosPreservingFlagsMemory(current, patch) ==       \* mistaken: only memory's request is pinned
  IF Pinned(current, patch) THEN Nothing
  ELSE [patch EXCEPT !["memory"].req = patch["memory"].lim]
QosPreservingFlags(current, patch) ==
  IF Pinned(current, patch) THEN Nothing
  ELSE [r \in Resource |-> [req |-> patch[r].lim, lim |-> patch[r].lim]]

-----------------------------------------------------------------------------
Stage == {"idle", "measure", "read", "limits", "patch", "open"}
Said  == {"", "unmeasured", "declined", "advised", "refused", "explained", "resized", "failed"}
Report == [said : Said, flags : [Resource -> Amount], warned : BOOLEAN]
Silent == [said |-> "", flags |-> Nothing, warned |-> FALSE]

Run == [editor : BOOLEAN, wants : [Resource -> Amount],
        doc : [Container -> [Resource -> Amount]], known : [Resource -> LimitRange]]
NoRun == [editor |-> FALSE, wants |-> Nothing, doc |-> [c \in Container |-> Nothing],
          known |-> [r \in Resource |-> [ceiling |-> 0, ratio |-> 0]]]

Init ==
  /\ spec \in Pods
  /\ cgroup = [c \in Container |-> spec[c]["memory"].lim]
  /\ used = 1
  /\ claims \in BOOLEAN
  /\ ranges \in Ranges
  /\ Within(spec)
  /\ changes = 0 /\ raises = 0
  /\ calls = 0
  /\ pc = [u \in Users |-> "idle"]
  /\ run = [u \in Users |-> NoRun]
  /\ steady = [u \in Users |-> FALSE]
  /\ report = [u \in Users |-> Silent]

Goto(u, stage) == pc' = [pc EXCEPT ![u] = stage]
Return(u) == Goto(u, "idle") /\ run' = [run EXCEPT ![u] = NoRun]
Leave(u)  == IF run[u].editor THEN Goto(u, "open") /\ run' = [run EXCEPT ![u] = [NoRun EXCEPT !.editor = TRUE]]
             ELSE Return(u)
Say(u, words, flags) == report' = [report EXCEPT ![u].said = words, ![u].flags = flags]

-----------------------------------------------------------------------------
(* The pod's controller and the kubelet. *)

Regenerated ==                     \* a rollout, an eviction: the pod is made anew from its template
  /\ changes < MaxChanges
  /\ changes' = changes + 1
  /\ \E template \in Pods :
       /\ Within(template)
       /\ spec' = template
       /\ cgroup' = [c \in Container |-> template[c]["memory"].lim]
  /\ used' = 1 /\ raises' = 0
  /\ steady' = [u \in Users |-> FALSE]
  /\ UNCHANGED <<claims, ranges, calls, pc, run, report>>

(* The kubelet actuates a stored resize, or not: it may be deferred, or      *)
(* infeasible on the node.                                                   *)
Actuated ==
  /\ cgroup' = [c \in Container |-> spec[c]["memory"].lim]
  /\ cgroup' # cgroup
  /\ UNCHANGED <<spec, used, claims, ranges, changes, raises, calls, pc, run, steady, report>>

-----------------------------------------------------------------------------
(* One run of attach or vscode, up to the editor that is opened. *)

Begin(u) ==
  /\ pc[u] = "idle" /\ calls < MaxCalls
  /\ calls' = calls + 1
  /\ report' = [report EXCEPT ![u] = Silent]
  /\ \/ /\ \E w \in Wants : run' = [run EXCEPT ![u].wants = w]
        /\ Goto(u, "read")
     \/ /\ run' = [run EXCEPT ![u].editor = TRUE]
        /\ \/ Goto(u, "measure")             \* vscode, auto_resize
           \/ Goto(u, "open")                \* vscode --no-resize
  /\ steady' = [steady EXCEPT ![u] = FALSE]
  /\ UNCHANGED cluster

(* measure_headroom: the pod, and then kubectl top, which may not answer. *)
Measured(measured) == [limit |-> PodMemoryLimit(spec), measured |-> measured, used |-> used]

EditorMemory(u) ==
  /\ pc[u] = "measure"
  /\ \E measured \in BOOLEAN :
       LET h == Measured(measured)
           wanted == EditorLimitFor(h, spec["app"]["memory"].lim)
       IN /\ run' = [run EXCEPT ![u].wants["memory"].lim = wanted]
          /\ Goto(u, IF wanted = 0 THEN "open" ELSE "read")
          /\ Say(u, IF h.limit # 0 /\ ~measured THEN "unmeasured" ELSE "", Nothing)
  /\ UNCHANGED <<cluster, calls, steady>>

(* _land reads the pod again for the plan. *)
GetPod(u) ==
  /\ pc[u] = "read"
  /\ run' = [run EXCEPT ![u].doc = spec]
  /\ steady' = [steady EXCEPT ![u] = TRUE]
  /\ Goto(u, "limits")
  /\ UNCHANGED <<cluster, calls, report>>

(* try_resize, up to the patch: list_limit_ranges, the plan, and the one     *)
(* refusal of the API server that is knowable, of a Guaranteed pod.          *)
Plan(u) ==
  /\ pc[u] = "limits"
  /\ \E readable \in BOOLEAN :
       LET wants    == run[u].wants
           current  == run[u].doc["app"]
           limits   == NamespaceLimits(readable)
           refusals == PlanRefusals(wants, current, limits)
           flags    == QosPreservingFlags(current, PlanResize(wants, current, limits))
           foreseen == flags # Nothing /\ QosClass(run[u].doc) = "Guaranteed"
       IN \/ refusals # {} /\ Say(u, "declined", Nothing) /\ Leave(u)
          \/ refusals = {} /\ foreseen /\ Say(u, "advised", flags) /\ Leave(u)
          \/ /\ refusals = {} /\ ~foreseen
             /\ run' = [run EXCEPT ![u].known = limits]
             /\ Goto(u, "patch") /\ UNCHANGED report
  /\ UNCHANGED <<cluster, calls, steady>>

Submitted(u) == PlanResize(run[u].wants, run[u].doc["app"], run[u].known)
Derived(u)   == \A r \in Resource : run[u].wants[r].req = 0

(* The patch is decided on the pod as it now is. *)
PatchAccepted(u) ==
  /\ pc[u] = "patch"
  /\ Refusals(spec, Submitted(u)) = {}
  /\ spec' = Merged(spec, Submitted(u))
  /\ raises' = IF ~run[u].editor THEN 0
               ELSE raises + (IF spec'["app"]["memory"].lim # spec["app"]["memory"].lim THEN 1 ELSE 0)
  /\ steady' = [v \in Users |-> steady[v] /\ spec' = spec]
  /\ \/ Say(u, "resized", Nothing)
     \/ Say(u, "refused", Nothing)           \* the answer is lost
  /\ Leave(u)
  /\ UNCHANGED <<cgroup, used, claims, ranges, changes, calls>>

(* explain_claim_refusal, and the flags for a class that is not Guaranteed:  *)
(* whichever of its reasons the API server states.                           *)
Explained(u, reason) ==
  \/ reason = "claims"
  \/ reason = "class" /\ QosPreservingFlags(run[u].doc["app"], Submitted(u)) # Nothing

PatchRefused(u) ==
  /\ pc[u] = "patch"
  /\ \E reason \in Refusals(spec, Submitted(u)) :
       Say(u, IF Explained(u, reason) THEN "explained" ELSE "refused",
           IF reason = "class" THEN QosPreservingFlags(run[u].doc["app"], Submitted(u)) ELSE Nothing)
  /\ Leave(u)
  /\ UNCHANGED <<cluster, calls, steady>>

(* A read that fails ends the verb: the seat is not landed. *)
ReadFails(u) ==
  /\ pc[u] \in {"measure", "read"}
  /\ Say(u, "failed", Nothing)
  /\ Return(u)
  /\ UNCHANGED <<cluster, calls, steady>>

(* headroom_note, of the pod as it is once the seat has landed; and then the *)
(* editor takes its memory.                                                  *)
OpenEditor(u) ==
  /\ pc[u] = "open"
  /\ \E measured \in BOOLEAN :
       report' = [report EXCEPT ![u].warned = Below(Measured(measured), EditorHeadroom),
                                ![u].said = IF PodMemoryLimit(spec) # 0 /\ ~measured
                                            THEN "unmeasured" ELSE @]
  /\ Return(u)
  /\ used' = used + EditorHeadroom
  /\ UNCHANGED <<spec, cgroup, claims, ranges, changes, raises, calls, steady>>

-----------------------------------------------------------------------------
Next ==
  \/ Regenerated \/ Actuated
  \/ \E u \in Users :
       \/ Begin(u) \/ EditorMemory(u) \/ GetPod(u) \/ Plan(u)
       \/ PatchAccepted(u) \/ PatchRefused(u) \/ ReadFails(u) \/ OpenEditor(u)

Spec == Init /\ [][Next]_vars

-----------------------------------------------------------------------------
TypeOK ==
  /\ spec \in [Container -> [Resource -> Amount]]
  /\ cgroup \in [Container -> Nat]
  /\ used \in Nat
  /\ claims \in BOOLEAN
  /\ ranges \in [Resource -> LimitRange]
  /\ changes \in Nat /\ raises \in Nat /\ calls \in Nat
  /\ pc \in [Users -> Stage]
  /\ run \in [Users -> Run]
  /\ steady \in [Users -> BOOLEAN]
  /\ report \in [Users -> Report]

(* The editor's raise does not ratchet: however often vscode runs, whatever  *)
(* the editors in the pod use, and however two runs interleave, it changes   *)
(* the target's limit once, until somebody else sets it (EDITOR_LIMIT).      *)
EditorRaisesOnce == raises <= 1

(* A raise whose request podbench derived from the LimitRanges it read is    *)
(* refused for a claim, or not at all: neither the ceiling nor the ratio nor *)
(* the class stands in its way (plan_resize, try_resize).                    *)
RaiseIsAdmitted ==
  \A u \in Users :
    (/\ pc[u] = "patch" /\ steady[u] /\ Derived(u) /\ run[u].known = ranges
     /\ \A r \in Resource : Submitted(u)[r].lim # 0 =>
          spec["app"][r].lim # 0 /\ Submitted(u)[r].lim >= spec["app"][r].lim)
    => Refusals(spec, Submitted(u)) \subseteq {"claims"}

(* The advice works: the flags a Guaranteed pod's user is told to use keep   *)
(* its class and the ratio, whatever else was patched.  A ceiling that could *)
(* not be read and a claim may still stand in their way.                     *)
AdviceWorks ==
  [][\A u \in Users :
       (pc[u] = "limits" /\ report'[u].said = "advised")
         => Refusals(run[u].doc, report'[u].flags) \subseteq {"claims", "ceiling"}]_vars

=============================================================================

---------------------------- MODULE EditorProofs ----------------------------
(***************************************************************************)
(* What an editor's user is promised: of in-place resizes (Resize), for    *)
(* any number of runs, pods, LimitRanges and quantities, the types, that   *)
(* an editor's raise does not ratchet, that a raise podbench plans is      *)
(* admitted and that the flags it advises work; and of `podbench vscode`   *)
(* (Editor), for any desks, runs and interference, that a window is        *)
(* guarded and that what a run says of it is so.  The two parts have no    *)
(* variable in common.                                                     *)
(***************************************************************************)
EXTENDS Editor, Resize, FiniteSetTheorems, TLAPS

-----------------------------------------------------------------------------
(* The invariants. *)

(* The one raise an editor is given is to EditorLimit, so that the next run  *)
(* of vscode, whatever it read, has nothing to change.                       *)
Raised == raises <= 1 /\ (raises = 1 => spec["app"]["memory"].lim = EditorLimit)

(* A run that is over has left nothing behind, and one for an editor asks    *)
(* for EditorLimit of memory and for nothing else.                           *)
Flagged(u) ==
  /\ pc[u] = "idle" => run[u] = NoRun
  /\ run[u].editor => /\ run[u].wants["memory"] \in {[req |-> 0, lim |-> 0], [req |-> 0, lim |-> EditorLimit]}
                      /\ run[u].wants["cpu"] = [req |-> 0, lim |-> 0]

(* What the API server has stored. *)
Stored == Defaulted(spec) /\ Within(spec)

(* What a run knows when it submits its patch. *)
Known(u)   == pc[u] \in {"limits", "patch"} /\ steady[u] => run[u].doc = spec
Planned(u) ==
  pc[u] = "patch" =>
    /\ PlanRefusals(run[u].wants, run[u].doc["app"], run[u].known) = {}
    /\ QosClass(run[u].doc) = "Guaranteed" => Pinned(run[u].doc["app"], Submitted(u))

(* Nothing is advised before the plan. *)
Unsaid(u) == pc[u] \in {"measure", "read", "limits", "patch"} => report[u].said # "advised"

Sound(u) == Flagged(u) /\ Known(u) /\ Planned(u) /\ Unsaid(u)

Inv == TypeOK /\ Raised /\ Stored /\ \A u \in Users : Sound(u)

-----------------------------------------------------------------------------
(* Arithmetic. *)

Amounts == [Resource -> Amount]
PodSpec == [Container -> Amounts]
Limits  == [Resource -> LimitRange]

LEMMA Names == /\ "memory" \in Resource /\ "cpu" \in Resource
               /\ "app" \in Container /\ "sidecar" \in Container
  BY DEF Resource, Container

(* The least request that keeps a limit within a ratio of it. *)
LEMMA RequestIsRoundedUp ==
  ASSUME NEW lim \in Nat \ {0}, NEW ratio \in Nat \ {0}
  PROVE  LET q == (lim + ratio - 1) \div ratio
         IN /\ q \in Nat \ {0}
            /\ lim <= ratio * q
            /\ q <= lim
            /\ q = lim => lim = 1 \/ ratio = 1
<1> DEFINE q == (lim + ratio - 1) \div ratio
<1>1. q \in Int /\ ratio * q <= lim + ratio - 1 /\ lim + ratio - 1 < ratio * q + ratio
  OBVIOUS
<1> HIDE DEF q
<1>2. lim <= ratio * q
  BY <1>1
<1>3. q >= 1
  BY <1>1
<1>4. q <= lim
  BY <1>1
<1>5. ASSUME q = lim, ratio >= 2
      PROVE  lim = 1
  BY <1>1, <1>5
<1> QED
  BY <1>1, <1>2, <1>3, <1>4, <1>5 DEF q

LEMMA RequestTypes ==
  ASSUME NEW want \in Amount, NEW have \in Amount, NEW ratio \in Nat, want.lim # 0
  PROVE  RequestFor(want, have, ratio) \in Nat
<1>1. want.lim \in Nat \ {0} /\ want.req \in Nat
  BY DEF Amount
<1>2. CASE ratio = 0 \/ want.req # 0
  BY <1>1, <1>2 DEF RequestFor
<1>3. CASE ratio # 0
  BY <1>1, <1>3, RequestIsRoundedUp DEF RequestFor
<1> QED
  BY <1>2, <1>3

LEMMA PlanTypes ==
  ASSUME NEW wants \in Amounts, NEW current \in Amounts, NEW limits \in Limits
  PROVE  /\ PlanResize(wants, current, limits) \in Amounts
         /\ \A patch \in Amounts : QosPreservingFlags(current, patch) \in Amounts
<1>1. ASSUME NEW r \in Resource
      PROVE  PlanResize(wants, current, limits)[r] \in Amount
  <2>1. wants[r] \in Amount /\ current[r] \in Amount /\ limits[r].ratio \in Nat
    BY DEF Amounts, Limits, LimitRange
  <2>2. CASE wants[r].lim = 0
    BY <2>1, <2>2 DEF PlanResize
  <2>3. CASE wants[r].lim # 0
    BY <2>1, <2>3, RequestTypes DEF PlanResize, Amount
  <2> QED
    BY <2>2, <2>3
<1>2. PlanResize(wants, current, limits) \in Amounts
  BY <1>1 DEF PlanResize, Amounts
<1>3. ASSUME NEW patch \in Amounts
      PROVE  QosPreservingFlags(current, patch) \in Amounts
  BY DEF QosPreservingFlags, Amounts, Amount, Nothing
<1> QED
  BY <1>2, <1>3

LEMMA MergedTypes ==
  ASSUME NEW p \in PodSpec, NEW patch \in Amounts
  PROVE  /\ Merged(p, patch) \in PodSpec
         /\ Merged(p, patch)["sidecar"] = p["sidecar"]
         /\ \A r \in Resource : Merged(p, patch)["app"][r] =
              IF patch[r].lim = 0 THEN p["app"][r]
              ELSE [lim |-> patch[r].lim,
                    req |-> IF patch[r].req # 0 THEN patch[r].req
                            ELSE IF p["app"][r].req # 0 THEN p["app"][r].req ELSE patch[r].lim]
<1> DEFINE app == [r \in Resource |->
             IF patch[r].lim = 0 THEN p["app"][r]
             ELSE [lim |-> patch[r].lim,
                   req |-> IF patch[r].req # 0 THEN patch[r].req
                           ELSE IF p["app"][r].req # 0 THEN p["app"][r].req ELSE patch[r].lim]]
<1>1. \A r \in Resource : app[r] \in Amount
  BY Names DEF PodSpec, Amounts, Amount
<1>2. app \in Amounts
  BY <1>1 DEF Amounts
<1>3. Merged(p, patch) = [p EXCEPT !["app"] = app]
  BY DEF Merged
<1> HIDE DEF app
<1>4. Merged(p, patch)["app"] = app /\ Merged(p, patch)["sidecar"] = p["sidecar"]
  BY <1>3, Names DEF PodSpec
<1>5. Merged(p, patch) \in PodSpec
  BY <1>2, <1>3 DEF PodSpec
<1> QED
  BY <1>4, <1>5 DEF app

(* The same of one resource, field by field.                                 *)
LEMMA MergedFields ==
  ASSUME NEW p \in PodSpec, NEW patch \in Amounts, NEW r \in Resource
  PROVE  /\ patch[r].lim = 0 => Merged(p, patch)["app"][r] = p["app"][r]
         /\ patch[r].lim # 0 =>
              /\ Merged(p, patch)["app"][r].lim = patch[r].lim
              /\ Merged(p, patch)["app"][r].req =
                   IF patch[r].req # 0 THEN patch[r].req
                   ELSE IF p["app"][r].req # 0 THEN p["app"][r].req ELSE patch[r].lim
<1> DEFINE new == Merged(p, patch)["app"][r]
           req == IF patch[r].req # 0 THEN patch[r].req
                  ELSE IF p["app"][r].req # 0 THEN p["app"][r].req ELSE patch[r].lim
<1>1. new = IF patch[r].lim = 0 THEN p["app"][r] ELSE [lim |-> patch[r].lim, req |-> req]
  BY MergedTypes
<1> HIDE DEF new, req
<1>2. patch[r].lim # 0 => new.lim = patch[r].lim /\ new.req = req
  BY <1>1
<1> QED
  BY <1>1, <1>2 DEF new, req

-----------------------------------------------------------------------------
(* Types. *)

LEMMA NothingTypes == Nothing \in Amounts /\ NoRun \in Run /\ Silent \in Report
<1>1. Nothing \in Amounts
  BY DEF Nothing, Amounts, Amount
<1>2. [c \in Container |-> Nothing] \in PodSpec
  BY <1>1 DEF PodSpec
<1>3. [r \in Resource |-> [ceiling |-> 0, ratio |-> 0]] \in Limits
  BY DEF Limits, LimitRange
<1> QED
  BY <1>1, <1>2, <1>3 DEF NoRun, Run, Silent, Report, Said, PodSpec, Amounts, Limits

LEMMA PodTypes == \A pod \in Pods : /\ pod \in PodSpec
                                   /\ Defaulted(pod)
                                   /\ [c \in Container |-> pod[c]["memory"].lim] \in [Container -> Nat]
<1> SUFFICES ASSUME NEW pod \in Pods
             PROVE  pod \in PodSpec /\ Defaulted(pod)
                    /\ [c \in Container |-> pod[c]["memory"].lim] \in [Container -> Nat]
  OBVIOUS
<1>1. pod \in PodSpec /\ Defaulted(pod)
  BY ResizeAssumption DEF PodSpec, Amounts
<1> QED
  BY <1>1, Names DEF PodSpec, Amounts, Amount

LEMMA TypeInit == Init => TypeOK
<1> SUFFICES ASSUME Init PROVE TypeOK
  OBVIOUS
<1>1. spec \in PodSpec /\ cgroup \in [Container -> Nat]
  BY PodTypes DEF Init
<1>2. ranges \in Limits
  BY ResizeAssumption DEF Init, Limits
<1>3. /\ run \in [Users -> Run] /\ report \in [Users -> Report]
      /\ pc \in [Users -> Stage] /\ steady \in [Users -> BOOLEAN]
  BY NothingTypes DEF Init, Stage
<1> QED
  BY <1>1, <1>2, <1>3 DEF Init, TypeOK, PodSpec, Amounts, Limits

(* What the helpers of an action leave. *)
LEMMA SayTypes ==
  ASSUME TypeOK, NEW u \in Users, NEW words \in Said, NEW flags \in Amounts, Say(u, words, flags)
  PROVE  /\ report' \in [Users -> Report]
         /\ report'[u].said = words /\ report'[u].flags = flags
         /\ \A v \in Users \ {u} : report'[v] = report[v]
<1>1. report \in [Users -> Report] /\ report[u] \in Report
  BY DEF TypeOK
<1>2. [report[u] EXCEPT !.said = words, !.flags = flags] \in Report
  BY <1>1 DEF Report, Amounts
<1>3. report' = [report EXCEPT ![u] = [report[u] EXCEPT !.said = words, !.flags = flags]]
  BY <1>1 DEF Say
<1> QED
  BY <1>1, <1>2, <1>3 DEF Report

LEMMA LeaveTypes ==
  ASSUME TypeOK, NEW u \in Users, Leave(u) \/ Return(u)
  PROVE  /\ pc' \in [Users -> Stage] /\ run' \in [Users -> Run]
         /\ \A v \in Users \ {u} : pc'[v] = pc[v] /\ run'[v] = run[v]
         /\ \/ pc'[u] = "idle" /\ run'[u] = NoRun
            \/ pc'[u] = "open" /\ run'[u] = [NoRun EXCEPT !.editor = TRUE]
<1>1. pc \in [Users -> Stage] /\ run \in [Users -> Run]
  BY DEF TypeOK
<1>2. NoRun \in Run /\ [NoRun EXCEPT !.editor = TRUE] \in Run
  BY NothingTypes DEF Run
<1>3. {"idle", "open"} \subseteq Stage
  BY DEF Stage
<1> QED
  BY <1>1, <1>2, <1>3 DEF Leave, Return, Goto

(* A record of the run's locals, one of them changed. *)
LEMMA RunTypes ==
  ASSUME NEW x \in Run
  PROVE  /\ x.editor \in BOOLEAN /\ x.wants \in Amounts /\ x.doc \in PodSpec /\ x.known \in Limits
         /\ \A w \in Amounts : [x EXCEPT !.wants = w] \in Run
         /\ \A d \in PodSpec : [x EXCEPT !.doc = d] \in Run
         /\ \A k \in Limits : [x EXCEPT !.known = k] \in Run
         /\ [x EXCEPT !.editor = TRUE] \in Run
BY DEF Run, PodSpec, Amounts, Limits

LEMMA EditorTypes ==
  ASSUME NEW h \in Headroom, NEW current \in Nat
  PROVE  EditorLimitFor(h, current) \in {0, EditorLimit}
BY DEF EditorLimitFor

LEMMA MeasuredTypes ==
  ASSUME TypeOK, NEW measured \in BOOLEAN
  PROVE  Measured(measured) \in Headroom
<1>1. PodMemoryLimit(spec) \in Nat
  BY Names DEF TypeOK, PodMemoryLimit, Amount
<1> QED
  BY <1>1 DEF TypeOK, Measured, Headroom

LEMMA RangesTypes ==
  ASSUME TypeOK, NEW readable \in BOOLEAN
  PROVE  NamespaceLimits(readable) \in Limits
BY DEF TypeOK, NamespaceLimits, Limits, LimitRange

(* A run that asks for so much memory. *)
LEMMA AskTypes ==
  ASSUME NEW x \in Run, NEW wanted \in Nat
  PROVE  /\ [x EXCEPT !.wants["memory"].lim = wanted] \in Run
         /\ [x EXCEPT !.wants["memory"].lim = wanted].wants["memory"] = [req |-> x.wants["memory"].req, lim |-> wanted]
         /\ [x EXCEPT !.wants["memory"].lim = wanted].wants["cpu"] = x.wants["cpu"]
         /\ [x EXCEPT !.wants["memory"].lim = wanted].editor = x.editor
<1>1. x.wants \in Amounts /\ x.wants["memory"] \in Amount
  BY RunTypes, Names DEF Amounts
<1>2. [x.wants["memory"] EXCEPT !.lim = wanted] \in Amount
  BY <1>1 DEF Amount
<1>3. [x.wants EXCEPT !["memory"].lim = wanted] \in Amounts
  BY <1>1, <1>2 DEF Amounts
<1>4. [x EXCEPT !.wants["memory"].lim = wanted] = [x EXCEPT !.wants = [x.wants EXCEPT !["memory"].lim = wanted]]
  BY DEF Run
<1>5. [x.wants["memory"] EXCEPT !.lim = wanted] = [req |-> x.wants["memory"].req, lim |-> wanted]
  BY <1>1 DEF Amount
<1>6. \A w \in Amounts : /\ [x EXCEPT !.wants = w] \in Run
                         /\ [x EXCEPT !.wants = w].wants = w
                         /\ [x EXCEPT !.wants = w].editor = x.editor
  BY RunTypes DEF Run
<1>7. /\ [x.wants EXCEPT !["memory"].lim = wanted]["memory"] = [x.wants["memory"] EXCEPT !.lim = wanted]
      /\ [x.wants EXCEPT !["memory"].lim = wanted]["cpu"] = x.wants["cpu"]
  BY <1>1, Names DEF Amounts
<1> QED
  BY <1>3, <1>4, <1>5, <1>6, <1>7

(* One lemma for each kind of step: the pod and the node, a run that reads,  *)
(* a run that ends.                                                          *)
ClusterTypes ==
  /\ spec \in PodSpec /\ cgroup \in [Container -> Nat] /\ used \in Nat
  /\ claims \in BOOLEAN /\ ranges \in Limits
  /\ changes \in Nat /\ raises \in Nat

RunsTypes ==
  /\ calls \in Nat
  /\ pc \in [Users -> Stage] /\ run \in [Users -> Run]
  /\ steady \in [Users -> BOOLEAN] /\ report \in [Users -> Report]

LEMMA TypesApart == /\ TypeOK <=> ClusterTypes /\ RunsTypes
                    /\ TypeOK' <=> ClusterTypes' /\ RunsTypes'
  BY DEF TypeOK, ClusterTypes, RunsTypes, PodSpec, Amounts, Limits

LEMMA ClusterStep ==
  ASSUME TypeOK, Regenerated \/ Actuated
  PROVE  TypeOK'
<1>1. CASE Regenerated
  BY <1>1, PodTypes, TypesApart DEF Regenerated, ClusterTypes, RunsTypes
<1>2. CASE Actuated
  <2>1. [c \in Container |-> spec[c]["memory"].lim] \in [Container -> Nat]
    BY Names DEF TypeOK, Amount
  <2> QED
    BY <1>2, <2>1, TypesApart DEF Actuated, ClusterTypes, RunsTypes
<1> QED
  BY <1>1, <1>2

LEMMA BeginTypes ==
  ASSUME TypeOK, NEW u \in Users, Begin(u)
  PROVE  TypeOK'
<1>1. run[u] \in Run /\ run \in [Users -> Run] /\ pc \in [Users -> Stage]
  BY DEF TypeOK
<1>2. \A w \in Wants : [run[u] EXCEPT !.wants = w] \in Run
  BY <1>1, RunTypes, ResizeAssumption DEF Amounts
<1>3. run' \in [Users -> Run]
  BY <1>1, <1>2, RunTypes DEF Begin
<1>4. pc' \in [Users -> Stage]
  BY <1>1 DEF Begin, Goto, Stage
<1>5. report' \in [Users -> Report] /\ steady' \in [Users -> BOOLEAN] /\ calls' \in Nat
  BY NothingTypes DEF TypeOK, Begin
<1> QED
  BY <1>3, <1>4, <1>5, TypesApart DEF Begin, ClusterTypes, RunsTypes, cluster

LEMMA ReadTypes ==
  ASSUME TypeOK, NEW u \in Users, EditorMemory(u) \/ GetPod(u) \/ ReadFails(u)
  PROVE  TypeOK'
<1>1. /\ run[u] \in Run /\ run \in [Users -> Run] /\ pc \in [Users -> Stage]
      /\ report \in [Users -> Report] /\ steady \in [Users -> BOOLEAN]
  BY DEF TypeOK
<1>2. CASE EditorMemory(u)
  <2>1. PICK measured \in BOOLEAN :
          LET h == Measured(measured)
              wanted == EditorLimitFor(h, spec["app"]["memory"].lim)
          IN /\ run' = [run EXCEPT ![u].wants["memory"].lim = wanted]
             /\ Goto(u, IF wanted = 0 THEN "open" ELSE "read")
             /\ Say(u, IF h.limit # 0 /\ ~measured THEN "unmeasured" ELSE "", Nothing)
    BY <1>2 DEF EditorMemory
  <2>2. spec["app"]["memory"].lim \in Nat
    BY Names DEF TypeOK, Amount
  <2>3. EditorLimitFor(Measured(measured), spec["app"]["memory"].lim) \in Nat
    BY <2>2, EditorTypes, MeasuredTypes, ResizeAssumption
  <2>4. run' \in [Users -> Run]
    BY <1>1, <2>1, <2>3, AskTypes
  <2>5. pc' \in [Users -> Stage]
    BY <1>1, <2>1 DEF Goto, Stage
  <2>6. report' \in [Users -> Report]
    BY <2>1, SayTypes, NothingTypes DEF Said
  <2> QED
    BY <1>2, <2>4, <2>5, <2>6, TypesApart DEF EditorMemory, ClusterTypes, RunsTypes, cluster
<1>3. CASE GetPod(u)
  <2>1. [run[u] EXCEPT !.doc = spec] \in Run
    BY <1>1, RunTypes, TypesApart DEF ClusterTypes
  <2>2. /\ run' \in [Users -> Run] /\ pc' \in [Users -> Stage] /\ steady' \in [Users -> BOOLEAN]
    BY <1>1, <1>3, <2>1 DEF GetPod, Goto, Stage
  <2> QED
    BY <1>3, <2>2, TypesApart DEF GetPod, ClusterTypes, RunsTypes, cluster
<1>4. CASE ReadFails(u)
  <2>1. report' \in [Users -> Report]
    BY <1>4, SayTypes, NothingTypes DEF ReadFails, Said
  <2>2. pc' \in [Users -> Stage] /\ run' \in [Users -> Run]
    BY <1>4, LeaveTypes DEF ReadFails
  <2> QED
    BY <1>4, <2>1, <2>2, TypesApart DEF ReadFails, ClusterTypes, RunsTypes, cluster
<1> QED
  BY <1>2, <1>3, <1>4

LEMMA PlanningTypes ==
  ASSUME TypeOK, NEW u \in Users
  PROVE  /\ run[u] \in Run /\ run[u].doc["app"] \in Amounts /\ run[u].doc \in PodSpec
         /\ Submitted(u) \in Amounts
         /\ QosPreservingFlags(run[u].doc["app"], Submitted(u)) \in Amounts
         /\ \A limits \in Limits : PlanResize(run[u].wants, run[u].doc["app"], limits) \in Amounts
<1>1. run[u] \in Run
  BY DEF TypeOK
<1>2. run[u].doc["app"] \in Amounts /\ run[u].doc \in PodSpec
  BY <1>1, RunTypes, Names DEF PodSpec
<1> QED
  BY <1>1, <1>2, RunTypes, PlanTypes DEF Submitted

LEMMA PlanStep ==
  ASSUME TypeOK, NEW u \in Users, Plan(u)
  PROVE  TypeOK'
<1>1. PICK readable \in BOOLEAN :
        LET wants    == run[u].wants
            current  == run[u].doc["app"]
            limits   == NamespaceLimits(readable)
            refusals == PlanRefusals(wants, current, limits)
            flags    == QosPreservingFlags(current, PlanResize(wants, current, limits))
        IN \/ Say(u, "declined", Nothing) /\ Leave(u)
           \/ Say(u, "advised", flags) /\ Leave(u)
           \/ /\ run' = [run EXCEPT ![u].known = limits]
              /\ Goto(u, "patch") /\ UNCHANGED report
  BY DEF Plan
<1> DEFINE limits == NamespaceLimits(readable)
           flags == QosPreservingFlags(run[u].doc["app"], PlanResize(run[u].wants, run[u].doc["app"], limits))
<1>2. limits \in Limits /\ flags \in Amounts
  BY RangesTypes, PlanningTypes, PlanTypes
<1>3. CASE Leave(u) /\ (Say(u, "declined", Nothing) \/ Say(u, "advised", flags))
  <2>1. report' \in [Users -> Report]
    BY <1>2, <1>3, SayTypes, NothingTypes DEF Said
  <2>2. pc' \in [Users -> Stage] /\ run' \in [Users -> Run]
    BY <1>3, LeaveTypes
  <2> QED
    BY <2>1, <2>2, TypesApart DEF Plan, ClusterTypes, RunsTypes, cluster
<1>4. CASE run' = [run EXCEPT ![u].known = limits] /\ Goto(u, "patch") /\ UNCHANGED report
  <2>1. [run[u] EXCEPT !.known = limits] \in Run
    BY <1>2, PlanningTypes, RunTypes
  <2>2. pc' \in [Users -> Stage] /\ run' \in [Users -> Run]
    BY <1>4, <2>1 DEF Goto, Stage, TypeOK
  <2> QED
    BY <1>4, <2>2, TypesApart DEF Plan, ClusterTypes, RunsTypes, cluster
<1> QED
  BY <1>1, <1>3, <1>4

LEMMA PatchTypes ==
  ASSUME TypeOK, NEW u \in Users, PatchAccepted(u) \/ PatchRefused(u)
  PROVE  TypeOK'
<1>1. pc' \in [Users -> Stage] /\ run' \in [Users -> Run]
  BY LeaveTypes DEF PatchAccepted, PatchRefused
<1>2. CASE PatchAccepted(u)
  <2>1. report' \in [Users -> Report]
    BY <1>2, SayTypes, NothingTypes DEF PatchAccepted, Said
  <2>2. spec' \in PodSpec
    BY <1>2, PlanningTypes, MergedTypes, TypesApart DEF PatchAccepted, ClusterTypes
  <2>3. raises' \in Nat
    BY <1>2 DEF PatchAccepted, TypeOK
  <2>4. steady' \in [Users -> BOOLEAN]
    BY <1>2 DEF PatchAccepted, TypeOK
  <2> QED
    BY <1>1, <1>2, <2>1, <2>2, <2>3, <2>4, TypesApart DEF PatchAccepted, ClusterTypes, RunsTypes
<1>3. CASE PatchRefused(u)
  <2>1. PICK reason \in Refusals(spec, Submitted(u)) :
          Say(u, IF Explained(u, reason) THEN "explained" ELSE "refused",
              IF reason = "class" THEN QosPreservingFlags(run[u].doc["app"], Submitted(u)) ELSE Nothing)
    BY <1>3 DEF PatchRefused
  <2>2. report' \in [Users -> Report]
    BY <2>1, SayTypes, NothingTypes, PlanningTypes DEF Said
  <2> QED
    BY <1>1, <1>3, <2>2, TypesApart DEF PatchRefused, ClusterTypes, RunsTypes, cluster
<1> QED
  BY <1>2, <1>3

LEMMA OpenTypes ==
  ASSUME TypeOK, NEW u \in Users, OpenEditor(u)
  PROVE  TypeOK'
<1>1. pc' \in [Users -> Stage] /\ run' \in [Users -> Run]
  BY LeaveTypes DEF OpenEditor
<1>2. report' \in [Users -> Report]
  <2>1. report[u] \in Report /\ report \in [Users -> Report]
    BY DEF TypeOK
  <2>2. \A b \in BOOLEAN, said \in Said : [report[u] EXCEPT !.warned = b, !.said = said] \in Report
    BY <2>1 DEF Report
  <2>3. PICK measured \in BOOLEAN :
          report' = [report EXCEPT ![u].warned = Below(Measured(measured), EditorHeadroom),
                                   ![u].said = IF PodMemoryLimit(spec) # 0 /\ ~measured
                                               THEN "unmeasured" ELSE @]
    BY DEF OpenEditor
  <2> DEFINE b == Below(Measured(measured), EditorHeadroom)
             said == IF PodMemoryLimit(spec) # 0 /\ ~measured THEN "unmeasured" ELSE report[u].said
  <2>4. b \in BOOLEAN /\ said \in Said
    BY <2>1 DEF Below, Said, Report
  <2>5. report' = [report EXCEPT ![u] = [report[u] EXCEPT !.warned = b, !.said = said]]
    BY <2>1, <2>3 DEF Report
  <2> HIDE DEF b, said
  <2> QED
    BY <2>1, <2>2, <2>4, <2>5
<1>3. used' \in Nat
  BY ResizeAssumption DEF OpenEditor, TypeOK
<1> QED
  BY <1>1, <1>2, <1>3, TypesApart DEF OpenEditor, ClusterTypes, RunsTypes

LEMMA TypeStep == TypeOK /\ [Next]_vars => TypeOK'
<1>1. CASE UNCHANGED vars
  BY <1>1 DEF vars, TypeOK
<1>2. ASSUME TypeOK, Next
      PROVE  TypeOK'
  BY <1>2, ClusterStep, BeginTypes, ReadTypes, PlanStep, PatchTypes, OpenTypes DEF Next
<1> QED
  BY <1>1, <1>2

(* Every reachable state is of the declared types.                           *)
THEOREM ResizeTypeCorrect == Spec => []TypeOK
<1>1. Init => TypeOK
  BY TypeInit
<1>2. TypeOK /\ [Next]_vars => TypeOK'
  BY TypeStep
<1> QED
  BY <1>1, <1>2, PTL DEF Spec

-----------------------------------------------------------------------------
(* What the API server stores. *)

LEMMA MergedIsDefaulted ==
  ASSUME NEW p \in PodSpec, NEW patch \in Amounts, Defaulted(p)
  PROVE  Defaulted(Merged(p, patch))
<1> SUFFICES ASSUME NEW c \in Container, NEW r \in Resource, Merged(p, patch)[c][r].lim # 0
             PROVE  Merged(p, patch)[c][r].req # 0
  BY DEF Defaulted
<1>1. CASE c = "app"
  <2>1. p["app"][r].lim # 0 => p["app"][r].req # 0
    BY Names DEF Defaulted
  <2> QED
    BY <1>1, <2>1, MergedFields
<1>2. CASE c = "sidecar"
  BY <1>2, MergedTypes DEF Defaulted
<1> QED
  BY <1>1, <1>2 DEF Container

LEMMA MergedIsWithin ==
  ASSUME NEW p \in PodSpec, NEW patch \in Amounts, Within(p), Refusals(p, patch) = {}
  PROVE  Within(Merged(p, patch))
<1>1. \A r \in Resource : Violations(Merged(p, patch)["app"][r], ranges[r]) = {}
  BY DEF Refusals
<1>2. \A r \in Resource : Violations(Merged(p, patch)["sidecar"][r], ranges[r]) = {}
  BY MergedTypes, Names DEF Within
<1> QED
  BY <1>1, <1>2 DEF Within, Container

-----------------------------------------------------------------------------
(* The invariant. *)

LEMMA InvInit == Init => Inv
<1> SUFFICES ASSUME Init PROVE Inv
  OBVIOUS
<1>1. TypeOK
  BY TypeInit
<1>2. Raised
  BY DEF Init, Raised
<1>3. Stored
  BY PodTypes DEF Init, Stored
<1>4. ASSUME NEW u \in Users
      PROVE  Sound(u)
  <2>1. pc[u] = "idle" /\ run[u] = NoRun
    BY DEF Init
  <2>2. NoRun.editor = FALSE
    BY DEF NoRun
  <2> QED
    BY <2>1, <2>2 DEF Sound, Flagged, Known, Planned, Unsaid
<1> QED
  BY <1>1, <1>2, <1>3, <1>4 DEF Inv

(* A run is as sound as it was, whatever others do, once it remembers that   *)
(* the pod has changed.                                                      *)
LEMMA Undisturbed ==
  ASSUME NEW v \in Users, Sound(v),
         pc'[v] = pc[v], run'[v] = run[v], report'[v] = report[v],
         steady'[v] => steady[v] /\ spec' = spec
  PROVE  Sound(v)'
<1>1. Flagged(v)'
  BY DEF Sound, Flagged
<1>2. Known(v)'
  BY DEF Sound, Known
<1>3. Planned(v)'
  BY DEF Sound, Planned, Submitted
<1>4. Unsaid(v)'
  BY DEF Sound, Unsaid
<1> QED
  BY <1>1, <1>2, <1>3, <1>4 DEF Sound

(* A run that has left its plan has nothing to be sound about.               *)
LEMMA LeftIsSound ==
  ASSUME TypeOK, NEW u \in Users, Leave(u) \/ Return(u)
  PROVE  Sound(u)'
<1>1. \/ pc'[u] = "idle" /\ run'[u] = NoRun
      \/ pc'[u] = "open" /\ run'[u] = [NoRun EXCEPT !.editor = TRUE]
  BY LeaveTypes
<1>2. /\ NoRun.editor = FALSE
      /\ [NoRun EXCEPT !.editor = TRUE].wants = Nothing
      /\ Nothing["memory"] = [req |-> 0, lim |-> 0] /\ Nothing["cpu"] = [req |-> 0, lim |-> 0]
  BY Names DEF NoRun, Nothing
<1> QED
  BY <1>1, <1>2 DEF Sound, Flagged, Known, Planned, Unsaid

LEMMA ClusterKeepsInv ==
  ASSUME Inv, Regenerated \/ Actuated
  PROVE  Inv'
<1>1. TypeOK'
  BY ClusterStep DEF Inv
<1>2. Raised'
  BY DEF Inv, Raised, Regenerated, Actuated
<1>3. Stored'
  <2>1. CASE Regenerated
    <3>1. PICK template \in Pods : Within(template) /\ spec' = template /\ ranges' = ranges
      BY <2>1 DEF Regenerated
    <3>2. Defaulted(template)
      BY PodTypes
    <3> QED
      BY <3>1, <3>2 DEF Stored, Within, Defaulted
  <2>2. CASE Actuated
    BY <2>2 DEF Inv, Stored, Actuated, Within, Defaulted
  <2> QED
    BY <2>1, <2>2
<1>4. ASSUME NEW v \in Users
      PROVE  Sound(v)'
  <2>1. pc'[v] = pc[v] /\ run'[v] = run[v] /\ report'[v] = report[v]
    BY DEF Regenerated, Actuated
  <2>2. steady'[v] => steady[v] /\ spec' = spec
    BY DEF Regenerated, Actuated
  <2> QED
    BY <2>1, <2>2, Undisturbed DEF Inv
<1> QED
  BY <1>1, <1>2, <1>3, <1>4 DEF Inv

(* A run's own step leaves the pod and the others alone, except for what it  *)
(* patches.                                                                  *)
LEMMA ClusterUnchanged ==
  ASSUME Inv, UNCHANGED cluster
  PROVE  Raised' /\ Stored'
<1>1. spec' = spec /\ raises' = raises /\ ranges' = ranges
  BY DEF cluster
<1> QED
  BY <1>1 DEF Inv, Raised, Stored, Within, Defaulted

LEMMA BeginKeepsInv ==
  ASSUME Inv, NEW u \in Users, Begin(u)
  PROVE  Inv'
<1>0. TypeOK /\ run \in [Users -> Run] /\ pc \in [Users -> Stage] /\ report \in [Users -> Report]
  BY DEF Inv, TypeOK
<1>1. TypeOK' /\ Raised' /\ Stored'
  BY <1>0, BeginTypes, ClusterUnchanged DEF Begin
<1>2. Sound(u)'
  <2>1. run[u] = NoRun /\ NoRun.editor = FALSE /\ NoRun.wants = Nothing
    BY DEF Inv, Sound, Flagged, Begin, NoRun
  <2>2. Nothing["memory"] = [req |-> 0, lim |-> 0] /\ Nothing["cpu"] = [req |-> 0, lim |-> 0]
    BY Names DEF Nothing
  <2>3. report'[u] = Silent /\ Silent.said = ""
    BY <1>0 DEF Begin, Silent
  <2>4. pc'[u] \in {"read", "measure", "open"}
    BY <1>0 DEF Begin, Goto
  <2>5. ~steady'[u]
    BY <1>0 DEF Begin, Inv, TypeOK
  <2>6. \/ run'[u] = [NoRun EXCEPT !.editor = TRUE]
        \/ \E w \in Wants : run'[u] = [NoRun EXCEPT !.wants = w]
    BY <1>0, <2>1 DEF Begin
  <2>7. run'[u].editor => run'[u].wants = Nothing
    BY <2>6 DEF NoRun
  <2> QED
    BY <2>2, <2>3, <2>4, <2>5, <2>7 DEF Sound, Flagged, Known, Planned, Unsaid
<1>3. ASSUME NEW v \in Users \ {u}
      PROVE  Sound(v)'
  BY <1>0, <1>3, Undisturbed DEF Begin, Goto, Inv, TypeOK, cluster
<1> QED
  BY <1>1, <1>2, <1>3 DEF Inv

LEMMA EditorMemoryKeepsInv ==
  ASSUME Inv, NEW u \in Users, EditorMemory(u)
  PROVE  Inv'
<1>0. /\ TypeOK /\ run \in [Users -> Run] /\ pc \in [Users -> Stage] /\ run[u] \in Run
      /\ Flagged(u) /\ pc[u] = "measure"
  BY DEF Inv, TypeOK, Sound, EditorMemory
<1>1. TypeOK' /\ Raised' /\ Stored'
  BY <1>0, ReadTypes, ClusterUnchanged DEF EditorMemory
<1>2. PICK measured \in BOOLEAN :
        LET h == Measured(measured)
            wanted == EditorLimitFor(h, spec["app"]["memory"].lim)
        IN /\ run' = [run EXCEPT ![u].wants["memory"].lim = wanted]
           /\ Goto(u, IF wanted = 0 THEN "open" ELSE "read")
           /\ Say(u, IF h.limit # 0 /\ ~measured THEN "unmeasured" ELSE "", Nothing)
  BY DEF EditorMemory
<1> DEFINE wanted == EditorLimitFor(Measured(measured), spec["app"]["memory"].lim)
           words  == IF Measured(measured).limit # 0 /\ ~measured THEN "unmeasured" ELSE ""
<1>3. wanted \in {0, EditorLimit} /\ wanted \in Nat
  <2>1. spec["app"]["memory"].lim \in Nat
    BY <1>0, Names DEF TypeOK, Amount
  <2> QED
    BY <1>0, <2>1, EditorTypes, MeasuredTypes, ResizeAssumption
<1>4. /\ report'[u].said # "advised"
      /\ \A v \in Users \ {u} : report'[v] = report[v]
  BY <1>0, <1>2, SayTypes, NothingTypes DEF Said
<1> HIDE DEF wanted
<1>5. /\ run' = [run EXCEPT ![u].wants["memory"].lim = wanted]
      /\ Goto(u, IF wanted = 0 THEN "open" ELSE "read")
  BY <1>2 DEF wanted
<1>6. /\ run'[u] = [run[u] EXCEPT !.wants["memory"].lim = wanted]
      /\ pc'[u] \in {"open", "read"}
      /\ \A v \in Users \ {u} : run'[v] = run[v] /\ pc'[v] = pc[v]
  BY <1>0, <1>5 DEF Goto
<1>7. Sound(u)'
  <2>1. /\ run'[u].wants["memory"] = [req |-> run[u].wants["memory"].req, lim |-> wanted]
        /\ run'[u].wants["cpu"] = run[u].wants["cpu"]
        /\ run'[u].editor = run[u].editor
    BY <1>0, <1>3, <1>6, AskTypes
  <2>2. Flagged(u)'
    BY <1>0, <1>3, <1>6, <2>1 DEF Flagged
  <2> QED
    BY <1>4, <1>6, <2>2 DEF Sound, Known, Planned, Unsaid
<1>8. ASSUME NEW v \in Users \ {u}
      PROVE  Sound(v)'
  <2>1. steady' = steady /\ spec' = spec
    BY DEF EditorMemory, cluster
  <2> QED
    BY <1>4, <1>6, <1>8, <2>1, Undisturbed DEF Inv
<1> QED
  BY <1>1, <1>7, <1>8 DEF Inv

LEMMA GetPodKeepsInv ==
  ASSUME Inv, NEW u \in Users, GetPod(u)
  PROVE  Inv'
<1>0. /\ TypeOK /\ run \in [Users -> Run] /\ pc \in [Users -> Stage] /\ run[u] \in Run
      /\ steady \in [Users -> BOOLEAN]
      /\ Flagged(u) /\ Unsaid(u) /\ pc[u] = "read"
  BY DEF Inv, TypeOK, Sound, GetPod
<1>1. TypeOK' /\ Raised' /\ Stored'
  BY <1>0, ReadTypes, ClusterUnchanged DEF GetPod
<1>2. /\ run'[u] = [run[u] EXCEPT !.doc = spec] /\ pc'[u] = "limits"
      /\ spec' = spec /\ report' = report
      /\ \A v \in Users \ {u} : run'[v] = run[v] /\ pc'[v] = pc[v] /\ steady'[v] = steady[v]
  BY <1>0 DEF GetPod, Goto, cluster
<1>3. Sound(u)'
  <2>1. /\ run'[u].doc = spec /\ run'[u].wants = run[u].wants
        /\ run'[u].editor = run[u].editor
    BY <1>0, <1>2 DEF Run
  <2> QED
    BY <1>0, <1>2, <2>1 DEF Sound, Flagged, Known, Planned, Unsaid
<1>4. ASSUME NEW v \in Users \ {u}
      PROVE  Sound(v)'
  BY <1>2, <1>4, Undisturbed DEF Inv
<1> QED
  BY <1>1, <1>3, <1>4 DEF Inv

(* A step that ends a run, and leaves the pod alone.                         *)
LEMMA EndKeepsInv ==
  ASSUME Inv, NEW u \in Users, Leave(u) \/ Return(u), TypeOK',
         UNCHANGED <<cluster, steady>>,
         \A v \in Users \ {u} : report'[v] = report[v]
  PROVE  Inv'
<1>1. TypeOK /\ spec' = spec
  BY DEF Inv, cluster
<1>2. Raised' /\ Stored'
  BY ClusterUnchanged
<1>3. Sound(u)'
  BY <1>1, LeftIsSound
<1>4. ASSUME NEW v \in Users \ {u}
      PROVE  Sound(v)'
  BY <1>1, <1>4, LeaveTypes, Undisturbed DEF Inv
<1> QED
  BY <1>2, <1>3, <1>4 DEF Inv

LEMMA ReadFailsKeepsInv ==
  ASSUME Inv, NEW u \in Users, ReadFails(u)
  PROVE  Inv'
<1>1. TypeOK /\ TypeOK'
  BY ReadTypes DEF Inv
<1>2. \A v \in Users \ {u} : report'[v] = report[v]
  BY <1>1, SayTypes, NothingTypes DEF ReadFails, Said
<1> QED
  BY <1>1, <1>2, EndKeepsInv DEF ReadFails

LEMMA PatchRefusedKeepsInv ==
  ASSUME Inv, NEW u \in Users, PatchRefused(u)
  PROVE  Inv'
<1>1. TypeOK /\ TypeOK'
  BY PatchTypes DEF Inv
<1>2. PICK reason \in Refusals(spec, Submitted(u)) :
        Say(u, IF Explained(u, reason) THEN "explained" ELSE "refused",
            IF reason = "class" THEN QosPreservingFlags(run[u].doc["app"], Submitted(u)) ELSE Nothing)
  BY DEF PatchRefused
<1>3. \A v \in Users \ {u} : report'[v] = report[v]
  BY <1>1, <1>2, SayTypes, NothingTypes, PlanningTypes DEF Said
<1> QED
  BY <1>1, <1>3, EndKeepsInv DEF PatchRefused

LEMMA OpenEditorKeepsInv ==
  ASSUME Inv, NEW u \in Users, OpenEditor(u)
  PROVE  Inv'
<1>1. TypeOK /\ TypeOK' /\ report \in [Users -> Report]
  BY OpenTypes DEF Inv, TypeOK
<1>2. \A v \in Users \ {u} : report'[v] = report[v]
  BY <1>1 DEF OpenEditor
<1>3. Raised' /\ Stored'
  BY DEF Inv, OpenEditor, Raised, Stored, Within, Defaulted
<1>4. Sound(u)'
  BY <1>1, LeftIsSound DEF OpenEditor
<1>5. ASSUME NEW v \in Users \ {u}
      PROVE  Sound(v)'
  BY <1>1, <1>2, <1>5, LeaveTypes, Undisturbed DEF Inv, OpenEditor
<1> QED
  BY <1>1, <1>3, <1>4, <1>5 DEF Inv

(* No flags are advised only when the patch keeps a Guaranteed pod's class.  *)
LEMMA NoFlagsArePinned ==
  ASSUME NEW current \in Amounts, NEW patch \in Amounts,
         QosPreservingFlags(current, patch) = Nothing
  PROVE  Pinned(current, patch)
<1> SUFFICES ASSUME ~Pinned(current, patch) PROVE FALSE
  OBVIOUS
<1>1. [r \in Resource |-> [req |-> patch[r].lim, lim |-> patch[r].lim]] = Nothing
  BY DEF QosPreservingFlags
<1>2. ASSUME NEW r \in Resource
      PROVE  patch[r].lim = 0
  <2>1. [req |-> patch[r].lim, lim |-> patch[r].lim] = [req |-> 0, lim |-> 0]
    BY <1>1 DEF Nothing
  <2> QED
    BY <2>1
<1> QED
  BY <1>2 DEF Pinned

LEMMA PlanKeepsInv ==
  ASSUME Inv, NEW u \in Users, Plan(u)
  PROVE  Inv'
<1>0. /\ TypeOK /\ TypeOK' /\ run \in [Users -> Run] /\ pc \in [Users -> Stage] /\ run[u] \in Run
      /\ Sound(u) /\ pc[u] = "limits"
  BY PlanStep DEF Inv, TypeOK, Plan
<1> DEFINE limits(readable)   == NamespaceLimits(readable)
           patch(readable)    == PlanResize(run[u].wants, run[u].doc["app"], limits(readable))
           flags(readable)    == QosPreservingFlags(run[u].doc["app"], patch(readable))
           refusals(readable) == PlanRefusals(run[u].wants, run[u].doc["app"], limits(readable))
<1>1. PICK readable \in BOOLEAN :
        \/ Say(u, "declined", Nothing) /\ Leave(u)
        \/ Say(u, "advised", flags(readable)) /\ Leave(u)
        \/ /\ refusals(readable) = {}
           /\ ~(flags(readable) # Nothing /\ QosClass(run[u].doc) = "Guaranteed")
           /\ run' = [run EXCEPT ![u].known = limits(readable)]
           /\ Goto(u, "patch") /\ UNCHANGED report
  BY DEF Plan
<1>2. limits(readable) \in Limits /\ patch(readable) \in Amounts /\ flags(readable) \in Amounts
  BY <1>0, RangesTypes, PlanningTypes, PlanTypes
<1>3. UNCHANGED <<cluster, steady>>
  BY DEF Plan
<1>4. CASE Leave(u) /\ (Say(u, "declined", Nothing) \/ Say(u, "advised", flags(readable)))
  <2>1. \A v \in Users \ {u} : report'[v] = report[v]
    BY <1>0, <1>2, <1>4, SayTypes, NothingTypes DEF Said
  <2> QED
    BY <1>0, <1>3, <1>4, <2>1, EndKeepsInv
<1>5. CASE /\ refusals(readable) = {}
           /\ ~(flags(readable) # Nothing /\ QosClass(run[u].doc) = "Guaranteed")
           /\ run' = [run EXCEPT ![u].known = limits(readable)]
           /\ Goto(u, "patch") /\ UNCHANGED report
  <2> HIDE DEF limits
  <2>1. /\ run'[u] = [run[u] EXCEPT !.known = limits(readable)] /\ pc'[u] = "patch"
        /\ report' = report /\ spec' = spec /\ steady' = steady
        /\ \A v \in Users \ {u} : run'[v] = run[v] /\ pc'[v] = pc[v]
    BY <1>0, <1>3, <1>5 DEF Goto, cluster
  <2>2. /\ run'[u].doc = run[u].doc /\ run'[u].wants = run[u].wants
        /\ run'[u].editor = run[u].editor /\ run'[u].known = limits(readable)
    BY <1>0, <2>1 DEF Run
  <2>3. QosClass(run[u].doc) = "Guaranteed" => Pinned(run[u].doc["app"], patch(readable))
    BY <1>0, <1>2, <1>5, PlanningTypes, NoFlagsArePinned
  <2>4. Planned(u)'
    BY <1>5, <2>2, <2>3 DEF Planned, Submitted
  <2>5. Flagged(u)' /\ Known(u)' /\ Unsaid(u)'
    BY <1>0, <2>1, <2>2 DEF Sound, Flagged, Known, Unsaid
  <2>6. ASSUME NEW v \in Users \ {u}
        PROVE  Sound(v)'
    BY <2>1, <2>6, Undisturbed DEF Inv
  <2>7. Raised' /\ Stored'
    BY <1>3, ClusterUnchanged
  <2> QED
    BY <1>0, <2>4, <2>5, <2>6, <2>7 DEF Inv, Sound
<1> QED
  BY <1>1, <1>4, <1>5

(* An editor's patch sets app's memory to EditorLimit or leaves it.          *)
LEMMA EditorPatch ==
  ASSUME Inv, NEW u \in Users, run[u].editor
  PROVE  Submitted(u)["memory"].lim \in {0, EditorLimit}
<1>1. run[u].wants["memory"].lim \in {0, EditorLimit}
  BY DEF Inv, Sound, Flagged
<1> QED
  BY <1>1, Names DEF Submitted, PlanResize

LEMMA PatchAcceptedKeepsInv ==
  ASSUME Inv, NEW u \in Users, PatchAccepted(u)
  PROVE  Inv'
<1>0. /\ TypeOK /\ TypeOK' /\ spec \in PodSpec /\ Submitted(u) \in Amounts
      /\ steady \in [Users -> BOOLEAN]
  BY PatchTypes, PlanningTypes, TypesApart DEF Inv, ClusterTypes, RunsTypes
<1>1. /\ spec' = Merged(spec, Submitted(u)) /\ ranges' = ranges
      /\ Refusals(spec, Submitted(u)) = {}
  BY DEF PatchAccepted
<1>2. Stored'
  <2>1. Defaulted(spec) /\ Within(spec)
    BY DEF Inv, Stored
  <2>2. Defaulted(Merged(spec, Submitted(u))) /\ Within(Merged(spec, Submitted(u)))
    BY <1>0, <1>1, <2>1, MergedIsDefaulted, MergedIsWithin
  <2> QED
    BY <1>1, <2>2 DEF Stored, Defaulted, Within
<1>3. Raised'
  <2> DEFINE now  == spec["app"]["memory"].lim
             then == spec'["app"]["memory"].lim
  <2>1. CASE ~run[u].editor
    BY <2>1 DEF PatchAccepted, Raised
  <2>2. CASE run[u].editor
    <3>1. Submitted(u)["memory"].lim \in {0, EditorLimit}
      BY <2>2, EditorPatch
    <3> DEFINE new == Merged(spec, Submitted(u))["app"]["memory"]
    <3>2. then = now \/ then = EditorLimit
      <4>1. /\ Submitted(u)["memory"].lim = 0 => new = spec["app"]["memory"]
            /\ Submitted(u)["memory"].lim # 0 => new.lim = Submitted(u)["memory"].lim
        BY <1>0, MergedFields, Names
      <4>2. then = new.lim
        BY <1>1
      <4> HIDE DEF new
      <4> QED
        BY <3>1, <4>1, <4>2
    <3>3. raises' = raises + (IF then # now THEN 1 ELSE 0)
      BY <2>2 DEF PatchAccepted
    <3>4. raises \in Nat /\ raises <= 1 /\ (raises = 1 => now = EditorLimit)
      BY DEF Inv, TypeOK, Raised
    <3> HIDE DEF now, then
    <3>5. raises' <= 1 /\ (raises' = 1 => then = EditorLimit)
      BY <3>2, <3>3, <3>4
    <3> QED
      BY <3>5 DEF Raised, then
  <2> QED
    BY <2>1, <2>2
<1>4. Sound(u)'
  BY <1>0, LeftIsSound DEF PatchAccepted
<1>5. ASSUME NEW v \in Users \ {u}
      PROVE  Sound(v)'
  <2>1. report'[v] = report[v]
    BY <1>0, SayTypes, NothingTypes DEF PatchAccepted, Said
  <2>2. steady'[v] => steady[v] /\ spec' = spec
    BY DEF PatchAccepted
  <2>3. pc'[v] = pc[v] /\ run'[v] = run[v]
    BY <1>0, LeaveTypes DEF PatchAccepted
  <2> QED
    BY <2>1, <2>2, <2>3, Undisturbed DEF Inv
<1> QED
  BY <1>0, <1>2, <1>3, <1>4, <1>5 DEF Inv

LEMMA InvStep == Inv /\ [Next]_vars => Inv'
<1>1. ASSUME Inv, UNCHANGED vars
      PROVE  Inv'
  <2>1. UNCHANGED cluster /\ UNCHANGED <<pc, run, steady, report>> /\ spec' = spec
    BY <1>1 DEF vars, cluster
  <2>2. TypeOK' /\ Raised' /\ Stored'
    BY <1>1, <2>1, TypeStep, ClusterUnchanged DEF Inv
  <2>3. \A v \in Users : Sound(v)'
    BY <1>1, <2>1, Undisturbed DEF Inv
  <2> QED
    BY <2>2, <2>3 DEF Inv
<1>2. ASSUME Inv, Next
      PROVE  Inv'
  BY <1>2, ClusterKeepsInv, BeginKeepsInv, EditorMemoryKeepsInv, GetPodKeepsInv, PlanKeepsInv,
     PatchAcceptedKeepsInv, PatchRefusedKeepsInv, ReadFailsKeepsInv, OpenEditorKeepsInv DEF Next
<1> QED
  BY <1>1, <1>2

(* What the API server stores and what each run knows of it, from the flags  *)
(* to the patch: the invariant the theorems below are conjuncts of.          *)
THEOREM InvHolds == Spec => []Inv
  BY InvInit, InvStep, PTL DEF Spec

(* However often vscode runs and however two runs interleave, an editor's    *)
(* raise changes the target's limit once until somebody else sets it.        *)
THEOREM RaisedOnce == Spec => []EditorRaisesOnce
<1>1. Inv => EditorRaisesOnce
  BY DEF Inv, Raised, EditorRaisesOnce
<1> QED
  BY <1>1, InvHolds, PTL

-----------------------------------------------------------------------------
(* What the plan and the advice are worth to the API server. *)

(* A plan that is not refused, of a raise whose request it derives, is within *)
(* the LimitRange it was made for, and makes no amount guaranteed that was   *)
(* not.                                                                      *)
LEMMA PlannedAmount ==
  ASSUME NEW want \in Amount, NEW have \in Amount, NEW limit \in LimitRange,
         want.req = 0, want.lim # 0,
         have.req # 0, have.req <= have.lim, have.lim <= want.lim,
         ~(limit.ceiling # 0 /\ want.lim > limit.ceiling),
         ~Unsubmittable(want, have, limit.ratio),
         NEW new \in Amount, new.lim = want.lim,
         new.req = IF RequestFor(want, have, limit.ratio) # 0
                   THEN RequestFor(want, have, limit.ratio) ELSE have.req
  PROVE  /\ Violations(new, limit) = {}
         /\ new.req = new.lim => have.req = have.lim
<1> DEFINE ratio == limit.ratio
           req   == RequestFor(want, have, ratio)
<1>1. /\ want.lim \in Nat \ {0} /\ have.req \in Nat \ {0} /\ have.lim \in Nat
      /\ ratio \in Nat /\ limit.ceiling \in Nat
  BY DEF Amount, LimitRange
<1>2. CASE ratio = 0 \/ have.req * ratio >= want.lim
  <2>1. new.req = have.req
    BY <1>1, <1>2 DEF RequestFor
  <2>2. new.req <= new.lim /\ (new.req = new.lim => have.req = have.lim)
    BY <1>1, <2>1
  <2>3. ratio # 0 => new.lim <= ratio * new.req
    BY <1>1, <1>2, <2>1
  <2>4. /\ ~(limit.ratio # 0 /\ new.lim > limit.ratio * new.req)
        /\ ~(new.req > new.lim) /\ ~(limit.ceiling # 0 /\ new.lim > limit.ceiling)
    BY <1>1, <2>1, <2>2, <2>3
  <2> QED
    BY <2>2, <2>4 DEF Violations
<1>3. CASE ratio # 0 /\ ~(have.req * ratio >= want.lim)
  <2> DEFINE least == (want.lim + ratio - 1) \div ratio
  <2>1. req = least
    BY <1>1, <1>3 DEF RequestFor
  <2>2. /\ least \in Nat \ {0} /\ want.lim <= ratio * least /\ least <= want.lim
        /\ least = want.lim => want.lim = 1 \/ ratio = 1
    BY <1>1, <1>3, RequestIsRoundedUp
  <2> HIDE DEF least, req
  <2>3. new.req = least
    BY <2>1, <2>2 DEF req
  <2>4. new.req = new.lim => have.req = have.lim
    <3>1. CASE want.lim = 1
      BY <1>1, <3>1
    <3>2. CASE ratio = 1
      <4>1. WasGuaranteed(have) \/ have.req >= want.lim
        BY <1>1, <3>2 DEF Unsubmittable
      <4> QED
        BY <1>1, <4>1 DEF WasGuaranteed
    <3> QED
      BY <2>2, <2>3, <3>1, <3>2
  <2> QED
    BY <1>1, <2>2, <2>3, <2>4 DEF Violations
<1> QED
  BY <1>1, <1>2, <1>3

(* The class of a pod, as conditions.                                        *)
AllGuaranteed(p) == \A c \in Container, r \in Resource : p[c][r].lim # 0 /\ p[c][r].req = p[c][r].lim

LEMMA ClassIs ==
  ASSUME NEW p, NEW r0 \in Resource, p["app"][r0].lim # 0
  PROVE  QosClass(p) = IF AllGuaranteed(p) THEN "Guaranteed" ELSE "Burstable"
<1>1. p["app"][r0] # [req |-> 0, lim |-> 0]
  OBVIOUS
<1>2. ~(\A c \in Container, r \in Resource : p[c][r] = [req |-> 0, lim |-> 0])
  BY <1>1, Names
<1> QED
  BY <1>2 DEF QosClass, AllGuaranteed

LEMMA MergedNothing ==
  ASSUME NEW p \in PodSpec, NEW patch \in Amounts, \A r \in Resource : patch[r].lim = 0
  PROVE  Merged(p, patch) = p
<1>1. Merged(p, patch) \in PodSpec /\ Merged(p, patch)["sidecar"] = p["sidecar"]
  BY MergedTypes
<1>2. \A r \in Resource : Merged(p, patch)["app"][r] = p["app"][r]
  BY MergedTypes
<1>3. Merged(p, patch)["app"] \in Amounts /\ p["app"] \in Amounts
  BY <1>1, Names DEF PodSpec
<1>4. Merged(p, patch)["app"] = p["app"]
  BY <1>2, <1>3 DEF Amounts
<1>5. \A c \in Container : Merged(p, patch)[c] = p[c]
  BY <1>1, <1>4 DEF Container
<1> QED
  BY <1>1, <1>5 DEF PodSpec

(* A raise podbench plans is admitted, unless the pod holds a claim.         *)
LEMMA InvAdmits == Inv => RaiseIsAdmitted
<1> SUFFICES ASSUME Inv, NEW u \in Users,
                    pc[u] = "patch", steady[u], Derived(u), run[u].known = ranges,
                    \A r \in Resource : Submitted(u)[r].lim # 0 =>
                      spec["app"][r].lim # 0 /\ Submitted(u)[r].lim >= spec["app"][r].lim
             PROVE  Refusals(spec, Submitted(u)) \subseteq {"claims"}
  BY DEF RaiseIsAdmitted
<1> DEFINE patch == Submitted(u)
           new   == Merged(spec, patch)
           wants == run[u].wants
<1>1. /\ TypeOK /\ spec \in PodSpec /\ patch \in Amounts /\ new \in PodSpec
      /\ spec["app"] \in Amounts /\ new["app"] \in Amounts /\ ranges \in Limits /\ wants \in Amounts
  <2>1. TypeOK
    BY DEF Inv
  <2>2. spec \in PodSpec /\ patch \in Amounts /\ ranges \in Limits /\ run[u] \in Run
    BY <2>1, PlanningTypes, TypesApart DEF ClusterTypes, RunsTypes
  <2>3. new \in PodSpec /\ wants \in Amounts
    BY <2>2, MergedTypes, RunTypes
  <2> QED
    BY <2>1, <2>2, <2>3, Names DEF PodSpec
<1>2. /\ run[u].doc = spec /\ Stored
      /\ PlanRefusals(wants, spec["app"], ranges) = {}
      /\ QosClass(spec) = "Guaranteed" => Pinned(spec["app"], patch)
  BY DEF Inv, Sound, Known, Planned
<1>3. patch = PlanResize(wants, spec["app"], ranges)
  BY <1>2 DEF Submitted
<1>4. \A r \in Resource :
        /\ patch[r].lim = 0 => new["app"][r] = spec["app"][r]
        /\ patch[r].lim # 0 => /\ new["app"][r].lim = patch[r].lim
                               /\ new["app"][r].req = IF patch[r].req # 0 THEN patch[r].req
                                    ELSE IF spec["app"][r].req # 0 THEN spec["app"][r].req
                                    ELSE patch[r].lim
  BY <1>1, MergedFields
<1>5. new["sidecar"] = spec["sidecar"]
  BY <1>1, MergedTypes
<1> HIDE DEF patch, new, wants
<1>6. ASSUME NEW r \in Resource, patch[r].lim # 0
      PROVE  /\ Violations(new["app"][r], ranges[r]) = {}
             /\ new["app"][r].req = new["app"][r].lim =>
                  spec["app"][r].req = spec["app"][r].lim
  <2> DEFINE want == wants[r]
             have == spec["app"][r]
             limit == ranges[r]
  <2>1. want \in Amount /\ have \in Amount /\ limit \in LimitRange /\ new["app"][r] \in Amount
    BY <1>1 DEF Amounts, Limits
  <2>2. want.req = 0
    BY DEF Derived, wants
  <2>3. want.lim # 0 /\ patch[r].lim = want.lim /\ patch[r].req = RequestFor(want, have, limit.ratio)
    BY <1>3, <1>6 DEF PlanResize
  <2>4. have.lim # 0 /\ have.lim <= want.lim
    <3>1. have.lim # 0 /\ patch[r].lim >= have.lim
      BY <1>6 DEF patch
    <3> QED
      BY <2>1, <2>3, <3>1 DEF Amount
  <2>5. have.req # 0 /\ have.req <= have.lim
    <3>1. have.req # 0 /\ Violations(have, limit) = {}
      BY <1>2, <2>4, Names DEF Stored, Defaulted, Within
    <3> QED
      BY <2>1, <2>4, <3>1 DEF Violations, Amount
  <2>6. /\ ~(limit.ceiling # 0 /\ want.lim > limit.ceiling)
        /\ ~Unsubmittable(want, have, limit.ratio)
    BY <1>2, <2>3 DEF PlanRefusals, Backwards
  <2>7. /\ new["app"][r].lim = want.lim
        /\ new["app"][r].req = IF RequestFor(want, have, limit.ratio) # 0
                               THEN RequestFor(want, have, limit.ratio) ELSE have.req
    BY <1>4, <1>6, <2>3, <2>5
  <2> HIDE DEF want, have, limit
  <2>8. /\ Violations(new["app"][r], limit) = {}
        /\ new["app"][r].req = new["app"][r].lim => have.req = have.lim
    BY <2>1, <2>2, <2>3, <2>4, <2>5, <2>6, <2>7, PlannedAmount
  <2> QED
    BY <2>8 DEF have, limit
<1>7. ASSUME NEW r \in Resource
      PROVE  Violations(new["app"][r], ranges[r]) = {}
  <2>1. CASE patch[r].lim = 0
    BY <1>2, <1>4, <2>1, Names DEF Stored, Within
  <2>2. CASE patch[r].lim # 0
    BY <1>6, <2>2
  <2> QED
    BY <2>1, <2>2
<1>8. QosClass(new) = QosClass(spec)
  <2>1. CASE \A r \in Resource : patch[r].lim = 0
    BY <1>1, <2>1, MergedNothing DEF new
  <2>2. CASE \E r \in Resource : patch[r].lim # 0
    <3>1. PICK r0 \in Resource : patch[r0].lim # 0
      BY <2>2
    <3>2. spec["app"][r0].lim # 0 /\ new["app"][r0].lim # 0
      BY <1>4, <3>1 DEF patch
    <3>3. AllGuaranteed(spec) => AllGuaranteed(new)
      <4> SUFFICES ASSUME AllGuaranteed(spec), NEW c \in Container, NEW r \in Resource
                   PROVE  new[c][r].lim # 0 /\ new[c][r].req = new[c][r].lim
        BY DEF AllGuaranteed
      <4>1. Pinned(spec["app"], patch)
        BY <1>2, <3>2, ClassIs
      <4>2. CASE c = "app" /\ patch[r].lim # 0
        <5>1. patch[r].lim = IF patch[r].req # 0 THEN patch[r].req ELSE spec["app"][r].req
          BY <4>1, <4>2 DEF Pinned
        <5> QED
          BY <1>4, <4>2, <5>1
      <4>3. CASE c = "app" /\ patch[r].lim = 0
        BY <1>4, <4>3 DEF AllGuaranteed
      <4>4. CASE c = "sidecar"
        BY <1>5, <4>4 DEF AllGuaranteed
      <4> QED
        BY <4>2, <4>3, <4>4 DEF Container
    <3>4. AllGuaranteed(new) => AllGuaranteed(spec)
      <4> SUFFICES ASSUME AllGuaranteed(new), NEW c \in Container, NEW r \in Resource
                   PROVE  spec[c][r].lim # 0 /\ spec[c][r].req = spec[c][r].lim
        BY DEF AllGuaranteed
      <4>1. CASE c = "app" /\ patch[r].lim # 0
        <5>1. new["app"][r].req = new["app"][r].lim
          BY <4>1, Names DEF AllGuaranteed
        <5>2. spec["app"][r].lim # 0
          BY <4>1 DEF patch
        <5> QED
          BY <1>6, <4>1, <5>1, <5>2
      <4>2. CASE c = "app" /\ patch[r].lim = 0
        BY <1>4, <4>2 DEF AllGuaranteed
      <4>3. CASE c = "sidecar"
        BY <1>5, <4>3 DEF AllGuaranteed
      <4> QED
        BY <4>1, <4>2, <4>3 DEF Container
    <3> QED
      BY <3>2, <3>3, <3>4, ClassIs
  <2> QED
    BY <2>1, <2>2
<1> QED
  BY <1>7, <1>8 DEF Refusals, new, patch

(* A raise whose request podbench derived from the LimitRanges it read is    *)
(* refused for a claim, or not at all.                                       *)
THEOREM PlannedRaiseIsAdmitted == Spec => []RaiseIsAdmitted
  BY InvHolds, InvAdmits, PTL

(* An amount whose request is its limit is within every ratio.               *)
LEMMA GuaranteedAmount ==
  ASSUME NEW amount \in Amount, NEW limit \in LimitRange, amount.req = amount.lim
  PROVE  Violations(amount, limit) \subseteq {"ceiling"}
<1>1. amount.lim \in Nat /\ limit.ratio \in Nat
  BY DEF Amount, LimitRange
<1>2. limit.ratio # 0 => amount.lim <= limit.ratio * amount.lim
  BY <1>1
<1>3. ~(limit.ratio # 0 /\ amount.lim > limit.ratio * amount.req) /\ ~(amount.req > amount.lim)
  BY <1>1, <1>2
<1> QED
  BY <1>3 DEF Violations

LEMMA GuaranteedClass ==
  ASSUME NEW p, QosClass(p) = "Guaranteed"
  PROVE  AllGuaranteed(p)
BY DEF QosClass, AllGuaranteed

(* The flags of a Guaranteed pod's advice, as a patch of that pod.           *)
LEMMA FlagsKeepTheClass ==
  ASSUME NEW p \in PodSpec, NEW patch \in Amounts, QosClass(p) = "Guaranteed",
         QosPreservingFlags(p["app"], patch) # Nothing, ranges \in Limits
  PROVE  Refusals(p, QosPreservingFlags(p["app"], patch)) \subseteq {"claims", "ceiling"}
<1> DEFINE flags == QosPreservingFlags(p["app"], patch)
           new   == Merged(p, flags)
<1>1. p["app"] \in Amounts
  BY Names DEF PodSpec
<1>2. flags \in Amounts /\ flags = [r \in Resource |-> [req |-> patch[r].lim, lim |-> patch[r].lim]]
  BY <1>1 DEF QosPreservingFlags, Amounts, Amount
<1>3. \A r \in Resource : flags[r].req = flags[r].lim
  BY <1>2
<1>4. new["app"] \in Amounts /\ new["sidecar"] = p["sidecar"]
  BY <1>2, MergedTypes, Names DEF PodSpec
<1>5. \A r \in Resource :
        /\ flags[r].lim = 0 => new["app"][r] = p["app"][r]
        /\ flags[r].lim # 0 => new["app"][r].lim = flags[r].lim /\ new["app"][r].req = flags[r].lim
  BY <1>2, <1>3, MergedFields
<1>6. AllGuaranteed(p)
  BY GuaranteedClass
<1> HIDE DEF flags, new
<1>7. \A r \in Resource : new["app"][r].lim # 0 /\ new["app"][r].req = new["app"][r].lim
  BY <1>5, <1>6, Names DEF AllGuaranteed
<1>8. AllGuaranteed(new)
  BY <1>4, <1>6, <1>7 DEF AllGuaranteed, Container
<1>9. QosClass(new) = QosClass(p)
  BY <1>7, <1>8, ClassIs, Names
<1>10. \A r \in Resource : Violations(new["app"][r], ranges[r]) \subseteq {"ceiling"}
  BY <1>4, <1>7, GuaranteedAmount DEF Amounts, Limits
<1> QED
  BY <1>9, <1>10 DEF Refusals, flags, new

(* Only its plan gives a run advice while it is about to plan.               *)
LEMMA OnlyThePlanAdvises ==
  ASSUME Inv, [Next]_vars, NEW u \in Users, pc[u] = "limits", report'[u].said = "advised"
  PROVE  Plan(u)
<1>1. TypeOK /\ report[u].said # "advised" /\ report \in [Users -> Report]
  BY DEF Inv, Sound, Unsaid, TypeOK
<1> SUFFICES ASSUME ~Plan(u) PROVE report'[u] = report[u]
  BY <1>1
<1>2. CASE UNCHANGED vars \/ Regenerated \/ Actuated
  BY <1>2 DEF vars, Regenerated, Actuated
<1>3. ASSUME NEW v \in Users \ {u},
             \/ Begin(v) \/ EditorMemory(v) \/ GetPod(v) \/ Plan(v)
             \/ PatchAccepted(v) \/ PatchRefused(v) \/ ReadFails(v) \/ OpenEditor(v)
      PROVE  report'[u] = report[u]
  <2>1. CASE Begin(v) \/ GetPod(v) \/ OpenEditor(v)
    BY <1>1, <1>3, <2>1 DEF Begin, GetPod, OpenEditor
  <2>2. CASE EditorMemory(v) \/ Plan(v) \/ PatchAccepted(v) \/ PatchRefused(v) \/ ReadFails(v)
    <3> DEFINE Says == \E words, flags : Say(v, words, flags)
    <3>1. EditorMemory(v) => Says
      BY DEF EditorMemory
    <3>2. Plan(v) => UNCHANGED report \/ Says
      BY DEF Plan
    <3>3. PatchAccepted(v) => Says
      BY DEF PatchAccepted
    <3>4. PatchRefused(v) => Says
      BY DEF PatchRefused
    <3>5. ReadFails(v) => Says
      BY DEF ReadFails
    <3>6. Says => report'[u] = report[u]
      BY <1>1, <1>3 DEF Say
    <3> QED
      BY <2>2, <3>1, <3>2, <3>3, <3>4, <3>5, <3>6
  <2> QED
    BY <1>3, <2>1, <2>2
<1>4. ASSUME \/ Begin(u) \/ EditorMemory(u) \/ GetPod(u)
             \/ PatchAccepted(u) \/ PatchRefused(u) \/ ReadFails(u) \/ OpenEditor(u)
      PROVE  FALSE
  BY <1>4 DEF Begin, EditorMemory, GetPod, PatchAccepted, PatchRefused, ReadFails, OpenEditor
<1> QED
  BY <1>2, <1>3, <1>4 DEF Next

LEMMA InvAdvises ==
  ASSUME Inv, [Next]_vars, NEW u \in Users, pc[u] = "limits", report'[u].said = "advised"
  PROVE  Refusals(run[u].doc, report'[u].flags) \subseteq {"claims", "ceiling"}
<1> DEFINE flags(readable) == QosPreservingFlags(run[u].doc["app"],
                                PlanResize(run[u].wants, run[u].doc["app"], NamespaceLimits(readable)))
<1>1. TypeOK /\ report[u].said # "advised" /\ ranges \in Limits
  BY TypesApart DEF Inv, Sound, Unsaid, ClusterTypes
<1>2. PICK readable \in BOOLEAN :
        \/ Say(u, "declined", Nothing)
        \/ /\ flags(readable) # Nothing /\ QosClass(run[u].doc) = "Guaranteed"
           /\ Say(u, "advised", flags(readable))
        \/ UNCHANGED report
  BY OnlyThePlanAdvises DEF Plan
<1>3. flags(readable) \in Amounts
  BY <1>1, RangesTypes, PlanningTypes, PlanTypes
<1>4. /\ flags(readable) # Nothing /\ QosClass(run[u].doc) = "Guaranteed"
      /\ Say(u, "advised", flags(readable))
  <2>1. ~Say(u, "declined", Nothing)
    BY <1>1, SayTypes, NothingTypes DEF Said
  <2> QED
    BY <1>1, <1>2, <2>1
<1>5. report'[u].flags = flags(readable)
  BY <1>1, <1>3, <1>4, SayTypes DEF Said
<1>6. /\ run[u].doc \in PodSpec
      /\ PlanResize(run[u].wants, run[u].doc["app"], NamespaceLimits(readable)) \in Amounts
  BY <1>1, RangesTypes, PlanningTypes
<1> QED
  BY <1>1, <1>4, <1>5, <1>6, FlagsKeepTheClass

(* The flags a Guaranteed pod's user is told to use keep its class and the   *)
(* ratio, whatever else they raised.                                         *)
THEOREM AdviceIsGood == Spec => AdviceWorks
<1> DEFINE Good(u) == (pc[u] = "limits" /\ report'[u].said = "advised")
                        => Refusals(run[u].doc, report'[u].flags) \subseteq {"claims", "ceiling"}
<1>1. Inv /\ [Next]_vars => [\A u \in Users : Good(u)]_vars
  BY InvAdvises
<1> QED
  BY <1>1, InvHolds, PTL DEF Spec, AdviceWorks

-----------------------------------------------------------------------------
(* `podbench vscode`: what a run says of the windows and the extensions.     *)

Extension == extensions_for(DOMAIN EXTENSIONS)

(* Where a run is before it is done with its settings, and from then on.     *)
Prepares == {"idle", "refused", "reach", "author", "settings", "truncate", "write"}
Installs == {"install", "open", "server", "through", "done", "failed"}

Local == [pc : Prepares \cup Installs, wanted : SUBSET Extension,
          interpreter : {NoPath, "/", "/home/podbench", HOTFIX_APP_PATH},
          read : SUBSET {"excludes", "interpreter", "declined", "theirs"},
          todo : SUBSET Extension, attempted : BOOLEAN, missing : SUBSET Extension,
          left : Nat, warned : BOOLEAN, named : SUBSET Extension,
          claimed : SUBSET Extension, told : BOOLEAN, landed : SUBSET Extension]

Home   == [file : SettingsFile, open : SUBSET Runs, exts : SUBSET Extension, server : BOOLEAN]
Window == [state : {"none", "asked", "open", "closed"}, knows : SUBSET Extension,
           queued : SUBSET Extension]
Disturbance == [after : SUBSET Runs, amid : SUBSET Runs]

EditorTypeOK ==
  /\ desk \in Desks
  /\ verb \in [Runs -> Local]
  /\ up \in BOOLEAN
  /\ home \in Home
  /\ window \in [Runs -> Window]
  /\ faults \in Nat
  /\ was \subseteq Extension
  /\ disturbed \in Disturbance

(* A run that still has its text to send has the empty file open that is at  *)
(* the path, unless somebody has changed it.                                 *)
Intact(r) == r \in disturbed.amid \/ (r \in home.open /\ home.file = File("text", {}))

(* Somebody has changed the settings behind this run's back. *)
Foreign(r) == r \in disturbed.after \cup disturbed.amid

(* A run that is done with its settings has seen to the excludes, unless     *)
(* somebody has changed the file; only such a run has a window.              *)
Covered(r) ==
  /\ verb[r].pc = "write" => Intact(r)
  /\ verb[r].pc \in Installs => Guarded(home.file) \/ verb[r].warned \/ Foreign(r)
  /\ window[r].state # "none" => verb[r].pc \in {"server", "through", "done"}

(* What is unpacked, and what was reported so, has been unpacked. *)
Unpacked == home.exts \subseteq was /\ \A r \in Runs : verb[r].claimed \subseteq was

(* What is wanted is still to do, missing, reported or named. *)
Accounted(local) ==
  /\ local.pc = "install" /\ ~local.attempted => local.wanted \subseteq local.todo \cup local.named
  /\ local.pc \in {"open", "server", "through"} =>
       local.wanted \subseteq local.claimed \cup local.named \cup local.missing
  /\ local.pc = "done" => local.wanted \subseteq local.claimed \cup local.named
  /\ local.pc \in {"server", "through"} => local.missing # {} /\ local.left > 0

(* What a run has unpacked itself is there, and has been told of as soon as  *)
(* its listing has shown it; what it unpacks through the seat was missing.   *)
Reloads(local, exts) ==
  /\ local.landed \subseteq local.wanted \cap exts
  /\ local.pc \in Prepares => local.landed = {}
  /\ local.pc \in Prepares \cup {"install"} => local.missing = {}
  /\ local.pc = "install" => /\ local.todo \subseteq local.wanted
                             /\ ~local.attempted => local.landed = {}
  /\ local.pc \in {"open", "server"} /\ local.missing # {} => local.landed = {} \/ local.told
  /\ local.pc \in {"open", "done"} => local.told \/ local.landed \subseteq local.named
  /\ local.pc \in {"open", "server", "through"} => local.missing \subseteq local.wanted
  /\ local.pc = "through" => /\ local.todo \subseteq local.missing
                             /\ local.landed \subseteq local.missing \/ local.told

EditorInv ==
  /\ EditorTypeOK
  /\ Unpacked
  /\ \A r \in Runs : Covered(r) /\ Accounted(verb[r]) /\ Reloads(verb[r], home.exts)

LEMMA ExtensionsAreFew == IsFiniteSet(Extension)
<1>1. Extension \subseteq {"ms-python.python", "ms-python.debugpy", "ms-vscode.cpptools",
                           "vadimcn.vscode-lldb", "golang.go"}
  BY DEF Extension, extensions_for, EXTENSIONS
<1>2. IsFiniteSet({"ms-python.python", "ms-python.debugpy", "ms-vscode.cpptools",
                   "vadimcn.vscode-lldb", "golang.go"})
  <2>1. IsFiniteSet({"golang.go"})
    BY FS_Singleton
  <2>2. IsFiniteSet({"golang.go"} \cup {"vadimcn.vscode-lldb"})
    BY <2>1, FS_AddElement
  <2>3. IsFiniteSet({"golang.go"} \cup {"vadimcn.vscode-lldb"} \cup {"ms-vscode.cpptools"})
    BY <2>2, FS_AddElement
  <2>4. IsFiniteSet({"golang.go"} \cup {"vadimcn.vscode-lldb"} \cup {"ms-vscode.cpptools"}
                    \cup {"ms-python.debugpy"})
    BY <2>3, FS_AddElement
  <2>5. IsFiniteSet({"golang.go"} \cup {"vadimcn.vscode-lldb"} \cup {"ms-vscode.cpptools"}
                    \cup {"ms-python.debugpy"} \cup {"ms-python.python"})
    BY <2>4, FS_AddElement
  <2>6. {"golang.go"} \cup {"vadimcn.vscode-lldb"} \cup {"ms-vscode.cpptools"}
          \cup {"ms-python.debugpy"} \cup {"ms-python.python"}
        = {"ms-python.python", "ms-python.debugpy", "ms-vscode.cpptools",
           "vadimcn.vscode-lldb", "golang.go"}
    OBVIOUS
  <2> QED
    BY <2>5, <2>6
<1> QED
  BY <1>1, <1>2, FS_Subset

LEMMA EditorInvInit == EditorInit => EditorInv
<1> SUFFICES ASSUME EditorInit
             PROVE  EditorInv
  OBVIOUS
<1>1. Blank \in Local
  BY DEF Blank, Local, Prepares
<1>2. desk.file \in SettingsFile /\ desk.faults \in Nat
  BY DesksAssumption DEF EditorInit
<1>3. EditorTypeOK
  BY <1>1, <1>2 DEF EditorInit, EditorTypeOK, Home, Window, Disturbance
<1>4. \A r \in Runs : verb[r] = Blank /\ window[r].state = "none"
  BY DEF EditorInit
<1>5. Unpacked
  BY <1>4 DEF Unpacked, EditorInit, Blank
<1>6. \A r \in Runs : Covered(r) /\ Accounted(verb[r]) /\ Reloads(verb[r], home.exts)
  BY <1>4 DEF Covered, Accounted, Reloads, Blank, Installs, Prepares
<1> QED
  BY <1>3, <1>5, <1>6 DEF EditorInv

(* A child's answer leaves the faults a number. *)
LEMMA Children ==
  ASSUME EditorInv
  PROVE  /\ ChildFails => faults' \in Nat
         /\ ChildWorks => faults' \in Nat
         /\ Interferes => faults' \in Nat
BY DEF EditorInv, EditorTypeOK, ChildFails, ChildWorks, Interferes

(* Nobody is forgotten who was disturbed, and no change of the file goes     *)
(* unnoticed; `others` are those it finds with their text still to send.     *)
Widens(file, others) ==
  /\ disturbed.after \subseteq disturbed'.after
  /\ disturbed.amid \subseteq disturbed'.amid
  /\ file = home.file \/ (Past \subseteq disturbed'.after /\ others \subseteq disturbed'.amid)

LEMMA TouchesWiden ==
  ASSUME EditorInv, NEW by, Touched(by)
  PROVE  disturbed' \in Disturbance /\ Widens(home'.file, Writing \ by)
BY DEF Touched, Past, Writing, Widens, Disturbance, EditorInv, EditorTypeOK

(* Those with their text still to send keep their file, or are disturbed.    *)
LEMMA WritersStay ==
  ASSUME EditorInv, NEW others, others \subseteq Writing, Widens(home'.file, others),
         home'.file # home.file \/ others \cap home.open \subseteq home'.open
  PROVE  \A s \in others : Intact(s)'
<1> SUFFICES ASSUME NEW s \in others
             PROVE  Intact(s)'
  OBVIOUS
<1>1. Intact(s)
  BY DEF Writing, EditorInv, Covered
<1> QED
  BY <1>1 DEF Intact, Widens

LEMMA FileStays ==
  ASSUME EditorInv, UNCHANGED disturbed, home'.file = home.file, home'.open = home.open
  PROVE  /\ disturbed' \in Disturbance
         /\ \A others : Widens(home'.file, others)
         /\ \A r \in Runs : Foreign(r) => Foreign(r)'
         /\ \A r \in Writing : Intact(r)'
BY DEF EditorInv, EditorTypeOK, Covered, Widens, Foreign, Intact, Writing

(* A run moves, and what it does to the home takes nothing from the others:  *)
(* nothing is removed from it, and whoever replaces the file disturbs them.  *)
LEMMA OneRunMoves ==
  ASSUME EditorInv, NEW r \in Runs, NEW local \in Local, Becomes(r, local),
         desk' = desk, up' = up, faults' \in Nat, home' \in Home, window' \in [Runs -> Window],
         was' \subseteq Extension, disturbed' \in Disturbance,
         home.exts \subseteq home'.exts, was \subseteq was', home'.exts \subseteq was',
         Widens(home'.file, Writing \ {r}),
         home.open \ {r} \subseteq home'.open, local.pc = "write" => Intact(r)',
         \A s \in Runs : s # r => window'[s] = window[s],
         local.pc \in Installs => Guarded(home'.file) \/ local.warned \/ Foreign(r)',
         window'[r].state # "none" => local.pc \in {"server", "through", "done"},
         local.claimed \subseteq was', Accounted(local), Reloads(local, home'.exts)
  PROVE  EditorInv'
<1> USE DEF EditorInv
<1>1. verb' = [verb EXCEPT ![r] = local] /\ verb \in [Runs -> Local]
  BY DEF Becomes, EditorTypeOK
<1>2. verb'[r] = local /\ \A s \in Runs : s # r => verb'[s] = verb[s]
  BY <1>1
<1>3. EditorTypeOK'
  BY <1>1 DEF EditorTypeOK
<1>4. Unpacked'
  BY <1>2 DEF Unpacked
<1>6. \A s \in Writing \ {r} : Intact(s)'
  BY WritersStay
<1>5. ASSUME NEW s \in Runs
      PROVE  Covered(s)' /\ Accounted(verb[s])' /\ Reloads(verb[s], home.exts)'
  <2>1. CASE s = r
    <3>1. Accounted(verb[s])' /\ Reloads(verb[s], home.exts)'
      BY <1>2, <2>1 DEF Accounted, Reloads
    <3>2. Covered(s)'
      BY <1>2, <2>1 DEF Covered
    <3> QED
      BY <3>1, <3>2
  <2>2. CASE s # r
    <3>1. verb'[s] = verb[s] /\ window'[s] = window[s]
      BY <1>2, <2>2
    <3>2. verb[s].pc \in Installs => s \in Past
      BY DEF Past, Installs
    <3>5. verb[s].pc = "write" => Intact(s)'
      BY <1>6, <2>2 DEF Writing
    <3>3. Covered(s)'
      BY <3>1, <3>2, <3>5 DEF Covered, Widens, Foreign
    <3>4. Accounted(verb[s])' /\ Reloads(verb[s], home.exts)'
      BY <3>1 DEF Accounted, Reloads
    <3> QED
      BY <3>3, <3>4
  <2> QED
    BY <2>1, <2>2
<1> QED
  BY <1>3, <1>4, <1>5

(* ... and does nothing to the home, nor asks for a window. *)
LEMMA OneRunReads ==
  ASSUME EditorInv, NEW r \in Runs, NEW local \in Local, Becomes(r, local), faults' \in Nat,
         UNCHANGED <<desk, up, home, window, was, disturbed>>,
         local.pc \in Installs => Guarded(home.file) \/ local.warned \/ Foreign(r),
         window[r].state # "none" => local.pc \in {"server", "through", "done"}, local.pc # "write",
         local.claimed \subseteq was, Accounted(local), Reloads(local, home.exts)
  PROVE  EditorInv'
<1>1. Widens(home'.file, Writing \ {r}) /\ (Foreign(r) => Foreign(r)')
  BY DEF Widens, Foreign
<1> QED
  BY <1>1, OneRunMoves DEF EditorInv, EditorTypeOK, Unpacked

(* A run before its window has none. *)
LEMMA NoWindowYet ==
  ASSUME EditorInv, NEW r \in Runs, verb[r].pc \notin {"server", "through", "done"}
  PROVE  window[r].state = "none"
BY DEF EditorInv, Covered

(* What a run that is still preparing holds. *)
LEMMA Preparing ==
  ASSUME EditorInv, NEW r \in Runs, NEW local \in Local, verb[r].pc \in Prepares, local.pc \in Prepares,
         local.landed = verb[r].landed, local.missing = verb[r].missing,
         local.claimed = verb[r].claimed
  PROVE  /\ Accounted(local) /\ Reloads(local, home.exts)
         /\ local.claimed \subseteq was
BY DEF EditorInv, Accounted, Reloads, Prepares, Unpacked

LEMMA CommandKeeps ==
  ASSUME EditorInv, NEW r \in Runs, vscode_command(r)
  PROVE  EditorInv'
<1>1. PICK next \in {"reach", "refused"} : Becomes(r, [verb[r] EXCEPT !.pc = next])
  BY DEF vscode_command, Goes
<1> DEFINE local == [verb[r] EXCEPT !.pc = next]
<1>2. verb[r] \in Local /\ verb[r].pc = "idle"
  BY DEF EditorInv, EditorTypeOK, vscode_command
<1>3. /\ local \in Local /\ local.pc = next /\ local.landed = verb[r].landed
      /\ local.missing = verb[r].missing /\ local.claimed = verb[r].claimed
  BY <1>2 DEF Local, Prepares
<1>4. window[r].state = "none"
  BY <1>2, NoWindowYet
<1>5. Accounted(local) /\ Reloads(local, home.exts) /\ local.claimed \subseteq was
  BY <1>2, <1>3, Preparing DEF Prepares
<1>6. faults' \in Nat /\ UNCHANGED <<desk, up, home, window, was, disturbed>>
  BY DEF vscode_command, EditorInv, EditorTypeOK
<1>7. local.pc \notin Installs
  BY <1>3 DEF Installs
<1> HIDE DEF local
<1> QED
  BY <1>1, <1>3, <1>4, <1>5, <1>6, <1>7, OneRunReads DEF local

LEMMA ReachKeeps ==
  ASSUME EditorInv, NEW r \in Runs, check_reachable(r)
  PROVE  EditorInv'
<1>1. PICK next \in {"author", "refused"} : Becomes(r, [verb[r] EXCEPT !.pc = next])
  BY DEF check_reachable, Goes
<1> DEFINE local == [verb[r] EXCEPT !.pc = next]
<1>2. verb[r] \in Local /\ verb[r].pc = "reach"
  BY DEF EditorInv, EditorTypeOK, check_reachable
<1>3. /\ local \in Local /\ local.pc = next /\ local.landed = verb[r].landed
      /\ local.missing = verb[r].missing /\ local.claimed = verb[r].claimed
  BY <1>2 DEF Local, Prepares
<1>4. window[r].state = "none"
  BY <1>2, NoWindowYet
<1>5. Accounted(local) /\ Reloads(local, home.exts) /\ local.claimed \subseteq was
  BY <1>2, <1>3, Preparing DEF Prepares
<1>6. faults' \in Nat /\ UNCHANGED <<desk, up, home, window, was, disturbed>>
  BY Children DEF check_reachable
<1>7. local.pc \notin Installs
  BY <1>3 DEF Installs
<1> HIDE DEF local
<1> QED
  BY <1>1, <1>3, <1>4, <1>5, <1>6, <1>7, OneRunReads DEF local

LEMMA AuthorKeeps ==
  ASSUME EditorInv, NEW r \in Runs, _author(r)
  PROVE  EditorInv'
<1> DEFINE paths == {NoPath, "/", "/home/podbench", HOTFIX_APP_PATH}
<1>1. verb[r] \in Local /\ verb[r].pc = "author"
  BY DEF EditorInv, EditorTypeOK, _author
<1>2. interpreter_for_folder(desk.narrates) \in paths
  BY DEF interpreter_for_folder, editor_folder, seat_home
<1>3. extensions_for(Assessed) \in SUBSET Extension
  BY DesksAssumption DEF EditorInv, EditorTypeOK, Assessed, Extension, extensions_for
<1> DEFINE after(f, w) == [verb[r] EXCEPT !.pc = "settings", !.interpreter = f, !.wanted = w]
           narrated    == interpreter_for_folder(desk.narrates)
<1>a. \/ Becomes(r, after(narrated, extensions_for(Assessed)))
      \/ \E f \in {NoPath, narrated} : Becomes(r, after(f, verb[r].wanted))
  <2>1. \/ Becomes(r, [verb[r] EXCEPT !.pc = "settings", !.interpreter = narrated,
                                      !.wanted = extensions_for(Assessed)])
        \/ \E f \in {NoPath, narrated} :
             Becomes(r, [verb[r] EXCEPT !.pc = "settings", !.interpreter = f])
    BY Zenon DEF _author
  <2>2. CASE \E f \in {NoPath, narrated} :
               Becomes(r, [verb[r] EXCEPT !.pc = "settings", !.interpreter = f])
    <3>1. PICK f \in {NoPath, narrated} :
            Becomes(r, [verb[r] EXCEPT !.pc = "settings", !.interpreter = f])
      BY <2>2
    <3>2. [verb[r] EXCEPT !.pc = "settings", !.interpreter = f] = after(f, verb[r].wanted)
      BY <1>1 DEF Local
    <3>3. Becomes(r, after(f, verb[r].wanted))
      <4> HIDE DEF after
      <4> QED
        BY <3>1, <3>2
    <3> QED
      BY <3>3
  <2> QED
    BY <2>1, <2>2
<1>b. verb[r].wanted \in SUBSET Extension
  BY <1>1 DEF Local
<1>4. PICK found \in paths, wanted \in SUBSET Extension : Becomes(r, after(found, wanted))
  <2> HIDE DEF after
  <2> QED
    BY <1>a, <1>b, <1>2, <1>3
<1> DEFINE local == after(found, wanted)
<1>5. /\ local \in Local /\ local.pc = "settings" /\ local.landed = verb[r].landed
      /\ local.missing = verb[r].missing /\ local.claimed = verb[r].claimed
  BY <1>1 DEF Local, Prepares
<1>6. window[r].state = "none"
  BY <1>1, NoWindowYet
<1>7. Accounted(local) /\ Reloads(local, home.exts) /\ local.claimed \subseteq was
  BY <1>1, <1>5, Preparing DEF Prepares
<1>8. faults' \in Nat /\ UNCHANGED <<desk, up, home, window, was, disturbed>>
  BY Children DEF _author
<1>9. local.pc \notin Installs
  BY <1>5 DEF Installs
<1> HIDE DEF local
<1> QED
  BY <1>4, <1>5, <1>6, <1>7, <1>8, <1>9, OneRunReads DEF local

(* A run that is done with its settings, having written them or warned,      *)
(* still has all it wants to do.                                             *)
LEMMA SettingsSettle ==
  ASSUME EditorInv, NEW r \in Runs, verb[r].pc \in {"settings", "truncate", "write"}, NEW exts,
         NEW local \in {SettingsDone(verb[r]), SettingsWarned(verb[r])}
  PROVE  /\ local \in Local /\ local.pc = "install" /\ local.claimed \subseteq was
         /\ Accounted(local) /\ Reloads(local, exts)
         /\ local = SettingsWarned(verb[r]) => local.warned
<1>1. verb[r] \in Local /\ verb[r].landed = {} /\ verb[r].missing = {} /\ verb[r].claimed \subseteq was
  BY DEF EditorInv, EditorTypeOK, Reloads, Prepares, Unpacked
<1>2. /\ local \in Local /\ local.pc = "install" /\ local.todo = local.wanted
      /\ local.landed = {} /\ local.missing = {} /\ local.claimed = verb[r].claimed
      /\ local = SettingsWarned(verb[r]) => local.warned
  <2>1. LET done == SettingsDone(verb[r]) IN
        /\ done \in Local /\ done.pc = "install" /\ done.todo = done.wanted
        /\ done.landed = {} /\ done.missing = {} /\ done.claimed = verb[r].claimed
    BY <1>1 DEF SettingsDone, Local, Installs
  <2>2. LET warned == SettingsWarned(verb[r]) IN
        /\ warned \in Local /\ warned.pc = "install" /\ warned.todo = warned.wanted
        /\ warned.landed = {} /\ warned.missing = {} /\ warned.claimed = verb[r].claimed
        /\ warned.warned
    BY <2>1 DEF SettingsWarned, Local
  <2> QED
    BY <2>1, <2>2
<1> QED
  BY <1>1, <1>2 DEF Accounted, Reloads, Prepares

(* What a merge writes, and what it would not change, has the excludes or    *)
(* the user's refusal of them.                                               *)
LEMMA MergesAreGuarded ==
  ASSUME NEW keys, NEW interpreter
  PROVE  Guarded(File("text", merge_machine_settings(keys, interpreter)))
BY DEF Guarded, File, merge_machine_settings, Additions

LEMMA UnchangedIsGuarded ==
  ASSUME NEW file, NEW interpreter, Unchanged(file, interpreter)
  PROVE  Guarded(file)
BY DEF Guarded, Unchanged, Additions

LEMMA ReadKeeps ==
  ASSUME EditorInv, NEW r \in Runs, ReadSettings(r)
  PROVE  EditorInv'
<1>1. verb[r] \in Local /\ verb[r].pc = "settings" /\ home.file \in SettingsFile
  BY DEF EditorInv, EditorTypeOK, Home, ReadSettings
<1>2. window[r].state = "none"
  BY <1>1, NoWindowYet
<1>3. faults' \in Nat /\ UNCHANGED <<desk, up, home, window, was, disturbed>>
  BY Children DEF ReadSettings
<1> DEFINE reading == [verb[r] EXCEPT !.pc = "truncate", !.read = home.file.keys]
<1>4. \/ Becomes(r, SettingsWarned(verb[r]))
      \/ Becomes(r, SettingsDone(verb[r])) /\ Unchanged(home.file, verb[r].interpreter)
      \/ Becomes(r, reading)
  <2>1. CASE ChildFails /\ Becomes(r, SettingsWarned(verb[r]))
    BY <2>1
  <2>2. CASE Becomes(r, CASE home.file.kind \in {"barred", "junk"} -> SettingsWarned(verb[r])
                           [] Unchanged(home.file, verb[r].interpreter) -> SettingsDone(verb[r])
                           [] OTHER -> reading)
    <3>1. CASE home.file.kind \in {"barred", "junk"}
      <4>1. ~Unchanged(home.file, verb[r].interpreter)
        BY <3>1 DEF Unchanged
      <4> HIDE DEF reading
      <4> QED
        BY <2>2, <3>1, <4>1
    <3>2. CASE home.file.kind \notin {"barred", "junk"}
      <4> HIDE DEF reading
      <4> QED
        BY <2>2, <3>2
    <3> QED
      BY <3>1, <3>2
  <2> QED
    BY <2>1, <2>2 DEF ReadSettings
<1>5. CASE Becomes(r, SettingsWarned(verb[r]))
  BY <1>1, <1>2, <1>3, <1>5, SettingsSettle, OneRunReads
<1>6. CASE Becomes(r, SettingsDone(verb[r])) /\ Unchanged(home.file, verb[r].interpreter)
  BY <1>1, <1>2, <1>3, <1>6, SettingsSettle, OneRunReads, UnchangedIsGuarded
<1>7. CASE Becomes(r, reading)
  <2>1. /\ reading \in Local /\ reading.pc = "truncate" /\ reading.landed = verb[r].landed
        /\ reading.missing = verb[r].missing /\ reading.claimed = verb[r].claimed
    BY <1>1 DEF Local, Prepares, SettingsFile
  <2>2. Accounted(reading) /\ Reloads(reading, home.exts) /\ reading.claimed \subseteq was
    BY <1>1, <2>1, Preparing DEF Prepares
  <2>3. reading.pc \notin Installs
    BY <2>1 DEF Installs
  <2> HIDE DEF reading
  <2> QED
    BY <1>2, <1>3, <1>7, <2>1, <2>2, <2>3, OneRunReads
<1> QED
  BY <1>4, <1>5, <1>6, <1>7

LEMMA TruncateKeeps ==
  ASSUME EditorInv, NEW r \in Runs, Truncate(r)
  PROVE  EditorInv'
<1>1. verb[r] \in Local /\ verb[r].pc = "truncate"
  BY DEF EditorInv, EditorTypeOK, Truncate
<1>2. window[r].state = "none"
  BY <1>1, NoWindowYet
<1>3. faults' \in Nat /\ UNCHANGED <<desk, up, window, was>>
  BY Children DEF Truncate
<1>4. CASE Becomes(r, SettingsWarned(verb[r])) /\ UNCHANGED <<home, disturbed>>
  BY <1>1, <1>2, <1>3, <1>4, SettingsSettle, OneRunReads
<1>5. CASE /\ Goes(r, "write") /\ Touched({r})
           /\ home' = [home EXCEPT !.file = File("text", {}), !.open = @ \cup {r}]
  <2> DEFINE local == [verb[r] EXCEPT !.pc = "write"]
  <2>1. /\ local \in Local /\ local.pc = "write" /\ local.landed = verb[r].landed
        /\ local.missing = verb[r].missing /\ local.claimed = verb[r].claimed
    BY <1>1 DEF Local, Prepares
  <2>2. Accounted(local) /\ Reloads(local, home.exts) /\ local.claimed \subseteq was
    BY <1>1, <2>1, Preparing DEF Prepares
  <2>3. local.pc \notin Installs /\ Becomes(r, local)
    BY <1>5, <2>1 DEF Installs, Goes
  <2>4. /\ home' \in Home /\ home'.exts = home.exts /\ home'.open = home.open \cup {r}
        /\ home'.file = File("text", {})
    BY <1>5 DEF EditorInv, EditorTypeOK, Home, SettingsFile, File
  <2>5. disturbed' \in Disturbance /\ Widens(home'.file, Writing \ {r})
    BY <1>5, TouchesWiden
  <2>6. Intact(r)'
    BY <2>4 DEF Intact
  <2> HIDE DEF local
  <2> QED
    BY <1>2, <1>3, <2>1, <2>2, <2>3, <2>4, <2>5, <2>6, OneRunMoves DEF EditorInv, EditorTypeOK, Unpacked
<1> QED
  BY <1>4, <1>5 DEF Truncate

LEMMA WriteKeeps ==
  ASSUME EditorInv, NEW r \in Runs, WriteSettings(r)
  PROVE  EditorInv'
<1>1. verb[r] \in Local /\ verb[r].pc = "write"
  BY DEF EditorInv, EditorTypeOK, WriteSettings
<1>2. window[r].state = "none"
  BY <1>1, NoWindowYet
<1>3. faults' \in Nat /\ UNCHANGED <<desk, up, window, was>>
  BY Children DEF WriteSettings
<1> DEFINE keys == merge_machine_settings(verb[r].read, verb[r].interpreter)
<1>4. ASSUME NEW files \in SUBSET SettingsFile, Lands(r, files)
      PROVE  /\ home' \in Home /\ home'.exts = home.exts /\ home.open \ {r} \subseteq home'.open
             /\ disturbed' \in Disturbance /\ Widens(home'.file, Writing \ {r})
             /\ r \in home.open => home'.file \in files
  <2>1. home \in Home
    BY DEF EditorInv, EditorTypeOK
  <2>4. r \notin home.open => {home.file} \subseteq SettingsFile
    BY <2>1 DEF Home
  <2>2. PICK file \in SettingsFile :
          /\ home' = [home EXCEPT !.file = file, !.open = @ \ {r}]
          /\ r \in home.open => file \in files
    BY <1>4, <2>4 DEF Lands
  <2>3. disturbed' \in Disturbance /\ Widens(home'.file, Writing \ {r})
    BY <1>4, TouchesWiden DEF Lands
  <2> QED
    BY <2>1, <2>2, <2>3 DEF Home
<1>5. Overlay(keys) \in SUBSET SettingsFile
  <2>1. keys \subseteq {"excludes", "interpreter", "declined", "theirs"}
    BY <1>1 DEF Local, merge_machine_settings, Additions
  <2> QED
    BY <2>1 DEF Overlay, Mixed, File, SettingsFile
<1>10. {home.file, Mixed} \in SUBSET SettingsFile
  BY DEF Mixed, File, SettingsFile, EditorInv, EditorTypeOK, Home
<1>11. Arrives(r) => Guarded(home'.file) \/ Foreign(r)'
  <2>1. SUFFICES ASSUME Arrives(r), r \notin disturbed.amid
                 PROVE  Guarded(home'.file)
    BY <1>4, <1>5 DEF Arrives, Foreign, Widens
  <2>2. r \in home.open /\ home.file = File("text", {})
    BY <1>1, <2>1 DEF EditorInv, Covered, Intact
  <2>3. home'.file = File("text", keys)
    BY <1>4, <1>5, <2>1, <2>2 DEF Arrives, Overlay
  <2> QED
    BY <2>3, MergesAreGuarded
<1>6. /\ home' \in Home /\ home'.exts = home.exts /\ home.open \ {r} \subseteq home'.open
      /\ disturbed' \in Disturbance /\ Widens(home'.file, Writing \ {r})
  <2>1. CASE Arrives(r)
    BY <1>4, <1>5, <2>1 DEF Arrives
  <2>2. CASE Breaks(r)
    BY <1>4, <1>10, <2>2 DEF Breaks
  <2> QED
    BY <2>1, <2>2 DEF WriteSettings
<1>7. \E local \in {SettingsDone(verb[r]), SettingsWarned(verb[r])} :
        Becomes(r, local) /\ (Guarded(home'.file) \/ Foreign(r)' \/ local = SettingsWarned(verb[r]))
  BY <1>11 DEF WriteSettings
<1>8. PICK local \in {SettingsDone(verb[r]), SettingsWarned(verb[r])} :
        Becomes(r, local) /\ (Guarded(home'.file) \/ Foreign(r)' \/ local = SettingsWarned(verb[r]))
  BY <1>7
<1>9. /\ local \in Local /\ local.pc = "install" /\ local.claimed \subseteq was
      /\ Accounted(local) /\ Reloads(local, home'.exts)
      /\ local = SettingsWarned(verb[r]) => local.warned
  BY <1>1, SettingsSettle
<1> QED
  BY <1>2, <1>3, <1>6, <1>8, <1>9, OneRunMoves DEF EditorInv, EditorTypeOK, Unpacked

(* A run stays as covered as it was. *)
LEMMA StaysCovered ==
  ASSUME EditorInv, NEW r \in Runs, verb[r].pc \in Installs
  PROVE  Guarded(home.file) \/ verb[r].warned \/ Foreign(r)
BY DEF EditorInv, Covered

LEMMA InstallLocallyKeeps ==
  ASSUME EditorInv, NEW r \in Runs, NEW e, InstallLocally(r, e)
  PROVE  EditorInv'
<1>1. /\ verb[r] \in Local /\ verb[r].pc = "install" /\ e \in verb[r].todo /\ e \in verb[r].wanted
      /\ e \in Extension /\ verb[r].todo \subseteq verb[r].wanted /\ verb[r].missing = {}
      /\ verb[r].claimed \subseteq was /\ verb[r].landed \subseteq verb[r].wanted \cap home.exts
      /\ verb[r].wanted \subseteq Extension
  <2>1. verb[r] \in Local /\ verb[r].pc = "install" /\ e \in verb[r].todo
    BY DEF EditorInv, EditorTypeOK, InstallLocally
  <2>2. Reloads(verb[r], home.exts) /\ verb[r].claimed \subseteq was
    BY DEF EditorInv, Unpacked
  <2> QED
    BY <2>1, <2>2 DEF Local, Reloads
<1>2. ~verb[r].attempted => verb[r].wanted \subseteq verb[r].todo \cup verb[r].named /\ verb[r].landed = {}
  BY <1>1 DEF EditorInv, Accounted, Reloads
<1>3. window[r].state = "none" /\ window[r] \in Window /\ window \in [Runs -> Window]
  BY <1>1, NoWindowYet DEF EditorInv, EditorTypeOK
<1>4. Guarded(home.file) \/ verb[r].warned \/ Foreign(r)
  BY <1>1, StaysCovered DEF Installs
<1>5. faults' \in Nat /\ UNCHANGED <<desk, up, disturbed>>
  BY Children DEF InstallLocally, EditorInv, EditorTypeOK
<1>6. home \in Home /\ was \subseteq Extension /\ home.exts \subseteq was /\ disturbed \in Disturbance
  BY DEF EditorInv, EditorTypeOK, Unpacked
<1> DEFINE local  == [verb[r] EXCEPT !.todo = @ \ {e}]
           named  == [local EXCEPT !.named = @ \cup {e}]
           worked == [local EXCEPT !.attempted = TRUE]
           landed == [worked EXCEPT !.landed = Landing(local, e)]
<1>7. \/ Becomes(r, named) /\ UNCHANGED <<home, was, window>>
      \/ Becomes(r, worked) /\ UNCHANGED <<home, was>>
           /\ (UNCHANGED window \/ window' = [window EXCEPT ![r].queued = @ \cup {e}])
      \/ Becomes(r, landed) /\ Unpacks(e) /\ UNCHANGED window
  BY Zenon DEF InstallLocally
<1>8. CASE Becomes(r, named) /\ UNCHANGED <<home, was, window>>
  <2>1. /\ named \in Local /\ named.pc = "install" /\ named.todo = verb[r].todo \ {e}
        /\ named.named = verb[r].named \cup {e} /\ named.wanted = verb[r].wanted
        /\ named.attempted = verb[r].attempted /\ named.missing = {}
        /\ named.landed = verb[r].landed /\ named.claimed = verb[r].claimed
        /\ named.warned = verb[r].warned
    BY <1>1 DEF Local
  <2>2. Accounted(named) /\ Reloads(named, home.exts)
    BY <1>1, <1>2, <2>1 DEF Accounted, Reloads, Prepares
  <2> HIDE DEF named
  <2> QED
    BY <1>1, <1>3, <1>4, <1>5, <1>8, <2>1, <2>2, OneRunReads
<1>9. CASE /\ Becomes(r, worked) /\ UNCHANGED <<home, was>>
           /\ UNCHANGED window \/ window' = [window EXCEPT ![r].queued = @ \cup {e}]
  <2>1. /\ worked \in Local /\ worked.pc = "install" /\ worked.todo = verb[r].todo \ {e}
        /\ worked.wanted = verb[r].wanted /\ worked.attempted /\ worked.missing = {}
        /\ worked.landed = verb[r].landed /\ worked.claimed = verb[r].claimed
        /\ worked.warned = verb[r].warned
    BY <1>1 DEF Local
  <2>2. Accounted(worked) /\ Reloads(worked, home.exts)
    BY <1>1, <2>1 DEF Accounted, Reloads, Prepares
  <2>3. /\ window' \in [Runs -> Window] /\ window'[r].state = "none"
        /\ \A s \in Runs : s # r => window'[s] = window[s]
    BY <1>1, <1>3, <1>9 DEF Window
  <2> HIDE DEF worked
  <2> QED
    BY <1>1, <1>4, <1>5, <1>6, <1>9, <2>1, <2>2, <2>3, FileStays, OneRunMoves
<1>10. CASE Becomes(r, landed) /\ Unpacks(e) /\ UNCHANGED window
  <2>1. /\ home' \in Home /\ home'.exts = home.exts \cup {e} /\ home'.file = home.file /\ home'.open = home.open
        /\ was' = was \cup {e}
    BY <1>1, <1>6, <1>10 DEF Unpacks, Home
  <2>2. local \in Local /\ local.landed = verb[r].landed
    BY <1>1 DEF Local
  <2>3. Landing(local, e) \subseteq verb[r].wanted \cap home'.exts
    BY <1>1, <2>1, <2>2 DEF Landing
  <2>4. /\ landed \in Local /\ landed.pc = "install" /\ landed.todo = verb[r].todo \ {e}
        /\ landed.wanted = verb[r].wanted /\ landed.attempted /\ landed.missing = {}
        /\ landed.landed = Landing(local, e) /\ landed.claimed = verb[r].claimed
        /\ landed.warned = verb[r].warned
    BY <1>1, <2>2, <2>3 DEF Local
  <2>5. Accounted(landed) /\ Reloads(landed, home'.exts)
    BY <1>1, <2>3, <2>4 DEF Accounted, Reloads, Prepares
  <2> HIDE DEF landed
  <2> QED
    BY <1>1, <1>3, <1>4, <1>5, <1>6, <1>10, <2>1, <2>4, <2>5, FileStays, OneRunMoves
<1> QED
  BY <1>7, <1>8, <1>9, <1>10

(* The listing of the seat shows whatever this run unpacked. *)
LEMMA VerifyKeeps ==
  ASSUME EditorInv, NEW r \in Runs, Verify(r)
  PROVE  EditorInv'
<1>1. /\ verb[r] \in Local /\ verb[r].pc = "install" /\ verb[r].todo = {} /\ verb[r].missing = {}
      /\ verb[r].claimed \subseteq was /\ verb[r].landed \subseteq verb[r].wanted \cap home.exts
  <2>1. verb[r] \in Local /\ verb[r].pc = "install" /\ verb[r].todo = {}
    BY DEF EditorInv, EditorTypeOK, Verify
  <2>2. Reloads(verb[r], home.exts) /\ verb[r].claimed \subseteq was
    BY DEF EditorInv, Unpacked
  <2> QED
    BY <2>1, <2>2 DEF Reloads
<1>2. ~verb[r].attempted => verb[r].wanted \subseteq verb[r].named /\ verb[r].landed = {}
  BY <1>1 DEF EditorInv, Accounted, Reloads
<1>3. window[r].state = "none"
  BY <1>1, NoWindowYet
<1>4. Guarded(home.file) \/ verb[r].warned \/ Foreign(r)
  BY <1>1, StaysCovered DEF Installs
<1>5. faults' \in Nat /\ UNCHANGED <<desk, up, home, window, was, disturbed>>
  BY Children DEF Verify, EditorInv, EditorTypeOK
<1>6. home \in Home /\ home.exts \subseteq was
  BY DEF EditorInv, EditorTypeOK, Unpacked
<1> DEFINE local == [verb[r] EXCEPT !.pc = "open"]
           shown == Verified(local, local.wanted)
           blind == Unverified(local, local.wanted)
<1>7. /\ local \in Local /\ local.pc = "open" /\ local.wanted = verb[r].wanted
      /\ local.named = verb[r].named /\ local.claimed = verb[r].claimed /\ local.told = verb[r].told
      /\ local.landed = verb[r].landed /\ local.missing = {} /\ local.warned = verb[r].warned
  BY <1>1 DEF Local, Installs
<1>8. \/ Becomes(r, local) /\ ~verb[r].attempted
      \/ Becomes(r, shown)
      \/ Becomes(r, blind)
  <2>1. local.attempted = verb[r].attempted
    BY <1>1 DEF Local
  <2> QED
    BY <2>1, Zenon DEF Verify
<1> HIDE DEF local
<1>9. CASE Becomes(r, local) /\ ~verb[r].attempted
  <2>1. Accounted(local) /\ Reloads(local, home.exts)
    BY <1>2, <1>7, <1>9 DEF Accounted, Reloads, Prepares
  <2> QED
    BY <1>1, <1>3, <1>4, <1>5, <1>7, <1>9, <2>1, OneRunReads
<1>10. CASE Becomes(r, shown)
  <2>1. local.wanted \cap home.exts \subseteq Extension /\ local.wanted \ home.exts \subseteq Extension
    BY <1>7 DEF Local
  <2>2. /\ shown \in Local /\ shown.pc = "open" /\ shown.wanted = verb[r].wanted
        /\ shown.claimed = verb[r].claimed \cup (verb[r].wanted \cap home.exts)
        /\ shown.missing = verb[r].wanted \ home.exts /\ shown.landed = verb[r].landed
        /\ verb[r].wanted \cap home.exts # {} => shown.told
        /\ shown.warned = verb[r].warned
    BY <1>7, <2>1 DEF Verified, unpacked_extensions, Local
  <2>3. Accounted(shown) /\ Reloads(shown, home.exts) /\ shown.claimed \subseteq was
    BY <1>1, <1>6, <2>2 DEF Accounted, Reloads, Prepares
  <2> HIDE DEF shown
  <2> QED
    BY <1>1, <1>3, <1>4, <1>5, <1>10, <2>2, <2>3, OneRunReads
<1>11. CASE Becomes(r, blind)
  <2>1. /\ blind \in Local /\ blind.pc = "open" /\ blind.wanted = verb[r].wanted
        /\ blind.named = verb[r].named \cup verb[r].wanted /\ blind.claimed = verb[r].claimed
        /\ blind.missing = {} /\ blind.landed = verb[r].landed /\ blind.warned = verb[r].warned
    BY <1>7 DEF Unverified, Local
  <2>2. Accounted(blind) /\ Reloads(blind, home.exts) /\ blind.claimed \subseteq was
    BY <1>1, <2>1 DEF Accounted, Reloads, Prepares
  <2> HIDE DEF blind
  <2> QED
    BY <1>1, <1>3, <1>4, <1>5, <1>11, <2>1, <2>2, OneRunReads
<1> QED
  BY <1>8, <1>9, <1>10, <1>11

LEMMA OpenKeeps ==
  ASSUME EditorInv, NEW r \in Runs, OpenWindow(r)
  PROVE  EditorInv'
<1>1. verb[r] \in Local /\ verb[r].pc = "open"
  BY DEF EditorInv, EditorTypeOK, OpenWindow
<1>2. Accounted(verb[r]) /\ Reloads(verb[r], home.exts) /\ verb[r].claimed \subseteq was
  BY DEF EditorInv, Unpacked
<1>3. window[r].state = "none" /\ window \in [Runs -> Window]
  BY <1>1, NoWindowYet DEF EditorInv, EditorTypeOK
<1>4. Guarded(home.file) \/ verb[r].warned \/ Foreign(r)
  BY <1>1, StaysCovered DEF Installs
<1>5. faults' \in Nat /\ UNCHANGED <<desk, up, home, was, disturbed>>
  BY DEF OpenWindow, EditorInv, EditorTypeOK
<1>6. home \in Home /\ was \subseteq Extension /\ home.exts \subseteq was /\ disturbed \in Disturbance
  BY DEF EditorInv, EditorTypeOK, Unpacked
<1> DEFINE next   == IF verb[r].missing = {} THEN "done" ELSE "server"
           asked  == [verb[r] EXCEPT !.pc = next, !.left = Attempts]
           failed == [verb[r] EXCEPT !.pc = "failed"]
<1>7. CASE Becomes(r, asked) /\ window' = [window EXCEPT ![r].state = "asked"]
  <2>1. /\ asked \in Local /\ asked.pc = next /\ asked.wanted = verb[r].wanted
        /\ asked.named = verb[r].named /\ asked.claimed = verb[r].claimed /\ asked.told = verb[r].told
        /\ asked.landed = verb[r].landed /\ asked.missing = verb[r].missing
        /\ asked.warned = verb[r].warned /\ asked.left > 0
    <3>1. next \in Installs /\ Attempts \in Nat /\ Attempts > 0
      BY AttemptsAssumption DEF Installs
    <3> HIDE DEF next
    <3> QED
      BY <1>1, <3>1 DEF Local
  <2>2. Accounted(asked) /\ Reloads(asked, home.exts)
    BY <1>1, <1>2, <2>1 DEF Accounted, Reloads, Prepares
  <2>3. /\ window' \in [Runs -> Window]
        /\ \A s \in Runs : s # r => window'[s] = window[s]
    BY <1>3, <1>7 DEF Window
  <2>4. asked.pc \in {"server", "done"}
    BY <2>1
  <2> HIDE DEF asked
  <2> QED
    BY <1>2, <1>4, <1>5, <1>6, <1>7, <2>1, <2>2, <2>3, <2>4, FileStays, OneRunMoves
<1>8. CASE Becomes(r, failed) /\ UNCHANGED window
  <2>1. /\ failed \in Local /\ failed.pc = "failed" /\ failed.wanted = verb[r].wanted
        /\ failed.claimed = verb[r].claimed /\ failed.landed = verb[r].landed
        /\ failed.warned = verb[r].warned
    BY <1>1 DEF Local, Installs
  <2>2. Accounted(failed) /\ Reloads(failed, home.exts)
    BY <1>2, <2>1 DEF Accounted, Reloads, Prepares
  <2> HIDE DEF failed
  <2> QED
    BY <1>2, <1>3, <1>4, <1>5, <1>8, <2>1, <2>2, OneRunReads
<1> QED
  BY <1>7, <1>8 DEF OpenWindow, Goes

(* What is still missing in the end is named. *)
LEMMA RemediedIsAnswered ==
  ASSUME NEW exts, NEW local \in Local,
         local.wanted \subseteq local.claimed \cup local.named \cup local.missing,
         local.landed \subseteq local.wanted \cap exts,
         local.told \/ local.landed \subseteq local.named
  PROVE  /\ Remedied(local) \in Local /\ Remedied(local).pc = "done"
         /\ Remedied(local).claimed = local.claimed /\ Remedied(local).warned = local.warned
         /\ Accounted(Remedied(local)) /\ Reloads(Remedied(local), exts)
<1> DEFINE after == Remedied(local)
<1>1. /\ after \in Local /\ after.pc = "done" /\ after.wanted = local.wanted
      /\ after.claimed = local.claimed /\ after.named = local.named \cup local.missing
      /\ after.landed = local.landed /\ after.told = local.told /\ after.warned = local.warned
  BY DEF Remedied, Local, Installs
<1>2. Accounted(after) /\ Reloads(after, exts)
  BY <1>1 DEF Accounted, Reloads, Prepares
<1> QED
  BY <1>1, <1>2

LEMMA ServerKeeps ==
  ASSUME EditorInv, NEW r \in Runs, _server_cli(r)
  PROVE  EditorInv'
<1>1. verb[r] \in Local /\ verb[r].pc = "server"
  BY DEF EditorInv, EditorTypeOK, _server_cli
<1>2. Accounted(verb[r]) /\ Reloads(verb[r], home.exts) /\ verb[r].claimed \subseteq was
  BY DEF EditorInv, Unpacked
<1>3. /\ verb[r].missing # {} /\ verb[r].left > 0 /\ verb[r].missing \subseteq Extension
      /\ verb[r].landed = {} \/ verb[r].told
      /\ verb[r].missing \subseteq verb[r].wanted
      /\ verb[r].wanted \subseteq verb[r].claimed \cup verb[r].named \cup verb[r].missing
      /\ verb[r].landed \subseteq verb[r].wanted \cap home.exts
  BY <1>1, <1>2 DEF Accounted, Reloads, Local
<1>4. Guarded(home.file) \/ verb[r].warned \/ Foreign(r)
  BY <1>1, StaysCovered DEF Installs
<1>5. faults' \in Nat /\ UNCHANGED <<desk, up, home, window, was, disturbed>>
  BY Children DEF _server_cli, EditorInv, EditorTypeOK
<1> DEFINE through == [verb[r] EXCEPT !.pc = "through", !.todo = verb[r].missing]
           later   == [verb[r] EXCEPT !.left = @ - 1]
<1>6. \/ Becomes(r, through)
      \/ Becomes(r, IF verb[r].left = 1 THEN Remedied(verb[r]) ELSE later)
  BY Zenon DEF _server_cli
<1>7. CASE Becomes(r, through)
  <2>1. /\ through \in Local /\ through.pc = "through" /\ through.todo = verb[r].missing
        /\ through.missing = verb[r].missing /\ through.left = verb[r].left
        /\ through.wanted = verb[r].wanted /\ through.claimed = verb[r].claimed
        /\ through.named = verb[r].named /\ through.landed = verb[r].landed
        /\ through.told = verb[r].told /\ through.warned = verb[r].warned
    BY <1>1, <1>3 DEF Local, Installs
  <2>2. Accounted(through) /\ Reloads(through, home.exts)
    BY <1>1, <1>2, <1>3, <2>1 DEF Accounted, Reloads, Prepares
  <2>3. through.pc \in {"server", "through", "done"}
    BY <2>1
  <2> HIDE DEF through
  <2> QED
    BY <1>2, <1>4, <1>5, <1>7, <2>1, <2>2, <2>3, OneRunReads
<1>8. CASE Becomes(r, Remedied(verb[r]))
  <2>1. /\ Remedied(verb[r]) \in Local /\ Remedied(verb[r]).pc = "done"
        /\ Remedied(verb[r]).claimed = verb[r].claimed /\ Remedied(verb[r]).warned = verb[r].warned
        /\ Accounted(Remedied(verb[r])) /\ Reloads(Remedied(verb[r]), home.exts)
    BY <1>1, <1>3, RemediedIsAnswered
  <2> QED
    BY <1>2, <1>4, <1>5, <1>8, <2>1, OneRunReads
<1>9. CASE Becomes(r, later) /\ verb[r].left # 1
  <2>1. /\ later \in Local /\ later.pc = "server" /\ later.left > 0
        /\ later.missing = verb[r].missing
        /\ later.wanted = verb[r].wanted /\ later.claimed = verb[r].claimed
        /\ later.named = verb[r].named /\ later.landed = verb[r].landed
        /\ later.told = verb[r].told /\ later.warned = verb[r].warned
    BY <1>1, <1>3, <1>9 DEF Local
  <2>2. Accounted(later) /\ Reloads(later, home.exts)
    BY <1>1, <1>2, <1>3, <2>1 DEF Accounted, Reloads, Prepares
  <2>3. later.pc \in {"server", "through", "done"}
    BY <2>1
  <2> HIDE DEF later
  <2> QED
    BY <1>2, <1>4, <1>5, <1>9, <2>1, <2>2, <2>3, OneRunReads
<1>10. \/ Becomes(r, through)
       \/ Becomes(r, Remedied(verb[r]))
       \/ Becomes(r, later) /\ verb[r].left # 1
  <2> DEFINE ends == IF verb[r].left = 1 THEN Remedied(verb[r]) ELSE later
  <2>1. /\ verb[r].left = 1 => ends = Remedied(verb[r])
        /\ verb[r].left # 1 => ends = later
    BY Zenon
  <2>2. Becomes(r, through) \/ Becomes(r, ends)
    BY <1>6
  <2> HIDE DEF ends, through, later
  <2> QED
    BY <2>1, <2>2
<1> QED
  BY <1>7, <1>8, <1>9, <1>10

LEMMA InstallThroughKeeps ==
  ASSUME EditorInv, NEW r \in Runs, NEW e, InstallThrough(r, e)
  PROVE  EditorInv'
<1>1. verb[r] \in Local /\ verb[r].pc = "through" /\ e \in verb[r].todo
  BY DEF EditorInv, EditorTypeOK, InstallThrough
<1>2. Accounted(verb[r]) /\ Reloads(verb[r], home.exts) /\ verb[r].claimed \subseteq was
  BY DEF EditorInv, Unpacked
<1>3. /\ verb[r].missing # {} /\ verb[r].left > 0 /\ verb[r].todo \subseteq verb[r].missing
      /\ verb[r].missing \subseteq verb[r].wanted /\ verb[r].wanted \subseteq Extension
      /\ verb[r].landed \subseteq verb[r].missing \/ verb[r].told
      /\ verb[r].wanted \subseteq verb[r].claimed \cup verb[r].named \cup verb[r].missing
      /\ verb[r].landed \subseteq verb[r].wanted \cap home.exts
  BY <1>1, <1>2 DEF Accounted, Reloads, Local
<1>4. Guarded(home.file) \/ verb[r].warned \/ Foreign(r)
  BY <1>1, StaysCovered DEF Installs
<1>5. faults' \in Nat /\ UNCHANGED <<desk, up, window, disturbed>>
  BY Children DEF InstallThrough, EditorInv, EditorTypeOK
<1>6. /\ home \in Home /\ was \subseteq Extension /\ home.exts \subseteq was /\ disturbed \in Disturbance
      /\ window \in [Runs -> Window] /\ e \in Extension
  BY <1>1, <1>3 DEF EditorInv, EditorTypeOK, Unpacked
<1> DEFINE local  == [verb[r] EXCEPT !.todo = @ \ {e}]
           named  == [local EXCEPT !.named = @ \cup {e}]
           landed == [local EXCEPT !.landed = Landing(local, e)]
<1>7. \/ Becomes(r, named) /\ UNCHANGED <<home, was>>
      \/ Becomes(r, landed) /\ Unpacks(e)
  BY Zenon DEF InstallThrough
<1>8. CASE Becomes(r, named) /\ UNCHANGED <<home, was>>
  <2>1. /\ named \in Local /\ named.pc = "through" /\ named.todo = verb[r].todo \ {e}
        /\ named.missing = verb[r].missing /\ named.left = verb[r].left
        /\ named.wanted = verb[r].wanted /\ named.claimed = verb[r].claimed
        /\ named.named = verb[r].named \cup {e} /\ named.landed = verb[r].landed
        /\ named.told = verb[r].told /\ named.warned = verb[r].warned
    BY <1>1, <1>6 DEF Local
  <2>2. Accounted(named) /\ Reloads(named, home.exts)
    BY <1>3, <2>1 DEF Accounted, Reloads, Prepares
  <2>3. named.pc \in {"server", "through", "done"}
    BY <2>1
  <2> HIDE DEF named
  <2> QED
    BY <1>2, <1>4, <1>5, <1>8, <2>1, <2>2, <2>3, OneRunReads
<1>9. CASE Becomes(r, landed) /\ Unpacks(e)
  <2>1. /\ home' \in Home /\ home'.exts = home.exts \cup {e} /\ home'.file = home.file /\ home'.open = home.open
        /\ was' = was \cup {e}
    BY <1>6, <1>9 DEF Unpacks, Home
  <2>2. local \in Local /\ local.landed = verb[r].landed
    BY <1>1 DEF Local
  <2>3. /\ Landing(local, e) \subseteq verb[r].wanted \cap home'.exts
        /\ Landing(local, e) \subseteq verb[r].missing \/ verb[r].told
    BY <1>1, <1>3, <2>1, <2>2 DEF Landing
  <2>4. /\ landed \in Local /\ landed.pc = "through" /\ landed.todo = verb[r].todo \ {e}
        /\ landed.missing = verb[r].missing /\ landed.left = verb[r].left
        /\ landed.wanted = verb[r].wanted /\ landed.claimed = verb[r].claimed
        /\ landed.named = verb[r].named /\ landed.landed = Landing(local, e)
        /\ landed.told = verb[r].told /\ landed.warned = verb[r].warned
    BY <1>1, <1>3, <2>2, <2>3 DEF Local
  <2>5. Accounted(landed) /\ Reloads(landed, home'.exts)
    BY <1>3, <2>3, <2>4 DEF Accounted, Reloads, Prepares
  <2>6. landed.pc \in {"server", "through", "done"}
    BY <2>4
  <2> HIDE DEF landed
  <2> QED
    BY <1>2, <1>4, <1>5, <1>6, <1>9, <2>1, <2>4, <2>5, <2>6, FileStays, OneRunMoves
<1> QED
  BY <1>7, <1>8, <1>9

(* Fewer are missing if and only if the listing shows one of them. *)
LEMMA FewerAreMissing ==
  ASSUME NEW asked \in SUBSET Extension, NEW exts, asked \cap exts # {}
  PROVE  ReloadAdvised(asked, asked \ exts)
<1>1. IsFiniteSet(asked)
  BY ExtensionsAreFew, FS_Subset
<1>2. PICK e \in asked : e \in exts
  OBVIOUS
<1>3. IsFiniteSet(asked \ {e}) /\ Cardinality(asked \ {e}) = Cardinality(asked) - 1
  BY <1>1, <1>2, FS_RemoveElement
<1>4. asked \ exts \subseteq asked \ {e}
  BY <1>2
<1>5. Cardinality(asked \ exts) <= Cardinality(asked \ {e}) /\ IsFiniteSet(asked \ exts)
  BY <1>3, <1>4, FS_Subset
<1>6. Cardinality(asked) \in Nat /\ Cardinality(asked \ exts) \in Nat
  BY <1>1, <1>5, FS_CardinalityType
<1> QED
  BY <1>3, <1>5, <1>6 DEF ReloadAdvised

LEMMA NoneAreMissing ==
  ASSUME NEW asked \in SUBSET Extension, asked # {}
  PROVE  ReloadAdvised(asked, {})
<1>1. IsFiniteSet(asked)
  BY ExtensionsAreFew, FS_Subset
<1>2. Cardinality(asked) \in Nat /\ Cardinality(asked) # 0 /\ Cardinality({}) = 0
  BY <1>1, FS_CardinalityType, FS_EmptySet
<1> QED
  BY <1>2 DEF ReloadAdvised

LEMMA ReverifyKeeps ==
  ASSUME EditorInv, NEW r \in Runs, Reverify(r)
  PROVE  EditorInv'
<1>1. verb[r] \in Local /\ verb[r].pc = "through"
  BY DEF EditorInv, EditorTypeOK, Reverify
<1>2. Accounted(verb[r]) /\ Reloads(verb[r], home.exts) /\ verb[r].claimed \subseteq was
  BY DEF EditorInv, Unpacked
<1> DEFINE asked == verb[r].missing
<1>3. /\ asked # {} /\ asked \subseteq verb[r].wanted /\ asked \in SUBSET Extension
      /\ verb[r].landed \subseteq asked \/ verb[r].told
      /\ verb[r].wanted \subseteq verb[r].claimed \cup verb[r].named \cup asked
      /\ verb[r].landed \subseteq verb[r].wanted \cap home.exts
  BY <1>1, <1>2 DEF Accounted, Reloads, Local
<1>4. Guarded(home.file) \/ verb[r].warned \/ Foreign(r)
  BY <1>1, StaysCovered DEF Installs
<1>5. faults' \in Nat /\ UNCHANGED <<desk, up, home, window, was, disturbed>>
  BY Children DEF Reverify
<1>6. home \in Home /\ home.exts \subseteq was
  BY DEF EditorInv, EditorTypeOK, Unpacked
<1> DEFINE shown == Verified(verb[r], asked)
           blind == Unverified(verb[r], asked)
           Heard(local) == [local EXCEPT !.told = verb[r].told \/ ReloadAdvised(asked, local.missing)]
<1>7. Becomes(r, Remedied(Heard(shown))) \/ Becomes(r, Remedied(Heard(blind)))
  BY Zenon DEF Reverify
<1>8. ASSUME NEW local \in Local, Becomes(r, Remedied(local)),
             local.wanted \subseteq local.claimed \cup local.named \cup local.missing,
             local.landed \subseteq local.wanted \cap home.exts,
             local.told \/ local.landed \subseteq local.named,
             local.claimed \subseteq was, local.warned = verb[r].warned
      PROVE  EditorInv'
  <2>1. /\ Remedied(local) \in Local /\ Remedied(local).pc = "done"
        /\ Remedied(local).claimed = local.claimed /\ Remedied(local).warned = local.warned
        /\ Accounted(Remedied(local)) /\ Reloads(Remedied(local), home.exts)
    BY <1>8, RemediedIsAnswered
  <2> QED
    BY <1>4, <1>5, <1>8, <2>1, OneRunReads
<1>9. CASE Becomes(r, Remedied(Heard(shown)))
  <2>1. asked \cap home.exts \subseteq Extension /\ asked \ home.exts \subseteq Extension
    BY <1>3
  <2>2. ReloadAdvised(asked, asked \ home.exts) \in BOOLEAN
    BY DEF ReloadAdvised
  <2>3. /\ shown \in Local /\ shown.missing = asked \ home.exts /\ shown.wanted = verb[r].wanted
        /\ shown.claimed = verb[r].claimed \cup (asked \cap home.exts) /\ shown.named = verb[r].named
        /\ shown.landed = verb[r].landed /\ shown.warned = verb[r].warned
    BY <1>1, <2>1 DEF Verified, unpacked_extensions, Local
  <2> HIDE DEF shown
  <2> DEFINE heard == Heard(shown)
  <2>4. /\ heard \in Local /\ heard.missing = shown.missing /\ heard.wanted = shown.wanted
        /\ heard.claimed = shown.claimed /\ heard.named = shown.named
        /\ heard.landed = shown.landed /\ heard.warned = shown.warned
        /\ heard.told = (verb[r].told \/ ReloadAdvised(asked, shown.missing))
    BY <1>1, <2>2, <2>3 DEF Local
  <2>5. heard.told \/ heard.landed = {}
    BY <1>3, <2>3, <2>4, FewerAreMissing
  <2>6. Becomes(r, Remedied(heard))
    BY <1>9
  <2> HIDE DEF heard
  <2> QED
    BY <1>2, <1>3, <1>6, <1>8, <2>3, <2>4, <2>5, <2>6
<1>10. CASE Becomes(r, Remedied(Heard(blind)))
  <2>1. ReloadAdvised(asked, {}) = TRUE
    BY <1>3, NoneAreMissing DEF ReloadAdvised
  <2>2. /\ blind \in Local /\ blind.missing = {} /\ blind.wanted = verb[r].wanted
        /\ blind.claimed = verb[r].claimed /\ blind.named = verb[r].named \cup asked
        /\ blind.landed = verb[r].landed /\ blind.warned = verb[r].warned
    BY <1>1, <1>3 DEF Unverified, Local
  <2> HIDE DEF blind
  <2> DEFINE heard == Heard(blind)
  <2>3. /\ heard \in Local /\ heard.missing = blind.missing /\ heard.wanted = blind.wanted
        /\ heard.claimed = blind.claimed /\ heard.named = blind.named
        /\ heard.landed = blind.landed /\ heard.warned = blind.warned
        /\ heard.told
    BY <1>1, <2>1, <2>2 DEF Local
  <2>4. Becomes(r, Remedied(heard))
    BY <1>10
  <2> HIDE DEF heard
  <2> QED
    BY <1>2, <1>3, <1>8, <2>2, <2>3, <2>4
<1> QED
  BY <1>7, <1>9, <1>10

-----------------------------------------------------------------------------
(* VS Code, the user and the seat. *)

(* Nobody runs on: what the home becomes takes nothing a run relies on.      *)
LEMMA OthersMove ==
  ASSUME EditorInv, verb' \in [Runs -> Local], desk' = desk, up' \in BOOLEAN, faults' \in Nat,
         home' \in Home, window' \in [Runs -> Window], was' \subseteq Extension,
         disturbed' \in Disturbance,
         was \subseteq was', home'.exts \subseteq was',
         Widens(home'.file, Writing), \A r \in Writing : Intact(r)',
         \A r \in Runs : window'[r].state # "none" => window[r].state # "none",
         \A r \in Runs :
           \/ verb'[r] = verb[r] /\ home.exts \subseteq home'.exts
           \/ verb'[r] = [verb[r] EXCEPT !.landed = {}]
  PROVE  EditorInv'
<1>1. ASSUME NEW r \in Runs
      PROVE  /\ verb'[r].claimed \subseteq was'
             /\ Covered(r)' /\ Accounted(verb[r])' /\ Reloads(verb[r], home.exts)'
  <2>1. /\ verb[r] \in Local /\ verb[r].claimed \subseteq was
        /\ Covered(r) /\ Accounted(verb[r]) /\ Reloads(verb[r], home.exts)
    BY DEF EditorInv, EditorTypeOK, Unpacked
  <2>2. CASE verb'[r] = verb[r] /\ home.exts \subseteq home'.exts
    <3>1. Accounted(verb[r])' /\ Reloads(verb[r], home.exts)'
      BY <2>1, <2>2 DEF Accounted, Reloads
    <3>2. Covered(r)'
      BY <2>1, <2>2 DEF Covered, Past, Writing, Installs, Widens, Foreign
    <3> QED
      BY <2>1, <2>2, <3>1, <3>2
  <2>3. CASE verb'[r] = [verb[r] EXCEPT !.landed = {}]
    <3>1. /\ verb'[r].pc = verb[r].pc /\ verb'[r].landed = {} /\ verb'[r].wanted = verb[r].wanted
          /\ verb'[r].todo = verb[r].todo /\ verb'[r].attempted = verb[r].attempted
          /\ verb'[r].missing = verb[r].missing /\ verb'[r].left = verb[r].left
          /\ verb'[r].warned = verb[r].warned /\ verb'[r].named = verb[r].named
          /\ verb'[r].claimed = verb[r].claimed /\ verb'[r].told = verb[r].told
      BY <2>1, <2>3 DEF Local
    <3>2. Accounted(verb[r])' /\ Reloads(verb[r], home.exts)'
      BY <2>1, <3>1 DEF Accounted, Reloads
    <3>3. Covered(r)'
      BY <2>1, <3>1 DEF Covered, Past, Writing, Installs, Widens, Foreign
    <3> QED
      BY <2>1, <3>1, <3>2, <3>3
  <2> QED
    BY <2>2, <2>3
<1>2. EditorTypeOK'
  BY DEF EditorInv, EditorTypeOK
<1> QED
  BY <1>1, <1>2 DEF EditorInv, Unpacked

LEMMA ConnectKeeps ==
  ASSUME EditorInv, NEW r \in Runs, Connect(r)
  PROVE  EditorInv'
<1>1. /\ home \in Home /\ window \in [Runs -> Window] /\ was \subseteq Extension /\ home.exts \subseteq was
      /\ window[r].state # "none"
  BY DEF EditorInv, EditorTypeOK, Unpacked, Connect
<1> DEFINE queued == IF desk.egress THEN window[r].queued ELSE {}
           exts   == home.exts \cup queued
<1>2. queued \subseteq Extension /\ exts \in SUBSET Extension
  BY <1>1 DEF Home, Window
<1> HIDE DEF queued
<1>3. /\ home' = [home EXCEPT !.exts = exts, !.server = TRUE] /\ was' = was \cup exts
      /\ window' = [window EXCEPT ![r] = [state |-> "open", knows |-> exts, queued |-> {}]]
      /\ UNCHANGED <<desk, verb, up, faults, disturbed>>
  BY Zenon DEF Connect, queued
<1>4. home' \in Home /\ home'.exts = exts /\ home'.file = home.file /\ home'.open = home.open
  BY <1>1, <1>2, <1>3 DEF Home
<1>5. window' \in [Runs -> Window]
  BY <1>1, <1>2, <1>3 DEF Window
<1>6. \A s \in Runs : window'[s].state # "none" => window[s].state # "none"
  BY <1>1, <1>3
<1>7. /\ desk' = desk /\ up' \in BOOLEAN /\ faults' \in Nat /\ verb' = verb /\ verb \in [Runs -> Local]
      /\ disturbed' = disturbed /\ disturbed \in Disturbance
  BY <1>3 DEF EditorInv, EditorTypeOK
<1> QED
  BY <1>1, <1>2, <1>3, <1>4, <1>5, <1>6, <1>7, FileStays, OthersMove

LEMMA ClosedIsNoNewWindow ==
  ASSUME EditorInv
  PROVE  /\ Closed \in [Runs -> Window]
         /\ \A r \in Runs : Closed[r].state # "none" => window[r].state # "none"
<1>1. window \in [Runs -> Window]
  BY DEF EditorInv, EditorTypeOK
<1> QED
  BY <1>1 DEF Closed, Window

LEMMA KillKeeps ==
  ASSUME EditorInv, KillServer
  PROVE  EditorInv'
<1>1. /\ desk' = desk /\ up' \in BOOLEAN /\ was' = was /\ was \subseteq Extension
      /\ verb \in [Runs -> Local]
  BY DEF EditorInv, EditorTypeOK, KillServer
<1>2. home' \in Home /\ home'.exts = {}
  BY DEF KillServer, Home, SettingsFile, Absent, File
<1>3. verb' \in [Runs -> Local] /\ \A r \in Runs : verb'[r] = [verb[r] EXCEPT !.landed = {}]
  <2>1. \A r \in Runs : [verb[r] EXCEPT !.landed = {}] \in Local
    BY <1>1 DEF Local
  <2> QED
    BY <2>1 DEF KillServer
<1>4. disturbed' \in Disturbance /\ Widens(home'.file, Writing)
  BY TouchesWiden DEF KillServer
<1>5. home'.file = Absent
  BY DEF KillServer
<1>6. \A r \in Writing : Intact(r)'
  <2>1. \A r \in Writing : Intact(r)
    BY DEF Writing, EditorInv, Covered
  <2> QED
    BY <1>4, <1>5, <2>1 DEF Intact, Widens, Absent, File
<1> QED
  BY <1>1, <1>2, <1>3, <1>4, <1>6, OthersMove, ClosedIsNoNewWindow, Children DEF KillServer

LEMMA SavesKeep ==
  ASSUME EditorInv, UserSaves
  PROVE  EditorInv'
<1>1. PICK file \in {File("text", {"theirs"}), File("text", {"theirs", "declined"}), Mixed},
           open \in {home.open, {}} : home' = [home EXCEPT !.file = file, !.open = open]
  BY DEF UserSaves
<1>2. file \in SettingsFile /\ file # File("text", {})
  BY DEF Mixed, File, SettingsFile
<1>3. home \in Home
  BY DEF EditorInv, EditorTypeOK
<1>4. home' \in Home /\ home'.exts = home.exts /\ home'.file = file
  BY <1>1, <1>2, <1>3 DEF Home
<1>7. disturbed' \in Disturbance /\ Widens(home'.file, Writing)
  BY TouchesWiden DEF UserSaves
<1>8. \A r \in Writing : Intact(r)'
  <2>1. \A r \in Writing : Intact(r)
    BY DEF Writing, EditorInv, Covered
  <2> QED
    BY <1>2, <1>4, <1>7, <2>1 DEF Intact, Widens
<1>5. /\ desk' = desk /\ up' \in BOOLEAN /\ was' = was /\ verb' = verb /\ window' = window
      /\ was \subseteq Extension /\ verb \in [Runs -> Local] /\ window \in [Runs -> Window]
      /\ home.exts \subseteq was
  BY DEF EditorInv, EditorTypeOK, Unpacked, UserSaves
<1>6. faults' \in Nat
  BY Children DEF UserSaves
<1> QED
  BY <1>4, <1>5, <1>6, <1>7, <1>8, OthersMove

LEMMA DeathKeeps ==
  ASSUME EditorInv, SeatDies
  PROVE  EditorInv'
<1>1. Widens(home'.file, Writing) /\ \A r \in Writing : Intact(r)'
  BY DEF SeatDies, Widens, Writing, Intact, EditorInv, Covered
<1> QED
  BY <1>1, OthersMove, ClosedIsNoNewWindow, Children DEF SeatDies, EditorInv, EditorTypeOK, Unpacked

LEMMA EditorInvStep == EditorInv /\ [EditorNext]_editorVars => EditorInv'
<1> SUFFICES ASSUME EditorInv, [EditorNext]_editorVars
             PROVE  EditorInv'
  OBVIOUS
<1>1. ASSUME NEW r \in Runs, RunStep(r)
      PROVE  EditorInv'
  BY <1>1, CommandKeeps, ReachKeeps, AuthorKeeps, ReadKeeps, TruncateKeeps, WriteKeeps,
     InstallLocallyKeeps, InstallThroughKeeps, VerifyKeeps, OpenKeeps, ServerKeeps, ReverifyKeeps
     DEF RunStep
<1>2. ASSUME UNCHANGED editorVars
      PROVE  EditorInv'
  BY <1>2 DEF editorVars, EditorInv, EditorTypeOK, Unpacked, Covered, Intact, Foreign, Accounted, Reloads
<1> QED
  BY <1>1, <1>2, ConnectKeeps, KillKeeps, SavesKeep, DeathKeeps DEF EditorNext

THEOREM EditorInvariant == EditorSpec => []EditorInv
BY EditorInvInit, EditorInvStep, PTL DEF EditorSpec

(* editor.py, open_seat: whatever other runs, users and failures do to the   *)
(* settings, and wherever the text of a write goes that nobody follows to    *)
(* the path, a window finds the excludes on disk, unless its run has warned, *)
(* or somebody else has changed the file since, or amid that very write.     *)
THEOREM WindowsAreAlwaysGuarded == EditorSpec => []WindowsAreGuarded
<1>1. EditorInv => WindowsAreGuarded
  BY DEF EditorInv, Covered, Foreign, WindowsAreGuarded, Installs
<1> QED
  BY <1>1, EditorInvariant, PTL

(* editor.py, _verify_installed and _install_through_the_seat: whatever was  *)
(* queued, refused or deleted, what a run says of the extensions is so and   *)
(* is complete, and nobody is left with a stale window untold.               *)
THEOREM EditorReportIsAlwaysTrue == EditorSpec => []EditorReportIsTrue
<1>1. EditorInv => ExtensionsAreAnswered
  BY DEF EditorInv, Unpacked, Accounted, ExtensionsAreAnswered
<1>2. EditorInv => StaleWindowsAreTold
  BY DEF EditorInv, Reloads, StaleWindowsAreTold
<1> QED
  BY <1>1, <1>2, EditorInvariant, PTL DEF EditorReportIsTrue

=============================================================================

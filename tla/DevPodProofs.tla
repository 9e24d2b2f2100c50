---------------------------- MODULE DevPodProofs ----------------------------
(* Theorems about DevPod, for any laptops, pods and Services. *)
EXTENDS DevPod, TLAPS

(* One laptop creates and tears down. *)
OneLauncher == \A k, l \in Launchers : k = l

(* What a command knows at each stage. *)
Staged ==
  \A l \in Launchers :
    /\ pc[l] = "service" => command[l].service \in Services
    /\ pc[l] \in {"patch", "restore"} => body[l].service \in Services
    /\ pc[l] \in {"service", "submit", "wait", "patch"} => body[l].dev
    /\ body[l].service # NoService => body[l].recorded # NoSelector

Typed == TypeOK /\ Staged

(* uids are handed out in order. *)
UidsBounded ==
  /\ \A n \in Names : pods[n].uid <= uids
  /\ \A l \in Launchers : body[l].uid <= uids
  /\ \A l \in Launchers, n \in Names : stanza[l][n] <= uids

PodKinds == \A n \in Names : \/ pods[n].dev /\ pods[n].uid # 0
                           \/ pods[n] \in {NoPod, Original}

(* l's pod is a dev pod or gone; and the pod that bears the name of one that *)
(* l deleted, if any, is later than the one l's stanza speaks to.            *)
Stamped(l) ==
  /\ pc[l] \in {"wait", "patch", "identify"} => pods[command[l].name] # Original
  /\ pc[l] \in {"pin", "stanza"} => body[l].uid # 0
  /\ pc[l] = "forget" => \/ pods[command[l].name].uid = 0
                         \/ stanza[l][command[l].name] < pods[command[l].name].uid

Fresh == UidsBounded /\ PodKinds /\ \A l \in Launchers : Stamped(l)

(* What is on record is the owner's selector. *)
RecordsAreExact ==
  \A s \in Services \ tampered, n \in Names : Records(n, s) => pods[n].recorded = owner[s]

Lending(l) ==
  \A s \in Services \ tampered : body[l].service = s =>
    /\ pc[l] \in {"submit", "wait", "patch", "restore"} => body[l].recorded = owner[s]
    /\ pc[l] \in {"wait", "patch"} => Records(command[l].name, s)
    /\ pc[l] = "patch" /\ s \notin dark => pods[command[l].name].phase = "running"

Returning(l) ==
  /\ pc[l] \in {"restore", "delete"} /\ pods[command[l].name].dev =>
       pods[command[l].name].service = body[l].service
  /\ pc[l] = "forget" => ~pods[command[l].name].dev
  /\ pc[l] \in {"delete", "forget"} =>
       \A s \in Services \ tampered : body[l].service = s => selector[s] = owner[s]

Loan(l) == RecordsAreExact /\ Undoable /\ NeverDark /\ Lending(l) /\ Returning(l)

-----------------------------------------------------------------------------
(* Types. *)

LEMMA PodTypes == NoPod \in Pod /\ Original \in Pod /\ AnyCommand \in Command
<1>1. NoPod \in Pod
  BY DEF NoPod, Pod, Value
<1>2. Original \in Pod
  BY <1>1 DEF Original, Pod
<1>3. PICK n \in Names : TRUE
  BY DevPodAssumption
<1>4. [verb |-> "delete", name |-> n, origin |-> n, service |-> NoService] \in Command
  BY <1>3 DEF Command
<1>5. AnyCommand \in Command
  BY <1>4 DEF AnyCommand
<1> QED
  BY <1>1, <1>2, <1>5

LEMMA CommandTypes ==
  \A c \in Command : /\ c.verb \in {"create", "delete"} /\ c.name \in Names
                     /\ c.origin \in Names /\ c.service \in Services \cup {NoService}
  BY DEF Command

LEMMA PodUpdates ==
  \A p \in Pod :
    /\ p.uid \in Nat /\ p.dev \in BOOLEAN /\ p.phase \in {"pending", "running", "ended"}
    /\ p.service \in Services \cup {NoService} /\ p.recorded \in Value
    /\ \A u \in Nat : [p EXCEPT !.uid = u] \in Pod
    /\ \A f \in {"pending", "running", "ended"} : [p EXCEPT !.phase = f] \in Pod
    /\ [p EXCEPT !.dev = TRUE, !.phase = "pending"] \in Pod
    /\ \A s \in Services, v \in Value : [p EXCEPT !.service = s, !.recorded = v] \in Pod
  BY DEF Pod

Control == pc \in [Launchers -> Stage] /\ outcome \in [Launchers -> Outcome]

LEMMA ControlTypes ==
  ASSUME TypeOK, NEW l \in Launchers
  PROVE  /\ \A st \in Stage : Goto(l, st) => Control'
         /\ \A r \in Outcome : Return(l, r) => Control'
         /\ Fault => faults' \in 0..MaxFaults
         /\ \A st \in Stage : Answered(l, st) => Control' /\ faults' \in 0..MaxFaults
<1>1. \A st \in Stage : Goto(l, st) => Control'
  BY DEF TypeOK, Control, Goto
<1>2. \A r \in Outcome : Return(l, r) => Control'
  BY DEF TypeOK, Control, Return, Stage
<1>3. Fault => faults' \in 0..MaxFaults
  BY DevPodAssumption DEF TypeOK, Fault
<1>4. \A st \in Stage : Answered(l, st) => Control' /\ faults' \in 0..MaxFaults
  BY <1>1, <1>2, <1>3 DEF Answered, Outcome, TypeOK
<1> QED
  BY <1>1, <1>2, <1>3, <1>4

LEMMA PodPhases ==
  ASSUME NEW p \in Pod, NEW f \in {"pending", "running", "ended"}
  PROVE  /\ [p EXCEPT !.phase = f] \in Pod
         /\ [p EXCEPT !.phase = f].uid = p.uid /\ [p EXCEPT !.phase = f].dev = p.dev
         /\ [p EXCEPT !.phase = f].service = p.service
         /\ [p EXCEPT !.phase = f].recorded = p.recorded
         /\ [p EXCEPT !.phase = f].phase = f
  BY DEF Pod

LEMMA TypedInit == Init => Typed
<1> SUFFICES ASSUME Init PROVE Typed
  OBVIOUS
<1> USE PodTypes, DevPodAssumption DEF Init
<1>1. pods \in [Names -> Pod]
  OBVIOUS
<1>2. \A n \in Names : pods[n].service # NoService => pods[n].recorded # NoSelector
  BY DEF NoPod, Original
<1>3. command \in [Launchers -> Command] /\ body \in [Launchers -> Pod]
  OBVIOUS
<1>4. /\ pc \in [Launchers -> Stage] /\ outcome \in [Launchers -> Outcome]
      /\ runs \in [Launchers -> 0..MaxCommands]
  BY DEF Stage, Outcome
<1>5. /\ stanza \in [Launchers -> [Names -> Nat]]
      /\ pinned \in [Launchers -> SUBSET Nat]
  OBVIOUS
<1>6. /\ selector \in [Services -> Value] /\ uids \in Nat /\ faults \in 0..MaxFaults
      /\ owner \in [Services -> Selectors \cup {NoSelector}]
      /\ tampered = {} /\ dark = {}
  BY DEF Value
<1>7. Staged
  BY DEF Staged, NoPod
<1> QED
  BY <1>1, <1>2, <1>3, <1>4, <1>5, <1>6, <1>7 DEF Typed, TypeOK

(* Steps of a launcher. *)
LEMMA TypedStep == ASSUME Typed, NEW l \in Launchers, Step(l) PROVE Typed'
<1> USE DEF Typed, TypeOK
<1>1. ASSUME NEW c \in Command, Begin(l, c) PROVE Typed'
  <2>1. body' \in [Launchers -> Pod] /\ command' \in [Launchers -> Command]
    BY <1>1, PodTypes DEF Begin
  <2>2. /\ pc' \in [Launchers -> Stage] /\ outcome' \in [Launchers -> Outcome]
        /\ runs' \in [Launchers -> 0..MaxCommands]
    BY <1>1, DevPodAssumption DEF Begin, Stage, Outcome
  <2>3. Staged'
    BY <1>1 DEF Begin, Staged, NoPod
  <2> QED
    BY <1>1, <2>1, <2>2, <2>3 DEF Begin, history, laptop
<1>2. CASE Fail(l)
  <2>1. Staged'
    BY <1>2 DEF Fail, Return, begun, Staged
  <2> QED
    BY <1>2, <2>1, DevPodAssumption DEF Fail, Fault, Return, begun, history, laptop, Stage, Outcome
<1>3. CASE ReadOrigin(l)
  <2>1. body' \in [Launchers -> Pod]
    BY <1>3, PodTypes, PodUpdates DEF ReadOrigin
  <2>2. Staged'
    <3>1. CASE body' = [body EXCEPT ![l] = [NoPod EXCEPT !.dev = TRUE, !.phase = "pending"]]
      <4>1. body'[l].dev /\ body'[l].service = NoService
        BY <3>1 DEF NoPod
      <4>2. pc'[l] # "patch" /\ pc'[l] # "restore"
        BY <1>3 DEF ReadOrigin, Goto, Return
      <4>3. pc'[l] = "service" => command[l].service \in Services
        BY <1>3, CommandTypes DEF ReadOrigin, Goto, Return
      <4> QED
        BY <1>3, <3>1, <4>1, <4>2, <4>3 DEF ReadOrigin, Goto, Return, begun, Staged
    <3>2. CASE body' = body /\ pc'[l] = "idle"
      BY <1>3, <3>2 DEF ReadOrigin, Goto, Return, begun, Staged
    <3> QED
      BY <1>3, <3>1, <3>2 DEF ReadOrigin, Return
  <2> QED
    BY <1>3, <2>1, <2>2, ControlTypes
    DEF ReadOrigin, Control, begun, history, laptop, Stage, Outcome
<1>4. CASE ReadService(l)
  <2> DEFINE s == command[l].service
  <2>1. s \in Services /\ selector[s] \in Value
    BY <1>4 DEF ReadService, Staged
  <2>2. body' \in [Launchers -> Pod]
    <3>1. [body[l] EXCEPT !.service = s, !.recorded = selector[s]] \in Pod
      BY <2>1, PodUpdates
    <3> QED
      BY <1>4, <3>1 DEF ReadService
  <2>3. Staged'
    <3>1. CASE selector[s] # NoSelector
      <4>1. body' = [body EXCEPT ![l] = [body[l] EXCEPT !.service = s, !.recorded = selector[s]]]
        BY <1>4, <3>1 DEF ReadService
      <4>2. body'[l] = [body[l] EXCEPT !.service = s, !.recorded = selector[s]]
        BY <4>1
      <4>3. body'[l].dev = body[l].dev /\ body'[l].recorded = selector[s]
        BY <4>2 DEF Pod
      <4>4. body[l].dev
        BY <1>4 DEF ReadService, Staged
      <4>5. \A k \in Launchers \ {l} : body'[k] = body[k]
        BY <4>1
      <4> QED
        BY <1>4, <3>1, <4>3, <4>4, <4>5 DEF ReadService, Goto, Return, begun, Staged
    <3>2. CASE selector[s] = NoSelector
      BY <1>4, <3>2 DEF ReadService, Return, begun, Staged
    <3> QED
      BY <3>1, <3>2
  <2>4. tampered' \subseteq Services \cup {NoService}
    BY <1>4, <2>1 DEF ReadService
  <2> QED
    BY <1>4, <2>2, <2>3, <2>4, ControlTypes
    DEF ReadService, Control, begun, laptop, Stage, Outcome
<1>5. CASE Submit(l)
  <2>1. /\ body[l] \in Pod /\ uids + 1 \in Nat
        /\ command[l].name \in Names
    BY CommandTypes
  <2>2. Stored(l) \in Pod
    BY <2>1, PodUpdates DEF Stored
  <2>3. /\ pods' \in [Names -> Pod] /\ uids' \in Nat
        /\ \A n \in Names : pods'[n].service # NoService => pods'[n].recorded # NoSelector
    <3>1. Stored(l).service # NoService => Stored(l).recorded # NoSelector
      BY <2>1 DEF Stored, Staged, Pod
    <3> QED
      BY <1>5, <2>1, <2>2, <3>1 DEF Submit
  <2>4. Staged'
    BY <1>5 DEF Submit, Answered, Goto, Return, begun, Staged
  <2> QED
    BY <1>5, <2>3, <2>4, ControlTypes
    DEF Submit, Control, begun, history, laptop, Stage, Outcome
<1>6. CASE Wait(l)
  <2>1. Staged'
    BY <1>6, PodUpdates DEF Wait, Goto, Return, begun, Staged
  <2> QED
    BY <1>6, <2>1, ControlTypes
    DEF Wait, Control, begun, history, laptop, Stage, Outcome
<1>7. CASE Patch(l)
  <2>1. selector' \in [Services -> Value]
    BY <1>7 DEF Patch, Value
  <2>2. Staged'
    BY <1>7 DEF Patch, Answered, Goto, Return, begun, Staged
  <2> QED
    BY <1>7, <2>1, <2>2, ControlTypes
    DEF Patch, Control, begun, history, laptop, Stage, Outcome
<1>8. CASE Identify(l)
  <2>1. pods[command[l].name].uid \in Nat
    BY CommandTypes, PodUpdates
  <2>2. body' \in [Launchers -> Pod]
    <3>1. [body[l] EXCEPT !.uid = pods[command[l].name].uid] \in Pod
      BY <2>1, PodUpdates
    <3> QED
      BY <1>8, <3>1 DEF Identify
  <2>3. Staged'
    BY <1>8 DEF Identify, Goto, Return, begun, Staged, Pod
  <2> QED
    BY <1>8, <2>2, <2>3, ControlTypes
    DEF Identify, Control, begun, history, laptop, Stage, Outcome
<1>9. CASE WriteKnownHosts(l)
  <2>1. pinned' \in [Launchers -> SUBSET Nat]
    <3>1. body[l].uid \in Nat
      BY PodUpdates
    <3> QED
      BY <1>9, <3>1 DEF WriteKnownHosts
  <2>2. Staged'
    BY <1>9 DEF WriteKnownHosts, Goto, begun, Staged
  <2> QED
    BY <1>9, <2>1, <2>2, ControlTypes
    DEF WriteKnownHosts, Control, begun, history, Stage, Outcome
<1>10. CASE WriteSshConfig(l)
  <2>1. body[l].uid \in Nat
    BY PodUpdates
  <2>2. stanza' \in [Launchers -> [Names -> Nat]]
    BY <1>10, <2>1 DEF WriteSshConfig
  <2>3. Staged'
    BY <1>10 DEF WriteSshConfig, Return, begun, Staged
  <2> QED
    BY <1>10, <2>2, <2>3, ControlTypes
    DEF WriteSshConfig, Control, begun, history, Stage, Outcome
<1>11. CASE GetPod(l)
  <2>1. body' \in [Launchers -> Pod]
    BY <1>11, CommandTypes DEF GetPod
  <2>2. Staged'
    <3> DEFINE p == pods[command[l].name]
    <3>1. /\ p.service \in Services \cup {NoService}
          /\ p.service # NoService => p.recorded # NoSelector
      BY CommandTypes, PodUpdates
    <3> QED
      BY <1>11, <3>1 DEF GetPod, Goto, Return, begun, Staged
  <2> QED
    BY <1>11, <2>1, <2>2, ControlTypes
    DEF GetPod, Control, begun, history, laptop, Stage, Outcome
<1>12. CASE Restore(l)
  <2>1. body[l].recorded \in Value
    BY PodUpdates
  <2>2. selector' \in [Services -> Value]
    BY <1>12, <2>1 DEF Restore
  <2>3. Staged'
    BY <1>12 DEF Restore, Answered, Goto, Return, begun, Staged
  <2> QED
    BY <1>12, <2>2, <2>3, ControlTypes
    DEF Restore, Control, begun, history, laptop, Stage, Outcome
<1>13. CASE DeletePod(l)
  <2>1. /\ pods' \in [Names -> Pod]
        /\ \A n \in Names : pods'[n].service # NoService => pods'[n].recorded # NoSelector
    BY <1>13, PodTypes DEF DeletePod, NoPod
  <2>2. Staged'
    BY <1>13 DEF DeletePod, Answered, Goto, Return, begun, Staged
  <2> QED
    BY <1>13, <2>1, <2>2, ControlTypes
    DEF DeletePod, Control, begun, history, laptop, Stage, Outcome
<1>14. CASE ForgetSshConfig(l)
  <2>1. stanza' \in [Launchers -> [Names -> Nat]] /\ pinned' \in [Launchers -> SUBSET Nat]
    BY <1>14 DEF ForgetSshConfig, Unwired
  <2>2. Staged'
    BY <1>14 DEF ForgetSshConfig, Return, begun, Staged
  <2> QED
    BY <1>14, <2>1, <2>2, ControlTypes
    DEF ForgetSshConfig, Control, begun, history, Stage, Outcome
<1> QED
  BY <1>1, <1>2, <1>3, <1>4, <1>5, <1>6, <1>7, <1>8, <1>9, <1>10, <1>11, <1>12, <1>13, <1>14
  DEF Step

LEMMA TypedEnvironment == ASSUME Typed, Environment PROVE Typed'
<1> USE DEF Typed, TypeOK
<1>1. ASSUME NEW n \in Names, PodStarts(n) PROVE Typed'
  <2>1. /\ pods' \in [Names -> Pod]
        /\ \A m \in Names : pods'[m].service # NoService => pods'[m].recorded # NoSelector
    <3> DEFINE p == [pods[n] EXCEPT !.phase = "running"]
    <3>1. pods' = [pods EXCEPT ![n] = p]
      BY <1>1 DEF PodStarts
    <3>2. p \in Pod /\ p.service = pods[n].service /\ p.recorded = pods[n].recorded
      BY PodPhases
    <3> HIDE DEF p
    <3> QED
      BY <3>1, <3>2
  <2>2. Staged'
    BY <1>1 DEF PodStarts, begun, Staged
  <2> QED
    BY <1>1, <2>1, <2>2 DEF PodStarts, begun, history, laptop
<1>2. ASSUME NEW n \in Names, PodEnds(n) PROVE Typed'
  <2>1. /\ pods' \in [Names -> Pod]
        /\ \A m \in Names : pods'[m].service # NoService => pods'[m].recorded # NoSelector
    <3> DEFINE p == [pods[n] EXCEPT !.phase = "ended"]
    <3>1. pods' = [pods EXCEPT ![n] = p]
      BY <1>2 DEF PodEnds
    <3>2. p \in Pod /\ p.service = pods[n].service /\ p.recorded = pods[n].recorded
      BY PodPhases
    <3> HIDE DEF p
    <3> QED
      BY <3>1, <3>2
  <2>2. dark' \subseteq Services \cup {NoService}
    BY <1>2, PodUpdates DEF PodEnds
  <2>3. Staged'
    BY <1>2 DEF PodEnds, begun, Staged
  <2> QED
    BY <1>2, <2>1, <2>2, <2>3, DevPodAssumption DEF PodEnds, Fault, begun, laptop
<1>3. ASSUME NEW n \in Names, PodGone(n) PROVE Typed'
  <2>1. /\ pods' \in [Names -> Pod]
        /\ \A m \in Names : pods'[m].service # NoService => pods'[m].recorded # NoSelector
    BY <1>3, PodTypes DEF PodGone, NoPod
  <2>2. tampered' \subseteq Services \cup {NoService}
    BY <1>3, PodUpdates DEF PodGone
  <2>3. Staged'
    BY <1>3 DEF PodGone, begun, Staged
  <2> QED
    BY <1>3, <2>1, <2>2, <2>3, DevPodAssumption DEF PodGone, Fault, begun, laptop
<1>4. ASSUME NEW s \in Services, NEW v \in Selectors, OwnerWrites(s, v) PROVE Typed'
  <2>1. /\ selector' \in [Services -> Value]
        /\ owner' \in [Services -> Selectors \cup {NoSelector}]
        /\ tampered' \subseteq Services \cup {NoService}
    BY <1>4 DEF OwnerWrites, Value
  <2>2. Staged'
    BY <1>4 DEF OwnerWrites, begun, Staged
  <2> QED
    BY <1>4, <2>1, <2>2, DevPodAssumption DEF OwnerWrites, Fault, begun, laptop
<1> QED
  BY <1>1, <1>2, <1>3, <1>4 DEF Environment

LEMMA TypedStutter == Typed /\ UNCHANGED vars => Typed'
  BY DEF Typed, TypeOK, Staged, vars

(* DevPod's variables keep their types, and no loan of a Service without a   *)
(* selector is ever on record.                                               *)
THEOREM DevPodTypeCorrect == Spec => []TypeOK
<1>1. Init => Typed
  BY TypedInit
<1>2. Typed /\ [Next]_vars => Typed'
  BY TypedStep, TypedEnvironment, TypedStutter DEF Next
<1>3. Typed => TypeOK
  BY DEF Typed
<1> QED
  BY <1>1, <1>2, <1>3, PTL DEF Spec

-----------------------------------------------------------------------------
(* Stanzas. *)

LEMMA KindsOfPods == /\ NoPod.uid = 0 /\ ~NoPod.dev /\ NoPod.service = NoService
                     /\ Original.uid = 0 /\ ~Original.dev /\ Original.service = NoService
                     /\ NoPod # Original
  BY DEF NoPod, Original

LEMMA FreshInit == Init => Fresh
<1> SUFFICES ASSUME Init PROVE Fresh
  OBVIOUS
<1>1. UidsBounded
  BY KindsOfPods DEF Init, UidsBounded
<1>2. PodKinds
  BY DEF Init, PodKinds
<1>3. \A l \in Launchers : Stamped(l)
  BY DEF Init, Stamped
<1> QED
  BY <1>1, <1>2, <1>3 DEF Fresh

(* What a step may do to the pods, seen from the uids: store one new pod,    *)
(* move one on, or remove one.                                               *)
Stores(n) == /\ uids' = uids + 1
             /\ pods' = [pods EXCEPT ![n] = pods'[n]]
             /\ pods'[n].uid = uids + 1 /\ pods'[n].dev
Ages(n)   == /\ pods' = [pods EXCEPT ![n] = pods'[n]] /\ UNCHANGED uids
             /\ pods'[n].uid = pods[n].uid
             /\ pods'[n].dev /\ pods[n].dev
Removes(n) == pods' = [pods EXCEPT ![n] = NoPod] /\ UNCHANGED uids
PodsMove == \/ \E n \in Names : Stores(n) \/ Ages(n) \/ Removes(n)
            \/ UNCHANGED <<pods, uids>>

LEMMA PodsMoveSoundly ==
  ASSUME Typed, PodKinds, [Next]_vars PROVE PodsMove
<1> USE DEF Typed, TypeOK
<1>1. ASSUME NEW l \in Launchers, Submit(l) PROVE PodsMove
  <2> DEFINE n == command[l].name
  <2>1. n \in Names /\ body[l] \in Pod /\ uids + 1 \in Nat
    BY CommandTypes
  <2>2. body[l].dev
    BY <1>1 DEF Submit, Staged
  <2>3. Stored(l).uid = uids + 1 /\ Stored(l).dev
    BY <2>1, <2>2 DEF Stored, Pod
  <2>4. CASE uids' = uids + 1 /\ pods' = [pods EXCEPT ![n] = Stored(l)]
    <3>1. Stores(n)
      BY <2>1, <2>3, <2>4 DEF Stores
    <3> QED
      BY <2>1, <3>1 DEF PodsMove
  <2>5. CASE UNCHANGED <<pods, uids>>
    BY <2>5 DEF PodsMove
  <2> QED
    BY <1>1, <2>4, <2>5 DEF Submit
<1>2. ASSUME NEW l \in Launchers, DeletePod(l) PROVE PodsMove
  <2>1. command[l].name \in Names
    BY CommandTypes
  <2>2. Removes(command[l].name)
    BY <1>2 DEF DeletePod, Removes
  <2> QED
    BY <2>1, <2>2 DEF PodsMove
<1>3. ASSUME NEW l \in Launchers, Step(l), ~Submit(l), ~DeletePod(l) PROVE PodsMove
  BY <1>3 DEF Step, Begin, Fail, ReadOrigin, ReadService, Wait, Patch, Identify,
     WriteKnownHosts, WriteSshConfig, GetPod, Restore, ForgetSshConfig, PodsMove
<1>4. ASSUME NEW n \in Names, NEW f \in {"running", "ended"}, pods[n].dev,
             pods' = [pods EXCEPT ![n].phase = f], UNCHANGED uids
      PROVE  PodsMove
  <2> DEFINE p == [pods[n] EXCEPT !.phase = f]
  <2>1. pods' = [pods EXCEPT ![n] = p]
    BY <1>4
  <2>2. p.uid = pods[n].uid /\ p.dev = pods[n].dev
    BY PodPhases
  <2> HIDE DEF p
  <2>3. Ages(n)
    BY <1>4, <2>1, <2>2 DEF Ages
  <2> QED
    BY <2>3 DEF PodsMove
<1>5. ASSUME NEW n \in Names, PodStarts(n) PROVE PodsMove
  <2>1. pods[n].dev
    BY <1>5 DEF PodStarts, PodKinds, NoPod, Original
  <2> QED
    BY <1>4, <1>5, <2>1 DEF PodStarts
<1>6. ASSUME NEW n \in Names, PodEnds(n) PROVE PodsMove
  BY <1>4, <1>6 DEF PodEnds
<1>7. ASSUME NEW n \in Names, PodGone(n) PROVE PodsMove
  <2>1. Removes(n)
    BY <1>7 DEF PodGone, Removes
  <2> QED
    BY <2>1 DEF PodsMove
<1>8. ASSUME NEW s \in Services, NEW v \in Selectors, OwnerWrites(s, v) PROVE PodsMove
  BY <1>8 DEF OwnerWrites, PodsMove
<1>9. CASE UNCHANGED vars
  BY <1>9 DEF vars, PodsMove
<1> QED
  BY <1>1, <1>2, <1>3, <1>5, <1>6, <1>7, <1>8, <1>9 DEF Next, Environment

LEMMA BodiesMove ==
  ASSUME Typed, [Next]_vars
  PROVE  \A k \in Launchers : \/ body'[k].uid \in {0, body[k].uid}
                              \/ \E n \in Names : body'[k].uid = pods[n].uid
<1> USE DEF Typed, TypeOK
<1> SUFFICES ASSUME NEW k \in Launchers
             PROVE  \/ body'[k].uid \in {0, body[k].uid}
                    \/ \E n \in Names : body'[k].uid = pods[n].uid
  OBVIOUS
<1>1. CASE body' = body
  BY <1>1
<1>2. ASSUME NEW l \in Launchers, NEW c \in Command, Begin(l, c)
      PROVE  body'[k].uid \in {0, body[k].uid}
  BY <1>2, KindsOfPods DEF Begin
<1>3. ASSUME NEW l \in Launchers, ReadOrigin(l) PROVE body'[k].uid \in {0, body[k].uid}
  <2>1. [NoPod EXCEPT !.dev = TRUE, !.phase = "pending"].uid = 0
    BY DEF NoPod
  <2> QED
    BY <1>3, <2>1 DEF ReadOrigin
<1>4. ASSUME NEW l \in Launchers, ReadService(l) PROVE body'[k].uid = body[k].uid
  <2> DEFINE b == [body[l] EXCEPT !.service = command[l].service,
                                  !.recorded = selector[command[l].service]]
  <2>1. b.uid = body[l].uid
    BY DEF Pod
  <2>2. body' = [body EXCEPT ![l] = b] \/ body' = body
    BY <1>4 DEF ReadService
  <2> HIDE DEF b
  <2> QED
    BY <2>1, <2>2
<1>5. ASSUME NEW l \in Launchers, Identify(l)
      PROVE  \/ body'[k].uid = body[k].uid \/ \E n \in Names : body'[k].uid = pods[n].uid
  <2> DEFINE n == command[l].name
             b == [body[l] EXCEPT !.uid = pods[n].uid]
  <2>1. n \in Names /\ b.uid = pods[n].uid
    BY CommandTypes DEF Pod
  <2>2. body' = [body EXCEPT ![l] = b] \/ body' = body
    BY <1>5 DEF Identify
  <2> HIDE DEF b
  <2> QED
    BY <2>1, <2>2
<1>6. ASSUME NEW l \in Launchers, GetPod(l)
      PROVE  \/ body'[k].uid = body[k].uid \/ \E n \in Names : body'[k].uid = pods[n].uid
  BY <1>6, CommandTypes DEF GetPod
<1>7. ASSUME NEW l \in Launchers, Step(l), \A c \in Command : ~Begin(l, c), ~ReadOrigin(l),
             ~ReadService(l), ~Identify(l), ~GetPod(l)
      PROVE  body' = body
  BY <1>7 DEF Step, Fail, Submit, Wait, Patch, WriteKnownHosts, WriteSshConfig, Restore,
     DeletePod, ForgetSshConfig
<1>8. CASE Environment
  BY <1>1, <1>8 DEF Environment, PodStarts, PodEnds, PodGone, OwnerWrites
<1>9. CASE UNCHANGED vars
  BY <1>1, <1>9 DEF vars
<1> QED
  BY <1>1, <1>2, <1>3, <1>4, <1>5, <1>6, <1>7, <1>8, <1>9 DEF Next, Step

(* A stanza is written from the uid in hand, and removed by a teardown. *)
LEMMA StanzasMove ==
  ASSUME Typed, [Next]_vars
  PROVE  \A k \in Launchers, n \in Names :
           \/ stanza'[k][n] = stanza[k][n]
           \/ /\ WriteSshConfig(k) /\ n = command[k].name /\ stanza'[k][n] = body[k].uid
           \/ /\ ForgetSshConfig(k) /\ n = command[k].name /\ stanza'[k][n] = 0
<1> USE DEF Typed, TypeOK
<1>1. CASE stanza' = stanza
  BY <1>1
<1>2. ASSUME NEW l \in Launchers, WriteSshConfig(l) \/ ForgetSshConfig(l)
      PROVE  \A k \in Launchers, n \in Names :
               \/ stanza'[k][n] = stanza[k][n]
               \/ /\ WriteSshConfig(k) /\ n = command[k].name /\ stanza'[k][n] = body[k].uid
               \/ /\ ForgetSshConfig(k) /\ n = command[k].name /\ stanza'[k][n] = 0
  <2> DEFINE n == command[l].name
  <2>1. n \in Names
    BY CommandTypes
  <2>2. CASE WriteSshConfig(l)
    <3>1. stanza' = [stanza EXCEPT ![l][n] = body[l].uid]
      BY <2>2 DEF WriteSshConfig
    <3> HIDE DEF n
    <3>2. stanza'[l][n] = body[l].uid
      BY <2>1, <3>1
    <3>3. \A k \in Launchers, m \in Names : k # l \/ m # n => stanza'[k][m] = stanza[k][m]
      BY <2>1, <3>1
    <3> QED
      BY <2>2, <3>2, <3>3 DEF n
  <2>3. CASE ForgetSshConfig(l)
    <3>1. stanza' = [stanza EXCEPT ![l][n] = 0]
      BY <2>3 DEF ForgetSshConfig, Unwired
    <3> HIDE DEF n
    <3>2. stanza'[l][n] = 0
      BY <2>1, <3>1
    <3>3. \A k \in Launchers, m \in Names : k # l \/ m # n => stanza'[k][m] = stanza[k][m]
      BY <2>1, <3>1
    <3> QED
      BY <2>3, <3>2, <3>3 DEF n
  <2> QED
    BY <1>2, <2>2, <2>3
<1>3. ASSUME NEW l \in Launchers, Step(l), ~WriteSshConfig(l), ~ForgetSshConfig(l)
      PROVE  stanza' = stanza
  BY <1>3 DEF Step, Begin, Fail, ReadOrigin, ReadService, Submit, Wait, Patch, Identify,
     WriteKnownHosts, GetPod, Restore, DeletePod, laptop
<1>4. CASE Environment
  BY <1>1, <1>4 DEF Environment, PodStarts, PodEnds, PodGone, OwnerWrites, laptop
<1>5. CASE UNCHANGED vars
  BY <1>1, <1>5 DEF vars
<1> QED
  BY <1>1, <1>2, <1>3, <1>4, <1>5 DEF Next

LEMMA UidsStayBounded ==
  ASSUME Typed, Fresh, [Next]_vars PROVE UidsBounded'
<1> USE DEF Typed, TypeOK, Fresh, UidsBounded
<1>1. PodsMove
  BY PodsMoveSoundly
<1>2. uids' \in Nat /\ uids <= uids'
  BY <1>1 DEF PodsMove, Stores, Ages, Removes
<1>3. \A n \in Names : pods[n].uid \in Nat
  BY PodUpdates
<1>4. \A n \in Names : pods'[n].uid <= uids'
  <2>1. ASSUME NEW m \in Names, Stores(m) \/ Ages(m) PROVE \A n \in Names : pods'[n].uid <= uids'
    BY <1>2, <1>3, <2>1 DEF Stores, Ages
  <2>2. ASSUME NEW m \in Names, Removes(m) PROVE \A n \in Names : pods'[n].uid <= uids'
    BY <1>2, <1>3, <2>2, KindsOfPods DEF Removes
  <2>3. CASE UNCHANGED <<pods, uids>>
    BY <2>3
  <2> QED
    BY <1>1, <2>1, <2>2, <2>3 DEF PodsMove
<1>5. \A k \in Launchers : body[k].uid \in Nat
  BY PodUpdates
<1>6. \A k \in Launchers : body'[k].uid <= uids'
  BY <1>2, <1>3, <1>5, BodiesMove
<1>7. \A k \in Launchers, n \in Names : stanza'[k][n] <= uids'
  BY <1>2, <1>5, StanzasMove
<1> QED
  BY <1>4, <1>6, <1>7

LEMMA PodKindsStay ==
  ASSUME Typed, Fresh, [Next]_vars PROVE PodKinds'
<1> USE DEF Typed, TypeOK, Fresh
<1>1. PodsMove
  BY PodsMoveSoundly
<1>2. uids + 1 # 0
  OBVIOUS
<1> DEFINE Kind(p) == (p.dev /\ p.uid # 0) \/ p \in {NoPod, Original}
<1>3. ASSUME NEW m \in Names, Stores(m) \/ Ages(m) PROVE \A n \in Names : Kind(pods'[n])
  <2>1. Kind(pods'[m])
    <3>1. CASE Stores(m)
      BY <1>2, <3>1 DEF Stores
    <3>2. CASE Ages(m)
      BY <3>2, KindsOfPods DEF Ages, PodKinds
    <3> QED
      BY <1>3, <3>1, <3>2
  <2> QED
    BY <1>3, <2>1 DEF Stores, Ages, PodKinds
<1>4. ASSUME NEW m \in Names, Removes(m) PROVE \A n \in Names : Kind(pods'[n])
  BY <1>4 DEF Removes, PodKinds
<1>5. CASE UNCHANGED <<pods, uids>>
  BY <1>5 DEF PodKinds
<1> QED
  BY <1>1, <1>3, <1>4, <1>5 DEF PodsMove, PodKinds

(* What a step leaves alone. *)
Quiet(k) == /\ pc'[k] = pc[k] /\ command'[k] = command[k] /\ body'[k] = body[k]
            /\ stanza'[k] = stanza[k] /\ outcome'[k] = outcome[k]

LEMMA OthersAreQuiet ==
  ASSUME Typed, NEW k \in Launchers,
         \/ \E l \in Launchers : k # l /\ Step(l)
         \/ Environment
         \/ UNCHANGED vars
  PROVE  Quiet(k)
<1> USE DEF Typed, TypeOK, Quiet
<1>1. ASSUME NEW l \in Launchers, k # l, Step(l) PROVE Quiet(k)
  <2>1. ASSUME NEW c \in Command, Begin(l, c) PROVE Quiet(k)
    BY <1>1, <2>1 DEF Begin, laptop
  <2>2. ASSUME Fail(l) \/ Wait(l) \/ Submit(l) \/ Patch(l) \/ Restore(l) \/ DeletePod(l)
        PROVE  Quiet(k)
    BY <1>1, <2>2 DEF Fail, Wait, Submit, Patch, Restore, DeletePod, Answered, Goto, Return,
       begun, laptop
  <2>3. ASSUME ReadOrigin(l) \/ ReadService(l) \/ Identify(l) \/ GetPod(l) PROVE Quiet(k)
    BY <1>1, <2>3 DEF ReadOrigin, ReadService, Identify, GetPod, Goto, Return, begun, laptop
  <2>4. ASSUME WriteKnownHosts(l) \/ WriteSshConfig(l) \/ ForgetSshConfig(l) PROVE Quiet(k)
    BY <1>1, <2>4 DEF WriteKnownHosts, WriteSshConfig, ForgetSshConfig, Unwired, Goto, Return,
       begun
  <2> QED
    BY <1>1, <2>1, <2>2, <2>3, <2>4 DEF Step
<1>2. CASE Environment
  BY <1>2 DEF Environment, PodStarts, PodEnds, PodGone, OwnerWrites, begun, laptop
<1>3. CASE UNCHANGED vars
  BY <1>3 DEF vars
<1> QED
  BY <1>1, <1>2, <1>3

LEMMA StampedWhenQuiet ==
  ASSUME Typed, Fresh, [Next]_vars, NEW k \in Launchers, Quiet(k) PROVE Stamped(k)'
<1> USE DEF Typed, TypeOK, Fresh, Quiet
<1> DEFINE n == command[k].name
<1>1. n \in Names /\ stanza[k][n] \in Nat /\ stanza[k][n] <= uids
  BY CommandTypes DEF UidsBounded
<1>2. PodsMove
  BY PodsMoveSoundly
<1>3. \/ pods'[n] = pods[n]
      \/ pods'[n] = NoPod
      \/ pods'[n].dev /\ pods'[n].uid = uids + 1
      \/ pods'[n].dev /\ pods'[n].uid = pods[n].uid
  BY <1>1, <1>2 DEF PodsMove, Stores, Ages, Removes
<1>4. pods'[n] = Original => pods[n] = Original
  BY <1>3, KindsOfPods
<1>5. pods[n].uid = 0 \/ stanza[k][n] < pods[n].uid
        => pods'[n].uid = 0 \/ stanza[k][n] < pods'[n].uid
  BY <1>1, <1>3, KindsOfPods
<1> QED
  BY <1>4, <1>5 DEF Stamped

LEMMA StampedByStep ==
  ASSUME Typed, Fresh, NEW k \in Launchers, Step(k) PROVE Stamped(k)'
<1> USE DEF Typed, TypeOK, Fresh
<1> DEFINE n == command[k].name
<1>1. n \in Names
  BY CommandTypes
<1>2. CASE pc'[k] \in {"idle", "origin", "service", "submit", "get", "restore", "delete"}
  BY <1>2 DEF Stamped
<1>3. CASE Submit(k)
  <2>1. Stored(k).dev
    BY <1>3 DEF Submit, Stored, Staged, Pod
  <2>2. pods'[n] = Stored(k) \/ pc'[k] = "idle"
    BY <1>1, <1>3 DEF Submit, Return
  <2>3. pc'[k] \in {"idle", "wait"} /\ command' = command
    BY <1>3 DEF Submit, Answered, Goto, Return, begun
  <2> QED
    BY <1>2, <2>1, <2>2, <2>3, KindsOfPods DEF Stamped
<1>4. CASE Wait(k) \/ Patch(k)
  <2>1. pods' = pods /\ pc'[k] \in {"idle", "patch", "identify"} /\ command' = command
    BY <1>4 DEF Wait, Patch, Answered, Goto, Return, begun
  <2>2. pods[n] # Original
    BY <1>4 DEF Wait, Patch, Stamped
  <2> QED
    BY <1>2, <2>1, <2>2 DEF Stamped
<1>5. CASE Identify(k)
  <2>1. pc'[k] \in {"idle", "pin"} /\ command' = command
    BY <1>5 DEF Identify, Goto, Return, begun
  <2>2. ASSUME pc'[k] = "pin" PROVE body'[k].uid # 0
    <3>1. pods[n] # NoPod /\ pods[n] # Original
      BY <1>5, <2>2 DEF Identify, Return, Stamped
    <3>2. pods[n].uid # 0
      BY <1>1, <3>1 DEF PodKinds
    <3>3. body' = [body EXCEPT ![k] = [body[k] EXCEPT !.uid = pods[n].uid]]
      BY <1>5, <2>2 DEF Identify, Return
    <3>4. body'[k] = [body[k] EXCEPT !.uid = pods[n].uid]
      BY <3>3
    <3>5. body[k] \in Pod
      OBVIOUS
    <3> QED
      BY <3>2, <3>4, <3>5 DEF Pod
  <2> QED
    BY <1>2, <2>1, <2>2 DEF Stamped
<1>6. CASE WriteKnownHosts(k)
  BY <1>6 DEF WriteKnownHosts, Goto, begun, Stamped
<1>7. CASE DeletePod(k)
  <2>1. pods'[n].uid = 0 /\ command' = command /\ pc'[k] \in {"idle", "forget"}
    BY <1>1, <1>7, KindsOfPods DEF DeletePod, Answered, Goto, Return, begun
  <2> QED
    BY <1>2, <2>1 DEF Stamped
<1>8. ASSUME ~Submit(k), ~Wait(k), ~Patch(k), ~Identify(k), ~WriteKnownHosts(k), ~DeletePod(k)
      PROVE  pc'[k] \in {"idle", "origin", "service", "submit", "get", "restore", "delete"}
  BY <1>8, CommandTypes DEF Step, Begin, Fail, ReadOrigin, ReadService, WriteSshConfig, GetPod,
     Restore, ForgetSshConfig, Answered, Goto, Return
<1> QED
  BY <1>2, <1>3, <1>4, <1>5, <1>6, <1>7, <1>8

LEMMA FreshStays == Typed /\ Fresh /\ [Next]_vars => Fresh'
<1> SUFFICES ASSUME Typed, Fresh, [Next]_vars PROVE Fresh'
  OBVIOUS
<1>1. UidsBounded' /\ PodKinds'
  BY UidsStayBounded, PodKindsStay
<1>2. ASSUME NEW k \in Launchers PROVE Stamped(k)'
  <2>1. CASE Step(k)
    BY <2>1, StampedByStep
  <2>2. CASE ~Step(k)
    <3>1. Quiet(k)
      BY <2>2, OthersAreQuiet DEF Next
    <3> QED
      BY <3>1, StampedWhenQuiet
  <2> QED
    BY <2>1, <2>2
<1> QED
  BY <1>1, <1>2 DEF Fresh

LEMMA TypedStays == Typed /\ [Next]_vars => Typed'
  BY TypedStep, TypedEnvironment, TypedStutter DEF Next

(* However many laptops create and tear down pods of one name: none of them  *)
(* removes a stanza while the pod it speaks to is there.                     *)
THEOREM StanzasOutlivePods == Spec => StanzaOutlivesItsPod
<1> DEFINE Keeps == \A l \in Launchers, n \in Names :
                      stanza[l][n] # 0 /\ stanza'[l][n] = 0 => pods[n].uid # stanza[l][n]
<1>1. Init => Typed /\ Fresh
  BY TypedInit, FreshInit
<1>2. Typed /\ Fresh /\ [Next]_vars => (Typed /\ Fresh)'
  BY TypedStays, FreshStays
<1>3. Typed /\ Fresh /\ [Next]_vars => [Keeps]_vars
  <2> SUFFICES ASSUME Typed, Fresh, [Next]_vars, NEW l \in Launchers, NEW n \in Names,
                      stanza[l][n] # 0, stanza'[l][n] = 0
               PROVE  pods[n].uid # stanza[l][n]
    OBVIOUS
  <2>1. CASE ForgetSshConfig(l) /\ n = command[l].name
    <3>1. pods[n].uid = 0 \/ stanza[l][n] < pods[n].uid
      BY <2>1 DEF ForgetSshConfig, Fresh, Stamped
    <3>2. stanza[l][n] \in Nat /\ pods[n].uid \in Nat
      BY PodUpdates DEF Typed, TypeOK
    <3> QED
      BY <3>1, <3>2
  <2>2. CASE WriteSshConfig(l) /\ stanza'[l][n] = body[l].uid
    BY <2>2 DEF WriteSshConfig, Fresh, Stamped
  <2> QED
    BY <2>1, <2>2, StanzasMove
<1> QED
  BY <1>1, <1>2, <1>3, PTL DEF Spec, StanzaOutlivesItsPod

-----------------------------------------------------------------------------
(* Loans. *)

LEMMA LoanInit == ASSUME Init, NEW l \in Launchers PROVE Loan(l)
<1>1. \A n \in Names, s \in Services : ~Records(n, s)
  BY KindsOfPods DEF Init, Records
<1>2. RecordsAreExact
  BY <1>1 DEF RecordsAreExact
<1>3. selector = owner /\ \A s \in Services : selector[s] # DevPods
  BY DevPodAssumption DEF Init, DevPods, NoSelector
<1>4. Undoable /\ NeverDark
  BY <1>3 DEF Undoable, NeverDark
<1>5. Lending(l) /\ Returning(l)
  BY DEF Init, Lending, Returning
<1> QED
  BY <1>2, <1>4, <1>5 DEF Loan

LEMMA ClusterIsQuiet ==
  ASSUME RecordsAreExact, Undoable, NeverDark,
         UNCHANGED <<pods, selector, owner, dark>>, tampered \subseteq tampered'
  PROVE  (RecordsAreExact /\ Undoable /\ NeverDark)'
<1>1. \A n \in Names, s \in Services : Records(n, s)' <=> Records(n, s)
  BY DEF Records
<1> QED
  BY <1>1 DEF RecordsAreExact, Undoable, NeverDark

(* The environment, whatever the launcher is at. *)
LEMMA LoanPodStarts ==
  ASSUME Typed, NEW l \in Launchers, Loan(l), NEW n \in Names, PodStarts(n) PROVE Loan(l)'
<1> USE DEF Typed, TypeOK
<1> DEFINE p == [pods[n] EXCEPT !.phase = "running"]
<1>1. pods' = [pods EXCEPT ![n] = p]
  BY DEF PodStarts
<1>2. /\ p.dev = pods[n].dev /\ p.service = pods[n].service
      /\ p.recorded = pods[n].recorded /\ p.phase = "running"
  BY PodPhases
<1> HIDE DEF p
<1>3. \A m \in Names : /\ pods'[m].dev = pods[m].dev /\ pods'[m].service = pods[m].service
                       /\ pods'[m].recorded = pods[m].recorded
                       /\ pods[m].phase = "running" => pods'[m].phase = "running"
  BY <1>1, <1>2
<1>4. UNCHANGED <<selector, owner, tampered, dark, pc, command, body>>
  BY DEF PodStarts, history, begun
<1>5. \A m \in Names, s \in Services : Records(m, s)' <=> Records(m, s)
  BY <1>3 DEF Records
<1>6. (RecordsAreExact /\ Undoable /\ NeverDark)'
  <2>1. RecordsAreExact'
    BY <1>3, <1>4, <1>5 DEF Loan, RecordsAreExact
  <2>2. Undoable'
    BY <1>3, <1>4, <1>5 DEF Loan, Undoable
  <2>3. NeverDark'
    BY <1>3, <1>4, <1>5 DEF Loan, NeverDark
  <2> QED
    BY <2>1, <2>2, <2>3
<1>7. Lending(l)' /\ Returning(l)'
  BY <1>3, <1>4, <1>5, CommandTypes DEF Loan, Lending, Returning
<1> QED
  BY <1>6, <1>7 DEF Loan

LEMMA LoanPodEnds ==
  ASSUME Typed, NEW l \in Launchers, Loan(l), NEW n \in Names, PodEnds(n) PROVE Loan(l)'
<1> USE DEF Typed, TypeOK
<1> DEFINE p == [pods[n] EXCEPT !.phase = "ended"]
<1>1. pods' = [pods EXCEPT ![n] = p]
  BY DEF PodEnds
<1>2. p.dev = pods[n].dev /\ p.service = pods[n].service /\ p.recorded = pods[n].recorded
  BY PodPhases
<1> HIDE DEF p
<1>3. \A m \in Names : /\ pods'[m].dev = pods[m].dev /\ pods'[m].service = pods[m].service
                       /\ pods'[m].recorded = pods[m].recorded
                       /\ m # n => pods'[m] = pods[m]
  BY <1>1, <1>2
<1>4. /\ UNCHANGED <<selector, owner, tampered, pc, command, body>>
      /\ dark' = dark \cup {pods[n].service}
  BY DEF PodEnds, begun
<1>5. \A m \in Names, s \in Services : Records(m, s)' <=> Records(m, s)
  BY <1>3 DEF Records
<1>6. \A s \in Services \ dark', m \in Names : Records(m, s) => pods'[m] = pods[m]
  BY <1>3, <1>4 DEF Records
<1>7. (RecordsAreExact /\ Undoable)'
  <2>1. RecordsAreExact'
    BY <1>3, <1>4, <1>5 DEF Loan, RecordsAreExact
  <2>2. Undoable'
    BY <1>3, <1>4, <1>5 DEF Loan, Undoable
  <2> QED
    BY <2>1, <2>2
<1>8. NeverDark'
  BY <1>4, <1>5, <1>6 DEF Loan, NeverDark
<1>9. Lending(l)'
  BY <1>4, <1>5, <1>6, CommandTypes DEF Loan, Lending
<1>10. Returning(l)'
  BY <1>3, <1>4, CommandTypes DEF Loan, Returning
<1> QED
  BY <1>7, <1>8, <1>9, <1>10 DEF Loan

LEMMA LoanPodGone ==
  ASSUME Typed, NEW l \in Launchers, Loan(l), NEW n \in Names, PodGone(n) PROVE Loan(l)'
<1> USE DEF Typed, TypeOK
<1>1. /\ UNCHANGED <<selector, owner, dark, pc, command, body>>
      /\ tampered' = tampered \cup {pods[n].service}
      /\ pods' = [pods EXCEPT ![n] = NoPod]
  BY DEF PodGone, begun
<1>2. ~pods'[n].dev /\ \A m \in Names : m # n => pods'[m] = pods[m]
  BY <1>1, KindsOfPods
<1>3. \A m \in Names, s \in Services \ tampered' :
        Records(m, s) => pods'[m] = pods[m] /\ Records(m, s)'
  BY <1>1, <1>2 DEF Records
<1>4. \A m \in Names, s \in Services : Records(m, s)' => pods'[m] = pods[m] /\ Records(m, s)
  BY <1>2 DEF Records
<1>5. RecordsAreExact'
  BY <1>1, <1>4 DEF Loan, RecordsAreExact
<1>6. Undoable' /\ NeverDark'
  BY <1>1, <1>3 DEF Loan, Undoable, NeverDark
<1>7. Lending(l)'
  BY <1>1, <1>3, CommandTypes DEF Loan, Lending
<1>8. Returning(l)'
  BY <1>1, <1>2, CommandTypes DEF Loan, Returning
<1> QED
  BY <1>5, <1>6, <1>7, <1>8 DEF Loan

LEMMA LoanOwnerWrites ==
  ASSUME Typed, NEW l \in Launchers, Loan(l),
         NEW s \in Services, NEW v \in Selectors, OwnerWrites(s, v)
  PROVE  Loan(l)'
<1> USE DEF Typed, TypeOK
<1>1. /\ UNCHANGED <<pods, dark, pc, command, body>>
      /\ selector'[s] = v /\ owner'[s] = v /\ v # DevPods
      /\ \A t \in Services : t # s => selector'[t] = selector[t] /\ owner'[t] = owner[t]
      /\ tampered \subseteq tampered'
  BY DevPodAssumption DEF OwnerWrites, begun
<1>2. s \notin tampered' => ~OnLoan(s)
  BY DEF OwnerWrites
<1>3. ASSUME s \notin tampered'
      PROVE  /\ \A n \in Names : ~Records(n, s)
             /\ body[l].service = s => pc[l] = "idle"
  BY <1>2, <1>3 DEF OnLoan
<1>4. \A n \in Names, t \in Services : Records(n, t)' <=> Records(n, t)
  BY <1>1 DEF Records
<1>5. RecordsAreExact'
  <2> SUFFICES ASSUME NEW t \in Services \ tampered', NEW n \in Names, Records(n, t)
               PROVE  pods[n].recorded = owner'[t]
    BY <1>1, <1>4 DEF RecordsAreExact
  <2>1. t # s
    BY <1>3
  <2>2. t \notin tampered /\ owner'[t] = owner[t]
    BY <1>1, <2>1
  <2> QED
    BY <2>2 DEF Loan, RecordsAreExact
<1>6. Undoable' /\ NeverDark'
  BY <1>1, <1>4 DEF Loan, Undoable, NeverDark
<1>7. Lending(l)'
  <2> SUFFICES ASSUME NEW t \in Services \ tampered', body[l].service = t
               PROVE  /\ pc[l] \in {"submit", "wait", "patch", "restore"} =>
                           body[l].recorded = owner'[t]
                      /\ pc[l] \in {"wait", "patch"} => Records(command[l].name, t)
                      /\ pc[l] = "patch" /\ t \notin dark =>
                           pods[command[l].name].phase = "running"
    BY <1>1, <1>4, CommandTypes DEF Lending
  <2>1. CASE t = s
    BY <1>3, <2>1
  <2>2. CASE t # s
    <3>1. t \notin tampered /\ owner'[t] = owner[t]
      BY <1>1, <2>2
    <3> QED
      BY <3>1 DEF Loan, Lending
  <2> QED
    BY <2>1, <2>2
<1>8. Returning(l)'
  BY <1>1 DEF Loan, Returning
<1> QED
  BY <1>5, <1>6, <1>7, <1>8 DEF Loan

LEMMA LoanEnvironment ==
  ASSUME Typed, NEW l \in Launchers, Loan(l), Environment PROVE Loan(l)'
BY LoanPodStarts, LoanPodEnds, LoanPodGone, LoanOwnerWrites DEF Environment

(* Steps of the launcher that leave the cluster alone. *)
LEMMA LoanQuietStep ==
  ASSUME Typed, NEW l \in Launchers, Loan(l), Step(l),
         ~Submit(l), ~Patch(l), ~Restore(l), ~DeletePod(l)
  PROVE  Loan(l)'
<1> USE DEF Typed, TypeOK
<1>1. UNCHANGED <<pods, selector, owner, dark>> /\ tampered \subseteq tampered'
  BY DEF Step, Begin, Fail, ReadOrigin, ReadService, Wait, Identify, WriteKnownHosts,
     WriteSshConfig, GetPod, ForgetSshConfig, history
<1>2. (RecordsAreExact /\ Undoable /\ NeverDark)'
  BY <1>1, ClusterIsQuiet DEF Loan
<1>3. \A n \in Names, s \in Services : Records(n, s)' <=> Records(n, s)
  BY <1>1 DEF Records
<1>4. CASE pc'[l] \in {"idle", "origin", "service", "get", "identify", "pin", "stanza"}
  <2>1. Lending(l)' /\ Returning(l)'
    BY <1>4 DEF Lending, Returning
  <2> QED
    BY <1>2, <2>1 DEF Loan
<1>5. CASE ReadOrigin(l)
  <2>1. pc'[l] = "submit" => body'[l].service = NoService
    BY <1>5 DEF ReadOrigin, Return, NoPod
  <2>2. pc'[l] \in {"idle", "service", "submit"}
    BY <1>5 DEF ReadOrigin, Goto, Return
  <2>3. Lending(l)' /\ Returning(l)'
    BY <2>1, <2>2, DevPodAssumption DEF Lending, Returning
  <2> QED
    BY <1>2, <2>3 DEF Loan
<1>6. CASE ReadService(l)
  <2> DEFINE s == command[l].service
             b == [body[l] EXCEPT !.service = s, !.recorded = selector[s]]
  <2>1. s \in Services
    BY <1>6 DEF ReadService, Staged
  <2>2. b.service = s /\ b.recorded = selector[s]
    BY DEF Pod
  <2>3. pc'[l] = "submit" => body'[l] = b /\ (s \notin tampered' => selector[s] # DevPods)
    BY <1>6 DEF ReadService, Return
  <2> HIDE DEF b
  <2>4. pc'[l] \in {"idle", "submit"}
    BY <1>6 DEF ReadService, Goto, Return
  <2>5. s \notin tampered' /\ selector[s] # DevPods => selector[s] = owner[s]
    BY <1>1, <2>1 DEF Loan, Undoable
  <2>6. Lending(l)' /\ Returning(l)'
    BY <1>1, <2>2, <2>3, <2>4, <2>5 DEF Lending, Returning
  <2> QED
    BY <1>2, <2>6 DEF Loan
<1>7. CASE Wait(l)
  <2>1. UNCHANGED <<command, body, tampered>> /\ pc'[l] \in {"idle", "patch", "identify"}
    BY <1>7 DEF Wait, Goto, Return, begun, history
  <2>2. /\ pc[l] = "wait"
        /\ pc'[l] = "patch" => pods[command[l].name].phase = "running"
    BY <1>7 DEF Wait, Goto, Return
  <2>3. Lending(l)'
    BY <1>1, <1>3, <2>1, <2>2, CommandTypes DEF Loan, Lending
  <2>4. Returning(l)'
    BY <2>1 DEF Returning
  <2> QED
    BY <1>2, <2>3, <2>4 DEF Loan
<1>8. CASE GetPod(l)
  <2> DEFINE n == command[l].name
  <2>1. n \in Names /\ UNCHANGED <<command, tampered>>
    BY <1>8, CommandTypes DEF GetPod, begun, history
  <2>2. /\ pc'[l] \in {"idle", "restore", "delete"}
        /\ pc'[l] # "idle" => /\ pods[n].dev /\ body'[l] = pods[n]
                              /\ pc'[l] = "delete" => pods[n].service = NoService
    BY <1>8 DEF GetPod, Goto, Return
  <2>3. Lending(l)'
    BY <1>1, <2>1, <2>2 DEF Loan, RecordsAreExact, Records, Lending
  <2>4. Returning(l)'
    BY <1>1, <2>1, <2>2, DevPodAssumption DEF Returning
  <2> QED
    BY <1>2, <2>3, <2>4 DEF Loan
<1>9. ASSUME ~ReadOrigin(l), ~ReadService(l), ~Wait(l), ~GetPod(l)
      PROVE  pc'[l] \in {"idle", "origin", "service", "get", "identify", "pin", "stanza"}
  BY <1>9, CommandTypes DEF Step, Begin, Fail, Identify, WriteKnownHosts, WriteSshConfig,
     ForgetSshConfig, Goto, Return
<1> QED
  BY <1>4, <1>5, <1>6, <1>7, <1>8, <1>9

LEMMA LoanSubmit ==
  ASSUME Typed, NEW l \in Launchers, Loan(l), Submit(l) PROVE Loan(l)'
<1> USE DEF Typed, TypeOK
<1> DEFINE n == command[l].name
<1>1. n \in Names /\ pc[l] = "submit" /\ body[l].dev /\ body[l] \in Pod
  BY CommandTypes DEF Submit, Staged
<1>2. /\ UNCHANGED <<selector, owner, tampered, dark, command, body>>
      /\ pc'[l] \in {"idle", "wait"}
  BY DEF Submit, Answered, Goto, Return, begun, history
<1>3. CASE pods[n] = NoPod
  <2>1. pods' = [pods EXCEPT ![n] = Stored(l)]
    BY <1>3 DEF Submit
  <2>2. /\ Stored(l).dev /\ Stored(l).service = body[l].service
        /\ Stored(l).recorded = body[l].recorded
    BY <1>1 DEF Stored, Pod
  <2>3. /\ pods'[n] = Stored(l) /\ ~pods[n].dev
        /\ \A m \in Names : m # n => pods'[m] = pods[m]
    BY <1>1, <1>3, <2>1, KindsOfPods
  <2>4. \A m \in Names, s \in Services : Records(m, s) => m # n /\ pods'[m] = pods[m] /\ Records(m, s)'
    BY <2>3 DEF Records
  <2>5. \A s \in Services : body[l].service = s => Records(n, s)'
    BY <1>2, <2>2, <2>3 DEF Records
  <2>6. RecordsAreExact'
    <3> SUFFICES ASSUME NEW s \in Services \ tampered, NEW m \in Names, Records(m, s)'
                 PROVE  pods'[m].recorded = owner[s]
      BY <1>2 DEF RecordsAreExact
    <3>1. CASE m = n
      BY <1>1, <2>2, <2>3, <3>1 DEF Loan, Lending, Records
    <3>2. CASE m # n
      BY <2>3, <3>2 DEF Loan, RecordsAreExact, Records
    <3> QED
      BY <3>1, <3>2
  <2>7. Undoable'
    BY <1>2, <2>4 DEF Loan, Undoable
  <2>8. NeverDark'
    BY <1>2, <2>4 DEF Loan, NeverDark
  <2>9. Lending(l)'
    BY <1>1, <1>2, <2>5 DEF Loan, Lending
  <2>10. Returning(l)'
    BY <1>2 DEF Returning
  <2> QED
    BY <2>6, <2>7, <2>8, <2>9, <2>10 DEF Loan
<1>4. CASE pods[n] # NoPod
  <2>1. UNCHANGED pods /\ pc'[l] = "idle"
    BY <1>4 DEF Submit, Return
  <2>2. (RecordsAreExact /\ Undoable /\ NeverDark)'
    BY <1>2, <2>1, ClusterIsQuiet DEF Loan
  <2>3. Lending(l)' /\ Returning(l)'
    BY <2>1 DEF Lending, Returning
  <2> QED
    BY <2>2, <2>3 DEF Loan
<1> QED
  BY <1>3, <1>4

LEMMA LoanPatch ==
  ASSUME Typed, NEW l \in Launchers, Loan(l), Patch(l) PROVE Loan(l)'
<1> USE DEF Typed, TypeOK
<1> DEFINE s == body[l].service
           n == command[l].name
<1>1. /\ n \in Names /\ s \in Services /\ pc[l] = "patch"
      /\ UNCHANGED <<pods, owner, tampered, dark>> /\ pc'[l] \in {"idle", "identify"}
      /\ selector' = [selector EXCEPT ![s] = DevPods]
  BY CommandTypes DEF Patch, Staged, Answered, Goto, Return, begun, history
<1>2. \A m \in Names, t \in Services : Records(m, t)' <=> Records(m, t)
  BY <1>1 DEF Records
<1>3. RecordsAreExact'
  BY <1>1, <1>2 DEF Loan, RecordsAreExact
<1>4. s \notin tampered => /\ Records(n, s)
                          /\ pods[n].recorded = owner[s]
  BY <1>1 DEF Loan, Lending, RecordsAreExact
<1>5. s \notin tampered \cup dark => pods[n].phase = "running"
  BY <1>1 DEF Loan, Lending
<1> HIDE DEF s, n
<1>6. selector'[s] = DevPods /\ \A t \in Services : t # s => selector'[t] = selector[t]
  BY <1>1
<1>7. Undoable'
  BY <1>1, <1>2, <1>4, <1>6 DEF Loan, Undoable
<1>8. NeverDark'
  BY <1>1, <1>2, <1>4, <1>5, <1>6 DEF Loan, NeverDark
<1>9. Lending(l)' /\ Returning(l)'
  BY <1>1 DEF Lending, Returning
<1> QED
  BY <1>3, <1>7, <1>8, <1>9 DEF Loan

LEMMA LoanRestore ==
  ASSUME Typed, NEW l \in Launchers, Loan(l), Restore(l) PROVE Loan(l)'
<1> USE DEF Typed, TypeOK
<1> DEFINE s == body[l].service
<1>1. /\ s \in Services /\ pc[l] = "restore" /\ command[l].name \in Names
      /\ UNCHANGED <<pods, owner, tampered, dark, command, body>>
      /\ pc'[l] \in {"idle", "delete"}
      /\ selector' = [selector EXCEPT ![s] = body[l].recorded]
  BY CommandTypes DEF Restore, Staged, Answered, Goto, Return, begun, history
<1>2. \A m \in Names, t \in Services : Records(m, t)' <=> Records(m, t)
  BY <1>1 DEF Records
<1>3. RecordsAreExact'
  BY <1>1, <1>2 DEF Loan, RecordsAreExact
<1>4. s \notin tampered => body[l].recorded = owner[s] /\ owner[s] # DevPods
  BY <1>1, DevPodAssumption DEF Loan, Lending, DevPods, NoSelector
<1>5. /\ selector'[s] = body[l].recorded
      /\ \A t \in Services : t # s => selector'[t] = selector[t]
  BY <1>1
<1>6. Undoable'
  BY <1>1, <1>2, <1>4, <1>5 DEF Loan, Undoable
<1>7. NeverDark'
  BY <1>1, <1>2, <1>4, <1>5 DEF Loan, NeverDark
<1>8. Lending(l)'
  BY <1>1 DEF Lending
<1>9. Returning(l)'
  BY <1>1, <1>4, <1>5 DEF Loan, Returning
<1> QED
  BY <1>3, <1>6, <1>7, <1>8, <1>9 DEF Loan

LEMMA LoanDeletePod ==
  ASSUME Typed, NEW l \in Launchers, Loan(l), DeletePod(l) PROVE Loan(l)'
<1> USE DEF Typed, TypeOK
<1> DEFINE n == command[l].name
<1>1. /\ n \in Names /\ pc[l] = "delete"
      /\ UNCHANGED <<selector, owner, tampered, dark, command, body>>
      /\ pc'[l] \in {"idle", "forget"}
      /\ pods' = [pods EXCEPT ![n] = NoPod]
  BY CommandTypes DEF DeletePod, Answered, Goto, Return, begun, history
<1>2. ~pods'[n].dev /\ \A m \in Names : m # n => pods'[m] = pods[m]
  BY <1>1, KindsOfPods
<1>3. \A m \in Names, s \in Services : Records(m, s)' => pods'[m] = pods[m] /\ Records(m, s)
  BY <1>2 DEF Records
<1>4. \A s \in Services \ tampered : Records(n, s) => selector[s] = owner[s]
  BY <1>1 DEF Loan, Returning, Records
<1>5. \A s \in Services : owner[s] # DevPods
  BY DevPodAssumption DEF DevPods, NoSelector
<1>6. \A m \in Names, s \in Services \ tampered :
        Records(m, s) /\ selector[s] = DevPods => pods'[m] = pods[m] /\ Records(m, s)'
  BY <1>2, <1>4, <1>5 DEF Records
<1>7. RecordsAreExact'
  BY <1>1, <1>3 DEF Loan, RecordsAreExact
<1>8. Undoable' /\ NeverDark'
  BY <1>1, <1>6 DEF Loan, Undoable, NeverDark
<1>9. Lending(l)'
  BY <1>1 DEF Lending
<1>10. Returning(l)'
  BY <1>1, <1>2 DEF Loan, Returning
<1> QED
  BY <1>7, <1>8, <1>9, <1>10 DEF Loan

LoanInv == Typed /\ \A l \in Launchers : Loan(l)

LEMMA LoanInvStays == OneLauncher /\ LoanInv /\ [Next]_vars => LoanInv'
<1> SUFFICES ASSUME OneLauncher, LoanInv, [Next]_vars, NEW l \in Launchers PROVE Loan(l)'
  BY TypedStays DEF LoanInv
<1>1. Typed /\ Loan(l)
  BY DEF LoanInv
<1>2. CASE Step(l)
  BY <1>1, <1>2, LoanQuietStep, LoanSubmit, LoanPatch, LoanRestore, LoanDeletePod
<1>3. CASE Environment
  BY <1>1, <1>3, LoanEnvironment
<1>4. CASE UNCHANGED vars
  BY <1>1, <1>4
  DEF vars, Loan, RecordsAreExact, Undoable, NeverDark, Lending, Returning, Records
<1> QED
  BY <1>2, <1>3, <1>4 DEF Next, OneLauncher

LEMMA LoanInvInit == Init => LoanInv
BY TypedInit, LoanInit DEF LoanInv

(* With one laptop at work, whatever is cut off, lost or refused: a Service  *)
(* nobody else interfered with has its owner's selector, or a dev pod on     *)
(* record to restore it from.                                                *)
THEOREM LoansAreUndoable == ASSUME OneLauncher, Launchers # {} PROVE Spec => []Undoable
<1>1. LoanInv => Undoable
  BY DEF LoanInv, Loan
<1>2. LoanInv /\ [Next]_vars => LoanInv'
  BY LoanInvStays
<1> QED
  BY LoanInvInit, <1>1, <1>2, PTL DEF Spec

(* With one laptop at work, a borrowed Service always selects a dev pod that *)
(* runs, unless that pod ended by itself or the loan was interfered with.    *)
THEOREM BorrowedServicesAreServed == ASSUME OneLauncher, Launchers # {} PROVE Spec => []NeverDark
<1>1. LoanInv => NeverDark
  BY DEF LoanInv, Loan
<1>2. LoanInv /\ [Next]_vars => LoanInv'
  BY LoanInvStays
<1> QED
  BY LoanInvInit, <1>1, <1>2, PTL DEF Spec

(* A command in progress has not ended. *)
Awaited == \A l \in Launchers : pc[l] # "idle" => outcome[l] = "none"

LEMMA AwaitedStays == Typed /\ Awaited /\ [Next]_vars => Awaited'
<1> SUFFICES ASSUME Typed, Awaited, [Next]_vars, NEW l \in Launchers, pc'[l] # "idle"
             PROVE  outcome'[l] = "none"
  BY DEF Awaited
<1> USE DEF Typed, TypeOK, Awaited
<1>1. ASSUME NEW k \in Launchers, NEW st \in Stage, Goto(k, st), pc[k] # "idle"
      PROVE  outcome'[l] = "none"
  BY <1>1 DEF Goto
<1>2. ASSUME NEW k \in Launchers, NEW r \in Outcome, Return(k, r), pc[k] # "idle"
      PROVE  outcome'[l] = "none"
  BY <1>2 DEF Return
<1>3. ASSUME NEW k \in Launchers, Step(k) PROVE outcome'[l] = "none"
  <2>1. CASE \E c \in Command : Begin(k, c)
    BY <2>1 DEF Begin
  <2>2. CASE Fail(k) \/ ReadOrigin(k) \/ ReadService(k) \/ Submit(k)
    BY <2>2, <1>1, <1>2
    DEF Fail, ReadOrigin, ReadService, Submit, Answered, Stage, Outcome
  <2>3. CASE Wait(k) \/ Patch(k) \/ Identify(k) \/ WriteKnownHosts(k) \/ WriteSshConfig(k)
    BY <2>3, <1>1, <1>2
    DEF Wait, Patch, Identify, WriteKnownHosts, WriteSshConfig, Answered, Stage, Outcome
  <2>4. CASE GetPod(k) \/ Restore(k) \/ DeletePod(k) \/ ForgetSshConfig(k)
    BY <2>4, <1>1, <1>2
    DEF GetPod, Restore, DeletePod, ForgetSshConfig, Answered, Stage, Outcome
  <2> QED
    BY <1>3, <2>1, <2>2, <2>3, <2>4 DEF Step
<1>4. CASE Environment
  BY <1>4 DEF Environment, PodStarts, PodEnds, PodGone, OwnerWrites
<1>5. CASE UNCHANGED vars
  BY <1>5 DEF vars
<1> QED
  BY <1>3, <1>4, <1>5 DEF Next

(* Only its last step ends a teardown well. *)
LEMMA TeardownEnds ==
  ASSUME Typed, Awaited, [Next]_vars,
         NEW l \in Launchers, pc[l] = "forget", outcome'[l] = "deleted"
  PROVE  ForgetSshConfig(l)
<1> USE DEF Typed, TypeOK
<1>1. outcome[l] = "none"
  BY DEF Awaited
<1>2. ~ UNCHANGED outcome
  BY <1>1
<1>3. ~ Environment /\ ~ UNCHANGED vars
  BY <1>2 DEF Environment, PodStarts, PodEnds, PodGone, OwnerWrites, vars
<1>4. PICK k \in Launchers : Step(k)
  BY <1>3 DEF Next
<1>5. k = l
  BY <1>1, <1>4, OthersAreQuiet DEF Quiet
<1>6. ~ Fail(l)
  BY <1>1 DEF Fail, Return
<1> QED
  BY <1>4, <1>5, <1>6
  DEF Step, Begin, ReadOrigin, ReadService, Submit, Wait, Patch, Identify,
      WriteKnownHosts, WriteSshConfig, GetPod, Restore, DeletePod

(* With one laptop at work, a teardown that ends well leaves neither the     *)
(* pod, nor the loan, nor the wiring.                                        *)
THEOREM TeardownsAreComplete == ASSUME OneLauncher PROVE Spec => TeardownIsComplete
<1> DEFINE Complete ==
      \A l \in Launchers : pc[l] = "forget" /\ outcome'[l] = "deleted" =>
        /\ ~pods'[command[l].name].dev
        /\ body[l].service \in Services \ tampered' =>
             selector'[body[l].service] = owner'[body[l].service]
        /\ stanza'[l][command[l].name] = 0
        /\ body[l].uid \notin pinned'[l]
<1>1. Init => Awaited
  BY DEF Init, Awaited
<1>2. LoanInv /\ Awaited /\ [Next]_vars => (LoanInv /\ Awaited)'
  BY LoanInvStays, AwaitedStays DEF LoanInv
<1>3. ASSUME LoanInv, Awaited, [Next]_vars,
             NEW l \in Launchers, pc[l] = "forget", outcome'[l] = "deleted"
      PROVE  /\ ~pods'[command[l].name].dev
             /\ body[l].service \in Services \ tampered' =>
                  selector'[body[l].service] = owner'[body[l].service]
             /\ stanza'[l][command[l].name] = 0
             /\ body[l].uid \notin pinned'[l]
  <2>1. Typed /\ Returning(l)
    BY <1>3 DEF LoanInv, Loan
  <2>2. ForgetSshConfig(l)
    BY <1>3, <2>1, TeardownEnds
  <2>3. ~pods'[command[l].name].dev
    BY <1>3, <2>1, <2>2 DEF ForgetSshConfig, Returning
  <2>4. body[l].service \in Services \ tampered' =>
          selector'[body[l].service] = owner'[body[l].service]
    BY <1>3, <2>1, <2>2 DEF ForgetSshConfig, Returning, history
  <2>5. command[l].name \in Names
    BY <2>1, CommandTypes DEF Typed, TypeOK
  <2>6. stanza'[l][command[l].name] = 0 /\ body[l].uid \notin pinned'[l]
    BY <2>1, <2>2, <2>5 DEF ForgetSshConfig, Unwired, Typed, TypeOK
  <2> QED
    BY <2>3, <2>4, <2>6
<1>4. LoanInv /\ Awaited /\ [Next]_vars => [Complete]_vars
  BY <1>3
<1> QED
  BY LoanInvInit, <1>1, <1>2, <1>4, PTL DEF Spec, TeardownIsComplete
=============================================================================

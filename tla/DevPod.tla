------------------------------- MODULE DevPod -------------------------------
(***************************************************************************)
(* `podbench dev` and `podbench dev --delete`: a dev pod is cloned from an *)
(* origin, a Service's selector may be borrowed for it, and the teardown   *)
(* gives the selector back, deletes the pod and removes the laptop's ssh   *)
(* wiring.  Nothing holds the two commands together but the annotation on  *)
(* the dev pod that records what was borrowed.                             *)
(*                                                                         *)
(* A launcher is one laptop, running one command at a time; its step is    *)
(* one API call with the decisions taken on the answer, or one local file. *)
(* A command may be killed between any two steps, a call may fail, and a   *)
(* call that was carried out may be reported as failed: its answer was     *)
(* lost, or kubectl was killed at its deadline.  Pods that end or          *)
(* disappear and the Services' owners are the environment.                 *)
(***************************************************************************)
EXTENDS Integers, FiniteSets

CONSTANTS Launchers,     \* laptops
          Names,         \* pod names in use
          Originals,     \* names of the pods that are there from the start
          Managed,       \* those of them a GitOps controller reconciles
          Services,      \* Services in the namespace
          Selectors,     \* the selectors their owners write
          MaxCommands,   \* bound: commands one launcher runs
          MaxFaults      \* bound: faults and foreign changes

DevPods    == "podbench.dev/devpod"   \* devpod_selector: any dev pod
NoSelector == "no selector"           \* a headless or externalName Service
NoService  == "no service"

ASSUME DevPodAssumption ==
  /\ Originals \subseteq Names
  /\ Managed \subseteq Originals
  /\ NoService \notin Services
  /\ Names # {} /\ Selectors # {}
  /\ DevPods \notin Selectors /\ NoSelector \notin Selectors
  /\ MaxCommands \in Nat /\ MaxFaults \in Nat

VARIABLES
  \* the cluster
  pods,        \* the pod of each name, or NoPod
  selector,    \* of each Service
  owner,       \* history: the selector its owner last wrote
  uids,        \* pods created so far
  faults,      \* faults and foreign changes so far
  tampered,    \* history: Services whose loan was interfered with
  dark,        \* history: Services a dev pod of which ended by itself
  \* the laptops
  stanza,      \* config.d: the uid each name's stanza speaks to, or 0
  pinned,      \* known_hosts: the uids whose host keys are pinned
  \* the commands
  pc,          \* the next step of each launcher
  command,     \* the command line in progress
  body,        \* create: the authored manifest; delete: the pod it read
  runs,        \* commands begun
  outcome      \* how the last command ended

history == <<owner, tampered, dark>>
laptop  == <<stanza, pinned>>
begun   == <<command, runs>>
vars    == <<pods, selector, owner, uids, faults, tampered, dark,
             stanza, pinned, pc, command, body, runs, outcome>>

-----------------------------------------------------------------------------
(* A pod: dev is the podbench label (is_dev_pod), service and recorded the   *)
(* annotations of a cutover (recorded_cutover), service being NoService      *)
(* where there are none.                                                     *)
Value == Selectors \cup {DevPods, NoSelector}
Pod == [uid : Nat, dev : BOOLEAN, phase : {"pending", "running", "ended"},
        service : Services \cup {NoService}, recorded : Value]
NoPod == [uid |-> 0, dev |-> FALSE, phase |-> "ended",
          service |-> NoService, recorded |-> NoSelector]

(* create POD --name NAME [--cutover SERVICE], and --delete NAME; --delete    *)
(* takes a reference, and NAME is what _delete_target made of it.            *)
Command == {c \in [verb : {"create", "delete"}, name : Names, origin : Names,
                    service : Services \cup {NoService}] :
              c.verb = "delete" => c.origin = c.name /\ c.service = NoService}
AnyCommand == CHOOSE c \in Command : TRUE

Stage == {"idle", "origin", "service", "submit", "wait", "patch", "identify", "pin",
          "stanza", "get", "restore", "delete", "forget"}
Outcome == {"none", "created", "deleted", "nothing", "failed"}

Original == [NoPod EXCEPT !.phase = "running"]

Records(n, s) == pods[n].dev /\ pods[n].service = s

(* A pod, or a command in progress, knows what to give back. *)
OnLoan(s) == \/ \E n \in Names : Records(n, s)
             \/ \E l \in Launchers : pc[l] # "idle" /\ body[l].service = s

Init ==
  /\ pods = [n \in Names |-> IF n \in Originals THEN Original ELSE NoPod]
  /\ selector \in [Services -> Selectors \cup {NoSelector}]
  /\ owner = selector
  /\ uids = 0
  /\ faults = 0
  /\ tampered = {}
  /\ dark = {}
  /\ stanza = [l \in Launchers |-> [n \in Names |-> 0]]
  /\ pinned = [l \in Launchers |-> {}]
  /\ pc = [l \in Launchers |-> "idle"]
  /\ command = [l \in Launchers |-> AnyCommand]
  /\ body = [l \in Launchers |-> NoPod]
  /\ runs = [l \in Launchers |-> 0]
  /\ outcome = [l \in Launchers |-> "none"]

-----------------------------------------------------------------------------
Goto(l, stage) == pc' = [pc EXCEPT ![l] = stage] /\ UNCHANGED outcome

Return(l, result) == /\ pc' = [pc EXCEPT ![l] = "idle"]
                     /\ outcome' = [outcome EXCEPT ![l] = result]

Fault == faults < MaxFaults /\ faults' = faults + 1

(* The answer to a write that was carried out: it arrives, or it is lost.    *)
Answered(l, stage) == \/ Goto(l, stage) /\ UNCHANGED faults
                      \/ Fault /\ Return(l, "failed")

Begin(l, c) ==
  /\ pc[l] = "idle"
  /\ runs[l] < MaxCommands
  /\ runs' = [runs EXCEPT ![l] = @ + 1]
  /\ command' = [command EXCEPT ![l] = c]
  /\ body' = [body EXCEPT ![l] = NoPod]
  /\ pc' = [pc EXCEPT ![l] = IF c.verb = "create" THEN "origin" ELSE "get"]
  /\ outcome' = [outcome EXCEPT ![l] = "none"]
  /\ UNCHANGED <<pods, selector, uids, faults, history, laptop>>

(* A call fails and was not carried out, or the command is killed. *)
Fail(l) ==
  /\ pc[l] \notin {"idle", "get"}
  /\ Fault
  /\ Return(l, "failed")
  /\ UNCHANGED <<pods, selector, uids, history, laptop, begun, body>>

-----------------------------------------------------------------------------
(* dev: create_dev_pod and seat_ssh_config. *)

(* get_pod of the origin, the walk up its owners and the shape of the clone. *)
(* The walk swallows its errors, so a managed workload passes when a lookup  *)
(* fails.  An origin that does not fit the command line is refused.          *)
ReadOrigin(l) ==
  /\ pc[l] = "origin"
  /\ LET o == command[l].origin IN
     \/ /\ pods[o] # NoPod /\ ~pods[o].dev
        /\ IF o \in Managed THEN Fault ELSE UNCHANGED faults
        /\ body' = [body EXCEPT ![l] = [NoPod EXCEPT !.dev = TRUE, !.phase = "pending"]]
        /\ Goto(l, IF command[l].service = NoService THEN "submit" ELSE "service")
     \/ Return(l, "failed") /\ UNCHANGED <<faults, body>>
  /\ UNCHANGED <<pods, selector, uids, history, laptop, begun>>

(* _service_selector, and the record of it on the manifest.  A selector that *)
(* is on loan already is taken for the Service's own.                        *)
ReadService(l) ==
  /\ pc[l] = "service"
  /\ LET s == command[l].service IN
     \/ /\ selector[s] # NoSelector
        /\ body' = [body EXCEPT ![l].service = s, ![l].recorded = selector[s]]
        /\ tampered' = IF selector[s] = DevPods THEN tampered \cup {s} ELSE tampered
        /\ Goto(l, "submit")
     \/ /\ selector[s] = NoSelector
        /\ Return(l, "failed")
        /\ UNCHANGED <<body, tampered>>
  /\ UNCHANGED <<pods, selector, owner, uids, faults, dark, laptop, begun>>

(* The manifest as it is stored. *)
StoredBare(l) == [body[l] EXCEPT !.uid = uids + 1, !.service = NoService]  \* mistaken
Stored(l) == [body[l] EXCEPT !.uid = uids + 1]

(* create_from_spec: create, so an existing pod of that name is left alone.  *)
Submit(l) ==
  /\ pc[l] = "submit"
  /\ \/ /\ pods[command[l].name] = NoPod
        /\ uids' = uids + 1
        /\ pods' = [pods EXCEPT ![command[l].name] = Stored(l)]
        /\ Answered(l, "wait")
     \/ /\ pods[command[l].name] # NoPod
        /\ Return(l, "failed")
        /\ UNCHANGED <<pods, uids, faults>>
  /\ UNCHANGED <<selector, history, laptop, begun, body>>

WaitCreated(l) ==                               \* mistaken: created will do
  /\ pc[l] = "wait"
  /\ Goto(l, IF body[l].service = NoService THEN "identify" ELSE "patch")
  /\ UNCHANGED <<pods, selector, uids, faults, history, laptop, begun, body>>

(* kubectl wait for phase Running; a timeout leaves the pod. *)
Wait(l) ==
  /\ pc[l] = "wait"
  /\ \/ /\ pods[command[l].name].phase = "running"
        /\ Goto(l, IF body[l].service = NoService THEN "identify" ELSE "patch")
     \/ /\ pods[command[l].name].phase # "running"
        /\ Return(l, "failed")
  /\ UNCHANGED <<pods, selector, uids, faults, history, laptop, begun, body>>

(* cutover_selector_patch *)
Patch(l) ==
  /\ pc[l] = "patch"
  /\ selector' = [selector EXCEPT ![body[l].service] = DevPods]
  /\ Answered(l, "identify")
  /\ UNCHANGED <<pods, uids, history, laptop, begun, body>>

(* probe_ssh_identity: no stanza where sshd would refuse the login.  Then    *)
(* get_pod again, for the uid the host alias is keyed on.                    *)
Identify(l) ==
  /\ pc[l] = "identify"
  /\ LET p == pods[command[l].name] IN
     \/ Return(l, "created") /\ UNCHANGED body
     \/ p # NoPod /\ body' = [body EXCEPT ![l].uid = p.uid] /\ Goto(l, "pin")
     \/ p = NoPod /\ Return(l, "failed") /\ UNCHANGED body
  /\ UNCHANGED <<pods, selector, uids, faults, history, laptop, begun>>

(* write_known_hosts, when the agent returned a host key. *)
WriteKnownHosts(l) ==
  /\ pc[l] = "pin"
  /\ \/ pinned' = [pinned EXCEPT ![l] = @ \cup {body[l].uid}]
     \/ UNCHANGED pinned
  /\ Goto(l, "stanza")
  /\ UNCHANGED <<pods, selector, uids, faults, history, stanza, begun, body>>

(* write_ssh_config *)
WriteSshConfig(l) ==
  /\ pc[l] = "stanza"
  /\ stanza' = [stanza EXCEPT ![l][command[l].name] = body[l].uid]
  /\ Return(l, "created")
  /\ UNCHANGED <<pods, selector, uids, faults, history, pinned, begun, body>>

-----------------------------------------------------------------------------
(* dev --delete: delete_dev_pod. *)

(* get_pod; every failure of it reads as no such pod, and ends well. *)
GetPod(l) ==
  /\ pc[l] = "get"
  /\ LET p == pods[command[l].name] IN
     \/ /\ p.dev
        /\ body' = [body EXCEPT ![l] = p]
        /\ Goto(l, IF p.service = NoService THEN "delete" ELSE "restore")
        /\ UNCHANGED faults
     \/ /\ p # NoPod /\ ~p.dev
        /\ Return(l, "failed")
        /\ UNCHANGED <<faults, body>>
     \/ /\ IF p = NoPod THEN UNCHANGED faults ELSE Fault
        /\ Return(l, "nothing")
        /\ UNCHANGED body
  /\ UNCHANGED <<pods, selector, uids, history, laptop, begun>>

RestoreUnchecked(l) ==                          \* mistaken: a failure is passed over
  /\ pc[l] = "restore"
  /\ \/ /\ selector' = [selector EXCEPT ![body[l].service] = body[l].recorded]
        /\ UNCHANGED faults
     \/ UNCHANGED selector /\ Fault
  /\ Goto(l, "delete")
  /\ UNCHANGED <<pods, uids, history, laptop, begun, body>>

(* service_selector_patch with the recorded selector. *)
Restore(l) ==
  /\ pc[l] = "restore"
  /\ selector' = [selector EXCEPT ![body[l].service] = body[l].recorded]
  /\ Answered(l, "delete")
  /\ UNCHANGED <<pods, uids, history, laptop, begun, body>>

(* What forget_ssh_config leaves of the stanzas. *)
Unwired(l) == [stanza EXCEPT ![l][command[l].name] = 0]

DeletePodForgetting(l) ==                          \* mistaken: the stanza goes first
  /\ pc[l] = "delete"
  /\ stanza' = Unwired(l)
  /\ \/ pods' = [pods EXCEPT ![command[l].name] = NoPod] /\ Goto(l, "forget") /\ UNCHANGED faults
     \/ UNCHANGED pods /\ Fault /\ Return(l, "failed")
  /\ UNCHANGED <<selector, uids, history, pinned, begun, body>>

(* delete_pod, --wait and --ignore-not-found, by name. *)
DeletePod(l) ==
  /\ pc[l] = "delete"
  /\ pods' = [pods EXCEPT ![command[l].name] = NoPod]
  /\ Answered(l, "forget")
  /\ UNCHANGED <<selector, uids, history, laptop, begun, body>>

ForgetSshConfig(l) ==
  /\ pc[l] = "forget"
  /\ stanza' = Unwired(l)
  /\ pinned' = [pinned EXCEPT ![l] = @ \ {body[l].uid}]
  /\ Return(l, "deleted")
  /\ UNCHANGED <<pods, selector, uids, faults, history, begun, body>>

-----------------------------------------------------------------------------
(* The environment. *)

PodStarts(n) ==
  /\ pods[n].phase = "pending"
  /\ pods' = [pods EXCEPT ![n].phase = "running"]
  /\ UNCHANGED <<selector, uids, faults, history, laptop, pc, begun, body, outcome>>

(* restartPolicy is Never: a dev pod that ends stays where it is. *)
PodEnds(n) ==
  /\ pods[n].dev /\ pods[n].phase # "ended"
  /\ Fault
  /\ pods' = [pods EXCEPT ![n].phase = "ended"]
  /\ dark' = dark \cup {pods[n].service}
  /\ UNCHANGED <<selector, owner, uids, tampered, laptop, pc, begun, body, outcome>>

(* Evicted, pruned, or deleted by other means than --delete. *)
PodGone(n) ==
  /\ pods[n].dev
  /\ Fault
  /\ pods' = [pods EXCEPT ![n] = NoPod]
  /\ tampered' = tampered \cup {pods[n].service}
  /\ UNCHANGED <<selector, owner, uids, dark, laptop, pc, begun, body, outcome>>

(* helm upgrade, kubectl apply, self-heal. *)
OwnerWrites(s, v) ==
  /\ Fault
  /\ selector' = [selector EXCEPT ![s] = v]
  /\ owner' = [owner EXCEPT ![s] = v]
  /\ tampered' = IF OnLoan(s) THEN tampered \cup {s} ELSE tampered
  /\ UNCHANGED <<pods, uids, dark, laptop, pc, begun, body, outcome>>

-----------------------------------------------------------------------------
Step(l) ==
  \/ \E c \in Command : Begin(l, c)
  \/ Fail(l)
  \/ ReadOrigin(l) \/ ReadService(l) \/ Submit(l) \/ Wait(l) \/ Patch(l)
  \/ Identify(l) \/ WriteKnownHosts(l) \/ WriteSshConfig(l)
  \/ GetPod(l) \/ Restore(l) \/ DeletePod(l) \/ ForgetSshConfig(l)

Environment ==
  \/ \E n \in Names : PodStarts(n) \/ PodEnds(n) \/ PodGone(n)
  \/ \E s \in Services, v \in Selectors : OwnerWrites(s, v)

Next == (\E l \in Launchers : Step(l)) \/ Environment

Spec == Init /\ [][Next]_vars

-----------------------------------------------------------------------------
(* Types; and a loan that is on record records a selector (a Service without *)
(* one cannot be borrowed, _service_selector).                               *)
TypeOK ==
  /\ pods \in [Names -> Pod]
  /\ selector \in [Services -> Value]
  /\ owner \in [Services -> Selectors \cup {NoSelector}]
  /\ uids \in Nat /\ faults \in 0..MaxFaults
  /\ tampered \subseteq Services \cup {NoService}
  /\ dark \subseteq Services \cup {NoService}
  /\ stanza \in [Launchers -> [Names -> Nat]]
  /\ pinned \in [Launchers -> SUBSET Nat]
  /\ pc \in [Launchers -> Stage]
  /\ command \in [Launchers -> Command]
  /\ body \in [Launchers -> Pod]
  /\ runs \in [Launchers -> 0..MaxCommands]
  /\ outcome \in [Launchers -> Outcome]
  /\ \A n \in Names : pods[n].service # NoService => pods[n].recorded # NoSelector

(* Whatever a create or a teardown was cut off at, what was borrowed can be  *)
(* given back exactly: a Service has its owner's selector, or selects dev    *)
(* pods and one of them records its owner's selector.  The record is written *)
(* before the Service is touched (create_dev_pod) and deleted after it was   *)
(* given back (delete_dev_pod).  Nothing can be promised of a Service whose  *)
(* loan was interfered with: the recording pod taken away, the selector      *)
(* rewritten, or borrowed a second time (LeavesTheClusterAsFound).           *)
Undoable ==
  \A s \in Services \ tampered :
    \/ selector[s] = owner[s]
    \/ selector[s] = DevPods /\ \E n \in Names : Records(n, s) /\ pods[n].recorded = owner[s]

(* There is no window in which a borrowed Service selects nothing: the dev   *)
(* pod runs before the Service is pointed at it, and until it points away.   *)
NeverDark ==
  \A s \in Services \ (tampered \cup dark) :
    selector[s] = DevPods => \E n \in Names : Records(n, s) /\ pods[n].phase = "running"

(* A teardown that says it is done is: the pod is gone, the Service has its  *)
(* owner's selector and the laptop keeps nothing of the pod.                 *)
TeardownIsComplete ==
  [][\A l \in Launchers : pc[l] = "forget" /\ outcome'[l] = "deleted" =>
       /\ ~pods'[command[l].name].dev
       /\ body[l].service \in Services \ tampered' =>
            selector'[body[l].service] = owner'[body[l].service]
       /\ stanza'[l][command[l].name] = 0
       /\ body[l].uid \notin pinned'[l]]_vars

(* A stanza is removed only when the pod it speaks to is gone: a teardown    *)
(* that failed half way leaves a working one (delete_dev_pod).               *)
StanzaOutlivesItsPod ==
  [][\A l \in Launchers, n \in Names :
       stanza[l][n] # 0 /\ stanza'[l][n] = 0 => pods[n].uid # stanza[l][n]]_vars

-----------------------------------------------------------------------------
(* Claims the code does not keep. *)

(* With every dev pod torn down and nothing gone wrong, every Service is as  *)
(* its owner left it ("Tear the dev pod down, leaving the cluster as it was  *)
(* found", delete_dev_pod).                                                  *)
LeavesTheClusterAsFound ==
  faults = 0 /\ (\A l \in Launchers : pc[l] = "idle") /\ (\A n \in Names : ~pods[n].dev)
    => selector = owner
=============================================================================

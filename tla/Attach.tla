------------------------------ MODULE Attach ------------------------------
(***************************************************************************)
(* `podbench attach`: several launchers, each one run of launcher.attach,  *)
(* over one pod.  An attach reads the pod, reuses a running seat or walks  *)
(* the capability ladder to land a new ephemeral container, measures the   *)
(* seat it got, and - once - lands a corrected seat when the measured ids  *)
(* disagree with the target's.                                             *)
(*                                                                         *)
(* The API server, the admission policy, the kubelet and everybody else    *)
(* who writes the pod are the environment.  An ephemeral container can be  *)
(* neither removed nor changed, so the names the launchers spend are the   *)
(* currency of most properties below.                                      *)
(*                                                                         *)
(* A launcher step is one API call together with the decisions taken on    *)
(* its answer; calls of different launchers interleave freely.             *)
(***************************************************************************)
EXTENDS Rungs, FiniteSets

CONSTANTS Launchers,     \* processes running attach, one after another
          Workloads,     \* the pod's own containers
          Owner,         \* Owner[l]: kubectl.whoami(), or NoOwner
          Key,           \* Key[l]: the public key the launcher offers
          Requests,      \* the command lines in use
          Pods,          \* the pods in use
          Policies,      \* the admission policies in use
          Attempts,      \* CONFLICT_ATTEMPTS
          MaxAttaches,   \* bound: attaches one launcher makes
          MaxFaults      \* bound: faults of the environment

ASSUME AttachAssumption ==
  /\ Attempts \in Nat \ {0}
  /\ MaxAttaches \in Nat
  /\ MaxFaults \in Nat

(* A command line: --target, --target-uid, --target-gid, --max-rung, --new,  *)
(* probe and correct_ids.                                                    *)
Request == [target : Workloads, uid : Id, gid : Id, ceiling : Rung \cup {NoRung},
            new : BOOLEAN, probe : BOOLEAN, correct : BOOLEAN]

(* One entry of spec.ephemeralContainers, and a dev pod's own sidecar. *)
Seat == [name : Nat, ctx : Context, owner : STRING, key : STRING, target : Workloads]

Pod == [workload : [Workloads -> Facts], sharePid : BOOLEAN, nonRoot : BOOLEAN,
        sidecar : SUBSET Seat]

ASSUME InputAssumption ==
  /\ Owner \in [Launchers -> STRING]
  /\ Key \in [Launchers -> STRING]
  /\ Requests \subseteq Request /\ Requests # {}
  /\ Pods \subseteq Pod
  /\ \A p \in Pods : \A s \in p.sidecar : s.name = 0
  /\ Policies \subseteq Policy

VARIABLES
  \* the cluster
  pod,           \* manifest and target processes
  policy,        \* the admission policy in force
  seats,         \* spec.ephemeralContainers, in stored order
  status,        \* what the kubelet reports of each of them, by name
  incarnation,   \* pods that bore this name before this one
  faults,        \* faults so far
  calm,          \* history: no fault, and no wait or retry given up, so far
  plain,         \* history: every attach so far was a plain request
  corrects,      \* history: every attach so far was to measure its seat and correct it
  \* the launchers
  pc,            \* the next call of each
  request,       \* the command line of the attach in progress
  want,          \* what the pass in progress wants: the request, or its correction
  walk,          \* the ladder walk in progress
  hand,          \* the seat in hand, being measured
  tally,         \* names this attach spent, and refusals by the node it met
  begun,         \* attaches begun
  session        \* what the last attach returned

setting == <<pod, policy, plain, corrects>>     \* what only a new attach may change
launchers == <<pc, request, want, walk, hand, tally, begun, session>>
vars == <<pod, policy, seats, status, incarnation, faults, calm, plain, corrects,
          pc, request, want, walk, hand, tally, begun, session>>

-----------------------------------------------------------------------------
(* Values of the variables. *)

Sidecar == 0     \* the name of a dev pod's sidecar; podbench-<n> is n
NoSeat  == -1

Phase == {"pending", "running", "refused", "exited"}
Call  == {"idle", "read", "try", "get", "put", "wait", "measure"}

(* current: the resourceVersion of the last GET is still the stored one, so  *)
(* the body the launcher holds is the stored pod.  podAt: the incarnation    *)
(* the accepted PUT went to.                                                 *)
Walk == [todo : SUBSET Rung, degradedFirst : BOOLEAN, name : Nat,
         rung : Rung \cup {NoRung}, attempt : Nat, current : BOOLEAN, podAt : Nat]

Hand == [name : Nat \cup {NoSeat}, reused : BOOLEAN, rung : Rung \cup {NoRung},
         podAt : Nat]

Session == [outcome : {"none", "seat", "failed"}, name : Nat \cup {NoSeat},
            reused : BOOLEAN, corrected : BOOLEAN, rung : Rung \cup {NoRung},
            measured : BOOLEAN, reported : BOOLEAN, podAt : Nat]

NoWalk == [todo |-> {}, degradedFirst |-> FALSE, name |-> 0, rung |-> NoRung,
           attempt |-> 0, current |-> FALSE, podAt |-> 0]
NoHand == [name |-> NoSeat, reused |-> FALSE, rung |-> NoRung, podAt |-> 0]
NoSession == [outcome |-> "none", name |-> NoSeat, reused |-> FALSE, corrected |-> FALSE,
              rung |-> NoRung, measured |-> FALSE, reported |-> FALSE, podAt |-> 0]
NoTally == [spent |-> 0, refused |-> 0]

AnyRequest == CHOOSE r \in Requests : TRUE

Up == {n \in DOMAIN status : status[n] = "running"}

(* The correction is the pass that wants something else than was requested. *)
Correcting(l) == want[l] # request[l]

WantedUid(l) == IF want[l].uid # NoId THEN want[l].uid
                                      ELSE pod.workload[want[l].target].uid
WantedGid(l) == IF want[l].gid # NoId THEN want[l].gid
                                      ELSE pod.workload[want[l].target].gid

(* The ids a seat must be pinned to for a reconnect: only where a gid was    *)
(* asked for, by flag or by the correction, and never off the manifest.      *)
WantedIds(l) == IF want[l].gid # NoId /\ WantedUid(l) > 0
                  THEN [uid |-> WantedUid(l), gid |-> want[l].gid]
                  ELSE NoIds

(* What the walk submits at a rung, and what admission makes of it. *)
Asked(l, rung)    == RungContext(rung, WantedUid(l), WantedGid(l))
AuthoredUnstamped(l, rung) ==      \* mistaken: OWNER_ENV is not set
  [name |-> walk[l].name, ctx |-> Asked(l, rung), owner |-> NoOwner,
   key |-> Key[l], target |-> want[l].target]
Authored(l, rung) ==
  [name |-> walk[l].name, ctx |-> Asked(l, rung), owner |-> Owner[l],
   key |-> Key[l], target |-> want[l].target]
Admitted(l, rung) == [Authored(l, rung) EXCEPT !.ctx = Admit(policy, @)]
Refused(l, rung)  == Denied(policy, Asked(l, rung))

(* The API server lets no stored entry be removed or changed: a name that is *)
(* taken is refused unless the entry is the one stored already.              *)
NameTaken(l, rung) == \E i \in DOMAIN seats : /\ seats[i].name = walk[l].name
                                              /\ seats[i] # Admitted(l, rung)

-----------------------------------------------------------------------------
Init ==
  /\ pod \in Pods
  /\ policy \in Policies
  /\ seats = <<>>
  /\ status = <<>>
  /\ incarnation = 0
  /\ faults = 0
  /\ calm = TRUE
  /\ plain = TRUE
  /\ corrects = TRUE
  /\ pc = [l \in Launchers |-> "idle"]
  /\ request = [l \in Launchers |-> AnyRequest]
  /\ want = [l \in Launchers |-> AnyRequest]
  /\ walk = [l \in Launchers |-> NoWalk]
  /\ hand = [l \in Launchers |-> NoHand]
  /\ tally = [l \in Launchers |-> NoTally]
  /\ begun = [l \in Launchers |-> 0]
  /\ session = [l \in Launchers |-> NoSession]

Goto(l, call) == pc' = [pc EXCEPT ![l] = call]

Fault == /\ faults < MaxFaults
         /\ faults' = faults + 1
         /\ calm' = FALSE

NoFault == UNCHANGED <<faults, calm>>

(* The attach ends, with a session or with an error. *)
Return(l, result) ==
  /\ Goto(l, "idle")
  /\ session' = [session EXCEPT ![l] = result]
  /\ walk' = [walk EXCEPT ![l] = NoWalk]
  /\ hand' = [hand EXCEPT ![l] = NoHand]

Raise(l) == Return(l, [NoSession EXCEPT !.outcome = "failed", !.corrected = Correcting(l)])

(* A write of the pod: every body read before it has lost. *)
Moved == [l \in Launchers |-> [walk[l] EXCEPT !.current = FALSE]]

-----------------------------------------------------------------------------
(* The launcher: attach. *)

(* A command line that pins no ids of its own, and no full rung. *)
Plainly(r) == r.uid = NoId /\ r.gid = NoId /\ r.ceiling # "full"

Begin(l, r) ==
  /\ pc[l] = "idle"
  /\ begun[l] < MaxAttaches
  /\ begun' = [begun EXCEPT ![l] = @ + 1]
  /\ plain' = (plain /\ Plainly(r))
  /\ corrects' = (corrects /\ r.probe /\ r.correct)
  /\ request' = [request EXCEPT ![l] = r]
  /\ want' = [want EXCEPT ![l] = r]
  /\ tally' = [tally EXCEPT ![l] = NoTally]
  /\ session' = [session EXCEPT ![l] = NoSession]
  /\ Goto(l, "read")
  /\ NoFault
  /\ UNCHANGED <<pod, policy, seats, status, incarnation, walk, hand>>

(* The seat a reconnect is offered: a dev pod's own sidecar before any       *)
(* ephemeral seat, and none above the ceiling.                               *)
Existing(l) ==
  LET offered == IF pod.sidecar # {} THEN pod.sidecar
                 ELSE {SeatNamed(seats, n) :
                         n \in RunningSeat(pod, seats, Up, WantedIds(l), Owner[l])}
  IN  {s \in offered : ~AboveCeiling(s.ctx, want[l].ceiling, WantedUid(l))}

Reconnect(l) ==
  /\ pc[l] = "read"
  /\ ~want[l].new
  /\ \E s \in Existing(l) :
       hand' = [hand EXCEPT ![l] = [name |-> s.name, reused |-> TRUE,
                                    rung |-> RungOfSpec(s.ctx), podAt |-> incarnation]]
  /\ Goto(l, "measure")
  /\ NoFault
  /\ UNCHANGED <<setting, seats, status, incarnation, request, want, walk, tally, begun,
                 session>>

StartWalk(l) ==
  /\ pc[l] = "read"
  /\ want[l].new \/ Existing(l) = {}
  /\ walk' = [walk EXCEPT ![l] =
       [NoWalk EXCEPT
          !.todo = RungsToTry(pod, want[l].target, WantedUid(l), want[l].ceiling),
          !.degradedFirst = DegradedFirst(pod, want[l].target, WantedUid(l), want[l].ceiling),
          !.name = NextContainerName(seats)]]
  /\ Goto(l, "try")
  /\ NoFault
  /\ UNCHANGED <<setting, seats, status, incarnation, request, want, hand, tally, begun,
                 session>>

-----------------------------------------------------------------------------
(* The launcher: _walk_ladder. *)

(* _dry_run_rung: the rung is rehearsed, and a policy that would refuse it,   *)
(* wedge it or strip it where a rung below could match the target ends it.   *)
Rehearsed(l, rung) ==
  LET asked == Asked(l, rung)
      admitted == Admit(policy, asked)
  IN  \/ Denied(policy, asked)
      \/ AdmissionWedgesTheKubelet(asked, admitted)
      \/ CapabilitiesRemoved(asked, admitted) /\ WantedUid(l) > 0

(* A rehearsal the API server will not serve, or refuses for a reason that   *)
(* is no policy's, is ignored.                                               *)
Answered(l, rung) == policy.serves /\ ~NameTaken(l, rung)

Take(l, rung) == walk' = [walk EXCEPT ![l] = [walk[l] EXCEPT !.rung = rung, !.attempt = 0]]
Drop(l, rung) == walk' = [walk EXCEPT ![l] = [walk[l] EXCEPT !.todo = @ \ {rung}, !.rung = NoRung,
                                                       !.attempt = 0]]

TryRung(l) ==
  /\ pc[l] = "try"
  /\ walk[l].todo # {}
  /\ LET rung == NextRung(walk[l].todo, walk[l].degradedFirst) IN
     \/ /\ Answered(l, rung) /\ Rehearsed(l, rung)
        /\ Drop(l, rung)
        /\ NoFault
        /\ UNCHANGED pc
     \/ /\ ~(Answered(l, rung) /\ Rehearsed(l, rung))
        /\ Take(l, rung)
        /\ NoFault
        /\ Goto(l, "get")
     \/ /\ Answered(l, rung) /\ Rehearsed(l, rung)   \* the call fails instead
        /\ Fault
        /\ Take(l, rung)
        /\ Goto(l, "get")
  /\ UNCHANGED <<setting, seats, status, incarnation, request, want, hand, tally, begun,
                 session>>

NoRungAdmitted(l) ==
  /\ pc[l] = "try"
  /\ walk[l].todo = {}
  /\ Raise(l)
  /\ NoFault
  /\ UNCHANGED <<setting, seats, status, incarnation, request, want, tally, begun>>

(* Kubectl.add_ephemeral_container: GET the subresource, splice, PUT. *)
GetUncounted(l) ==                 \* mistaken: the attempts are not counted
  /\ pc[l] = "get"
  /\ walk' = [walk EXCEPT ![l].current = TRUE]
  /\ Goto(l, "put")
  /\ NoFault
  /\ UNCHANGED <<setting, seats, status, incarnation, request, want, hand, tally, begun,
                 session>>

GetSubresource(l) ==
  /\ pc[l] = "get"
  /\ walk' = [walk EXCEPT ![l] = [walk[l] EXCEPT !.attempt = @ + 1, !.current = TRUE]]
  /\ Goto(l, "put")
  /\ NoFault
  /\ UNCHANGED <<setting, seats, status, incarnation, request, want, hand, tally, begun,
                 session>>

(* 409: the pod moved under the body.  Re-read, under the same name. *)
PutConflicts(l) ==
  /\ pc[l] = "put"
  /\ ~walk[l].current
  /\ \/ /\ walk[l].attempt < Attempts
        /\ Goto(l, "get")
        /\ UNCHANGED <<calm, walk, hand, session>>
     \/ /\ walk[l].attempt >= Attempts
        /\ Raise(l)
        /\ calm' = FALSE
  /\ UNCHANGED <<setting, seats, status, incarnation, faults, request, want, tally, begun>>

(* 422: the entry of that name is somebody else's.  No verdict on the rung. *)
PutInvalid(l) ==
  /\ pc[l] = "put"
  /\ walk[l].current /\ NameTaken(l, walk[l].rung)
  /\ Raise(l)
  /\ NoFault
  /\ UNCHANGED <<setting, seats, status, incarnation, request, want, tally, begun>>

(* A policy refuses the rung: nothing is stored and the name is still free. *)
PutDenied(l) ==
  /\ pc[l] = "put"
  /\ walk[l].current /\ ~NameTaken(l, walk[l].rung) /\ Refused(l, walk[l].rung)
  /\ Drop(l, walk[l].rung)
  /\ Goto(l, "try")
  /\ NoFault
  /\ UNCHANGED <<setting, seats, status, incarnation, request, want, hand, tally, begun,
                 session>>

(* The list as the PUT leaves it: an entry of that name filtered out, the    *)
(* admitted one appended.                                                    *)
Spliced(l) == Append(Without(seats, walk[l].name), Admitted(l, walk[l].rung))

Stored(l) ==
  /\ pc[l] = "put"
  /\ walk[l].current /\ ~NameTaken(l, walk[l].rung) /\ ~Refused(l, walk[l].rung)
  /\ seats' = Spliced(l)
  /\ IF walk[l].name \in DOMAIN status
       THEN UNCHANGED <<status, tally>>
       ELSE /\ status' = [n \in DOMAIN status \cup {walk[l].name} |->
                            IF n = walk[l].name THEN "pending" ELSE status[n]]
            /\ tally' = [tally EXCEPT ![l].spent = @ + 1]

PutAccepted(l) ==
  /\ Stored(l)
  /\ walk' = [Moved EXCEPT ![l].podAt = incarnation]
  /\ Goto(l, "wait")
  /\ NoFault
  /\ UNCHANGED <<setting, incarnation, request, want, hand, begun, session>>

(* The write landed and its answer did not: kubectl timed out. *)
PutLost(l) ==
  /\ Stored(l)
  /\ Fault
  /\ pc' = [pc EXCEPT ![l] = "idle"]
  /\ walk' = [Moved EXCEPT ![l] = NoWalk]
  /\ session' = [session EXCEPT ![l] = [NoSession EXCEPT !.outcome = "failed",
                                                          !.corrected = Correcting(l)]]
  /\ UNCHANGED <<setting, incarnation, request, want, hand, begun>>

(* wait_for_ephemeral_container polls the status of one name. *)
WaitRunning(l) ==
  /\ pc[l] = "wait"
  /\ walk[l].name \in Up
  /\ hand' = [hand EXCEPT ![l] = [name |-> walk[l].name, reused |-> FALSE,
                                  rung |-> walk[l].rung, podAt |-> walk[l].podAt]]
  /\ walk' = [walk EXCEPT ![l] = NoWalk]
  /\ Goto(l, "measure")
  /\ NoFault
  /\ UNCHANGED <<setting, seats, status, incarnation, request, want, tally, begun, session>>

(* The node refused the container, or it is over already: its name is spent, *)
(* and the rung below takes a fresh one, read from the pod.                  *)
WaitRefused(l) ==
  /\ pc[l] = "wait"
  /\ walk[l].name \in DOMAIN status
  /\ status[walk[l].name] \in {"refused", "exited"}
  /\ walk' = [walk EXCEPT ![l] = [walk[l] EXCEPT !.todo = @ \ {walk[l].rung}, !.rung = NoRung,
                                           !.attempt = 0, !.name = NextContainerName(seats)]]
  /\ tally' = [tally EXCEPT ![l].refused = @ + 1]
  /\ Goto(l, "try")
  /\ NoFault
  /\ UNCHANGED <<setting, seats, status, incarnation, request, want, hand, begun, session>>

(* TimeoutError ends the whole attach; the container may still start. *)
WaitTimesOut(l) ==
  /\ pc[l] = "wait"
  /\ walk[l].name \in DOMAIN status => status[walk[l].name] = "pending"
  /\ Raise(l)
  /\ calm' = FALSE
  /\ UNCHANGED <<setting, seats, status, incarnation, faults, request, want, tally, begun>>

-----------------------------------------------------------------------------
(* The launcher: measure the seat in hand, and correct it once. *)

(* The container an exec by that name reaches now, if it runs. *)
InHand(l) ==
  IF hand[l].name = Sidecar THEN pod.sidecar
  ELSE {seats[i] : i \in {i \in DOMAIN seats : seats[i].name = hand[l].name
                                              /\ seats[i].name \in Up}}

Self(s) == [uid |-> RunsAsUid(s.ctx), gid |-> RunsAsGid(s.ctx)]

TargetIds(s) == [uid |-> pod.workload[s.target].realUid,
                 gid |-> pod.workload[s.target].realGid]

Correction(l, s) ==
  IF want[l].correct /\ s.name # Sidecar
    THEN IdCorrection(Self(s), TargetIds(s), [uid |-> want[l].uid, gid |-> want[l].gid])
    ELSE NoIds

(* The label: the measured rung where there is one, else what was asked for. *)
HandOver(l, measured, reported) ==
  Return(l, [outcome |-> "seat", name |-> hand[l].name, reused |-> hand[l].reused,
             corrected |-> Correcting(l), podAt |-> hand[l].podAt,
             rung |-> IF measured # NoRung THEN measured ELSE hand[l].rung,
             measured |-> measured # NoRung, reported |-> reported])

(* capreport answered: the rung against the target's measured ids. *)
Probed(l) ==
  /\ pc[l] = "measure"
  /\ want[l].probe
  /\ \E s \in InHand(l) :
       /\ Correction(l, s) = NoIds
       /\ HandOver(l, MeasuredRung(s.ctx, TargetIds(s).uid, TargetIds(s).gid), TRUE)
  /\ NoFault
  /\ UNCHANGED <<setting, seats, status, incarnation, request, want, tally, begun>>

(* No report was asked for, or the seat would not give one. *)
Unprobed(l) ==
  /\ pc[l] = "measure"
  /\ \/ /\ ~want[l].probe
        /\ NoFault
        /\ \E s \in InHand(l) :
             HandOver(l, MeasuredRung(s.ctx, WantedUid(l), WantedGid(l)), FALSE)
     \/ /\ want[l].probe
        /\ Fault
        /\ \E s \in InHand(l) :
             HandOver(l, MeasuredRung(s.ctx, WantedUid(l), WantedGid(l)), FALSE)
     \/ /\ InHand(l) = {}
        /\ NoFault
        /\ HandOver(l, NoRung, FALSE)
  /\ UNCHANGED <<setting, seats, status, incarnation, request, want, tally, begun>>

(* The recursive attach: the corrected ids as pins, --new not passed on. *)
CorrectedAgain(w, ids) ==          \* mistaken: correct_ids is passed on
  [w EXCEPT !.uid = NoId, !.gid = ids.gid, !.new = FALSE]
Corrected(w, ids) ==
  [w EXCEPT !.uid = ids.uid, !.gid = ids.gid, !.new = FALSE, !.correct = FALSE]

Correct(l) ==
  /\ pc[l] = "measure"
  /\ want[l].probe
  /\ \E s \in InHand(l) :
       LET ids == Correction(l, s) IN
       /\ ids # NoIds
       /\ want' = [want EXCEPT ![l] = Corrected(@, ids)]
  /\ hand' = [hand EXCEPT ![l] = NoHand]
  /\ Goto(l, "read")
  /\ NoFault
  /\ UNCHANGED <<setting, seats, status, incarnation, request, walk, tally, begun, session>>

(* Any call may fail outright, and the user may stop the run anywhere. *)
CallFails(l) ==
  /\ pc[l] # "idle"
  /\ Fault
  /\ Raise(l)
  /\ UNCHANGED <<setting, seats, status, incarnation, request, want, tally, begun>>

-----------------------------------------------------------------------------
(* The node and the other writers of the pod. *)

Report(n, phase) ==
  /\ status' = [status EXCEPT ![n] = phase]
  /\ walk' = Moved
  /\ UNCHANGED <<setting, seats, incarnation, pc, request, want, hand, tally, begun, session>>

KubeletStarts(n) ==
  /\ n \in DOMAIN status
  /\ status[n] = "pending"
  /\ ~KubeletRefuses(pod, SeatNamed(seats, n).ctx)
  /\ NoFault
  /\ Report(n, "running")

KubeletRefusesIt(n) ==
  /\ n \in DOMAIN status
  /\ status[n] = "pending"
  /\ KubeletRefuses(pod, SeatNamed(seats, n).ctx)
  /\ NoFault
  /\ Report(n, "refused")

SeatExits(n) ==
  /\ n \in DOMAIN status
  /\ status[n] \in {"pending", "running"}
  /\ Fault
  /\ Report(n, "exited")

(* A resize, a status update, a label: anything that moves the pod on. *)
OtherWrite ==
  /\ \E l \in Launchers : walk[l].current
  /\ walk' = Moved
  /\ NoFault
  /\ UNCHANGED <<setting, seats, status, incarnation, pc, request, want, hand, tally,
                 begun, session>>

(* The pod is deleted and its controller recreates it under the same name. *)
PodReplaced ==
  /\ Fault
  /\ seats' = <<>>
  /\ status' = <<>>
  /\ incarnation' = incarnation + 1
  /\ walk' = Moved
  /\ UNCHANGED <<setting, pc, request, want, hand, tally, begun, session>>

-----------------------------------------------------------------------------
(* The calls of an attach that go through. *)
Step(l) ==
  \/ Reconnect(l) \/ StartWalk(l)
  \/ TryRung(l) \/ NoRungAdmitted(l)
  \/ GetSubresource(l) \/ PutConflicts(l) \/ PutInvalid(l) \/ PutDenied(l) \/ PutAccepted(l)
  \/ WaitRunning(l) \/ WaitRefused(l) \/ WaitTimesOut(l)
  \/ Probed(l) \/ Unprobed(l) \/ Correct(l)

Launch(l) == \E r \in Requests : Begin(l, r)

Node == \E n \in DOMAIN status : KubeletStarts(n) \/ KubeletRefusesIt(n) \/ SeatExits(n)

Next ==
  \/ \E l \in Launchers : Launch(l) \/ Step(l) \/ PutLost(l) \/ CallFails(l)
  \/ Node
  \/ OtherWrite
  \/ PodReplaced

Spec == Init /\ [][Next]_vars

(* Every wait of the launcher has a deadline and every call a timeout, so a  *)
(* begun attach keeps taking steps; nothing is assumed of the node.          *)
FairSpec == Spec /\ \A l \in Launchers : WF_vars(Step(l))

-----------------------------------------------------------------------------
(* Properties. *)

TypeOK ==
  /\ pod \in Pods
  /\ policy \in Policies
  /\ seats \in Seq(Seat)
  /\ status \in [NamesIn(seats) -> Phase]
  /\ incarnation \in Nat
  /\ faults \in Nat
  /\ calm \in BOOLEAN
  /\ plain \in BOOLEAN
  /\ corrects \in BOOLEAN
  /\ pc \in [Launchers -> Call]
  /\ request \in [Launchers -> Requests]
  /\ want \in [Launchers -> Request]
  /\ walk \in [Launchers -> Walk]
  /\ hand \in [Launchers -> Hand]
  /\ tally \in [Launchers -> [spent : Nat, refused : Nat]]
  /\ begun \in [Launchers -> Nat]
  /\ session \in [Launchers -> Session]

(* No two stored containers share a name, whatever stale name a launcher     *)
(* walks with and however often it re-sends: add_ephemeral_container filters *)
(* its own name out of the list it PUTs.                                     *)
NamesUnique ==
  \A i, j \in DOMAIN seats : seats[i].name = seats[j].name => i = j

(* The seat an attach hands over is never provably somebody else's, and one  *)
(* it says it landed is the container it authored - even when two launchers  *)
(* read the same free name, or the pod moved on between reading the pod and  *)
(* the PUT.  A seat of an earlier pod of this name is out of scope.          *)
Handed(l) == /\ session[l].outcome = "seat"
             /\ session[l].name # Sidecar
             /\ session[l].podAt = incarnation

HandedSeatIsOwn ==
  \A l \in Launchers : Handed(l) =>
    /\ session[l].name \in NamesIn(seats)
    /\ LET s == SeatNamed(seats, session[l].name) IN
       /\ ~OwnedByAnother(s.owner, Owner[l])
       /\ ~session[l].reused => s.owner = Owner[l] /\ s.key = Key[l]

(* An attach spends one name per pass and one more per refusal by the node:  *)
(* never one for a policy's refusal, a rehearsal, a conflict or a collision; *)
(* and none when it reconnects straight away.                                *)
NamesSpentAreCounted ==
  \A l \in Launchers :
    /\ tally[l].spent <= tally[l].refused + (IF Correcting(l) THEN 2 ELSE 1)
    /\ session[l].outcome = "seat" /\ session[l].reused /\ ~session[l].corrected
         => tally[l].spent = 0

(* Where the cluster serves dry runs, no root seat without its capability    *)
(* lands beside a target known to run as somebody else (issue #94).          *)
NoStrippedRoot ==
  calm /\ plain /\ policy.serves =>
    \A i \in DOMAIN seats :
      seats[i].ctx.uid = 0 /\ pod.workload[seats[i].target].uid > 0 => seats[i].ctx.ptrace

(* Where the cluster serves dry runs, the node refuses only the seat that    *)
(* had no uid it could pin - and the full rung of a container that states    *)
(* runAsNonRoot: false in a pod that states true, which runs_as_non_root     *)
(* answers from the container alone.                                         *)
Foreseeable(s) == s.ctx.uid # NoId /\ KubeletRefuses(pod, s.ctx)

NoForeseeableWedge ==
  calm /\ policy.serves =>
    \A i \in DOMAIN seats :
      Foreseeable(seats[i]) => /\ pod.nonRoot
                               /\ pod.workload[seats[i].target].nonRoot = "false"

(* The seats the ladder leaves in a cluster that serves dry runs can run and *)
(* be used: the two ways a rehearsal is there to prevent (rehearse).         *)
StoredSeatsRun == NoStrippedRoot /\ NoForeseeableWedge

(* --max-rung below full: the seat handed over neither adds SYS_PTRACE nor   *)
(* runs as a pinned root, whoever landed it and whatever a policy stripped.  *)
CeilingHonoured ==
  \A l \in Launchers :
    Handed(l) /\ request[l].ceiling \in {"degraded", "seat"} =>
      LET ctx == SeatNamed(seats, session[l].name).ctx IN ~ctx.ptrace /\ ctx.uid # 0

(* A label said to be measured claims no more than the kernel will grant:    *)
(* full that SYS_PTRACE is effective, degraded that the uid and the gid are  *)
(* the target's.  Without a report degraded is read off the manifest, and is *)
(* as good as that: of the target that was named, where its processes run as *)
(* stated, and for a user who pinned no ids.                                 *)
RunsAsStated(w) == /\ pod.workload[w].uid \in {NoId, pod.workload[w].realUid}
                   /\ pod.workload[w].gid \in {NoId, pod.workload[w].realGid}

ByTheManifest(l) == /\ request[l].uid = NoId /\ request[l].gid = NoId
                    /\ ~session[l].corrected
                    /\ RunsAsStated(request[l].target)

LabelOutruns(l, s) == \/ session[l].rung = "full" /\ ~EffectivePtrace(s.ctx)
                      \/ session[l].rung = "degraded" /\ Self(s) # TargetIds(s)

LabelsDoNotOverclaim ==
  \A l \in Launchers :
    Handed(l) /\ session[l].measured =>
      LET s == SeatNamed(seats, session[l].name) IN
      session[l].reported \/ (ByTheManifest(l) /\ s.target = request[l].target)
        => ~LabelOutruns(l, s)

(* A rung is neither above what was asked for nor above what was measured.   *)
RungsAreHonest == CeilingHonoured /\ LabelsDoNotOverclaim

(* After undisturbed attaches that named no ids and were free to measure and *)
(* to correct, the next one spends no name: it finds the seat, or the        *)
(* corrected seat its measurement asks for.  Two exceptions, in which every  *)
(* attach spends another: a policy that rewrites or refuses a gid, and a     *)
(* corrected walk that lands the full rung first.                            *)
PolicyLeavesGidsAlone == policy.setGid = NoId /\ policy.denyGid = NoId

FullNeverComesFirst == (policy.denyPtrace /\ ~policy.strip) \/ ~pod.sharePid

Undisturbed == /\ calm /\ plain /\ corrects /\ pod.sidecar = {}
               /\ PolicyLeavesGidsAlone /\ FullNeverComesFirst

NextAttachIsFree ==
  \A l \in Launchers :
    pc[l] = "idle" /\ Undisturbed /\ Handed(l)
    => LET found(ids) == RunningSeat(pod, seats, Up, ids, Owner[l])
       IN  /\ found(NoIds) # {}
           /\ \A n \in found(NoIds) :
                LET s   == SeatNamed(seats, n)
                    ids == IdCorrection(Self(s), TargetIds(s), NoIds)
                IN  ids # NoIds => found(ids) # {}

(* Every attach ends, whatever the node and the other writers do: the        *)
(* ladder is finite, conflicts are retried Attempts times, waits have a      *)
(* deadline and the correction is made once.                                 *)
AttachEnds == \A l \in Launchers : (pc[l] # "idle") ~> (pc[l] = "idle")

(* Attach implements the ledger of names: see SeatLedger.  What a launcher   *)
(* has settled on is the name it waits for or the seat it measures.          *)
Settled(l) == CASE pc[l] = "wait"    -> walk[l].name
                [] pc[l] = "measure" -> hand[l].name
                [] OTHER             -> NoSeat

SeatStamp(n) == [owner |-> SeatNamed(seats, n).owner, key |-> SeatNamed(seats, n).key]

Ledger == INSTANCE SeatLedger WITH
  ledger  <- [n \in NamesIn(seats) |-> SeatStamp(n)],
  busy    <- {l \in Launchers : pc[l] # "idle"},
  settled <- [l \in Launchers |-> Settled(l)],
  given   <- [l \in Launchers |-> session[l].name]

ImplementsLedger == Ledger!Spec

=============================================================================

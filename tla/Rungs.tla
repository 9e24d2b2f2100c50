------------------------------- MODULE Rungs -------------------------------
(***************************************************************************)
(* The decisions `podbench attach` takes about a seat, as pure operators:  *)
(* the capability ladder and the security context each rung authors        *)
(* (launcher.plan_ladder, spec._rung_security_context), what admission and *)
(* the kubelet do to such a context, which running seat a reconnect may    *)
(* reuse (launcher.running_seat, superseded_seats) and whether the ids a   *)
(* seat measured call for a corrected one (launcher.id_correction).        *)
(*                                                                         *)
(* Attach.tla is the protocol that applies them.                           *)
(***************************************************************************)
EXTENDS Integers, Sequences

CONSTANTS ImageUid,    \* the USER of the debug image
          ImageGid     \* and its group

ASSUME ImageAssumption == ImageUid \in Nat /\ ImageGid \in Nat

-----------------------------------------------------------------------------
(* Ids.  Python's None - "the manifest does not say" - is NoId. *)

NoId == -1
Id   == Nat \cup {NoId}

-----------------------------------------------------------------------------
(* The ladder, highest capability first (model.LADDER). *)

Ladder == <<"full", "degraded", "seat">>
Rung   == {"full", "degraded", "seat"}

(* No rung: a comparison that could not be made, or no ceiling given. *)
NoRung == "none"

LadderIndex(rung) == CASE rung = "full" -> 1
                       [] rung = "degraded" -> 2
                       [] rung = "seat" -> 3

(* A ceiling of NoRung is "--max-rung was not given". *)
Below(ceiling, rung) == ceiling # NoRung /\ LadderIndex(ceiling) > LadderIndex(rung)

-----------------------------------------------------------------------------
(* The part of an ephemeral container's securityContext that decides what   *)
(* the seat can do.                                                         *)

Context == [uid : Id, gid : Id, ptrace : BOOLEAN, nonRoot : BOOLEAN]

(* Mistaken: the degraded rung mirrors the uid and forgets the group (#103). *)
RungContextNoGroup(rung, uid, gid) ==
  CASE rung = "full" ->
         [uid |-> 0, gid |-> NoId, ptrace |-> TRUE, nonRoot |-> FALSE]
    [] rung # "full" ->
         [uid |-> IF uid > 0 THEN uid ELSE NoId, gid |-> NoId,
          ptrace |-> FALSE, nonRoot |-> TRUE]

RungContext(rung, uid, gid) ==
  CASE rung = "full" ->
         [uid |-> 0, gid |-> NoId, ptrace |-> TRUE, nonRoot |-> FALSE]
    [] rung = "degraded" ->
         [uid |-> uid, gid |-> gid, ptrace |-> FALSE, nonRoot |-> TRUE]
    [] rung = "seat" ->
         [uid |-> IF uid > 0 THEN uid ELSE NoId,
          gid |-> IF uid > 0 THEN gid ELSE NoId,
          ptrace |-> FALSE, nonRoot |-> TRUE]

(* The rung an existing container reads back as, from its spec alone. *)
RungOfSpec(ctx) ==
  IF ctx.ptrace THEN "full" ELSE IF ctx.uid # NoId THEN "degraded" ELSE "seat"

-----------------------------------------------------------------------------
(* Admission.  A policy may refuse a context, or rewrite it on the way in.  *)
(* serves is FALSE where the API server will not answer a dry run.          *)

Policy == [denyPtrace : BOOLEAN, denyGid : Id, strip : BOOLEAN,
           addNonRoot : BOOLEAN, setGid : Id, serves : BOOLEAN]

Admit(policy, ctx) ==
  [ctx EXCEPT !.ptrace  = @ /\ ~policy.strip,
              !.nonRoot = @ \/ policy.addNonRoot,
              !.gid     = IF policy.setGid # NoId THEN policy.setGid ELSE @]

(* Validating admission runs on what the mutating half left behind. *)
Denied(policy, ctx) ==
  LET stored == Admit(policy, ctx) IN
  \/ policy.denyPtrace /\ stored.ptrace
  \/ policy.denyGid # NoId /\ stored.gid = policy.denyGid

CapabilitiesRemoved(requested, admitted) == requested.ptrace /\ ~admitted.ptrace

(* Mistaken: only the pair without any uid is recognised. *)
WedgedUnpinned(ctx) == ctx.nonRoot /\ ctx.uid = NoId

Wedged(ctx) == ctx.nonRoot /\ ctx.uid \in {NoId, 0}

AdmissionWedgesTheKubelet(requested, admitted) == ~Wedged(requested) /\ Wedged(admitted)

-----------------------------------------------------------------------------
(* The node.  A container that pins no uid runs as the image's user, and a  *)
(* capability in the spec is effective only at uid 0.  The kubelet refuses  *)
(* runAsNonRoot - the container's own, or inherited from the pod - over uid 0. *)

RunsAsUid(ctx) == IF ctx.uid = NoId THEN ImageUid ELSE ctx.uid
RunsAsGid(ctx) == IF ctx.gid = NoId THEN ImageGid ELSE ctx.gid
EffectivePtrace(ctx) == ctx.ptrace /\ RunsAsUid(ctx) = 0

KubeletRefuses(pod, ctx) == (ctx.nonRoot \/ pod.nonRoot) /\ RunsAsUid(ctx) = 0

-----------------------------------------------------------------------------
(* The pod as its manifest and the node describe it.  realUid and realGid   *)
(* are what /proc says of the container's process; uid and gid what the     *)
(* manifest says; reported what containerStatuses[].user says, if anything. *)
(* sharePid is shareProcessNamespace; nonRoot the pod-level runAsNonRoot.    *)

Stated == {"true", "false", "unstated"}

Facts == [uid : Id, gid : Id, nonRoot : Stated, reported : Id,
          realUid : Nat, realGid : Nat]

RunsAsNonRoot(pod, w) ==
  LET stated == pod.workload[w].nonRoot IN
  IF stated = "unstated" THEN pod.nonRoot ELSE stated = "true"

SharesPidNamespaceAcrossUids(pod, w, uid) ==
  /\ pod.sharePid
  /\ \E other \in DOMAIN pod.workload \ {w} : pod.workload[other].uid # uid

(* plan_ladder: the rungs worth attempting, and the order to try them in.   *)
(* degradedFirst is _attempt_order: the target's own uid, where it is known. *)
RungsToTryRootAnyway(pod, w, uid, ceiling) ==      \* mistaken: runAsNonRoot not read
  {rung \in Rung : ~Below(ceiling, rung) /\ (rung = "degraded" => uid > 0)}

RungsToTry(pod, w, uid, ceiling) ==
  {rung \in Rung :
     /\ ~Below(ceiling, rung)
     /\ rung = "full" => ~RunsAsNonRoot(pod, w)
     /\ rung = "degraded" => uid > 0}

DegradedFirst(pod, w, uid, ceiling) ==
  ceiling = NoRung /\ uid > 0 /\ ~SharesPidNamespaceAcrossUids(pod, w, uid)

Turn(rung, degradedFirst) ==
  IF degradedFirst /\ rung = "degraded" THEN 0 ELSE LadderIndex(rung)

NextRung(todo, degradedFirst) ==
  CHOOSE rung \in todo :
    \A other \in todo : Turn(rung, degradedFirst) <= Turn(other, degradedFirst)

-----------------------------------------------------------------------------
(* The podbench containers a pod carries.  seats is the pod's               *)
(* ephemeralContainers list in its stored order; up the names that run now. *)

NoOwner == "nobody"     \* no OWNER_ENV in the spec, or no answer from whoami

OwnedByAnother(recorded, asking) ==
  recorded # NoOwner /\ asking # NoOwner /\ recorded # asking

NamesIn(seats) == {seats[i].name : i \in DOMAIN seats}

SeatNamed(seats, name) == seats[CHOOSE i \in DOMAIN seats : seats[i].name = name]

(* The list without the entry of that name.  Names are unique in it. *)
Without(seats, name) ==
  IF name \notin NamesIn(seats) THEN seats
  ELSE LET i == CHOOSE i \in DOMAIN seats : seats[i].name = name
       IN  SubSeq(seats, 1, i - 1) \o SubSeq(seats, i + 1, Len(seats))

(* next_container_name: the first podbench-<n> nothing has ever taken. *)
NextContainerName(seats) ==
  CHOOSE n \in 1 .. Len(seats) + 1 :
    n \notin NamesIn(seats) /\ \A m \in 1 .. n - 1 : m \in NamesIn(seats)

SupersededSeats(seats, up) ==
  {seats[i].name : i \in {i \in DOMAIN seats :
     /\ seats[i].name \in up
     /\ seats[i].ctx.uid # NoId
     /\ \E j \in DOMAIN seats :
          /\ j > i
          /\ seats[j].name \in up
          /\ seats[j].target = seats[i].target
          /\ seats[j].ctx.uid = seats[i].ctx.uid
          /\ ~OwnedByAnother(seats[j].owner, seats[i].owner)
          /\ seats[j].ctx.gid \notin {NoId, seats[i].ctx.gid}}}

(* The target's uid as the manifest states it, else as the node reports it. *)
KnownTargetUid(pod, w) ==
  IF pod.workload[w].uid # NoId THEN pod.workload[w].uid ELSE pod.workload[w].reported

CannotReachItsTarget(pod, seat) ==
  /\ RungOfSpec(seat.ctx) # "full"
  /\ seat.ctx.uid # NoId
  /\ KnownTargetUid(pod, seat.target) \notin {NoId, seat.ctx.uid}

Ids   == [uid : Id, gid : Id]
NoIds == [uid |-> NoId, gid |-> NoId]

ReusableByAnyone(seats, up, ids, owner) ==         \* mistaken: owners not compared
  {i \in DOMAIN seats :
     /\ seats[i].name \in up \ SupersededSeats(seats, up)
     /\ ids = NoIds \/ (seats[i].ctx.uid = ids.uid /\ seats[i].ctx.gid = ids.gid)}

Reusable(seats, up, ids, owner) ==
  {i \in DOMAIN seats :
     /\ seats[i].name \in up \ SupersededSeats(seats, up)
     /\ ids = NoIds \/ (seats[i].ctx.uid = ids.uid /\ seats[i].ctx.gid = ids.gid)
     /\ ~OwnedByAnother(seats[i].owner, owner)}

(* running_seat: the names a reconnect may be offered - one at most.  The    *)
(* first candidate that can reach its target, else the first candidate.      *)
RunningSeat(pod, seats, up, ids, owner) ==
  LET candidates == Reusable(seats, up, ids, owner)
      able       == {i \in candidates : ~CannotReachItsTarget(pod, seats[i])}
      pool       == IF able # {} THEN able ELSE candidates
  IN  {seats[i].name : i \in {i \in pool : \A j \in pool : i <= j}}

(* above_ceiling: a running seat --max-rung would not have landed. *)
AboveCeiling(ctx, ceiling, targetUid) ==
  /\ ceiling \notin {NoRung, "full"}
  /\ \/ RungOfSpec(ctx) = "full"
     \/ ctx.uid = 0
     \/ targetUid > 0 /\ ctx.uid # targetUid

-----------------------------------------------------------------------------
(* What the seat measures once it runs. *)

(* model.measured_rung behind launcher._measured_rung_of. *)
MeasuredRungByUid(ctx, targetUid, targetGid) ==    \* mistaken: two ids, not four
  CASE EffectivePtrace(ctx) -> "full"
    [] ~EffectivePtrace(ctx) /\ targetUid = NoId -> NoRung
    [] ~EffectivePtrace(ctx) /\ targetUid # NoId ->
         IF targetUid = RunsAsUid(ctx) THEN "degraded" ELSE "seat"

MeasuredRung(ctx, targetUid, targetGid) ==
  CASE EffectivePtrace(ctx) -> "full"
    [] ~EffectivePtrace(ctx) /\ targetUid = NoId -> NoRung
    [] ~EffectivePtrace(ctx) /\ targetUid \notin {NoId, RunsAsUid(ctx)} -> "seat"
    [] ~EffectivePtrace(ctx) /\ targetUid = RunsAsUid(ctx) ->
         CASE targetGid = NoId -> NoRung
           [] targetGid = RunsAsGid(ctx) -> "degraded"
           [] targetGid \notin {NoId, RunsAsGid(ctx)} -> "seat"

(* id_correction: the ids a corrected seat should pin, NoIds for none.  self *)
(* is what the seat runs as, target what it read of its target, pin the flags. *)
IdCorrection(self, target, pin) ==
  LET uid == IF pin.uid # NoId THEN pin.uid ELSE target.uid
      gid == IF pin.gid # NoId THEN pin.gid ELSE target.gid
      ids == [uid |-> uid, gid |-> gid]
  IN  IF self.uid = 0 \/ uid <= 0 \/ gid = NoId \/ self = ids THEN NoIds ELSE ids

=============================================================================

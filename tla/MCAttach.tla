------------------------------ MODULE MCAttach ------------------------------
(***************************************************************************)
(* Instances of Attach for TLC: pods, policies and command lines taken     *)
(* from the clusters the source names, with the uids it names.             *)
(***************************************************************************)
EXTENDS Attach

-----------------------------------------------------------------------------
(* Containers. *)

(* p47-blueapi-0: runAsUser stated, the group left to the image. *)
UidOnly == [uid |-> 1000, gid |-> NoId, nonRoot |-> "unstated", reported |-> NoId,
            realUid |-> 1000, realGid |-> 1000]
BothIds == [UidOnly EXCEPT !.gid = 1000]
OtherUid == [uid |-> 1001, gid |-> NoId, nonRoot |-> "unstated", reported |-> NoId,
             realUid |-> 1001, realGid |-> 1001]
(* argus: the manifest states nothing, the node reports root. *)
RootImage == [uid |-> NoId, gid |-> NoId, nonRoot |-> "unstated", reported |-> 0,
              realUid |-> 0, realGid |-> 0]
StatedRoot == [RootImage EXCEPT !.uid = 0]
(* Nothing stated over an image with a USER of its own. *)
Unstated == [UidOnly EXCEPT !.uid = NoId]
(* A container that opts out of its pod's runAsNonRoot. *)
OptedOut == [StatedRoot EXCEPT !.nonRoot = "false"]

-----------------------------------------------------------------------------
(* Pods.  Two containers only where the second one matters. *)

Plain(facts) == [workload |-> [w \in Workloads |-> facts], sharePid |-> FALSE,
                 nonRoot |-> FALSE, sidecar |-> {}]
Pair(app, db, share) == [workload |-> [w \in Workloads |-> IF w = "app" THEN app ELSE db],
                         sharePid |-> share, nonRoot |-> FALSE, sidecar |-> {}]
NonRoot(p) == [p EXCEPT !.nonRoot = TRUE]
DevPod(p) == [p EXCEPT !.sidecar =
                {[name |-> Sidecar, owner |-> "alice", key |-> "alice", target |-> "app",
                  ctx |-> [uid |-> 1000, gid |-> NoId, ptrace |-> FALSE, nonRoot |-> TRUE]]}]

BlueapiPod  == {Plain(UidOnly)}
LadderPods  == {Plain(f) : f \in {UidOnly, BothIds, RootImage, StatedRoot, Unstated}}
                 \cup {NonRoot(Plain(UidOnly)), NonRoot(Plain(OptedOut)),
                       NonRoot(Plain(Unstated)),
                       DevPod(Plain(UidOnly))}
PairPods    == {Pair(UidOnly, OtherUid, FALSE), Pair(UidOnly, OtherUid, TRUE),
                Pair(RootImage, UidOnly, FALSE)}
AllPods     == LadderPods \cup PairPods

-----------------------------------------------------------------------------
(* Policies. *)

Open == [denyPtrace |-> FALSE, denyGid |-> NoId, strip |-> FALSE, addNonRoot |-> FALSE,
         setGid |-> NoId, serves |-> TRUE]
Restricted == [Open EXCEPT !.denyPtrace = TRUE]
Stripping  == [Open EXCEPT !.strip = TRUE]          \* issue #94
Hardening  == [Open EXCEPT !.addNonRoot = TRUE]
Unserved(p) == [p EXCEPT !.serves = FALSE]
Regrouping == [Restricted EXCEPT !.setGid = 0]
GroupRange == [Restricted EXCEPT !.denyGid = 1000]

LadderPolicies == {Open, Restricted, Stripping, Hardening, Regrouping, GroupRange,
                   Unserved(Restricted), Unserved(Stripping), Unserved(Hardening)}
RacePolicies   == {Restricted}

-----------------------------------------------------------------------------
(* Command lines. *)

Bare(w) == [target |-> w, uid |-> NoId, gid |-> NoId, ceiling |-> NoRung, new |-> FALSE,
            probe |-> TRUE, correct |-> TRUE]

BareRequest  == {Bare("app")}
RaceRequests == {Bare("app"), [Bare("app") EXCEPT !.new = TRUE]}
PairRequests == {Bare("app"), Bare("db")}
FlagRequests == PairRequests \cup
                {[Bare("app") EXCEPT !.new = TRUE],
                 [Bare("app") EXCEPT !.probe = FALSE],
                 [Bare("app") EXCEPT !.correct = FALSE],
                 [Bare("app") EXCEPT !.ceiling = "full"],
                 [Bare("app") EXCEPT !.ceiling = "degraded"],
                 [Bare("app") EXCEPT !.ceiling = "seat"],
                 [Bare("app") EXCEPT !.gid = 1000],
                 [Bare("app") EXCEPT !.uid = 1000, !.gid = 2000],
                 [Bare("app") EXCEPT !.uid = 0]}

-----------------------------------------------------------------------------
(* Who runs the launchers.  One person's launchers offer one key. *)

Alone      == [l \in Launchers |-> "alice"]
TwoPeople  == [l \in Launchers |-> IF l = "l1" THEN "alice" ELSE "bob"]

=============================================================================

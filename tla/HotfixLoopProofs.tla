-------------------------- MODULE HotfixLoopProofs --------------------------
(***************************************************************************)
(* What holds of a hotfixed pod for any number of restarts, launches,      *)
(* edits and faults: the hold has its script, and a restart that saw the   *)
(* whole application leaves none of it behind, and nothing older than what *)
(* was saved when it began; and no restart by itself ends the container.   *)
(***************************************************************************)
EXTENDS HotfixLoop, FiniteSetTheorems, TLAPS

Dead(n) == launches[n].wrapper # "running" /\ launches[n].worker # "running"

(* Launch n runs the working tree, as it was at revision b or later. *)
Since(n, b) ==
  /\ launches[n].wrapper = "running" => launches[n].claimed
  /\ launches[n].worker = "running" => launches[n].code >= b

(* r's script collected every process there was. *)
Seen(r) == whole[r] /\ (pc[r] \in {"kill", "poll", "release"} \/ report[r] = "relaunched")

Staged(r) ==
  /\ pc[r] \in {"require", "hold", "tree"} => ~whole[r]
  /\ report[r] = "relaunched" => pc[r] = "idle"
  /\ pc[r] # "idle" \/ whole[r] => tree > 0

(* What was there then was one launch; what came later runs what was saved. *)
Cleared(r) ==
  Seen(r) => /\ child[r] \in 1..Current
             /\ \A n \in 1..Current : n < child[r] => Dead(n)
             /\ \A n \in 1..Current : n > child[r] => Since(n, base[r])

Aimed(r) ==
  Seen(r) => IF pc[r] = "kill"
             THEN /\ launches[child[r]].worker # "unborn"
                  /\ doomed[r] = {<<child[r], "wrapper">>, <<child[r], "worker">>}
             ELSE Dead(child[r])

Inv == TypeOK /\ \A r \in Restarters : Staged(r) /\ Cleared(r) /\ Aimed(r)

-----------------------------------------------------------------------------
(* How the application changes. *)

LEMMA LaunchFields ==
  \A l \in Launch : /\ l.wrapper \in Part /\ l.worker \in Part /\ l.claimed \in BOOLEAN
                    /\ l.code \in Nat /\ l.own \in BOOLEAN
  BY DEF Launch

(* l is what is left of launch n without the processes in dead. *)
Left(n, dead, l) ==
  /\ l.wrapper = IF <<n, "wrapper">> \in dead THEN "gone" ELSE launches[n].wrapper
  /\ l.worker = IF <<n, "worker">> \in dead THEN "gone" ELSE launches[n].worker
  /\ l.claimed = launches[n].claimed /\ l.code = launches[n].code /\ l.own = launches[n].own

LEMMA Survive ==
  ASSUME launches \in Seq(Launch), NEW dead
  PROVE  /\ Survivors(dead) \in Seq(Launch)
         /\ Len(Survivors(dead)) = Current
         /\ \A n \in 1..Current : Left(n, dead, Survivors(dead)[n])
<1> DEFINE rec(n) == [launches[n] EXCEPT
                        !.wrapper = IF <<n, "wrapper">> \in dead THEN "gone" ELSE @,
                        !.worker  = IF <<n, "worker">> \in dead THEN "gone" ELSE @]
<1>1. DOMAIN launches = 1..Current /\ Current \in Nat
  BY DEF Current
<1>2. ASSUME NEW n \in 1..Current
      PROVE  rec(n) \in Launch /\ Left(n, dead, rec(n))
  <2>1. launches[n] \in Launch
    BY <1>1, <1>2
  <2> QED
    BY <2>1 DEF Launch, Part, Left
<1> HIDE DEF rec
<1>3. Survivors(dead) = [n \in 1..Current |-> rec(n)]
  BY <1>1 DEF Survivors, rec
<1>4. Survivors(dead) \in Seq(Launch) /\ Len(Survivors(dead)) = Current
  BY <1>1, <1>2, <1>3
<1>5. \A n \in 1..Current : Survivors(dead)[n] = rec(n)
  BY <1>3
<1> QED
  BY <1>2, <1>4, <1>5

(* What a step may do to the application. *)
Ages(n) ==
  /\ launches'[n].claimed = launches[n].claimed
  /\ launches'[n].wrapper = "running" => launches[n].wrapper = "running"
  /\ launches[n].worker # "unborn" => launches'[n].worker # "unborn"
  /\ launches[n].own => launches'[n].own
  /\ launches'[n].worker = "running" =>
       \/ launches[n].worker = "running" /\ launches'[n].code = launches[n].code
       \/ /\ launches[n].wrapper = "running" /\ launches[n].worker = "unborn"
          /\ launches[n].claimed => launches'[n].code = tree

Onward ==
  /\ launches' \in Seq(Launch) /\ Current' \in Nat /\ Current <= Current'
  /\ \A n \in 1..Current : Ages(n)
  /\ \A n \in 1..Current' : n > Current =>
       launches'[n].worker = "unborn" /\ launches'[n].claimed = (tree > 0)
  /\ port' \in 0..Current'

LEMMA SurviveOnward ==
  ASSUME TypeOK, NEW dead, launches' = Survivors(dead), port' \in {0, port}
  PROVE  Onward /\ Current' = Current
<1>1. /\ launches \in Seq(Launch) /\ Current \in Nat /\ port \in 0..Current
      /\ \A n \in 1..Current : launches[n] \in Launch
  BY DEF TypeOK, Current
<1>2. launches' \in Seq(Launch) /\ Current' = Current
  BY <1>1, Survive DEF Current
<1>3. ASSUME NEW n \in 1..Current
      PROVE  Ages(n)
  <2>1. Left(n, dead, launches'[n])
    BY <1>1, Survive
  <2> QED
    BY <2>1 DEF Ages, Left
<1> QED
  BY <1>1, <1>2, <1>3 DEF Onward

LEMMA StillOnward == ASSUME TypeOK, UNCHANGED <<launches, port>> PROVE Onward /\ Current' = Current
  BY DEF TypeOK, Onward, Ages, Current

LEMMA ForkOnward ==
  ASSUME TypeOK, Fork
  PROVE  Onward /\ Current' = Current + 1
<1> DEFINE new == [wrapper |-> "running", worker |-> "unborn", code |-> 0,
                   claimed |-> tree > 0, own |-> FALSE]
<1>1. new \in Launch /\ new.worker = "unborn" /\ new.claimed = (tree > 0)
  BY DEF Launch, Part
<1>2. launches' = Append(launches, new) /\ port' = port
  BY DEF Fork, app
<1> HIDE DEF new
<1>3. /\ launches \in Seq(Launch) /\ Current \in Nat /\ port \in 0..Current
  BY DEF TypeOK, Current
<1>4. /\ launches' \in Seq(Launch) /\ Current' = Current + 1 /\ launches'[Current + 1] = new
      /\ Len(launches') = Current + 1
      /\ \A n \in 1..Current : launches'[n] = launches[n]
  BY <1>1, <1>2, <1>3 DEF Current
<1>5. \A n \in 1..Current : Ages(n)
  BY <1>4 DEF Ages
<1>6. \A n \in 1..Current' : n > Current => n = Current + 1
  BY <1>3, <1>4
<1>7. port' \in 0..Current'
  BY <1>2, <1>3, <1>4
<1> QED
  BY <1>1, <1>3, <1>4, <1>5, <1>6, <1>7 DEF Onward

LEMMA WorkerOnward ==
  ASSUME TypeOK, NEW n \in DOMAIN launches, WorkerStarts(n)
  PROVE  Onward /\ Current' = Current
<1> DEFINE code == IF launches[n].claimed THEN tree ELSE 0
           new == [launches[n] EXCEPT !.worker = "running", !.code = code]
<1>1. /\ launches \in Seq(Launch) /\ Current \in Nat /\ port \in 0..Current
      /\ n \in 1..Current /\ launches[n] \in Launch /\ tree \in Nat
  BY DEF TypeOK, Current
<1>2. /\ new \in Launch /\ new.worker = "running" /\ new.code = code
      /\ new.wrapper = launches[n].wrapper /\ new.claimed = launches[n].claimed
      /\ new.own = launches[n].own
  BY <1>1 DEF Launch, Part
<1>3. launches' = [launches EXCEPT ![n] = new] /\ port' \in {n, port}
  BY <1>1 DEF WorkerStarts
<1>4. launches[n].wrapper = "running" /\ launches[n].worker = "unborn"
  BY DEF WorkerStarts
<1>5. launches[n].claimed => code = tree
  OBVIOUS
<1> HIDE DEF new, code
<1>6. /\ launches' \in Seq(Launch) /\ Current' = Current /\ launches'[n] = new
      /\ \A k \in 1..Current : k # n => launches'[k] = launches[k]
  BY <1>1, <1>2, <1>3 DEF Current
<1>7. \A k \in 1..Current : Ages(k)
  BY <1>2, <1>4, <1>5, <1>6 DEF Ages
<1> QED
  BY <1>1, <1>3, <1>6, <1>7 DEF Onward

LEMMA ExitOnward ==
  ASSUME TypeOK, NEW n \in DOMAIN launches, NEW part \in {"wrapper", "worker"}, ExitsAlone(n, part)
  PROVE  Onward /\ Current' = Current /\ OwnExit'
<1> DEFINE mid == Survivors({<<n, part>>})
           new == [mid[n] EXCEPT !.own = TRUE]
<1>1. /\ launches \in Seq(Launch) /\ Current \in Nat /\ port \in 0..Current /\ n \in 1..Current
      /\ \A k \in 1..Current : launches[k] \in Launch
  BY DEF TypeOK, Current
<1>2. mid \in Seq(Launch) /\ Len(mid) = Current
  BY <1>1, Survive
<1>3. \A k \in 1..Current :
         /\ mid[k].wrapper \in {"gone", launches[k].wrapper} /\ mid[k].claimed = launches[k].claimed
         /\ mid[k].worker \in {"gone", launches[k].worker} /\ mid[k].code = launches[k].code
         /\ mid[k].own = launches[k].own
  <2> SUFFICES ASSUME NEW k \in 1..Current
               PROVE  /\ mid[k].wrapper \in {"gone", launches[k].wrapper}
                      /\ mid[k].worker \in {"gone", launches[k].worker}
                      /\ mid[k].claimed = launches[k].claimed /\ mid[k].code = launches[k].code
                      /\ mid[k].own = launches[k].own
    OBVIOUS
  <2>1. Left(k, {<<n, part>>}, mid[k])
    BY <1>1, Survive
  <2> QED
    BY <2>1 DEF Left
<1>4. launches' = [mid EXCEPT ![n].own = TRUE] /\ port' \in {0, port}
  BY DEF ExitsAlone, PortWithout
<1> HIDE DEF mid
<1>5. mid[n] \in Launch
  BY <1>1, <1>2
<1>6. /\ new \in Launch /\ new.wrapper = mid[n].wrapper /\ new.worker = mid[n].worker
      /\ new.claimed = mid[n].claimed /\ new.code = mid[n].code /\ new.own
  BY <1>5 DEF Launch
<1>7. launches' = [mid EXCEPT ![n] = new]
  BY <1>4
<1> HIDE DEF new
<1>8. /\ launches' \in Seq(Launch) /\ Current' = Current /\ launches'[n] = new
      /\ \A k \in 1..Current : k # n => launches'[k] = mid[k]
  BY <1>1, <1>2, <1>6, <1>7 DEF Current
<1>9. \A k \in 1..Current : Ages(k)
  BY <1>3, <1>6, <1>8 DEF Ages
<1>10. OwnExit'
  BY <1>1, <1>6, <1>8 DEF OwnExit, Current
<1> QED
  BY <1>1, <1>4, <1>8, <1>9, <1>10 DEF Onward

-----------------------------------------------------------------------------
(* Types. *)

PodTypes ==
  /\ group \in Group
  /\ sup \in {"fork", "record", "wait", "reap", "test"}
  /\ boots \in Nat /\ tree \in Nat
  /\ hold \in Hold
  /\ exits \in Nat /\ kills \in Nat /\ late \in BOOLEAN /\ overlapped \in BOOLEAN

CommandTypes ==
  /\ pc \in [Restarters -> Stage]
  /\ calls \in [Restarters -> Nat]
  /\ whole \in [Restarters -> BOOLEAN]
  /\ report \in [Restarters -> {"none", "refused", "failed", "relaunched"}]

(* What points into the launches and the revisions. *)
PointerTypes ==
  /\ pidfile \in 0..Current
  /\ base \in [Restarters -> 0..tree]
  /\ child \in [Restarters -> 0..Current]
  /\ doomed \in [Restarters -> SUBSET ((1..Current) \X {"wrapper", "worker"})]

LEMMA TypesApart ==
  TypeOK <=> /\ launches \in Seq(Launch) /\ port \in 0..Current
             /\ PodTypes /\ CommandTypes /\ PointerTypes
  BY DEF TypeOK, PodTypes, CommandTypes, PointerTypes

LEMMA TypeInit == Init => TypeOK
<1> SUFFICES ASSUME Init PROVE TypeOK
  OBVIOUS
<1>1. Current = 0 /\ launches \in Seq(Launch)
  BY DEF Init, Current
<1>2. PodTypes
  BY DEF Init, PodTypes, Group, Hold
<1>3. CommandTypes
  BY DEF Init, CommandTypes, Stage, Scripted
<1>4. PointerTypes
  BY <1>1 DEF Init, PointerTypes
<1> QED
  BY <1>1, <1>2, <1>3, <1>4, TypesApart DEF Init

(* A restart of the container, whatever the reason. *)
LEMMA RestartOnward ==
  ASSUME TypeOK, ContainerRestarts
  PROVE  Onward /\ Current' = Current
  BY SurviveOnward DEF ContainerRestarts, TypeOK

LEMMA StepOnward ==
  ASSUME TypeOK, [Next]_vars
  PROVE  Onward /\ tree' \in {tree, tree + 1}
<1>1. CASE Fork
  BY <1>1, ForkOnward DEF Fork
<1>2. CASE RecordChild \/ Wait \/ RelaunchHeld
  BY <1>2, StillOnward DEF RecordChild, Wait, RelaunchHeld, app
<1>3. CASE Reap
  BY <1>3, SurviveOnward DEF Reap, PortWithout
<1>4. CASE ExitUnheld \/ ProbeFails
  BY <1>4, RestartOnward DEF ExitUnheld, ProbeFails, ContainerRestarts
<1>5. ASSUME NEW n \in DOMAIN launches, Application(n)
      PROVE  Onward /\ tree' = tree
  <2>1. CASE WorkerStarts(n)
    BY <2>1, WorkerOnward DEF WorkerStarts
  <2>2. CASE WrapperFollows(n)
    BY <2>2, SurviveOnward DEF WrapperFollows
  <2>3. ASSUME NEW part \in {"wrapper", "worker"}, ExitsAlone(n, part)
        PROVE  Onward /\ tree' = tree
    BY <2>3, ExitOnward DEF ExitsAlone
  <2> QED
    BY <1>5, <2>1, <2>2, <2>3 DEF Application
<1>6. CASE Seed \/ Edit \/ HoldExpires
  <2>1. tree' \in {tree, tree + 1} /\ UNCHANGED <<launches, port>>
    BY <1>6 DEF Seed, Edit, HoldExpires, app
  <2> QED
    BY <2>1, StillOnward
<1>7. ASSUME NEW r \in Restarters, Begin(r) \/ Restart(r) \/ ScriptKilled(r)
      PROVE  Onward /\ tree' = tree
  <2>1. CASE KillTree(r)
    BY <2>1, SurviveOnward DEF KillTree, PortWithout
  <2>2. CASE ~KillTree(r)
    <3>1. UNCHANGED <<launches, port>> /\ tree' = tree
      BY <1>7, <2>2 DEF Restart, Begin, RequireSupervisor, ReinstallFails, TakeHold, CollectTree,
           PidChanged, PollRunsOut, Release, ScriptKilled, Outside, app
    <3> QED
      BY <3>1, StillOnward
  <2> QED
    BY <2>1, <2>2
<1>8. CASE UNCHANGED vars
  BY <1>8, StillOnward DEF vars
<1> QED
  BY <1>1, <1>2, <1>3, <1>4, <1>5, <1>6, <1>7, <1>8 DEF Next, Supervisor

LEMMA PodTypesStep ==
  ASSUME TypeOK, [Next]_vars
  PROVE  PodTypes'
<1>1. PodTypes /\ tree' \in Nat
  BY TypesApart, StepOnward DEF PodTypes
<1> USE DEF PodTypes, app, files, counters
<1>2. CASE Fork \/ RecordChild \/ Wait \/ Reap \/ RelaunchHeld
  BY <1>1, <1>2 DEF Fork, RecordChild, Wait, Reap, RelaunchHeld
<1>3. CASE ExitUnheld \/ ProbeFails
  BY <1>1, <1>3 DEF ExitUnheld, ProbeFails, ContainerRestarts, Hold
<1>4. CASE \E n \in DOMAIN launches : Application(n)
  BY <1>1, <1>4 DEF Application, WorkerStarts, WrapperFollows, ExitsAlone
<1>5. CASE Seed \/ Edit \/ HoldExpires
  BY <1>1, <1>5 DEF Seed, Edit, HoldExpires, Hold
<1>6. ASSUME NEW r \in Restarters, Begin(r) \/ Restart(r) \/ ScriptKilled(r)
      PROVE  PodTypes'
  <2>1. CASE TakeHold(r)
    <3>1. /\ hold' \in {hold, "held"} /\ overlapped' \in BOOLEAN
          /\ UNCHANGED <<group, sup, boots, tree, exits, kills, late>>
      BY <1>1, <2>1 DEF TakeHold
    <3> QED
      BY <1>1, <3>1 DEF Hold
  <2>2. CASE PollRunsOut(r) \/ Release(r)
    BY <1>1, <2>2 DEF PollRunsOut, Release, Hold
  <2>4. CASE ScriptKilled(r)
    <3>1. kills' = kills + 1 /\ UNCHANGED <<group, sup, boots, tree, hold, exits, late, overlapped>>
      BY <2>4 DEF ScriptKilled
    <3> QED
      BY <1>1, <3>1
  <2>3. CASE Begin(r) \/ RequireSupervisor(r) \/ ReinstallFails(r) \/ CollectTree(r)
             \/ KillTree(r) \/ PidChanged(r)
    BY <1>1, <2>3 DEF Begin, RequireSupervisor, ReinstallFails, CollectTree, KillTree,
         PidChanged, Outside
  <2> QED
    BY <1>6, <2>1, <2>2, <2>3, <2>4 DEF Restart
<1>7. CASE UNCHANGED vars
  BY <1>1, <1>7 DEF vars
<1> QED
  BY <1>2, <1>3, <1>4, <1>5, <1>6, <1>7 DEF Next, Supervisor

LEMMA CommandTypesStep ==
  ASSUME TypeOK, [Next]_vars
  PROVE  CommandTypes'
<1>1. CommandTypes
  BY TypesApart
<1>2. CASE UNCHANGED restarts
  BY <1>1, <1>2 DEF CommandTypes, restarts
<1>3. CASE ContainerRestarts
  BY <1>1, <1>3 DEF CommandTypes, ContainerRestarts, Stage
<1>4. ASSUME NEW r \in Restarters, Begin(r) \/ Restart(r) \/ ScriptKilled(r)
      PROVE  CommandTypes'
  <2>1. \/ Goto(r, "hold") \/ Goto(r, "tree") \/ Goto(r, "kill") \/ Goto(r, "poll")
        \/ Goto(r, "release") \/ Return(r, "refused") \/ Return(r, "failed")
        \/ Return(r, "relaunched") \/ Begin(r)
    BY <1>4 DEF Restart, RequireSupervisor, ReinstallFails, TakeHold, CollectTree, KillTree,
         PidChanged, PollRunsOut, Release, ScriptKilled
  <2>2. /\ pc' \in [Restarters -> Stage]
        /\ report' \in [Restarters -> {"none", "refused", "failed", "relaunched"}]
    BY <1>1, <2>1 DEF CommandTypes, Goto, Return, Begin, Stage, Scripted
  <2>3. /\ calls' = calls \/ calls' = [calls EXCEPT ![r] = @ + 1]
        /\ whole' = whole \/ \E b \in BOOLEAN : whole' = [whole EXCEPT ![r] = b]
    BY <1>4 DEF Restart, Begin, RequireSupervisor, ReinstallFails, TakeHold, CollectTree,
         KillTree, PidChanged, PollRunsOut, Release, ScriptKilled, Outside
  <2> QED
    BY <1>1, <2>2, <2>3 DEF CommandTypes
<1> QED
  BY <1>2, <1>3, <1>4 DEF Next, Supervisor, Fork, RecordChild, Wait, Reap, RelaunchHeld, ExitUnheld,
       ProbeFails, Application, WorkerStarts, WrapperFollows, ExitsAlone, Seed, Edit, HoldExpires,
       vars, restarts

LEMMA PointerTypesStep ==
  ASSUME TypeOK, [Next]_vars
  PROVE  PointerTypes'
<1>1. /\ PointerTypes /\ Current \in Nat /\ tree \in Nat
      /\ Current' \in Nat /\ Current <= Current' /\ tree' \in Nat /\ tree <= tree'
  <2>1. launches \in Seq(Launch) /\ PointerTypes /\ tree \in Nat
    BY TypesApart DEF PodTypes
  <2>2. Onward /\ tree' \in {tree, tree + 1}
    BY StepOnward
  <2> QED
    BY <2>1, <2>2 DEF Onward, Current
<1>2. /\ 0..Current \subseteq 0..Current' /\ 1..Current \subseteq 1..Current'
      /\ 0..tree \subseteq 0..tree'
  BY <1>1
<1>3. ASSUME UNCHANGED <<base, child, doomed>>
      PROVE  PointerTypes' <=> pidfile' \in 0..Current'
  <2>1. base' \in [Restarters -> 0..tree'] /\ child' \in [Restarters -> 0..Current']
    BY <1>1, <1>2, <1>3 DEF PointerTypes
  <2>2. doomed' \in [Restarters -> SUBSET ((1..Current') \X {"wrapper", "worker"})]
    BY <1>1, <1>2, <1>3 DEF PointerTypes
  <2> QED
    BY <2>1, <2>2 DEF PointerTypes
<1>4. CASE UNCHANGED <<base, child, doomed>> /\ pidfile' \in {pidfile, 0, Current}
  BY <1>1, <1>2, <1>3, <1>4 DEF PointerTypes
<1>5. ASSUME NEW r \in Restarters, Begin(r)
      PROVE  PointerTypes'
  <2>1. Current' = Current /\ tree' = tree /\ pidfile' = pidfile
    BY <1>5 DEF Begin, Outside, app, files, Current
  <2> QED
    BY <1>1, <1>5, <2>1 DEF Begin, PointerTypes
<1>6. ASSUME NEW r \in Restarters, TakeHold(r)
      PROVE  PointerTypes'
  <2>1. Current' = Current /\ tree' = tree /\ pidfile' = pidfile
    BY <1>6 DEF TakeHold, app, Current
  <2> QED
    BY <1>1, <1>6, <2>1 DEF TakeHold, PointerTypes
<1>7. ASSUME NEW r \in Restarters, CollectTree(r)
      PROVE  PointerTypes'
  <2>1. Current' = Current /\ tree' = tree /\ pidfile' = pidfile
    BY <1>7 DEF CollectTree, Outside, app, files, Current
  <2>2. TreeOf(child[r]) \in SUBSET ((1..Current) \X {"wrapper", "worker"})
    BY <1>1 DEF PointerTypes, TreeOf, Alive
  <2> QED
    BY <1>1, <1>7, <2>1, <2>2 DEF CollectTree, PointerTypes
<1>8. ASSUME NEW r \in Restarters, Restart(r) \/ ScriptKilled(r), ~TakeHold(r), ~CollectTree(r)
      PROVE  UNCHANGED <<base, child, doomed, pidfile>>
  BY <1>8 DEF Restart, RequireSupervisor, ReinstallFails, KillTree, PidChanged, PollRunsOut,
       Release, ScriptKilled, Outside, files
<1> QED
  BY <1>4, <1>5, <1>6, <1>7, <1>8 DEF Next, Supervisor, Fork, RecordChild, Wait, Reap, RelaunchHeld,
       ExitUnheld, ProbeFails, ContainerRestarts, Application, WorkerStarts, WrapperFollows,
       ExitsAlone, Seed, Edit, HoldExpires, vars, restarts, files

LEMMA TypeStep == TypeOK /\ [Next]_vars => TypeOK'
<1> SUFFICES ASSUME TypeOK, [Next]_vars PROVE TypeOK'
  OBVIOUS
<1>1. launches' \in Seq(Launch) /\ port' \in 0..Current'
  BY StepOnward DEF Onward
<1>2. PodTypes' /\ CommandTypes' /\ PointerTypes'
  BY PodTypesStep, CommandTypesStep, PointerTypesStep
<1> QED
  BY <1>1, <1>2 DEF TypeOK, PodTypes, CommandTypes, PointerTypes

-----------------------------------------------------------------------------
(* What a step does to one restart. *)

Kept(r) == UNCHANGED <<base[r], child[r], doomed[r], whole[r]>>

(* A restart ends without having relaunched: refused, failed, killed, or the *)
(* container went from under its script.                                     *)
Quits(r) == pc'[r] = "idle" /\ report'[r] \in {"refused", "failed"} /\ Kept(r)

Moves(r, from, to) == pc[r] = from /\ pc'[r] = to /\ report'[r] = report[r] /\ Kept(r)

LEMMA RestartsSeparate ==
  ASSUME TypeOK, NEW r \in Restarters, NEW s \in Restarters, s # r,
         Begin(s) \/ Restart(s) \/ ScriptKilled(s)
  PROVE  UNCHANGED <<pc[r], report[r]>> /\ Kept(r)
  BY DEF TypeOK, Kept, Begin, Restart, RequireSupervisor, ReinstallFails, TakeHold, CollectTree,
     KillTree, PidChanged, PollRunsOut, Release, ScriptKilled, Goto, Return, Outside

LEMMA OwnStep ==
  ASSUME TypeOK, [Next]_vars, NEW r \in Restarters
  PROVE  \/ UNCHANGED <<pc[r], report[r]>> /\ Kept(r)
         \/ Quits(r)
         \/ Begin(r) /\ pc'[r] = "require" /\ report'[r] = "none" /\ ~whole'[r]
         \/ Moves(r, "require", "hold")
         \/ pc[r] = "hold" /\ pc'[r] = "tree" /\ report'[r] = report[r] /\ whole'[r] = whole[r]
         \/ CollectTree(r) /\ pc'[r] = "kill"
         \/ KillTree(r) /\ Moves(r, "kill", "poll")
         \/ Moves(r, "poll", "release")
         \/ pc[r] = "release" /\ pc'[r] = "idle" /\ report'[r] = "relaunched" /\ Kept(r)
<1> USE DEF TypeOK, Kept, Quits, Moves, Goto, Return, Outside
<1>1. CASE UNCHANGED restarts
  BY <1>1 DEF restarts
<1>2. CASE ContainerRestarts
  BY <1>2 DEF ContainerRestarts
<1>3. CASE Begin(r)
  BY <1>3 DEF Begin
<1>4. CASE RequireSupervisor(r) \/ ReinstallFails(r)
  BY <1>4 DEF RequireSupervisor, ReinstallFails
<1>5. CASE TakeHold(r)
  BY <1>5 DEF TakeHold
<1>6. CASE CollectTree(r)
  BY <1>6 DEF CollectTree
<1>7. CASE KillTree(r)
  BY <1>7 DEF KillTree
<1>8. CASE PidChanged(r) \/ PollRunsOut(r)
  BY <1>8 DEF PidChanged, PollRunsOut
<1>9. CASE Release(r)
  BY <1>9 DEF Release
<1>10. CASE ScriptKilled(r)
  BY <1>10 DEF ScriptKilled
<1>11. CASE \E s \in Restarters \ {r} : Begin(s) \/ Restart(s) \/ ScriptKilled(s)
  BY <1>11, RestartsSeparate
<1> QED
  BY <1>1, <1>2, <1>3, <1>4, <1>5, <1>6, <1>7, <1>8, <1>9, <1>10, <1>11
  DEF Next, Restart, Supervisor, Fork, RecordChild, Wait, Reap, RelaunchHeld, ExitUnheld, ProbeFails,
      Application, WorkerStarts, WrapperFollows, ExitsAlone, Seed, Edit, HoldExpires, vars, restarts

-----------------------------------------------------------------------------
(* The invariant. *)

LEMMA StagedStep ==
  ASSUME TypeOK, [Next]_vars, NEW r \in Restarters, Staged(r)
  PROVE  Staged(r)'
<1>1. tree \in Nat /\ (tree > 0 => tree' > 0)
  BY StepOnward DEF TypeOK
<1>2. Begin(r) => tree > 0
  BY DEF Begin
<1>3. CollectTree(r) => pc[r] = "tree" /\ report'[r] = report[r]
  BY DEF CollectTree, Goto
<1> QED
  BY <1>1, <1>2, <1>3, OwnStep DEF Staged, Quits, Moves, Kept

(* A script that sees two processes, all in the tree of the child it read,   *)
(* sees a wrapper and its worker, and there is nothing else.                 *)
LEMMA WholeTree ==
  ASSUME TypeOK, NEW c \in 0..Current, TreeOf(c) = Running, Cardinality(Running) = 2
  PROVE  /\ c \in 1..Current
         /\ TreeOf(c) = {<<c, "wrapper">>, <<c, "worker">>}
         /\ launches[c].worker = "running"
         /\ \A n \in 1..Current : n # c => Dead(n)
<1>1. TreeOf(c) \subseteq {<<c, "wrapper">>, <<c, "worker">>}
  BY DEF TreeOf, Alive
<1>2. \A x : Cardinality({x}) = 1 /\ IsFiniteSet({x})
  BY FS_Singleton
<1>3. ASSUME NEW x, TreeOf(c) \subseteq {x}
      PROVE  FALSE
  <2>1. Cardinality(TreeOf(c)) <= Cardinality({x})
    BY <1>2, <1>3, FS_Subset
  <2>2. Cardinality({x}) = 1
    BY <1>2
  <2>3. Cardinality(TreeOf(c)) = 2
    OBVIOUS
  <2> QED
    BY <2>1, <2>2, <2>3
<1>4. <<c, "wrapper">> \in TreeOf(c) /\ <<c, "worker">> \in TreeOf(c)
  <2>1. <<c, "wrapper">> \notin TreeOf(c) => TreeOf(c) \subseteq {<<c, "worker">>}
    BY <1>1
  <2>2. <<c, "worker">> \notin TreeOf(c) => TreeOf(c) \subseteq {<<c, "wrapper">>}
    BY <1>1
  <2> QED
    BY <1>3, <2>1, <2>2
<1>5. TreeOf(c) = {<<c, "wrapper">>, <<c, "worker">>}
  BY <1>1, <1>4
<1>6. c # 0 /\ launches[c].worker = "running"
  BY <1>4 DEF TreeOf, Alive
<1>7. c \in 1..Current /\ DOMAIN launches = 1..Current
  BY <1>6 DEF TypeOK, Current
<1>8. ASSUME NEW n \in 1..Current, n # c
      PROVE  Dead(n)
  <2>1. \A part \in Alive(n) : <<n, part>> \in Running
    BY <1>7 DEF Running
  <2>2. Alive(n) = {}
    BY <1>5, <1>8, <2>1
  <2> QED
    BY <2>2 DEF Alive, Dead
<1> QED
  BY <1>5, <1>6, <1>7, <1>8

LEMMA DeadStay ==
  ASSUME NEW n, Ages(n), Dead(n)
  PROVE  Dead(n)'
  BY DEF Ages, Dead

LEMMA SinceStays ==
  ASSUME NEW n, NEW b \in Nat, tree \in Nat, tree >= b, Ages(n), Since(n, b)
  PROVE  Since(n, b)'
  BY DEF Ages, Since

LEMMA ClearedStep ==
  ASSUME TypeOK, [Next]_vars, NEW r \in Restarters, Staged(r), Cleared(r)
  PROVE  Cleared(r)'
<1>1. Onward /\ base[r] \in 0..tree /\ tree \in Nat /\ Current \in Nat /\ child[r] \in 0..Current
  BY StepOnward DEF TypeOK, Current
<1>2. ASSUME Seen(r), Kept(r)
      PROVE  Cleared(r)'
  <2>1. child'[r] = child[r] /\ base'[r] = base[r] /\ child[r] \in 1..Current /\ whole[r]
    BY <1>2 DEF Kept, Cleared, Seen
  <2>2. child[r] \in 1..Current'
    BY <1>1, <2>1 DEF Onward
  <2>3. ASSUME NEW n \in 1..Current', n < child[r]
        PROVE  Dead(n)'
    BY <1>1, <1>2, <2>1, <2>3, DeadStay DEF Onward, Cleared
  <2>4. ASSUME NEW n \in 1..Current', n > child[r]
        PROVE  Since(n, base[r])'
    <3>1. CASE n \in 1..Current
      BY <1>1, <1>2, <2>1, <2>4, <3>1, SinceStays DEF Onward, Cleared
    <3>2. CASE n > Current
      BY <1>1, <2>1, <3>2 DEF Onward, Staged, Since
    <3> QED
      BY <1>1, <3>1, <3>2
  <2> QED
    BY <2>1, <2>2, <2>3, <2>4 DEF Cleared, Since
<1>3. ASSUME CollectTree(r), whole'[r]
      PROVE  Cleared(r)'
  <2>1. TreeOf(child[r]) = Running /\ Cardinality(Running) = 2
    BY <1>3 DEF CollectTree, TypeOK
  <2>2. UNCHANGED <<launches, child>> /\ Current' = Current
    BY <1>3 DEF CollectTree, Outside, app, Current
  <2> QED
    BY <1>1, <2>1, <2>2, WholeTree DEF Cleared, Dead, Since
<1>4. ~Seen(r)' \/ (Seen(r) /\ Kept(r)) \/ CollectTree(r)
  BY OwnStep DEF Seen, Quits, Moves, Staged, Kept
<1> QED
  BY <1>2, <1>3, <1>4 DEF Cleared, Seen

LEMMA AimedStep ==
  ASSUME TypeOK, [Next]_vars, NEW r \in Restarters, Staged(r), Cleared(r), Aimed(r)
  PROVE  Aimed(r)'
<1>1. Onward /\ Current \in Nat /\ child[r] \in 0..Current /\ launches \in Seq(Launch)
  BY StepOnward DEF TypeOK, Current
<1>2. Seen(r) => child[r] \in 1..Current /\ Ages(child[r])
  BY <1>1 DEF Cleared, Onward
<1>3. CASE UNCHANGED <<pc[r], report[r]>> /\ Kept(r)
  <2>1. Seen(r)' <=> Seen(r)
    BY <1>3 DEF Seen, Kept
  <2>2. Seen(r) /\ pc[r] = "kill" => Aimed(r)'
    BY <1>2, <1>3 DEF Aimed, Kept, Ages
  <2>3. Seen(r) /\ pc[r] # "kill" => Dead(child[r])'
    <3>1. Seen(r) /\ pc[r] # "kill" => Dead(child[r]) /\ Ages(child[r])
      BY <1>2 DEF Aimed
    <3>2. child'[r] = child[r]
      BY <1>3 DEF Kept
    <3> QED
      BY <3>1, <3>2 DEF Dead, Ages
  <2> QED
    BY <1>3, <2>1, <2>2, <2>3 DEF Aimed, Kept, Dead
<1>4. CASE CollectTree(r) /\ pc'[r] = "kill"
  <2>1. ASSUME whole'[r]
        PROVE  TreeOf(child[r]) = Running /\ Cardinality(Running) = 2
    BY <1>4, <2>1 DEF CollectTree, TypeOK
  <2>2. UNCHANGED <<launches, child>> /\ doomed'[r] = TreeOf(child[r])
    BY <1>4 DEF CollectTree, Outside, app, TypeOK
  <2> QED
    BY <1>1, <1>4, <2>1, <2>2, WholeTree DEF Aimed, Seen
<1>5. CASE KillTree(r) /\ Moves(r, "kill", "poll")
  <2>1. Seen(r)' => Seen(r)
    BY <1>5 DEF Seen, Moves, Kept
  <2>2. ASSUME Seen(r)
        PROVE  Dead(child[r])'
    <3>1. doomed[r] = {<<child[r], "wrapper">>, <<child[r], "worker">>}
      BY <1>5, <2>2 DEF Aimed, Moves
    <3>2. launches' = Survivors(doomed[r]) /\ child'[r] = child[r]
      BY <1>5 DEF KillTree, Moves, Kept
    <3>3. Left(child[r], doomed[r], launches'[child[r]])
      BY <1>1, <1>2, <2>2, <3>2, Survive
    <3> QED
      BY <3>1, <3>2, <3>3 DEF Left, Dead
  <2> QED
    BY <1>5, <2>1, <2>2 DEF Aimed, Moves
<1>6. CASE Moves(r, "poll", "release")
           \/ (pc[r] = "release" /\ pc'[r] = "idle" /\ report'[r] = "relaunched" /\ Kept(r))
  <2>1. (Seen(r)' => Seen(r)) /\ pc[r] # "kill" /\ pc'[r] # "kill" /\ child'[r] = child[r]
    BY <1>6 DEF Seen, Moves, Kept
  <2>2. Seen(r) => Dead(child[r])'
    BY <1>2, <2>1, DeadStay DEF Aimed
  <2> QED
    BY <2>1, <2>2 DEF Aimed, Dead
<1>7. CASE \/ Quits(r)
           \/ Begin(r) /\ pc'[r] = "require" /\ report'[r] = "none" /\ ~whole'[r]
           \/ Moves(r, "require", "hold")
           \/ pc[r] = "hold" /\ pc'[r] = "tree" /\ report'[r] = report[r] /\ whole'[r] = whole[r]
  BY <1>7 DEF Aimed, Seen, Quits, Moves, Staged, Kept
<1> QED
  BY <1>3, <1>4, <1>5, <1>6, <1>7, OwnStep

LEMMA InvInit == Init => Inv
  BY TypeInit DEF Init, Inv, Staged, Cleared, Aimed, Seen

LEMMA InvStep == Inv /\ [Next]_vars => Inv'
<1> SUFFICES ASSUME Inv, [Next]_vars PROVE Inv'
  OBVIOUS
<1>1. TypeOK'
  BY TypeStep DEF Inv
<1>2. \A r \in Restarters : Staged(r)' /\ Cleared(r)' /\ Aimed(r)'
  BY StagedStep, ClearedStep, AimedStep DEF Inv
<1> QED
  BY <1>1, <1>2 DEF Inv

-----------------------------------------------------------------------------
(* The types of the state, for any restarts, launches and faults.            *)
THEOREM HotfixLoopTypeCorrect == Spec => []TypeOK
<1>1. TypeOK /\ [Next]_vars => TypeOK'
  BY TypeStep
<1> QED
  BY <1>1, TypeInit, PTL DEF Spec

LEMMA HeldStep ==
  ASSUME TypeOK, HeldByAScript, [Next]_vars
  PROVE  HeldByAScript'
<1> USE DEF HeldByAScript
<1>1. kills \in Nat /\ pc \in [Restarters -> Stage]
  BY DEF TypeOK
<1>2. CASE UNCHANGED <<hold, kills, pc>>
  BY <1>2
<1>3. CASE ContainerRestarts
  BY <1>3 DEF ContainerRestarts
<1>4. CASE HoldExpires
  <2>1. hold # "none" /\ UNCHANGED <<kills, pc>>
    BY <1>4 DEF HoldExpires, counters, restarts
  <2> QED
    BY <1>4, <2>1
<1>5. ASSUME NEW r \in Restarters, TakeHold(r)
      PROVE  HeldByAScript'
  <2>1. (pc'[r] \in Scripted \/ hold' = hold) /\ kills' = kills
    BY <1>1, <1>5 DEF TakeHold, Goto, Scripted, counters
  <2>2. \A s \in Restarters : pc[s] \in Scripted => pc'[s] \in Scripted
    BY <1>1, <1>5 DEF TakeHold, Goto, Return, Scripted
  <2> QED
    BY <2>1, <2>2
<1>6. ASSUME NEW r \in Restarters, Release(r) \/ ScriptKilled(r)
      PROVE  HeldByAScript'
  BY <1>1, <1>6 DEF Release, ScriptKilled
<1>7. ASSUME NEW r \in Restarters,
             \/ Begin(r) \/ RequireSupervisor(r) \/ ReinstallFails(r) \/ CollectTree(r)
             \/ KillTree(r) \/ PidChanged(r) \/ PollRunsOut(r)
      PROVE  HeldByAScript'
  <2>1. UNCHANGED <<hold, kills>>
    BY <1>7 DEF Begin, RequireSupervisor, ReinstallFails, CollectTree, KillTree, PidChanged,
         PollRunsOut, Outside, files, counters
  <2>2. \A s \in Restarters : pc[s] \in Scripted => pc'[s] \in Scripted
    BY <1>1, <1>7 DEF Begin, RequireSupervisor, ReinstallFails, CollectTree, KillTree, PidChanged,
         PollRunsOut, Goto, Return, Scripted
  <2> QED
    BY <2>1, <2>2
<1> QED
  BY <1>2, <1>3, <1>4, <1>5, <1>6, <1>7
  DEF Next, Restart, Supervisor, Fork, RecordChild, Wait, Reap, RelaunchHeld, ExitUnheld, ProbeFails,
      Application, WorkerStarts, WrapperFollows, ExitsAlone, Seed, Edit, vars, restarts, files, counters

(* "The hold file is removed on every path" (_relaunch): whoever restarts    *)
(* the application, and however often the container does, a pod is held only *)
(* while a script is there that will let it go.                              *)
THEOREM HoldsHaveScripts == Spec => []HeldByAScript
<1>1. Init => HeldByAScript
  BY DEF Init, HeldByAScript
<1>2. TypeOK /\ HeldByAScript /\ [Next]_vars => HeldByAScript'
  BY HeldStep
<1> QED
  BY <1>1, <1>2, HotfixLoopTypeCorrect, PTL DEF Spec

(* Once a script that saw the whole application has killed it, nothing of    *)
(* the launches up to the one it read runs, whatever forks, dies or is       *)
(* relaunched by others meanwhile (HOLD_AND_RELAUNCH).                       *)
THEOREM KilledTreesStayDead == Spec => []NothingOldServes
<1>1. ASSUME Inv PROVE NothingOldServes
  <2> SUFFICES ASSUME NEW r \in Restarters, Killed(r), NEW n \in 1..child[r]
               PROVE  Alive(n) = {}
    BY DEF NothingOldServes
  <2>1. Seen(r) /\ pc[r] # "kill"
    BY <1>1 DEF Killed, Seen, Inv, Staged
  <2>2. child[r] \in 1..Current /\ Current \in Nat
    BY <1>1, <2>1 DEF Inv, Cleared, TypeOK, Current
  <2>3. n < child[r] \/ n = child[r]
    BY <2>2
  <2>4. Dead(n)
    BY <1>1, <2>1, <2>2, <2>3 DEF Inv, Cleared, Aimed
  <2> QED
    BY <2>4 DEF Dead, Alive
<1> QED
  BY <1>1, InvInit, InvStep, PTL DEF Spec

(* And what runs instead loaded the working tree as it was when the restart  *)
(* began or later, never the image's code (hold_loop_args).                  *)
THEOREM RelaunchesRunWhatWasSaved == Spec => []RunsWhatWasSaved
<1>1. ASSUME Inv PROVE RunsWhatWasSaved
  <2> SUFFICES ASSUME NEW r \in Restarters, Killed(r), NEW n \in DOMAIN launches,
                      launches[n].worker = "running"
               PROVE  launches[n].code >= base[r]
    BY DEF RunsWhatWasSaved
  <2>1. Seen(r) /\ pc[r] # "kill"
    BY <1>1 DEF Killed, Seen, Inv, Staged
  <2>2. child[r] \in 1..Current /\ Current \in Nat /\ n \in 1..Current
    BY <1>1, <2>1 DEF Inv, Cleared, TypeOK, Current
  <2>3. ~Dead(n)
    BY DEF Dead
  <2>4. n > child[r]
    BY <1>1, <2>1, <2>2, <2>3 DEF Inv, Cleared, Aimed
  <2> QED
    BY <1>1, <2>1, <2>2, <2>4 DEF Inv, Cleared, Since
<1> QED
  BY <1>1, InvInit, InvStep, PTL DEF Spec

-----------------------------------------------------------------------------
(* Why the seats survive: as long as nothing ends of itself, no wait runs    *)
(* out and restarts do not overlap, a launch ends only under a hold.         *)

(* No fault, and no wait given up, so far, and no process that ended of      *)
(* itself.                                                                   *)
Calm == ~OwnExit /\ ~late /\ ~overlapped /\ kills = 0

(* Launch n is as the supervisor started it. *)
Hale(n) == launches[n].wrapper = "running" /\ launches[n].worker # "gone"

(* One script at a time, and the pod is held exactly while there is one.     *)
OneHolds ==
  /\ \A r, s \in Restarters : pc[r] \in Scripted /\ pc[s] \in Scripted => r = s
  /\ hold = IF \E r \in Restarters : pc[r] \in Scripted THEN "held" ELSE "none"

(* Where the supervisor is: every launch before the one it waits for has     *)
(* ended, and the pid file names the last one it has recorded.               *)
Followed ==
  /\ sup # "fork" => Current > 0
  /\ pidfile = IF sup = "record" THEN Current - 1 ELSE Current
  /\ \A n \in 1..Current : n < Current \/ sup \in {"fork", "reap", "test"}
                             => launches[n].wrapper # "running"

(* What a script does is to a launch that was recorded, and what it kills is *)
(* the current one.                                                          *)
Acts(r) ==
  /\ pc[r] \in {"tree", "kill", "poll"} => child[r] <= pidfile
  /\ pc[r] = "kill" => /\ doomed[r] \subseteq {<<child[r], part>> : part \in {"wrapper", "worker"}}
                       /\ doomed[r] # {} => child[r] = Current

(* The current launch runs, and serves as soon as it can, or the script that *)
(* killed it waits for the next.                                             *)
Attended ==
  Current > 0 => \/ Hale(Current) /\ (launches[Current].worker = "running" => port # 0)
                 \/ \E r \in Restarters : pc[r] = "poll" /\ child[r] = Current

Steady == OneHolds /\ Followed /\ Attended /\ \A r \in Restarters : Acts(r)
Calmly == Calm => Steady

LEMMA CalmBefore ==
  ASSUME TypeOK, [Next]_vars, Calm'
  PROVE  Calm
<1>1. OwnExit => OwnExit'
  <2>1. /\ Onward /\ Current \in Nat
        /\ DOMAIN launches = 1..Current /\ DOMAIN launches' = 1..Current'
    BY StepOnward DEF TypeOK, Onward, Current
  <2> QED
    BY <2>1 DEF OwnExit, Onward, Ages
<1>2. late => late'
  BY DEF Next, Supervisor, Fork, RecordChild, Wait, Reap, RelaunchHeld, ExitUnheld, ProbeFails,
     ContainerRestarts, Application, WorkerStarts, WrapperFollows, ExitsAlone, Seed, Edit, HoldExpires,
     Begin, Restart, RequireSupervisor, ReinstallFails, TakeHold, CollectTree, KillTree, PidChanged,
     PollRunsOut, Release, ScriptKilled, Outside, counters, vars
<1>3. overlapped => overlapped'
  BY DEF Next, Supervisor, Fork, RecordChild, Wait, Reap, RelaunchHeld, ExitUnheld, ProbeFails,
     ContainerRestarts, Application, WorkerStarts, WrapperFollows, ExitsAlone, Seed, Edit, HoldExpires,
     Begin, Restart, RequireSupervisor, ReinstallFails, TakeHold, CollectTree, KillTree, PidChanged,
     PollRunsOut, Release, ScriptKilled, Outside, counters, vars
<1>4. kills' \in {kills, kills + 1}
  BY DEF Next, Supervisor, Fork, RecordChild, Wait, Reap, RelaunchHeld, ExitUnheld, ProbeFails,
     ContainerRestarts, Application, WorkerStarts, WrapperFollows, ExitsAlone, Seed, Edit, HoldExpires,
     Begin, Restart, RequireSupervisor, ReinstallFails, TakeHold, CollectTree, KillTree, PidChanged,
     PollRunsOut, Release, ScriptKilled, Outside, counters, vars
<1> QED
  BY <1>1, <1>2, <1>3, <1>4 DEF Calm, TypeOK

(* Where the container could restart it does not. *)
LEMMA NoRestartInCalm ==
  ASSUME TypeOK, Calm, Steady
  PROVE  ~ExitUnheld /\ ~ProbeFails
<1>1. Current \in Nat /\ (\A n \in 1..Current : launches[n].worker \in Part)
  BY LaunchFields DEF TypeOK, Current
<1>2. ASSUME hold = "none", sup # "fork"
      PROVE  /\ Current \in 1..Current /\ launches[Current].wrapper = "running"
             /\ launches[Current].worker # "gone"
             /\ launches[Current].worker = "running" => port # 0
  <2>1. \A r \in Restarters : pc[r] \notin Scripted
    BY <1>2 DEF Steady, OneHolds
  <2>2. Current > 0
    BY <1>2 DEF Steady, Followed
  <2> QED
    BY <1>1, <2>1, <2>2 DEF Steady, Attended, Hale, Scripted
<1>3. ~ExitUnheld
  <2>1. sup = "test" => \A n \in 1..Current : launches[n].wrapper # "running"
    BY DEF Steady, Followed
  <2> QED
    BY <1>2, <2>1 DEF ExitUnheld
<1>4. ~ProbeFails
  BY <1>1, <1>2 DEF ProbeFails, Part
<1> QED
  BY <1>3, <1>4

(* The scripts look on: nothing of theirs has changed. *)
LookOn == UNCHANGED <<pc, child, doomed, hold, pidfile>> /\ Current' = Current

LEMMA OnlookersAct ==
  ASSUME LookOn, OneHolds, \A r \in Restarters : Acts(r)
  PROVE  OneHolds' /\ \A r \in Restarters : Acts(r)'
<1>1. OneHolds'
  BY DEF LookOn, OneHolds
<1>2. ASSUME NEW r \in Restarters PROVE Acts(r)'
  BY DEF LookOn, Acts
<1> QED
  BY <1>1, <1>2

(* A launch that has ended is not brought back, and a poller polls on. *)
LEMMA FollowedStays ==
  ASSUME Onward, Current' = Current, Current \in Nat, Followed, UNCHANGED pidfile,
         \/ sup' = sup
         \/ sup \in {"reap", "test"} /\ sup' \in {"test", "fork"}
  PROVE  Followed'
  BY DEF Onward, Ages, Followed

LEMMA ForkSteady ==
  ASSUME TypeOK, Steady, Fork
  PROVE  Steady'
<1>1. /\ Current' = Current + 1 /\ Current \in Nat /\ Onward
      /\ launches \in Seq(Launch) /\ sup = "fork" /\ sup' = "record"
      /\ UNCHANGED <<pc, child, doomed, hold, pidfile>>
  BY ForkOnward DEF Fork, TypeOK, files, restarts, Current
<1>2. /\ \A n \in 1..Current : launches[n].wrapper # "running"
      /\ pidfile = Current
  BY <1>1 DEF Steady, Followed
<1>3. /\ \A n \in 1..Current : launches'[n] = launches[n]
      /\ launches'[Current + 1].wrapper = "running" /\ launches'[Current + 1].worker = "unborn"
  <2> DEFINE new == [wrapper |-> "running", worker |-> "unborn", code |-> 0,
                     claimed |-> tree > 0, own |-> FALSE]
  <2>1. new \in Launch /\ new.wrapper = "running" /\ new.worker = "unborn"
    BY DEF Launch, Part
  <2>2. launches' = Append(launches, new)
    BY DEF Fork
  <2> HIDE DEF new
  <2> QED
    BY <1>1, <2>1, <2>2 DEF Current
<1>4. OneHolds'
  BY <1>1 DEF Steady, OneHolds
<1>5. Followed'
  BY <1>1, <1>2, <1>3 DEF Followed
<1>6. Attended'
  BY <1>1, <1>3 DEF Attended, Hale
<1>7. ASSUME NEW r \in Restarters
      PROVE  Acts(r)'
  <2>1. pc[r] = "kill" => doomed[r] = {}
    <3> SUFFICES ASSUME pc[r] = "kill", doomed[r] # {} PROVE FALSE
      OBVIOUS
    <3>1. child[r] = Current /\ doomed[r] \subseteq (1..Current) \X {"wrapper", "worker"}
      BY DEF Steady, Acts, TypeOK
    <3>2. Current > 0
      BY <1>1, <3>1
    <3>3. PICK s \in Restarters : pc[s] = "poll"
      BY <1>1, <1>2, <3>2 DEF Steady, Attended, Hale
    <3> QED
      BY <3>3 DEF Steady, OneHolds, Scripted
  <2> QED
    BY <1>1, <2>1 DEF Steady, Acts
<1> QED
  BY <1>4, <1>5, <1>6, <1>7 DEF Steady

LEMMA SupervisorSteady ==
  ASSUME TypeOK, Steady, RecordChild \/ Wait \/ Reap \/ RelaunchHeld
  PROVE  Steady'
<1>1. Onward /\ Current' = Current /\ Current \in Nat /\ Current = Len(launches)
  <2>1. CASE Reap
    <3>1. Onward /\ Current' = Current
      BY <2>1, SurviveOnward DEF Reap, PortWithout
    <3> QED
      BY <3>1 DEF TypeOK, Current
  <2>2. CASE RecordChild \/ Wait \/ RelaunchHeld
    BY <2>2, StillOnward DEF RecordChild, Wait, RelaunchHeld, app, TypeOK, Current
  <2> QED
    BY <2>1, <2>2
<1>2. UNCHANGED <<pc, child, doomed, hold>>
  BY DEF RecordChild, Wait, Reap, RelaunchHeld, files, restarts
<1>3. OneHolds'
  BY <1>2 DEF Steady, OneHolds
<1>4. Followed'
  <2>1. CASE RecordChild
    BY <1>1, <2>1 DEF RecordChild, Steady, Followed, app
  <2>2. CASE Wait
    BY <1>1, <2>2 DEF Wait, Steady, Followed, app, files
  <2>3. CASE Reap \/ RelaunchHeld
    BY <1>1, <2>3, FollowedStays DEF Reap, RelaunchHeld, Steady, files
  <2> QED
    BY <2>1, <2>2, <2>3
<1>5. Attended'
  <2>1. CASE Reap
    <3>1. Current > 0 => \E r \in Restarters : pc[r] = "poll" /\ child[r] = Current
      BY <1>1, <2>1 DEF Reap, Steady, Followed, Attended, Hale
    <3> QED
      BY <1>1, <1>2, <3>1 DEF Attended
  <2>2. CASE RecordChild \/ Wait \/ RelaunchHeld
    <3>1. UNCHANGED <<launches, port>>
      BY <2>2 DEF RecordChild, Wait, RelaunchHeld, app
    <3> QED
      BY <1>1, <1>2, <3>1 DEF Steady, Attended, Hale
  <2> QED
    BY <2>1, <2>2
<1>6. pidfile' = pidfile \/ (pidfile = Current - 1 /\ pidfile' = Current)
  BY DEF RecordChild, Wait, Reap, RelaunchHeld, files, Steady, Followed
<1>7. ASSUME NEW r \in Restarters
      PROVE  Acts(r)'
  <2>1. child[r] \in Nat /\ pidfile \in Nat
    BY DEF TypeOK, Current
  <2> QED
    BY <1>1, <1>2, <1>6, <2>1 DEF Steady, Acts
<1> QED
  BY <1>3, <1>4, <1>5, <1>7 DEF Steady

(* The only launch whose wrapper runs is the current one. *)
LEMMA OnlyCurrentRuns ==
  ASSUME TypeOK, Followed, NEW n \in 1..Current, launches[n].wrapper = "running"
  PROVE  n = Current
  BY DEF Followed, TypeOK, Current

LEMMA ApplicationSteady ==
  ASSUME TypeOK, Steady, NEW n \in DOMAIN launches, WorkerStarts(n) \/ WrapperFollows(n)
  PROVE  Steady'
<1>1. n \in 1..Current /\ Current \in Nat /\ launches \in Seq(Launch) /\ Current = Len(launches)
  BY DEF TypeOK, Current
<1>2. n = Current
  BY <1>1, OnlyCurrentRuns DEF WorkerStarts, WrapperFollows, Steady
<1>3. Onward /\ Current' = Current
  BY WorkerOnward, SurviveOnward DEF WrapperFollows
<1>4. UNCHANGED <<pc, child, doomed, hold, pidfile, sup>>
  BY DEF WorkerStarts, WrapperFollows, files, restarts
<1>5. OneHolds' /\ \A r \in Restarters : Acts(r)'
  BY <1>3, <1>4, OnlookersAct DEF LookOn, Steady
<1>6. Followed'
  BY <1>1, <1>3, <1>4, FollowedStays DEF Steady
<1>7. Attended'
  <2>1. CASE WorkerStarts(n)
    <3> DEFINE new == [launches[n] EXCEPT !.worker = "running",
                                          !.code = IF launches[n].claimed THEN tree ELSE 0]
    <3>1. new.wrapper = "running" /\ new.worker = "running"
      BY <1>1, <2>1 DEF WorkerStarts, Launch
    <3>2. launches' = [launches EXCEPT ![n] = new] /\ port' = IF port = 0 THEN n ELSE port
      BY <1>1, <2>1 DEF WorkerStarts
    <3> HIDE DEF new
    <3>3. launches'[Current] = new /\ port' # 0
      BY <1>1, <1>2, <3>2
    <3> QED
      BY <1>3, <3>1, <3>3 DEF Attended, Hale
  <2>2. CASE WrapperFollows(n)
    <3>1. \E r \in Restarters : pc[r] = "poll" /\ child[r] = Current
      BY <1>1, <1>2, <2>2 DEF WrapperFollows, Steady, Attended, Hale
    <3> QED
      BY <1>3, <1>4, <3>1 DEF Attended
  <2> QED
    BY <2>1, <2>2
<1> QED
  BY <1>5, <1>6, <1>7 DEF Steady

(* In calm nobody but the one script is at work, so what another finds of    *)
(* the current launch is as the supervisor started it.                       *)
LEMMA HaleUnlessPolled ==
  ASSUME Steady, NEW r \in Restarters, pc[r] # "poll",
         pc[r] \in Scripted \/ \A s \in Restarters \ {r} : pc[s] \notin Scripted
  PROVE  Current > 0 => Hale(Current) /\ (launches[Current].worker = "running" => port # 0)
<1>1. ASSUME NEW s \in Restarters, pc[s] = "poll"
      PROVE  FALSE
  BY <1>1 DEF Steady, OneHolds, Scripted
<1> QED
  BY <1>1 DEF Steady, Attended

LEMMA KillSteady ==
  ASSUME TypeOK, Steady, NEW r \in Restarters, KillTree(r)
  PROVE  Steady'
<1>1. /\ launches' = Survivors(doomed[r]) /\ port' = PortWithout(doomed[r]) /\ pc[r] = "kill"
      /\ pc' = [pc EXCEPT ![r] = "poll"]
      /\ UNCHANGED <<child, doomed, hold, pidfile, sup>>
  BY DEF KillTree, Goto, files
<1>2. pc'[r] = "poll" /\ \A s \in Restarters : s # r => pc'[s] = pc[s]
  BY <1>1 DEF TypeOK
<1>3. /\ Onward /\ Current' = Current /\ Current \in Nat /\ Current = Len(launches)
      /\ launches \in Seq(Launch)
  BY <1>1, SurviveOnward DEF PortWithout, TypeOK, Current
<1>4. OneHolds'
  BY <1>1, <1>2 DEF Steady, OneHolds, Scripted
<1>5. Followed'
  BY <1>1, <1>3, FollowedStays DEF Steady
<1>6. \A s \in Restarters : Acts(s)'
  BY <1>1, <1>2, <1>3 DEF Steady, Acts
<1>7. Attended'
  <2>1. CASE child[r] = Current
    BY <1>1, <1>2, <1>3, <2>1 DEF Attended
  <2>2. CASE child[r] # Current /\ Current > 0
    <3>1. doomed[r] = {}
      BY <1>1, <2>2 DEF Steady, Acts
    <3>2. Hale(Current) /\ (launches[Current].worker = "running" => port # 0)
      BY <1>1, <2>2, HaleUnlessPolled DEF Scripted
    <3>3. Left(Current, doomed[r], launches'[Current])
      BY <1>1, <1>3, <2>2, Survive
    <3> QED
      BY <1>1, <1>3, <3>1, <3>2, <3>3 DEF Attended, Hale, Left, PortWithout
  <2> QED
    BY <1>3, <2>1, <2>2 DEF Attended
<1> QED
  BY <1>4, <1>5, <1>6, <1>7 DEF Steady

(* A command that has no script yet, and has none after the step. *)
Outsider(r) ==
  /\ pc[r] \notin Scripted /\ pc'[r] \notin Scripted
  /\ \A s \in Restarters : s # r => UNCHANGED <<pc[s], child[s], doomed[s]>>
  /\ UNCHANGED <<launches, port, sup, pidfile, hold>>

LEMMA OutsiderSteady ==
  ASSUME Steady, NEW r \in Restarters, Outsider(r)
  PROVE  Steady'
<1>1. Current' = Current
  BY DEF Outsider, Current
<1>2. OneHolds'
  BY DEF Outsider, Steady, OneHolds
<1>3. Followed'
  BY <1>1 DEF Outsider, Steady, Followed
<1>4. Attended'
  BY <1>1 DEF Outsider, Steady, Attended, Hale, Scripted
<1>5. ASSUME NEW s \in Restarters
      PROVE  Acts(s)'
  BY <1>1 DEF Outsider, Steady, Acts, Scripted
<1> QED
  BY <1>2, <1>3, <1>4, <1>5 DEF Steady

LEMMA CommandSteady ==
  ASSUME TypeOK, Steady, NEW r \in Restarters,
         Begin(r) \/ RequireSupervisor(r) \/ ReinstallFails(r) \/ (TakeHold(r) /\ pidfile = 0)
  PROVE  Steady'
<1>1. /\ pc \in [Restarters -> Stage] /\ child \in [Restarters -> 0..Current]
      /\ doomed \in [Restarters -> SUBSET ((1..Current) \X {"wrapper", "worker"})]
  BY DEF TypeOK
<1>2. Outsider(r)
  BY <1>1 DEF Outsider, Begin, RequireSupervisor, ReinstallFails, TakeHold, Goto, Return, Outside,
     app, files, Scripted
<1> QED
  BY <1>2, OutsiderSteady

(* The steps of the one script there is. *)
LEMMA ScriptSteady ==
  ASSUME TypeOK, Steady, Calm', NEW r \in Restarters,
         (TakeHold(r) /\ pidfile # 0) \/ CollectTree(r) \/ PidChanged(r) \/ Release(r)
  PROVE  Steady'
<1> DEFINE Alone == \A s \in Restarters : s # r => pc[s] \notin Scripted
<1>1. /\ pc \in [Restarters -> Stage] /\ child \in [Restarters -> 0..Current]
      /\ doomed \in [Restarters -> SUBSET ((1..Current) \X {"wrapper", "worker"})]
      /\ pidfile \in 0..Current /\ Current \in Nat /\ Current = Len(launches)
  BY DEF TypeOK, Current
<1>2. /\ UNCHANGED <<launches, port, sup, pidfile>> /\ Current' = Current
      /\ \A s \in Restarters : s # r => UNCHANGED <<pc[s], child[s], doomed[s]>>
  BY <1>1 DEF TakeHold, CollectTree, PidChanged, Release, Goto, Return, Outside, app, files, Current
<1>3. Alone
  <2>1. CASE TakeHold(r) /\ pidfile # 0
    BY <2>1 DEF TakeHold, Calm
  <2>2. CASE CollectTree(r) \/ PidChanged(r) \/ Release(r)
    BY <2>2 DEF CollectTree, PidChanged, Release, Steady, OneHolds, Scripted
  <2> QED
    BY <2>1, <2>2
<1>4. pc'[r] \in Scripted <=> ~Release(r)
  BY <1>1 DEF TakeHold, CollectTree, PidChanged, Release, Goto, Return, Scripted
<1>5. OneHolds'
  <2>1. \A s \in Restarters : pc'[s] \in Scripted => s = r /\ ~Release(r)
    BY <1>2, <1>3, <1>4
  <2>2. hold' = IF Release(r) THEN "none" ELSE "held"
    <3>1. ~TakeHold(r) => hold = "held"
      BY DEF CollectTree, PidChanged, Release, Steady, OneHolds, Scripted
    <3> QED
      BY <3>1 DEF TakeHold, CollectTree, PidChanged, Release, Outside, files
  <2> QED
    BY <1>4, <2>1, <2>2 DEF OneHolds
<1>6. Followed'
  BY <1>2 DEF Steady, Followed
<1>7. Attended'
  <2>1. Current > 0 => Hale(Current) /\ (launches[Current].worker = "running" => port # 0)
    <3>1. CASE PidChanged(r)
      <4>1. pc[r] = "poll" /\ child[r] # Current
        BY <1>1, <3>1 DEF PidChanged, Steady, Acts
      <4> QED
        BY <1>3, <4>1 DEF Steady, Attended, Scripted
    <3>2. CASE ~PidChanged(r)
      BY <1>3, <3>2, HaleUnlessPolled DEF TakeHold, CollectTree, Release
    <3> QED
      BY <3>1, <3>2
  <2> QED
    BY <1>2, <2>1 DEF Attended, Hale
<1>8. Acts(r)'
  <2>1. CASE TakeHold(r) /\ pidfile # 0
    <3>1. pc'[r] = "tree" /\ child'[r] = pidfile
      BY <1>1, <2>1 DEF TakeHold, Goto
    <3> QED
      BY <1>1, <1>2, <3>1 DEF Acts
  <2>2. CASE CollectTree(r)
    <3>1. /\ pc[r] = "tree" /\ pc'[r] = "kill" /\ child'[r] = child[r]
          /\ doomed'[r] = TreeOf(child[r])
      BY <1>1, <2>2 DEF CollectTree, Goto
    <3>2. child[r] <= pidfile
      BY <3>1 DEF Steady, Acts
    <3>3. TreeOf(child[r]) \subseteq {<<child[r], part>> : part \in {"wrapper", "worker"}}
      BY DEF TreeOf, Alive
    <3>4. ASSUME TreeOf(child[r]) # {}
          PROVE  child[r] = Current
      BY <1>1, <3>4, OnlyCurrentRuns DEF TreeOf, Steady
    <3> QED
      BY <1>2, <3>1, <3>2, <3>3, <3>4 DEF Acts
  <2>3. CASE PidChanged(r) \/ Release(r)
    BY <1>1, <2>3 DEF PidChanged, Release, Goto, Return, Acts
  <2> QED
    BY <2>1, <2>2, <2>3
<1>9. ASSUME NEW s \in Restarters, s # r
      PROVE  Acts(s)'
  BY <1>2, <1>9 DEF Steady, Acts
<1> QED
  BY <1>5, <1>6, <1>7, <1>8, <1>9 DEF Steady

LEMMA SteadyInit == Init => Steady
<1> SUFFICES ASSUME Init PROVE Steady
  OBVIOUS
<1>1. Current = 0
  BY DEF Init, Current
<1> QED
  BY <1>1 DEF Init, Steady, OneHolds, Followed, Attended, Acts, Scripted

(* A step that leaves the pod calm leaves it steady. *)
LEMMA CalmlyStep ==
  ASSUME TypeOK, Calmly, [Next]_vars
  PROVE  Calmly'
<1> SUFFICES ASSUME Calm'
             PROVE  Steady'
  BY DEF Calmly
<1>1. Calm /\ Steady
  BY CalmBefore DEF Calmly
<1>2. CASE Fork
  BY <1>1, <1>2, ForkSteady
<1>3. CASE RecordChild \/ Wait \/ Reap \/ RelaunchHeld
  BY <1>1, <1>3, SupervisorSteady
<1>4. CASE ExitUnheld \/ ProbeFails
  BY <1>1, <1>4, NoRestartInCalm
<1>5. ASSUME NEW n \in DOMAIN launches, Application(n)
      PROVE  Steady'
  <2>1. ASSUME NEW part \in {"wrapper", "worker"}, ExitsAlone(n, part)
        PROVE  FALSE
    BY <2>1, ExitOnward DEF Calm
  <2> QED
    BY <1>1, <1>5, <2>1, ApplicationSteady DEF Application
<1>6. CASE Seed \/ Edit \/ UNCHANGED vars
  <2>1. UNCHANGED <<launches, port, sup, pidfile, hold, pc, child, doomed>> /\ Current' = Current
    BY <1>6 DEF Seed, Edit, vars, app, files, restarts, Current
  <2>2. OneHolds' /\ \A r \in Restarters : Acts(r)'
    BY <1>1, <2>1, OnlookersAct DEF LookOn, Steady
  <2> QED
    BY <1>1, <2>1, <2>2 DEF Steady, Followed, Attended, Hale
<1>7. CASE HoldExpires
  BY <1>1, <1>7 DEF HoldExpires, Steady, OneHolds
<1>8. ASSUME NEW r \in Restarters, Begin(r) \/ Restart(r) \/ ScriptKilled(r)
      PROVE  Steady'
  <2>1. ~PollRunsOut(r)
    BY DEF PollRunsOut, Calm
  <2>2. ~ScriptKilled(r)
    BY <1>1 DEF ScriptKilled, Calm
  <2> QED
    BY <1>1, <1>8, <2>1, <2>2, CommandSteady, ScriptSteady, KillSteady DEF Restart
<1> QED
  BY <1>2, <1>3, <1>4, <1>5, <1>6, <1>7, <1>8 DEF Next, Supervisor

(* The container starts again only through the loop's exit or the probe. *)
LEMMA BootsChange ==
  ASSUME [Next]_vars, boots' # boots
  PROVE  ExitUnheld \/ ProbeFails
  BY DEF Next, Supervisor, Fork, RecordChild, Wait, Reap, RelaunchHeld, Application, WorkerStarts,
     WrapperFollows, ExitsAlone, Seed, Edit, HoldExpires, Begin, Restart, RequireSupervisor,
     ReinstallFails, TakeHold, CollectTree, KillTree, PidChanged, PollRunsOut, Release,
     ScriptKilled, Outside, vars

(* A container restarts, and its seats end, only after its application has   *)
(* ended of itself, a wait for the new pid ran out, two restarts held the    *)
(* pod at once, or a script was killed: never by the restart that podbench   *)
(* makes.                                                                    *)
THEOREM RestartsSpareTheSeats == Spec => SeatsSurvive
<1>1. Init => TypeOK /\ Calmly
  BY TypeInit, SteadyInit DEF Calmly
<1>2. TypeOK /\ Calmly /\ [Next]_vars => (TypeOK /\ Calmly)'
  BY TypeStep, CalmlyStep
<1>3. TypeOK /\ Calmly /\ [Next]_vars
        => [boots' # boots => OwnExit \/ late \/ overlapped \/ kills > 0]_vars
  <2> SUFFICES ASSUME TypeOK, Calmly, [Next]_vars, boots' # boots, Calm
               PROVE  FALSE
    BY DEF Calm, TypeOK
  <2> QED
    BY BootsChange, NoRestartInCalm DEF Calmly
<1> QED
  BY <1>1, <1>2, <1>3, PTL DEF Spec, SeatsSurvive
=============================================================================

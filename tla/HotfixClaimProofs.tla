------------------------- MODULE HotfixClaimProofs --------------------------
(***************************************************************************)
(* What holds of the commands on a hotfix claim for any number of users,   *)
(* calls, deployments and faults: the types, that hotfix check foretells   *)
(* what init refuses, that a manifest is true of its claim, and that a     *)
(* retirement neither lies about the claim nor has one deleted that a pod  *)
(* mounts.                                                                 *)
(***************************************************************************)
EXTENDS HotfixClaim, TLAPS

(* The rows of the check that u's init began with, against the pod as it is. *)
(* The seat is left out: Land changes it.                                    *)
Foretells(u) ==
  LET fail == foretold[u].fail
  IN /\ fail \subseteq {"claim", "supervisor", "source", "project", "interpreter", "root"}
     /\ "claim" \in fail <=> ~Mounted
     /\ "supervisor" \in fail <=> "supervisor" \notin wired
     /\ "source" \in fail <=> SourceFails(asked[u].repo)
     /\ "project" \in fail <=> ~Seeded /\ "project" \notin image.ships
     /\ "interpreter" \in fail <=> ~Seeded /\ "interp" \notin image.ships
     /\ "root" \in fail => ~Seeded /\ ~rooted
     /\ ~Seeded /\ ~rooted => "root" \in fail \cup foretold[u].warn

(* What is left of the check at each stage of an init nobody disturbs. *)
Foreseen(u) ==
  steady[u] =>
    /\ pc[u] \in {"land", "gate", "look"} => Foretells(u)
    /\ pc[u] \in {"gate", "look"} => seat
    /\ pc[u] = "look" => /\ Mounted /\ "supervisor" \in wired
                         /\ ~SourceFails(asked[u].repo)
    /\ pc[u] \in {"copy", "interp"} =>
         foretold[u].fail \subseteq (IF "interp" \in image.ships THEN {} ELSE {"interpreter"})
    /\ pc[u] \in {"git", "install", "write"} => foretold[u].fail = {}
    /\ pc[u] = "idle" /\ outcome[u][1] = "done" => foretold[u].fail = {}
    /\ pc[u] = "idle" /\ outcome[u][1] = "refused" =>
         outcome[u][2] \in foretold[u].fail \cup foretold[u].warn

(* What a retirement has read, against what is so. *)
Read(u) ==
  /\ held[u].claim.present = "no" => pvc = "absent"
  /\ steady[u] =>
       /\ pc[u] \in Retiring \/ (pc[u] = "idle" /\ outcome[u][1] = "retire") => held[u].wired = wired
       /\ pc[u] = "delete" => Holders = {}

Inv == TypeOK /\ \A u \in Users : Foreseen(u) /\ Read(u)

-----------------------------------------------------------------------------
(* Types. *)

ClusterTypes ==
  /\ image \in Image /\ wired \subseteq Part
  /\ spare \in BOOLEAN /\ seat \in BOOLEAN /\ rooted \in BOOLEAN
  /\ pvc \in {"bound", "terminating", "absent"}
  /\ deploys \in Nat /\ faults \in Nat /\ overlapped \in BOOLEAN

ClaimTypes ==
  /\ files \in Files
  /\ detached \in Seq(Job)
  /\ todo \in [Users -> Seq(Item)]

UserTypes ==
  /\ pc \in [Users -> Stage] /\ calls \in [Users -> Nat]
  /\ steady \in [Users -> BOOLEAN]
  /\ outcome \in [Users -> Outcome \X Reason]

ReadTypes ==
  /\ asked \in [Users -> Asked] /\ held \in [Users -> Reading]
  /\ foretold \in [Users -> Check]

LEMMA TypesApart == TypeOK <=> ClusterTypes /\ ClaimTypes /\ UserTypes /\ ReadTypes
  BY DEF TypeOK, ClusterTypes, ClaimTypes, UserTypes, ReadTypes

LEMMA ConstantTypes ==
  /\ NothingRead \in Reading /\ Empty \in Files
  /\ \A i \in Images : i \in Image
<1>1. [present |-> "unmeasured", deleted |-> FALSE] \in ClaimState
  BY DEF ClaimState
<1>2. NothingRead \in Reading
  BY <1>1 DEF NothingRead, Reading
<1>3. Empty \in Files
  BY DEF Empty, Files
<1> QED
  BY <1>2, <1>3, HotfixClaimAssumption

LEMMA CheckTypes == \A repo \in {"none", "own"} : Preflight(repo) \in Check
  BY DEF Preflight, SeedRows, Check, Row

LEMMA EntriesTypes == Entries \in Seq(Item)
<1>1. \A item \in Item : Entry(item) \in Seq(Item)
  BY DEF Entry
<1>2. {"git", "venv", "project"} \subseteq Item /\ "source" \in Item
  BY DEF Item
<1> HIDE DEF Entry
<1> QED
  BY <1>1, <1>2 DEF Entries

LEMMA TypeInit == Init => TypeOK
<1> SUFFICES ASSUME Init PROVE TypeOK
  OBVIOUS
<1>1. ClusterTypes
  <2>1. image \in Image /\ wired \subseteq Part
    BY ConstantTypes DEF Init, Part
  <2> QED
    BY <2>1 DEF Init, ClusterTypes
<1>4. ClaimTypes
  <2>1. <<>> \in Seq(Item) /\ <<>> \in Seq(Job)
    OBVIOUS
  <2> QED
    BY <2>1, ConstantTypes DEF Init, ClaimTypes
<1>2. UserTypes
  BY DEF Init, UserTypes, Stage, Outcome, Reason
<1>3. ReadTypes
  <2>1. [repo |-> "none", install |-> TRUE, delete |-> FALSE, image |-> 1] \in Asked
    BY DEF Asked
  <2>2. [fail |-> {}, warn |-> {}] \in Check
    BY DEF Check
  <2> QED
    BY <2>1, <2>2, ConstantTypes DEF Init, ReadTypes
<1> QED
  BY <1>1, <1>2, <1>3, <1>4, TypesApart

LEMMA FilesFields ==
  ASSUME NEW f \in Files, NEW e,
         \/ \E h, g \in SUBSET Job : e = [f EXCEPT !.has = h, !.half = g]
         \/ \E m \in Manifest : e = [f EXCEPT !.manifest = m]
  PROVE  e \in Files
<1>1. ASSUME NEW h \in SUBSET Job, NEW g \in SUBSET Job, e = [f EXCEPT !.has = h, !.half = g]
      PROVE  e \in Files
  BY <1>1 DEF Files
<1>2. ASSUME NEW m \in Manifest, e = [f EXCEPT !.manifest = m]
      PROVE  e \in Files
  BY <1>2 DEF Files
<1> QED
  BY <1>1, <1>2

(* A job that is done is there, and takes nothing away but a venv's rebuild. *)
LEMMA PutTypes ==
  ASSUME files \in Files, NEW job \in Job, Put(job)
  PROVE  /\ files' \in Files /\ files'.manifest = files.manifest
         /\ job # "venv" => There' = There \cup {job}
<1> DEFINE h == (files.has \ Stale({job})) \cup {job}
           g == files.half \ {job}
<1>1. h \in SUBSET Job /\ g \in SUBSET Job
  BY DEF Files, Stale
<1>2. files' = [files EXCEPT !.has = h, !.half = g]
  BY DEF Put
<1>3. job # "venv" => h = files.has \cup {job}
  BY DEF Stale
<1> HIDE DEF h, g
<1>4. /\ files' \in Files /\ files'.manifest = files.manifest
      /\ files'.has = h /\ files'.half = g
  <2>1. files' \in Files
    BY <1>1, <1>2, FilesFields
  <2> QED
    BY <1>2, <2>1 DEF Files
<1> QED
  BY <1>3, <1>4 DEF There, g

(* Nor does a job that is cut short.                                         *)
LEMMA CutTypes ==
  ASSUME files \in Files, NEW jobs \in SUBSET Job, Cut(jobs)
  PROVE  /\ files' \in Files /\ files'.manifest = files.manifest
         /\ "venv" \notin jobs => There \subseteq There'
<1>1. PICK begun \in SUBSET jobs : files' = Halved(begun)
  BY DEF Cut
<1> DEFINE h == files.has \ (begun \cup Stale(begun))
           g == files.half \cup begun
<1>2. h \in SUBSET Job /\ g \in SUBSET Job
  BY DEF Files, Stale
<1>3. files' = [files EXCEPT !.has = h, !.half = g]
  BY <1>1 DEF Halved
<1>4. "venv" \notin jobs => h = files.has \ begun
  BY DEF Stale
<1> HIDE DEF h, g
<1>5. /\ files' \in Files /\ files'.manifest = files.manifest
      /\ files'.has = h /\ files'.half = g
  <2>1. files' \in Files
    BY <1>2, <1>3, FilesFields
  <2> QED
    BY <1>3, <2>1 DEF Files
<1> QED
  BY <1>4, <1>5 DEF There, g

LEMMA WorkingTypes ==
  ASSUME ClaimTypes, NEW u \in Users
  PROVE  Working(u) \in Seq(Job)
<1>1. Item \subseteq Job /\ "sync" \in Job /\ "interp" \in Item
  BY DEF Job, Item
<1>2. todo[u] \in Seq(Job)
  <2>1. todo[u] \in Seq(Item)
    BY DEF ClaimTypes
  <2> QED
    BY <1>1, <2>1
<1>3. Entry("interp") \in Seq(Job) /\ <<"sync">> \in Seq(Job)
  BY <1>1 DEF Entry
<1> HIDE DEF Entry
<1> QED
  BY <1>2, <1>3 DEF Working

LEMMA FirstTypes ==
  ASSUME NEW s \in Seq(Job)
  PROVE  First(s) \subseteq Job
<1> QED
  BY DEF First

(* A command moves on, or ends. *)
LEMMA MoveTypes ==
  ASSUME UserTypes, NEW u \in Users
  PROVE  /\ \A st \in Stage : Goto(u, st) => /\ pc' \in [Users -> Stage]
                                             /\ outcome' \in [Users -> Outcome \X Reason]
         /\ \A how \in Outcome, why \in Reason : Return(u, how, why) =>
                                             /\ pc' \in [Users -> Stage]
                                             /\ outcome' \in [Users -> Outcome \X Reason]
         /\ Quietly(u) \/ Changes(u) \/ Upsets => steady' \in [Users -> BOOLEAN]
<1>1. "idle" \in Stage
  BY DEF Stage
<1>2. \A st \in Stage : Goto(u, st) => /\ pc' \in [Users -> Stage]
                                       /\ outcome' \in [Users -> Outcome \X Reason]
  BY DEF Goto, UserTypes
<1>3. \A how \in Outcome, why \in Reason : Return(u, how, why) =>
         /\ pc' \in [Users -> Stage] /\ outcome' \in [Users -> Outcome \X Reason]
  BY <1>1 DEF Return, UserTypes
<1>4. Quietly(u) \/ Changes(u) \/ Upsets => steady' \in [Users -> BOOLEAN]
  BY DEF Quietly, Changes, Upsets, UserTypes
<1> QED
  BY <1>2, <1>3, <1>4

Initiates(u) == \/ BeginInit(u) \/ Land(u) \/ Gate(u) \/ Look(u) \/ CopyEntry(u) \/ Copied(u)
                \/ CopyInterpreter(u) \/ Checkout(u) \/ Install(u) \/ Write(u) \/ InitFails(u)
Retires(u)   == \/ BeginRetire(u) \/ ReadManifest(u) \/ ReadClaim(u) \/ AskHolders(u)
                \/ Delete(u) \/ Deleted(u) \/ RetireFails(u)
Others       == Deploy \/ Finalise \/ CopyGoesOn

LEMMA NextApart == Next <=> Others \/ \E u \in Users : Initiates(u) \/ Retires(u)
  BY DEF Next, Others, Initiates, Retires

LEMMA ClusterStep ==
  ASSUME TypeOK, [Next]_vars
  PROVE  ClusterTypes'
<1>1. ClusterTypes
  BY TypesApart
<1> USE DEF ClusterTypes, cluster
<1>2. CASE Deploy
  <2>1. image' \in Image
    BY <1>1, <1>2 DEF Deploy, Image
  <2>2. wired' \subseteq Part /\ spare' \in BOOLEAN /\ seat' \in BOOLEAN
    BY <1>1, <1>2 DEF Deploy, Replaced
  <2> QED
    BY <1>1, <1>2, <2>1, <2>2 DEF Deploy
<1>3. CASE Finalise \/ CopyGoesOn
  BY <1>1, <1>3 DEF Finalise, CopyGoesOn
<1>4. ASSUME NEW u \in Users, Initiates(u)
      PROVE  ClusterTypes'
  <2>1. CASE BeginInit(u)
    <3>1. overlapped' \in BOOLEAN /\ UNCHANGED <<cluster, deploys, faults>>
      BY <1>1, <2>1 DEF BeginInit
    <3> QED
      BY <1>1, <3>1
  <2>2. CASE Land(u) \/ Gate(u) \/ Look(u) \/ CopyEntry(u) \/ Copied(u)
    BY <1>1, <2>2 DEF Land, Gate, Look, CopyEntry, Copied
  <2>4. CASE InitFails(u)
    <3>1. faults' = faults + 1 /\ UNCHANGED <<cluster, deploys, overlapped>>
      BY <2>4 DEF InitFails
    <3> QED
      BY <1>1, <3>1
  <2>3. CASE CopyInterpreter(u) \/ Checkout(u) \/ Install(u) \/ Write(u)
    BY <1>1, <2>3 DEF CopyInterpreter, Checkout, Install, Write
  <2> QED
    BY <1>4, <2>1, <2>2, <2>3, <2>4 DEF Initiates
<1>5. ASSUME NEW u \in Users, Retires(u)
      PROVE  ClusterTypes'
  BY <1>1, <1>5 DEF Retires, BeginRetire, ReadManifest, ReadClaim, AskHolders, Delete, Deleted, RetireFails
<1>6. CASE UNCHANGED vars
  BY <1>1, <1>6 DEF vars
<1> QED
  BY <1>2, <1>3, <1>4, <1>5, <1>6, NextApart DEF Others

(* What works in the pod as it is replaced. *)
AtWork == First(detached) \cup UNION {First(Working(u)) : u \in Users}

LEMMA ReplacedTypes ==
  ASSUME ClaimTypes, Replaced
  PROVE  AtWork \in SUBSET Job /\ Cut(AtWork) /\ ClaimTypes'
<1>1. detached \in Seq(Job) /\ \A u \in Users : First(Working(u)) \subseteq Job
  BY WorkingTypes, FirstTypes DEF ClaimTypes
<1>2. AtWork \in SUBSET Job
  BY <1>1, FirstTypes DEF AtWork
<1>3. Cut(AtWork)
  BY DEF Replaced, AtWork
<1>4. files' \in Files
  BY <1>2, <1>3, CutTypes DEF ClaimTypes
<1>5. <<>> \in Seq(Job) /\ <<>> \in Seq(Item)
  OBVIOUS
<1> QED
  BY <1>2, <1>3, <1>4, <1>5 DEF Replaced, ClaimTypes

LEMMA ClaimStep ==
  ASSUME TypeOK, [Next]_vars
  PROVE  ClaimTypes'
<1>1. ClaimTypes /\ image \in Image
  BY TypesApart DEF ClusterTypes
<1>10. Item \subseteq Job /\ "sync" \in Job /\ "interp" \in Job
  BY DEF Job, Item
<1> USE DEF ClaimTypes
<1>7. CASE UNCHANGED vars
  BY <1>1, <1>7 DEF vars
<1>2. CASE Deploy
  <2>1. CASE Replaced
    BY <1>1, <2>1, ReplacedTypes
  <2>2. CASE UNCHANGED <<files, detached, todo>>
    BY <1>1, <2>2
  <2> QED
    BY <1>2, <2>1, <2>2 DEF Deploy
<1>3. CASE Finalise
  BY <1>1, <1>3, ConstantTypes DEF Finalise, commands
<1>4. CASE CopyGoesOn
  <2>1. Head(detached) \in Job /\ Tail(detached) \in Seq(Job)
    BY <1>1, <1>4 DEF CopyGoesOn
  <2> QED
    BY <1>1, <1>4, <2>1, PutTypes DEF CopyGoesOn, commands
<1>5. ASSUME NEW u \in Users, Initiates(u)
      PROVE  ClaimTypes'
  <2>1. CASE BeginInit(u) \/ Land(u) \/ Gate(u) \/ Copied(u)
    BY <1>1, <2>1 DEF BeginInit, Land, Gate, Copied
  <2>2. CASE Look(u)
    BY <1>1, <2>2, EntriesTypes DEF Look
  <2>3. CASE CopyEntry(u)
    <3>1. Head(todo[u]) \in Item /\ Tail(todo[u]) \in Seq(Item) /\ <<>> \in Seq(Item)
      BY <1>1, <2>3 DEF CopyEntry
    <3>2. files' \in Files
      BY <1>1, <1>10, <2>3, <3>1, PutTypes DEF CopyEntry
    <3>3. todo' \in [Users -> Seq(Item)]
      BY <1>1, <2>3, <3>1 DEF CopyEntry
    <3> QED
      BY <2>3, <3>2, <3>3, <1>1 DEF CopyEntry
  <2>4. CASE CopyInterpreter(u)
    <3>2. files' \in Files
      BY <1>1, <1>10, <2>4, PutTypes DEF CopyInterpreter
    <3> QED
      BY <1>1, <2>4, <3>2 DEF CopyInterpreter
  <2>5. CASE Checkout(u) \/ Install(u)
    <3>1. files' = files \/ Put("sync") \/ Cut({"sync"})
      BY <2>5 DEF Checkout, Install
    <3>2. files' \in Files
      BY <1>1, <1>10, <3>1, PutTypes, CutTypes
    <3> QED
      BY <1>1, <2>5, <3>2 DEF Checkout, Install
  <2>6. CASE Write(u)
    <3> DEFINE m(has, origin) == [image |-> asked[u].image, repo |-> Source(asked[u].repo, origin),
                          assumed |-> Assumed(asked[u].repo, origin, has),
                          installed |-> asked[u].install]
    <3>1. image.labels \in {"none", "own", "base"}
      BY <1>1 DEF Image
    <3>2. asked[u].install \in BOOLEAN /\ asked[u].image \in 1..2
      BY TypesApart DEF ReadTypes, Asked
    <3>3. ASSUME NEW has \in BOOLEAN, NEW origin \in BOOLEAN
          PROVE  m(has, origin) \in Manifest
      <4>1. Assumed(asked[u].repo, origin, has) \in BOOLEAN
        BY DEF Assumed, Corroborated
      <4>2. Source(asked[u].repo, origin) \in {"none", "own", "base"}
        BY <3>1 DEF Source
      <4> QED
        BY <3>1, <3>2, <4>1, <4>2 DEF Manifest
    <3> HIDE DEF m
    <3>4. files' = files \/ \E has \in BOOLEAN, origin \in BOOLEAN :
                               files' = [files EXCEPT !.manifest = m(has, origin)]
      <4>1. {"git" \in files.has, "git" \in There} \subseteq BOOLEAN
        OBVIOUS
      <4> QED
        BY <2>6, <4>1 DEF Write, m
    <3>5. files' \in Files
      BY <1>1, <3>3, <3>4, FilesFields
    <3> QED
      BY <1>1, <2>6, <3>5 DEF Write
  <2>7. CASE InitFails(u)
    <3>1. todo' = [todo EXCEPT ![u] = <<>>]
          /\ \/ Cut(First(Working(u))) /\ detached' = detached
             \/ files' = files /\ detached' = detached \o Working(u)
      BY <2>7 DEF InitFails
    <3>2. Working(u) \in Seq(Job) /\ detached \in Seq(Job)
      BY <1>1, WorkingTypes
    <3>3. \A s, t \in Seq(Job) : s \o t \in Seq(Job)
      OBVIOUS
    <3>4. detached' \in Seq(Job)
      BY <3>1, <3>2, <3>3
    <3>5. files' \in Files
      BY <1>1, <3>1, <3>2, FirstTypes, CutTypes
    <3> QED
      BY <1>1, <3>1, <3>4, <3>5
  <2> QED
    BY <1>5, <2>1, <2>2, <2>3, <2>4, <2>5, <2>6, <2>7 DEF Initiates
<1>6. ASSUME NEW u \in Users, Retires(u)
      PROVE  ClaimTypes'
  BY <1>1, <1>6 DEF Retires, BeginRetire, ReadManifest, ReadClaim, AskHolders, Delete, Deleted, RetireFails
<1> QED
  BY <1>2, <1>3, <1>4, <1>5, <1>6, <1>7, NextApart DEF Others

LEMMA UserStep ==
  ASSUME TypeOK, [Next]_vars
  PROVE  UserTypes'
<1>1. UserTypes
  BY TypesApart
<1> USE DEF UserTypes, commands
<1>6. CASE Deploy
  <2>1. "idle" \in Stage /\ <<"failed", "call">> \in Outcome \X Reason
    BY DEF Stage, Outcome, Reason
  <2> QED
    BY <1>1, <1>6, <2>1 DEF Deploy, Replaced, Upsets
<1>2. CASE Finalise \/ CopyGoesOn
  BY <1>1, <1>2 DEF Finalise, CopyGoesOn, Upsets
<1>3. ASSUME NEW u \in Users, Initiates(u)
      PROVE  UserTypes'
  <2>1. /\ pc' \in [Users -> Stage] /\ outcome' \in [Users -> Outcome \X Reason]
        /\ steady' \in [Users -> BOOLEAN] /\ calls' \in [Users -> Nat]
    <3>1. CASE BeginInit(u)
      <4>1. Goto(u, "land") /\ calls' = [calls EXCEPT ![u] = @ + 1]
            /\ steady' = [steady EXCEPT ![u] = TRUE]
        BY <3>1 DEF BeginInit
      <4> QED
        BY <1>1, <4>1, MoveTypes DEF Stage
    <3>2. CASE Land(u) \/ Gate(u) \/ Look(u) \/ Copied(u)
      BY <1>1, <3>2, MoveTypes DEF Land, Gate, Look, Copied, Stage, Outcome, Reason, Row
    <3>3. CASE CopyEntry(u)
      BY <1>1, <3>3, MoveTypes DEF CopyEntry, Outcome, Reason
    <3>4. CASE CopyInterpreter(u) \/ Install(u)
      BY <1>1, <3>4, MoveTypes DEF CopyInterpreter, Install, Stage, Outcome, Reason, Row
    <3>5. CASE Checkout(u)
      BY <1>1, <3>5, MoveTypes DEF Checkout, Stage, Outcome, Reason
    <3>6. CASE Write(u) \/ InitFails(u)
      BY <1>1, <3>6, MoveTypes DEF Write, InitFails, Outcome, Reason
    <3> QED
      BY <1>3, <3>1, <3>2, <3>3, <3>4, <3>5, <3>6 DEF Initiates
  <2> QED
    BY <2>1
<1>4. ASSUME NEW u \in Users, Retires(u)
      PROVE  UserTypes'
  <2>1. CASE BeginRetire(u)
    <3>1. Goto(u, "manifest") /\ calls' = [calls EXCEPT ![u] = @ + 1]
          /\ steady' = [steady EXCEPT ![u] = TRUE]
      BY <2>1 DEF BeginRetire
    <3> QED
      BY <1>1, <3>1, MoveTypes DEF Stage
  <2>2. CASE ReadManifest(u) \/ AskHolders(u) \/ Delete(u) \/ Deleted(u) \/ RetireFails(u)
    BY <1>1, <2>2, MoveTypes DEF ReadManifest, AskHolders, Delete, Deleted, RetireFails, Stage,
       Outcome, Reason
  <2>3. CASE ReadClaim(u)
    BY <1>1, <2>3, MoveTypes DEF ReadClaim, Stage, Outcome, Reason
  <2> QED
    BY <1>4, <2>1, <2>2, <2>3 DEF Retires
<1>5. CASE UNCHANGED vars
  BY <1>1, <1>5 DEF vars
<1> QED
  BY <1>2, <1>3, <1>4, <1>5, <1>6, NextApart DEF Others

LEMMA HeldFields ==
  ASSUME NEW h \in Reading
  PROVE  /\ h.wired \subseteq Part /\ h.claim.present \in {"yes", "no", "unmeasured"}
         /\ \A w \in SUBSET Part : [h EXCEPT !.wired = w] \in Reading
         /\ \A m \in {"yes", "no", "unmeasured"} : [h EXCEPT !.moved = m] \in Reading
         /\ \A p \in {"yes", "no", "unmeasured"} :
              /\ [h EXCEPT !.claim.present = p] \in Reading
              /\ [h EXCEPT !.claim.present = p].claim.present = p
              /\ [h EXCEPT !.claim.present = p].wired = h.wired
         /\ [h EXCEPT !.claim = [present |-> "no", deleted |-> TRUE]] \in Reading
  BY DEF Reading, ClaimState

LEMMA ReadStep ==
  ASSUME TypeOK, [Next]_vars
  PROVE  ReadTypes'
<1>1. ReadTypes /\ wired \subseteq Part /\ image \in Image
  BY TypesApart DEF ClusterTypes
<1> USE DEF ReadTypes, commands
<1>2. CASE Others
  BY <1>1, <1>2 DEF Others, Deploy, Finalise, CopyGoesOn
<1>3. ASSUME NEW u \in Users, Initiates(u)
      PROVE  ReadTypes'
  <2>1. CASE BeginInit(u)
    <3>1. PICK repo \in {"none", "own"}, install \in BOOLEAN :
            /\ asked' = [asked EXCEPT ![u] = [repo |-> repo, install |-> install, delete |-> FALSE,
                                              image |-> image.id]]
            /\ foretold' = [foretold EXCEPT ![u] = Preflight(repo)]
      BY <2>1 DEF BeginInit
    <3>2. [repo |-> repo, install |-> install, delete |-> FALSE, image |-> image.id] \in Asked
      BY <1>1 DEF Asked, Image
    <3> QED
      BY <1>1, <2>1, <3>1, <3>2, CheckTypes DEF BeginInit
  <2>2. CASE ~BeginInit(u)
    BY <1>1, <1>3, <2>2 DEF Initiates, Land, Gate, Look, CopyEntry, Copied, CopyInterpreter,
       Checkout, Install, Write, InitFails
  <2> QED
    BY <2>1, <2>2
<1>4. ASSUME NEW u \in Users, Retires(u)
      PROVE  ReadTypes'
  <2>1. CASE BeginRetire(u)
    <3>1. PICK delete \in BOOLEAN :
            asked' = [asked EXCEPT ![u] = [repo |-> "none", install |-> FALSE, delete |-> delete,
                                           image |-> image.id]]
      BY <2>1 DEF BeginRetire
    <3>2. [repo |-> "none", install |-> FALSE, delete |-> delete, image |-> image.id] \in Asked
      BY <1>1 DEF Asked, Image
    <3>3. [NothingRead EXCEPT !.wired = wired] \in Reading
      BY <1>1, ConstantTypes, HeldFields
    <3> QED
      BY <1>1, <2>1, <3>1, <3>2, <3>3 DEF BeginRetire
  <2>2. CASE ReadManifest(u) \/ ReadClaim(u) \/ Deleted(u)
    <3>1. held[u] \in Reading /\ UNCHANGED <<asked, foretold>>
      BY <1>1, <2>2 DEF ReadManifest, ReadClaim, Deleted
    <3>2. ReadManifest(u) => \E m \in {"yes", "no", "unmeasured"} : held' = [held EXCEPT ![u].moved = m]
      BY DEF ReadManifest
    <3>3. ReadClaim(u) => \E p \in {"yes", "no", "unmeasured"} :
                             held' = [held EXCEPT ![u].claim.present = p]
      BY DEF ReadClaim
    <3>4. Deleted(u) => held' = [held EXCEPT ![u].claim = [present |-> "no", deleted |-> TRUE]]
      BY DEF Deleted
    <3>5. \E h \in Reading : held' = [held EXCEPT ![u] = h]
      <4>1. CASE ReadManifest(u)
        BY <3>1, <3>2, <4>1, HeldFields
      <4>2. CASE ReadClaim(u)
        BY <3>1, <3>3, <4>2, HeldFields
      <4>3. CASE Deleted(u)
        BY <3>1, <3>4, <4>3, HeldFields
      <4> QED
        BY <2>2, <4>1, <4>2, <4>3
    <3> QED
      BY <1>1, <3>1, <3>5
  <2>3. CASE AskHolders(u) \/ Delete(u) \/ RetireFails(u)
    BY <1>1, <2>3 DEF AskHolders, Delete, RetireFails
  <2> QED
    BY <1>4, <2>1, <2>2, <2>3 DEF Retires
<1>5. CASE UNCHANGED vars
  BY <1>1, <1>5 DEF vars
<1> QED
  BY <1>2, <1>3, <1>4, <1>5, NextApart

LEMMA TypeStep == TypeOK /\ [Next]_vars => TypeOK'
<1> SUFFICES ASSUME TypeOK, [Next]_vars PROVE TypeOK'
  OBVIOUS
<1>1. ClusterTypes' /\ ClaimTypes' /\ UserTypes' /\ ReadTypes'
  BY ClusterStep, ClaimStep, UserStep, ReadStep
<1> QED
  BY <1>1 DEF TypeOK, ClusterTypes, ClaimTypes, UserTypes, ReadTypes

-----------------------------------------------------------------------------
(* What everybody else's steps do to u's command. *)

Undisturbed == UNCHANGED <<image, wired, spare, rooted, pvc, files>>

Elsewhere(u) ==
  /\ UNCHANGED <<foretold[u], asked[u], held[u]>>
  /\ pvc = "absent" => pvc' = "absent"
  /\ steady'[u] => steady[u] /\ Undisturbed /\ UNCHANGED <<pc[u], outcome[u]>> /\ (seat => seat')

LEMMA Apart ==
  ASSUME TypeOK, [Next]_vars, NEW u \in Users
  PROVE  Elsewhere(u) \/ Initiates(u) \/ Retires(u)
<1> USE DEF Elsewhere, Undisturbed, commands, cluster
<1>1. UserTypes /\ ReadTypes
  BY TypesApart
<1>2. CASE Deploy \/ Finalise \/ CopyGoesOn
  BY <1>1, <1>2 DEF Deploy, Finalise, CopyGoesOn, Upsets, UserTypes
<1>3. CASE UNCHANGED vars
  BY <1>3 DEF vars
<1>4. ASSUME NEW v \in Users, v # u, Initiates(v) \/ Retires(v)
      PROVE  Elsewhere(u)
  <2>1. UNCHANGED <<pc[u], outcome[u], foretold[u], asked[u], held[u]>>
    BY <1>1, <1>4 DEF UserTypes, ReadTypes, Goto, Return, Initiates, Retires, BeginInit, Land, Gate,
       Look, CopyEntry, Copied, CopyInterpreter, Checkout, Install, Write, InitFails, BeginRetire,
       ReadManifest, ReadClaim, AskHolders, Delete, Deleted, RetireFails
  <2>2. pvc = "absent" => pvc' = "absent"
    BY <1>4 DEF Initiates, Retires, BeginInit, Land, Gate, Look, CopyEntry, Copied, CopyInterpreter,
       Checkout, Install, Write, InitFails, BeginRetire, ReadManifest, ReadClaim, AskHolders,
       Delete, Deleted, RetireFails
  <2>3. CASE CopyEntry(v) \/ CopyInterpreter(v) \/ Install(v) \/ Write(v) \/ InitFails(v)
             \/ Delete(v) \/ RetireFails(v)
    <3>1. ~steady'[u]
      BY <1>1, <1>4, <2>3 DEF UserTypes, Changes, Upsets, CopyEntry, CopyInterpreter,
         Install, Write, InitFails, Delete, RetireFails
    <3> QED
      BY <2>1, <2>2, <3>1
  <2>4. CASE BeginInit(v) \/ BeginRetire(v)
    <3>1. steady'[u] = steady[u] /\ Undisturbed /\ seat' = seat
      BY <1>1, <1>4, <2>4 DEF UserTypes, BeginInit, BeginRetire
    <3> QED
      BY <2>1, <2>2, <3>1
  <2>5. CASE Land(v) \/ Gate(v) \/ Look(v) \/ Copied(v) \/ Checkout(v) \/ ReadManifest(v)
             \/ ReadClaim(v) \/ AskHolders(v) \/ Deleted(v)
    <3>1. steady'[u] = steady[u] /\ Undisturbed /\ (seat => seat')
      BY <2>5 DEF Quietly, Land, Gate, Look, Copied, Checkout, ReadManifest, ReadClaim, AskHolders, Deleted
    <3> QED
      BY <2>1, <2>2, <3>1
  <2> QED
    BY <1>4, <2>3, <2>4, <2>5 DEF Initiates, Retires
<1> QED
  BY <1>2, <1>3, <1>4, NextApart DEF Others

LEMMA ElsewhereKeeps ==
  ASSUME NEW u \in Users, Foreseen(u), Read(u), Elsewhere(u)
  PROVE  Foreseen(u)' /\ Read(u)'
<1> USE DEF Elsewhere, Undisturbed
<1>1. ASSUME steady'[u], Foretells(u)
      PROVE  Foretells(u)'
  <2>1. /\ image' = image /\ wired' = wired /\ pvc' = pvc /\ files' = files /\ rooted' = rooted
        /\ foretold'[u] = foretold[u] /\ asked'[u] = asked[u]
    BY <1>1
  <2>2. Mounted' = Mounted
    BY <2>1 DEF Mounted
  <2>3. Seeded' = Seeded
    BY <2>1, <2>2 DEF Seeded, There
  <2>4. SourceFails(asked[u].repo)' = SourceFails(asked[u].repo)
    BY <2>1 DEF SourceFails
  <2> QED
    BY <1>1, <2>1, <2>2, <2>3, <2>4 DEF Foretells
<1>2. Foreseen(u)'
  <2>1. CASE ~steady'[u]
    BY <2>1 DEF Foreseen
  <2>2. CASE steady'[u]
    BY <1>1, <2>2 DEF Foreseen, Mounted, SourceFails
  <2> QED
    BY <2>1, <2>2
<1>3. Read(u)'
  BY DEF Read, Holders
<1> QED
  BY <1>2, <1>3

-----------------------------------------------------------------------------
(* What its own steps do. *)

LEMMA Lands ==
  ASSUME TypeOK, NEW u \in Users
  PROVE  /\ \A st : Goto(u, st) => pc'[u] = st /\ outcome'[u] = outcome[u]
         /\ \A how, why : Return(u, how, why) =>
               /\ pc'[u] = "idle" /\ outcome'[u] = <<how, why>>
               /\ outcome'[u][1] = how /\ outcome'[u][2] = why
  BY DEF TypeOK, Goto, Return

(* An init leaves what retirements read alone, and is none itself. *)
LEMMA InitReads ==
  ASSUME TypeOK, NEW u \in Users, Read(u), Initiates(u)
  PROVE  Read(u)'
<1>1. pvc' = pvc /\ held'[u] = held[u]
  BY DEF Initiates, BeginInit, Land, Gate, Look, CopyEntry, Copied, CopyInterpreter, Checkout,
     Install, Write, InitFails, cluster
<1>2. pc'[u] \in Initing \/ (pc'[u] = "idle" /\ outcome'[u][1] \in {"done", "refused", "failed"})
  <2>1. CASE CopyEntry(u)
    BY <2>1, Lands DEF CopyEntry, Initing
  <2>2. CASE BeginInit(u) \/ Land(u) \/ Gate(u) \/ Look(u) \/ Copied(u)
    BY <2>2, Lands DEF BeginInit, Land, Gate, Look, Copied, Initing
  <2>3. CASE CopyInterpreter(u) \/ Checkout(u) \/ Install(u) \/ Write(u) \/ InitFails(u)
    BY <2>3, Lands DEF CopyInterpreter, Checkout, Install, Write, InitFails, Initing
  <2> QED
    BY <2>1, <2>2, <2>3 DEF Initiates
<1> QED
  BY <1>1, <1>2 DEF Read, Initing, Retiring

LEMMA RetireReads ==
  ASSUME TypeOK, NEW u \in Users, Read(u), Retires(u)
  PROVE  Read(u)'
<1>1. ReadTypes /\ UserTypes
  BY TypesApart
<1>2. held[u] \in Reading
  BY <1>1 DEF ReadTypes
<1>3. CASE BeginRetire(u)
  <2>1. held'[u] = [NothingRead EXCEPT !.wired = wired] /\ pc'[u] = "manifest" /\ wired' = wired
    BY <1>1, <1>3, Lands DEF BeginRetire, ReadTypes, Stage, cluster
  <2>2. held'[u].wired = wired /\ held'[u].claim.present = "unmeasured"
    BY <2>1 DEF NothingRead
  <2> QED
    BY <2>1, <2>2 DEF Read
<1>4. CASE ReadManifest(u)
  <2>1. /\ pc[u] = "manifest" /\ pc'[u] = "claim" /\ UNCHANGED <<wired, pvc, steady>>
        /\ \E m \in {"yes", "no", "unmeasured"} : held'[u] = [held[u] EXCEPT !.moved = m]
    BY <1>1, <1>4, Lands DEF ReadManifest, ReadTypes, Quietly, Stage, cluster
  <2>2. held'[u].wired = held[u].wired /\ held'[u].claim = held[u].claim
    BY <1>2, <2>1 DEF Reading
  <2> QED
    BY <2>1, <2>2 DEF Read, Retiring
<1>5. CASE ReadClaim(u)
  <2>1. /\ pc[u] = "claim" /\ UNCHANGED <<wired, spare, pvc, steady>>
        /\ pc'[u] = "holders" \/ (pc'[u] = "idle" /\ outcome'[u][1] = "retire")
    BY <1>5, Lands DEF ReadClaim, Quietly, cluster
  <2>2. PICK present \in {"yes", "no", "unmeasured"} :
          /\ present = "no" => ClaimAbsent(u)
          /\ held' = [held EXCEPT ![u].claim.present = present]
    BY <1>5 DEF ReadClaim
  <2>3. held'[u] = [held[u] EXCEPT !.claim.present = present]
    BY <1>1, <2>2 DEF ReadTypes
  <2>4. held'[u].wired = held[u].wired /\ held'[u].claim.present = present
    BY <1>2, <2>3 DEF Reading, ClaimState
  <2> QED
    BY <2>1, <2>2, <2>4 DEF Read, Retiring, ClaimAbsent
<1>6. CASE AskHolders(u)
  <2>1. /\ pc[u] = "holders" /\ UNCHANGED <<wired, spare, pvc, steady, held>>
        /\ \/ pc'[u] = "delete" /\ Holders = {}
           \/ pc'[u] = "idle" /\ outcome'[u][1] = "retire"
    BY <1>6, Lands DEF AskHolders, Mounting, Quietly, cluster
  <2> QED
    BY <2>1 DEF Read, Retiring, Holders
<1>7. CASE Delete(u)
  <2>1. /\ pc[u] = "delete" /\ pc'[u] = "await" /\ UNCHANGED <<wired, held>>
        /\ steady'[u] = steady[u] /\ (pvc = "absent" => pvc' = "absent")
    BY <1>1, <1>7, Lands DEF Delete, Changes, UserTypes, Stage
  <2> QED
    BY <2>1 DEF Read, Retiring
<1>8. CASE Deleted(u)
  <2>1. /\ pc[u] = "await" /\ pc'[u] = "idle" /\ pvc = "absent" /\ UNCHANGED <<wired, pvc, steady>>
        /\ held'[u] = [held[u] EXCEPT !.claim = [present |-> "no", deleted |-> TRUE]]
    BY <1>1, <1>8, Lands DEF Deleted, ReadTypes, Quietly, Outcome, Reason, cluster
  <2>2. held'[u].wired = held[u].wired
    BY <1>2, <2>1 DEF Reading
  <2> QED
    BY <2>1, <2>2 DEF Read, Retiring
<1>9. CASE RetireFails(u)
  <2>1. ~steady'[u] /\ UNCHANGED <<pvc, held>>
    BY <1>9 DEF RetireFails, Upsets, cluster
  <2> QED
    BY <2>1 DEF Read
<1> QED
  BY <1>3, <1>4, <1>5, <1>6, <1>7, <1>8, <1>9 DEF Retires

LEMMA RetireForesees ==
  ASSUME TypeOK, NEW u \in Users, Retires(u)
  PROVE  Foreseen(u)'
<1>1. pc'[u] \in Retiring \/ (pc'[u] = "idle" /\ outcome'[u][1] \in {"retire", "failed"})
  BY Lands DEF Retires, BeginRetire, ReadManifest, ReadClaim, AskHolders, Delete, Deleted, RetireFails,
     Retiring
<1> QED
  BY <1>1 DEF Foreseen, Retiring

LEMMA BeginForesees ==
  ASSUME TypeOK, NEW u \in Users, BeginInit(u)
  PROVE  Foreseen(u)'
<1>1. UserTypes /\ ReadTypes
  BY TypesApart
<1>2. PICK repo \in {"none", "own"}, install \in BOOLEAN :
        /\ asked' = [asked EXCEPT ![u] = [repo |-> repo, install |-> install, delete |-> FALSE,
                                          image |-> image.id]]
        /\ foretold' = [foretold EXCEPT ![u] = Preflight(repo)]
  BY DEF BeginInit
<1>3. asked'[u].repo = repo /\ foretold'[u] = Preflight(repo) /\ pc'[u] = "land"
  BY <1>1, <1>2, Lands DEF ReadTypes, BeginInit
<1>4. UNCHANGED <<image, wired, pvc, files, rooted>>
  BY DEF BeginInit, cluster
<1>5. Mounted' = Mounted /\ Seeded' = Seeded /\ SourceFails(repo)' = SourceFails(repo)
  BY <1>4 DEF Mounted, Seeded, There, SourceFails
<1> DEFINE fail == Preflight(repo).fail
           warn == Preflight(repo).warn
<1>6. /\ fail \subseteq {"claim", "supervisor", "source", "project", "interpreter", "root"}
      /\ "claim" \in fail <=> ~Mounted
      /\ "supervisor" \in fail <=> "supervisor" \notin wired
      /\ "source" \in fail <=> SourceFails(repo)
      /\ "project" \in fail <=> ~Seeded /\ "project" \notin image.ships
      /\ "interpreter" \in fail <=> ~Seeded /\ "interp" \notin image.ships
      /\ "root" \in fail => ~Seeded /\ ~rooted
      /\ ~Seeded /\ ~rooted => "root" \in fail \cup warn
  <2> HIDE DEF Mounted, SourceFails
  <2>1. CASE Seeded
    BY <2>1 DEF Preflight, SeedRows
  <2>2. CASE ~Seeded
    BY <2>2 DEF Preflight, SeedRows
  <2> QED
    BY <2>1, <2>2
<1> HIDE DEF fail, warn
<1>7. foretold'[u].fail = fail /\ foretold'[u].warn = warn
  BY <1>3 DEF fail, warn
<1>8. Foretells(u)'
  BY <1>3, <1>4, <1>5, <1>6, <1>7 DEF Foretells
<1> QED
  BY <1>3, <1>8 DEF Foreseen

LEMMA LookForesees ==
  ASSUME TypeOK, NEW u \in Users, Foreseen(u), Land(u) \/ Gate(u) \/ Look(u)
  PROVE  Foreseen(u)'
<1>1. /\ UNCHANGED <<image, wired, pvc, files, rooted, asked, foretold, steady>>
      /\ pc[u] \in {"land", "gate", "look"} /\ (seat => seat')
  BY DEF Land, Gate, Look, Quietly, cluster
<1>2. /\ Mounted' = Mounted /\ Seeded' = Seeded
      /\ SourceFails(asked[u].repo)' = SourceFails(asked[u].repo)
  BY <1>1 DEF Mounted, Seeded, There, SourceFails
<1>3. Foretells(u) => Foretells(u)'
  BY <1>1, <1>2 DEF Foretells
<1>4. CASE Land(u)
  BY <1>1, <1>3, <1>4, Lands DEF Land, Foreseen
<1>5. CASE Gate(u)
  <2>1. steady[u] =>
        \/ outcome'[u][2] = "supervisor" /\ "supervisor" \notin wired /\ outcome'[u][1] = "refused"
           /\ pc'[u] = "idle"
        \/ outcome'[u][2] = "claim" /\ ~Mounted /\ outcome'[u][1] = "refused" /\ pc'[u] = "idle"
        \/ outcome'[u][2] = "source" /\ SourceFails(asked[u].repo) /\ outcome'[u][1] = "refused"
           /\ pc'[u] = "idle"
        \/ Mounted /\ "supervisor" \in wired /\ ~SourceFails(asked[u].repo) /\ pc'[u] = "look"
    BY <1>5, Lands DEF Gate, Foreseen, Reached
  <2>2. steady[u] => Foretells(u) /\ seat
    BY <1>1, <1>5 DEF Foreseen, Gate
  <2> QED
    BY <1>1, <1>2, <1>3, <2>1, <2>2 DEF Foreseen, Foretells
<1>6. CASE Look(u)
  <2>1. seat =>
        \/ Seeded /\ pc'[u] = "git"
        \/ ~Seeded /\ rooted /\ "project" \in image.ships /\ pc'[u] = "copy"
        \/ ~Seeded /\ ~rooted /\ pc'[u] = "idle" /\ outcome'[u][1] = "refused"
           /\ outcome'[u][2] = "root"
        \/ ~Seeded /\ "project" \notin image.ships /\ pc'[u] = "idle"
           /\ outcome'[u][1] = "refused" /\ outcome'[u][2] = "project"
    <3> SUFFICES ASSUME seat
                 PROVE  \/ Seeded /\ pc'[u] = "git"
                        \/ ~Seeded /\ rooted /\ "project" \in image.ships /\ pc'[u] = "copy"
                        \/ ~Seeded /\ ~rooted /\ pc'[u] = "idle" /\ outcome'[u][1] = "refused"
                           /\ outcome'[u][2] = "root"
                        \/ ~Seeded /\ "project" \notin image.ships /\ pc'[u] = "idle"
                           /\ outcome'[u][1] = "refused" /\ outcome'[u][2] = "project"
      OBVIOUS
    <3>1. /\ \A st : Goto(u, st) => pc'[u] = st
          /\ \A how, why : Return(u, how, why) =>
                pc'[u] = "idle" /\ outcome'[u][1] = how /\ outcome'[u][2] = why
      BY Lands
    <3>2. CASE Seeded
      <4>1. Goto(u, "git")
        BY <1>6, <3>2 DEF Look
      <4> QED
        BY <3>1, <3>2, <4>1
    <3>3. CASE ~Seeded /\ rooted /\ "project" \in image.ships
      <4>1. Goto(u, "copy")
        BY <1>6, <3>3 DEF Look
      <4> QED
        BY <3>1, <3>3, <4>1
    <3>4. CASE ~Seeded /\ ~rooted
      <4>1. Return(u, "refused", "root")
        BY <1>6, <3>4 DEF Look
      <4> QED
        BY <3>1, <3>4, <4>1
    <3>5. CASE ~Seeded /\ rooted /\ "project" \notin image.ships
      <4>1. Return(u, "refused", "project")
        BY <1>6, <3>5 DEF Look
      <4> QED
        BY <3>1, <3>5, <4>1
    <3> QED
      BY <3>2, <3>3, <3>4, <3>5
  <2>2. steady[u] => /\ Foretells(u) /\ Mounted /\ "supervisor" \in wired /\ seat
                     /\ ~SourceFails(asked[u].repo)
    BY <1>6 DEF Foreseen, Look
  <2> QED
    BY <1>1, <2>1, <2>2 DEF Foreseen, Foretells
<1> QED
  BY <1>4, <1>5, <1>6

LEMMA CopyForesees ==
  ASSUME TypeOK, NEW u \in Users, Foreseen(u),
         CopyEntry(u) \/ Copied(u) \/ CopyInterpreter(u)
  PROVE  Foreseen(u)'
<1>1. UNCHANGED <<image, foretold>> /\ pc[u] \in {"copy", "interp"} /\ (steady'[u] => steady[u])
  BY DEF CopyEntry, Copied, CopyInterpreter, Quietly, Changes, cluster
<1>2. \/ pc'[u] \in {"copy", "interp"}
      \/ pc'[u] = "git" /\ "interp" \in image.ships
      \/ pc'[u] = "idle" /\ outcome'[u][1] = "failed"
  BY Lands DEF CopyEntry, Copied, CopyInterpreter
<1> QED
  BY <1>1, <1>2 DEF Foreseen

LEMMA BuildForesees ==
  ASSUME TypeOK, NEW u \in Users, Foreseen(u),
         Checkout(u) \/ Install(u) \/ Write(u) \/ InitFails(u)
  PROVE  Foreseen(u)'
<1>1. foretold' = foretold /\ (steady'[u] => steady[u])
  BY DEF Checkout, Install, Write, InitFails, Changes, Quietly, Upsets, cluster
<1>2. CASE InitFails(u)
  BY <1>2 DEF InitFails, Upsets, Foreseen
<1>3. CASE Checkout(u) \/ Install(u) \/ Write(u)
  <2>1. /\ pc[u] \in {"git", "install", "write"}
        /\ \/ pc'[u] \in {"install", "write"}
           \/ pc'[u] = "idle" /\ outcome'[u][1] \in {"failed", "done"}
    BY <1>3, Lands DEF Checkout, Install, Write
  <2> QED
    BY <1>1, <2>1 DEF Foreseen
<1> QED
  BY <1>2, <1>3

LEMMA InvInit == Init => Inv
<1> SUFFICES ASSUME Init PROVE Inv
  OBVIOUS
<1>1. ASSUME NEW u \in Users
      PROVE  ~steady[u] /\ held[u].claim.present = "unmeasured"
  BY DEF Init, NothingRead
<1> QED
  BY <1>1, TypeInit DEF Inv, Foreseen, Read

LEMMA InvStep == Inv /\ [Next]_vars => Inv'
<1> SUFFICES ASSUME Inv, [Next]_vars PROVE Inv'
  OBVIOUS
<1>1. TypeOK /\ TypeOK'
  BY TypeStep DEF Inv
<1>2. ASSUME NEW u \in Users
      PROVE  Foreseen(u)' /\ Read(u)'
  <2>1. Foreseen(u) /\ Read(u)
    BY DEF Inv
  <2>2. CASE Elsewhere(u)
    BY <2>1, <2>2, ElsewhereKeeps
  <2>3. CASE Initiates(u)
    BY <1>1, <2>1, <2>3, InitReads, BeginForesees, LookForesees, CopyForesees, BuildForesees
    DEF Initiates
  <2>4. CASE Retires(u)
    BY <1>1, <2>1, <2>4, RetireReads, RetireForesees
  <2> QED
    BY <1>1, <2>2, <2>3, <2>4, Apart
<1> QED
  BY <1>1, <1>2 DEF Inv

-----------------------------------------------------------------------------
(* What a manifest promises: why a claim that has one stays whole.           *)

Whole == Parts \subseteq There

Complete == files.manifest # NoManifest /\ files.manifest.installed /\ ~overlapped

Seeding == {"look", "copy", "interp", "git", "install", "write"}

(* One init at a time, and none while a copy goes on in the pod; what it     *)
(* has found of the claim stays so until its seat is gone.                   *)
Alone ==
  ~overlapped =>
    /\ \A u, v \in Users : pc[u] \in Initing /\ pc[v] \in Initing => u = v
    /\ detached # <<>> => \A u \in Users : pc[u] \notin Initing

Found(u) ==
  ~overlapped /\ seat =>
    /\ pc[u] \in Seeding => Mounted
    /\ pc[u] = "install" => "git" \in There
    /\ pc[u] = "write" /\ asked[u].install => Whole

(* Nothing is copied any more: what goes on rebuilds the venv.               *)
Syncs == \A i \in DOMAIN detached : detached[i] = "sync"

(* A complete claim has its parts, and nothing copies over it.               *)
Kept ==
  Complete => /\ Whole /\ Syncs
              /\ \A u \in Users : pc[u] \notin {"copy", "interp"}

Volumed == "mount" \in wired => "volume" \in wired

ManifestInv ==
  /\ TypeOK /\ Alone /\ Kept /\ Volumed /\ MeasuredBaseIsOwn
  /\ \A u \in Users : Found(u) /\ (todo[u] # <<>> => pc[u] = "copy")

LEMMA ManifestInit == Init => ManifestInv
<1> SUFFICES ASSUME Init PROVE ManifestInv
  OBVIOUS
<1>1. files.manifest = NoManifest
  BY DEF Init, Empty
<1>2. Volumed
  BY DEF Init, Part, Volumed
<1>3. \A u \in Users : pc[u] = "idle" /\ todo[u] = <<>>
  BY DEF Init
<1>4. Alone /\ Kept /\ MeasuredBaseIsOwn
  BY <1>1, <1>3 DEF Init, Alone, Kept, Complete, MeasuredBaseIsOwn, Initing
<1>5. \A u \in Users : Found(u)
  BY <1>3 DEF Found, Seeding
<1> QED
  BY <1>2, <1>3, <1>4, <1>5, TypeInit DEF ManifestInv

(* A step of u's command is nobody else's.                                   *)
LEMMA OwnStep ==
  ASSUME TypeOK, NEW u \in Users, Initiates(u) \/ Retires(u), NEW v \in Users, v # u
  PROVE  pc'[v] = pc[v] /\ asked'[v] = asked[v] /\ todo'[v] = todo[v]
<1>1. UserTypes /\ ReadTypes /\ ClaimTypes
  BY TypesApart
<1> QED
  BY <1>1 DEF UserTypes, ReadTypes, ClaimTypes, Goto, Return, Initiates, Retires, BeginInit, Land,
     Gate, Look, CopyEntry, Copied, CopyInterpreter, Checkout, Install, Write, InitFails,
     BeginRetire, ReadManifest, ReadClaim, AskHolders, Delete, Deleted, RetireFails

(* Retirements leave the claim's files alone, and no claim that is mounted   *)
(* is theirs to take away.                                                   *)
LEMMA RetireLeaves ==
  ASSUME TypeOK, NEW u \in Users, Retires(u)
  PROVE  /\ UNCHANGED <<image, wired, seat, files, detached, overlapped, todo>>
         /\ Mounted => Mounted'
         /\ pc[u] \notin Initing /\ pc'[u] \notin Initing
<1>1. UNCHANGED <<image, wired, seat, files, detached, overlapped, todo>>
  BY DEF Retires, BeginRetire, ReadManifest, ReadClaim, AskHolders, Delete, Deleted, RetireFails,
     cluster
<1>2. pvc' = "absent" => pvc = "absent"
  BY DEF Retires, BeginRetire, ReadManifest, ReadClaim, AskHolders, Delete, Deleted, RetireFails,
     cluster
<1>3. pc[u] \notin Initing /\ pc'[u] \notin Initing
  BY Lands DEF Retires, BeginRetire, ReadManifest, ReadClaim, AskHolders, Delete, Deleted,
     RetireFails, Retiring, Initing
<1> QED
  BY <1>1, <1>2, <1>3 DEF Mounted

(* What an init's steps leave alone.                                         *)
LEMMA InitLeaves ==
  ASSUME TypeOK, NEW u \in Users, Initiates(u)
  PROVE  /\ UNCHANGED <<image, wired, pvc>> /\ Mounted' = Mounted
         /\ seat' = seat \/ Land(u)
         /\ overlapped' = overlapped \/ BeginInit(u)
         /\ detached' = detached \/ InitFails(u)
         /\ BeginInit(u) \/ pc[u] \in Initing
<1>1. UNCHANGED <<image, wired, pvc>>
  BY DEF Initiates, BeginInit, Land, Gate, Look, CopyEntry, Copied, CopyInterpreter, Checkout,
     Install, Write, InitFails, cluster
<1>2. /\ seat' = seat \/ Land(u)
      /\ overlapped' = overlapped \/ BeginInit(u)
      /\ detached' = detached \/ InitFails(u)
  BY DEF Initiates, BeginInit, Land, Gate, Look, CopyEntry, Copied, CopyInterpreter, Checkout,
     Install, Write, InitFails, cluster
<1>3. BeginInit(u) \/ pc[u] \in Initing
  BY DEF Initiates, Land, Gate, Look, CopyEntry, Copied, CopyInterpreter, Checkout, Install, Write,
     InitFails, Initing
<1> QED
  BY <1>1, <1>2, <1>3 DEF Mounted

(* Where the stages of an init lead.                                         *)
LEMMA InitLeads ==
  ASSUME TypeOK, NEW u \in Users
  PROVE  /\ BeginInit(u) => pc'[u] = "land"
         /\ Land(u) => pc'[u] = "gate"
         /\ Gate(u) => pc'[u] = "idle" \/ (pc'[u] = "look" /\ Reached)
         /\ Look(u) => pc'[u] \in {"idle", "git"} \/ (pc'[u] = "copy" /\ seat /\ ~Seeded)
         /\ CopyEntry(u) => pc[u] = "copy" /\ pc'[u] \in {"copy", "idle"}
         /\ Copied(u) => pc[u] = "copy" /\ pc'[u] = "interp"
         /\ CopyInterpreter(u) => pc[u] = "interp" /\ pc'[u] \in {"git", "idle"}
         /\ Checkout(u) => \/ pc'[u] = "idle"
                           \/ pc'[u] = "install" /\ (Mounted => "git" \in There)
                           \/ pc'[u] = "write" /\ ~asked[u].install
         /\ Install(u) => pc'[u] \in {"idle", "write"}
         /\ Write(u) \/ InitFails(u) => pc'[u] = "idle"
<1>1. /\ BeginInit(u) => pc'[u] = "land"
      /\ Land(u) => pc'[u] = "gate"
      /\ Gate(u) => pc'[u] = "idle" \/ (pc'[u] = "look" /\ Reached)
  BY Lands DEF BeginInit, Land, Gate
<1>2. Look(u) => pc'[u] \in {"idle", "git"} \/ (pc'[u] = "copy" /\ seat /\ ~Seeded)
  BY Lands DEF Look
<1>3. /\ CopyEntry(u) => pc[u] = "copy" /\ pc'[u] \in {"copy", "idle"}
      /\ Copied(u) => pc[u] = "copy" /\ pc'[u] = "interp"
      /\ CopyInterpreter(u) => pc[u] = "interp" /\ pc'[u] \in {"git", "idle"}
  BY Lands DEF CopyEntry, Copied, CopyInterpreter
<1>4. Checkout(u) => \/ pc'[u] = "idle"
                     \/ pc'[u] = "install" /\ (Mounted => "git" \in There)
                     \/ pc'[u] = "write" /\ ~asked[u].install
  BY Lands DEF Checkout
<1>5. /\ Install(u) => pc'[u] \in {"idle", "write"}
      /\ Write(u) \/ InitFails(u) => pc'[u] = "idle"
  BY Lands DEF Install, Write, InitFails
<1> QED
  BY <1>1, <1>2, <1>3, <1>4, <1>5

LEMMA AloneStep ==
  ASSUME TypeOK, Alone, [Next]_vars
  PROVE  Alone'
<1>1. CASE Others \/ UNCHANGED vars
  <2>1. /\ overlapped' = overlapped /\ (detached' # <<>> => detached # <<>>)
        /\ \A u \in Users : pc'[u] \in Initing => pc[u] \in Initing
    <3>1. CASE Deploy
      BY <3>1 DEF Deploy, Replaced, Initing, TypeOK
    <3>2. CASE Finalise \/ CopyGoesOn \/ UNCHANGED vars
      BY <3>2 DEF Finalise, CopyGoesOn, commands, vars
    <3> QED
      BY <1>1, <3>1, <3>2 DEF Others
  <2> QED
    BY <2>1 DEF Alone, Initing
<1>2. ASSUME NEW u \in Users, Retires(u)
      PROVE  Alone'
  <2>1. \A v \in Users : pc'[v] \in Initing => pc[v] \in Initing
    BY <1>2, OwnStep, RetireLeaves
  <2> QED
    BY <1>2, <2>1, RetireLeaves DEF Alone, Initing
<1>3. ASSUME NEW u \in Users, Initiates(u)
      PROVE  Alone'
  <2>1. \A v \in Users \ {u} : pc'[v] = pc[v]
    BY <1>3, OwnStep
  <2>2. CASE BeginInit(u)
    <3>1. ~overlapped' => /\ ~overlapped /\ detached' = <<>>
                          /\ \A v \in Users : pc[v] \notin Initing
      BY <2>2 DEF BeginInit
    <3> QED
      BY <2>1, <3>1 DEF Alone, Initing
  <2>3. CASE ~BeginInit(u)
    <3>1. overlapped' = overlapped /\ pc[u] \in Initing
      BY <1>3, <2>3, InitLeaves
    <3>2. detached' = detached \/ pc'[u] = "idle"
      BY <1>3, InitLeaves, InitLeads
    <3>3. "idle" \notin Initing
      BY DEF Initing
    <3>4. ASSUME ~overlapped
          PROVE  \A v \in Users : pc'[v] \in Initing => v = u
      BY <2>1, <3>1, <3>4 DEF Alone, Initing
    <3>5. ~overlapped => detached = <<>>
      BY <3>1 DEF Alone, Initing
    <3> QED
      BY <3>1, <3>2, <3>3, <3>4, <3>5 DEF Alone, Initing
  <2> QED
    BY <2>2, <2>3
<1> QED
  BY <1>1, <1>2, <1>3, NextApart

LEMMA TodoStep ==
  ASSUME TypeOK, [Next]_vars, NEW v \in Users, todo[v] # <<>> => pc[v] = "copy"
  PROVE  todo'[v] # <<>> => pc'[v] = "copy"
<1>1. UserTypes /\ ClaimTypes
  BY TypesApart
<1>2. CASE Others \/ UNCHANGED vars
  BY <1>1, <1>2 DEF Others, Deploy, Replaced, Finalise, CopyGoesOn, commands, vars, ClaimTypes
<1>3. ASSUME NEW u \in Users, u # v, Initiates(u) \/ Retires(u)
      PROVE  todo'[v] # <<>> => pc'[v] = "copy"
  BY <1>3, OwnStep
<1>4. CASE Retires(v)
  BY <1>4, RetireLeaves DEF Initing
<1>5. CASE Initiates(v)
  <2>1. CASE Look(v)
    BY <1>1, <2>1, Lands DEF Look, ClaimTypes
  <2>2. CASE CopyEntry(v)
    BY <1>1, <2>2, Lands DEF CopyEntry, ClaimTypes
  <2>3. CASE Copied(v) \/ InitFails(v)
    BY <1>1, <2>3 DEF Copied, InitFails, ClaimTypes
  <2>4. CASE BeginInit(v) \/ Land(v) \/ Gate(v) \/ CopyInterpreter(v) \/ Checkout(v)
             \/ Install(v) \/ Write(v)
    <3>1. todo' = todo /\ pc[v] # "copy"
      BY <2>4 DEF BeginInit, Land, Gate, CopyInterpreter, Checkout, Install, Write
    <3> QED
      BY <3>1
  <2> QED
    BY <1>5, <2>1, <2>2, <2>3, <2>4 DEF Initiates
<1> QED
  BY <1>2, <1>3, <1>4, <1>5, NextApart

LEMMA VolumedStep ==
  ASSUME TypeOK, Volumed, [Next]_vars
  PROVE  Volumed'
<1>1. CASE Others \/ UNCHANGED vars
  <2>1. wired' \in {Part, {}, wired}
    BY <1>1 DEF Others, Deploy, Finalise, CopyGoesOn, cluster, vars
  <2> QED
    BY <2>1 DEF Volumed, Part
<1>2. ASSUME NEW u \in Users, Initiates(u) \/ Retires(u)
      PROVE  Volumed'
  BY <1>2, InitLeaves, RetireLeaves DEF Volumed
<1> QED
  BY <1>1, <1>2, NextApart

(* A step that leaves the files and the image alone leaves what has been     *)
(* found and kept alone.                                                     *)
LEMMA FilesAlone ==
  ASSUME files' = files
  PROVE  There' = There /\ Whole' = Whole /\ (overlapped' = overlapped => Complete' = Complete)
  BY DEF There, Whole, Complete

LEMMA FoundStep ==
  ASSUME ManifestInv, [Next]_vars, NEW v \in Users
  PROVE  Found(v)'
<1>1. TypeOK /\ Alone /\ Volumed /\ Found(v)
  BY DEF ManifestInv
<1>2. UserTypes /\ ReadTypes
  BY <1>1, TypesApart
<1>3. Seeding \subseteq Initing /\ {"idle", "land", "gate"} \cap Seeding = {}
  BY DEF Seeding, Initing
<1>4. pc'[v] \notin Seeding => Found(v)'
  BY DEF Found, Seeding
<1>5. CASE Deploy
  <2>1. CASE ~seat'
    BY <2>1 DEF Found
  <2>2. CASE seat'
    <3>1. UNCHANGED <<wired, pvc, files, seat, overlapped, pc, asked>>
      BY <1>5, <2>2 DEF Deploy, Replaced
    <3> QED
      BY <1>1, <3>1, FilesAlone DEF Found, Mounted
  <2> QED
    BY <2>1, <2>2
<1>6. CASE Finalise
  <2>1. UNCHANGED <<wired, seat, overlapped, pc>> /\ "volume" \notin wired
    BY <1>6 DEF Finalise, Holders, commands
  <2>2. ~Mounted
    BY <1>1, <2>1 DEF Volumed, Mounted
  <2> QED
    BY <1>1, <1>4, <2>1, <2>2 DEF Found
<1>7. CASE CopyGoesOn
  <2>1. UNCHANGED <<overlapped, pc>> /\ detached # <<>>
    BY <1>7 DEF CopyGoesOn, commands
  <2> QED
    BY <1>1, <1>3, <1>4, <2>1 DEF Alone, Found
<1>8. CASE UNCHANGED vars
  <2>1. UNCHANGED <<wired, pvc, files, seat, overlapped, pc, asked>>
    BY <1>8 DEF vars
  <2> QED
    BY <1>1, <2>1, FilesAlone DEF Found, Mounted
<1>9. ASSUME NEW u \in Users, Retires(u)
      PROVE  Found(v)'
  <2>1. CASE u = v
    BY <1>1, <1>3, <1>4, <1>9, <2>1, RetireLeaves
  <2>2. CASE u # v
    <3>1. pc'[v] = pc[v] /\ asked'[v] = asked[v]
      BY <1>1, <1>9, <2>2, OwnStep
    <3>2. UNCHANGED <<files, seat, overlapped>> /\ (Mounted => Mounted')
      BY <1>1, <1>9, RetireLeaves
    <3> QED
      BY <1>1, <3>1, <3>2, FilesAlone DEF Found
  <2> QED
    BY <2>1, <2>2
<1>10. ASSUME NEW u \in Users, u # v, Initiates(u)
       PROVE  Found(v)'
  <2>1. pc'[v] = pc[v]
    BY <1>1, <1>10, OwnStep
  <2>2. CASE BeginInit(u)
    <3>1. ~overlapped' => pc[v] \notin Initing
      BY <2>2 DEF BeginInit
    <3> QED
      BY <1>3, <1>4, <2>1, <3>1 DEF Found
  <2>3. CASE ~BeginInit(u)
    <3>1. overlapped' = overlapped /\ pc[u] \in Initing
      BY <1>1, <1>10, <2>3, InitLeaves
    <3>2. ~overlapped => pc[v] \notin Initing
      BY <1>1, <1>10, <3>1 DEF Alone
    <3> QED
      BY <1>3, <1>4, <2>1, <3>1, <3>2 DEF Found
  <2> QED
    BY <2>2, <2>3
<1>11. CASE Initiates(v)
  <2>1. CASE BeginInit(v) \/ Land(v) \/ Write(v) \/ InitFails(v)
    <3>1. pc'[v] \in {"land", "gate", "idle"}
      BY <1>1, <2>1, InitLeads
    <3> QED
      BY <1>3, <1>4, <3>1
  <2>2. CASE ~(BeginInit(v) \/ Land(v) \/ Write(v) \/ InitFails(v))
    <3>1. seat' = seat /\ overlapped' = overlapped /\ Mounted' = Mounted
      BY <1>1, <1>11, <2>2, InitLeaves
    <3>2. asked' = asked
      BY <1>11, <2>2 DEF Initiates, Gate, Look, CopyEntry, Copied, CopyInterpreter, Checkout, Install
    <3> SUFFICES ASSUME ~overlapped, seat, pc'[v] \in Seeding
                 PROVE  /\ Mounted'
                        /\ pc'[v] = "install" => ("git" \in There)'
                        /\ pc'[v] = "write" /\ asked[v].install => Whole'
      BY <1>4, <3>1, <3>2 DEF Found
    <3>3. CASE Gate(v)
      BY <1>1, <1>3, <3>1, <3>3, InitLeads DEF Reached
    <3>4. CASE ~Gate(v)
      <4>1. pc[v] \in Seeding
        BY <1>11, <2>2, <3>4 DEF Initiates, Look, CopyEntry, Copied, CopyInterpreter, Checkout,
           Install, Seeding
      <4>2. Mounted /\ (pc[v] = "install" => "git" \in There)
        BY <1>1, <4>1 DEF Found
      <4>3. CASE Look(v) \/ CopyEntry(v) \/ Copied(v) \/ CopyInterpreter(v)
        <5>1. pc'[v] \notin {"install", "write"}
          BY <1>1, <4>3, InitLeads
        <5> QED
          BY <3>1, <4>2, <5>1
      <4>4. CASE Checkout(v)
        <5>1. \/ pc'[v] = "idle"
              \/ pc'[v] = "install" /\ "git" \in There
              \/ pc'[v] = "write" /\ ~asked[v].install
          BY <1>1, <4>2, <4>4, InitLeads
        <5>2. files' = files
          BY <4>4 DEF Checkout
        <5> QED
          BY <1>3, <3>1, <4>2, <5>1, <5>2, FilesAlone
      <4>5. CASE Install(v)
        <5>1. pc'[v] = "idle" \/ (pc'[v] = "write" /\ Put("sync") /\ UvRuns /\ "source" \in There)
          BY <1>1, <4>5, Lands DEF Install
        <5>2. pc[v] = "install" /\ files \in Files /\ "sync" \in Job
          BY <1>1, <4>5 DEF Install, TypeOK, Job
        <5>3. pc'[v] = "write" => Whole'
          BY <4>2, <5>1, <5>2, PutTypes DEF Whole, Parts, UvRuns
        <5> QED
          BY <1>3, <3>1, <4>2, <5>1, <5>3
      <4> QED
        BY <1>11, <2>2, <3>4, <4>3, <4>4, <4>5 DEF Initiates
    <3> QED
      BY <3>3, <3>4
  <2> QED
    BY <2>1, <2>2
<1> QED
  BY <1>5, <1>6, <1>7, <1>8, <1>9, <1>10, <1>11, NextApart DEF Others

(* Who writes a manifest, and what it says.                                  *)
LEMMA ManifestWritten ==
  ASSUME TypeOK, NEW u \in Users, Initiates(u)
  PROVE  \/ files'.manifest = files.manifest
         \/ /\ Write(u) /\ Reached
            /\ There' = There
            /\ files'.manifest.installed = asked[u].install
            /\ ~files'.manifest.assumed => \E origin : Corroborated(asked[u].repo, origin)
<1>1. files \in Files
  BY DEF TypeOK
<1>2. CASE Write(u)
  <2>1. files' = files \/ Reached
    BY <1>2 DEF Write
  <2>2. CASE files' # files
    <3>1. PICK has \in BOOLEAN, origin \in {"git" \in files.has, "git" \in There} :
            files' = [files EXCEPT !.manifest =
                         [image |-> asked[u].image, repo |-> Source(asked[u].repo, origin),
                          assumed |-> Assumed(asked[u].repo, origin, has),
                          installed |-> asked[u].install]]
      BY <1>2, <2>2 DEF Write
    <3>2. /\ files'.manifest.installed = asked[u].install
          /\ files'.manifest.assumed = Assumed(asked[u].repo, origin, has)
          /\ files'.has = files.has /\ files'.half = files.half
      BY <1>1, <3>1 DEF Files
    <3> QED
      BY <1>2, <2>1, <2>2, <3>2 DEF Assumed, There
  <2> QED
    BY <2>2
<1>3. CASE CopyEntry(u) \/ CopyInterpreter(u) \/ Install(u) \/ InitFails(u)
  BY <1>1, <1>3 DEF CopyEntry, CopyInterpreter, Install, InitFails, Put, Cut, Halved, Files
<1>5. CASE BeginInit(u) \/ Land(u) \/ Gate(u) \/ Look(u) \/ Copied(u) \/ Checkout(u)
  BY <1>5 DEF BeginInit, Land, Gate, Look, Copied, Checkout
<1> QED
  BY <1>2, <1>3, <1>5 DEF Initiates

LEMMA LabelStep ==
  ASSUME TypeOK, MeasuredBaseIsOwn, [Next]_vars
  PROVE  MeasuredBaseIsOwn'
<1>1. image \in Image /\ files \in Files
  BY DEF TypeOK
<1>2. CASE Deploy
  <2>1. image'.labels = image.labels
    BY <1>1, <1>2 DEF Deploy, Image
  <2>2. files'.manifest = files.manifest
    BY <1>1, <1>2 DEF Deploy, Replaced, Cut, Halved, Files
  <2> QED
    BY <2>1, <2>2 DEF MeasuredBaseIsOwn
<1>3. CASE Finalise
  <2>1. files'.manifest = NoManifest
    BY <1>3 DEF Finalise, Empty
  <2> QED
    BY <2>1 DEF MeasuredBaseIsOwn
<1>4. CASE CopyGoesOn
  <2>1. image' = image /\ files'.manifest = files.manifest
    BY <1>1, <1>4 DEF CopyGoesOn, Put, Files, cluster
  <2> QED
    BY <2>1 DEF MeasuredBaseIsOwn
<1>5. CASE UNCHANGED vars
  BY <1>5 DEF vars, MeasuredBaseIsOwn
<1>6. ASSUME NEW u \in Users, Retires(u)
      PROVE  MeasuredBaseIsOwn'
  BY <1>6, RetireLeaves DEF MeasuredBaseIsOwn
<1>7. ASSUME NEW u \in Users, Initiates(u)
      PROVE  MeasuredBaseIsOwn'
  <2>1. image' = image
    BY <1>7, InitLeaves
  <2>2. \A origin : Corroborated(asked[u].repo, origin) => image.labels = "own"
    BY DEF Corroborated, Source
  <2> QED
    BY <1>7, <2>1, <2>2, ManifestWritten DEF MeasuredBaseIsOwn
<1> QED
  BY <1>2, <1>3, <1>4, <1>5, <1>6, <1>7, NextApart DEF Others

(* What is at work beside a complete claim is uv.                            *)
LEMMA WorkKept ==
  ASSUME ManifestInv, Complete
  PROVE  /\ \A u \in Users : Working(u) \in {<<>>, <<"sync">>}
         /\ AtWork \subseteq {"sync"}
<1>1. TypeOK /\ Syncs /\ \A u \in Users : pc[u] \notin {"copy", "interp"} /\ todo[u] = <<>>
  BY DEF ManifestInv, Kept
<1>2. \A u \in Users : Working(u) \in {<<>>, <<"sync">>}
  BY <1>1 DEF Working
<1>3. \A u \in Users : First(Working(u)) \subseteq {"sync"}
  BY <1>2 DEF First
<1>4. First(detached) \subseteq {"sync"}
  <2>1. detached \in Seq(Job)
    BY <1>1 DEF TypeOK
  <2>2. detached # <<>> => Head(detached) = "sync"
    BY <1>1, <2>1 DEF Syncs
  <2> QED
    BY <2>2 DEF First
<1> QED
  BY <1>2, <1>3, <1>4 DEF AtWork

LEMMA SyncsGoOn ==
  ASSUME detached \in Seq(Job), Syncs
  PROVE  /\ detached' = detached \o <<"sync">> => Syncs'
         /\ detached' = detached \o <<>> => Syncs'
         /\ detached # <<>> => /\ Head(detached) = "sync"
                               /\ detached' = Tail(detached) => Syncs'
<1> QED
  BY DEF Syncs

LEMMA KeptStep ==
  ASSUME ManifestInv, [Next]_vars
  PROVE  Kept'
<1>1. TypeOK /\ Alone /\ Kept
  BY DEF ManifestInv
<1>9. files \in Files /\ detached \in Seq(Job) /\ "sync" \in Job /\ ClaimTypes
  BY <1>1, TypesApart DEF TypeOK, Job
<1> DEFINE Quiet == Syncs' /\ \A u \in Users : pc'[u] \notin {"copy", "interp"}
<1> SUFFICES ASSUME Complete' PROVE Whole' /\ Quiet
  BY DEF Kept
<1>2. CASE Deploy
  <2>1. CASE Replaced
    <3>1. AtWork \in SUBSET Job /\ Cut(AtWork)
      BY <1>9, <2>1, ReplacedTypes
    <3>2. files'.manifest = files.manifest /\ overlapped' = overlapped
      BY <1>2, <1>9, <3>1, CutTypes DEF Deploy
    <3>3. Complete
      BY <3>2 DEF Complete
    <3>4. There \subseteq There'
      BY <1>9, <3>1, <3>3, WorkKept, CutTypes
    <3>5. Syncs' /\ \A u \in Users : pc'[u] \in {pc[u], "idle"}
      BY <2>1 DEF Replaced, Syncs
    <3> QED
      BY <1>1, <3>3, <3>4, <3>5 DEF Kept, Whole
  <2>2. CASE UNCHANGED <<files, detached, pc, overlapped>>
    BY <1>1, <2>2, FilesAlone DEF Kept, Syncs
  <2> QED
    BY <1>2, <2>1, <2>2 DEF Deploy
<1>3. CASE Finalise
  <2>1. files'.manifest = NoManifest
    BY <1>3 DEF Finalise, Empty
  <2> QED
    BY <2>1 DEF Complete
<1>4. CASE CopyGoesOn
  <2>1. /\ Put(Head(detached)) /\ detached' = Tail(detached) /\ detached # <<>>
        /\ overlapped' = overlapped /\ pc' = pc /\ Head(detached) \in Job
    BY <1>4, <1>9 DEF CopyGoesOn, commands
  <2>2. files'.manifest = files.manifest
    BY <1>9, <2>1, PutTypes
  <2>3. Complete
    BY <2>1, <2>2 DEF Complete
  <2>4. Head(detached) = "sync" /\ Syncs'
    BY <1>1, <1>9, <2>1, <2>3, SyncsGoOn DEF Kept
  <2>5. There' = There \cup {"sync"}
    BY <1>9, <2>1, <2>4, PutTypes
  <2> QED
    BY <1>1, <2>1, <2>3, <2>4, <2>5 DEF Kept, Whole
<1>5. CASE UNCHANGED vars
  <2>1. UNCHANGED <<files, overlapped, detached, pc>>
    BY <1>5 DEF vars
  <2> QED
    BY <1>1, <2>1, FilesAlone DEF Kept, Syncs
<1>6. ASSUME NEW u \in Users, Retires(u)
      PROVE  Whole' /\ Quiet
  <2>1. UNCHANGED <<files, overlapped, detached>> /\ pc'[u] \notin {"copy", "interp"}
    BY <1>1, <1>6, RetireLeaves DEF Initing
  <2>2. \A v \in Users \ {u} : pc'[v] = pc[v]
    BY <1>1, <1>6, OwnStep
  <2> QED
    BY <1>1, <2>1, <2>2, FilesAlone DEF Kept, Syncs
<1>7. ASSUME NEW u \in Users, Initiates(u)
      PROVE  Whole' /\ Quiet
  <2>1. \A v \in Users \ {u} : pc'[v] = pc[v]
    BY <1>1, <1>7, OwnStep
  <2>2. ~overlapped
    BY <1>1, <1>7, InitLeaves DEF Complete, BeginInit
  <2>3. CASE files'.manifest # files.manifest
    <3>1. Write(u) /\ Reached /\ There' = There /\ asked[u].install
      BY <1>1, <1>7, <2>3, ManifestWritten DEF Complete
    <3>2. pc[u] = "write" /\ detached' = detached /\ pc'[u] = "idle"
      BY <1>1, <3>1, InitLeads DEF Write
    <3>3. Whole
      BY <2>2, <3>1, <3>2 DEF ManifestInv, Found, Reached
    <3>4. Whole'
      BY <3>1, <3>3 DEF Whole
    <3>5. detached = <<>> /\ \A v \in Users \ {u} : pc[v] \notin {"copy", "interp"}
      BY <1>1, <2>2, <3>2 DEF Alone, Initing
    <3> QED
      BY <2>1, <3>2, <3>4, <3>5 DEF Syncs
  <2>4. CASE files'.manifest = files.manifest
    <3>1. Complete
      BY <2>2, <2>4 DEF Complete
    <3>2. Whole /\ Syncs /\ \A v \in Users : pc[v] \notin {"copy", "interp"}
      BY <1>1, <3>1 DEF Kept
    <3>7. Working(u) \in {<<>>, <<"sync">>} /\ First(Working(u)) \subseteq {"sync"}
      BY <3>1, WorkKept DEF First
    <3>3. ~CopyEntry(u) /\ ~Copied(u) /\ ~CopyInterpreter(u)
      BY <1>1, <3>2, InitLeads
    <3>4. Whole'
      <4>1. There \subseteq There'
        <5>1. CASE files' = files
          BY <5>1, FilesAlone
        <5>2. CASE Put("sync")
          BY <1>9, <5>2, PutTypes
        <5>3. CASE \E jobs \in SUBSET {"sync"} : Cut(jobs)
          BY <1>9, <5>3, CutTypes
        <5>4. CASE Write(u)
          <6>1. files'.has = files.has /\ files'.half = files.half
            BY <1>9, <5>4 DEF Write, Files
          <6> QED
            BY <6>1 DEF There
        <5>5. Install(u) \/ InitFails(u) =>
                 files' = files \/ Put("sync") \/ \E jobs \in SUBSET {"sync"} : Cut(jobs)
          BY <3>7 DEF Install, InitFails
        <5>6. ~Install(u) /\ ~Write(u) /\ ~InitFails(u) => files' = files
          BY <1>7, <3>3 DEF Initiates, BeginInit, Land, Gate, Look, Checkout
        <5> QED
          BY <5>1, <5>2, <5>3, <5>4, <5>5, <5>6
      <4> QED
        BY <3>2, <4>1 DEF Whole
    <3>5. Syncs'
      <4>1. CASE InitFails(u)
        <5>1. detached' = detached \/ detached' = detached \o Working(u)
          BY <4>1 DEF InitFails
        <5> QED
          BY <1>9, <3>2, <3>7, <5>1, SyncsGoOn DEF Syncs
      <4>2. CASE ~InitFails(u)
        BY <1>1, <1>7, <3>2, <4>2, InitLeaves DEF Syncs
      <4> QED
        BY <4>1, <4>2
    <3>6. pc'[u] \notin {"copy", "interp"}
      <4>1. CASE Look(u)
        <5>1. seat => Mounted
          BY <2>2, <4>1 DEF ManifestInv, Found, Look, Seeding
        <5>2. seat => Seeded
          BY <3>2, <5>1 DEF Seeded, Whole, Parts
        <5> QED
          BY <1>1, <4>1, <5>2, InitLeads
      <4>2. CASE ~Look(u)
        BY <1>1, <1>7, <3>3, <4>2, InitLeads, Lands DEF Initiates
      <4> QED
        BY <4>1, <4>2
    <3> QED
      BY <2>1, <3>2, <3>4, <3>5, <3>6
  <2> QED
    BY <2>3, <2>4
<1> HIDE DEF Quiet
<1> QED
  BY <1>2, <1>3, <1>4, <1>5, <1>6, <1>7, NextApart DEF Others

LEMMA ManifestStep == ManifestInv /\ [Next]_vars => ManifestInv'
<1> SUFFICES ASSUME ManifestInv, [Next]_vars PROVE ManifestInv'
  OBVIOUS
<1>1. TypeOK /\ Alone /\ Volumed /\ MeasuredBaseIsOwn
  BY DEF ManifestInv
<1>2. TypeOK' /\ Alone' /\ Volumed' /\ MeasuredBaseIsOwn' /\ Kept'
  BY <1>1, TypeStep, AloneStep, VolumedStep, LabelStep, KeptStep
<1>3. \A v \in Users : Found(v)'
  BY FoundStep
<1>4. \A v \in Users : todo'[v] # <<>> => pc'[v] = "copy"
  BY <1>1, TodoStep DEF ManifestInv
<1> QED
  BY <1>2, <1>3, <1>4 DEF ManifestInv

-----------------------------------------------------------------------------
(* The types of the state, for any users, images, calls and faults.          *)
THEOREM HotfixClaimTypeCorrect == Spec => []TypeOK
<1>1. TypeOK /\ [Next]_vars => TypeOK'
  BY TypeStep
<1> QED
  BY <1>1, TypeInit, PTL DEF Spec

(* What an undisturbed init refuses its check had named, and a target that   *)
(* failed the check is never initialised (preflight, _init_claim).           *)
THEOREM ChecksForetell == Spec => []CheckForetellsInit
<1>1. Inv => CheckForetellsInit
  BY DEF Inv, Foreseen, CheckForetellsInit, Ended
<1> QED
  BY <1>1, InvInit, InvStep, PTL DEF Spec

(* A claim reported gone is gone, and wiring reported out is out, whoever    *)
(* deploys, seeds and retires beside it (claim_state, RetirementCheck).      *)
THEOREM RetirementsAreTrue == Spec => []RetirementIsTrue
<1>1. ASSUME Inv PROVE RetirementIsTrue
  <2> SUFFICES ASSUME NEW u \in Users, pc[u] = "idle", outcome[u][1] = "retire"
               PROVE  /\ Retirement(held[u]).claim = "done" => pvc = "absent"
                      /\ steady[u] /\ Retirement(held[u]).wiring = "done" => wired = {}
    BY DEF RetirementIsTrue
  <2>1. Retirement(held[u]).claim = "done" => held[u].claim.present = "no"
    BY DEF Retirement, Step
  <2>2. Retirement(held[u]).wiring = "done" => held[u].wired = {}
    BY DEF Retirement, Step
  <2> QED
    BY <1>1, <2>1, <2>2 DEF Inv, Read
<1> QED
  BY <1>1, InvInit, InvStep, PTL DEF Spec

(* Deletion asks every pod of the namespace, so as long as nothing changed   *)
(* since, what it asks Kubernetes to delete no pod mounts (_delete_claim).   *)
THEOREM DeletionsSpareTheMounted == Spec => DeleteSparesTheMounted
<1> DEFINE Spared == pvc = "bound" /\ pvc' = "terminating" =>
                       Holders = {} \/ \E u \in Users : pc[u] = "delete" /\ ~steady[u]
<1>1. ASSUME Inv, [Next]_vars PROVE Spared
  <2> SUFFICES ASSUME pvc = "bound", pvc' = "terminating"
               PROVE  Holders = {} \/ \E u \in Users : pc[u] = "delete" /\ ~steady[u]
    OBVIOUS
  <2>1. \E u \in Users : Delete(u)
    BY <1>1 DEF Next, Deploy, Finalise, CopyGoesOn, BeginInit, Land, Gate, Look, CopyEntry, Copied,
       CopyInterpreter, Checkout, Install, Write, InitFails, BeginRetire, ReadManifest, ReadClaim,
       AskHolders, Deleted, RetireFails, cluster, vars
  <2>2. PICK u \in Users : pc[u] = "delete"
    BY <2>1 DEF Delete
  <2> QED
    BY <1>1, <2>2 DEF Inv, Read
<1> HIDE DEF Spared
<1>2. Inv /\ [Next]_vars => [Spared]_vars
  BY <1>1
<1>3. Spec => [][Spared]_vars
  BY <1>2, InvInit, InvStep, PTL DEF Spec
<1> QED
  BY <1>3 DEF Spared, DeleteSparesTheMounted

(* A claim with a manifest of an init that rebuilt the venv has every part   *)
(* of the project, its interpreter and the venv that names it, whatever init *)
(* was given up or cut short before and whichever pods came and went - there *)
(* in part, where a copy was cut short and the next init took it for whole;  *)
(* and a base commit that is not marked as assumed is the application's own  *)
(* (init, seeded_python, base_commit_from).                                  *)
THEOREM ManifestsAreTrue == Spec => []ManifestIsTrue
<1>1. ManifestInv => ManifestIsTrue
  BY DEF ManifestInv, Kept, Complete, Whole, ManifestIsTrue, ManifestedClaimHasItsParts
<1> QED
  BY <1>1, ManifestInit, ManifestStep, PTL DEF Spec
=============================================================================

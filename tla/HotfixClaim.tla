----------------------------- MODULE HotfixClaim ----------------------------
(***************************************************************************)
(* The claim a hotfix lives on: `hotfix check` and `hotfix init`, which    *)
(* seed it from the running container, `hotfix status`, and `hotfix        *)
(* retire`, which measures what is left of it and may delete it.           *)
(*                                                                         *)
(* Every command reads the cluster and the claim in several calls, and     *)
(* others deploy, seed and retire in between.  A copy, or a rebuild of the *)
(* venv, goes on in the pod when the call that started it is given up, and *)
(* is cut short with the pod or by itself: what it was at is then there in *)
(* part.  init reaches the claim through a seat, which a new pod does not  *)
(* have.                                                                   *)
(***************************************************************************)
EXTENDS Integers, Sequences, FiniteSets

(* ships is what the project directory and /python of the image hold.        *)
(* labels is the repository its labels name: none, the application's own, or *)
(* its base image's; named, whether the image's name corresponds to it.      *)
Item  == {"git", "venv", "project", "source", "interp"}
Image == [id : 1..2, ships : {Item, Item \ {"git"}, Item \ {"interp"}, Item \ {"project"}},
          labels : {"none", "own", "base"}, named : BOOLEAN]

CONSTANTS Users,       \* command lines, each run one after another
          Images,      \* the images that may be deployed
          MaxCalls,    \* bound: commands one of them runs
          MaxDeploys,  \* bound: changes of the deployment
          MaxFaults    \* bound: calls that fail or are given up

ASSUME HotfixClaimAssumption ==
  Images \subseteq Image /\ MaxCalls \in Nat /\ MaxDeploys \in Nat /\ MaxFaults \in Nat

VARIABLES
  image,       \* what the deployed image holds
  wired,       \* parts of the hotfix wiring the pod carries
  spare,       \* whether a second pod mounts the claim, under whatever volume name
  seat,        \* whether a seat runs in the pod
  rooted,      \* whether a seat can list the target's root
  pvc,         \* the claim object
  files,       \* what is on the claim
  detached,    \* what work that was given up still has to do
  deploys, faults,
  overlapped,  \* history: two inits ran at once
  pc, calls,
  asked,       \* the flags of each command line's command, and the image its pod ran then
  todo,        \* what is left of its copy
  foretold,    \* history: hotfix check, had it run as the command began
  steady,      \* history: nothing but this command has changed anything since
  held,        \* what retire has read so far
  outcome      \* how the command ended

cluster == <<image, wired, spare, seat, rooted, pvc>>
commands == <<pc, calls, asked, todo, foretold, held, outcome>>
vars == <<image, wired, spare, seat, rooted, pvc, files, detached, deploys, faults, overlapped,
          pc, calls, asked, todo, foretold, steady, held, outcome>>

-----------------------------------------------------------------------------
Part == {"volume", "mount", "supervisor"}

(* The entries of the image's project directory in the order a glob copies   *)
(* them.                                                                     *)
Entry(item) == IF item \in image.ships THEN <<item>> ELSE <<>>
Entries == Entry("git") \o Entry("venv") \o Entry("project") \o Entry("source")

(* What works on the claim: cp, entry by entry, and uv, which rebuilds the   *)
(* venv in place.                                                            *)
Job == Item \cup {"sync"}

(* HotfixManifest: what git cannot answer.  installed is history: its init   *)
(* rebuilt the venv.                                                         *)
Manifest == [image : 1..2, repo : {"none", "own", "base"}, assumed : BOOLEAN, installed : BOOLEAN]
NoManifest == [image |-> 1, repo |-> "own", assumed |-> FALSE, installed |-> FALSE, none |-> TRUE]

(* has is what is there whole; half, what a job that was cut short was at,   *)
(* and left in part: the first file of it, say, or of the source none.       *)
Files == [has : SUBSET Job, half : SUBSET Job, manifest : Manifest \cup {NoManifest}]
Empty == [has |-> {}, half |-> {}, manifest |-> NoManifest]
There == files.has \cup files.half

Mounted == "mount" \in wired /\ pvc # "absent"
Seeded  == Mounted /\ "project" \in There            \* {checkout}/pyproject.toml
Reached == seat /\ Mounted                          \* PodStore: the claim, through the seat
Holders == (IF "volume" \in wired THEN {"pod"} ELSE {}) \cup (IF spare THEN {"spare"} ELSE {})

Asked == [repo : {"none", "own"}, install : BOOLEAN, delete : BOOLEAN, image : 1..2]

Stage == {"idle", "land", "gate", "look", "copy", "interp", "git", "install", "write",
          "manifest", "claim", "holders", "delete", "await"}

(* What retire has read: the pod's wiring, whether the manifest tells of     *)
(* another image, and what is known of the claim.                            *)
ClaimState == [present : {"yes", "no", "unmeasured"}, deleted : BOOLEAN]
Reading == [wired : SUBSET Part, moved : {"yes", "no", "unmeasured"}, claim : ClaimState]
NothingRead == [wired |-> {}, moved |-> "unmeasured",
                claim |-> [present |-> "unmeasured", deleted |-> FALSE]]

(* The rows of hotfix check; how a command ends, and at what.                *)
Row == {"claim", "supervisor", "source", "seat", "root", "project", "interpreter"}
Check == [fail : SUBSET Row, warn : SUBSET Row]
Outcome == {"none", "done", "refused", "failed", "retire"}
Reason == Row \cup {"", "clone", "install", "write", "call", "yes", "no", "unmeasured"}

-----------------------------------------------------------------------------
(* hotfix check: every prerequisite in one pass.  A row is a name; fail is   *)
(* what stands between the target and init, warn what was not measured or    *)
(* does not stop it.                                                         *)

SeedRowsAsked(root) ==     \* mistaken: asked of a seeded claim too
  [fail |-> (IF seat /\ ~root THEN {"root"} ELSE {})
              \cup (IF "interp" \in image.ships THEN {} ELSE {"interpreter"}), warn |-> {}]

SeedRows(root) ==          \* _seed_checks: asked of an unseeded claim only
  IF Seeded THEN [fail |-> {}, warn |-> {}]
  ELSE [fail |-> (IF seat /\ ~root THEN {"root"} ELSE {})
                   \cup (IF "project" \in image.ships THEN {} ELSE {"project"})
                   \cup (IF "interp" \in image.ships THEN {} ELSE {"interpreter"}),
        warn |-> IF seat THEN {} ELSE {"root"}]

SourceFails(repo) == repo = "none" /\ image.labels = "none"
SourceWarns(repo) == repo = "none" /\ image.labels # "none" /\ ~image.named

Preflight(repo) ==
  LET seed == SeedRows(rooted)
  IN [fail |-> (IF Mounted THEN {} ELSE {"claim"})
                 \cup (IF "supervisor" \in wired THEN {} ELSE {"supervisor"})
                 \cup seed.fail
                 \cup (IF SourceFails(repo) THEN {"source"} ELSE {}),
      warn |-> seed.warn \cup (IF seat THEN {} ELSE {"seat"})
                 \cup (IF SourceWarns(repo) THEN {"source"} ELSE {})]

-----------------------------------------------------------------------------
Init ==
  /\ image \in Images /\ image.id = 1
  /\ wired \in {Part, {"volume", "mount"}, {}}
  /\ spare = FALSE /\ seat = FALSE
  /\ rooted \in BOOLEAN
  /\ pvc = "bound"
  /\ files = Empty
  /\ detached = <<>>
  /\ deploys = 0 /\ faults = 0 /\ overlapped = FALSE
  /\ pc = [u \in Users |-> "idle"]
  /\ calls = [u \in Users |-> 0]
  /\ asked = [u \in Users |-> [repo |-> "none", install |-> TRUE, delete |-> FALSE, image |-> 1]]
  /\ todo = [u \in Users |-> <<>>]
  /\ foretold = [u \in Users |-> [fail |-> {}, warn |-> {}]]
  /\ steady = [u \in Users |-> FALSE]
  /\ held = [u \in Users |-> NothingRead]
  /\ outcome = [u \in Users |-> <<"none", "">>]

(* Nothing another command's history rests on has been changed by u. *)
Quietly(u) == UNCHANGED steady
Changes(u) == steady' = [v \in Users |-> steady[v] /\ v = u]
Upsets     == steady' = [v \in Users |-> FALSE]

Goto(u, stage) == pc' = [pc EXCEPT ![u] = stage] /\ UNCHANGED outcome
Return(u, how, why) == /\ pc' = [pc EXCEPT ![u] = "idle"]
                       /\ outcome' = [outcome EXCEPT ![u] = <<how, why>>]

-----------------------------------------------------------------------------
(* The deployment, which others change. *)

(* A copied venv is not a rebuilt one. *)
Stale(jobs) == IF "venv" \in jobs THEN {"sync"} ELSE {}

Put(job) == files' = [files EXCEPT !.has = (@ \ Stale({job})) \cup {job}, !.half = @ \ {job}]

(* Jobs that end early, some of them before they have begun. *)
Halved(jobs) == [files EXCEPT !.has = @ \ (jobs \cup Stale(jobs)), !.half = @ \cup jobs]
Cut(jobs) == \E begun \in SUBSET jobs : jobs \cap {"source"} \subseteq begun /\ files' = Halved(begun)

First(jobs) == IF jobs = <<>> THEN {} ELSE {Head(jobs)}

(* What an init has given the pod to do: nothing is left of todo but in a    *)
(* copy, and uv is run on a project, with an interpreter, whole or not.      *)
UvRuns == Reached /\ {"project", "interp"} \subseteq There

Working(u) == IF pc[u] = "interp" /\ seat THEN Entry("interp")
              ELSE IF pc[u] = "install" /\ UvRuns THEN <<"sync">>
              ELSE todo[u]

(* Another pod takes the place of the target's: its seats are gone, and what *)
(* worked in it is cut short.                                                *)
Replaced ==
  /\ seat' = FALSE /\ detached' = <<>>
  /\ Cut(First(detached) \cup UNION {First(Working(u)) : u \in Users})
  /\ LET working == {u \in Users : pc[u] \in {"copy", "interp", "install"}}
     IN /\ pc' = [u \in Users |-> IF u \in working THEN "idle" ELSE pc[u]]
        /\ outcome' = [u \in Users |-> IF u \in working THEN <<"failed", "call">> ELSE outcome[u]]
        /\ todo' = [u \in Users |-> <<>>]

Deploy ==
  /\ deploys < MaxDeploys
  /\ deploys' = deploys + 1
  /\ \/ /\ \E w \in {Part, {}} : wired' = w /\ w # wired
        /\ Replaced /\ UNCHANGED <<image, spare>>
     \/ /\ image' = [image EXCEPT !.id = 2] /\ image.id = 1
        /\ Replaced /\ UNCHANGED <<wired, spare>>
     \/ /\ spare' = ~spare               \* the other pod comes or goes
        /\ UNCHANGED <<image, wired, seat, files, detached, pc, outcome, todo>>
  /\ Upsets
  /\ UNCHANGED <<rooted, pvc, faults, overlapped, calls, asked, foretold, held>>

(* Kubernetes' protection: a claim asked to go does so once nobody mounts it. *)
Finalise ==
  /\ pvc = "terminating" /\ Holders = {}
  /\ pvc' = "absent" /\ files' = Empty
  /\ detached' = <<>>
  /\ Upsets
  /\ UNCHANGED <<image, wired, spare, seat, rooted, deploys, faults, overlapped, commands>>

(* Work whose call was given up goes on. *)
CopyGoesOn ==
  /\ detached # <<>> /\ Mounted
  /\ Put(Head(detached))
  /\ detached' = Tail(detached)
  /\ Upsets
  /\ UNCHANGED <<cluster, deploys, faults, overlapped, commands>>

-----------------------------------------------------------------------------
(* hotfix init. *)

Initing == {"land", "gate", "look", "copy", "interp", "git", "install", "write"}

BeginInit(u) ==
  /\ pc[u] = "idle" /\ calls[u] < MaxCalls
  /\ calls' = [calls EXCEPT ![u] = @ + 1]
  /\ \E repo \in {"none", "own"}, install \in BOOLEAN :
       /\ asked' = [asked EXCEPT ![u] = [repo |-> repo, install |-> install, delete |-> FALSE,
                                         image |-> image.id]]
       /\ foretold' = [foretold EXCEPT ![u] = Preflight(repo)]
  /\ steady' = [steady EXCEPT ![u] = TRUE]
  /\ overlapped' = (overlapped \/ detached # <<>> \/ \E v \in Users : pc[v] \in Initing)
  /\ Goto(u, "land")
  /\ UNCHANGED <<cluster, files, detached, deploys, faults, todo, held>>

(* seat_container, land=True: the seat that runs, or one is attached. *)
Land(u) ==
  /\ pc[u] = "land"
  /\ seat' = TRUE
  /\ Goto(u, "gate")
  /\ Quietly(u)
  /\ UNCHANGED <<image, wired, spare, rooted, pvc, files, detached, deploys, faults, overlapped,
                 calls, asked, todo, foretold, held>>

(* require_supervisor, the mount and the repository, before anything is      *)
(* copied.  In a pod that is gone, or in one whose seat is, nothing is there. *)
Gate(u) ==
  /\ pc[u] = "gate"
  /\ \/ /\ "supervisor" \notin wired \/ ~seat
        /\ Return(u, "refused", "supervisor")
     \/ /\ "supervisor" \in wired /\ ~Reached
        /\ Return(u, "refused", "claim")
     \/ /\ "supervisor" \in wired /\ Reached
        /\ IF SourceFails(asked[u].repo) THEN Return(u, "refused", "source") ELSE Goto(u, "look")
  /\ Quietly(u)
  /\ UNCHANGED <<cluster, files, detached, deploys, faults, overlapped,
                 calls, asked, todo, foretold, held>>

(* pyproject.toml is what makes a claim seeded.  A project that is missing   *)
(* through the seat's view of the root is asked about twice.                 *)
Look(u) ==
  /\ pc[u] = "look"
  /\ \/ seat /\ Seeded /\ Goto(u, "git") /\ UNCHANGED todo
     \/ /\ seat /\ ~Seeded /\ rooted /\ "project" \in image.ships
        /\ todo' = [todo EXCEPT ![u] = Entries]
        /\ Goto(u, "copy")
     \/ /\ ~seat \/ (~Seeded /\ ~rooted)
        /\ Return(u, "refused", "root") /\ UNCHANGED todo
     \/ /\ seat /\ ~Seeded /\ rooted /\ "project" \notin image.ships
        /\ Return(u, "refused", "project") /\ UNCHANGED todo
  /\ Quietly(u)
  /\ UNCHANGED <<cluster, files, detached, deploys, faults, overlapped,
                 calls, asked, foretold, held>>

(* cp -a of the project's entries, one after another.                        *)
CopyEntry(u) ==
  /\ pc[u] = "copy" /\ todo[u] # <<>>
  /\ \/ /\ Mounted
        /\ Put(Head(todo[u]))
        /\ todo' = [todo EXCEPT ![u] = Tail(@)]
        /\ UNCHANGED <<pc, outcome>>
     \/ /\ ~Mounted
        /\ todo' = [todo EXCEPT ![u] = <<>>]
        /\ Return(u, "failed", "call")
        /\ UNCHANGED files
  /\ Changes(u)
  /\ UNCHANGED <<cluster, detached, deploys, faults, overlapped, calls, asked, foretold, held>>

Copied(u) ==
  /\ pc[u] = "copy"
  /\ todo[u] = <<>>
  /\ Goto(u, "interp")
  /\ Quietly(u)
  /\ UNCHANGED <<cluster, files, detached, deploys, faults, overlapped,
                 calls, asked, todo, foretold, held>>

CopyInterpreter(u) ==
  /\ pc[u] = "interp"
  /\ \/ /\ "interp" \in image.ships /\ Reached
        /\ Put("interp")
        /\ Goto(u, "git")
     \/ /\ "interp" \notin image.ships \/ ~Reached
        /\ Return(u, "failed", "interpreter")
        /\ UNCHANGED files
  /\ Changes(u)
  /\ UNCHANGED <<cluster, detached, deploys, faults, overlapped,
                 calls, asked, todo, foretold, held>>

(* The checkout that was seeded, or git clone to the same directory, which   *)
(* git refuses: a claim that was seeded is not empty.  In a seat without the *)
(* claim the clone is the seat's own.                                        *)
Checkout(u) ==
  /\ pc[u] = "git"
  /\ \/ /\ seat /\ (Mounted => "git" \in There)
        /\ Goto(u, IF asked[u].install THEN "install" ELSE "write")
     \/ /\ Reached => "git" \notin files.has
        /\ Return(u, "failed", "clone")
  /\ Quietly(u)
  /\ UNCHANGED <<cluster, files, detached, deploys, faults, overlapped,
                 calls, asked, todo, foretold, held>>

(* seeded_python, through the seat, takes the first */bin/python3 it finds,  *)
(* of an interpreter that was copied in part too; uv sync, in the            *)
(* application container, makes what it can of such a claim.                 *)
InstallAnyPython(u) ==             \* mistaken: whatever python uv finds
  /\ pc[u] = "install"
  /\ Reached /\ {"project", "source"} \subseteq There
  /\ Put("sync")
  /\ Goto(u, "write")
  /\ Changes(u)
  /\ UNCHANGED <<cluster, detached, deploys, faults, overlapped,
                 calls, asked, todo, foretold, held>>

Install(u) ==
  /\ pc[u] = "install"
  /\ \/ /\ UvRuns /\ "source" \in There
        /\ Put("sync")
        /\ Goto(u, "write")
     \/ /\ ~(Reached /\ {"project", "source", "interp"} \subseteq files.has)
        /\ Return(u, "failed", "install")
        /\ IF UvRuns THEN Cut({"sync"}) ELSE UNCHANGED files
  /\ Changes(u)
  /\ UNCHANGED <<cluster, detached, deploys, faults, overlapped,
                 calls, asked, todo, foretold, held>>

(* corroborate_source: --repo, else the seeded checkout's origin, if it can  *)
(* be read, else the label, which is believed when one of the first two      *)
(* names the same.                                                           *)
Source(repo, origin) == IF repo = "own" \/ origin THEN "own" ELSE image.labels
Corroborated(repo, origin) == image.labels # "none" /\ image.labels = Source(repo, origin)
                              /\ (repo = "own" \/ origin)

(* base_commit_from: without --base-commit, the label's revision if it is    *)
(* corroborated and the checkout has it, else HEAD, assumed.                 *)
Assumed(repo, origin, has) == ~(Corroborated(repo, origin) /\ has)

(* The manifest comes last, of the image that was read first; the claim is   *)
(* not asked about again, and a seat without it keeps the file itself.       *)
Write(u) ==
  /\ pc[u] = "write"
  /\ \/ /\ Reached
        /\ \E has \in BOOLEAN,        \* _has_commit of the label's revision
              origin \in {"git" \in files.has, "git" \in There} :
             files' = [files EXCEPT !.manifest =
                         [image |-> asked[u].image, repo |-> Source(asked[u].repo, origin),
                          assumed |-> Assumed(asked[u].repo, origin, has),
                          installed |-> asked[u].install]]
        /\ Return(u, "done", "")
     \/ /\ ~Reached
        /\ Return(u, "failed", "write") \/ (seat /\ Return(u, "done", ""))
        /\ UNCHANGED files
  /\ Changes(u)
  /\ UNCHANGED <<cluster, detached, deploys, faults, overlapped,
                 calls, asked, todo, foretold, held>>

(* Any call may fail, what it was doing cut short, or be given up after      *)
(* POD_WORK_TIMEOUT while the pod goes on with it.                           *)
InitFails(u) ==
  /\ pc[u] \in Initing
  /\ faults < MaxFaults
  /\ faults' = faults + 1
  /\ \/ Cut(First(Working(u))) /\ UNCHANGED detached
     \/ detached' = detached \o Working(u) /\ UNCHANGED files
  /\ todo' = [todo EXCEPT ![u] = <<>>]
  /\ Return(u, "failed", "call")
  /\ Upsets
  /\ UNCHANGED <<cluster, deploys, overlapped, calls, asked, foretold, held>>

-----------------------------------------------------------------------------
(* hotfix retire. *)

Retiring == {"manifest", "claim", "holders", "delete", "await"}

(* _resolve_target: one reading of the pod, which every row is about. *)
BeginRetire(u) ==
  /\ pc[u] = "idle" /\ calls[u] < MaxCalls
  /\ calls' = [calls EXCEPT ![u] = @ + 1]
  /\ \E delete \in BOOLEAN :
       asked' = [asked EXCEPT ![u] = [repo |-> "none", install |-> FALSE, delete |-> delete,
                                      image |-> image.id]]
  /\ held' = [held EXCEPT ![u] = [NothingRead EXCEPT !.wired = wired]]
  /\ steady' = [steady EXCEPT ![u] = TRUE]
  /\ Goto(u, "manifest")
  /\ UNCHANGED <<cluster, files, detached, deploys, faults, overlapped, todo, foretold>>

(* The manifest, through the mounting container if there was one, and the    *)
(* digest it is compared with; an answer that cannot be read is no answer.   *)
ReadManifest(u) ==
  /\ pc[u] = "manifest"
  /\ \E moved \in {"yes", "no", "unmeasured"} :
       /\ moved # "unmeasured" => /\ "mount" \in held[u].wired /\ Mounted
                                  /\ files.manifest # NoManifest
                                  /\ (moved = "yes") = (files.manifest.image # asked[u].image)
       /\ held' = [held EXCEPT ![u].moved = moved]
  /\ Goto(u, "claim")
  /\ Quietly(u)
  /\ UNCHANGED <<cluster, files, detached, deploys, faults, overlapped,
                 calls, asked, todo, foretold>>

(* claim_state: by the name in the pod's volume a 404 is an answer; by the   *)
(* label only a claim that is found is one, and never a refusal.             *)
ClaimAbsentUnread(u) == "volume" \in held[u].wired    \* mistaken: any refusal is read as a 404
ClaimAbsent(u) == pvc = "absent" /\ "volume" \in held[u].wired

ReadClaim(u) ==
  /\ pc[u] = "claim"
  /\ \E present \in {"yes", "no", "unmeasured"} :
       /\ present = "yes" => pvc # "absent"
       /\ present = "no" => ClaimAbsent(u)
       /\ held' = [held EXCEPT ![u].claim.present = present]
       /\ IF asked[u].delete /\ present = "yes" THEN Goto(u, "holders")
          ELSE Return(u, "retire", present)
  /\ Quietly(u)
  /\ UNCHANGED <<cluster, files, detached, deploys, faults, overlapped,
                 calls, asked, todo, foretold>>

(* _pods_mounting: every pod of the namespace, under any volume name; a list *)
(* that cannot be read declines the deletion.                                *)
MountingByName == IF "volume" \in wired THEN {"pod"} ELSE {}     \* mistaken: by podbench's volume name
Mounting == Holders

AskHolders(u) ==
  /\ pc[u] = "holders"
  /\ \/ Mounting = {} /\ Goto(u, "delete")
     \/ Return(u, "retire", "yes")
  /\ Quietly(u)
  /\ UNCHANGED <<cluster, files, detached, deploys, faults, overlapped,
                 calls, asked, todo, foretold, held>>

(* kubectl delete pvc, and its wait for the claim to be gone. *)
Delete(u) ==
  /\ pc[u] = "delete"
  /\ pvc' = IF pvc = "bound" THEN "terminating" ELSE pvc
  /\ Goto(u, "await")
  /\ Changes(u)
  /\ UNCHANGED <<image, wired, spare, seat, rooted, files, detached, deploys, faults, overlapped,
                 calls, asked, todo, foretold, held>>

Deleted(u) ==
  /\ pc[u] = "await"
  /\ pvc = "absent"
  /\ held' = [held EXCEPT ![u].claim = [present |-> "no", deleted |-> TRUE]]
  /\ Return(u, "retire", "no")
  /\ Quietly(u)
  /\ UNCHANGED <<cluster, files, detached, deploys, faults, overlapped,
                 calls, asked, todo, foretold>>

RetireFails(u) ==
  /\ pc[u] \in Retiring
  /\ faults < MaxFaults
  /\ faults' = faults + 1
  /\ Return(u, "failed", "call")
  /\ Upsets
  /\ UNCHANGED <<cluster, files, detached, deploys, overlapped, calls, asked, todo, foretold, held>>

-----------------------------------------------------------------------------
(* The report: image, wiring and claim, each done, not done or unmeasured.   *)
Step(done, outstanding) == IF done THEN "done" ELSE IF outstanding THEN "remains" ELSE "unmeasured"

Retirement(r) ==
  LET gone == r.claim.present = "no"
  IN [image  |-> IF r.wired = {} /\ gone THEN "unmeasured"
                 ELSE Step(r.moved = "yes", r.moved = "no"),
      wiring |-> Step(r.wired = {}, r.wired # {}),
      claim  |-> Step(gone, r.claim.present = "yes")]

Next ==
  \/ Deploy \/ Finalise \/ CopyGoesOn
  \/ \E u \in Users :
       \/ BeginInit(u) \/ Land(u) \/ Gate(u) \/ Look(u) \/ CopyEntry(u) \/ Copied(u)
       \/ CopyInterpreter(u) \/ Checkout(u) \/ Install(u) \/ Write(u) \/ InitFails(u)
       \/ BeginRetire(u) \/ ReadManifest(u) \/ ReadClaim(u) \/ AskHolders(u) \/ Delete(u)
       \/ Deleted(u) \/ RetireFails(u)

Spec == Init /\ [][Next]_vars

-----------------------------------------------------------------------------
(* The state has its types: proved in HotfixClaimProofs.                      *)
TypeOK ==
  /\ image \in Image /\ wired \subseteq Part
  /\ spare \in BOOLEAN /\ seat \in BOOLEAN /\ rooted \in BOOLEAN
  /\ pvc \in {"bound", "terminating", "absent"}
  /\ files \in Files
  /\ detached \in Seq(Job)
  /\ deploys \in Nat /\ faults \in Nat /\ overlapped \in BOOLEAN
  /\ pc \in [Users -> Stage] /\ calls \in [Users -> Nat] /\ asked \in [Users -> Asked]
  /\ todo \in [Users -> Seq(Item)]
  /\ steady \in [Users -> BOOLEAN]
  /\ held \in [Users -> Reading]
  /\ foretold \in [Users -> Check]
  /\ outcome \in [Users -> Outcome \X Reason]

Ended(u, how) == pc[u] = "idle" /\ steady[u] /\ outcome[u][1] = how

(* check says init's refusals, earlier: what init refuses on a target that   *)
(* nobody has changed meanwhile had failed, or was said not to be measured,  *)
(* in the check; and a target that failed the check is not initialised.      *)
CheckForetellsInit ==
  \A u \in Users :
     /\ Ended(u, "refused") => outcome[u][2] \in foretold[u].fail \cup foretold[u].warn
     /\ Ended(u, "done") => foretold[u].fail = {}

(* A manifest is written last, so a claim that has one, of an init that      *)
(* rebuilt the venv, holds every part of the project, its interpreter and    *)
(* the venv that names it: whole, but for what a call that was cut short     *)
(* left in part, which a later init does not copy again - and whatever other *)
(* init failed, was given up and copies on, or began on half a claim.        *)
Parts == {"project", "source", "interp", "git", "sync"}

ManifestedClaimHasItsParts ==
  files.manifest # NoManifest /\ files.manifest.installed /\ ~overlapped => Parts \subseteq There

(* A base commit that is not marked as assumed is the application's: never   *)
(* a revision label inherited from the base image.                           *)
MeasuredBaseIsOwn ==
  files.manifest # NoManifest /\ ~files.manifest.assumed => image.labels = "own"

(* What a manifest says of its claim is so (write_manifest).                 *)
ManifestIsTrue == ManifestedClaimHasItsParts /\ MeasuredBaseIsOwn

(* A claim that carries a project is seeded: what the seed copies need not   *)
(* be looked at any more (hotfix.py 4590), so one that an init has gone on   *)
(* to install on and vouch for is whole.  The code does not keep it.         *)
SeededClaimIsWhole ==
  files.manifest # NoManifest /\ files.manifest.installed /\ ~overlapped =>
     {"project", "source", "interp", "git"} \subseteq files.has

(* A retirement that lies is worse than the checklist it replaces: a claim   *)
(* reported gone is gone, one reported deleted too, and wiring reported out  *)
(* of a pod nobody has changed since is out.                                 *)
RetirementIsTrue ==
  \A u \in Users : pc[u] = "idle" /\ outcome[u][1] = "retire" =>
     /\ Retirement(held[u]).claim = "done" => pvc = "absent"
     /\ steady[u] /\ Retirement(held[u]).wiring = "done" => wired = {}

(* _delete_claim asks about the namespace and not about the target: as long  *)
(* as nobody has changed anything since it looked, the claim it asks         *)
(* Kubernetes to delete is mounted by no pod.                                *)
DeleteSparesTheMounted ==
  [][pvc = "bound" /\ pvc' = "terminating" =>
       Holders = {} \/ \E u \in Users : pc[u] = "delete" /\ ~steady[u]]_vars

=============================================================================

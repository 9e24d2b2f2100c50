-------------------------- MODULE CapReportProofs ---------------------------
(***************************************************************************)
(* What holds of the probe in every pod, for any number of seats that      *)
(* probe it at once, of processes and of faults: the types, that the       *)
(* workload is not left stopped unsaid, that a mechanism that is named did *)
(* refuse, and that the verdict, and the row a listing makes of it, are    *)
(* the kernel's.                                                           *)
(***************************************************************************)
EXTENDS CapReport, TLAPS

(* A probe by where it is and what it has measured.                        *)
SameReading(n, m) == /\ n.uid = m.uid /\ n.gid = m.gid /\ n.tracer = m.tracer
                     /\ n.reads = m.reads /\ n.matrix = m.matrix
SameTrial(n, m)   == n.child = m.child /\ n.attach = m.attach
SameAnswer(n, m)  == n.verdict = m.verdict /\ n.blocker = m.blocker

(* What a probe can add to what it has, each named, so that a step is one  *)
(* of them and a move.                                                     *)
Settling(m, x)      == [m EXCEPT !.pid = x]
Reading(m, x, y, z) == [m EXCEPT !.uid = x, !.gid = y, !.tracer = z]
Opening(m, x)       == [m EXCEPT !.reads = x, !.matrix = TRUE]
Trying(m, x, y)     == [m EXCEPT !.child = x, !.attach = y]
Attaching(m, x)     == [m EXCEPT !.attach = x]
Warning(m)          == [m EXCEPT !.warned = TRUE]
Answering(m, x, y)  == [m EXCEPT !.verdict = x, !.blocker = y]
Outcome == {"none", "ok", "denied", "skipped"}

LEMMA SettlingTypes ==
  ASSUME NEW m \in Measured, NEW x \in Procs \cup {NoPid}
  PROVE  LET n == Settling(m, x)
         IN /\ n \in Measured /\ n.pid = x /\ SameReading(n, m) /\ SameTrial(n, m)
            /\ SameAnswer(n, m) /\ n.warned = m.warned
  BY DEF Settling, Measured, SameReading, SameTrial, SameAnswer

LEMMA ReadingTypes ==
  ASSUME NEW m \in Measured, NEW x \in Nat \cup {Unread}, NEW y \in Nat \cup {Unread},
         NEW z \in BOOLEAN
  PROVE  LET n == Reading(m, x, y, z)
         IN /\ n \in Measured /\ n.uid = x /\ n.gid = y /\ n.tracer = z /\ n.reads = m.reads
            /\ n.pid = m.pid /\ SameTrial(n, m) /\ SameAnswer(n, m) /\ n.warned = m.warned
<1> DEFINE n == [m EXCEPT !.uid = x, !.gid = y, !.tracer = z]
<1>1. n \in Measured
  <2>1. \A f \in Measured : /\ [f EXCEPT !.uid = x] \in Measured
                           /\ [f EXCEPT !.gid = y] \in Measured
    BY DEF Measured
  <2>2. \A f \in Measured : [f EXCEPT !.tracer = z] \in Measured
    BY DEF Measured
  <2>3. n = [[[m EXCEPT !.uid = x] EXCEPT !.gid = y] EXCEPT !.tracer = z]
    OBVIOUS
  <2> QED
    BY <2>1, <2>2, <2>3
<1>2. /\ n.uid = x /\ n.gid = y /\ n.tracer = z /\ n.reads = m.reads
      /\ n.pid = m.pid /\ n.warned = m.warned
  BY DEF Measured
<1>3. SameTrial(n, m) /\ SameAnswer(n, m)
  BY DEF Measured, SameTrial, SameAnswer
<1> QED
  BY <1>1, <1>2, <1>3 DEF Reading

LEMMA OpeningTypes ==
  ASSUME NEW m \in Measured, NEW x \in SUBSET (PTRACE_READ_PATHS \cup WORLD_READ_PATHS)
  PROVE  LET n == Opening(m, x)
         IN /\ n \in Measured /\ n.uid = m.uid /\ n.gid = m.gid /\ n.tracer = m.tracer
            /\ n.reads = x
            /\ n.pid = m.pid /\ SameTrial(n, m) /\ SameAnswer(n, m) /\ n.warned = m.warned
  BY DEF Opening, Measured, SameTrial, SameAnswer

LEMMA TryingTypes ==
  ASSUME NEW m \in Measured, NEW x \in Outcome, NEW y \in Outcome
  PROVE  LET n == Trying(m, x, y)
         IN /\ n \in Measured /\ n.child = x /\ n.attach = y
            /\ n.pid = m.pid /\ SameReading(n, m) /\ SameAnswer(n, m) /\ n.warned = m.warned
  BY DEF Trying, Outcome, Measured, SameReading, SameAnswer

LEMMA AttachingTypes ==
  ASSUME NEW m \in Measured, NEW x \in Outcome
  PROVE  LET n == Attaching(m, x)
         IN /\ n \in Measured /\ n.child = m.child /\ n.attach = x
            /\ n.pid = m.pid /\ SameReading(n, m) /\ SameAnswer(n, m) /\ n.warned = m.warned
  BY DEF Attaching, Outcome, Measured, SameReading, SameAnswer

LEMMA WarningTypes ==
  ASSUME NEW m \in Measured
  PROVE  LET n == Warning(m)
         IN /\ n \in Measured /\ n.warned
            /\ n.pid = m.pid /\ SameReading(n, m) /\ SameTrial(n, m) /\ SameAnswer(n, m)
  BY DEF Warning, Measured, SameReading, SameTrial, SameAnswer

LEMMA AnsweringTypes ==
  ASSUME NEW m \in Measured, NEW x \in Verdicts, NEW y \in Mechanism \cup {"none"}
  PROVE  LET n == Answering(m, x, y)
         IN /\ n \in Measured /\ n.verdict = x /\ n.blocker = y
            /\ n.pid = m.pid /\ SameReading(n, m) /\ SameTrial(n, m) /\ n.warned = m.warned
  BY DEF Answering, Measured, SameReading, SameTrial

LEMMA Moved ==
  ASSUME probe \in [Seats -> Measured], NEW s \in Seats, NEW m \in Measured, NEW st \in Stage,
         Move(s, st, m)
  PROVE  /\ probe' \in [Seats -> Measured]
         /\ probe'[s].pc = st /\ probe'[s].pid = m.pid /\ probe'[s].warned = m.warned
         /\ SameReading(probe'[s], m) /\ SameTrial(probe'[s], m) /\ SameAnswer(probe'[s], m)
         /\ \A t \in Seats \ {s} : probe'[t] = probe[t]
<1>1. [m EXCEPT !.pc = st] \in Measured
  BY DEF Measured
<1>2. LET n == [m EXCEPT !.pc = st]
      IN /\ n.pc = st /\ n.pid = m.pid /\ n.warned = m.warned
         /\ SameReading(n, m) /\ SameTrial(n, m) /\ SameAnswer(n, m)
  BY DEF Measured, SameReading, SameTrial, SameAnswer
<1>3. probe' = [probe EXCEPT ![s] = [m EXCEPT !.pc = st]]
  BY DEF Move
<1>4. probe'[s] = [m EXCEPT !.pc = st]
  BY <1>3
<1> QED
  BY <1>1, <1>2, <1>3, <1>4

-----------------------------------------------------------------------------
(* The kernel: what stands in the way of a seat but a tracer.              *)

Prober == DOMAIN scene.seats

Hindered(s, p) == \/ UidRefuses(s, p) \/ GidRefuses(s, p) \/ YamaRefuses(s, FALSE)
                  \/ LsmRefuses \/ FilterRefuses

LEMMA AttachAllowed ==
  ASSUME NEW s, NEW p
  PROVE  /\ MayAttach(s, p) <=> /\ proc[p].state = "run" /\ ~Hindered(s, p)
                                /\ proc[p].tracer = "none"
         /\ ~MayTraceChild(s) => Hindered(s, p)
  BY DEF MayAttach, Hindered, Refusers, MayTraceChild, YamaRefuses

LEMMA SceneStays ==
  ASSUME scene' = scene, NEW s, NEW p
  PROVE  /\ Hindered(s, p)' <=> Hindered(s, p)
         /\ MayTraceChild(s)' <=> MayTraceChild(s)
         /\ UidRefuses(s, p)' <=> UidRefuses(s, p)
         /\ GidRefuses(s, p)' <=> GidRefuses(s, p)
         /\ YamaRefuses(s, FALSE)' <=> YamaRefuses(s, FALSE)
         /\ LsmRefuses' <=> LsmRefuses
         /\ Seat(s)' = Seat(s)
         /\ proc'[p].state = proc[p].state => MayRead(s, p)' = MayRead(s, p)
<1>1. /\ UidRefuses(s, p)' <=> UidRefuses(s, p)
      /\ GidRefuses(s, p)' <=> GidRefuses(s, p)
  BY DEF UidRefuses, GidRefuses, Seat
<1>2. /\ YamaRefuses(s, FALSE)' <=> YamaRefuses(s, FALSE)
      /\ YamaRefuses(s, TRUE)' <=> YamaRefuses(s, TRUE)
  BY DEF YamaRefuses, Seat
<1>3. (LsmRefuses' <=> LsmRefuses) /\ (FilterRefuses' <=> FilterRefuses) /\ Seat(s)' = Seat(s)
  BY DEF LsmRefuses, FilterRefuses, Seat
<1>4. CredentialsMatch(s, p)' <=> CredentialsMatch(s, p)
  BY <1>1 DEF CredentialsMatch
<1>5. proc'[p].state = proc[p].state => MayRead(s, p)' = MayRead(s, p)
  BY <1>4 DEF MayRead
<1> QED
  BY <1>1, <1>2, <1>3, <1>5 DEF Hindered, MayTraceChild

(* What the probe has noted of the mechanisms that stand in its way.       *)
Met(s, p) ==
  /\ UidRefuses(s, p) => "uid-mismatch" \in refused[s]
  /\ GidRefuses(s, p) => "gid-mismatch" \in refused[s]
  /\ YamaRefuses(s, FALSE) => "yama-scope" \in refused[s]
  /\ LsmRefuses => "lsm-mismatch" \in refused[s]

LEMMA Noting ==
  ASSUME refused \in [Seats -> SUBSET Mechanism], NEW s \in Seats, NEW p, Notes(s, p), scene' = scene
  PROVE  /\ refused' \in [Seats -> SUBSET Mechanism]
         /\ refused[s] \subseteq refused'[s]
         /\ \A t \in Seats \ {s} : refused'[t] = refused[t]
         /\ Met(s, p)'
         /\ proc[p].tracer # "none" => "already-traced" \in refused'[s]
<1>1. Refusers(s, p) \subseteq Mechanism
  BY DEF Refusers, Mechanism
<1>2. refused' = [refused EXCEPT ![s] = refused[s] \cup Refusers(s, p)]
  BY DEF Notes
<1>3. refused'[s] = refused[s] \cup Refusers(s, p)
  BY <1>2
<1>4. /\ UidRefuses(s, p) => "uid-mismatch" \in Refusers(s, p)
      /\ GidRefuses(s, p) => "gid-mismatch" \in Refusers(s, p)
      /\ YamaRefuses(s, FALSE) => "yama-scope" \in Refusers(s, p)
      /\ LsmRefuses => "lsm-mismatch" \in Refusers(s, p)
      /\ proc[p].tracer # "none" => "already-traced" \in Refusers(s, p)
  BY DEF Refusers
<1>5. Met(s, p)'
  BY <1>3, <1>4, SceneStays DEF Met
<1> QED
  BY <1>1, <1>2, <1>3, <1>4, <1>5

LEMMA ReadTypes ==
  ASSUME proc \in [Procs -> Process], NEW s, NEW p \in Procs
  PROVE  MayRead(s, p) \subseteq PTRACE_READ_PATHS \cup WORLD_READ_PATHS
<1>1. proc[p].state \in {"run", "zombie", "gone"}
  BY DEF Process
<1> QED
  BY <1>1 DEF MayRead, PTRACE_READ_PATHS, WORLD_READ_PATHS

LEMMA AnswerTypes ==
  ASSUME NEW s, NEW m
  PROVE  derive_verdict(s, m).verdict \in Verdicts
         /\ derive_verdict(s, m).blocker \in Mechanism \cup {"none"}
<1>1. _classify_denial(s, m) \in Mechanism
  BY DEF _classify_denial, WithoutCap, Mechanism
<1>2. _classify_structural(s) \in Mechanism
  BY DEF _classify_structural, Mechanism
<1> QED
  BY <1>1, <1>2 DEF derive_verdict, Verdicts

LEMMA BlankTypes == Blank \in Measured /\ "discover" \in Stage
  BY DEF Blank, Measured, Stage, Verdicts

-----------------------------------------------------------------------------
(* What each step of a probe measures.                                     *)

Tracing == {"seized", "stopping", "undetached"}
Past == {"matrix", "scratch", "seize", "attach", "report", "done"} \cup Tracing

(* Where a probe may be with what it has.                                  *)
Fitted(s) ==
  LET m == probe[s]
  IN /\ m.pc \in {"idle", "discover"} => /\ m.pid = NoPid /\ m.child = "none" /\ ~m.warned
     /\ m.pid = NoPid => /\ m.pc \notin {"status", "matrix", "seize", "attach"} \cup Tracing
                         /\ m.reads = {} /\ m.attach = "none"
     /\ m.warned => m.pc \in {"report", "done", "killed"}

ProbeTypes == TypeOK /\ \A s \in Seats : Fitted(s)

Goes(s, st) == /\ probe' \in [Seats -> Measured] /\ probe'[s].pc = st
               /\ \A t \in Seats \ {s} : probe'[t] = probe[t]
Apart(n, m) == n.pid = m.pid /\ n.warned = m.warned

LEMMA Whose ==
  ASSUME ProbeTypes, NEW s \in Prober
  PROVE  /\ s \in Seats /\ probe[s] \in Measured /\ probe \in [Seats -> Measured] /\ Fitted(s)
         /\ probe[s].pid \in Procs \cup {NoPid} /\ IsScene(scene) /\ Seat(s) \in SeatKind
         /\ NoPid \notin Procs
<1>1. IsScene(scene) /\ probe \in [Seats -> Measured] /\ \A t \in Seats : Fitted(t)
  BY DEF ProbeTypes, TypeOK
<1>2. s \in Seats /\ Seat(s) \in SeatKind
  BY <1>1 DEF IsScene, Prober, Seat
<1>3. probe[s] \in Measured /\ Fitted(s)
  BY <1>1, <1>2
<1>4. probe[s].pid \in Procs \cup {NoPid}
  BY <1>3 DEF Measured
<1> QED
  BY <1>1, <1>2, <1>3, <1>4, CapReportAssumption

LEMMA Begins ==
  ASSUME ProbeTypes, NEW s \in Prober, Begin(s)
  PROVE  /\ Goes(s, "discover") /\ probe[s].pc = "idle"
         /\ probe'[s].pid = NoPid /\ probe'[s].reads = {} /\ probe'[s].child = "none"
         /\ probe'[s].attach = "none" /\ ~probe'[s].warned
<1>1. Move(s, "discover", Blank) /\ probe[s].pc = "idle"
  BY DEF Begin
<1>2. /\ Blank.pid = NoPid /\ Blank.reads = {} /\ Blank.child = "none" /\ Blank.attach = "none"
      /\ ~Blank.warned
  BY DEF Blank
<1> QED
  BY <1>1, <1>2, Whose, BlankTypes, Moved DEF Goes, SameReading, SameTrial

LEMMA Discovers ==
  ASSUME ProbeTypes, NEW s \in Prober, discover_target(s)
  PROVE  /\ probe[s].pc = "discover"
         /\ \/ Goes(s, "scratch") /\ probe'[s].pid = NoPid
            \/ Goes(s, "status") /\ probe'[s].pid \in Procs /\ proc[probe'[s].pid].state = "run"
         /\ SameReading(probe'[s], probe[s]) /\ SameTrial(probe'[s], probe[s])
         /\ probe'[s].warned = probe[s].warned
<1>1. PICK x \in Procs \cup {NoPid}, st \in {"scratch", "status"} :
        /\ Move(s, st, [probe[s] EXCEPT !.pid = x])
        /\ \/ st = "scratch" /\ x = NoPid
           \/ st = "status" /\ x \in Procs /\ proc[x].state = "run"
  BY DEF discover_target, debug_candidates, Present
<1> DEFINE n == Settling(probe[s], x)
<1>2. /\ n \in Measured /\ n.pid = x /\ SameReading(n, probe[s]) /\ SameTrial(n, probe[s])
      /\ n.warned = probe[s].warned
  BY Whose, SettlingTypes
<1>3. st \in Stage /\ Move(s, st, n)
  BY <1>1 DEF Stage, Settling
<1> HIDE DEF n
<1>4. Goes(s, st) /\ probe'[s].pid = x
  BY <1>2, <1>3, Whose, Moved DEF Goes
<1>5. /\ SameReading(probe'[s], probe[s]) /\ SameTrial(probe'[s], probe[s])
      /\ probe'[s].warned = probe[s].warned
  BY <1>2, <1>3, Whose, Moved DEF SameReading, SameTrial
<1> QED
  BY <1>1, <1>4, <1>5 DEF discover_target

LEMMA ReadsStatus ==
  ASSUME ProbeTypes, NEW s \in Prober, ReadStatus(s)
  PROVE  /\ probe[s].pc = "status" /\ Goes(s, "matrix") /\ probe[s].pid \in Procs
         /\ Apart(probe'[s], probe[s]) /\ SameTrial(probe'[s], probe[s])
         /\ probe'[s].reads = probe[s].reads
         /\ probe'[s].uid \in {scene.procs[probe[s].pid].uid, Unread}
         /\ probe'[s].gid \in {scene.procs[probe[s].pid].gid, Unread}
         /\ probe'[s].tracer => proc[probe[s].pid].tracer # "none"
         /\ faults' \in Nat
<1> DEFINE p == probe[s].pid
<1>1. probe[s].pc = "status" /\ p \in Procs
  BY Whose DEF ReadStatus, Fitted
<1>2. scene.procs[p].uid \in Nat /\ scene.procs[p].gid \in Nat
  BY <1>1, Whose DEF IsScene, ProcKind
<1>3. PICK x \in {scene.procs[p].uid, Unread}, y \in {scene.procs[p].gid, Unread} :
        /\ Move(s, "matrix", [probe[s] EXCEPT !.uid = x, !.gid = y,
               !.tracer = (proc[p].state # "gone") /\ proc[p].tracer # "none"])
        /\ Fault \/ UNCHANGED faults
  BY DEF ReadStatus
<1>4. PICK z \in BOOLEAN : z = ((proc[p].state # "gone") /\ proc[p].tracer # "none")
  OBVIOUS
<1>a. x \in Nat \cup {Unread} /\ y \in Nat \cup {Unread} /\ probe[s] \in Measured
  BY <1>2, Whose
<1> DEFINE n == Reading(probe[s], x, y, z)
<1>5. /\ n \in Measured /\ n.uid = x /\ n.gid = y /\ n.tracer = z /\ n.reads = probe[s].reads
      /\ n.pid = p /\ SameTrial(n, probe[s]) /\ n.warned = probe[s].warned
  BY <1>a, ReadingTypes
<1>6. Move(s, "matrix", n)
  BY <1>3, <1>4 DEF Reading
<1> HIDE DEF n
<1>7. Goes(s, "matrix") /\ Apart(probe'[s], probe[s]) /\ SameTrial(probe'[s], probe[s])
  BY <1>5, <1>6, Whose, Moved DEF Goes, Apart, SameTrial, Stage
<1>8. probe'[s].uid = x /\ probe'[s].gid = y /\ probe'[s].tracer = z
      /\ probe'[s].reads = probe[s].reads
  BY <1>5, <1>6, Whose, Moved DEF SameReading, Stage
<1>9. faults' \in Nat
  BY <1>3 DEF Fault, ProbeTypes, TypeOK
<1> QED
  BY <1>1, <1>3, <1>4, <1>7, <1>8, <1>9

LEMMA ReadsMatrix ==
  ASSUME ProbeTypes, NEW s \in Prober, proc_read_matrix(s)
  PROVE  /\ probe[s].pc = "matrix" /\ Goes(s, "scratch") /\ probe[s].pid \in Procs
         /\ Apart(probe'[s], probe[s]) /\ SameTrial(probe'[s], probe[s])
         /\ probe'[s].reads = MayRead(s, probe[s].pid) /\ probe'[s].uid = probe[s].uid
         /\ probe'[s].gid = probe[s].gid /\ probe'[s].tracer = probe[s].tracer
<1> DEFINE r == MayRead(s, probe[s].pid)
<1>1. probe[s].pc = "matrix" /\ probe[s].pid \in Procs
  BY Whose DEF proc_read_matrix, Fitted
<1>2. r \in SUBSET (PTRACE_READ_PATHS \cup WORLD_READ_PATHS)
  BY <1>1, ReadTypes DEF ProbeTypes, TypeOK
<1> DEFINE n == Opening(probe[s], r)
<1>3. Move(s, "scratch", n)
  BY DEF proc_read_matrix, Opening
<1> HIDE DEF r
<1>4. /\ n \in Measured /\ n.uid = probe[s].uid /\ n.gid = probe[s].gid
      /\ n.tracer = probe[s].tracer /\ n.reads = r
      /\ n.pid = probe[s].pid /\ SameTrial(n, probe[s]) /\ n.warned = probe[s].warned
  BY <1>2, Whose, OpeningTypes
<1> HIDE DEF n
<1>5. Goes(s, "scratch") /\ Apart(probe'[s], probe[s]) /\ SameTrial(probe'[s], probe[s])
  BY <1>3, <1>4, Whose, Moved DEF Goes, Apart, SameTrial, Stage
<1>6. /\ probe'[s].reads = r /\ probe'[s].uid = probe[s].uid /\ probe'[s].gid = probe[s].gid
      /\ probe'[s].tracer = probe[s].tracer
  BY <1>3, <1>4, Whose, Moved DEF SameReading, Stage
<1> QED
  BY <1>1, <1>5, <1>6 DEF r

LEMMA TracesChild ==
  ASSUME ProbeTypes, NEW s \in Prober, attach_child(s)
  PROVE  /\ probe[s].pc = "scratch"
         /\ Apart(probe'[s], probe[s]) /\ SameReading(probe'[s], probe[s])
         /\ IF probe[s].pid = NoPid \/ ~Seat(s).libc THEN Goes(s, "report") ELSE Goes(s, "seize")
         /\ probe'[s].child = IF ~Seat(s).libc THEN "skipped"
                              ELSE IF MayTraceChild(s) THEN "ok" ELSE "denied"
         /\ probe'[s].attach = IF probe[s].pid # NoPid /\ ~Seat(s).libc THEN "skipped"
                               ELSE probe[s].attach
<1> DEFINE c == IF ~Seat(s).libc THEN "skipped" ELSE IF MayTraceChild(s) THEN "ok" ELSE "denied"
           a == IF probe[s].pid # NoPid /\ ~Seat(s).libc THEN "skipped" ELSE probe[s].attach
           st == IF probe[s].pid = NoPid \/ ~Seat(s).libc THEN "report" ELSE "seize"
<1>1. probe[s].pc = "scratch" /\ Move(s, st, Trying(probe[s], c, a))
  BY DEF attach_child, Trying
<1>2. /\ c \in Outcome /\ a \in Outcome
      /\ st \in Stage
  BY Whose DEF Measured, Stage, Outcome
<1>3. /\ st = "report" <=> probe[s].pid = NoPid \/ ~Seat(s).libc
      /\ st \in {"report", "seize"}
  OBVIOUS
<1> HIDE DEF c, a, st
<1> DEFINE n == Trying(probe[s], c, a)
<1>4. /\ n \in Measured /\ n.child = c /\ n.attach = a
      /\ n.pid = probe[s].pid /\ SameReading(n, probe[s]) /\ n.warned = probe[s].warned
  BY <1>2, Whose, TryingTypes
<1>m. Move(s, st, n)
  BY <1>1
<1> HIDE DEF n
<1>5. Goes(s, st) /\ Apart(probe'[s], probe[s])
  BY <1>m, <1>2, <1>4, Whose, Moved DEF Goes, Apart
<1>6. SameReading(probe'[s], probe[s]) /\ probe'[s].child = c /\ probe'[s].attach = a
  BY <1>m, <1>2, <1>4, Whose, Moved DEF SameReading, SameTrial
<1>7. IF probe[s].pid = NoPid \/ ~Seat(s).libc THEN Goes(s, "report") ELSE Goes(s, "seize")
  BY <1>3, <1>5
<1> QED
  BY <1>1, <1>5, <1>6, <1>7 DEF c, a

(* A step that adds nothing to what was measured but the place it left.    *)
Keeps(s, st) == /\ Goes(s, st) /\ Apart(probe'[s], probe[s])
                /\ SameReading(probe'[s], probe[s]) /\ SameTrial(probe'[s], probe[s])
                /\ SameAnswer(probe'[s], probe[s])
(* A step that adds how the attach to the process itself went.             *)
Attempts(s, st, a) == /\ Goes(s, st) /\ Apart(probe'[s], probe[s])
                      /\ SameReading(probe'[s], probe[s])
                      /\ probe'[s].child = probe[s].child /\ probe'[s].attach = a

LEMMA Keeping ==
  ASSUME ProbeTypes, NEW s \in Prober, NEW st \in Stage, Move(s, st, probe[s])
  PROVE  Keeps(s, st)
  BY Whose, Moved DEF Keeps, Goes, Apart

LEMMA Attempting ==
  ASSUME ProbeTypes, NEW s \in Prober, NEW st \in Stage, NEW a \in Outcome,
         Move(s, st, [probe[s] EXCEPT !.attach = a])
  PROVE  Attempts(s, st, a)
<1> DEFINE n == Attaching(probe[s], a)
<1>1. /\ n \in Measured /\ n.child = probe[s].child /\ n.attach = a
      /\ n.pid = probe[s].pid /\ SameReading(n, probe[s]) /\ n.warned = probe[s].warned
  BY Whose, AttachingTypes
<1>2. Move(s, st, n)
  BY DEF Attaching
<1> HIDE DEF n
<1> QED
  BY <1>1, <1>2, Whose, Moved DEF Attempts, Goes, Apart, SameReading, SameTrial

LEMMA Resumes ==
  ASSUME ProbeTypes, NEW s \in Prober, _resume(s)
  PROVE  /\ probe[s].pc = "undetached" /\ Goes(s, "report")
         /\ probe'[s].pid = probe[s].pid /\ probe'[s].warned
         /\ SameReading(probe'[s], probe[s]) /\ SameTrial(probe'[s], probe[s])
<1> DEFINE n == Warning(probe[s])
<1>1. /\ n \in Measured /\ n.warned
      /\ n.pid = probe[s].pid /\ SameReading(n, probe[s]) /\ SameTrial(n, probe[s])
  BY Whose, WarningTypes
<1>2. probe[s].pc = "undetached" /\ Move(s, "report", n)
  BY DEF _resume, Warning
<1> HIDE DEF n
<1> QED
  BY <1>1, <1>2, Whose, Moved DEF Goes, SameReading, SameTrial, Stage

LEMMA Reports ==
  ASSUME ProbeTypes, NEW s \in Prober, Report(s)
  PROVE  /\ probe[s].pc = "report" /\ Goes(s, "done")
         /\ Apart(probe'[s], probe[s])
         /\ SameReading(probe'[s], probe[s]) /\ SameTrial(probe'[s], probe[s])
         /\ probe'[s].verdict = derive_verdict(s, probe[s]).verdict
         /\ probe'[s].blocker = derive_verdict(s, probe[s]).blocker
<1> DEFINE d == derive_verdict(s, probe[s])
<1>1. d.verdict \in Verdicts /\ d.blocker \in Mechanism \cup {"none"}
  BY AnswerTypes
<1>2. /\ probe[s].pc = "report"
      /\ Move(s, "done", [probe[s] EXCEPT !.verdict = d.verdict, !.blocker = d.blocker])
  BY DEF Report
<1> HIDE DEF d
<1> DEFINE n == Answering(probe[s], d.verdict, d.blocker)
<1>3. /\ n \in Measured /\ n.verdict = d.verdict /\ n.blocker = d.blocker
      /\ n.pid = probe[s].pid /\ SameReading(n, probe[s]) /\ SameTrial(n, probe[s])
      /\ n.warned = probe[s].warned
  BY <1>1, Whose, AnsweringTypes
<1>4. Move(s, "done", n)
  BY <1>2 DEF Answering
<1> HIDE DEF n
<1>5. /\ Goes(s, "done") /\ Apart(probe'[s], probe[s])
      /\ probe'[s].verdict = d.verdict /\ probe'[s].blocker = d.blocker
  BY <1>3, <1>4, Whose, Moved DEF Goes, Apart, SameAnswer, Stage
<1>6. SameReading(probe'[s], probe[s]) /\ SameTrial(probe'[s], probe[s])
  BY <1>3, <1>4, Whose, Moved DEF SameReading, SameTrial, Stage
<1> QED
  BY <1>2, <1>5, <1>6 DEF d

-----------------------------------------------------------------------------
(* What a probe knows, by where it is: of its attempts,                    *)
Tried(s) ==
  LET m == probe[s]
  IN /\ m.child = "ok" => MayTraceChild(s)
     /\ m.child = "denied" => ~MayTraceChild(s)
     /\ m.pc \in {"seize", "attach", "report", "done"} \cup Tracing /\ Seat(s).libc
          => m.child \in {"ok", "denied"}
     /\ m.pc \in {"report", "done"} /\ m.pid # NoPid /\ Seat(s).libc
          => m.attach \in {"ok", "denied"}
     /\ m.pc \in Tracing => m.attach = "ok"
     /\ m.attach = "ok" => ~Hindered(s, m.pid)
(* of what it read of the ids and the tracer, and met while it did,        *)
Noted(s) ==
  LET m == probe[s]
  IN m.pid # NoPid /\ m.pc \in Past =>
       /\ m.uid \in {scene.procs[m.pid].uid, Unread}
       /\ m.gid \in {scene.procs[m.pid].gid, Unread}
       /\ m.tracer => "already-traced" \in refused[s]
       /\ Met(s, m.pid)
(* and what it says in the end, from the measurements alone.               *)
Blameless == {"none", "unknown", "no-cap-sys-ptrace"}
Told(s) ==
  LET m == probe[s]
  IN m.pc = "done" /\ m.pid # NoPid /\ Seat(s).libc =>
       /\ m.verdict = IF m.child = "denied"
                        THEN IF ptrace_reads_ok(m.reads) THEN "READ_ONLY" ELSE "NONE"
                      ELSE IF m.attach = "ok" THEN "LIVE_ATTACH"
                      ELSE IF ptrace_reads_ok(m.reads) THEN "READ_ONLY" ELSE "LAUNCH_ONLY"
       /\ m.child = "ok" => m.blocker \in refused[s] \cup Blameless

Known(s) == Tried(s) /\ Noted(s) /\ Told(s)

(* One probe's step is nothing to what another knows.                      *)
LEMMA KnownStays ==
  ASSUME NEW t, scene' = scene, probe'[t] = probe[t], refused'[t] = refused[t]
  PROVE  (Fitted(t) => Fitted(t)') /\ (Known(t) => Known(t)')
<1> DEFINE p == probe[t].pid
<1>1. Fitted(t) => Fitted(t)'
  BY DEF Fitted
<1>2. /\ Hindered(t, p)' <=> Hindered(t, p)
      /\ MayTraceChild(t)' <=> MayTraceChild(t)
      /\ Seat(t)' = Seat(t)
  BY SceneStays
<1>3. Tried(t) => Tried(t)'
  BY <1>2 DEF Tried
<1>4. Met(t, p)' <=> Met(t, p)
  BY SceneStays DEF Met
<1>5. Noted(t) => Noted(t)'
  BY <1>4 DEF Noted
<1>6. Told(t) => Told(t)'
  BY <1>2 DEF Told, ptrace_reads_ok
<1> QED
  BY <1>1, <1>3, <1>5, <1>6 DEF Known


LEMMA SameHindrance ==
  ASSUME NEW s, scene' = scene, probe'[s].pid = probe[s].pid
  PROVE  /\ Hindered(s, probe[s].pid)' <=> Hindered(s, probe[s].pid)
         /\ MayTraceChild(s)' <=> MayTraceChild(s)
         /\ Seat(s)' = Seat(s)
         /\ refused[s] \subseteq refused'[s] /\ Met(s, probe[s].pid) => Met(s, probe[s].pid)'
<1>1. /\ Hindered(s, probe[s].pid)' <=> Hindered(s, probe[s].pid)
      /\ MayTraceChild(s)' <=> MayTraceChild(s)
      /\ Seat(s)' = Seat(s)
  BY SceneStays
<1>2. refused[s] \subseteq refused'[s] /\ Met(s, probe[s].pid) => Met(s, probe[s].pid)'
  BY SceneStays DEF Met
<1> QED
  BY <1>1, <1>2

LEMMA KeepingKnows ==
  ASSUME ProbeTypes, NEW s \in Prober, Known(s), scene' = scene, refused'[s] = refused[s],
         NEW st, Keeps(s, st),
         \/ probe[s].pc = "seize" /\ st = "attach"
         \/ probe[s].pc \in {"seized", "stopping"} /\ st = "report"
         \/ probe[s].pc = "stopping" /\ st = "undetached"
         \/ st = "killed" /\ probe[s].pc \notin {"idle", "done", "killed"}
  PROVE  Fitted(s)' /\ Known(s)'
<1>1. /\ probe'[s].pc = st /\ probe'[s].pid = probe[s].pid /\ probe'[s].warned = probe[s].warned
      /\ probe'[s].child = probe[s].child /\ probe'[s].attach = probe[s].attach
      /\ probe'[s].reads = probe[s].reads /\ probe'[s].tracer = probe[s].tracer
      /\ probe'[s].uid = probe[s].uid /\ probe'[s].gid = probe[s].gid
  BY DEF Keeps, Goes, Apart, SameReading, SameTrial
<1>2. Fitted(s)
  BY Whose
<1>3. Fitted(s)'
  BY <1>1, <1>2 DEF Fitted, Tracing
<1>4. Tried(s)'
  BY <1>1, <1>2, SameHindrance DEF Known, Tried, Tracing, Fitted
<1>5. Noted(s)'
  BY <1>1, SameHindrance DEF Known, Noted, Past, Tracing
<1>6. Told(s)'
  BY <1>1 DEF Told
<1> QED
  BY <1>3, <1>4, <1>5, <1>6 DEF Known

LEMMA AttemptingKnows ==
  ASSUME ProbeTypes, NEW s \in Prober, Known(s), scene' = scene,
         refused[s] \subseteq refused'[s], probe[s].pc \in {"seize", "attach"},
         NEW st, NEW a, Attempts(s, st, a),
         \/ a = "ok" /\ st \in {"seized", "stopping"} /\ ~Hindered(s, probe[s].pid)
         \/ a = "denied" /\ st = "report"
  PROVE  Fitted(s)' /\ Known(s)'
<1>1. /\ probe'[s].pc = st /\ probe'[s].pid = probe[s].pid /\ probe'[s].warned = probe[s].warned
      /\ probe'[s].child = probe[s].child /\ probe'[s].attach = a
      /\ probe'[s].reads = probe[s].reads /\ probe'[s].tracer = probe[s].tracer
      /\ probe'[s].uid = probe[s].uid /\ probe'[s].gid = probe[s].gid
  BY DEF Attempts, Goes, Apart, SameReading
<1>2. Fitted(s)
  BY Whose
<1>3. Fitted(s)'
  BY <1>1, <1>2 DEF Fitted, Tracing
<1>4. Tried(s)'
  BY <1>1, <1>2, SameHindrance DEF Known, Tried, Tracing, Fitted
<1>5. Noted(s)'
  BY <1>1, SameHindrance DEF Known, Noted, Past, Tracing
<1>6. Told(s)'
  BY <1>1 DEF Told
<1> QED
  BY <1>3, <1>4, <1>5, <1>6 DEF Known

LEMMA BeginKnows ==
  ASSUME ProbeTypes, NEW s \in Prober, Begin(s)
  PROVE  Fitted(s)' /\ Known(s)'
<1>1. /\ probe'[s].pc = "discover" /\ probe'[s].pid = NoPid /\ probe'[s].reads = {}
      /\ probe'[s].child = "none" /\ probe'[s].attach = "none" /\ ~probe'[s].warned
  BY Begins DEF Goes
<1>2. Fitted(s)'
  BY <1>1 DEF Fitted, Tracing
<1>3. Tried(s)'
  BY <1>1 DEF Tried, Tracing
<1>4. Noted(s)' /\ Told(s)'
  BY <1>1 DEF Noted, Told
<1> QED
  BY <1>2, <1>3, <1>4 DEF Known

LEMMA DiscoverKnows ==
  ASSUME ProbeTypes, NEW s \in Prober, discover_target(s)
  PROVE  Fitted(s)' /\ Known(s)'
<1>1. /\ \/ probe'[s].pc = "scratch" /\ probe'[s].pid = NoPid
         \/ probe'[s].pc = "status" /\ probe'[s].pid \in Procs
      /\ probe[s].pc = "discover"
      /\ probe'[s].child = probe[s].child /\ probe'[s].attach = probe[s].attach
      /\ probe'[s].warned = probe[s].warned /\ probe'[s].reads = probe[s].reads
  BY Discovers DEF Goes, SameTrial, SameReading
<1>2. /\ probe[s].child = "none" /\ probe[s].attach = "none" /\ ~probe[s].warned
      /\ probe[s].reads = {} /\ NoPid \notin Procs
  BY <1>1, Whose DEF Fitted
<1> QED
  BY <1>1, <1>2 DEF Fitted, Known, Tried, Noted, Told, Past, Tracing

LEMMA StatusKnows ==
  ASSUME ProbeTypes, NEW s \in Prober, Known(s), ReadStatus(s)
  PROVE  Fitted(s)' /\ Known(s)'
<1> DEFINE p == probe[s].pid
<1>1. /\ probe[s].pc = "status" /\ probe'[s].pc = "matrix" /\ p \in Procs
      /\ probe'[s].pid = p /\ probe'[s].warned = probe[s].warned
      /\ probe'[s].child = probe[s].child /\ probe'[s].attach = probe[s].attach
      /\ probe'[s].uid \in {scene.procs[p].uid, Unread}
      /\ probe'[s].gid \in {scene.procs[p].gid, Unread}
      /\ probe'[s].tracer => proc[p].tracer # "none"
  BY ReadsStatus DEF Goes, Apart, SameTrial
<1>2. scene' = scene /\ Notes(s, p) /\ refused \in [Seats -> SUBSET Mechanism]
  BY DEF ReadStatus, ProbeTypes, TypeOK
<1>3. PICK q : q = p
  OBVIOUS
<1>3a. Met(s, q)' /\ (proc[q].tracer # "none" => "already-traced" \in refused'[s])
  <2>1. Notes(s, q)
    BY <1>2, <1>3
  <2> QED
    BY <1>2, <2>1, Noting, Whose
<1>4. /\ Met(s, probe[s].pid)'
      /\ proc[p].tracer # "none" => "already-traced" \in refused'[s]
  <2>1. probe'[s].pid = q
    BY <1>1, <1>3
  <2> QED
    BY <2>1, <1>3, <1>3a DEF Met
<1>5. Noted(s)'
  BY <1>1, <1>2, <1>4 DEF Noted
<1>6. Fitted(s) /\ NoPid \notin Procs
  BY Whose
<1>7. Fitted(s)'
  BY <1>1, <1>6 DEF Fitted
<1>8. Tried(s)' /\ Told(s)'
  BY <1>1, <1>2, SameHindrance DEF Known, Tried, Told, Tracing
<1> QED
  BY <1>5, <1>7, <1>8 DEF Known


LEMMA MatrixKnows ==
  ASSUME ProbeTypes, NEW s \in Prober, Known(s), proc_read_matrix(s)
  PROVE  Fitted(s)' /\ Known(s)'
<1>1. /\ probe[s].pc = "matrix" /\ probe'[s].pc = "scratch" /\ probe[s].pid \in Procs
      /\ probe'[s].pid = probe[s].pid /\ probe'[s].warned = probe[s].warned
      /\ probe'[s].child = probe[s].child /\ probe'[s].attach = probe[s].attach
      /\ probe'[s].uid = probe[s].uid /\ probe'[s].gid = probe[s].gid
      /\ probe'[s].tracer = probe[s].tracer
  BY ReadsMatrix DEF Goes, Apart, SameTrial
<1>2. scene' = scene /\ refused' = refused
  BY DEF proc_read_matrix, Untouched
<1>3. Fitted(s) /\ NoPid \notin Procs
  BY Whose
<1>4. Fitted(s)'
  BY <1>1, <1>3 DEF Fitted
<1>5. Tried(s)' /\ Told(s)'
  BY <1>1, <1>2, SameHindrance DEF Known, Tried, Told, Tracing
<1>6. Noted(s)'
  BY <1>1, <1>2, SameHindrance DEF Known, Noted, Past
<1> QED
  BY <1>4, <1>5, <1>6 DEF Known

LEMMA ChildKnows ==
  ASSUME ProbeTypes, NEW s \in Prober, Known(s), attach_child(s)
  PROVE  Fitted(s)' /\ Known(s)'
<1> DEFINE p == probe[s].pid
<1>1. /\ probe[s].pc = "scratch"
      /\ probe'[s].pid = probe[s].pid /\ probe'[s].warned = probe[s].warned
      /\ probe'[s].reads = probe[s].reads
      /\ probe'[s].uid = probe[s].uid /\ probe'[s].gid = probe[s].gid
      /\ probe'[s].tracer = probe[s].tracer
  BY TracesChild DEF Apart, SameReading
<1>2. /\ IF p = NoPid \/ ~Seat(s).libc THEN probe'[s].pc = "report" ELSE probe'[s].pc = "seize"
      /\ probe'[s].child = IF ~Seat(s).libc THEN "skipped"
                           ELSE IF MayTraceChild(s) THEN "ok" ELSE "denied"
      /\ probe'[s].attach = IF p # NoPid /\ ~Seat(s).libc THEN "skipped" ELSE probe[s].attach
  BY TracesChild DEF Goes
<1>3. scene' = scene /\ refused' = refused
  BY DEF attach_child, Untouched
<1>4. Fitted(s)
  BY Whose
<1>5. Fitted(s)'
  BY <1>1, <1>2, <1>4 DEF Fitted, Tracing
<1>6. Tried(s)'
  <2>1. /\ Hindered(s, p)' <=> Hindered(s, p)
        /\ MayTraceChild(s)' <=> MayTraceChild(s)
        /\ Seat(s)' = Seat(s)
    BY <1>1, <1>3, SameHindrance
  <2>2. /\ probe'[s].child = "ok" => MayTraceChild(s)'
        /\ probe'[s].child = "denied" => ~MayTraceChild(s)'
        /\ Seat(s)'.libc => probe'[s].child \in {"ok", "denied"}
    BY <1>2, <2>1
  <2>3. /\ probe'[s].pc = "report" /\ probe'[s].pid # NoPid => ~Seat(s)'.libc
        /\ probe'[s].pc \in {"report", "seize"}
        /\ probe'[s].attach = "ok" => ~Hindered(s, p)'
    BY <1>1, <1>2, <2>1 DEF Known, Tried
  <2> QED
    BY <2>2, <2>3 DEF Tried, Tracing
<1>7. Noted(s)'
  BY <1>1, <1>3, SameHindrance DEF Known, Noted, Past
<1>8. Told(s)'
  BY <1>2 DEF Told
<1> QED
  BY <1>5, <1>6, <1>7, <1>8 DEF Known

LEMMA ResumeKnows ==
  ASSUME ProbeTypes, NEW s \in Prober, Known(s), _resume(s)
  PROVE  Fitted(s)' /\ Known(s)'
<1>1. /\ probe[s].pc = "undetached" /\ probe'[s].pc = "report"
      /\ probe'[s].pid = probe[s].pid
      /\ probe'[s].child = probe[s].child /\ probe'[s].attach = probe[s].attach
      /\ probe'[s].reads = probe[s].reads /\ probe'[s].tracer = probe[s].tracer
      /\ probe'[s].uid = probe[s].uid /\ probe'[s].gid = probe[s].gid
  BY Resumes DEF Goes, SameReading, SameTrial
<1>2. scene' = scene /\ refused' = refused
  BY DEF _resume
<1>3. Fitted(s)
  BY Whose
<1>4. Fitted(s)'
  BY <1>1, <1>3 DEF Fitted, Tracing
<1>5. Tried(s)' /\ Told(s)'
  BY <1>1, <1>2, SameHindrance DEF Known, Tried, Told, Tracing
<1>6. Noted(s)'
  BY <1>1, <1>2, SameHindrance DEF Known, Noted, Past, Tracing
<1> QED
  BY <1>4, <1>5, <1>6 DEF Known

(* What is named refused, or was never read: the ids as the kernel compares *)
(* them, the label by the label, the scope by the scope.                   *)
LEMMA NamesARefuser ==
  ASSUME ProbeTypes, NEW s \in Prober, probe[s].pid \in Procs, Noted(s), probe[s].pc = "report"
  PROVE  _classify_denial(s, probe[s]) \in refused[s] \cup Blameless
<1> DEFINE m == probe[s]
           p == probe[s].pid
<1>1. /\ m.uid \in {scene.procs[p].uid, Unread} /\ m.gid \in {scene.procs[p].gid, Unread}
      /\ m.tracer => "already-traced" \in refused[s]
      /\ Met(s, p)
  BY Whose DEF Noted, Past
<1>2. scene.yama \in {NoScope} \cup 0..3
  BY Whose DEF IsScene
<1>3. CASE m.tracer
  BY <1>1, <1>3 DEF _classify_denial
<1>4. CASE ~m.tracer /\ Seat(s).cap
  BY <1>1, <1>4 DEF _classify_denial, LabelsDiffer, Met, LsmRefuses, Blameless
<1>5. CASE ~m.tracer /\ ~Seat(s).cap
  <2>1. _classify_denial(s, m) = WithoutCap(s, m)
    BY <1>5 DEF _classify_denial
  <2>2. /\ m.uid # Unread /\ m.uid # Seat(s).uid => "uid-mismatch" \in refused[s]
        /\ m.gid # Unread /\ m.gid # Seat(s).gid => "gid-mismatch" \in refused[s]
    BY <1>1, <1>5 DEF Met, UidRefuses, GidRefuses
  <2>3. scene.yama \notin {NoScope, 0} => "yama-scope" \in refused[s]
    BY <1>1, <1>2, <1>5 DEF Met, YamaRefuses
  <2> QED
    BY <2>1, <2>2, <2>3 DEF WithoutCap, Blameless
<1> QED
  BY <1>3, <1>4, <1>5

LEMMA ReportKnows ==
  ASSUME ProbeTypes, NEW s \in Prober, Known(s), Report(s)
  PROVE  Fitted(s)' /\ Known(s)'
<1> DEFINE m == probe[s]
           p == probe[s].pid
<1>1. /\ probe[s].pc = "report" /\ probe'[s].pc = "done"
      /\ probe'[s].pid = probe[s].pid /\ probe'[s].warned = probe[s].warned
      /\ probe'[s].child = probe[s].child /\ probe'[s].attach = probe[s].attach
      /\ probe'[s].reads = probe[s].reads /\ probe'[s].tracer = probe[s].tracer
      /\ probe'[s].uid = probe[s].uid /\ probe'[s].gid = probe[s].gid
  BY Reports DEF Goes, Apart, SameReading, SameTrial
<1>2. scene' = scene /\ refused' = refused
  BY DEF Report
<1>3. Fitted(s) /\ p \in Procs \cup {NoPid}
  BY Whose
<1>4. Fitted(s)'
  BY <1>1, <1>3 DEF Fitted, Tracing
<1>5. Tried(s)'
  BY <1>1, <1>2, SameHindrance DEF Known, Tried, Tracing
<1>6. Noted(s)'
  BY <1>1, <1>2, SameHindrance DEF Known, Noted, Past
<1>7. Told(s)'
  <2> SUFFICES ASSUME p # NoPid, Seat(s).libc
               PROVE  Told(s)'
    BY <1>1, <1>2, SameHindrance DEF Told
  <2>1. m.child \in {"ok", "denied"} /\ m.attach \in {"ok", "denied"}
    BY <1>1 DEF Known, Tried
  <2>2. probe'[s].verdict = derive_verdict(s, m).verdict
        /\ probe'[s].blocker = derive_verdict(s, m).blocker
    BY Reports
  <2>3. probe'[s].verdict
           = IF m.child = "denied"
               THEN IF ptrace_reads_ok(m.reads) THEN "READ_ONLY" ELSE "NONE"
             ELSE IF m.attach = "ok" THEN "LIVE_ATTACH"
             ELSE IF ptrace_reads_ok(m.reads) THEN "READ_ONLY" ELSE "LAUNCH_ONLY"
    BY <2>1, <2>2 DEF derive_verdict
  <2>4. m.child = "ok" => \/ probe'[s].blocker = "none"
                          \/ probe'[s].blocker = _classify_denial(s, m)
    BY <2>1, <2>2 DEF derive_verdict
  <2>5. _classify_denial(s, m) \in refused[s] \cup Blameless
    BY <1>1, <1>3, NamesARefuser DEF Known
  <2>6. m.child = "ok" => probe'[s].blocker \in refused[s] \cup Blameless
    BY <2>4, <2>5 DEF Blameless
  <2> QED
    BY <1>1, <1>2, <2>3, <2>6 DEF Told, ptrace_reads_ok
<1> QED
  BY <1>4, <1>5, <1>6, <1>7 DEF Known


-----------------------------------------------------------------------------
(* The processes, by whose hand a step lays on them.                       *)

Holder == {"none", "gdb"} \cup Seats

Held(p, t)   == [proc EXCEPT ![p].tracer = t]
Halted(p, t) == [proc EXCEPT ![p].tracer = t, ![p].stopped = TRUE]
Loosed(p, t) == [proc EXCEPT ![p].tracer = t, ![p].stopped = FALSE]
HeldBy(r, t) == [r EXCEPT !.tracer = t]
Left(p, s)   == IF proc[p].tracer = s THEN "none" ELSE proc[p].tracer

LEMMA ProcessFields ==
  ASSUME NEW r \in Process, NEW t \in Holder
  PROVE  /\ HeldBy(r, t) \in Process /\ HeldBy(r, t).tracer = t
         /\ HeldBy(r, t).state = r.state /\ HeldBy(r, t).stopped = r.stopped
         /\ t = r.tracer => HeldBy(r, t) = r
  BY DEF HeldBy, Process, Holder

LEMMA HeldTypes ==
  ASSUME proc \in [Procs -> Process], NEW p \in Procs, NEW t \in Holder
  PROVE  LET f == Held(p, t)
         IN /\ f \in [Procs -> Process]
            /\ f[p].tracer = t /\ f[p].state = proc[p].state /\ f[p].stopped = proc[p].stopped
            /\ \A q \in Procs \ {p} : f[q] = proc[q]
  BY DEF Held, Process, Holder

LEMMA HaltedTypes ==
  ASSUME proc \in [Procs -> Process], NEW p \in Procs, NEW t \in Holder
  PROVE  LET f == Halted(p, t)
         IN /\ f \in [Procs -> Process]
            /\ f[p].tracer = t /\ f[p].state = proc[p].state
            /\ \A q \in Procs \ {p} : f[q] = proc[q]
  BY DEF Halted, Process, Holder

LEMMA LoosedTypes ==
  ASSUME proc \in [Procs -> Process], NEW p \in Procs, NEW t \in Holder
  PROVE  LET f == Loosed(p, t)
         IN /\ f \in [Procs -> Process]
            /\ f[p].tracer = t /\ f[p].state = proc[p].state /\ ~f[p].stopped
            /\ \A q \in Procs \ {p} : f[q] = proc[q]
  BY DEF Loosed, Process, Holder

(* A seat traces only what its probe is at, and only while it is.          *)
Owned(s) ==
  \A q \in Procs : proc[q].tracer = s =>
    /\ probe[s].pid = q /\ probe[s].attach = "ok"
    /\ probe[s].pc \in Tracing \cup {"report"}

LEMMA LetGoTypes ==
  ASSUME proc \in [Procs -> Process], NEW s \in Seats, Owned(s)
  PROVE  LET f == LetGo(s)
         IN /\ f \in [Procs -> Process]
            /\ \A q \in Procs : /\ f[q].tracer = Left(q, s) /\ f[q].tracer # s
                                /\ f[q].state = proc[q].state
                                /\ f[q].stopped = proc[q].stopped
                                /\ q # probe[s].pid => f[q] = proc[q]
<1> DEFINE f == LetGo(s)
<1>1. \A q \in Procs : f[q] = HeldBy(proc[q], Left(q, s))
  BY DEF LetGo, Left, HeldBy
<1>2. \A q \in Procs : proc[q] \in Process /\ Left(q, s) \in Holder /\ Left(q, s) # s
  BY CapReportAssumption DEF Process, Left, Holder
<1>3. \A q \in Procs : /\ f[q] \in Process /\ f[q].tracer = Left(q, s)
                       /\ f[q].state = proc[q].state /\ f[q].stopped = proc[q].stopped
  BY <1>1, <1>2, ProcessFields
<1>4. \A q \in Procs : q # probe[s].pid => f[q] = proc[q]
  BY <1>1, <1>2, ProcessFields DEF Owned, Left
<1>5. f \in [Procs -> Process]
  BY <1>3 DEF LetGo
<1> QED
  BY <1>2, <1>3, <1>4, <1>5


(* Who answers for a process that is stopped.                              *)
Holds(s, q) == /\ probe[s].pid = q
               /\ probe[s].pc \in {"stopping", "undetached", "killed"} \/ probe[s].warned

(* What the step of one probe does to the processes, and to who is steady. *)
Hands(s) ==
  /\ proc' \in [Procs -> Process] /\ steady' \in [Seats -> BOOLEAN]
  /\ \A q \in Procs :
       /\ proc'[q].state = proc[q].state
       /\ q # probe[s].pid => proc'[q] = proc[q]
       /\ proc'[q].tracer \in Seats \ {s} => proc'[q].tracer = proc[q].tracer
       /\ proc'[q].stopped => Holds(s, q)' \/ (proc[q].stopped /\ ~Holds(s, q))
  /\ Owned(s)'
  /\ \A t \in Seats \ {s} :
       steady'[t] => steady[t] /\ (proc' = proc \/ probe[t].pid # probe[s].pid)
  /\ steady'[s] => steady[s] \/ probe[s].pc = "idle"

LEMMA Disturbing ==
  ASSUME steady \in [Seats -> BOOLEAN], NEW s, NEW p, steady' = Disturbs(p, s)
  PROVE  /\ steady' \in [Seats -> BOOLEAN]
         /\ \A t \in Seats \ {s} : steady'[t] => steady[t] /\ probe[t].pid # p
         /\ s \in Seats => (steady'[s] => steady[s])
  BY DEF Disturbs

LEMMA HandsOff ==
  ASSUME ProbeTypes, NEW s \in Prober, Owned(s), proc' = proc,
         \/ steady' = steady
         \/ probe[s].pc = "idle" /\ steady' = [steady EXCEPT ![s] = TRUE],
         probe[s].pc \in {"idle", "discover", "status", "matrix", "scratch", "seize", "attach"}
  PROVE  Hands(s)
<1>1. Fitted(s) /\ s \in Seats
  BY Whose
<1>2. \A q \in Procs : proc[q].tracer # s
  BY DEF Owned, Tracing
<1>3. Owned(s)'
  BY <1>2 DEF Owned
<1>4. \A q \in Procs : ~Holds(s, q)
  BY <1>1 DEF Fitted, Holds
<1>5. proc \in [Procs -> Process] /\ steady \in [Seats -> BOOLEAN]
  BY DEF ProbeTypes, TypeOK
<1>6. /\ steady' \in [Seats -> BOOLEAN]
      /\ \A t \in Seats \ {s} : steady'[t] => steady[t]
      /\ steady'[s] => steady[s] \/ probe[s].pc = "idle"
  BY <1>1, <1>5
<1> QED
  BY <1>3, <1>4, <1>5, <1>6 DEF Hands

LEMMA HandsTake ==
  ASSUME ProbeTypes, NEW s \in Prober, Owned(s), NEW st, Attempts(s, st, "ok"),
         probe[s].pid \in Procs, MayAttach(s, probe[s].pid), steady' = Disturbs(probe[s].pid, s),
         probe[s].pc \in {"seize", "attach"},
         \/ st = "seized" /\ proc' = Held(probe[s].pid, s)
         \/ st = "stopping" /\ proc' = Halted(probe[s].pid, s)
  PROVE  Hands(s)
<1> DEFINE p == probe[s].pid
<1>1. Fitted(s) /\ s \in Seats /\ s \in Holder /\ p \in Procs
  BY Whose DEF Holder
<1>2. proc \in [Procs -> Process] /\ steady \in [Seats -> BOOLEAN]
  BY DEF ProbeTypes, TypeOK
<1>3. /\ proc' \in [Procs -> Process]
      /\ proc'[p].tracer = s /\ proc'[p].state = proc[p].state
      /\ \A q \in Procs \ {p} : proc'[q] = proc[q]
      /\ st = "seized" => proc'[p].stopped = proc[p].stopped
  BY <1>1, <1>2, HeldTypes, HaltedTypes
<1>4. /\ probe'[s].pc = st /\ probe'[s].pid = p /\ probe'[s].attach = "ok"
      /\ st \in {"seized", "stopping"}
  BY DEF Attempts, Goes, Apart
<1>5. \A q \in Procs : proc[q].tracer # s /\ ~Holds(s, q)
  BY <1>1 DEF Owned, Tracing, Fitted, Holds
<1>6. Owned(s)'
  BY <1>3, <1>4, <1>5 DEF Owned, Tracing
<1>7. \A q \in Procs : proc'[q].stopped => Holds(s, q)' \/ (proc[q].stopped /\ ~Holds(s, q))
  BY <1>3, <1>4, <1>5 DEF Holds
<1>8. /\ steady' \in [Seats -> BOOLEAN]
      /\ \A t \in Seats \ {s} : steady'[t] => steady[t] /\ probe[t].pid # p
      /\ steady'[s] => steady[s]
  BY <1>1, <1>2, Disturbing
<1> QED
  BY <1>1, <1>3, <1>6, <1>7, <1>8 DEF Hands

LEMMA HandsLeave ==
  ASSUME ProbeTypes, NEW s \in Prober, Owned(s), probe[s].pid \in Procs,
         probe'[s].pc = "report", probe'[s].pid = probe[s].pid, probe'[s].attach = probe[s].attach,
         steady' = Disturbs(probe[s].pid, s),
         \/ probe[s].pc = "seized" /\ proc' = Held(probe[s].pid, Left(probe[s].pid, s))
         \/ /\ probe[s].pc \in {"stopping", "undetached"}
            /\ proc' = Loosed(probe[s].pid, Left(probe[s].pid, s))
         \/ probe[s].pc = "undetached" /\ proc' = proc /\ probe'[s].warned
  PROVE  Hands(s)
<1> DEFINE p == probe[s].pid
<1>1. Fitted(s) /\ s \in Seats /\ p \in Procs
  BY Whose
<1>2. proc \in [Procs -> Process] /\ steady \in [Seats -> BOOLEAN]
  BY DEF ProbeTypes, TypeOK
<1>3. Left(p, s) \in Holder /\ (Left(p, s) # s)
  BY <1>1, <1>2, CapReportAssumption DEF Left, Holder, Process
<1>4. /\ proc' \in [Procs -> Process] /\ proc'[p].state = proc[p].state
      /\ proc'[p].tracer = proc[p].tracer \/ proc'[p].tracer = Left(p, s)
      /\ \A q \in Procs \ {p} : proc'[q] = proc[q]
  BY <1>1, <1>2, <1>3, HeldTypes, LoosedTypes
<1>5. proc'[p].stopped => Holds(s, p)' \/ (proc[p].stopped /\ ~Holds(s, p))
  <2>1. CASE probe[s].pc = "seized" /\ proc' = Held(p, Left(p, s))
    <3>1. proc'[p].stopped = proc[p].stopped
      BY <1>1, <1>2, <1>3, <2>1, HeldTypes
    <3>2. ~Holds(s, p)
      BY <1>1, <2>1 DEF Fitted, Holds
    <3> QED
      BY <3>1, <3>2
  <2>2. CASE proc' = Loosed(p, Left(p, s))
    BY <1>1, <1>2, <1>3, <2>2, LoosedTypes
  <2>3. CASE probe'[s].warned
    BY <2>3 DEF Holds
  <2> QED
    BY <2>1, <2>2, <2>3
<1>6. \A q \in Procs \ {p} : ~Holds(s, q)
  BY DEF Holds
<1>7. Owned(s)'
  <2>1. \A q \in Procs : proc'[q].tracer = s => proc[q].tracer = s
    BY <1>3, <1>4
  <2> QED
    BY <2>1 DEF Owned
<1>8. /\ steady' \in [Seats -> BOOLEAN]
      /\ \A t \in Seats \ {s} : steady'[t] => steady[t] /\ probe[t].pid # p
      /\ steady'[s] => steady[s]
  BY <1>1, <1>2, Disturbing
<1>9. proc'[p].tracer \in Seats \ {s} => proc'[p].tracer = proc[p].tracer
  BY <1>4, CapReportAssumption DEF Left
<1> QED
  BY <1>1, <1>4, <1>5, <1>6, <1>7, <1>8, <1>9 DEF Hands

LEMMA HandsKeep ==
  ASSUME ProbeTypes, NEW s \in Prober, Owned(s), proc' = proc, steady' = steady,
         probe[s].pc = "stopping", Keeps(s, "undetached")
  PROVE  Hands(s)
<1>1. s \in Seats
  BY Whose
<1>2. proc \in [Procs -> Process] /\ steady \in [Seats -> BOOLEAN]
  BY DEF ProbeTypes, TypeOK
<1>3. /\ probe'[s].pc = "undetached" /\ probe'[s].pid = probe[s].pid
      /\ probe'[s].attach = probe[s].attach
  BY DEF Keeps, Goes, Apart, SameTrial
<1>4. Owned(s)'
  BY <1>3 DEF Owned, Tracing
<1>5. \A q \in Procs : Holds(s, q) => Holds(s, q)'
  BY <1>3 DEF Holds
<1> QED
  BY <1>1, <1>2, <1>4, <1>5 DEF Hands


Quit(s) == [p \in Procs |-> [LetGo(s)[p] EXCEPT !.stopped = @ /\ p # probe[s].pid]]

LEMMA QuitTypes ==
  ASSUME proc \in [Procs -> Process], NEW s \in Seats, Owned(s)
  PROVE  LET f == Quit(s)
         IN /\ f \in [Procs -> Process]
            /\ \A q \in Procs : /\ f[q].tracer = Left(q, s) /\ f[q].tracer # s
                                /\ f[q].state = proc[q].state
                                /\ f[q].stopped => proc[q].stopped
                                /\ q # probe[s].pid => f[q] = proc[q]
<1> DEFINE g == LetGo(s)
           p == probe[s].pid
<1>1. /\ g \in [Procs -> Process]
      /\ \A q \in Procs : /\ g[q].tracer = Left(q, s) /\ g[q].tracer # s
                          /\ g[q].state = proc[q].state
                          /\ g[q].stopped = proc[q].stopped
                          /\ q # p => g[q] = proc[q]
  BY LetGoTypes
<1>2. \A r \in Process, b \in BOOLEAN :
        LET n == [r EXCEPT !.stopped = @ /\ b]
        IN /\ n \in Process /\ n.tracer = r.tracer /\ n.state = r.state
           /\ n.stopped = (r.stopped /\ b) /\ (b => n = r)
  BY DEF Process
<1>3. \A q \in Procs : Quit(s)[q] = [g[q] EXCEPT !.stopped = @ /\ (q # p)]
  BY DEF Quit
<1>4. ASSUME NEW q \in Procs
      PROVE  /\ Quit(s)[q] \in Process
             /\ Quit(s)[q].tracer = Left(q, s) /\ Quit(s)[q].tracer # s
             /\ Quit(s)[q].state = proc[q].state
             /\ Quit(s)[q].stopped => proc[q].stopped
             /\ q # p => Quit(s)[q] = proc[q]
  <2> DEFINE r == g[q]
             n == [r EXCEPT !.stopped = @ /\ (q # p)]
  <2>1. r \in Process
    BY <1>1
  <2> HIDE DEF g
  <2>2. /\ n \in Process /\ n.tracer = r.tracer /\ n.state = r.state
        /\ n.stopped = (r.stopped /\ (q # p)) /\ (q # p => n = r)
    BY <2>1 DEF Process
  <2>3. Quit(s)[q] = n
    BY <1>3
  <2> HIDE DEF n
  <2> QED
    BY <1>1, <2>2, <2>3
<1>5. Quit(s) \in [Procs -> Process]
  BY <1>4 DEF Quit
<1> QED
  BY <1>4, <1>5

LEMMA HandsLetGo ==
  ASSUME ProbeTypes, NEW s \in Prober, Owned(s), NEW st, Goes(s, st),
         Apart(probe'[s], probe[s]),
         \/ st = "done" /\ probe[s].pc = "report"
         \/ st = "killed",
         proc' = LetGo(s) \/ proc' = Quit(s),
         \/ steady' = Disturbs(probe[s].pid, s)
         \/ steady' = steady /\ proc' = proc
  PROVE  Hands(s) /\ \A q \in Procs : proc'[q].tracer = Left(q, s) /\ proc'[q].tracer # s
<1> DEFINE p == probe[s].pid
<1>1. Fitted(s) /\ s \in Seats
  BY Whose
<1>2. proc \in [Procs -> Process] /\ steady \in [Seats -> BOOLEAN]
  BY DEF ProbeTypes, TypeOK
<1>3. /\ proc' \in [Procs -> Process]
      /\ \A q \in Procs : /\ proc'[q].tracer = Left(q, s) /\ proc'[q].tracer # s
                          /\ proc'[q].state = proc[q].state
                          /\ proc'[q].stopped => proc[q].stopped
                          /\ q # p => proc'[q] = proc[q]
  BY <1>1, <1>2, LetGoTypes, QuitTypes
<1>4. probe'[s].pc = st /\ probe'[s].pid = p /\ probe'[s].warned = probe[s].warned
  BY DEF Goes, Apart
<1>5. \A q \in Procs : Holds(s, q) => Holds(s, q)'
  BY <1>4 DEF Holds
<1>6. Owned(s)'
  BY <1>3 DEF Owned
<1>7. \A q \in Procs : proc'[q].tracer \in Seats \ {s} => proc'[q].tracer = proc[q].tracer
  BY <1>3, CapReportAssumption DEF Left
<1>8. /\ steady' \in [Seats -> BOOLEAN]
      /\ \A t \in Seats \ {s} : steady'[t] => steady[t] /\ (proc' = proc \/ probe[t].pid # p)
      /\ steady'[s] => steady[s]
  BY <1>1, <1>2, Disturbing
<1> QED
  BY <1>1, <1>3, <1>5, <1>6, <1>7, <1>8 DEF Hands


-----------------------------------------------------------------------------
(* A process nobody else touched is as the probe found it.                 *)
Still(s) ==
  LET m == probe[s]
      p == probe[s].pid
  IN steady[s] /\ p # NoPid /\ Seat(s).libc =>
       /\ m.pc \in Past \ {"matrix"} => m.reads = MayRead(s, p)
       /\ m.pc \in Tracing => proc[p].state = "run" /\ proc[p].tracer = s
       /\ m.attach = "denied" => ~MayAttach(s, p)
       /\ m.attach = "ok" /\ m.pc = "report" => /\ proc[p].state = "run"
                                                /\ proc[p].tracer \in {"none", s}
       /\ m.attach = "ok" /\ m.pc = "done" => MayAttach(s, p)

LEMMA AttachAhead ==
  ASSUME scene' = scene, NEW s, NEW p
  PROVE  MayAttach(s, p)' <=> /\ proc'[p].state = "run" /\ ~Hindered(s, p)
                              /\ proc'[p].tracer = "none"
<1>1. Hindered(s, p)' <=> Hindered(s, p)
  BY SceneStays
<1>2. MayAttach(s, p)' <=> /\ proc'[p].state = "run" /\ ~Hindered(s, p)'
                           /\ proc'[p].tracer = "none"
  BY DEF MayAttach, Hindered, Refusers, YamaRefuses
<1> QED
  BY <1>1, <1>2

LEMMA SameReach ==
  ASSUME NEW s, scene' = scene, probe'[s].pid = probe[s].pid
  PROVE  LET p == probe[s].pid
         IN /\ MayAttach(s, p)' <=> /\ proc'[p].state = "run" /\ ~Hindered(s, p)
                                    /\ proc'[p].tracer = "none"
            /\ MayAttach(s, p) <=> /\ proc[p].state = "run" /\ ~Hindered(s, p)
                                   /\ proc[p].tracer = "none"
            /\ proc'[p].state = proc[p].state => MayRead(s, p)' = MayRead(s, p)
            /\ Seat(s)' = Seat(s)
<1> PICK p : p = probe[s].pid
  OBVIOUS
<1>1. MayAttach(s, p)' <=> /\ proc'[p].state = "run" /\ ~Hindered(s, p)
                           /\ proc'[p].tracer = "none"
  BY AttachAhead
<1>2. MayAttach(s, p) <=> /\ proc[p].state = "run" /\ ~Hindered(s, p)
                          /\ proc[p].tracer = "none"
  BY AttachAllowed
<1>3. proc'[p].state = proc[p].state => MayRead(s, p)' = MayRead(s, p)
  BY SceneStays
<1>4. Seat(s)' = Seat(s)
  BY SceneStays
<1>5. p = probe'[s].pid
  OBVIOUS
<1> QED
  BY <1>1, <1>2, <1>3, <1>4, <1>5


(* What one step of a probe keeps, for itself and for the pod.             *)
Ready(s) == ProbeTypes /\ s \in Prober /\ Known(s) /\ Owned(s) /\ Still(s)

Others(s) ==
  /\ scene' = scene /\ faults' \in Nat
  /\ refused' \in [Seats -> SUBSET Mechanism]
  /\ \A t \in Seats \ {s} : refused'[t] = refused[t]
Alone(s) == /\ probe' \in [Seats -> Measured]
            /\ \A t \in Seats \ {s} : probe'[t] = probe[t]
Step(s) == Others(s) /\ Alone(s) /\ Fitted(s)' /\ Known(s)' /\ Hands(s) /\ Still(s)'

LEMMA OthersKept ==
  ASSUME TypeOK, NEW s \in Seats, scene' = scene, Fault \/ faults' = faults,
         \/ refused' = refused
         \/ refused' = [refused EXCEPT ![s] = {}]
         \/ \E p : Notes(s, p)
  PROVE  Others(s)
<1>1. /\ refused \in [Seats -> SUBSET Mechanism] /\ faults \in Nat
  BY DEF TypeOK
<1>2. faults' \in Nat
  BY <1>1 DEF Fault
<1>3. \A p : Notes(s, p) => /\ refused' \in [Seats -> SUBSET Mechanism]
                            /\ \A t \in Seats \ {s} : refused'[t] = refused[t]
  BY <1>1, Noting
<1> QED
  BY <1>1, <1>2, <1>3 DEF Others

LEMMA BeginSteps ==
  ASSUME NEW s \in Prober, Ready(s), Begin(s)
  PROVE  Step(s)
<1>1. ProbeTypes /\ s \in Seats /\ Known(s) /\ Owned(s) /\ TypeOK
  BY Whose DEF Ready, ProbeTypes
<1>2. Goes(s, "discover") /\ probe[s].pc = "idle" /\ probe'[s].pid = NoPid
  BY <1>1, Begins
<1>3. Others(s)
  BY <1>1, OthersKept DEF Begin
<1>4. Hands(s)
  BY <1>1, <1>2, HandsOff DEF Begin
<1>5. Still(s)'
  BY <1>2 DEF Still
<1> QED
  BY <1>1, <1>2, <1>3, <1>4, <1>5, BeginKnows DEF Step, Alone, Goes

LEMMA DiscoverSteps ==
  ASSUME NEW s \in Prober, Ready(s), discover_target(s)
  PROVE  Step(s)
<1>1. ProbeTypes /\ s \in Seats /\ Known(s) /\ Owned(s) /\ TypeOK /\ Fitted(s)
  BY Whose DEF Ready, ProbeTypes
<1>2. /\ probe[s].pc = "discover" /\ Alone(s) /\ probe'[s].attach = probe[s].attach
      /\ \/ probe'[s].pc = "scratch" /\ probe'[s].pid = NoPid
         \/ probe'[s].pc = "status"
  BY <1>1, Discovers DEF Alone, Goes, SameTrial
<1>3. Untouched
  BY DEF discover_target
<1>4. Others(s)
  BY <1>1, <1>3, OthersKept DEF Untouched
<1>5. Hands(s)
  BY <1>1, <1>2, <1>3, HandsOff DEF Untouched
<1>6. probe[s].attach = "none"
  BY <1>1, <1>2 DEF Fitted
<1>7. Still(s)'
  BY <1>2, <1>6 DEF Still, Past, Tracing
<1> QED
  BY <1>1, <1>2, <1>4, <1>5, <1>7, DiscoverKnows DEF Step

LEMMA StatusSteps ==
  ASSUME NEW s \in Prober, Ready(s), ReadStatus(s)
  PROVE  Step(s)
<1>1. ProbeTypes /\ s \in Seats /\ Known(s) /\ Owned(s) /\ TypeOK /\ Still(s)
  BY Whose DEF Ready, ProbeTypes
<1>2. /\ probe[s].pc = "status" /\ Alone(s) /\ probe'[s].attach = probe[s].attach
      /\ probe'[s].pc = "matrix" /\ probe'[s].pid = probe[s].pid /\ faults' \in Nat
  BY <1>1, ReadsStatus DEF Alone, Goes, SameTrial, Apart
<1>3. scene' = scene /\ proc' = proc /\ steady' = steady /\ Notes(s, probe[s].pid)
  BY DEF ReadStatus
<1>4. Others(s)
  <2>1. /\ refused' \in [Seats -> SUBSET Mechanism]
        /\ \A t \in Seats \ {s} : refused'[t] = refused[t]
    BY <1>1, <1>3, Noting DEF TypeOK
  <2> QED
    BY <1>2, <1>3, <2>1 DEF Others
<1>5. Hands(s)
  BY <1>1, <1>2, <1>3, HandsOff
<1>6. Still(s)'
  BY <1>1, <1>2, <1>3, SameReach DEF Still, Past, Tracing
<1> QED
  BY <1>1, <1>2, <1>4, <1>5, <1>6, StatusKnows DEF Step

LEMMA MatrixSteps ==
  ASSUME NEW s \in Prober, Ready(s), proc_read_matrix(s)
  PROVE  Step(s)
<1>1. ProbeTypes /\ s \in Seats /\ Known(s) /\ Owned(s) /\ TypeOK /\ Still(s)
  BY Whose DEF Ready, ProbeTypes
<1>2. /\ probe[s].pc = "matrix" /\ Alone(s) /\ probe'[s].attach = probe[s].attach
      /\ probe'[s].pc = "scratch" /\ probe'[s].pid = probe[s].pid
      /\ probe'[s].reads = MayRead(s, probe[s].pid)
  BY <1>1, ReadsMatrix DEF Alone, Goes, SameTrial, Apart
<1>3. Untouched
  BY DEF proc_read_matrix
<1>4. Others(s)
  BY <1>1, <1>3, OthersKept DEF Untouched
<1>5. Hands(s)
  BY <1>1, <1>2, <1>3, HandsOff DEF Untouched
<1>6. Still(s)'
  BY <1>1, <1>2, <1>3, SameReach DEF Untouched, Still, Past, Tracing
<1> QED
  BY <1>1, <1>2, <1>4, <1>5, <1>6, MatrixKnows DEF Step

LEMMA ChildSteps ==
  ASSUME NEW s \in Prober, Ready(s), attach_child(s)
  PROVE  Step(s)
<1>1. ProbeTypes /\ s \in Seats /\ Known(s) /\ Owned(s) /\ TypeOK /\ Still(s)
  BY Whose DEF Ready, ProbeTypes
<1>2. /\ probe[s].pc = "scratch" /\ probe'[s].reads = probe[s].reads
      /\ probe'[s].pid = probe[s].pid
      /\ Seat(s).libc => probe'[s].attach = probe[s].attach
  BY <1>1, TracesChild DEF SameReading, Apart
<1>3. /\ Alone(s) /\ probe'[s].pc \in {"report", "seize"}
      /\ probe'[s].pc = "report" => probe[s].pid = NoPid \/ ~Seat(s).libc
  BY <1>1, TracesChild DEF Goes, Alone
<1>4. Untouched
  BY DEF attach_child
<1>5. Others(s)
  BY <1>1, <1>4, OthersKept DEF Untouched
<1>6. Hands(s)
  BY <1>1, <1>2, <1>4, HandsOff DEF Untouched
<1>7. Still(s)'
  BY <1>1, <1>2, <1>3, <1>4, SameReach DEF Untouched, Still, Past, Tracing
<1> QED
  BY <1>1, <1>3, <1>5, <1>6, <1>7, ChildKnows DEF Step


(* The attempt, refused.                                                   *)
LEMMA DeniedSteps ==
  ASSUME NEW s \in Prober, Ready(s), SeizeDenied(s) \/ AttachDenied(s)
  PROVE  Step(s)
<1>1. ProbeTypes /\ s \in Seats /\ Known(s) /\ Owned(s) /\ TypeOK /\ Still(s) /\ Fitted(s)
  BY Whose DEF Ready, ProbeTypes
<1>2. /\ probe[s].pc \in {"seize", "attach"} /\ ~MayAttach(s, probe[s].pid)
      /\ Move(s, "report", [probe[s] EXCEPT !.attach = "denied"])
      /\ Notes(s, probe[s].pid) /\ Quiet
  BY DEF SeizeDenied, AttachDenied
<1>3. Attempts(s, "report", "denied")
  BY <1>1, <1>2, Attempting DEF Stage, Outcome
<1>4. /\ Alone(s) /\ probe'[s].pid = probe[s].pid /\ probe'[s].reads = probe[s].reads
      /\ probe'[s].pc = "report" /\ probe'[s].attach = "denied"
  BY <1>3 DEF Attempts, Goes, Alone, Apart, SameReading
<1>5. Others(s) /\ refused[s] \subseteq refused'[s]
  <2>1. /\ refused' \in [Seats -> SUBSET Mechanism] /\ refused[s] \subseteq refused'[s]
        /\ \A t \in Seats \ {s} : refused'[t] = refused[t]
    BY <1>1, <1>2, Noting DEF TypeOK, Quiet
  <2> QED
    BY <1>1, <1>2, <2>1 DEF Others, Quiet, TypeOK
<1>6. Fitted(s)' /\ Known(s)'
  BY <1>1, <1>2, <1>3, <1>5, AttemptingKnows DEF Others
<1>7. Hands(s)
  BY <1>1, <1>2, HandsOff DEF Quiet
<1>8. Still(s)'
  BY <1>1, <1>2, <1>4, SameReach DEF Quiet, Still, Past, Tracing
<1> QED
  BY <1>4, <1>5, <1>6, <1>7, <1>8 DEF Step

(* The attempt, allowed: nothing stood in the way.                         *)
LEMMA AllowedSteps ==
  ASSUME NEW s \in Prober, Ready(s), Seize(s) \/ Attach(s)
  PROVE  Step(s)
<1> DEFINE p == probe[s].pid
<1>1. ProbeTypes /\ s \in Seats /\ Known(s) /\ Owned(s) /\ TypeOK /\ Still(s) /\ Fitted(s)
  BY Whose DEF Ready, ProbeTypes
<1>2. PICK st \in {"seized", "stopping"} :
        /\ Move(s, st, [probe[s] EXCEPT !.attach = "ok"])
        /\ probe[s].pc \in {"seize", "attach"} /\ MayAttach(s, p)
        /\ \/ st = "seized" /\ proc' = Held(p, s)
           \/ st = "stopping" /\ proc' = Halted(p, s)
        /\ steady' = Disturbs(p, s) /\ UNCHANGED <<scene, faults, refused>>
  BY DEF Seize, Attach, Held, Halted
<1>3. Attempts(s, st, "ok")
  BY <1>1, <1>2, Attempting DEF Stage, Outcome
<1>4. /\ Alone(s) /\ probe'[s].pid = p /\ probe'[s].reads = probe[s].reads
      /\ probe'[s].pc = st /\ probe'[s].attach = "ok"
  BY <1>3 DEF Attempts, Goes, Alone, Apart, SameReading
<1>5. p \in Procs
  BY <1>1, <1>2, Whose DEF Fitted
<1>6. Others(s)
  BY <1>1, <1>2, OthersKept
<1>7. proc[p].state = "run" /\ ~Hindered(s, p)
  BY <1>2, AttachAllowed
<1>8. Fitted(s)' /\ Known(s)'
  BY <1>1, <1>2, <1>3, <1>7, AttemptingKnows
<1>9. Hands(s)
  BY <1>1, <1>2, <1>3, <1>5, HandsTake
<1>10. proc'[p].tracer = s /\ proc'[p].state = proc[p].state
  BY <1>1, <1>2, <1>5, HeldTypes, HaltedTypes DEF TypeOK, Holder
<1>11. steady'[s] => steady[s]
  BY <1>2, <1>9 DEF Hands
<1>12. Still(s)'
  BY <1>1, <1>2, <1>4, <1>7, <1>10, <1>11, SameReach DEF Still, Past, Tracing
<1> QED
  BY <1>4, <1>6, <1>8, <1>9, <1>12 DEF Step

LEMMA UnansweredSteps ==
  ASSUME NEW s \in Prober, Ready(s), SeizeUnanswered(s)
  PROVE  Step(s)
<1>1. ProbeTypes /\ s \in Seats /\ Known(s) /\ Owned(s) /\ TypeOK /\ Still(s)
  BY Whose DEF Ready, ProbeTypes
<1>2. probe[s].pc = "seize" /\ Keeps(s, "attach")
  BY <1>1, Keeping DEF SeizeUnanswered, Stage
<1>3. /\ Alone(s) /\ probe'[s].pid = probe[s].pid /\ probe'[s].reads = probe[s].reads
      /\ probe'[s].pc = "attach" /\ probe'[s].attach = probe[s].attach
  BY <1>2 DEF Keeps, Goes, Alone, Apart, SameReading, SameTrial
<1>4. UNCHANGED <<scene, proc, steady, refused>> /\ (Fault \/ faults' = faults)
  BY DEF SeizeUnanswered
<1>5. Others(s)
  BY <1>1, <1>4, OthersKept
<1>6. Hands(s)
  BY <1>1, <1>2, <1>4, HandsOff
<1>7. Fitted(s)' /\ Known(s)'
  BY <1>1, <1>2, <1>4, KeepingKnows
<1>8. Still(s)'
  BY <1>1, <1>2, <1>3, <1>4, SameReach DEF Still, Past, Tracing
<1> QED
  BY <1>3, <1>5, <1>6, <1>7, <1>8 DEF Step

LEMMA LeavingSteps ==
  ASSUME NEW s \in Prober, Ready(s), SeizerExits(s) \/ Detach(s)
  PROVE  Step(s)
<1> DEFINE p == probe[s].pid
<1>1. ProbeTypes /\ s \in Seats /\ Known(s) /\ Owned(s) /\ TypeOK /\ Still(s) /\ Fitted(s)
  BY Whose DEF Ready, ProbeTypes
<1>2. /\ Move(s, "report", probe[s]) /\ steady' = Disturbs(p, s)
      /\ UNCHANGED <<scene, faults, refused>>
      /\ \/ probe[s].pc = "seized" /\ proc' = Held(p, Left(p, s))
         \/ probe[s].pc = "stopping" /\ proc' = Loosed(p, Left(p, s))
  BY DEF SeizerExits, Detach, Released, Held, Loosed, Left
<1>3. Keeps(s, "report")
  BY <1>1, <1>2, Keeping DEF Stage
<1>4. /\ Alone(s) /\ probe'[s].pid = p /\ probe'[s].reads = probe[s].reads
      /\ probe'[s].pc = "report" /\ probe'[s].attach = probe[s].attach
      /\ probe'[s].warned = probe[s].warned
  BY <1>3 DEF Keeps, Goes, Alone, Apart, SameReading, SameTrial
<1>5. Others(s)
  BY <1>1, <1>2, OthersKept
<1>6. Fitted(s)' /\ Known(s)'
  BY <1>1, <1>2, <1>3, KeepingKnows
<1>7. p \in Procs
  BY <1>1, <1>2, Whose DEF Fitted, Tracing
<1>8. Hands(s)
  BY <1>1, <1>2, <1>4, <1>7, HandsLeave
<1>9. proc'[p].tracer = Left(p, s) /\ proc'[p].state = proc[p].state
  <2>1. Left(p, s) \in Holder
    BY <1>1, <1>7 DEF Left, Holder, TypeOK, Process
  <2> QED
    BY <1>1, <1>2, <1>7, <2>1, HeldTypes, LoosedTypes DEF TypeOK
<1>10. steady'[s] => steady[s]
  BY <1>2, <1>8 DEF Hands
<1>11. probe[s].attach = "ok"
  BY <1>1, <1>2 DEF Known, Tried, Tracing
<1>12. Still(s)'
  <2> SUFFICES ASSUME steady[s], p # NoPid, Seat(s).libc
               PROVE  /\ probe'[s].reads = MayRead(s, p)'
                      /\ proc'[p].state = "run" /\ proc'[p].tracer \in {"none", s}
    BY <1>2, <1>4, <1>10, <1>11, SameReach DEF Still, Tracing
  <2>1. proc[p].state = "run" /\ proc[p].tracer = s /\ probe[s].reads = MayRead(s, p)
    BY <1>1, <1>2 DEF Still, Past, Tracing
  <2> QED
    BY <1>2, <1>4, <1>9, <2>1, SameReach DEF Left
<1> QED
  BY <1>4, <1>5, <1>6, <1>8, <1>12 DEF Step

LEMMA FailingSteps ==
  ASSUME NEW s \in Prober, Ready(s), DetachFails(s)
  PROVE  Step(s)
<1>1. ProbeTypes /\ s \in Seats /\ Known(s) /\ Owned(s) /\ TypeOK /\ Still(s)
  BY Whose DEF Ready, ProbeTypes
<1>2. probe[s].pc = "stopping" /\ Keeps(s, "undetached")
  BY <1>1, Keeping DEF DetachFails, Stage
<1>3. /\ Alone(s) /\ probe'[s].pid = probe[s].pid /\ probe'[s].reads = probe[s].reads
      /\ probe'[s].pc = "undetached" /\ probe'[s].attach = probe[s].attach
  BY <1>2 DEF Keeps, Goes, Alone, Apart, SameReading, SameTrial
<1>4. UNCHANGED <<scene, proc, steady, refused>> /\ (Fault \/ faults' = faults)
  BY DEF DetachFails
<1>5. Others(s)
  BY <1>1, <1>4, OthersKept
<1>6. Hands(s)
  BY <1>1, <1>2, <1>4, HandsKeep
<1>7. Fitted(s)' /\ Known(s)'
  BY <1>1, <1>2, <1>4, KeepingKnows
<1>8. Still(s)'
  BY <1>1, <1>2, <1>3, <1>4, SameReach DEF Still, Past, Tracing
<1> QED
  BY <1>3, <1>5, <1>6, <1>7, <1>8 DEF Step

LEMMA ResumeSteps ==
  ASSUME NEW s \in Prober, Ready(s), _resume(s)
  PROVE  Step(s)
<1> DEFINE p == probe[s].pid
<1>1. ProbeTypes /\ s \in Seats /\ Known(s) /\ Owned(s) /\ TypeOK /\ Still(s) /\ Fitted(s)
  BY Whose DEF Ready, ProbeTypes
<1>2. /\ probe[s].pc = "undetached" /\ steady' = Disturbs(p, s) /\ UNCHANGED <<scene, refused>>
      /\ Fault \/ faults' = faults
      /\ proc' = Loosed(p, Left(p, s)) \/ proc' = proc
  BY DEF _resume, Released, Loosed, Left
<1>3. /\ Alone(s) /\ probe'[s].pid = p /\ probe'[s].reads = probe[s].reads
      /\ probe'[s].pc = "report" /\ probe'[s].attach = probe[s].attach /\ probe'[s].warned
  BY <1>1, Resumes DEF Goes, Alone, SameReading, SameTrial
<1>4. Others(s)
  BY <1>1, <1>2, OthersKept
<1>5. Fitted(s)' /\ Known(s)'
  BY <1>1, ResumeKnows
<1>6. p \in Procs
  BY <1>1, <1>2, Whose DEF Fitted, Tracing
<1>7. Hands(s)
  BY <1>1, <1>2, <1>3, <1>6, HandsLeave
<1>8. /\ proc'[p].tracer \in {Left(p, s), proc[p].tracer} /\ proc'[p].state = proc[p].state
  <2>1. Left(p, s) \in Holder
    BY <1>1, <1>6 DEF Left, Holder, TypeOK, Process
  <2> QED
    BY <1>1, <1>2, <1>6, <2>1, LoosedTypes DEF TypeOK
<1>9. steady'[s] => steady[s]
  BY <1>2, <1>7 DEF Hands
<1>10. probe[s].attach = "ok"
  BY <1>1, <1>2 DEF Known, Tried, Tracing
<1>11. Still(s)'
  <2> SUFFICES ASSUME steady[s], p # NoPid, Seat(s).libc
               PROVE  /\ probe'[s].reads = MayRead(s, p)'
                      /\ proc'[p].state = "run" /\ proc'[p].tracer \in {"none", s}
    BY <1>2, <1>3, <1>9, <1>10, SameReach DEF Still, Tracing
  <2>1. proc[p].state = "run" /\ proc[p].tracer = s /\ probe[s].reads = MayRead(s, p)
    BY <1>1, <1>2 DEF Still, Past, Tracing
  <2> QED
    BY <1>2, <1>3, <1>8, <2>1, SameReach DEF Left
<1> QED
  BY <1>3, <1>4, <1>5, <1>7, <1>11 DEF Step


(* A tracer that ends lets go of its tracee: what was refused still is.    *)
LEMMA LettingGo ==
  ASSUME NEW s \in Prober, Ready(s), scene' = scene, probe'[s].pid = probe[s].pid,
         probe'[s].reads = probe[s].reads, probe'[s].attach = probe[s].attach,
         \/ probe[s].pc = "report" /\ probe'[s].pc = "done"
         \/ probe'[s].pc = "killed",
         \A q \in Procs : proc'[q].tracer = Left(q, s) /\ proc'[q].state = proc[q].state,
         steady'[s] => steady[s]
  PROVE  Still(s)'
<1> DEFINE p == probe[s].pid
<1>1. ProbeTypes /\ s \in Seats /\ Known(s) /\ Owned(s) /\ Still(s) /\ p \in Procs \cup {NoPid}
  BY Whose DEF Ready
<1> SUFFICES ASSUME steady[s], p \in Procs, p # NoPid, Seat(s).libc
             PROVE  /\ probe[s].pc = "report" => probe'[s].reads = MayRead(s, p)'
                    /\ probe[s].attach = "denied" => ~MayAttach(s, p)'
                    /\ probe[s].pc = "report" /\ probe[s].attach = "ok" => MayAttach(s, p)'
  BY <1>1, SameReach DEF Still, Past, Tracing
<1>2. proc'[p].tracer = Left(p, s) /\ proc'[p].state = proc[p].state
  OBVIOUS
<1>3. probe[s].pc = "report" => probe'[s].reads = MayRead(s, p)'
  BY <1>1, <1>2, SameReach DEF Still, Past
<1>4. ASSUME probe[s].attach = "denied" PROVE ~MayAttach(s, p)'
  <2>1. ~MayAttach(s, p) /\ proc[p].tracer # s
    BY <1>1, <1>4 DEF Still, Owned
  <2> QED
    BY <1>2, <2>1, SameReach DEF Left
<1>5. ASSUME probe[s].pc = "report", probe[s].attach = "ok" PROVE MayAttach(s, p)'
  <2>1. proc[p].state = "run" /\ proc[p].tracer \in {"none", s} /\ ~Hindered(s, p)
    BY <1>1, <1>5 DEF Still, Known, Tried
  <2> QED
    BY <1>2, <2>1, SameReach DEF Left
<1> QED
  BY <1>3, <1>4, <1>5

LEMMA ReportSteps ==
  ASSUME NEW s \in Prober, Ready(s), Report(s)
  PROVE  Step(s)
<1> DEFINE p == probe[s].pid
<1>1. ProbeTypes /\ s \in Seats /\ Known(s) /\ Owned(s) /\ TypeOK
  BY Whose DEF Ready, ProbeTypes
<1>2. /\ proc' = LetGo(s) /\ UNCHANGED <<scene, faults, refused>>
      /\ steady' = Disturbs(p, s) \/ (steady' = steady /\ proc' = proc)
  BY DEF Report
<1>3. probe[s].pc = "report" /\ Goes(s, "done") /\ Apart(probe'[s], probe[s])
      /\ SameReading(probe'[s], probe[s]) /\ SameTrial(probe'[s], probe[s])
  BY <1>1, Reports
<1>4. /\ Alone(s) /\ probe'[s].pid = p /\ probe'[s].reads = probe[s].reads
      /\ probe'[s].pc = "done" /\ probe'[s].attach = probe[s].attach
  BY <1>3 DEF Goes, Alone, Apart, SameReading, SameTrial
<1>5. Others(s)
  BY <1>1, <1>2, OthersKept
<1>6. Hands(s) /\ \A q \in Procs : proc'[q].tracer = Left(q, s)
  BY <1>1, <1>2, <1>3, HandsLetGo
<1>7. /\ \A q \in Procs : proc'[q].state = proc[q].state
      /\ steady'[s] => steady[s]
  BY <1>3, <1>6 DEF Hands
<1>8. Still(s)'
  BY <1>2, <1>3, <1>4, <1>6, <1>7, LettingGo
<1> QED
  BY <1>1, <1>4, <1>5, <1>6, <1>8, ReportKnows DEF Step

LEMMA KilledSteps ==
  ASSUME NEW s \in Prober, Ready(s), Killed(s)
  PROVE  Step(s)
<1> DEFINE p == probe[s].pid
<1>1. ProbeTypes /\ s \in Seats /\ Known(s) /\ Owned(s) /\ TypeOK
  BY Whose DEF Ready, ProbeTypes
<1>2. /\ proc' = LetGo(s) \/ proc' = Quit(s)
      /\ UNCHANGED <<scene, refused>> /\ Fault /\ steady' = Disturbs(p, s)
      /\ Move(s, "killed", probe[s]) /\ probe[s].pc \notin {"idle", "done", "killed"}
  BY DEF Killed, Quit
<1>3. Keeps(s, "killed")
  BY <1>1, <1>2, Keeping DEF Stage
<1>4. /\ Alone(s) /\ probe'[s].pid = p /\ probe'[s].reads = probe[s].reads
      /\ probe'[s].pc = "killed" /\ probe'[s].attach = probe[s].attach
      /\ Goes(s, "killed") /\ Apart(probe'[s], probe[s])
  BY <1>3 DEF Keeps, Goes, Alone, Apart, SameReading, SameTrial
<1>5. Others(s)
  BY <1>1, <1>2, OthersKept
<1>6. Hands(s) /\ \A q \in Procs : proc'[q].tracer = Left(q, s)
  BY <1>1, <1>2, <1>4, HandsLetGo
<1>7. /\ \A q \in Procs : proc'[q].state = proc[q].state
      /\ steady'[s] => steady[s]
  BY <1>2, <1>6 DEF Hands
<1>8. Still(s)'
  BY <1>2, <1>4, <1>6, <1>7, LettingGo
<1>9. Fitted(s)' /\ Known(s)'
  BY <1>1, <1>2, <1>3, KeepingKnows
<1> QED
  BY <1>4, <1>5, <1>6, <1>8, <1>9 DEF Step

LEMMA ProbeSteps ==
  ASSUME NEW s \in Prober, Ready(s), ProbeStep(s) \/ Killed(s)
  PROVE  Step(s)
  BY BeginSteps, DiscoverSteps, StatusSteps, MatrixSteps, ChildSteps, DeniedSteps, AllowedSteps,
     UnansweredSteps, LeavingSteps, FailingSteps, ResumeSteps, ReportSteps, KilledSteps
  DEF ProbeStep

-----------------------------------------------------------------------------
(* The invariant: what each probe knows, whom each process is held by, and *)
(* that somebody answers for one that is stopped.                          *)
CapInv ==
  /\ TypeOK
  /\ \A s \in Seats : Fitted(s) /\ Owned(s)
  /\ \A p \in Procs : proc[p].stopped => \E s \in Seats : Holds(s, p)
  /\ \A s \in Prober : Known(s) /\ Still(s)

(* What a step elsewhere leaves of what a probe found.                     *)
LEMMA StillStays ==
  ASSUME NEW t, scene' = scene, probe'[t] = probe[t], Still(t),
         steady'[t] => steady[t] /\ (probe[t].pid \in Procs => proc'[probe[t].pid] = proc[probe[t].pid]),
         probe[t].pid \in Procs \cup {NoPid}
  PROVE  Still(t)'
<1> DEFINE p == probe[t].pid
<1> SUFFICES ASSUME steady[t], p # NoPid, Seat(t).libc, proc'[p] = proc[p]
             PROVE  /\ MayRead(t, p)' = MayRead(t, p)
                    /\ MayAttach(t, p)' <=> MayAttach(t, p)
  BY SameReach DEF Still
<1> QED
  BY SameReach

LEMMA InitInv == Init => CapInv
<1> SUFFICES ASSUME Init PROVE CapInv
  OBVIOUS
<1>1. IsScene(scene) /\ faults \in Nat
  BY CapReportAssumption DEF Init, IsScene
<1>2. \A s \in Seats : probe[s] = Blank
  BY DEF Init
<1>3. Blank \in Measured
  BY BlankTypes
<1>4. /\ proc \in [Procs -> Process]
      /\ \A p \in Procs : proc[p].tracer = "none" /\ ~proc[p].stopped
  BY DEF Init, Process
<1>5. TypeOK
  BY <1>1, <1>3, <1>4 DEF Init, TypeOK
<1>6. /\ Blank.pc = "idle" /\ Blank.pid = NoPid /\ Blank.child = "none" /\ Blank.attach = "none"
      /\ ~Blank.warned /\ Blank.reads = {}
  BY DEF Blank
<1>7. \A s \in Seats : Fitted(s)
  BY <1>2, <1>6 DEF Fitted, Tracing
<1>8. \A s \in Seats : Owned(s)
  BY <1>4, CapReportAssumption DEF Owned
<1>9. \A s \in Seats : Known(s) /\ Still(s)
  BY <1>2, <1>6 DEF Known, Tried, Noted, Told, Still, Tracing
<1>10. Prober \subseteq Seats
  BY <1>1 DEF IsScene, Prober
<1> QED
  BY <1>4, <1>5, <1>7, <1>8, <1>9, <1>10 DEF CapInv

LEMMA StepKeeps ==
  ASSUME CapInv, NEW s \in Prober, ProbeStep(s) \/ Killed(s)
  PROVE  CapInv'
<1>1. TypeOK /\ ProbeTypes /\ s \in Seats /\ Prober \subseteq Seats
  BY Whose DEF CapInv, ProbeTypes, TypeOK, IsScene, Prober
<1>2. Ready(s)
  BY <1>1 DEF CapInv, Ready
<1>3. Step(s)
  BY <1>2, ProbeSteps
<1>4. /\ Others(s) /\ Alone(s) /\ Hands(s) /\ Fitted(s)' /\ Known(s)' /\ Still(s)'
  BY <1>3 DEF Step
<1>5. scene' = scene /\ Prober' = Prober
  BY <1>4 DEF Others, Prober
<1>6. TypeOK'
  BY <1>1, <1>4, <1>5 DEF TypeOK, Others, Alone, Hands, IsScene
<1>7. ASSUME NEW t \in Seats \ {s}
      PROVE  /\ Fitted(t)' /\ Owned(t)'
             /\ t \in Prober => Known(t)' /\ Still(t)'
  <2>1. probe'[t] = probe[t] /\ refused'[t] = refused[t]
    BY <1>4, <1>7 DEF Others, Alone
  <2>2. Fitted(t)' /\ (t \in Prober => Known(t)')
    BY <1>5, <2>1, KnownStays DEF CapInv
  <2>3. \A q \in Procs : proc'[q].tracer = t => proc[q].tracer = t
    BY <1>4 DEF Hands
  <2>4. Owned(t)'
    BY <2>1, <2>3 DEF CapInv, Owned
  <2>5. probe[t].pid \in Procs \cup {NoPid}
    BY <1>1 DEF TypeOK, Measured
  <2>6. steady'[t] => steady[t] /\ (probe[t].pid \in Procs => proc'[probe[t].pid] = proc[probe[t].pid])
    BY <1>4 DEF Hands
  <2>7. t \in Prober => Still(t)'
    BY <1>5, <2>1, <2>5, <2>6, StillStays DEF CapInv
  <2> QED
    BY <2>2, <2>4, <2>7
<1>8. ASSUME NEW q \in Procs, proc'[q].stopped
      PROVE  \E t \in Seats : Holds(t, q)'
  <2>1. CASE Holds(s, q)'
    BY <1>1, <2>1
  <2>2. CASE proc[q].stopped /\ ~Holds(s, q)
    <3>1. PICK t \in Seats : Holds(t, q)
      BY <2>2 DEF CapInv
    <3>2. probe'[t] = probe[t]
      BY <1>4, <2>2, <3>1 DEF Alone
    <3>3. Holds(t, q)'
      BY <3>1, <3>2 DEF Holds
    <3> QED
      BY <3>3
  <2> QED
    BY <1>4, <1>8, <2>1, <2>2 DEF Hands
<1>9. Owned(s)'
  BY <1>4 DEF Hands
<1> QED
  BY <1>1, <1>4, <1>5, <1>6, <1>7, <1>8, <1>9 DEF CapInv


(* What somebody else does to a process: it is held, let go, or dies.      *)
OutsideStep(p) == GdbAttaches(p) \/ GdbLeaves(p) \/ Exits(p) \/ IsReaped(p)

LEMMA OutsideTypes ==
  ASSUME TypeOK, NEW p \in Procs, OutsideStep(p)
  PROVE  /\ proc' \in [Procs -> Process]
         /\ \A q \in Procs \ {p} : proc'[q] = proc[q]
         /\ proc'[p].tracer \in {proc[p].tracer, "none", "gdb"}
         /\ proc'[p].stopped => proc[p].stopped
         /\ UNCHANGED <<scene, probe, refused>> /\ faults' \in Nat
         /\ steady' \in [Seats -> BOOLEAN]
         /\ \A t \in Seats : steady'[t] => steady[t] /\ probe[t].pid # p
<1>1. proc \in [Procs -> Process] /\ faults \in Nat /\ steady \in [Seats -> BOOLEAN]
  BY DEF TypeOK
<1>2. "gdb" \notin Seats /\ "kernel" \notin Seats
  BY CapReportAssumption
<1>3. \A t \in Seats : Disturbs(p, "gdb")[t] => steady[t] /\ probe[t].pid # p
  BY <1>2 DEF Disturbs
<1>4. \A t \in Seats : Disturbs(p, "kernel")[t] => steady[t] /\ probe[t].pid # p
  BY <1>2 DEF Disturbs
<1>5. Disturbs(p, "gdb") \in [Seats -> BOOLEAN] /\ Disturbs(p, "kernel") \in [Seats -> BOOLEAN]
  BY <1>1 DEF Disturbs
<1>6. CASE GdbAttaches(p)
  <2>1. proc' = Held(p, "gdb") /\ steady' = Disturbs(p, "gdb") /\ Fault
        /\ UNCHANGED <<scene, probe, refused>>
    BY <1>6 DEF GdbAttaches, Held
  <2>2. faults' \in Nat
    BY <1>1, <2>1 DEF Fault
  <2> QED
    BY <1>1, <1>3, <1>5, <2>1, <2>2, HeldTypes DEF Holder
<1>7. CASE GdbLeaves(p)
  <2>1. proc' = Held(p, "none") /\ steady' = Disturbs(p, "gdb")
        /\ UNCHANGED <<scene, probe, faults, refused>>
    BY <1>7 DEF GdbLeaves, Held
  <2> QED
    BY <1>1, <1>3, <1>5, <2>1, HeldTypes DEF Holder
<1>8. CASE Exits(p)
  <2> DEFINE dead == [state |-> "zombie", tracer |-> "none", stopped |-> FALSE]
  <2>1. proc' = [proc EXCEPT ![p] = dead] /\ steady' = Disturbs(p, "kernel") /\ Fault
        /\ UNCHANGED <<scene, probe, refused>>
    BY <1>8 DEF Exits
  <2>2. dead \in Process /\ dead.tracer = "none" /\ ~dead.stopped
    BY DEF Process
  <2>3. faults' \in Nat
    BY <1>1, <2>1 DEF Fault
  <2> HIDE DEF dead
  <2> QED
    BY <1>1, <1>4, <1>5, <2>1, <2>2, <2>3
<1>9. CASE IsReaped(p)
  <2> DEFINE f == [proc EXCEPT ![p].state = "gone"]
  <2>1. proc' = f /\ steady' = Disturbs(p, "kernel")
        /\ UNCHANGED <<scene, probe, faults, refused>>
    BY <1>9 DEF IsReaped
  <2>2. /\ f \in [Procs -> Process] /\ \A q \in Procs \ {p} : f[q] = proc[q]
        /\ f[p].tracer = proc[p].tracer /\ f[p].stopped = proc[p].stopped
    BY <1>1 DEF Process
  <2> HIDE DEF f
  <2> QED
    BY <1>1, <1>4, <1>5, <2>1, <2>2
<1> QED
  BY <1>6, <1>7, <1>8, <1>9 DEF OutsideStep

LEMMA OutsideKeeps ==
  ASSUME CapInv, NEW p \in Procs, OutsideStep(p)
  PROVE  CapInv'
<1>1. TypeOK
  BY DEF CapInv
<1>2. /\ proc' \in [Procs -> Process]
      /\ \A q \in Procs \ {p} : proc'[q] = proc[q]
      /\ proc'[p].tracer \in {proc[p].tracer, "none", "gdb"}
      /\ proc'[p].stopped => proc[p].stopped
      /\ scene' = scene /\ probe' = probe /\ refused' = refused /\ faults' \in Nat
      /\ steady' \in [Seats -> BOOLEAN]
      /\ \A t \in Seats : steady'[t] => steady[t] /\ probe[t].pid # p
  BY <1>1, OutsideTypes
<1>3. TypeOK'
  BY <1>1, <1>2 DEF TypeOK, IsScene
<1>4. Prober' = Prober /\ Prober \subseteq Seats
  BY <1>1, <1>2 DEF Prober, TypeOK, IsScene
<1>5. ASSUME NEW t \in Seats
      PROVE  Fitted(t)' /\ Owned(t)' /\ (t \in Prober => Known(t)' /\ Still(t)')
  <2>1. Fitted(t)' /\ (t \in Prober => Known(t)')
    BY <1>2, KnownStays DEF CapInv
  <2>2. \A q \in Procs : proc'[q].tracer = t => proc[q].tracer = t
    BY <1>2, CapReportAssumption
  <2>3. Owned(t)'
    BY <1>2, <2>2 DEF CapInv, Owned
  <2>4. probe[t].pid \in Procs \cup {NoPid}
    BY <1>1 DEF TypeOK, Measured
  <2>5. t \in Prober => Still(t)'
    BY <1>2, <2>4, StillStays DEF CapInv
  <2> QED
    BY <2>1, <2>3, <2>5
<1>6. \A q \in Procs : proc'[q].stopped => \E t \in Seats : Holds(t, q)'
  <2>1. \A q \in Procs : proc'[q].stopped => proc[q].stopped
    BY <1>2
  <2> QED
    BY <1>2, <2>1 DEF CapInv, Holds
<1> QED
  BY <1>3, <1>4, <1>5, <1>6 DEF CapInv

LEMMA StutterKeeps == CapInv /\ UNCHANGED vars => CapInv'
<1> SUFFICES ASSUME CapInv, UNCHANGED vars PROVE CapInv'
  OBVIOUS
<1>1. /\ scene' = scene /\ proc' = proc /\ probe' = probe /\ faults' = faults
      /\ steady' = steady /\ refused' = refused
  BY DEF vars
<1>2. TypeOK' /\ Prober' = Prober
  BY <1>1 DEF CapInv, TypeOK, IsScene, Prober
<1>3. \A t \in Seats : Fitted(t)' /\ Owned(t)'
  BY <1>1, KnownStays DEF CapInv, Owned
<1>4. \A t \in Prober : Known(t)' /\ Still(t)'
  <2> TAKE t \in Prober
  <2>1. t \in Seats
    BY DEF CapInv, TypeOK, IsScene, Prober
  <2>2. probe[t].pid \in Procs \cup {NoPid}
    BY <2>1 DEF CapInv, TypeOK, Measured
  <2> QED
    BY <1>1, <2>2, KnownStays, StillStays DEF CapInv
<1>5. \A q \in Procs : proc'[q].stopped => \E t \in Seats : Holds(t, q)'
  BY <1>1 DEF CapInv, Holds
<1> QED
  BY <1>2, <1>3, <1>4, <1>5 DEF CapInv

LEMMA InvAlways == Spec => []CapInv
<1>1. CapInv /\ [Next]_vars => CapInv'
  <2> SUFFICES ASSUME CapInv, Next PROVE CapInv'
    BY StutterKeeps
  <2>1. CASE \E s \in DOMAIN scene.seats : ProbeStep(s) \/ Killed(s)
    BY <2>1, StepKeeps DEF Prober
  <2>2. CASE \E p \in Procs : OutsideStep(p)
    BY <2>2, OutsideKeeps
  <2> QED
    BY <2>1, <2>2 DEF Next, OutsideStep
<1> QED
  BY InitInv, <1>1, PTL DEF Spec

-----------------------------------------------------------------------------
(* The state of every pod that is probed has its types, whatever fails.    *)
THEOREM CapReportTypes == Spec => []TypeOK
<1>1. CapInv => TypeOK
  BY DEF CapInv
<1> QED
  BY InvAlways, <1>1, PTL

(* However many seats probe the same process and whichever of their calls  *)
(* fail, one that is left stopped is at a probe that is still at work on   *)
(* it, that was killed there, or whose report says so (_resume).           *)
THEOREM WorkloadAlwaysRunsOn == Spec => []WorkloadRunsOn
<1>1. CapInv => WorkloadRunsOn
  BY DEF CapInv, WorkloadRunsOn, Holds
<1> QED
  BY InvAlways, <1>1, PTL

(* What a report names as having said no did say no, though the ids, the   *)
(* tracer and the attempt are read at different times (_classify_denial).  *)
THEOREM NamedMechanismAlwaysRefused == Spec => []NamedMechanismRefuses
<1>1. CapInv => NamedMechanismRefuses
  BY DEF CapInv, NamedMechanismRefuses, Answered, Known, Told, Prober, Blameless
<1> QED
  BY InvAlways, <1>1, PTL

(* The verdict, the row of a listing and the boxes an attach ticks are what *)
(* the kernel allows of a process nobody else touched, and claim nothing   *)
(* of one that was not found (derive_verdict, measured_verdict, features). *)
THEOREM VerdictsAreAlwaysMeasured == Spec => []VerdictsAreMeasured
<1>1. ASSUME CapInv, NEW s \in Prober, Answered(s)
      PROVE  /\ probe[s].child \in {"ok", "denied"} /\ probe[s].attach \in {"ok", "denied"}
             /\ probe[s].child = "ok" <=> MayTraceChild(s)
             /\ probe[s].verdict =
                  IF probe[s].child = "denied"
                    THEN IF ptrace_reads_ok(probe[s].reads) THEN "READ_ONLY" ELSE "NONE"
                  ELSE IF probe[s].attach = "ok" THEN "LIVE_ATTACH"
                  ELSE IF ptrace_reads_ok(probe[s].reads) THEN "READ_ONLY" ELSE "LAUNCH_ONLY"
             /\ probe[s].attach = "ok" => MayTraceChild(s)
             /\ steady[s] => /\ probe[s].reads = MayRead(s, probe[s].pid)
                             /\ probe[s].attach = "ok" <=> MayAttach(s, probe[s].pid)
  <2>1. Known(s) /\ Still(s)
    BY <1>1 DEF CapInv
  <2>2. probe[s].child \in {"ok", "denied"} /\ probe[s].attach \in {"ok", "denied"}
    BY <1>1, <2>1 DEF Known, Tried, Answered
  <2>3. probe[s].attach = "ok" => MayTraceChild(s)
    BY <2>1, AttachAllowed DEF Known, Tried
  <2>4. probe[s].child = "ok" <=> MayTraceChild(s)
    BY <2>1, <2>2 DEF Known, Tried
  <2>5. steady[s] => /\ probe[s].reads = MayRead(s, probe[s].pid)
                     /\ probe[s].attach = "ok" <=> MayAttach(s, probe[s].pid)
    BY <1>1, <2>1, <2>2 DEF Still, Answered, Past, Tracing
  <2> QED
    BY <1>1, <2>1, <2>2, <2>3, <2>4, <2>5 DEF Known, Told, Answered
<1>2. CapInv => VerdictIsTheKernels
  BY <1>1 DEF VerdictIsTheKernels, TheKernelsVerdict, ptrace_reads_ok, Prober
<1>3. ASSUME CapInv, NEW s \in Prober, probe[s].pc = "done"
      PROVE  LET row == _seat_verdict(s)
             IN /\ row \in {"LIVE_ATTACH", "READ_ONLY"} => probe[s].pid # NoPid
                /\ row = "LAUNCH_ONLY" => MayTraceChild(s)
                /\ Answered(s) /\ steady[s] => row = TheKernelsVerdict(s)
                /\ Answered(s) /\ steady[s] /\ "attach" \in features(s) => row = "LIVE_ATTACH"
  <2> DEFINE m == probe[s]
             r == capability_report_from_json(s, m)
             row == _seat_verdict(s)
  <2>1. ProbeTypes /\ Known(s)
    BY <1>3 DEF CapInv, ProbeTypes
  <2>2. m \in Measured /\ Fitted(s)
    BY <2>1, Whose
  <2>3. /\ r.attach = m.attach /\ r.reads = m.reads /\ r.child = m.child /\ r.matrix = m.matrix
        /\ r.verdict = "LIVE_ATTACH" => m.verdict = "LIVE_ATTACH"
    BY <2>2 DEF capability_report_from_json, Measured
  <2>4. row = measured_verdict(r)
    BY <1>3 DEF _seat_verdict
  <2>5. "attach" \in features(s) => r.verdict = "LIVE_ATTACH"
    BY DEF features
  <2> HIDE DEF r
  <2>6. row = IF m.attach = "ok" THEN "LIVE_ATTACH"
              ELSE IF ptrace_reads_ok(m.reads) THEN "READ_ONLY"
              ELSE IF m.child = "ok" THEN "LAUNCH_ONLY"
              ELSE IF m.attach \in {"none", "skipped"} /\ m.child # "denied" /\ ~m.matrix
                THEN NOT_PROBED
              ELSE "NONE"
    BY <2>3, <2>4 DEF measured_verdict, Unattempted
  <2> HIDE DEF row
  <2>7. row \in {"LIVE_ATTACH", "READ_ONLY"} => m.pid # NoPid
    BY <2>2, <2>6 DEF Fitted, ptrace_reads_ok, PTRACE_READ_PATHS, NOT_PROBED
  <2>8. row = "LAUNCH_ONLY" => MayTraceChild(s)
    BY <2>1, <2>6 DEF Known, Tried, NOT_PROBED
  <2>9. Answered(s) /\ steady[s] => row = TheKernelsVerdict(s)
    BY <1>1, <1>3, <2>6 DEF TheKernelsVerdict, ptrace_reads_ok
  <2>10. Answered(s) /\ steady[s] /\ "attach" \in features(s) => row = "LIVE_ATTACH"
    BY <1>1, <1>3, <2>3, <2>5, <2>6
  <2> QED
    BY <2>7, <2>8, <2>9, <2>10 DEF row
<1>4. CapInv => RowClaimsWhatWasMeasured
  BY <1>3 DEF RowClaimsWhatWasMeasured, Prober
<1> QED
  BY InvAlways, <1>2, <1>4, PTL DEF VerdictsAreMeasured


=============================================================================

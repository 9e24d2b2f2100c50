--------------------------- MODULE RunLoopProofs ---------------------------
(***************************************************************************)
(* What holds of the inner loop for every set of pids and every number of  *)
(* command lines, births and crashes.  The signals are right for any       *)
(* number of callers; the record and the port are right for one command at *)
(* a time, OneCaller.                                                      *)
(***************************************************************************)
EXTENDS RunLoop, FiniteSetTheorems, TLAPS

(* The stages in which a caller uses the record it loaded, or its child. *)
Stopping == {"check", "term", "grace", "kill", "clear"}
Starting == {"snapshot", "save", "verify", "ss", "inode"}

InHand == \A c \in Callers : /\ pc[c] \in Stopping => held[c] \in RunState
                             /\ pc[c] \in Starting => child[c] \in RunState

Typed == TypeOK /\ InHand

-----------------------------------------------------------------------------
(* Types. *)

LEMMA TypedInit == Init => Typed
  BY RunLoopAssumption DEF Init, Typed, TypeOK, InHand, Stopping, Starting, RunState, NoRecord,
       None, Stage, Verb, Unknown, Process

LEMMA TypedCaller ==
  ASSUME Typed, NEW c \in Callers,
         \/ LoadState(c) \/ Look(c) \/ Term(c) \/ GraceOver(c) \/ Kill(c) \/ ClearState(c)
         \/ Preflight(c) \/ Spawn(c) \/ Snapshot(c) \/ SaveState(c)
         \/ Verify(c) \/ Ss(c) \/ Inode(c) \/ Crash(c) \/ (\E v \in Verb : Begin(c, v))
  PROVE  Typed'
<1> USE DEF Typed, TypeOK, InHand, Goto, Return, kernel, Stage, Stopping, Starting
<1>1. CASE LoadState(c)
  BY <1>1 DEF LoadState, Stopped, NoRecord, RunState
<1>2. CASE Look(c)
  BY <1>2 DEF Look
<1>3. CASE Term(c)
  BY <1>3 DEF Term, Signal
<1>4. CASE GraceOver(c)
  BY <1>4 DEF GraceOver
<1>5. CASE Kill(c)
  <2>1. held[c].pid \in Pids
    BY <1>5 DEF Kill, RunState
  <2>2. AliveAt(held[c].pid) => [proc[held[c].pid] EXCEPT !.doomed = TRUE] \in Process
    BY <2>1 DEF AliveAt, Exists, Process
  <2>3. proc' \in [Pids -> Process \cup {None}]
    BY <1>5, <2>1, <2>2 DEF Kill
  <2> QED
    BY <1>5, <2>3 DEF Kill, Signal
<1>6. CASE ClearState(c)
  BY <1>6 DEF ClearState, Stopped
<1>7. CASE Preflight(c)
  BY <1>7 DEF Preflight
<1>8. CASE Spawn(c)
  <2>1. CASE Return(c, "failed") /\ UNCHANGED <<kernel, child>>
    BY <1>8, <2>1 DEF Spawn
  <2>2. ASSUME NEW p \in Pids, NEW shares \in BOOLEAN, ~Exists(p),
               proc' = [proc EXCEPT ![p] = Fresh(TRUE, shares)], births' = births + 1,
               child' = [child EXCEPT ![c] = [pid |-> p, ticks |-> Unknown, of |-> births + 1]],
               Goto(c, "snapshot")
        PROVE  Typed'
    <3>1. Fresh(TRUE, shares) \in Process
      BY DEF Fresh, Process
    <3>2. [pid |-> p, ticks |-> Unknown, of |-> births + 1] \in RunState
      BY DEF RunState, Unknown
    <3>3. proc' \in [Pids -> Process \cup {None}]
      BY <2>2, <3>1
    <3>5. births' \in Nat
      BY <2>2
    <3>4. child' \in [Callers -> RunState \cup {NoRecord}] /\ child'[c] \in RunState
      BY <2>2, <3>2
    <3> QED
      BY <1>8, <2>2, <3>3, <3>4, <3>5 DEF Spawn
  <2> QED
    BY <1>8, <2>1, <2>2 DEF Spawn
<1>9. CASE Snapshot(c)
  <2> DEFINE ticks == IF Exists(child[c].pid) THEN proc[child[c].pid].born ELSE Unknown
  <2>1. child[c] \in RunState /\ child[c].pid \in Pids
    BY <1>9 DEF Snapshot, RunState
  <2>2. ticks \in (Nat \ {0}) \cup {Unknown}
    BY <2>1 DEF Exists, Process
  <2> HIDE DEF ticks
  <2>3. [child[c] EXCEPT !.ticks = ticks] \in RunState
    BY <2>1, <2>2 DEF RunState
  <2>4. child' = [child EXCEPT ![c] = [child[c] EXCEPT !.ticks = ticks]]
    BY <1>9 DEF Snapshot, ticks
  <2> QED
    BY <1>9, <2>3, <2>4 DEF Snapshot
<1>10. CASE SaveState(c)
  BY <1>10 DEF SaveState
<1>11. CASE Verify(c)
  BY <1>11 DEF Verify
<1>12. CASE Ss(c)
  <2>1. seen' \in [Callers -> Nat]
    BY <1>12 DEF Ss, Listening, Exists, Process
  <2> QED
    BY <1>12, <2>1 DEF Ss, PollOrTimeOut
<1>13. CASE Inode(c)
  BY <1>13 DEF Inode, PollOrTimeOut
<1>14. CASE Crash(c)
  BY <1>14 DEF Crash
<1>15. CASE \E v \in Verb : Begin(c, v)
  BY <1>15 DEF Begin
<1> QED
  BY <1>1, <1>2, <1>3, <1>4, <1>5, <1>6, <1>7, <1>8, <1>9, <1>10, <1>11, <1>12, <1>13, <1>14, <1>15

LEMMA TypedKernel ==
  ASSUME Typed, NEW p \in Pids, Bind(p) \/ Exit(p) \/ Reap(p) \/ OtherStarts(p)
  PROVE  Typed'
<1>1. proc' \in [Pids -> Process \cup {None}] /\ births' \in Nat
  <2>1. CASE Bind(p)
    BY <2>1 DEF Typed, TypeOK, Bind, AliveAt, Exists, Process
  <2>2. CASE Exit(p)
    BY <2>2 DEF Typed, TypeOK, Exit, AliveAt, Exists, Process
  <2>3. CASE Reap(p)
    BY <2>3 DEF Typed, TypeOK, Reap
  <2>4. CASE OtherStarts(p)
    BY <2>4 DEF Typed, TypeOK, OtherStarts, Fresh, Process
  <2> QED
    BY <2>1, <2>2, <2>3, <2>4
<1> QED
  BY <1>1 DEF Typed, TypeOK, InHand, Bind, Exit, Reap, OtherStarts, Unseen, callers

LEMMA TypedNext == Typed /\ [Next]_vars => Typed'
<1> SUFFICES ASSUME Typed, [Next]_vars
             PROVE  Typed'
  OBVIOUS
<1>1. CASE UNCHANGED vars
  BY <1>1 DEF vars, Typed, TypeOK, InHand
<1>2. CASE Next
  BY <1>2, TypedCaller, TypedKernel DEF Next, Step
<1> QED
  BY <1>1, <1>2

(* A process is one, its birth is past, and the record, what a caller loaded *)
(* and what it started are records of processes, in every reachable state.   *)
THEOREM RunLoopTypeCorrect == Spec => []TypeOK
<1>1. Typed => TypeOK
  BY DEF Typed
<1> QED
  BY <1>1, TypedInit, TypedNext, PTL DEF Spec

-----------------------------------------------------------------------------
(* What a step does to the processes: it ends, signals or binds some, or one *)
(* more is born.                                                             *)

NoBirth ==
  /\ births' = births
  /\ \A p \in Pids : Exists(p)' => /\ Exists(p)
                                   /\ proc'[p].born = proc[p].born
                                   /\ proc'[p].app = proc[p].app
                                   /\ AliveAt(p)' => AliveAt(p)
                                   /\ proc[p].doomed => proc'[p].doomed

Birth ==
  /\ births' = births + 1
  /\ \E p \in Pids, app, shares \in BOOLEAN :
       ~Exists(p) /\ proc' = [proc EXCEPT ![p] = Fresh(app, shares)]

LEMMA ProcessFacts ==
  ASSUME Typed, NEW p \in Pids
  PROVE  /\ proc[p].born \in Nat
         /\ Exists(p) => proc[p].born \in Nat \ {0}
         /\ proc[p].born = 0 <=> ~Exists(p)
         /\ births \in Nat
  BY DEF Typed, TypeOK, Exists, Process, None

LEMMA KernelMoves ==
  ASSUME Typed, [Next]_vars
  PROVE  NoBirth \/ Birth
<1>1. CASE UNCHANGED kernel
  BY <1>1 DEF kernel, NoBirth, Exists, AliveAt
<1>2. ASSUME NEW c \in Callers, Spawn(c)
      PROVE  NoBirth \/ Birth
  <2>1. CASE UNCHANGED kernel
    BY <1>1, <2>1
  <2> QED
    BY <1>2, <2>1 DEF Spawn, Birth
<1>3. ASSUME NEW c \in Callers, Kill(c)
      PROVE  NoBirth
  <2>1. held[c].pid \in Pids
    BY <1>3 DEF Kill, Typed, InHand, Stopping, RunState
  <2>2. CASE AliveAt(held[c].pid)
    <3>1. /\ births' = births
          /\ proc' = [proc EXCEPT ![held[c].pid] = [proc[held[c].pid] EXCEPT !.doomed = TRUE]]
      BY <1>3, <2>2 DEF Kill
    <3>2. \A p \in Pids \ {held[c].pid} : proc'[p] = proc[p]
      BY <3>1 DEF Typed, TypeOK
    <3>3. /\ proc'[held[c].pid].born = proc[held[c].pid].born
          /\ proc'[held[c].pid].app = proc[held[c].pid].app
          /\ proc'[held[c].pid].doomed
      BY <2>1, <2>2, <3>1 DEF Typed, TypeOK, AliveAt, Exists, Process
    <3> QED
      BY <2>1, <2>2, <3>1, <3>2, <3>3 DEF NoBirth, Exists, AliveAt
  <2>3. CASE ~AliveAt(held[c].pid)
    BY <1>3, <2>3 DEF Kill, NoBirth, Exists, AliveAt
  <2> QED
    BY <2>2, <2>3
<1>4. ASSUME NEW p \in Pids, Bind(p) \/ Exit(p)
      PROVE  NoBirth
  <2>1. proc[p] \in Process /\ births' = births
    BY <1>4 DEF Bind, Exit, Typed, TypeOK, AliveAt, Exists
  <2>2. CASE Bind(p)
    BY <2>1, <2>2 DEF Bind, NoBirth, Exists, AliveAt, Process, Typed, TypeOK
  <2>3. CASE Exit(p)
    BY <2>1, <2>3 DEF Exit, NoBirth, Exists, AliveAt, Process, Typed, TypeOK
  <2> QED
    BY <1>4, <2>2, <2>3
<1>5. ASSUME NEW p \in Pids, Reap(p)
      PROVE  NoBirth
  BY <1>5 DEF Reap, NoBirth, Exists, AliveAt, Typed, TypeOK
<1>6. ASSUME NEW p \in Pids, OtherStarts(p)
      PROVE  Birth
  BY <1>6 DEF OtherStarts, Birth
<1>7. ASSUME NEW c \in Callers, Step(c) \/ Crash(c) \/ \E v \in Verb : Begin(c, v)
      PROVE  NoBirth \/ Birth
  <2>1. CASE Spawn(c) \/ Kill(c)
    BY <1>2, <1>3, <2>1
  <2>2. CASE UNCHANGED kernel
    BY <1>1, <2>2
  <2> QED
    BY <1>7, <2>1, <2>2 DEF Step, LoadState, Look, Term, GraceOver, ClearState, Preflight,
       Snapshot, SaveState, Verify, Ss, Inode, Crash, Begin
<1>8. CASE UNCHANGED vars
  BY <1>1, <1>8 DEF vars, kernel
<1> QED
  BY <1>4, <1>5, <1>6, <1>7, <1>8 DEF Next

-----------------------------------------------------------------------------
(* Births tell processes apart, and what a caller remembers is of the past.  *)

Aged ==
  /\ \A p \in Pids : proc[p].born <= births
  /\ \A p, q \in Pids : Exists(p) /\ proc[p].born = proc[q].born => p = q
  /\ record.of <= births
  /\ \A c \in Callers : held[c].of <= births /\ child[c].of <= births /\ looked[c] <= births

(* Since the caller looked and saw the process of its record, its pid bears  *)
(* that process, a later one or none.                                        *)
Sighted ==
  \A c \in Callers :
    /\ pc[c] \in {"term", "grace", "kill"} /\ held[c].ticks = held[c].of
    /\ Exists(held[c].pid)
    => Hits(c) = held[c].of \/ Hits(c) > looked[c]

LEMMA KernelAges ==
  ASSUME Typed, Aged, NoBirth \/ Birth
  PROVE  /\ births <= births' /\ births' \in Nat
         /\ \A p \in Pids : proc'[p].born <= births'
         /\ \A p, q \in Pids : Exists(p)' /\ proc'[p].born = proc'[q].born => p = q
         /\ \A p \in Pids : Exists(p)' => \/ Exists(p) /\ proc'[p].born = proc[p].born
                                          \/ proc'[p].born > births
<1>1. CASE NoBirth
  <2>1. births' = births /\ births \in Nat
    BY <1>1 DEF NoBirth, Typed, TypeOK
  <2>2. \A p \in Pids : \/ Exists(p)' /\ Exists(p) /\ proc'[p].born = proc[p].born
                        \/ ~Exists(p)' /\ proc'[p].born = 0
    <3>1. None.born = 0
      BY DEF None
    <3>2. \A p \in Pids : ~Exists(p)' => proc'[p] = None
      BY DEF Exists
    <3>3. \A p \in Pids : Exists(p)' => Exists(p) /\ proc'[p].born = proc[p].born
      BY <1>1 DEF NoBirth, Exists
    <3> QED
      BY <3>1, <3>2, <3>3
  <2>3. \A p \in Pids : Exists(p) => proc[p].born # 0
    BY ProcessFacts
  <2> QED
    BY <2>1, <2>2, <2>3 DEF Aged
<1>2. CASE Birth
  <2>1. PICK b \in Pids, app, shares \in BOOLEAN :
          ~Exists(b) /\ proc' = [proc EXCEPT ![b] = Fresh(app, shares)]
    BY <1>2 DEF Birth
  <2>2. births' = births + 1 /\ births \in Nat
    BY <1>2 DEF Birth, Typed, TypeOK
  <2>3. proc'[b].born = births + 1 /\ Exists(b)'
    BY <2>1, <2>2 DEF Fresh, Exists, None, Typed, TypeOK
  <2>4. \A p \in Pids \ {b} : proc'[p] = proc[p] /\ (Exists(p)' <=> Exists(p))
    BY <2>1 DEF Exists, Typed, TypeOK
  <2>5. \A p \in Pids : proc[p].born \in Nat
    BY ProcessFacts
  <2> QED
    BY <2>2, <2>3, <2>4, <2>5 DEF Aged
<1> QED
  BY <1>1, <1>2

LEMMA AgedInit == Init => Aged /\ Sighted
  BY DEF Init, Aged, Sighted, None, NoRecord, Exists

LEMMA AgedNext ==
  ASSUME Typed, Aged, [Next]_vars
  PROVE  Aged'
<1>1. /\ births <= births' /\ births' \in Nat
      /\ \A p \in Pids : proc'[p].born <= births'
      /\ \A p, q \in Pids : Exists(p)' /\ proc'[p].born = proc'[q].born => p = q
  BY KernelMoves, KernelAges
<1>2. /\ record.of \in Nat /\ births \in Nat
      /\ \A c \in Callers : held[c].of \in Nat /\ child[c].of \in Nat /\ looked[c] \in Nat
  BY DEF Typed, TypeOK, RunState, NoRecord
<1>3. record'.of <= births'
  <2>1. CASE UNCHANGED record
    BY <1>1, <1>2, <2>1 DEF Aged
  <2>2. ASSUME NEW c \in Callers, SaveState(c) \/ ClearState(c)
        PROVE  record'.of <= births'
    BY <1>1, <1>2, <2>2 DEF Aged, SaveState, ClearState, NoRecord
  <2> QED
    BY <2>1, <2>2 DEF Next, vars, Step, LoadState, Look, Term, GraceOver, Kill, Preflight, Spawn,
       Snapshot, Verify, Ss, Inode, Crash, Begin, Bind, Exit, Reap, OtherStarts, Unseen
<1>4. \A c \in Callers : held'[c].of <= births'
  <2>1. CASE UNCHANGED held
    BY <1>1, <1>2, <2>1 DEF Aged
  <2>2. ASSUME NEW c \in Callers, LoadState(c) \/ \E v \in Verb : Begin(c, v)
        PROVE  \A d \in Callers : held'[d].of <= births'
    <3>1. held' \in {[held EXCEPT ![c] = record], [held EXCEPT ![c] = NoRecord]}
      BY <2>2 DEF LoadState, Begin
    <3> QED
      BY <1>1, <1>2, <3>1 DEF Aged, NoRecord, Typed, TypeOK
  <2> QED
    BY <2>1, <2>2 DEF Next, vars, Step, Look, Term, GraceOver, Kill, ClearState, Preflight, Spawn,
       Snapshot, SaveState, Verify, Ss, Inode, Crash, Bind, Exit, Reap, OtherStarts, Unseen, callers
<1>5. \A c \in Callers : child'[c].of <= births'
  <2>1. CASE UNCHANGED child
    BY <1>1, <1>2, <2>1 DEF Aged
  <2>2. ASSUME NEW c \in Callers, Snapshot(c) \/ \E v \in Verb : Begin(c, v)
        PROVE  \A d \in Callers : child'[d].of <= births'
    <3>1. CASE Snapshot(c)
      <4>1. child[c] \in RunState
        BY <3>1 DEF Snapshot, Typed, InHand, Starting
      <4>2. \A d \in Callers : child'[d].of = child[d].of
        BY <3>1, <4>1 DEF Snapshot, RunState, Typed, TypeOK
      <4> QED
        BY <1>1, <1>2, <4>2 DEF Aged
    <3>2. CASE \E v \in Verb : Begin(c, v)
      BY <1>1, <1>2, <3>2 DEF Begin, Aged, NoRecord, Typed, TypeOK
    <3> QED
      BY <2>2, <3>1, <3>2
  <2>3. ASSUME NEW c \in Callers, Spawn(c), ~UNCHANGED child
        PROVE  \A d \in Callers : child'[d].of <= births'
    <3>1. PICK p \in Pids :
            /\ births' = births + 1
            /\ child' = [child EXCEPT ![c] = [pid |-> p, ticks |-> Unknown, of |-> births + 1]]
      BY <2>3 DEF Spawn
    <3> QED
      BY <1>1, <1>2, <3>1 DEF Aged, Typed, TypeOK
  <2> QED
    BY <2>1, <2>2, <2>3 DEF Next, vars, Step, LoadState, Look, Term, GraceOver, Kill, ClearState,
       Preflight, SaveState, Verify, Ss, Inode, Crash, Bind, Exit, Reap, OtherStarts, Unseen,
       callers
<1>6. \A c \in Callers : looked'[c] <= births'
  <2>1. CASE UNCHANGED looked
    BY <1>1, <1>2, <2>1 DEF Aged
  <2>2. ASSUME NEW c \in Callers, Look(c)
        PROVE  \A d \in Callers : looked'[d] <= births'
    BY <1>1, <1>2, <2>2 DEF Aged, Look, Typed, TypeOK
  <2> QED
    BY <2>1, <2>2 DEF Next, vars, Step, LoadState, Term, GraceOver, Kill, ClearState, Preflight,
       Spawn, Snapshot, SaveState, Verify, Ss, Inode, Crash, Begin, Bind, Exit, Reap, OtherStarts,
       Unseen, callers
<1> QED
  BY <1>1, <1>3, <1>4, <1>5, <1>6 DEF Aged

LEMMA SightedNext ==
  ASSUME Typed, Aged, Sighted, [Next]_vars
  PROVE  Sighted'
<1> SUFFICES ASSUME NEW c \in Callers,
                    pc'[c] \in {"term", "grace", "kill"}, held'[c].ticks = held'[c].of,
                    Exists(held[c].pid)'
             PROVE  Hits(c)' = held'[c].of \/ Hits(c)' > looked'[c]
  BY DEF Sighted
<1>1. \A p \in Pids : Exists(p)' => \/ Exists(p) /\ proc'[p].born = proc[p].born
                                    \/ proc'[p].born > births
  BY KernelMoves, KernelAges
<1>2. CASE Look(c)
  <2>1. held' = held /\ proc' = proc /\ held[c] \in RunState
    BY <1>2 DEF Look, kernel, Typed, InHand, Stopping
  <2>2. IsLive(held[c])
    BY <1>2 DEF Look, Goto, Typed, TypeOK
  <2>3. held[c].ticks # Unknown
    BY <2>1 DEF RunState, Unknown
  <2> QED
    BY <2>1, <2>2, <2>3 DEF IsLive, Hits
<1>3. CASE /\ pc[c] \in {"term", "grace", "kill"}
           /\ held'[c] = held[c] /\ looked'[c] = looked[c]
  <2>1. held[c].pid \in Pids
    BY <1>3 DEF Typed, InHand, Stopping, RunState
  <2>2. \/ Exists(held[c].pid) /\ proc'[held[c].pid].born = proc[held[c].pid].born
        \/ proc'[held[c].pid].born > births
    BY <1>1, <1>3, <2>1
  <2>3. looked[c] \in Nat /\ births \in Nat /\ looked[c] <= births
    BY DEF Aged, Typed, TypeOK
  <2>4. proc' \in [Pids -> Process \cup {None}]
    BY TypedNext DEF Typed, TypeOK
  <2>5. proc'[held[c].pid].born \in Nat
    BY <2>1, <2>4 DEF Process, None
  <2> QED
    BY <1>3, <2>2, <2>3, <2>5 DEF Sighted, Hits
<1>4. ~Look(c) => /\ pc[c] \in {"term", "grace", "kill"}
                  /\ held'[c] = held[c] /\ looked'[c] = looked[c]
  <2> SUFFICES ASSUME ~Look(c)
               PROVE  /\ pc[c] \in {"term", "grace", "kill"}
                      /\ held'[c] = held[c] /\ looked'[c] = looked[c]
    OBVIOUS
  <2> USE DEF Goto, Return, Typed, TypeOK
  <2>1. CASE UNCHANGED callers
    BY <2>1 DEF callers
  <2>2. ASSUME NEW d \in Callers, d # c, Step(d) \/ Crash(d) \/ \E v \in Verb : Begin(d, v)
        PROVE  pc'[c] = pc[c] /\ held'[c] = held[c] /\ looked'[c] = looked[c]
    BY <2>2 DEF Step, LoadState, Look, Term, GraceOver, Kill, ClearState, Preflight, Spawn,
       Snapshot, SaveState, Verify, Ss, Inode, Crash, Begin, Signal, Stopped, PollOrTimeOut
  <2>3. CASE Step(c) \/ Crash(c) \/ \E v \in Verb : Begin(c, v)
    BY <2>3 DEF Step, LoadState, Term, GraceOver, Kill, ClearState, Preflight, Spawn,
       Snapshot, SaveState, Verify, Ss, Inode, Crash, Begin, Signal, Stopped, PollOrTimeOut
  <2> QED
    BY <2>1, <2>2, <2>3 DEF Next, vars, callers, Bind, Exit, Reap, OtherStarts, Unseen
<1> QED
  BY <1>2, <1>3, <1>4

LEMMA AgedAlways == Spec => [](Typed /\ Aged /\ Sighted)
<1>1. Init => Typed /\ Aged /\ Sighted
  BY TypedInit, AgedInit
<1>2. Typed /\ Aged /\ Sighted /\ [Next]_vars => (Typed /\ Aged /\ Sighted)'
  BY TypedNext, AgedNext, SightedNext
<1> QED
  BY <1>1, <1>2, PTL DEF Spec

(* However many callers share the record: where the record has the start     *)
(* time of the process podbench started, a signal goes to that process or to *)
(* one that took its pid since is_live looked.                               *)
THEOREM SignalsAreAimed == Spec => SignalsWhatItLookedAt
<1>1. ASSUME Typed, Sighted, [Next]_vars
      PROVE  [\A c \in Callers : Signals(c) /\ held[c].ticks = held[c].of =>
                Hits(c) = held[c].of \/ Hits(c) > looked[c]]_vars
  <2> SUFFICES ASSUME NEW c \in Callers, Signals(c), held[c].ticks = held[c].of, Next
               PROVE  Hits(c) = held[c].of \/ Hits(c) > looked[c]
    BY <1>1
  <2>1. Term(c) \/ Kill(c)
    <3> USE <1>1 DEF Signals, Goto, Return, Typed, TypeOK
    <3>1. ASSUME NEW d \in Callers, d # c, Step(d) \/ Crash(d) \/ \E v \in Verb : Begin(d, v)
          PROVE  FALSE
      BY <3>1 DEF Step, LoadState, Look, Term, GraceOver, Kill, ClearState, Preflight, Spawn,
         Snapshot, SaveState, Verify, Ss, Inode, Crash, Begin, Signal, Stopped, PollOrTimeOut
    <3>2. ASSUME Step(c) \/ Crash(c) \/ \E v \in Verb : Begin(c, v)
          PROVE  Term(c) \/ Kill(c)
      BY <3>2 DEF Step, LoadState, Look, GraceOver, ClearState, Preflight, Spawn, Snapshot,
         SaveState, Verify, Ss, Inode, Crash, Begin
    <3> QED
      BY <3>1, <3>2 DEF Next, callers, Bind, Exit, Reap, OtherStarts, Unseen
  <2>2. Exists(held[c].pid)
    BY <1>1, <2>1 DEF Signals, Term, Kill, Signal, Return, Typed, TypeOK
  <2> QED
    BY <1>1, <2>2 DEF Sighted, Signals
<1> QED
  BY <1>1, AgedAlways, PTL DEF Spec, SignalsWhatItLookedAt

-----------------------------------------------------------------------------
(* One command at a time: the record names the one child that runs on, until *)
(* that child is gone or about to be.                                        *)

OneCaller == \A c, d \in Callers : c = d

(* The process a record is of, while there is one, bears its pid, and the    *)
(* start time in the record is that process's or none.                       *)
Faithful(f, r) ==
  \A p \in Pids : f[p] # None /\ f[p].born = r.of => p = r.pid /\ r.ticks \in {Unknown, r.of}

RunsOn(p) == AliveAt(p) /\ ~proc[p].doomed

RecordIsFaithful == /\ Faithful(proc, record)
                    /\ \A c \in Callers : Faithful(proc, child[c])

LoadedIsRecord == \A c \in Callers : pc[c] \in Stopping => held[c] = record

ClearIsSafe ==
  \A c \in Callers : pc[c] = "clear" => \A p \in Pids : RunsOn(p) => proc[p].born # record.of

NothingRecorded ==
  \A c \in Callers : pc[c] \in {"preflight", "spawn", "snapshot", "save"} => record = NoRecord

Recorded == /\ RecordIsFaithful /\ LoadedIsRecord /\ ClearIsSafe /\ NothingRecorded
            /\ NoChildAbandoned

(* A child that runs on has the port to itself.                              *)
Serves(p) == Exists(p) /\ proc[p].bound /\ proc[p].app

BoundRuns  == \A p \in Pids : proc[p].bound => AliveAt(p)
SoleServer == careful => \A p, q \in Pids : Serves(p) /\ Serves(q) => p = q
Retired    == careful => \A p, q \in Pids : RunsOn(p) /\ proc[p].app /\ Serves(q) => ~proc[q].doomed
PortFree   == careful => \A c \in Callers : pc[c] = "spawn" => \A p \in Pids : ~Serves(p)

Sole == BoundRuns /\ SoleServer /\ Retired /\ PortFree

LEMMA FaithfulStays ==
  ASSUME Typed, Aged, NoBirth \/ Birth
  PROVE  \A r \in RunState \cup {NoRecord} :
           r.of <= births /\ Faithful(proc, r) => Faithful(proc', r)
<1> SUFFICES ASSUME NEW r \in RunState \cup {NoRecord}, r.of <= births, Faithful(proc, r),
                    NEW p \in Pids, proc'[p] # None, proc'[p].born = r.of
             PROVE  p = r.pid /\ r.ticks \in {Unknown, r.of}
  BY DEF Faithful
<1>1. \/ Exists(p) /\ proc'[p].born = proc[p].born
      \/ proc'[p].born > births
  BY KernelAges DEF Exists
<1>2. r.of \in Nat /\ births \in Nat
  BY DEF RunState, NoRecord, Typed, TypeOK
<1>3. proc[p] # None /\ proc[p].born = r.of
  BY <1>1, <1>2 DEF Exists
<1> QED
  BY <1>3 DEF Faithful

LEMMA NothingIsFaithful ==
  ASSUME Typed'
  PROVE  Faithful(proc', NoRecord)
<1>1. proc' \in [Pids -> Process \cup {None}]
  BY DEF Typed, TypeOK
<1> QED
  BY <1>1 DEF Faithful, NoRecord, Process

LEMMA FaithfulNext ==
  ASSUME Typed, Aged, RecordIsFaithful, [Next]_vars
  PROVE  RecordIsFaithful'
<1>1. /\ Typed'
      /\ \A r \in RunState \cup {NoRecord} :
           r.of <= births /\ Faithful(proc, r) => Faithful(proc', r)
  BY TypedNext, KernelMoves, FaithfulStays
<1>2. Faithful(proc', NoRecord)
  BY <1>1, NothingIsFaithful
<1>3. Faithful(proc', record) /\ \A c \in Callers : Faithful(proc', child[c])
  BY <1>1 DEF RecordIsFaithful, Aged, Typed, TypeOK
<1>4. Faithful(proc', record')
  <2>1. record' \in {record, NoRecord} \cup {child[c] : c \in Callers}
    BY DEF Next, vars, Step, LoadState, Look, Term, GraceOver, Kill, ClearState, Preflight, Spawn,
       Snapshot, SaveState, Verify, Ss, Inode, Crash, Begin, Bind, Exit, Reap, OtherStarts, Unseen
  <2> QED
    BY <1>2, <1>3, <2>1
<1>5. ASSUME NEW d \in Callers
      PROVE  Faithful(proc', child'[d])
  <2>1. CASE child'[d] \in {child[d], NoRecord}
    BY <1>2, <1>3, <2>1
  <2>2. ASSUME NEW c \in Callers, Spawn(c), ~UNCHANGED child
        PROVE  Faithful(proc', child'[d])
    <3>1. PICK p \in Pids, shares \in BOOLEAN :
            /\ proc' = [proc EXCEPT ![p] = Fresh(TRUE, shares)]
            /\ child' = [child EXCEPT ![c] = [pid |-> p, ticks |-> Unknown, of |-> births + 1]]
      BY <2>2 DEF Spawn
    <3>2. births \in Nat /\ \A q \in Pids : proc[q].born \in Nat /\ proc[q].born <= births
      BY ProcessFacts DEF Aged
    <3>3. \A q \in Pids \ {p} : proc'[q].born # births + 1
      BY <3>1, <3>2 DEF Typed, TypeOK
    <3>4. CASE d = c
      <4>1. /\ child'[d].pid = p /\ child'[d].ticks = Unknown /\ child'[d].of = births + 1
        BY <3>1, <3>4 DEF Typed, TypeOK
      <4> QED
        BY <3>3, <4>1 DEF Faithful
    <3>5. CASE d # c
      BY <1>3, <3>1, <3>5 DEF Typed, TypeOK
    <3> QED
      BY <3>4, <3>5
  <2>3. ASSUME NEW c \in Callers, Snapshot(c), d = c
        PROVE  Faithful(proc', child'[d])
    <3>1. proc' = proc /\ child[c] \in RunState
      BY <2>3 DEF Snapshot, kernel, Typed, InHand, Starting
    <3>2. /\ child'[c].pid = child[c].pid /\ child'[c].of = child[c].of
          /\ child'[c].ticks = IF Exists(child[c].pid) THEN proc[child[c].pid].born ELSE Unknown
      BY <2>3, <3>1 DEF Snapshot, RunState, Typed, TypeOK
    <3>3. \A p \in Pids : proc[p] # None /\ proc[p].born = child[c].of => p = child[c].pid
      BY <1>3, <3>1 DEF Faithful
    <3>4. \/ child'[c].ticks \in {Unknown, child[c].of}
          \/ ~ \E p \in Pids : proc[p] # None /\ proc[p].born = child[c].of
      BY <3>2, <3>3 DEF Exists
    <3> QED
      BY <2>3, <3>1, <3>2, <3>3, <3>4 DEF Faithful
  <2>4. \/ child'[d] \in {child[d], NoRecord}
        \/ \E c \in Callers : Spawn(c) /\ ~UNCHANGED child
        \/ \E c \in Callers : Snapshot(c) /\ d = c
    <3>1. CASE UNCHANGED child
      BY <3>1
    <3>2. ASSUME NEW c \in Callers, Snapshot(c) \/ \E v \in Verb : Begin(c, v), d # c
          PROVE  child'[d] = child[d]
      BY <3>2 DEF Snapshot, Begin, Typed, TypeOK
    <3>3. ASSUME NEW c \in Callers, \E v \in Verb : Begin(c, v), d = c
          PROVE  child'[d] = NoRecord
      BY <3>3 DEF Begin, Typed, TypeOK
    <3> QED
      BY <3>1, <3>2, <3>3 DEF Next, vars, Step, LoadState, Look, Term, GraceOver, Kill, ClearState,
         Preflight, SaveState, Verify, Ss, Inode, Crash, Bind, Exit, Reap, OtherStarts, Unseen,
         callers
  <2> QED
    BY <2>1, <2>2, <2>3, <2>4
<1> QED
  BY <1>4, <1>5 DEF RecordIsFaithful

LEMMA RunsOnStays ==
  ASSUME Typed, NoBirth \/ Birth
  PROVE  \A p \in Pids : RunsOn(p)' =>
           \/ RunsOn(p) /\ proc'[p].born = proc[p].born /\ proc'[p].app = proc[p].app
           \/ Birth /\ proc'[p].born = births + 1
<1>1. CASE NoBirth
  BY <1>1 DEF NoBirth, RunsOn, AliveAt, Exists
<1>2. CASE Birth
  <2>1. PICK b \in Pids, app, shares \in BOOLEAN : proc' = [proc EXCEPT ![b] = Fresh(app, shares)]
    BY <1>2 DEF Birth
  <2>2. proc'[b].born = births + 1
    BY <2>1 DEF Fresh, Typed, TypeOK
  <2>3. \A p \in Pids \ {b} : proc'[p] = proc[p]
    BY <2>1 DEF Typed, TypeOK
  <2> QED
    BY <1>2, <2>2, <2>3 DEF RunsOn, AliveAt, Exists
<1> QED
  BY <1>1, <1>2

KeepsRecord == LoadedIsRecord /\ ClearIsSafe /\ NothingRecorded /\ NoChildAbandoned

LEMMA RecordInit == Init => Recorded
  BY DEF Init, Recorded, RecordIsFaithful, Faithful, LoadedIsRecord, ClearIsSafe, NothingRecorded,
     NoChildAbandoned, Abandoned, AliveAt, Exists, Stopping

LEMMA CallerKeepsRecord ==
  ASSUME OneCaller, Typed, Aged, Recorded, NEW c \in Callers,
         Step(c) \/ Crash(c) \/ \E v \in Verb : Begin(c, v)
  PROVE  KeepsRecord'
<1>1. \A d \in Callers : d = c
  BY DEF OneCaller
<1>2. /\ record \in RunState \cup {NoRecord} /\ record.of \in Nat /\ births \in Nat
      /\ record.of <= births
  BY DEF Typed, TypeOK, RunState, NoRecord, Aged
<1>3. \A p \in Pids : RunsOn(p) => proc[p].born # 0
  BY ProcessFacts DEF RunsOn, AliveAt
<1>4. /\ pc[c] \in Stopping => held[c] = record
      /\ pc[c] = "clear" => \A p \in Pids : RunsOn(p) => proc[p].born # record.of
      /\ pc[c] \in {"preflight", "spawn", "snapshot", "save"} => record = NoRecord
      /\ careful => \A p \in Pids : RunsOn(p) /\ proc[p].app /\ proc[p].born # record.of
                      => pc[c] \in {"snapshot", "save"} /\ proc[p].born = child[c].of
  BY <1>1 DEF Recorded, LoadedIsRecord, ClearIsSafe, NothingRecorded, NoChildAbandoned, Abandoned,
              RunsOn
<1> DEFINE Kept ==
      /\ pc'[c] \in Stopping => held'[c] = record'
      /\ pc'[c] = "clear" => \A p \in Pids : RunsOn(p)' => proc'[p].born # record'.of
      /\ pc'[c] \in {"preflight", "spawn", "snapshot", "save"} => record' = NoRecord
      /\ careful' => \A p \in Pids : RunsOn(p)' /\ proc'[p].app /\ proc'[p].born # record'.of
           => pc'[c] \in {"snapshot", "save"} /\ proc'[p].born = child'[c].of
<1> SUFFICES Kept
  BY <1>1 DEF KeepsRecord, LoadedIsRecord, ClearIsSafe, NothingRecorded, NoChildAbandoned,
              Abandoned, RunsOn
<1>5. /\ proc \in [Pids -> Process \cup {None}]
      /\ pc \in [Callers -> Stage]
      /\ held \in [Callers -> RunState \cup {NoRecord}]
      /\ child \in [Callers -> RunState \cup {NoRecord}]
  BY DEF Typed, TypeOK
<1> USE <1>2, <1>3, <1>4, <1>5 DEF Goto, Return, Stopping, kernel, RunsOn, AliveAt, Exists
<1>6. CASE \E v \in Verb : Begin(c, v)
  BY <1>6 DEF Begin
<1>7. CASE LoadState(c)
  BY <1>7 DEF LoadState, Stopped
<1>8. CASE Look(c)
  <2>1. held[c] = record /\ record \in RunState
    BY <1>8 DEF Look, Typed, InHand
  <2>2. ASSUME ~IsLive(held[c]), NEW p \in Pids, RunsOn(p)
        PROVE  proc[p].born # record.of
    <3> SUFFICES ASSUME proc[p].born = record.of
                 PROVE  FALSE
      OBVIOUS
    <3>1. p = record.pid /\ record.ticks \in {Unknown, record.of}
      BY <2>2 DEF Recorded, RecordIsFaithful, Faithful
    <3> QED
      BY <2>1, <2>2, <3>1 DEF IsLive
  <2>3. UNCHANGED <<kernel, record, careful, held, child>>
    BY <1>8 DEF Look
  <2>4. /\ pc'[c] \in Stopping
        /\ pc'[c] = "clear" => ~IsLive(held[c])
    BY <1>8 DEF Look
  <2>5. ~(pc[c] \in {"snapshot", "save"})
    BY <1>8 DEF Look
  <2> QED
    BY <2>1, <2>2, <2>3, <2>4, <2>5
<1>9. CASE Term(c)
  BY <1>9 DEF Term, Signal
<1>10. CASE GraceOver(c)
  BY <1>10 DEF GraceOver
<1>11. CASE ClearState(c)
  BY <1>11 DEF ClearState, Stopped, NoRecord
<1>12. CASE Preflight(c)
  BY <1>12 DEF Preflight
<1>13. CASE Snapshot(c)
  <2>1. child[c] \in RunState /\ child'[c].of = child[c].of
    BY <1>13 DEF Snapshot, Typed, InHand, Starting, RunState
  <2> QED
    BY <1>13, <2>1 DEF Snapshot
<1>14. CASE SaveState(c)
  BY <1>14 DEF SaveState, NoRecord
<1>15. CASE Verify(c)
  BY <1>15 DEF Verify
<1>16. CASE Ss(c) \/ Inode(c)
  BY <1>16 DEF Ss, Inode, PollOrTimeOut
<1>17. CASE Crash(c)
  BY <1>17 DEF Crash
<1>18. CASE Kill(c)
  <2>1. held[c] = record /\ record \in RunState
    BY <1>18 DEF Kill, Typed, InHand
  <2>2. /\ UNCHANGED <<record, careful, held, child>> /\ births' = births
        /\ pc'[c] \in {"clear", "idle"}
    BY <1>18, <2>1 DEF Kill, Signal
  <2>3. ASSUME NEW p \in Pids, RunsOn(p)'
        PROVE  RunsOn(p) /\ proc'[p].born = proc[p].born /\ proc'[p].app = proc[p].app
    <3>1. [Next]_vars /\ births \in Nat
      BY <1>18 DEF Next, Step
    <3> QED
      BY <2>2, <2>3, <3>1, KernelMoves, RunsOnStays DEF Birth
  <2>4. ASSUME NEW p \in Pids, RunsOn(p)', pc'[c] = "clear"
        PROVE  proc'[p].born # record.of
    <3> SUFFICES ASSUME proc'[p].born = record.of
                 PROVE  FALSE
      OBVIOUS
    <3>1. p = record.pid
      BY <2>3, <2>4 DEF Recorded, RecordIsFaithful, Faithful
    <3>2. proc'[p].doomed
      BY <1>18, <2>1, <2>3, <2>4, <3>1 DEF Kill, Process
    <3> QED
      BY <2>4, <3>2
  <2>5. ~(pc[c] \in {"snapshot", "save"})
    BY <1>18 DEF Kill
  <2> QED
    BY <2>1, <2>2, <2>3, <2>4, <2>5
<1>19. CASE Spawn(c)
  <2>1. record = NoRecord /\ record' = record /\ careful' = careful
    BY <1>19 DEF Spawn
  <2>2. careful => \A p \in Pids : ~(RunsOn(p) /\ proc[p].app)
    BY <1>19, <2>1 DEF Spawn, NoRecord
  <2>3. CASE Return(c, "failed") /\ UNCHANGED <<kernel, child>>
    BY <2>1, <2>2, <2>3
  <2>4. ASSUME NEW b \in Pids, NEW shares \in BOOLEAN, births' = births + 1,
               proc' = [proc EXCEPT ![b] = Fresh(TRUE, shares)],
               child' = [child EXCEPT ![c] = [pid |-> b, ticks |-> Unknown, of |-> births + 1]],
               Goto(c, "snapshot")
        PROVE  Kept
    <3>1. proc'[b].born = births + 1 /\ child'[c].of = births + 1
      BY <2>4 DEF Fresh
    <3>2. \A p \in Pids \ {b} : proc'[p] = proc[p]
      BY <2>4
    <3> QED
      BY <2>1, <2>2, <2>4, <3>1, <3>2
  <2> QED
    BY <1>19, <2>3, <2>4 DEF Spawn
<1> QED
  BY <1>6, <1>7, <1>8, <1>9, <1>10, <1>11, <1>12, <1>13, <1>14, <1>15, <1>16, <1>17, <1>18,
     <1>19 DEF Step

LEMMA KernelKeepsRecord ==
  ASSUME Typed, Aged, Recorded, NEW b \in Pids, Bind(b) \/ Exit(b) \/ Reap(b) \/ OtherStarts(b)
  PROVE  KeepsRecord'
<1>1. UNCHANGED <<record, careful, pc, held, child>>
  BY DEF Bind, Exit, Reap, OtherStarts, Unseen, callers
<1>2. NoBirth \/ Birth
  BY KernelMoves DEF Next
<1>3. \A p \in Pids : RunsOn(p)' =>
        \/ RunsOn(p) /\ proc'[p].born = proc[p].born /\ proc'[p].app = proc[p].app
        \/ ~proc'[p].app /\ proc'[p].born = births + 1
  <2>1. CASE OtherStarts(b)
    <3>1. PICK shares \in BOOLEAN : proc' = [proc EXCEPT ![b] = Fresh(FALSE, shares)]
      BY <2>1 DEF OtherStarts
    <3>2. proc'[b].born = births + 1 /\ ~proc'[b].app
      BY <3>1 DEF Fresh, Typed, TypeOK
    <3>3. \A p \in Pids \ {b} : proc'[p] = proc[p]
      BY <3>1 DEF Typed, TypeOK
    <3> QED
      BY <3>2, <3>3 DEF RunsOn, AliveAt, Exists
  <2>2. CASE Bind(b) \/ Exit(b) \/ Reap(b)
    <3>1. births' = births /\ births \in Nat
      BY <2>2 DEF Bind, Exit, Reap, Typed, TypeOK
    <3> QED
      BY <1>2, <3>1, RunsOnStays DEF Birth
  <2> QED
    BY <2>1, <2>2
<1>4. record.of \in Nat /\ births \in Nat /\ record.of <= births
  BY DEF Typed, TypeOK, RunState, NoRecord, Aged
<1>5. LoadedIsRecord' /\ NothingRecorded'
  BY <1>1 DEF Recorded, LoadedIsRecord, NothingRecorded
<1>6. ClearIsSafe'
  BY <1>1, <1>3, <1>4 DEF Recorded, ClearIsSafe
<1>7. NoChildAbandoned'
  <2> SUFFICES ASSUME careful, NEW p \in Pids, RunsOn(p)', proc'[p].app, proc'[p].born # record.of,
                      \A c \in Callers : pc[c] \in {"snapshot", "save"} => proc'[p].born # child[c].of
               PROVE  FALSE
    BY <1>1 DEF NoChildAbandoned, Abandoned, RunsOn
  <2>1. RunsOn(p) /\ proc'[p].born = proc[p].born /\ proc[p].app
    BY <1>3
  <2> QED
    BY <2>1 DEF Recorded, NoChildAbandoned, Abandoned, RunsOn
<1> QED
  BY <1>5, <1>6, <1>7 DEF KeepsRecord

LEMMA RecordNext ==
  ASSUME OneCaller, Typed, Aged, Recorded, [Next]_vars
  PROVE  Recorded'
<1>1. KeepsRecord'
  <2>1. CASE UNCHANGED vars
    BY <2>1 DEF vars, Recorded, KeepsRecord, LoadedIsRecord, ClearIsSafe, NothingRecorded,
                NoChildAbandoned, Abandoned, RunsOn, AliveAt, Exists
  <2>2. CASE Next
    BY <2>2, CallerKeepsRecord, KernelKeepsRecord DEF Next
  <2> QED
    BY <2>1, <2>2
<1>2. RecordIsFaithful'
  BY FaithfulNext DEF Recorded
<1> QED
  BY <1>1, <1>2 DEF Recorded, KeepsRecord

LEMMA RecordedAlways ==
  ASSUME OneCaller
  PROVE  Spec => [](Typed /\ Aged /\ Recorded)
<1>1. Init => Typed /\ Aged /\ Recorded
  BY TypedInit, AgedInit, RecordInit
<1>2. Typed /\ Aged /\ Recorded /\ [Next]_vars => (Typed /\ Aged /\ Recorded)'
  BY TypedNext, AgedNext, RecordNext
<1> QED
  BY <1>1, <1>2, PTL DEF Spec

(* With one command at a time, whatever is killed in between, and but for a  *)
(* command killed between starting its child and recording it: a child that  *)
(* podbench started and did not kill is in the record, where stop finds it.  *)
THEOREM NoChildIsAbandoned ==
  ASSUME OneCaller
  PROVE  Spec => []NoChildAbandoned
<1>1. Recorded => NoChildAbandoned
  BY DEF Recorded
<1> QED
  BY <1>1, RecordedAlways, PTL

-----------------------------------------------------------------------------
(* The port. *)

LEMMA OneRunsOn ==
  ASSUME OneCaller, Typed, Aged, Recorded, careful,
         NEW p \in Pids, RunsOn(p), proc[p].app, NEW q \in Pids, RunsOn(q), proc[q].app
  PROVE  p = q
<1>1. Exists(p) /\ proc[p].born # 0 /\ proc[q].born # 0
  BY ProcessFacts DEF RunsOn, AliveAt
<1>2. \A r \in {p, q} : \/ proc[r].born = record.of
                        \/ \E c \in Callers : /\ pc[c] \in {"snapshot", "save"} /\ record = NoRecord
                                              /\ proc[r].born = child[c].of
  BY DEF Recorded, NoChildAbandoned, Abandoned, NothingRecorded, RunsOn
<1>3. proc[p].born = proc[q].born
  BY <1>1, <1>2 DEF OneCaller, NoRecord
<1> QED
  BY <1>1, <1>3 DEF Aged

LEMMA SoleInit == Init => Sole
  BY DEF Init, Sole, BoundRuns, SoleServer, Retired, PortFree, Serves, Exists, None

(* What a step does that binds nothing and starts nothing: servers and       *)
(* children that run on only become fewer.                                   *)
Fewer == /\ careful' => careful
         /\ BoundRuns'
         /\ \A p \in Pids : /\ Serves(p)' => Serves(p) /\ (proc'[p].doomed => proc[p].doomed)
                            /\ RunsOn(p)' /\ proc'[p].app => RunsOn(p) /\ proc[p].app

LEMMA FewerKeepsSole ==
  ASSUME Sole, Fewer
  PROVE  BoundRuns' /\ SoleServer' /\ Retired'
  BY DEF Sole, Fewer, SoleServer, Retired

LEMMA QuietKeepsSole ==
  ASSUME OneCaller, Typed, Recorded, Sole, UNCHANGED kernel, [Next]_vars
  PROVE  Sole'
<1>1. careful' => careful
  BY DEF Next, vars, Step, LoadState, Look, Term, GraceOver, Kill, ClearState, Preflight, Spawn,
     Snapshot, SaveState, Verify, Ss, Inode, Crash, Begin, Bind, Exit, Reap, OtherStarts, Unseen
<1>2. \A p \in Pids : (Serves(p)' <=> Serves(p)) /\ proc' = proc
  BY DEF kernel, Serves, Exists
<1>3. BoundRuns' /\ SoleServer' /\ Retired'
  BY <1>1, <1>2 DEF Sole, BoundRuns, SoleServer, Retired, RunsOn, AliveAt, Exists
<1>4. ASSUME NEW c \in Callers, pc'[c] = "spawn"
      PROVE  pc[c] = "spawn" \/ \A p \in Pids : ~Serves(p)
  <2> USE <1>4 DEF Goto, Return
  <2>1. pc \in [Callers -> Stage]
    BY DEF Typed, TypeOK
  <2>2. CASE UNCHANGED pc
    BY <2>2
  <2>3. ASSUME NEW d \in Callers, Step(d) \/ Crash(d) \/ \E v \in Verb : Begin(d, v)
        PROVE  pc[c] = "spawn" \/ \A p \in Pids : ~Serves(p)
    <3>1. d = c
      BY DEF OneCaller
    <3>2. CASE Preflight(c)
      BY <2>1, <3>2 DEF Preflight, Listening, Serves
    <3> QED
      BY <2>1, <2>3, <3>1, <3>2 DEF Step, LoadState, Look, Term, GraceOver, Kill, ClearState,
         Spawn, Snapshot, SaveState, Verify, Ss, Inode, Crash, Begin, Signal, Stopped,
         PollOrTimeOut
  <2> QED
    BY <2>2, <2>3 DEF Next, vars, Bind, Exit, Reap, OtherStarts, Unseen, callers
<1> QED
  BY <1>1, <1>2, <1>3, <1>4 DEF Sole, PortFree

LEMMA SoleNext ==
  ASSUME OneCaller, Typed, Aged, Recorded, Sole, [Next]_vars
  PROVE  Sole'
<1> USE DEF Serves, RunsOn, AliveAt, Exists
<1>1. proc \in [Pids -> Process \cup {None}]
  BY DEF Typed, TypeOK
<1>2. None.bound = FALSE /\ None.app = FALSE
  BY DEF None
<1>3. CASE UNCHANGED kernel
  BY <1>3, QuietKeepsSole
<1>4. ASSUME NEW c \in Callers, Kill(c), ~UNCHANGED kernel
      PROVE  Sole'
  <2> DEFINE h == held[c].pid
  <2>1. /\ h \in Pids
        /\ proc[h] \in Process /\ AliveAt(h)
        /\ proc' = [proc EXCEPT ![h].doomed = TRUE]
        /\ careful' = careful
    BY <1>1, <1>4 DEF Kill, Typed, InHand, Stopping, RunState, kernel
  <2> HIDE DEF h
  <2>2. \A p \in Pids \ {h} : proc'[p] = proc[p]
    BY <1>1, <2>1
  <2>3. /\ proc'[h].bound = proc[h].bound /\ proc'[h].app = proc[h].app
        /\ proc'[h].state = proc[h].state /\ proc'[h].doomed /\ proc'[h] # None
    BY <1>1, <2>1 DEF Process, None
  <2>4. BoundRuns' /\ SoleServer'
    BY <2>1, <2>2, <2>3 DEF Sole, BoundRuns, SoleServer
  <2>5. Retired'
    <3> SUFFICES ASSUME careful, NEW p \in Pids, NEW q \in Pids,
                        RunsOn(p)', proc'[p].app, Serves(q)', proc'[q].doomed
                 PROVE  FALSE
      BY <2>1 DEF Retired
    <3>1. p # h /\ RunsOn(p) /\ proc[p].app /\ Serves(q)
      BY <2>1, <2>2, <2>3
    <3>2. ~proc[q].doomed
      BY <3>1 DEF Sole, Retired
    <3>3. q = h
      BY <2>2, <3>2
    <3>4. RunsOn(q) /\ proc[q].app
      BY <2>1, <3>1, <3>2, <3>3
    <3> QED
      BY <3>1, <3>3, <3>4, OneRunsOn
  <2>6. PortFree'
    <3>1. pc'[c] # "spawn"
      BY <1>4 DEF Kill, Signal, Goto, Return, Typed, TypeOK
    <3> QED
      BY <3>1 DEF PortFree, OneCaller
  <2> QED
    BY <2>4, <2>5, <2>6 DEF Sole
<1>5. ASSUME NEW c \in Callers, Spawn(c), ~UNCHANGED kernel
      PROVE  Sole'
  <2>1. PICK b \in Pids, shares \in BOOLEAN :
          ~Exists(b) /\ proc' = [proc EXCEPT ![b] = Fresh(TRUE, shares)] /\ Goto(c, "snapshot")
    BY <1>5 DEF Spawn, kernel
  <2>2. \A p \in Pids \ {b} : proc'[p] = proc[p]
    BY <1>1, <2>1
  <2>3. ~proc'[b].bound /\ ~proc'[b].doomed
    BY <1>1, <2>1 DEF Fresh
  <2>4. careful => \A p \in Pids : ~Serves(p)
    BY <1>5 DEF Spawn, Sole, PortFree
  <2>5. careful' = careful /\ pc'[c] # "spawn"
    BY <1>5, <2>1 DEF Spawn, Goto, Typed, TypeOK
  <2>6. BoundRuns'
    BY <2>2, <2>3 DEF Sole, BoundRuns
  <2>7. careful' => \A p \in Pids : ~Serves(p)'
    BY <2>2, <2>3, <2>4, <2>5
  <2> QED
    BY <2>5, <2>6, <2>7 DEF Sole, SoleServer, Retired, PortFree, OneCaller
<1>6. ASSUME NEW b \in Pids, Bind(b)
      PROVE  Sole'
  <2>1. /\ proc' = [proc EXCEPT ![b].bound = TRUE] /\ RunsOn(b) /\ UNCHANGED <<careful, pc>>
        /\ proc[b] \in Process
    BY <1>1, <1>6 DEF Bind, Unseen, callers
  <2>2. \A p \in Pids \ {b} : proc'[p] = proc[p]
    BY <1>1, <2>1
  <2>3. /\ proc'[b].bound /\ proc'[b].app = proc[b].app /\ ~proc'[b].doomed
        /\ proc'[b].state = proc[b].state /\ proc'[b] # None
    BY <1>1, <2>1 DEF Process, None
  <2>4. BoundRuns'
    BY <2>1, <2>2, <2>3 DEF Sole, BoundRuns
  <2>5. careful /\ proc[b].app => \A q \in Pids : Serves(q) => q = b
    <3> SUFFICES ASSUME careful, proc[b].app, NEW q \in Pids, Serves(q)
                 PROVE  q = b
      OBVIOUS
    <3>1. RunsOn(q) /\ proc[q].app
      BY <2>1 DEF Sole, BoundRuns, Retired
    <3> QED
      BY <2>1, <3>1, OneRunsOn
  <2>6. SoleServer' /\ Retired'
    BY <2>1, <2>2, <2>3, <2>5 DEF Sole, SoleServer, Retired
  <2>7. PortFree'
    <3> SUFFICES ASSUME careful, NEW c \in Callers, pc[c] = "spawn", NEW p \in Pids, Serves(p)'
                 PROVE  FALSE
      BY <2>1 DEF PortFree
    <3>1. p = b /\ proc[b].app
      BY <2>2, <2>3 DEF Sole, PortFree
    <3>2. proc[b].born # 0
      BY <2>1, ProcessFacts
    <3> QED
      BY <2>1, <3>1, <3>2 DEF Recorded, NoChildAbandoned, Abandoned, NothingRecorded, NoRecord,
                             OneCaller
  <2> QED
    BY <2>4, <2>6, <2>7 DEF Sole
<1>7. ASSUME NEW b \in Pids, Exit(b) \/ Reap(b) \/ OtherStarts(b)
      PROVE  Sole'
  <2>1. UNCHANGED <<careful, pc>>
    BY <1>7 DEF Exit, Reap, OtherStarts, Unseen, callers
  <2>2. \A p \in Pids \ {b} : proc'[p] = proc[p]
    BY <1>1, <1>7 DEF Exit, Reap, OtherStarts
  <2>3. ~proc'[b].bound /\ ~(RunsOn(b)' /\ proc'[b].app)
    <3>1. CASE Exit(b)
      BY <1>1, <3>1 DEF Exit, Process
    <3>2. CASE Reap(b)
      BY <1>1, <1>2, <3>2 DEF Reap
    <3>3. CASE OtherStarts(b)
      BY <1>1, <3>3 DEF OtherStarts, Fresh
    <3> QED
      BY <1>7, <3>1, <3>2, <3>3
  <2>4. BoundRuns'
    BY <2>2, <2>3 DEF Sole, BoundRuns
  <2>5. Fewer
    BY <2>1, <2>2, <2>3, <2>4 DEF Fewer
  <2>6. PortFree'
    BY <2>1, <2>5 DEF Sole, PortFree, Fewer
  <2> QED
    BY <2>4, <2>5, <2>6, FewerKeepsSole DEF Sole
<1>8. ASSUME NEW c \in Callers, Step(c) \/ Crash(c) \/ \E v \in Verb : Begin(c, v)
      PROVE  Sole'
  <2>1. Kill(c) \/ Spawn(c) \/ UNCHANGED kernel
    BY <1>8 DEF Step, LoadState, Look, Term, GraceOver, ClearState, Preflight, Snapshot,
       SaveState, Verify, Ss, Inode, Crash, Begin
  <2> QED
    BY <1>3, <1>4, <1>5, <2>1
<1>9. CASE UNCHANGED vars
  BY <1>3, <1>9 DEF vars, kernel
<1> QED
  BY <1>6, <1>7, <1>8, <1>9 DEF Next

(* Under the same conditions, never do two of podbench's children serve the  *)
(* port, whether or not they share it: old code and new are never mixed.     *)
THEOREM OneVersionServesAlways ==
  ASSUME OneCaller
  PROVE  Spec => []OneVersionServes
<1>1. Init => Sole
  BY SoleInit
<1>2. Typed /\ Aged /\ Recorded /\ Sole /\ [Next]_vars => Sole'
  BY SoleNext
<1>3. Sole => OneVersionServes
  <2> SUFFICES ASSUME Sole, careful
               PROVE  Cardinality({p \in Listening : proc[p].app}) <= 1
    BY DEF OneVersionServes
  <2>1. \A p, q \in {p \in Listening : proc[p].app} : p = q
    BY DEF Sole, SoleServer, Serves, Listening
  <2>2. CASE {p \in Listening : proc[p].app} = {}
    BY <2>2, FS_EmptySet
  <2>3. ASSUME NEW s \in {p \in Listening : proc[p].app}
        PROVE  Cardinality({p \in Listening : proc[p].app}) <= 1
    <3>1. {p \in Listening : proc[p].app} = {s}
      BY <2>1, <2>3
    <3> QED
      BY <3>1, FS_Singleton
  <2> QED
    BY <2>2, <2>3
<1> QED
  BY <1>1, <1>2, <1>3, RecordedAlways, PTL DEF Spec

=============================================================================

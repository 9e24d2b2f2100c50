----------------------------- MODULE SeatProofs -----------------------------
(***************************************************************************)
(* What a seat promises: of its start-up and its wiring (SeatStart), for   *)
(* any number of seats, of agents at work on one home, of launchers and of *)
(* signals and restarts, that a seat that reported no failure and was      *)
(* wired lets its user in, and that no merge drops what it has read; and   *)
(* of debug-config in it (DebugConfig), for any scenarios, ports and       *)
(* number of commands, that what is offered can be done, that what is      *)
(* written is open, and that an entry that works is kept.  The two parts   *)
(* have no variable in common.                                             *)
(***************************************************************************)
EXTENDS SeatStart, DebugConfig, TLAPS

First(s) == <<s, "first">>
Exec(s)  == <<s, "exec">>

(* What a first agent has done of its start-up, by where it is, and what its *)
(* report therefore says.                                                    *)
Begun == {"register", "append", "key", "confirm", "private", "public", "derive", "keys", "merge",
          "config", "end"}

Narrowed(s) == Root(s) => rootfs[s].privsep /\ ~rootfs[s].open

Reported(s) ==
  /\ agent[First(s)].pc \in Begun \cup {"idle"} => Narrowed(s)
  /\ agent[First(s)].pc \in Begun /\ ~Writable(s) => "home" \in agent[First(s)].failed
  /\ agent[First(s)].pc = "end" /\ Writable(s) => home[Home(s)].config # "none"
  /\ report[s] = {} => Narrowed(s) /\ Writable(s) /\ home[Home(s)].config # "none"

(* What the launcher has been told of the seat, and wrote of it, stays so.   *)
Speaks(s, root, login) ==
  /\ fact[s].pinned \/ ~Root(s) => root = Root(s)
  /\ login # "" => Resolves(s) /\ login = LoginName(s)

Asked(s) ==
  /\ ~At(s, "idle") => wiring[s].left > 0 /\ Speaks(s, wiring[s].root, wiring[s].login)
  /\ agent[Exec(s)].pc # "off" => At(s, "asked")

Written(s) ==
  stanza[s].written => /\ stanza[s].named => stanza[s].login # ""
                       /\ Speaks(s, stanza[s].root, IF stanza[s].named THEN stanza[s].login ELSE "")

(* The key pair in the home of a steady seat is whole, or its exec'd agent   *)
(* is about to make it so, and nobody else is half-way through a pair there. *)
Mid(a) == agent[a].pc \in {"public", "derive"}

Paired(s) ==
  /\ \A b \in Agents : b # Exec(s) /\ Owns(b[1], Home(s)) => ~Mid(b)
  /\ agent[Exec(s)].pc # "derive"
  /\ IF agent[Exec(s)].pc = "public"
     THEN home[Home(s)].private = agent[Exec(s)].key /\ agent[Exec(s)].key > Secret
     ELSE Whole(Home(s))
  /\ agent[Exec(s)].pc \in {"config", "end"} /\ Writable(s) => s \in home[Home(s)].keys

(* The launcher holds, or has pinned, the key the home has, which lets the   *)
(* seat's user in.                                                           *)
Serves(s, key) == key = home[Home(s)].private /\ (Writable(s) => s \in home[Home(s)].keys)

Steadily(s) ==
  steady[s] => /\ agent[Exec(s)].pc # "off" => Paired(s)
               /\ At(s, "write") /\ wiring[s].key # NoKey => Serves(s, wiring[s].key)
               /\ At(s, "idle") /\ stanza[s].written /\ stanza[s].pinned => Serves(s, known[s])

Inv == TypeOK /\ mints > Secret
       /\ \A s \in Seats : Reported(s) /\ Asked(s) /\ Written(s) /\ Steadily(s)

-----------------------------------------------------------------------------
(* What the steps write, field by field. *)

(* Agent a goes on with these; the others stay as they are. *)
Turns(a, pc, failed, key, read) ==
  /\ agent' \in [Agents -> Process]
  /\ agent'[a].pc = pc /\ agent'[a].failed = failed
  /\ agent'[a].key = key /\ agent'[a].read = read
  /\ \A b \in Agents : b # a => agent'[b] = agent[b]

LEMMA ProcessFields ==
  \A p \in Process : /\ p.pc \in Step /\ p.failed \in SUBSET Failure
                     /\ p.key \in Nat /\ p.read \in SUBSET Seats
  BY DEF Process

LEMMA Turn ==
  ASSUME agent \in [Agents -> Process], NEW a \in Agents, NEW p \in Process,
         agent' = [agent EXCEPT ![a] = p]
  PROVE  Turns(a, p.pc, p.failed, p.key, p.read)
  BY DEF Turns

LEMMA TurnPc ==
  ASSUME agent \in [Agents -> Process], NEW a \in Agents, NEW pc \in Step,
         agent' = [agent EXCEPT ![a].pc = pc]
  PROVE  Turns(a, pc, agent[a].failed, agent[a].key, agent[a].read)
<1> DEFINE p == [agent[a] EXCEPT !.pc = pc]
<1>1. /\ p \in Process /\ p.pc = pc /\ p.failed = agent[a].failed
      /\ p.key = agent[a].key /\ p.read = agent[a].read
  BY DEF Process
<1>2. agent' = [agent EXCEPT ![a] = p]
  OBVIOUS
<1> HIDE DEF p
<1> QED
  BY <1>1, <1>2, Turn

LEMMA TurnFailed ==
  ASSUME agent \in [Agents -> Process], NEW a \in Agents, NEW pc \in Step,
         NEW failed \in SUBSET Failure,
         agent' = [agent EXCEPT ![a].pc = pc, ![a].failed = failed]
  PROVE  Turns(a, pc, failed, agent[a].key, agent[a].read)
<1> DEFINE p == [agent[a] EXCEPT !.pc = pc, !.failed = failed]
<1>1. /\ p \in Process /\ p.pc = pc /\ p.failed = failed
      /\ p.key = agent[a].key /\ p.read = agent[a].read
  BY DEF Process
<1>2. agent' = [agent EXCEPT ![a] = p]
  OBVIOUS
<1> HIDE DEF p
<1> QED
  BY <1>1, <1>2, Turn

LEMMA TurnKey ==
  ASSUME agent \in [Agents -> Process], NEW a \in Agents, NEW pc \in Step, NEW key \in Nat,
         agent' = [agent EXCEPT ![a].pc = pc, ![a].key = key]
  PROVE  Turns(a, pc, agent[a].failed, key, agent[a].read)
<1> DEFINE p == [agent[a] EXCEPT !.pc = pc, !.key = key]
<1>1. /\ p \in Process /\ p.pc = pc /\ p.failed = agent[a].failed
      /\ p.key = key /\ p.read = agent[a].read
  BY DEF Process
<1>2. agent' = [agent EXCEPT ![a] = p]
  OBVIOUS
<1> HIDE DEF p
<1> QED
  BY <1>1, <1>2, Turn

LEMMA TurnRead ==
  ASSUME agent \in [Agents -> Process], NEW a \in Agents, NEW pc \in Step,
         NEW read \in SUBSET Seats,
         agent' = [agent EXCEPT ![a].pc = pc, ![a].read = read]
  PROVE  Turns(a, pc, agent[a].failed, agent[a].key, read)
<1> DEFINE p == [agent[a] EXCEPT !.pc = pc, !.read = read]
<1>1. /\ p \in Process /\ p.pc = pc /\ p.failed = agent[a].failed
      /\ p.key = agent[a].key /\ p.read = read
  BY DEF Process
<1>2. agent' = [agent EXCEPT ![a] = p]
  OBVIOUS
<1> HIDE DEF p
<1> QED
  BY <1>1, <1>2, Turn

LEMMA TurnReadFailed ==
  ASSUME agent \in [Agents -> Process], NEW a \in Agents, NEW pc \in Step,
         NEW read \in SUBSET Seats, NEW failed \in SUBSET Failure,
         agent' = [agent EXCEPT ![a].pc = pc, ![a].read = read, ![a].failed = failed]
  PROVE  Turns(a, pc, failed, agent[a].key, read)
<1> DEFINE p == [agent[a] EXCEPT !.pc = pc, !.read = read, !.failed = failed]
<1>1. /\ p \in Process /\ p.pc = pc /\ p.failed = failed
      /\ p.key = agent[a].key /\ p.read = read
  BY DEF Process
<1>2. agent' = [agent EXCEPT ![a] = p]
  OBVIOUS
<1> HIDE DEF p
<1> QED
  BY <1>1, <1>2, Turn

(* Home h has these; the others stay as they are. *)
Holds(h, private, public, keys, config) ==
  /\ home' \in [Homes -> HomeFiles]
  /\ home'[h].private = private /\ home'[h].public = public
  /\ home'[h].keys = keys /\ home'[h].config = config
  /\ \A g \in Homes : g # h => home'[g] = home[g]

LEMMA Hold ==
  ASSUME home \in [Homes -> HomeFiles], NEW h \in Homes, NEW f \in HomeFiles,
         home' = [home EXCEPT ![h] = f]
  PROVE  Holds(h, f.private, f.public, f.keys, f.config)
  BY DEF Holds

LEMMA HoldPrivate ==
  ASSUME home \in [Homes -> HomeFiles], NEW h \in Homes, NEW key \in Nat,
         home' = [home EXCEPT ![h].private = key]
  PROVE  Holds(h, key, home[h].public, home[h].keys, home[h].config)
<1> DEFINE f == [home[h] EXCEPT !.private = key]
<1>1. /\ f \in HomeFiles /\ f.private = key /\ f.public = home[h].public
      /\ f.keys = home[h].keys /\ f.config = home[h].config
  BY DEF HomeFiles
<1>2. home' = [home EXCEPT ![h] = f]
  OBVIOUS
<1> HIDE DEF f
<1> QED
  BY <1>1, <1>2, Hold

LEMMA HoldPublic ==
  ASSUME home \in [Homes -> HomeFiles], NEW h \in Homes, NEW key \in Nat,
         home' = [home EXCEPT ![h].public = key]
  PROVE  Holds(h, home[h].private, key, home[h].keys, home[h].config)
<1> DEFINE f == [home[h] EXCEPT !.public = key]
<1>1. /\ f \in HomeFiles /\ f.private = home[h].private /\ f.public = key
      /\ f.keys = home[h].keys /\ f.config = home[h].config
  BY DEF HomeFiles
<1>2. home' = [home EXCEPT ![h] = f]
  OBVIOUS
<1> HIDE DEF f
<1> QED
  BY <1>1, <1>2, Hold

LEMMA HoldKeys ==
  ASSUME home \in [Homes -> HomeFiles], NEW h \in Homes, NEW keys \in SUBSET Seats,
         home' = [home EXCEPT ![h].keys = keys]
  PROVE  Holds(h, home[h].private, home[h].public, keys, home[h].config)
<1> DEFINE f == [home[h] EXCEPT !.keys = keys]
<1>1. /\ f \in HomeFiles /\ f.private = home[h].private /\ f.public = home[h].public
      /\ f.keys = keys /\ f.config = home[h].config
  BY DEF HomeFiles
<1>2. home' = [home EXCEPT ![h] = f]
  OBVIOUS
<1> HIDE DEF f
<1> QED
  BY <1>1, <1>2, Hold

LEMMA HoldConfig ==
  ASSUME home \in [Homes -> HomeFiles], NEW h \in Homes, NEW config \in Seats,
         home' = [home EXCEPT ![h].config = config]
  PROVE  Holds(h, home[h].private, home[h].public, home[h].keys, config)
<1> DEFINE f == [home[h] EXCEPT !.config = config]
<1>1. /\ f \in HomeFiles /\ f.private = home[h].private /\ f.public = home[h].public
      /\ f.keys = home[h].keys /\ f.config = config
  BY DEF HomeFiles
<1>2. home' = [home EXCEPT ![h] = f]
  OBVIOUS
<1> HIDE DEF f
<1> QED
  BY <1>1, <1>2, Hold

(* What becomes of the containers' own files: records are added, and what a  *)
(* root seat narrows stays narrow.                                           *)
Grows ==
  /\ rootfs' \in [Seats -> Rootfs]
  /\ \A s \in Seats :
       /\ rootfs[s].privsep => rootfs'[s].privsep
       /\ rootfs'[s].open => rootfs[s].open
       /\ \A d \in Db : rootfs[s].records[d] <= rootfs'[s].records[d]

LEMMA RootfsFields ==
  \A f \in Rootfs : f.records \in [Db -> Nat] /\ f.privsep \in BOOLEAN /\ f.open \in BOOLEAN
  BY DEF Rootfs

LEMMA SameGrows ==
  ASSUME rootfs \in [Seats -> Rootfs], UNCHANGED rootfs
  PROVE  Grows
  BY RootfsFields DEF Grows

LEMMA PreparedGrows ==
  ASSUME rootfs \in [Seats -> Rootfs], NEW s \in Seats, UNCHANGED fact,
         rootfs' = [rootfs EXCEPT ![s] = Prepared(s)]
  PROVE  Grows /\ Narrowed(s)'
<1> DEFINE f == [rootfs[s] EXCEPT !.privsep = rootfs[s].privsep \/ Root(s),
                                  !.open = rootfs[s].open /\ ~Root(s)]
<1>1. rootfs[s] \in Rootfs /\ Root(s) \in BOOLEAN
  BY DEF Root
<1>2. /\ f \in Rootfs /\ f.records = rootfs[s].records
      /\ f.privsep = (rootfs[s].privsep \/ Root(s)) /\ f.open = (rootfs[s].open /\ ~Root(s))
  BY <1>1 DEF Rootfs
<1>3. rootfs' = [rootfs EXCEPT ![s] = f]
  BY DEF Prepared
<1> HIDE DEF f
<1>4. /\ rootfs' \in [Seats -> Rootfs] /\ rootfs'[s] = f
      /\ \A x \in Seats : x # s => rootfs'[x] = rootfs[x]
  BY <1>2, <1>3
<1>5. Grows
  BY <1>2, <1>4, RootfsFields DEF Grows
<1>6. Narrowed(s)'
  BY <1>2, <1>4 DEF Narrowed, Root
<1> QED
  BY <1>5, <1>6

LEMMA AppendGrows ==
  ASSUME rootfs \in [Seats -> Rootfs], NEW s \in Seats, NEW d \in Db,
         rootfs' = [rootfs EXCEPT ![s].records[d] = @ + 1]
  PROVE  Grows
<1> DEFINE r == [rootfs[s].records EXCEPT ![d] = @ + 1]
           f == [rootfs[s] EXCEPT !.records = r]
<1>1. rootfs[s] \in Rootfs /\ rootfs[s].records \in [Db -> Nat]
  BY RootfsFields
<1>2. r \in [Db -> Nat] /\ \A e \in Db : rootfs[s].records[e] <= r[e]
  BY <1>1
<1>3. rootfs' = [rootfs EXCEPT ![s] = f]
  BY <1>1
<1> HIDE DEF r
<1>4. /\ f \in Rootfs /\ f.records = r
      /\ f.privsep = rootfs[s].privsep /\ f.open = rootfs[s].open
  BY <1>1, <1>2 DEF Rootfs
<1> HIDE DEF f
<1>5. /\ rootfs' \in [Seats -> Rootfs] /\ rootfs'[s] = f
      /\ \A x \in Seats : x # s => rootfs'[x] = rootfs[x]
  BY <1>3, <1>4
<1> QED
  BY <1>2, <1>4, <1>5, RootfsFields DEF Grows

(* A seat that resolves its uid goes on doing so. *)
LEMMA ResolvesOn ==
  ASSUME TypeOK, Grows, UNCHANGED fact, NEW s \in Seats, Resolves(s)
  PROVE  Resolves(s)'
<1>1. /\ \A d \in Db : /\ rootfs[s].records[d] <= rootfs'[s].records[d]
                       /\ rootfs[s].records[d] \in Nat /\ rootfs'[s].records[d] \in Nat
  BY RootfsFields DEF TypeOK, Grows
<1>2. "extrausers" \in Db /\ "passwd" \in Db
  BY DEF Db
<1>3. \A d \in Db : rootfs[s].records[d] > 0 => rootfs'[s].records[d] > 0
  BY <1>1
<1> QED
  BY <1>2, <1>3 DEF Resolves, Provided, ExtrausersServes

LEMMA SpeaksOn ==
  ASSUME TypeOK, Grows, UNCHANGED fact, NEW s \in Seats, NEW root, NEW login,
         Speaks(s, root, login)
  PROVE  Speaks(s, root, login)'
  BY ResolvesOn DEF Speaks, Root, LoginName

LEMMA AgentParts ==
  /\ \A a \in Agents : /\ a[1] \in Seats /\ Home(a[1]) \in Homes
                       /\ a = First(a[1]) \/ a = Exec(a[1])
                       /\ a[2] = "first" <=> a = First(a[1])
                       /\ a[2] = "exec" <=> a = Exec(a[1])
  /\ \A s \in Seats : /\ First(s) \in Agents /\ Exec(s) \in Agents /\ First(s) # Exec(s)
                      /\ First(s)[1] = s /\ Exec(s)[1] = s /\ Home(s) \in Homes
  BY DEF Agents, First, Exec, Home, Homes

-----------------------------------------------------------------------------
(* The steps of ensure_all.                                                  *)

(* What any of them leaves be, and how far it has come.                      *)
Works(a) ==
  /\ Grows
  /\ home' \in [Homes -> HomeFiles] /\ agent' \in [Agents -> Process]
  /\ mints' \in Nat /\ mints' >= mints
  /\ steady' \in [Seats -> BOOLEAN]
  /\ UNCHANGED <<fact, volume, stop, report, faults, laptop>>
  /\ \A b \in Agents : b # a => agent'[b] = agent[b]
  /\ agent[a].pc \in {"home"} \cup (Begun \ {"end"}) /\ agent'[a].pc \in Begun
  /\ IF agent[a].pc = "home"
     THEN Narrowed(a[1])' /\ (~Writable(a[1]) => "home" \in agent'[a].failed)
     ELSE agent[a].failed \subseteq agent'[a].failed
  /\ agent'[a].pc = "end" /\ Writable(a[1]) => home'[Home(a[1])].config # "none"
  /\ \A h \in Homes : home[h].config # "none" => home'[h].config # "none"

(* What one does to the home it is in, and to whom it is a disturbance. *)
Touches(a) ==
  LET h == Home(a[1])
  IN /\ \A g \in Homes : g # h => home'[g] = home[g]
     /\ \A s \in Seats : steady'[s] => steady[s]
     /\ \A s \in Seats : Owns(s, h) /\ steady'[s] =>
          /\ home'[h].private # home[h].private => a = Exec(s) /\ agent[a].pc = "private"
          /\ agent'[a].pc = "public" => a = Exec(s)
          /\ agent'[a].pc = "derive" => home[h].private = Secret /\ home[h].public = NoKey
          /\ s \in home[h].keys => s \in home'[h].keys
     /\ agent'[a].pc = "public" => home'[h].private = agent'[a].key /\ agent'[a].key > Secret
     /\ agent[a].pc = "private" => agent'[a].pc = "public"
     /\ home'[h].public # home[h].public => Mid(a)
     /\ agent[a].pc = "public" => home'[h].public = agent[a].key
     /\ agent'[a].pc = "config" /\ Writable(a[1]) => a[1] \in home'[h].keys
     /\ agent'[a].pc = "end" => agent[a].pc = "config"

LEMMA StepsOfEnsureAll ==
  {"home", "register", "append", "key", "confirm", "private", "public", "derive", "keys",
   "merge", "config", "end"} \subseteq Step
  BY DEF Step

(* A step that leaves the homes and the histories alone. *)
LEMMA PlainWorks ==
  ASSUME TypeOK, NEW a \in Agents, NEW pc, NEW failed, NEW read,
         Turns(a, pc, failed, agent[a].key, read), Grows,
         UNCHANGED <<fact, volume, home, mints, stop, report, faults, laptop, steady>>,
         agent[a].pc \in {"home", "register", "append", "key", "confirm", "keys"},
         pc \in {"register", "append", "key", "confirm", "private", "keys", "merge"},
         IF agent[a].pc = "home" THEN Narrowed(a[1])' /\ (~Writable(a[1]) => "home" \in failed)
                                 ELSE agent[a].failed \subseteq failed
  PROVE  Works(a) /\ Touches(a)
<1>1. Works(a)
  BY DEF Works, Turns, Begun, TypeOK
<1>2. Touches(a)
  BY DEF Touches, Turns
<1> QED
  BY <1>1, <1>2

LEMMA PasswdWorks ==
  ASSUME TypeOK, NEW a \in Agents, EnsurePasswdEntry(a)
  PROVE  Works(a) /\ Touches(a)
<1> DEFINE pc == IF Resolves(a[1]) THEN "key" ELSE "register"
           failed == IF Writable(a[1]) THEN agent[a].failed ELSE {"home"}
<1>1. a[1] \in Seats /\ agent \in [Agents -> Process] /\ agent[a].failed \in SUBSET Failure
  BY AgentParts, ProcessFields DEF TypeOK
<1>2. pc \in Step /\ failed \in SUBSET Failure
  BY <1>1 DEF Step, Failure
<1>3. agent' = [agent EXCEPT ![a].pc = pc, ![a].failed = failed]
  BY DEF EnsurePasswdEntry
<1>4. pc \in {"register", "key"} /\ (~Writable(a[1]) => "home" \in failed)
  OBVIOUS
<1> HIDE DEF pc, failed
<1>5. Turns(a, pc, failed, agent[a].key, agent[a].read)
  BY <1>1, <1>2, <1>3, TurnFailed
<1>6. Grows /\ Narrowed(a[1])'
  BY <1>1, PreparedGrows DEF EnsurePasswdEntry, TypeOK
<1> QED
  BY <1>4, <1>5, <1>6, PlainWorks DEF EnsurePasswdEntry

LEMMA RegisterWorks ==
  ASSUME TypeOK, NEW a \in Agents, Register(a) \/ KeygenConfirms(a)
  PROVE  Works(a) /\ Touches(a)
<1>1. /\ agent \in [Agents -> Process] /\ agent[a].failed \in SUBSET Failure
      /\ Grows /\ UNCHANGED <<fact, volume, home, mints, stop, report, faults, laptop, steady>>
      /\ agent[a].pc \in {"register", "confirm"}
  BY ProcessFields, SameGrows DEF TypeOK, Register, KeygenConfirms
<1>2. ASSUME NEW pc \in {"append", "private"}, Goes(a, pc)
      PROVE  Works(a) /\ Touches(a)
  <2>1. Turns(a, pc, agent[a].failed, agent[a].key, agent[a].read)
    BY <1>1, <1>2, TurnPc DEF Goes, Step
  <2> QED
    BY <1>1, <1>2, <2>1, PlainWorks
<1>3. ASSUME NEW pc \in {"key", "keys"}, NEW step \in {"identity", "key"}, Fails(a, step, pc)
      PROVE  Works(a) /\ Touches(a)
  <2>1. agent[a].failed \cup {step} \in SUBSET Failure /\ pc \in Step
    BY <1>1 DEF Failure, Step
  <2>2. agent' = [agent EXCEPT ![a].pc = pc, ![a].failed = agent[a].failed \cup {step}]
    BY <1>1, <1>3 DEF Fails
  <2>3. Turns(a, pc, agent[a].failed \cup {step}, agent[a].key, agent[a].read)
    BY <1>1, <2>1, <2>2, TurnFailed
  <2> QED
    BY <1>1, <1>3, <2>3, PlainWorks
<1> QED
  BY <1>2, <1>3 DEF Register, KeygenConfirms

LEMMA AppendWorks ==
  ASSUME TypeOK, NEW a \in Agents, AppendRecord(a)
  PROVE  Works(a) /\ Touches(a)
<1>1. a[1] \in Seats /\ NssAppendTarget(a[1]) \in Db
  BY AgentParts DEF NssAppendTarget, Db
<1>2. Grows
  BY <1>1, AppendGrows DEF AppendRecord, TypeOK
<1>3. Turns(a, "key", agent[a].failed, agent[a].key, agent[a].read)
  BY TurnPc DEF AppendRecord, Goes, Step, TypeOK
<1> QED
  BY <1>2, <1>3, PlainWorks DEF AppendRecord

LEMMA ReadWorks ==
  ASSUME TypeOK, NEW a \in Agents, ReadAuthorizedKeys(a)
  PROVE  Works(a) /\ Touches(a)
<1>1. Home(a[1]) \in Homes /\ home[Home(a[1])].keys \in SUBSET Seats
  BY AgentParts DEF TypeOK, HomeFiles
<1>2. Turns(a, "merge", agent[a].failed, agent[a].key, home[Home(a[1])].keys)
  BY <1>1, TurnRead DEF ReadAuthorizedKeys, Step, TypeOK
<1>3. Grows
  BY SameGrows DEF ReadAuthorizedKeys, TypeOK
<1> QED
  BY <1>2, <1>3, PlainWorks DEF ReadAuthorizedKeys

LEMMA DisturbsOnly ==
  ASSUME steady \in [Seats -> BOOLEAN], NEW changed, Disturbs(changed)
  PROVE  /\ steady' \in [Seats -> BOOLEAN]
         /\ \A s \in Seats : steady'[s] <=> steady[s] /\ s \notin changed
  BY DEF Disturbs

LEMMA HomeFields ==
  \A f \in HomeFiles : /\ f.private \in Nat /\ f.public \in Nat /\ f.keys \in SUBSET Seats
                       /\ f.config \in Seats \cup {"none"}
  BY DEF HomeFiles

(* What a step that writes in the home of its seat has to leave be. *)
Abides(a) ==
  /\ UNCHANGED <<fact, volume, rootfs, stop, report, faults, laptop>>
  /\ mints' \in Nat /\ mints' >= mints
  /\ steady' \in [Seats -> BOOLEAN] /\ \A s \in Seats : steady'[s] => steady[s]

LEMMA AbidingWorks ==
  ASSUME TypeOK, NEW a \in Agents, Abides(a),
         NEW pc, NEW failed, NEW key, NEW read, Turns(a, pc, failed, key, read),
         NEW private, NEW public, NEW keys, NEW config,
         Holds(Home(a[1]), private, public, keys, config),
         agent[a].pc \in {"key", "private", "public", "derive", "merge", "config"},
         pc \in {"confirm", "public", "derive", "keys", "config", "end"},
         agent[a].failed \subseteq failed,
         home[Home(a[1])].config # "none" => config # "none",
         pc = "end" /\ Writable(a[1]) => config # "none"
  PROVE  Works(a)
<1>1. Grows /\ Home(a[1]) \in Homes
  BY SameGrows, AgentParts DEF Abides, TypeOK
<1>2. \A h \in Homes : home[h].config # "none" => home'[h].config # "none"
  BY DEF Holds
<1> QED
  BY <1>1, <1>2 DEF Works, Turns, Holds, Abides, Begun

LEMMA KeyWorks ==
  ASSUME TypeOK, NEW a \in Agents, EnsureHostKey(a)
  PROVE  Works(a) /\ Touches(a)
<1> DEFINE h == Home(a[1])
<1>1. /\ h \in Homes /\ home[h] \in HomeFiles /\ agent \in [Agents -> Process]
      /\ home \in [Homes -> HomeFiles] /\ agent[a].failed \in SUBSET Failure
      /\ agent[a].pc = "key" /\ agent[a].key \in Nat
  BY AgentParts, ProcessFields DEF TypeOK, EnsureHostKey
<1>2. UNCHANGED <<fact, volume, rootfs, mints, stop, report, faults, laptop>>
  BY DEF EnsureHostKey
<1>3. CASE fact[a[1]].secret /\ Writable(a[1])
  <2>1. PICK pc \in {"derive", "keys"} :
          /\ Goes(a, pc)
          /\ pc = "derive" => home[h].private # Secret \/ home[h].public = NoKey
    BY <1>3 DEF EnsureHostKey
  <2>2. Turns(a, pc, agent[a].failed, agent[a].key, agent[a].read)
    BY <1>1, <2>1, TurnPc DEF Goes, Step
  <2>3. home' = [home EXCEPT ![h].private = Secret]
    BY <1>3 DEF EnsureHostKey
  <2>4. Holds(h, Secret, home[h].public, home[h].keys, home[h].config)
    BY <1>1, <2>3, HoldPrivate DEF Secret
  <2>5. Disturbs({x \in Seats : Owns(x, h) /\ home[h].private # Secret})
    BY <1>3 DEF EnsureHostKey
  <2>6. /\ steady' \in [Seats -> BOOLEAN]
        /\ \A s \in Seats : steady'[s] => steady[s]
        /\ \A s \in Seats : steady'[s] /\ Owns(s, h) => home[h].private = Secret
    BY <2>5, DisturbsOnly DEF TypeOK
  <2>7. Works(a)
    <3>1. Abides(a)
      BY <1>2, <2>6 DEF Abides, TypeOK
    <3> QED
      BY <1>1, <2>1, <2>2, <2>4, <3>1, AbidingWorks
  <2>8. Touches(a)
    BY <1>1, <2>1, <2>2, <2>4, <2>6 DEF Touches, Turns, Holds
  <2> QED
    BY <2>7, <2>8
<1>4. CASE ~(fact[a[1]].secret /\ Writable(a[1]))
  <2>1. UNCHANGED <<home, steady>> /\ Grows
    BY <1>2, <1>4, SameGrows DEF EnsureHostKey, TypeOK
  <2>2. Goes(a, "keys") \/ Goes(a, "confirm") \/ Fails(a, "key", "keys")
    BY <1>4 DEF EnsureHostKey
  <2>3. ASSUME NEW pc \in {"keys", "confirm"}, Goes(a, pc)
        PROVE  Works(a) /\ Touches(a)
    <3>1. Turns(a, pc, agent[a].failed, agent[a].key, agent[a].read)
      BY <1>1, <2>3, TurnPc DEF Goes, Step
    <3> QED
      BY <1>1, <1>2, <2>1, <3>1, PlainWorks
  <2>4. CASE Fails(a, "key", "keys")
    <3>1. agent[a].failed \cup {"key"} \in SUBSET Failure /\ "keys" \in Step
      BY <1>1 DEF Failure, Step
    <3>2. agent' = [agent EXCEPT ![a].pc = "keys", ![a].failed = agent[a].failed \cup {"key"}]
      BY <1>1, <2>4 DEF Fails
    <3>3. Turns(a, "keys", agent[a].failed \cup {"key"}, agent[a].key, agent[a].read)
      BY <1>1, <3>1, <3>2, TurnFailed
    <3> QED
      BY <1>1, <1>2, <2>1, <3>3, PlainWorks
  <2> QED
    BY <2>2, <2>3, <2>4
<1> QED
  BY <1>3, <1>4

LEMMA PrivateWorks ==
  ASSUME TypeOK, mints > Secret, NEW a \in Agents, KeygenPrivate(a)
  PROVE  Works(a) /\ Touches(a) /\ mints' > Secret
<1> DEFINE h == Home(a[1])
<1>1. /\ h \in Homes /\ home \in [Homes -> HomeFiles] /\ agent \in [Agents -> Process]
      /\ mints \in Nat /\ mints' = mints + 1 /\ mints' \in Nat /\ agent[a].pc = "private"
      /\ UNCHANGED <<fact, volume, rootfs, stop, report, faults, laptop>>
  BY AgentParts DEF TypeOK, KeygenPrivate
<1>2. Turns(a, "public", agent[a].failed, mints', agent[a].read)
  <2>1. agent' = [agent EXCEPT ![a].pc = "public", ![a].key = mints'] /\ "public" \in Step
    BY DEF KeygenPrivate, Step
  <2> QED
    BY <1>1, <2>1, TurnKey
<1>3. Holds(h, mints', home[h].public, home[h].keys, home[h].config)
  <2>1. home' = [home EXCEPT ![h].private = mints']
    BY DEF KeygenPrivate
  <2> QED
    BY <1>1, <2>1, HoldPrivate
<1>4. /\ steady' \in [Seats -> BOOLEAN]
      /\ \A s \in Seats : steady'[s] => steady[s]
      /\ \A s \in Seats : steady'[s] /\ Owns(s, h) => a = Exec(s)
  <2>1. Disturbs({x \in Seats : Owns(x, h)} \ (IF a[2] = "exec" THEN {a[1]} ELSE {}))
    BY DEF KeygenPrivate
  <2>2. \A s \in Seats : steady'[s] <=>
           steady[s] /\ s \notin {x \in Seats : Owns(x, h)} \ (IF a[2] = "exec" THEN {a[1]} ELSE {})
    BY <2>1, DisturbsOnly DEF TypeOK
  <2>3. steady' \in [Seats -> BOOLEAN]
    BY <2>1, DisturbsOnly DEF TypeOK
  <2> QED
    BY <2>2, <2>3, AgentParts
<1>5. Works(a)
  <2>1. Abides(a)
    BY <1>1, <1>4 DEF Abides
  <2> QED
    BY <1>1, <1>2, <1>3, <2>1, AbidingWorks
<1>6. mints' > Secret
  BY <1>1 DEF Secret
<1>7. Touches(a)
  BY <1>1, <1>2, <1>3, <1>4, <1>6 DEF Touches, Turns, Holds
<1> QED
  BY <1>5, <1>6, <1>7

LEMMA PublicWorks ==
  ASSUME TypeOK, NEW a \in Agents, KeygenPublic(a) \/ DerivePublicKey(a)
  PROVE  Works(a) /\ Touches(a)
<1> DEFINE h == Home(a[1])
<1>1. /\ h \in Homes /\ home \in [Homes -> HomeFiles] /\ agent \in [Agents -> Process]
      /\ home[h] \in HomeFiles /\ agent[a].key \in Nat /\ mints \in Nat
      /\ agent[a].pc \in {"public", "derive"} /\ steady \in [Seats -> BOOLEAN]
      /\ UNCHANGED <<fact, volume, rootfs, mints, stop, report, faults, laptop, steady>>
  BY AgentParts, ProcessFields DEF TypeOK, KeygenPublic, DerivePublicKey
<1>2. PICK key \in Nat : /\ Holds(h, home[h].private, key, home[h].keys, home[h].config)
                         /\ agent[a].pc = "public" => key = agent[a].key
  <2>1. CASE KeygenPublic(a)
    <3>1. home' = [home EXCEPT ![h].public = agent[a].key]
      BY <2>1 DEF KeygenPublic
    <3> QED
      BY <1>1, <3>1, HoldPublic
  <2>2. CASE DerivePublicKey(a) /\ Resolves(a[1])
    <3>1. home' = [home EXCEPT ![h].public = home[h].private] /\ agent[a].pc = "derive"
      BY <2>2 DEF DerivePublicKey
    <3>2. home[h].private \in Nat
      BY <1>1, HomeFields
    <3> QED
      BY <1>1, <3>1, <3>2, HoldPublic
  <2>3. CASE DerivePublicKey(a) /\ ~Resolves(a[1])
    <3>1. UNCHANGED home /\ agent[a].pc = "derive" /\ home[h].public \in Nat
      BY <1>1, <2>3, HomeFields DEF DerivePublicKey
    <3> QED
      BY <1>1, <3>1 DEF Holds
  <2> QED
    BY <2>1, <2>2, <2>3
<1>3. PICK k \in Nat : Turns(a, "keys", agent[a].failed, k, agent[a].read)
  <2>1. "keys" \in Step /\ NoKey \in Nat
    BY DEF Step, NoKey
  <2>2. CASE KeygenPublic(a)
    <3>1. agent' = [agent EXCEPT ![a].pc = "keys", ![a].key = NoKey]
      BY <2>2 DEF KeygenPublic
    <3> QED
      BY <1>1, <2>1, <3>1, TurnKey
  <2>3. CASE DerivePublicKey(a)
    BY <1>1, <2>1, <2>3, TurnPc DEF DerivePublicKey, Goes
  <2> QED
    BY <2>2, <2>3
<1>4. Works(a)
  <2>1. Abides(a)
    BY <1>1 DEF Abides
  <2> QED
    BY <1>1, <1>2, <1>3, <2>1, AbidingWorks
<1>5. Touches(a)
  BY <1>1, <1>2, <1>3 DEF Touches, Turns, Holds, Mid
<1> QED
  BY <1>4, <1>5

LEMMA KeysWorks ==
  ASSUME TypeOK, NEW a \in Agents, EnsureAuthorizedKeys(a)
  PROVE  Works(a) /\ Touches(a)
<1> DEFINE h == Home(a[1])
           new == Merged(a[1], agent[a].read)
<1>1. /\ h \in Homes /\ home \in [Homes -> HomeFiles] /\ agent \in [Agents -> Process]
      /\ home[h] \in HomeFiles /\ agent[a].key \in Nat /\ mints \in Nat /\ a[1] \in Seats
      /\ agent[a].failed \in SUBSET Failure /\ agent[a].read \in SUBSET Seats
      /\ agent[a].pc = "merge" /\ steady \in [Seats -> BOOLEAN]
      /\ UNCHANGED <<fact, volume, rootfs, mints, stop, report, faults, laptop>>
  BY AgentParts, ProcessFields DEF TypeOK, EnsureAuthorizedKeys
<1>2. new \in SUBSET Seats /\ a[1] \in new /\ {} \in SUBSET Seats /\ "config" \in Step
  BY <1>1 DEF Merged, Step
<1>3. CASE Writable(a[1])
  <2>1. /\ home' = [home EXCEPT ![h].keys = new]
        /\ agent' = [agent EXCEPT ![a].pc = "config", ![a].read = {}]
        /\ Disturbs(home[h].keys \ new)
    BY <1>3 DEF EnsureAuthorizedKeys
  <2> HIDE DEF new
  <2>2. Turns(a, "config", agent[a].failed, agent[a].key, {})
    BY <1>1, <1>2, <2>1, TurnRead
  <2>3. Holds(h, home[h].private, home[h].public, new, home[h].config)
    BY <1>1, <1>2, <2>1, HoldKeys
  <2>4. /\ steady' \in [Seats -> BOOLEAN]
        /\ \A s \in Seats : steady'[s] => steady[s]
        /\ \A s \in Seats : steady'[s] /\ s \in home[h].keys => s \in new
    BY <1>1, <2>1, DisturbsOnly
  <2>5. Works(a)
    <3>1. Abides(a)
      BY <1>1, <2>4 DEF Abides
    <3> QED
      BY <1>1, <2>2, <2>3, <3>1, AbidingWorks
  <2>6. Touches(a)
    BY <1>1, <1>2, <2>2, <2>3, <2>4 DEF Touches, Turns, Holds
  <2> QED
    BY <2>5, <2>6
<1>4. CASE ~Writable(a[1])
  <2>1. /\ UNCHANGED <<home, steady>>
        /\ agent' = [agent EXCEPT ![a].pc = "config", ![a].read = {},
                                  ![a].failed = agent[a].failed \cup {"keys"}]
    BY <1>1, <1>4 DEF EnsureAuthorizedKeys
  <2>2. PICK failed \in SUBSET Failure : /\ failed = agent[a].failed \cup {"keys"}
                                         /\ agent[a].failed \subseteq failed
    BY <1>1 DEF Failure
  <2>3. Turns(a, "config", failed, agent[a].key, {})
    BY <1>1, <1>2, <2>1, <2>2, TurnReadFailed
  <2>4. Holds(h, home[h].private, home[h].public, home[h].keys, home[h].config)
    BY <1>1, <2>1 DEF Holds
  <2>5. Works(a)
    <3>1. Grows
      BY <1>1, SameGrows DEF TypeOK
    <3> QED
      BY <1>1, <2>1, <2>2, <2>3, <3>1 DEF Works, Turns, Begun
  <2>6. Touches(a)
    BY <1>1, <1>4, <2>1, <2>3, <2>4 DEF Touches, Turns, Holds
  <2> QED
    BY <2>5, <2>6
<1> QED
  BY <1>3, <1>4

LEMMA ConfigWorks ==
  ASSUME TypeOK, NEW a \in Agents, EnsureSshdConfig(a)
  PROVE  Works(a) /\ Touches(a)
<1> DEFINE h == Home(a[1])
           failed == agent[a].failed \cup ConfigFails(a[1])
<1>1. /\ h \in Homes /\ home \in [Homes -> HomeFiles] /\ agent \in [Agents -> Process]
      /\ home[h] \in HomeFiles /\ agent[a].key \in Nat /\ mints \in Nat /\ a[1] \in Seats
      /\ agent[a].failed \in SUBSET Failure /\ agent[a].pc = "config"
      /\ steady \in [Seats -> BOOLEAN]
      /\ UNCHANGED <<fact, volume, rootfs, mints, stop, report, faults, laptop, steady>>
  BY AgentParts, ProcessFields DEF TypeOK, EnsureSshdConfig
<1>2. failed \in SUBSET Failure /\ agent[a].failed \subseteq failed /\ "end" \in Step
  BY <1>1 DEF ConfigFails, Failure, Step
<1>3. agent' = [agent EXCEPT ![a].pc = "end", ![a].failed = failed]
  BY <1>1 DEF EnsureSshdConfig
<1> HIDE DEF failed
<1>4. Turns(a, "end", failed, agent[a].key, agent[a].read)
  BY <1>1, <1>2, <1>3, TurnFailed
<1>5. PICK config : /\ Holds(h, home[h].private, home[h].public, home[h].keys, config)
                    /\ home[h].config # "none" => config # "none"
                    /\ Writable(a[1]) => config # "none"
  <2>1. CASE Writable(a[1])
    <3>1. home' = [home EXCEPT ![h].config = a[1]]
      BY <2>1 DEF EnsureSshdConfig
    <3> QED
      BY <1>1, <3>1, HoldConfig, SeatNamesAssumption
  <2>2. CASE ~Writable(a[1])
    <3>1. UNCHANGED home
      BY <2>2 DEF EnsureSshdConfig
    <3> QED
      BY <1>1, <2>2, <3>1 DEF Holds
  <2> QED
    BY <2>1, <2>2
<1>6. Works(a)
  BY <1>1, <1>2, <1>4, <1>5, AbidingWorks DEF Abides
<1>7. Touches(a)
  BY <1>1, <1>4, <1>5 DEF Touches, Turns, Holds
<1> QED
  BY <1>6, <1>7

LEMMA EnsuresWorks ==
  ASSUME TypeOK, mints > Secret, NEW a \in Agents, Ensures(a), ~StartUpReport(a), ~StopIdling(a)
  PROVE  Works(a) /\ Touches(a) /\ mints' > Secret
<1>1. KeygenPrivate(a) => Works(a) /\ Touches(a) /\ mints' > Secret
  BY PrivateWorks
<1>2. ~KeygenPrivate(a) => mints' = mints
  BY DEF Ensures, EnsurePasswdEntry, Register, AppendRecord, EnsureHostKey, KeygenConfirms,
     KeygenPublic, DerivePublicKey, ReadAuthorizedKeys, EnsureAuthorizedKeys, EnsureSshdConfig
<1> QED
  BY <1>1, <1>2, PasswdWorks, RegisterWorks, AppendWorks, KeyWorks, PublicWorks, ReadWorks, KeysWorks,
     ConfigWorks DEF Ensures

LEMMA WorksTypes ==
  ASSUME TypeOK, NEW a \in Agents, Works(a)
  PROVE  TypeOK'
  BY DEF TypeOK, Works, Grows, laptop, Homes

LEMMA SameSeat ==
  ASSUME UNCHANGED <<fact, volume>>
  PROVE  \A s : Home(s)' = Home(s) /\ Root(s)' = Root(s) /\ Writable(s)' = Writable(s)
  BY DEF Home, Root, Writable

LEMMA WorksKeep ==
  ASSUME Inv, NEW a \in Agents, Works(a), NEW s \in Seats
  PROVE  Reported(s)' /\ Asked(s)' /\ Written(s)'
<1>1. /\ TypeOK /\ Reported(s) /\ Asked(s) /\ Written(s)
      /\ UNCHANGED <<fact, volume, wiring, stanza, report>> /\ Grows
  BY DEF Inv, Works, laptop
<1>2. /\ First(s) \in Agents /\ Exec(s) \in Agents /\ First(s) # Exec(s) /\ Home(s) \in Homes
      /\ First(s)[1] = s /\ (Narrowed(s) => Narrowed(s)')
  BY <1>1, AgentParts DEF Narrowed, Root, Grows
<1>3. Home(s)' = Home(s) /\ Writable(s)' = Writable(s)
  BY <1>1, SameSeat
<1>4. home[Home(s)].config # "none" => home'[Home(s)].config # "none"
  BY <1>2 DEF Works
<1>5. Reported(s)'
  <2>1. CASE a = First(s)
    BY <1>1, <1>2, <1>3, <1>4, <2>1 DEF Works, Reported, Begun
  <2>2. CASE a # First(s)
    BY <1>1, <1>2, <1>3, <1>4, <2>2 DEF Works, Reported
  <2> QED
    BY <2>1, <2>2
<1>6. Asked(s)'
  <2>1. ~At(s, "idle") => Speaks(s, wiring[s].root, wiring[s].login)'
    <3>1. ~At(s, "idle") => Speaks(s, wiring[s].root, wiring[s].login)
      BY <1>1 DEF Asked
    <3>2. Speaks(s, wiring[s].root, wiring[s].login) => Speaks(s, wiring[s].root, wiring[s].login)'
      BY <1>1, SpeaksOn DEF Speaks
    <3> QED
      BY <3>1, <3>2
  <2>2. agent'[Exec(s)].pc # "off" => agent[Exec(s)].pc # "off"
    BY <1>2 DEF Works, Begun
  <2> QED
    BY <1>1, <2>1, <2>2 DEF Asked, At
<1>7. Written(s)'
  <2> DEFINE login == IF stanza[s].named THEN stanza[s].login ELSE ""
  <2>1. Speaks(s, stanza[s].root, login) => Speaks(s, stanza[s].root, login)'
    BY <1>1, SpeaksOn DEF Speaks
  <2> QED
    BY <1>1, <2>1 DEF Written
<1> QED
  BY <1>5, <1>6, <1>7

LEMMA TouchesKeep ==
  ASSUME Inv, NEW a \in Agents, Works(a), Touches(a), NEW s \in Seats
  PROVE  Steadily(s)'
<1> DEFINE h == Home(s)
<1>1. /\ TypeOK /\ Asked(s) /\ Steadily(s) /\ UNCHANGED <<fact, volume, wiring, stanza, known>>
      /\ \A b \in Agents : b # a => agent'[b] = agent[b]
  BY DEF Inv, Works, laptop
<1>2. /\ Exec(s) \in Agents /\ Exec(s)[1] = s /\ h \in Homes
      /\ \A b \in Agents : b[1] \in Seats
  BY AgentParts
<1>3. \A x : Home(x)' = Home(x) /\ Writable(x)' = Writable(x) /\ (Owns(x, h) <=> Home(x) = h)
  BY <1>1, SameSeat DEF Owns
<1>4. agent[a].pc # "off"
  BY DEF Works, Begun
<1> SUFFICES ASSUME steady'[s]
             PROVE  /\ agent'[Exec(s)].pc # "off" => Paired(s)'
                    /\ At(s, "write") /\ wiring[s].key # NoKey => Serves(s, wiring[s].key)'
                    /\ At(s, "idle") /\ stanza[s].written /\ stanza[s].pinned => Serves(s, known[s])'
  BY <1>1 DEF Steadily, At
<1>5. steady[s]
  BY DEF Touches
<1>6. CASE Home(a[1]) # h
  <2>1. home'[h] = home[h] /\ a # Exec(s)
    BY <1>2, <1>6 DEF Touches
  <2>2. \A b \in Agents : Owns(b[1], h) => agent'[b] = agent[b]
    BY <1>1, <1>6 DEF Owns
  <2>3. agent'[Exec(s)] = agent[Exec(s)]
    BY <1>1, <1>2, <2>1
  <2>4. \A key : Serves(s, key) => Serves(s, key)'
    BY <1>3, <2>1 DEF Serves
  <2>5. Paired(s) => Paired(s)'
    BY <1>3, <2>1, <2>2, <2>3 DEF Paired, Whole, Mid, Owns
  <2> QED
    BY <1>1, <1>5, <2>3, <2>4, <2>5 DEF Steadily, Serves
<1>7. CASE Home(a[1]) = h
  <2>1. /\ home'[h].private # home[h].private => a = Exec(s) /\ agent[a].pc = "private"
        /\ agent'[a].pc = "public" => a = Exec(s)
        /\ agent'[a].pc = "derive" => home[h].private = Secret /\ home[h].public = NoKey
        /\ s \in home[h].keys => s \in home'[h].keys
    BY <1>3, <1>7 DEF Touches
  <2>2. /\ agent'[a].pc = "public" => home'[h].private = agent'[a].key /\ agent'[a].key > Secret
        /\ agent[a].pc = "private" => agent'[a].pc = "public"
        /\ home'[h].public # home[h].public => Mid(a)
        /\ agent[a].pc = "public" => home'[h].public = agent[a].key
        /\ agent'[a].pc = "config" /\ Writable(a[1]) => a[1] \in home'[h].keys
        /\ agent'[a].pc = "end" => agent[a].pc = "config"
    BY <1>7 DEF Touches
  <2>3. ~At(s, "asked") => agent[Exec(s)].pc = "off" /\ a # Exec(s) /\ agent'[Exec(s)].pc = "off"
    BY <1>1, <1>2, <1>4 DEF Asked
  <2>4. /\ At(s, "write") => ~At(s, "asked")
        /\ At(s, "idle") => ~At(s, "asked")
    BY DEF At
  <2>5. \A key : a # Exec(s) /\ Serves(s, key) => Serves(s, key)'
    BY <1>3, <2>1 DEF Serves
  <2>6. ASSUME agent[Exec(s)].pc # "off"
        PROVE  Paired(s)'
    <3>1. Paired(s)
      BY <1>1, <1>5, <2>6 DEF Steadily
    <3>2. home[h].private \in Nat /\ home[h].public \in Nat /\ agent[Exec(s)].key \in Nat
      BY <1>1, <1>2, HomeFields, ProcessFields DEF TypeOK
    <3>3. agent'[a].pc # "derive"
      BY <2>1, <3>1, <3>2 DEF Paired, Whole, Secret, NoKey
    <3>4. CASE a = Exec(s)
      <4>1. \A b \in Agents : b # Exec(s) /\ Owns(b[1], h) => ~Mid(b)'
        BY <1>1, <3>1, <3>4 DEF Paired, Mid
      <4>2. IF agent'[a].pc = "public" THEN home'[h].private = agent'[a].key /\ agent'[a].key > Secret
                                       ELSE home'[h].private = home'[h].public
        BY <2>1, <2>2, <3>1, <3>4 DEF Paired, Mid, Whole
      <4>3. agent'[a].pc \in {"config", "end"} /\ Writable(s) => s \in home'[h].keys
        BY <1>2, <2>1, <2>2, <3>1, <3>4 DEF Paired
      <4> QED
        BY <1>3, <3>3, <3>4, <4>1, <4>2, <4>3 DEF Paired, Whole, Owns
    <3>5. CASE a # Exec(s)
      <4>1. agent'[Exec(s)] = agent[Exec(s)] /\ home'[h].private = home[h].private
        BY <1>1, <1>2, <2>1, <3>5
      <4>2. ~Mid(a) /\ ~Mid(a)'
        BY <1>7, <2>1, <3>1, <3>3, <3>5 DEF Paired, Mid, Owns
      <4>3. home'[h].public = home[h].public
        BY <2>2, <4>2
      <4>4. \A b \in Agents : b # Exec(s) /\ Owns(b[1], h) => ~Mid(b)'
        BY <1>1, <3>1, <4>2 DEF Paired, Mid
      <4> QED
        BY <1>3, <2>1, <3>1, <4>1, <4>3, <4>4 DEF Paired, Whole, Owns
    <3> QED
      BY <3>4, <3>5
  <2>7. agent'[Exec(s)].pc # "off" => agent[Exec(s)].pc # "off"
    BY <1>1, <1>2, <1>4
  <2> QED
    BY <1>1, <1>5, <2>3, <2>4, <2>5, <2>6, <2>7 DEF Steadily, Serves
<1> QED
  BY <1>6, <1>7

-----------------------------------------------------------------------------
(* The container around the agents. *)

LEMMA StartedProcess ==
  /\ Started \in Process /\ Started.pc = "home"
  /\ Off \in Process /\ Off.pc = "off"
<1>1. Started \in Process /\ Started.pc = "home"
  BY DEF Started, Process, Step, NoKey
<1> QED
  BY <1>1 DEF Off, Process, Step

(* Both agents of a seat become something else. *)
LEMMA TurnBoth ==
  ASSUME agent \in [Agents -> Process], NEW s \in Seats, NEW p \in Process,
         agent' = [agent EXCEPT ![First(s)] = p, ![Exec(s)] = Off]
  PROVE  /\ agent' \in [Agents -> Process]
         /\ agent'[First(s)] = p /\ agent'[Exec(s)].pc = "off"
         /\ \A b \in Agents : b # First(s) /\ b # Exec(s) => agent'[b] = agent[b]
  BY AgentParts, StartedProcess

LEMMA EndedBoth ==
  ASSUME agent \in [Agents -> Process], NEW s \in Seats, NEW pc \in {"stopped", "killed"},
         Ended(s, pc)
  PROVE  /\ agent' \in [Agents -> Process]
         /\ agent'[First(s)].pc = pc /\ agent'[Exec(s)].pc = "off"
         /\ \A b \in Agents : b # First(s) /\ b # Exec(s) => agent'[b] = agent[b]
<1> DEFINE p == [agent[First(s)] EXCEPT !.pc = pc]
<1>1. First(s) \in Agents
  BY AgentParts
<1>2. p \in Process /\ p.pc = pc
  BY <1>1 DEF Process, Step
<1>3. agent' = [agent EXCEPT ![First(s)] = p, ![Exec(s)] = Off]
  BY DEF Ended, First, Exec
<1> HIDE DEF p
<1> QED
  BY <1>2, <1>3, TurnBoth

(* A step at a seat's container: its own agents change and no home does, and *)
(* nobody begins half a key pair.                                            *)
AtSeat(s) ==
  /\ UNCHANGED <<fact, volume, rootfs, home, laptop, steady>>
  /\ agent' \in [Agents -> Process]
  /\ \A b \in Agents : b # First(s) /\ b # Exec(s) => agent'[b] = agent[b]
  /\ agent'[First(s)].pc \in {"idle", "stopped", "killed"} \/ agent'[First(s)] = agent[First(s)]
  /\ agent'[Exec(s)].pc = "off" \/ agent'[Exec(s)] = agent[Exec(s)]
  /\ \A x \in Seats : x # s => report'[x] = report[x]

LEMMA AtSeatKeeps ==
  ASSUME Inv, NEW s \in Seats, AtSeat(s),
         agent'[First(s)].pc = "idle" => Narrowed(s),
         \/ report'[s] = report[s]
         \/ report'[s] = {} => Narrowed(s) /\ Writable(s) /\ home[Home(s)].config # "none",
         NEW x \in Seats
  PROVE  Reported(x)' /\ Asked(x)' /\ Written(x)' /\ Steadily(x)'
<1>1. /\ TypeOK /\ Reported(x) /\ Asked(x) /\ Written(x) /\ Steadily(x)
      /\ UNCHANGED <<fact, volume, rootfs, home, wiring, stanza, known, steady>>
  BY DEF Inv, AtSeat, laptop
<1>2. /\ First(x) \in Agents /\ Exec(x) \in Agents /\ First(x) # Exec(x)
      /\ First(s) # Exec(x) /\ First(x) # Exec(s)
      /\ x # s => First(x) # First(s) /\ Exec(x) # Exec(s)
  BY DEF First, Exec, Agents
<1>3. /\ agent'[Exec(x)].pc = "off" \/ agent'[Exec(x)] = agent[Exec(x)]
      /\ x # s => agent'[First(x)] = agent[First(x)] /\ report'[x] = report[x]
  BY <1>2 DEF AtSeat
<1>4. \A b \in Agents : Mid(b)' => Mid(b)
  BY DEF AtSeat, Mid
<1>5. /\ Home(x)' = Home(x) /\ Writable(x)' = Writable(x) /\ Narrowed(x)' = Narrowed(x)
      /\ Resolves(x)' = Resolves(x) /\ LoginName(x)' = LoginName(x) /\ Root(x)' = Root(x)
      /\ \A y : Owns(y, Home(x))' = Owns(y, Home(x))
  BY <1>1 DEF Home, Writable, Narrowed, Root, Resolves, Provided, ExtrausersServes, LoginName, Owns
<1>6. Reported(x)'
  <2>1. CASE x = s
    BY <1>1, <1>5, <2>1 DEF Reported, AtSeat, Begun
  <2>2. CASE x # s
    BY <1>1, <1>3, <1>5, <2>2 DEF Reported
  <2> QED
    BY <2>1, <2>2
<1>7. Asked(x)' /\ Written(x)'
  BY <1>1, <1>3, <1>5 DEF Asked, Written, Speaks, At
<1>8. ASSUME agent'[Exec(x)].pc # "off", Paired(x)
      PROVE  Paired(x)'
  BY <1>1, <1>3, <1>4, <1>5, <1>8 DEF Paired, Whole
<1>9. Steadily(x)'
  BY <1>1, <1>3, <1>5, <1>8 DEF Steadily, Serves, At
<1> QED
  BY <1>6, <1>7, <1>9

LEMMA AtSeatTypes ==
  ASSUME TypeOK, NEW s \in Seats, AtSeat(s),
         mints' \in Nat, faults' \in Nat, stop' \in [Seats -> BOOLEAN],
         report' \in [Seats -> (SUBSET Failure) \cup {{"unmeasured"}}]
  PROVE  TypeOK'
  BY DEF TypeOK, AtSeat, laptop, Homes

LEMMA ReportKeeps ==
  ASSUME Inv, NEW a \in Agents, StartUpReport(a)
  PROVE  Inv'
<1>1. PICK s \in Seats : a = First(s)
  BY AgentParts DEF StartUpReport
<1>2. /\ TypeOK /\ mints > Secret /\ Reported(s) /\ agent[a].pc = "end" /\ a[1] = s
      /\ First(s) # Exec(s) /\ Exec(s) \in Agents /\ First(s) \in Agents
      /\ UNCHANGED <<fact, volume, rootfs, home, mints, faults, laptop, steady>>
  BY <1>1, AgentParts DEF Inv, StartUpReport
<1>3. Turns(a, "idle", {}, agent[a].key, agent[a].read)
  <2>1. "idle" \in Step /\ {} \in SUBSET Failure
    BY DEF Step
  <2>2. agent' = [agent EXCEPT ![a].pc = "idle", ![a].failed = {}]
    BY DEF StartUpReport
  <2> QED
    BY <1>2, <2>1, <2>2, TurnFailed DEF TypeOK
<1>4. /\ report' = [report EXCEPT ![s] = agent[a].failed] /\ stop' = [stop EXCEPT ![s] = FALSE]
      /\ agent[a].failed \in SUBSET Failure
  BY <1>2, ProcessFields DEF StartUpReport, TypeOK
<1>5. /\ report' \in [Seats -> (SUBSET Failure) \cup {{"unmeasured"}}] /\ stop' \in [Seats -> BOOLEAN]
      /\ report'[s] = agent[a].failed /\ \A x \in Seats : x # s => report'[x] = report[x]
  BY <1>2, <1>4 DEF TypeOK
<1>6. AtSeat(s)
  BY <1>1, <1>2, <1>3, <1>5 DEF AtSeat, Turns
<1>7. Narrowed(s) /\ (agent[a].failed = {} => Writable(s) /\ home[Home(s)].config # "none")
  BY <1>1, <1>2 DEF Reported, Begun
<1>8. TypeOK'
  BY <1>2, <1>5, <1>6, AtSeatTypes DEF TypeOK
<1>9. \A x \in Seats : Reported(x)' /\ Asked(x)' /\ Written(x)' /\ Steadily(x)'
  BY <1>5, <1>6, <1>7, AtSeatKeeps
<1> QED
  BY <1>2, <1>8, <1>9 DEF Inv

LEMMA StopKeeps ==
  ASSUME Inv, NEW a \in Agents, StopIdling(a)
  PROVE  Inv'
<1>1. /\ TypeOK /\ mints > Secret /\ a[1] \in Seats
      /\ UNCHANGED <<fact, volume, rootfs, home, mints, stop, report, faults, laptop, steady>>
  BY AgentParts DEF Inv, StopIdling
<1>2. AtSeat(a[1]) /\ agent'[First(a[1])].pc = "stopped"
  BY <1>1, EndedBoth DEF AtSeat, StopIdling, TypeOK
<1>3. TypeOK'
  BY <1>1, <1>2, AtSeatTypes DEF TypeOK
<1>4. \A x \in Seats : Reported(x)' /\ Asked(x)' /\ Written(x)' /\ Steadily(x)'
  BY <1>1, <1>2, AtSeatKeeps
<1> QED
  BY <1>1, <1>3, <1>4 DEF Inv

LEMMA TerminateKeeps ==
  ASSUME Inv, NEW s \in Seats, Terminate(s)
  PROVE  Inv'
<1>1. /\ TypeOK /\ mints > Secret /\ faults' \in Nat
      /\ UNCHANGED <<fact, volume, rootfs, home, mints, report, laptop, steady>>
  BY DEF Inv, Terminate, TypeOK
<1>2. Reported(s) /\ First(s) \in Agents
  BY AgentParts DEF Inv
<1>3. /\ AtSeat(s) /\ stop' \in [Seats -> BOOLEAN]
      /\ agent'[First(s)].pc = "idle" => agent[First(s)].pc = "idle"
  <2>1. CASE UNCHANGED agent
    BY <1>1, <2>1 DEF AtSeat, TypeOK, Terminate
  <2>2. CASE Ended(s, "killed") /\ UNCHANGED stop
    <3>1. /\ agent' \in [Agents -> Process] /\ agent'[First(s)].pc = "killed"
          /\ agent'[Exec(s)].pc = "off"
          /\ \A b \in Agents : b # First(s) /\ b # Exec(s) => agent'[b] = agent[b]
      BY <1>1, <2>2, EndedBoth DEF TypeOK
    <3> QED
      BY <1>1, <2>2, <3>1 DEF AtSeat, TypeOK
  <2> QED
    BY <2>1, <2>2 DEF Terminate
<1>4. agent'[First(s)].pc = "idle" => Narrowed(s)
  BY <1>2, <1>3 DEF Reported
<1>5. TypeOK'
  BY <1>1, <1>3, AtSeatTypes DEF TypeOK
<1>6. \A x \in Seats : Reported(x)' /\ Asked(x)' /\ Written(x)' /\ Steadily(x)'
  BY <1>1, <1>3, <1>4, AtSeatKeeps
<1> QED
  BY <1>1, <1>5, <1>6 DEF Inv

(* A sidecar that comes back is nobody's home but its own, and answers to    *)
(* its uid whatever its file system has lost.                                *)
LEMMA RestartKeeps ==
  ASSUME Inv, NEW s \in Seats, Restart(s)
  PROVE  Inv'
<1>1. /\ TypeOK /\ mints > Secret /\ faults' \in Nat /\ fact[s].sidecar
      /\ UNCHANGED <<fact, volume, mints, wiring, known, stanza>>
  BY DEF Inv, Restart, TypeOK, laptop
<1>2. /\ agent' \in [Agents -> Process]
      /\ agent'[First(s)] = Started /\ agent'[Exec(s)].pc = "off"
      /\ \A b \in Agents : b # First(s) /\ b # Exec(s) => agent'[b] = agent[b]
  <2>1. agent' = [agent EXCEPT ![First(s)] = Started, ![Exec(s)] = Off]
    BY DEF Restart, First, Exec
  <2> QED
    BY <1>1, <2>1, TurnBoth, StartedProcess DEF TypeOK
<1>3. /\ rootfs' \in [Seats -> Rootfs] /\ \A x \in Seats : x # s => rootfs'[x] = rootfs[x]
  <2>1. FreshRootfs \in Rootfs
    BY DEF FreshRootfs, Rootfs
  <2> QED
    BY <1>1, <2>1 DEF Restart, TypeOK
<1>4. /\ home' \in [Homes -> HomeFiles] /\ \A h \in Homes : h # s => home'[h] = home[h]
  <2>1. EmptyHome \in HomeFiles /\ s \in Homes
    BY DEF EmptyHome, HomeFiles, NoKey, Homes
  <2> QED
    BY <1>1, <2>1 DEF Restart, TypeOK
<1>5. /\ report' \in [Seats -> (SUBSET Failure) \cup {{"unmeasured"}}] /\ report'[s] = {"unmeasured"}
      /\ \A x \in Seats : x # s => report'[x] = report[x]
  <2>1. report \in [Seats -> (SUBSET Failure) \cup {{"unmeasured"}}]
    BY <1>1 DEF TypeOK
  <2>2. report' = [report EXCEPT ![s] = {"unmeasured"}]
    BY DEF Restart
  <2> DEFINE T == (SUBSET Failure) \cup {{"unmeasured"}}
             u == {"unmeasured"}
  <2>3. u \in T
    OBVIOUS
  <2> HIDE DEF T, u
  <2> QED
    BY <2>1, <2>2, <2>3 DEF T, u
<1>6. /\ stop' \in [Seats -> BOOLEAN] /\ steady' \in [Seats -> BOOLEAN] /\ ~steady'[s]
      /\ \A x \in Seats : steady'[x] => steady[x]
  BY <1>1, DisturbsOnly DEF Restart, TypeOK
<1>7. TypeOK'
  BY <1>1, <1>2, <1>3, <1>4, <1>5, <1>6 DEF TypeOK, Homes
<1>8. \A x \in Seats : x # s => Home(x) # s
  BY SeatNamesAssumption DEF Home
<1>9. ASSUME NEW x \in Seats, x # s
      PROVE  Reported(x)' /\ Asked(x)' /\ Written(x)' /\ Steadily(x)'
  <2>1. /\ Reported(x) /\ Asked(x) /\ Written(x) /\ Steadily(x) /\ Home(x) \in Homes
        /\ First(x) \in Agents /\ Exec(x) \in Agents
        /\ First(x) # First(s) /\ Exec(x) # Exec(s) /\ First(x) # Exec(s) /\ Exec(x) # First(s)
    BY <1>9, AgentParts DEF Inv, First, Exec
  <2>2. /\ agent'[First(x)] = agent[First(x)] /\ agent'[Exec(x)] = agent[Exec(x)]
        /\ home'[Home(x)] = home[Home(x)] /\ rootfs'[x] = rootfs[x] /\ report'[x] = report[x]
        /\ steady'[x] => steady[x]
    BY <1>2, <1>3, <1>4, <1>5, <1>6, <1>8, <1>9, <2>1
  <2>3. \A b \in Agents : Mid(b)' => Mid(b)
    BY <1>2, StartedProcess DEF Mid
  <2>4. /\ Home(x)' = Home(x) /\ Writable(x)' = Writable(x) /\ Narrowed(x)' = Narrowed(x)
        /\ Resolves(x)' = Resolves(x) /\ LoginName(x)' = LoginName(x) /\ Root(x)' = Root(x)
        /\ \A y : Owns(y, Home(x))' = Owns(y, Home(x))
    BY <1>1, <2>2 DEF Home, Writable, Narrowed, Root, Resolves, Provided, ExtrausersServes,
       LoginName, Owns
  <2>5. Reported(x)'
    BY <2>1, <2>2, <2>4 DEF Reported
  <2>6. Asked(x)' /\ Written(x)'
    BY <1>1, <2>1, <2>2, <2>4 DEF Asked, Written, Speaks, At
  <2>7. Paired(x) => Paired(x)'
    BY <2>2, <2>3, <2>4 DEF Paired, Whole
  <2>8. Steadily(x)'
    BY <1>1, <2>1, <2>2, <2>4, <2>7 DEF Steadily, Serves, At
  <2> QED
    BY <2>5, <2>6, <2>8
<1>10. Reported(s)'
  BY <1>2, <1>5, StartedProcess DEF Reported, Begun
<1>11. Asked(s)' /\ Written(s)'
  <2>1. Asked(s) /\ Written(s)
    BY DEF Inv
  <2>2. Resolves(s)' /\ LoginName(s)' = LoginName(s) /\ Root(s)' = Root(s)
    BY <1>1 DEF Resolves, Provided, LoginName, Root
  <2> QED
    BY <1>1, <1>2, <2>1, <2>2 DEF Asked, Written, Speaks, At
<1>12. Steadily(s)'
  BY <1>6 DEF Steadily
<1> QED
  BY <1>1, <1>7, <1>9, <1>10, <1>11, <1>12 DEF Inv

-----------------------------------------------------------------------------
(* The launchers. *)

LEMMA WiringFields ==
  /\ \A w \in Wiring : /\ w.stage \in Stage /\ w.root \in BOOLEAN
                       /\ w.login \in {"", "root", "baked", "podbench"}
                       /\ w.key \in Nat /\ w.lines \in [Seats -> Nat] /\ w.left \in Nat
  /\ \A z \in Stanza : /\ z.written \in BOOLEAN /\ z.refused \in BOOLEAN /\ z.root \in BOOLEAN
                       /\ z.pinned \in BOOLEAN /\ z.named \in BOOLEAN
                       /\ z.login \in {"", "root", "baked", "podbench"}
  BY DEF Wiring, Stanza

(* A wiring of seat s takes a step: the files and agents of every other seat *)
(* and the wirings of others stay as they are.                               *)
OfWiring(s) ==
  /\ UNCHANGED <<fact, volume, rootfs, home, mints, stop, report, faults>>
  /\ agent' \in [Agents -> Process] /\ \A b \in Agents : b # Exec(s) => agent'[b] = agent[b]
  /\ agent'[Exec(s)].pc \in {"off", "home"} \/ agent'[Exec(s)] = agent[Exec(s)]
  /\ wiring' \in [Seats -> Wiring] /\ \A x \in Seats : x # s => wiring'[x] = wiring[x]
  /\ stanza' \in [Seats -> Stanza] /\ \A x \in Seats : x # s => stanza'[x] = stanza[x]
  /\ known' \in [Seats -> Nat] /\ steady' \in [Seats -> BOOLEAN]
  /\ \A x \in Seats : x # s /\ steady'[x] => steady[x] /\ known'[x] = known[x]

LEMMA WiringKeeps ==
  ASSUME Inv, NEW s \in Seats, OfWiring(s),
         Asked(s)', Written(s)', Steadily(s)'
  PROVE  Inv'
<1>1. /\ TypeOK /\ mints > Secret /\ UNCHANGED <<fact, volume, rootfs, home, mints, report>>
  BY DEF Inv, OfWiring
<1>2. TypeOK'
  BY DEF Inv, TypeOK, OfWiring, Homes
<1>3. \A x \in Seats :
        /\ Home(x)' = Home(x) /\ Writable(x)' = Writable(x) /\ Narrowed(x)' = Narrowed(x)
        /\ Resolves(x)' = Resolves(x) /\ LoginName(x)' = LoginName(x) /\ Root(x)' = Root(x)
  BY <1>1 DEF Home, Writable, Narrowed, Root, Resolves, Provided, ExtrausersServes, LoginName
<1>4. ASSUME NEW x \in Seats
      PROVE  Reported(x)'
  <2>1. First(x) \in Agents /\ First(x) # Exec(s)
    BY AgentParts DEF First, Exec
  <2>2. agent'[First(x)] = agent[First(x)]
    BY <2>1 DEF OfWiring
  <2>3. Reported(x)
    BY DEF Inv
  <2> QED
    BY <1>1, <1>3, <2>2, <2>3 DEF Reported
<1>5. ASSUME NEW x \in Seats, x # s
      PROVE  Asked(x)' /\ Written(x)' /\ Steadily(x)'
  <2>1. /\ Asked(x) /\ Written(x) /\ Steadily(x)
        /\ Exec(x) \in Agents /\ Exec(x) # Exec(s)
    BY <1>5, AgentParts DEF Inv, Exec
  <2>2. /\ agent'[Exec(x)] = agent[Exec(x)] /\ wiring'[x] = wiring[x] /\ stanza'[x] = stanza[x]
        /\ steady'[x] => steady[x] /\ known'[x] = known[x]
    BY <1>5, <2>1 DEF OfWiring
  <2>3. \A b \in Agents : Mid(b)' => Mid(b)
    BY DEF OfWiring, Mid
  <2>4. Asked(x)' /\ Written(x)'
    BY <1>1, <1>3, <2>1, <2>2 DEF Asked, Written, Speaks, At
  <2>5. \A y : Owns(y, Home(x))' = Owns(y, Home(x))
    BY <1>1 DEF Owns, Home, Root
  <2>6. Paired(x) => Paired(x)'
    BY <1>1, <1>3, <2>2, <2>3, <2>5 DEF Paired, Whole
  <2>7. Steadily(x)'
    BY <1>1, <1>3, <2>1, <2>2, <2>6 DEF Steadily, Serves, At
  <2> QED
    BY <2>4, <2>7
<1> QED
  BY <1>1, <1>2, <1>4, <1>5 DEF Inv

(* Seat s is between wirings again, or its wiring has gone on. *)
LEMMA WiredBack ==
  ASSUME TypeOK, NEW s \in Seats, wiring[s].left > 0, wiring' = [wiring EXCEPT ![s] = Wired(s)]
  PROVE  /\ wiring' \in [Seats -> Wiring] /\ wiring'[s].stage = "idle"
         /\ \A x \in Seats : x # s => wiring'[x] = wiring[x]
<1> DEFINE lines == [x \in Seats |-> NoKey]
           left == wiring[s].left - 1
           w == [NotWired EXCEPT !.left = left]
<1>1. wiring[s].left \in Nat /\ wiring \in [Seats -> Wiring]
  BY WiringFields DEF TypeOK
<1>2. left \in Nat /\ lines \in [Seats -> Nat]
  BY <1>1 DEF NoKey
<1>3. wiring' = [wiring EXCEPT ![s] = w]
  BY DEF Wired
<1>4. NotWired = [stage |-> "idle", root |-> FALSE, login |-> "", key |-> NoKey,
                  lines |-> lines, left |-> 0]
  BY DEF NotWired
<1> HIDE DEF left, lines
<1>5. w \in Wiring /\ w.stage = "idle"
  BY <1>2, <1>4 DEF Wiring, Stage, NoKey
<1> HIDE DEF w
<1> QED
  BY <1>1, <1>3, <1>5

LEMMA ProbeKeeps ==
  ASSUME Inv, NEW s \in Seats, Probe(s)
  PROVE  Inv'
<1>1. /\ TypeOK /\ Asked(s) /\ Written(s) /\ Steadily(s) /\ At(s, "idle") /\ wiring[s].left > 0
      /\ UNCHANGED <<fact, volume, rootfs, home, mints, agent, stop, report, faults, known, steady>>
  BY DEF Inv, Probe
<1>2. /\ agent[Exec(s)].pc = "off" /\ Exec(s) \in Agents
  BY <1>1, AgentParts DEF Asked, At
<1>3. Home(s)' = Home(s) /\ Writable(s)' = Writable(s)
  BY <1>1, SameSeat
<1>4. /\ Resolves(s)' = Resolves(s) /\ LoginName(s)' = LoginName(s) /\ Root(s)' = Root(s)
  BY <1>1 DEF Resolves, Provided, ExtrausersServes, LoginName, Root
<1>5. CASE wiring' = [wiring EXCEPT ![s] = Wired(s)] /\ stanza' = [stanza EXCEPT ![s].refused = TRUE]
  <2> DEFINE z == [stanza[s] EXCEPT !.refused = TRUE]
  <2>1. /\ z \in Stanza /\ z.written = stanza[s].written /\ z.root = stanza[s].root
        /\ z.pinned = stanza[s].pinned /\ z.named = stanza[s].named /\ z.login = stanza[s].login
    BY <1>1 DEF TypeOK, Stanza
  <2>2. stanza' = [stanza EXCEPT ![s] = z]
    BY <1>5
  <2> HIDE DEF z
  <2>3. /\ stanza' \in [Seats -> Stanza] /\ stanza'[s] = z
        /\ \A x \in Seats : x # s => stanza'[x] = stanza[x]
    BY <1>1, <2>1, <2>2 DEF TypeOK
  <2>4. /\ wiring' \in [Seats -> Wiring] /\ wiring'[s].stage = "idle"
        /\ \A x \in Seats : x # s => wiring'[x] = wiring[x]
    BY <1>1, <1>5, WiredBack
  <2>5. OfWiring(s)
    BY <1>1, <2>3, <2>4 DEF OfWiring, TypeOK
  <2>6. Asked(s)' /\ Written(s)'
    BY <1>1, <1>2, <1>4, <2>1, <2>3, <2>4 DEF Asked, Written, Speaks, At
  <2>7. Steadily(s)'
    BY <1>1, <1>2, <1>3, <2>1, <2>3, <2>4 DEF Steadily, Serves, At
  <2> QED
    BY <2>5, <2>6, <2>7, WiringKeeps
<1>6. ASSUME NEW measured \in BOOLEAN, NEW answered \in BOOLEAN, ~(answered /\ ~Resolves(s)),
             wiring' = [wiring EXCEPT ![s].stage = "agent",
                          ![s].root = Root(s) /\ (measured \/ fact[s].pinned),
                          ![s].login = IF answered THEN LoginName(s) ELSE ""],
             UNCHANGED stanza
      PROVE  Inv'
  <2> DEFINE root == Root(s) /\ (measured \/ fact[s].pinned)
             login == IF answered THEN LoginName(s) ELSE ""
             w == [wiring[s] EXCEPT !.stage = "agent", !.root = root, !.login = login]
  <2>1. /\ root \in BOOLEAN /\ login \in {"", "root", "baked", "podbench"}
        /\ Speaks(s, root, login)
    <3>1. fact[s].pinned \in BOOLEAN /\ Root(s) \in BOOLEAN
      BY <1>1 DEF TypeOK, Fact, Root
    <3> QED
      BY <1>6, <3>1 DEF LoginName, Speaks
  <2>2. wiring' = [wiring EXCEPT ![s] = w]
    BY <1>6
  <2> HIDE DEF root, login
  <2>3. /\ w \in Wiring /\ w.stage = "agent" /\ w.root = root /\ w.login = login
        /\ w.left = wiring[s].left
    BY <1>1, <2>1 DEF TypeOK, Wiring, Stage
  <2> HIDE DEF w
  <2>4. /\ wiring' \in [Seats -> Wiring] /\ wiring'[s] = w
        /\ \A x \in Seats : x # s => wiring'[x] = wiring[x]
    BY <1>1, <2>2, <2>3 DEF TypeOK
  <2>5. OfWiring(s)
    BY <1>1, <1>6, <2>4 DEF OfWiring, TypeOK
  <2>6. Asked(s)' /\ Written(s)'
    BY <1>1, <1>2, <1>4, <1>6, <2>1, <2>3, <2>4 DEF Asked, Written, Speaks, At
  <2>7. Steadily(s)'
    BY <1>1, <1>2, <2>3, <2>4 DEF Steadily, At
  <2> QED
    BY <2>5, <2>6, <2>7, WiringKeeps
<1> QED
  BY <1>5, <1>6 DEF Probe

LEMMA RunAgentKeeps ==
  ASSUME Inv, NEW s \in Seats, RunAgent(s)
  PROVE  Inv'
<1>1. /\ TypeOK /\ Asked(s) /\ Written(s) /\ At(s, "agent")
      /\ UNCHANGED <<fact, volume, rootfs, home, mints, stop, report, faults, known, stanza>>
  BY DEF Inv, RunAgent
<1>2. agent[Exec(s)].pc = "off" /\ Exec(s) \in Agents
  BY <1>1, AgentParts DEF Asked, At
<1>3. Home(s)' = Home(s) /\ Writable(s)' = Writable(s)
  BY <1>1, SameSeat
<1>4. /\ Resolves(s)' = Resolves(s) /\ LoginName(s)' = LoginName(s) /\ Root(s)' = Root(s)
      /\ \A y : Owns(y, Home(s))' = Owns(y, Home(s))
  BY <1>1 DEF Resolves, Provided, ExtrausersServes, LoginName, Root, Owns, Home
<1> DEFINE w == [wiring[s] EXCEPT !.stage = "asked"]
<1>5. /\ w \in Wiring /\ w.stage = "asked" /\ w.root = wiring[s].root
      /\ w.login = wiring[s].login /\ w.left = wiring[s].left
  BY <1>1 DEF TypeOK, Wiring, Stage
<1>6. wiring' = [wiring EXCEPT ![s] = w]
  BY DEF RunAgent
<1> HIDE DEF w
<1>7. /\ wiring' \in [Seats -> Wiring] /\ wiring'[s] = w
      /\ \A x \in Seats : x # s => wiring'[x] = wiring[x]
  BY <1>1, <1>5, <1>6 DEF TypeOK
<1>8. Asked(s)' /\ Written(s)'
  BY <1>1, <1>4, <1>5, <1>7 DEF Asked, Written, Speaks, At
<1>9. CASE Running(s)
  <2>1. /\ agent' = [agent EXCEPT ![Exec(s)] = Started]
        /\ steady' = [steady EXCEPT ![s] = ~MidKey(Home(s)) /\ Whole(Home(s))]
    BY <1>9 DEF RunAgent, Exec
  <2>2. /\ agent' \in [Agents -> Process] /\ agent'[Exec(s)] = Started
        /\ \A b \in Agents : b # Exec(s) => agent'[b] = agent[b]
    BY <1>1, <1>2, <2>1, StartedProcess DEF TypeOK
  <2>3. /\ steady' \in [Seats -> BOOLEAN] /\ steady'[s] = (~MidKey(Home(s)) /\ Whole(Home(s)))
        /\ \A x \in Seats : x # s => steady'[x] = steady[x]
    BY <1>1, <2>1 DEF TypeOK, MidKey, Whole
  <2>4. OfWiring(s)
    BY <1>1, <1>7, <2>2, <2>3, StartedProcess DEF OfWiring, TypeOK
  <2>5. steady'[s] => Paired(s)'
    BY <1>1, <1>3, <1>4, <2>2, <2>3, StartedProcess DEF Paired, MidKey, Whole, Mid
  <2>6. Steadily(s)'
    BY <1>5, <1>7, <2>5 DEF Steadily, At
  <2> QED
    BY <1>8, <2>4, <2>6, WiringKeeps
<1>10. CASE ~Running(s)
  <2>1. UNCHANGED <<agent, steady>>
    BY <1>10 DEF RunAgent
  <2>2. OfWiring(s)
    BY <1>1, <1>7, <2>1 DEF OfWiring, TypeOK
  <2>3. Steadily(s)'
    BY <1>2, <1>5, <1>7, <2>1 DEF Steadily, At
  <2> QED
    BY <1>8, <2>2, <2>3, WiringKeeps
<1> QED
  BY <1>9, <1>10

LEMMA PrintKeeps ==
  ASSUME Inv, NEW s \in Seats, PrintHostKey(s)
  PROVE  Inv'
<1> DEFINE key == IF agent[Exec(s)].pc = "end" THEN home[Home(s)].public ELSE NoKey
           w == [wiring[s] EXCEPT !.stage = "write", !.lines = known, !.key = key]
<1>1. /\ TypeOK /\ Asked(s) /\ Written(s) /\ Steadily(s) /\ At(s, "asked")
      /\ Home(s) \in Homes /\ Exec(s) \in Agents
      /\ UNCHANGED <<fact, volume, rootfs, home, mints, stop, report, faults, known, stanza, steady>>
  BY AgentParts DEF Inv, PrintHostKey
<1>2. key \in Nat /\ (key # NoKey => agent[Exec(s)].pc = "end" /\ key = home[Home(s)].public)
  BY <1>1, HomeFields DEF TypeOK, NoKey
<1>3. agent' = [agent EXCEPT ![Exec(s)] = Off] /\ wiring' = [wiring EXCEPT ![s] = w]
  BY DEF PrintHostKey, Exec
<1> HIDE DEF key
<1>4. /\ w \in Wiring /\ w.stage = "write" /\ w.root = wiring[s].root
      /\ w.login = wiring[s].login /\ w.left = wiring[s].left /\ w.key = key
  BY <1>1, <1>2 DEF TypeOK, Wiring, Stage
<1> HIDE DEF w
<1>5. /\ wiring' \in [Seats -> Wiring] /\ wiring'[s] = w
      /\ \A x \in Seats : x # s => wiring'[x] = wiring[x]
  BY <1>1, <1>3, <1>4 DEF TypeOK
<1>6. /\ agent' \in [Agents -> Process] /\ agent'[Exec(s)].pc = "off"
      /\ \A b \in Agents : b # Exec(s) => agent'[b] = agent[b]
  BY <1>1, <1>3, StartedProcess DEF TypeOK
<1>7. OfWiring(s)
  BY <1>1, <1>5, <1>6 DEF OfWiring, TypeOK
<1>8. /\ Resolves(s)' = Resolves(s) /\ LoginName(s)' = LoginName(s) /\ Root(s)' = Root(s)
      /\ Home(s)' = Home(s) /\ Writable(s)' = Writable(s)
  BY <1>1 DEF Resolves, Provided, ExtrausersServes, LoginName, Root, Home, Writable
<1>9. Asked(s)' /\ Written(s)'
  BY <1>1, <1>4, <1>5, <1>6, <1>8 DEF Asked, Written, Speaks, At
<1>10. steady[s] /\ key # NoKey => Serves(s, key)
  BY <1>1, <1>2 DEF Steadily, Paired, Whole, Serves
<1>11. Steadily(s)'
  BY <1>1, <1>4, <1>5, <1>6, <1>8, <1>10 DEF Steadily, Serves, At
<1> QED
  BY <1>7, <1>9, <1>11, WiringKeeps

LEMMA WriteKeeps ==
  ASSUME Inv, NEW s \in Seats, WriteStanza(s)
  PROVE  Inv'
<1> DEFINE w == wiring[s]
<1>1. /\ TypeOK /\ Asked(s) /\ Steadily(s) /\ At(s, "write") /\ w \in Wiring
      /\ w.left > 0 /\ Speaks(s, w.root, w.login) /\ agent[Exec(s)].pc = "off"
      /\ UNCHANGED <<fact, volume, rootfs, home, mints, agent, stop, report, faults>>
  BY DEF Inv, WriteStanza, TypeOK, Asked, At
<1>2. /\ known' \in [Seats -> Nat] /\ (w.key # NoKey => known'[s] = w.key)
  <2>1. known' = IF w.key = NoKey THEN known ELSE [w.lines EXCEPT ![s] = w.key]
    BY DEF WriteStanza, WriteKnownHosts, HostKeyAlias
  <2>2. known \in [Seats -> Nat] /\ w.lines \in [Seats -> Nat] /\ w.key \in Nat
    BY <1>1, WiringFields DEF TypeOK
  <2> QED
    BY <2>1, <2>2
<1>3. /\ steady' \in [Seats -> BOOLEAN] /\ (steady'[s] => steady[s])
      /\ \A x \in Seats : x # s /\ steady'[x] => steady[x] /\ known'[x] = known[x]
  <2>1. Disturbs({x \in Seats \ {s} : known'[x] # known[x]})
    BY DEF WriteStanza
  <2> QED
    BY <1>1, <2>1, DisturbsOnly DEF TypeOK
<1>4. /\ wiring' \in [Seats -> Wiring] /\ wiring'[s].stage = "idle"
      /\ \A x \in Seats : x # s => wiring'[x] = wiring[x]
  BY <1>1, WiredBack DEF WriteStanza
<1> DEFINE named == w.login # ""
           login == IF w.login # "" THEN w.login ELSE IF w.root THEN "root" ELSE "podbench"
           z == [written |-> TRUE, refused |-> FALSE, root |-> w.root, pinned |-> w.key # NoKey,
                 named |-> named, login |-> login]
<1>5. w.root \in BOOLEAN /\ login \in {"", "root", "baked", "podbench"} /\ named \in BOOLEAN
  BY <1>1, WiringFields
<1>6. stanza' = [stanza EXCEPT ![s] = z]
  BY DEF WriteStanza
<1>7. named => login = w.login /\ login # ""
  OBVIOUS
<1>8. ~named => w.login = ""
  OBVIOUS
<1> HIDE DEF named, login
<1>9. /\ z \in Stanza /\ z.written /\ z.root = w.root /\ z.pinned = (w.key # NoKey)
      /\ z.named = named /\ z.login = login
  BY <1>5 DEF Stanza
<1> HIDE DEF z, w
<1>10. /\ stanza' \in [Seats -> Stanza] /\ stanza'[s] = z
       /\ \A x \in Seats : x # s => stanza'[x] = stanza[x]
  BY <1>1, <1>6, <1>9 DEF TypeOK
<1>11. OfWiring(s)
  BY <1>1, <1>2, <1>3, <1>4, <1>10 DEF OfWiring, TypeOK
<1>12. /\ Resolves(s)' = Resolves(s) /\ LoginName(s)' = LoginName(s) /\ Root(s)' = Root(s)
       /\ Home(s)' = Home(s) /\ Writable(s)' = Writable(s)
  BY <1>1 DEF Resolves, Provided, ExtrausersServes, LoginName, Root, Home, Writable
<1>13. Asked(s)' /\ Written(s)'
  BY <1>1, <1>4, <1>7, <1>8, <1>9, <1>10, <1>12 DEF Asked, Written, Speaks, At
<1>14. steady[s] /\ w.key # NoKey => Serves(s, w.key)
  BY <1>1 DEF Steadily, w
<1>15. Steadily(s)'
  BY <1>1, <1>2, <1>3, <1>4, <1>9, <1>10, <1>12, <1>14 DEF Steadily, Serves, At
<1> QED
  BY <1>11, <1>13, <1>15, WiringKeeps

-----------------------------------------------------------------------------
(* Every state. *)

LEMMA InvInit == Init => Inv
<1> SUFFICES ASSUME Init PROVE Inv
  OBVIOUS
<1>1. PICK p \in Pods : /\ fact = p.seats /\ volume = p.volume /\ faults = p.faults
                        /\ wiring = [s \in Seats |-> [NotWired EXCEPT !.left = p.wirings[s]]]
  BY DEF Init
<1>2. /\ fact \in [Seats -> Fact] /\ volume \in {"none", "open", "closed"} /\ faults \in Nat
      /\ p.wirings \in [Seats -> Nat]
  BY <1>1, SeatStartAssumption
<1>3. wiring \in [Seats -> Wiring] /\ \A s \in Seats : wiring[s].stage = "idle"
  <2> DEFINE lines == [x \in Seats |-> NoKey]
             w(s) == [NotWired EXCEPT !.left = p.wirings[s]]
  <2>1. lines \in [Seats -> Nat]
    BY DEF NoKey
  <2>2. NotWired = [stage |-> "idle", root |-> FALSE, login |-> "", key |-> NoKey,
                    lines |-> lines, left |-> 0]
    BY DEF NotWired
  <2> HIDE DEF lines
  <2>3. \A s \in Seats : w(s) \in Wiring /\ w(s).stage = "idle"
    BY <1>2, <2>1, <2>2 DEF Wiring, Stage, NoKey
  <2>4. wiring = [s \in Seats |-> w(s)]
    BY <1>1
  <2> HIDE DEF w
  <2> QED
    BY <2>3, <2>4
<1>4. rootfs \in [Seats -> Rootfs]
  <2>1. FreshRootfs \in Rootfs
    BY DEF FreshRootfs, Rootfs
  <2> QED
    BY <2>1 DEF Init
<1>5. home \in [Homes -> HomeFiles]
  <2>1. PICK kept \in {NoKey, Secret + 1} :
          home = [h \in Homes |-> IF h = "volume"
                                  THEN [EmptyHome EXCEPT !.private = kept, !.public = kept]
                                  ELSE EmptyHome]
    BY DEF Init
  <2> DEFINE v == [EmptyHome EXCEPT !.private = kept, !.public = kept]
  <2>2. EmptyHome \in HomeFiles /\ kept \in Nat
    BY DEF EmptyHome, HomeFiles, NoKey, Secret
  <2>3. v \in HomeFiles
    BY <2>2 DEF HomeFiles
  <2> HIDE DEF v
  <2>4. home = [h \in Homes |-> IF h = "volume" THEN v ELSE EmptyHome]
    BY <2>1 DEF v
  <2> QED
    BY <2>2, <2>3, <2>4
<1>6. /\ agent \in [Agents -> Process]
      /\ \A s \in Seats : agent[First(s)].pc = "home" /\ agent[Exec(s)].pc = "off"
  <2>1. agent = [a \in Agents |-> IF a[2] = "first" THEN Started ELSE Off]
    BY DEF Init
  <2>2. agent \in [Agents -> Process]
    BY <2>1, StartedProcess
  <2>3. \A s \in Seats : First(s)[2] = "first" /\ Exec(s)[2] = "exec"
    BY DEF First, Exec
  <2> QED
    BY <2>1, <2>2, <2>3, AgentParts, StartedProcess
<1>7. stanza \in [Seats -> Stanza] /\ \A s \in Seats : ~stanza[s].written
  <2>1. NoStanza \in Stanza /\ ~NoStanza.written
    BY DEF NoStanza, Stanza
  <2> QED
    BY <2>1 DEF Init
<1>8. /\ mints \in Nat /\ mints > Secret /\ stop \in [Seats -> BOOLEAN]
      /\ known \in [Seats -> Nat] /\ steady \in [Seats -> BOOLEAN]
      /\ \A s \in Seats : ~steady[s]
  BY DEF Init, Secret, NoKey
<1>9. /\ report \in [Seats -> (SUBSET Failure) \cup {{"unmeasured"}}]
      /\ \A s \in Seats : report[s] # {}
  BY DEF Init
<1>10. TypeOK
  BY <1>2, <1>3, <1>4, <1>5, <1>6, <1>7, <1>8, <1>9 DEF TypeOK
<1>11. ASSUME NEW s \in Seats
       PROVE  Reported(s) /\ Asked(s) /\ Written(s) /\ Steadily(s)
  <2>1. Reported(s)
    BY <1>6, <1>9 DEF Reported, Begun
  <2>2. Asked(s) /\ Written(s) /\ Steadily(s)
    BY <1>3, <1>6, <1>7, <1>8 DEF Asked, Written, Steadily, At
  <2> QED
    BY <2>1, <2>2
<1> QED
  BY <1>8, <1>10, <1>11 DEF Inv

LEMMA InvStep == Inv /\ [Next]_vars => Inv'
<1> SUFFICES ASSUME Inv, [Next]_vars PROVE Inv'
  OBVIOUS
<1>1. ASSUME NEW a \in Agents, Ensures(a)
      PROVE  Inv'
  <2>1. CASE StartUpReport(a) \/ StopIdling(a)
    BY <2>1, ReportKeeps, StopKeeps
  <2>2. CASE ~StartUpReport(a) /\ ~StopIdling(a)
    <3>1. Works(a) /\ Touches(a) /\ mints' > Secret /\ TypeOK
      BY <1>1, <2>2, EnsuresWorks DEF Inv
    <3>2. TypeOK'
      BY <3>1, WorksTypes
    <3> QED
      BY <3>1, <3>2, WorksKeep, TouchesKeep DEF Inv
  <2> QED
    BY <2>1, <2>2
<1>2. ASSUME NEW s \in Seats, Wires(s) \/ Probe(s)
      PROVE  Inv'
  BY <1>2, ProbeKeeps, RunAgentKeeps, PrintKeeps, WriteKeeps DEF Wires
<1>3. ASSUME NEW s \in Seats, Terminate(s) \/ Restart(s)
      PROVE  Inv'
  BY <1>3, TerminateKeeps, RestartKeeps
<1>4. CASE UNCHANGED vars
  <2>1. /\ TypeOK /\ mints > Secret
        /\ UNCHANGED <<fact, volume, rootfs, home, mints, agent, stop, report, faults, laptop, steady>>
    BY <1>4 DEF vars, laptop, Inv
  <2>2. \A s \in Seats : AtSeat(s)
    BY <2>1 DEF AtSeat, TypeOK
  <2>3. TypeOK'
    BY <2>1 DEF TypeOK, laptop, Homes
  <2>4. ASSUME NEW s \in Seats
        PROVE  Reported(s)' /\ Asked(s)' /\ Written(s)' /\ Steadily(s)'
    <3>1. Reported(s) /\ report'[s] = report[s] /\ agent'[First(s)].pc = agent[First(s)].pc
      BY <2>1 DEF Inv
    <3> QED
      BY <2>2, <3>1, AtSeatKeeps DEF Reported
  <2> QED
    BY <2>1, <2>3, <2>4 DEF Inv
<1> QED
  BY <1>1, <1>2, <1>3, <1>4 DEF Next

(* Every reachable state of the seats, their homes, the agents in them and   *)
(* the laptop's files is well-typed.                                         *)
THEOREM SeatStartTypeCorrect == Spec => []TypeOK
<1>1. Inv => TypeOK
  BY DEF Inv
<1> QED
  BY <1>1, InvInit, InvStep, PTL DEF Spec

(* A seat whose start-up reported no failure, wired by a launcher that got   *)
(* its answers and found no half-made key pair, lets its user in as long as  *)
(* nobody mints another key, drops the user's or the pin, or restarts it:    *)
(* with any number of seats on one home and any interleaving of their        *)
(* agents with the wirings.                                                  *)
THEOREM ReadySeatsAlwaysConnect == Spec => []ReadySeatConnects
<1>1. Inv => ReadySeatConnects
  <2> SUFFICES ASSUME Inv, NEW s \in Seats,
                      At(s, "idle"), stanza[s].written, stanza[s].pinned, stanza[s].named,
                      fact[s].pinned \/ ~Root(s), report[s] = {}, steady[s]
               PROVE  Connects(s)
    BY DEF ReadySeatConnects
  <2>1. Reported(s) /\ Written(s) /\ Steadily(s)
    BY DEF Inv
  <2>2. Narrowed(s) /\ Writable(s) /\ home[Home(s)].config # "none"
    BY <2>1 DEF Reported
  <2>3. stanza[s].root = Root(s) /\ Resolves(s) /\ stanza[s].login = LoginName(s)
    BY <2>1 DEF Written, Speaks
  <2>4. known[s] = home[Home(s)].private /\ s \in home[Home(s)].keys
    BY <2>1, <2>2 DEF Steadily, Serves
  <2> QED
    BY <2>2, <2>3, <2>4 DEF Connects, Narrowed
<1> QED
  BY <1>1, InvInit, InvStep, PTL DEF Spec

-----------------------------------------------------------------------------
(* The two merged files.                                                     *)

LEMMA KeysAreMerged ==
  ASSUME TypeOK, NEW a \in Agents, Ensures(a),
         NEW h \in Homes, NEW s \in home[h].keys \ home'[h].keys
  PROVE  Owns(a[1], h) /\ agent[a].pc = "merge" /\ s \notin agent[a].read
<1>1. /\ home \in [Homes -> HomeFiles] /\ Home(a[1]) \in Homes /\ NoKey \in Nat /\ Secret \in Nat
      /\ a[1] \in Seats /\ home[Home(a[1])].private \in Nat /\ agent[a].key \in Nat
      /\ agent[a].read \in SUBSET Seats /\ mints \in Nat
  BY AgentParts, ProcessFields, HomeFields DEF TypeOK, NoKey, Secret
<1>2. ASSUME NEW private, NEW public, NEW config,
             Holds(Home(a[1]), private, public, home[Home(a[1])].keys, config)
      PROVE  FALSE
  BY <1>2 DEF Holds
<1>3. home' # home
  OBVIOUS
<1>4. ~EnsureHostKey(a)
  <2>1. SUFFICES ASSUME EnsureHostKey(a) PROVE FALSE
    OBVIOUS
  <2>2. home' = [home EXCEPT ![Home(a[1])].private = Secret]
    BY <1>3, <2>1 DEF EnsureHostKey
  <2> QED
    BY <1>1, <1>2, <2>2, HoldPrivate
<1>5. ~KeygenPrivate(a)
  <2>1. SUFFICES ASSUME KeygenPrivate(a) PROVE FALSE
    OBVIOUS
  <2>2. home' = [home EXCEPT ![Home(a[1])].private = mints'] /\ mints' \in Nat
    BY <1>1, <2>1 DEF KeygenPrivate
  <2> QED
    BY <1>1, <1>2, <2>2, HoldPrivate
<1>6. ~KeygenPublic(a) /\ ~DerivePublicKey(a)
  <2>1. SUFFICES ASSUME KeygenPublic(a) \/ DerivePublicKey(a) PROVE FALSE
    OBVIOUS
  <2>2. PICK key \in Nat : home' = [home EXCEPT ![Home(a[1])].public = key]
    BY <1>1, <1>3, <2>1 DEF KeygenPublic, DerivePublicKey
  <2> QED
    BY <1>1, <1>2, <2>2, HoldPublic
<1>7. ~EnsureSshdConfig(a)
  <2>1. SUFFICES ASSUME EnsureSshdConfig(a) PROVE FALSE
    OBVIOUS
  <2>2. home' = [home EXCEPT ![Home(a[1])].config = a[1]]
    BY <1>3, <2>1 DEF EnsureSshdConfig
  <2> QED
    BY <1>1, <1>2, <2>2, HoldConfig
<1>8. EnsureAuthorizedKeys(a)
  BY <1>3, <1>4, <1>5, <1>6, <1>7 DEF Ensures, EnsurePasswdEntry, Register, AppendRecord,
     KeygenConfirms, ReadAuthorizedKeys, StartUpReport, StopIdling
<1>9. /\ agent[a].pc = "merge" /\ Merged(a[1], agent[a].read) \in SUBSET Seats
      /\ home' = [home EXCEPT ![Home(a[1])].keys = Merged(a[1], agent[a].read)]
  BY <1>1, <1>3, <1>8 DEF EnsureAuthorizedKeys, Merged
<1>10. /\ home'[Home(a[1])].keys = Merged(a[1], agent[a].read)
       /\ \A g \in Homes : g # Home(a[1]) => home'[g] = home[g]
  BY <1>1, <1>9, HoldKeys DEF Holds
<1> QED
  BY <1>9, <1>10 DEF Owns, Merged

LEMMA PinsAreMerged ==
  ASSUME TypeOK, NEW x \in Seats, WriteStanza(x), NEW s \in Seats, known'[s] # known[s]
  PROVE  At(x, "write") /\ (x = s \/ wiring[x].lines[s] # known[s])
<1>1. wiring[x].lines \in [Seats -> Nat] /\ known \in [Seats -> Nat]
  BY WiringFields DEF TypeOK
<1>2. At(x, "write") /\ known' = [wiring[x].lines EXCEPT ![x] = wiring[x].key]
  BY DEF WriteStanza, WriteKnownHosts, HostKeyAlias
<1> QED
  BY <1>1, <1>2

(* authorized_keys loses a seat's key, and known_hosts a seat's pin, only to *)
(* a writer that had read the file before the entry was there, or with a     *)
(* container that starts afresh: with any number of agents on one home and   *)
(* of wirings on one laptop.                                                 *)
THEOREM MergesAlwaysKeepWhatTheyRead == Spec => MergesKeepWhatTheyRead
<1>1. TypeOK /\ [Next]_vars =>
        [/\ \A h \in Homes : \A s \in home[h].keys \ home'[h].keys :
              \/ faults' # faults
              \/ \E a \in Agents : Owns(a[1], h) /\ agent[a].pc = "merge" /\ s \notin agent[a].read
         /\ \A s \in Seats : known[s] # NoKey /\ known'[s] # known[s] =>
              \E x \in Seats : At(x, "write") /\ (x = s \/ wiring[x].lines[s] # known[s])]_vars
  <2> SUFFICES ASSUME TypeOK, Next
               PROVE  /\ \A h \in Homes : \A s \in home[h].keys \ home'[h].keys :
                           \/ faults' # faults
                           \/ \E a \in Agents : /\ Owns(a[1], h) /\ agent[a].pc = "merge"
                                                /\ s \notin agent[a].read
                      /\ \A s \in Seats : known'[s] # known[s] =>
                           \E x \in Seats : At(x, "write") /\ (x = s \/ wiring[x].lines[s] # known[s])
    OBVIOUS
  <2>1. ASSUME NEW h \in Homes, NEW s \in home[h].keys \ home'[h].keys
        PROVE  \/ faults' # faults
               \/ \E a \in Agents : Owns(a[1], h) /\ agent[a].pc = "merge" /\ s \notin agent[a].read
    <3>1. CASE \E a \in Agents : Ensures(a)
      BY <2>1, <3>1, KeysAreMerged
    <3>2. CASE \E x \in Seats : Wires(x) \/ Probe(x) \/ Terminate(x)
      BY <2>1, <3>2 DEF Wires, Probe, RunAgent, PrintHostKey, WriteStanza, Terminate
    <3>3. CASE \E x \in Seats : Restart(x)
      BY <3>3 DEF Restart, TypeOK
    <3> QED
      BY <3>1, <3>2, <3>3 DEF Next
  <2>2. ASSUME NEW s \in Seats, known'[s] # known[s]
        PROVE  \E x \in Seats : At(x, "write") /\ (x = s \/ wiring[x].lines[s] # known[s])
    <3>1. CASE \E a \in Agents : Ensures(a)
      BY <2>2, <3>1 DEF Ensures, EnsurePasswdEntry, Register, AppendRecord, EnsureHostKey,
         KeygenConfirms, KeygenPrivate, KeygenPublic, DerivePublicKey, ReadAuthorizedKeys,
         EnsureAuthorizedKeys, EnsureSshdConfig, StartUpReport, StopIdling, laptop
    <3>2. CASE \E x \in Seats : WriteStanza(x)
      BY <2>2, <3>2, PinsAreMerged
    <3>3. CASE \E x \in Seats : \/ RunAgent(x) \/ PrintHostKey(x) \/ Probe(x) \/ Terminate(x)
                                \/ Restart(x)
      BY <2>2, <3>3 DEF RunAgent, PrintHostKey, Probe, Terminate, Restart, laptop
    <3> QED
      BY <3>1, <3>2, <3>3 DEF Next, Wires
  <2> QED
    BY <2>1, <2>2
<1> QED
  BY <1>1, SeatStartTypeCorrect, PTL DEF Spec, MergesKeepWhatTheyRead

-----------------------------------------------------------------------------
(* debug-config: what the verdicts promise, whoever asks and of what. *)

(* The seats that see the same of a target name the same language for it.    *)
LEMMA LanguageIsRead ==
  ASSUME NEW p \in Target, NEW s \in Looker, NEW t \in Looker, s.readable = t.readable
  PROVE  Language(p, s) = Language(p, t)
BY DEF Language, InterpreterOf, RuntimeOf, Exe, Elf, Mapped

(* A native entry names a program: no such entry where the executable could  *)
(* not be read, or for a language with a runtime of its own.                 *)
LEMMA NativesNeedAProgram ==
  ASSUME NEW p \in Target, NEW s \in Looker, NEW entry \in BOOLEAN,
         Exe(p, s) = "unread" \/ Language(p, s) \in Managed
  PROVE  ~AssessGdb(p, s).ok /\ ~AssessLldb(p, s, entry).ok /\ ~AssessDelve(p, s, entry).ok
<1>1. \A w : Refused(w).ok = FALSE /\ Mismatch.ok = FALSE
  BY DEF Refused, Mismatch
<1>2. \A w, f : Pointing(Refused(w), f).ok = FALSE
  BY DEF Pointing, Refused
<1>3. \A w, e : GdbFallback(Refused(w), e).ok = FALSE
  BY <1>1, <1>2 DEF GdbFallback
<1>4. ~AssessGdb(p, s).ok
  BY <1>1, <1>2 DEF AssessGdb, OrNoProgram, Managed
<1>5. ~AssessLldb(p, s, entry).ok
  BY <1>1, <1>3 DEF AssessLldb, OrNoProgram, Managed
<1>6. ~AssessDelve(p, s, entry).ok
  BY <1>1, <1>3 DEF AssessDelve, OrNoProgram, Managed
<1> QED
  BY <1>4, <1>5, <1>6

(* The one entry a native refusal refers to is gdb's, where there is one.    *)
LEMMA NativesPointAtGdb ==
  ASSUME NEW p \in Target, NEW s \in Looker, NEW entry \in BOOLEAN
  PROVE  /\ AssessLldb(p, s, entry).see # "none" => entry /\ AssessLldb(p, s, entry).see = "gdb"
         /\ AssessDelve(p, s, entry).see # "none" => entry /\ AssessDelve(p, s, entry).see = "gdb"
<1>1. \A w : Offered(w).see = "none" /\ Refused(w).see = "none" /\ Mismatch.see = "none"
  BY DEF Offered, Refused, Mismatch
<1>2. \A w : GdbFallback(Refused(w), entry).see # "none"
               => entry /\ GdbFallback(Refused(w), entry).see = "gdb"
  BY <1>1 DEF GdbFallback, Pointing, Refused
<1>3. AssessLldb(p, s, entry).see # "none" => entry /\ AssessLldb(p, s, entry).see = "gdb"
  <2>1. p.here \in BOOLEAN /\ ShadowingFile(p, s) \in BOOLEAN /\ ~(p.here /\ ShadowingFile(p, s))
    BY DEF Target, Looker, ShadowingFile
  <2> QED
    BY <1>1, <1>2, <2>1 DEF AssessLldb, OrNoProgram
<1>4. AssessDelve(p, s, entry).see # "none" => entry /\ AssessDelve(p, s, entry).see = "gdb"
  BY <1>1, <1>2 DEF AssessDelve, OrNoProgram
<1> QED
  BY <1>3, <1>4

(* debugpy is for Python, and refers to no other entry.                      *)
LEMMA DebugpyIsPythons ==
  ASSUME NEW p, NEW s, NEW dest, NEW attach, NEW listening
  PROVE  /\ AssessDebugpy(p, s, dest, attach, listening).ok => Language(p, s) = "python"
         /\ AssessDebugpy(p, s, dest, attach, listening).see = "none"
<1>1. \A w : /\ Offered(w).see = "none" /\ Refused(w).see = "none"
             /\ [Refused("unmet") EXCEPT !.why = w].see = "none"
  BY DEF Offered, Refused
<1>2. Mismatch.see = "none" /\ Mismatch.ok = FALSE
  BY DEF Mismatch, Refused
<1> QED
  BY <1>1, <1>2 DEF AssessDebugpy

(* An injection that is offered lacks nothing that could be looked for.      *)
LEMMA InjectionLacksNothing ==
  ASSUME NEW p \in Target, NEW s \in Looker, NEW dest, NEW attach, ~p.here,
         AssessDebugpy(p, s, dest, attach, FALSE).ok
  PROVE  /\ s.readable /\ s.driver /\ s.shim
         /\ p.published /\ TargetDebugpy(p, s, dest) # "nowhere"
         /\ Tree(p, s, dest, TargetDebugpy(p, s, dest)) = "whole"
<1>1. [Refused("unmet") EXCEPT !.why = Unmet(p, s, dest, attach)].ok = FALSE
  BY DEF Refused
<1>2. Mismatch.ok = FALSE
  BY DEF Mismatch, Refused
<1>3. Unmet(p, s, dest, attach) = {}
  BY <1>1, <1>2 DEF AssessDebugpy
<1>4. ~RootfsDenied(s, attach)
  BY <1>3 DEF Unmet
<1>5. s.driver
  BY <1>3 DEF Unmet
<1>6. s.shim
  BY <1>3 DEF Unmet
<1>7. TargetDebugpy(p, s, dest) # "nowhere"
  BY <1>3, <1>4 DEF Unmet
<1>8. HelperPresent(p, s, dest)
  BY <1>3, <1>4, <1>5 DEF Unmet, Target
<1> QED
  BY <1>5, <1>6, <1>7, <1>8 DEF HelperPresent

-----------------------------------------------------------------------------
(* debug-config: what a run knows of the target, and what it may write. *)

Point == {"idle", "prove", "measure", "provision", "install", "unpacking", "remeasure", "inject",
          "injecting", "handshake", "settle", "emit", "read", "write", "done"}

Port == Ports \cup {0}

Sight == [listening : Port, dest : DebugpyTree \cup {"gone"}]

Command == [pc : Point, pid : Pids, found : Port, answers : BOOLEAN, wanted : SUBSET Flavour,
            probe : Port, chosen : Port, attach : {"unasked", "yes", "no"}, asked : BOOLEAN,
            sight : Sight, proved : BOOLEAN, entry : Port, read : [Pids -> Port],
            calm : BOOLEAN]

AppState == [gen : Pids, served : BOOLEAN, adapter : Port, ok : BOOLEAN,
             held : Runs \cup {NoRun}]

DebugTypeOK ==
  /\ pod \in Scenarios
  /\ app \in AppState
  /\ tree \in DebugpyTree
  /\ ports \in [Ports -> {"free", "sidecar", "stranger"}]
  /\ file \in [Runs -> [Pids -> Port]]
  /\ run \in [Runs -> Command]
  /\ mishaps \in Nat

(* What c, the variables of a run, makes of debugpy.                         *)
SeatOf(c) == [pod.s EXCEPT !.readable = @ /\ c.sight.dest # "gone"]

Offers(c) ==
  AssessDebugpy(pod.p, SeatOf(c), c.sight.dest, c.attach, c.sight.listening # 0).ok

(* A port that is not closed: somebody else's, or the target's own server's  *)
(* and it answers.                                                           *)
Reaches(q) == ports[q] # "free" \/ Answers(q)

(* Between what was seen of the target and what is made of it.               *)
Looking == {"provision", "install", "unpacking", "remeasure", "inject"}

(* A run is shown a server or is not, and does not act on one that is wedged *)
(* or on a target that cannot be attached to.                                *)
Sees(c) ==
  /\ c.found # 0 /\ c.pc \in Looking \cup {"emit"} => c.sight.listening = c.found
  /\ ~c.answers => /\ "debugpy" \notin c.wanted
                   /\ c.pc \notin Looking \cup {"injecting", "handshake", "settle"}
  /\ c.attach = "yes" => pod.s.attachable

(* Only Python is injected, where nothing was found, on a port of the run's. *)
Injecting(r, c) ==
  /\ c.pc \in Looking \cup {"idle", "prove", "measure"} => c.chosen = 0
  /\ c.pc \in {"injecting", "handshake", "settle"} =>
    /\ c.found = 0 /\ ~pod.p.here /\ Python /\ c.chosen \in Ports
    /\ Opts(r).port # 0 => c.chosen = Opts(r).port
    /\ c.pc = "settle" => c.probe = c.chosen

(* What is written for a Python target is debugpy's entry, and names the     *)
(* server that was found.                                                    *)
Emits(c) ==
  c.pc \in {"read", "write"} /\ Python =>
    /\ c.entry # 0
    /\ c.found # 0 => c.entry = c.found

(* What an undisturbed run has found is so, and stays so.                    *)
Found(c) ==
  /\ c.found # 0 /\ c.pc # "idle" => app.adapter = c.found
  /\ c.found # 0 /\ ~pod.p.here /\ c.pc \notin {"idle", "prove"} =>
         IF c.answers THEN app.ok ELSE "debugpy" \notin c.wanted

(* The target's own server is on the port, and answers if the run asked one. *)
Names(c, q) == ports[q] # "free" \/ (app.adapter = q /\ (app.ok \/ (c.found = 0 /\ c.chosen = 0)))

(* What an undisturbed run of --provision looks at, offers and writes is     *)
(* the target's: proved by the handshake, or found and asked, or seen by its *)
(* port.                                                                     *)
Opens(r, c) ==
  /\ c.pc \in Looking /\ c.sight.listening # 0 => Names(c, c.sight.listening)
  /\ c.pc = "settle" /\ c.proved => Reaches(c.chosen)
  /\ c.pc = "emit" /\ "debugpy" \in c.wanted /\ Offers(c) =>
       IF c.sight.listening # 0 THEN Names(c, c.sight.listening)
       ELSE /\ c.chosen # 0 /\ Reaches(c.chosen) /\ Python
            /\ Opts(r).port # 0 => c.chosen = Opts(r).port
  /\ c.pc \in {"read", "write", "done"} /\ c.entry # 0 => Names(c, c.entry)

Provisions(r) == Opts(r).provision /\ ~pod.p.here

Keeps(r, c) ==
  /\ Sees(c) /\ Injecting(r, c) /\ Emits(c)
  /\ c.calm => Found(c) /\ (Provisions(r) => Opens(r, c))

DebugInv ==
  /\ DebugTypeOK
  /\ app.adapter # 0 => Python
  /\ \A r \in Runs : Keeps(r, run[r])

-----------------------------------------------------------------------------
(* What the steps of debug-config write. *)

LEMMA PortsAreNumbers ==
  0 \notin Ports /\ Conventional \in Ports /\ Pinned \in Ports /\ Fresh \subseteq Ports
BY PortsAssumption DEF Ports

LEMMA CommandFields ==
  \A c \in Command :
    /\ c.pc \in Point /\ c.pid \in Pids /\ c.found \in Port /\ c.answers \in BOOLEAN
    /\ c.wanted \in SUBSET Flavour /\ c.probe \in Port /\ c.chosen \in Port
    /\ c.attach \in {"unasked", "yes", "no"} /\ c.asked \in BOOLEAN
    /\ c.sight \in Sight /\ c.sight.listening \in Port
    /\ c.sight.dest \in DebugpyTree \cup {"gone"} /\ c.proved \in BOOLEAN
    /\ c.entry \in Port /\ c.read \in [Pids -> Port] /\ c.calm \in BOOLEAN
BY DEF Command, Sight

LEMMA ScenarioFields ==
  ASSUME DebugTypeOK, NEW r \in Runs
  PROVE  /\ pod.p \in Target /\ pod.s \in Looker /\ pod.dest \in DebugpyTree
         /\ Opts(r) \in Options /\ Opts(r).wanted \in SUBSET Flavour
         /\ Opts(r).port \in {0, Pinned} /\ Opts(r).port \in Port
         /\ pod.p.here \in BOOLEAN /\ Python \in BOOLEAN /\ Opts(r).provision \in BOOLEAN
BY ScenariosAssumption, PortsAreNumbers DEF DebugTypeOK, Opts, Options, Target, Python, Port

(* A step of one run that tells nobody anything of the target's server.      *)
Quiet ==
  /\ UNCHANGED <<pod, ports>>
  /\ app'.adapter = app.adapter /\ app'.ok = app.ok

LEMMA QuietKeeps ==
  ASSUME Quiet, NEW r \in Runs, NEW c, Keeps(r, c), c = run'[r]
  PROVE  Keeps(r, run[r])'
BY DEF Quiet, Keeps, Sees, Injecting, Emits, Found, Opens, Provisions, Reaches, Names, Answers, Offers,
       SeatOf, Opts, Python

LEMMA RunGoes ==
  ASSUME DebugInv, Quiet, NEW r \in Runs, NEW c \in Command, Set(r, c), Keeps(r, c),
         app' \in AppState, tree' \in DebugpyTree, file' \in [Runs -> [Pids -> Port]],
         UNCHANGED mishaps
  PROVE  DebugInv'
<1>1. run' \in [Runs -> Command] /\ run'[r] = c /\ \A x \in Runs \ {r} : run'[x] = run[x]
  BY DEF Set, DebugInv, DebugTypeOK
<1>2. DebugTypeOK'
  BY <1>1 DEF DebugInv, DebugTypeOK, Quiet
<1>3. app'.adapter # 0 => Python'
  BY DEF DebugInv, Quiet, Python
<1>4. ASSUME NEW x \in Runs
      PROVE  Keeps(x, run[x])'
  BY <1>1, <1>4, QuietKeeps DEF DebugInv
<1> QED
  BY <1>2, <1>3, <1>4 DEF DebugInv

(* What a step that only moves on leaves of a run's variables.               *)
Moves(c, d) ==
  /\ d.pid = c.pid /\ d.found = c.found /\ d.answers = c.answers /\ d.wanted = c.wanted
  /\ d.probe = c.probe /\ d.chosen = c.chosen /\ d.attach = c.attach /\ d.asked = c.asked
  /\ d.sight = c.sight /\ d.proved = c.proved /\ d.entry = c.entry /\ d.read = c.read
  /\ d.calm = c.calm

LEMMA MovesOn ==
  ASSUME NEW c \in Command, NEW pc \in Point
  PROVE  [c EXCEPT !.pc = pc] \in Command /\ [c EXCEPT !.pc = pc].pc = pc
         /\ Moves(c, [c EXCEPT !.pc = pc])
BY DEF Command, Moves

LEMMA OffersStay ==
  ASSUME NEW c, NEW d, d.attach = c.attach, d.sight = c.sight
  PROVE  Offers(d) = Offers(c)
BY DEF Offers, SeatOf

LEMMA QuietByName == UNCHANGED <<pod, app, ports>> => Quiet
BY DEF Quiet

LEMMA KeepsNow ==
  ASSUME DebugInv, NEW r \in Runs
  PROVE  /\ run[r] \in Command /\ Keeps(r, run[r])
         /\ app \in AppState /\ tree \in DebugpyTree /\ file \in [Runs -> [Pids -> Port]]
         /\ DebugTypeOK
BY DEF DebugInv, DebugTypeOK

-----------------------------------------------------------------------------
(* The steps of a run of debug-config. *)

(* The variables of a run as its first step leaves them.                     *)
LEMMA IdleFields ==
  /\ Idle \in Command /\ Idle.pc = "idle" /\ Idle.found = 0 /\ Idle.answers = TRUE
  /\ Idle.attach = "unasked" /\ Idle.entry = 0 /\ Idle.chosen = 0
BY PortsAreNumbers DEF Idle, Command, Point, Pids, Port, Sight, Blank, NoEntries, DebugpyTree

LEMMA IdleKeeps ==
  ASSUME DebugTypeOK, NEW r \in Runs
  PROVE  Keeps(r, Idle)
BY IdleFields DEF Keeps, Sees, Injecting, Emits, Found, Opens, Looking

LEMMA DebugInvInit == DebugInit => DebugInv
<1> SUFFICES ASSUME DebugInit
             PROVE  DebugInv
  OBVIOUS
<1>1. /\ pod \in Scenarios /\ pod.dest \in DebugpyTree
  BY ScenariosAssumption DEF DebugInit
<1>2. app \in AppState /\ app.adapter = 0
  BY DEF DebugInit, AppState, Pids, Port
<1>3. file \in [Runs -> [Pids -> Port]]
  BY DEF DebugInit, NoEntries, Port
<1>4. /\ run \in [Runs -> Command] /\ \A r \in Runs : run[r] = Idle
  BY IdleFields DEF DebugInit
<1>5. DebugTypeOK
  BY <1>1, <1>2, <1>3, <1>4 DEF DebugTypeOK, DebugInit
<1> QED
  BY <1>2, <1>4, <1>5, IdleKeeps DEF DebugInv

LEMMA AgainKeeps ==
  ASSUME DebugInv, NEW r \in Runs, Again(r)
  PROVE  DebugInv'
<1>1. Set(r, Idle) /\ Quiet /\ UNCHANGED <<app, tree, file, mishaps>>
  BY QuietByName DEF Again
<1> QED
  BY <1>1, KeepsNow, IdleFields, IdleKeeps, RunGoes

LEMMA BeginKeeps ==
  ASSUME DebugInv, NEW r \in Runs, Begin(r)
  PROVE  DebugInv'
<1> DEFINE found == app.adapter
           pc == IF found # 0 /\ ~pod.p.here THEN "prove" ELSE "measure"
           probe == IF Opts(r).port = 0 THEN Conventional ELSE Opts(r).port
           c == [Idle EXCEPT !.pc = pc, !.pid = app.gen, !.found = found,
                             !.wanted = Opts(r).wanted, !.probe = probe]
<1>1. Set(r, c) /\ Quiet /\ UNCHANGED <<app, tree, file, mishaps>>
  BY QuietByName DEF Begin, DebugpyAdapter
<1>2. /\ app.gen \in Pids /\ found \in Port /\ Opts(r).wanted \in SUBSET Flavour
      /\ probe \in Port /\ pc \in Point /\ pc \in {"prove", "measure"}
      /\ found # 0 /\ ~pod.p.here => pc = "prove"
  BY KeepsNow, ScenarioFields, PortsAreNumbers DEF AppState, Port, Point
<1> HIDE DEF pc, probe
<1>3. /\ c \in Command /\ c.pc = pc /\ c.found = found /\ c.answers = TRUE
      /\ c.attach = "unasked" /\ c.chosen = 0
  BY <1>2, IdleFields DEF Command
<1> HIDE DEF c
<1>4. Keeps(r, c)
  BY <1>2, <1>3 DEF Keeps, Sees, Injecting, Emits, Found, Opens, Looking
<1> QED
  BY <1>1, <1>3, <1>4, KeepsNow, RunGoes

(* The outcome of a handshake on a port says whether it is open.             *)
LEMMA AnswersAreTrue ==
  ASSUME NEW q, NEW answer \in Initialize(q)
  PROVE  /\ app.adapter = q => answer = app.ok
         /\ answer = TRUE => Reaches(q)
BY DEF Initialize, Reaches, Answers

(* What a run goes on with once its server was asked.                        *)
Answered(c, answer, d) ==
  /\ d \in Command /\ d.pc = "measure" /\ d.found = c.found /\ d.answers = answer
  /\ d.wanted = IF answer THEN c.wanted ELSE c.wanted \ {"debugpy"}
  /\ d.attach = c.attach /\ d.chosen = c.chosen /\ d.calm = c.calm

LEMMA AnswersYes ==
  ASSUME NEW c \in Command
  PROVE  Answered(c, TRUE, [c EXCEPT !.pc = "measure", !.answers = TRUE, !.wanted = c.wanted])
BY DEF Answered, Command, Point

LEMMA AnswersNo ==
  ASSUME NEW c \in Command
  PROVE  Answered(c, FALSE, [c EXCEPT !.pc = "measure", !.answers = FALSE,
                                      !.wanted = c.wanted \ {"debugpy"}])
BY DEF Answered, Command, Point

LEMMA ProveKeeps ==
  ASSUME DebugInv, NEW r \in Runs, Prove(r)
  PROVE  DebugInv'
<1>1. PICK answer \in Initialize(run[r].found) :
        Set(r, [run[r] EXCEPT !.pc = "measure", !.answers = answer,
                              !.wanted = IF answer THEN @ ELSE @ \ {"debugpy"}])
  BY DEF Prove
<1>2. run[r].pc = "prove" /\ Quiet /\ UNCHANGED <<app, tree, file, mishaps>>
  BY QuietByName DEF Prove
<1>3. answer \in BOOLEAN
  BY <1>1, KeepsNow DEF Initialize, AppState
<1>4. \E c : Set(r, c) /\ Answered(run[r], answer, c)
  <2>1. CASE answer = TRUE
    <3>1. Set(r, [run[r] EXCEPT !.pc = "measure", !.answers = TRUE, !.wanted = run[r].wanted])
      BY <1>1, <2>1
    <3> QED
      BY <2>1, <3>1, KeepsNow, AnswersYes
  <2>2. CASE answer = FALSE
    <3>1. Set(r, [run[r] EXCEPT !.pc = "measure", !.answers = FALSE,
                                !.wanted = run[r].wanted \ {"debugpy"}])
      BY <1>1, <2>2
    <3> QED
      BY <2>2, <3>1, KeepsNow, AnswersNo
  <2> QED
    BY <1>3, <2>1, <2>2
<1>5. PICK c : Set(r, c) /\ Answered(run[r], answer, c)
  BY <1>4
<1>6. run[r].calm /\ run[r].found # 0 => answer = app.ok /\ app.adapter = run[r].found
  BY <1>1, <1>2, KeepsNow, AnswersAreTrue DEF Keeps, Found
<1>7. Sees(c) /\ Injecting(r, c) /\ Emits(c)
  BY <1>2, <1>5, KeepsNow DEF Answered, Keeps, Sees, Injecting, Emits, Looking
<1>8. c.calm => Found(c)
  <2> SUFFICES ASSUME c.calm
               PROVE  Found(c)
    OBVIOUS
  <2>2. /\ c.pc = "measure" /\ c.found = run[r].found /\ c.answers = answer
        /\ ~answer => "debugpy" \notin c.wanted
        /\ c.found # 0 => answer = app.ok /\ app.adapter = c.found
    BY <1>5, <1>6 DEF Answered
  <2> QED
    BY <1>3, <2>2 DEF Found
<1>9. Opens(r, c)
  BY <1>5 DEF Answered, Opens, Looking
<1> QED
  BY <1>2, <1>5, <1>7, <1>8, <1>9, KeepsNow, RunGoes DEF Keeps, Answered

-----------------------------------------------------------------------------
(* Looking at the target. *)

LEMMA ListeningIsFound ==
  ASSUME DebugInv, NEW r \in Runs
  PROVE  /\ Listening(r) \in Port
         /\ run[r].found # 0 => Listening(r) = run[r].found
         /\ run[r].found = 0 /\ Listening(r) # 0 =>
              /\ Python /\ Listening(r) = run[r].probe
              /\ app.adapter = run[r].probe \/ ports[run[r].probe] = "sidecar"
BY KeepsNow, CommandFields DEF Listening, Port

(* What a run goes on with once it has looked.                               *)
Looked(r, c, d) ==
  /\ d \in Command
  /\ d.found = c.found /\ d.answers = c.answers /\ d.wanted = c.wanted
  /\ d.probe = c.probe /\ d.chosen = c.chosen /\ d.proved = c.proved /\ d.calm = c.calm
  /\ d.sight.listening = Listening(r)
  /\ d.attach = "yes" => pod.s.attachable

LEMMA MeasuredLooks ==
  ASSUME DebugInv, NEW r \in Runs
  PROVE  Looked(r, run[r], Measured(r)) /\ Measured(r).pc = run[r].pc
<1> DEFINE sight == [listening |-> Listening(r), dest |-> IF Live(r) THEN tree ELSE "gone"]
           attach == IF run[r].asked THEN run[r].attach ELSE MeasuredAttach(r, Listening(r))
           d == [run[r] EXCEPT !.sight = sight, !.attach = attach, !.asked = TRUE]
<1>1. run[r] \in Command
  BY KeepsNow
<1>2. sight \in Sight /\ sight.listening = Listening(r)
  BY ListeningIsFound, KeepsNow DEF Sight
<1>3. /\ attach \in {"unasked", "yes", "no"}
      /\ attach = "yes" => pod.s.attachable
  BY <1>1, CommandFields, KeepsNow DEF MeasuredAttach, Keeps, Sees
<1>4. Measured(r) = d
  BY DEF Measured
<1> HIDE DEF sight, attach
<1>5. /\ d \in Command /\ d.pc = run[r].pc /\ d.found = run[r].found
      /\ d.answers = run[r].answers /\ d.wanted = run[r].wanted /\ d.probe = run[r].probe
      /\ d.chosen = run[r].chosen /\ d.proved = run[r].proved /\ d.calm = run[r].calm
      /\ d.sight = sight /\ d.attach = attach
  BY <1>1, <1>2, <1>3 DEF Command
<1> HIDE DEF d
<1> QED
  BY <1>2, <1>3, <1>4, <1>5 DEF Looked

LEMMA LookedMoves ==
  ASSUME NEW r, NEW c, NEW d, NEW e, Looked(r, c, d), Moves(d, e), e \in Command
  PROVE  Looked(r, c, e)
BY DEF Looked, Moves

(* A server a run of --provision is shown is the target's.                   *)
LEMMA ShownIsNamed ==
  ASSUME DebugInv, NEW r \in Runs, run[r].calm, run[r].answers, ~pod.p.here,
         run[r].pc \in Looking \cup {"measure"}, Listening(r) # 0
  PROVE  Names(run[r], Listening(r))
<1>1. /\ Found(run[r]) /\ run[r].pc \notin {"idle", "prove"} /\ run[r].chosen = 0
  BY KeepsNow DEF Keeps, Looking, Injecting
<1>2. CASE run[r].found # 0
  BY <1>1, <1>2, ListeningIsFound DEF Found, Names
<1>3. CASE run[r].found = 0
  BY <1>1, <1>3, ListeningIsFound DEF Names
<1> QED
  BY <1>2, <1>3

LEMMA LookingKeeps ==
  ASSUME DebugInv, NEW r \in Runs, run[r].pc \in {"measure", "remeasure"},
         NEW c, Looked(r, run[r], c), c.pc \in Looking \cup {"emit"},
         c.pc = "emit" => ~Opts(r).provision \/ ~run[r].answers,
         c.pc \in Looking => run[r].answers
  PROVE  Keeps(r, c)
<1>1. Sees(c)
  BY ListeningIsFound, KeepsNow DEF Looked, Keeps, Sees, Looking
<1>2. Injecting(r, c) /\ Emits(c)
  BY KeepsNow DEF Looked, Keeps, Injecting, Emits, Looking
<1>3. c.calm => Found(c)
  BY KeepsNow DEF Looked, Keeps, Found, Looking
<1>4. ASSUME c.calm, Provisions(r)
      PROVE  Opens(r, c)
  <2>1. CASE c.pc = "emit"
    <3>1. ~run[r].answers
      BY <1>4, <2>1 DEF Provisions
    <3>2. "debugpy" \notin c.wanted
      BY <3>1, KeepsNow DEF Keeps, Sees, Looked
    <3> QED
      BY <2>1, <3>2 DEF Opens, Looking
  <2>2. CASE c.pc \in Looking
    <3>1. c.sight.listening # 0 => Names(c, c.sight.listening)
      BY <1>4, <2>2, ShownIsNamed DEF Names, Looked, Provisions, Looking
    <3> QED
      BY <2>2, <3>1 DEF Opens, Looking
  <2> QED
    BY <2>1, <2>2
<1> QED
  BY <1>1, <1>2, <1>3, <1>4 DEF Keeps

LEMMA MeasureKeeps ==
  ASSUME DebugInv, NEW r \in Runs, Measure(r)
  PROVE  DebugInv'
<1> DEFINE pc == IF Opts(r).provision /\ run[r].answers THEN "provision" ELSE "emit"
           c == [Measured(r) EXCEPT !.pc = pc]
<1>1. /\ Set(r, c) /\ run[r].pc = "measure"
      /\ Quiet /\ UNCHANGED <<app, tree, file, mishaps>>
  BY QuietByName DEF Measure
<1>2. /\ pc \in Point /\ pc \in Looking \cup {"emit"}
      /\ pc = "emit" => ~Opts(r).provision \/ ~run[r].answers
      /\ pc \in Looking => run[r].answers
  BY DEF Point, Looking
<1> HIDE DEF pc
<1>3. c \in Command /\ c.pc = pc /\ Moves(Measured(r), c)
  BY <1>2, MeasuredLooks, MovesOn DEF Looked
<1>4. Looked(r, run[r], c)
  BY <1>3, MeasuredLooks, LookedMoves
<1> HIDE DEF c
<1>5. Keeps(r, c)
  BY <1>1, <1>2, <1>3, <1>4, LookingKeeps
<1> QED
  BY <1>1, <1>3, <1>5, KeepsNow, RunGoes

LEMMA RemeasureKeeps ==
  ASSUME DebugInv, NEW r \in Runs, Remeasure(r)
  PROVE  DebugInv'
<1> DEFINE c == [Measured(r) EXCEPT !.pc = "inject"]
<1>1. /\ Set(r, c) /\ run[r].pc = "remeasure"
      /\ Quiet /\ UNCHANGED <<app, tree, file, mishaps>>
  BY QuietByName DEF Remeasure
<1>2. "inject" \in Point /\ "inject" \in Looking /\ "remeasure" \in Looking
  BY DEF Point, Looking
<1>3. c \in Command /\ c.pc = "inject" /\ Moves(Measured(r), c)
  BY <1>2, MeasuredLooks, MovesOn DEF Looked
<1>4. Looked(r, run[r], c)
  BY <1>3, MeasuredLooks, LookedMoves
<1>5. run[r].answers
  BY <1>1, <1>2, KeepsNow, CommandFields DEF Keeps, Sees
<1> HIDE DEF c
<1>6. Keeps(r, c)
  BY <1>1, <1>2, <1>3, <1>4, <1>5, LookingKeeps
<1> QED
  BY <1>1, <1>3, <1>6, KeepsNow, RunGoes

(* The port the server was really put on is looked at.                       *)
LEMMA SettleKeeps ==
  ASSUME DebugInv, NEW r \in Runs, Settle(r)
  PROVE  DebugInv'
<1> DEFINE wanted == IF run[r].proved THEN run[r].wanted ELSE run[r].wanted \ {"debugpy"}
           c == [Measured(r) EXCEPT !.pc = "emit", !.wanted = wanted]
<1>1. run[r].pc = "settle" /\ Quiet /\ UNCHANGED <<app, tree, file, mishaps>>
  BY QuietByName DEF Settle
<1>2. Looked(r, run[r], Measured(r)) /\ Measured(r).wanted = run[r].wanted
  BY MeasuredLooks DEF Looked
<1>3. Set(r, c)
  BY <1>2 DEF Settle
<1>4. /\ wanted \in SUBSET Flavour
      /\ "debugpy" \in wanted => run[r].proved /\ "debugpy" \in run[r].wanted
  BY KeepsNow, CommandFields
<1> HIDE DEF wanted
<1> DEFINE m == Measured(r)
<1>5. /\ c \in Command /\ c.pc = "emit" /\ c.wanted = wanted /\ c.found = m.found
      /\ c.answers = m.answers /\ c.chosen = m.chosen /\ c.attach = m.attach
      /\ c.sight = m.sight /\ c.calm = m.calm
  <2> HIDE DEF m
  <2>1. m \in Command /\ "emit" \in Point
    BY <1>2 DEF Looked, Point, m
  <2> QED
    BY <1>4, <2>1 DEF Command, m
<1> HIDE DEF c, m
<1>6. /\ c.found = run[r].found /\ c.answers = run[r].answers /\ c.chosen = run[r].chosen
      /\ c.calm = run[r].calm /\ c.sight.listening = Listening(r)
      /\ c.attach = "yes" => pod.s.attachable
  BY <1>2, <1>5 DEF Looked, m
<1>7. /\ run[r].found = 0 /\ Python /\ run[r].chosen \in Ports /\ run[r].probe = run[r].chosen
      /\ Opts(r).port # 0 => run[r].chosen = Opts(r).port
      /\ run[r].answers
  BY <1>1, KeepsNow, CommandFields DEF Keeps, Injecting, Sees
<1>8. Sees(c) /\ Injecting(r, c) /\ Emits(c)
  BY <1>5, <1>6, <1>7 DEF Sees, Injecting, Emits, Looking
<1>9. Found(c)
  BY <1>5, <1>6, <1>7 DEF Found, Looking
<1>10. ASSUME c.calm, Provisions(r)
       PROVE  Opens(r, c)
  <2>1. Opens(r, run[r])
    BY <1>6, <1>10, KeepsNow DEF Keeps
  <2>2. "debugpy" \in c.wanted => Reaches(run[r].chosen)
    BY <1>1, <1>4, <1>5, <2>1 DEF Opens
  <2>3. c.sight.listening \in {0, run[r].chosen}
    BY <1>6, <1>7, ListeningIsFound
  <2>4. run[r].chosen # 0
    BY <1>7, PortsAreNumbers
  <2> QED
    BY <1>5, <1>6, <1>7, <2>2, <2>3, <2>4 DEF Opens, Names, Reaches, Answers, Looking
<1> QED
  BY <1>1, <1>3, <1>5, <1>8, <1>9, <1>10, KeepsNow, RunGoes DEF Keeps

-----------------------------------------------------------------------------
(* Installing debugpy, and injecting a server. *)

LEMMA LookingOn ==
  ASSUME DebugInv, NEW r \in Runs, NEW pc \in Looking, run[r].pc \in Looking,
         Set(r, [run[r] EXCEPT !.pc = pc]), tree' \in DebugpyTree,
         UNCHANGED <<pod, app, ports, file, mishaps>>
  PROVE  DebugInv'
<1> DEFINE c == [run[r] EXCEPT !.pc = pc]
<1>1. c \in Command /\ c.pc = pc /\ Moves(run[r], c)
  <2>1. run[r] \in Command /\ pc \in Point
    BY KeepsNow DEF Looking, Point
  <2> QED
    BY <2>1, MovesOn
<1> HIDE DEF c
<1>2. \A p \in Looking : p \notin {"injecting", "handshake", "settle", "emit", "read", "write",
                                   "done", "idle", "prove"}
  BY DEF Looking
<1>3. Keeps(r, c)
  BY <1>1, <1>2, KeepsNow DEF Keeps, Moves, Sees, Injecting, Emits, Found, Opens, Names
<1> QED
  BY <1>1, <1>3, KeepsNow, QuietByName, RunGoes DEF c

LEMMA InstallingKeeps ==
  ASSUME DebugInv, NEW r \in Runs,
         Provision(r) \/ InstallRefused(r) \/ UvUnpacks(r) \/ UvEnds(r)
  PROVE  DebugInv'
<1>1. {"provision", "install", "unpacking", "remeasure", "inject"} \subseteq Looking
  BY DEF Looking
<1>2. tree \in DebugpyTree /\ {"bare", "whole"} \subseteq DebugpyTree
  BY KeepsNow DEF DebugpyTree
<1>3. CASE Provision(r)
  BY <1>1, <1>2, <1>3, LookingOn DEF Provision
<1>4. CASE InstallRefused(r)
  BY <1>1, <1>2, <1>4, LookingOn DEF InstallRefused
<1>5. CASE UvUnpacks(r)
  BY <1>1, <1>2, <1>5, LookingOn DEF UvUnpacks
<1>6. CASE UvEnds(r)
  BY <1>1, <1>2, <1>6, LookingOn DEF UvEnds
<1> QED
  BY <1>3, <1>4, <1>5, <1>6

LEMMA VerdictOffers ==
  ASSUME NEW r \in Runs, NEW wanted
  PROVE  Verdicts(r, wanted)["debugpy"].ok = Offers(run[r])
BY DEF Verdicts, Assess, Offers, Seat, SeatOf, Flavour

(* What is offered beside the seat, with no server in sight, is Python's.    *)
LEMMA OffersArePythons ==
  ASSUME DebugTypeOK, NEW c \in Command, Offers(c), ~pod.p.here, c.sight.listening = 0
  PROVE  Python /\ SeatOf(c).readable
<1> DEFINE s == SeatOf(c)
<1>1. pod.p \in Target /\ pod.s \in Looker
  BY ScenariosAssumption DEF DebugTypeOK
<1>2. s \in Looker /\ (s.readable => pod.s.readable)
  BY <1>1 DEF SeatOf, Looker
<1>3. AssessDebugpy(pod.p, s, c.sight.dest, c.attach, FALSE).ok
  BY DEF Offers
<1> HIDE DEF s
<1>4. s.readable
  BY <1>1, <1>2, <1>3, InjectionLacksNothing
<1>5. Language(pod.p, s) = "python"
  BY <1>3, DebugpyIsPythons
<1>6. Language(pod.p, pod.s) = "python"
  BY <1>1, <1>2, <1>4, <1>5, LanguageIsRead DEF Looker
<1> QED
  BY <1>4, <1>6 DEF Python, s

(* The port a server is put on is the user's, where one was given.           *)
LEMMA ServingPorts ==
  ASSUME DebugInv, NEW r \in Runs, NEW q \in ServingPort(r)
  PROVE  /\ q \in Ports /\ (Opts(r).port # 0 => q = Opts(r).port)
         /\ ~pod.p.here /\ Python /\ Opts(r).port = 0 /\ run[r].chosen # 0 => q = run[r].chosen
<1>1. Opts(r).port \in {0, Pinned} /\ run[r].chosen \in Port
  BY KeepsNow, ScenarioFields, CommandFields
<1> QED
  BY <1>1, PortsAreNumbers DEF ServingPort, Port

LEMMA InjectKeeps ==
  ASSUME DebugInv, NEW r \in Runs, Inject(r)
  PROVE  DebugInv'
<1> DEFINE refused == \/ pod.p.here \/ ~Python \/ run[r].sight.listening # 0
                      \/ ~Verdicts(r, Flavour)["debugpy"].ok
<1>1. /\ run[r].pc = "inject" /\ run[r].pc \in Looking
      /\ UNCHANGED <<pod, tree, ports, file, mishaps>>
  BY DEF Inject, Looking
<1>2. run[r].answers
  BY <1>1, KeepsNow, CommandFields DEF Keeps, Sees
<1>3. CASE refused
  <2> DEFINE c == [run[r] EXCEPT !.pc = "emit"]
  <2>1. Set(r, c) /\ app' = app
    BY <1>3 DEF Inject
  <2>2. c \in Command /\ c.pc = "emit" /\ Moves(run[r], c)
    BY KeepsNow, MovesOn DEF Point
  <2> HIDE DEF c
  <2>3. Sees(c) /\ Injecting(r, c) /\ Emits(c)
    BY <1>1, <1>2, <2>2, KeepsNow DEF Keeps, Moves, Sees, Injecting, Emits, Looking
  <2>4. c.calm => Found(c)
    BY <1>1, <2>2, KeepsNow DEF Keeps, Moves, Found, Looking
  <2>5. ASSUME c.calm, Provisions(r), "debugpy" \in c.wanted, Offers(c)
        PROVE  c.sight.listening # 0 /\ Names(c, c.sight.listening)
    <3>1. Offers(run[r]) /\ Opens(r, run[r]) /\ ~pod.p.here
      BY <2>2, <2>5, KeepsNow, OffersStay DEF Keeps, Moves, Provisions
    <3>2. c.sight.listening # 0
      BY <1>3, <2>2, <3>1, KeepsNow, VerdictOffers, OffersArePythons DEF Moves
    <3> QED
      BY <1>1, <2>2, <3>1, <3>2 DEF Opens, Moves, Names
  <2>6. c.calm /\ Provisions(r) => Opens(r, c)
    BY <2>2, <2>5 DEF Opens, Looking
  <2> QED
    BY <1>1, <2>1, <2>2, <2>3, <2>4, <2>6, KeepsNow, QuietByName, RunGoes DEF Keeps
<1>4. CASE ~refused
  <2>1. PICK q \in ServingPort(r) : Set(r, [run[r] EXCEPT !.pc = "injecting", !.chosen = q])
    BY <1>4 DEF Inject
  <2> DEFINE c == [run[r] EXCEPT !.pc = "injecting", !.chosen = q]
  <2>2. app' = IF Attaches(r) /\ app.held = NoRun THEN [app EXCEPT !.held = r] ELSE app
    BY <1>4 DEF Inject
  <2>3. app' \in AppState /\ app'.adapter = app.adapter /\ app'.ok = app.ok
    BY <2>2, KeepsNow DEF AppState
  <2>4. /\ c \in Command /\ c.pc = "injecting" /\ c.chosen = q /\ c.found = run[r].found
        /\ c.answers = run[r].answers /\ c.attach = run[r].attach
    <3>1. run[r] \in Command /\ q \in Port /\ "injecting" \in Point
      BY KeepsNow, ServingPorts DEF Port, Point
    <3> QED
      BY <3>1 DEF Command
  <2> HIDE DEF c
  <2>5. run[r].found = 0 /\ (run[r].attach = "yes" => pod.s.attachable)
    BY <1>1, <1>4, KeepsNow DEF Keeps, Sees
  <2>6. ~pod.p.here /\ Python /\ q \in Ports /\ (Opts(r).port # 0 => q = Opts(r).port)
    BY <1>4, ServingPorts
  <2>7. Keeps(r, c)
    BY <1>2, <2>4, <2>5, <2>6 DEF Keeps, Sees, Injecting, Emits, Found, Opens, Looking
  <2> QED
    BY <1>1, <2>1, <2>3, <2>4, <2>7, KeepsNow, RunGoes DEF Quiet, c
<1> QED
  BY <1>3, <1>4

(* A run that has injected knows all of it that is asked until its answer.   *)
LEMMA InjectedKeeps ==
  ASSUME DebugInv, NEW r \in Runs, run[r].pc = "injecting", NEW c \in Command,
         c.found = run[r].found, c.chosen = run[r].chosen, c.attach = run[r].attach,
         c.answers = run[r].answers,
         c.pc = "handshake" \/ (c.pc = "emit" /\ "debugpy" \notin c.wanted)
  PROVE  Keeps(r, c)
<1>1. run[r].found = 0 /\ run[r].answers
  BY KeepsNow, CommandFields DEF Keeps, Injecting, Sees
<1> QED
  BY <1>1, KeepsNow DEF Keeps, Sees, Injecting, Emits, Found, Opens, Looking

LEMMA FreedFields ==
  ASSUME DebugInv, NEW r \in Runs
  PROVE  Freed(r) \in AppState /\ Freed(r).adapter = app.adapter /\ Freed(r).ok = app.ok
BY KeepsNow DEF Freed, AppState

LEMMA WithheldFields ==
  ASSUME DebugInv, NEW r \in Runs, run[r].pc = "injecting"
  PROVE  Withheld(r) \in Command /\ Keeps(r, Withheld(r))
<1>1. run[r] \in Command /\ "emit" \in Point
  BY KeepsNow DEF Point
<1> DEFINE c == Withheld(r)
<1>2. /\ c \in Command /\ c.pc = "emit" /\ "debugpy" \notin c.wanted
      /\ c.found = run[r].found /\ c.chosen = run[r].chosen /\ c.attach = run[r].attach
      /\ c.answers = run[r].answers
  BY <1>1 DEF Withheld, Command
<1> HIDE DEF c
<1>3. Keeps(r, c)
  BY <1>2, InjectedKeeps
<1> QED
  BY <1>2, <1>3 DEF c

LEMMA InjectionFailsKeeps ==
  ASSUME DebugInv, NEW r \in Runs, InjectFails(r) \/ InjectTimesOut(r)
  PROVE  DebugInv'
<1>1. /\ run[r].pc = "injecting" /\ Set(r, Withheld(r))
      /\ UNCHANGED <<pod, tree, ports, file, mishaps>>
  BY DEF InjectFails, InjectTimesOut
<1>2. app' \in AppState /\ app'.adapter = app.adapter /\ app'.ok = app.ok
  <2>1. CASE InjectFails(r)
    BY <2>1, FreedFields DEF InjectFails
  <2>2. CASE InjectTimesOut(r)
    <3>1. PICK served \in {app.served, app.held = r \/ app.served} :
            app' = [Freed(r) EXCEPT !.served = served]
      BY <2>2 DEF InjectTimesOut
    <3>2. served \in BOOLEAN
      BY <3>1, KeepsNow DEF AppState
    <3> QED
      BY <3>1, <3>2, FreedFields DEF AppState
  <2> QED
    BY <2>1, <2>2
<1> QED
  BY <1>1, <1>2, KeepsNow, WithheldFields, RunGoes DEF Quiet

(* What a step that only disturbs a run leaves of its variables.             *)
Doubts(c, d) ==
  /\ d.pc = c.pc /\ d.found = c.found /\ d.answers = c.answers /\ d.wanted = c.wanted
  /\ d.probe = c.probe /\ d.chosen = c.chosen /\ d.attach = c.attach /\ d.sight = c.sight
  /\ d.proved = c.proved /\ d.entry = c.entry

(* A process nobody served may have been left with a server: no other run    *)
(* was shown one.                                                            *)
LEMMA ServedKeeps ==
  ASSUME DebugInv, NEW r \in Runs, run[r].pc = "injecting", NEW ok \in BOOLEAN,
         ports[run[r].chosen] = "free", app.adapter = 0,
         app' = [Freed(r) EXCEPT !.served = TRUE, !.adapter = run[r].chosen, !.ok = ok],
         Set(r, [run[r] EXCEPT !.pc = "handshake"]),
         UNCHANGED <<pod, tree, ports, file, mishaps>>
  PROVE  DebugInv'
<1> DEFINE q == run[r].chosen
<1>1. q \in Ports /\ q # 0 /\ Python /\ run[r].found = 0 /\ run[r].answers
  BY KeepsNow, CommandFields, PortsAreNumbers DEF Keeps, Injecting, Sees
<1>2. app' \in AppState /\ app'.adapter = q /\ app'.ok = ok
  BY <1>1, FreedFields DEF AppState, Port
<1>3. /\ run'[r] \in Command /\ run'[r].pc = "handshake" /\ Moves(run[r], run'[r])
  <2>1. run[r] \in Command /\ "handshake" \in Point
    BY KeepsNow DEF Point
  <2>2. run'[r] = [run[r] EXCEPT !.pc = "handshake"]
    BY DEF Set, DebugInv, DebugTypeOK
  <2> QED
    BY <2>1, <2>2, MovesOn
<1>4. \A x \in Runs \ {r} : run'[x] = run[x] /\ run[x] \in Command
  BY DEF Set, DebugInv, DebugTypeOK
<1>5. DebugTypeOK'
  <2>1. run' \in [Runs -> Command]
    BY <1>3 DEF Set, DebugInv, DebugTypeOK
  <2> QED
    BY <1>2, <2>1, KeepsNow DEF DebugTypeOK
<1>6. Python' /\ \A x \in Runs : Opts(x)' = Opts(x)
  BY <1>1 DEF Python, Opts
<1>7. Keeps(r, run[r])'
  <2> DEFINE c == run'[r]
  <2>1. /\ c.pc = "handshake" /\ c.found = 0 /\ c.chosen = q /\ c.answers
        /\ c.attach = run[r].attach
    BY <1>1, <1>3 DEF Moves
  <2>2. ~pod.p.here /\ (Opts(r).port # 0 => q = Opts(r).port)
        /\ (run[r].attach = "yes" => pod.s.attachable)
    BY KeepsNow DEF Keeps, Injecting, Sees
  <2> QED
    BY <1>1, <1>6, <2>1, <2>2 DEF Keeps, Sees, Injecting, Emits, Found, Opens, Looking
<1>8. ASSUME NEW x \in Runs \ {r}
      PROVE  Keeps(x, run[x])'
  <2>1. Keeps(x, run[x]) /\ run[x] \in Command
    BY KeepsNow
  <2>2. Sees(run[x])' /\ Injecting(x, run[x])' /\ Emits(run[x])'
    BY <1>4, <1>6, <2>1 DEF Keeps, Sees, Injecting, Emits, Python
  <2>3. ASSUME run'[x].calm
        PROVE  Found(run[x])'
    <3>1. Found(run[x])
      BY <1>4, <2>1, <2>3 DEF Keeps
    <3>2. run[x].found # 0 => run[x].pc = "idle"
      BY <3>1 DEF Found
    <3> QED
      BY <1>2, <1>4, <3>1, <3>2 DEF Found
  <2>4. ASSUME run'[x].calm, Provisions(x)'
        PROVE  Opens(x, run[x])'
    <3>1. Opens(x, run[x])
      BY <1>4, <1>6, <2>1, <2>4 DEF Keeps, Provisions
    <3>2. \A p : p # 0 /\ Reaches(p) => Reaches(p)'
      BY DEF Reaches, Answers
    <3>5. \A p : p # 0 /\ Names(run[x], p) => Names(run[x], p)'
      BY <1>4 DEF Names
    <3>3. Offers(run[x])' = Offers(run[x])
      BY <1>4 DEF Offers, SeatOf
    <3>4. run[x].pc = "settle" => run[x].chosen # 0
      BY <2>1, PortsAreNumbers DEF Keeps, Injecting
    <3> QED
      BY <1>4, <1>6, <3>1, <3>2, <3>3, <3>4, <3>5 DEF Opens
  <2> QED
    BY <2>2, <2>3, <2>4 DEF Keeps
<1> QED
  BY <1>5, <1>6, <1>7, <1>8 DEF DebugInv

LEMMA ReturnKeeps ==
  ASSUME DebugInv, NEW r \in Runs, InjectReturns(r)
  PROVE  DebugInv'
<1>1. run[r].pc = "injecting" /\ UNCHANGED <<pod, tree, ports, file, mishaps>>
  BY DEF InjectReturns
<1>2. CASE app' = Freed(r) /\ Set(r, [run[r] EXCEPT !.pc = "handshake"])
  <2> DEFINE c == [run[r] EXCEPT !.pc = "handshake"]
  <2>1. c \in Command /\ c.pc = "handshake" /\ Moves(run[r], c)
    <3>1. run[r] \in Command /\ "handshake" \in Point
      BY KeepsNow DEF Point
    <3> QED
      BY <3>1, MovesOn
  <2> HIDE DEF c
  <2>2. Keeps(r, c)
    BY <1>1, <2>1, InjectedKeeps DEF Moves
  <2> QED
    BY <1>1, <1>2, <2>1, <2>2, KeepsNow, FreedFields, RunGoes DEF Quiet, c
<1>3. CASE /\ ports[run[r].chosen] = "free" /\ app.adapter = 0
           /\ \E ok \in BOOLEAN :
                app' = [Freed(r) EXCEPT !.served = TRUE, !.adapter = run[r].chosen, !.ok = ok]
           /\ Set(r, [run[r] EXCEPT !.pc = "handshake"])
  BY <1>1, <1>3, ServedKeeps
<1> QED
  BY <1>2, <1>3 DEF InjectReturns

(* What an open port answers to a handshake is proved.                       *)
Shook(c, answer, d) ==
  /\ d \in Command /\ d.pc = "settle" /\ d.probe = c.chosen /\ d.proved = answer
  /\ d.found = c.found /\ d.answers = c.answers /\ d.chosen = c.chosen
  /\ d.attach = c.attach /\ d.calm = c.calm

LEMMA ShookYes ==
  ASSUME NEW c \in Command
  PROVE  Shook(c, TRUE, [c EXCEPT !.pc = "settle", !.proved = TRUE, !.probe = c.chosen])
BY DEF Shook, Command, Point

LEMMA ShookNo ==
  ASSUME NEW c \in Command
  PROVE  Shook(c, FALSE, [c EXCEPT !.pc = "settle", !.proved = FALSE, !.probe = c.chosen])
BY DEF Shook, Command, Point

LEMMA HandshakeKeeps ==
  ASSUME DebugInv, NEW r \in Runs, Handshake(r)
  PROVE  DebugInv'
<1>1. PICK answer \in Initialize(run[r].chosen) :
        Set(r, [run[r] EXCEPT !.pc = "settle", !.proved = answer, !.probe = run[r].chosen])
  BY DEF Handshake
<1>2. run[r].pc = "handshake" /\ Quiet /\ UNCHANGED <<app, tree, file, mishaps>>
  BY QuietByName DEF Handshake
<1>3. answer \in BOOLEAN
  BY <1>1, KeepsNow DEF Initialize, AppState
<1>4. \E c : Set(r, c) /\ Shook(run[r], answer, c)
  <2>1. CASE answer = TRUE
    BY <1>1, <2>1, KeepsNow, ShookYes
  <2>2. CASE answer = FALSE
    BY <1>1, <2>2, KeepsNow, ShookNo
  <2> QED
    BY <1>3, <2>1, <2>2
<1>5. PICK c : Set(r, c) /\ Shook(run[r], answer, c)
  BY <1>4
<1>6. answer => Reaches(run[r].chosen)
  BY <1>1, <1>3, AnswersAreTrue
<1>7. run[r].found = 0 /\ run[r].answers
  BY <1>2, KeepsNow, CommandFields DEF Keeps, Injecting, Sees
<1>8. Sees(c) /\ Injecting(r, c) /\ Emits(c)
  BY <1>2, <1>5, <1>7, KeepsNow DEF Shook, Keeps, Sees, Injecting, Emits, Looking
<1>9. Found(c) /\ Opens(r, c)
  BY <1>5, <1>6, <1>7 DEF Shook, Found, Opens, Looking
<1> QED
  BY <1>2, <1>5, <1>8, <1>9, KeepsNow, RunGoes DEF Keeps, Shook

-----------------------------------------------------------------------------
(* Writing the entries. *)

(* A Python target is given no entry but debugpy's: whatever was read of it. *)
LEMMA PythonsGetDebugpy ==
  ASSUME DebugInv, NEW r \in Runs, Python, NEW wanted \in SUBSET Flavour
  PROVE  Emitted(Verdicts(r, wanted), wanted) \subseteq {"debugpy"}
<1> DEFINE s == Seat(r)
           entry == AssessGdb(pod.p, s).ok /\ "gdb" \in wanted
<1>1. pod.p \in Target /\ pod.s \in Looker
  BY KeepsNow, ScenarioFields
<1>2. s \in Looker /\ (s.readable => pod.s.readable)
  BY <1>1 DEF Seat, Looker
<1>3. Exe(pod.p, s) = "unread" \/ Language(pod.p, s) \in Managed
  <2>1. CASE s.readable
    BY <1>1, <1>2, <2>1, LanguageIsRead DEF Looker, Python, Managed
  <2>2. CASE ~s.readable
    BY <2>2 DEF Exe
  <2> QED
    BY <2>1, <2>2
<1>4. entry \in BOOLEAN
  OBVIOUS
<1>5. /\ Verdicts(r, wanted)["gdb"] = AssessGdb(pod.p, s)
      /\ Verdicts(r, wanted)["lldb"] = AssessLldb(pod.p, s, entry)
      /\ Verdicts(r, wanted)["delve"] = AssessDelve(pod.p, s, entry)
  BY DEF Verdicts, Assess, Flavour
<1> HIDE DEF s, entry
<1>6. \A f \in {"gdb", "lldb", "delve"} : ~Verdicts(r, wanted)[f].ok
  BY <1>1, <1>2, <1>3, <1>4, <1>5, NativesNeedAProgram
<1> QED
  BY <1>6 DEF Emitted, Flavour

LEMMA EmitKeeps ==
  ASSUME DebugInv, NEW r \in Runs, Emit(r)
  PROVE  DebugInv'
<1> DEFINE wanted == run[r].wanted
           emitted == Emitted(Verdicts(r, wanted), wanted)
           named == IF run[r].sight.listening # 0 THEN {run[r].sight.listening}
                                                  ELSE ServingPort(r)
           pc == IF emitted = {} \/ Opts(r).print THEN "done" ELSE "read"
<1>1. PICK q \in named : Set(r, [run[r] EXCEPT
                                   !.pc = pc, !.entry = IF "debugpy" \in emitted THEN q ELSE 0])
  BY DEF Emit
<1> DEFINE entry == IF "debugpy" \in emitted THEN q ELSE 0
           c == [run[r] EXCEPT !.pc = pc, !.entry = entry]
<1>2. run[r].pc = "emit" /\ Quiet /\ UNCHANGED <<app, tree, file, mishaps>>
  BY QuietByName DEF Emit
<1>3. run[r] \in Command /\ wanted \in SUBSET Flavour /\ run[r].sight.listening \in Port
  BY KeepsNow, CommandFields
<1>4. /\ q \in Ports /\ q # 0
      /\ run[r].sight.listening # 0 => q = run[r].sight.listening
      /\ run[r].sight.listening = 0 => q \in ServingPort(r)
  BY <1>1, <1>3, ServingPorts, PortsAreNumbers DEF Port
<1>5. /\ "debugpy" \in emitted <=> "debugpy" \in wanted /\ Offers(run[r])
  BY <1>3, VerdictOffers DEF Emitted
<1>6. Python => emitted \subseteq {"debugpy"}
  BY <1>3, PythonsGetDebugpy
<1> HIDE DEF wanted, emitted, named
<1>7. /\ pc \in {"done", "read"} /\ (pc = "read" => emitted # {})
      /\ entry \in Port /\ (entry # 0 => entry = q /\ "debugpy" \in emitted)
      /\ "debugpy" \in emitted => entry = q
  BY <1>4 DEF Port
<1> HIDE DEF pc, entry
<1>8. /\ c \in Command /\ c.pc = pc /\ c.entry = entry /\ c.found = run[r].found
      /\ c.answers = run[r].answers /\ c.attach = run[r].attach /\ c.calm = run[r].calm
      /\ c.wanted = run[r].wanted /\ c.chosen = run[r].chosen
  <2>1. pc \in Point
    BY <1>7 DEF Point
  <2> QED
    BY <1>3, <1>7, <2>1 DEF Command
<1> HIDE DEF c
<1>9. Sees(c) /\ Injecting(r, c)
  BY <1>7, <1>8, KeepsNow DEF Keeps, Sees, Injecting, Looking
<1>10. Emits(c)
  <2>1. c.pc = "read" /\ Python => "debugpy" \in emitted
    BY <1>6, <1>7, <1>8
  <2>2. run[r].found # 0 => run[r].sight.listening = run[r].found
    BY <1>2, KeepsNow DEF Keeps, Sees
  <2> QED
    BY <1>4, <1>7, <1>8, <2>1, <2>2 DEF Emits
<1>11. c.calm => Found(c)
  BY <1>2, <1>7, <1>8, KeepsNow DEF Keeps, Found, Looking
<1>12. ASSUME c.calm, Provisions(r)
       PROVE  Opens(r, c)
  <2>1. Opens(r, run[r]) /\ ~pod.p.here
    BY <1>8, <1>12, KeepsNow DEF Keeps, Provisions
  <2>2. ASSUME c.entry # 0
        PROVE  Names(c, c.entry)
    <3>1. c.entry = q /\ "debugpy" \in run[r].wanted /\ Offers(run[r])
      BY <1>5, <1>7, <1>8, <2>2 DEF wanted
    <3>2. CASE run[r].sight.listening # 0
      BY <1>2, <1>4, <1>8, <2>1, <3>1, <3>2 DEF Opens, Names
    <3>3. CASE run[r].sight.listening = 0
      <4>1. /\ run[r].chosen # 0 /\ Reaches(run[r].chosen) /\ Python
            /\ Opts(r).port # 0 => run[r].chosen = Opts(r).port
        BY <1>2, <2>1, <3>1, <3>3 DEF Opens
      <4>2. q = run[r].chosen
        BY <1>4, <2>1, <3>3, <4>1, ServingPorts
      <4> QED
        BY <3>1, <4>1, <4>2 DEF Names, Reaches, Answers
    <3> QED
      BY <3>2, <3>3
  <2> QED
    BY <1>7, <1>8, <2>2 DEF Opens, Looking
<1> QED
  BY <1>1, <1>2, <1>8, <1>9, <1>10, <1>11, <1>12, KeepsNow, RunGoes DEF Keeps, c, entry

LEMMA FileIsARuns ==
  ASSUME NEW r \in Runs
  PROVE  FileOf(r) \in Runs
BY DEF FileOf

(* A run that only reads or writes its file knows what it knew.              *)
LEMMA WritingOn ==
  ASSUME DebugInv, NEW r \in Runs, run[r].pc \in {"read", "write"}, NEW c \in Command,
         c.pc \in {"write", "done"}, c.entry = run[r].entry, c.found = run[r].found,
         c.answers = run[r].answers, c.attach = run[r].attach, c.calm = run[r].calm,
         c.wanted = run[r].wanted, c.chosen = run[r].chosen
  PROVE  Keeps(r, c)
<1>1. Sees(c) /\ Injecting(r, c) /\ Emits(c)
  BY KeepsNow DEF Keeps, Sees, Injecting, Emits, Looking
<1>2. c.calm => Found(c)
  BY KeepsNow DEF Keeps, Found, Looking
<1>3. c.calm /\ Provisions(r) => Opens(r, c)
  BY KeepsNow DEF Keeps, Opens, Names, Looking
<1> QED
  BY <1>1, <1>2, <1>3 DEF Keeps

LEMMA ReadKeeps ==
  ASSUME DebugInv, NEW r \in Runs, Read(r)
  PROVE  DebugInv'
<1> DEFINE c == [run[r] EXCEPT !.pc = "write", !.read = file[FileOf(r)]]
<1>1. /\ run[r].pc = "read" /\ Set(r, c) /\ Quiet /\ UNCHANGED <<app, tree, file, mishaps>>
  BY QuietByName DEF Read
<1>2. /\ c \in Command /\ c.pc = "write" /\ c.entry = run[r].entry /\ c.found = run[r].found
      /\ c.answers = run[r].answers /\ c.attach = run[r].attach /\ c.calm = run[r].calm
      /\ c.wanted = run[r].wanted /\ c.chosen = run[r].chosen
  <2>1. run[r] \in Command /\ "write" \in Point /\ file[FileOf(r)] \in [Pids -> Port]
    BY KeepsNow, FileIsARuns DEF Point
  <2> QED
    BY <2>1 DEF Command
<1> HIDE DEF c
<1>3. Keeps(r, c)
  BY <1>1, <1>2, WritingOn
<1> QED
  BY <1>1, <1>2, <1>3, KeepsNow, RunGoes

LEMMA FileWriteKeeps ==
  ASSUME DebugInv, NEW r \in Runs, Write(r)
  PROVE  DebugInv'
<1> DEFINE c == [run[r] EXCEPT !.pc = "done", !.read = NoEntries]
<1>1. /\ run[r].pc = "write" /\ Set(r, c) /\ Quiet /\ UNCHANGED <<app, tree, mishaps>>
  BY QuietByName DEF Write
<1>2. /\ c \in Command /\ c.pc = "done" /\ c.entry = run[r].entry /\ c.found = run[r].found
      /\ c.answers = run[r].answers /\ c.attach = run[r].attach /\ c.calm = run[r].calm
      /\ c.wanted = run[r].wanted /\ c.chosen = run[r].chosen
  <2>1. run[r] \in Command /\ "done" \in Point /\ NoEntries \in [Pids -> Port]
    BY KeepsNow DEF Point, NoEntries, Port
  <2> QED
    BY <2>1 DEF Command
<1> HIDE DEF c
<1>3. Keeps(r, c)
  BY <1>1, <1>2, WritingOn
<1>4. file' \in [Runs -> [Pids -> Port]]
  <2>1. MergedEntries(r) \in [Pids -> Port]
    BY KeepsNow, CommandFields DEF MergedEntries
  <2> QED
    BY <2>1, KeepsNow DEF Write
<1> QED
  BY <1>1, <1>2, <1>3, <1>4, KeepsNow, RunGoes

-----------------------------------------------------------------------------
(* The workload and its neighbours, and the invariant. *)

(* Nothing that was found or proved is counted on after a fault.             *)
LEMMA FaultKeeps ==
  ASSUME DebugInv, Fault, app' \in AppState, tree' \in DebugpyTree,
         ports' \in [Ports -> {"free", "sidecar", "stranger"}], app'.adapter # 0 => Python
  PROVE  DebugInv'
<1>1. UNCHANGED <<pod, file>> /\ mishaps' = mishaps + 1
  BY DEF Fault
<1>2. ASSUME NEW r \in Runs
      PROVE  /\ run'[r] \in Command /\ run'[r].calm = FALSE /\ run'[r].pc = run[r].pc
             /\ Doubts(run[r], run'[r])
  <2>1. run[r] \in Command /\ run'[r] = [run[r] EXCEPT !.calm = FALSE]
    BY KeepsNow DEF Fault
  <2> QED
    BY <2>1 DEF Command, Doubts
<1>3. run' \in [Runs -> Command]
  BY <1>2 DEF Fault
<1>4. DebugTypeOK'
  BY <1>1, <1>3 DEF DebugInv, DebugTypeOK
<1>5. ASSUME NEW r \in Runs
      PROVE  Keeps(r, run[r])'
  <2>1. Sees(run[r])' /\ Injecting(r, run[r])' /\ Emits(run[r])'
    BY <1>1, <1>2, KeepsNow DEF Doubts, Keeps, Sees, Injecting, Emits, Opts, Python
  <2> QED
    BY <1>2, <2>1 DEF Keeps
<1>6. app'.adapter # 0 => Python'
  BY <1>1 DEF Python
<1> QED
  BY <1>4, <1>5, <1>6 DEF DebugInv

LEMMA MishapsKeep ==
  ASSUME DebugInv,
         WorkloadRestarts \/ AdapterWedges \/ AdapterDies \/ AppListens \/ PortTaken
  PROVE  DebugInv'
<1>1. /\ app \in AppState /\ tree \in DebugpyTree /\ DebugTypeOK
      /\ ports \in [Ports -> {"free", "sidecar", "stranger"}]
      /\ app.adapter # 0 => Python
  BY DEF DebugInv, DebugTypeOK
<1>2. CASE WorkloadRestarts
  <2>1. app' \in AppState /\ app'.adapter = 0
    BY <1>1, <1>2 DEF WorkloadRestarts, AppState, Pids, Port
  <2>2. tree' \in DebugpyTree
    BY <1>1, <1>2 DEF WorkloadRestarts, DebugpyTree
  <2> QED
    BY <1>1, <1>2, <2>1, <2>2, FaultKeeps DEF WorkloadRestarts
<1>3. CASE AdapterWedges
  <2>1. app' \in AppState /\ app'.adapter = app.adapter
    BY <1>1, <1>3 DEF AdapterWedges, AppState
  <2> QED
    BY <1>1, <1>3, <2>1, FaultKeeps DEF AdapterWedges
<1>4. CASE AdapterDies
  <2>1. app' \in AppState /\ app'.adapter = 0
    BY <1>1, <1>4 DEF AdapterDies, AppState, Port
  <2> QED
    BY <1>1, <1>4, <2>1, FaultKeeps DEF AdapterDies
<1>5. CASE AppListens
  <2>1. app' \in AppState /\ Python
    BY <1>1, <1>5, PortsAreNumbers DEF AppListens, AppState, Port
  <2> QED
    BY <1>1, <1>5, <2>1, FaultKeeps DEF AppListens
<1>6. CASE PortTaken
  <2>1. ports' \in [Ports -> {"free", "sidecar", "stranger"}]
    BY <1>1, <1>6 DEF PortTaken
  <2> QED
    BY <1>1, <1>6, <2>1, FaultKeeps DEF PortTaken
<1> QED
  BY <1>2, <1>3, <1>4, <1>5, <1>6

LEMMA DebugInvStep == DebugInv /\ [DebugNext]_debugVars => DebugInv'
<1> SUFFICES ASSUME DebugInv, [DebugNext]_debugVars
             PROVE  DebugInv'
  OBVIOUS
<1>1. CASE UNCHANGED debugVars
  <2>1. Quiet /\ UNCHANGED <<app, tree, ports, file, run, mishaps>>
    BY <1>1 DEF debugVars, Quiet
  <2>2. \A r \in Runs : Keeps(r, run[r])'
    BY <2>1, KeepsNow, QuietKeeps
  <2> QED
    BY <2>1, <2>2 DEF DebugInv, DebugTypeOK, Quiet, Python
<1>2. ASSUME NEW r \in Runs,
             \/ Begin(r) \/ Prove(r) \/ Measure(r)
             \/ Provision(r) \/ InstallRefused(r) \/ UvUnpacks(r) \/ UvEnds(r) \/ Remeasure(r)
             \/ Inject(r) \/ InjectReturns(r) \/ InjectFails(r) \/ InjectTimesOut(r)
             \/ Handshake(r) \/ Settle(r)
             \/ Emit(r) \/ Read(r) \/ Write(r) \/ Again(r)
      PROVE  DebugInv'
  BY <1>2, BeginKeeps, ProveKeeps, MeasureKeeps, InstallingKeeps, RemeasureKeeps, InjectKeeps,
     ReturnKeeps, InjectionFailsKeeps, HandshakeKeeps, SettleKeeps, EmitKeeps, ReadKeeps,
     FileWriteKeeps, AgainKeeps
<1> QED
  BY <1>1, <1>2, MishapsKeep DEF DebugNext

THEOREM DebugInvariant == DebugSpec => []DebugInv
BY DebugInvInit, DebugInvStep, PTL DEF DebugSpec

(* vscode.py, run: whoever else injects, an entry that a run of --provision  *)
(* leaves of a target nobody else disturbed names the port its server is on, *)
(* and the server answers - unless the run saw it by its port alone, and     *)
(* asked none.                                                               *)
THEOREM ProvisionedEntriesAlwaysWork == DebugSpec => []ProvisionedEntryWorks
<1>1. DebugInv => ProvisionedEntryWorks
  BY DEF DebugInv, Keeps, Opens, Provisions, Names, Unasked, ProvisionedEntryWorks
<1> QED
  BY <1>1, DebugInvariant, PTL

(* Only the step that writes the file takes a run from there to its end.     *)
LEMMA OthersLeaveTheRun ==
  ASSUME DebugInv, [DebugNext]_debugVars, NEW r \in Runs,
         run[r].pc = "write", run'[r].pc = "done"
  PROVE  Write(r)
<1>1. run \in [Runs -> Command] /\ \A x \in Runs : run[x] \in Command
  BY KeepsNow DEF DebugInv, DebugTypeOK
<1>2. \A x \in Runs \ {r} : \A c : ~Set(x, c)
  BY <1>1 DEF Set
<1>3. ASSUME NEW x \in Runs,
             \/ Begin(x) \/ Prove(x) \/ Measure(x) \/ Provision(x) \/ InstallRefused(x)
             \/ UvUnpacks(x) \/ UvEnds(x) \/ Remeasure(x) \/ Inject(x)
      PROVE  FALSE
  <2>1. \E c : Set(x, c)
    BY <1>3 DEF Begin, Prove, Measure, Provision, InstallRefused, UvUnpacks, UvEnds, Remeasure,
       Inject
  <2>2. run[x].pc # "write"
    BY <1>3 DEF Begin, Prove, Measure, Provision, InstallRefused, UvUnpacks, UvEnds, Remeasure,
       Inject
  <2> QED
    BY <1>2, <2>1, <2>2
<1>4. ASSUME NEW x \in Runs,
             \/ InjectFails(x) \/ InjectTimesOut(x) \/ Handshake(x) \/ Settle(x)
             \/ Emit(x) \/ Read(x) \/ Again(x)
      PROVE  FALSE
  <2>1. \E c : Set(x, c)
    BY <1>4 DEF InjectFails, InjectTimesOut, Handshake, Settle, Emit, Read, Again
  <2>2. run[x].pc # "write"
    BY <1>4 DEF InjectFails, InjectTimesOut, Handshake, Settle, Emit, Read, Again
  <2> QED
    BY <1>2, <2>1, <2>2
<1>5. ASSUME NEW x \in Runs, InjectReturns(x)
      PROVE  FALSE
  <2>1. run[x].pc = "injecting"
    BY <1>5 DEF InjectReturns
  <2>2. Set(x, [run[x] EXCEPT !.pc = "handshake"])
    BY <1>5 DEF InjectReturns
  <2> QED
    BY <1>2, <2>1, <2>2
<1>6. ~(WorkloadRestarts \/ AdapterWedges \/ AdapterDies \/ AppListens \/ PortTaken)
  <2>1. Fault => run'[r].pc = run[r].pc
    BY <1>1 DEF Fault, Command
  <2> QED
    BY <2>1 DEF WorkloadRestarts, AdapterWedges, AdapterDies, AppListens, PortTaken
<1>7. ASSUME NEW x \in Runs, Write(x)
      PROVE  x = r
  <2>1. \E c : Set(x, c)
    BY <1>7 DEF Write
  <2> QED
    BY <1>2, <2>1
<1>8. ~UNCHANGED debugVars
  BY DEF debugVars
<1> QED
  BY <1>3, <1>4, <1>5, <1>6, <1>7, <1>8 DEF DebugNext

(* vscode.py, run: what a run that found the target's server writes over an  *)
(* entry that reaches it is that entry.                                      *)
THEOREM WorkingEntriesAreAlwaysKept == DebugSpec => WorkingEntryKept
<1>1. ASSUME DebugInv, [DebugNext]_debugVars, NEW r \in Runs,
             run[r].pc = "write", run'[r].pc = "done", run[r].calm, run[r].found # 0,
             file[FileOf(r)][run[r].pid] # 0, Answers(file[FileOf(r)][run[r].pid])
      PROVE  file'[FileOf(r)][run[r].pid] = file[FileOf(r)][run[r].pid]
  <2> DEFINE old == file[FileOf(r)][run[r].pid]
  <2>1. /\ run[r] \in Command /\ Emits(run[r]) /\ Found(run[r])
        /\ app.adapter # 0 => Python
    BY <1>1, KeepsNow DEF Keeps, DebugInv
  <2>2. app.adapter = run[r].found /\ run[r].found = old /\ Python
    BY <1>1, <2>1 DEF Found, Answers
  <2>3. run[r].entry = old /\ run[r].entry # 0
    BY <1>1, <2>1, <2>2 DEF Emits
  <2>4. Write(r)
    BY <1>1, OthersLeaveTheRun
  <2>5. MergedEntries(r)[run[r].pid] = old
    BY <2>1, <2>3, CommandFields DEF MergedEntries
  <2> QED
    BY <1>1, <2>4, <2>5, KeepsNow, FileIsARuns DEF Write
<1>2. DebugInv /\ [DebugNext]_debugVars =>
        [\A r \in Runs :
           LET old == file[FileOf(r)][run[r].pid]
           IN  run[r].pc = "write" /\ run'[r].pc = "done" /\ run[r].calm /\ run[r].found # 0
                 /\ Live(r) /\ old # 0 /\ Answers(old)
               => file'[FileOf(r)][run[r].pid] = old]_debugVars
  BY <1>1
<1> QED
  BY <1>2, DebugInvariant, PTL DEF DebugSpec, WorkingEntryKept

-----------------------------------------------------------------------------
(* What a run concludes from its survey of the target. *)

(* An injection offered on a measured attach can be made.                    *)
LEMMA OffersArePossible ==
  ASSUME DebugInv, NEW r \in Runs, ~pod.p.here, run[r].sight.listening = 0, Offers(run[r]),
         run[r].attach = "yes", run[r].sight.dest = tree, Live(r)
  PROVE  Possible(r)
<1> DEFINE s == Seat(r)
           place == TargetDebugpy(pod.p, s, tree)
<1>1. pod.p \in Target /\ pod.s \in Looker
  BY KeepsNow, ScenarioFields
<1>2. s \in Looker /\ s.driver = pod.s.driver /\ s.shim = pod.s.shim
  BY <1>1 DEF Seat, Looker
<1>3. AssessDebugpy(pod.p, s, tree, run[r].attach, FALSE).ok
  BY DEF Offers, SeatOf, Seat
<1>4. pod.s.attachable
  BY KeepsNow DEF Keeps, Sees
<1> HIDE DEF s
<1>5. /\ s.readable /\ s.driver /\ s.shim /\ pod.p.published /\ place # "nowhere"
      /\ Tree(pod.p, s, tree, place) = "whole"
  BY <1>1, <1>2, <1>3, InjectionLacksNothing
<1>6. place \in {"dest", "venv", "system"}
  BY <1>5 DEF TargetDebugpy
<1>7. Tree(pod.p, pod.s, tree, place) = "whole"
  BY <1>5, <1>6 DEF Tree
<1> QED
  BY <1>2, <1>4, <1>5, <1>7 DEF Possible, Attaches, Loads, s

(* The entries a refusal refers to are gdb's, where it is written.           *)
LEMMA ReferencesAreWritten ==
  ASSUME DebugInv, NEW r \in Runs, NEW wanted \in SUBSET Flavour, NEW f \in wanted \ {"gdb"},
         Verdicts(r, wanted)[f].see # "none"
  PROVE  Verdicts(r, wanted)[f].see \in Emitted(Verdicts(r, wanted), wanted)
<1> DEFINE s == Seat(r)
           v == Verdicts(r, wanted)
           entry == AssessGdb(pod.p, s).ok /\ "gdb" \in wanted
<1>1. pod.p \in Target /\ s \in Looker /\ entry \in BOOLEAN
  BY KeepsNow, ScenarioFields DEF Seat, Looker
<1>2. /\ v["gdb"] = AssessGdb(pod.p, s)
      /\ v["lldb"] = AssessLldb(pod.p, s, entry)
      /\ v["delve"] = AssessDelve(pod.p, s, entry)
      /\ v["debugpy"].see = "none"
  BY DebugpyIsPythons DEF Verdicts, Assess, Flavour
<1>3. f \in {"lldb", "delve"}
  BY <1>2 DEF Flavour
<1>4. v[f].see = "gdb" /\ entry
  <2> HIDE DEF s, entry
  <2>1. CASE f = "lldb"
    BY <1>1, <1>2, <2>1, NativesPointAtGdb DEF v
  <2>2. CASE f = "delve"
    BY <1>1, <1>2, <2>2, NativesPointAtGdb DEF v
  <2> QED
    BY <1>3, <2>1, <2>2
<1> QED
  BY <1>2, <1>4 DEF Emitted

(* A runtime that shows itself is told from a native program.                *)
LEMMA RuntimesGetNoNativeEntry ==
  ASSUME DebugInv, NEW r \in Runs, NEW wanted \in SUBSET Flavour,
         pod.p.exe \in {"java", "beam"} \/ pod.p.mapped # "none"
  PROVE  Emitted(Verdicts(r, wanted), wanted)
           \subseteq IF InterpreterOf(pod.p, Seat(r)) = "python" THEN {"debugpy"} ELSE {}
<1> DEFINE s == Seat(r)
           p == pod.p
           entry == AssessGdb(p, s).ok /\ "gdb" \in wanted
<1>1. p \in Target /\ s \in Looker /\ entry \in BOOLEAN
  BY KeepsNow, ScenarioFields DEF Seat, Looker
<1>2. /\ Verdicts(r, wanted)["gdb"] = AssessGdb(p, s)
      /\ Verdicts(r, wanted)["lldb"] = AssessLldb(p, s, entry)
      /\ Verdicts(r, wanted)["delve"] = AssessDelve(p, s, entry)
      /\ Verdicts(r, wanted)["debugpy"].ok => Language(p, s) = "python"
  BY DebugpyIsPythons DEF Verdicts, Assess, Flavour
<1> HIDE DEF s, p, entry
<1>3. Exe(p, s) = "unread" \/ Language(p, s) \in Managed
  <2>1. CASE InterpreterOf(p, s) # "none"
    BY <2>1 DEF Language, InterpreterOf, Managed
  <2>2. CASE InterpreterOf(p, s) = "none" /\ s.readable
    <3>1. RuntimeOf(p, s) \in {"jvm", "erlang"}
      BY <1>1, <2>2 DEF RuntimeOf, Exe, Mapped, Target, p
    <3> QED
      BY <2>2, <3>1 DEF Language, Managed
  <2>3. CASE ~s.readable
    BY <2>3 DEF Exe
  <2> QED
    BY <1>1, <2>1, <2>2, <2>3 DEF Looker
<1>4. Language(p, s) = "python" => InterpreterOf(p, s) = "python"
  BY <1>1 DEF Language, RuntimeOf, Elf, Mapped, Target
<1>5. \A f \in {"gdb", "lldb", "delve"} : ~Verdicts(r, wanted)[f].ok
  BY <1>1, <1>2, <1>3, NativesNeedAProgram
<1> QED
  BY <1>2, <1>4, <1>5 DEF Emitted, Flavour, s, p

(* flavour.py, judge and assess: whatever became of the target since it was  *)
(* looked at, what a run offers can be done, what it refers to is written,   *)
(* and a managed runtime is told from a native program.                      *)
THEOREM SurveysAreAlwaysTrue == DebugSpec => []SurveyIsTrue
<1>1. DebugInv => OfferedInjectionIsPossible
  BY VerdictOffers, OffersArePossible DEF OfferedInjectionIsPossible
<1>2. DebugInv => EntriesNamedAreWritten
  <2> SUFFICES ASSUME DebugInv, NEW r \in Runs,
                      NEW f \in Shown(Verdicts(r, run[r].wanted), run[r].wanted,
                                      Opts(r).wanted # Flavour) \ {"gdb"},
                      Verdicts(r, run[r].wanted)[f].see # "none"
               PROVE  Verdicts(r, run[r].wanted)[f].see
                        \in Emitted(Verdicts(r, run[r].wanted), run[r].wanted)
    BY DEF EntriesNamedAreWritten
  <2>1. run[r].wanted \in SUBSET Flavour /\ f \in run[r].wanted \ {"gdb"}
    BY KeepsNow, CommandFields DEF Shown
  <2> QED
    BY <2>1, ReferencesAreWritten
<1>3. DebugInv => RuntimesAreNamed
  BY KeepsNow, CommandFields, RuntimesGetNoNativeEntry DEF RuntimesAreNamed
<1> QED
  BY <1>1, <1>2, <1>3, DebugInvariant, PTL DEF SurveyIsTrue


=============================================================================

------------------------------ MODULE SeatStart -----------------------------
(***************************************************************************)
(* A seat's start-up and the ssh wiring a laptop makes from it.            *)
(*                                                                         *)
(* `podbench agent` is the first process of a seat: it prepares the        *)
(* container for sshd step by step, no step being fatal, reports, and      *)
(* idles until it is asked to stop.  A launcher that wires ssh up asks the *)
(* running seat who it logs in as and then runs `podbench agent            *)
(* --print-host-key` in it, which goes through the SAME steps beside the   *)
(* first agent.  Seats of one pod share a home when the pod declares a     *)
(* podbench-home volume; the laptop has one known_hosts for all of them.   *)
(***************************************************************************)
EXTENDS Integers, FiniteSets

CONSTANTS Seats,
          Pods           \* the pods: their seats, the volume, and two bounds

\* uid, gid: what the container runs as.  sidecar: an ordinary container of a
\* dev pod.  init: it is pid 1 of its own namespace.  extra: the image has a
\* world-writable seat database.  taken: the login name is another uid's.
\* secret: a host key is supplied.  odd: a variable SetEnv cannot carry.
\* pinned: its spec says its uid.
Fact == [uid : Nat, gid : Nat, sidecar : BOOLEAN, init : BOOLEAN, extra : BOOLEAN,
         taken : BOOLEAN, secret : BOOLEAN, odd : BOOLEAN, pinned : BOOLEAN]

\* volume: whether there is a podbench-home and the seats can write to it.
\* wirings, faults: bounds on the ssh wirings of each seat, and on signals to
\* the seats and restarts of sidecars.
ASSUME SeatStartAssumption ==
  Pods \subseteq [seats : [Seats -> Fact], volume : {"none", "open", "closed"},
                  wirings : [Seats -> Nat], faults : Nat]

\* Seats are named after their containers; the two other names are the model's.
ASSUME SeatNamesAssumption == "volume" \notin Seats /\ "none" \notin Seats

VARIABLES
  fact, volume,   \* what the seats are; the pod's volume: "none", "open", "closed"
  rootfs,         \* each container's own files: its passwd records, privsep, ...
  home,           \* host key, authorized_keys, sshd_config, per home
  mints,          \* host keys ever made
  agent,          \* the processes: the first of each seat, and the exec'd one
  stop,           \* each first agent's _stop_requested
  report,         \* what each first agent's start-up report says it could not do
  faults,         \* signals and restarts still to come, at most
  wiring,         \* each seat's wiring: its stage, and what the launcher read
  known,          \* the laptop's known_hosts
  stanza,         \* the laptop's stanza for each seat
  steady          \* history: the home is as it was when the seat was last wired

vars == <<fact, volume, rootfs, home, mints, agent, stop, report, faults,
          wiring, known, stanza, steady>>

-----------------------------------------------------------------------------
(* Where a seat's files are. *)

Root(s) == fact[s].uid = 0
Home(s) == IF volume # "none" /\ ~Root(s) THEN "volume" ELSE s
Homes   == Seats \cup {"volume"}
Writable(s) == Home(s) # "volume" \/ volume = "open"
Owns(s, h) == Home(s) = h

NoKey  == 0
Secret == 1
HomeFiles == [private : Nat, public : Nat, keys : SUBSET Seats, config : Seats \cup {"none"}]
EmptyHome == [private |-> NoKey, public |-> NoKey, keys |-> {}, config |-> "none"]

(* The passwd databases of one container. *)
Db == {"extrausers", "passwd"}
Rootfs == [records : [Db -> Nat], privsep : BOOLEAN, open : BOOLEAN]
FreshRootfs == [records |-> [d \in Db |-> 0], privsep |-> FALSE, open |-> TRUE]

ExtrausersServes(s) ==
  /\ fact[s].uid >= 500
  /\ fact[s].gid >= 500 \/ fact[s].gid = 100
\* root, the image's records for low uids, and a projected passwd file
Provided(s) == fact[s].uid < 500 \/ fact[s].sidecar
Resolves(s) ==
  \/ Provided(s)
  \/ ExtrausersServes(s) /\ rootfs[s].records["extrausers"] > 0
  \/ rootfs[s].records["passwd"] > 0
LoginName(s) == IF Root(s) THEN "root" ELSE IF fact[s].uid < 500 THEN "baked" ELSE "podbench"

NssAppendTarget(s) ==
  IF ExtrausersServes(s) /\ fact[s].extra THEN "extrausers" ELSE "passwd"
\* the name the record would take answers already, or the file is read-only
RegistrationBlocked(s) ==
  \/ fact[s].taken \/ Resolves(s)
  \/ NssAppendTarget(s) = "passwd" /\ fact[s].gid # 0

-----------------------------------------------------------------------------
Agents == Seats \X {"first", "exec"}
Step == {"off", "home", "register", "append", "key", "confirm", "private", "public",
         "derive", "keys", "merge", "config", "end", "idle", "stopped",
         "killed"}
\* what one agent remembers: its failures, the key it mints or saw, the keys it read
Failure == {"home", "identity", "key", "keys", "config", "settings"}
Process == [pc : Step, failed : SUBSET Failure, key : Nat, read : SUBSET Seats]
Started == [pc |-> "home", failed |-> {}, key |-> NoKey, read |-> {}]
Off     == [Started EXCEPT !.pc = "off"]

Stage == {"idle", "agent", "asked", "write"}
Wiring == [stage : Stage, root : BOOLEAN, login : {"", "root", "baked", "podbench"},
           key : Nat, lines : [Seats -> Nat], left : Nat]
NotWired == [stage |-> "idle", root |-> FALSE, login |-> "", key |-> NoKey,
             lines |-> [s \in Seats |-> NoKey], left |-> 0]
Stanza == [written : BOOLEAN, refused : BOOLEAN, root : BOOLEAN, pinned : BOOLEAN,
           named : BOOLEAN, login : {"", "root", "baked", "podbench"}]
NoStanza == [written |-> FALSE, refused |-> FALSE, root |-> FALSE, pinned |-> FALSE,
             named |-> FALSE, login |-> ""]

Init ==
  /\ \E pod \in Pods :
       /\ fact = pod.seats /\ volume = pod.volume /\ faults = pod.faults
       /\ wiring = [s \in Seats |-> [NotWired EXCEPT !.left = pod.wirings[s]]]
  /\ rootfs = [s \in Seats |-> FreshRootfs]
  /\ \E kept \in IF volume = "open" THEN {NoKey, Secret + 1} ELSE {NoKey} :   \* of an earlier pod
       home = [h \in Homes |-> IF h = "volume"
                               THEN [EmptyHome EXCEPT !.private = kept, !.public = kept]
                               ELSE EmptyHome]
  /\ mints = Secret + 1
  /\ agent = [a \in Agents |-> IF a[2] = "first" THEN Started ELSE Off]
  /\ stop = [s \in Seats |-> FALSE]
  /\ report = [s \in Seats |-> {"unmeasured"}]
  /\ known = [s \in Seats |-> NoKey]
  /\ stanza = [s \in Seats |-> NoStanza]
  /\ steady = [s \in Seats |-> FALSE]

laptop == <<wiring, known, stanza>>
-----------------------------------------------------------------------------
(* ensure_all: one step after another; a step that fails is recorded. *)

Goes(a, pc) == agent' = [agent EXCEPT ![a].pc = pc]
Fails(a, step, pc) ==
  agent' = [agent EXCEPT ![a].pc = pc, ![a].failed = @ \cup {step}]
\* Somebody's write changed what the last wiring of a seat relied on.
Disturbs(changed) == steady' = [s \in Seats |-> steady[s] /\ s \notin changed]

\* home-dir, privsep-dir and nss-db-mode, which only a root seat has to narrow.
Prepared(s) == [rootfs[s] EXCEPT !.privsep = @ \/ Root(s), !.open = @ /\ ~Root(s)]

\* These touch no file another agent reads, and the login name is asked after.
EnsurePasswdEntry(a) ==
  LET s == a[1]
  IN /\ agent[a].pc = "home"
     /\ rootfs' = [rootfs EXCEPT ![s] = Prepared(s)]
     /\ agent' = [agent EXCEPT ![a].pc = IF Resolves(s) THEN "key" ELSE "register",
                               ![a].failed = IF Writable(s) THEN @ ELSE {"home"}]
     /\ UNCHANGED <<fact, volume, home, mints, stop, report, faults, laptop, steady>>

\* What blocks the registration is asked after the question whether it is
\* needed: a name that has come to resolve in between blocks it too.
Register(a) ==
  LET s == a[1]
  IN /\ agent[a].pc = "register"
     /\ IF RegistrationBlocked(s) \/ rootfs[s].records[NssAppendTarget(s)] > 0
        THEN Fails(a, "identity", "key")
        ELSE Goes(a, "append")
     /\ UNCHANGED <<fact, volume, rootfs, home, mints, stop, report, faults,
                    laptop, steady>>

AppendRecord(a) ==
  /\ agent[a].pc = "append"
  /\ rootfs' = [rootfs EXCEPT ![a[1]].records[NssAppendTarget(a[1])] = @ + 1]
  /\ Goes(a, "key")
  /\ UNCHANGED <<fact, volume, home, mints, stop, report, faults, laptop, steady>>

EnsureHostKey(a) ==
  LET s == a[1]  h == Home(s)
  IN /\ agent[a].pc = "key"
     /\ IF fact[s].secret
        THEN IF ~Writable(s) THEN Fails(a, "key", "keys") /\ UNCHANGED <<home, steady>>
             ELSE /\ home' = [home EXCEPT ![h].private = Secret]
                  /\ IF home[h].private # Secret \/ home[h].public = NoKey
                     THEN Goes(a, "derive") ELSE Goes(a, "keys")
                  /\ Disturbs({x \in Seats : Owns(x, h) /\ home[h].private # Secret})
        ELSE /\ IF home[h].private # NoKey THEN Goes(a, "keys")
                ELSE IF Writable(s) /\ Resolves(s) THEN Goes(a, "confirm")
                ELSE Fails(a, "key", "keys")
             /\ UNCHANGED <<home, steady>>
     /\ UNCHANGED <<fact, volume, rootfs, mints, stop, report, faults, laptop>>

\* ssh-keygen: a file that is there by now is not overwritten, nobody being
\* there to say yes; otherwise it writes one half of the pair, then the other.
KeygenConfirms(a) ==
  /\ agent[a].pc = "confirm"
  /\ IF home[Home(a[1])].private # NoKey THEN Fails(a, "key", "keys") ELSE Goes(a, "private")
  /\ UNCHANGED <<fact, volume, rootfs, home, mints, stop, report, faults, laptop, steady>>

KeygenPrivate(a) ==
  LET h == Home(a[1])
  IN /\ agent[a].pc = "private"
     /\ mints' = mints + 1
     /\ home' = [home EXCEPT ![h].private = mints']
     /\ agent' = [agent EXCEPT ![a].pc = "public", ![a].key = mints']
     /\ Disturbs({x \in Seats : Owns(x, h)} \ (IF a[2] = "exec" THEN {a[1]} ELSE {}))
     /\ UNCHANGED <<fact, volume, rootfs, stop, report, faults, laptop>>

KeygenPublic(a) ==
  LET h == Home(a[1])
  IN /\ agent[a].pc = "public"
     /\ home' = [home EXCEPT ![h].public = agent[a].key]
     /\ agent' = [agent EXCEPT ![a].pc = "keys", ![a].key = NoKey]
     /\ UNCHANGED <<fact, volume, rootfs, mints, stop, report, faults, laptop, steady>>

\* A derivation that fails is not recorded; it fails where nobody resolves.
DerivePublicKey(a) ==
  LET h == Home(a[1])
  IN /\ agent[a].pc = "derive"
     /\ home' = IF Resolves(a[1]) THEN [home EXCEPT ![h].public = home[h].private] ELSE home
     /\ Goes(a, "keys")
     /\ UNCHANGED <<fact, volume, rootfs, mints, stop, report, faults, laptop, steady>>

ReadAuthorizedKeys(a) ==
  /\ agent[a].pc = "keys"
  /\ agent' = [agent EXCEPT ![a].pc = "merge", ![a].read = home[Home(a[1])].keys]
  /\ UNCHANGED <<fact, volume, rootfs, home, mints, stop, report, faults, laptop, steady>>

\* The public key a seat was landed with bears the seat's name.
MergedEvicting(s, read) == {s}            \* mistaken: the file holds this attach's key
Merged(s, read) == read \cup {s}

EnsureAuthorizedKeys(a) ==
  LET s == a[1]  h == Home(s)  new == Merged(s, agent[a].read)
  IN /\ agent[a].pc = "merge"
     /\ IF Writable(s)
        THEN /\ home' = [home EXCEPT ![h].keys = new]
             /\ agent' = [agent EXCEPT ![a].pc = "config", ![a].read = {}]
             /\ Disturbs(home[h].keys \ new)
        ELSE /\ agent' = [agent EXCEPT ![a].pc = "config", ![a].read = {},
                                       ![a].failed = @ \cup {"keys"}]
             /\ UNCHANGED <<home, steady>>
     /\ UNCHANGED <<fact, volume, rootfs, mints, stop, report, faults, laptop>>

\* The config carries the seat's own environment into its sessions; it is
\* written, and then a variable it cannot carry is a failure.  The editor's
\* and git's settings go to files no other step reads.
ConfigFails(s) == (IF fact[s].odd \/ ~Writable(s) THEN {"config"} ELSE {}) \cup
                  (IF ~Writable(s) THEN {"settings"} ELSE {})

EnsureSshdConfig(a) ==
  LET s == a[1]
  IN /\ agent[a].pc = "config"
     /\ home' = IF Writable(s) THEN [home EXCEPT ![Home(s)].config = s]
                ELSE home
     /\ agent' = [agent EXCEPT ![a].pc = "end", ![a].failed = @ \cup ConfigFails(s)]
     /\ UNCHANGED <<fact, volume, rootfs, mints, stop, report, faults, laptop, steady>>

-----------------------------------------------------------------------------
(* _run: what each of the two agents does then. *)

\* The first agent reports and goes on to idle whatever failed.  There it
\* clears its flag, and from then on it hears signals.
StartUpReportFatal(a) ==                   \* mistaken: a start-up that failed ends it
  /\ a[2] = "first" /\ agent[a].pc = "end"
  /\ report' = [report EXCEPT ![a[1]] = agent[a].failed]
  /\ stop' = [stop EXCEPT ![a[1]] = FALSE]
  /\ agent' = [agent EXCEPT ![a].pc = IF agent[a].failed = {} THEN "idle" ELSE "stopped",
                            ![a].failed = {}]
  /\ UNCHANGED <<fact, volume, rootfs, home, mints, faults, laptop, steady>>
StartUpReport(a) ==
  /\ a[2] = "first" /\ agent[a].pc = "end"
  /\ report' = [report EXCEPT ![a[1]] = agent[a].failed]
  /\ stop' = [stop EXCEPT ![a[1]] = FALSE]
  /\ agent' = [agent EXCEPT ![a].pc = "idle", ![a].failed = {}]
  /\ UNCHANGED <<fact, volume, rootfs, home, mints, faults, laptop, steady>>

\* With the first process its container ends, and whatever was exec'd in it.
Ended(s, pc) == agent' = [agent EXCEPT ![<<s, "first">>].pc = pc, ![<<s, "exec">>] = Off]

StopIdling(a) ==
  /\ agent[a].pc = "idle" /\ stop[a[1]]
  /\ Ended(a[1], "stopped")
  /\ UNCHANGED <<fact, volume, rootfs, home, mints, stop, report, faults, laptop, steady>>

(* The container around it. *)

Running(s) == agent[<<s, "first">>].pc \notin {"stopped", "killed"}

\* SIGTERM: without a handler pid 1 does not get it and anybody else dies of it.
Terminate(s) ==
  /\ Running(s) /\ faults > 0
  /\ faults' = faults - 1
  /\ IF agent[<<s, "first">>].pc = "idle"
     THEN stop' = [stop EXCEPT ![s] = TRUE] /\ UNCHANGED agent
     ELSE ~fact[s].init /\ Ended(s, "killed") /\ UNCHANGED stop
  /\ UNCHANGED <<fact, volume, rootfs, home, mints, report, laptop, steady>>

\* An ordinary container comes back with a fresh file system; a volume stays.
Restart(s) ==
  /\ fact[s].sidecar /\ faults > 0
  /\ faults' = faults - 1
  /\ rootfs' = [rootfs EXCEPT ![s] = FreshRootfs]
  /\ home' = [home EXCEPT ![s] = EmptyHome]
  /\ agent' = [agent EXCEPT ![<<s, "first">>] = Started, ![<<s, "exec">>] = Off]
  /\ stop' = [stop EXCEPT ![s] = FALSE]
  /\ report' = [report EXCEPT ![s] = {"unmeasured"}]
  /\ Disturbs({s})
  /\ UNCHANGED <<fact, volume, mints, laptop>>

-----------------------------------------------------------------------------
(* The launcher: emit_ssh_config. *)

At(s, stage) == wiring[s].stage = stage

Wired(s) == [NotWired EXCEPT !.left = wiring[s].left - 1]

\* probe_seat_credentials and probe_ssh_identity, either of which may get no
\* answer.  The uid is then the pinned one; a seat that says it resolves to
\* nobody gets no stanza.
Probe(s) ==
  /\ At(s, "idle") /\ Running(s) /\ wiring[s].left > 0
  /\ \E measured, answered \in BOOLEAN :
       IF answered /\ ~Resolves(s)
       THEN /\ wiring' = [wiring EXCEPT ![s] = Wired(s)]
            /\ stanza' = [stanza EXCEPT ![s].refused = TRUE]
       ELSE /\ wiring' = [wiring EXCEPT ![s].stage = "agent",
                 ![s].root = Root(s) /\ (measured \/ fact[s].pinned),
                 ![s].login = IF answered THEN LoginName(s) ELSE ""]
            /\ UNCHANGED stanza
  /\ UNCHANGED <<fact, volume, rootfs, home, mints, agent, stop, report, faults, known, steady>>

MidKey(h) == \E b \in Agents : Owns(b[1], h) /\ agent[b].pc \in {"confirm", "private", "public", "derive"}

Whole(h)  == home[h].private = home[h].public

\* `podbench agent --print-host-key` in the seat: ensure_all, and the key it reads.
RunAgent(s) ==
  /\ At(s, "agent")
  /\ wiring' = [wiring EXCEPT ![s].stage = "asked"]
  /\ IF Running(s)
     THEN /\ agent' = [agent EXCEPT ![<<s, "exec">>] = Started]
          /\ steady' = [steady EXCEPT ![s] = ~MidKey(Home(s)) /\ Whole(Home(s))]
     ELSE UNCHANGED <<agent, steady>>
  /\ UNCHANGED <<fact, volume, rootfs, home, mints, stop, report, faults,
                 known, stanza>>

\* The exec'd agent prints the key, or has died; the launcher reads its file.
PrintHostKey(s) ==
  LET a == <<s, "exec">>
  IN /\ At(s, "asked") /\ agent[a].pc \in {"end", "off"}
     /\ agent' = [agent EXCEPT ![a] = Off]
     /\ wiring' = [wiring EXCEPT ![s].stage = "write", ![s].lines = known,
                      ![s].key = IF agent[a].pc = "end" THEN home[Home(s)].public ELSE NoKey]
     /\ UNCHANGED <<fact, volume, rootfs, home, mints, stop, report, faults, known, stanza, steady>>

HostKeyAliasPod(s) == CHOOSE x \in Seats : TRUE     \* mistaken: an alias for the pod
HostKeyAlias(s) == s

\* write_known_hosts: every other line of the file as it was read, and this one.
WriteKnownHosts(lines, s, key) ==
  IF key = NoKey THEN known ELSE [lines EXCEPT ![HostKeyAlias(s)] = key]

\* The pin, and the stanza: the login the seat named, else the one its uid suggests.
WriteStanza(s) ==
  LET w == wiring[s]
  IN /\ At(s, "write")
     /\ known' = WriteKnownHosts(w.lines, s, w.key)
     /\ Disturbs({x \in Seats \ {s} : known'[x] # known[x]})
     /\ stanza' = [stanza EXCEPT ![s] =
          [written |-> TRUE, refused |-> FALSE, root |-> w.root, pinned |-> w.key # NoKey,
           named |-> w.login # "",
           login |-> IF w.login # "" THEN w.login ELSE IF w.root THEN "root" ELSE "podbench"]]
     /\ wiring' = [wiring EXCEPT ![s] = Wired(s)]
     /\ UNCHANGED <<fact, volume, rootfs, home, mints, agent, stop, report, faults>>

Ensures(a) ==
  \/ EnsurePasswdEntry(a) \/ Register(a) \/ AppendRecord(a)
  \/ EnsureHostKey(a) \/ KeygenConfirms(a) \/ KeygenPrivate(a) \/ KeygenPublic(a)
  \/ DerivePublicKey(a) \/ ReadAuthorizedKeys(a) \/ EnsureAuthorizedKeys(a)
  \/ EnsureSshdConfig(a) \/ StartUpReport(a)
  \/ StopIdling(a)
Wires(s) == RunAgent(s) \/ PrintHostKey(s) \/ WriteStanza(s)

Next ==
  \/ \E a \in Agents : Ensures(a)
  \/ \E s \in Seats : Wires(s) \/ Probe(s)
  \/ \E s \in Seats : Terminate(s) \/ Restart(s)

\* An agent and a launcher that can go on do; nobody has to stop or to wire.
\* Each runs only so many steps, so no other's steps keep one from its own.
Fairness ==
  /\ WF_vars(\E a \in Agents : Ensures(a))
  /\ WF_vars(\E s \in Seats : Wires(s))

Spec == Init /\ [][Next]_vars /\ Fairness

-----------------------------------------------------------------------------
(* Properties. *)

TypeOK ==
  /\ fact \in [Seats -> Fact] /\ volume \in {"none", "open", "closed"}
  /\ rootfs \in [Seats -> Rootfs]
  /\ home \in [Homes -> HomeFiles]
  /\ mints \in Nat
  /\ agent \in [Agents -> Process]
  /\ stop \in [Seats -> BOOLEAN]
  /\ report \in [Seats -> (SUBSET Failure) \cup {{"unmeasured"}}]
  /\ faults \in Nat
  /\ wiring \in [Seats -> Wiring]
  /\ known \in [Seats -> Nat]
  /\ stanza \in [Seats -> Stanza]
  /\ steady \in [Seats -> BOOLEAN]

\* What an ssh to the seat needs of the laptop's files and of the seat's.
Connects(s) ==
  LET h == home[Home(s)]
  IN /\ stanza[s].root = Root(s) /\ h.config # "none"
     /\ Resolves(s) /\ stanza[s].login = LoginName(s)
     /\ s \in h.keys
     /\ known[s] = h.private
     /\ Root(s) => rootfs[s].privsep /\ ~rootfs[s].open

\* A seat whose start-up reported no failure, wired by a launcher that got its
\* answers and found no half-made key pair, lets its user in for as long as
\* nobody mints another key, drops the user's or the pin, or restarts it:
\* whatever the first agent and the exec'd one, of this seat and of those it
\* shares a home with, did to each other.
ReadySeatConnects ==
  \A s \in Seats :
    /\ At(s, "idle") /\ stanza[s].written /\ stanza[s].pinned /\ stanza[s].named
    /\ fact[s].pinned \/ ~Root(s)
    /\ report[s] = {} /\ steady[s]
    => Connects(s)

\* Both files that are merged lose an entry only to a writer that had read the
\* file before the entry was there ("without evicting anyone").
MergesKeepWhatTheyRead ==
  [][/\ \A h \in Homes : \A s \in home[h].keys \ home'[h].keys :
          \/ faults' # faults
          \/ \E a \in Agents : Owns(a[1], h) /\ agent[a].pc = "merge" /\ s \notin agent[a].read
     /\ \A s \in Seats : known[s] # NoKey /\ known'[s] # known[s] =>
          \E x \in Seats : At(x, "write") /\ (x = s \/ wiring[x].lines[s] # known[s])]_vars

\* A first agent idles in the end whatever failed, unless a signal kills it on
\* the way or stops it there; one that hears a signal stops; a wiring ends.
Settled(s) ==
  LET pc == agent[<<s, "first">>].pc
  IN /\ pc \in {"idle", "stopped", "killed"}
     /\ pc = "idle" => ~stop[s]
     /\ pc = "stopped" => stop[s]
     /\ At(s, "idle")
EveryoneIsAnswered == <>[](\A s \in Seats : Settled(s))

=============================================================================

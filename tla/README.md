# podbench, verified

TLA+ models of podbench, TLC runs that check them on small clusters, and TLAPS
proofs of what holds on all of them. Paths are relative to the repository root;
the program is `src/podbench/`.

podbench lands *seats* — ephemeral debug containers with an ssh agent in them —
in pods of a Kubernetes cluster whose policies it does not control, and builds a
development loop (dev pods, hotfixes), debugger configurations and an editor on
top. Its central difficulty is that an ephemeral container can be neither changed
nor removed for the life of its pod, and that everything podbench does to a
workload is done to somebody's running program: every wrong guess costs a name, a
seat or a service.

## 1. Inventory

| Component | State it keeps | Operations | Talks to | Model |
|---|---|---|---|---|
| **attach** (`launcher.py` 1640–3334) | nothing of its own: the pod is the state | `attach`, `_walk_ladder`, `_dry_run_rung`, `running_seat`, `id_correction` | API server through `kubectl.py`, the seat through exec | `Attach`, `Rungs` |
| **kubectl** (`kubectl.py`) | conflict attempts, deadlines | `add_ephemeral_container`, `wait_for_ephemeral_container`, `next_container_name`, `whoami` | API server, kubelet | in `Attach` |
| **spec** (`spec.py`) | – (pure) | security contexts, ids, admission comparison | – | `Rungs` |
| **model** (`model.py`) | – (pure) | `Rung`, `measured_rung`, `measured_verdict` | – | `Rungs`, `CapReport` |
| **dev loop** (`dev.py` 300–1070) | a state file, a detached child, a port | `start`, `stop`, `verify_listener` | `/proc`, `ss`, signals | `RunLoop` |
| **dev pod** (`dev.py` 1100–1740) | a cloned pod whose annotation records a borrowed Service selector; a stanza and a host key on the laptop | `create_dev_pod`, `seat_ssh_config`, `delete_dev_pod` | API server, the user's `~/.podbench` | `DevPod` |
| **hotfix loop** (`hotfix.py` 3034–3700) | a pid file, a hold file, the working tree | the supervisor's shell loop, `restart_app`, `HOLD_AND_RELAUNCH`, the wrapped probe | the application container | `HotfixLoop` |
| **hotfix claim** (`hotfix.py`, the rest) | a PersistentVolumeClaim, its checkout and its manifest | `preflight`, `init`, `retirement`, `_delete_claim` | API server, the seat, git, uv | `HotfixClaim` |
| **resize** (`resize.py`) | the pod's resources | `plan_resize`, `try_resize`, `editor_limit`, `headroom_note` | API server, LimitRanges, kubelet | `Resize` |
| **agent** (`agent.py`) | passwd line, host key, authorized_keys, sshd_config | `ensure_all`, `idle`, `--print-host-key` | files of the seat and of a home several seats share | `SeatStart` |
| **ssh wiring** (`launcher.py`, `sshcfg.py`) | known_hosts, stanza files | `emit_ssh_config`, `write_known_hosts` | the seat, the user's `~/.ssh` | `SeatStart`, `DevPod` |
| **debug** (`flavour.py`, `execfile.py`, `provision.py`, `dap.py`) | a debugpy copy in the target, an adapter beside it | `assess`, `provision`, `inject_debugpy`, DAP `initialize` | the target process, gdb, uv | `Flavours`, `DebugConfig` |
| **vscode** (`vscode.py`) | `launch.json` of the seat | `debug-config`: survey, provision, emit, merge | the target | `DebugConfig` |
| **editor** (`editor.py`, `launcher.py` 7115–7300) | the machine settings and extensions in the seat's home | `vscode_command`, `open_seat`, `_machine_settings`, `_verify_installed` | ssh, `code` on the laptop | `Editor` |
| **probe and verdict** (`probe.py`, `proc.py`) | – | ptrace attach/detach, `derive_verdict`, `_classify_denial` | the kernel | `CapReport` |
| **probe budgets** (`budget.py`), OCI lookup, charts, image, scripts, bridge extension | – | a sum; I/O; templates | – | not modelled, see section 7 |

What is hard in it, and what makes each part correct:

* **attach** interleaves with other people's attaches, with the kubelet, with
  admission policies that refuse *or rewrite*, and with the pod being replaced.
  It must not spend more names than it has to, hand nobody somebody else's seat,
  never submit what the node is bound to refuse, never claim more than the kernel
  grants, and end.
* **dev loop** must end with exactly one listener and a record of the child it
  started, across crashes between spawn and record, pid reuse and two runs at once.
* **dev pod** borrows a Service's selector and must be able to give it back exactly;
  each of its calls can be the last, and nothing but the pod's annotation remembers.
  The Service must never select nothing, and the ssh wiring must last as long as the pod.
* **hotfix loop**: one script kills the application under a supervisor that would
  otherwise end the container, and every seat with it. The hold must be there
  before the kill and gone after it, whoever else restarts, crashes or forks.
* **hotfix claim** is seeded in many calls, each of which can be the last, and a copy
  goes on after its call was given up. A manifest must vouch for a whole claim, and a
  claim must not be deleted under a pod that mounts it, or be reported gone when a
  read was only refused.
* **resize** plans on one reading of the pod and its LimitRanges and is admitted on
  another; an editor raises limits by itself and may not ratchet.
* **agent** and **ssh wiring** run the same start-up twice in one container, and in
  several containers on one home; what the laptop pins must be what sshd serves.
* **debug and vscode** stop a live process, may find its port taken, and write an
  entry that is read long afterwards.
* **probe** must name what said no, though it reads one thing after another of a
  process that others debug, and must leave the workload running.
* **editor** rewrites a settings file whose absence lets a search walk the whole
  root of a production container, over connections that break.

`PROJECT.json` lists the hazards with the line where each bites.

## 2. The modules

| Module | What it is |
|---|---|
| `Rungs` | The pure decisions of attach: the ladder, the context of each rung, admission, runAsNonRoot, the plan, the next free name, which seat a reconnect is offered, the label, the id correction. |
| `Attach` | The state machine: launchers run `attach` against one pod. |
| `SeatLedger` | The abstract specification: a ledger of names, each stamped once with an owner and a key, and launchers that settle on a name and are given it. |
| `RunLoop` | `podbench run` and `podbench stop` in a dev pod: the record, the pids, the port. |
| `DevPod` | `podbench dev`, `--cutover` and `--delete`: the pods, the Services and the laptop's ssh wiring. |
| `HotfixLoop` | `hotfix restart` against the supervisor of a hotfixed container. |
| `HotfixClaim` | `hotfix check`, `init`, `retire` and `--delete` against one claim. |
| `Resize` | `attach --resize` and the raise `podbench vscode` makes for itself. |
| `SeatStart` | `podbench agent` as PID 1 and exec'd, and the ssh wiring made from it. |
| `Flavours` | What a survey learns of a process and the verdict per debugger: pure operators. |
| `DebugConfig` | `debug-config`, with `--provision`, on top of `Flavours`. |
| `CapReport` | `capreport`: the choice of a process, its readings, the attempts, the verdict. |
| `Editor` | `podbench vscode` from the landed seat to the open window. |
| `MC*` with `MC*.cfg` | The instances TLC checks. |
| `AttachProofs` | Lemmas and theorems about `Rungs` and `Attach`. |
| `RunLoopProofs`, `DevPodProofs`, `HotfixLoopProofs`, `HotfixClaimProofs`, `CapReportProofs` | Theorems about the module each is named for. |
| `EditorProofs` | Theorems about `Editor` and about `Resize`, which `podbench vscode` does before it opens the editor. |
| `SeatProofs` | Theorems about what runs in a seat: `SeatStart`, and `DebugConfig` with `Flavours`. |

The systems compose by what one promises another, not by shared variables. `Attach`
promises a running seat with ids; `SeatStart` starts from such a seat, with any ids
the ladder gives; `CapReport` is the measurement `Attach` treats as an oracle
(`Probed`); `DebugConfig` starts from a seat of any capability; `Editor` starts from a
wired seat; `Resize` is what happens before it lands; `HotfixLoop` and `HotfixClaim`
meet in the working tree, which is a revision in the one and a set of items in the
other; and a dev pod's sidecar is, to `Attach`, a seat that is always there.

Some definitions are followed or preceded by one of the same shape that a comment calls
*mistaken* — a plausible error in the same place, against which the property is
tried: each property fails on some mistaken definition (`PROJECT.json`, `mutants`).

### Attach and the code

| State | Code |
|---|---|
| `pod`, `policy` | the pod's manifest and its processes; the cluster's admission chain (external) |
| `seats`, `status` | `spec.ephemeralContainers` and `status.ephemeralContainerStatuses` |
| `incarnation` | the pod's uid, as far as it tells two pods of one name apart |
| `pc`, `want`, `request` | where `attach` is; its arguments now and when first called |
| `walk` | the locals of `_walk_ladder` and of `add_ephemeral_container` |
| `hand` | the seat whose credentials are being read |
| `session` | the `Session` returned, or the error |
| `tally`, `begun`, `faults`, `calm`, `plain`, `corrects` | history and bounds; nothing reads them but properties and bounds |

`seats` and `status` are written by the environment and by two actions only,
`PutAccepted` and `PutLost`. A launcher step is **one API call and the decisions
made on its answer**. `attach` is recursive to depth two; the inner call (the id
correction, `correct_ids=False`) replaces `want` and starts over at `read`, which
is exactly what `Session` the outer call returns.

| Action | Code |
|---|---|
| `Begin`, `Reconnect`, `StartWalk` | `attach`: read the pod, decide on reuse |
| `TryRung`, `NoRungAdmitted` | `_walk_ladder` with `_dry_run_rung` |
| `GetSubresource`, `PutConflicts`, `PutInvalid`, `PutDenied`, `PutAccepted`, `PutLost` | `Kubectl.add_ephemeral_container`, each answer an action |
| `WaitRunning`, `WaitRefused`, `WaitTimesOut` | `Kubectl.wait_for_ephemeral_container` |
| `Probed`, `Unprobed`, `Correct` | `attach`: capreport, label, `id_correction` |
| `CallFails` | any other `KubectlError`, or the user's ^C |
| `KubeletStarts`, `KubeletRefusesIt`, `SeatExits`, `OtherWrite`, `PodReplaced` | the node and other writers (external) |

A launcher that has timed out never looks at its container again; the container
may still start. A PUT stored whose answer is lost (`PutLost`) is a failure to
the launcher and a seat in the pod.

**Abstractions.** Ids are small integers with `NoId` for an absent one; a key, an
owner and a container are names. The admission chain is a record of what
`_dry_run_rung` can tell apart: denies ptrace, denies a gid, strips the
capability, adds runAsNonRoot, rewrites the group, does not serve dry runs. It is
constant: one that changes between the rehearsal and the PUT is not modelled. A
dev pod's sidecar always runs. Exec into a container that is not running fails.

### RunLoop and the code

| State | Code |
|---|---|
| `proc`, `births` | the pod's process table: start time, zombie or not, the port and SO_REUSEPORT, a pending SIGKILL (external) |
| `record` | the state file on the workspace volume |
| `pc`, `verb`, `held`, `child` | where a command is; the `RunState` it loaded; the one it makes |
| `seen` | the socket `ss` attributed to the child, which `verify_listener` looks up in `/proc/<pid>/fd` |
| `looked`, `careful`, `calls`, `crashes`, `of` | history and bounds |

| Action | Code |
|---|---|
| `LoadState`, `Look`, `Term`, `GraceOver`, `Kill`, `ClearState` | `stop`, a look at `/proc` or a signal each |
| `Preflight`, `Spawn`, `Snapshot`, `SaveState` | `start` up to `save_state` |
| `Verify`, `Ss`, `Inode` | the verify loop with `verify_listener` |
| `Crash` | the command is killed, or ^C |
| `Bind`, `Exit`, `Reap`, `OtherStarts` | the kernel, the children and the pod's other containers (external) |

`run` is `stop` and then `start` in one command, so `Stopped` goes on to the
pre-flight. The times between a look and a signal, and between the spawn and the
record, are where everything else may happen: a process exits, is reaped, and
its pid comes round again. A record that cannot be parsed is no record, as in
`from_json`, so a write of the file cut off half-way is a crash before it. Worker
processes of the application are left out: a child is one process. `ss` may fail
at every use; `/proc` does not.

### DevPod and the code

| State | Code |
|---|---|
| `pods` | the pods by name: whether labelled `podbench.dev/devpod`, their phase, and the cutover annotations (`service`, `recorded`); uid 0 is a pod that was there from the start |
| `selector` | `spec.selector` of each Service, a selector being a value |
| `stanza`, `pinned` | the files under `config.d` by pod name, with the uid they speak to; the uids in `known_hosts` |
| `pc`, `command`, `body` | where a command is; its arguments; the manifest it authors, or the pod it read |
| `outcome`, `runs`, `uids`, `faults`, `owner`, `tampered`, `dark` | how the last command ended; bounds and history |

| Action | Code |
|---|---|
| `ReadOrigin`, `ReadService`, `Submit`, `Wait`, `Patch` | `create_dev_pod`, an API call each |
| `Identify`, `WriteKnownHosts`, `WriteSshConfig` | `seat_ssh_config`, `emit_ssh_config` |
| `GetPod`, `Restore`, `DeletePod`, `ForgetSshConfig` | `delete_dev_pod` |
| `Begin`, `Fail` | the command line; a `KubectlError`, or the command is killed |
| `PodStarts`, `PodEnds`, `PodGone`, `OwnerWrites` | the kubelet, other users, the Service's owner (external) |

A write either happens and is answered, happens and is reported as failed
(`Answered`), or does not happen (`Fail`). `tampered` collects the Services whose
loan somebody interfered with: the recording pod was taken away, the owner wrote the
selector while it was on loan, or it was borrowed twice; nothing is promised of those.
`--delete` takes a reference; the model takes the name `_delete_target` makes of it.
`--take-traffic` and a pod's Terminating phase are left out, a request the API server
holds back until after its sender has given up is too, and GitOps lookups either
answer or fail, which `gitops_manager` reads as unmanaged.

### HotfixLoop and the code

| State | Code |
|---|---|
| `launches`, `group`, `port` | the application: per turn of the loop a wrapper and the worker it forks, whether the claim's python was put on PATH, the revision loaded; the worker's process group; who has the port (external) |
| `sup`, `boots` | the next command of `hold_loop_args`' shell; starts of the container |
| `pidfile`, `hold` | `HOTFIX_CHILD_PID_PATH`, `HOTFIX_HOLD_PATH` |
| `tree` | the revision in the claim's checkout |
| `pc`, `child`, `doomed`, `report` | `restart_app` and its script: the pid read, the tree found, the result |
| `base`, `whole`, `late`, `overlapped`, `exits`, `kills`, `calls` | history and bounds |

| Action | Code |
|---|---|
| `Fork`, `RecordChild`, `Wait`, `Reap`, `RelaunchHeld`, `ExitUnheld` | the supervisor's loop, a command each |
| `ProbeFails` | the kubelet and `wrapped_liveness_probe` |
| `Begin`, `RequireSupervisor`, `ReinstallFails` | `restart_app` before its exec |
| `TakeHold`, `CollectTree`, `KillTree`, `PidChanged`, `PollRunsOut`, `Release` | `HOLD_AND_RELAUNCH` |
| `ScriptKilled`, `HoldExpires`, `WorkerStarts`, `ExitsAlone`, `WrapperFollows`, `Seed`, `Edit` | SIGKILL, time, the application and the people who edit it (external) |

The application is two processes because the code's tree kill is about the second:
a worker whose wrapper is gone is PID 1's child and in no tree. `KillTree` is SIGTERM and
the SIGKILL five seconds later in one step. What `restart_app` reads of git and of the
pid file for its report is left out, and of `--reinstall` only that it may fail.

### HotfixClaim and the code

| State | Code |
|---|---|
| `image`, `wired`, `spare`, `seat`, `rooted` | what the image ships and is labelled with; which parts of the wiring the pod carries; another pod on the claim; a seat, and whether it sees the target's root (external) |
| `pvc`, `files` | the claim object; what is on it: items copied and the venv rebuilt (`has`), what is there only in part (`half`), the manifest |
| `detached` | what copies and uv go on with after `POD_WORK_TIMEOUT` gave them up |
| `pc`, `asked`, `todo`, `held`, `outcome` | where a command is, its flags, the copy it has left, what `retire` has read, how it ended |
| `foretold`, `steady`, `overlapped`, `calls`, `deploys`, `faults` | what `hotfix check` would have said as the command began; history and bounds |

| Action | Code |
|---|---|
| `BeginInit`, `Land`, `Gate`, `Look` | `init`: the seat, `require_supervisor`, the mount, the source, is it seeded |
| `CopyEntry`, `Copied`, `CopyInterpreter` | the seed, an entry at a time |
| `Checkout`, `Install`, `Write`, `InitFails` | clone, `uv sync`, `write_manifest`, any call that fails |
| `BeginRetire`, `ReadManifest`, `ReadClaim` | `retirement` and `claim_state` |
| `AskHolders`, `Delete`, `Deleted`, `RetireFails` | `_pods_mounting`, `_delete_claim` |
| `Deploy`, `Finalise`, `CopyGoesOn` | other people's deployments; Kubernetes' protection of a mounted claim; a copy or a uv nobody waits for (external) |

The operator `Preflight` is `hotfix check` in one reading; it is evaluated as each
init begins, so that the two can be compared. The manifest keeps what a property tells apart:
image, repository, whether the base commit is assumed. An init reaches the claim through a
seat (`PodStore`, the operator `Reached`); a deployment replaces the pod, so that its
seats and whatever works in them end with it (`Replaced`), and an init that was
in flight goes on to fail at its next call. What is cut short, by that or by itself, may leave
what it was at in part (`Cut`): a project whose first file is there, an interpreter with its
`bin/python3`, half a venv. `test -e` and `ls` take such a part for the whole (`There`), as the code
does, and `Install` runs on it. The image an init speaks of is the one
whose pod it resolved as it began. The Helm snippet, the text
of every row and `hotfix status`'s git summary are left out.

### Resize and the code

`spec`, `cgroup`, `used`, `claims` and `ranges` are the pod as stored, as actuated, its
use, its resource claims and the namespace's LimitRanges (external); `run` is a run's
locals. `Begin`, `EditorMemory`, `GetPod`, `Plan`, `PatchAccepted`, `PatchRefused`,
`ReadFails` and `OpenEditor` are `_land` with `editor_limit`, `measure_headroom`,
`plan_resize`, `try_resize` and `headroom_note`, one API call each; `Regenerated` is
the pod's controller, `Actuated` the kubelet. A quantity is a small natural and
0 an absent one; `Merged`, `QosClass` and `Refusals` are the API server's side, and
so is what a stored pod satisfies: it is within its LimitRanges (`Within`), and a
request nobody states is its limit (`Defaulted`).
A run may plan with LimitRanges it could not read, a patch may be stored and its
answer lost, and a metrics server may not answer.

### SeatStart and the code

| State | Code |
|---|---|
| `fact`, `volume` | what each seat runs as and what its image has; the pod's `podbench-home` (external) |
| `rootfs`, `home` | the passwd records, privsep directory and modes of a container; host key halves, authorized_keys and sshd_config of a home |
| `agent`, `stop`, `report` | the first agent of each seat and the exec'd one; `_stop_requested`; what start-up reported |
| `wiring`, `known`, `stanza` | where `emit_ssh_config` is and what it read; known_hosts; the stanza |
| `mints`, `steady`, `faults` | history and bounds |

`EnsurePasswdEntry` to `EnsureSshdConfig` are the steps of `ensure_all`, split where
another agent may read in between: the passwd record's check and append, ssh-keygen's question and
its two writes, the derivation of a public half, the read and write of
authorized_keys. `StartUpReport`, `StopIdling`, `Terminate` and `Restart` are
`_run`, `idle`, a signal and an ordinary container that comes back. `Probe`, `RunAgent`,
`PrintHostKey` and `WriteStanza` are the launcher. Zombie reaping, the debuginfod
probe, a settings file a user has broken, git's settings and the self-check are left out.

### Flavours, DebugConfig and the code

`Flavours` has no state: records of a process and of a seat go in, `Language`,
`TargetDebugpy`, `PtraceEvidence` and the four `Assess*` come out as in `flavour.py`
and `execfile.py`; `Shown` and `Emitted` are what `vscode.py` makes of them.
In `DebugConfig`, `app` is the process with its adapter, `tree` what stands at the
provisioning destination, `ports` who else holds a port, `file` the debugpy entries of each
`launch.json`, `run` a command's locals, `mishaps` how many faults have happened. A scenario (`Scenarios`, of
the types `Target`, `Looker` and `Options`) fixes the process, the seat and the commands' options.

| Action | Code |
|---|---|
| `Begin`, `Prove`, `Measure` | `debug-config`: the adapter by parentage, its handshake, `judge` |
| `Provision`, `InstallRefused`, `UvUnpacks`, `UvEnds`, `Remeasure` | `provision`: the decision, uv, the second look |
| `Inject`, `InjectReturns`, `InjectFails`, `InjectTimesOut` | `inject_debugpy` under `timeout` |
| `Handshake`, `Settle`, `Emit`, `Read`, `Write`, `Again` | the DAP `initialize`, what is withheld, the merge of `launch.json` |
| `WorkloadRestarts`, `AdapterWedges`, `AdapterDies`, `AppListens`, `PortTaken` | the workload and its neighbours (external) |

Left out: second candidate processes, a `--program` of the user's own, the layout of a
configuration and its path mappings, staging of executables, how long uv takes, and
what a dev pod's seat launches beyond the verdict.

### CapReport and the code

`proc` is the kernel's side of each process (alive, traced by whom, stopped) and the operators
under *The kernel* say what it permits (external: `__ptrace_may_access`, Yama,
filters, LSMs). `probe` holds what one `capreport` has measured. Its
actions are the calls of `probe()`: `discover_target`, `ReadStatus`,
`proc_read_matrix`, `attach_child`, then either the seizing child (`Seize`,
`SeizeDenied`, `SeizerExits`) or, where that is not answered, the stopping call
(`Attach`, `AttachDenied`, `Detach`, `DetachFails`, `_resume`), then `Report`.
`derive_verdict` and `_classify_denial` are operators, and so are the launcher's
`measured_verdict` and `features`. Left out: seccomp modes that kill, user
namespaces and dumpability, signals trapped while seized, the report's wording.

### Editor and the code

`home` is `~/.vscode-server` — settings file, extensions, server — and `verb` one
invocation after its seat has landed. `vscode_command` is every check of that function and
of `open_seat` before anything travels; then `check_reachable`, `_author`,
`ReadSettings`, `Truncate`, `WriteSettings` (`cat >` is two steps: the
remote shell opens the file and truncates it, and the content goes into what it opened: over
what another writer has put there meanwhile, or nowhere if the file has left the path),
`InstallLocally`, `Verify`,
`OpenWindow`, `_server_cli`, `InstallThrough`, `Reverify`. `Connect` is VS Code,
`KillServer`, `UserSaves` and `SeatDies` are the user and the cluster (external). A
settings file is the set of keys a property tells apart; of a text written over a longer one a
tail stays, which is taken not to parse and to exclude nothing, the worst of what VS Code may
make of it. A connection that is cut is taken to end `cat` with it. Left out: passphrase
prompts, which of several servers the CLI picks, the individual exclude patterns, the
wording, and a dev pod's sidecar as the seat.

## 3. The runs

| Run | Instance | Shows |
|---|---|---|
| `attach_alone` | 1 person, 2 attaches, 12 pods, 9 policies, 11 command lines, 1 fault anywhere | names are spent only where promised; stored seats run; rungs are honest; the next attach is free |
| `attach_race` | 2 people, 1 fault, with and without `--new`, fair | each is handed its own; `Attach` implements `SeatLedger`; every attach ends |
| `run_loop` | 1 caller, 2 commands, 3 births on 2 pids, 1 killed command, fair | no child is forgotten, one version serves, signals are aimed, what was stopped ends, commands end |
| `dev_pod` | 1 laptop, 3 commands, 4 pod names, 1 Service, 2 faults anywhere | a borrowed selector can be given back, a borrowed Service is served, a finished teardown is complete and an unfinished one keeps the stanza |
| `hotfix_loop` | 2 terminals with 1 restart each, 3 launches, 2 starts of the container, 1 edit, 1 fault, fair | a hold has a script and ends; nothing old serves; what runs is what was saved; seats survive |
| `hotfix_claim` | 2 people with 1 command each, each kind of image, 1 deployment, 1 fault anywhere | `check` foretells `init`; a manifested claim has its parts; a retirement is true; what is deleted was not mounted |
| `resize` | 2 people, 3 runs, 5 pods of all QoS classes, 4 LimitRanges, 6 command lines, 1 rollout | an editor raises once; a derived raise is admitted; advice works |
| `seat_start` | 5 pods of 2 seats, up to 2 wirings and 1 signal or restart, fair | a ready seat connects; merges keep what they read; everybody is answered |
| `debug_config` | 2 commands on one target; 1 seat's repeated commands with 2 faults; every process before every seat | a provisioned entry works; the survey is true; a working entry is kept; the app is released |
| `cap_report` | each Yama scope, filter and LSM with 7 seats; an old kernel with 3 faults; 2 seats at once with 2 | the workload runs on; verdicts are the kernel's; a mechanism that is named refused |
| `editor` | 1 run on each kind of seat and laptop; 1 run with each settings file and 2 faults; 2 runs on one home with 1 | windows are guarded; the report is true |
| `find_reborrow` | 1 laptop, 4 commands, no fault | see section 6 |

*Bounds.* Every one is a CONSTANT, or a field of the scenario an instance starts from.

`MaxAttaches`, `MaxFaults` and `Attempts` (`CONFLICT_ATTEMPTS`, 8 in the code, 2
here) bound attach. Two attaches are the least in which a second finds what a first
left, and in which flags mix; the third would find the same two kinds of seat. Two
launchers are what a name can be raced by; a second conflict exhausts `Attempts`, so
that the give-up is reached. One fault puts every single fault at every place; with
two faults and liveness the race is beyond a few minutes, and the safety part of it is proved for
any number. The pods take the ids of the clusters the source names (p47-blueapi,
argus) and each combination of stated, unstated and root that a decision
distinguishes. Two workloads are only present where `--target` matters.

In `run_loop` two commands are a run and what comes after it, and three births on
two pids make a pid come round again with a stranger or a second child in it.

In `dev_pod` three commands are a create, a teardown that is cut off and the one that
finishes it, or two creates and a teardown; the two faults are the fault that cuts a
command off and one outside it. Two of the four names are workloads, one of them
GitOps-managed, and two are dev pods, so that a name may be taken.

In `hotfix_loop` two restarts are the least that overlap; three launches are the one
that is killed, the one that replaces it and the one that replaces that; a second start of
the container is where a seat is lost. One edit tells "as saved" from "as loaded".
In `hotfix_claim` two commands are two inits at once, an init and a retirement, or
two retirements; the fault is a step of either, and the deployment mounts, unmounts or
moves the image at any point.

In `resize` two runs race and the third finds what they left; the quantities put each
limit below, at and above each ceiling and ratio. In `seat_start` two seats share a
home or an alias at most pairwise, and the fault is the signal or the restart. In
`debug_config` two commands inject at once or one injects while the other only lists; two faults are
a restart and what is lost with it. In `cap_report` three faults are a failed
seize, a failed detach and a failed SIGCONT. In `editor` two faults are a lost
connection and somebody else's change; two runs on one home begin with the agent's file, none, or a
user's, which the second may read before or after the first has truncated it, so that their texts
differ; and `Attempts` (`SERVER_CLI_ATTEMPTS`) is 2 so
that a server may appear between two looks.

Launchers and commands run out in every instance, so deadlock is not checked.

*Fairness.* `Attach`'s `FairSpec` asks that each launcher that can take a step takes one:
every call has a timeout and every poll a deadline (`kubectl.py`), and the launcher
is a sequential process. Nothing is assumed of the node, of other writers or of
the policy: a container may stay pending for ever, which `WaitTimesOut` ends.
`RunLoop`'s `FairSpec` adds that the grace and the timeout run out however often a
command has polled — both compare `now()` with a deadline in each turn of the loop,
so the timeout is strongly fair: the poll leaves the stage in which it is enabled
and comes back — and that the kernel delivers a SIGKILL. A child need neither bind,
nor heed SIGTERM, nor exit.

`HotfixLoop` is fair to the supervisor's shell, to each script (`PollRunsOut` is
always a way out of the poll) and to a wrapper that starts its worker; nobody must restart,
edit, crash or fail. `SeatStart` is fair to the agents and to the launchers as two groups,
each of whose members runs a bounded number of steps; nobody must wire or signal.
`DebugConfig` is fair to one action only, `InjectTimesOut`: coreutils' `timeout` kills a
driver that has not returned (`provision.py:393`); that is what releases the application, and
gdb is promised nothing. `HotfixClaim`, `Resize`, `CapReport`, `Editor` and `DevPod` have safety and
action properties only: their waits are kubectl's, ssh's and the user's.

## 4. The properties

* `HandedSeatIsOwn`, `ImplementsLedger`: races. A stale name may be
  re-sent any number of times and never overwrites another's entry, and what a
  launcher is given was authored by it, or is not provably another's.
* `NamesSpentAreCounted`: one name per pass and one per refusal *by the node*;
  none for a policy's refusal, a conflict or a collision.
* `StoredSeatsRun` (`NoStrippedRoot`, `NoForeseeableWedge`): the rehearsal and the
  pre-skips catch what a policy's rewriting would spoil. Both need dry runs to be served.
* `RungsAreHonest` (`CeilingHonoured`, `LabelsDoNotOverclaim`): what `--max-rung` and
  the label say holds of the container, whoever landed it and whatever admission made of
  it. A label made from a report is asked to be true of the container the seat is in; one
  made without it, from the manifest, only where the seat is in the container that was named
  and that runs as stated. Of another container it may be wrong (section 6).
* `NextAttachIsFree`: the promise behind the id correction. After undisturbed attaches
  that named no ids and were free to measure and correct, in any order of containers, the next
  one finds a seat, and the corrected seat where that one asks for it. It has exceptions the
  property names: a policy that rewrites or refuses a gid, where every attach of a target
  without a stated gid lands another seat (`launcher.py:2654`), and a corrected walk that
  lands the full rung first. An attach that was told not to correct (`corrects`) leaves a seat
  that a later one has to correct, which spends a name too.
* `AttachEnds`: liveness of four nested loops.
* `NoChildAbandoned`, `OneVersionServes`: the record and the port after any sequence
  of runs, stops and kills. Old and new code are never both behind the port, not
  even when both share it and the old child was slow to bind. `careful` leaves
  out the one window the code cannot close, between Popen and `save_state`.
* `SignalsWhatItLookedAt`: a signal never goes to a process that was a stranger
  already when `is_live` looked, given a start time in the record.
* `StoppedIsGone`, `CommandEnds`: liveness of the two polling loops.
* `Undoable`, `NeverDark`: the loan of a selector, whatever is cut off: record before
  borrowing, run before pointing, restore before deleting. Each of the three orders
  is needed, and a failed step must stop the command.
* `TeardownIsComplete`, `StanzaOutlivesItsPod`: the two ends of a teardown, cluster and
  laptop.
* `HeldByAScript`, `HoldEnds`: the hold is the one file that keeps a crashing
  application from being seen to crash. It is there only while a script will remove
  it, or after a SIGKILL no trap sees, and it is removed.
* `NothingOldServes`, `RunsWhatWasSaved`: once a script saw the whole application and
  killed it, none of it runs, though the worker may be in a session of its own, and
  everything that runs loaded the tree as it was when the restart began, or newer.
* `SeatsSurvive`: the container restarts — and every seat dies — only after the
  application ended of itself, a wait ran out, two restarts overlapped or a script was
  killed: never because of a restart alone.
* `CheckForetellsInit`: on a target nobody changes, init refuses only what the check
  had failed or could not measure, and completes only where the check failed nothing.
* `ManifestIsTrue`: a claim with a manifest whose init rebuilt the venv has every part of the
  project, the interpreter and the venv, after any number of inits cut short and work that goes
  on, each whole but for what such a cut left in part; and a base commit that is not
  marked assumed is the application's own. That the parts are whole is `SeededClaimIsWhole`,
  which is not so (section 6).
* `RetirementIsTrue`, `DeleteSparesTheMounted`: "gone" is only said of what is gone, and
  a claim is only asked to go when no pod mounts it, unless something changed after the look.
* `EditorRaisesOnce`, `RaiseIsAdmitted`, `AdviceWorks`: an editor raises a limit at most
  once until somebody else sets it; a request derived from the LimitRanges that were
  read is refused for a resource claim or not at all; the flags a Guaranteed pod's user
  is told to use keep its class.
* `ReadySeatConnects`: a seat that reported itself ready and was wired without somebody
  minting a key meanwhile is reached by the stanza: login, key, pin and sshd agree.
* `MergesKeepWhatTheyRead`: authorized_keys and known_hosts lose an entry only to a writer
  that had read the file before the entry was there.
* `EveryoneIsAnswered`: PID 1 idles whatever failed, hears a signal once it idles, and
  every wiring ends.
* `ProvisionedEntryWorks`, `WorkingEntryKept`: what `--provision` writes, whoever else injects, names
  a port the target's own server is on, and a server that answers, unless the run was shown it by
  its port and asked nothing (`Unasked`; that it answers then too is `ProvisionedEntryAnswers`, which is
  not so, section 6). Exempt are runs whose workload restarted, wedged, lost its adapter or
  listened by itself meanwhile, and ports a neighbour took. A run that found the target's
  server does not overwrite the entry that reaches it.
* `SurveyIsTrue`: an injection that is offered on a measured attach can be made; a refusal
  refers to no entry that is not written; a managed runtime gets no native entry (a JVM in a
  process that goes by Python's name may get Python's).
* `AppIsReleased`: the workload is not held by an injection for ever.
* `WorkloadRunsOn`, `VerdictsAreMeasured`, `NamedMechanismRefuses`: the probe leaves no
  process stopped without saying so, its verdict and the row a listing makes of it are what
  the kernel would answer to a process nobody else touched, and the mechanism it names did
  refuse while it looked.
* `WindowsAreGuarded`: a window is opened on excludes that are on disk, or on a warning. Exempt are
  runs whose file somebody else has changed: after they were done with it, which no run can help, or
  between their truncation and their text (`disturbed`). Without the second exemption it is
  `ExcludesComeFirst`, which is not so (section 6).
* `EditorReportIsTrue`: an extension reported unpacked has been in the seat, each one
  wanted is reported or named, and a window that cannot know a new one is told to reload.

## 5. Proofs

`AttachProofs` begins with the operators of `Rungs`: for every list of containers,
`next_container_name` returns a free name and the lowest (`NextNameIsFree`), the splice of
`add_ephemeral_container` keeps names unique and loses no other entry
(`SpliceKeepsNamesUnique`), and typing lemmas of the decisions. It then
proves `Spec => []TypeOK` (`TypeCorrect`) and `Spec => []NamesUnique`
(`NamesStayUnique`), for any number of launchers, attaches, retries and faults. The
inductive invariant is

    Inductive == TypeOK /\ NamesUnique /\ RungInHand

`TypeOK` alone is not inductive: a PUT stores the context of the walk's rung, which
is a rung only while a call is in flight (`RungInHand`), and `status` is a function
on the listed names, which the splice keeps only because the names are unique.
There is a lemma per action, and the temporal step is PTL. The assumptions are
`ImageAssumption`, `AttachAssumption` and `InputAssumption` — types of the
constants, and that a sidecar's name is not of the form `podbench-<n>`.

Its second half builds on that invariant, under the same assumptions, in five steps:

* `Spec => []HandedSeatIsOwn` (`HandedSeatIsAlwaysOwn`). What a launcher is given is decided
  long after it was stored, so the invariant follows a name through the stages of a
  walk, a launcher at a time (`Own`): while it waits, the container of that name in
  this pod is the one it authored; while it measures, the hand is one it may use. That
  another launcher cannot break this is the lemma `BystanderKeepsOwn`: the list of
  containers only ever grows.
* `Spec => ImplementsLedger` (`AttachImplementsLedger`): under the mapping of `Attach` each
  step is a step of `SeatLedger` or a stutter. The steps that matter are a stored PUT,
  which is a stamp, and `Reconnect` and `WaitRunning`, which settle on a name that `Own`
  says may be given.
* `Spec => []NamesSpentAreCounted` (`NamesSpentAreAlwaysCounted`). `Counted` is the budget as a
  walk goes along: while a name is not yet spent on this pass the allowance is one
  less (`Allowed`), an attach that is reconnecting has spent nothing, and a corrected
  attach never corrects again, which is what makes it two passes and not any number.
* `Spec => []StoredSeatsRun` (`StoredSeatsAlwaysRun`) and `Spec => []RungsAreHonest`
  (`RungsAreAlwaysHonest`). `Walking` carries what a rehearsal established of the rung in hand to
  the PUT that stores it, and that the rungs on the ladder are those under the ceiling
  with their contexts as this attach asked for them; `AllHonest` carries the ceiling from there
  through the wait and the measurement to the session, also for a seat somebody else
  landed, which a reconnect takes only under the ceiling. Both rest on the container not
  changing once stored, and on `policy` being one for the life of the pod.
* `Spec => []NextAttachIsFree` (`NextAttachIsAlwaysFree`), from `OneLauncher`: of two at once
  each may supersede the seat the other has just found. The invariant is a census of the pod:
  the seats that run and that nothing running supersedes (`Live`) offer every seat that a
  measurement would ask for (`AllServed`), as the attaches go along. A first pass pins no
  measured gid, so it leaves at most one seat wanting, the one with the real ids of its target
  (`AllButServed`, `FirstSeatLands`); its measurement asks for exactly that one, and
  the second pass reconnects to it or lands it (`AwaitsOne`, `CorrectedSeatLands`), since its walk
  still has a rung that passes every check (`CorrectedRungsPass`) and never lands the full one
  (`FullComesRefused`). Two live seats on one container and one uid pin one group (`LiveSeatsAgree`), so it does not
  matter which of them a reconnect takes.

`RunLoopProofs` proves, for every set of pids and every number of commands, births and
crashes: `Spec => []TypeOK` (`RunLoopTypeCorrect`); `Spec => SignalsWhatItLookedAt`
(`SignalsAreAimed`), for any number of callers; and, from `OneCaller` — one command at
a time — `Spec => []NoChildAbandoned` (`NoChildIsAbandoned`) and
`Spec => []OneVersionServes` (`OneVersionServesAlways`). The argument:

* `Aged`: births tell processes apart and everything remembered is of the past, so
  a process born later is never mistaken for a record's;
* `Sighted`: since the last look the pid bears the child, a later process or none;
* `Recorded`: the record names the one child that runs on, `stop` clears it only when
  that child is gone or has a SIGKILL pending, and nothing is recorded from the
  pre-flight until the new child is;
* `Sole`: at most one child that is bound, and none that is doomed while another
  runs on: that is what the pre-flight is for.

Every step is shown to be `NoBirth` or `Birth` first (`KernelMoves`), so that the
facts about processes need two cases and not twenty.

`DevPodProofs` proves, for every set of laptops, pods and Services:
`Spec => []TypeOK` (`DevPodTypeCorrect`); `Spec => StanzaOutlivesItsPod`
(`StanzasOutlivePods`), for any number of laptops; and, from `OneLauncher` — exactly one
laptop at work — `Spec => []Undoable` (`LoansAreUndoable`), `Spec => []NeverDark`
(`BorrowedServicesAreServed`) and `Spec => TeardownIsComplete`
(`TeardownsAreComplete`). The argument:

* `Staged`: what a command knows at each stage, which types its use;
* `Fresh`: uids are handed out in order, so the pod that bears a name after a
  deletion is never the one an old stanza speaks to;
* `Loan`: every record is exact (`RecordsAreExact`), a command that is lending has the
  record in place (`Lending`), and one that is returning has returned before
  it deletes (`Returning`). `Undoable` and `NeverDark` are conjuncts of it, not
  inductive alone: what the next step writes is in the command, not in the cluster;
* `Awaited`: a command in progress has no outcome, so only the last step of a
  teardown ends it well (`TeardownEnds`).

`HotfixLoopProofs` proves, for any number of terminals, launches, container starts, edits
and faults: `Spec => []TypeOK` (`HotfixLoopTypeCorrect`), `Spec => []HeldByAScript`
(`HoldsHaveScripts`), `Spec => []NothingOldServes` (`KilledTreesStayDead`),
`Spec => []RunsWhatWasSaved` (`RelaunchesRunWhatWasSaved`) and
`Spec => SeatsSurvive` (`RestartsSpareTheSeats`). The only assumption is
`HotfixLoopAssumption`, that the bounds are naturals; fairness is not used. The invariant of
the two about a tree kill is

    Inv == TypeOK /\ \A r \in Restarters : Staged(r) /\ Cleared(r) /\ Aimed(r)

per restart whose script saw the whole application (`Seen`): what came before the launch
it read is dead and what came after was forked on a seeded claim (`Cleared`); before
the kill the processes it is going to kill are exactly that launch's, and after
it that launch is dead (`Aimed`). That no step of anybody brings a process of an old
launch back, or changes what a launch loaded, is said once, for all actions, as
`Onward` (`StepOnward`): a launch only ages. The lemma `WholeTree` is the code's argument for
the tree kill: if the recorded child's tree is all that runs, it is that one launch,
wrapper and worker. `HeldByAScript` is not inductive without `Staged`'s types of the stages but
needs nothing of the application.

`SeatsSurvive` rests on an invariant of its own, `Calmly == Calm => Steady`: as long as none of the
four histories that excuse a restart of the container has happened (`Calm`; none of them is
ever taken back, `CalmBefore`), the pod is `Steady`. There is then at most one script and the pod
is held exactly while there is one (`OneHolds`); the supervisor's step says which launches have
ended and what the pid file names (`Followed`); what a script kills is the current launch,
as no other has a wrapper to collect a tree from (`Acts`); and the current launch runs, and has
the port as soon as it has a worker, or the script that killed it polls for the next (`Attended`).
So where the loop's exit or the probe would end the container, somebody holds the pod
(`NoRestartInCalm`). Without `Acts` it is not inductive: a script might have killed the
current launch while it waits for the pid of another to change, and release the hold at once.

`HotfixClaimProofs` proves, for any users, images and bounds:
`Spec => []TypeOK` (`HotfixClaimTypeCorrect`), `Spec => []CheckForetellsInit`
(`ChecksForetell`), `Spec => []RetirementIsTrue` (`RetirementsAreTrue`) and
`Spec => DeleteSparesTheMounted` (`DeletionsSpareTheMounted`), from
`HotfixClaimAssumption`. The invariant is

    Inv == TypeOK /\ \A u \in Users : Foreseen(u) /\ Read(u)

`Foreseen` carries what the check had said through the stages of an init, each stage having
excluded some of its rows; `Read` says what a retirement has read is still so, as far
as `steady` says nobody changed anything, and that an absent claim stays absent whether
or not. Each step is one of this user's inits, one of this user's retirements, or
`Elsewhere`, which leaves the user's locals alone and either keeps the cluster as it
was or takes `steady` away (`Apart`, `ElsewhereKeeps`).

`Spec => []ManifestIsTrue` (`ManifestsAreTrue`), for claims that hold parts of files too, has an
invariant of its own, `ManifestInv`, since it speaks of no one command but of what all of them
together leave on the claim. `Alone`: unless inits overlapped, one is at work at a time, and none
while an abandoned copy or uv goes on. `Found`: what that one has seen of the claim is still so as
long as its seat runs, up to every part of it before the manifest is written. `Kept`: once a manifest vouches for a claim,
nothing copies over it — the next init finds it seeded and copies nothing. `Volumed` and
the stage a copy is in complete it. The step that needed thought is `Deploy`: a copy
must not outlive the pod it runs in, or it would overwrite the venv that a later init
rebuilt.

`EditorProofs` proves of `Resize`, for any users, pods, LimitRanges, quantities and changes:
`Spec => []TypeOK` (`ResizeTypeCorrect`), `Spec => []EditorRaisesOnce` (`RaisedOnce`),
`Spec => []RaiseIsAdmitted` (`PlannedRaiseIsAdmitted`) and `Spec => AdviceWorks`
(`AdviceIsGood`), from `ResizeAssumption`. The invariant is

    Inv == TypeOK /\ Raised /\ Stored /\ \A u \in Users : Sound(u)

`Raised`: once an editor's raise changed the limit, that is `EditorLimit`, and
a run for an editor asks for that and nothing else, so that the raise after it changes
nothing however stale its reading was. `Stored`: the pod is what the API server admits,
which every accepted patch keeps (`MergedIsWithin`). `Sound` says per run that what it read is
still there if nobody changed it, and that what it submits has passed its own plan. What is
left is arithmetic: a request derived from a ratio is at or above the smallest the
ratio allows, at or below the limit, and keeps the class of the pod.

Of `Editor` it proves, for any desks, runs, user saves and failures of the connection, the server
and the seat: `EditorSpec => []WindowsAreGuarded` (`WindowsAreAlwaysGuarded`) and
`EditorSpec => []EditorReportIsTrue` (`EditorReportIsAlwaysTrue`), from `DesksAssumption`, the types of a
desk. The invariant, `EditorInv` (`EditorInvariant`), is the types and

* `Covered`: a run that has its text still to send has the empty file open that is at the path, or
  somebody has changed that (`Intact`), which is why the text that lands is whole; from then until it is over, the
  file on disk excludes the target's root, or the run has warned, or somebody else has changed the
  file (`Foreign`); and it has opened no window before that;
* `Unpacked`: what is in the seat, or was said to be, has been unpacked there by somebody;
* `Accounted`, per run: every extension it wants is still to do, missing, reported or named,
  at each step of the two installations and of the listing after each;
* `Reloads`, per run: what it has unpacked itself is there, and from the step that could
  first have seen it, it is among those the user was told to reload for.

A step is again summed up once: one that changes only its own run's variables (`OneRunReads`), one
that moves a run and changes the home (`OneRunMoves`), one of nobody's run (`OthersMove`); whoever
changes the file is shown to disturb those it concerns (`TouchesWiden`, `WritersStay`). The seat, its server and another run's
installation may do anything in between that the home can show.

`SeatProofs` proves of `SeatStart`, for any number of seats on one volume, of wirings, signals and restarts:
`Spec => []TypeOK` (`SeatStartTypeCorrect`), `Spec => []ReadySeatConnects`
(`ReadySeatsAlwaysConnect`) and `Spec => MergesKeepWhatTheyRead`
(`MergesAlwaysKeepWhatTheyRead`). The assumptions are the types of the pods
(`SeatStartAssumption`) and that no seat has the name the model gives the volume or the
absence of a writer (`SeatNamesAssumption`). The invariant is

    Inv == TypeOK /\ mints > Secret
           /\ \A s \in Seats : Reported(s) /\ Asked(s) /\ Written(s) /\ Steadily(s)

* `Reported`: what a first agent has prepared by where it is, and that what it could not
  prepare is among its failures until it reports;
* `Asked` and `Written`: what a launcher was told of the seat's uid and login is still so when it
  writes the stanza and ever after, also past a restart: only a sidecar restarts, and its name
  is in a projected file;
* `Steadily`: while the exec'd agent of a seat is at work, and nobody has disturbed the
  seat since it was exec'd, the pair in the home is whole or that agent has just written the half it
  will complete, nobody else is half-way through one there (`Paired`), and once it has merged, the user's
  key is in authorized_keys; the launcher then holds, and afterwards has pinned, the private half's
  partner (`Serves`).

Each step of `ensure_all`, whoever takes it, is first summed up as `Works(a)` — what it leaves be — and
`Touches(a)` — what it does to its home, and to whom that is a disturbance — so that a seat
that shares the home is kept by one lemma (`TouchesKeep`) and not by eleven. `Paired` is why
`emit_ssh_config`'s read is sound though two agents may write one pair: it fails of the code only
where the agent was exec'd into a home with a half-made pair, which `steady` leaves out and
section 6 names.

Of `DebugConfig` it proves, for any scenarios, ports, number of commands and any faults:
`DebugSpec => []ProvisionedEntryWorks` (`ProvisionedEntriesAlwaysWork`), `DebugSpec =>
WorkingEntryKept` (`WorkingEntriesAreAlwaysKept`) and `DebugSpec => []SurveyIsTrue`
(`SurveysAreAlwaysTrue`). The assumptions are that ports are positive (`PortsAssumption`) and the types of the
scenarios (`ScenariosAssumption`). It starts with the verdicts, for every process and seat of those types:

* `NativesNeedAProgram`: gdb, lldb and delve are offered neither for a managed runtime nor where
  the executable could not be read;
* `NativesPointAtGdb`, `DebugpyIsPythons`: which entry a refusal may refer to, and that debugpy is
  offered for Python alone;
* `InjectionLacksNothing`: where an injection is offered, no reason of `Unmet` stands, so the helper is
  whole in the tree that would be loaded — which the survey must have been able to read.

The invariant, `DebugInv` (`DebugInvariant`), is the types, that only a Python has an adapter, and per command:

* `Sees`, `Injecting`, `Emits`: a command that was shown a server looks at that one, and does not go on with
  one that did not answer; only Python is injected, where none was found, and on the user's
  port where there is one; and the entry a Python target is given is debugpy's, naming what was found;
* `Found`, while nothing has disturbed the command: the adapter it found is still the one, it answers if
  it did when asked, and where none was found none has come that does not answer;
* `Opens`, for an undisturbed `--provision`: what it looks at, has proved, is about to offer or has written
  is a port that is not closed: another's, or the target's own server's, which answers if it was asked.

debugpy serves a process once, so the only server the second of two commands can meet is the one the
first has put there. `Opens` holds of that too where the second asked it; where it is only
seen to listen, what is proved is that it is the target's own. That a survey of a process that has gone, whose name alone is left,
still offers nothing to inject is `OffersArePythons`.

`CapReportProofs` proves, for any pods, any number of seats that probe at once, any processes and
faults: `Spec => []TypeOK` (`CapReportTypes`), `Spec => []WorkloadRunsOn`
(`WorkloadAlwaysRunsOn`), `Spec => []NamedMechanismRefuses` (`NamedMechanismAlwaysRefused`) and
`Spec => []VerdictsAreMeasured` (`VerdictsAreAlwaysMeasured`), from `CapReportAssumption`, the types
of the scenes. The invariant is `CapInv`:

* `Fitted` and `Owned`, of every seat: what a probe has by where it is, and that a seat traces
  nothing but the process its probe is at;
* a process that is stopped is held: by a probe at work on it, one that was killed there, or
  one whose report warned;
* `Known`, of a probe that has a process: the attempts it made and their answers
  (`Tried`), the readings, each with the mechanisms that refused when it was made
  (`Noted`), and the verdict, which follows from those alone (`Told`);
* `Still`: a process nobody else has touched is as this probe found it, so that the readings,
  taken one after another, are of one moment, and what the kernel would answer now is what it
  answered then.

Each of a probe's steps is first shown to be a `Step(s)` — it changes this probe, takes or
releases its own process only, and leaves to every other seat what that seat traces — and
what others know survives any `Step(s)` (`KnownStays`, `StillStays`).

*Model-checked only.* Liveness (`AttachEnds`, `StoppedIsGone`, `CommandEnds`, `HoldEnds`,
`EveryoneIsAnswered`, `AppIsReleased`) is out of the prover's reach. Every other property that a
passing run checks is proved.

*What the proofs found.* Five attempts failed for a reason. `RaiseIsAdmitted` was not
provable of pods with a request and no limit, whose request the model had counted against a
ratio that only a stated limit has; the API server does not, and `Violations` was
corrected. `RungsAreHonest` was not provable of a seat of another `--target`: the code does label
it wrongly (section 6), and the property now says of which seats the label holds. `ManifestIsTrue` was not provable with copies
that outlived their pod, which they cannot: they run in a seat of it. `NextAttachIsFree` was not
provable of attaches that may decline to correct, and TLC found why on command lines the run
had not had: an uncorrected attach to one container leaves a seat that a later `--new`, or a
corrected attach to another container, makes the next one pay for. The property now says the
attaches were free to correct. `SurveyIsTrue` was not provable of a process that goes by Python's
name and has a JVM mapped: its executable is named python, `detect_language` asks the names
first (`flavour.py:903`), and it is given Python's entry. The run had no process of that kind and now has one;
`RuntimesAreNamed` now says of which entries it speaks, the native ones.

## 6. Where the code and its documentation part

One is a run of the project, `find_reborrow`; three more have a configuration beside the runs, and
TLC finds each of their invariants violated (`tlc -config MCFindHalfSeed.cfg MCHotfixClaim`, and so on).

`find_reborrow`: `delete_dev_pod` promises "leaving the
cluster as it was found" (`dev.py:1515`), but a second `--cutover` of one Service records
podbench's own selector as the original; the last teardown restores that, and the Service
selects nothing (`dev.py:1376`).

`MCFindHalfSeed.cfg` (`MCHotfixClaim`, 1 person, 2 inits, 1 fault): "`init` short-circuits its entire seed on `{checkout}/pyproject.toml`, which makes
the target root, the image's project and the image's interpreter moot" (`hotfix.py:4590`), but
that file is among the first a copy brings. A `cp -a` of the interpreter that is cut half-way
(`hotfix.py:2939`) leaves a claim that is seeded, `seeded_python` is content with any
`*/bin/python3` (`hotfix.py:2505`), and the next init installs on it, and writes the manifest if
uv gets by with what is there.

`MCFindUnasked.cfg` (`MCDebugConfig`, 2 commands with one `--port`, no fault): "The DAP handshake is the only evidence anywhere in a run that a session can be started"
(`vscode.py:1588`), but a run that is shown a listener by its port injects nothing and asks nothing
(`vscode.py:1545`). Two runs of `--provision --port N`, the second begun before the first injects:
the adapter comes out wedged, the first withholds its entry, and the second writes one.

`MCFindLostSettings.cfg` (`MCEditor`, 1 run, 1 fault): "the excludes have to be on disk before the window that starts the walk"
(`editor.py:654`), but `cat >` writes to the file its shell opened (`editor.py:1286`). Where Kill VS
Code Server on Host falls between the truncation and the text, the text is lost with status 0, the
run says it wrote the file, and its window opens on no excludes.

Met while modelling, without a run:

*attach.* The seat is labelled against the ids that *this* run's `--target` states
(`launcher.py:2797`), also after a reconnect to a seat in another container, which the code
knows ("The reused seat's own target, not this run's", `launcher.py:2715`): under `--no-probe`
nothing corrects it, and a seat is called degraded, and measured so, in a container whose ids
it does not have, though `Session.rung` is "What the seat *is*" (`launcher.py:2359`). After a reconnect under another `--target` the corrected seat is landed for
*this* `--target` with the *other* target's ids (`launcher.py:2916`). `--new` forces a fresh
container, but the correction's inner attach drops `force_new` and may hand an old seat back
(`launcher.py:2911`). A container that states runAsNonRoot false hides the pod's true, and
the full rung wedges (`spec.py:1088`). A correction whose walk fails raises through the outer
attach, whose seat is running and is not handed over (`launcher.py:2913`); with
`--max-rung full` the corrected walk tries the full rung first, and "costs two, and only
ever two" (`launcher.py:2585`) fails, as it does under a policy that rewrites the group.
Attaches that alternate two `--target-gid` pins supersede each other's seats (`launcher.py:1843`).
A seat waited for is polled by name, so a replaced pod's seat of that name is taken
for one's own (`kubectl.py:1262`).

*dev.* A child that is gone before `read_process` is recorded without a start time, and the
next `stop` signals whoever has its pid (`dev.py:744`). One of several listeners being the
child's is enough for "Confirm pid — and nobody else — is serving port" (`dev.py:639`). Two
commands at once overwrite or clear each other's record, a kill between Popen and
`save_state` loses the child (`dev.py:916`), and `os.kill` of a child that has just gone is
an uncaught ProcessLookupError. The cutover's "exclusively" is a label all dev pods of the namespace
carry (`spec.py:934`); an owner's write between the reading of the selector and the patch is lost
(`dev.py:1376`). `dev --delete` reports every failure to read the pod as
"nothing to delete", with exit status 0 (`dev.py:1532`); its deletion is killed at kubectl's
30 seconds, and after one that went through all the same no later `--delete` removes
the stanza; a pod re-created between the reading and the deletion is deleted by name (`dev.py:1551`).

*hotfix.* The hold file's deadline is read by nobody but the probe: the supervisor relaunches on
the file's existence (`hotfix.py:3034`, `3587`). Restarts that overlap drop each other's hold
(`hotfix.py:3107`). `init` seeds the claim and then runs `git clone` into the
same directory, which is no longer empty, so with an image that ships no `.git` every init
fails after the seed (`hotfix.py:2953`), though `docs/how-to/hotfix-a-running-pod.md:231`
shows it succeeding; the model has no clone that succeeds. Two inits at once copy over each other. `hotfix status` leaves out a pod whose
exec fails, and a git that fails reads as a clean checkout.

*resize.* "Everything refusable is refused *here*" (`resize.py`, `plan_resize`) does not hold
of resource claims, of the class of a Burstable pod, or of LimitRanges that changed. The warning after an
editor's raise compares with the limits as stored, not as actuated. Two people's raises
can lower each other's: each is planned on its own reading.

*agent and ssh.* `ensure_host_key` derives the public half only `if changed or not
public_key.is_file()`, so a container killed between the halves, on a volume with an
earlier public half, serves one key and prints another for ever (`agent.py:1104`). Seats on one home
overwrite each other's sshd_config, which carries the other's environment; two writers of
authorized_keys or known_hosts lose one of two new entries; a launcher that asks before
PID 1 has registered is told there is no login identity; a restarted sidecar mints
another key under the same alias. Two pods' seat files collide where namespace, pod and
suffix join to one name (`{ns}-{pod}{suffix}.conf`).

*debug.* No executable is staged for a Go target's gdb entry (`vscode.py:2005`), though
`flavour.py` 1496–1505 says it is. A port of another container of the pod
counts as the target's server and is written without a handshake; a `--port` that an unattributable process holds
is warned about and named all the same. With `--flavour gdb` a load error points to "the lldb
entry beside this one", which is not written. A failed staging leaves the gdb entry that misreads. uv
installs over a tree that is half there.

*probe.* Where there is any filter, `_classify_structural` blames seccomp before Yama
(`probe.py` 749–792), so scope 2 or 3 under RuntimeDefault is reported as a seccomp
filter, and it never names an LSM, though `docs/how-to/debug-with-gdb.md` says it
does. "A dead head means they are all dead" (`probe.py:1240`) is not so where the only
living process is a shell. Without a target the verdict is `LIVE_ATTACH` and `features` ticks
live attach. Of two probes at once each can be refused by the other's seizer.

*editor.* `cat >` truncates the settings before their content arrives, so a connection lost
in between leaves them empty while the warning (`editor.py:1294`) says the excludes are
whatever the agent wrote, and a second run that reads the truncated file writes one without the
user's keys. Of two runs that both truncate it before either writes, the shorter text written
over the longer leaves a mixed file, each with status 0; the second is `amid` another's write, so
`WindowsAreGuarded` does not speak of it, and whether VS Code honours such a file is not modelled. An interpreter that is set already wins, and the line says it was "already
said" (`editor.py` 1249–1258). `vscode_command` reads the seat through
`ephemeral_container`, so a dev pod's sidecar is told that it has no claim.

## 7. What is left

Modelled in part: the layouts, texts and parsers named in section 2. `podbench status`, `list`,
`hotfix status` and `hotfix values` print what the cluster says, and gdb's start-up
(`gdbcmd.py`) is the composition of one command line: none of them changes anything.
`doctor --fix` splices one Include line into `~/.ssh/config`, one rewrite of one file by
one process.

Not modelled: **probe budgets** (`budget.py`), one sum over a container's probe fields
that is printed; **OCI lookup**, HTTP and JSON without state; **Helm charts, the image's and
the cluster's scripts**, templates and shell; **the bridge extension**, which forwards commands;
and the sniffing of ELF, DWARF and interpreters, which `Flavours` takes as facts of
the process.

Of the safety properties the runs check none is left to prove. Worth proving next is what the
proofs assume of their inputs: that the records of `Target` and `Looker` are what the parsers of
`flavour.py` and `execfile.py` can return, which needs those parsers modelled.

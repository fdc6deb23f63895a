# Router VPN: a TLA+ development of its server transactions

Router VPN is a self-hosted VPN: a production server (a Portainer stack of
containers: the router agent, the WireGuard family, transports, Setup Center),
clients for five platforms, and the controllers that update, stop and
administer the server. Most of the repository is packet handling, configuration
generation and user interface. Its own *logic* sits in a handful of controllers
that keep a durable state, drive something outside the process (Portainer,
nftables, `wg`, child processes) and have to stay truthful when any step fails,
when the process dies between two steps, or when two requests interleave.
`docs/DURABLE-STATE.md` states that ambition; this directory checks it.

## Inventory

| Component | State | Operations | What is hard | What makes it correct |
|---|---|---|---|---|
| Update controller, `cmd/update-controller` | `updateState` in memory and in a file; the rollback compose (a second file); the Portainer stack | `applyUpdate` (several at a time), `reconcileRecovery` once per start, `status`, `check` | the lock is released between the steps; the second PUT replaces the controller's own container; every write can fail; a PUT that failed may have worked | an update is atomic; terminal states are true; the snapshot lives as long as it may be needed; recovery ends |
| Scheduler, `cmd/update-auto` | none between cycles | a cycle: status, check, apply | three calls, each stale when the next is made; operators use the same API | no retry of the failed target, no downgrade, converges |
| Server control, `cmd/router-agent/admin_server_control.go` | `{paused, emergency}` in memory and in a file; the owned nft table; the live peers | `stop`, `resume`, `emergencyStop`, a 5 s reconcile loop, start-up | apply, persist and undo each fail; peers come back; `wg`/`awg` stop answering; reboot drops the table | Emergency is only reported as proved; report, file and table agree; only Resume opens ingress |
| Admin policy, `admin_mutations.go` | policy file, nft tables | bans, revocations, LAN access, forwarding | delete and add of rules are separate transactions; revocation continues outside the lock | file, memory and table agree after a failure |
| Protected DMZ, `admin_forwarding_extension.go` | its own file, tagged rules in the shared chain | DMZ on/off, 15 s reassert loop | reads the other plane's file, then edits the shared chain | an explicit rule wins over the DMZ |
| Relay and Tor leases, `internal/multihoprelay` | leases, each with a process | create, renew, delete, sweep, close | a process that does not stop; cancellation while queued | a retired lease never renews; a stuck one does not block the rest |
| Client operations, `cmd/client/operation_guard.go`, `controller_shutdown.go` | `operationMu`, the connection context, the closing latch | connect, disconnect, settings, shutdown | cancel against adoption; drain against a held lock | nothing starts after the latch; shutdown drains |
| Download jobs, `server/scripts/download_jobs.py` | job table, workspaces | create, build thread, delivery, cancel, reaper | four threads on one workspace | no delivery from a removed workspace; every workspace is removed in the end |
| Native update of the client, `cmd/client/native_auto_update.go` on `internal/updatepolicy` | a state file (newest signed sequence, staged package), a directory of packages | check, download, supersede, record a failure | saves that fail after they took effect; crashes between package and record; other programs in the directory; manifests in any order | the sequence never goes back; what is offered is current; no orphans; foreign bytes survive |
| Engines, DNS proxy, compilers, front ends | | | I/O and third-party engines | not modelled |

The scheduler and Setup Center call the update controller over loopback HTTP;
the controller calls Portainer and GitHub. The planes of the router agent run in
one process with separate locks and files, and share the kernel's nft tables and
peers; the Protected DMZ reads the admin plane's file and edits the same chain.
The relay and Tor managers serve the clients' PUT, DELETE and status requests;
the client controller owns one child process and one kill switch. All rows but
the last are modelled, the update controller and the client in part;
`PROJECT.json` lists the hazards found in each.

## Modules

| Module | Models |
|---|---|
| `AtomicDeployment` | what an update promises: from one release to a strict descendant, or nothing |
| `UpdateController` | `main.go`, `recovery.go` and the use of `private_state.go` in `cmd/update-controller` |
| `AutoUpdate` | extends `UpdateController` by the scheduler, the operators and the CI evidence |
| `ServerControl` | `admin_server_control.go` |
| `AdminPolicy` | `admin_mutations.go`: bans, revocations, LAN access, explicit forwards |
| `AdminForwarding` | extends `AdminPolicy` by `admin_forwarding_extension.go` and the peers' forwards of `cmd/router-agent/main.go` |
| `RelayLeases` | `internal/multihoprelay/relay.go`, `external_packet_lease.go` |
| `TorLeases` | `internal/multihoprelay/tor_lease.go` |
| `DownloadJobs` | `server/scripts/download_jobs.py`, with `owned-temp.py` and the streaming loop of the product server |
| `ClientOperations` | `operation_guard.go`, `controller_shutdown.go` and the transactions of `main.go` and `strategy_modes.go` in `cmd/client` |
| `NativeUpdate` | `cmd/client/native_auto_update.go` and the store of `internal/updatepolicy` |
| `...Proofs` | the inductive invariants and the theorems about a module |
| `MC...` | the instances for TLC; the `.cfg` files give the constants |

Definitions named `Mut...` are plausible bugs of the definition that follows them;
`PROJECT.json` names the property that each of them breaks.

### UpdateController

`disk` and `mem` are the state file and `c.state`; `snap` is the SHA of the
private rollback compose; `stack` what Portainer holds. A compose file is
reduced to the two values that the controller tells apart: the SHA of the updater
image and the SHA of the other eight owned images, the generated header and the
broker provenance (`composeSHA` requires these to agree). Phase one, which
preserves the old updater, is then a mixture and never an exact release.

Each goroutine has a `pc` and a `job` (its locals `from` and `target`). A step is
one section under `c.mu`, one file operation or one Portainer call. The
labels follow the handler: `discover`, `verify`, `save`, `checkpoint`, `put1`,
`wait1`, `finalize`, `put2`, `wait2`, `identify`, `complete`, `retire`; every
error return leads to `fail` before the first PUT and to `rollback` after it,
as in the code. `health` is a history variable: whether `waitCoreHealthy` has
succeeded since the last PUT.

Everything that can go wrong takes one of `MaxFaults` faults: a state write, a
snapshot write or removal, a Portainer read, a PUT (which then took effect or
not), the health of the restored previous release, a crash at any point. That a
*new* release is unhealthy, or that GitHub refuses it, is free. A restart while
nothing runs is free, too.

Two interleavings of the code break promises of its own. The model admits both
and the history variable `races` records which has happened, so that each
property says how far it reaches:

* `"overtaken"`: a request was admitted while a goroutine that had released `c.mu`
  still had a snapshot to remove (`reconcileRecovery`'s terminal clean-up, or
  `clearRollbackCompose` after a terminal write). The new snapshot may be removed
  in place of the old one.
* `"adopted"`: a request was admitted before `reconcileRecovery` took its copy of
  the state (`main` starts that goroutine and serves HTTP at once), and recovery
  takes the live request for an update that a restart interrupted. Then two
  goroutines are inside one update.

An adoption voids everything but the types and that an unfinished update leads to a
strict descendant (`UpgradeOnly`); an overtaken clean-up voids the
snapshot properties only. No guard keeps either away: the violation runs and
configurations below reach them.

### AutoUpdate

One cycle is five steps: the state part of the status, the stack part (the
handler reads them in this order, the first under the lock, the second after it),
the check, the post, the wait. CI is external: `verified` lists the SHAs with
settled successful evidence, newest run first, and `Publish` changes it
at any time. The request of the scheduler is `Scheduler`; the other members of
`Requests` are operators, who ask for at most `MaxAsked` targets (`tried`). The
runs follow a behaviour until recovery adopts a live request (the constraint
`NotAdopted`; the adoption itself is the last step that is followed): the
properties of the composition claim nothing after it.

### ServerControl

`opMu` admits one operation at a time, so `op` and `pc` say who holds it and
where; the commands of an operation are separate steps. `setState` applies the
table (one nft transaction), writes the file, and undoes the table if the write
failed; `lost` records that this undo failed and its error was discarded.
`enforceEmergencyPeers` lists, removes and lists again; `proof` records that the
second listing was complete and empty. A reboot may drop the table. `tools` are
the control tools that answer: a missing or failing one fails the proof, as
`validateEmergencyPeerTeardown` demands both sources.

### AdminPolicy and AdminForwarding

`mem`, `disk` and `old` are `a.state`, the file and the clone for the rollback.
The handlers hold `mu` from the first line to the last, so one operation is
under way at a time (`step`, `op`, `mode`); each nft transaction, each write and
each undo is a step, and any of them may fail. `policy` is the admin table, one
transaction; `chain` is the NAT chain as a sequence of blocks, in which the first
match wins, and its explicit rules are replaced in two. `cutting` and `sweep` are
what happens without the lock: the removal of the live peer at the end of
`revoke`, and the loop that repeats it. `lost` records the failures that were
reported and the time before the first table after a reboot.

`AdminForwarding` adds the second plane with its own file and two locks of its
own (`dmzMu` for an operation, `s.mu` for a section): `dmz` is the operation that
holds `dmzMu`, `rq` a request that has read the other plane's file and not yet
locked `s.mu`. Ports are points; `protectedDMZAllowedRanges` is then the set of
ports that are neither reserved nor explicit. A peer's own forward is one block
at the head.

### RelayLeases and TorLeases

In `RelayLeases` every operation holds the manager's lock; what is hard is the
order in which requests arrive. A request is a constant with a peer and a
credential, and may be handled at any time, any number of times, before or after
its DELETE. `Create` is split where it waits for its engine, since time passes
there. `Sweep` stops at the first engine that does not stop, in any order of the
map. A restart begins a new epoch with empty tables.

In `TorLeases` nothing of a start is under the lock: `own` is
`torOwnedProcess`, `run` its goroutine, `stop` the five places that call its
bounded `Stop` (clean-up of a failure, the late clean-up, DELETE, an abandoned
PUT, the sweep), `read` a status request between its two lock sections. A wait of
a Stop gives up when what it waits for is not there yet; so a start may return
after everybody has given up.

### DownloadJobs

`jobs` is the table under `self.lock`, `dir` the workspace on disk (with or
without its ownership marker), `pc` and `ctx` one builder thread per job, the
HTTP threads, the reaper and the shutdown. Every section under the lock is a
step, and so is every removal of entries outside it. `masked` records that
`_cleanup_dir` took `FileNotFoundError`, caused by another cleaner, for success.

### ClientOperations

`opmu` is `operationMu`; `op` the transaction that holds it (Connect, AUTO, the
delayed startup), with its plan of one or two candidates; `app` what the
controller believes, `sys` what is on the host: the child, the routes of a mode
and the kill switch. `disc`, `drain`, `mon`, `rec`, `sched` are Disconnect and
Emergency Stop, the shutdown, the runtime monitor, the recorder of the last good
runtime and the startup timer. A stop has three parts, each of which may fail.
Contexts are numbers, `cancelled` the set of those that were cancelled.

### NativeUpdate

`rvNativeUpdateMu` admits one request; `pc` says which call it makes next, `want`
whether it downloads, `st` and `man` are its State and its manifest. `disk` is the
state file, `file` what lies under the name of each package (nothing, the signed
bytes, other bytes), `tomb` the tombstone of a removal and `kept` the tombstones
that were left. `RemoveVerifiedArtifact` is five steps (verify, rename, verify
again and delete, look whether the name is free, put back), with the same code for
its two callers; other programs act between any two. `goos` is `runtime.GOOS`,
which the store looks at: elsewhere a package is published and restored by a hard
link that fails on a name that is taken, on Windows by `os.Rename`, which
replaces what it finds. A failed `SaveState` has taken effect or not, since the sync
after the rename may be what failed. `excused` are the packages that a crash,
somebody else, a failure that the code reports, another package of the same
commit or an unreadable state file has detached from the state.
With `Failures = {"read"}` the state file may also be unreadable.

## Runs

| Run | Instance | Shows |
|---|---|---|
| `update_controller` | 3 releases, 2 requests, 3 faults | `SnapshotRetainedUnlessRaced`, `TruthfulUnlessAdopted`, `SingleTransaction`, `MutationIsCovered`, and that the controller implements `AtomicDeployment` |
| `auto_update` | 3 releases, scheduler and an operator, 1 CI result, 1 fault, fair | the scheduler does not retry the target that failed last; a restart ends an unfinished update; the server settles |
| `server_control` | one peer per tool, 4 faults, fair | Emergency is proved; report, file and table agree; only Resume opens ingress; a stale Emergency ends |
| `admin_policy` | 2 peers, 1 fault, 2 restarts, fair | file, memory and table agree; a revocation is enforced at every moment, final, precise and repeated |
| `forwarding` | 1 rule, 1 port, 1 fault, 1 restart, fair | explicit forwards win over the DMZ; off means off; the DMZ yields and comes back |
| `relay_leases` | 2 peers, 3 requests, 2 ports, a full attempt table, 1 fault, 2 epochs, fair | engines have owners, credentials one engine; no resurrection; what is due is reaped |
| `tor_leases` | 1 owner, DELETE and status, 1 fault, at most 2 Stops at a time, fair | release means joined; what is revoked stays so and is released in the end |
| `download_jobs` | 1 job, 2 callers, 1 fault, at most 2 clean-ups at a time, fair | what is offered is intact; cancel wins; terminal rows own nothing; withdrawn files go |
| `client_operations` | 2 transactions, everybody, 2 faults, fair | nothing is forgotten; nothing connects behind a shutdown or a Disconnect; a shutdown ends with an empty host |
| `native_update` | Windows and others, 5 manifests of 3 commits, 3 faults, 2 interventions | the sequence is monotonic; what is offered is current; files match the state; foreign bytes survive, but for two renames of Windows |
| `update_cleanup_race`, `native_sequence_reset` | | violations, below |

The listed runs of the larger modules combine safety and liveness on an instance
small enough for the latter. `MC<module>Large.cfg` checks the safety part on a
larger one, with the type invariants and a few more properties, without fairness
and, for Tor and downloads, without the bound on overlapping clean-ups:

| Configuration | Instance | Distinct states |
|---|---|---|
| `MCAutoUpdateLarge` | 2 CI results; also `AtomicDeployment` | 2.0 million |
| `MCAdminForwardingLarge` | 2 ports, 2 faults, owners left out; also `ExtIsDurable` and `ForwardsAreEnforced` | 4.8 million |
| `MCTorLeasesLarge` | all five Stops at a time; also `NoTorResurrection` | 2.9 million |
| `MCDownloadJobsLarge` | 2 jobs, one caller, before the shutdown | 1.1 million |
| `MCClientOperationsLarge` | 3 transactions | 1.9 million |

Bounds. Three releases `a -> b -> c` are the fewest with an upgrade after an
upgrade and a target older than what is deployed. Two requests are the fewest that can be
inside a transaction together; more are covered by the proof of
`SingleTransaction`. Three faults allow a failed write, a failed rollback and a
crash in one transaction; the proofs remove this bound as well. Four faults in
`server_control` allow a crash, a failed write, a failed undo and a peer that
comes back in one behaviour; again the proofs remove the bound. In `auto_update`
one fault suffices, since a release that turns out unhealthy is no fault, and the
operator may move the server to any release between two calls of the scheduler.
Two peers in `admin_policy` are the fewest with one to cut and one to spare; the
restart may be one of the agent, of the host or of the WireGuard service. One
port suffices in `forwarding`, as rules meet only on a port; `Focus` explores
the owners while the admin plane rests, since the two meet in no variable. The
requests of `relay_leases` are two of one peer and two with one credential, and
the table of attempts holds one. Two callers in `download_jobs` let a delivery
and a cancellation meet, with the builder, the reaper and the shutdown; two
transactions in `client_operations` are a connection and its replacement. The
manifests of `native_update` are an upgrade, two targets with one sequence, an
older target signed again and one without a package for the platform; three faults
allow a failed save, a failed undo and a crash in one request. For the safety and the
action properties the proofs remove all these bounds.
Requests are symmetric in `update_controller`; no liveness run uses symmetry.

Deadlock is checked in the runs of the update controller, the scheduler, the
agent's planes and the native update. It is not in `relay_leases` (the clock is bounded), `tor_leases`
(a request ends), `download_jobs` and `client_operations` (the process ends).

Fairness. In `UpdateController` every goroutine that can take a step takes one:
the calls have time-outs (90 s for Portainer, 60 s and 120 s for health), so none
of them blocks for ever. Requests and restarts are not promised. `AutoUpdate`
adds weak fairness of the cycle, which a ticker drives, and strong fairness of
its post, since the ticker posts again and again and not every attempt meets a
restart. `ServerControl` has weak fairness of the operation that holds `opMu`
and strong fairness of the reconcile tick: a Go mutex in starvation mode hands
itself to the waiter, so a stream of requests cannot keep the loop out. For the
same reason `AdminPolicy` has weak fairness of the holder of `mu` and strong
fairness of the start-up restores and of the revocation loop, `AdminForwarding`
strong fairness of the DMZ loop, and `ClientOperations` of the `Lock` calls of
Disconnect and of the drain, but not of the `TryLock` calls of requests. That the
steps of a stop end is in part an assumption about the host: the mode's stop
command (`main.go:1371`) and the wait for the child after `Kill`
(`main.go:1351`) have no limit of their own.
`RelayLeases` has strong fairness of the sweep, which a ticker drives every
second, and an engine that starts answers by Create's deadline. In `TorLeases`
blocking calls return when their context is cancelled, and every wait of a Stop
has its limit. In `DownloadJobs` the interpreter runs every thread and time
passes. The number of faults is finite everywhere, so a clean-up that is tried
again and again succeeds in the end.

`EventuallySettled` counts as settled a controller that is left busy: when the
last state write of a transaction fails, the code stays busy until the next
restart, by design ("durable status remains `rolling-back`").
`FailedTargetNotRetried` leaves out the targets that an operator has asked for:
when he tries the same target between the scheduler's status and its post, the
status is stale and the target is tried once more; only the controller's own
checks hold then, which `MCAutoUpdateLarge` shows. `RecoveryTerminates` excuses both
races: a rollback whose snapshot is gone stays `rolling-back`.

## Where the code and its documents disagree

Two of these are runs with a finding in `PROJECT.json`; for each of the others
the configuration named with it makes TLC report the trace.

* **A clean-up races the next request** (`update_cleanup_race`). A terminal state is
  visible, and admits a request, before the snapshot of its update is removed, and
  the removal, without the lock, takes whichever snapshot is there: after a terminal
  write (`recovery.go:177, 189`), and in `reconcileRecovery`, which acts on a copy of
  the state (`recovery.go:201-208`) and also removes a snapshot that the new request
  saved of the same `from_sha`. The update then runs without one, and its rollback
  cannot load it.
* **Recovery adopts a live request** (`MCUpdateControllerAdopted.cfg`). Nothing orders
  the copy of `reconcileRecovery` before the first request that is served
  (`main.go:1236`). A request admitted earlier has written `applying` without a
  `from_sha`; recovery closes it as `failed` while it goes on to its PUTs. A second
  request is then admitted, meets the mixture of phase one and records `failed`
  with the first one's `from_sha` over it. Two goroutines are inside an
  update, a terminal state lies, and the update is not atomic.
* **An unattributable snapshot** (`MCUpdateControllerStale.cfg`). A crash between the
  snapshot and the checkpoint that names it ends in `failed` with an empty
  `from_sha`, and then every apply is refused until somebody removes the file.
* **A discarded undo** (`MCServerControlStatus.cfg`). When a Resume cannot be
  persisted and the table cannot be restored either, the plane reports paused
  while ingress is open.
* **A masked clean-up** (`MCDownloadJobsMasked.cfg`). Two threads remove one
  workspace. The one that meets an entry the other has just removed takes the
  error for success and publishes a clean terminal row; when the other one then
  fails, the files stay and nothing retries.
* **A lost cancellation** (`MCDownloadJobsRetained.cfg`). `finish_delivery`
  reads the cancel flag in one section and publishes `delivered` in another; a
  cancel in between is accepted and the package retained.
* **Files left by a shutdown** (`MCDownloadJobsShutdown.cfg`). `close` refuses a
  workspace whose marker another cleaner has removed already, and that cleaner
  ends with the process.
* **An owner lost to a status request** (`MCAdminForwardingStatus.cfg`). `status`
  drops the owners of rules that it did not find in a reading older than its
  lock; a rule created in between loses its owner.
* **An owner lost to a rollback** (`MCAdminForwardingRollback.cfg`). A DMZ request
  that fails restores the whole state from before, and with it the owners that
  were committed meanwhile.
* **Settings behind a failed stop** (`MCClientOperationsSettings.cfg`). The phase
  `failed` counts as idle, also when the mode's routes are still up.
* **A forgotten kill switch** (`MCClientOperationsReconfigure.cfg`). A release that
  failed is remembered by the phase only; a Connect that fails early turns it into
  `off`, and the shutdown then sees nothing to do.
* **A sequence that starts again** (`native_sequence_reset`). A request refuses a
  state file that it cannot read; the handler that records the refusal cannot
  read it either and writes a new state, with sequence 0, over it.
* **An orphaned package** (`MCNativeUpdateRepackaged.cfg`). Whether a staged package
  is superseded is decided by the commit. When a newer manifest packages the same
  commit again, the old package stays behind after a download
  (`NothingLeftBehind`), and after a check the state still offers it, signed by the
  older manifest.
* **A replaced file on Windows** (`MCNativeUpdateWindows.cfg`). The comment of
  `adoptNoClobber` (`store.go:305-309`) says that "Windows os.Rename already refuses
  to replace an existing destination". Go's `os.Rename` replaces it there: a file
  that appears under the name after the check is lost, in `adoptNoClobber` and in
  `restoreArtifactNoClobber`.

## Proofs

TLAPS proves every invariant and every action property of the passing runs, and
the refinement of `AtomicDeployment`, for every value of the constants that the
assumptions below admit: any set of releases, requests, peers, jobs and manifests
and any number of faults. `PROJECT.json` lists these theorems under `theorems`, with
some about properties that only the larger configurations check.

*UpdateControllerProofs.* `IInv` has three layers. In every interleaving the types
hold, a transaction that the file names is a strict upgrade (`UpgradeOnly`), and a
goroutine's locals fit its label (`LocalInv`). Until recovery adopts a live request,
terminal states are true, `SingleTransaction` holds, and `GoroutineInv(p)` says
for each label what the durable state and the stack must be: before the checkpoint
the file says `applying` without `from_sha` and the stack is exactly `from`; after it
the file names this transaction; where a terminal state is about to be written, the
stack is exact and seen healthy. Until a race of either kind the snapshot is
there as well (`SnapshotInv(p)`). None of the properties is inductive alone: the truth
of `failed` needs what `restored` knows, that needs that nobody else wrote the
stack since, that is `SingleTransaction`, and that needs that a busy status is left
only by the goroutine that owns it. `UpdateStepPreserves` carries the last point:
since nobody else is inside an update, a step of `p` has to re-establish only its own
part. `DispatchPreserves` and `AdmitPreserves` are where the races enter: the copy
that finds a live request, and the admission next to a clean-up, weaken what is
claimed from then on. The refinement maps `current` to `disk.from` while a
transaction that names it is open, to `composeSHA(stack)` otherwise, and `void` to an
adoption that has happened; each step begins, commits, aborts, voids or
stutters. The only assumption is `ConstantsAssumption`. The unconditional forms,
`RollbackSnapshotRetained` and `TerminalStateTruthful`, are false, as the
run and the configuration above show.

`AutoUpdate` is proved in the same module. `AutoStep` shows that the scheduler
is one more client: apart from a call of its own that fails, each step of the
composition is a step of `UpdateController`, so `IInv` and the refinement carry
over. (The posted SHA is a release since `latestVerified` takes the least index of
a non-empty set; `LeastIndex` takes that from the well-foundedness of the naturals.)
What makes the scheduler's stale reading harmless is `ReadingInv`: a reading that
was not busy is still what the file says, or the file's target is one that an
operator has asked for. It is inductive because only an admission changes the
target of a state that is not busy (`StepKeepsTarget`).

*ServerControlProofs.* `IInv` adds who holds `opMu` and where (`ControlInv`), that
memory and file agree once loaded (`LoadedInv`), who may adopt which state with
which proof (`ProofInv`) and which table is in force at each label
(`TableInv`). Assumption: `PeersAssumption`.

*AdminPolicyProofs.* `AdminInv` joins the types, how memory, clone and file are
related at each step of the operation that holds `mu` (`MutexInv`), that a revoked
peer is banned and no operation drops a revocation (`RevokedInv`), that whoever is
about to be cut is revoked, in memory while its handler holds the lock and in the
file afterwards (`CutInv`), and which table is live at each step of an operation
and of its rollback (`TableInv`). `PolicyIsEnforced` speaks of the moments between
operations only, so it needs all that the steps in between leave behind.
Assumption: `AdminAssumption`.

The composition with the extension plane, `ForwardingInv`, adds three parts to
`AdminInv`, none of which is inductive without the others. `ChainInv` says that in the
chain a block of the DMZ is never above an explicit or a peer's one: explicit
rules and peers' forwards are inserted at the head, the DMZ's are appended after
its old ones were removed, and `dmzMu` keeps a second DMZ operation from appending
in between (no block of the DMZ is there between `read` and `add`). `RulesInv` says which explicit blocks are live at each step of the
admin plane, although the other plane edits the same chain; it rests on lemmas
about `Without` (`KeptFinite` and the ones that follow it): removing one owner's
blocks keeps the order, and so the answers, of the others. The third part relates
memory and file of the extension plane. `ComposedPolicyTheorem` shows that the
promises of `AdminPolicy` survive the composition.

*NativeUpdateProofs.* `NativeInv` joins the types, what a request knows of its
manifest at each call (`RequestInv`) and that its State is never older than the
file (`SequenceInv`); the second is what makes a save monotonic although it comes
many steps after the comparison. `OfferInv` says the same of what the State in
hand offers, once the obsolete package is gone: it was signed for the commit in hand,
by this manifest or by an earlier one. `FilesInv` says for each call of a request
which names hold the signed bytes, by the package of the file, of the State in hand
or of the manifest (`FileInv`), and how these three agree: during a removal the
file still names what is gone, and after an adoption the directory is ahead of
the file, so the property speaks of the moments between two requests only.
`ForeignTheorem` covers both kinds of platform and excepts the two renames of
Windows. Only `SequenceTheorem` assumes more than `NativeAssumption`, a state file that
can be read (`Failures = {}`); it is false without, as `native_sequence_reset` shows.

*RelayLeasesProofs.* `RelayInv` joins the table (`TableInv`: a lease is filed
under its request's peer, every engine has its lease, ports and credentials are
not shared), the start that `Create` waits for (`StartInv`: its peer, port
and credential are still its own, since the manager's lock is held) and the
attempts (`AttemptInv`). The last is what keeps a request dead after its DELETE: a
challenged request that was handled once is spent, because its epoch or its time
is over or because the table of attempts remembers it, and an attempt is forgotten
only when its time is over or a new epoch begins. `ReapTable` shows once, for the
sweep, `Close`, DELETE and the reaping inside of Create and renew, that deleting or
retiring any set of leases keeps the table in order. Assumption: `RelayAssumption`.

*TorLeasesProofs.* `TorInv` says of each owner and its Stop calls (`OwnerInv`) that a
Stop is past the wait for the start only when the goroutine can bring up no worker
any more; so a worker that was dead once stays dead, and `drained` means joined.
`SlotInv` relates the owner to the peer's slot: one that has lost the slot has
drained, and its request can acquire nothing any more because its attempt is
retired or its window is past. Each step concerns one owner; `StopFrame` and
`OtherFrame` carry the rest over. The proofs need no bound on the Stops that run at a
time, which the run has. Assumption: `TorAssumption`.

*ClientOperationsProofs.* `ClientInv` says who holds `operationMu` (`LockInv`), that the
published context is the transaction's (`ContextInv`), what the controller knows of
the host at each label (`HostInv`: the child is the one it holds but for the
moment between its start and its publication), which phases a transaction may
leave behind (`PhaseInv`) and what holds once a Disconnect was answered or the shutdown
has drained (`EndInv`). A stop may fail in each of its three parts; `StopEnds` sums up
what any of its outcomes leaves, and every transaction that ends in a stop cites
it. Assumption: `ClientAssumption`.

*DownloadJobsProofs.* Nothing in the code says who owns a workspace; the
status of the row and the place of the builder decide it together. `RowInv` says
for each combination which threads hold the job, as its builder, as its streamer or
with a clean-up under way or to be done: nobody next to a builder whose row is not
cancelled, nobody at a retained package, and at a package that is being delivered
the one that streams it or the clean-up that its end has begun. `DirInv` says what
is on the disk; it holds until the shutdown, whose `close` takes rows whatever
their status, and where a clean-up was not misled by another one (`masked`). For
`CancelWins` the builder's second look at the cancel flag, in the section that
publishes `ready`, is what matters. `WorkspacesTheorem` bounds the rows that own a
workspace, or whose builder may still make one: only `create` adds such a row, and
it counts them all. Assumption: `JobsAssumption`, with finitely many jobs.

The type invariants are parts of these invariants or follow from them
(`TypeTheorem`, `RelayTypeTheorem`, `TorTypeTheorem`, `ClientTypeTheorem`,
`JobsTypeTheorem`, `NativeTypeTheorem`); the listed runs leave them out.

Only model-checked: all liveness properties, since the prover handles neither
fairness nor `ENABLED` (`EventuallySettled`, `RecoveryTerminates`, `StaleEmergencyEnds`,
`RevokedPeerGoesAway`, `DmzYields`, `DmzComesBack`, `DueIsReaped`,
`RevokedIsReleased`, `WithdrawnIsCleaned`, `ShutdownDrains`).

## Not modelled

* A PUT that Portainer carries out after the client has given up on it; the
  model decides the effect of a failed PUT at the failure.
* GitHub's run lists, the ranking of evidence by run ID and the text of compose
  files (`newestMeaningfulWorkflowRun`, `validateAndMaterializeTemplate`): the
  models use their results.
* HTTP authentication, TLS pinning, file permissions and symbolic-link checks;
  a state file that somebody else edits or corrupts.
* The verification of signed manifests, the ownership checks of paths, and
  `cmd/app-update`, a one-shot tool on the same store with a state file of its own.
* The Close of the Tor manager apart from the relay manager's; the ingress and
  provenance of leases; port ranges and protocols of forwards.
* In the client: the native owners of single platforms, via-entry, Speed Lab and
  MTU probing. They run inside the transactions of `ClientOperations`, which
  takes each of them for a step that succeeds or fails.
* The tunnel engines, the DNS proxy, the compilers of modes and the front ends:
  packet processing, configuration text and user interface, with little state of
  their own that TLC or TLAPS could say something about. They are by far the
  largest part of the repository.

## Plan

1. `ReleaseEvidence`: the workflow-run functions against a reference definition,
   and `latestVerified` as a handler that reads the list and re-verifies while CI
   moves; `AutoUpdate` then uses it in place of `verified`.
2. PUTs in flight in `UpdateController`: which guarantees survive a late one.
3. Abstract specifications of the leases and of the download jobs, and proofs that
   `RelayLeases`, `TorLeases` and `DownloadJobs` implement them.

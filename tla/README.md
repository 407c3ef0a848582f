# OpenCodeServer: a verification development in TLA+

OpenCodeServer is a macOS agent, written in Rust, that keeps one OpenCode HTTP
server running for the user, and a menu bar application, written in Swift, that
configures it and shows its status. This directory holds TLA+ models of the
program, the TLC configurations that check them on small instances, and proofs,
checked by TLAPS, that the most important properties hold for every number of
processes, commands, faults and crashes.

    tlc -config SupStorage.cfg MCSupervisor      # any .cfg of the table below
    tlc -config CredentialAccess.cfg MCCredentials
    tlc -config Ipc.cfg MCIpc
    tlc -config CredentialJournal.cfg MCCredentialJournal
    tlc -config Registration.cfg MCRegistration
    tlapm SupervisorSafety.tla                   # any of the proof modules

## 1. The system

The launchd agent `opencode-agent` (`rust/src/bin/agent.rs`) runs one thread
with one kqueue loop: each iteration handles signals, ticks the supervisor and
dispatches the batch of socket events. Workers are short-lived threads with one
result slot each, polled by `tick`. The agent is replaced by launchd whenever
it exits (`KeepAlive`); OpenCode is started in a process group of its own and
*survives* the agent. The application, the command line tool and other clients
talk to the agent over a Unix socket: one JSON request, one answer, or a
subscription to status changes.

| Component | State | Operations | Hard behaviour | Correct when |
|---|---|---|---|---|
| **Supervisor** `supervisor/mod.rs`, `lifecycle.rs`, `launch_transaction.rs`, `process_exit.rs` | `server_state`, the managed process, restart and port timers, stop deadline, backoff index, deferred actions | Start, Stop, Restart, ContinueStop, ForceStop; tick; start_now; begin_stop; exit completion | every handler saves to disk in the middle and each save may fail or stay uncertain; actions are deferred and resumed; timers and commands race; the agent may die anywhere | one server at a time; no start against the user's wish; no deferred action is lost; a Stop ends or says why not |
| **Runtime state and durability gate** `runtime_state.rs`, `supervisor/runtime_durability.rs` | `state.json`: desired state, process record, launch marker; the gate's flags | load, atomic save, retry every second | rename done, directory sync failed: visible but maybe not durable; an existing file that cannot be read | what was acknowledged survives a power loss; retries end; a live process is always evidenced |
| **Reattachment** `supervisor/reattach.rs`, `reattach_policy.rs` | recorded identity, unverified record | inspect, health check, inspect again, decide; recheck every 3 s | the process changes between the two inspections; the PID is recycled; the leader is gone and its group is not | never a second server beside an unresolved record; blocks end when the process is gone |
| **Owned process** `process.rs`, `process_cleanup.rs`, `process_group.rs` | child or attached, identity, pending group cleanup | spawn, poll, signal, bounded stop of a child that could not be confirmed | survivors of a failed spawn; descendants that outlive the leader; signals to a recycled group | signals reach only what the agent owns; an exit completes only when the group is empty |
| **Health checks** `health.rs`, `supervisor/health.rs`, `health_worker.rs` | one request in flight, its key | dispatch, poll, apply | an answer that belongs to an earlier process or configuration | no stale answer is applied |
| **Credentials** `supervisor/credential.rs`, `credential_grant.rs`, `keychain.rs` | account, password, state, read in flight | configuration change, read, store, remove, retry | a read answered after the account or password changed; a denied read; an overdue one | no stale password is used; a start waits for the read and resumes |
| **Version query** `supervisor/version.rs`, `version_query.rs`, `version_cleanup.rs` | worker, cached version, quarantine | query, time out, clean up | a query that outlives its bound or its executable | one query at a time; the group it spawned is cleaned up |
| **IPC** `ipc.rs`, `protocol.rs` | pending handshakes, subscribers, listener | accept, read, dispatch, push, time out | descriptor reuse within one event batch; limits; slow subscribers | limits hold; the listener comes back; whole lines, never an older status after a newer one; a subscriber catches up |
| **Registration** `ServiceRegistrationTransaction.swift`, `OpenCodeServerAgentRegistrationController*.swift`, `ServiceController.swift` | phase and generation in memory; the stored record with its attempt; the committed version | bootstrap, register, unregister, repair; the timers; the callback of unregister; verification by an answer | the application quits between two phases; late timers and callbacks; a clear that a crash undoes; the old build still answers | a bounded number of attempts, whatever crashes; a version is committed once its build ran; what was unticked stays so; a transaction ends |
| **Credential journal** `CredentialMutation*.swift`, `CredentialMigration*.swift`, `CredentialSaveTransaction*.swift` | journal, Keychain items, configuration file; the delivery in flight, the deferred actions | stage, commit, roll back, migrate, recover, deliver, acknowledge, defer | the application quits or power is lost between any two of four stores; saves and deliveries overlap; the file changes under a recovery | the agent is told of each change before it starts; no password is left behind, none in use is removed; a notice is delivered in the end |
| **Subscription client** `StatusSubscription.swift`, `IPCClient.swift`, `ServiceController.swift` | connection generation, retry | connect, receive, reconnect | a late message of an earlier connection | the menu shows the latest status |
| **Configuration, paths, platform, CLI, windows** | files; none | validation, system calls, layout | none that interleaves | out of scope, see section 8 |

How they interact. A command enters through the IPC dispatch and is applied by
the supervisor between two ticks. The supervisor saves the desired state, then
acts; a start needs the gate open, a valid configuration and a usable password,
saves a *launch marker*, spawns, and replaces the marker by the process record.
The kernel tells it of exits; the tick polls as well. After a restart the new
agent reads `state.json` and reattaches, blocks, or converges to the desired
state. The hazards that follow from this are listed, each with its line, in
`PROJECT.json`.

## 2. Modules

| Module | Contents |
|---|---|
| `RuntimeStore` | what one atomic save leaves on disk and in the durability gate; pure operators |
| `Supervisor` | the event loop, the kernel's steps, crashes and power loss; the properties; the mutants of its definitions |
| `Custody` | the abstract specification: a launch is announced before it happens, one server is alive, whoever reads the file finds evidence of it |
| `SupervisorInvariant` | the refinement mapping to `Custody` and the inductive invariant `IInv` |
| `MCSupervisor` | the instance for TLC, with its symmetry |
| `SupervisorTypes` | proof of type correctness |
| `SupervisorSafety` | proof of `IInv`, and of `OneServer` and `LiveIsEvidenced` from it |
| `SupervisorPromises` | proof of the other safety properties of the event loop: acknowledged commands, waiting exits, ForceStop, remaining groups, Stopped, wanted starts |
| `SupervisorRefinement` | proof that the event loop implements `Custody` |
| `Credentials` | the credential controller, the grant marker, Keychain with its consent dialog, and the application's notices; the properties; the mutants |
| `MCCredentials` | the instance for TLC |
| `CredentialsProofs` | proof of the invariant of `Credentials` and of its four safety properties |
| `Ipc` | the control socket: the agent's loop with its batches of events, handshakes, answers and subscribers; kernel and peers as environment; the properties; the mutants |
| `MCIpc` | the instance for TLC |
| `IpcProofs` | proof of the invariant of `Ipc` and of its four other safety properties |
| `CredentialJournal` | the application's journal, its two save transactions, the recovery of a migration, the delivery of notices and the actions that wait for it, with the agent as far as notices concern it; the properties; the mutants |
| `MCCredentialJournal` | the instance for TLC |
| `CredentialJournalProofs` | proofs about `CredentialJournal`: its invariant, what a recovery may remove, that the agent is told of every change, that no item is left behind |
| `Registration` | the registration of the agent: controller, stored record, timers and callbacks, with Service Management, launchd and the agent as environment; the properties; the mutants |
| `MCRegistration` | the instance for TLC |
| `RegistrationProofs` | proof of the invariant of `Registration`, of its safety properties, and that a transaction in flight is driven and only goes ahead |

`Supervisor` keeps of the credentials only what a start asks for (usable or not,
a read in flight); `Credentials` keeps of the supervisor only what the
credentials depend on (is a process running, and with which configuration).
`Ipc` keeps of the supervisor that its status changes when a command, an event or
a tick is handled; `Supervisor` keeps of the socket that commands come one at a
time. `CredentialJournal` keeps of the agent which account it knows, which one
OpenCode runs with, and whether it holds a password that is still the item's;
`Credentials` keeps of the journal an item with its notice. `Registration` keeps
of the agent its build.

## 3. How Supervisor corresponds to the code

**Granularity.** The loop is one thread, so a handler is one action, except where
something durable or slow happens in the middle: there the handler is cut by
`pc` and the kernel, a crash or a power loss may come in between. A `start_now`
is thus `start` (checks and marker save), `spawn` (fork, exec, identity),
`commit` (the record replaces the marker); an exit is `idle` (record cleared)
and `exited_explicit` or `exited_unexpected` (what follows from it); a retry is
`unwind` or `resume`; boot is `down`, `reattach`, `probe` (around the health
check) and `converge`.

| Variable | In the code |
|---|---|
| `leader`, `residue`, `escaped` | the kernel's view of each instance: its direct process (gone, alive, exited and waitable, or a recycled PID of a foreign program), whether its group has other members, whether it left the group |
| `disk.visible`, `disk.durable` | `state.json` as opened now, and as it may come back after a power loss |
| `runtime`, `gate` | `Supervisor.runtime`; `runtime_state_loaded`, `_reliable`, `_retry_pending`, `launch_pending_clear_requested` |
| `pending` | `pending_process_exit`, `pending_lifecycle_intent`, `pending_durable_convergence` |
| `process`, `unverified`, `spawned` | the `ManagedProcess`, the unverified record, the process that spawn returned before it is committed |
| `life` | `server_state`, the armed instants, `restart_after_stop`, `restart_attempt_index`, the recovery incident |
| `credentials` | as far as a start depends on it: usable or AccessPending, a read in flight |
| `acked`, `budget` | history: the desired state last confirmed to a user; the bounds used so far |

An instance stands for a PID with its group and its kernel start identity; an
instance can be spawned again once it is gone and no live record or memory names
it (`Fresh`). A recycled PID is the leader state `reused`.

**Abstractions.** An armed instant may fire at any time, so every order of
timers is covered, and so is every backoff length. A notification is the one
metadata save it costs. The bounded waits inside spawn and
`shutdown_unregistered_child` are one step whose outcome is one of the code's:
confirmed child, survivor of unconfirmed identity, survivor of a failed
registration, error of each kind. The configuration and the health endpoint are
verdicts (`config`, `drift`, `sick`). `tick` calls its parts in a fixed order;
the model takes them in any order, which only adds behaviours. `Unverified`
rechecks happen at any time instead of every three seconds.

**Faults.** Every fault is one of thirteen kinds; the constant `Faults` says
which ones an instance has and `MaxFaults` how many may happen in a behaviour.

**ReattachRace.** `decide_after_health` does not look at the process group
(finding 2). With `ReattachRace = FALSE` the leader does not exit during the
health check of a reattachment, the one step in which that matters; the runs
that state `OneGroup` and `StoppedIsHonest` use that value, so that they say
something of everything else. The theorems do not depend on it: `OneServer`,
`LiveIsEvidenced` and the refinement hold with the race.

### How Credentials corresponds to the code

Every function of `credential.rs` is an operator on the controller record, with
the marker and the configuration as arguments where the code passes them;
handlers are actions. `Probed` keeps the order of the branches of
`merge_credentials`, `Discarded` the two barriers of `apply_credential_read`.

| Variable | In the code |
|---|---|
| `item`, `trusted` | Keychain: each account's password, and the items this build decrypts without a dialog |
| `plist`, `notice` | the account of `config.plist`; the journal's record, staged or pending, that the agent has not acknowledged |
| `latest`, `active` | `Supervisor.latest_config` and `active_config`: user name and password |
| `launched` | what the running OpenCode was started with (its fingerprint) |
| `cred` | the `CredentialController`: state, stale flag, removal barrier, the accounts whose one automatic read is spent, the read in flight with its answer |
| `grant` | the marker file: account, is it of this bundle version, is it of this team |

The worker is `ReadSilently`, `AnswerDialog` and `ReadFails`: while the dialog is
open the user, the settings window, the file and the agent move on. `PollRead`
is the tick that finds the answer, with the start it resumes. `Adopt` is the
health answer that verifies the fingerprint of a process found running. A wanted
start is one that the model may take or leave: the desired state is
`Supervisor`'s. A transaction of the settings window is one step here, an item
with its notice; its phases are `CredentialJournal`'s.

**ReadRace.** A decrypt and the poll of its answer are up to 200 ms apart
(`CREDENTIAL_REFRESH_RECHECK`). With `ReadRace = FALSE` no item is written in
that interval; `AvailableIsCurrent` holds only then (finding 3). The other
theorems do not depend on it.

### How Ipc corresponds to the code

The loop of `agent.rs` is `pc`: `tick` (signals, `Supervisor::tick`, the push),
`prepare` (`prepare_wait`), `wait` (kqueue), `dispatch` (one action for each event
of the batch, in any order), `accept` (one action for each accept of
`finish_event_batch`). In between, peers connect, send, read and leave, and
deadlines pass.

| Variable | In the code |
|---|---|
| `conn` | for each descriptor the `PendingConnection` or the stream of `Subscribers` it belongs to, with its deadline (passed or not), its kqueue filters and what is left of its response |
| `listening`, `backlog` | `listener_enabled` with the listener's filter; the kernel's queue for accept |
| `batch`, `accepting` | the events `EventQueue::wait` copied and nobody handled yet; `listener_ready` and the accepts done |
| `status`, `pushed`, `heartbeat` | the status, numbered; `last_fingerprint`; has `SUBSCRIBER_HEARTBEAT` elapsed |
| `peer` | the other ends: what they sent and have not read yet, what they read last |

A line is `LineUnits` units, so that a write can take part of one: `WRITE_BUDGET`
and the room of the socket cut it. What a unit is about, a status, is its number;
two numbers may have the same fingerprint. A request is one of the three kinds
`classify_request` tells apart, a part of a line, or nothing. The state
`AwaitingResponse` is never seen between two actions: the loop answers a request
in the handler that read it.

Abstractions. Each failure of a system call on a connection, and a deadline that
passes inside a handler, is the alternative `Drop` of `AdvanceWrite` or the
refusal in `Accept`. A response longer than 64 KiB is left out: a status is far
smaller. What a peer does before it is accepted is seen by the agent as done just
after. A peer whose connection the agent closed may still read what was written,
which concerns nobody. The agent may stop anywhere: two agents that race for the
socket's path (`prepare_socket_path`) are left to launchd, which runs one.

### How CredentialJournal corresponds to the code

The main thread runs one handler at a time; a handler is one action, with the
outcome of each of its writes chosen by the action. What a handler hands to a
worker (Keychain, a probe, a request to the agent) is an action of its own, and
what the worker posts back is the next handler.

| Variable | In the code |
|---|---|
| `app` | is the application down, up, or up with a journal it could not open (`CredentialMutationCoordinator.unavailable`) |
| `journal` | `CredentialMutationJournal.state`: generation, the pending and the staged notice, the migration with its phase |
| `disk` | the journal's file and the account of `config.plist`, each with the versions that a power loss may bring back |
| `item` | each account's item in Keychain, by the number of the save that wrote it |
| `editor`, `txn` | what the Settings window keeps after a save that failed; the save in flight: `write`, and for a migration `inspect`, `removeOld`, `removeNew` |
| `recovery` | the reconciler's `inFlightGeneration` with its worker: `probe`, `validate`, `reread`, `removeNew`, `removeOld` |
| `delivery`, `status` | the coordinator's request to the agent; the account that the last status named |
| `wish` | "Allow & Restart": deferred behind the acknowledgement, waiting for the grant, redeemed or refused |
| `agent` | accounts of `latest_config` and `active_config`, the credential state, the password it holds |

A write is durable, fails before its rename, or leaves it uncertain whether the
rename survives a power loss; `restoreOrRetain` follows the second case, memory
included. A crash between two writes of one handler is the failure of the second
followed by a crash. `Offers` is what the window proposes for the state of its
editor; the dialogs in front of a save are left out. Somebody may edit
`config.plist` by hand at any time but during a save; `BeliefIsNoticed` and
`NoneLeftBehind` say nothing of behaviours in which that happened, since nobody
writes a notice for it; `CleanupSparesActive` does, it is what the repeated look at the
file is for.

**AckRace, StageOver.** Both are FALSE in the passing run. `AckRace` lets a notice be
acknowledged while the next save writes its item (finding 4). `StageOver` lets a
save begin while an earlier one left its notice staged: that is a journal whose
commit failed. `stage` replaces the notice, so that a Keychain that then refuses
the second write makes its rollback forget the first, which did land (section 7,
the fourth of the narrower ones). `Invariance`, `CleanupSpares` and `NoneLeft` hold
with either; the theorems about notices assume that both are FALSE.

### How Registration corresponds to the code

A handler is an operator on the record `State`, named as the function it stands
for, and calls the others as the code does; an action applies one to the
variables. The result of each call of a handler (two writes of the record,
`register()`, the window it opens) is its argument `o`.

| Variable | In the code |
|---|---|
| `controller` | `phase`, `generation`, `repairCompletion` |
| `timers` | what `MainQueueServiceUpdateScheduler` has still to run, each with the generation and phase its closure compares |
| `callbacks` | completions of `unregister` |
| `defaults`, `stored` | the record and `RegisteredBundleVersion` as this process reads them; what may be read after a crash: `save` calls `synchronize`, a clear does not |
| `service` | `SMAppService.status`, with the lag behind an accepted unregistration |
| `agent`, `answer` | the build of the running agent; the one a status under way names |
| `ran`, `history` | history: builds that ran; the last attempt of the transaction, its calls of `register()`, whether the agent is still wanted |

A timer may fire at any time, so the delays (and the longer window after a cold
start) are covered by every order. A crash between a write and what follows it is
the failure of what follows and then a crash. A new version may be installed
while the application is down.

What the model shows besides: `register()` asked for in Settings does nothing while a
failed transaction is remembered; while Service Management does not call back,
a repair is answered with operationInProgress, since `unregister` has no timeout;
a cancel drops the completion of a repair uncalled; a repair within one version may be
proved by a late answer of the agent it replaces, which is of the same build; a
clear that a crash undoes makes the next launch resume what the user cancelled.
`RemovalStands` therefore speaks of one life of the application, `CommitIsProven`
of builds.

## 4. What the runs show

All `Supervisor` runs have two instances: two are enough for a second server, or a second
group, beside the first, which is what the properties are about; a third one
could only repeat what the second shows, and the theorems cover every number.
Instances are symmetric in the safety runs (nothing orders them); the liveness
run uses no symmetry. Deadlock is not checked: the commands, faults and crashes
of a behaviour are bounded, and an agent with nothing to do rests.

| Run | Instance | Shows |
|---|---|---|
| `sup_storage` | `SupStorage.cfg`: storage faults, unreadable file, power loss, spawn failures, residue; 2 commands, 3 faults, 2 crashes, 1 recovery attempt | `OneServer`, `LiveIsEvidenced`, `StoppedIsHonest`, `AckedDesiredSurvives`, `ExitIsScheduled`, `ConvergenceIsScheduled`; the refinement `KeepsCustody` |
| `sup_identity` | `SupIdentity.cfg`: every fault of processes and identity, lost Keychain access; 2 commands, 3 faults, 2 crashes, 2 attempts | `IInv`, `OneGroup`, `SpawnIsWanted`, `KillIsOwn` |
| `sup_live` | `SupLive.cfg`: storage, spawn, residue, identity; 2 commands, 2 faults, 1 crash | the six liveness properties, under `FairSpec` |
| `credential_access` | `CredentialAccess.cfg`: two accounts, two passwords, 4 acts of the user or the environment | `IInv`, `PasswordBelongs`, `AvailableIsCurrent`, `RemovedStaysOut`, `StartIsAuthenticated`, and `GrantedReadConverges` under `FairSpec` |
| `ipc` | `Ipc.cfg`: two peers, one handshake and one subscriber at a time, batches of two events, lines of two units | `IInv`, `EventsAreCurrent`, `WholeLines`, `Backpressure`, `NeverGoesBack`, and `Accepted`, `Converges` under `FairSpec` |
| `credential_journal` | `CredentialJournal.cfg`: two accounts, 2 saves, 1 fault or edit by hand, 1 crash | `NoticeInv`, of which `IInv` is a part, `BeliefIsNoticed`, `NoneLeftBehind`, `StartIsInformed`, `CleanupSparesActive`, and `NoticeSettles` under `FairSpec` |
| `registration` | `Registration.cfg`: two versions, three attempts, windows of one check, 2 requests, 1 fault, 1 crash | `IInv`, `BudgetSurvives`, `RemovalStands`, and `TransactionEnds` under `FairSpec` |
| `start_unwanted`, `reattach_misses_group`, `credential_overtaken`, `notice_promoted`, `restart_deferred` | one cfg each | the five findings of section 7 |

Why the bounds are enough: three faults allow a fault in a save, in its retry and
in the process meanwhile; two commands a command that supersedes another; two
crashes an agent that dies while it repairs what the first left;
`MaxAttempts = 1` or `2`, in place of five, reaches the exhaustion of the backoff.
`ConvergenceIsScheduled` is checked, and proved, without the `keychain` fault: a password
that is read while an exit waits refutes it (section 7, the third of the narrower
ones). `SupIdentity.cfg` has that fault.

Two accounts are enough for a password of the wrong one, two passwords for an
outdated one. Four acts are what it takes to be granted one account, to leave it
while another one is read, and to come back: the case in which a read slot that
is not freed starves the granted account.

Two saves are what it takes for a notice to be pending while the next is staged,
or for a migration and its way back; the number of a save is the password it
wrote. Three saves pass as well (with the other bounds as they are). One fault
and one crash leave a journal, a file and an item in each combination a recovery
has to tell apart, and `budget.edits` shares the bound of the faults.

Three attempts are the code's own `maximumRegistrationAttempts`. Two versions are
one upgrade, one fault a refused call in any of the attempts (the later attempts
fail by themselves when no agent answers), two requests a repair that is overtaken by an
unticking. The windows have one check: a longer one only repeats it.

Two peers are what it takes to compete for a handshake, for the subscription and
for a descriptor number; a limit of one is reached, left and reached again.
Lines of two units are cut once, in a socket with room for one line, so that a
peer that does not read blocks both a response and a push; with batches of two
events, three may be ready. One change of the status makes a response outdated
while it is written. Peers come back without bound.

Every property is broken by at least one mutation of a definition that a
plausible bug would make (a dropped guard, a timer left armed, a marker not
looked at); the mutations are operators next to the definitions they replace and
are listed in `PROJECT.json`.

## 5. Fairness

`FairSpec` assumes weak fairness of what the agent is certain to do: a handler
that started ends (`StartStep`, `BootStep`, the resumptions), a due timer fires,
a scheduled save is retried, a managed process is polled. launchd restarts the
agent (`KeepAlive`), every iteration of the loop ticks, and a tick polls the
process, the retry and each timer; a wait never exceeds the poll interval.
Nothing is assumed of the user, of OpenCode (it may ignore SIGTERM for ever), of
the Keychain or of the faults; that some retry finally succeeds follows from the
bound on faults, that is from the assumption that a disk does not fail for ever.

For `Credentials` fairness is `Reload` (the configuration is rechecked every
minute, `CONFIG_RECHECK_INTERVAL`), `PollRead` (each tick) and `ReadSilently` (a
read that needs no dialog returns). Nobody has to answer a dialog:
`GrantedReadConverges` promises nothing while one is open.

For `Ipc` the loop goes on, deadlines and the heartbeat pass, launchd restarts
the agent. Two steps need strong fairness: `ListenerReturned`, since a batch may
be too small for all that is ready (`MAX_KEVENTS` is 16, twenty connections and
the listener may be), and the kernel queues a level-triggered filter that it
returned behind the others; and `Accept`, since an accept may fail but not each
time. Nothing is assumed of the peers: `Accepted` and `Converges` hold with peers
that never read, never send a whole line, or hold on for ever.

For `CredentialJournal` workers return and the main thread runs what they post; a
status is pushed at least every ten seconds (`SUBSCRIBER_HEARTBEAT`), on which
delivery is tried; the agent rechecks its configuration every minute and answers
requests (a bounded number is lost). Only for `DeferredRestartIsDone` something is
assumed of the user: who clicked "Allow & Restart" allows the read. Nothing is
assumed of saves, launches, edits, or OpenCode.

For `Registration` the main queue runs the timers that are due and Service
Management calls back; launchd, the agent, the user and the status of Service
Management may do nothing for ever.

## 6. What is proved

For every set of instances, every bound and every set of faults:

1. `TypeCorrect`: `Spec => []TypeOK`.
2. `Invariant`: `Spec => []IInv`.
3. `OneServerHolds`, `LiveIsEvidencedHolds`: two servers are never alive together;
   the file has the record or the launch marker of a live server.
4. `CustodyKept`: `Spec => Promise!Spec`. Every step of the event loop, with its
   crashes, failed saves and power losses, is a step of `Custody` or leaves the
   living processes and the evidence as they were.
5. `AckedDesiredSurvivesHolds`, `ExitIsScheduledHolds`, `KillIsOwnHolds`: a command
   that was acknowledged is in both files; an exit that waits has its save
   scheduled; ForceStop kills no foreign program.
6. `OneGroupHolds` and `StoppedIsHonestHolds`, which assume `~ReattachRace`: no server is
   started beside the group of an earlier one, and Stopped means that none is
   left. With the race TLC refutes `OneGroup` (finding 2).
7. `SpawnIsWantedHolds`, which assumes `"storage" \notin Faults`: servers are spawned
   only while Running is the stored wish. With failing saves TLC refutes it
   (finding 1); without them crashes, power losses and every interleaving remain.
   `ConvergenceIsScheduledHolds`, which assumes `"keychain" \notin Faults`: a start or a
   stop that waits for a durable save has that save scheduled. Section 7 says how
   a Keychain read breaks it.

The argument. `OneServer` is not inductive: to know that the spawn of `start_now`
finds nothing alive one needs that whatever is alive is managed or recorded as
unverified (`LiveIsHeld`), that a start is reached only with neither
(`StartIsFree`), that an armed timer or a deferred exit implies the same, and
that a leftover marker blocks every start (`Blocked`, `LaunchIsMarked`). These
in turn rest on the gate: a retry is only scheduled while the gate is closed, so
a deferred exit cannot be bypassed by a start (`GateIsClosed`). What the agent
knows must also be in the file, since the agent may die: `MemoryEvidence`,
`HeldIsRecorded`, `LaunchIsMarked`.

`SupervisorPromises` adds one invariant per promise to `IInv`. `DesiredIsKept`: a
running agent has no other desired state in memory that a later save could
write. `ExitIsKept`: the retry is scheduled at every point but between a durable
retry and the exit it resumes. `ChildIsOwn`: a child stays waitable until its
agent reaps it, so its PID names it. `GroupsAreKnown`: file and memory speak of
every group that is left, and an agent that holds nothing and is not blocked has
left none; the health check of a reattachment keeps this only if the leader is
still alive when it ends, hence the proviso. `StoppedIsFree`: whoever reports Stopped
holds nothing and is not blocked. `StartIsWanted`: with no save to repeat, whatever
may lead to a start came from a command that wants one, and a Stop takes it back.
`ConvergenceIsKept`: a convergence waits only in an agent that holds nothing and beside
no deferred exit, which would be resumed in its place.

Besides the provisos of 6 and 7 the assumptions are `NoInstAssumption` and
`BoundsAssumption`.

For any accounts, passwords and bounds of `Credentials`:

8. `CredentialInvariant`: `Spec => []IInv`.
9. `PasswordBelongsHolds`, `RemovedStaysOutHolds`, `StartIsAuthenticatedHolds`; and
   `AvailableIsCurrentHolds`, which assumes `~ReadRace`.

The argument. `AvailableIsCurrent` needs that what is available was not reported
as changed (`AvailableIsTrusted`) and that whatever is out of date is about to be
reported (`OutdatedIsNoticed`); that a read keeps this needs that its answer
still is what Keychain has, and of the account it was read for
(`AnswerBelongs`). The lemmas follow the code: what a probe, a merge, a refresh and
a start do to any sound controller, then one lemma for each kind of step. The
assumptions are `CredentialConstants` and `NoPasswordAssumption`.

For any peers, limits, batch sizes and line lengths of `Ipc`:

10. `IpcInvariant`: `Spec => []IInv`.
11. `EventsAreCurrentHolds`, `WholeLinesHolds`, `NeverGoesBackHolds`,
   `BackpressureHolds`.

The argument. A peer reads whole lines because what a connection will write next
continues what its peer was sent last (`Serves`), and because a push goes only to
streams whose last line is complete; the order of statuses needs that the status
of a response is not later than the present one and not older than what the peer
has. An event stays current because a handler touches only its own descriptor
(`Handled`), no two events of a batch are about one descriptor (`OneEventEach`,
which follows from `FiltersMatch`), and descriptors are given out only when the
batch is empty. `Wired` collects what connects connections and peers; the lemmas
`Closing`, `PeerChanges` and `ConnectionChanges` say how it is kept, and each
action is one lemma on top of them. The assumptions are `IpcConstants` and
`SendsAssumption`.

For any accounts and bounds of `CredentialJournal`:

12. `Invariance`: `Spec => []IInv`; `MemoryAgrees`: what the application remembers is
   what a relaunch would read. With and without the races.
13. `CleanupSpares`: no recovery and no save removes an item that the configuration
    names, or would name after a power loss. With and without the races.
14. `NoticeInvariance`, `BeliefNoticed` and `StartInformed`, which assume
    `~AckRace /\ ~StageOver`: an agent that has an outdated password is still to be
    told, and an OpenCode that the application starts has the current one.
15. `NoneLeft`, which assumes `[][OneFileLost]_vars`: every item that the
    configuration does not name is in the stored migration, as long as no power
    loss finds both files not flushed. With and without the races.

The argument for 13. `CleanupSparesActive` needs that a save or a recovery which may
remove an item does so only when `config.plist` was flushed since it changed
(`TxnOwns`, `RecoveryOwns`: `disk.plists = {}`), and that a save and a recovery never
overlap. The lemmas say what each journal operation and each write outcome does to
memory and file (`Persisted` keeps them equal in all three).

The argument for 14. `BeliefIsNoticed` says that an outdated password is mentioned in the
journal; what survives every step is stronger. `Told`: the mention is one that the
answer in flight does not clear, a staged notice, a pending one of another
generation than the acknowledged, or a migration that has still to commit its
notice. This needs that generations order the notices of a journal (`Ordered`), so
that an acknowledgement clears the notice it was sent for and no later one; that a
request in flight has a generation the journal has given out (`InFlight`); and that the
configuration does not leave the account of an outdated password, except for the
time of a migration to it (`Elsewhere`), since a notice for an account the
agent does not know would be of no use. `WriteTells` and `MigrationTells` say what
makes a rollback safe: while a save has its notice staged and its item not yet
written, whatever is outdated is told by something else, and a migration that ends
without a notice has removed its new item or never written it. `RecoveryTells` says the
same of what a recovery found on its probe, as long as it may act on it. Nothing is
claimed of an agent's account after an edit by hand, so `Heeded` then admits every
account; the part of the invariant about generations holds throughout. Both
conditions are needed: TLC refutes `BeliefIsNoticed` with `AckRace` alone (finding 4)
and with `StageOver` alone (three saves, two faults).

The argument for 15. `DiskCovers`: the journal in the file remembers every item but the
configured one, and still would if either file came back in an earlier version
while the other is durable. A write that drops a migration keeps this only if the
item it forgets is gone, so `SaveCovers` and `RecoveryCovers` say of each step of a save
and of a recovery which items exist and which one is configured, from the answers
of their workers; and `EditorCovers` that what the Settings window keeps after a failed
save can be saved again without leaving an item. Only the lemma about a power loss uses
`OneFileLost`. It is needed: with three saves, three faults and two crashes TLC shows
an item that is left. The cleanup of the old item fails, so that the journal keeps it
as work to do; the user name is set back to the old account, by a configuration
save whose directory sync fails; the recovery of the next launch finds the old
account in `config.plist` and ends the migration, again without certainty; and a
power loss brings back the other `config.plist` while the journal without the
migration stays. It takes two failed directory syncs and then a power loss.

The assumption is `JournalConstants`. Before the proofs TLC checked the inductive
invariants in larger instances than the run's: `NoticeInv` with three accounts, and with
three saves; the one of `NoneLeft` with three saves, three faults and two crashes, and
with both races.

For any versions, attempts and bounds of `Registration`:

16. `Invariance`: `Spec => []IInv`.
17. `Budgeted`, `RemovalIsFinal`, and `Proven`, the invariant that a version is
    committed only after its build ran.
18. `NeverStranded`: a transaction in flight always has the timer of its phase or
    the completion of its unregistration still to come.
19. `Advances`, which states `TransactionAdvances`: a transaction only goes ahead
    (by attempt, step and checks left), until it ends or a repair takes its place.

The argument. That a crash does not give attempts back needs that whatever a
crash may bring back is as far as the transaction got (`CrashResumes`,
`RecordsHold`), and that at most one timer of the present generation is due, the one
of the phase (`TimersMatch`). Every operator on `State` has a lemma that it keeps
`Sound`, and the actions follow from these. The assumption is `RegistrationConstants`.

18 and 19 are the safety half of `TransactionEnds`. That what continues a transaction
is there (`Driven`, part of `IInv`) holds because a timer that is not the phase's, or a
completion of another attempt, is taken without touching it: a current timer is
the phase's by `TimersMatch`. Going ahead has a lemma for each operator, naming the
attempt and step it reaches at least; `Ahead` has no endless descent, as attempts
are bounded and checks are numbers. What remains for TLC is that the timers and
completions are served. `TransactionAdvances` is stated in the module and in no
run; TLC finds no violation of it when it is added to `Registration.cfg`.

The proofs go by the actions of `Next`; the steps that several actions share
(saves, begin_stop, discarding a record) are lemmas of their own.

Model-checked only: the liveness properties of every module, which are out of
the prover's reach, as everything with fairness or ENABLED is.

## 7. Findings

Each is a counterexample that TLC finds in an instance without any fault but the
ones named.

1. **A start against the stored wish** (`start_unwanted`). Restart; then Stop,
   whose save is uncertain, so that its intent waits with `restart_after_stop`
   still set; the process exits and its record cannot be cleared, so it is
   marked unverified; the recheck finds it gone, sees `restart_after_stop` and
   starts a server although `Stopped` is desired (`reattach.rs:192-227`, against
   ADR 0003).
2. **A group that is not looked at** (`reattach_misses_group`). The leader exits
   during the health check of a reattachment and leaves descendants;
   `decide_after_health` discards its record and a second server is started
   beside them, against the comment at `reattach.rs:21-25`.
3. **A change that is overtaken** (`credential_overtaken`). A read is answered;
   before the poll, Settings rewrites the item and its notice is handled; the
   poll then applies the earlier password, sets Available and clears
   `credential_stale`, so that no reload asks again and the next Restart uses the
   old password. The flag's comment (`credential.rs:13-18`) lets only a fresh read
   clear it. The interval is at most 200 ms; the removal and account barriers of
   `apply_credential_read` have no counterpart for a change.
4. **A notice before its change** (`notice_promoted`). The notice of one save is in
   flight while the next save has staged its own and its worker writes the item.
   The acknowledgement promotes the staged notice as if the application had
   crashed (`CredentialMutationJournal.swift:280-298`); it is delivered and acknowledged,
   the agent reads the password that is about to be replaced, and the item is
   written. The commit finds nothing staged and fails; its comment relies on a
   staged notice that is no longer there. The agent goes on with the old password.
5. **A restart that waits for itself** (`restart_deferred`). The user name is
   changed while OpenCode runs. The notice of the new account is delivered
   once a status names that account, and while OpenCode runs the status names the one
   it runs with; "Allow & Restart" is deferred until the notice is acknowledged.
   Start and Restart are refused meanwhile; Stop from the menu ends it.

Four narrower ones. Two were found with earlier forms of the properties of `Supervisor`: a
lifecycle intent kept by an uncertain save loses its scheduled retry when
another save, such as the clearing of an exited process, is durable
(`runtime_durability.rs:156`, `process_exit.rs:226`), so that only a much later
retry consumes it, against the comment at `mod.rs:186-190`; and a launch marker whose
clearing was scheduled stays behind when a newer Start saves durably and is then refused for
Keychain access (`lifecycle.rs:30`), until another command or save. The third is a
start that is forgotten, which TLC finds in `ConvergenceIsScheduled` with the faults
`storage` and `keychain` together: the user stops OpenCode and starts it again
before it has exited; the exit's record is cleared by an uncertain save, so that the
exit waits; a password is read meanwhile, and its start is deferred as a
convergence beside it; the durable retry resumes only the exit
(`runtime_durability.rs:230`, an `else if`), which ends in Stopped. The convergence stays
behind without a retry although Running is desired, until some later save that
failed is repeated, and is then carried out; against the comment at `mod.rs:191-194`
that the retry consumes it. The passing run has no `keychain`, as the theorem demands.
The fourth is a change of which the agent is not told, which TLC finds in
`BeliefIsNoticed` with `StageOver`, three saves and two faults: the second save writes the
item, but its commit fails, so that its notice stays staged; the third save stages
its own notice in its place (`CredentialMutationJournal.swift`, `stage` asks only for a
migration), Keychain refuses the write, and the rollback leaves no notice although
the item of the second save stands.

Further behaviours that the model shows and no document speaks of: a Start that
arrives during a Stop is stored and acknowledged while the stop ends in
Stopped; a start that waits for a Keychain read is dropped if that read yields
no password (`lifecycle.rs:264-267`); a marker save that fails outright during an
automatic start defers nothing; a healthy answer after a Stop whose signal
failed turns Failed into Healthy (`supervisor/health.rs:126`); after a removal
the granted reads of every other account are dispatched and discarded until the
user authorizes one (`credential.rs:555`); a denied read that is discarded
because the account changed leaves the marker that promised a silent one; a
subscriber whose response was encoded before a change and written after it hears
of the change only with the next push, at the latest after the heartbeat of ten
seconds (`Converges`), although `Subscribers` are documented to be pushed every
change: it was not one yet.

## 8. Not modelled, and why

Configuration validation, fingerprints, file permissions, paths and the command
line tool are sequential and stateless: unit tests reach them. The platform layer
is system calls, modelled from outside as the kernel's steps. Windows, menus and
layout have no protocol. Of the process layer, the endpoint preflight and the
byte-level handling of child output are left out: they only decide which error a
spawn returns.

The version query is informational: its answer is shown and nothing is decided by
it. Of the health check, what an applied answer does is modelled; the single-flight
worker, whose key and generation keep late answers out, is not:
`Supervisor` applies an answer only to the process it is about. The
subscription client of the application is a reader thread that reconnects after a
pause: `Ipc` has it as a peer that comes back without bound, `CredentialJournal` as
a status that may be out of date. The registration of the application itself at
login is one call.

Across modules: `CredentialJournal` and `Credentials` are not composed. Each has the
other's side as its environment, with more behaviours than the other has (notices
that are lost or late; an agent that may start or stop at any time).

## 9. What would come next

The single-flight worker of health checks and version queries; `Supervisor`
composed with `Credentials` (a start that waits for a read).

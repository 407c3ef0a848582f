----------------------------- MODULE Supervisor -----------------------------
(***************************************************************************)
(* The supervisor of the OpenCodeServer agent: one event loop that starts, *)
(* stops, restarts, reattaches and recovers one OpenCode process, and that *)
(* keeps in state.json the evidence a replacement agent needs              *)
(* (rust/src/supervisor/*.rs, rust/src/process*.rs).                       *)
(*                                                                         *)
(* The loop is one thread. A handler that runs to its end in one state     *)
(* change is one action; one that performs a durable write, a spawn or a   *)
(* network call in the middle is split at that point by pc, so that the    *)
(* operating system's steps and a crash of the agent may come in between.  *)
(***************************************************************************)
EXTENDS RuntimeStore

CONSTANTS
  MaxAttempts,   \* length of RESTART_BACKOFF
  MaxCommands,   \* bound: lifecycle commands in a behaviour
  MaxFaults,     \* bound: faults of the environment in a behaviour
  MaxCrashes,    \* bound: exits of the agent and power losses
  Faults,        \* the kinds of fault that happen in this instance
  ReattachRace   \* may the leader exit during the health check of a reattach?

FaultKinds == {"storage", "unreadable", "inspect", "escape", "residue",
               "reuse", "spawn", "identity", "config", "drift", "sick",
               "keychain", "power"}

ASSUME BoundsAssumption ==
  /\ MaxAttempts \in Nat /\ MaxCommands \in Nat
  /\ MaxFaults \in Nat /\ MaxCrashes \in Nat
  /\ Faults \subseteq FaultKinds
  /\ ReattachRace \in BOOLEAN

VARIABLES
  leader,      \* per instance: its direct process as the kernel sees it
  residue,     \* per instance: members left in its group without the leader
  escaped,     \* per instance: the leader left its dedicated group
  disk,        \* state.json
  runtime,     \* Supervisor.runtime
  gate,        \* the durability gate
  pending,     \* what waits for a durable save: exit, intent, convergence
  process,     \* Supervisor.process: the ManagedProcess
  unverified,  \* Supervisor.unverified_process_record
  life,        \* server state, timers and flags of the lifecycle
  credentials, \* the part of CredentialController a start depends on
  pc,          \* where the event loop is inside a handler
  trigger,     \* StartTrigger of the start_now in progress
  spawned,     \* the ManagedProcess spawn returned, not yet committed
  acked,       \* history: the desired state last saved durably, if known
  budget       \* history: bounds already used

osVars    == <<leader, residue, escaped>>
storeVars == <<disk, runtime, gate, pending>>
ownVars   == <<process, unverified>>
vars == <<leader, residue, escaped, disk, runtime, gate, pending, process,
          unverified, life, credentials, pc, trigger, spawned, acked, budget>>

Commands == {"Start", "Stop", "Restart"}

ServerStates == {"Stopped", "Starting", "Healthy", "Unhealthy", "Stopping",
                 "StopTimedOut", "WaitingToRestart", "Failed"}

StoppingStates == {"Stopping", "StopTimedOut"}

(* ManagedProcess: Child while the agent that spawned it lives, Attached   *)
(* after a restart. cleanup is PendingGroupCleanup ("signalled" once       *)
(* SIGTERM went to the group, "refused" once signals are forbidden),       *)
(* failed is identity_failed, basis says which configuration a health      *)
(* check may use (active_config, or the latest one of a stale attachment). *)
Process == [kind : {"none", "child", "attached"}, inst : Inst \cup {NoInst},
            unconfirmed : BOOLEAN, cleanup : {"none", "signalled", "refused"},
            failed : BOOLEAN, basis : {"none", "active", "stale"}]

NoProcess == [kind |-> "none", inst |-> NoInst, unconfirmed |-> FALSE,
              cleanup |-> "none", failed |-> FALSE, basis |-> "none"]

Child(i, unconfirmed, cleanup, basis) ==
  [kind |-> "child", inst |-> i, unconfirmed |-> unconfirmed,
   cleanup |-> cleanup, failed |-> FALSE, basis |-> basis]

Attached(r, basis) ==
  [kind |-> "attached", inst |-> r.inst, unconfirmed |-> r.unconfirmed,
   cleanup |-> "none", failed |-> FALSE, basis |-> basis]

(* Mutant of Record: a survivor of unconfirmed identity is not recorded.   *)
RecordConfirmedOnly(p) ==
  [inst |-> IF p.unconfirmed THEN NoInst ELSE p.inst,
   unconfirmed |-> p.unconfirmed]

Record(p) == [inst |-> p.inst, unconfirmed |-> p.unconfirmed]

(* restart_attempt_index, an index into RESTART_BACKOFF.                    *)
Attempts == 0..MaxAttempts

(* The state of a lifecycle. The instants are armed or not; an armed one   *)
(* may fire at any time. restart_attempt_index is attempts,                *)
(* recovery_incident_active is incident; port_retry is next_port_retry     *)
(* together with the trigger it will use.                                  *)
Life == [server_state : ServerStates, restart_after_stop : BOOLEAN,
         group_cleanup_recovery : BOOLEAN, stop_deadline : BOOLEAN,
         next_restart : BOOLEAN, port_retry : Triggers \cup {"none"},
         attempts : Attempts, incident : BOOLEAN]

InitialLife ==
  [server_state |-> "Stopped", restart_after_stop |-> FALSE,
   group_cleanup_recovery |-> FALSE, stop_deadline |-> FALSE,
   next_restart |-> FALSE, port_retry |-> "none", attempts |-> 0,
   incident |-> FALSE]

(* pending_process_exit, pending_lifecycle_intent and                      *)
(* pending_durable_convergence; a convergence that starts is its trigger.  *)
Pending == [exit : {"none", "explicit", "unexpected"},
            intent : Commands \cup {"none"},
            convergence : Triggers \cup {"Stop", "none"}]

NothingPending == [exit |-> "none", intent |-> "none", convergence |-> "none"]

Credentials == [state : {"usable", "AccessPending"}, in_flight : BOOLEAN]

PCs == {"down", "reattach", "probe", "converge", "idle", "start", "spawn",
        "commit", "unwind", "resume", "exited_explicit", "exited_unexpected"}

Budget == [commands : 0..MaxCommands, faults : 0..MaxFaults,
           crashes : 0..MaxCrashes]

TypeOK ==
  /\ leader \in [Inst -> {"gone", "alive", "exited", "reused"}]
  /\ residue \in [Inst -> BOOLEAN]
  /\ escaped \in [Inst -> BOOLEAN]
  /\ disk \in Disk
  /\ runtime \in RuntimeState
  /\ gate \in Gate
  /\ pending \in Pending
  /\ process \in Process
  /\ unverified \in BOOLEAN
  /\ life \in Life
  /\ credentials \in Credentials
  /\ pc \in PCs
  /\ trigger \in Triggers \cup {"none"}
  /\ spawned \in Process
  /\ acked \in Desired \cup {"none"}
  /\ budget \in Budget

-----------------------------------------------------------------------------
(* Control of the event loop, bounds, saves.                               *)

Return  == pc' = "idle" /\ trigger' = "none"
Goto(p) == pc' = p /\ trigger' = "none"
Call(t) == pc' = "start" /\ trigger' = t          \* start_now(t), a tail call

Spend(n) ==
  /\ budget.faults + n <= MaxFaults
  /\ budget' = [budget EXCEPT !.faults = @ + n]

Outcomes == IF "storage" \in Faults
              THEN {"Durable", "Failed", "Uncertain"} ELSE {"Durable"}

Cost(o) == IF o \in {"Failed", "Uncertain"} THEN 1 ELSE 0

(* persist_runtime leaves a scheduled retry alone.                         *)
MetadataOutcomes == IF gate.retry THEN {"Skipped"} ELSE Outcomes

(* One save of rs with outcome o, after n other faults in the same step.   *)
Write(rs, o, n) ==
  /\ disk' = SavedDisk(disk, rs, o)
  /\ Spend(n + Cost(o))

Managed == process.kind # "none"

Stopping == life.server_state \in StoppingStates

In(state) == [life EXCEPT !.server_state = state]

(* Mutant of Disarmed: the restart timer survives the command.             *)
PortTimerDisarmed(l) == [l EXCEPT !.port_retry = "none"]

(* next_restart, next_port_retry, the port deadlines and the pending       *)
(* trigger are always cleared together.                                    *)
Disarmed(l) == [l EXCEPT !.next_restart = FALSE, !.port_retry = "none"]

(* What the kernel shows of a recorded instance (inspect_record_identity); *)
(* a PID is recycled only once its group is empty.                         *)
Missing(i)   == leader[i] = "gone"

(* Mutant of GroupGone: the leader's exit counts as the group's.           *)
LeaderGone(i) == leader[i] = "gone"

GroupGone(i) == leader[i] = "gone" /\ ~residue[i]
Current(i)   == leader[i] = "alive" /\ ~escaped[i]
Busy(i)      == leader[i] \in {"alive", "exited"} \/ residue[i]

-----------------------------------------------------------------------------
(* Recovery backoff.                                                       *)

(* finish_recovery_failure                                                 *)
RecoveryFailed(l) ==
  [l EXCEPT !.next_restart = FALSE, !.server_state = "Failed",
            !.incident = FALSE]

Exhausted(l) == l.attempts >= MaxAttempts

(* Mutant of Rescheduled: the restart timer is not armed.                  *)
RescheduledUnarmed(l) ==
  IF Exhausted(l)
    THEN RecoveryFailed(l)
    ELSE [l EXCEPT !.attempts = @ + 1, !.server_state = "WaitingToRestart"]

(* schedule_next_restart                                                   *)
Rescheduled(l) ==
  IF Exhausted(l)
    THEN RecoveryFailed(l)
    ELSE [l EXCEPT !.attempts = @ + 1, !.next_restart = TRUE,
                   !.server_state = "WaitingToRestart"]

(* The notification a step emits costs one metadata save of the runtime.   *)
Notify(emits, rs, g, n) ==
  \E o \in (IF emits /\ ~g.retry THEN Outcomes ELSE {"Skipped"}) :
    /\ Write(rs, o, n)
    /\ gate' = SavedGate(g, rs, o)

-----------------------------------------------------------------------------
(* Lifecycle commands: lifecycle.rs.                                       *)

(* Mutant of Refused: an unverified record does not refuse a start.        *)
RefusedForAccessOnly == credentials.state = "AccessPending"

(* start_refusal                                                           *)
Refused == \/ unverified /\ ~Managed
           \/ credentials.state = "AccessPending"

Superseded(p) == [p EXCEPT !.exit = "none", !.convergence = "none"]

(* Mutant of SignalAuthorized: an attached process is not revalidated.     *)
SignalUnchecked ==
  LET i == process.inst IN
  \/ /\ process.kind = "child"
     /\ ~process.failed /\ process.cleanup # "refused"
     /\ leader[i] = "alive" => ~escaped[i]
  \/ process.kind = "attached"

(* ManagedProcess::signal: an owned child must not have failed its         *)
(* identity and must still lead its group; an attached one is revalidated. *)
SignalAuthorized ==
  LET i == process.inst IN
  \/ /\ process.kind = "child"
     /\ ~process.failed /\ process.cleanup # "refused"
     /\ leader[i] = "alive" => ~escaped[i]
  \/ process.kind = "attached" /\ Current(i)

(* SIGTERM may also fail because only a zombie is left in the group, or    *)
(* because the kernel would not tell the group's members (n = 1 fault).    *)
Signal(ok, n) ==
  \/ ok  /\ n = 0 /\ SignalAuthorized
  \/ ~ok /\ n = 0 /\ (~SignalAuthorized \/ leader[process.inst] = "exited")
  \/ ~ok /\ n = 1 /\ "inspect" \in Faults

(* begin_stop. SIGTERM itself changes no state here: the group may exit at *)
(* any time anyway, or never.                                              *)
BeginStop(restarting, rs, g, p, l, n) ==
  \/ /\ Unfinalized(rs, g)
     /\ n = 0
     /\ life' = [l EXCEPT !.server_state = "Failed"]
     /\ gate' = [g EXCEPT !.retry = @ \/ g.clearReq]
     /\ pending' =
          IF ~g.clearReq THEN p
          ELSE IF Managed
            THEN [p EXCEPT !.intent = IF restarting THEN "Restart" ELSE "Stop"]
            ELSE [p EXCEPT !.convergence =
                             IF restarting THEN "AfterStop" ELSE "Stop"]
     /\ Return
  \/ /\ ~Unfinalized(rs, g) /\ Managed
     /\ \E ok \in BOOLEAN :
          /\ Signal(ok, n)
          /\ life' = IF ok THEN [l EXCEPT !.server_state = "Stopping",
                                          !.stop_deadline = TRUE,
                                          !.restart_after_stop = restarting]
                           ELSE [l EXCEPT !.server_state = "Failed"]
     /\ gate' = g /\ pending' = p
     /\ Return
  \/ /\ ~Unfinalized(rs, g) /\ ~Managed
     /\ n = 0
     /\ gate' = g /\ pending' = p
     /\ \/ /\ unverified
           /\ life' = [l EXCEPT !.server_state = "Failed"]
           /\ Return
        \/ /\ ~unverified /\ restarting
           /\ life' = l
           /\ Call("AfterStop")
        \/ /\ ~unverified /\ ~restarting
           /\ life' = [l EXCEPT !.server_state = "Stopped"]
           /\ Return

ApplyStart(g, p, n) ==
  /\ n = 0
  /\ gate' = g /\ pending' = Superseded(p)
  /\ \/ /\ Managed
        /\ UNCHANGED life
        /\ Return
     \/ /\ ~Managed /\ Refused
        /\ life' = In("Failed")
        /\ Return
     \/ /\ ~Managed /\ ~Refused
        /\ life' = [Disarmed(life) EXCEPT !.attempts = 0]
        /\ Call("Cold")

ApplyStop(rs, g, p, n) ==
  BeginStop(FALSE, rs, g, Superseded(p),
            [Disarmed(life) EXCEPT !.restart_after_stop = FALSE,
                                   !.group_cleanup_recovery = FALSE], n)

ApplyRestart(rs, g, p, n) ==
  LET l == [Disarmed(life) EXCEPT !.restart_after_stop = Managed,
                                  !.group_cleanup_recovery = FALSE,
                                  !.attempts = 0]
  IN \/ /\ ~Refused /\ Managed
        /\ BeginStop(TRUE, rs, g, Superseded(p), l, n)
     \/ /\ n = 0 /\ (Refused \/ ~Managed)
        /\ gate' = g /\ pending' = Superseded(p)
        /\ \/ /\ Refused
              /\ life' = [l EXCEPT !.restart_after_stop = FALSE,
                                   !.server_state = "Failed"]
              /\ Return
           \/ /\ ~Refused
              /\ life' = l
              /\ Call("AfterStop")

Apply(c, rs, g, p, n) ==
  \/ c = "Start"   /\ ApplyStart(g, p, n)
  \/ c = "Stop"    /\ ApplyStop(rs, g, p, n)
  \/ c = "Restart" /\ ApplyRestart(rs, g, p, n)

DesiredBy(c) == IF c = "Stop" THEN "Stopped" ELSE "Running"

(* request_start, request_stop, request_restart: persist_desired_state is  *)
(* the transaction boundary, the command acts only once it is durable.     *)
Command(c) ==
  LET rs == [runtime EXCEPT !.desired = DesiredBy(c)] IN
  /\ pc = "idle" /\ gate.loaded
  /\ budget.commands < MaxCommands
  /\ \E o \in Outcomes, n \in 0..1 :
       /\ budget.faults + n + Cost(o) <= MaxFaults
       /\ budget' = [budget EXCEPT !.commands = @ + 1,
                                   !.faults = @ + n + Cost(o)]
       /\ disk' = SavedDisk(disk, rs, o)
       /\ \/ /\ o = "Durable"
             /\ runtime' = rs /\ acked' = rs.desired
             /\ Apply(c, rs, SavedGate(gate, rs, o),
                      [pending EXCEPT !.intent = "none",
                                      !.convergence = "none"], n)
          \/ /\ o = "Failed" /\ n = 0
             /\ gate' = SavedGate(gate, rs, o)
             /\ UNCHANGED <<runtime, acked, pending, life>>
             /\ Return
          \/ /\ o = "Uncertain" /\ n = 0
             /\ gate' = SavedGate(gate, rs, o)
             /\ runtime' = rs /\ acked' = "none"
             /\ pending' = [pending EXCEPT !.intent = c,
                                           !.convergence = "none"]
             /\ UNCHANGED life
             /\ Return
  /\ UNCHANGED <<osVars, ownVars, credentials, spawned>>

RequestStart   == Command("Start")
RequestStop    == Command("Stop")
RequestRestart == Command("Restart")

ContinueStop ==
  /\ pc = "idle" /\ life.server_state = "StopTimedOut"
  /\ life' = [In("Stopping") EXCEPT !.stop_deadline = TRUE]
  /\ UNCHANGED <<osVars, storeVars, ownVars, credentials, pc, trigger,
                 spawned, acked, budget>>

(* ForceStop kills the whole group.                                        *)
ForceStop ==
  LET i == process.inst IN
  /\ pc = "idle" /\ Stopping /\ Managed /\ SignalAuthorized
  /\ life' = [In("Stopping") EXCEPT !.stop_deadline = FALSE]
  /\ leader' = [leader EXCEPT ![i] =
                  IF process.kind = "child" THEN "exited" ELSE "gone"]
  /\ residue' = [residue EXCEPT ![i] = FALSE]
  /\ UNCHANGED <<escaped, storeVars, ownVars, credentials, pc, trigger,
                 spawned, acked, budget>>

(* Mutant of StopTimesOut: only an owned child is timed.                   *)
ChildStopTimesOut ==
  /\ pc = "idle" /\ process.kind = "child"
  /\ life.server_state = "Stopping" /\ life.stop_deadline
  /\ life' = [In("StopTimedOut") EXCEPT !.stop_deadline = FALSE]
  /\ UNCHANGED <<osVars, storeVars, ownVars, credentials, pc, trigger,
                 spawned, acked, budget>>

StopTimesOut ==
  /\ pc = "idle"
  /\ life.server_state = "Stopping" /\ life.stop_deadline
  /\ life' = [In("StopTimedOut") EXCEPT !.stop_deadline = FALSE]
  /\ UNCHANGED <<osVars, storeVars, ownVars, credentials, pc, trigger,
                 spawned, acked, budget>>

-----------------------------------------------------------------------------
(* start_now and the launch transaction.                                   *)

StartVars == <<osVars, ownVars, credentials, spawned, acked>>

(* Mutant of StartDeferred: the marker's clear is not scheduled.           *)
StartUnscheduled ==
  /\ pc = "start" /\ ~Ready(runtime, gate)
  /\ pending' = IF gate.clearReq \/ gate.retry
                  THEN [pending EXCEPT !.convergence = trigger] ELSE pending
  /\ life' = In("Failed")
  /\ Return
  /\ UNCHANGED <<StartVars, disk, runtime, gate, budget>>

StartDeferred ==
  /\ pc = "start" /\ ~Ready(runtime, gate)
  /\ pending' = IF gate.clearReq \/ gate.retry
                  THEN [pending EXCEPT !.convergence = trigger] ELSE pending
  /\ gate' = [gate EXCEPT !.retry = @ \/ gate.clearReq]
  /\ life' = In("Failed")
  /\ Return
  /\ UNCHANGED <<StartVars, disk, runtime, budget>>

(* A refusal of start_now leaves Failed; a recovery tries again later.     *)
StartRefusedWith(n) ==
  /\ life' = IF trigger = "Recovery" THEN Rescheduled(In("Failed"))
                                     ELSE In("Failed")
  /\ Notify(trigger = "Recovery" /\ life.incident /\ Exhausted(life),
            runtime, gate, n)
  /\ Return
  /\ UNCHANGED <<StartVars, runtime, pending>>

StartWithoutConfig ==
  /\ pc = "start" /\ Ready(runtime, gate) /\ "config" \in Faults
  /\ StartRefusedWith(1)

StartWithoutAccess ==
  /\ pc = "start" /\ Ready(runtime, gate)
  /\ credentials.state = "AccessPending" /\ ~credentials.in_flight
  /\ StartRefusedWith(0)

(* The start waits for the Keychain read in flight.                        *)
StartAwaitsRead ==
  /\ pc = "start" /\ Ready(runtime, gate)
  /\ credentials.state = "AccessPending" /\ credentials.in_flight
  /\ Return
  /\ UNCHANGED <<StartVars, storeVars, life, budget>>

(* Mutant of BeginLaunch: the spawn does not wait for the marker.          *)
BeginLaunchUnsaved ==
  LET rs == [runtime EXCEPT !.marker = TRUE] IN
  /\ pc = "start" /\ Ready(runtime, gate)
  /\ credentials.state = "usable"
  /\ \E o \in Outcomes : Write(rs, o, 0) /\ gate' = SavedGate(gate, rs, o)
  /\ runtime' = rs
  /\ pc' = "spawn"
  /\ UNCHANGED <<StartVars, pending, trigger, life>>

(* begin_launch: no child before the marker is durable.                    *)
BeginLaunch ==
  LET rs == [runtime EXCEPT !.marker = TRUE] IN
  /\ pc = "start" /\ Ready(runtime, gate)
  /\ credentials.state = "usable"
  /\ \E o \in Outcomes :
       /\ Write(rs, o, 0)
       /\ gate' = [SavedGate(gate, rs, o) EXCEPT
                     !.clearReq = @ \/ o = "Uncertain"]
       /\ runtime' = IF o = "Failed" THEN runtime ELSE rs
       /\ pending' = IF o = "Uncertain"
                       THEN [pending EXCEPT !.convergence = trigger]
                       ELSE pending
       /\ \/ /\ o = "Durable"
             /\ pc' = "spawn" /\ UNCHANGED <<trigger, life>>
          \/ /\ o # "Durable"
             /\ life' = In("Failed")
             /\ Return
  /\ UNCHANGED StartVars

(* No state of this agent or of the file speaks of the PID any more.       *)
Fresh(i) ==
  /\ GroupGone(i)
  /\ i \notin {runtime.process.inst, disk.visible.process.inst,
               disk.durable.process.inst, process.inst}

Spawn(i, as, state, left) ==
  /\ pc = "spawn" /\ Fresh(i)
  /\ leader'  = [leader EXCEPT ![i] = state]
  /\ residue' = [residue EXCEPT ![i] = state = "exited"]
  /\ escaped' = [escaped EXCEPT ![i] = left]
  /\ spawned' = as
  /\ pc' = "commit"
  /\ UNCHANGED <<storeVars, ownVars, life, credentials, trigger, acked>>

SpawnConfirmed ==
  /\ \E i \in Inst : Spawn(i, Child(i, FALSE, "none", "active"), "alive", FALSE)
  /\ UNCHANGED budget

(* terminate_unconfirmed_child: a child whose identity was not confirmed   *)
(* outlived the bounded stop, alive or with members left in its group.     *)
SpawnSurvivor ==
  /\ "identity" \in Faults /\ Spend(1)
  /\ \E i \in Inst, unconfirmed \in BOOLEAN :
       \/ \E left \in {FALSE, unconfirmed /\ "escape" \in Faults} :
            Spawn(i, Child(i, unconfirmed, "none", "none"), "alive", left)
       \/ \E cleanup \in {"signalled", "refused"} :
            Spawn(i, Child(i, unconfirmed, cleanup, "none"), "exited", FALSE)

(* schedule_port_release_retry and schedule_network_wait_retry, while      *)
(* their budget of time lasts.                                             *)
PortRetry(t) ==
  [life EXCEPT !.port_retry = t,
               !.server_state = IF t = "none" THEN @ ELSE "WaitingToRestart"]

(* What start_now does about a spawn that left no child, once the marker   *)
(* is durably cleared.                                                     *)
AfterSpawnError(error, t) ==
  LET failed == PortRetry("none") IN
  IF t # "Recovery" THEN [failed EXCEPT !.server_state = "Failed"]
  ELSE IF error = "AddrInUse" THEN RecoveryFailed(failed)
  ELSE Rescheduled([failed EXCEPT !.server_state = "Failed"])

(* ... and whether that ends a recovery with a notification.               *)
EndsRecovery(error, t) ==
  t = "Recovery" /\ life.incident /\ (error = "AddrInUse" \/ Exhausted(life))

(* abort_launch clears the marker; m is the save of the notification.      *)
SpawnFails ==
  LET rs == [runtime EXCEPT !.marker = FALSE]
      g  == [gate EXCEPT !.clearReq = TRUE]
  IN
  /\ pc = "spawn" /\ "spawn" \in Faults
  /\ runtime' = rs
  /\ Return
  /\ \E error \in {"AddrInUse", "AddrNotAvailable", "Other"},
        o \in MetadataOutcomes, m \in SaveOutcomes :
       /\ Write(rs, o, 1 + Cost(m))
       /\ gate' = SavedGate(SavedGate(g, rs, o), rs, m)
       /\ \/ /\ o # "Durable" /\ m = "Skipped"
             /\ life' = [PortRetry("none") EXCEPT !.server_state = "Failed"]
          \/ /\ o = "Durable" /\ m = "Skipped"
             /\ \/ error = "AddrInUse" /\ trigger = "AfterStop"
                \/ error = "AddrNotAvailable"
             /\ life' = PortRetry(trigger)
          \/ /\ o = "Durable"
             /\ m \in IF EndsRecovery(error, trigger)
                        THEN Outcomes ELSE {"Skipped"}
             /\ life' = AfterSpawnError(error, trigger)
  /\ UNCHANGED <<StartVars, pending>>

(* commit_spawned_process replaces the marker by the record in one save.   *)
CommitSpawned ==
  LET rs == [runtime EXCEPT !.process = Record(spawned), !.marker = FALSE]
      confirmed == spawned.basis = "active"
      l  == IF confirmed
              THEN [PortRetry("none") EXCEPT !.group_cleanup_recovery = FALSE]
              ELSE life
  IN
  /\ pc = "commit"
  /\ process' = spawned
  /\ spawned' = NoProcess
  /\ runtime' = rs
  /\ \E o \in MetadataOutcomes :
       /\ Write(rs, o, 0)
       /\ gate' = SavedGate([gate EXCEPT !.clearReq = TRUE], rs, o)
       /\ life' = [l EXCEPT !.server_state =
                     IF confirmed /\ o = "Durable" THEN "Starting" ELSE "Failed"]
  /\ Return
  /\ UNCHANGED <<osVars, pending, unverified, credentials, acked>>

-----------------------------------------------------------------------------
(* Runtime-state retry and what was deferred until it is durable.          *)

(* Mutant of Resumed: a durable retry resumes nothing.                     *)
NeverResumed(o) == Return

Resumed(o) == IF o = "Durable" THEN Goto("resume") ELSE Return

(* retry_runtime_state_if_due: a marker whose own save was uncertain never *)
(* reached spawn and is unwound by a second save.                          *)
RetrySave ==
  LET unwinds == gate.clearReq /\ runtime.marker IN
  /\ pc = "idle" /\ gate.loaded /\ gate.retry
  /\ \E o \in Outcomes :
       /\ Write(runtime, o, 0)
       /\ gate' = SavedGate(gate, runtime, o)
       /\ IF o = "Durable" /\ unwinds THEN Goto("unwind") ELSE Resumed(o)
  /\ UNCHANGED <<osVars, ownVars, runtime, pending, life, credentials,
                 spawned, acked>>

UnwindMarker ==
  LET rs == [runtime EXCEPT !.marker = FALSE] IN
  /\ pc = "unwind"
  /\ runtime' = rs
  /\ \E o \in Outcomes :
       /\ Write(rs, o, 0)
       /\ gate' = SavedGate(gate, rs, o)
       /\ Resumed(o)
  /\ UNCHANGED <<osVars, ownVars, pending, life, credentials, spawned, acked>>

ResumeIntent ==
  /\ pc = "resume" /\ pending.intent # "none"
  /\ \E n \in 0..1 :
       /\ Apply(pending.intent, runtime, gate,
                [pending EXCEPT !.intent = "none"], n)
       /\ Spend(n)
  /\ UNCHANGED <<osVars, disk, runtime, ownVars, credentials, spawned, acked>>

ResumeExit ==
  /\ pc = "resume" /\ pending.intent = "none" /\ pending.exit # "none"
  /\ pending' = [pending EXCEPT !.exit = "none"]
  /\ Goto(IF pending.exit = "explicit" THEN "exited_explicit"
                                       ELSE "exited_unexpected")
  /\ UNCHANGED <<osVars, disk, runtime, gate, ownVars, life, credentials,
                 spawned, acked, budget>>

(* resume_pending_durable_convergence                                      *)
ResumeConvergence ==
  LET c == pending.convergence
      p == [pending EXCEPT !.convergence = "none"]
      mayStart == runtime.desired = "Running" /\ ~Managed /\ ~unverified
      mayStop  == runtime.desired = "Stopped" /\ ~unverified
  IN
  /\ pc = "resume" /\ pending.intent = "none" /\ pending.exit = "none"
  /\ \/ /\ ~Ready(runtime, gate) \/ gate.retry
        /\ UNCHANGED <<pending, life, gate, budget>>
        /\ Return
     \/ /\ Ready(runtime, gate) /\ ~gate.retry
        /\ \/ /\ c \in Triggers /\ mayStart
              /\ pending' = p
              /\ UNCHANGED <<life, gate, budget>>
              /\ Call(c)
           \/ /\ c = "Stop" /\ mayStop
              /\ \E n \in 0..1 :
                   BeginStop(FALSE, runtime, gate, p, life, n) /\ Spend(n)
           \/ /\ c = "none" \/ (c \in Triggers /\ ~mayStart)
                            \/ (c = "Stop" /\ ~mayStop)
              /\ pending' = p
              /\ UNCHANGED <<life, gate, budget>>
              /\ Return
  /\ UNCHANGED <<osVars, disk, runtime, ownVars, credentials, spawned, acked>>

-----------------------------------------------------------------------------
(* Polling the process: process_exit.rs, process_cleanup.rs.               *)

Polling == pc = "idle" /\ Managed

PollVars == <<credentials, spawned, acked>>

(* upgrade_unconfirmed_identity                                            *)
ConfirmIdentity ==
  LET p  == [process EXCEPT !.unconfirmed = FALSE]
      rs == [runtime EXCEPT !.process = Record(p)]
  IN
  /\ Polling
  /\ process.kind = "child" /\ process.unconfirmed /\ Current(process.inst)
  /\ process' = p
  /\ runtime' = rs
  /\ \E o \in MetadataOutcomes :
       /\ Write(rs, o, 0)
       /\ gate' = SavedGate(gate, rs, o)
       /\ life' = IF o = "Durable" THEN life ELSE In("Failed")
  /\ Return
  /\ UNCHANGED <<osVars, pending, unverified, PollVars>>

(* clear_process_record_durably and complete_process_exit: the record goes *)
(* away in a durable save before anything follows the exit.                *)
CompleteExit ==
  LET i       == process.inst
      cleared == [runtime EXCEPT !.process = NoRecord]
      kept    == IF runtime.process = NoRecord THEN Record(process)
                                               ELSE runtime.process
      ended   == [life EXCEPT !.stop_deadline = FALSE]
  IN
  /\ leader'  = [leader EXCEPT ![i] = IF @ = "exited" THEN "gone" ELSE @]
  /\ escaped' = [escaped EXCEPT ![i] = FALSE]
  /\ process' = NoProcess
  /\ \E o \in Outcomes :
       /\ Write(cleared, o, 0)
       /\ gate' = SavedGate(gate, cleared, o)
       /\ runtime' = IF o = "Failed" THEN [runtime EXCEPT !.process = kept]
                                     ELSE cleared
       /\ unverified' = (o = "Failed")
       /\ pending' =
            IF o # "Uncertain" THEN pending
            ELSE [pending EXCEPT !.exit = IF Stopping THEN "explicit"
                                                      ELSE "unexpected"]
       /\ \/ /\ o = "Durable"
             /\ life' = ended
             /\ Goto(IF Stopping THEN "exited_explicit"
                                 ELSE "exited_unexpected")
          \/ /\ o # "Durable"
             /\ life' = [Disarmed(ended) EXCEPT !.server_state = "Failed"]
             /\ Return
  /\ UNCHANGED <<residue, PollVars>>

(* handle_pending_group_cleanup, after this poll left the cleanup at c: a  *)
(* refused group is only watched, an authorized one counts as stopping.    *)
PendingGroup(c, n) ==
  LET recovering == ~Stopping /\ ~life.group_cleanup_recovery
      l == IF recovering
             THEN [life EXCEPT !.group_cleanup_recovery = TRUE,
                               !.restart_after_stop = FALSE] ELSE life
      refused == c = "refused" \/ process.failed
  IN
  /\ process' = [process EXCEPT !.cleanup = c]
  /\ life' = IF refused
               THEN [In("Failed") EXCEPT !.stop_deadline = FALSE]
             ELSE IF Stopping THEN l
             ELSE [l EXCEPT !.server_state = "Stopping", !.stop_deadline = TRUE]
  /\ Notify(refused \/ ~Stopping, runtime, gate, n)
  /\ Return
  /\ UNCHANGED <<osVars, runtime, pending, unverified, PollVars>>

(* Mutants of PollChildExit: the group is not looked at; an exit nobody    *)
(* asked for is not polled.                                                *)
LeaderExitCompletes ==
  /\ Polling /\ process.kind = "child" /\ process.cleanup = "none"
  /\ leader[process.inst] = "exited"
  /\ CompleteExit

PollStoppingOnly ==
  /\ Polling /\ process.kind = "child" /\ process.cleanup = "none"
  /\ leader[process.inst] = "exited" /\ Stopping
  /\ CompleteExit

(* poll_owned_child and poll_identity_failed_child, the leader being       *)
(* waitable for the first time.                                            *)
PollChildExit ==
  LET i == process.inst IN
  /\ Polling /\ process.kind = "child" /\ process.cleanup = "none"
  /\ leader[i] = "exited"
  /\ \/ ~residue[i] /\ CompleteExit
     \/ residue[i]  /\ PendingGroup(IF process.failed THEN "refused"
                                                      ELSE "signalled", 0)
     \/ "inspect" \in Faults /\ PendingGroup("refused", 1)

(* poll_pending_group                                                      *)
PollPendingGroup ==
  LET i == process.inst IN
  /\ Polling /\ process.kind = "child" /\ process.cleanup # "none"
  /\ \/ ~residue[i] /\ CompleteExit
     \/ residue[i]  /\ PendingGroup(process.cleanup, 0)
     \/ "inspect" \in Faults /\ PendingGroup("refused", 1)

(* mark_unverified_process                                                 *)
MarkUnverified(r, l, n) ==
  LET rs == [runtime EXCEPT !.process = r] IN
  /\ runtime' = rs
  /\ unverified' = TRUE
  /\ life' = [l EXCEPT !.server_state = "Failed"]
  /\ Notify(TRUE, rs, gate, n)

Unconfirmed(i) == [inst |-> i, unconfirmed |-> TRUE]

(* handle_identity_changed: the leader left its group or the attached PID  *)
(* belongs to another process. An owned child is kept to be reaped.        *)
IdentityChanges ==
  LET i == process.inst IN
  /\ Polling
  /\ \/ /\ process.kind = "child" /\ process.cleanup = "none"
        /\ ~process.failed /\ ~process.unconfirmed
        /\ escaped[i] /\ leader[i] \in {"alive", "exited"}
     \/ /\ process.kind = "attached"
        /\ leader[i] = "reused" \/ (leader[i] = "alive" /\ escaped[i])
  /\ process' = IF process.kind = "child"
                  THEN [process EXCEPT !.failed = TRUE, !.basis = "none"]
                  ELSE NoProcess
  /\ MarkUnverified(Unconfirmed(i), life, 0)
  /\ Return
  /\ UNCHANGED <<osVars, pending, PollVars>>

(* handle_attached_leader_disappearance                                    *)
AttachedDisappears ==
  LET i == process.inst IN
  /\ Polling /\ process.kind = "attached" /\ Missing(i)
  /\ \/ ~residue[i] /\ CompleteExit
     \/ \E n \in 0..1 :
          /\ IF n = 0 THEN residue[i] ELSE "inspect" \in Faults
          /\ process' = NoProcess
          /\ MarkUnverified(Unconfirmed(i),
                            [life EXCEPT !.stop_deadline = FALSE,
                                         !.restart_after_stop = FALSE,
                                         !.group_cleanup_recovery = FALSE,
                                         !.next_restart = FALSE], n)
          /\ Return
          /\ UNCHANGED <<osVars, pending, PollVars>>

(* resume_after_process_exit                                               *)
AfterExplicitExit ==
  LET stopped == [life EXCEPT !.group_cleanup_recovery = FALSE,
                              !.restart_after_stop = FALSE,
                              !.next_restart = FALSE,
                              !.server_state = "Stopped"]
      recovering == [life EXCEPT !.group_cleanup_recovery = FALSE]
      scheduling == /\ runtime.desired = "Running"
                    /\ life.group_cleanup_recovery
  IN
  /\ pc = "exited_explicit"
  /\ Notify(scheduling /\ life.incident /\ Exhausted(life), runtime, gate, 0)
  /\ \/ /\ runtime.desired = "Stopped"
        /\ life' = stopped
        /\ Return
     \/ /\ scheduling
        /\ life' = Rescheduled(recovering)
        /\ Return
     \/ /\ runtime.desired = "Running" /\ ~life.group_cleanup_recovery
        /\ IF life.restart_after_stop
             THEN /\ life' = [life EXCEPT !.restart_after_stop = FALSE]
                  /\ Call("AfterStop")
             ELSE life' = In("Stopped") /\ Return
  /\ UNCHANGED <<osVars, ownVars, runtime, pending, PollVars>>

AfterUnexpectedExit ==
  LET running == runtime.desired = "Running" IN
  /\ pc = "exited_unexpected"
  /\ Notify(running /\ (~life.incident \/ Exhausted(life)), runtime, gate, 0)
  /\ life' = IF running THEN Rescheduled([life EXCEPT !.incident = TRUE])
                        ELSE In("Stopped")
  /\ Return
  /\ UNCHANGED <<osVars, ownVars, runtime, pending, PollVars>>

-----------------------------------------------------------------------------
(* Timers, the unverified record, health, credentials.                     *)

(* discard_stale_process_record, up to what its caller does when durable.  *)
Discard(o) ==
  LET cleared == [runtime EXCEPT !.process = NoRecord]
      then == IF runtime.desired = "Stopped" THEN "Stop"
              ELSE IF life.restart_after_stop THEN "AfterStop" ELSE "Cold"
  IN
  /\ Write(cleared, o, 0)
  /\ gate' = SavedGate(gate, cleared, o)
  /\ runtime' = IF o = "Failed" THEN runtime ELSE cleared
  /\ unverified' = (o = "Failed")
  /\ pending' = IF o = "Uncertain"
                  THEN [pending EXCEPT !.convergence = then] ELSE pending

(* Mutant of UnverifiedGone: nothing is checked in the state Failed.       *)
UnverifiedGoneUnlessFailed ==
  /\ pc = "idle" /\ unverified /\ ~Managed /\ life.server_state # "Failed"
  /\ runtime.process # NoRecord /\ GroupGone(runtime.process.inst)

(* tick has checked the record and inspect_record_identity finds nothing.  *)
UnverifiedGone ==
  /\ pc = "idle" /\ unverified /\ ~Managed
  /\ runtime.process # NoRecord /\ GroupGone(runtime.process.inst)

(* check_unverified_process: only a record whose leader and whole group    *)
(* are gone unblocks the supervisor.                                       *)
CheckUnverified ==
  LET fresh == [life EXCEPT !.attempts = 0, !.next_restart = FALSE] IN
  /\ UnverifiedGone
  /\ \E o \in Outcomes :
       /\ Discard(o)
       /\ \/ /\ o # "Durable"
             /\ life' = In("Failed")
             /\ Return
          \/ /\ o = "Durable" /\ life.restart_after_stop
             /\ life' = [fresh EXCEPT !.restart_after_stop = FALSE]
             /\ Call("AfterStop")
          \/ /\ o = "Durable" /\ ~life.restart_after_stop
             /\ runtime.desired = "Running"
             /\ life' = fresh
             /\ Call("Cold")
          \/ /\ o = "Durable" /\ ~life.restart_after_stop
             /\ runtime.desired = "Stopped"
             /\ life' = In("Stopped")
             /\ Return
  /\ UNCHANGED <<osVars, process, PollVars>>

RestartDue ==
  /\ pc = "idle" /\ life.next_restart /\ ~Managed
  /\ life' = [life EXCEPT !.next_restart = FALSE]
  /\ Call("Recovery")
  /\ UNCHANGED <<osVars, storeVars, ownVars, PollVars, budget>>

PortRetryDue ==
  /\ pc = "idle" /\ life.port_retry # "none" /\ ~Managed
  /\ life' = PortRetry("none")
  /\ Call(life.port_retry)
  /\ UNCHANGED <<osVars, storeVars, ownVars, PollVars, budget>>

(* STABLE_RUN_INTERVAL of running forgets the recovery attempts.           *)
StableRun ==
  /\ pc = "idle" /\ Managed /\ life.attempts > 0
  /\ life' = [life EXCEPT !.attempts = 0]
  /\ UNCHANGED <<osVars, storeVars, ownVars, PollVars, pc, trigger, budget>>

HealthApplicable ==
  pc = "idle" /\ Managed /\ Ready(runtime, gate) /\ ~Stopping

(* apply_health_result: the first answer also records the running version; *)
(* the end of an incident emits a notification (o2).                       *)
HealthyAnswer ==
  LET rs == [runtime EXCEPT !.process = Record(process)] IN
  /\ HealthApplicable /\ process.basis = "active"
  /\ runtime' = rs
  /\ \E o \in MetadataOutcomes \cup {"Skipped"} :
       /\ Write(rs, o, 0)
       /\ gate' = SavedGate(gate, rs, o)
       /\ \/ life' = [In("Healthy") EXCEPT !.incident = FALSE]
          \/ o # "Skipped" /\ o # "Durable" /\ life' = In("Failed")
  /\ UNCHANGED <<osVars, pending, ownVars, PollVars, pc, trigger>>

(* A starting process gets its allowance; later failures are reported,     *)
(* the third one also by a notification, but the process is left alone.    *)
UnhealthyAnswer ==
  /\ HealthApplicable /\ process.basis = "active" /\ "sick" \in Faults
  /\ \E o \in MetadataOutcomes \cup {"Skipped"} :
       /\ Write(runtime, o, 1)
       /\ gate' = SavedGate(gate, runtime, o)
  /\ life' = In("Unhealthy")
  /\ UNCHANGED <<osVars, runtime, pending, ownVars, PollVars, pc, trigger>>

(* apply_stale_health_result: the configuration matches again.             *)
StaleHealthyAnswer ==
  /\ HealthApplicable /\ process.basis = "stale"
  /\ Current(process.inst)
  /\ process' = [process EXCEPT !.basis = "active"]
  /\ \E o \in MetadataOutcomes :
       /\ Write(runtime, o, 0)
       /\ gate' = SavedGate(gate, runtime, o)
       /\ life' = In(IF o = "Durable" THEN "Healthy" ELSE "Failed")
  /\ UNCHANGED <<osVars, runtime, pending, unverified, PollVars, pc, trigger>>

CredVars == <<osVars, storeVars, ownVars, spawned, acked>>

(* Where merge_credentials runs: in a new agent, after a change of the     *)
(* configuration, and inside start_now.                                    *)
Merging == pc \in {"down", "idle", "start"}

(* The account's password is not readable, possibly with an automatic read *)
(* under way.                                                              *)
AccessLost ==
  /\ "keychain" \in Faults /\ Merging
  /\ credentials.state = "usable"
  /\ Spend(1)
  /\ \E read \in {credentials.in_flight, TRUE} :
       credentials' = [state |-> "AccessPending", in_flight |-> read]
  /\ UNCHANGED <<CredVars, life, pc, trigger>>

(* The password was removed, the account has none, or the one in memory    *)
(* is found to be current after all.                                       *)
AccessNotNeeded ==
  /\ Merging /\ credentials.state = "AccessPending"
  /\ credentials' = [credentials EXCEPT !.state = "usable"]
  /\ UNCHANGED <<CredVars, life, pc, trigger, budget>>

(* RefreshCredentials from the settings window in any state, or a grant    *)
(* that lets a merge read by itself: one read at a time.                   *)
RequestRead ==
  /\ "keychain" \in Faults
  /\ pc = "idle" \/ (Merging /\ credentials.state = "AccessPending")
  /\ ~credentials.in_flight
  /\ credentials' = [credentials EXCEPT !.in_flight = TRUE]
  /\ UNCHANGED <<CredVars, life, pc, trigger, budget>>

(* poll_credential_refresh: only a password that was read resumes a start. *)
PasswordApplied ==
  /\ pc = "idle" /\ credentials.in_flight
  /\ credentials' = [state |-> "usable", in_flight |-> FALSE]
  /\ IF ~Managed /\ ~unverified /\ runtime.desired = "Running"
       THEN /\ life' = [Disarmed(life) EXCEPT !.attempts = 0]
            /\ Call("Cold")
       ELSE UNCHANGED <<life, pc, trigger>>
  /\ UNCHANGED <<CredVars, budget>>

(* ... not a denied or failed read, an absent item or a discarded answer.  *)
ReadWithoutPassword ==
  /\ pc = "idle" /\ credentials.in_flight
  /\ \E state \in {"usable", "AccessPending"} :
       credentials' = [state |-> state, in_flight |-> FALSE]
  /\ UNCHANGED <<CredVars, life, pc, trigger, budget>>

-----------------------------------------------------------------------------
(* The agent boots: Supervisor::with_options, reattach.rs.                 *)

Loaded   == [loaded |-> TRUE, reliable |-> TRUE, retry |-> FALSE,
             clearReq |-> FALSE]

(* Mutant of Unloaded: an unreadable file is replaced by the default.      *)
DefaultTrusted == [loaded |-> TRUE, reliable |-> FALSE, retry |-> TRUE,
                   clearReq |-> FALSE]

Unloaded == [loaded |-> FALSE, reliable |-> FALSE, retry |-> FALSE,
             clearReq |-> FALSE]

BootVars == <<osVars, disk, ownVars, pending, credentials, spawned, acked>>

(* Mutant of Boot: the launch marker is not looked at.                     *)
BootIgnoresMarker ==
  /\ pc = "down"
  /\ runtime' = disk.visible
  /\ gate' = Loaded
  /\ UNCHANGED life
  /\ Goto(IF disk.visible.process = NoRecord THEN "converge" ELSE "reattach")
  /\ UNCHANGED <<BootVars, budget>>

(* A leftover marker means a child may exist that no record names.         *)
Boot ==
  /\ pc = "down"
  /\ runtime' = disk.visible
  /\ gate' = Loaded
  /\ IF disk.visible.marker
       THEN life' = In("Failed") /\ Return
       ELSE /\ UNCHANGED life
            /\ Goto(IF disk.visible.process = NoRecord THEN "converge"
                                                       ELSE "reattach")
  /\ UNCHANGED <<BootVars, budget>>

BootUnreadable ==
  /\ pc = "down" /\ "unreadable" \in Faults
  /\ Spend(1)
  /\ runtime' = Default
  /\ gate' = Unloaded
  /\ life' = In("Failed")
  /\ Return
  /\ UNCHANGED BootVars

ReattachVars == <<osVars, PollVars>>

(* attach_unconfirmed_process and attach_stale_config_process, and the     *)
(* reattachment after a healthy answer.                                    *)
Attach(basis, unconfirmed, state, n) ==
  /\ process' = Attached(runtime.process, basis)
  /\ unverified' = unconfirmed
  /\ \E o \in MetadataOutcomes :
       /\ Write(runtime, o, n)
       /\ gate' = SavedGate(gate, runtime, o)
       /\ life' = In(IF o = "Durable" THEN state ELSE "Failed")
  /\ UNCHANGED <<runtime, pending>>

Block(n) ==
  /\ MarkUnverified(runtime.process, life, n)
  /\ UNCHANGED <<process, pending>>

Forget ==
  /\ \E o \in Outcomes :
       /\ Discard(o)
       /\ life' = IF o = "Durable" THEN life ELSE In("Failed")
  /\ UNCHANGED process

(* The first inspection and decide_initial.                                *)
Inspect ==
  LET r == runtime.process  i == r.inst IN
  /\ pc = "reattach"
  /\ \/ GroupGone(i) /\ Forget
     \/ Missing(i) /\ residue[i] /\ Block(0)
     \/ ~Missing(i) /\ r.unconfirmed /\ Block(0)
     \/ leader[i] = "reused" /\ ~r.unconfirmed /\ Forget
     \/ leader[i] = "alive" /\ escaped[i] /\ ~r.unconfirmed /\ Block(0)
     \/ "inspect" \in Faults /\ Block(1)
     \/ /\ Current(i) /\ ~r.unconfirmed
        /\ \/ "identity" \in Faults /\ Attach("none", TRUE, "Failed", 1)
           \/ "config" \in Faults /\ Block(1)
           \/ "drift" \in Faults /\ Attach("stale", FALSE, "Unhealthy", 1)
  /\ Goto("converge")
  /\ UNCHANGED ReattachVars

(* Identity and configuration match: a health check is made.               *)
InspectMatches ==
  /\ pc = "reattach"
  /\ Current(runtime.process.inst) /\ ~runtime.process.unconfirmed
  /\ Goto("probe")
  /\ UNCHANGED <<osVars, storeVars, ownVars, life, PollVars, budget>>

(* decide_after_health: the second inspection does not look at the group.  *)
Probe ==
  LET i == runtime.process.inst IN
  /\ pc = "probe"
  /\ \/ Current(i) /\ Attach("active", FALSE, "Healthy", 0)
     \/ Current(i) /\ "identity" \in Faults /\ Attach("none", TRUE, "Failed", 1)
     \/ leader[i] = "alive" /\ escaped[i] /\ Block(0)
     \/ leader[i] \in {"gone", "reused"} /\ Forget
     \/ Faults \cap {"sick", "inspect"} # {} /\ Block(1)
  /\ Goto("converge")
  /\ UNCHANGED ReattachVars

(* The rest of with_options: nothing is left of the recorded process, or a *)
(* process is left that is not wanted.                                     *)
Converge ==
  LET rs == [runtime EXCEPT !.process = NoRecord]
      p  == IF pending.convergence # "none" THEN pending
            ELSE [pending EXCEPT !.convergence =
                    IF rs.desired = "Running" THEN "Cold" ELSE "Stop"]
  IN
  /\ pc = "converge"
  /\ \/ /\ ~Managed /\ ~unverified
        /\ runtime' = rs
        /\ pending' = p
        /\ \E o \in Outcomes :
             /\ Write(rs, o, 0)
             /\ gate' = SavedGate(gate, rs, o)
             /\ life' = IF o = "Durable" THEN life ELSE In("Failed")
             /\ Resumed(o)
     \/ /\ Managed /\ runtime.desired = "Stopped"
        /\ \E n \in 0..1 :
             BeginStop(FALSE, runtime, gate, pending, life, n) /\ Spend(n)
        /\ UNCHANGED <<disk, runtime>>
     \/ /\ unverified \/ Managed
        /\ ~(Managed /\ runtime.desired = "Stopped")
        /\ Return
        /\ UNCHANGED <<storeVars, life, budget>>
  /\ UNCHANGED <<osVars, ownVars, PollVars>>

-----------------------------------------------------------------------------
(* The operating system, crashes, power.                                   *)

Owned(i) == \/ process.kind = "child" /\ process.inst = i
            \/ pc = "commit" /\ spawned.inst = i

AgentVars == <<storeVars, ownVars, life, credentials, pc, trigger, spawned,
               acked>>

(* A leader that exits stays waitable while its parent has not reaped it,  *)
(* and may leave members of its group behind.                              *)
LeaderExits ==
  \E i \in Inst :
    /\ leader[i] = "alive"
    /\ pc = "probe" => ReattachRace
    /\ leader'  = [leader EXCEPT ![i] = IF Owned(i) THEN "exited" ELSE "gone"]
    /\ escaped' = [escaped EXCEPT ![i] = @ /\ Owned(i)]
    /\ \/ UNCHANGED residue /\ UNCHANGED budget
       \/ /\ "residue" \in Faults
          /\ residue' = [residue EXCEPT ![i] = TRUE]
          /\ Spend(1)
    /\ UNCHANGED AgentVars

ResidueExits ==
  \E i \in Inst :
    /\ residue[i]
    /\ residue' = [residue EXCEPT ![i] = FALSE]
    /\ UNCHANGED <<leader, escaped, AgentVars, budget>>

LeaderEscapes ==
  \E i \in Inst :
    /\ "escape" \in Faults /\ Spend(1)
    /\ Current(i)
    /\ escaped' = [escaped EXCEPT ![i] = TRUE]
    /\ UNCHANGED <<leader, residue, AgentVars>>

(* A recorded PID comes back as another program's process, and ends.       *)
PidReused ==
  \E i \in Inst :
    /\ "reuse" \in Faults /\ Spend(1)
    /\ GroupGone(i) /\ ~Fresh(i)
    /\ leader' = [leader EXCEPT ![i] = "reused"]
    /\ UNCHANGED <<residue, escaped, AgentVars>>

ForeignExits ==
  \E i \in Inst :
    /\ leader[i] = "reused"
    /\ leader' = [leader EXCEPT ![i] = "gone"]
    /\ UNCHANGED <<residue, escaped, AgentVars, budget>>

MemoryLost ==
  /\ runtime' = Default /\ gate' = Unloaded /\ pending' = NothingPending
  /\ process' = NoProcess /\ unverified' = FALSE /\ life' = InitialLife
  /\ credentials' = [credentials EXCEPT !.in_flight = FALSE]
  /\ spawned' = NoProcess
  /\ Goto("down")
  /\ budget.crashes < MaxCrashes
  /\ budget' = [budget EXCEPT !.crashes = @ + 1]
  /\ UNCHANGED acked

(* The agent exits or crashes; OpenCode keeps running, launchd reaps what  *)
(* had already exited.                                                     *)
AgentExits ==
  /\ pc # "down"
  /\ leader' = [i \in Inst |-> IF leader[i] = "exited" THEN "gone"
                                                       ELSE leader[i]]
  /\ UNCHANGED <<residue, escaped, disk>>
  /\ MemoryLost

(* Every process is gone, and with it what was not durable, or not.        *)
PowerLoss ==
  /\ "power" \in Faults
  /\ leader' = [i \in Inst |-> "gone"]
  /\ residue' = [i \in Inst |-> FALSE]
  /\ escaped' = [i \in Inst |-> FALSE]
  /\ \E rs \in {disk.visible, disk.durable} :
       disk' = [visible |-> rs, durable |-> rs]
  /\ MemoryLost

-----------------------------------------------------------------------------
Init ==
  /\ leader = [i \in Inst |-> "gone"]
  /\ residue = [i \in Inst |-> FALSE]
  /\ escaped = [i \in Inst |-> FALSE]
  /\ \E d \in Desired :
       /\ disk = [visible |-> [Default EXCEPT !.desired = d],
                  durable |-> [Default EXCEPT !.desired = d]]
       /\ acked = d
  /\ runtime = Default /\ gate = Unloaded /\ pending = NothingPending
  /\ process = NoProcess /\ unverified = FALSE /\ life = InitialLife
  /\ credentials = [state |-> "usable", in_flight |-> FALSE]
  /\ spawned = NoProcess
  /\ pc = "down" /\ trigger = "none"
  /\ budget = [commands |-> 0, faults |-> 0, crashes |-> 0]

(* Steps the event loop is sure to take once they are possible.            *)
StartStep ==
  \/ StartDeferred \/ StartWithoutConfig \/ StartWithoutAccess
  \/ StartAwaitsRead \/ BeginLaunch
  \/ SpawnConfirmed \/ SpawnSurvivor \/ SpawnFails \/ CommitSpawned

RetryStep ==
  \/ RetrySave \/ UnwindMarker
  \/ ResumeIntent \/ ResumeExit \/ ResumeConvergence

PollStep ==
  \/ ConfirmIdentity \/ PollChildExit \/ PollPendingGroup
  \/ IdentityChanges \/ AttachedDisappears
  \/ AfterExplicitExit \/ AfterUnexpectedExit

TimerStep ==
  \/ CheckUnverified \/ RestartDue \/ PortRetryDue \/ StopTimesOut

BootStep ==
  \/ Boot \/ BootUnreadable \/ Inspect \/ InspectMatches \/ Probe \/ Converge

HealthStep ==
  \/ StableRun \/ HealthyAnswer \/ UnhealthyAnswer \/ StaleHealthyAnswer

CredentialStep ==
  \/ AccessLost \/ AccessNotNeeded \/ RequestRead \/ PasswordApplied
  \/ ReadWithoutPassword

UserStep ==
  \/ RequestStart \/ RequestStop \/ RequestRestart
  \/ ContinueStop \/ ForceStop

OsStep ==
  \/ LeaderExits \/ ResidueExits \/ LeaderEscapes \/ PidReused \/ ForeignExits
  \/ AgentExits \/ PowerLoss

Next ==
  \/ StartStep \/ RetryStep \/ PollStep \/ TimerStep \/ BootStep
  \/ HealthStep \/ CredentialStep \/ UserStep \/ OsStep

Spec == Init /\ [][Next]_vars

(* launchd keeps the agent running and every iteration of its loop ticks:  *)
(* a handler that started ends, a due timer fires, a process that exited   *)
(* is polled. Nothing is assumed of the user, of OpenCode or of the faults.*)
Fairness ==
  /\ WF_vars(StartStep) /\ WF_vars(BootStep)
  /\ WF_vars(RetrySave) /\ WF_vars(UnwindMarker)
  /\ WF_vars(ResumeIntent) /\ WF_vars(ResumeExit) /\ WF_vars(ResumeConvergence)
  /\ WF_vars(PollChildExit) /\ WF_vars(PollPendingGroup)
  /\ WF_vars(AttachedDisappears) /\ WF_vars(IdentityChanges)
  /\ WF_vars(AfterExplicitExit) /\ WF_vars(AfterUnexpectedExit)
  /\ WF_vars(CheckUnverified) /\ WF_vars(RestartDue) /\ WF_vars(PortRetryDue)
  /\ WF_vars(StopTimesOut)

FairSpec == Spec /\ Fairness

-----------------------------------------------------------------------------
(* Safety.                                                                 *)

(* At no time are two OpenCode servers alive: whatever crashed, failed or  *)
(* was left behind, start_now never spawns beside a live one.              *)
OneServer ==
  \A i, j \in Inst : leader[i] = "alive" /\ leader[j] = "alive" => i = j

(* Nor is one started beside the remaining group of an earlier one.        *)
OneGroup ==
  \A i, j \in Inst : Busy(i) /\ Busy(j) => i = j

(* A replacement agent that reads state.json finds either the record of    *)
(* every live OpenCode or the marker of an unfinished launch.              *)
LiveIsEvidenced ==
  \A i \in Inst : leader[i] = "alive" =>
    disk.visible.marker \/ disk.visible.process.inst = i

(* The agent reports Stopped only when nothing of OpenCode is left.        *)
StoppedIsHonest ==
  pc = "idle" /\ gate.loaded /\ life.server_state = "Stopped" =>
    \A i \in Inst : ~Busy(i)

(* What the user was told is stored outlives every crash and power loss.   *)
AckedDesiredSurvives ==
  acked # "none" => disk.visible.desired = acked /\ disk.durable.desired = acked

(* A leftover marker blocks the agent until the user repairs state.json.   *)
Blocked == runtime.marker /\ ~gate.clearReq

(* An exit that waits for a durable save always has that save scheduled:   *)
(* it is not forgotten by whatever happens meanwhile.                      *)
ExitIsScheduled == pc = "idle" /\ pending.exit # "none" => gate.retry

(* So has a start or a stop that waits for one: with its save it is taken  *)
(* up, or given up for a newer command, but not forgotten.                 *)
ConvergenceIsScheduled ==
  pc = "idle" /\ pending.convergence # "none" => gate.retry

(* OpenCode is spawned only while the user wants it running.               *)
SpawnIsWanted == pc = "spawn" => runtime.desired = "Running"

(* ForceStop kills the group of a process this agent is responsible for,   *)
(* never a program that received the recorded PID later.                   *)
KillIsOwn ==
  [][ForceStop => leader[process.inst] \in {"alive", "exited"}]_vars

-----------------------------------------------------------------------------
(* Liveness under FairSpec.                                                *)

(* A failed or uncertain save is repeated until one is durable.            *)
RetryConverges == gate.retry ~> ~gate.retry

(* An exit whose record could not be cleared durably is completed later.   *)
ExitIsCompleted == pending.exit # "none" ~> pending.exit = "none"

(* Recovery reaches a new process or gives up visibly: after an unexpected *)
(* exit the agent does not wait forever with nothing armed.                *)
RecoveryEnds ==
  life.server_state = "WaitingToRestart" /\ ~Managed ~>
    Managed \/ pc = "down" \/ life.server_state \in {"Failed", "Stopped"}

(* A managed process that has gone with its whole group is noticed.        *)
ExitIsNoticed ==
  /\ Managed /\ leader[process.inst] \in {"exited", "gone"}
  /\ ~residue[process.inst]
  ~> ~Managed

(* An unverified record unblocks the agent once its process is gone.       *)
BlockEnds ==
  unverified /\ GroupGone(runtime.process.inst) ~> ~unverified

(* A Stop ends: no process is managed, or the agent reports the timeout or *)
(* the failure and waits for the user.                                     *)
StopEnds ==
  acked = "Stopped" /\ Managed ~>
    \/ ~Managed \/ acked # "Stopped"
    \/ life.server_state \in {"StopTimedOut", "Failed"}
=============================================================================

------------------------ MODULE SupervisorPromises -------------------------
(***************************************************************************)
(* What the supervisor promises its user: a lifecycle command that was     *)
(* acknowledged is in state.json whatever follows, an exit that waits for  *)
(* a durable save is never forgotten, ForceStop kills no foreign program;  *)
(* without the race of a reattachment no group of an earlier server is     *)
(* left beside a new one and Stopped means that nothing runs; without      *)
(* failing storage a server is only started when Running is desired; and   *)
(* without a Keychain read a start or stop that waits is never forgotten.  *)
(***************************************************************************)
EXTENDS SupervisorSafety

(* The acknowledged desired state is in the file, durably, and a running   *)
(* agent has no other one in memory that a later save could write.         *)
DesiredIsKept ==
  acked # "none" =>
    /\ disk.visible.desired = acked /\ disk.durable.desired = acked
    /\ gate.loaded => runtime.desired = acked

(* The retry is scheduled at every point of the loop but between a durable *)
(* retry and the exit it resumes.                                          *)
ExitIsKept ==
  pending.exit # "none" /\ pc \notin {"unwind", "resume"} => gate.retry

(* Where something may be saved, state.json was read.                      *)
LEMMA LoadedWhere ==
  ASSUME IInv
  PROVE  /\ pc \notin {"down", "idle", "start"} => gate.loaded
         /\ Managed \/ unverified \/ gate.retry => gate.loaded
         /\ pending.exit # "none" => gate.loaded /\ ~Managed /\ ~unverified
         /\ Ready(runtime, gate) => gate.loaded
  BY DEF IInv, GateIsClosed, StartIsFree, Free, Ready

(* Where an exit waits, the loop is idle, in a start or in a retry.        *)
LEMMA WaitsWhere ==
  ASSUME IInv, pending.exit # "none"
  PROVE  pc \in {"idle", "start", "unwind", "resume"}
  BY DEF IInv, GateIsClosed, StartIsFree, LaunchIsMarked, TypeOK, PCs

(* A save of anything with the desired state in memory.                    *)
LEMMA SaveKeepsDesired ==
  ASSUME TypeOK, DesiredIsKept, gate.loaded,
         NEW rs \in RuntimeState, NEW o, NEW n, Write(rs, o, n),
         rs.desired = runtime.desired, runtime'.desired = runtime.desired,
         acked' = acked
  PROVE  DesiredIsKept'
<1>1. disk' \in {disk, [visible |-> rs, durable |-> rs],
                 [disk EXCEPT !.visible = rs]}
  BY DEF Write, SavedDisk
<1> QED BY <1>1 DEF DesiredIsKept, TypeOK, Disk

(* A step that saves nothing and changes no desired state.                 *)
LEMMA QuietKeepsDesired ==
  ASSUME DesiredIsKept, disk' = disk, acked' = acked, runtime' = runtime,
         gate'.loaded => gate.loaded
  PROVE  DesiredIsKept'
  BY DEF DesiredIsKept

LEMMA NotifyKeepsDesired ==
  ASSUME TypeOK, DesiredIsKept, gate.loaded, NEW emits,
         NEW rs \in RuntimeState, NEW g, NEW n, Notify(emits, rs, g, n),
         rs.desired = runtime.desired, runtime'.desired = runtime.desired,
         acked' = acked
  PROVE  DesiredIsKept'
<1>1. PICK o : Write(rs, o, n)
  BY DEF Notify
<1> QED BY <1>1, SaveKeepsDesired

LEMMA NewRecord ==
  ASSUME TypeOK, NEW r \in ProcessRecord, NEW m \in BOOLEAN
  PROVE  /\ [runtime EXCEPT !.process = r] \in RuntimeState
         /\ [runtime EXCEPT !.process = r].desired = runtime.desired
         /\ [runtime EXCEPT !.marker = m] \in RuntimeState
         /\ [runtime EXCEPT !.marker = m].desired = runtime.desired
         /\ [runtime EXCEPT !.process = r, !.marker = m] \in RuntimeState
         /\ [runtime EXCEPT !.process = r, !.marker = m].desired
              = runtime.desired
  BY DEF TypeOK, RuntimeState

LEMMA RecordType ==
  ASSUME NEW p \in Process
  PROVE  Record(p) \in ProcessRecord
  BY DEF Process, Record, ProcessRecord

LEMMA NoRecordType == NoRecord \in ProcessRecord
  BY DEF NoRecord, ProcessRecord

-----------------------------------------------------------------------------
(* The desired state, one group of steps after the other.                  *)

LEMMA StartKeepsDesired ==
  ASSUME IInv, DesiredIsKept, StartStep
  PROVE  DesiredIsKept'
<1>1. TypeOK
  BY DEF IInv
<1>2. ASSUME NEW n, StartRefusedWith(n), Ready(runtime, gate)
      PROVE  DesiredIsKept'
  <2>1. runtime \in RuntimeState /\ gate.loaded
    BY <1>1, <1>2, LoadedWhere DEF TypeOK
  <2> QED BY <1>1, <1>2, <2>1, NotifyKeepsDesired
          DEF StartRefusedWith, StartVars
<1>3. CASE StartDeferred
  <2>1. gate'.loaded = gate.loaded
    BY <1>1, <1>3 DEF StartDeferred, TypeOK, Gate
  <2> QED BY <1>3, <2>1, QuietKeepsDesired DEF StartDeferred, StartVars
<1>4. CASE StartWithoutConfig \/ StartWithoutAccess
  BY <1>2, <1>4 DEF StartWithoutConfig, StartWithoutAccess
<1>5. CASE StartAwaitsRead
  BY <1>5, QuietKeepsDesired DEF StartAwaitsRead, StartVars, storeVars
<1>6. CASE BeginLaunch
  <2> DEFINE rs == [runtime EXCEPT !.marker = TRUE]
  <2>1. PICK o : Write(rs, o, 0)
    BY <1>6 DEF BeginLaunch
  <2>2. rs \in RuntimeState /\ rs.desired = runtime.desired
    BY <1>1, NewRecord DEF TypeOK, RuntimeState
  <2>3. runtime' \in {runtime, rs} /\ gate.loaded /\ acked' = acked
    BY <1>6, LoadedWhere DEF BeginLaunch, StartVars
  <2> HIDE DEF rs
  <2> QED BY <1>1, <2>1, <2>2, <2>3, SaveKeepsDesired
<1>7. CASE SpawnConfirmed \/ SpawnSurvivor
  <2>1. UNCHANGED storeVars /\ acked' = acked
    BY <1>7 DEF SpawnConfirmed, SpawnSurvivor, Spawn
  <2> QED BY <2>1, QuietKeepsDesired DEF storeVars
<1>8. CASE SpawnFails
  <2> DEFINE rs == [runtime EXCEPT !.marker = FALSE]
  <2>1. PICK o, n : Write(rs, o, n)
    BY <1>8 DEF SpawnFails
  <2>2. rs \in RuntimeState /\ rs.desired = runtime.desired
    BY <1>1, NewRecord DEF TypeOK, RuntimeState
  <2>3. runtime' = rs /\ gate.loaded /\ acked' = acked
    BY <1>8, LoadedWhere DEF SpawnFails, StartVars
  <2> HIDE DEF rs
  <2> QED BY <1>1, <2>1, <2>2, <2>3, SaveKeepsDesired
<1>9. CASE CommitSpawned
  <2> DEFINE rs == [runtime EXCEPT !.process = Record(spawned),
                                   !.marker = FALSE]
  <2>1. PICK o : Write(rs, o, 0)
    BY <1>9 DEF CommitSpawned
  <2>2. rs \in RuntimeState /\ rs.desired = runtime.desired
    BY <1>1, NewRecord, RecordType DEF TypeOK
  <2>3. runtime' = rs /\ gate.loaded /\ acked' = acked
    BY <1>9, LoadedWhere DEF CommitSpawned
  <2> HIDE DEF rs
  <2> QED BY <1>1, <2>1, <2>2, <2>3, SaveKeepsDesired
<1> QED BY <1>3, <1>4, <1>5, <1>6, <1>7, <1>8, <1>9 DEF StartStep

LEMMA RetryKeepsDesired ==
  ASSUME IInv, DesiredIsKept, RetryStep
  PROVE  DesiredIsKept'
<1>1. TypeOK /\ runtime \in RuntimeState
  BY DEF IInv, TypeOK
<1>2. gate.loaded
  BY LoadedWhere DEF RetryStep, RetrySave, UnwindMarker, ResumeIntent,
     ResumeExit, ResumeConvergence
<1>3. CASE RetrySave
  <2>1. PICK o : Write(runtime, o, 0)
    BY <1>3 DEF RetrySave
  <2> QED BY <1>1, <1>2, <1>3, <2>1, SaveKeepsDesired DEF RetrySave
<1>4. CASE UnwindMarker
  <2> DEFINE rs == [runtime EXCEPT !.marker = FALSE]
  <2>1. PICK o : Write(rs, o, 0)
    BY <1>4 DEF UnwindMarker
  <2>2. rs \in RuntimeState /\ rs.desired = runtime.desired
    BY <1>1, NewRecord DEF TypeOK, RuntimeState
  <2>3. runtime' = rs /\ acked' = acked
    BY <1>4 DEF UnwindMarker
  <2> HIDE DEF rs
  <2> QED BY <1>1, <1>2, <2>1, <2>2, <2>3, SaveKeepsDesired
<1>5. CASE ResumeIntent \/ ResumeExit \/ ResumeConvergence
  BY <1>2, <1>5, QuietKeepsDesired
     DEF ResumeIntent, ResumeExit, ResumeConvergence
<1> QED BY <1>3, <1>4, <1>5 DEF RetryStep

LEMMA CompleteExitKeepsDesired ==
  ASSUME IInv, DesiredIsKept, CompleteExit, gate.loaded
  PROVE  DesiredIsKept'
<1> DEFINE cleared == [runtime EXCEPT !.process = NoRecord]
           kept    == IF runtime.process = NoRecord THEN Record(process)
                                                    ELSE runtime.process
           restored == [runtime EXCEPT !.process = kept]
<1>1. TypeOK
  BY DEF IInv
<1>2. PICK o : /\ Write(cleared, o, 0)
               /\ runtime' = IF o = "Failed" THEN restored ELSE cleared
  BY DEF CompleteExit
<1>3. kept \in ProcessRecord
  BY <1>1, RecordType DEF TypeOK, RuntimeState
<1>4. /\ cleared \in RuntimeState /\ cleared.desired = runtime.desired
      /\ restored.desired = runtime.desired
  <2> HIDE DEF kept
  <2> QED BY <1>1, <1>3, NewRecord, NoRecordType
<1>5. acked' = acked
  BY DEF CompleteExit, PollVars
<1> HIDE DEF cleared, restored
<1> QED BY <1>1, <1>2, <1>4, <1>5, SaveKeepsDesired

LEMMA MarkUnverifiedKeepsDesired ==
  ASSUME IInv, DesiredIsKept, NEW r \in ProcessRecord, NEW l, NEW n,
         MarkUnverified(r, l, n), gate.loaded, acked' = acked
  PROVE  DesiredIsKept'
<1> DEFINE rs == [runtime EXCEPT !.process = r]
<1>1. TypeOK
  BY DEF IInv
<1>2. rs \in RuntimeState /\ rs.desired = runtime.desired
  BY <1>1, NewRecord
<1>3. runtime' = rs /\ Notify(TRUE, rs, gate, n)
  BY DEF MarkUnverified
<1> HIDE DEF rs
<1> QED BY <1>1, <1>2, <1>3, NotifyKeepsDesired

LEMMA PollKeepsDesired ==
  ASSUME IInv, DesiredIsKept, PollStep
  PROVE  DesiredIsKept'
<1>1. TypeOK /\ runtime \in RuntimeState /\ process \in Process
  BY DEF IInv, TypeOK
<1>2. gate.loaded
  BY LoadedWhere DEF PollStep, Polling, ConfirmIdentity, PollChildExit,
     PollPendingGroup, IdentityChanges, AttachedDisappears,
     AfterExplicitExit, AfterUnexpectedExit
<1>3. ASSUME NEW c, NEW n, PendingGroup(c, n)
      PROVE  DesiredIsKept'
  BY <1>1, <1>2, <1>3, NotifyKeepsDesired DEF PendingGroup, PollVars
<1>4. Managed => Unconfirmed(process.inst) \in ProcessRecord
  BY <1>1 DEF Unconfirmed, ProcessRecord, Process
<1>5. CASE ConfirmIdentity
  <2> DEFINE p  == [process EXCEPT !.unconfirmed = FALSE]
             rs == [runtime EXCEPT !.process = Record(p)]
  <2>1. PICK o : Write(rs, o, 0)
    BY <1>5 DEF ConfirmIdentity
  <2>2. p \in Process
    BY <1>1 DEF Process
  <2>3. Record(p) \in ProcessRecord
    BY <2>2, RecordType
  <2>4. rs \in RuntimeState /\ rs.desired = runtime.desired
    <3> HIDE DEF p
    <3> QED BY <1>1, <2>3, NewRecord
  <2>5. runtime' = rs /\ acked' = acked
    BY <1>5 DEF ConfirmIdentity, PollVars
  <2> HIDE DEF rs
  <2> QED BY <1>1, <1>2, <2>1, <2>4, <2>5, SaveKeepsDesired
<1>6. CASE PollChildExit \/ PollPendingGroup
  BY <1>2, <1>3, <1>6, CompleteExitKeepsDesired
     DEF PollChildExit, PollPendingGroup
<1>7. CASE IdentityChanges
  BY <1>2, <1>4, <1>7, MarkUnverifiedKeepsDesired
     DEF IdentityChanges, Polling, PollVars
<1>8. CASE AttachedDisappears
  BY <1>2, <1>4, <1>8, CompleteExitKeepsDesired, MarkUnverifiedKeepsDesired
     DEF AttachedDisappears, Polling, PollVars
<1>9. CASE AfterExplicitExit \/ AfterUnexpectedExit
  BY <1>1, <1>2, <1>9, NotifyKeepsDesired
     DEF AfterExplicitExit, AfterUnexpectedExit, PollVars
<1> QED BY <1>5, <1>6, <1>7, <1>8, <1>9 DEF PollStep

LEMMA DiscardKeepsDesired ==
  ASSUME IInv, DesiredIsKept, NEW o, Discard(o), gate.loaded, acked' = acked
  PROVE  DesiredIsKept'
<1> DEFINE cleared == [runtime EXCEPT !.process = NoRecord]
<1>1. TypeOK
  BY DEF IInv
<1>2. cleared \in RuntimeState /\ cleared.desired = runtime.desired
  BY <1>1, NewRecord, NoRecordType
<1>3. Write(cleared, o, 0) /\ runtime' \in {runtime, cleared}
  BY DEF Discard
<1> HIDE DEF cleared
<1> QED BY <1>1, <1>2, <1>3, SaveKeepsDesired

LEMMA TimerKeepsDesired ==
  ASSUME IInv, DesiredIsKept, TimerStep
  PROVE  DesiredIsKept'
<1>1. CASE CheckUnverified
  <2>1. gate.loaded /\ acked' = acked
    BY <1>1, LoadedWhere DEF CheckUnverified, UnverifiedGone, PollVars
  <2> QED BY <1>1, <2>1, DiscardKeepsDesired DEF CheckUnverified
<1>2. CASE RestartDue \/ PortRetryDue \/ StopTimesOut
  BY <1>2, QuietKeepsDesired
     DEF RestartDue, PortRetryDue, StopTimesOut, storeVars, PollVars
<1> QED BY <1>1, <1>2 DEF TimerStep

LEMMA HealthKeepsDesired ==
  ASSUME IInv, DesiredIsKept, HealthStep
  PROVE  DesiredIsKept'
<1>1. TypeOK /\ runtime \in RuntimeState /\ process \in Process
  BY DEF IInv, TypeOK
<1>2. gate.loaded
  BY LoadedWhere DEF HealthStep, StableRun, HealthyAnswer, UnhealthyAnswer,
     StaleHealthyAnswer, HealthApplicable
<1>3. CASE StableRun
  BY <1>3, QuietKeepsDesired DEF StableRun, storeVars, PollVars
<1>4. CASE HealthyAnswer
  <2> DEFINE rs == [runtime EXCEPT !.process = Record(process)]
  <2>1. PICK o : Write(rs, o, 0)
    BY <1>4 DEF HealthyAnswer
  <2>2. rs \in RuntimeState /\ rs.desired = runtime.desired
    BY <1>1, RecordType, NewRecord
  <2>3. runtime' = rs /\ acked' = acked
    BY <1>4 DEF HealthyAnswer, PollVars
  <2> HIDE DEF rs
  <2> QED BY <1>1, <1>2, <2>1, <2>2, <2>3, SaveKeepsDesired
<1>5. CASE UnhealthyAnswer \/ StaleHealthyAnswer
  <2>1. PICK o, n : Write(runtime, o, n)
    BY <1>5 DEF UnhealthyAnswer, StaleHealthyAnswer
  <2> QED BY <1>1, <1>2, <1>5, <2>1, SaveKeepsDesired
          DEF UnhealthyAnswer, StaleHealthyAnswer, PollVars
<1> QED BY <1>3, <1>4, <1>5 DEF HealthStep

LEMMA CredentialKeepsDesired ==
  ASSUME DesiredIsKept, CredentialStep
  PROVE  DesiredIsKept'
<1>1. UNCHANGED storeVars /\ acked' = acked
  BY DEF CredentialStep, AccessLost, AccessNotNeeded, RequestRead,
     PasswordApplied, ReadWithoutPassword, CredVars
<1> QED BY <1>1, QuietKeepsDesired DEF storeVars

LEMMA BootKeepsDesired ==
  ASSUME IInv, DesiredIsKept, BootStep
  PROVE  DesiredIsKept'
<1>1. TypeOK /\ runtime \in RuntimeState
  BY DEF IInv, TypeOK
<1>2. pc \in {"reattach", "probe", "converge"} => gate.loaded
  BY LoadedWhere
<1>3. ASSUME NEW basis, NEW b, NEW state, NEW n, Attach(basis, b, state, n),
             gate.loaded, acked' = acked
      PROVE  DesiredIsKept'
  <2>1. PICK o : Write(runtime, o, n)
    BY <1>3 DEF Attach
  <2> QED BY <1>1, <1>3, <2>1, SaveKeepsDesired DEF Attach
<1>4. ASSUME NEW n, Block(n), gate.loaded, acked' = acked
      PROVE  DesiredIsKept'
  BY <1>1, <1>4, MarkUnverifiedKeepsDesired DEF Block, RuntimeState
<1>5. ASSUME Forget, gate.loaded, acked' = acked
      PROVE  DesiredIsKept'
  BY <1>5, DiscardKeepsDesired DEF Forget
<1>6. CASE Boot
  BY <1>6 DEF Boot, BootVars, DesiredIsKept
<1>7. CASE BootUnreadable
  BY <1>7 DEF BootUnreadable, BootVars, Unloaded, DesiredIsKept
<1>8. CASE Inspect
  BY <1>2, <1>3, <1>4, <1>5, <1>8 DEF Inspect, ReattachVars, PollVars
<1>9. CASE InspectMatches
  BY <1>9, QuietKeepsDesired DEF InspectMatches, storeVars, PollVars
<1>10. CASE Probe
  BY <1>2, <1>3, <1>4, <1>5, <1>10 DEF Probe, ReattachVars, PollVars
<1>11. CASE Converge
  <2> DEFINE rs == [runtime EXCEPT !.process = NoRecord]
  <2>1. rs \in RuntimeState /\ rs.desired = runtime.desired
    BY <1>1, NewRecord, NoRecordType
  <2>2. gate.loaded /\ acked' = acked
    BY <1>2, <1>11 DEF Converge, PollVars
  <2>3. \/ runtime' = rs /\ \E o : Write(rs, o, 0)
        \/ UNCHANGED <<disk, runtime>>
    BY <1>11 DEF Converge, storeVars
  <2> HIDE DEF rs
  <2> QED BY <1>1, <2>1, <2>2, <2>3, SaveKeepsDesired, QuietKeepsDesired
<1> QED BY <1>6, <1>7, <1>8, <1>9, <1>10, <1>11 DEF BootStep

(* An acknowledged command is durable and in memory; a refused one changes *)
(* nothing; of an uncertain one nothing is promised.                       *)
LEMMA CommandKeepsDesired ==
  ASSUME IInv, DesiredIsKept, NEW c \in Commands, Command(c)
  PROVE  DesiredIsKept'
<1> DEFINE rs == [runtime EXCEPT !.desired = DesiredBy(c)]
<1>1. PICK o \in Outcomes :
        /\ disk' = SavedDisk(disk, rs, o)
        /\ \/ o = "Durable" /\ runtime' = rs /\ acked' = rs.desired
           \/ o = "Failed" /\ UNCHANGED <<runtime, acked>>
           \/ o = "Uncertain" /\ acked' = "none"
  BY DEF Command
<1>2. gate.loaded
  BY DEF Command
<1>3. CASE o = "Durable"
  <2>1. disk' = [visible |-> rs, durable |-> rs]
    BY <1>1, <1>3 DEF SavedDisk
  <2> HIDE DEF rs
  <2> QED BY <1>1, <1>3, <2>1 DEF DesiredIsKept
<1>4. CASE o = "Failed"
  <2>1. disk' = disk
    BY <1>1, <1>4 DEF SavedDisk
  <2> QED BY <1>1, <1>2, <1>4, <2>1, QuietKeepsDesired
<1>5. CASE o = "Uncertain"
  BY <1>1, <1>5 DEF DesiredIsKept
<1> QED BY <1>1, <1>3, <1>4, <1>5 DEF Outcomes

LEMMA UserKeepsDesired ==
  ASSUME IInv, DesiredIsKept, UserStep
  PROVE  DesiredIsKept'
<1>1. CASE RequestStart \/ RequestStop \/ RequestRestart
  BY <1>1, CommandKeepsDesired
     DEF RequestStart, RequestStop, RequestRestart, Commands
<1>2. CASE ContinueStop \/ ForceStop
  BY <1>2, QuietKeepsDesired DEF ContinueStop, ForceStop, storeVars
<1> QED BY <1>1, <1>2 DEF UserStep

(* A power loss leaves one of two files; both name what was acknowledged.  *)
LEMMA OsKeepsDesired ==
  ASSUME DesiredIsKept, OsStep
  PROVE  DesiredIsKept'
<1>1. CASE AgentExits
  BY <1>1 DEF AgentExits, MemoryLost, Unloaded, DesiredIsKept
<1>2. CASE PowerLoss
  <2>1. PICK rs \in {disk.visible, disk.durable} :
          disk' = [visible |-> rs, durable |-> rs]
    BY <1>2 DEF PowerLoss
  <2> QED BY <1>2, <2>1 DEF PowerLoss, MemoryLost, Unloaded, DesiredIsKept
<1>3. CASE ~AgentExits /\ ~PowerLoss
  <2>1. UNCHANGED AgentVars
    BY <1>3 DEF OsStep, LeaderExits, ResidueExits, LeaderEscapes, PidReused,
       ForeignExits
  <2> QED BY <2>1, QuietKeepsDesired DEF AgentVars, storeVars
<1> QED BY <1>1, <1>2, <1>3

(* What the user was told is stored outlives every crash and power loss,   *)
(* every failed or uncertain save and every launch that fails.             *)
THEOREM AckedDesiredSurvivesHolds == Spec => []AckedDesiredSurvives
<1>1. Init => DesiredIsKept
  BY DEF Init, Unloaded, Default, DesiredIsKept, RuntimeState
<1>2. IInv /\ DesiredIsKept /\ [Next]_vars => DesiredIsKept'
  <2>1. DesiredIsKept /\ UNCHANGED vars => DesiredIsKept'
    BY DEF vars, DesiredIsKept
  <2> QED BY <2>1, StartKeepsDesired, RetryKeepsDesired, PollKeepsDesired,
             TimerKeepsDesired, BootKeepsDesired, HealthKeepsDesired,
             CredentialKeepsDesired, UserKeepsDesired, OsKeepsDesired
          DEF Next
<1>3. DesiredIsKept => AckedDesiredSurvives
  BY DEF DesiredIsKept, AckedDesiredSurvives
<1> QED BY <1>1, <1>2, <1>3, Invariant, PTL DEF Spec

-----------------------------------------------------------------------------
(* The exit that waits.                                                    *)

(* While an exit waits only the steps that finish it and the commands that *)
(* supersede it touch it, and a failed or uncertain save is a retry.       *)
LEMMA QuietKeepsExit ==
  ASSUME ExitIsKept, pc \notin {"unwind", "resume"},
         pending'.exit = pending.exit \/ pending'.exit = "none",
         gate.retry => gate'.retry
  PROVE  ExitIsKept'
  BY DEF ExitIsKept

LEMMA NoneKeepsExit ==
  ASSUME pending'.exit = "none"
  PROVE  ExitIsKept'
  BY DEF ExitIsKept

LEMMA StartKeepsExit ==
  ASSUME IInv, ExitIsKept, StartStep
  PROVE  ExitIsKept'
<1>1. TypeOK /\ gate \in Gate /\ pending \in Pending
  BY DEF IInv, TypeOK
<1>2. CASE pending.exit = "none"
  <2>1. pending'.exit = "none"
    BY <1>1, <1>2 DEF StartStep, StartDeferred, StartWithoutConfig,
       StartWithoutAccess, StartRefusedWith, StartAwaitsRead, BeginLaunch,
       SpawnConfirmed, SpawnSurvivor, Spawn, SpawnFails, CommitSpawned,
       storeVars, Pending
  <2> QED BY <2>1, NoneKeepsExit
<1>3. CASE pending.exit # "none"
  <2>1. ~Ready(runtime, gate) /\ pc = "start"
    <3>1. pc \in {"start", "spawn", "commit"}
      BY DEF StartStep, StartDeferred, StartWithoutConfig,
         StartWithoutAccess, StartAwaitsRead, BeginLaunch,
         SpawnConfirmed, SpawnSurvivor, Spawn, SpawnFails, CommitSpawned
    <3>2. pc = "start" /\ ~gate.reliable
      BY <1>3, <3>1, WaitsWhere DEF IInv, GateIsClosed
    <3> QED BY <3>2 DEF Ready
  <2>2. StartDeferred
    BY <2>1 DEF StartStep, StartWithoutConfig,
       StartWithoutAccess, StartAwaitsRead, BeginLaunch,
       SpawnConfirmed, SpawnSurvivor, Spawn, SpawnFails, CommitSpawned
  <2>3. gate.retry => gate'.retry
    BY <1>1, <2>2 DEF StartDeferred, Gate
  <2>4. pending'.exit = pending.exit
    BY <1>1, <2>2 DEF StartDeferred, Pending
  <2> QED BY <2>1, <2>3, <2>4, QuietKeepsExit
<1> QED BY <1>2, <1>3

LEMMA RetryKeepsExit ==
  ASSUME IInv, ExitIsKept, RetryStep
  PROVE  ExitIsKept'
<1>1. TypeOK /\ gate \in Gate /\ pending \in Pending /\ life \in Life
  BY DEF IInv, TypeOK
<1>2. ASSUME NEW rs, NEW o \in Outcomes, gate' = SavedGate(gate, rs, o),
             pc' \in {"unwind", "resume"} \/ o # "Durable"
      PROVE  ExitIsKept'
  BY <1>1, <1>2 DEF SavedGate, Gate, Outcomes, ExitIsKept
<1>3. CASE RetrySave
  BY <1>2, <1>3 DEF RetrySave, Goto, Resumed
<1>4. CASE UnwindMarker
  BY <1>2, <1>4 DEF UnwindMarker, Goto, Resumed
<1>5. Coherent(gate)
  BY DEF IInv, GateIsClosed
<1>6. CASE ResumeIntent
  <2> DEFINE p == [pending EXCEPT !.intent = "none"]
  <2>1. PICK n : Apply(pending.intent, runtime, gate, p, n)
    BY <1>6 DEF ResumeIntent
  <2>2. p \in Pending
    BY <1>1 DEF Pending
  <2> HIDE DEF p
  <2> QED BY <1>1, <1>5, <2>1, <2>2, ApplyEffect, NoneKeepsExit
<1>7. CASE ResumeExit
  BY <1>1, <1>7, NoneKeepsExit DEF ResumeExit, Pending
<1>8. CASE ResumeConvergence
  <2> DEFINE p == [pending EXCEPT !.convergence = "none"]
  <2>1. p \in Pending /\ p.exit = "none" /\ pending.exit = "none"
    BY <1>1, <1>8 DEF ResumeConvergence, Pending
  <2>2. \/ pending' \in {pending, p}
        \/ \E n : BeginStop(FALSE, runtime, gate, p, life, n)
    BY <1>8 DEF ResumeConvergence
  <2> HIDE DEF p
  <2> QED BY <1>1, <1>5, <2>1, <2>2, BeginStopEffect, NoneKeepsExit
<1> QED BY <1>3, <1>4, <1>6, <1>7, <1>8 DEF RetryStep

LEMMA PollKeepsExit ==
  ASSUME IInv, ExitIsKept, PollStep
  PROVE  ExitIsKept'
<1>1. TypeOK /\ gate \in Gate /\ pending \in Pending
  BY DEF IInv, TypeOK
<1>2. pending.exit = "none"
  BY LoadedWhere, WaitsWhere
     DEF PollStep, Polling, ConfirmIdentity, PollChildExit,
         PollPendingGroup, IdentityChanges, AttachedDisappears,
         AfterExplicitExit, AfterUnexpectedExit
<1>3. CASE pending' = pending
  BY <1>2, <1>3, NoneKeepsExit
<1>4. CASE CompleteExit
  <2>1. PICK o \in Outcomes :
          /\ gate' = SavedGate(gate, [runtime EXCEPT !.process = NoRecord], o)
          /\ o # "Uncertain" => pending' = pending
    BY <1>4 DEF CompleteExit
  <2>2. o = "Uncertain" => gate'.retry
    BY <1>1, <2>1 DEF SavedGate, Gate
  <2> QED BY <1>3, <2>1, <2>2 DEF ExitIsKept
<1> QED BY <1>3, <1>4 DEF PollStep, ConfirmIdentity, PollChildExit,
           PollPendingGroup, PendingGroup, IdentityChanges,
           AttachedDisappears, AfterExplicitExit, AfterUnexpectedExit

LEMMA TimerKeepsExit ==
  ASSUME IInv, ExitIsKept, TimerStep
  PROVE  ExitIsKept'
<1>1. pending \in Pending
  BY DEF IInv, TypeOK
<1>2. CASE CheckUnverified
  <2>1. pending.exit = "none"
    BY <1>2, LoadedWhere DEF CheckUnverified, UnverifiedGone
  <2>2. pending'.exit = "none"
    BY <1>1, <1>2, <2>1 DEF CheckUnverified, Discard, Pending
  <2> QED BY <2>2, NoneKeepsExit
<1>3. CASE RestartDue \/ PortRetryDue \/ StopTimesOut
  BY <1>3, QuietKeepsExit
     DEF RestartDue, PortRetryDue, StopTimesOut, storeVars
<1> QED BY <1>2, <1>3 DEF TimerStep

LEMMA BootKeepsExit ==
  ASSUME IInv, BootStep
  PROVE  ExitIsKept'
<1>1. TypeOK /\ gate \in Gate /\ pending \in Pending /\ life \in Life
  BY DEF IInv, TypeOK
<1>2. pending.exit = "none" /\ Coherent(gate)
  BY WaitsWhere DEF BootStep, Boot, BootUnreadable, Inspect, InspectMatches,
     Probe, Converge, IInv, GateIsClosed
<1>3. CASE Converge
  <2>1. \/ pending' = pending
        \/ \E t : pending' = [pending EXCEPT !.convergence = t]
        \/ \E n : BeginStop(FALSE, runtime, gate, pending, life, n)
    BY <1>3 DEF Converge, storeVars
  <2> QED BY <1>1, <1>2, <2>1, BeginStopEffect, NoneKeepsExit DEF Pending
<1>4. CASE ~Converge
  <2>1. pending'.exit = "none"
    BY <1>1, <1>2, <1>4 DEF BootStep, Boot, BootUnreadable, BootVars,
       Inspect, InspectMatches, Probe, storeVars, Attach, Block, Forget,
       Discard, Pending
  <2> QED BY <2>1, NoneKeepsExit
<1> QED BY <1>3, <1>4

LEMMA UserKeepsExit ==
  ASSUME IInv, ExitIsKept, UserStep
  PROVE  ExitIsKept'
<1>1. TypeOK /\ gate \in Gate /\ pending \in Pending /\ Coherent(gate)
      /\ runtime \in RuntimeState
  BY DEF IInv, TypeOK, GateIsClosed
<1>2. ASSUME NEW c \in Commands, Command(c)
      PROVE  ExitIsKept'
  <2> DEFINE rs == [runtime EXCEPT !.desired = DesiredBy(c)]
             p  == [pending EXCEPT !.intent = "none", !.convergence = "none"]
  <2>1. PICK o \in Outcomes, n \in 0..1 :
          \/ Apply(c, rs, SavedGate(gate, rs, o), p, n)
          \/ o # "Durable" /\ gate' = SavedGate(gate, rs, o)
    BY <1>2 DEF Command
  <2>2. rs \in RuntimeState /\ p \in Pending /\ o \in SaveOutcomes
    BY <1>1, <2>1, OutcomeTypes DEF RuntimeState, Desired, DesiredBy, Pending
  <2> HIDE DEF rs, p
  <2>3. SavedGate(gate, rs, o) \in Gate /\ Coherent(SavedGate(gate, rs, o))
    BY <1>1, <2>2, GateSaved DEF SavedGate, Gate
  <2>4. CASE Apply(c, rs, SavedGate(gate, rs, o), p, n)
    BY <1>1, <2>2, <2>3, <2>4, ApplyEffect, NoneKeepsExit
  <2>5. CASE o # "Durable" /\ gate' = SavedGate(gate, rs, o)
    BY <1>1, <2>5 DEF SavedGate, Gate, Outcomes, ExitIsKept
  <2> QED BY <2>1, <2>4, <2>5
<1>3. CASE RequestStart \/ RequestStop \/ RequestRestart
  BY <1>2, <1>3 DEF RequestStart, RequestStop, RequestRestart, Commands
<1>4. CASE ContinueStop \/ ForceStop
  BY <1>4, QuietKeepsExit DEF ContinueStop, ForceStop, storeVars
<1> QED BY <1>3, <1>4 DEF UserStep

LEMMA RestKeepsExit ==
  ASSUME IInv, ExitIsKept, HealthStep \/ CredentialStep \/ OsStep
  PROVE  ExitIsKept'
<1>1. CASE HealthStep
  <2>1. pending.exit = "none"
    BY <1>1, LoadedWhere DEF HealthStep, StableRun, HealthyAnswer,
       UnhealthyAnswer, StaleHealthyAnswer, HealthApplicable
  <2>2. pending' = pending
    BY <1>1 DEF HealthStep, StableRun, HealthyAnswer, UnhealthyAnswer,
       StaleHealthyAnswer, storeVars
  <2> QED BY <2>1, <2>2, NoneKeepsExit
<1>2. CASE CredentialStep
  <2>1. UNCHANGED storeVars /\ pc \in {"down", "idle", "start"}
    BY <1>2 DEF CredentialStep, AccessLost, AccessNotNeeded, RequestRead,
       PasswordApplied, ReadWithoutPassword, CredVars, Merging
  <2> QED BY <2>1, QuietKeepsExit DEF storeVars
<1>3. CASE AgentExits \/ PowerLoss
  BY <1>3, NoneKeepsExit
     DEF AgentExits, PowerLoss, MemoryLost, NothingPending
<1>4. CASE OsStep /\ ~AgentExits /\ ~PowerLoss
  <2>1. UNCHANGED AgentVars
    BY <1>4 DEF OsStep, LeaderExits, ResidueExits, LeaderEscapes, PidReused,
       ForeignExits
  <2> QED BY <2>1 DEF AgentVars, storeVars, ExitIsKept
<1> QED BY <1>1, <1>2, <1>3, <1>4

(* An exit whose record could not be cleared for certain is never left     *)
(* behind: until it is completed the save it waits for is scheduled.       *)
THEOREM ExitIsScheduledHolds == Spec => []ExitIsScheduled
<1>1. Init => ExitIsKept
  BY DEF Init, NothingPending, ExitIsKept
<1>2. IInv /\ ExitIsKept /\ [Next]_vars => ExitIsKept'
  <2>1. ExitIsKept /\ UNCHANGED vars => ExitIsKept'
    BY DEF vars, ExitIsKept
  <2> QED BY <2>1, StartKeepsExit, RetryKeepsExit, PollKeepsExit,
             TimerKeepsExit, BootKeepsExit, UserKeepsExit, RestKeepsExit
          DEF Next
<1>3. ExitIsKept => ExitIsScheduled
  BY DEF ExitIsKept, ExitIsScheduled
<1> QED BY <1>1, <1>2, <1>3, Invariant, PTL DEF Spec

-----------------------------------------------------------------------------
(* The process that is killed.                                             *)

(* A child of this agent cannot be reaped by anyone else: until the agent  *)
(* does, its PID names it.                                                 *)
OwnLeader(i) == i \in Inst /\ leader[i] \in {"alive", "exited"}

ChildIsOwn ==
  /\ process.kind = "child" => OwnLeader(process.inst)
  /\ pc = "commit" => OwnLeader(spawned.inst)

(* A step that keeps the agent's children and what the kernel has of them. *)
LEMMA SameChild ==
  ASSUME ChildIsOwn, leader' = leader,
         process'.kind = "child" =>
           process.kind = "child" /\ process'.inst = process.inst,
         pc' # "commit"
  PROVE  ChildIsOwn'
  BY DEF ChildIsOwn, OwnLeader

LEMMA StartKeepsChild ==
  ASSUME IInv, ChildIsOwn, StartStep
  PROVE  ChildIsOwn'
<1>1. TypeOK /\ process \in Process /\ leader \in
        [Inst -> {"gone", "alive", "exited", "reused"}]
  BY DEF IInv, TypeOK
<1>2. ASSUME NEW i \in Inst, NEW u, NEW c, NEW b, NEW left,
             NEW state \in {"alive", "exited"},
             Spawn(i, Child(i, u, c, b), state, left)
      PROVE  ChildIsOwn'
  <2>1. /\ spawned'.inst = i /\ leader' = [leader EXCEPT ![i] = state]
        /\ process' = process
    BY <1>2 DEF Spawn, ownVars, Child
  <2>2. ~Managed
    BY <1>2 DEF Spawn, IInv, StartIsFree, Free
  <2> QED BY <1>1, <2>1, <2>2 DEF ChildIsOwn, OwnLeader, Managed
<1>5. CASE SpawnConfirmed
  BY <1>2, <1>5 DEF SpawnConfirmed
<1>6. CASE SpawnSurvivor
  <2>1. PICK i \in Inst, u \in BOOLEAN :
          \/ \E left \in {FALSE, u /\ "escape" \in Faults} :
               Spawn(i, Child(i, u, "none", "none"), "alive", left)
          \/ \E c \in {"signalled", "refused"} :
               Spawn(i, Child(i, u, c, "none"), "exited", FALSE)
    BY <1>6, Zenon DEF SpawnSurvivor
  <2> QED BY <1>2, <2>1
<1>3. CASE CommitSpawned
  BY <1>3 DEF CommitSpawned, osVars, Return, ChildIsOwn, OwnLeader
<1>4. CASE ~SpawnConfirmed /\ ~SpawnSurvivor /\ ~CommitSpawned
  <2>1. leader' = leader /\ process' = process
    BY <1>4 DEF StartStep, StartDeferred, StartWithoutConfig,
       StartWithoutAccess, StartRefusedWith, StartAwaitsRead, BeginLaunch,
       SpawnFails, StartVars, osVars, ownVars
  <2>2. pc' # "commit"
    BY <1>4 DEF StartStep, StartDeferred, StartWithoutConfig,
       StartWithoutAccess, StartRefusedWith, StartAwaitsRead, BeginLaunch,
       SpawnFails, Return
  <2> QED BY <2>1, <2>2, SameChild
<1> QED BY <1>3, <1>4, <1>5, <1>6

LEMMA LoopKeepsChild ==
  ASSUME IInv, ChildIsOwn, RetryStep \/ PollStep \/ TimerStep
  PROVE  ChildIsOwn'
<1>1. TypeOK /\ process \in Process /\ gate \in Gate /\ life \in Life
      /\ pending \in Pending
  BY DEF IInv, TypeOK
<1>2. CASE RetryStep
  <2>1. leader' = leader /\ process' = process
    BY <1>2 DEF RetryStep, RetrySave, UnwindMarker, ResumeIntent, ResumeExit,
       ResumeConvergence, osVars, ownVars
  <2>2. pc' # "commit"
    BY <1>2 DEF RetryStep, RetrySave, UnwindMarker, ResumeIntent, ResumeExit,
       ResumeConvergence, Goto, Resumed, Return, Call, Apply, ApplyStart,
       ApplyStop, ApplyRestart, BeginStop
  <2> QED BY <2>1, <2>2, SameChild
<1>3. CASE CompleteExit
  BY <1>3 DEF CompleteExit, NoProcess, Goto, Return, ChildIsOwn
<1>4. ASSUME NEW c, NEW n, PendingGroup(c, n)
      PROVE  ChildIsOwn'
  <2>1. process'.kind = process.kind /\ process'.inst = process.inst
    BY <1>1, <1>4 DEF PendingGroup, Process
  <2> QED BY <1>4, <2>1, SameChild DEF PendingGroup, osVars, Return
<1>5. CASE ConfirmIdentity
  <2>1. process'.kind = process.kind /\ process'.inst = process.inst
    BY <1>1, <1>5 DEF ConfirmIdentity, Process
  <2> QED BY <1>5, <2>1, SameChild DEF ConfirmIdentity, osVars, Return
<1>6. CASE IdentityChanges
  <2>1. process'.kind = "child" => process.kind = "child"
                                   /\ process'.inst = process.inst
    BY <1>1, <1>6 DEF IdentityChanges, Process, NoProcess
  <2> QED BY <1>6, <2>1, SameChild DEF IdentityChanges, osVars, Return
<1>7. CASE AttachedDisappears /\ ~CompleteExit
  BY <1>7 DEF AttachedDisappears, NoProcess, Return, ChildIsOwn
<1>8. CASE AfterExplicitExit \/ AfterUnexpectedExit
  BY <1>8, SameChild DEF AfterExplicitExit, AfterUnexpectedExit, osVars,
     ownVars, Return, Call
<1>9. CASE TimerStep
  BY <1>9, SameChild DEF TimerStep, CheckUnverified, UnverifiedGone,
     RestartDue, PortRetryDue, StopTimesOut, osVars, ownVars, Return, Call
<1> QED BY <1>2, <1>3, <1>4, <1>5, <1>6, <1>7, <1>8, <1>9
        DEF PollStep, PollChildExit, PollPendingGroup

LEMMA RestKeepsChild ==
  ASSUME IInv, ChildIsOwn, BootStep \/ HealthStep \/ CredentialStep
  PROVE  ChildIsOwn'
<1>1. process \in Process
  BY DEF IInv, TypeOK
<1>2. leader' = leader /\ pc' # "commit"
  BY DEF BootStep, Boot, BootUnreadable, BootVars, Inspect, InspectMatches,
     Probe, Converge, ReattachVars, HealthStep, StableRun, HealthyAnswer,
     UnhealthyAnswer, StaleHealthyAnswer, CredentialStep, AccessLost,
     AccessNotNeeded, RequestRead, PasswordApplied, ReadWithoutPassword,
     CredVars, osVars, Goto, Resumed, Return, Call, BeginStop,
     HealthApplicable, Merging
<1>3. \/ process' = process \/ process'.kind = "attached"
      \/ process' = [process EXCEPT !.basis = "active"]
  <2>1. CASE BootStep
    <3>1. \A r, basis : Attached(r, basis).kind = "attached"
      BY DEF Attached
    <3>2. \A basis, u, state, n :
            Attach(basis, u, state, n) => process'.kind = "attached"
      BY <3>1 DEF Attach
    <3> QED BY <2>1, <3>2 DEF BootStep, Boot, BootUnreadable, BootVars,
               Inspect, InspectMatches, Probe, Converge, Block, Forget,
               ownVars
  <2>2. CASE HealthStep \/ CredentialStep
    BY <2>2 DEF HealthStep, StableRun, HealthyAnswer, UnhealthyAnswer,
       StaleHealthyAnswer, CredentialStep, AccessLost, AccessNotNeeded,
       RequestRead, PasswordApplied, ReadWithoutPassword, CredVars, ownVars
  <2> QED BY <2>1, <2>2
<1>4. process'.kind = "child" => process.kind = "child"
                                 /\ process'.inst = process.inst
  BY <1>1, <1>3 DEF Process
<1> QED BY <1>2, <1>4, SameChild

LEMMA UserKeepsChild ==
  ASSUME IInv, ChildIsOwn, UserStep
  PROVE  ChildIsOwn'
<1>1. leader \in [Inst -> {"gone", "alive", "exited", "reused"}]
  BY DEF IInv, TypeOK
<1>2. CASE ForceStop
  <2>1. /\ leader' = [leader EXCEPT ![process.inst] =
                        IF process.kind = "child" THEN "exited" ELSE "gone"]
        /\ process' = process /\ pc' = "idle"
    BY <1>2 DEF ForceStop, ownVars
  <2> QED BY <1>1, <2>1 DEF ChildIsOwn, OwnLeader
<1>3. CASE ContinueStop
  BY <1>3, SameChild DEF ContinueStop, osVars, ownVars
<1>4. CASE \E c \in Commands : Command(c)
  BY <1>4, SameChild DEF Command, osVars, ownVars, Apply, ApplyStart,
     ApplyStop, ApplyRestart, BeginStop, Return, Call
<1> QED BY <1>2, <1>3, <1>4 DEF UserStep, RequestStart, RequestStop,
           RequestRestart, Commands

(* Another leader may exit, move or be replaced; a child stays waitable.   *)
LEMMA OsKeepsChild ==
  ASSUME IInv, ChildIsOwn, OsStep
  PROVE  ChildIsOwn'
<1>1. leader \in [Inst -> {"gone", "alive", "exited", "reused"}]
  BY DEF IInv, TypeOK
<1>2. CASE AgentExits \/ PowerLoss
  BY <1>2 DEF AgentExits, PowerLoss, MemoryLost, NoProcess, Goto, ChildIsOwn
<1>3. CASE LeaderExits
  <2>1. PICK i \in Inst : leader' = [leader EXCEPT ![i] =
          IF Owned(i) THEN "exited" ELSE "gone"]
    BY <1>3 DEF LeaderExits
  <2>2. process' = process /\ spawned' = spawned /\ pc' = pc
    BY <1>3 DEF LeaderExits, AgentVars, ownVars
  <2> QED BY <1>1, <2>1, <2>2 DEF ChildIsOwn, OwnLeader, Owned
<1>4. CASE PidReused \/ ForeignExits
  <2>1. PICK i \in Inst, s \in {"gone", "reused"} :
          leader[i] \in {"gone", "reused"} /\ leader' = [leader EXCEPT ![i] = s]
    BY <1>4 DEF PidReused, ForeignExits, GroupGone
  <2>2. process' = process /\ spawned' = spawned /\ pc' = pc
    BY <1>4 DEF PidReused, ForeignExits, AgentVars, ownVars
  <2> QED BY <1>1, <2>1, <2>2 DEF ChildIsOwn, OwnLeader
<1>5. CASE ResidueExits \/ LeaderEscapes
  BY <1>5 DEF ResidueExits, LeaderEscapes, AgentVars, ownVars, ChildIsOwn,
     OwnLeader
<1> QED BY <1>2, <1>3, <1>4, <1>5 DEF OsStep

LEMMA ChildIsOwnHolds == Spec => []ChildIsOwn
<1>1. Init => ChildIsOwn
  BY DEF Init, NoProcess, ChildIsOwn
<1>2. IInv /\ ChildIsOwn /\ [Next]_vars => ChildIsOwn'
  <2>1. ChildIsOwn /\ UNCHANGED vars => ChildIsOwn'
    BY DEF vars, ChildIsOwn, OwnLeader
  <2> QED BY <2>1, StartKeepsChild, LoopKeepsChild, RestKeepsChild,
             UserKeepsChild, OsKeepsChild DEF Next
<1> QED BY <1>1, <1>2, Invariant, PTL DEF Spec

(* ForceStop kills the group of a process this agent is responsible for:   *)
(* its own child, which it has not reaped, or an attached process that it  *)
(* has just validated.                                                     *)
THEOREM KillIsOwnHolds == Spec => KillIsOwn
<1>1. ChildIsOwn => (ForceStop => leader[process.inst] \in {"alive", "exited"})
  BY DEF ChildIsOwn, OwnLeader, ForceStop, SignalAuthorized, Current
<1> QED BY <1>1, ChildIsOwnHolds, PTL DEF Spec, KillIsOwn

-----------------------------------------------------------------------------
(* The groups of earlier servers, when no leader exits during the health   *)
(* check of a reattach.                                                    *)

Empty == \A i \in Inst : ~Busy(i)

SpeaksOfAll(rs) == \A i \in Inst : Busy(i) => rs.marker \/ rs.process.inst = i

(* OneGroup needs what OneServer needs, of everything that is left of a    *)
(* server: state.json and the memory speak of it, and an agent without a   *)
(* process, an unverified record or a leftover marker has left nothing.    *)
GroupsAreKnown ==
  /\ OneGroup
  /\ SpeaksOfAll(disk.visible)
  /\ gate.loaded => SpeaksOfAll(runtime)
  /\ /\ gate.loaded /\ Free /\ ~Blocked
     /\ pc \notin {"reattach", "probe", "commit"}
     => Empty
  /\ pc = "spawn" => Empty
  /\ pc = "commit" => \A i \in Inst : Busy(i) => spawned.inst = i
  /\ pc = "probe" => (runtime.process.inst \in Inst =>
                        leader[runtime.process.inst] = "alive")
  /\ \A i \in Inst : leader[i] = "reused" => ~residue[i]

LEMMA EmptyKnown ==
  ASSUME GroupsAreKnown, Empty, leader' = leader, residue' = residue,
         pc' # "probe"
  PROVE  GroupsAreKnown'
  BY DEF GroupsAreKnown, Empty, SpeaksOfAll, OneGroup, Busy

(* Between two points of the loop: what is saved speaks of every group.    *)
LEMMA SettledKnown ==
  ASSUME GroupsAreKnown, leader' = leader, residue' = residue,
         SpeaksOfAll(disk'.visible), gate'.loaded => SpeaksOfAll(runtime'),
         gate'.loaded /\ Free' /\ ~Blocked' => Empty,
         pc' \notin {"spawn", "commit", "probe"}
  PROVE  GroupsAreKnown'
  BY DEF GroupsAreKnown, Empty, SpeaksOfAll, OneGroup, Busy

LEMMA QuietKnown ==
  ASSUME GroupsAreKnown, leader' = leader, residue' = residue, disk' = disk,
         UNCHANGED ownVars, runtime' = runtime, gate'.loaded = gate.loaded,
         gate'.clearReq = gate.clearReq \/ (gate.loaded /\ Empty),
         pc \notin {"reattach", "probe", "commit"},
         pc' \notin {"spawn", "commit", "probe"}
  PROVE  GroupsAreKnown'
<1>1. gate'.loaded /\ Free' /\ ~Blocked' => Empty
  BY DEF GroupsAreKnown, ownVars, Free, Managed, Blocked
<1> QED BY <1>1, SettledKnown DEF GroupsAreKnown

(* A save of what speaks of every group.                                   *)
LEMMA SaveSpeaks ==
  ASSUME TypeOK, GroupsAreKnown, NEW rs \in RuntimeState, NEW o, NEW n,
         Write(rs, o, n), SpeaksOfAll(rs)
  PROVE  SpeaksOfAll(disk'.visible)
<1>1. disk'.visible \in {disk.visible, rs}
  BY DEF Write, SavedDisk, TypeOK, Disk
<1> QED BY <1>1 DEF GroupsAreKnown

(* The group of a managed process, or of an unverified record, is the only *)
(* one.                                                                    *)
LEMMA HeldGroup ==
  ASSUME IInv, GroupsAreKnown, NEW i \in Inst, Busy(i),
         Managed \/ unverified
  PROVE  /\ runtime.process.inst = i /\ ~runtime.marker
         /\ Managed => process.inst = i
<1>1. ~runtime.marker
  BY DEF IInv, LaunchIsMarked, Free
<1>2. gate.loaded
  BY LoadedWhere
<1> QED BY <1>1, <1>2 DEF GroupsAreKnown, SpeaksOfAll, IInv, HeldIsRecorded

(* ... and a start finds none, unless a leftover marker blocks it.         *)
LEMMA StartIsEmpty ==
  ASSUME IInv, GroupsAreKnown, pc = "start", Ready(runtime, gate)
  PROVE  Empty
  BY DEF IInv, StartIsFree, GroupsAreKnown, Ready, Unfinalized, Blocked

LEMMA StartKnown ==
  ASSUME IInv, GroupsAreKnown, StartStep
  PROVE  GroupsAreKnown'
<1>1. TypeOK /\ gate \in Gate
  BY DEF IInv, TypeOK
<1>2. CASE StartDeferred
  <2>1. gate'.loaded = gate.loaded /\ gate'.clearReq = gate.clearReq
    BY <1>1, <1>2 DEF StartDeferred, Gate
  <2> QED BY <1>2, <2>1, QuietKnown
          DEF StartDeferred, StartVars, osVars, Return
<1>3. CASE StartWithoutConfig \/ StartWithoutAccess \/ StartAwaitsRead
           \/ BeginLaunch
  <2>1. Empty
    BY <1>3, StartIsEmpty DEF StartWithoutConfig, StartWithoutAccess,
       StartAwaitsRead, BeginLaunch
  <2>2. leader' = leader /\ residue' = residue /\ pc' # "probe"
    BY <1>3 DEF StartWithoutConfig, StartWithoutAccess, StartAwaitsRead,
       StartRefusedWith, BeginLaunch, StartVars, osVars, Return
  <2> QED BY <2>1, <2>2, EmptyKnown
<1>4. ASSUME NEW i \in Inst, NEW u, NEW c, NEW b, NEW left, NEW state,
             Spawn(i, Child(i, u, c, b), state, left)
      PROVE  GroupsAreKnown'
  <2>1. /\ leader' = [leader EXCEPT ![i] = state]
        /\ residue' = [residue EXCEPT ![i] = state = "exited"]
        /\ spawned'.inst = i /\ pc = "spawn" /\ pc' = "commit"
        /\ UNCHANGED <<disk, runtime, gate>>
    BY <1>4 DEF Spawn, storeVars, Child
  <2>2. runtime.marker /\ disk.visible.marker /\ Empty
    BY <2>1 DEF IInv, LaunchIsMarked, GroupsAreKnown
  <2>3. \A j \in Inst : j # i => ~Busy(j)' /\ leader'[j] = leader[j]
                                 /\ residue'[j] = residue[j]
    BY <1>1, <2>1, <2>2 DEF TypeOK, Busy, Empty
  <2>4. leader'[i] = state /\ residue'[i] = (state = "exited")
    BY <1>1, <2>1 DEF TypeOK
  <2> QED BY <2>1, <2>2, <2>3, <2>4
          DEF GroupsAreKnown, SpeaksOfAll, OneGroup
<1>5. CASE SpawnConfirmed
  BY <1>4, <1>5 DEF SpawnConfirmed
<1>6. CASE SpawnSurvivor
  <2>1. PICK i \in Inst, u \in BOOLEAN :
          \/ \E left \in {FALSE, u /\ "escape" \in Faults} :
               Spawn(i, Child(i, u, "none", "none"), "alive", left)
          \/ \E c \in {"signalled", "refused"} :
               Spawn(i, Child(i, u, c, "none"), "exited", FALSE)
    BY <1>6, Zenon DEF SpawnSurvivor
  <2> QED BY <1>4, <2>1
<1>7. CASE SpawnFails
  BY <1>7, EmptyKnown
     DEF SpawnFails, StartVars, osVars, Return, GroupsAreKnown
<1>8. CASE CommitSpawned
  <2> DEFINE rs == [runtime EXCEPT !.process = Record(spawned),
                                   !.marker = FALSE]
  <2>1. PICK o : Write(rs, o, 0)
    BY <1>8 DEF CommitSpawned
  <2>2. rs \in RuntimeState /\ rs.process.inst = spawned.inst
    BY <1>1, NewRecord, RecordType DEF TypeOK, RuntimeState, Record
  <2>3. runtime' = rs /\ process' = spawned /\ spawned.kind = "child"
        /\ pc = "commit" /\ pc' = "idle" /\ UNCHANGED osVars
    BY <1>8 DEF CommitSpawned, Return, IInv, LaunchIsMarked
  <2>4. SpeaksOfAll(rs)
    BY <2>2, <2>3 DEF GroupsAreKnown, SpeaksOfAll
  <2> HIDE DEF rs
  <2>5. SpeaksOfAll(disk'.visible)
    BY <1>1, <2>1, <2>2, <2>4, SaveSpeaks
  <2>6. SpeaksOfAll(runtime') /\ ~Free'
    BY <2>3, <2>4 DEF Free, Managed
  <2> QED BY <2>3, <2>5, <2>6, SettledKnown DEF osVars
<1> QED BY <1>2, <1>3, <1>5, <1>6, <1>7, <1>8 DEF StartStep

(* A save leaves a leftover marker as it is.                               *)
LEMMA SavedClear ==
  ASSUME NEW g \in Gate, NEW rs \in RuntimeState, NEW o \in SaveOutcomes
  PROVE  rs.marker => SavedGate(g, rs, o).clearReq = g.clearReq
  BY GateSaved DEF SavedGate, Gate

(* A save of a state that speaks of the same process as the memory.        *)
LEMMA SameKnown ==
  ASSUME IInv, GroupsAreKnown, gate.loaded,
         leader' = leader, residue' = residue, NEW rs \in RuntimeState,
         NEW o \in SaveOutcomes, NEW n, Write(rs, o, n), runtime' = rs,
         rs.process.inst = runtime.process.inst,
         rs.marker = runtime.marker,
         rs.marker => gate'.clearReq = gate.clearReq,
         Free' => Free,
         pc \notin {"reattach", "probe", "commit"} \/ ~Free',
         pc' \notin {"spawn", "commit", "probe"}
  PROVE  GroupsAreKnown'
<1>1. TypeOK /\ SpeaksOfAll(rs)
  BY DEF IInv, GroupsAreKnown, SpeaksOfAll
<1>2. SpeaksOfAll(disk'.visible)
  BY <1>1, SaveSpeaks
<1>3. gate'.loaded /\ Free' /\ ~Blocked' => Empty
  BY DEF GroupsAreKnown, Blocked
<1> QED BY <1>1, <1>2, <1>3, SettledKnown

LEMMA NotifyKnown ==
  ASSUME IInv, GroupsAreKnown, gate.loaded, runtime' = runtime,
         leader' = leader, residue' = residue, NEW emits, NEW n,
         Notify(emits, runtime, gate, n), Free' => Free,
         pc \notin {"reattach", "probe", "commit"},
         pc' \notin {"spawn", "commit", "probe"}
  PROVE  GroupsAreKnown'
<1>1. runtime \in RuntimeState /\ gate \in Gate
  BY DEF IInv, TypeOK
<1>2. PICK o \in SaveOutcomes :
        Write(runtime, o, n) /\ gate' = SavedGate(gate, runtime, o)
  BY OutcomeTypes DEF Notify, SaveOutcomes
<1> QED BY <1>1, <1>2, SavedClear, SameKnown

LEMMA RetryKnown ==
  ASSUME IInv, GroupsAreKnown, RetryStep
  PROVE  GroupsAreKnown'
<1>1. TypeOK /\ runtime \in RuntimeState /\ gate \in Gate /\ life \in Life
      /\ pending \in Pending /\ Coherent(gate)
  BY DEF IInv, TypeOK, GateIsClosed
<1>2. gate.loaded
  BY LoadedWhere DEF RetryStep, RetrySave, UnwindMarker, ResumeIntent,
     ResumeExit, ResumeConvergence
<1>3. CASE RetrySave
  <2>1. PICK o \in SaveOutcomes :
          Write(runtime, o, 0) /\ gate' = SavedGate(gate, runtime, o)
    BY <1>3, OutcomeTypes DEF RetrySave
  <2>2. pc' \in {"unwind", "resume", "idle"} /\ (Free' => Free)
    BY <1>3 DEF RetrySave, Goto, Resumed, Return, ownVars, Free, Managed
  <2> QED BY <1>1, <1>2, <1>3, <2>1, <2>2, SavedClear, SameKnown
          DEF RetrySave, osVars
<1>4. CASE UnwindMarker
  <2> DEFINE rs == [runtime EXCEPT !.marker = FALSE]
  <2>1. PICK o \in SaveOutcomes :
          Write(rs, o, 0) /\ gate' = SavedGate(gate, rs, o)
    BY <1>4, OutcomeTypes DEF UnwindMarker
  <2>2. /\ rs \in RuntimeState /\ ~rs.marker
        /\ rs.process.inst = runtime.process.inst
    BY <1>1, NewRecord DEF RuntimeState
  <2>3. /\ pc = "unwind" /\ pc' \in {"resume", "idle"} /\ (Free' => Free)
        /\ runtime' = rs /\ UNCHANGED osVars
    BY <1>4 DEF UnwindMarker, Goto, Resumed, Return, ownVars, Free, Managed
  <2> HIDE DEF rs
  <2>4. CASE runtime.marker
    <3>1. Free /\ ~Blocked
      BY <2>3, <2>4 DEF IInv, LaunchIsMarked, Blocked
    <3>2. Empty
      BY <1>2, <2>3, <3>1 DEF GroupsAreKnown
    <3> QED BY <2>3, <3>2, EmptyKnown DEF osVars
  <2>5. CASE ~runtime.marker
    BY <1>1, <1>2, <2>1, <2>2, <2>3, <2>5, SameKnown
       DEF osVars, RuntimeState
  <2> QED BY <2>4, <2>5
<1>5. CASE ResumeIntent
  <2> DEFINE p == [pending EXCEPT !.intent = "none"]
  <2>1. PICK n : Apply(pending.intent, runtime, gate, p, n)
    BY <1>5 DEF ResumeIntent
  <2>2. p \in Pending
    BY <1>1 DEF Pending
  <2> HIDE DEF p
  <2> QED BY <1>1, <1>5, <2>1, <2>2, ApplyEffect, QuietKnown
          DEF ResumeIntent, osVars
<1>6. CASE ResumeExit
  <2>1. pc' \in {"exited_explicit", "exited_unexpected"} /\ pc = "resume"
    BY <1>6 DEF ResumeExit, Goto
  <2> QED BY <1>6, <2>1, QuietKnown DEF ResumeExit, osVars
<1>7. CASE ResumeConvergence
  <2> DEFINE p == [pending EXCEPT !.convergence = "none"]
  <2>1. p \in Pending
    BY <1>1 DEF Pending
  <2>2. \/ gate' = gate /\ pc' \in {"idle", "start"}
        \/ \E n : BeginStop(FALSE, runtime, gate, p, life, n)
    BY <1>7 DEF ResumeConvergence, Return, Call
  <2> HIDE DEF p
  <2>3. /\ gate'.loaded = gate.loaded /\ gate'.clearReq = gate.clearReq
        /\ pc' \in {"idle", "start"}
    BY <1>1, <2>1, <2>2, BeginStopEffect
  <2> QED BY <1>7, <2>3, QuietKnown DEF ResumeConvergence, osVars
<1> QED BY <1>3, <1>4, <1>5, <1>6, <1>7 DEF RetryStep

(* The record goes away only with the last process of its group.           *)
LEMMA CompleteExitKnown ==
  ASSUME IInv, GroupsAreKnown, Managed, CompleteExit,
         process.inst \in Inst => /\ ~residue[process.inst]
                                  /\ leader[process.inst] # "alive"
  PROVE  GroupsAreKnown'
<1>1. leader' = [leader EXCEPT ![process.inst] =
                   IF @ = "exited" THEN "gone" ELSE @]
      /\ residue' = residue /\ pc' \notin {"probe", "spawn", "commit"}
  BY DEF CompleteExit, Goto, Return
<1>2. TypeOK
  BY DEF IInv
<1>3. \A i \in Inst : i # process.inst => ~Busy(i)
  BY HeldGroup
<1>4. \A i \in Inst : /\ ~Busy(i)'
                      /\ leader'[i] = "reused" => ~residue'[i]
  BY <1>1, <1>2, <1>3 DEF TypeOK, Busy, GroupsAreKnown
<1> QED BY <1>1, <1>4 DEF GroupsAreKnown, OneGroup, SpeaksOfAll, Empty

LEMMA MarkUnverifiedKnown ==
  ASSUME IInv, GroupsAreKnown, NEW r \in ProcessRecord, NEW l, NEW n,
         MarkUnverified(r, l, n), leader' = leader, residue' = residue,
         \A i \in Inst : Busy(i) => r.inst = i,
         pc' \notin {"spawn", "commit", "probe"}
  PROVE  GroupsAreKnown'
<1> DEFINE rs == [runtime EXCEPT !.process = r]
<1>1. TypeOK
  BY DEF IInv
<1>2. rs \in RuntimeState /\ rs.process = r
  BY <1>1, NewRecord DEF TypeOK, RuntimeState
<1>3. PICK o : Write(rs, o, n)
  BY DEF MarkUnverified, Notify
<1>4. runtime' = rs /\ unverified'
  BY DEF MarkUnverified
<1> HIDE DEF rs
<1>5. SpeaksOfAll(rs)
  BY <1>2 DEF SpeaksOfAll
<1>6. SpeaksOfAll(disk'.visible)
  BY <1>1, <1>2, <1>3, <1>5, SaveSpeaks
<1> QED BY <1>4, <1>5, <1>6, SettledKnown DEF Free

LEMMA PollKnown ==
  ASSUME IInv, GroupsAreKnown, PollStep
  PROVE  GroupsAreKnown'
<1>1. TypeOK /\ runtime \in RuntimeState /\ process \in Process
      /\ gate \in Gate
  BY DEF IInv, TypeOK
<1>2. gate.loaded
  BY LoadedWhere DEF PollStep, Polling, ConfirmIdentity, PollChildExit,
     PollPendingGroup, IdentityChanges, AttachedDisappears,
     AfterExplicitExit, AfterUnexpectedExit
<1>3. ASSUME NEW c, NEW n, PendingGroup(c, n), Polling
      PROVE  GroupsAreKnown'
  <2>1. process'.kind = process.kind
    BY <1>1, <1>3 DEF PendingGroup, Process
  <2>2. Free' => Free
    BY <1>3, <2>1 DEF PendingGroup, Free, Managed
  <2> QED BY <1>2, <1>3, <2>2, NotifyKnown
          DEF PendingGroup, osVars, Polling, Return
<1>4. CASE ConfirmIdentity
  <2> DEFINE p  == [process EXCEPT !.unconfirmed = FALSE]
             rs == [runtime EXCEPT !.process = Record(p)]
  <2>1. PICK o \in SaveOutcomes :
          Write(rs, o, 0) /\ gate' = SavedGate(gate, rs, o)
    BY <1>4, OutcomeTypes DEF ConfirmIdentity
  <2>2. p \in Process /\ p.inst = process.inst /\ p.kind = process.kind
    BY <1>1 DEF Process
  <2>3. /\ rs \in RuntimeState /\ rs.process.inst = runtime.process.inst
        /\ rs.marker = runtime.marker
    <3>1. Record(p) \in ProcessRecord /\ Record(p).inst = process.inst
      BY <2>2, RecordType DEF Record
    <3>2. runtime.process.inst = process.inst
      BY <1>4 DEF ConfirmIdentity, Polling, IInv, HeldIsRecorded
    <3> HIDE DEF p
    <3> QED BY <1>1, <3>1, <3>2, NewRecord DEF RuntimeState
  <2>4. /\ runtime' = rs /\ process' = p /\ UNCHANGED osVars /\ Managed
        /\ pc = "idle" /\ pc' = "idle"
    BY <1>4 DEF ConfirmIdentity, Polling, Return
  <2> HIDE DEF rs, p
  <2>5. ~Free'
    BY <2>2, <2>4 DEF Free, Managed
  <2> QED BY <1>1, <1>2, <2>1, <2>3, <2>4, <2>5, SavedClear, SameKnown
          DEF osVars
<1>5. CASE PollChildExit
  BY <1>3, <1>5, CompleteExitKnown DEF PollChildExit, Polling
<1>6. CASE PollPendingGroup
  BY <1>3, <1>6, CompleteExitKnown
     DEF PollPendingGroup, Polling, IInv, HeldIsRecorded, Alive
<1>7. ASSUME Polling
      PROVE  /\ Unconfirmed(process.inst) \in ProcessRecord
             /\ \A i \in Inst : Busy(i) => Unconfirmed(process.inst).inst = i
  BY <1>1, <1>7, HeldGroup
     DEF Unconfirmed, ProcessRecord, Process, Polling
<1>8. CASE IdentityChanges
  BY <1>7, <1>8, MarkUnverifiedKnown DEF IdentityChanges, osVars, Return
<1>9. CASE AttachedDisappears
  <2>1. CASE ~residue[process.inst] /\ CompleteExit
    BY <1>9, <2>1, CompleteExitKnown DEF AttachedDisappears, Polling, Missing
  <2>2. CASE ~(~residue[process.inst] /\ CompleteExit)
    BY <1>7, <1>9, <2>2, MarkUnverifiedKnown
       DEF AttachedDisappears, osVars, Return
  <2> QED BY <2>1, <2>2
<1>10. CASE AfterExplicitExit \/ AfterUnexpectedExit
  <2>1. /\ UNCHANGED <<osVars, ownVars, runtime>>
        /\ pc \in {"exited_explicit", "exited_unexpected"}
        /\ pc' \in {"idle", "start"}
        /\ \E emits : Notify(emits, runtime, gate, 0)
    BY <1>10 DEF AfterExplicitExit, AfterUnexpectedExit, Return, Call
  <2> QED BY <1>2, <2>1, NotifyKnown DEF osVars, ownVars, Free, Managed
<1> QED BY <1>4, <1>5, <1>6, <1>8, <1>9, <1>10 DEF PollStep

LEMMA TimerKnown ==
  ASSUME IInv, GroupsAreKnown, TimerStep
  PROVE  GroupsAreKnown'
<1>1. CASE CheckUnverified
  <2>1. Empty
    BY <1>1, HeldGroup
       DEF CheckUnverified, UnverifiedGone, GroupGone, Busy, Empty
  <2> QED BY <1>1, <2>1, EmptyKnown DEF CheckUnverified, osVars, Return, Call
<1>2. CASE RestartDue \/ PortRetryDue \/ StopTimesOut
  BY <1>2, QuietKnown
     DEF RestartDue, PortRetryDue, StopTimesOut, osVars, storeVars, ownVars,
         PollVars, Call
<1> QED BY <1>1, <1>2 DEF TimerStep

LEMMA HealthKnown ==
  ASSUME IInv, GroupsAreKnown, HealthStep
  PROVE  GroupsAreKnown'
<1>1. TypeOK /\ runtime \in RuntimeState /\ process \in Process
      /\ gate \in Gate /\ "Skipped" \in SaveOutcomes
  BY DEF IInv, TypeOK, SaveOutcomes
<1>2. /\ gate.loaded /\ pc = "idle" /\ pc' = "idle" /\ Managed
      /\ runtime.process.inst = process.inst
      /\ leader' = leader /\ residue' = residue
  BY LoadedWhere DEF HealthStep, StableRun, HealthyAnswer, UnhealthyAnswer,
     StaleHealthyAnswer, HealthApplicable, IInv, HeldIsRecorded, osVars
<1>3. CASE StableRun
  BY <1>2, <1>3, QuietKnown DEF StableRun, storeVars
<1>4. CASE HealthyAnswer
  <2> DEFINE rs == [runtime EXCEPT !.process = Record(process)]
  <2>1. PICK o \in SaveOutcomes :
          Write(rs, o, 0) /\ gate' = SavedGate(gate, rs, o)
    BY <1>1, <1>4, OutcomeTypes DEF HealthyAnswer
  <2>2. /\ rs \in RuntimeState /\ rs.process.inst = runtime.process.inst
        /\ rs.marker = runtime.marker
    BY <1>1, <1>2, RecordType, NewRecord DEF RuntimeState, Record
  <2>3. runtime' = rs /\ (Free' => Free)
    BY <1>4 DEF HealthyAnswer, ownVars, Free, Managed
  <2> HIDE DEF rs
  <2> QED BY <1>1, <1>2, <2>1, <2>2, <2>3, SavedClear, SameKnown
<1>5. CASE UnhealthyAnswer \/ StaleHealthyAnswer
  <2>1. PICK o \in SaveOutcomes, n \in 0..1 :
          Write(runtime, o, n) /\ gate' = SavedGate(gate, runtime, o)
    BY <1>1, <1>5, OutcomeTypes DEF UnhealthyAnswer, StaleHealthyAnswer
  <2>2. process'.kind = process.kind /\ runtime' = runtime
    BY <1>1, <1>5 DEF UnhealthyAnswer, StaleHealthyAnswer, ownVars, Process
  <2>3. ~Free'
    BY <1>2, <2>2 DEF Free, Managed
  <2> QED BY <1>1, <1>2, <2>1, <2>2, <2>3, SavedClear, SameKnown
<1> QED BY <1>3, <1>4, <1>5 DEF HealthStep

LEMMA CredentialKnown ==
  ASSUME GroupsAreKnown, CredentialStep
  PROVE  GroupsAreKnown'
<1>1. CredVars' = CredVars /\ pc \in {"down", "idle", "start"}
      /\ pc' \in {"down", "idle", "start"}
  BY DEF CredentialStep, AccessLost, AccessNotNeeded, RequestRead,
     PasswordApplied, ReadWithoutPassword, CredVars, Merging, Call
<1> QED BY <1>1, QuietKnown DEF CredVars, osVars, storeVars, ownVars

(* Forget is reached only when nothing of the recorded process is left.    *)
LEMMA ReattachKnown ==
  ASSUME IInv, GroupsAreKnown, Inspect \/ Probe
  PROVE  GroupsAreKnown'
<1> DEFINE inst == runtime.process.inst
<1>1. TypeOK /\ runtime \in RuntimeState /\ gate \in Gate
      /\ runtime.process \in ProcessRecord
  BY DEF IInv, TypeOK, RuntimeState
<1>2. /\ gate.loaded /\ ~runtime.marker /\ pc' = "converge"
      /\ leader' = leader /\ residue' = residue
  BY LoadedWhere DEF Inspect, Probe, IInv, LaunchIsMarked, ReattachVars,
     osVars, Goto
<1>3. \A i \in Inst : Busy(i) => inst = i
  BY <1>2 DEF GroupsAreKnown, SpeaksOfAll
<1>4. ASSUME Forget, inst \in Inst => ~Busy(inst)
      PROVE  GroupsAreKnown'
  <2>1. Empty
    BY <1>3, <1>4 DEF Empty
  <2> QED BY <1>2, <2>1, EmptyKnown
<1>5. ASSUME NEW n, Block(n)
      PROVE  GroupsAreKnown'
  BY <1>1, <1>2, <1>3, <1>5, MarkUnverifiedKnown DEF Block
<1>6. ASSUME NEW basis, NEW u, NEW state, NEW n, Attach(basis, u, state, n)
      PROVE  GroupsAreKnown'
  <2>1. PICK o \in SaveOutcomes :
          Write(runtime, o, n) /\ gate' = SavedGate(gate, runtime, o)
    BY <1>6, OutcomeTypes DEF Attach
  <2>2. ~Free' /\ runtime' = runtime
    BY <1>6 DEF Attach, Attached, Free, Managed
  <2> QED BY <1>1, <1>2, <2>1, <2>2, SameKnown
<1>7. CASE Inspect
  <2>1. GroupGone(inst) \/ leader[inst] = "reused" =>
          (inst \in Inst => ~Busy(inst))
    BY DEF GroupGone, Busy, GroupsAreKnown
  <2> QED BY <1>4, <1>5, <1>6, <1>7, <2>1 DEF Inspect
<1>8. CASE Probe
  <2>1. inst \in Inst => leader[inst] = "alive"
    BY <1>8 DEF Probe, GroupsAreKnown
  <2> QED BY <1>4, <1>5, <1>6, <1>8, <2>1 DEF Probe
<1> QED BY <1>7, <1>8

LEMMA BootKnown ==
  ASSUME IInv, GroupsAreKnown, BootStep
  PROVE  GroupsAreKnown'
<1>1. TypeOK /\ runtime \in RuntimeState /\ gate \in Gate
      /\ pending \in Pending /\ life \in Life /\ Coherent(gate)
  BY DEF IInv, TypeOK, GateIsClosed
<1>2. CASE Boot
  <2>1. /\ runtime' = disk.visible /\ gate' = Loaded /\ disk' = disk
        /\ leader' = leader /\ residue' = residue
        /\ pc' \in {"idle", "converge", "reattach"}
        /\ pc' = "idle" => disk.visible.marker
        /\ pc' = "converge" => ~disk.visible.marker
                               /\ disk.visible.process = NoRecord
    BY <1>2 DEF Boot, BootVars, osVars, Return, Goto
  <2>2. pc' = "idle" => Blocked'
    BY <2>1 DEF Blocked, Loaded
  <2>3. pc' = "converge" => Empty
    BY <2>1, NoInstAssumption
       DEF GroupsAreKnown, SpeaksOfAll, Empty, NoRecord
  <2> QED BY <2>1, <2>2, <2>3
          DEF GroupsAreKnown, SpeaksOfAll, OneGroup, Empty, Busy
<1>3. CASE BootUnreadable
  <2>1. /\ ~gate'.loaded /\ disk' = disk /\ pc' = "idle"
        /\ leader' = leader /\ residue' = residue
    BY <1>3 DEF BootUnreadable, BootVars, osVars, Unloaded, Return
  <2> QED BY <2>1, SettledKnown DEF GroupsAreKnown
<1>4. CASE InspectMatches
  <2>1. /\ UNCHANGED <<leader, residue, disk, runtime, gate>>
        /\ pc' = "probe" /\ Current(runtime.process.inst) /\ Free'
        /\ ~runtime.marker
    BY <1>4 DEF InspectMatches, osVars, storeVars, ownVars, Goto, IInv,
       StartIsFree, LaunchIsMarked, Free, Managed
  <2> QED BY <2>1
          DEF GroupsAreKnown, SpeaksOfAll, OneGroup, Empty, Busy, Current
<1>5. CASE Converge
  <2>1. /\ gate.loaded /\ ~Blocked /\ pc = "converge"
        /\ leader' = leader /\ residue' = residue
    BY <1>5, LoadedWhere DEF Converge, IInv, LaunchIsMarked, Blocked, osVars
  <2>2. CASE Free
    <3>1. Empty
      BY <2>1, <2>2 DEF GroupsAreKnown
    <3>2. pc' # "probe"
      BY <1>5 DEF Converge, Resumed, Goto, Return, BeginStop, Call
    <3> QED BY <2>1, <3>1, <3>2, EmptyKnown
  <2>3. CASE ~Free
    <3>1. \/ UNCHANGED <<disk, runtime, ownVars>> /\ gate' = gate
             /\ pc' = "idle"
          \/ /\ UNCHANGED <<disk, runtime, ownVars>>
             /\ \E n : BeginStop(FALSE, runtime, gate, pending, life, n)
      BY <1>5, <2>3 DEF Converge, Free, storeVars, Return
    <3>2. /\ gate'.loaded = gate.loaded /\ gate'.clearReq = gate.clearReq
          /\ pc' \in {"idle", "start"}
      BY <1>1, <3>1, BeginStopEffect
    <3> QED BY <2>1, <3>1, <3>2, QuietKnown
  <2> QED BY <2>2, <2>3
<1> QED BY <1>2, <1>3, <1>4, <1>5, ReattachKnown DEF BootStep

LEMMA CommandKnown ==
  ASSUME IInv, GroupsAreKnown, NEW c \in Commands, Command(c)
  PROVE  GroupsAreKnown'
<1> DEFINE rs == [runtime EXCEPT !.desired = DesiredBy(c)]
           p  == [pending EXCEPT !.intent = "none", !.convergence = "none"]
<1>1. TypeOK /\ gate \in Gate /\ Coherent(gate)
  BY DEF IInv, TypeOK, GateIsClosed
<1>2. PICK o \in Outcomes, n \in 0..1 :
        /\ disk' = SavedDisk(disk, rs, o)
        /\ \/ /\ o = "Durable" /\ runtime' = rs
              /\ Apply(c, rs, SavedGate(gate, rs, o), p, n)
           \/ /\ runtime' = IF o = "Failed" THEN runtime ELSE rs
              /\ gate' = SavedGate(gate, rs, o) /\ Return
  BY DEF Command
<1>3. /\ rs \in RuntimeState /\ p \in Pending /\ o \in SaveOutcomes
      /\ rs.process = runtime.process /\ rs.marker = runtime.marker
  BY <1>1, <1>2, OutcomeTypes
     DEF TypeOK, RuntimeState, Desired, DesiredBy, Pending
<1>4. /\ pc = "idle" /\ gate.loaded /\ UNCHANGED <<osVars, ownVars>>
  BY DEF Command
<1> HIDE DEF rs, p
<1>5. SavedGate(gate, rs, o) \in Gate /\ Coherent(SavedGate(gate, rs, o))
  BY <1>1, <1>3, GateSaved DEF SavedGate, Gate
<1>6. /\ gate'.clearReq = SavedGate(gate, rs, o).clearReq
      /\ pc' \in {"idle", "start"}
  BY <1>1, <1>2, <1>3, <1>5, ApplyEffect DEF Return
<1>7. rs.marker => gate'.clearReq = gate.clearReq
  BY <1>1, <1>3, <1>6, SavedClear
<1>8. SpeaksOfAll(rs) /\ SpeaksOfAll(runtime)
  BY <1>3, <1>4 DEF GroupsAreKnown, SpeaksOfAll
<1>9. disk'.visible \in {disk.visible, rs}
  BY <1>1, <1>2 DEF SavedDisk, TypeOK, Disk
<1>10. SpeaksOfAll(disk'.visible) /\ SpeaksOfAll(runtime')
  BY <1>2, <1>8, <1>9 DEF GroupsAreKnown
<1>11. Free' /\ ~Blocked' => Empty
  BY <1>2, <1>3, <1>4, <1>7
     DEF GroupsAreKnown, Free, Managed, Blocked, ownVars
<1> QED BY <1>4, <1>6, <1>10, <1>11, SettledKnown DEF osVars

LEMMA UserKnown ==
  ASSUME IInv, ChildIsOwn, GroupsAreKnown, UserStep
  PROVE  GroupsAreKnown'
<1>1. TypeOK
  BY DEF IInv
<1>2. CASE RequestStart \/ RequestStop \/ RequestRestart
  BY <1>2, CommandKnown DEF RequestStart, RequestStop, RequestRestart, Commands
<1>3. CASE ContinueStop
  BY <1>3, QuietKnown DEF ContinueStop, osVars, storeVars
<1>4. CASE ForceStop
  <2> DEFINE k == process.inst
  <2>1. /\ leader' = [leader EXCEPT ![k] =
                        IF process.kind = "child" THEN "exited" ELSE "gone"]
        /\ residue' = [residue EXCEPT ![k] = FALSE]
        /\ UNCHANGED <<storeVars, ownVars, pc>> /\ pc = "idle" /\ Managed
    BY <1>4 DEF ForceStop
  <2>2. \A i \in Inst : i # k => leader'[i] = leader[i]
                                /\ residue'[i] = residue[i]
    BY <1>1, <2>1 DEF TypeOK
  <2>3. \A i \in Inst : i = k =>
          leader'[i] # "reused" /\ (Busy(i)' => Busy(i))
    BY <1>1, <2>1 DEF TypeOK, Busy, ChildIsOwn, OwnLeader
  <2>4. \A i \in Inst : /\ Busy(i)' => Busy(i)
                        /\ leader'[i] = "reused" => ~residue'[i]
    BY <2>2, <2>3 DEF Busy, GroupsAreKnown
  <2> QED BY <2>1, <2>4 DEF GroupsAreKnown, SpeaksOfAll, OneGroup, Empty,
             storeVars, ownVars, Free, Managed, Blocked
<1> QED BY <1>2, <1>3, <1>4 DEF UserStep

(* The kernel adds no group. Without the race the leader of a reattach     *)
(* does not exit unseen.                                                   *)
LEMMA OsKnown ==
  ASSUME IInv, GroupsAreKnown, OsStep, ~ReattachRace
  PROVE  GroupsAreKnown'
<1>1. TypeOK
  BY DEF IInv
<1>2. ASSUME UNCHANGED AgentVars,
             \A i \in Inst : /\ Busy(i)' => Busy(i)
                             /\ leader'[i] = "reused" => ~residue'[i]
                             /\ pc = "probe" /\ leader[i] = "alive" =>
                                  leader'[i] = "alive"
      PROVE  GroupsAreKnown'
  BY <1>2 DEF GroupsAreKnown, SpeaksOfAll, OneGroup, Empty, AgentVars,
     storeVars, ownVars, Free, Managed, Blocked
<1>3. CASE LeaderExits
  <2>1. PICK i \in Inst :
          /\ leader[i] = "alive" /\ pc # "probe"
          /\ leader' = [leader EXCEPT ![i] =
                          IF Owned(i) THEN "exited" ELSE "gone"]
          /\ residue' \in {residue, [residue EXCEPT ![i] = TRUE]}
          /\ UNCHANGED AgentVars
    BY <1>3 DEF LeaderExits
  <2> QED BY <1>1, <1>2, <2>1 DEF TypeOK, Busy, GroupsAreKnown
<1>4. CASE ResidueExits
  BY <1>1, <1>2, <1>4 DEF ResidueExits, TypeOK, Busy, GroupsAreKnown
<1>5. CASE LeaderEscapes
  BY <1>2, <1>5 DEF LeaderEscapes, Busy, GroupsAreKnown
<1>6. CASE PidReused
  BY <1>1, <1>2, <1>6 DEF PidReused, GroupGone, TypeOK, Busy, GroupsAreKnown
<1>7. CASE ForeignExits
  BY <1>1, <1>2, <1>7 DEF ForeignExits, TypeOK, Busy, GroupsAreKnown
<1>8. CASE AgentExits
  <2>1. /\ disk' = disk /\ pc' = "down" /\ ~gate'.loaded
        /\ residue' = residue
        /\ leader' = [i \in Inst |-> IF leader[i] = "exited" THEN "gone"
                                                            ELSE leader[i]]
    BY <1>8 DEF AgentExits, MemoryLost, Unloaded, Goto
  <2>2. \A i \in Inst : /\ Busy(i)' => Busy(i)
                        /\ leader'[i] = "reused" => ~residue'[i]
    BY <2>1 DEF Busy, GroupsAreKnown
  <2> QED BY <2>1, <2>2 DEF GroupsAreKnown, SpeaksOfAll, OneGroup
<1>9. CASE PowerLoss
  BY <1>9 DEF PowerLoss, MemoryLost, Unloaded, Goto, Busy, GroupsAreKnown,
     SpeaksOfAll, OneGroup
<1> QED BY <1>3, <1>4, <1>5, <1>6, <1>7, <1>8, <1>9 DEF OsStep

LEMMA GroupsKnown ==
  ASSUME ~ReattachRace
  PROVE  Spec => [](IInv /\ GroupsAreKnown)
<1>1. Init => GroupsAreKnown
  BY DEF Init, Unloaded, Busy, GroupsAreKnown, SpeaksOfAll, OneGroup
<1>2. IInv /\ ChildIsOwn /\ GroupsAreKnown /\ [Next]_vars => GroupsAreKnown'
  <2>1. GroupsAreKnown /\ UNCHANGED vars => GroupsAreKnown'
    BY DEF vars, GroupsAreKnown, SpeaksOfAll, OneGroup, Empty, Busy, Free,
       Managed, Blocked
  <2> QED BY <2>1, StartKnown, RetryKnown, PollKnown, TimerKnown, BootKnown,
             HealthKnown, CredentialKnown, UserKnown, OsKnown DEF Next
<1> QED BY <1>1, <1>2, Invariant, ChildIsOwnHolds, PTL DEF Spec

(* No OpenCode is started beside the remaining group of an earlier one,    *)
(* provided the leader does not exit during the health check of a          *)
(* reattach, which the code does not look for (ReattachRace).              *)
THEOREM OneGroupHolds ==
  ASSUME ~ReattachRace
  PROVE  Spec => []OneGroup
<1>1. GroupsAreKnown => OneGroup
  BY DEF GroupsAreKnown
<1> QED BY <1>1, GroupsKnown, PTL

-----------------------------------------------------------------------------
(* What Stopped means.                                                     *)

Exited == {"exited_explicit", "exited_unexpected"}

(* Stopped is reported by an agent with nothing to look after and without  *)
(* a leftover marker; an exit is not followed by one either.               *)
StoppedIsFree ==
  /\ gate.loaded /\ life.server_state = "Stopped" =>
       Free /\ (Blocked => pc \in {"spawn", "commit"})
  /\ pending.exit # "none" \/ pc \in Exited => ~runtime.marker

(* A step that does not arrive at Stopped, or arrives there with nothing   *)
(* left.                                                                   *)
LEMMA ArrivesFree ==
  ASSUME StoppedIsFree, gate'.loaded => gate.loaded, Free => Free',
         Blocked' => Blocked, pc \notin {"spawn", "commit"},
         life'.server_state = "Stopped" =>
           life.server_state = "Stopped" \/ (Free' /\ ~Blocked'),
         pending'.exit = "none" \/ pending'.exit = pending.exit,
         runtime'.marker => runtime.marker,
         pc' \in Exited => ~runtime.marker
  PROVE  StoppedIsFree'
  BY DEF StoppedIsFree

LEMMA ElsewhereFree ==
  ASSUME StoppedIsFree, life'.server_state # "Stopped" \/ (Free' /\ ~Blocked'),
         pending'.exit # "none" \/ pc' \in Exited => ~runtime'.marker
  PROVE  StoppedIsFree'
  BY DEF StoppedIsFree

(* begin_stop reports Stopped only when there is nothing to stop and no    *)
(* marker stands in the way.                                               *)
LEMMA BeginStopArrives ==
  ASSUME NEW r, NEW rs, NEW g, NEW p \in Pending, NEW l \in Life, NEW n,
         BeginStop(r, rs, g, p, l, n)
  PROVE  /\ life'.server_state = "Stopped" =>
              l.server_state = "Stopped" \/ (Free /\ ~rs.marker)
         /\ pending'.exit = p.exit
         /\ pc' \in {"idle", "start"}
<1>1. pending'.exit = p.exit /\ pc' \in {"idle", "start"}
  BY DEF BeginStop, Pending, Return, Call
<1>2. life'.server_state = "Stopped" =>
        l.server_state = "Stopped" \/ (Free /\ ~rs.marker)
  BY DEF BeginStop, Life, Free, Unfinalized
<1> QED BY <1>1, <1>2

LEMMA ApplyArrives ==
  ASSUME TypeOK, NEW c, NEW rs, NEW g, NEW p \in Pending, NEW n,
         Apply(c, rs, g, p, n)
  PROVE  /\ life'.server_state = "Stopped" =>
              life.server_state = "Stopped" \/ (Free /\ ~rs.marker)
         /\ pending'.exit = "none"
         /\ pc' \in {"idle", "start"}
<1>1. Superseded(p) \in Pending /\ Superseded(p).exit = "none"
  BY DEF Superseded, Pending
<1>2. CASE ApplyStart(g, p, n)
  <2>1. life'.server_state = "Stopped" => life.server_state = "Stopped"
    BY <1>2 DEF ApplyStart, TypeOK, Life, Disarmed, In
  <2> QED BY <1>1, <1>2, <2>1 DEF ApplyStart, Return, Call
<1>3. CASE ApplyStop(rs, g, p, n)
  <2> DEFINE l == [Disarmed(life) EXCEPT !.restart_after_stop = FALSE,
                                         !.group_cleanup_recovery = FALSE]
  <2>1. l \in Life /\ l.server_state = life.server_state
    BY DEF TypeOK, Life, Disarmed
  <2>2. BeginStop(FALSE, rs, g, Superseded(p), l, n)
    BY <1>3 DEF ApplyStop
  <2> HIDE DEF l
  <2> QED BY <1>1, <2>1, <2>2, BeginStopArrives
<1>4. CASE ApplyRestart(rs, g, p, n)
  <2> DEFINE l == [Disarmed(life) EXCEPT !.restart_after_stop = Managed,
                                         !.group_cleanup_recovery = FALSE,
                                         !.attempts = 0]
  <2>1. l \in Life /\ l.server_state = life.server_state
    BY AttemptTypes DEF TypeOK, Life, Disarmed, Managed
  <2>2. CASE BeginStop(TRUE, rs, g, Superseded(p), l, n)
    <3> HIDE DEF l
    <3> QED BY <1>1, <2>1, <2>2, BeginStopArrives
  <2>3. CASE ~BeginStop(TRUE, rs, g, Superseded(p), l, n)
    <3>1. /\ pending' = Superseded(p) /\ pc' \in {"idle", "start"}
          /\ life' \in {l, [l EXCEPT !.restart_after_stop = FALSE,
                                     !.server_state = "Failed"]}
      BY <1>4, <2>3 DEF ApplyRestart, Return, Call
    <3>2. life'.server_state = "Stopped" => life.server_state = "Stopped"
      <4> HIDE DEF l
      <4> QED BY <2>1, <3>1 DEF Life
    <3> QED BY <1>1, <3>1, <3>2
  <2> QED BY <2>2, <2>3
<1> QED BY <1>2, <1>3, <1>4 DEF Apply

LEMMA RescheduledElsewhere ==
  ASSUME NEW l \in Life
  PROVE  Rescheduled(l).server_state # "Stopped"
  BY DEF Rescheduled, RecoveryFailed, Life

LEMMA StartArrives ==
  ASSUME IInv, IInv', StoppedIsFree, StartStep
  PROVE  StoppedIsFree'
<1>1. TypeOK /\ life \in Life /\ runtime \in RuntimeState /\ gate \in Gate
      /\ pending \in Pending /\ In("Failed") \in Life
      /\ In("Failed").server_state = "Failed"
  BY DEF IInv, TypeOK, Life, In, ServerStates
<1>2. CASE StartDeferred
  <2>1. pending'.exit = pending.exit
    BY <1>1, <1>2 DEF StartDeferred, Pending
  <2> QED BY <1>1, <1>2, <2>1, ElsewhereFree
          DEF StartDeferred, Return, StoppedIsFree, Exited
<1>3. CASE StartWithoutConfig \/ StartWithoutAccess
  <2>1. PICK n : StartRefusedWith(n)
    BY <1>3 DEF StartWithoutConfig, StartWithoutAccess
  <2>2. life'.server_state # "Stopped"
    BY <1>1, <2>1, RescheduledElsewhere DEF StartRefusedWith
  <2> QED BY <2>1, <2>2, ElsewhereFree
          DEF StartRefusedWith, Return, StoppedIsFree, Exited
<1>4. CASE StartAwaitsRead
  BY <1>4 DEF StartAwaitsRead, StartVars, storeVars, ownVars, Return,
     StoppedIsFree, Free, Managed, Blocked, Exited
<1>5. CASE BeginLaunch
  <2>1. pending.exit = "none"
    BY <1>5 DEF BeginLaunch, Ready, IInv, GateIsClosed
  <2>2. pending'.exit = "none" /\ pc' \in {"idle", "spawn"}
    BY <1>1, <1>5, <2>1 DEF BeginLaunch, Pending, Return
  <2>3. life'.server_state # "Stopped" \/ (pc' = "spawn" /\ Free')
    <3>1. CASE life' = In("Failed")
      BY <1>1, <3>1
    <3>2. CASE pc' = "spawn"
      BY <3>2 DEF IInv, StartIsFree
    <3> QED BY <1>5, <3>1, <3>2 DEF BeginLaunch
  <2> QED BY <2>2, <2>3 DEF StoppedIsFree, Exited
<1>6. CASE SpawnConfirmed \/ SpawnSurvivor
  <2>1. pc = "spawn" /\ pc' = "commit" /\ UNCHANGED storeVars
    BY <1>6 DEF SpawnConfirmed, SpawnSurvivor, Spawn
  <2>2. Free'
    BY <2>1 DEF IInv, StartIsFree
  <2> QED BY <2>1, <2>2 DEF StoppedIsFree, storeVars, Exited
<1>7. CASE SpawnFails
  <2>1. runtime' = [runtime EXCEPT !.marker = FALSE] /\ UNCHANGED ownVars
        /\ pc = "spawn" /\ pc' = "idle"
    BY <1>7 DEF SpawnFails, StartVars, Return
  <2>2. ~runtime'.marker
    BY <1>1, <2>1 DEF RuntimeState
  <2>3. Free'
    BY <2>1 DEF IInv, StartIsFree, Free, Managed, ownVars
  <2> QED BY <2>1, <2>2, <2>3, ElsewhereFree DEF Blocked
<1>8. CASE CommitSpawned
  <2>1. life'.server_state \in {"Starting", "Failed"} /\ pc' = "idle"
        /\ pending' = pending
    BY <1>1, <1>8 DEF CommitSpawned, PortRetry, Life, Return
  <2>2. pending.exit = "none"
    BY <1>8 DEF CommitSpawned, IInv, LaunchIsMarked
  <2> QED BY <2>1, <2>2, ElsewhereFree DEF Exited
<1> QED BY <1>2, <1>3, <1>4, <1>5, <1>6, <1>7, <1>8 DEF StartStep

LEMMA RetryArrives ==
  ASSUME IInv, StoppedIsFree, RetryStep
  PROVE  StoppedIsFree'
<1>1. TypeOK /\ life \in Life /\ runtime \in RuntimeState /\ gate \in Gate
      /\ pending \in Pending /\ Coherent(gate)
  BY DEF IInv, TypeOK, GateIsClosed
<1>2. gate.loaded /\ UNCHANGED ownVars
      /\ pc \in {"idle", "unwind", "resume"}
  BY LoadedWhere DEF RetryStep, RetrySave, UnwindMarker, ResumeIntent,
     ResumeExit, ResumeConvergence
<1>3. Free => Free'
  BY <1>2 DEF ownVars, Free, Managed
<1>4. CASE RetrySave
  <2>1. PICK o \in SaveOutcomes : gate' = SavedGate(gate, runtime, o)
    BY <1>4, OutcomeTypes DEF RetrySave
  <2>2. Blocked' => Blocked
    BY <1>1, <1>4, <2>1, SavedClear DEF RetrySave, Blocked
  <2>3. pc' \notin Exited
    BY <1>4 DEF RetrySave, Goto, Resumed, Return, Exited
  <2> QED BY <1>2, <1>3, <1>4, <2>2, <2>3, ArrivesFree DEF RetrySave
<1>5. CASE UnwindMarker
  <2>1. ~runtime'.marker
    BY <1>1, <1>5 DEF UnwindMarker, RuntimeState
  <2> QED BY <1>2, <1>3, <1>5, <2>1
          DEF UnwindMarker, StoppedIsFree, Blocked
<1>6. CASE ResumeIntent
  <2> DEFINE p == [pending EXCEPT !.intent = "none"]
  <2>1. PICK n : Apply(pending.intent, runtime, gate, p, n)
    BY <1>6 DEF ResumeIntent
  <2>2. p \in Pending /\ runtime' = runtime
    BY <1>1, <1>6 DEF Pending, ResumeIntent
  <2> HIDE DEF p
  <2>3. Blocked' = Blocked
    BY <1>1, <2>1, <2>2, ApplyEffect DEF Blocked
  <2>4. /\ life'.server_state = "Stopped" =>
             life.server_state = "Stopped" \/ (Free /\ ~Blocked)
        /\ pending'.exit = "none" /\ pc' \notin Exited
    BY <1>1, <2>1, <2>2, ApplyArrives DEF Exited, Blocked
  <2> QED BY <1>2, <1>3, <2>2, <2>3, <2>4, ArrivesFree
<1>7. CASE ResumeExit
  <2>1. pending'.exit = "none" /\ ~runtime.marker
        /\ UNCHANGED <<runtime, gate, life>>
    BY <1>1, <1>7 DEF ResumeExit, Pending, StoppedIsFree
  <2> QED BY <1>2, <1>3, <2>1, ArrivesFree DEF Blocked
<1>8. CASE ResumeConvergence
  <2> DEFINE p == [pending EXCEPT !.convergence = "none"]
  <2>1. p \in Pending /\ p.exit = pending.exit /\ runtime' = runtime
    BY <1>1, <1>8 DEF Pending, ResumeConvergence
  <2>2. \/ /\ UNCHANGED <<gate, life>> /\ pc' \in {"idle", "start"}
           /\ pending' \in {pending, p}
        \/ \E n : BeginStop(FALSE, runtime, gate, p, life, n)
    BY <1>8 DEF ResumeConvergence, Return, Call
  <2> HIDE DEF p
  <2>3. Blocked' = Blocked
    BY <1>1, <2>1, <2>2, BeginStopEffect DEF Blocked
  <2>4. /\ life'.server_state = "Stopped" =>
             life.server_state = "Stopped" \/ (Free /\ ~Blocked)
        /\ pending'.exit = pending.exit /\ pc' \notin Exited
    BY <1>1, <2>1, <2>2, BeginStopArrives DEF Exited, Blocked
  <2> QED BY <1>2, <1>3, <2>1, <2>3, <2>4, ArrivesFree
<1> QED BY <1>4, <1>5, <1>6, <1>7, <1>8 DEF RetryStep

LEMMA PollArrives ==
  ASSUME IInv, StoppedIsFree, PollStep
  PROVE  StoppedIsFree'
<1>1. TypeOK /\ life \in Life /\ runtime \in RuntimeState
      /\ process \in Process /\ pending \in Pending
  BY DEF IInv, TypeOK
<1>2. ASSUME Managed
      PROVE  /\ life.server_state # "Stopped" /\ ~runtime.marker
             /\ pending.exit = "none"
  BY <1>2, LoadedWhere DEF StoppedIsFree, IInv, LaunchIsMarked, Free
<1>3. ASSUME NEW c, NEW n, PendingGroup(c, n), Managed
      PROVE  StoppedIsFree'
  <2>1. life'.server_state # "Stopped"
    BY <1>1, <1>2, <1>3 DEF PendingGroup, Life, In
  <2> QED BY <1>2, <1>3, <2>1, ElsewhereFree
          DEF PendingGroup, Return, Exited
<1>4. ASSUME NEW r, NEW l \in Life, NEW n, MarkUnverified(r, l, n),
             Managed, pending' = pending, pc' = "idle"
      PROVE  StoppedIsFree'
  <2>1. life'.server_state = "Failed"
    BY <1>4 DEF MarkUnverified, Life
  <2> QED BY <1>2, <1>4, <2>1, ElsewhereFree DEF Exited
<1>5. CASE ConfirmIdentity
  <2>1. life'.server_state # "Stopped" /\ pending' = pending /\ pc' = "idle"
        /\ Managed
    BY <1>1, <1>2, <1>5 DEF ConfirmIdentity, Polling, Life, In, Return
  <2> QED BY <1>2, <2>1, ElsewhereFree DEF Exited
<1>6. CASE CompleteExit /\ Managed
  <2>1. life'.server_state # "Stopped"
    BY <1>1, <1>2, <1>6 DEF CompleteExit, Life, Disarmed
  <2>2. runtime'.marker = runtime.marker
    BY <1>1, <1>6 DEF CompleteExit, RuntimeState
  <2> QED BY <1>2, <1>6, <2>1, <2>2, ElsewhereFree
<1>7. CASE PollChildExit \/ PollPendingGroup
  BY <1>3, <1>6, <1>7 DEF PollChildExit, PollPendingGroup, Polling
<1>8. CASE IdentityChanges
  BY <1>1, <1>4, <1>8 DEF IdentityChanges, Polling, Return
<1>9. CASE AttachedDisappears /\ ~CompleteExit
  <2> DEFINE l == [life EXCEPT !.stop_deadline = FALSE,
                               !.restart_after_stop = FALSE,
                               !.group_cleanup_recovery = FALSE,
                               !.next_restart = FALSE]
  <2>1. l \in Life
    BY <1>1 DEF Life
  <2>2. PICK r, n : MarkUnverified(r, l, n)
    BY <1>9 DEF AttachedDisappears
  <2> HIDE DEF l
  <2> QED BY <1>4, <1>9, <2>1, <2>2 DEF AttachedDisappears, Polling, Return
<1>10. CASE AfterExplicitExit \/ AfterUnexpectedExit
  <2>1. /\ ~runtime.marker /\ runtime' = runtime /\ UNCHANGED ownVars
        /\ Free
    BY <1>10 DEF AfterExplicitExit, AfterUnexpectedExit, StoppedIsFree,
       Exited, IInv, StartIsFree
  <2> QED BY <2>1, ElsewhereFree DEF Free, Managed, ownVars, Blocked
<1> QED BY <1>5, <1>6, <1>7, <1>8, <1>9, <1>10
        DEF PollStep, AttachedDisappears, Polling

LEMMA TimerArrives ==
  ASSUME IInv, StoppedIsFree, TimerStep
  PROVE  StoppedIsFree'
<1>1. TypeOK /\ life \in Life /\ runtime \in RuntimeState
      /\ process \in Process /\ pending \in Pending
  BY DEF IInv, TypeOK
<1>2. CASE CheckUnverified
  <2>1. ~runtime.marker /\ ~Managed /\ process' = process
    BY <1>2 DEF CheckUnverified, UnverifiedGone, IInv, LaunchIsMarked, Free
  <2>2. PICK o \in Outcomes :
          /\ Discard(o)
          /\ o # "Durable" => life' = In("Failed")
    BY <1>2 DEF CheckUnverified
  <2>3. ~runtime'.marker
    BY <1>1, <2>1, <2>2 DEF Discard, RuntimeState
  <2>4. life'.server_state # "Stopped" \/ ~unverified'
    BY <1>1, <2>2 DEF Discard, Life, In
  <2> QED BY <2>1, <2>3, <2>4, ElsewhereFree DEF Free, Managed, Blocked
<1>3. CASE RestartDue \/ PortRetryDue \/ StopTimesOut
  <2>1. life'.server_state = "Stopped" => life.server_state = "Stopped"
    BY <1>1, <1>3
       DEF RestartDue, PortRetryDue, StopTimesOut, PortRetry, In, Life
  <2>2. /\ UNCHANGED storeVars /\ UNCHANGED ownVars
        /\ pc = "idle" /\ pc' \in {"idle", "start"}
    BY <1>3 DEF RestartDue, PortRetryDue, StopTimesOut, Call
  <2> QED BY <2>1, <2>2, ArrivesFree
          DEF storeVars, ownVars, Free, Managed, Blocked, Exited
<1> QED BY <1>2, <1>3 DEF TimerStep

LEMMA BootArrives ==
  ASSUME IInv, StoppedIsFree, BootStep
  PROVE  StoppedIsFree'
<1>1. TypeOK /\ life \in Life /\ runtime \in RuntimeState /\ gate \in Gate
      /\ pending \in Pending /\ process \in Process /\ Coherent(gate)
      /\ In("Failed").server_state = "Failed"
  BY DEF IInv, TypeOK, GateIsClosed, In, Life
<1>2. pending.exit = "none"
  BY WaitsWhere DEF BootStep, Boot, BootUnreadable, Inspect, InspectMatches,
     Probe, Converge, IInv, GateIsClosed
<1>3. CASE Boot
  <2>1. /\ pending' = pending /\ pc' \notin Exited
        /\ life' = In("Failed") \/ ~runtime'.marker
        /\ UNCHANGED ownVars
    BY <1>3 DEF Boot, BootVars, Return, Goto, Exited
  <2>2. Free'
    BY <1>3, <2>1 DEF Boot, IInv, GateIsClosed, Free, Managed, ownVars
  <2> QED BY <1>1, <1>2, <2>1, <2>2, ElsewhereFree DEF Blocked
<1>4. CASE BootUnreadable
  BY <1>2, <1>4
     DEF BootUnreadable, BootVars, Unloaded, Return, StoppedIsFree, Exited
<1>5. CASE InspectMatches
  BY <1>2, <1>5 DEF InspectMatches, storeVars, ownVars, Goto, StoppedIsFree,
     Free, Managed, Blocked, Exited
<1>6. CASE Inspect \/ Probe
  <2>1. /\ pc' = "converge" /\ ~runtime.marker /\ Free
    BY <1>6 DEF Inspect, Probe, IInv, LaunchIsMarked, StartIsFree, Goto
  <2> DEFINE Arrived == /\ ~runtime'.marker /\ pending'.exit = "none"
                        /\ life'.server_state # "Stopped" \/ Free'
  <2>2. Forget => Arrived
    BY <1>1, <1>2, <2>1
       DEF Forget, Discard, RuntimeState, Pending, Free, Managed
  <2>3. \A n : Block(n) => Arrived
    BY <1>1, <1>2, <2>1 DEF Block, MarkUnverified, RuntimeState, Life
  <2>4. \A basis, u, n : \A state \in {"Failed", "Unhealthy", "Healthy"} :
          Attach(basis, u, state, n) => Arrived
    BY <1>1, <1>2, <2>1 DEF Attach, In, Life
  <2> HIDE DEF Arrived
  <2>5. Arrived
    BY <1>6, <2>2, <2>3, <2>4 DEF Inspect, Probe
  <2> USE DEF Arrived
  <2> QED BY <2>1, <2>5, ElsewhereFree DEF Blocked, Exited
<1>7. CASE Converge
  <2>1. ~runtime.marker /\ UNCHANGED ownVars
    BY <1>7 DEF Converge, IInv, LaunchIsMarked
  <2>2. ~runtime'.marker /\ (Free => Free')
    <3>1. runtime' \in {runtime, [runtime EXCEPT !.process = NoRecord]}
      BY <1>7 DEF Converge, storeVars
    <3>2. ~runtime'.marker
      BY <1>1, <2>1, <3>1 DEF RuntimeState
    <3> QED BY <2>1, <3>2 DEF Free, Managed, ownVars
  <2>3. pending'.exit = "none"
    <3>1. \/ pending' = pending
          \/ \E t : pending' = [pending EXCEPT !.convergence = t]
          \/ \E n : BeginStop(FALSE, runtime, gate, pending, life, n)
      BY <1>7 DEF Converge, storeVars
    <3> QED BY <1>1, <1>2, <3>1, BeginStopArrives DEF Pending
  <2>4. life'.server_state = "Stopped" => Free
    <3>1. gate.loaded
      BY <1>7, LoadedWhere DEF Converge
    <3>2. \/ life' \in {life, In("Failed")}
          \/ \E n : BeginStop(FALSE, runtime, gate, pending, life, n)
      BY <1>7 DEF Converge
    <3>3. life.server_state = "Stopped" => Free
      BY <3>1 DEF StoppedIsFree
    <3> QED BY <1>1, <3>2, <3>3, BeginStopArrives
  <2> QED BY <2>2, <2>3, <2>4, ElsewhereFree DEF Blocked
<1> QED BY <1>3, <1>4, <1>5, <1>6, <1>7 DEF BootStep

LEMMA HealthArrives ==
  ASSUME IInv, StoppedIsFree, HealthStep
  PROVE  StoppedIsFree'
<1>1. TypeOK /\ life \in Life
  BY DEF IInv, TypeOK
<1>2. /\ pc = "idle" /\ pc' = "idle" /\ Managed /\ pending' = pending
  BY DEF HealthStep, StableRun, HealthyAnswer, UnhealthyAnswer,
     StaleHealthyAnswer, HealthApplicable, storeVars
<1>3. life.server_state # "Stopped" /\ pending.exit = "none"
  BY <1>2, LoadedWhere DEF StoppedIsFree, Free
<1>4. life'.server_state # "Stopped"
  BY <1>1, <1>3 DEF HealthStep, StableRun, HealthyAnswer, UnhealthyAnswer,
     StaleHealthyAnswer, In, Life
<1> QED BY <1>2, <1>3, <1>4, ElsewhereFree DEF Exited

LEMMA CredentialArrives ==
  ASSUME IInv, StoppedIsFree, CredentialStep
  PROVE  StoppedIsFree'
<1>1. life \in Life
  BY DEF IInv, TypeOK
<1>2. UNCHANGED CredVars /\ pc \in {"down", "idle", "start"}
      /\ pc' \in {"down", "idle", "start"}
  BY DEF CredentialStep, AccessLost, AccessNotNeeded, RequestRead,
     PasswordApplied, ReadWithoutPassword, CredVars, Merging, Call
<1>3. life'.server_state = life.server_state
  BY <1>1 DEF CredentialStep, AccessLost, AccessNotNeeded, RequestRead,
     PasswordApplied, ReadWithoutPassword, Disarmed, Life
<1> QED BY <1>2, <1>3, ArrivesFree
        DEF CredVars, storeVars, ownVars, Free, Managed, Blocked, Exited

LEMMA UserArrives ==
  ASSUME IInv, StoppedIsFree, UserStep
  PROVE  StoppedIsFree'
<1>1. TypeOK /\ life \in Life /\ gate \in Gate /\ runtime \in RuntimeState
      /\ pending \in Pending /\ Coherent(gate)
  BY DEF IInv, TypeOK, GateIsClosed
<1>2. ASSUME NEW c \in Commands, Command(c)
      PROVE  StoppedIsFree'
  <2> DEFINE rs == [runtime EXCEPT !.desired = DesiredBy(c)]
             p  == [pending EXCEPT !.intent = "none", !.convergence = "none"]
  <2>1. PICK o \in Outcomes, n \in 0..1 :
          \/ runtime' = rs /\ Apply(c, rs, SavedGate(gate, rs, o), p, n)
          \/ /\ runtime' \in {runtime, rs} /\ life' = life /\ Return
             /\ gate' = SavedGate(gate, rs, o)
             /\ \/ pending' = pending
                \/ pending' = [pending EXCEPT !.intent = c,
                                               !.convergence = "none"]
    BY <1>2 DEF Command
  <2>2. /\ rs \in RuntimeState /\ rs.marker = runtime.marker
        /\ p \in Pending /\ o \in SaveOutcomes
    BY <1>1, <2>1, OutcomeTypes
       DEF RuntimeState, Desired, DesiredBy, Pending
  <2>3. gate.loaded /\ pc = "idle" /\ UNCHANGED ownVars
    BY <1>2 DEF Command
  <2> HIDE DEF rs, p
  <2>4. SavedGate(gate, rs, o) \in Gate /\ Coherent(SavedGate(gate, rs, o))
    BY <1>1, <2>2, GateSaved DEF SavedGate, Gate
  <2>5. gate'.clearReq = SavedGate(gate, rs, o).clearReq
    BY <1>1, <2>1, <2>2, <2>4, ApplyEffect
  <2>6. rs.marker => gate'.clearReq = gate.clearReq
    BY <1>1, <2>2, <2>5, SavedClear
  <2>7. runtime'.marker = runtime.marker /\ Blocked' = Blocked
    BY <2>1, <2>2, <2>6 DEF Blocked
  <2>8. /\ life'.server_state = "Stopped" =>
             life.server_state = "Stopped" \/ (Free /\ ~Blocked)
        /\ pending'.exit = "none" \/ pending'.exit = pending.exit
        /\ pc' \notin Exited
    <3>1. CASE Apply(c, rs, SavedGate(gate, rs, o), p, n)
      BY <1>1, <2>2, <3>1, ApplyArrives DEF Exited, Blocked
    <3>2. CASE ~Apply(c, rs, SavedGate(gate, rs, o), p, n)
      BY <1>1, <2>1, <3>2 DEF Pending, Return, Exited
    <3> QED BY <3>1, <3>2
  <2>9. Free' = Free
    BY <2>3 DEF ownVars, Free, Managed
  <2> QED BY <2>3, <2>7, <2>8, <2>9, ArrivesFree
<1>3. CASE RequestStart \/ RequestStop \/ RequestRestart
  BY <1>2, <1>3 DEF RequestStart, RequestStop, RequestRestart, Commands
<1>4. CASE ContinueStop \/ ForceStop
  <2>1. life'.server_state = "Stopping"
    BY <1>1, <1>4 DEF ContinueStop, ForceStop, In, Life
  <2>2. UNCHANGED storeVars /\ UNCHANGED ownVars /\ pc = "idle" /\ pc' = pc
    BY <1>4 DEF ContinueStop, ForceStop
  <2> QED BY <2>1, <2>2 DEF storeVars, StoppedIsFree, Exited
<1> QED BY <1>3, <1>4 DEF UserStep

LEMMA OsArrives ==
  ASSUME StoppedIsFree, OsStep
  PROVE  StoppedIsFree'
<1>1. CASE AgentExits \/ PowerLoss
  BY <1>1 DEF AgentExits, PowerLoss, MemoryLost, Unloaded, NothingPending,
     Goto, StoppedIsFree, Exited
<1>2. CASE ~AgentExits /\ ~PowerLoss
  <2>1. UNCHANGED AgentVars
    BY <1>2 DEF OsStep, LeaderExits, ResidueExits, LeaderEscapes, PidReused,
       ForeignExits
  <2> QED BY <2>1 DEF AgentVars, storeVars, ownVars, StoppedIsFree, Free,
             Managed, Blocked
<1> QED BY <1>1, <1>2

LEMMA StoppedIsFreeHolds == Spec => []StoppedIsFree
<1>1. Init => StoppedIsFree
  BY DEF Init, Unloaded, NothingPending, StoppedIsFree, Exited
<1>2. IInv /\ IInv' /\ StoppedIsFree /\ [Next]_vars => StoppedIsFree'
  <2>1. StoppedIsFree /\ UNCHANGED vars => StoppedIsFree'
    BY DEF vars, StoppedIsFree, Free, Managed, Blocked
  <2> QED BY <2>1, StartArrives, RetryArrives, PollArrives, TimerArrives,
             BootArrives, HealthArrives, CredentialArrives, UserArrives,
             OsArrives DEF Next
<1> QED BY <1>1, <1>2, Invariant, PTL DEF Spec

(* The agent reports Stopped only when nothing of OpenCode is left: no     *)
(* leader and no member of its group. Under the same proviso.              *)
THEOREM StoppedIsHonestHolds ==
  ASSUME ~ReattachRace
  PROVE  Spec => []StoppedIsHonest
<1>1. GroupsAreKnown /\ StoppedIsFree => StoppedIsHonest
  BY DEF GroupsAreKnown, StoppedIsFree, StoppedIsHonest, Empty
<1> QED BY <1>1, GroupsKnown, StoppedIsFreeHolds, PTL

-----------------------------------------------------------------------------
(* Spawns, when every save succeeds.                                       *)

(* A restart the lifecycle still intends to make.                          *)
Intends(l) == Armed(l) \/ l.restart_after_stop

(* With no save left to repeat, whatever may lead to a start came from a   *)
(* command that wants the server, and a Stop takes it back.                *)
StartIsWanted ==
  /\ ~gate.retry /\ ~gate.clearReq /\ pending.intent = "none"
  /\ (pc \in {"start", "spawn"}) \/ Intends(life) => runtime.desired = "Running"
  /\ pc = "down" => ~Intends(life)

LEMMA WantedStays ==
  ASSUME StartIsWanted, runtime'.desired = runtime.desired,
         ~gate'.retry, ~gate'.clearReq, pending'.intent = "none",
         Intends(life') => Intends(life) \/ runtime.desired = "Running",
         pc' \in {"start", "spawn"} =>
           pc \in {"start", "spawn"} \/ runtime.desired = "Running",
         pc' = "down" => pc = "down" /\ life' = life
  PROVE  StartIsWanted'
  BY DEF StartIsWanted

LEMMA SaveSucceeds ==
  ASSUME "storage" \notin Faults, NEW g \in Gate, NEW rs, NEW o \in Outcomes,
         g.clearReq => ~rs.marker
  PROVE  ~SavedGate(g, rs, o).retry /\ ~SavedGate(g, rs, o).clearReq
         /\ o = "Durable"
  BY DEF SavedGate, Gate, Outcomes

LEMMA NotifySucceeds ==
  ASSUME "storage" \notin Faults, NEW emits, NEW rs, NEW g \in Gate, NEW n,
         ~g.retry, ~g.clearReq, Notify(emits, rs, g, n)
  PROVE  ~gate'.retry /\ ~gate'.clearReq
<1>1. PICK o \in Outcomes \cup {"Skipped"} : gate' = SavedGate(g, rs, o)
  BY DEF Notify
<1>2. CASE o = "Skipped"
  BY <1>1, <1>2 DEF SavedGate
<1> QED BY <1>1, <1>2, SaveSucceeds

LEMMA BeginStopWanted ==
  ASSUME NEW r \in BOOLEAN, NEW rs, NEW g \in Gate, NEW p \in Pending,
         NEW l \in Life, NEW n, BeginStop(r, rs, g, p, l, n),
         ~g.retry, ~g.clearReq, p.intent = "none"
  PROVE  /\ ~gate'.retry /\ ~gate'.clearReq /\ pending'.intent = "none"
         /\ Intends(life') => Intends(l) \/ r
         /\ pc' = "idle" \/ (pc' = "start" /\ r)
<1>1. gate' = g /\ pending' = p
  BY DEF BeginStop, Gate
<1>2. Intends(life') => Intends(l) \/ r
  BY DEF BeginStop, Life, Intends, Armed
<1> QED BY <1>1, <1>2 DEF BeginStop, Return, Call

LEMMA ApplyWanted ==
  ASSUME TypeOK, NEW c \in Commands, NEW rs, NEW g \in Gate,
         NEW p \in Pending, NEW n, Apply(c, rs, g, p, n),
         ~g.retry, ~g.clearReq, p.intent = "none"
  PROVE  /\ ~gate'.retry /\ ~gate'.clearReq /\ pending'.intent = "none"
         /\ c = "Stop" => ~Intends(life') /\ pc' = "idle"
         /\ pc' \in {"idle", "start"}
<1>1. Superseded(p) \in Pending /\ Superseded(p).intent = "none"
  BY DEF Superseded, Pending
<1>2. CASE c = "Start"
  BY <1>1, <1>2 DEF Apply, ApplyStart, Return, Call
<1>3. CASE c = "Stop"
  <2> DEFINE l == [Disarmed(life) EXCEPT !.restart_after_stop = FALSE,
                                         !.group_cleanup_recovery = FALSE]
  <2>1. l \in Life /\ ~Intends(l)
    BY DEF TypeOK, Life, Disarmed, Intends, Armed
  <2>2. BeginStop(FALSE, rs, g, Superseded(p), l, n)
    BY <1>3 DEF Apply, ApplyStop
  <2> HIDE DEF l
  <2> QED BY <1>1, <2>1, <2>2, BeginStopWanted
<1>4. CASE c = "Restart"
  <2> DEFINE l == [Disarmed(life) EXCEPT !.restart_after_stop = Managed,
                                         !.group_cleanup_recovery = FALSE,
                                         !.attempts = 0]
  <2>1. l \in Life
    BY AttemptTypes DEF TypeOK, Life, Disarmed, Managed
  <2>2. \/ BeginStop(TRUE, rs, g, Superseded(p), l, n)
        \/ gate' = g /\ pending' = Superseded(p) /\ pc' \in {"idle", "start"}
    BY <1>4 DEF Apply, ApplyRestart, Return, Call
  <2> HIDE DEF l
  <2> QED BY <1>1, <1>4, <2>1, <2>2, BeginStopWanted
<1> QED BY <1>2, <1>3, <1>4 DEF Commands

LEMMA StartWanted ==
  ASSUME "storage" \notin Faults, IInv, StartIsWanted, StartStep
  PROVE  StartIsWanted'
<1>1. TypeOK /\ life \in Life /\ runtime \in RuntimeState /\ gate \in Gate
      /\ pending \in Pending
  BY DEF IInv, TypeOK
<1>2. pc \in {"start", "spawn", "commit"} /\ pc' # "down"
  BY DEF StartStep, StartDeferred, StartWithoutConfig,
     StartWithoutAccess, StartRefusedWith, StartAwaitsRead, BeginLaunch,
     SpawnConfirmed, SpawnSurvivor, Spawn, SpawnFails, CommitSpawned, Return
<1>3. CASE pc \in {"start", "spawn"}
  <2>1. runtime.desired = "Running" /\ ~gate.retry /\ ~gate.clearReq
        /\ pending.intent = "none"
    BY <1>3 DEF StartIsWanted
  <2>2. pending' = pending /\ runtime'.desired = runtime.desired
        /\ ~gate'.retry /\ ~gate'.clearReq
    <3>1. CASE StartDeferred
      BY <1>1, <2>1, <3>1 DEF StartDeferred, Gate
    <3>2. CASE StartWithoutConfig \/ StartWithoutAccess
      BY <1>1, <2>1, <3>2, NotifySucceeds
         DEF StartWithoutConfig, StartWithoutAccess, StartRefusedWith
    <3>3. CASE StartAwaitsRead
      BY <2>1, <3>3 DEF StartAwaitsRead, storeVars
    <3>4. CASE BeginLaunch
      <4> DEFINE rs == [runtime EXCEPT !.marker = TRUE]
      <4>1. rs.desired = runtime.desired
        BY <1>1 DEF RuntimeState
      <4>2. PICK o \in Outcomes :
              /\ gate' = [SavedGate(gate, rs, o) EXCEPT
                            !.clearReq = @ \/ o = "Uncertain"]
              /\ pending' = IF o = "Uncertain"
                              THEN [pending EXCEPT !.convergence = trigger]
                              ELSE pending
              /\ runtime' \in {runtime, rs}
        BY <3>4 DEF BeginLaunch
      <4> HIDE DEF rs
      <4>3. o = "Durable" /\ ~SavedGate(gate, rs, o).retry
            /\ ~SavedGate(gate, rs, o).clearReq
            /\ SavedGate(gate, rs, o) \in Gate
        BY <1>1, <2>1, <4>2, SaveSucceeds DEF SavedGate, Gate
      <4> QED BY <4>1, <4>2, <4>3 DEF Gate
    <3>5. CASE SpawnConfirmed \/ SpawnSurvivor
      BY <2>1, <3>5 DEF SpawnConfirmed, SpawnSurvivor, Spawn, storeVars
    <3>6. CASE SpawnFails
      <4> DEFINE rs == [runtime EXCEPT !.marker = FALSE]
                 g  == [gate EXCEPT !.clearReq = TRUE]
                 h(o) == SavedGate(g, rs, o)
      <4>1. PICK o \in MetadataOutcomes, m \in SaveOutcomes :
              /\ gate' = SavedGate(h(o), rs, m)
              /\ m \in Outcomes \cup {"Skipped"}
        BY <3>6 DEF SpawnFails
      <4>2. rs.desired = runtime.desired /\ ~rs.marker /\ g \in Gate
            /\ o \in Outcomes
        BY <1>1, <2>1, <4>1 DEF RuntimeState, Gate, MetadataOutcomes
      <4>3. runtime' = rs /\ pending' = pending
        BY <3>6 DEF SpawnFails
      <4> HIDE DEF rs, g
      <4>4. ~h(o).retry /\ ~h(o).clearReq /\ h(o) \in Gate
        BY <4>2, SaveSucceeds DEF SavedGate, Gate
      <4> HIDE DEF h
      <4>5. ~gate'.retry /\ ~gate'.clearReq
        BY <4>1, <4>2, <4>4, SaveSucceeds DEF SavedGate
      <4> QED BY <4>2, <4>3, <4>5
    <3> QED BY <1>3, <3>1, <3>2, <3>3, <3>4, <3>5, <3>6
            DEF StartStep, CommitSpawned
  <2> QED BY <1>2, <2>1, <2>2, WantedStays
<1>4. CASE CommitSpawned
  <2> DEFINE rs == [runtime EXCEPT !.process = Record(spawned),
                                   !.marker = FALSE]
             g  == [gate EXCEPT !.clearReq = TRUE]
  <2>1. PICK o \in MetadataOutcomes : gate' = SavedGate(g, rs, o)
    BY <1>4 DEF CommitSpawned
  <2>2. rs.desired = runtime.desired /\ ~rs.marker /\ g \in Gate
        /\ o \in Outcomes
    BY <1>1, <2>1 DEF RuntimeState, Gate, MetadataOutcomes, StartIsWanted
  <2>3. runtime' = rs /\ pending' = pending /\ pc' = "idle"
    BY <1>4 DEF CommitSpawned, Return
  <2> HIDE DEF rs, g
  <2>4. ~gate'.retry /\ ~gate'.clearReq
    BY <2>1, <2>2, SaveSucceeds
  <2>5. Intends(life') => Intends(life)
    BY <1>1, <1>4 DEF CommitSpawned, PortRetry, Life, Intends, Armed
  <2> QED BY <2>2, <2>3, <2>4, <2>5, WantedStays DEF StartIsWanted
<1> QED BY <1>2, <1>3, <1>4 DEF StartStep, StartDeferred, StartWithoutConfig,
     StartWithoutAccess, StartAwaitsRead, BeginLaunch,
     SpawnConfirmed, SpawnSurvivor, Spawn, SpawnFails

LEMMA RetryWanted ==
  ASSUME "storage" \notin Faults, IInv, StartIsWanted, RetryStep
  PROVE  StartIsWanted'
<1>1. TypeOK /\ life \in Life /\ gate \in Gate /\ pending \in Pending
  BY DEF IInv, TypeOK
<1>2. ResumeExit \/ ResumeConvergence
  BY DEF RetryStep, RetrySave, UnwindMarker, ResumeIntent, StartIsWanted,
     IInv, LaunchIsMarked
<1>3. CASE ResumeExit
  <2>1. pending'.intent = "none" /\ pc' \notin {"start", "spawn", "down"}
        /\ UNCHANGED <<gate, runtime, life>>
    BY <1>1, <1>3 DEF ResumeExit, Pending, Goto
  <2> QED BY <2>1, WantedStays DEF StartIsWanted
<1>4. CASE ResumeConvergence
  <2> DEFINE p == [pending EXCEPT !.convergence = "none"]
  <2>1. p \in Pending /\ p.intent = "none" /\ pending.intent = "none"
        /\ runtime' = runtime /\ ~gate.retry /\ ~gate.clearReq
    BY <1>1, <1>4 DEF ResumeConvergence, Pending, StartIsWanted
  <2>2. \/ /\ UNCHANGED <<gate, life>> /\ pending' \in {pending, p}
           /\ pc' = "idle" \/ (pc' = "start" /\ runtime.desired = "Running")
        \/ \E n : BeginStop(FALSE, runtime, gate, p, life, n)
    BY <1>4 DEF ResumeConvergence, Return, Call
  <2> HIDE DEF p
  <2>3. /\ ~gate'.retry /\ ~gate'.clearReq /\ pending'.intent = "none"
        /\ Intends(life') => Intends(life)
        /\ pc' = "idle" \/ (pc' = "start" /\ runtime.desired = "Running")
    BY <1>1, <2>1, <2>2, BeginStopWanted
  <2> QED BY <2>1, <2>3, WantedStays
<1> QED BY <1>2, <1>3, <1>4

LEMMA PollWanted ==
  ASSUME "storage" \notin Faults, IInv, StartIsWanted, PollStep
  PROVE  StartIsWanted'
<1>1. TypeOK /\ life \in Life /\ gate \in Gate /\ pending \in Pending
      /\ runtime \in RuntimeState /\ ~gate.retry /\ ~gate.clearReq
      /\ pending.intent = "none"
  BY DEF IInv, TypeOK, StartIsWanted
<1>2. ASSUME NEW c, NEW n, PendingGroup(c, n)
      PROVE  StartIsWanted'
  <2>1. Intends(life') => Intends(life)
    BY <1>1, <1>2 DEF PendingGroup, In, Life, Intends, Armed
  <2>2. ~gate'.retry /\ ~gate'.clearReq
    BY <1>1, <1>2, NotifySucceeds DEF PendingGroup
  <2> QED BY <1>1, <1>2, <2>1, <2>2, WantedStays DEF PendingGroup, Return
<1>3. CASE CompleteExit
  <2> DEFINE cleared == [runtime EXCEPT !.process = NoRecord]
  <2>1. PICK o \in Outcomes :
          /\ gate' = SavedGate(gate, cleared, o)
          /\ o # "Failed" => runtime' = cleared
          /\ o # "Uncertain" => pending' = pending
    BY <1>3 DEF CompleteExit
  <2>2. cleared.desired = runtime.desired
    BY <1>1 DEF RuntimeState
  <2>3. Intends(life') => Intends(life)
    BY <1>1, <1>3 DEF CompleteExit, Disarmed, Life, Intends, Armed
  <2>4. pc' \notin {"start", "spawn", "down"}
    BY <1>3 DEF CompleteExit, Goto, Return
  <2> HIDE DEF cleared
  <2>5. ~gate'.retry /\ ~gate'.clearReq /\ o = "Durable"
    BY <1>1, <2>1, SaveSucceeds
  <2> QED BY <1>1, <2>1, <2>2, <2>3, <2>4, <2>5, WantedStays
<1>4. ASSUME NEW r, NEW l \in Life, NEW n, MarkUnverified(r, l, n),
             Intends(l) => Intends(life), pending' = pending, pc' = "idle"
      PROVE  StartIsWanted'
  <2>1. Intends(life') => Intends(life)
    BY <1>4 DEF MarkUnverified, Life, Intends, Armed
  <2>2. ~gate'.retry /\ ~gate'.clearReq
    BY <1>1, <1>4, NotifySucceeds DEF MarkUnverified
  <2>3. runtime'.desired = runtime.desired
    BY <1>1, <1>4 DEF MarkUnverified, RuntimeState
  <2> QED BY <1>1, <1>4, <2>1, <2>2, <2>3, WantedStays
<1>5. CASE ConfirmIdentity
  <2> DEFINE rs == [runtime EXCEPT
                     !.process = Record([process EXCEPT !.unconfirmed = FALSE])]
  <2>1. PICK o \in Outcomes : gate' = SavedGate(gate, rs, o)
    BY <1>1, <1>5 DEF ConfirmIdentity, MetadataOutcomes
  <2>2. runtime' = rs /\ rs.desired = runtime.desired /\ pc' = "idle"
        /\ pending' = pending
    BY <1>1, <1>5 DEF ConfirmIdentity, RuntimeState, Return
  <2>3. Intends(life') => Intends(life)
    BY <1>1, <1>5 DEF ConfirmIdentity, In, Life, Intends, Armed
  <2> HIDE DEF rs
  <2>4. ~gate'.retry /\ ~gate'.clearReq
    BY <1>1, <2>1, SaveSucceeds
  <2> QED BY <1>1, <2>2, <2>3, <2>4, WantedStays
<1>6. CASE PollChildExit \/ PollPendingGroup
  BY <1>2, <1>3, <1>6 DEF PollChildExit, PollPendingGroup
<1>7. CASE IdentityChanges
  BY <1>1, <1>4, <1>7 DEF IdentityChanges, Return
<1>8. CASE AttachedDisappears /\ ~CompleteExit
  <2> DEFINE l == [life EXCEPT !.stop_deadline = FALSE,
                               !.restart_after_stop = FALSE,
                               !.group_cleanup_recovery = FALSE,
                               !.next_restart = FALSE]
  <2>1. l \in Life /\ (Intends(l) => Intends(life))
    BY <1>1 DEF Life, Intends, Armed
  <2>2. PICK r, n : MarkUnverified(r, l, n)
    BY <1>8 DEF AttachedDisappears
  <2> HIDE DEF l
  <2> QED BY <1>4, <1>8, <2>1, <2>2 DEF AttachedDisappears, Return
<1>9. CASE AfterExplicitExit \/ AfterUnexpectedExit
  <2>1. UNCHANGED <<runtime, pending>> /\ ~gate'.retry /\ ~gate'.clearReq
    BY <1>1, <1>9, NotifySucceeds DEF AfterExplicitExit, AfterUnexpectedExit
  <2>2. /\ pc' = "idle" \/ (pc' = "start" /\ runtime.desired = "Running")
        /\ Intends(life') => Intends(life) \/ runtime.desired = "Running"
    <3>1. runtime.desired \in {"Running", "Stopped"}
      BY <1>1 DEF RuntimeState, Desired
    <3>2. CASE runtime.desired = "Running"
      BY <1>9, <3>2 DEF AfterExplicitExit, AfterUnexpectedExit, Return, Call
    <3>3. CASE runtime.desired = "Stopped"
      BY <1>1, <1>9, <3>3 DEF AfterExplicitExit, AfterUnexpectedExit, Return,
         In, Life, Intends, Armed
    <3> QED BY <3>1, <3>2, <3>3
  <2> QED BY <1>1, <2>1, <2>2, WantedStays
<1> QED BY <1>3, <1>5, <1>6, <1>7, <1>8, <1>9
        DEF PollStep, AttachedDisappears

LEMMA TimerWanted ==
  ASSUME "storage" \notin Faults, IInv, StartIsWanted, TimerStep
  PROVE  StartIsWanted'
<1>1. TypeOK /\ life \in Life /\ gate \in Gate /\ pending \in Pending
      /\ runtime \in RuntimeState /\ ~gate.retry /\ ~gate.clearReq
      /\ pending.intent = "none"
  BY DEF IInv, TypeOK, StartIsWanted
<1>2. CASE CheckUnverified
  <2> DEFINE cleared == [runtime EXCEPT !.process = NoRecord]
  <2>1. PICK o \in Outcomes :
          /\ gate' = SavedGate(gate, cleared, o)
          /\ o # "Failed" => runtime' = cleared
          /\ o # "Uncertain" => pending' = pending
    BY <1>2 DEF CheckUnverified, Discard
  <2>2. cleared.desired = runtime.desired
    BY <1>1 DEF RuntimeState
  <2>3. Intends(life') => Intends(life)
    BY <1>1, <1>2 DEF CheckUnverified, In, Life, Intends, Armed
  <2>4. pc' = "idle" \/ (pc' = "start" /\ (life.restart_after_stop \/
                                           runtime.desired = "Running"))
    BY <1>2 DEF CheckUnverified, Return, Call
  <2> HIDE DEF cleared
  <2>5. ~gate'.retry /\ ~gate'.clearReq /\ o = "Durable"
    BY <1>1, <2>1, SaveSucceeds
  <2> QED BY <1>1, <2>1, <2>2, <2>3, <2>4, <2>5, WantedStays
          DEF StartIsWanted, Intends
<1>3. CASE RestartDue \/ PortRetryDue \/ StopTimesOut
  <2>1. Intends(life') => Intends(life)
    BY <1>1, <1>3 DEF RestartDue, PortRetryDue, StopTimesOut, PortRetry, In,
       Life, Intends, Armed
  <2>2. UNCHANGED storeVars
        /\ \/ pc' = "idle"
           \/ pc' = "start" /\ Armed(life)
    BY <1>3 DEF RestartDue, PortRetryDue, StopTimesOut, Call, Armed
  <2> QED BY <1>1, <2>1, <2>2, WantedStays
          DEF StartIsWanted, Intends, storeVars
<1> QED BY <1>2, <1>3 DEF TimerStep

LEMMA BootWanted ==
  ASSUME "storage" \notin Faults, IInv, StartIsWanted, BootStep
  PROVE  StartIsWanted'
<1>1. TypeOK /\ life \in Life /\ gate \in Gate /\ pending \in Pending
      /\ runtime \in RuntimeState /\ ~gate.retry /\ ~gate.clearReq
      /\ pending.intent = "none"
  BY DEF IInv, TypeOK, StartIsWanted
<1>2. Intends(In("Failed")) => Intends(life)
  BY <1>1 DEF In, Life, Intends, Armed
<1>3. CASE Boot \/ BootUnreadable
  <2>1. /\ ~Intends(life) /\ life' \in {life, In("Failed")}
        /\ gate' \in {Loaded, Unloaded} /\ pending' = pending
        /\ pc' \in {"idle", "converge", "reattach"}
    BY <1>3 DEF Boot, BootUnreadable, BootVars, Return, Goto, StartIsWanted
  <2>2. ~Intends(life')
    BY <1>2, <2>1
  <2> QED BY <1>1, <2>1, <2>2 DEF StartIsWanted, Loaded, Unloaded
<1>4. CASE InspectMatches
  BY <1>1, <1>4, WantedStays DEF InspectMatches, storeVars, Goto
<1>5. CASE Inspect \/ Probe
  <2> DEFINE Kept == /\ runtime'.desired = runtime.desired
                     /\ ~gate'.retry /\ ~gate'.clearReq
                     /\ pending'.intent = "none"
                     /\ Intends(life') => Intends(life)
  <2>1. Forget => Kept
    <3> SUFFICES ASSUME Forget PROVE Kept
      OBVIOUS
    <3> DEFINE cleared == [runtime EXCEPT !.process = NoRecord]
    <3>1. PICK o \in Outcomes :
            /\ gate' = SavedGate(gate, cleared, o)
            /\ o # "Failed" => runtime' = cleared
            /\ o # "Uncertain" => pending' = pending
            /\ life' \in {life, In("Failed")}
      BY DEF Forget, Discard
    <3>2. cleared.desired = runtime.desired
      BY <1>1 DEF RuntimeState
    <3> HIDE DEF cleared
    <3>3. ~gate'.retry /\ ~gate'.clearReq /\ o = "Durable"
      BY <1>1, <3>1, SaveSucceeds
    <3> QED BY <1>1, <1>2, <3>1, <3>2, <3>3
  <2>2. ASSUME NEW n, Block(n) PROVE Kept
    <3>1. ~gate'.retry /\ ~gate'.clearReq
      BY <1>1, <2>2, NotifySucceeds DEF Block, MarkUnverified
    <3>2. Intends(life') => Intends(life)
      BY <1>1, <2>2 DEF Block, MarkUnverified, Life, Intends, Armed
    <3> QED BY <1>1, <2>2, <3>1, <3>2 DEF Block, MarkUnverified, RuntimeState
  <2>3. ASSUME NEW basis, NEW u, NEW state, NEW n, Attach(basis, u, state, n)
        PROVE  Kept
    <3>1. PICK o \in Outcomes : gate' = SavedGate(gate, runtime, o)
      BY <1>1, <2>3 DEF Attach, MetadataOutcomes
    <3>2. ~gate'.retry /\ ~gate'.clearReq
      BY <1>1, <3>1, SaveSucceeds
    <3>3. Intends(life') => Intends(life)
      BY <1>1, <2>3 DEF Attach, In, Life, Intends, Armed
    <3> QED BY <1>1, <2>3, <3>2, <3>3 DEF Attach
  <2> HIDE DEF Kept
  <2>4. Kept /\ pc' = "converge"
    BY <1>5, <2>1, <2>2, <2>3 DEF Inspect, Probe, Goto
  <2> USE DEF Kept
  <2> QED BY <2>4, WantedStays
<1>6. CASE Converge
  <2> DEFINE rs == [runtime EXCEPT !.process = NoRecord]
  <2>1. rs.desired = runtime.desired
    BY <1>1 DEF RuntimeState
  <2>2. \/ /\ runtime' = rs
           /\ \/ pending' = pending
              \/ \E t : pending' = [pending EXCEPT !.convergence = t]
           /\ \E o \in Outcomes : gate' = SavedGate(gate, rs, o)
           /\ life' \in {life, In("Failed")} /\ pc' \in {"resume", "idle"}
        \/ /\ runtime' = runtime
           /\ \/ UNCHANGED <<gate, pending, life>> /\ pc' = "idle"
              \/ \E n : BeginStop(FALSE, runtime, gate, pending, life, n)
    BY <1>6 DEF Converge, Resumed, Goto, Return, storeVars
  <2> HIDE DEF rs
  <2>3. /\ ~gate'.retry /\ ~gate'.clearReq
        /\ Intends(life') => Intends(life)
        /\ pc' \in {"resume", "idle"}
    <3>1. CASE \E n : BeginStop(FALSE, runtime, gate, pending, life, n)
      BY <1>1, <3>1, BeginStopWanted
    <3>2. CASE \E o \in Outcomes : gate' = SavedGate(gate, rs, o) /\
                 life' \in {life, In("Failed")} /\ pc' \in {"resume", "idle"}
      BY <1>1, <1>2, <3>2, SaveSucceeds
    <3>3. CASE UNCHANGED <<gate, pending, life>> /\ pc' = "idle"
      BY <1>1, <3>3
    <3> QED BY <2>2, <3>1, <3>2, <3>3
  <2>4. pending'.intent = "none"
    BY <1>1, <2>2, BeginStopWanted DEF Pending
  <2>5. runtime'.desired = runtime.desired
    BY <2>1, <2>2
  <2> QED BY <2>3, <2>4, <2>5, WantedStays
<1> QED BY <1>3, <1>4, <1>5, <1>6 DEF BootStep

LEMMA HealthWanted ==
  ASSUME "storage" \notin Faults, IInv, StartIsWanted, HealthStep
  PROVE  StartIsWanted'
<1>1. TypeOK /\ life \in Life /\ gate \in Gate /\ ~gate.retry
      /\ ~gate.clearReq /\ pending.intent = "none"
      /\ runtime \in RuntimeState
  BY DEF IInv, TypeOK, StartIsWanted
<1>2. pc = "idle" /\ pc' = "idle" /\ pending' = pending
      /\ runtime'.desired = runtime.desired
  BY <1>1 DEF HealthStep, StableRun, HealthyAnswer, UnhealthyAnswer,
     StaleHealthyAnswer, HealthApplicable, storeVars, RuntimeState
<1>3. Intends(life') => Intends(life)
  BY <1>1 DEF HealthStep, StableRun, HealthyAnswer, UnhealthyAnswer,
     StaleHealthyAnswer, In, Life, Intends, Armed
<1>4. \A rs : \A o \in Outcomes \cup {"Skipped"} :
        ~SavedGate(gate, rs, o).retry /\ ~SavedGate(gate, rs, o).clearReq
  <2>1. \A rs : SavedGate(gate, rs, "Skipped") = gate
    BY DEF SavedGate
  <2> QED BY <1>1, <2>1, SaveSucceeds
<1>5. ~gate'.retry /\ ~gate'.clearReq
  <2>1. CASE StableRun
    BY <1>1, <2>1 DEF StableRun, storeVars
  <2>2. CASE ~StableRun
    <3>1. Outcomes \cup MetadataOutcomes \subseteq Outcomes \cup {"Skipped"}
      BY DEF MetadataOutcomes
    <3>2. CASE HealthyAnswer
      BY <1>4, <3>1, <3>2 DEF HealthyAnswer
    <3>3. CASE UnhealthyAnswer
      BY <1>4, <3>1, <3>3 DEF UnhealthyAnswer
    <3>4. CASE StaleHealthyAnswer
      BY <1>4, <3>1, <3>4 DEF StaleHealthyAnswer
    <3> QED BY <2>2, <3>2, <3>3, <3>4 DEF HealthStep
  <2> QED BY <2>1, <2>2
<1> QED BY <1>1, <1>2, <1>3, <1>5, WantedStays

LEMMA CredentialWanted ==
  ASSUME IInv, StartIsWanted, CredentialStep
  PROVE  StartIsWanted'
<1>1. life \in Life
  BY DEF IInv, TypeOK
<1>2. UNCHANGED CredVars /\ (pc' = pc \/ (pc = "idle" /\ pc' = "start" /\
                                         runtime.desired = "Running"))
  BY DEF CredentialStep, AccessLost, AccessNotNeeded, RequestRead,
     PasswordApplied, ReadWithoutPassword, CredVars, Call
<1>3. Intends(life') => Intends(life)
  BY <1>1 DEF CredentialStep, AccessLost, AccessNotNeeded, RequestRead,
     PasswordApplied, ReadWithoutPassword, Disarmed, Life, Intends, Armed
<1> QED BY <1>2, <1>3 DEF CredVars, storeVars, StartIsWanted

(* A Stop disarms whatever could start the server again.                   *)
LEMMA UserWanted ==
  ASSUME "storage" \notin Faults, IInv, StartIsWanted, UserStep
  PROVE  StartIsWanted'
<1>1. TypeOK /\ life \in Life /\ gate \in Gate /\ pending \in Pending
      /\ runtime \in RuntimeState /\ ~gate.retry /\ ~gate.clearReq
      /\ pending.intent = "none"
  BY DEF IInv, TypeOK, StartIsWanted
<1>2. ASSUME NEW c \in Commands, Command(c)
      PROVE  StartIsWanted'
  <2> DEFINE rs == [runtime EXCEPT !.desired = DesiredBy(c)]
             p  == [pending EXCEPT !.intent = "none", !.convergence = "none"]
  <2>1. PICK n \in 0..1 :
          runtime' = rs /\ Apply(c, rs, SavedGate(gate, rs, "Durable"), p, n)
    BY <1>2 DEF Command, Outcomes
  <2>2. /\ rs.desired = DesiredBy(c) /\ p \in Pending /\ p.intent = "none"
        /\ "Durable" \in Outcomes
    BY <1>1 DEF RuntimeState, Pending, Outcomes
  <2> HIDE DEF rs, p
  <2>3. /\ ~SavedGate(gate, rs, "Durable").retry
        /\ ~SavedGate(gate, rs, "Durable").clearReq
        /\ SavedGate(gate, rs, "Durable") \in Gate
    BY <1>1, <2>2, SaveSucceeds DEF SavedGate, Gate
  <2>4. /\ ~gate'.retry /\ ~gate'.clearReq /\ pending'.intent = "none"
        /\ c = "Stop" => ~Intends(life') /\ pc' = "idle"
        /\ pc' \in {"idle", "start"}
    BY <1>1, <2>1, <2>2, <2>3, ApplyWanted
  <2> QED BY <2>1, <2>2, <2>4 DEF StartIsWanted, DesiredBy
<1>3. CASE RequestStart \/ RequestStop \/ RequestRestart
  BY <1>2, <1>3 DEF RequestStart, RequestStop, RequestRestart, Commands
<1>4. CASE ContinueStop \/ ForceStop
  <2>1. Intends(life') => Intends(life)
    BY <1>1, <1>4 DEF ContinueStop, ForceStop, In, Life, Intends, Armed
  <2>2. UNCHANGED storeVars /\ pc = "idle" /\ pc' = pc
    BY <1>4 DEF ContinueStop, ForceStop
  <2> QED BY <1>1, <2>1, <2>2, WantedStays DEF storeVars
<1> QED BY <1>3, <1>4 DEF UserStep

LEMMA OsWanted ==
  ASSUME StartIsWanted, OsStep
  PROVE  StartIsWanted'
<1>1. CASE AgentExits \/ PowerLoss
  BY <1>1 DEF AgentExits, PowerLoss, MemoryLost, Unloaded, NothingPending,
     InitialLife, Goto, StartIsWanted, Intends, Armed
<1>2. CASE ~AgentExits /\ ~PowerLoss
  <2>1. UNCHANGED AgentVars
    BY <1>2 DEF OsStep, LeaderExits, ResidueExits, LeaderEscapes, PidReused,
       ForeignExits
  <2> QED BY <2>1 DEF AgentVars, storeVars, StartIsWanted
<1> QED BY <1>1, <1>2

(* OpenCode is spawned only while the user wants it running, as long as    *)
(* every save succeeds; after a failed one this is refuted by TLC.         *)
THEOREM SpawnIsWantedHolds ==
  ASSUME "storage" \notin Faults
  PROVE  Spec => []SpawnIsWanted
<1>1. Init => StartIsWanted
  BY DEF Init, Unloaded, NothingPending, InitialLife, StartIsWanted, Intends,
     Armed
<1>2. IInv /\ StartIsWanted /\ [Next]_vars => StartIsWanted'
  <2>1. StartIsWanted /\ UNCHANGED vars => StartIsWanted'
    BY DEF vars, StartIsWanted
  <2> QED BY <2>1, StartWanted, RetryWanted, PollWanted, TimerWanted,
             BootWanted, HealthWanted, CredentialWanted, UserWanted, OsWanted
          DEF Next
<1>3. StartIsWanted => SpawnIsWanted
  BY DEF StartIsWanted, SpawnIsWanted
<1> QED BY <1>1, <1>2, <1>3, Invariant, PTL DEF Spec

-----------------------------------------------------------------------------
(* The convergence that waits.                                             *)

(* A convergence is deferred by an agent that holds no process, while its  *)
(* save is scheduled; a durable save resumes it before anything else. That *)
(* no start is deferred beside an exit that waits, which would be resumed  *)
(* in its place, rests on the disarmed timers and on no read of a password *)
(* being answered meanwhile.                                               *)
ConvergenceIsKept ==
  /\ pending.convergence # "none" =>
       /\ Free /\ ~Blocked /\ pending.exit = "none"
       /\ pc \in {"idle", "start", "converge", "unwind", "resume"}
       /\ pc \notin {"unwind", "resume"} => gate.retry
  /\ pending.exit # "none" =>
       ~Armed(life) /\ ~runtime.marker /\ pc # "start"
  /\ pc \in Exited => ~runtime.marker
  /\ Blocked /\ pc \notin {"spawn", "commit"} =>
       ~Armed(life) /\ (pc = "start" => ~gate.retry)
  /\ pc = "resume" =>
       gate.loaded /\ gate.reliable /\ ~gate.retry /\ ~gate.clearReq
  /\ ~credentials.in_flight

(* A step after which neither an exit nor a convergence waits.             *)
LEMMA NoneWaits ==
  ASSUME ConvergenceIsKept, pending'.convergence = "none",
         pending'.exit = "none", pc' \notin Exited \cup {"resume"},
         ~credentials'.in_flight,
         Blocked' => pc' \in {"spawn", "commit"}
                     \/ (~Armed(life') /\ (pc' = "start" => ~gate'.retry))
  PROVE  ConvergenceIsKept'
  BY DEF ConvergenceIsKept

(* A step that leaves what waits as it is.                                 *)
LEMMA SameWaits ==
  ASSUME ConvergenceIsKept, pending'.convergence = pending.convergence,
         pending'.exit = pending.exit,
         pc \notin Exited \cup {"unwind", "resume", "spawn", "commit"},
         pc' \in {"idle", "converge"}, Free => Free',
         Armed(life') => Armed(life), gate.retry => gate'.retry,
         runtime'.marker => runtime.marker, Blocked' => Blocked,
         ~credentials'.in_flight
  PROVE  ConvergenceIsKept'
  BY DEF ConvergenceIsKept, Exited

LEMMA WhereNoneWaits ==
  ASSUME IInv, ConvergenceIsKept
  PROVE  /\ gate.retry => gate.loaded /\ pc # "down"
         /\ Managed \/ unverified =>
              pending.convergence = "none" /\ pending.exit = "none"
              /\ ~runtime.marker
         /\ Ready(runtime, gate) /\ pc \notin {"unwind", "resume"} =>
              pending.convergence = "none" /\ ~gate.retry
         /\ pc \in {"down", "reattach", "probe", "spawn", "commit"} \cup Exited
              => pending.convergence = "none" /\ pending.exit = "none"
         /\ pc \in {"reattach", "probe", "converge"} \cup Exited =>
              ~runtime.marker /\ pending.exit = "none"
<1>1. gate.retry => gate.loaded /\ pc # "down"
  BY DEF IInv, GateIsClosed
<1>2. Managed \/ unverified =>
        pending.convergence = "none" /\ pending.exit = "none"
        /\ ~runtime.marker
  BY DEF IInv, ConvergenceIsKept, LaunchIsMarked, StartIsFree, Free
<1>3. Ready(runtime, gate) /\ pc \notin {"unwind", "resume"} =>
        pending.convergence = "none" /\ ~gate.retry
  BY DEF IInv, ConvergenceIsKept, GateIsClosed, Coherent, Ready, Unfinalized
<1>4. pc \in {"down", "reattach", "probe", "spawn", "commit"} \cup Exited
        => pending.convergence = "none" /\ pending.exit = "none"
  BY DEF IInv, ConvergenceIsKept, GateIsClosed, LaunchIsMarked, Exited
<1>5. pc \in {"reattach", "probe", "converge"} \cup Exited =>
        ~runtime.marker /\ pending.exit = "none"
  BY DEF IInv, ConvergenceIsKept, GateIsClosed, LaunchIsMarked, Exited
<1> QED BY <1>1, <1>2, <1>3, <1>4, <1>5

LEMMA StartKeepsConvergence ==
  ASSUME IInv, ConvergenceIsKept, StartStep
  PROVE  ConvergenceIsKept'
<1>1. TypeOK /\ gate \in Gate /\ pending \in Pending /\ life \in Life
      /\ runtime \in RuntimeState /\ ~credentials.in_flight
  BY DEF IInv, TypeOK, ConvergenceIsKept
<1>2. pending.exit = "none" /\ credentials' = credentials
  <2>1. pc \in {"start", "spawn", "commit"}
    BY DEF StartStep, StartDeferred, StartWithoutConfig, StartWithoutAccess,
       StartAwaitsRead, BeginLaunch, SpawnConfirmed, SpawnSurvivor, Spawn,
       SpawnFails, CommitSpawned
  <2>2. pending.exit = "none"
    BY <2>1, WhereNoneWaits DEF ConvergenceIsKept
  <2>3. credentials' = credentials
    <3>1. CASE SpawnFails \/ CommitSpawned
      BY <3>1 DEF SpawnFails, CommitSpawned, StartVars
    <3> QED BY <3>1 DEF StartStep, StartDeferred, StartWithoutConfig,
          StartWithoutAccess, StartRefusedWith, StartAwaitsRead, BeginLaunch,
          SpawnConfirmed, SpawnSurvivor, Spawn, StartVars
  <2> QED BY <2>2, <2>3
<1>3. CASE StartDeferred
  <2>1. /\ pc = "start" /\ pc' = "idle" /\ Free /\ Free'
        /\ runtime' = runtime /\ gate'.clearReq = gate.clearReq
        /\ gate'.retry = (gate.retry \/ gate.clearReq)
        /\ pending'.exit = "none"
    BY <1>1, <1>2, <1>3 DEF StartDeferred, StartVars, ownVars, Return, IInv,
       StartIsFree, Free, Managed, Gate, Pending
  <2>2. Armed(life') => Armed(life)
    BY <1>1, <1>3 DEF StartDeferred, In, Life, Armed
  <2>3. pending'.convergence # "none" => gate.retry \/ gate.clearReq
    BY <1>1, <1>3, <2>1 DEF StartDeferred, ConvergenceIsKept
  <2> QED BY <1>1, <1>2, <2>1, <2>2, <2>3 DEF ConvergenceIsKept, Blocked, Exited
<1>4. CASE StartWithoutConfig \/ StartWithoutAccess \/ StartAwaitsRead
  BY <1>1, <1>2, <1>4, WhereNoneWaits, NoneWaits
     DEF StartWithoutConfig, StartWithoutAccess, StartRefusedWith,
         StartAwaitsRead, storeVars, Return, Ready, Unfinalized, Blocked, Exited
<1>5. CASE BeginLaunch
  <2> DEFINE rs == [runtime EXCEPT !.marker = TRUE]
  <2>1. PICK o \in Outcomes :
          /\ gate' = [SavedGate(gate, rs, o) EXCEPT
                        !.clearReq = @ \/ o = "Uncertain"]
          /\ runtime' = IF o = "Failed" THEN runtime ELSE rs
          /\ pending' = IF o = "Uncertain"
                          THEN [pending EXCEPT !.convergence = trigger]
                          ELSE pending
          /\ \/ o = "Durable" /\ pc' = "spawn"
             \/ o # "Durable" /\ pc' = "idle"
    BY <1>5 DEF BeginLaunch, Return
  <2>2. pending.convergence = "none" /\ ~runtime.marker /\ Free /\ Free'
    BY <1>5, WhereNoneWaits DEF BeginLaunch, Ready, Unfinalized, StartVars,
       ownVars, IInv, StartIsFree, Free, Managed
  <2>3. CASE o # "Uncertain"
    <3>1. pending' = pending /\ pc' \in {"spawn", "idle"}
          /\ (pc' = "idle" => ~runtime'.marker)
      BY <2>1, <2>2, <2>3 DEF Outcomes
    <3> HIDE DEF rs
    <3> QED BY <1>1, <1>2, <2>2, <3>1, NoneWaits DEF Blocked, Exited
  <2>4. CASE o = "Uncertain"
    <3>1. gate'.retry /\ gate'.clearReq /\ pending'.exit = "none"
      BY <1>1, <1>2, <2>1, <2>4 DEF SavedGate, Gate, Pending
    <3> QED BY <1>1, <1>2, <2>1, <2>2, <2>4, <3>1
            DEF ConvergenceIsKept, Blocked, Exited
  <2> QED BY <2>3, <2>4
<1>6. CASE SpawnConfirmed \/ SpawnSurvivor
  <2>1. pc = "spawn" /\ pc' = "commit" /\ pending' = pending
    BY <1>6 DEF SpawnConfirmed, SpawnSurvivor, Spawn, storeVars
  <2> QED BY <1>1, <1>2, <2>1, WhereNoneWaits, NoneWaits DEF Exited
<1>7. CASE SpawnFails \/ CommitSpawned
  <2>1. pc \in {"spawn", "commit"} /\ pc' = "idle" /\ pending' = pending
    BY <1>7 DEF SpawnFails, CommitSpawned, Return
  <2>2. CASE SpawnFails
    <3>1. runtime' = [runtime EXCEPT !.marker = FALSE]
      BY <2>2 DEF SpawnFails
    <3> QED BY <1>1, <1>2, <2>1, <3>1, WhereNoneWaits, NoneWaits
            DEF Exited, Blocked, RuntimeState
  <2>3. CASE CommitSpawned
    <3>1. runtime' = [runtime EXCEPT !.process = Record(spawned),
                                     !.marker = FALSE]
      BY <2>3 DEF CommitSpawned
    <3> QED BY <1>1, <1>2, <2>1, <3>1, WhereNoneWaits, NoneWaits
            DEF Exited, Blocked, RuntimeState
  <2> QED BY <1>7, <2>2, <2>3
<1> QED BY <1>3, <1>4, <1>5, <1>6, <1>7 DEF StartStep

(* What begin_stop and a command leave to wait.                            *)
LEMMA BeginStopDefers ==
  ASSUME TypeOK, NEW r, NEW rs, NEW g \in Gate, NEW p \in Pending,
         NEW l \in Life, NEW n, BeginStop(r, rs, g, p, l, n),
         p.convergence = "none"
  PROVE  /\ pending'.convergence # "none" =>
              g.clearReq /\ gate'.retry /\ pc' = "idle"
         /\ pc' = "start" => gate' = g
         /\ gate'.clearReq = g.clearReq /\ pending'.exit = p.exit
         /\ pc' \in {"idle", "start"} /\ (Armed(life') => Armed(l))
<1>1. /\ pending'.convergence # "none" =>
              g.clearReq /\ gate'.retry /\ pc' = "idle"
      /\ pc' = "start" => gate' = g
      /\ gate'.clearReq = g.clearReq /\ pc' \in {"idle", "start"}
  BY DEF BeginStop, Gate, Pending, Return, Call
<1>2. pending'.exit = p.exit
  BY DEF BeginStop, Pending
<1>3. Armed(life') => Armed(l)
  BY DEF BeginStop, Life, Armed
<1> QED BY <1>1, <1>2, <1>3

LEMMA ApplyDefers ==
  ASSUME TypeOK, NEW c, NEW rs, NEW g \in Gate, NEW p \in Pending, NEW n,
         Apply(c, rs, g, p, n)
  PROVE  /\ pending'.convergence # "none" =>
              g.clearReq /\ gate'.retry /\ pc' = "idle"
         /\ pc' = "start" => gate' = g
         /\ gate'.clearReq = g.clearReq /\ pending'.exit = "none"
         /\ pc' \in {"idle", "start"} /\ (Armed(life') => Armed(life))
<1>1. /\ Superseded(p) \in Pending /\ Superseded(p).exit = "none"
      /\ Superseded(p).convergence = "none"
  BY DEF Superseded, Pending
<1>2. CASE ApplyStart(g, p, n)
  <2>1. Armed(life') => Armed(life)
    BY <1>2 DEF ApplyStart, TypeOK, Life, Armed, Disarmed, In
  <2> QED BY <1>1, <1>2, <2>1 DEF ApplyStart, Return, Call
<1>3. CASE ApplyStop(rs, g, p, n)
  <2> DEFINE l == [Disarmed(life) EXCEPT !.restart_after_stop = FALSE,
                                         !.group_cleanup_recovery = FALSE]
  <2>1. l \in Life /\ ~Armed(l)
    BY DEF TypeOK, Life, Disarmed, Armed
  <2>2. BeginStop(FALSE, rs, g, Superseded(p), l, n)
    BY <1>3 DEF ApplyStop
  <2> HIDE DEF l
  <2> QED BY <1>1, <2>1, <2>2, BeginStopDefers
<1>4. CASE ApplyRestart(rs, g, p, n)
  <2> DEFINE l == [Disarmed(life) EXCEPT !.restart_after_stop = Managed,
                                         !.group_cleanup_recovery = FALSE,
                                         !.attempts = 0]
  <2>1. l \in Life /\ ~Armed(l)
    BY AttemptTypes DEF TypeOK, Life, Disarmed, Armed, Managed
  <2>2. \/ BeginStop(TRUE, rs, g, Superseded(p), l, n)
        \/ /\ gate' = g /\ pending' = Superseded(p) /\ pc' \in {"idle", "start"}
           /\ life' \in {l, [l EXCEPT !.restart_after_stop = FALSE,
                                      !.server_state = "Failed"]}
    BY <1>4 DEF ApplyRestart, Return, Call
  <2>3. ~Armed([l EXCEPT !.restart_after_stop = FALSE,
                         !.server_state = "Failed"])
    BY <2>1 DEF Life, Armed
  <2> HIDE DEF l
  <2> QED BY <1>1, <2>1, <2>2, <2>3, BeginStopDefers
<1> QED BY <1>2, <1>3, <1>4 DEF Apply

LEMMA RetryKeepsConvergence ==
  ASSUME IInv, ConvergenceIsKept, RetryStep
  PROVE  ConvergenceIsKept'
<1>1. TypeOK /\ gate \in Gate /\ pending \in Pending /\ life \in Life
      /\ runtime \in RuntimeState /\ ~credentials.in_flight
      /\ credentials' = credentials /\ (Free' <=> Free)
  <2>1. UNCHANGED <<ownVars, credentials>>
    BY DEF RetryStep, RetrySave, UnwindMarker, ResumeIntent, ResumeExit,
       ResumeConvergence
  <2> QED BY <2>1 DEF IInv, TypeOK, ConvergenceIsKept, ownVars, Free, Managed
<1>2. CASE RetrySave
  <2>1. PICK o \in Outcomes :
          /\ gate' = SavedGate(gate, runtime, o)
          /\ \/ o = "Durable" /\ pc' = "unwind"
             \/ o = "Durable" /\ pc' = "resume"
                /\ ~(gate.clearReq /\ runtime.marker)
             \/ o # "Durable" /\ pc' = "idle"
    BY <1>2 DEF RetrySave, Resumed, Goto, Return
  <2>2. UNCHANGED <<runtime, pending, life>> /\ gate.loaded /\ pc = "idle"
    BY <1>2 DEF RetrySave
  <2>3. CASE o = "Durable"
    <3>1. /\ gate'.loaded /\ gate'.reliable /\ ~gate'.retry
          /\ gate'.clearReq = (gate.clearReq /\ runtime.marker)
      BY <1>1, <2>1, <2>2, <2>3 DEF SavedGate, Gate
    <3> QED BY <1>1, <2>1, <2>2, <2>3, <3>1
            DEF ConvergenceIsKept, Blocked, Exited
  <2>4. CASE o # "Durable"
    <3>1. gate'.retry /\ gate'.clearReq = gate.clearReq
      BY <1>1, <2>1, <2>4 DEF SavedGate, Gate, Outcomes
    <3> QED BY <1>1, <2>1, <2>2, <2>4, <3>1, SameWaits DEF Blocked, Exited
  <2> QED BY <2>3, <2>4
<1>3. CASE UnwindMarker
  <2> DEFINE rs == [runtime EXCEPT !.marker = FALSE]
  <2>1. PICK o \in Outcomes :
          /\ gate' = SavedGate(gate, rs, o)
          /\ \/ o = "Durable" /\ pc' = "resume"
             \/ o # "Durable" /\ pc' = "idle"
    BY <1>3 DEF UnwindMarker, Resumed, Goto, Return
  <2>2. UNCHANGED <<pending, life>> /\ runtime' = rs /\ ~rs.marker
        /\ gate.loaded /\ pc = "unwind"
    BY <1>1, <1>3, LoadedWhere DEF UnwindMarker, RuntimeState
  <2> HIDE DEF rs
  <2>3. /\ o = "Durable" => gate'.loaded /\ gate'.reliable /\ ~gate'.retry
                            /\ ~gate'.clearReq
        /\ o # "Durable" => gate'.retry
    BY <1>1, <2>1, <2>2 DEF SavedGate, Gate, Outcomes
  <2> QED BY <1>1, <2>1, <2>2, <2>3 DEF ConvergenceIsKept, Blocked, Exited
<1>4. CASE ResumeIntent
  <2> DEFINE p == [pending EXCEPT !.intent = "none"]
  <2>1. PICK n : Apply(pending.intent, runtime, gate, p, n)
    BY <1>4 DEF ResumeIntent
  <2>2. p \in Pending /\ runtime' = runtime /\ ~gate.clearReq /\ ~gate.retry
    BY <1>1, <1>4 DEF Pending, ResumeIntent, ConvergenceIsKept
  <2> HIDE DEF p
  <2>3. /\ pending'.convergence = "none" /\ pending'.exit = "none"
        /\ pc' \in {"idle", "start"} /\ (Armed(life') => Armed(life))
        /\ pc' = "start" => ~gate'.retry
        /\ Blocked' => Blocked
    BY <1>1, <2>1, <2>2, ApplyDefers DEF Blocked
  <2>4. pc = "resume"
    BY <1>4 DEF ResumeIntent
  <2>5. Blocked => ~Armed(life)
    BY <2>4 DEF ConvergenceIsKept
  <2> QED BY <1>1, <2>3, <2>5, NoneWaits DEF Exited
<1>5. CASE ResumeExit
  <2>1. /\ pending'.convergence = pending.convergence /\ pending'.exit = "none"
        /\ pc' \in Exited /\ UNCHANGED <<runtime, gate, life>>
        /\ pending.exit # "none"
    BY <1>1, <1>5 DEF ResumeExit, Pending, Goto, Exited
  <2> QED BY <1>1, <2>1 DEF ConvergenceIsKept, Exited, Blocked
<1>6. CASE ResumeConvergence
  <2> DEFINE p == [pending EXCEPT !.convergence = "none"]
  <2>1. p \in Pending /\ p.convergence = "none" /\ p.exit = "none"
        /\ pending.exit = "none" /\ runtime' = runtime /\ pc = "resume"
    BY <1>1, <1>6 DEF ResumeConvergence, Pending
  <2>2. \/ /\ ~Ready(runtime, gate) \/ gate.retry
           /\ pending' = pending /\ life' = life /\ pc' = "idle"
        \/ /\ Ready(runtime, gate) /\ pending' = p /\ life' = life
           /\ gate' = gate /\ pc' \in {"idle", "start"}
        \/ /\ Ready(runtime, gate)
           /\ \E n : BeginStop(FALSE, runtime, gate, p, life, n)
    BY <1>6 DEF ResumeConvergence, Return, Call
  <2> HIDE DEF p
  <2>3. CASE ~Ready(runtime, gate) \/ gate.retry
    <3>1. pending' = pending /\ life' = life /\ pc' = "idle"
          /\ gate' = gate
      BY <1>6, <2>3 DEF ResumeConvergence, Return
    <3>2. pending.convergence = "none"
      BY <2>1, <2>3 DEF ConvergenceIsKept, Ready, Unfinalized, Blocked
    <3>3. Blocked' => ~Armed(life')
      BY <2>1, <3>1 DEF ConvergenceIsKept, Blocked
    <3> QED BY <1>1, <2>1, <3>1, <3>2, <3>3, NoneWaits DEF Exited
  <2>4. CASE Ready(runtime, gate) /\ ~gate.retry
    <3>1. ~runtime'.marker
      BY <2>1, <2>4 DEF Ready, Unfinalized
    <3>2. /\ pending'.convergence = "none" /\ pending'.exit = "none"
          /\ pc' \in {"idle", "start"}
      BY <1>1, <2>1, <2>2, <2>4, BeginStopDefers DEF Ready, Unfinalized
    <3> QED BY <1>1, <3>1, <3>2, NoneWaits DEF Blocked, Exited
  <2> QED BY <2>3, <2>4
<1> QED BY <1>2, <1>3, <1>4, <1>5, <1>6 DEF RetryStep

LEMMA PollKeepsConvergence ==
  ASSUME IInv, ConvergenceIsKept, PollStep
  PROVE  ConvergenceIsKept'
<1>1. TypeOK /\ gate \in Gate /\ pending \in Pending /\ life \in Life
      /\ runtime \in RuntimeState
  BY DEF IInv, TypeOK
<1>2. /\ pending.convergence = "none" /\ pending.exit = "none"
      /\ ~runtime.marker
  BY WhereNoneWaits DEF PollStep, Polling, ConfirmIdentity, PollChildExit,
     PollPendingGroup, IdentityChanges, AttachedDisappears,
     AfterExplicitExit, AfterUnexpectedExit, Exited
<1>3. ~credentials.in_flight /\ credentials' = credentials
      /\ ~runtime'.marker
  BY <1>1, <1>2 DEF ConvergenceIsKept, PollStep, ConfirmIdentity, PollChildExit,
     PollPendingGroup, PendingGroup, IdentityChanges, AttachedDisappears,
     MarkUnverified, CompleteExit, AfterExplicitExit, AfterUnexpectedExit,
     PollVars, RuntimeState
<1>4. CASE CompleteExit
  <2>1. PICK o \in Outcomes :
          /\ o # "Uncertain" => pending' = pending
          /\ o = "Uncertain" => \E e : pending' = [pending EXCEPT !.exit = e]
          /\ \/ o = "Durable" /\ pc' \in Exited
             \/ /\ o # "Durable" /\ pc' = "idle"
                /\ life' = [Disarmed([life EXCEPT !.stop_deadline = FALSE])
                              EXCEPT !.server_state = "Failed"]
    BY <1>4 DEF CompleteExit, Goto, Return, Exited
  <2>2. o # "Durable" => ~Armed(life')
    BY <1>1, <2>1 DEF Disarmed, Life, Armed
  <2>3. pending'.convergence = "none"
        /\ (o # "Uncertain" => pending'.exit = "none")
    BY <1>1, <1>2, <2>1 DEF Pending
  <2> QED BY <1>3, <2>1, <2>2, <2>3 DEF ConvergenceIsKept, Blocked, Exited
<1>5. CASE ~CompleteExit
  <2>1. pending' = pending /\ pc' \in {"idle", "start"}
    BY <1>5 DEF PollStep, ConfirmIdentity, PollChildExit, PollPendingGroup,
       PendingGroup, IdentityChanges, AttachedDisappears, AfterExplicitExit,
       AfterUnexpectedExit, Return, Call
  <2> QED BY <1>2, <1>3, <2>1, NoneWaits DEF Blocked, Exited
<1> QED BY <1>4, <1>5

LEMMA TimerKeepsConvergence ==
  ASSUME IInv, ConvergenceIsKept, TimerStep
  PROVE  ConvergenceIsKept'
<1>1. TypeOK /\ gate \in Gate /\ pending \in Pending /\ life \in Life
      /\ runtime \in RuntimeState
  BY DEF IInv, TypeOK
<1>2. ~credentials.in_flight /\ credentials' = credentials
  BY DEF ConvergenceIsKept, TimerStep, CheckUnverified, RestartDue,
     PortRetryDue, StopTimesOut, PollVars
<1>3. CASE CheckUnverified
  <2>1. PICK o \in Outcomes : Discard(o)
    BY <1>3 DEF CheckUnverified
  <2>2. /\ pending.convergence = "none" /\ pending.exit = "none"
        /\ ~runtime.marker /\ ~Managed
    BY <1>3, WhereNoneWaits DEF CheckUnverified, UnverifiedGone
  <2>3. ~runtime'.marker /\ pending'.exit = "none" /\ ~Managed'
    BY <1>1, <1>3, <2>1, <2>2 DEF Discard, RuntimeState, Pending,
       CheckUnverified, Managed
  <2>4. pending'.convergence # "none" => gate'.retry /\ ~unverified'
                                         /\ o = "Uncertain"
    BY <1>1, <2>1, <2>2 DEF Discard, SavedGate, Gate
  <2>5. pc' \in {"idle", "start"}
    BY <1>3 DEF CheckUnverified, Return, Call
  <2> QED BY <1>2, <2>3, <2>4, <2>5
          DEF ConvergenceIsKept, Blocked, Free, Exited
<1>4. CASE RestartDue \/ PortRetryDue
  <2>1. UNCHANGED <<storeVars, ownVars>> /\ pc = "idle" /\ pc' = "start"
        /\ Armed(life)
    BY <1>4 DEF RestartDue, PortRetryDue, Call, Armed
  <2>2. (Free' <=> Free) /\ UNCHANGED <<pending, gate, runtime>>
    BY <2>1 DEF storeVars, ownVars, Free, Managed
  <2> QED BY <1>2, <2>1, <2>2 DEF ConvergenceIsKept, Blocked, Exited
<1>5. CASE StopTimesOut
  <2>1. UNCHANGED <<pending, gate, runtime>> /\ pc = "idle" /\ pc' = "idle"
        /\ (Free' <=> Free)
    BY <1>5 DEF StopTimesOut, storeVars, ownVars, Free, Managed
  <2>2. Armed(life') => Armed(life)
    BY <1>1, <1>5 DEF StopTimesOut, In, Life, Armed
  <2> QED BY <1>2, <2>1, <2>2, SameWaits DEF Blocked, Exited
<1> QED BY <1>3, <1>4, <1>5 DEF TimerStep

LEMMA BootKeepsConvergence ==
  ASSUME IInv, ConvergenceIsKept, BootStep
  PROVE  ConvergenceIsKept'
<1>1. TypeOK /\ gate \in Gate /\ pending \in Pending /\ life \in Life
      /\ runtime \in RuntimeState
  BY DEF IInv, TypeOK
<1>2. ~credentials.in_flight /\ credentials' = credentials
  BY DEF ConvergenceIsKept, BootStep, Boot, BootUnreadable, Inspect,
     InspectMatches, Probe, Converge, BootVars, ReattachVars, PollVars
<1>3. CASE Boot \/ BootUnreadable
  <2>1. pc = "down" /\ pending' = pending
        /\ pc' \in {"idle", "reattach", "converge"}
        /\ \/ life' = life \/ life' = In("Failed")
    BY <1>3 DEF Boot, BootUnreadable, BootVars, Return, Goto
  <2>2. ~Armed(life')
    BY <1>1, <2>1 DEF IInv, StartIsFree, In, Life, Armed
  <2> QED BY <1>2, <2>1, <2>2, WhereNoneWaits, NoneWaits DEF Exited
<1>4. CASE Inspect \/ InspectMatches \/ Probe
  <2>1. /\ pending.convergence = "none" /\ pending.exit = "none"
        /\ ~runtime.marker /\ Free
    BY <1>4, WhereNoneWaits DEF Inspect, InspectMatches, Probe, IInv,
       StartIsFree
  <2>2. pc' \in {"probe", "converge"}
    BY <1>4 DEF Inspect, InspectMatches, Probe, Goto
  <2>3. CASE Forget
    <3>1. PICK o \in Outcomes : Discard(o)
      BY <2>3 DEF Forget
    <3>2. ~runtime'.marker /\ pending'.exit = "none"
      BY <1>1, <2>1, <3>1 DEF Discard, RuntimeState, Pending
    <3>3. pending'.convergence # "none" => gate'.retry /\ ~unverified'
                                           /\ o = "Uncertain"
      BY <1>1, <2>1, <3>1 DEF Discard, SavedGate, Gate
    <3>4. ~Managed'
      BY <2>1, <2>3 DEF Forget, Free, Managed
    <3>5. pending'.convergence # "none" => pc' = "converge"
      BY <1>4, <2>1, <2>2 DEF Inspect, InspectMatches, Probe, Goto, storeVars
    <3> QED BY <1>2, <2>2, <3>2, <3>3, <3>4, <3>5
            DEF ConvergenceIsKept, Blocked, Free, Exited
  <2>4. CASE ~Forget
    <3>1. pending' = pending /\ ~runtime'.marker
      BY <1>1, <1>4, <2>1, <2>4 DEF Inspect, InspectMatches, Probe, storeVars,
         Block, MarkUnverified, Attach, RuntimeState
    <3> QED BY <1>2, <2>1, <2>2, <3>1, NoneWaits DEF Blocked, Exited
  <2> QED BY <2>3, <2>4
<1>5. CASE Converge
  <2> DEFINE rs == [runtime EXCEPT !.process = NoRecord]
  <2>1. /\ ~runtime.marker /\ ~rs.marker /\ pending.exit = "none"
        /\ pc = "converge" /\ gate.loaded /\ ~gate.clearReq
        /\ (Free' <=> Free)
    BY <1>1, <1>5, WhereNoneWaits, LoadedWhere DEF Converge, RuntimeState,
       ownVars, Free, Managed, IInv, LaunchIsMarked
  <2>2. CASE Free
    <3>1. /\ runtime' = rs
          /\ \E t : pending' = [pending EXCEPT !.convergence = t]
                    \/ pending' = pending
      BY <1>5, <2>2 DEF Converge, Free
    <3>2. PICK o \in Outcomes :
            /\ gate' = SavedGate(gate, rs, o)
            /\ \/ o = "Durable" /\ pc' = "resume"
               \/ o # "Durable" /\ pc' = "idle"
      BY <1>5, <2>2 DEF Converge, Free, Resumed, Goto, Return
    <3> HIDE DEF rs
    <3>3. pending'.exit = "none"
      BY <1>1, <2>1, <3>1 DEF Pending
    <3>4. /\ o = "Durable" => gate'.loaded /\ gate'.reliable /\ ~gate'.retry
                              /\ ~gate'.clearReq
          /\ o # "Durable" => gate'.retry
      BY <1>1, <2>1, <3>2 DEF SavedGate, Gate, Outcomes
    <3> QED BY <1>2, <2>1, <2>2, <3>1, <3>2, <3>3, <3>4
            DEF ConvergenceIsKept, Blocked, Exited
  <2>3. CASE ~Free
    <3>1. pending.convergence = "none"
      BY <2>3, WhereNoneWaits DEF Free
    <3>2. /\ runtime' = runtime
          /\ \/ pending' = pending /\ pc' = "idle"
             \/ \E n : BeginStop(FALSE, runtime, gate, pending, life, n)
      BY <1>5, <2>3 DEF Converge, Free, Return, storeVars
    <3>3. /\ pending'.convergence = "none" /\ pending'.exit = "none"
          /\ pc' \in {"idle", "start"}
      BY <1>1, <2>1, <3>1, <3>2, BeginStopDefers
    <3> QED BY <1>2, <2>1, <3>2, <3>3, NoneWaits DEF Blocked, Exited
  <2> QED BY <2>2, <2>3
<1> QED BY <1>3, <1>4, <1>5 DEF BootStep

LEMMA UserKeepsConvergence ==
  ASSUME IInv, ConvergenceIsKept, UserStep
  PROVE  ConvergenceIsKept'
<1>1. TypeOK /\ gate \in Gate /\ pending \in Pending /\ life \in Life
      /\ runtime \in RuntimeState /\ ~credentials.in_flight
  BY DEF IInv, TypeOK, ConvergenceIsKept
<1>2. ASSUME NEW c \in Commands, Command(c)
      PROVE  ConvergenceIsKept'
  <2> DEFINE rs == [runtime EXCEPT !.desired = DesiredBy(c)]
             p  == [pending EXCEPT !.intent = "none", !.convergence = "none"]
  <2>1. PICK o \in Outcomes, n \in 0..1 :
          \/ /\ o = "Durable" /\ runtime' = rs
             /\ Apply(c, rs, SavedGate(gate, rs, o), p, n)
          \/ /\ o # "Durable" /\ gate' = SavedGate(gate, rs, o)
             /\ runtime' \in {runtime, rs} /\ life' = life /\ pc' = "idle"
             /\ \/ pending' = pending
                \/ pending' = [pending EXCEPT !.intent = c,
                                              !.convergence = "none"]
    BY <1>2 DEF Command, Return
  <2>2. /\ rs.marker = runtime.marker /\ p \in Pending /\ pc = "idle"
        /\ (Free' <=> Free) /\ credentials' = credentials
    BY <1>1, <1>2 DEF RuntimeState, Pending, Command, ownVars, Free, Managed
  <2> HIDE DEF rs, p
  <2>3. CASE o = "Durable"
    <3> DEFINE g == SavedGate(gate, rs, o)
    <3>1. /\ g \in Gate /\ ~g.retry
          /\ g.clearReq = (gate.clearReq /\ runtime.marker)
      BY <1>1, <2>2, <2>3 DEF SavedGate, Gate
    <3>2. Apply(c, rs, g, p, n) /\ runtime' = rs
      BY <2>1, <2>3
    <3> HIDE DEF g
    <3>3. /\ pending'.convergence # "none" =>
               g.clearReq /\ gate'.retry /\ pc' = "idle"
          /\ pc' = "start" => gate' = g
          /\ gate'.clearReq = g.clearReq /\ pending'.exit = "none"
          /\ pc' \in {"idle", "start"} /\ (Armed(life') => Armed(life))
      BY <1>1, <2>2, <3>1, <3>2, ApplyDefers
    <3>4. runtime.marker => Free
      BY DEF IInv, LaunchIsMarked
    <3>5. Blocked' => Blocked
      BY <2>2, <3>1, <3>2, <3>3 DEF Blocked
    <3> QED BY <1>1, <2>2, <3>1, <3>2, <3>3, <3>4, <3>5
            DEF ConvergenceIsKept, Blocked, Exited
  <2>4. CASE o # "Durable"
    <3>1. gate'.retry /\ gate'.clearReq = gate.clearReq
      BY <1>1, <2>1, <2>4 DEF SavedGate, Gate, Outcomes
    <3>2. /\ pending'.exit = pending.exit
          /\ pending'.convergence \in {pending.convergence, "none"}
      BY <1>1, <2>1, <2>4 DEF Pending
    <3>3. runtime'.marker = runtime.marker
      BY <2>1, <2>2, <2>4
    <3> QED BY <1>1, <2>1, <2>2, <2>4, <3>1, <3>2, <3>3
            DEF ConvergenceIsKept, Blocked, Exited
  <2> QED BY <2>3, <2>4
<1>3. CASE RequestStart \/ RequestStop \/ RequestRestart
  BY <1>2, <1>3 DEF RequestStart, RequestStop, RequestRestart, Commands
<1>4. CASE ContinueStop \/ ForceStop
  <2>1. UNCHANGED <<pending, gate, runtime, credentials>> /\ pc = "idle"
        /\ pc' = "idle" /\ (Free' <=> Free)
    BY <1>4 DEF ContinueStop, ForceStop, storeVars, ownVars, Free, Managed
  <2>2. Armed(life') => Armed(life)
    BY <1>1, <1>4 DEF ContinueStop, ForceStop, In, Life, Armed
  <2> QED BY <1>1, <2>1, <2>2, SameWaits DEF Blocked, Exited
<1> QED BY <1>3, <1>4 DEF UserStep

LEMMA RestKeepsConvergence ==
  ASSUME "keychain" \notin Faults, IInv, ConvergenceIsKept,
         HealthStep \/ CredentialStep \/ OsStep
  PROVE  ConvergenceIsKept'
<1>1. ~credentials.in_flight /\ TypeOK /\ runtime \in RuntimeState
  BY DEF ConvergenceIsKept, IInv, TypeOK
<1>2. CASE HealthStep
  <2>1. Managed /\ pc = "idle" /\ pc' = "idle" /\ pending' = pending
        /\ credentials' = credentials
    BY <1>2 DEF HealthStep, StableRun, HealthyAnswer, UnhealthyAnswer,
       StaleHealthyAnswer, HealthApplicable, storeVars, PollVars
  <2>2. runtime'.marker = runtime.marker
    BY <1>1, <1>2 DEF HealthStep, StableRun, HealthyAnswer, UnhealthyAnswer,
       StaleHealthyAnswer, storeVars, RuntimeState
  <2> QED BY <1>1, <2>1, <2>2, WhereNoneWaits, NoneWaits DEF Blocked, Exited
<1>3. CASE CredentialStep
  <2>1. AccessNotNeeded
    BY <1>1, <1>3 DEF CredentialStep, AccessLost, RequestRead,
       PasswordApplied, ReadWithoutPassword
  <2>2. UNCHANGED <<storeVars, ownVars, life, pc>>
        /\ credentials'.in_flight = credentials.in_flight
    BY <1>1, <2>1 DEF AccessNotNeeded, CredVars, TypeOK
  <2> QED BY <1>1, <2>2 DEF storeVars, ownVars, ConvergenceIsKept, Blocked,
          Free, Managed
<1>4. CASE AgentExits \/ PowerLoss
  <2>1. /\ pending' = NothingPending /\ life' = InitialLife /\ pc' = "down"
        /\ credentials' = [credentials EXCEPT !.in_flight = FALSE]
    BY <1>4 DEF AgentExits, PowerLoss, MemoryLost, Goto
  <2>2. ~credentials'.in_flight
    BY <1>1, <2>1 DEF TypeOK
  <2> QED BY <2>1, <2>2, NoneWaits DEF NothingPending, InitialLife, Armed, Exited
<1>5. CASE OsStep /\ ~AgentExits /\ ~PowerLoss
  <2>1. UNCHANGED AgentVars
    BY <1>5 DEF OsStep, LeaderExits, ResidueExits, LeaderEscapes, PidReused,
       ForeignExits
  <2> QED BY <2>1 DEF AgentVars, storeVars, ownVars, ConvergenceIsKept,
          Blocked, Free, Managed
<1> QED BY <1>2, <1>3, <1>4, <1>5

(* A start or a stop that waits for a durable save is never left behind,   *)
(* as long as no read of a password is answered while an exit waits too.   *)
THEOREM ConvergenceIsScheduledHolds ==
  ASSUME "keychain" \notin Faults
  PROVE  Spec => []ConvergenceIsScheduled
<1>1. Init => ConvergenceIsKept
  BY DEF Init, NothingPending, InitialLife, Unloaded, Default,
     ConvergenceIsKept, Armed, Exited, Blocked
<1>2. IInv /\ ConvergenceIsKept /\ [Next]_vars => ConvergenceIsKept'
  <2>1. ConvergenceIsKept /\ UNCHANGED vars => ConvergenceIsKept'
    BY DEF vars, storeVars, ownVars, ConvergenceIsKept, Blocked, Free, Managed
  <2> QED BY <2>1, StartKeepsConvergence, RetryKeepsConvergence,
             PollKeepsConvergence, TimerKeepsConvergence,
             BootKeepsConvergence, UserKeepsConvergence, RestKeepsConvergence
          DEF Next
<1>3. ConvergenceIsKept => ConvergenceIsScheduled
  BY DEF ConvergenceIsKept, ConvergenceIsScheduled
<1> QED BY <1>1, <1>2, <1>3, Invariant, PTL DEF Spec
=============================================================================

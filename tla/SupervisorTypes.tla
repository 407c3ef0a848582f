-------------------------- MODULE SupervisorTypes ---------------------------
(***************************************************************************)
(* The type theorem of Supervisor, for every set of instances, every bound *)
(* and every set of faults: one lemma per helper, one per group of steps.  *)
(***************************************************************************)
EXTENDS Supervisor, TLAPS

(* The types of what one save leaves behind.                               *)
LEMMA SavedTypes ==
  ASSUME NEW d \in Disk, NEW g \in Gate, NEW rs \in RuntimeState, NEW o
  PROVE  SavedDisk(d, rs, o) \in Disk /\ SavedGate(g, rs, o) \in Gate
  BY DEF SavedDisk, SavedGate, Disk, Gate

LEMMA WriteTypes ==
  ASSUME TypeOK, NEW rs \in RuntimeState, NEW o, NEW n \in Nat,
         Write(rs, o, n)
  PROVE  disk' \in Disk /\ budget' \in Budget
<1>1. disk' \in Disk
  BY SavedTypes DEF Write, TypeOK
<1>2. Cost(o) \in Nat
  BY DEF Cost
<1>3. budget' \in Budget
  BY <1>2, BoundsAssumption DEF Write, Spend, TypeOK, Budget
<1> QED BY <1>1, <1>3

LEMMA NotifyTypes ==
  ASSUME TypeOK, NEW e, NEW rs \in RuntimeState, NEW g \in Gate,
         NEW n \in Nat, Notify(e, rs, g, n)
  PROVE  disk' \in Disk /\ budget' \in Budget /\ gate' \in Gate
  BY WriteTypes, SavedTypes DEF Notify

LEMMA AttemptTypes ==
  /\ 0 \in Attempts
  /\ \A n \in Attempts : n < MaxAttempts => n + 1 \in Attempts
  /\ \A n \in Attempts : n >= MaxAttempts \/ n < MaxAttempts
  BY BoundsAssumption DEF Attempts

LEMMA RescheduledTypes ==
  ASSUME NEW l \in Life
  PROVE  Rescheduled(l) \in Life /\ RecoveryFailed(l) \in Life
<1>1. RecoveryFailed(l) \in Life
  BY DEF RecoveryFailed, Life, ServerStates
<1>2. CASE Exhausted(l)
  BY <1>1, <1>2 DEF Rescheduled
<1>3. CASE ~Exhausted(l)
  <2>1. l.attempts \in Attempts /\ l.attempts + 1 \in Attempts
    BY <1>3, AttemptTypes DEF Life, Exhausted
  <2>2. QED BY <1>1, <1>3, <2>1 DEF Rescheduled, Life, ServerStates
<1> QED BY <1>2, <1>3

LEMMA BeginStopTypes ==
  ASSUME TypeOK, NEW r \in BOOLEAN, NEW rs, NEW g \in Gate, NEW p \in Pending,
         NEW l \in Life, NEW n, BeginStop(r, rs, g, p, l, n)
  PROVE  /\ n \in {0, 1} /\ life' \in Life /\ gate' \in Gate
         /\ pending' \in Pending /\ pc' \in PCs
         /\ trigger' \in Triggers \cup {"none"}
<1>1. /\ [g EXCEPT !.retry = @ \/ g.clearReq] \in Gate
      /\ \A c \in Commands : [p EXCEPT !.intent = c] \in Pending
      /\ \A c \in Triggers \cup {"Stop"} :
           [p EXCEPT !.convergence = c] \in Pending
      /\ \A s \in ServerStates : [l EXCEPT !.server_state = s] \in Life
      /\ [l EXCEPT !.server_state = "Stopping", !.stop_deadline = TRUE,
                   !.restart_after_stop = r] \in Life
  BY DEF Gate, Pending, Life, ServerStates
<1>2. {"Stop", "Restart"} \subseteq Commands
      /\ {"AfterStop"} \subseteq Triggers
      /\ {"Stopped", "Failed"} \subseteq ServerStates
      /\ {"idle", "start"} \subseteq PCs
  BY DEF Commands, Triggers, ServerStates, PCs
<1>3. n \in {0, 1}
  BY DEF BeginStop, Signal
<1>4. pc' \in PCs /\ trigger' \in Triggers \cup {"none"}
  BY <1>2 DEF BeginStop, Return, Call
<1>5. life' \in Life
  BY <1>1, <1>2 DEF BeginStop
<1>6. gate' \in Gate /\ pending' \in Pending
  BY <1>1, <1>2 DEF BeginStop
<1> QED BY <1>3, <1>4, <1>5, <1>6

LEMMA ApplyTypes ==
  ASSUME TypeOK, NEW c, NEW rs, NEW g \in Gate, NEW p \in Pending, NEW n,
         Apply(c, rs, g, p, n)
  PROVE  /\ n \in {0, 1} /\ life' \in Life /\ gate' \in Gate
         /\ pending' \in Pending /\ pc' \in PCs
         /\ trigger' \in Triggers \cup {"none"}
<1>1. Superseded(p) \in Pending
  BY DEF Superseded, Pending
<1>2. CASE ApplyStart(g, p, n)
  BY <1>1, <1>2, AttemptTypes
     DEF ApplyStart, TypeOK, Life, In, Disarmed, Return, Call, PCs, Triggers,
         ServerStates
<1>3. CASE ApplyStop(rs, g, p, n)
  <2>1. [Disarmed(life) EXCEPT !.restart_after_stop = FALSE,
                               !.group_cleanup_recovery = FALSE] \in Life
    BY DEF TypeOK, Life, Disarmed
  <2> QED BY <1>1, <1>3, <2>1, BeginStopTypes DEF ApplyStop
<1>4. CASE ApplyRestart(rs, g, p, n)
  <2> DEFINE l == [Disarmed(life) EXCEPT !.restart_after_stop = Managed,
                                  !.group_cleanup_recovery = FALSE,
                                  !.attempts = 0]
  <2>1. l \in Life
    BY AttemptTypes DEF TypeOK, Life, Disarmed, Managed
  <2>2. CASE BeginStop(TRUE, rs, g, Superseded(p), l, n)
    <3> HIDE DEF l
    <3> QED BY <1>1, <2>1, <2>2, BeginStopTypes
  <2>3. [l EXCEPT !.restart_after_stop = FALSE, !.server_state = "Failed"]
          \in Life
    <3> HIDE DEF l
    <3> QED BY <2>1 DEF Life, ServerStates
  <2>4. CASE ~BeginStop(TRUE, rs, g, Superseded(p), l, n)
    BY <1>1, <1>4, <2>1, <2>3, <2>4
       DEF ApplyRestart, Return, Call, PCs, Triggers
  <2> QED BY <2>2, <2>4
<1> QED BY <1>2, <1>3, <1>4 DEF Apply

LEMMA LifeTypes ==
  ASSUME NEW l \in Life
  PROVE  /\ \A s \in ServerStates : [l EXCEPT !.server_state = s] \in Life
         /\ Disarmed(l) \in Life
         /\ \A b \in BOOLEAN : /\ [l EXCEPT !.restart_after_stop = b] \in Life
                             /\ [l EXCEPT !.group_cleanup_recovery = b] \in Life
                             /\ [l EXCEPT !.stop_deadline = b] \in Life
                             /\ [l EXCEPT !.next_restart = b] \in Life
                             /\ [l EXCEPT !.incident = b] \in Life
         /\ \A t \in Triggers \cup {"none"} : [l EXCEPT !.port_retry = t] \in Life
         /\ \A n \in Attempts : [l EXCEPT !.attempts = n] \in Life
  BY DEF Life, Disarmed

LEMMA PortRetryTypes ==
  ASSUME TypeOK, NEW t \in Triggers \cup {"none"}
  PROVE  PortRetry(t) \in Life
  BY DEF TypeOK, PortRetry, Life, ServerStates

LEMMA RuntimeTypes ==
  ASSUME TypeOK
  PROVE  /\ \A b \in BOOLEAN : [runtime EXCEPT !.marker = b] \in RuntimeState
         /\ \A r \in ProcessRecord : [runtime EXCEPT !.process = r] \in RuntimeState
         /\ \A d \in Desired : [runtime EXCEPT !.desired = d] \in RuntimeState
         /\ NoRecord \in ProcessRecord
         /\ \A p \in Process : Record(p) \in ProcessRecord
  BY DEF TypeOK, RuntimeState, ProcessRecord, NoRecord, Record, Process

USE DEF osVars, storeVars, ownVars

LEMMA ProcessTypes ==
  /\ NoProcess \in Process
  /\ \A i \in Inst, u \in BOOLEAN, c \in {"none", "signalled", "refused"},
        b \in {"none", "active", "stale"} : Child(i, u, c, b) \in Process
  /\ \A r \in ProcessRecord, b \in {"none", "active", "stale"} :
        Attached(r, b) \in Process
  BY DEF NoProcess, Child, Attached, Process, ProcessRecord

LEMMA SpawnTypes ==
  ASSUME TypeOK, NEW i \in Inst, NEW as \in Process,
         NEW state \in {"alive", "exited"}, NEW left \in BOOLEAN,
         Spawn(i, as, state, left), budget' \in Budget
  PROVE  TypeOK'
<1>1. leader' \in [Inst -> {"gone", "alive", "exited", "reused"}]
  BY DEF Spawn, TypeOK
<1>2. residue' \in [Inst -> BOOLEAN] /\ escaped' \in [Inst -> BOOLEAN]
  BY DEF Spawn, TypeOK
<1> QED BY <1>1, <1>2 DEF Spawn, TypeOK, PCs

LEMMA StartTypes == TypeOK /\ StartStep => TypeOK'
<1> SUFFICES ASSUME TypeOK, StartStep PROVE TypeOK'
  OBVIOUS
<1>1. CASE StartDeferred
  BY <1>1, LifeTypes DEF StartDeferred, TypeOK, StartVars, Return, In, Pending, Gate, PCs, ServerStates
<1>2. ASSUME NEW n \in {0, 1}, StartRefusedWith(n) PROVE TypeOK'
  BY <1>2, LifeTypes, RescheduledTypes, NotifyTypes
     DEF StartRefusedWith, TypeOK, StartVars, Return, In, PCs, ServerStates
<1>3. CASE StartWithoutConfig
  BY <1>2, <1>3 DEF StartWithoutConfig
<1>4. CASE StartWithoutAccess
  BY <1>2, <1>4 DEF StartWithoutAccess
<1>5. CASE StartAwaitsRead
  BY <1>5 DEF StartAwaitsRead, TypeOK, StartVars, Return, PCs
<1>6. CASE BeginLaunch
  <2> DEFINE rs == [runtime EXCEPT !.marker = TRUE]
  <2>1. rs \in RuntimeState
    BY RuntimeTypes
  <2>2. PICK o \in Outcomes :
          /\ Write(rs, o, 0)
          /\ gate' = [SavedGate(gate, rs, o) EXCEPT
                        !.clearReq = @ \/ o = "Uncertain"]
    BY <1>6 DEF BeginLaunch
  <2>3. disk' \in Disk /\ budget' \in Budget
    BY <2>1, <2>2, WriteTypes
  <2>4. SavedGate(gate, rs, o) \in Gate
    BY <2>1, SavedTypes DEF TypeOK
  <2>5. gate' \in Gate
    BY <2>2, <2>4 DEF Gate
  <2>6. runtime' \in RuntimeState /\ pending' \in Pending /\ life' \in Life
    BY <1>6, <2>1, LifeTypes
       DEF BeginLaunch, TypeOK, Pending, In, ServerStates
  <2> QED BY <1>6, <2>3, <2>5, <2>6 DEF BeginLaunch, StartVars, TypeOK, Return, PCs
<1>7. CASE SpawnConfirmed
  <2>1. PICK i \in Inst : Spawn(i, Child(i, FALSE, "none", "active"), "alive", FALSE)
    BY <1>7 DEF SpawnConfirmed
  <2>2. budget' \in Budget
    BY <1>7 DEF SpawnConfirmed, TypeOK
  <2>3. Child(i, FALSE, "none", "active") \in Process
    BY ProcessTypes
  <2> QED BY <2>1, <2>2, <2>3, SpawnTypes
<1>8. CASE SpawnSurvivor
  <2>1. budget' \in Budget
    BY <1>8, BoundsAssumption DEF SpawnSurvivor, Spend, Budget, TypeOK
  <2>2. \E i \in Inst, u \in BOOLEAN, c \in {"none", "signalled", "refused"},
           state \in {"alive", "exited"}, left \in BOOLEAN :
          Spawn(i, Child(i, u, c, "none"), state, left)
    BY <1>8 DEF SpawnSurvivor
  <2> QED BY <2>1, <2>2, SpawnTypes, ProcessTypes
<1>9. CASE SpawnFails
  <2> DEFINE rs == [runtime EXCEPT !.marker = FALSE]
             g  == [gate EXCEPT !.clearReq = TRUE]
             failed == [PortRetry("none") EXCEPT !.server_state = "Failed"]
  <2>1. rs \in RuntimeState /\ g \in Gate
    BY RuntimeTypes DEF TypeOK, Gate
  <2>2. PICK error \in {"AddrInUse", "AddrNotAvailable", "Other"},
             o \in MetadataOutcomes, m \in SaveOutcomes :
          /\ Write(rs, o, 1 + Cost(m))
          /\ gate' = SavedGate(SavedGate(g, rs, o), rs, m)
          /\ life' \in {failed, PortRetry(trigger), AfterSpawnError(error, trigger)}
    BY <1>9 DEF SpawnFails
  <2>3. 1 + Cost(m) \in Nat
    BY DEF Cost
  <2>4. disk' \in Disk /\ budget' \in Budget
    BY <2>1, <2>2, <2>3, WriteTypes
  <2>5. gate' \in Gate
    BY <2>1, <2>2, SavedTypes DEF TypeOK
  <2>6. failed \in Life /\ PortRetry(trigger) \in Life
    BY PortRetryTypes, LifeTypes DEF TypeOK, ServerStates
  <2>7. AfterSpawnError(error, trigger) \in Life
    BY <2>6, PortRetryTypes, LifeTypes, RescheduledTypes
       DEF AfterSpawnError, ServerStates
  <2>8. life' \in Life
    BY <2>2, <2>6, <2>7
  <2> QED BY <1>9, <2>1, <2>4, <2>5, <2>8
          DEF SpawnFails, StartVars, TypeOK, Return, PCs
<1>10. CASE CommitSpawned
  <2> DEFINE rs == [runtime EXCEPT !.process = Record(spawned), !.marker = FALSE]
             g  == [gate EXCEPT !.clearReq = TRUE]
             l  == IF spawned.basis = "active"
                     THEN [PortRetry("none") EXCEPT !.group_cleanup_recovery = FALSE]
                     ELSE life
  <2>1. rs \in RuntimeState /\ g \in Gate
    BY DEF TypeOK, RuntimeState, ProcessRecord, Record, Process, Gate
  <2>2. l \in Life
    BY PortRetryTypes, LifeTypes DEF TypeOK
  <2>3. /\ disk' \in Disk /\ budget' \in Budget
        /\ gate' \in Gate /\ life' \in Life
    <3>1. PICK o \in MetadataOutcomes :
            /\ Write(rs, o, 0)
            /\ gate' = SavedGate(g, rs, o)
            /\ life' \in {[l EXCEPT !.server_state = "Starting"],
                         [l EXCEPT !.server_state = "Failed"]}
      BY <1>10 DEF CommitSpawned
    <3> HIDE DEF rs, g, l
    <3> QED BY <2>1, <2>2, <3>1, WriteTypes, SavedTypes, LifeTypes
            DEF ServerStates, TypeOK
  <2> QED BY <1>10, <2>1, <2>3, ProcessTypes
          DEF CommitSpawned, TypeOK, Return, PCs
<1> QED BY <1>1, <1>3, <1>4, <1>5, <1>6, <1>7, <1>8, <1>9, <1>10 DEF StartStep

LEMMA ControlTypes ==
  /\ \A p \in PCs : Goto(p) => pc' \in PCs /\ trigger' \in Triggers \cup {"none"}
  /\ Return => pc' \in PCs /\ trigger' \in Triggers \cup {"none"}
  /\ \A t \in Triggers : Call(t) => pc' \in PCs /\ trigger' \in Triggers \cup {"none"}
  BY DEF Goto, Return, Call, PCs

LEMMA SpendTypes ==
  ASSUME TypeOK, NEW n \in Nat, Spend(n)
  PROVE  budget' \in Budget
  BY BoundsAssumption DEF Spend, TypeOK, Budget

LEMMA RetryTypes == TypeOK /\ RetryStep => TypeOK'
<1> SUFFICES ASSUME TypeOK, RetryStep PROVE TypeOK'
  OBVIOUS
<1>1. CASE RetrySave
  <2>1. runtime \in RuntimeState /\ gate \in Gate
    BY DEF TypeOK
  <2>2. disk' \in Disk /\ budget' \in Budget /\ gate' \in Gate
    BY <1>1, <2>1, WriteTypes, SavedTypes DEF RetrySave
  <2>3. pc' \in PCs /\ trigger' \in Triggers \cup {"none"}
    BY <1>1, ControlTypes DEF RetrySave, Resumed, PCs
  <2> QED BY <1>1, <2>2, <2>3 DEF RetrySave, TypeOK
<1>2. CASE UnwindMarker
  <2>1. gate \in Gate /\ [runtime EXCEPT !.marker = FALSE] \in RuntimeState
    BY RuntimeTypes DEF TypeOK
  <2>2. disk' \in Disk /\ budget' \in Budget /\ gate' \in Gate
    BY <1>2, <2>1, WriteTypes, SavedTypes DEF UnwindMarker
  <2>3. pc' \in PCs /\ trigger' \in Triggers \cup {"none"}
    BY <1>2, ControlTypes DEF UnwindMarker, Resumed, PCs
  <2> QED BY <1>2, <2>1, <2>2, <2>3 DEF UnwindMarker, TypeOK
<1>3. CASE ResumeIntent
  <2>1. [pending EXCEPT !.intent = "none"] \in Pending /\ gate \in Gate
    BY DEF TypeOK, Pending
  <2>2. PICK n \in 0..1 :
          /\ Apply(pending.intent, runtime, gate,
                   [pending EXCEPT !.intent = "none"], n)
          /\ Spend(n)
    BY <1>3 DEF ResumeIntent
  <2>3. /\ life' \in Life /\ gate' \in Gate /\ pending' \in Pending
        /\ pc' \in PCs /\ trigger' \in Triggers \cup {"none"}
    BY <2>1, <2>2, ApplyTypes
  <2>4. budget' \in Budget
    BY <2>2, SpendTypes
  <2> QED BY <1>3, <2>3, <2>4 DEF ResumeIntent, TypeOK
<1>4. CASE ResumeExit
  BY <1>4 DEF ResumeExit, TypeOK, Pending, Goto, PCs
<1>5. CASE ResumeConvergence
  <2> DEFINE p == [pending EXCEPT !.convergence = "none"]
  <2>1. p \in Pending /\ gate \in Gate /\ life \in Life
    BY DEF TypeOK, Pending
  <2>2. CASE \E n \in 0..1 : BeginStop(FALSE, runtime, gate, p, life, n) /\ Spend(n)
    <3>1. PICK n \in 0..1 : BeginStop(FALSE, runtime, gate, p, life, n) /\ Spend(n)
      BY <2>2
    <3>2. /\ life' \in Life /\ gate' \in Gate /\ pending' \in Pending
          /\ pc' \in PCs /\ trigger' \in Triggers \cup {"none"}
      BY <2>1, <3>1, BeginStopTypes
    <3>3. budget' \in Budget
      BY <3>1, SpendTypes
    <3> QED BY <1>5, <3>2, <3>3 DEF ResumeConvergence, TypeOK
  <2>3. CASE ~\E n \in 0..1 : BeginStop(FALSE, runtime, gate, p, life, n) /\ Spend(n)
    <3>1. /\ life' = life /\ gate' = gate /\ budget' = budget
          /\ pending' \in {p, pending}
          /\ Return \/ \E t \in Triggers : Call(t)
      BY <1>5, <2>3 DEF ResumeConvergence
    <3> HIDE DEF p
    <3> QED BY <1>5, <2>1, <3>1, ControlTypes DEF ResumeConvergence, TypeOK
  <2> QED BY <2>2, <2>3
<1> QED BY <1>1, <1>2, <1>3, <1>4, <1>5 DEF RetryStep

LEMMA CompleteExitTypes == TypeOK /\ Managed /\ CompleteExit => TypeOK'
<1> SUFFICES ASSUME TypeOK, Managed, CompleteExit PROVE TypeOK'
  OBVIOUS
<1> DEFINE cleared == [runtime EXCEPT !.process = NoRecord]
           kept == IF runtime.process = NoRecord THEN Record(process)
                                                 ELSE runtime.process
           ended == [life EXCEPT !.stop_deadline = FALSE]
           failed == [Disarmed(ended) EXCEPT !.server_state = "Failed"]
<1>1. /\ leader' \in [Inst -> {"gone", "alive", "exited", "reused"}]
      /\ escaped' \in [Inst -> BOOLEAN]
  BY DEF CompleteExit, TypeOK
<1>2. /\ cleared \in RuntimeState
      /\ [runtime EXCEPT !.process = kept] \in RuntimeState
  BY RuntimeTypes DEF TypeOK, RuntimeState
<1>3. ended \in Life /\ failed \in Life
  BY LifeTypes DEF TypeOK, ServerStates
<1>4. \A x \in {"explicit", "unexpected"} : [pending EXCEPT !.exit = x] \in Pending
  BY DEF TypeOK, Pending
<1>5. PICK o \in Outcomes :
        /\ Write(cleared, o, 0)
        /\ gate' = SavedGate(gate, cleared, o)
        /\ runtime' \in {[runtime EXCEPT !.process = kept], cleared}
        /\ unverified' = (o = "Failed")
        /\ pending' \in {pending, [pending EXCEPT !.exit = "explicit"],
                                 [pending EXCEPT !.exit = "unexpected"]}
        /\ life' \in {ended, failed}
        /\ Return \/ Goto("exited_explicit") \/ Goto("exited_unexpected")
  BY DEF CompleteExit
<1> HIDE DEF cleared, kept, ended, failed
<1>6. disk' \in Disk /\ budget' \in Budget /\ gate' \in Gate
  BY <1>2, <1>5, WriteTypes, SavedTypes DEF TypeOK
<1>7. pc' \in PCs /\ trigger' \in Triggers \cup {"none"}
  BY <1>5, ControlTypes DEF PCs
<1>8. runtime' \in RuntimeState /\ pending' \in Pending /\ life' \in Life
  BY <1>2, <1>3, <1>4, <1>5 DEF TypeOK
<1>9. unverified' \in BOOLEAN
  BY <1>5
<1> QED BY <1>1, <1>6, <1>7, <1>8, <1>9, ProcessTypes
        DEF CompleteExit, PollVars, TypeOK

LEMMA PendingGroupTypes ==
  ASSUME TypeOK, NEW c \in {"none", "signalled", "refused"}, NEW n \in {0, 1},
         PendingGroup(c, n)
  PROVE  TypeOK'
<1>1. process' \in Process
  BY DEF PendingGroup, TypeOK, Process
<1>2. life' \in Life
  <2> DEFINE l == [life EXCEPT !.group_cleanup_recovery = TRUE,
                               !.restart_after_stop = FALSE]
  <2>1. l \in Life /\ life \in Life
    BY LifeTypes DEF TypeOK
  <2>2. /\ [life EXCEPT !.server_state = "Failed", !.stop_deadline = FALSE] \in Life
        /\ [l EXCEPT !.server_state = "Stopping", !.stop_deadline = TRUE] \in Life
        /\ [life EXCEPT !.server_state = "Stopping", !.stop_deadline = TRUE] \in Life
    BY <2>1 DEF Life, ServerStates
  <2>3. life' \in {life, l,
          [life EXCEPT !.server_state = "Failed", !.stop_deadline = FALSE],
          [l EXCEPT !.server_state = "Stopping", !.stop_deadline = TRUE],
          [life EXCEPT !.server_state = "Stopping", !.stop_deadline = TRUE]}
    BY DEF PendingGroup, In
  <2> HIDE DEF l
  <2> QED BY <2>1, <2>2, <2>3
<1>3. disk' \in Disk /\ budget' \in Budget /\ gate' \in Gate
  <2>1. runtime \in RuntimeState /\ gate \in Gate /\ n \in Nat
    BY DEF TypeOK
  <2> QED BY <2>1, NotifyTypes DEF PendingGroup
<1> QED BY <1>1, <1>2, <1>3, ControlTypes DEF PendingGroup, PollVars, TypeOK

LEMMA MarkUnverifiedTypes ==
  ASSUME TypeOK, NEW r \in ProcessRecord, NEW l \in Life, NEW n \in Nat,
         MarkUnverified(r, l, n)
  PROVE  /\ runtime' \in RuntimeState /\ unverified' \in BOOLEAN
         /\ life' \in Life /\ disk' \in Disk /\ budget' \in Budget
         /\ gate' \in Gate
<1>1. [runtime EXCEPT !.process = r] \in RuntimeState /\ gate \in Gate
  BY RuntimeTypes DEF TypeOK
<1>2. disk' \in Disk /\ budget' \in Budget /\ gate' \in Gate
  BY <1>1, NotifyTypes DEF MarkUnverified
<1>3. life' \in Life
  BY LifeTypes DEF MarkUnverified, ServerStates
<1> QED BY <1>1, <1>2, <1>3 DEF MarkUnverified

LEMMA PollTypes == TypeOK /\ PollStep => TypeOK'
<1> SUFFICES ASSUME TypeOK, PollStep PROVE TypeOK'
  OBVIOUS
<1>1. CASE ConfirmIdentity
  <2> DEFINE p == [process EXCEPT !.unconfirmed = FALSE]
             rs == [runtime EXCEPT !.process = Record(p)]
  <2>1. p \in Process
    BY DEF TypeOK, Process
  <2>2. rs \in RuntimeState /\ gate \in Gate
    BY <2>1, RuntimeTypes DEF TypeOK
  <2>3. PICK o : /\ Write(rs, o, 0)
                 /\ gate' = SavedGate(gate, rs, o)
                 /\ life' \in {life, In("Failed")}
    BY <1>1 DEF ConfirmIdentity
  <2>4. disk' \in Disk /\ budget' \in Budget /\ gate' \in Gate
    BY <2>2, <2>3, WriteTypes, SavedTypes
  <2>5. life' \in Life
    BY <2>3, LifeTypes DEF In, ServerStates, TypeOK
  <2> QED BY <1>1, <2>1, <2>2, <2>4, <2>5, ControlTypes
          DEF ConfirmIdentity, PollVars, TypeOK
<1>2. CASE PollChildExit
  BY <1>2, CompleteExitTypes, PendingGroupTypes DEF PollChildExit, Polling
<1>3. CASE PollPendingGroup
  <2>1. process.cleanup \in {"none", "signalled", "refused"}
    BY DEF TypeOK, Process
  <2> QED BY <1>3, <2>1, CompleteExitTypes, PendingGroupTypes
          DEF PollPendingGroup, Polling
<1>4. CASE IdentityChanges
  <2>1. Unconfirmed(process.inst) \in ProcessRecord /\ life \in Life
    BY DEF TypeOK, Process, ProcessRecord, Unconfirmed
  <2>2. /\ runtime' \in RuntimeState /\ unverified' \in BOOLEAN
        /\ life' \in Life /\ disk' \in Disk /\ budget' \in Budget
        /\ gate' \in Gate
    BY <1>4, <2>1, MarkUnverifiedTypes DEF IdentityChanges
  <2>3. [process EXCEPT !.failed = TRUE, !.basis = "none"] \in Process
    BY DEF TypeOK, Process
  <2>4. process' \in Process
    BY <1>4, <2>3, ProcessTypes DEF IdentityChanges
  <2> QED BY <1>4, <2>2, <2>4, ControlTypes DEF IdentityChanges, PollVars, TypeOK
<1>5. CASE AttachedDisappears
  <2> DEFINE l == [life EXCEPT !.stop_deadline = FALSE,
                               !.restart_after_stop = FALSE,
                               !.group_cleanup_recovery = FALSE,
                               !.next_restart = FALSE]
  <2>1. Unconfirmed(process.inst) \in ProcessRecord
    BY DEF TypeOK, Process, ProcessRecord, Unconfirmed
  <2>2. l \in Life
    BY LifeTypes DEF TypeOK
  <2>3. CASE CompleteExit
    BY <1>5, <2>3, CompleteExitTypes DEF AttachedDisappears, Polling
  <2>4. CASE ~CompleteExit
    <3>1. PICK n \in 0..1 : MarkUnverified(Unconfirmed(process.inst), l, n)
      BY <1>5, <2>4 DEF AttachedDisappears
    <3> HIDE DEF l
    <3>2. /\ runtime' \in RuntimeState /\ unverified' \in BOOLEAN
          /\ life' \in Life /\ disk' \in Disk /\ budget' \in Budget
          /\ gate' \in Gate
      BY <2>1, <2>2, <3>1, MarkUnverifiedTypes
    <3> QED BY <1>5, <2>4, <3>2, ControlTypes, ProcessTypes
            DEF AttachedDisappears, PollVars, TypeOK
  <2> QED BY <2>3, <2>4
<1>6. CASE AfterExplicitExit
  <2>1. gate \in Gate /\ runtime \in RuntimeState /\ life \in Life
    BY DEF TypeOK
  <2>2. disk' \in Disk /\ budget' \in Budget /\ gate' \in Gate
    BY <1>6, <2>1, NotifyTypes DEF AfterExplicitExit
  <2>3. life' \in Life
    <3>1. /\ [life EXCEPT !.group_cleanup_recovery = FALSE,
                          !.restart_after_stop = FALSE,
                          !.next_restart = FALSE,
                          !.server_state = "Stopped"] \in Life
          /\ [life EXCEPT !.group_cleanup_recovery = FALSE] \in Life
          /\ [life EXCEPT !.restart_after_stop = FALSE] \in Life
          /\ [life EXCEPT !.server_state = "Stopped"] \in Life
      BY <2>1, LifeTypes DEF ServerStates
    <3> QED BY <1>6, <3>1, RescheduledTypes DEF AfterExplicitExit, In
  <2>4. pc' \in PCs /\ trigger' \in Triggers \cup {"none"}
    BY <1>6, ControlTypes DEF AfterExplicitExit, Triggers
  <2> QED BY <1>6, <2>2, <2>3, <2>4 DEF AfterExplicitExit, PollVars, TypeOK
<1>7. CASE AfterUnexpectedExit
  <2>1. gate \in Gate /\ runtime \in RuntimeState /\ life \in Life
    BY DEF TypeOK
  <2>2. disk' \in Disk /\ budget' \in Budget /\ gate' \in Gate
    BY <1>7, <2>1, NotifyTypes DEF AfterUnexpectedExit
  <2>3. life' \in Life
    BY <1>7, <2>1, RescheduledTypes, LifeTypes
       DEF AfterUnexpectedExit, In, ServerStates
  <2> QED BY <1>7, <2>2, <2>3, ControlTypes
          DEF AfterUnexpectedExit, PollVars, TypeOK
<1> QED BY <1>1, <1>2, <1>3, <1>4, <1>5, <1>6, <1>7 DEF PollStep

LEMMA DiscardTypes ==
  ASSUME TypeOK, NEW o, Discard(o)
  PROVE  /\ runtime' \in RuntimeState /\ unverified' \in BOOLEAN
         /\ disk' \in Disk /\ budget' \in Budget /\ gate' \in Gate
         /\ pending' \in Pending
<1> DEFINE cleared == [runtime EXCEPT !.process = NoRecord]
<1>1. cleared \in RuntimeState /\ gate \in Gate /\ runtime \in RuntimeState
  BY RuntimeTypes DEF TypeOK
<1>2. disk' \in Disk /\ budget' \in Budget /\ gate' \in Gate
  BY <1>1, WriteTypes, SavedTypes DEF Discard
<1>3. pending' \in Pending
  BY DEF Discard, TypeOK, Pending, Triggers
<1>4. runtime' \in RuntimeState /\ unverified' \in BOOLEAN
  BY <1>1 DEF Discard
<1> QED BY <1>2, <1>3, <1>4

LEMMA TimerTypes == TypeOK /\ TimerStep => TypeOK'
<1> SUFFICES ASSUME TypeOK, TimerStep PROVE TypeOK'
  OBVIOUS
<1>1. CASE CheckUnverified
  <2> DEFINE fresh == [life EXCEPT !.attempts = 0, !.next_restart = FALSE]
  <2>1. /\ fresh \in Life /\ In("Failed") \in Life /\ In("Stopped") \in Life
        /\ [fresh EXCEPT !.restart_after_stop = FALSE] \in Life
    BY LifeTypes, AttemptTypes DEF TypeOK, In, ServerStates
  <2>2. life' \in Life
    BY <1>1, <2>1 DEF CheckUnverified
  <2>3. pc' \in PCs /\ trigger' \in Triggers \cup {"none"}
    BY <1>1, ControlTypes DEF CheckUnverified, Triggers
  <2>4. PICK o \in Outcomes : Discard(o)
    BY <1>1 DEF CheckUnverified
  <2> QED BY <1>1, <2>2, <2>3, <2>4, DiscardTypes
          DEF CheckUnverified, PollVars, TypeOK
<1>2. CASE RestartDue
  BY <1>2, LifeTypes, ControlTypes
     DEF RestartDue, Triggers, PollVars, TypeOK
<1>3. CASE PortRetryDue
  <2>1. life.port_retry \in Triggers \cup {"none"}
    BY DEF TypeOK, Life
  <2> QED BY <1>3, <2>1, PortRetryTypes, ControlTypes
          DEF PortRetryDue, PollVars, TypeOK
<1>4. CASE StopTimesOut
  <2>1. life' \in Life
    BY <1>4, LifeTypes DEF StopTimesOut, TypeOK, In, ServerStates
  <2> QED BY <1>4, <2>1 DEF StopTimesOut, TypeOK
<1> QED BY <1>1, <1>2, <1>3, <1>4 DEF TimerStep

LEMMA HealthTypes == TypeOK /\ HealthStep => TypeOK'
<1> SUFFICES ASSUME TypeOK, HealthStep PROVE TypeOK'
  OBVIOUS
<1>1. \A s \in ServerStates : In(s) \in Life
  BY LifeTypes DEF TypeOK, In
<1>2. {"Healthy", "Unhealthy", "Failed"} \subseteq ServerStates
  BY DEF ServerStates
<1>3. runtime \in RuntimeState /\ gate \in Gate
  BY DEF TypeOK
<1>4. CASE StableRun
  BY <1>4, LifeTypes, AttemptTypes DEF StableRun, PollVars, TypeOK
<1>5. CASE HealthyAnswer
  <2>1. [runtime EXCEPT !.process = Record(process)] \in RuntimeState
    BY RuntimeTypes DEF TypeOK
  <2>2. disk' \in Disk /\ budget' \in Budget /\ gate' \in Gate
    BY <1>3, <1>5, <2>1, WriteTypes, SavedTypes DEF HealthyAnswer
  <2>3. [In("Healthy") EXCEPT !.incident = FALSE] \in Life
    BY <1>1, <1>2, LifeTypes
  <2> QED BY <1>1, <1>2, <1>5, <2>1, <2>2, <2>3
          DEF HealthyAnswer, PollVars, TypeOK
<1>6. CASE UnhealthyAnswer
  <2>1. disk' \in Disk /\ budget' \in Budget /\ gate' \in Gate
    BY <1>3, <1>6, WriteTypes, SavedTypes DEF UnhealthyAnswer
  <2> QED BY <1>1, <1>2, <1>6, <2>1 DEF UnhealthyAnswer, PollVars, TypeOK
<1>7. CASE StaleHealthyAnswer
  <2>1. disk' \in Disk /\ budget' \in Budget /\ gate' \in Gate
    BY <1>3, <1>7, WriteTypes, SavedTypes DEF StaleHealthyAnswer
  <2>2. [process EXCEPT !.basis = "active"] \in Process
    BY DEF TypeOK, Process
  <2> QED BY <1>1, <1>2, <1>7, <2>1, <2>2
          DEF StaleHealthyAnswer, PollVars, TypeOK
<1> QED BY <1>4, <1>5, <1>6, <1>7 DEF HealthStep

LEMMA CredentialTypes == TypeOK /\ CredentialStep => TypeOK'
<1> SUFFICES ASSUME TypeOK, CredentialStep PROVE TypeOK'
  OBVIOUS
<1>1. CASE AccessLost
  <2>1. credentials.in_flight \in BOOLEAN
    BY DEF TypeOK, Credentials
  <2>2. PICK read \in {credentials.in_flight, TRUE} :
          credentials' = [state |-> "AccessPending", in_flight |-> read]
    BY <1>1 DEF AccessLost
  <2>3. read \in BOOLEAN
    BY <2>1, <2>2
  <2>4. credentials' \in Credentials
    BY <2>2, <2>3, Zenon DEF Credentials
  <2> QED BY <1>1, <2>4, SpendTypes DEF AccessLost, CredVars, TypeOK
<1>2. CASE AccessNotNeeded
  BY <1>2 DEF AccessNotNeeded, CredVars, TypeOK, Credentials
<1>3. CASE RequestRead
  BY <1>3 DEF RequestRead, CredVars, TypeOK, Credentials
<1>4. CASE PasswordApplied
  <2>1. [Disarmed(life) EXCEPT !.attempts = 0] \in Life
    BY LifeTypes, AttemptTypes DEF TypeOK
  <2> QED BY <1>4, <2>1, ControlTypes
          DEF PasswordApplied, CredVars, TypeOK, Credentials, Triggers
<1>5. CASE ReadWithoutPassword
  BY <1>5 DEF ReadWithoutPassword, CredVars, TypeOK, Credentials
<1> QED BY <1>1, <1>2, <1>3, <1>4, <1>5 DEF CredentialStep

LEMMA AttachTypes ==
  ASSUME TypeOK, NEW basis \in {"none", "active", "stale"}, NEW u \in BOOLEAN,
         NEW s \in ServerStates, NEW n \in Nat, Attach(basis, u, s, n)
  PROVE  /\ process' \in Process /\ unverified' \in BOOLEAN /\ life' \in Life
         /\ disk' \in Disk /\ budget' \in Budget /\ gate' \in Gate
         /\ runtime' \in RuntimeState /\ pending' \in Pending
<1>1. runtime \in RuntimeState /\ gate \in Gate /\ pending \in Pending
  BY DEF TypeOK
<1>2. disk' \in Disk /\ budget' \in Budget /\ gate' \in Gate
  BY <1>1, WriteTypes, SavedTypes DEF Attach
<1>3. process' \in Process
  BY <1>1, ProcessTypes DEF Attach, RuntimeState
<1>4. life' \in Life
  <2>1. life' \in {In(s), In("Failed")}
    BY DEF Attach
  <2>2. s \in ServerStates /\ "Failed" \in ServerStates
    BY DEF ServerStates
  <2>3. life \in Life
    BY DEF TypeOK
  <2> QED BY <2>1, <2>2, <2>3, LifeTypes DEF In
<1> QED BY <1>1, <1>2, <1>3, <1>4 DEF Attach

LEMMA BlockTypes ==
  ASSUME TypeOK, NEW n \in Nat, Block(n)
  PROVE  /\ process' \in Process /\ unverified' \in BOOLEAN /\ life' \in Life
         /\ disk' \in Disk /\ budget' \in Budget /\ gate' \in Gate
         /\ runtime' \in RuntimeState /\ pending' \in Pending
<1>1. runtime.process \in ProcessRecord /\ life \in Life
  BY DEF TypeOK, RuntimeState
<1> QED BY <1>1, MarkUnverifiedTypes DEF Block, TypeOK

LEMMA ForgetTypes ==
  ASSUME TypeOK, Forget
  PROVE  /\ process' \in Process /\ unverified' \in BOOLEAN /\ life' \in Life
         /\ disk' \in Disk /\ budget' \in Budget /\ gate' \in Gate
         /\ runtime' \in RuntimeState /\ pending' \in Pending
<1>1. life' \in Life
  BY LifeTypes DEF Forget, In, ServerStates, TypeOK
<1> QED BY <1>1, DiscardTypes DEF Forget, TypeOK

LEMMA BootTypes == TypeOK /\ BootStep => TypeOK'
<1> SUFFICES ASSUME TypeOK, BootStep PROVE TypeOK'
  OBVIOUS
<1>1. CASE Boot
  <2>1. life' \in Life
    <3>1. life' \in {life, In("Failed")}
      BY <1>1 DEF Boot
    <3> QED BY <3>1, LifeTypes DEF In, TypeOK, ServerStates
  <2>2. disk.visible \in RuntimeState /\ Loaded \in Gate
    BY DEF TypeOK, Disk, Loaded, Gate
  <2>3. pc' \in PCs /\ trigger' \in Triggers \cup {"none"}
    BY <1>1, ControlTypes DEF Boot, PCs
  <2> QED BY <1>1, <2>1, <2>2, <2>3 DEF Boot, BootVars, TypeOK
<1>2. CASE BootUnreadable
  <2>1. life' \in Life
    BY <1>2, LifeTypes DEF BootUnreadable, In, TypeOK, ServerStates
  <2>2. Default \in RuntimeState /\ Unloaded \in Gate
    BY DEF Default, RuntimeState, Desired, ProcessRecord, NoRecord, Unloaded, Gate
  <2> QED BY <1>2, <2>1, <2>2, ControlTypes, SpendTypes
          DEF BootUnreadable, BootVars, TypeOK
<1>3. CASE Inspect
  <2>1. CASE \E n \in {0, 1} : Block(n)
    BY <1>3, <2>1, BlockTypes, ControlTypes DEF Inspect, ReattachVars, PollVars, TypeOK, PCs
  <2>2. CASE Forget
    BY <1>3, <2>2, ForgetTypes, ControlTypes DEF Inspect, ReattachVars, PollVars, TypeOK, PCs
  <2>3. CASE Attach("none", TRUE, "Failed", 1) \/ Attach("stale", FALSE, "Unhealthy", 1)
    <3>1. {"Failed", "Unhealthy"} \subseteq ServerStates
      BY DEF ServerStates
    <3>2. /\ process' \in Process /\ unverified' \in BOOLEAN /\ life' \in Life
          /\ disk' \in Disk /\ budget' \in Budget /\ gate' \in Gate
          /\ runtime' \in RuntimeState /\ pending' \in Pending
      BY <2>3, <3>1, AttachTypes
    <3> QED BY <1>3, <3>2, ControlTypes DEF Inspect, ReattachVars, PollVars, TypeOK, PCs
  <2> QED BY <1>3, <2>1, <2>2, <2>3 DEF Inspect
<1>4. CASE InspectMatches
  BY <1>4, ControlTypes DEF InspectMatches, PollVars, TypeOK, PCs
<1>5. CASE Probe
  <2>1. CASE \E n \in {0, 1} : Block(n)
    BY <1>5, <2>1, BlockTypes, ControlTypes DEF Probe, ReattachVars, PollVars, TypeOK, PCs
  <2>2. CASE Forget
    BY <1>5, <2>2, ForgetTypes, ControlTypes DEF Probe, ReattachVars, PollVars, TypeOK, PCs
  <2>3. CASE Attach("active", FALSE, "Healthy", 0) \/ Attach("none", TRUE, "Failed", 1)
    <3>1. {"Failed", "Healthy"} \subseteq ServerStates
      BY DEF ServerStates
    <3>2. /\ process' \in Process /\ unverified' \in BOOLEAN /\ life' \in Life
          /\ disk' \in Disk /\ budget' \in Budget /\ gate' \in Gate
          /\ runtime' \in RuntimeState /\ pending' \in Pending
      BY <2>3, <3>1, AttachTypes
    <3> QED BY <1>5, <3>2, ControlTypes DEF Probe, ReattachVars, PollVars, TypeOK, PCs
  <2> QED BY <1>5, <2>1, <2>2, <2>3 DEF Probe
<1>6. CASE Converge
  <2> DEFINE rs == [runtime EXCEPT !.process = NoRecord]
             p  == IF pending.convergence # "none" THEN pending
                   ELSE [pending EXCEPT !.convergence =
                           IF rs.desired = "Running" THEN "Cold" ELSE "Stop"]
  <2>1. rs \in RuntimeState /\ gate \in Gate /\ life \in Life /\ pending \in Pending
    BY RuntimeTypes DEF TypeOK
  <2>2. p \in Pending
    BY DEF TypeOK, Pending, Triggers
  <2>3. CASE \E n \in 0..1 : BeginStop(FALSE, runtime, gate, pending, life, n) /\ Spend(n)
    <3>1. PICK n \in 0..1 : BeginStop(FALSE, runtime, gate, pending, life, n) /\ Spend(n)
      BY <2>3
    <3>2. /\ life' \in Life /\ gate' \in Gate /\ pending' \in Pending
          /\ pc' \in PCs /\ trigger' \in Triggers \cup {"none"}
      BY <2>1, <3>1, BeginStopTypes
    <3>3. budget' \in Budget
      BY <3>1, SpendTypes
    <3>4. disk' \in Disk /\ runtime' \in RuntimeState
      <4>1. CASE ~Managed /\ ~unverified
        BY <1>6, <2>1, <4>1, WriteTypes DEF Converge
      <4>2. CASE Managed \/ unverified
        BY <1>6, <4>2 DEF Converge, TypeOK
      <4> QED BY <4>1, <4>2
    <3> QED BY <1>6, <3>2, <3>3, <3>4 DEF Converge, PollVars, TypeOK
  <2>4. CASE ~Managed /\ ~unverified
    <3>1. PICK o \in Outcomes :
            /\ Write(rs, o, 0) /\ gate' = SavedGate(gate, rs, o)
            /\ runtime' = rs /\ pending' = p
            /\ life' \in {life, In("Failed")} /\ Resumed(o)
      BY <1>6, <2>4 DEF Converge
    <3>2. disk' \in Disk /\ budget' \in Budget /\ gate' \in Gate
      BY <2>1, <3>1, WriteTypes, SavedTypes
    <3>3. pc' \in PCs /\ trigger' \in Triggers \cup {"none"}
      BY <3>1, ControlTypes DEF Resumed, PCs
    <3>4. life' \in Life
      BY <2>1, <3>1, LifeTypes DEF In, ServerStates
    <3> QED BY <1>6, <2>1, <2>2, <3>1, <3>2, <3>3, <3>4
            DEF Converge, PollVars, TypeOK
  <2>5. CASE /\ UNCHANGED <<storeVars, life, budget>> /\ Return
    BY <1>6, <2>5, ControlTypes DEF Converge, PollVars, TypeOK
  <2> QED BY <1>6, <2>3, <2>4, <2>5 DEF Converge
<1> QED BY <1>1, <1>2, <1>3, <1>4, <1>5, <1>6 DEF BootStep

LEMMA CommandTypes ==
  ASSUME TypeOK, NEW c \in Commands, Command(c)
  PROVE  TypeOK'
<1> DEFINE rs == [runtime EXCEPT !.desired = DesiredBy(c)]
<1>1. rs \in RuntimeState /\ gate \in Gate /\ rs.desired \in Desired
  BY DEF TypeOK, RuntimeState, DesiredBy, Desired
<1>2. PICK o \in Outcomes, n \in 0..1 :
        /\ budget.commands < MaxCommands
        /\ budget.faults + n + Cost(o) <= MaxFaults
        /\ budget' = [budget EXCEPT !.commands = @ + 1,
                                    !.faults = @ + n + Cost(o)]
        /\ disk' = SavedDisk(disk, rs, o)
        /\ \/ /\ o = "Durable"
              /\ runtime' = rs /\ acked' = rs.desired
              /\ Apply(c, rs, SavedGate(gate, rs, o),
                       [pending EXCEPT !.intent = "none",
                                       !.convergence = "none"], n)
           \/ /\ o # "Durable"
              /\ gate' = SavedGate(gate, rs, o)
              /\ runtime' \in {runtime, rs} /\ acked' \in {acked, "none"}
              /\ pending' \in {pending, [pending EXCEPT !.intent = c,
                                                       !.convergence = "none"]}
              /\ life' = life
              /\ Return
  BY DEF Command
<1>3. budget' \in Budget
  <2>1. Cost(o) \in Nat
    BY DEF Cost
  <2>2. /\ budget.commands + 1 \in 0..MaxCommands
        /\ budget.faults + n + Cost(o) \in 0..MaxFaults
    BY <1>2, <2>1, BoundsAssumption DEF TypeOK, Budget
  <2> QED BY <1>2, <2>2 DEF TypeOK, Budget
<1> HIDE DEF rs
<1>4. disk' \in Disk /\ SavedGate(gate, rs, o) \in Gate
  BY <1>1, <1>2, SavedTypes DEF TypeOK
<1>5. /\ [pending EXCEPT !.intent = "none", !.convergence = "none"] \in Pending
      /\ [pending EXCEPT !.intent = c, !.convergence = "none"] \in Pending
  BY DEF TypeOK, Pending
<1>6. /\ life' \in Life /\ gate' \in Gate /\ pending' \in Pending
      /\ pc' \in PCs /\ trigger' \in Triggers \cup {"none"}
  BY <1>2, <1>4, <1>5, ApplyTypes, ControlTypes DEF TypeOK
<1>7. runtime' \in RuntimeState /\ acked' \in Desired \cup {"none"}
  BY <1>1, <1>2 DEF TypeOK
<1> QED BY <1>3, <1>4, <1>6, <1>7 DEF Command, TypeOK

LEMMA UserTypes == TypeOK /\ UserStep => TypeOK'
<1> SUFFICES ASSUME TypeOK, UserStep PROVE TypeOK'
  OBVIOUS
<1>1. CASE RequestStart \/ RequestStop \/ RequestRestart
  BY <1>1, CommandTypes DEF RequestStart, RequestStop, RequestRestart, Commands
<1>2. CASE ContinueStop
  BY <1>2, LifeTypes DEF ContinueStop, In, TypeOK, ServerStates
<1>3. CASE ForceStop
  <2>1. life' \in Life
    BY <1>3, LifeTypes DEF ForceStop, In, TypeOK, ServerStates
  <2>2. leader' \in [Inst -> {"gone", "alive", "exited", "reused"}]
    BY <1>3 DEF ForceStop, TypeOK
  <2>3. residue' \in [Inst -> BOOLEAN]
    BY <1>3 DEF ForceStop, TypeOK
  <2> QED BY <1>3, <2>1, <2>2, <2>3 DEF ForceStop, TypeOK
<1> QED BY <1>1, <1>2, <1>3 DEF UserStep

LEMMA MemoryLostTypes ==
  ASSUME TypeOK, MemoryLost
  PROVE  /\ runtime' \in RuntimeState /\ gate' \in Gate /\ pending' \in Pending
         /\ process' \in Process /\ unverified' \in BOOLEAN /\ life' \in Life
         /\ credentials' \in Credentials /\ pc' \in PCs
         /\ trigger' \in Triggers \cup {"none"} /\ spawned' \in Process
         /\ acked' \in Desired \cup {"none"} /\ budget' \in Budget
<1>1. runtime' \in RuntimeState /\ gate' \in Gate /\ pending' \in Pending
  BY DEF MemoryLost, Default, RuntimeState, Desired, ProcessRecord, NoRecord,
         Unloaded, Gate, NothingPending, Pending
<1>2. life' \in Life
  BY AttemptTypes DEF MemoryLost, InitialLife, Life, ServerStates
<1>3. budget' \in Budget
  BY BoundsAssumption DEF MemoryLost, TypeOK, Budget
<1>4. credentials' \in Credentials
  BY DEF MemoryLost, TypeOK, Credentials
<1> QED BY <1>1, <1>2, <1>3, <1>4, ControlTypes, ProcessTypes
        DEF MemoryLost, PCs, TypeOK

LEMMA OsTypes == TypeOK /\ OsStep => TypeOK'
<1> SUFFICES ASSUME TypeOK, OsStep PROVE TypeOK'
  OBVIOUS
<1>1. CASE LeaderExits
  <2>1. PICK i \in Inst :
          /\ leader' = [leader EXCEPT ![i] = IF Owned(i) THEN "exited" ELSE "gone"]
          /\ escaped' = [escaped EXCEPT ![i] = @ /\ Owned(i)]
          /\ \/ UNCHANGED residue /\ UNCHANGED budget
             \/ residue' = [residue EXCEPT ![i] = TRUE] /\ Spend(1)
    BY <1>1 DEF LeaderExits
  <2>2. leader' \in [Inst -> {"gone", "alive", "exited", "reused"}]
    BY <2>1 DEF TypeOK
  <2>3. escaped' \in [Inst -> BOOLEAN]
    BY <2>1 DEF TypeOK, Owned
  <2>4. residue' \in [Inst -> BOOLEAN] /\ budget' \in Budget
    BY <2>1, SpendTypes DEF TypeOK
  <2> QED BY <1>1, <2>2, <2>3, <2>4 DEF LeaderExits, AgentVars, TypeOK
<1>2. CASE ResidueExits
  BY <1>2 DEF ResidueExits, AgentVars, TypeOK
<1>3. CASE LeaderEscapes
  BY <1>3, SpendTypes DEF LeaderEscapes, AgentVars, TypeOK
<1>4. CASE PidReused
  BY <1>4, SpendTypes DEF PidReused, AgentVars, TypeOK
<1>5. CASE ForeignExits
  BY <1>5 DEF ForeignExits, AgentVars, TypeOK
<1>6. CASE AgentExits
  <2>1. leader' \in [Inst -> {"gone", "alive", "exited", "reused"}]
    BY <1>6 DEF AgentExits, TypeOK
  <2> QED BY <1>6, <2>1, MemoryLostTypes DEF AgentExits, TypeOK
<1>7. CASE PowerLoss
  <2>1. disk' \in Disk
    BY <1>7 DEF PowerLoss, TypeOK, Disk
  <2> QED BY <1>7, <2>1, MemoryLostTypes DEF PowerLoss, TypeOK
<1> QED BY <1>1, <1>2, <1>3, <1>4, <1>5, <1>6, <1>7 DEF OsStep

LEMMA InitTypes == Init => TypeOK
<1> SUFFICES ASSUME Init PROVE TypeOK
  OBVIOUS
<1>1. InitialLife \in Life
  BY AttemptTypes DEF InitialLife, Life, ServerStates
<1>2. budget \in Budget
  BY BoundsAssumption DEF Init, Budget
<1>3. disk \in Disk /\ acked \in Desired \cup {"none"}
  <2>1. PICK d \in Desired :
          /\ disk = [visible |-> [Default EXCEPT !.desired = d],
                     durable |-> [Default EXCEPT !.desired = d]]
          /\ acked = d
    BY DEF Init
  <2>2. [Default EXCEPT !.desired = d] \in RuntimeState
    BY DEF Default, RuntimeState, ProcessRecord, NoRecord
  <2> QED BY <2>1, <2>2 DEF Disk
<1>4. runtime \in RuntimeState /\ gate \in Gate /\ pending \in Pending
  BY DEF Init, Default, RuntimeState, Desired, ProcessRecord, NoRecord,
         Unloaded, Gate, NothingPending, Pending
<1> QED BY <1>1, <1>2, <1>3, <1>4, ProcessTypes DEF Init, TypeOK, Credentials, PCs

(* Every variable keeps its type through every handler, fault and crash.   *)
THEOREM TypeCorrect == Spec => []TypeOK
<1>1. TypeOK /\ [Next]_vars => TypeOK'
  <2>1. TypeOK /\ UNCHANGED vars => TypeOK'
    BY DEF vars, TypeOK
  <2> QED BY <2>1, StartTypes, RetryTypes, PollTypes, TimerTypes, BootTypes,
             HealthTypes, CredentialTypes, UserTypes, OsTypes DEF Next
<1> QED BY InitTypes, <1>1, PTL DEF Spec
=============================================================================

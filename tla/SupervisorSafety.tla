-------------------------- MODULE SupervisorSafety --------------------------
(***************************************************************************)
(* That two OpenCode servers are never alive together, and that a live one *)
(* is never forgotten: IInv is inductive, for every set of instances,      *)
(* every bound and every set of faults.                                    *)
(***************************************************************************)
EXTENDS SupervisorTypes, SupervisorInvariant

LEMMA GateSaved ==
  ASSUME NEW g \in Gate, NEW rs \in RuntimeState, NEW o \in SaveOutcomes
  PROVE  /\ SavedGate(g, rs, o).loaded = g.loaded
         /\ SavedGate(g, rs, o).clearReq => g.clearReq
         /\ g.clearReq /\ rs.marker => SavedGate(g, rs, o).clearReq
         /\ SavedGate(g, rs, o).reliable => g.reliable \/ o = "Durable"
         /\ o = "Durable" => ~SavedGate(g, rs, o).retry
         /\ SavedGate(g, rs, o).retry =>
              (g.retry \/ o \in {"Failed", "Uncertain"})
         /\ Coherent(g) => Coherent(SavedGate(g, rs, o))
  BY DEF SavedGate, Gate, SaveOutcomes, Coherent

LEMMA OutcomeTypes ==
  /\ Outcomes \subseteq SaveOutcomes
  /\ MetadataOutcomes \subseteq SaveOutcomes
  /\ "Skipped" \notin Outcomes
  BY DEF Outcomes, MetadataOutcomes, SaveOutcomes

(* A save that speaks of every live process keeps the evidence.            *)
LEMMA Evidenced ==
  ASSUME TypeOK, LiveIsEvidenced, NEW rs \in RuntimeState, NEW o, NEW n,
         Write(rs, o, n),
         \A i \in Inst : Alive(i)' => /\ Alive(i)
                                      /\ rs.marker \/ rs.process.inst = i
  PROVE  LiveIsEvidenced'
<1>1. disk'.visible \in {disk.visible, rs}
  BY DEF Write, SavedDisk, TypeOK, Disk
<1> QED BY <1>1 DEF LiveIsEvidenced, Alive

LEMMA BeginStopEffect ==
  ASSUME TypeOK, NEW r \in BOOLEAN, NEW rs, NEW g \in Gate, NEW p \in Pending,
         NEW l \in Life, NEW n, BeginStop(r, rs, g, p, l, n), Coherent(g)
  PROVE  /\ gate'.loaded = g.loaded /\ gate'.reliable = g.reliable
         /\ gate'.clearReq = g.clearReq /\ Coherent(gate')
         /\ gate'.retry => g.retry \/ g.clearReq
         /\ pending'.exit = p.exit
         /\ Armed(life') => Armed(l)
         /\ pc' = "idle" \/ (pc' = "start" /\ Free)
<1>1. /\ gate'.loaded = g.loaded /\ gate'.reliable = g.reliable
      /\ gate'.clearReq = g.clearReq /\ Coherent(gate')
      /\ gate'.retry => g.retry \/ g.clearReq
  BY DEF BeginStop, Gate, Coherent
<1>2. pending'.exit = p.exit
  BY DEF BeginStop, Pending
<1>3. Armed(life') => Armed(l)
  BY DEF BeginStop, Life, Armed
<1>4. pc' = "idle" \/ (pc' = "start" /\ Free)
  BY DEF BeginStop, Return, Call, Free
<1> QED BY <1>1, <1>2, <1>3, <1>4

LEMMA ApplyEffect ==
  ASSUME TypeOK, NEW c, NEW rs, NEW g \in Gate, NEW p \in Pending, NEW n,
         Apply(c, rs, g, p, n), Coherent(g)
  PROVE  /\ gate'.loaded = g.loaded /\ gate'.reliable = g.reliable
         /\ gate'.clearReq = g.clearReq /\ Coherent(gate')
         /\ gate'.retry => g.retry \/ g.clearReq
         /\ pending'.exit = "none"
         /\ Armed(life') => Armed(life)
         /\ pc' = "idle" \/ (pc' = "start" /\ Free)
<1>1. Superseded(p) \in Pending /\ Superseded(p).exit = "none"
  BY DEF Superseded, Pending
<1>2. CASE ApplyStart(g, p, n)
  <2>1. Armed(life') => Armed(life)
    BY <1>2 DEF ApplyStart, TypeOK, Life, Armed, Disarmed, In
  <2>2. pc' = "idle" \/ (pc' = "start" /\ Free)
    BY <1>2 DEF ApplyStart, Return, Call, Free, Refused
  <2> QED BY <1>1, <1>2, <2>1, <2>2 DEF ApplyStart
<1>3. CASE ApplyStop(rs, g, p, n)
  <2> DEFINE l == [Disarmed(life) EXCEPT !.restart_after_stop = FALSE,
                                         !.group_cleanup_recovery = FALSE]
  <2>1. l \in Life /\ ~Armed(l)
    BY DEF TypeOK, Life, Disarmed, Armed
  <2>2. BeginStop(FALSE, rs, g, Superseded(p), l, n)
    BY <1>3 DEF ApplyStop
  <2> HIDE DEF l
  <2> QED BY <1>1, <2>1, <2>2, BeginStopEffect
<1>4. CASE ApplyRestart(rs, g, p, n)
  <2> DEFINE l == [Disarmed(life) EXCEPT !.restart_after_stop = Managed,
                                         !.group_cleanup_recovery = FALSE,
                                         !.attempts = 0]
  <2>1. l \in Life /\ ~Armed(l)
    BY AttemptTypes DEF TypeOK, Life, Disarmed, Managed, Armed
  <2>2. CASE BeginStop(TRUE, rs, g, Superseded(p), l, n)
    <3> HIDE DEF l
    <3> QED BY <1>1, <2>1, <2>2, BeginStopEffect
  <2>3. CASE ~BeginStop(TRUE, rs, g, Superseded(p), l, n)
    <3>1. life' \in {l, [l EXCEPT !.restart_after_stop = FALSE,
                                  !.server_state = "Failed"]}
      BY <1>4, <2>3 DEF ApplyRestart
    <3>2. ~Armed(life')
      <4> HIDE DEF l
      <4> QED BY <2>1, <3>1 DEF Life, Armed
    <3>3. pc' = "idle" \/ (pc' = "start" /\ Free)
      BY <1>4, <2>3 DEF ApplyRestart, Return, Call, Free, Refused
    <3> QED BY <1>1, <1>4, <2>3, <3>2, <3>3 DEF ApplyRestart
  <2> QED BY <2>2, <2>3
<1> QED BY <1>2, <1>3, <1>4 DEF Apply

USE DEF IInv, OneServer, MemoryEvidence, LiveIsHeld, StartIsFree,
        LaunchIsMarked, GateIsClosed, HeldIsRecorded, Free, Alive, Blocked,
        Managed

(* A step between two points of the loop that leaves every process, its    *)
(* record and the marker alone.                                            *)
LEMMA QuietStep ==
  ASSUME IInv, TypeOK', LiveIsEvidenced',
         pc \in {"idle", "start", "resume", "exited_explicit",
                "exited_unexpected"},
         pc' = "idle" \/ (pc' = "start" /\ Free),
         \A i \in Inst : Alive(i)' => Alive(i), unverified' = unverified,
         process'.kind = process.kind, process'.inst = process.inst,
         (process'.cleanup # "none") =>
           ~(process.inst \in Inst /\ Alive(process.inst)),
         runtime'.process.inst = runtime.process.inst,
         runtime'.marker = runtime.marker,
         gate'.loaded = gate.loaded, Coherent(gate'),
         ~gate.loaded => gate' = gate /\ pending' = pending,
         runtime.marker => (gate'.clearReq <=> gate.clearReq),
         pending'.exit # "none" => Free /\ ~gate'.reliable,
         Armed(life') => Armed(life) \/ Free
  PROVE  IInv'
<1>1. OneServer' /\ MemoryEvidence'
  OBVIOUS
<1>2. LiveIsHeld'
  OBVIOUS
<1>3. StartIsFree' /\ HeldIsRecorded'
  OBVIOUS
<1>4. LaunchIsMarked' /\ GateIsClosed'
  BY DEF Coherent
<1> QED BY <1>1, <1>2, <1>3, <1>4

LEMMA CommandSafe ==
  ASSUME IInv, NEW c \in Commands, Command(c)
  PROVE  IInv'
<1> DEFINE rs == [runtime EXCEPT !.desired = DesiredBy(c)]
           p  == [pending EXCEPT !.intent = "none", !.convergence = "none"]
           u  == [pending EXCEPT !.intent = c, !.convergence = "none"]
<1>1. TypeOK'
  BY CommandTypes
<1>2. /\ rs \in RuntimeState /\ gate \in Gate /\ p \in Pending
      /\ rs.marker = runtime.marker /\ rs.process = runtime.process
      /\ u.exit = pending.exit
  BY DEF TypeOK, RuntimeState, DesiredBy, Desired, Pending
<1>3. PICK o \in Outcomes, n \in 0..1 :
        /\ disk' = SavedDisk(disk, rs, o)
        /\ \/ /\ o = "Durable"
              /\ runtime' = rs
              /\ Apply(c, rs, SavedGate(gate, rs, o), p, n)
           \/ /\ o # "Durable"
              /\ gate' = SavedGate(gate, rs, o)
              /\ runtime' \in {runtime, rs}
              /\ pending' \in {pending, u}
              /\ life' = life
              /\ Return
  BY DEF Command
<1> HIDE DEF rs, p, u
<1>4. o \in SaveOutcomes /\ Coherent(gate)
  BY <1>3, OutcomeTypes
<1>5. pc = "idle" /\ gate.loaded /\ UNCHANGED <<osVars, ownVars, spawned>>
  BY DEF Command
<1>6. LiveIsEvidenced'
  <2>1. disk'.visible \in {disk.visible, rs}
    BY <1>3, <1>4 DEF SavedDisk, TypeOK, Disk
  <2> QED BY <1>2, <1>5, <2>1 DEF LiveIsEvidenced, osVars
<1>7. CASE o = "Durable"
  <2>1. SavedGate(gate, rs, o) \in Gate /\ Coherent(SavedGate(gate, rs, o))
    BY <1>2, <1>4, SavedTypes, GateSaved DEF TypeOK
  <2>2. /\ gate'.loaded = SavedGate(gate, rs, o).loaded
        /\ gate'.clearReq = SavedGate(gate, rs, o).clearReq /\ Coherent(gate')
        /\ pending'.exit = "none"
        /\ Armed(life') => Armed(life)
        /\ pc' = "idle" \/ (pc' = "start" /\ Free)
    BY <1>2, <1>3, <1>7, <2>1, ApplyEffect
  <2>3. gate'.loaded = gate.loaded
        /\ (runtime.marker => (gate'.clearReq <=> gate.clearReq))
    BY <1>2, <1>4, <2>2, GateSaved
  <2> QED BY <1>1, <1>2, <1>3, <1>5, <1>6, <1>7, <2>2, <2>3, QuietStep
          DEF osVars, ownVars
<1>8. CASE o # "Durable"
  <2>1. gate' = SavedGate(gate, rs, o) /\ life' = life /\ pc' = "idle"
    BY <1>3, <1>8 DEF Return
  <2>2. /\ gate'.loaded = gate.loaded /\ Coherent(gate')
        /\ runtime.marker => (gate'.clearReq <=> gate.clearReq)
        /\ gate'.reliable => gate.reliable
    BY <1>2, <1>4, <1>8, <2>1, GateSaved
  <2>3. pending'.exit = pending.exit
    BY <1>2, <1>3, <1>8
  <2>4. pending'.exit # "none" => Free /\ ~gate'.reliable
    BY <1>5, <2>2, <2>3
  <2>5. runtime'.process = runtime.process /\ runtime'.marker = runtime.marker
    BY <1>2, <1>3, <1>8
  <2> QED BY <1>1, <1>5, <1>6, <2>1, <2>2, <2>4, <2>5, QuietStep
          DEF osVars, ownVars
<1> QED BY <1>7, <1>8

LEMMA UserSafe == IInv /\ UserStep => IInv'
<1> SUFFICES ASSUME IInv, UserStep PROVE IInv'
  OBVIOUS
<1>1. TypeOK'
  BY UserTypes
<1>2. CASE RequestStart \/ RequestStop \/ RequestRestart
  BY <1>2, CommandSafe DEF RequestStart, RequestStop, RequestRestart, Commands
<1>3. CASE ContinueStop
  <2>1. Armed(life') => Armed(life)
    BY <1>3 DEF ContinueStop, In, TypeOK, Life, Armed
  <2> QED BY <1>1, <1>3, <2>1, QuietStep
          DEF ContinueStop, LiveIsEvidenced, osVars, storeVars, ownVars
<1>4. CASE ForceStop
  <2>1. \A i \in Inst : Alive(i)' => Alive(i)
    BY <1>4 DEF ForceStop, TypeOK
  <2>2. Armed(life') => Armed(life)
    BY <1>4 DEF ForceStop, In, TypeOK, Life, Armed
  <2>3. LiveIsEvidenced'
    BY <1>4, <2>1 DEF ForceStop, LiveIsEvidenced, storeVars
  <2> QED BY <1>1, <1>4, <2>1, <2>2, <2>3, QuietStep
          DEF ForceStop, storeVars, ownVars
<1> QED BY <1>2, <1>3, <1>4 DEF UserStep

LEMMA RetrySafe == IInv /\ RetryStep => IInv'
<1> SUFFICES ASSUME IInv, RetryStep PROVE IInv'
  OBVIOUS
<1>1. TypeOK'
  BY RetryTypes
<1>2. CASE RetrySave
  <2>1. PICK o \in Outcomes :
          /\ Write(runtime, o, 0)
          /\ gate' = SavedGate(gate, runtime, o)
          /\ IF o = "Durable" /\ gate.clearReq /\ runtime.marker
               THEN Goto("unwind") ELSE Resumed(o)
    BY <1>2 DEF RetrySave
  <2>2. runtime \in RuntimeState /\ gate \in Gate /\ o \in SaveOutcomes
    BY <2>1, OutcomeTypes DEF TypeOK
  <2>3. gate'.loaded /\ Coherent(gate')
        /\ (runtime.marker => (gate'.clearReq <=> gate.clearReq))
        /\ (o # "Durable" => (gate'.reliable => gate.reliable))
    BY <1>2, <2>1, <2>2, GateSaved DEF RetrySave
  <2>4. LiveIsEvidenced'
    BY <1>2, <2>1, <2>2, Evidenced DEF RetrySave, osVars
  <2>5. pc' \in {"unwind", "resume", "idle"}
        /\ (pc' = "unwind" => runtime.marker /\ gate.clearReq)
        /\ (pc' = "idle" => o # "Durable")
    BY <2>1 DEF Goto, Resumed, Return
  <2> QED BY <1>1, <1>2, <2>3, <2>4, <2>5 DEF RetrySave, osVars, ownVars
<1>3. CASE UnwindMarker
  <2> DEFINE rs == [runtime EXCEPT !.marker = FALSE]
  <2>1. PICK o \in Outcomes :
          /\ Write(rs, o, 0)
          /\ gate' = SavedGate(gate, rs, o)
          /\ Resumed(o)
    BY <1>3 DEF UnwindMarker
  <2>2. /\ rs \in RuntimeState /\ gate \in Gate /\ o \in SaveOutcomes
        /\ ~rs.marker /\ rs.process = runtime.process
    BY <2>1, OutcomeTypes, RuntimeTypes DEF TypeOK, RuntimeState
  <2>3. gate'.loaded /\ Coherent(gate')
        /\ (o # "Durable" => (gate'.reliable => gate.reliable /\ FALSE))
    BY <1>3, <2>1, <2>2, GateSaved DEF UnwindMarker, SavedGate, Gate, Outcomes
  <2>4. \A i \in Inst : Alive(i) => rs.process.inst = i
    BY <1>3, <2>2, NoInstAssumption DEF UnwindMarker
  <2>5. runtime' = rs
    BY <1>3 DEF UnwindMarker
  <2> HIDE DEF rs
  <2>6. LiveIsEvidenced'
    BY <1>3, <2>1, <2>2, <2>4, Evidenced DEF UnwindMarker, osVars
  <2>7. pc' \in {"resume", "idle"} /\ (pc' = "idle" => o # "Durable")
    BY <2>1 DEF Goto, Resumed, Return
  <2> QED BY <1>1, <1>3, <2>2, <2>3, <2>4, <2>5, <2>6, <2>7
          DEF UnwindMarker, osVars, ownVars
<1>4. CASE ResumeIntent
  <2> DEFINE p == [pending EXCEPT !.intent = "none"]
  <2>1. PICK n \in 0..1 : Apply(pending.intent, runtime, gate, p, n)
    BY <1>4 DEF ResumeIntent
  <2>2. p \in Pending /\ gate \in Gate
    BY DEF TypeOK, Pending
  <2> HIDE DEF p
  <2>3. /\ gate'.loaded = gate.loaded /\ gate'.clearReq = gate.clearReq
        /\ Coherent(gate') /\ pending'.exit = "none"
        /\ Armed(life') => Armed(life)
        /\ pc' = "idle" \/ (pc' = "start" /\ Free)
    BY <2>1, <2>2, ApplyEffect
  <2> QED BY <1>1, <1>4, <2>3, QuietStep
          DEF ResumeIntent, osVars, ownVars, LiveIsEvidenced
<1>5. CASE ResumeExit
  <2>1. pending'.exit = "none"
    BY <1>5 DEF ResumeExit, TypeOK, Pending
  <2>2. pc' \in {"exited_explicit", "exited_unexpected"}
    BY <1>5 DEF ResumeExit, Goto
  <2> QED BY <1>1, <1>5, <2>1, <2>2
          DEF ResumeExit, osVars, ownVars, LiveIsEvidenced
<1>6. CASE ResumeConvergence
  <2> DEFINE p == [pending EXCEPT !.convergence = "none"]
  <2>1. p \in Pending /\ gate \in Gate /\ life \in Life
        /\ p.exit = pending.exit /\ pending.exit = "none"
    BY <1>6 DEF ResumeConvergence, TypeOK, Pending
  <2>2. CASE \E n \in 0..1 : BeginStop(FALSE, runtime, gate, p, life, n)
    <3>1. PICK n \in 0..1 : BeginStop(FALSE, runtime, gate, p, life, n)
      BY <2>2
    <3> HIDE DEF p
    <3>2. /\ gate'.loaded = gate.loaded /\ gate'.clearReq = gate.clearReq
          /\ Coherent(gate') /\ pending'.exit = "none"
          /\ Armed(life') => Armed(life)
          /\ pc' = "idle" \/ (pc' = "start" /\ Free)
      BY <2>1, <3>1, BeginStopEffect
    <3> QED BY <1>1, <1>6, <3>2, QuietStep
            DEF ResumeConvergence, osVars, ownVars, LiveIsEvidenced
  <2>3. CASE ~\E n \in 0..1 : BeginStop(FALSE, runtime, gate, p, life, n)
    <3>1. /\ life' = life /\ gate' = gate
          /\ pending' \in {p, pending}
          /\ pc' = "idle" \/ (pc' = "start" /\ Free)
      BY <1>6, <2>3 DEF ResumeConvergence, Return, Call
    <3> HIDE DEF p
    <3>2. pending'.exit = "none"
      BY <2>1, <3>1
    <3> QED BY <1>1, <1>6, <3>1, <3>2, QuietStep
            DEF ResumeConvergence, osVars, ownVars, LiveIsEvidenced
  <2> QED BY <2>2, <2>3
<1> QED BY <1>2, <1>3, <1>4, <1>5, <1>6 DEF RetryStep

LEMMA NotifyEffect ==
  ASSUME IInv, NEW e, NEW rs \in RuntimeState, NEW n \in Nat,
         Notify(e, rs, gate, n), rs.marker = runtime.marker,
         \A i \in Inst : Alive(i)' => /\ Alive(i)
                                      /\ rs.marker \/ rs.process.inst = i
  PROVE  /\ LiveIsEvidenced' /\ Coherent(gate')
         /\ gate'.loaded = gate.loaded
         /\ gate'.clearReq => gate.clearReq
         /\ runtime.marker => (gate'.clearReq <=> gate.clearReq)
<1>1. PICK o \in SaveOutcomes :
        Write(rs, o, n) /\ gate' = SavedGate(gate, rs, o)
  BY OutcomeTypes DEF Notify, SaveOutcomes
<1>2. LiveIsEvidenced'
  BY <1>1, Evidenced
<1>3. gate \in Gate
  BY DEF TypeOK
<1> QED BY <1>1, <1>2, <1>3, GateSaved

(* The exit of a managed process leaves nothing alive.                     *)
LEMMA CompleteExitSafe ==
  ASSUME IInv, pc = "idle", Managed, CompleteExit,
         ~(process.inst \in Inst /\ Alive(process.inst))
  PROVE  IInv'
<1> DEFINE cleared == [runtime EXCEPT !.process = NoRecord]
           kept == IF runtime.process = NoRecord THEN Record(process)
                                                 ELSE runtime.process
           ended == [life EXCEPT !.stop_deadline = FALSE]
<1>1. TypeOK'
  BY CompleteExitTypes
<1>2. \A i \in Inst : ~Alive(i)
  OBVIOUS
<1>3. \A i \in Inst : ~Alive(i)'
  BY <1>2 DEF CompleteExit, TypeOK
<1>4. gate.loaded /\ ~runtime.marker /\ pending.exit = "none"
  OBVIOUS
<1>5. cleared \in RuntimeState /\ ~cleared.marker
      /\ ~[runtime EXCEPT !.process = kept].marker
  BY <1>4, RuntimeTypes DEF TypeOK, RuntimeState
<1>6. ~Armed([Disarmed(ended) EXCEPT !.server_state = "Failed"])
  BY DEF TypeOK, Life, Disarmed, Armed
<1>7. PICK o \in Outcomes :
        /\ gate' = SavedGate(gate, cleared, o)
        /\ runtime' \in {cleared, [runtime EXCEPT !.process = kept]}
        /\ unverified' = (o = "Failed")
        /\ (o # "Uncertain") => pending' = pending
        /\ (o = "Durable") => pc' \in {"exited_explicit", "exited_unexpected"}
        /\ (o # "Durable") => pc' = "idle" /\ ~Armed(life')
  BY <1>6 DEF CompleteExit, Return, Goto
<1>8. gate \in Gate /\ o \in SaveOutcomes /\ Coherent(gate)
  BY <1>7, OutcomeTypes DEF TypeOK
<1> HIDE DEF cleared, kept, ended
<1>9. /\ gate'.loaded /\ Coherent(gate')
      /\ (o = "Uncertain") => ~gate'.reliable
      /\ o \in {"Durable", "Failed", "Uncertain"}
  BY <1>4, <1>5, <1>7, <1>8, GateSaved DEF SavedGate, Gate, Outcomes
<1>10. process' = NoProcess
  BY DEF CompleteExit
<1>11. ~Managed' /\ process'.inst = NoInst /\ process'.cleanup = "none"
  BY <1>10 DEF NoProcess
<1>12. ~runtime'.marker
  BY <1>5, <1>7
<1>13. OneServer' /\ LiveIsEvidenced' /\ MemoryEvidence' /\ LiveIsHeld'
  BY <1>3 DEF LiveIsEvidenced
<1> QED BY <1>1, <1>3, <1>4, <1>7, <1>9, <1>11, <1>12, <1>13

LEMMA PendingGroupSafe ==
  ASSUME IInv, pc = "idle", Managed,
         ~(process.inst \in Inst /\ Alive(process.inst)),
         NEW c \in {"none", "signalled", "refused"}, NEW n \in {0, 1},
         PendingGroup(c, n)
  PROVE  IInv'
<1>1. TypeOK'
  BY PendingGroupTypes
<1>2. runtime \in RuntimeState /\ gate.loaded /\ pending.exit = "none"
  BY DEF TypeOK
<1>3. UNCHANGED <<osVars, runtime, pending, unverified>> /\ pc' = "idle"
  BY DEF PendingGroup, Return
<1>4. /\ LiveIsEvidenced' /\ Coherent(gate') /\ gate'.loaded = gate.loaded
      /\ runtime.marker => (gate'.clearReq <=> gate.clearReq)
  BY <1>2, <1>3, NotifyEffect DEF PendingGroup, osVars
<1>5. process'.kind = process.kind /\ process'.inst = process.inst
  BY DEF PendingGroup, TypeOK, Process
<1>6. Armed(life') => Armed(life)
  <2> DEFINE l == [life EXCEPT !.group_cleanup_recovery = TRUE,
                               !.restart_after_stop = FALSE]
  <2>1. l \in Life /\ life \in Life /\ (Armed(l) => Armed(life))
    BY DEF TypeOK, Life, Armed
  <2>2. life' \in {life, l,
          [life EXCEPT !.server_state = "Failed", !.stop_deadline = FALSE],
          [l EXCEPT !.server_state = "Stopping", !.stop_deadline = TRUE],
          [life EXCEPT !.server_state = "Stopping", !.stop_deadline = TRUE]}
    BY DEF PendingGroup, In
  <2> HIDE DEF l
  <2> QED BY <2>1, <2>2 DEF Life, Armed
<1> QED BY <1>1, <1>2, <1>3, <1>4, <1>5, <1>6, QuietStep DEF osVars

LEMMA MarkUnverifiedEffect ==
  ASSUME IInv, NEW r \in ProcessRecord, NEW l \in Life, NEW n \in Nat,
         MarkUnverified(r, l, n), r.inst = runtime.process.inst, gate.loaded,
         leader' = leader
  PROVE  /\ LiveIsEvidenced' /\ Coherent(gate') /\ gate'.loaded
         /\ gate'.clearReq => gate.clearReq
         /\ runtime.marker => (gate'.clearReq <=> gate.clearReq)
         /\ runtime'.process.inst = runtime.process.inst
         /\ runtime'.marker = runtime.marker /\ unverified'
         /\ Armed(life') => Armed(l)
<1> DEFINE rs == [runtime EXCEPT !.process = r]
<1>1. /\ rs \in RuntimeState /\ rs.marker = runtime.marker
      /\ rs.process.inst = runtime.process.inst
  BY RuntimeTypes DEF TypeOK, RuntimeState
<1>2. runtime' = rs /\ unverified' /\ Notify(TRUE, rs, gate, n)
  BY DEF MarkUnverified
<1>3. Armed(life') => Armed(l)
  BY DEF MarkUnverified, Life, Armed
<1> HIDE DEF rs
<1> QED BY <1>1, <1>2, <1>3, NotifyEffect

LEMMA PollSafe == IInv /\ PollStep => IInv'
<1> SUFFICES ASSUME IInv, PollStep PROVE IInv'
  OBVIOUS
<1>1. TypeOK' /\ gate \in Gate /\ runtime \in RuntimeState
  BY PollTypes DEF TypeOK
<1>2. CASE ConfirmIdentity
  <2> DEFINE p == [process EXCEPT !.unconfirmed = FALSE]
             rs == [runtime EXCEPT !.process = Record(p)]
  <2>1. PICK o \in MetadataOutcomes :
          /\ Write(rs, o, 0)
          /\ gate' = SavedGate(gate, rs, o)
          /\ life' \in {life, In("Failed")}
          /\ process' = p /\ runtime' = rs
    BY <1>2 DEF ConfirmIdentity
  <2>2. /\ rs \in RuntimeState /\ o \in SaveOutcomes
        /\ rs.marker = runtime.marker /\ rs.process.inst = process.inst
        /\ p.kind = process.kind /\ p.inst = process.inst
        /\ p.cleanup = process.cleanup
    BY <2>1, OutcomeTypes
       DEF TypeOK, RuntimeState, Process, ProcessRecord, Record
  <2>3. Armed(life') => Armed(life)
    BY <2>1 DEF TypeOK, Life, In, Armed
  <2> HIDE DEF p, rs
  <2>4. gate.loaded /\ Managed /\ pending.exit = "none"
    BY <1>2 DEF ConfirmIdentity, Polling
  <2>5. LiveIsEvidenced'
    BY <1>2, <2>1, <2>2, <2>4, Evidenced DEF ConfirmIdentity, osVars
  <2>6. /\ gate'.loaded = gate.loaded /\ Coherent(gate')
        /\ runtime.marker => (gate'.clearReq <=> gate.clearReq)
    BY <1>1, <2>1, <2>2, GateSaved
  <2> QED BY <1>1, <1>2, <2>1, <2>2, <2>3, <2>4, <2>5, <2>6, QuietStep
          DEF ConfirmIdentity, Polling, Return, osVars
<1>3. CASE PollChildExit
  BY <1>3, CompleteExitSafe, PendingGroupSafe DEF PollChildExit, Polling
<1>4. CASE PollPendingGroup
  <2>1. process.cleanup \in {"none", "signalled", "refused"}
    BY DEF TypeOK, Process
  <2> QED BY <1>4, <2>1, CompleteExitSafe, PendingGroupSafe
          DEF PollPendingGroup, Polling
<1>5. CASE IdentityChanges
  <2>1. /\ Unconfirmed(process.inst) \in ProcessRecord /\ life \in Life
        /\ Unconfirmed(process.inst).inst = process.inst
    BY DEF TypeOK, Process, ProcessRecord, Unconfirmed
  <2>2. /\ pc = "idle" /\ Managed /\ gate.loaded /\ pending.exit = "none"
        /\ runtime.process.inst = process.inst /\ ~runtime.marker
    BY <1>5 DEF IdentityChanges, Polling
  <2>3. UNCHANGED <<osVars, pending>> /\ pc' = "idle"
    BY <1>5 DEF IdentityChanges, Return
  <2>4. /\ LiveIsEvidenced' /\ Coherent(gate') /\ gate'.loaded
        /\ runtime'.process.inst = process.inst /\ ~runtime'.marker
        /\ unverified' /\ (Armed(life') => Armed(life))
    BY <1>5, <2>1, <2>2, <2>3, MarkUnverifiedEffect
       DEF IdentityChanges, osVars
  <2>5. \/ /\ process'.kind = "child" /\ process'.inst = process.inst
           /\ process'.cleanup = process.cleanup
        \/ process.kind = "attached" /\ process' = NoProcess
    BY <1>5 DEF IdentityChanges, Polling, TypeOK, Process
  <2> QED BY <1>1, <2>2, <2>3, <2>4, <2>5 DEF osVars, NoProcess
<1>6. CASE AttachedDisappears
  <2> DEFINE l == [life EXCEPT !.stop_deadline = FALSE,
                               !.restart_after_stop = FALSE,
                               !.group_cleanup_recovery = FALSE,
                               !.next_restart = FALSE]
  <2>1. CASE CompleteExit
    BY <1>6, <2>1, CompleteExitSafe DEF AttachedDisappears, Polling, Missing
  <2>2. CASE ~CompleteExit
    <3>1. PICK n \in 0..1 : MarkUnverified(Unconfirmed(process.inst), l, n)
      BY <1>6, <2>2 DEF AttachedDisappears
    <3>2. /\ Unconfirmed(process.inst) \in ProcessRecord /\ l \in Life
          /\ Unconfirmed(process.inst).inst = process.inst
          /\ Armed(l) => Armed(life)
      BY DEF TypeOK, Process, ProcessRecord, Unconfirmed, Life, Armed
    <3>3. /\ pc = "idle" /\ Managed /\ gate.loaded /\ pending.exit = "none"
          /\ runtime.process.inst = process.inst /\ ~runtime.marker
          /\ ~Armed(life)
      BY <1>6 DEF AttachedDisappears, Polling
    <3>4. UNCHANGED <<osVars, pending>> /\ pc' = "idle" /\ process' = NoProcess
      BY <1>6, <2>2 DEF AttachedDisappears, Return
    <3> HIDE DEF l
    <3>5. /\ LiveIsEvidenced' /\ Coherent(gate') /\ gate'.loaded
          /\ runtime'.process.inst = process.inst /\ ~runtime'.marker
          /\ unverified' /\ (Armed(life') => Armed(l))
      BY <3>1, <3>2, <3>3, <3>4, MarkUnverifiedEffect DEF osVars
    <3> QED BY <1>1, <3>2, <3>3, <3>4, <3>5 DEF osVars, NoProcess
  <2> QED BY <2>1, <2>2
<1>7. CASE AfterExplicitExit \/ AfterUnexpectedExit
  <2>1. /\ pc \in {"exited_explicit", "exited_unexpected"}
        /\ UNCHANGED <<osVars, ownVars, runtime, pending>>
    BY <1>7 DEF AfterExplicitExit, AfterUnexpectedExit
  <2>2. Free /\ gate.loaded /\ pending.exit = "none"
    BY <2>1
  <2>3. PICK e \in BOOLEAN : Notify(e, runtime, gate, 0)
    BY <1>7 DEF AfterExplicitExit, AfterUnexpectedExit
  <2>4. /\ LiveIsEvidenced' /\ Coherent(gate') /\ gate'.loaded = gate.loaded
        /\ runtime.marker => (gate'.clearReq <=> gate.clearReq)
    BY <1>1, <2>1, <2>2, <2>3, NotifyEffect DEF osVars
  <2>5. pc' = "idle" \/ pc' = "start"
    BY <1>7 DEF AfterExplicitExit, AfterUnexpectedExit, Return, Call
  <2> QED BY <1>1, <2>1, <2>2, <2>4, <2>5, QuietStep DEF osVars, ownVars
<1> QED BY <1>2, <1>3, <1>4, <1>5, <1>6, <1>7 DEF PollStep

LEMMA StartSafe == IInv /\ StartStep => IInv'
<1> SUFFICES ASSUME IInv, StartStep PROVE IInv'
  OBVIOUS
<1>1. TypeOK' /\ gate \in Gate /\ runtime \in RuntimeState
  BY StartTypes DEF TypeOK
<1>2. CASE StartDeferred
  <2>1. /\ gate'.loaded = gate.loaded /\ gate'.reliable = gate.reliable
        /\ gate'.clearReq = gate.clearReq /\ Coherent(gate')
        /\ (~gate.loaded => gate' = gate)
    BY <1>1, <1>2 DEF StartDeferred, Gate, Coherent
  <2>2. pending'.exit = pending.exit /\ (~gate.loaded => pending' = pending)
    BY <1>2 DEF StartDeferred, TypeOK, Pending
  <2>3. Armed(life') => Armed(life)
    BY <1>2 DEF StartDeferred, In, TypeOK, Life, Armed
  <2> QED BY <1>1, <1>2, <2>1, <2>2, <2>3, QuietStep
          DEF StartDeferred, StartVars, Return, osVars, ownVars, LiveIsEvidenced
<1>3. CASE StartWithoutConfig \/ StartWithoutAccess
  <2>1. PICK n \in {0, 1} : StartRefusedWith(n)
    BY <1>3 DEF StartWithoutConfig, StartWithoutAccess
  <2>2. pc = "start" /\ Ready(runtime, gate)
    BY <1>3 DEF StartWithoutConfig, StartWithoutAccess
  <2>3. gate.loaded /\ gate.reliable /\ Free /\ pending.exit = "none"
    BY <2>2 DEF Ready
  <2>4. UNCHANGED <<osVars, ownVars, runtime, pending>> /\ pc' = "idle"
    BY <2>1 DEF StartRefusedWith, StartVars, Return
  <2>5. PICK e \in BOOLEAN : Notify(e, runtime, gate, n)
    BY <2>1 DEF StartRefusedWith
  <2>6. /\ LiveIsEvidenced' /\ Coherent(gate') /\ gate'.loaded = gate.loaded
        /\ runtime.marker => (gate'.clearReq <=> gate.clearReq)
    BY <1>1, <2>3, <2>4, <2>5, NotifyEffect DEF osVars
  <2> QED BY <1>1, <2>2, <2>3, <2>4, <2>6, QuietStep DEF osVars, ownVars
<1>4. CASE StartAwaitsRead
  BY <1>1, <1>4, QuietStep
     DEF StartAwaitsRead, StartVars, Return, osVars, storeVars, ownVars,
         LiveIsEvidenced
<1>5. CASE BeginLaunch
  <2> DEFINE rs == [runtime EXCEPT !.marker = TRUE]
  <2>1. PICK o \in Outcomes :
          /\ Write(rs, o, 0)
          /\ gate' = [SavedGate(gate, rs, o) EXCEPT
                        !.clearReq = @ \/ o = "Uncertain"]
          /\ runtime' = IF o = "Failed" THEN runtime ELSE rs
          /\ (o = "Durable") => pc' = "spawn" /\ pending' = pending
                                /\ UNCHANGED life
          /\ (o # "Durable") => pc' = "idle" /\ life' = In("Failed")
          /\ pending' \in {pending, [pending EXCEPT !.convergence = trigger]}
    BY <1>5 DEF BeginLaunch, Return
  <2>2. /\ rs \in RuntimeState /\ rs.marker /\ rs.process = runtime.process
        /\ o \in SaveOutcomes /\ o \in {"Durable", "Failed", "Uncertain"}
        /\ pending'.exit = pending.exit
    BY <2>1, OutcomeTypes DEF TypeOK, RuntimeState, Pending, Outcomes
  <2>3. /\ gate.loaded /\ gate.reliable /\ ~gate.clearReq /\ ~runtime.marker
        /\ Free /\ pending.exit = "none" /\ ~gate.retry
    BY <1>5 DEF BeginLaunch, Ready, Unfinalized, Coherent
  <2>4. \A i \in Inst : ~Alive(i)
    BY <1>5, <2>3, NoInstAssumption DEF BeginLaunch
  <2>5. UNCHANGED <<leader, ownVars>>
    BY <1>5 DEF BeginLaunch, StartVars, osVars
  <2>6. (o = "Durable") => disk'.visible = rs
    BY <2>1 DEF Write, SavedDisk
  <2>7. /\ gate'.loaded
        /\ (o = "Durable") => ~gate'.clearReq /\ gate'.reliable /\ ~gate'.retry
        /\ (o # "Durable") => ~gate'.reliable
        /\ (o = "Uncertain") => gate'.clearReq
    BY <1>1, <2>1, <2>2, <2>3 DEF SavedGate, Gate
  <2>8. Armed(life') => Armed(life)
    BY <2>1 DEF TypeOK, Life, In, Armed
  <2> HIDE DEF rs
  <2>9. OneServer' /\ LiveIsEvidenced' /\ MemoryEvidence' /\ LiveIsHeld'
    BY <2>4, <2>5 DEF LiveIsEvidenced
  <2>10. StartIsFree' /\ HeldIsRecorded' /\ GateIsClosed'
    BY <2>1, <2>2, <2>3, <2>4, <2>5, <2>7, <2>8 DEF ownVars, Coherent
  <2>11. LaunchIsMarked'
    BY <2>1, <2>2, <2>3, <2>4, <2>5, <2>6, <2>7 DEF ownVars
  <2> QED BY <1>1, <2>9, <2>10, <2>11
<1>6. ASSUME NEW i \in Inst, NEW as \in Process, NEW left,
             NEW state \in {"alive", "exited"},
             as.kind = "child", as.inst = i,
             (as.cleanup # "none") => state # "alive",
             Spawn(i, as, state, left)
      PROVE  IInv'
  <2>1. /\ pc = "spawn" /\ pc' = "commit" /\ spawned' = as
        /\ leader' = [leader EXCEPT ![i] = state]
        /\ UNCHANGED <<storeVars, ownVars, life>>
    BY <1>6 DEF Spawn
  <2>2. \A j \in Inst : Alive(j)' => j = i
    BY <2>1 DEF TypeOK
  <2>3. (as.cleanup # "none") => ~Alive(i)'
    BY <1>6, <2>1 DEF TypeOK
  <2>4. \A j \in Inst : process.inst # j
    BY <2>1, NoInstAssumption
  <2> QED BY <1>1, <1>6, <2>1, <2>2, <2>3, <2>4
          DEF LiveIsEvidenced, storeVars, ownVars
<1>7. CASE SpawnConfirmed
  BY <1>6, <1>7, ProcessTypes DEF SpawnConfirmed, Child
<1>8. CASE SpawnSurvivor
  BY <1>6, <1>8, ProcessTypes DEF SpawnSurvivor, Child
<1>9. CASE SpawnFails
  <2> DEFINE rs == [runtime EXCEPT !.marker = FALSE]
             g  == [gate EXCEPT !.clearReq = TRUE]
  <2>1. PICK o \in MetadataOutcomes, m \in SaveOutcomes :
          gate' = SavedGate(SavedGate(g, rs, o), rs, m)
    BY <1>9 DEF SpawnFails
  <2>2. pc = "spawn" /\ pc' = "idle" /\ runtime' = rs /\ pending' = pending
        /\ UNCHANGED <<leader, ownVars>>
    BY <1>9 DEF SpawnFails, Return, StartVars, osVars
  <2>3. /\ Free /\ gate.loaded /\ pending.exit = "none"
        /\ \A i \in Inst : ~Alive(i)
    BY <2>2
  <2>4. ~rs.marker /\ g \in Gate /\ g.loaded /\ Coherent(g) /\ rs \in RuntimeState
        /\ rs.process = runtime.process
    BY <1>1, <2>3, RuntimeTypes DEF RuntimeState, Gate, Coherent
  <2> HIDE DEF rs, g
  <2>5. gate'.loaded /\ Coherent(gate')
    <3>1. SavedGate(g, rs, o) \in Gate /\ SavedGate(g, rs, o).loaded
          /\ Coherent(SavedGate(g, rs, o))
      BY <2>1, <2>4, OutcomeTypes, SavedTypes, GateSaved DEF TypeOK
    <3> QED BY <2>1, <2>4, <3>1, GateSaved
  <2> QED BY <1>1, <2>2, <2>3, <2>4, <2>5 DEF LiveIsEvidenced, ownVars
<1>10. CASE CommitSpawned
  <2> DEFINE rs == [runtime EXCEPT !.process = Record(spawned), !.marker = FALSE]
             g  == [gate EXCEPT !.clearReq = TRUE]
  <2>1. PICK o \in MetadataOutcomes :
          /\ Write(rs, o, 0)
          /\ gate' = SavedGate(g, rs, o)
    BY <1>10 DEF CommitSpawned
  <2>2. /\ pc = "commit" /\ pc' = "idle" /\ process' = spawned
        /\ runtime' = rs /\ UNCHANGED <<leader, pending, unverified>>
    BY <1>10 DEF CommitSpawned, Return, osVars
  <2>3. /\ Free /\ gate.loaded /\ pending.exit = "none"
        /\ spawned.kind = "child"
        /\ \A i \in Inst : Alive(i) => spawned.inst = i
        /\ (spawned.cleanup # "none") =>
             ~(spawned.inst \in Inst /\ Alive(spawned.inst))
    BY <2>2
  <2>4. /\ ~rs.marker /\ rs.process.inst = spawned.inst /\ rs \in RuntimeState
        /\ g \in Gate /\ g.loaded /\ Coherent(g) /\ o \in SaveOutcomes
    BY <1>1, <2>1, <2>3, OutcomeTypes
       DEF TypeOK, RuntimeState, ProcessRecord, Record, Process, Gate, Coherent
  <2> HIDE DEF rs, g
  <2>5. gate'.loaded /\ Coherent(gate')
    BY <2>1, <2>4, GateSaved
  <2>6. LiveIsEvidenced'
    BY <2>1, <2>2, <2>3, <2>4, Evidenced
  <2> QED BY <1>1, <2>2, <2>3, <2>4, <2>5, <2>6
<1> QED BY <1>2, <1>3, <1>4, <1>5, <1>7, <1>8, <1>9, <1>10 DEF StartStep

LEMMA DiscardEffect ==
  ASSUME IInv, NEW o \in Outcomes, Discard(o), gate.loaded,
         \A i \in Inst : ~Alive(i), leader' = leader, ~runtime.marker
  PROVE  /\ OneServer' /\ LiveIsEvidenced' /\ MemoryEvidence' /\ LiveIsHeld'
         /\ gate'.loaded /\ Coherent(gate') /\ ~runtime'.marker
         /\ gate'.clearReq => gate.clearReq
         /\ pending'.exit = pending.exit
         /\ o # "Failed" => ~unverified'
         /\ runtime'.process \in {NoRecord, runtime.process}
<1> DEFINE cleared == [runtime EXCEPT !.process = NoRecord]
<1>1. cleared \in RuntimeState /\ ~cleared.marker /\ cleared.process = NoRecord
  BY RuntimeTypes DEF TypeOK, RuntimeState
<1>2. gate' = SavedGate(gate, cleared, o) /\ runtime' \in {runtime, cleared}
      /\ unverified' = (o = "Failed")
  BY DEF Discard
<1>3. pending'.exit = pending.exit
  BY DEF Discard, TypeOK, Pending
<1> HIDE DEF cleared
<1>4. gate'.loaded /\ Coherent(gate') /\ (gate'.clearReq => gate.clearReq)
  BY <1>1, <1>2, OutcomeTypes, GateSaved DEF TypeOK
<1> QED BY <1>1, <1>2, <1>3, <1>4 DEF LiveIsEvidenced

LEMMA TimerSafe == IInv /\ TimerStep => IInv'
<1> SUFFICES ASSUME IInv, TimerStep PROVE IInv'
  OBVIOUS
<1>1. TypeOK'
  BY TimerTypes
<1>2. CASE CheckUnverified
  <2>1. PICK o \in Outcomes :
          /\ Discard(o)
          /\ (o # "Durable") => pc' = "idle" /\ life' = In("Failed")
          /\ pc' \in {"idle", "start"}
    BY <1>2 DEF CheckUnverified, Return, Call
  <2>2. /\ pc = "idle" /\ gate.loaded /\ ~Managed /\ unverified
        /\ UNCHANGED <<osVars, process>> /\ ~Alive(runtime.process.inst)
    BY <1>2 DEF CheckUnverified, UnverifiedGone, GroupGone
  <2>3. ~runtime.marker /\ ~Armed(life) /\ pending.exit = "none"
    BY <2>2 DEF TypeOK
  <2>4. \A i \in Inst : ~Alive(i)
    BY <2>2, <2>3, NoInstAssumption
  <2>5. /\ OneServer' /\ LiveIsEvidenced' /\ MemoryEvidence' /\ LiveIsHeld'
        /\ gate'.loaded /\ Coherent(gate') /\ ~runtime'.marker
        /\ pending'.exit = "none"
        /\ o # "Failed" => ~unverified'
    BY <2>1, <2>2, <2>3, <2>4, DiscardEffect DEF osVars
  <2>6. (o # "Durable") => ~Armed(life')
    BY <2>1, <2>3 DEF TypeOK, Life, In, Armed
  <2> QED BY <1>1, <2>1, <2>2, <2>4, <2>5, <2>6 DEF osVars
<1>3. CASE RestartDue \/ PortRetryDue
  <2>1. Armed(life) /\ ~Managed /\ pc = "idle" /\ pc' = "start"
        /\ UNCHANGED <<osVars, storeVars, ownVars>>
    BY <1>3 DEF RestartDue, PortRetryDue, Armed, Call
  <2>2. Free
    BY <2>1
  <2> QED BY <1>1, <2>1, <2>2, QuietStep
          DEF osVars, storeVars, ownVars, LiveIsEvidenced
<1>4. CASE StopTimesOut
  <2>1. Armed(life') => Armed(life)
    BY <1>4 DEF StopTimesOut, In, TypeOK, Life, Armed
  <2> QED BY <1>1, <1>4, <2>1, QuietStep
          DEF StopTimesOut, osVars, storeVars, ownVars, LiveIsEvidenced
<1> QED BY <1>2, <1>3, <1>4 DEF TimerStep

LEMMA HealthSafe == IInv /\ HealthStep => IInv'
<1> SUFFICES ASSUME IInv, HealthStep PROVE IInv'
  OBVIOUS
<1>1. TypeOK' /\ gate \in Gate /\ runtime \in RuntimeState
  BY HealthTypes DEF TypeOK
<1>2. CASE StableRun
  <2>1. Armed(life') => Armed(life)
    BY <1>2 DEF StableRun, TypeOK, Life, Armed
  <2> QED BY <1>1, <1>2, <2>1, QuietStep
          DEF StableRun, osVars, storeVars, ownVars, LiveIsEvidenced
<1>3. CASE HealthyAnswer \/ UnhealthyAnswer \/ StaleHealthyAnswer
  <2> DEFINE recorded == [runtime EXCEPT !.process = Record(process)]
  <2>1. /\ pc = "idle" /\ pc' = "idle" /\ Managed /\ gate.loaded
        /\ UNCHANGED <<osVars, pending, unverified>>
    BY <1>3 DEF HealthyAnswer, UnhealthyAnswer, StaleHealthyAnswer,
                HealthApplicable, Ready, ownVars
  <2>2. /\ recorded \in RuntimeState /\ recorded.marker = runtime.marker
        /\ recorded.process.inst = process.inst
    BY RuntimeTypes DEF TypeOK, RuntimeState, Process, Record
  <2>3. PICK o \in SaveOutcomes, rs \in {runtime, recorded}, n \in {0, 1} :
          /\ Write(rs, o, n)
          /\ gate' = SavedGate(gate, rs, o)
          /\ runtime' = rs
    BY <1>3, OutcomeTypes
       DEF HealthyAnswer, UnhealthyAnswer, StaleHealthyAnswer, SaveOutcomes
  <2>4. process'.inst = process.inst /\ process'.cleanup = process.cleanup
        /\ process'.kind = process.kind
    BY <1>3 DEF HealthyAnswer, UnhealthyAnswer, StaleHealthyAnswer, ownVars,
                TypeOK, Process
  <2>5. Armed(life') => Armed(life)
    BY <1>3 DEF HealthyAnswer, UnhealthyAnswer, StaleHealthyAnswer, In, TypeOK,
                Life, Armed
  <2> HIDE DEF recorded
  <2>6. LiveIsEvidenced'
    BY <1>1, <2>1, <2>2, <2>3, Evidenced DEF osVars
  <2>7. /\ gate'.loaded = gate.loaded /\ Coherent(gate')
        /\ runtime.marker => (gate'.clearReq <=> gate.clearReq)
    BY <1>1, <2>2, <2>3, GateSaved
  <2> QED BY <1>1, <2>1, <2>2, <2>3, <2>4, <2>5, <2>6, <2>7, QuietStep
          DEF osVars
<1> QED BY <1>2, <1>3 DEF HealthStep

LEMMA CredentialSafe == IInv /\ CredentialStep => IInv'
<1> SUFFICES ASSUME IInv, CredentialStep PROVE IInv'
  OBVIOUS
<1>1. TypeOK'
  BY CredentialTypes
<1>2. UNCHANGED <<osVars, storeVars, ownVars, spawned>>
  BY DEF CredentialStep, AccessLost, AccessNotNeeded, RequestRead,
         PasswordApplied, ReadWithoutPassword, CredVars
<1>3. CASE PasswordApplied
  <2>1. Armed(life') => Armed(life)
    BY <1>3 DEF PasswordApplied, Disarmed, TypeOK, Life, Armed
  <2> QED BY <1>1, <1>2, <1>3, <2>1, QuietStep
          DEF PasswordApplied, Call, osVars, storeVars, ownVars, LiveIsEvidenced
<1>4. CASE UNCHANGED <<life, pc>>
  BY <1>1, <1>2, <1>4 DEF osVars, storeVars, ownVars, LiveIsEvidenced
<1> QED BY <1>3, <1>4 DEF CredentialStep, AccessLost, AccessNotNeeded,
                          RequestRead, ReadWithoutPassword

LEMMA AttachEffect ==
  ASSUME IInv, NEW b, NEW u \in BOOLEAN, NEW s, NEW n, Attach(b, u, s, n),
         pc \in {"reattach", "probe"}, leader' = leader
  PROVE  /\ LiveIsEvidenced' /\ Coherent(gate') /\ gate'.loaded
         /\ ~gate'.clearReq /\ runtime' = runtime /\ pending' = pending
         /\ process'.kind = "attached" /\ process'.cleanup = "none"
         /\ process'.inst = runtime.process.inst /\ ~Armed(life')
<1>1. runtime \in RuntimeState /\ gate \in Gate /\ life \in Life
  BY DEF TypeOK
<1>2. PICK o \in MetadataOutcomes :
        /\ Write(runtime, o, n)
        /\ gate' = SavedGate(gate, runtime, o)
        /\ life' \in {In(s), In("Failed")}
  BY DEF Attach
<1>3. gate.loaded /\ ~gate.clearReq /\ Coherent(gate) /\ ~Armed(life)
  BY DEF TypeOK
<1>4. o \in SaveOutcomes
  BY <1>2, OutcomeTypes
<1>5. LiveIsEvidenced'
  BY <1>1, <1>2, <1>3, Evidenced
<1>6. Coherent(gate') /\ gate'.loaded /\ ~gate'.clearReq
  BY <1>1, <1>2, <1>3, <1>4, GateSaved DEF Gate
<1>7. ~Armed(life')
  BY <1>1, <1>2, <1>3 DEF In, Life, Armed
<1> QED BY <1>5, <1>6, <1>7 DEF Attach, Attached

(* What the reattachment of a recorded process may leave.                  *)
LEMMA ReattachSafe ==
  ASSUME IInv, TypeOK', pc \in {"reattach", "probe"}, pc' = "converge",
         UNCHANGED osVars,
         \/ \E n \in {0, 1} : Block(n)
         \/ Forget /\ ~Alive(runtime.process.inst)
         \/ Attach("none", TRUE, "Failed", 1)
         \/ Attach("stale", FALSE, "Unhealthy", 1)
         \/ Attach("active", FALSE, "Healthy", 0)
  PROVE  IInv'
<1>1. /\ gate.loaded /\ ~gate.clearReq /\ ~runtime.marker /\ Free
      /\ pending.exit = "none" /\ ~Armed(life) /\ leader' = leader
  BY DEF osVars
<1>2. CASE \E n \in {0, 1} : Block(n)
  <2>1. PICK n \in {0, 1} : Block(n)
    BY <1>2
  <2>2. runtime.process \in ProcessRecord /\ life \in Life
    BY DEF TypeOK, RuntimeState
  <2>3. /\ LiveIsEvidenced' /\ Coherent(gate') /\ gate'.loaded
        /\ ~gate'.clearReq /\ unverified' /\ ~runtime'.marker
        /\ runtime'.process.inst = runtime.process.inst /\ ~Armed(life')
    BY <1>1, <2>1, <2>2, MarkUnverifiedEffect DEF Block
  <2>4. process' = process /\ pending' = pending
    BY <2>1 DEF Block
  <2> QED BY <1>1, <2>3, <2>4
<1>3. CASE Forget /\ ~Alive(runtime.process.inst)
  <2>1. PICK o \in Outcomes : Discard(o)
    BY <1>3 DEF Forget
  <2>2. \A i \in Inst : ~Alive(i)
    BY <1>1, <1>3
  <2>3. process' = process /\ ~Armed(life')
    BY <1>1, <1>3 DEF Forget, In, TypeOK, Life, Armed
  <2>4. /\ OneServer' /\ LiveIsEvidenced' /\ MemoryEvidence' /\ LiveIsHeld'
        /\ gate'.loaded /\ Coherent(gate') /\ ~runtime'.marker
        /\ ~gate'.clearReq /\ pending'.exit = "none"
    BY <1>1, <2>1, <2>2, DiscardEffect
  <2> QED BY <1>1, <2>3, <2>4
<1>4. CASE \/ Attach("none", TRUE, "Failed", 1)
           \/ Attach("stale", FALSE, "Unhealthy", 1)
           \/ Attach("active", FALSE, "Healthy", 0)
  <2>1. /\ LiveIsEvidenced' /\ Coherent(gate') /\ gate'.loaded
        /\ ~gate'.clearReq /\ runtime' = runtime /\ pending' = pending
        /\ process'.kind = "attached" /\ process'.cleanup = "none"
        /\ process'.inst = runtime.process.inst /\ ~Armed(life')
    BY <1>1, <1>4, AttachEffect
  <2> QED BY <1>1, <2>1
<1> QED BY <1>2, <1>3, <1>4

LEMMA BootSafe == IInv /\ BootStep => IInv'
<1> SUFFICES ASSUME IInv, BootStep PROVE IInv'
  OBVIOUS
<1>1. TypeOK' /\ gate \in Gate /\ runtime \in RuntimeState
  BY BootTypes DEF TypeOK
<1>2. CASE Boot
  <2>1. /\ Free /\ pending.exit = "none" /\ ~Armed(life) /\ pc = "down"
        /\ UNCHANGED <<leader, disk, ownVars, pending>>
    BY <1>2 DEF Boot, BootVars, osVars
  <2>2. /\ runtime' = disk.visible /\ gate'.loaded /\ ~gate'.clearReq
        /\ Coherent(gate')
    BY <1>2 DEF Boot, Loaded, Coherent
  <2>3. ~Armed(life')
    BY <1>2, <2>1 DEF Boot, In, TypeOK, Life, Armed
  <2>4. \/ runtime'.marker /\ pc' = "idle"
        \/ ~runtime'.marker /\ pc' = "reattach"
        \/ /\ ~runtime'.marker /\ pc' = "converge"
           /\ runtime'.process = NoRecord
    BY <1>2 DEF Boot, Return, Goto
  <2>5. LiveIsEvidenced'
    BY <2>1 DEF LiveIsEvidenced
  <2>6. \A i \in Inst : Alive(i) =>
          disk.visible.marker \/ disk.visible.process.inst = i
    BY DEF LiveIsEvidenced
  <2>7. (pc' = "converge") => \A i \in Inst : ~Alive(i)
    BY <2>2, <2>4, <2>6, NoInstAssumption DEF NoRecord
  <2>8. OneServer' /\ MemoryEvidence' /\ LiveIsHeld'
    BY <2>1, <2>2, <2>4, <2>6, <2>7
  <2>9. StartIsFree' /\ LaunchIsMarked' /\ GateIsClosed' /\ HeldIsRecorded'
    BY <2>1, <2>2, <2>3, <2>4 DEF ownVars
  <2> QED BY <1>1, <2>5, <2>8, <2>9
<1>3. CASE BootUnreadable
  <2>1. /\ Free /\ pending.exit = "none" /\ ~Armed(life)
        /\ UNCHANGED <<leader, disk, ownVars, pending>> /\ pc' = "idle"
    BY <1>3 DEF BootUnreadable, BootVars, osVars, Return
  <2>2. /\ ~runtime'.marker /\ ~gate'.loaded /\ ~gate'.clearReq
        /\ ~gate'.retry /\ ~gate'.reliable
    BY <1>3 DEF BootUnreadable, Default, Unloaded
  <2>3. ~Armed(life')
    BY <1>3, <2>1 DEF BootUnreadable, In, TypeOK, Life, Armed
  <2> QED BY <1>1, <2>1, <2>2, <2>3 DEF LiveIsEvidenced, ownVars, Coherent
<1>4. CASE Inspect
  <2>1. pc = "reattach" /\ pc' = "converge" /\ UNCHANGED osVars
    BY <1>4 DEF Inspect, Goto, ReattachVars
  <2>2. \/ \E n \in {0, 1} : Block(n)
        \/ Forget /\ ~Alive(runtime.process.inst)
        \/ Attach("none", TRUE, "Failed", 1)
        \/ Attach("stale", FALSE, "Unhealthy", 1)
    BY <1>4 DEF Inspect, GroupGone
  <2> QED BY <1>1, <2>1, <2>2, ReattachSafe
<1>5. CASE InspectMatches
  BY <1>1, <1>5 DEF InspectMatches, Goto, osVars, storeVars, ownVars,
                    LiveIsEvidenced
<1>6. CASE Probe
  <2>1. pc = "probe" /\ pc' = "converge" /\ UNCHANGED osVars
    BY <1>6 DEF Probe, Goto, ReattachVars
  <2>2. \/ \E n \in {0, 1} : Block(n)
        \/ Forget /\ ~Alive(runtime.process.inst)
        \/ Attach("active", FALSE, "Healthy", 0)
        \/ Attach("none", TRUE, "Failed", 1)
    BY <1>6 DEF Probe
  <2> QED BY <1>1, <2>1, <2>2, ReattachSafe
<1>7. CASE Converge
  <2>1. /\ pc = "converge" /\ gate.loaded /\ ~runtime.marker
        /\ ~gate.clearReq /\ pending.exit = "none"
        /\ UNCHANGED <<osVars, ownVars>>
    BY <1>7 DEF Converge
  <2>2. CASE ~Managed /\ ~unverified
    <3> DEFINE rs == [runtime EXCEPT !.process = NoRecord]
               p  == IF pending.convergence # "none" THEN pending
                     ELSE [pending EXCEPT !.convergence =
                             IF rs.desired = "Running" THEN "Cold" ELSE "Stop"]
    <3>1. PICK o \in Outcomes :
            /\ Write(rs, o, 0) /\ gate' = SavedGate(gate, rs, o)
            /\ runtime' = rs /\ pending' = p
            /\ life' \in {life, In("Failed")} /\ Resumed(o)
      BY <1>7, <2>2 DEF Converge
    <3>2. /\ rs \in RuntimeState /\ ~rs.marker /\ o \in SaveOutcomes
          /\ pending'.exit = "none"
      BY <2>1, <3>1, OutcomeTypes, RuntimeTypes
         DEF TypeOK, RuntimeState, Pending
    <3> HIDE DEF rs, p
    <3>3. \A i \in Inst : ~Alive(i)
      BY <2>1, <2>2, NoInstAssumption
    <3>4. gate'.loaded /\ Coherent(gate') /\ ~gate'.clearReq
      BY <1>1, <2>1, <3>1, <3>2, GateSaved DEF Gate
    <3>5. pc' \in {"idle", "resume"}
      BY <3>1 DEF Resumed, Goto, Return
    <3> QED BY <1>1, <2>1, <2>2, <3>1, <3>2, <3>3, <3>4, <3>5
            DEF osVars, ownVars, LiveIsEvidenced
  <2>3. CASE Managed /\ runtime.desired = "Stopped"
    <3>1. PICK n \in 0..1 : BeginStop(FALSE, runtime, gate, pending, life, n)
      BY <1>7, <2>3 DEF Converge
    <3>2. disk' = disk /\ runtime' = runtime
      BY <1>7, <2>3 DEF Converge
    <3>3. pending \in Pending /\ life \in Life
      BY DEF TypeOK
    <3>4. /\ gate'.loaded /\ ~gate'.clearReq /\ Coherent(gate')
          /\ pending'.exit = "none" /\ (Armed(life') => Armed(life))
          /\ pc' = "idle" \/ (pc' = "start" /\ Free)
      BY <1>1, <2>1, <3>1, <3>3, BeginStopEffect
    <3> QED BY <1>1, <2>1, <2>3, <3>2, <3>4
            DEF osVars, ownVars, LiveIsEvidenced
  <2>4. CASE UNCHANGED <<storeVars, life>> /\ pc' = "idle"
    BY <1>1, <2>1, <2>4 DEF osVars, storeVars, ownVars, LiveIsEvidenced
  <2> QED BY <1>7, <2>2, <2>3, <2>4 DEF Converge, Return
<1> QED BY <1>2, <1>3, <1>4, <1>5, <1>6, <1>7 DEF BootStep

LEMMA OsSafe == IInv /\ OsStep => IInv'
<1> SUFFICES ASSUME IInv, OsStep PROVE IInv'
  OBVIOUS
<1>1. TypeOK'
  BY OsTypes
<1>2. \A i \in Inst : Alive(i)' => Alive(i)
  BY DEF OsStep, LeaderExits, ResidueExits, LeaderEscapes, PidReused,
         ForeignExits, AgentExits, PowerLoss, TypeOK
<1>3. CASE UNCHANGED AgentVars
  BY <1>1, <1>2, <1>3, NoInstAssumption
     DEF AgentVars, storeVars, ownVars, LiveIsEvidenced, TypeOK, Process
<1>4. CASE MemoryLost
  <2>1. LiveIsEvidenced'
    BY <1>2, <1>4 DEF OsStep, LeaderExits, ResidueExits, LeaderEscapes,
       PidReused, ForeignExits, AgentExits, PowerLoss, AgentVars, MemoryLost,
       LiveIsEvidenced, storeVars, Goto
  <2>2. ~Armed(life')
    BY <1>4 DEF MemoryLost, InitialLife, Armed
  <2> QED BY <1>1, <1>2, <1>4, <2>1, <2>2
          DEF MemoryLost, Goto, NoProcess, NothingPending, Unloaded, Default,
              Coherent
<1> QED BY <1>3, <1>4 DEF OsStep, LeaderExits, ResidueExits, LeaderEscapes,
                          PidReused, ForeignExits, AgentExits, PowerLoss

LEMMA InitSafe == Init => IInv
<1> SUFFICES ASSUME Init PROVE IInv
  OBVIOUS
<1>1. \A i \in Inst : ~Alive(i)
  BY DEF Init
<1>2. ~Armed(life)
  BY DEF Init, InitialLife, Armed
<1> QED BY <1>1, <1>2, InitTypes
        DEF Init, NoProcess, NothingPending, Unloaded, Default, Coherent,
            LiveIsEvidenced

HIDE DEF IInv, OneServer, MemoryEvidence, LiveIsHeld, StartIsFree,
         LaunchIsMarked, GateIsClosed, HeldIsRecorded, Free, Alive, Blocked,
         Managed

(* The agent's memory, its file and the processes that live stay in step   *)
(* through every handler of the loop, every failed or uncertain save, and  *)
(* every exit of the agent or loss of power.                               *)
THEOREM Invariant == Spec => []IInv
<1>1. IInv /\ [Next]_vars => IInv'
  <2>1. IInv /\ UNCHANGED vars => IInv'
    BY DEF vars, IInv, TypeOK, OneServer, LiveIsEvidenced, MemoryEvidence,
           LiveIsHeld, StartIsFree, LaunchIsMarked, GateIsClosed,
           HeldIsRecorded, Free, Alive, Blocked, Managed, Coherent
  <2> QED BY <2>1, StartSafe, RetrySafe, PollSafe, TimerSafe, BootSafe,
             HealthSafe, CredentialSafe, UserSafe, OsSafe DEF Next
<1> QED BY InitSafe, <1>1, PTL DEF Spec

(* start_now never runs a second OpenCode beside a live one.               *)
THEOREM OneServerHolds == Spec => []OneServer
<1>1. IInv => OneServer
  BY DEF IInv
<1> QED BY Invariant, <1>1, PTL

(* No crash of the agent makes it forget a live OpenCode: state.json holds *)
(* its record or the marker of the launch that started it.                 *)
THEOREM LiveIsEvidencedHolds == Spec => []LiveIsEvidenced
<1>1. IInv => LiveIsEvidenced
  BY DEF IInv
<1> QED BY Invariant, <1>1, PTL
=============================================================================

------------------------ MODULE SupervisorInvariant -------------------------
(***************************************************************************)
(* What a reader of state.json may rely on (the abstract specification     *)
(* Custody), and the inductive invariant behind it: what the memory of the *)
(* agent and the file know of every live OpenCode at each point of the     *)
(* event loop.                                                             *)
(***************************************************************************)
EXTENDS Supervisor

LiveLeaders == {i \in Inst : leader[i] = "alive"}

Promise == INSTANCE Custody WITH
  alive <- LiveLeaders, announced <- disk.visible.marker,
  recorded <- disk.visible.process.inst

(* The event loop, with its crashes and failed saves, only ever launches a *)
(* server that is announced and alone, and keeps the evidence of it.       *)
KeepsCustody == Promise!Spec

Armed(l) == l.next_restart \/ l.port_retry # "none"

Coherent(g) == g.retry => ~g.reliable \/ g.clearReq

Alive(i) == leader[i] = "alive"

(* The memory of a running agent knows as much as the file.                *)
MemoryEvidence ==
  gate.loaded => \A i \in Inst :
    Alive(i) => runtime.marker \/ runtime.process.inst = i

(* Outside boot and launch a live process is managed or unverified, unless *)
(* a leftover marker blocks the agent.                                     *)
LiveIsHeld ==
  (gate.loaded /\ pc \notin {"reattach", "probe", "commit"} /\ ~Blocked) =>
    \A i \in Inst : Alive(i) =>
      process.inst = i \/ (unverified /\ runtime.process.inst = i)

(* A start is reached with nothing to lose: no process, no unverified      *)
(* record; nor is there one while an exit or a timed start waits.          *)
Free == ~Managed /\ ~unverified

StartIsFree ==
  /\ (pc \in {"start", "spawn", "commit", "exited_explicit",
             "exited_unexpected", "reattach", "probe"}) => Free
  /\ (pending.exit # "none") => Free
  /\ Armed(life) => Free \/ process.kind = "child"
  /\ (pc \in {"down", "reattach", "probe"}) => ~Armed(life)

LaunchIsMarked ==
  /\ (pc \in {"spawn", "commit"}) =>
       /\ runtime.marker /\ ~gate.clearReq /\ pending.exit = "none"
       /\ disk.visible.marker
  /\ (pc = "spawn") => \A i \in Inst : ~Alive(i)
  /\ (pc = "commit") =>
       /\ spawned.kind = "child"
       /\ \A i \in Inst : Alive(i) => spawned.inst = i
       /\ (spawned.cleanup # "none") =>
            ~(spawned.inst \in Inst /\ Alive(spawned.inst))
  /\ (pc \in {"reattach", "probe", "converge"}) =>
       ~runtime.marker /\ ~gate.clearReq
  /\ (pc = "unwind") => gate.clearReq
  /\ runtime.marker => Free

GateIsClosed ==
  /\ Coherent(gate)
  /\ (pending.exit # "none" /\ pc \notin {"unwind", "resume"}) =>
       ~gate.reliable
  /\ ~gate.loaded =>
       /\ Free /\ pc \in {"down", "idle", "start"} /\ pending.exit = "none"
       /\ ~gate.reliable /\ ~gate.retry /\ ~gate.clearReq
  /\ (pc = "down") => ~gate.loaded
  /\ (pc \in {"reattach", "probe", "converge", "exited_explicit",
             "exited_unexpected"}) => pending.exit = "none"

HeldIsRecorded ==
  /\ Managed => runtime.process.inst = process.inst
  /\ ~Managed => process.inst = NoInst
  /\ (process.cleanup # "none") => ~(process.inst \in Inst /\ Alive(process.inst))

IInv ==
  /\ TypeOK /\ OneServer /\ LiveIsEvidenced /\ MemoryEvidence /\ LiveIsHeld
  /\ StartIsFree /\ LaunchIsMarked /\ GateIsClosed /\ HeldIsRecorded
=============================================================================

---------------------------- MODULE RuntimeStore ----------------------------
(***************************************************************************)
(* The agent's persisted state: what one atomic save of state.json leaves  *)
(* on disk and in the durability gate of the supervisor                    *)
(* (rust/src/runtime_state.rs, rust/src/supervisor/runtime_durability.rs). *)
(* Pure operators; the supervisor applies them in its steps.               *)
(***************************************************************************)
EXTENDS Integers

CONSTANTS Inst,     \* OpenCode processes, one per PID and its process group
          NoInst    \* no process

ASSUME NoInstAssumption == NoInst \notin Inst

Desired == {"Running", "Stopped"}

(* What made start_now run; "none" outside a start.                        *)
Triggers == {"Cold", "Recovery", "AfterStop"}

(* ProcessRecord: the PID stands for pid, group and kernel start identity. *)
ProcessRecord == [inst : Inst \cup {NoInst}, unconfirmed : BOOLEAN]

NoRecord == [inst |-> NoInst, unconfirmed |-> FALSE]

(* The file's content. marker is launch_pending; the notification is left  *)
(* out, only the saves it causes are modelled.                             *)
RuntimeState == [desired : Desired, process : ProcessRecord, marker : BOOLEAN]

Default == [desired |-> "Running", process |-> NoRecord, marker |-> FALSE]

(* visible is what a process that opens the file reads; durable is what    *)
(* may come back after the machine lost power.                             *)
Disk == [visible : RuntimeState, durable : RuntimeState]

(* Outcomes of write_json_atomically, and "Skipped" for a metadata save    *)
(* that persist_runtime refuses while a retry is scheduled.                *)
SaveOutcomes == {"Durable", "Failed", "Uncertain", "Skipped"}

(* A failed save leaves the old file; an unsynced rename is visible but    *)
(* not yet durable.                                                        *)
SavedDisk(d, rs, o) ==
  CASE o = "Durable"   -> [visible |-> rs, durable |-> rs]
    [] o = "Uncertain" -> [d EXCEPT !.visible = rs]
    [] OTHER           -> d

(* The gate of runtime_durability.rs: runtime_state_loaded, _reliable,     *)
(* _retry_pending and launch_pending_clear_requested. runtime_state_error  *)
(* is set exactly when Ready is false, so it needs no field of its own.    *)
Gate == [loaded : BOOLEAN, reliable : BOOLEAN, retry : BOOLEAN,
         clearReq : BOOLEAN]

(* Mutant of SavedGate: only a failed save schedules the retry.            *)
UncertainUnscheduled(g, rs, o) ==
  CASE o = "Durable" -> [g EXCEPT !.reliable = TRUE, !.retry = FALSE,
                                  !.clearReq = g.clearReq /\ rs.marker]
    [] o = "Failed"    -> [g EXCEPT !.reliable = FALSE, !.retry = TRUE]
    [] o = "Uncertain" -> [g EXCEPT !.reliable = FALSE]
    [] OTHER           -> g

(* Mutant of SavedGate: a durable save leaves the retry scheduled.         *)
RetryNeverEnds(g, rs, o) ==
  CASE o = "Durable" -> [g EXCEPT !.reliable = TRUE,
                                  !.clearReq = g.clearReq /\ rs.marker]
    [] o \in {"Failed", "Uncertain"} ->
                        [g EXCEPT !.reliable = FALSE, !.retry = TRUE]
    [] OTHER         -> g

SavedGate(g, rs, o) ==
  CASE o = "Durable" -> [g EXCEPT !.reliable = TRUE, !.retry = FALSE,
                                  !.clearReq = g.clearReq /\ rs.marker]
    [] o \in {"Failed", "Uncertain"} ->
                        [g EXCEPT !.reliable = FALSE, !.retry = TRUE]
    [] OTHER         -> g

(* The launch marker still stands between the agent and its next action.   *)
Unfinalized(rs, g) == rs.marker \/ g.clearReq

Ready(rs, g) == g.loaded /\ g.reliable /\ ~Unfinalized(rs, g)
=============================================================================

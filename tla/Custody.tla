------------------------------ MODULE Custody ------------------------------
(***************************************************************************)
(* What the supervisor promises about OpenCode processes, without its      *)
(* event loop, timers, saves and faults: one server is alive at a time,    *)
(* and whoever reads state.json finds evidence of it. A launch is          *)
(* announced before it happens; the announcement is taken back only by a   *)
(* save that leaves no live process unaccounted for.                       *)
(***************************************************************************)
CONSTANTS Inst, NoInst

VARIABLES
  alive,      \* the OpenCode processes that are alive
  announced,  \* the file says that a launch may have happened
  recorded    \* the process the file has a record of

vars == <<alive, announced, recorded>>

Evidence == announced' \in BOOLEAN /\ recorded' \in Inst \cup {NoInst}

Init == alive = {} /\ announced = FALSE /\ recorded = NoInst

Launch ==
  /\ alive = {} /\ announced
  /\ \E i \in Inst : alive' = {i}
  /\ UNCHANGED <<announced, recorded>>

Exit ==
  /\ \E i \in alive : alive' = alive \ {i}
  /\ UNCHANGED <<announced, recorded>>

Save ==
  /\ Evidence
  /\ \A i \in alive : announced' \/ recorded' = i
  /\ UNCHANGED alive

(* The machine loses power: nothing is alive, and the file is an old one.  *)
Outage == Evidence /\ alive' = {}

Next == Launch \/ Exit \/ Save \/ Outage

Spec == Init /\ [][Next]_vars
=============================================================================

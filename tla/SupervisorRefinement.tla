------------------------ MODULE SupervisorRefinement ------------------------
(***************************************************************************)
(* The event loop implements Custody: each of its steps is one of Custody  *)
(* or leaves the processes that live and the evidence of them alone.       *)
(***************************************************************************)
EXTENDS SupervisorSafety

LEMMA InitKeepsCustody == Init => Promise!Init
  BY DEF Init, Promise!Init, LiveLeaders, Default, NoRecord

LEMMA EvidenceTypes ==
  TypeOK' => Promise!Evidence
  BY DEF TypeOK, Promise!Evidence, Disk, RuntimeState, ProcessRecord

(* A spawn happens alone and announced, or its child is gone at once.      *)
LEMMA SpawnKeepsCustody ==
  ASSUME IInv, NEW i \in Inst, NEW as, NEW left,
         NEW state \in {"alive", "exited"}, Spawn(i, as, state, left)
  PROVE  [Promise!Next]_(Promise!vars)
<1>1. /\ LiveLeaders = {} /\ disk.visible.marker /\ disk' = disk
      /\ leader' = [leader EXCEPT ![i] = state]
  BY DEF IInv, LaunchIsMarked, Alive, Spawn, LiveLeaders, storeVars
<1>2. leader \in [Inst -> {"gone", "alive", "exited", "reused"}]
  BY DEF IInv, TypeOK
<1>3. CASE state = "alive"
  <2>1. LiveLeaders' = {i}
    BY <1>1, <1>2, <1>3 DEF LiveLeaders
  <2> QED BY <1>1, <2>1 DEF Promise!Next, Promise!Launch
<1>4. CASE state = "exited"
  <2>1. LiveLeaders' = LiveLeaders
    BY <1>1, <1>2, <1>4 DEF LiveLeaders
  <2> QED BY <1>1, <2>1 DEF Promise!vars
<1> QED BY <1>3, <1>4

(* The leader of one instance stops being alive and nothing is written.    *)
LEMMA ExitKeepsCustody ==
  ASSUME IInv, disk' = disk, NEW i, NEW state \in {"exited", "gone"},
         leader' = [leader EXCEPT ![i] = state]
  PROVE  [Promise!Next]_(Promise!vars)
<1>1. leader \in [Inst -> {"gone", "alive", "exited", "reused"}]
  BY DEF IInv, TypeOK
<1>2. LiveLeaders' = LiveLeaders \ {i}
  BY <1>1 DEF LiveLeaders
<1>3. CASE i \in LiveLeaders
  BY <1>2, <1>3 DEF Promise!Next, Promise!Exit
<1>4. CASE i \notin LiveLeaders
  BY <1>2, <1>4 DEF Promise!vars
<1> QED BY <1>3, <1>4

(* Whatever is written while the same processes live is a Save.            *)
LEMMA SaveKeepsCustody ==
  ASSUME IInv', LiveLeaders' = LiveLeaders
  PROVE  [Promise!Next]_(Promise!vars)
<1>1. Promise!Evidence
  BY EvidenceTypes DEF IInv
<1>2. \A i \in LiveLeaders :
        disk'.visible.marker \/ disk'.visible.process.inst = i
  BY DEF IInv, LiveIsEvidenced, LiveLeaders
<1> QED BY <1>1, <1>2 DEF Promise!Next, Promise!Save

LEMMA StepKeepsCustody ==
  ASSUME IInv, IInv', [Next]_vars
  PROVE  [Promise!Next]_(Promise!vars)
<1>1. leader \in [Inst -> {"gone", "alive", "exited", "reused"}]
  BY DEF IInv, TypeOK
<1>2. CASE leader' = leader
  BY <1>2, SaveKeepsCustody DEF LiveLeaders
<1>3. CASE SpawnConfirmed
  BY <1>3, SpawnKeepsCustody DEF SpawnConfirmed
<1>4. CASE SpawnSurvivor
  BY <1>4, SpawnKeepsCustody DEF SpawnSurvivor
<1>5. CASE CompleteExit
  <2>1. LiveLeaders' = LiveLeaders
    BY <1>1, <1>5 DEF CompleteExit, LiveLeaders
  <2> QED BY <2>1, SaveKeepsCustody
<1>6. CASE ForceStop
  BY <1>6, ExitKeepsCustody DEF ForceStop, storeVars
<1>7. CASE LeaderExits
  <2>1. PICK i \in Inst :
          leader' = [leader EXCEPT ![i] = IF Owned(i) THEN "exited" ELSE "gone"]
    BY <1>7 DEF LeaderExits
  <2>2. disk' = disk
    BY <1>7 DEF LeaderExits, AgentVars, storeVars
  <2> QED BY <2>1, <2>2, ExitKeepsCustody
<1>8. CASE PidReused \/ ForeignExits \/ AgentExits
  <2>1. LiveLeaders' = LiveLeaders
    BY <1>1, <1>8
       DEF PidReused, ForeignExits, AgentExits, GroupGone, LiveLeaders
  <2> QED BY <2>1, SaveKeepsCustody
<1>9. CASE PowerLoss
  <2>1. LiveLeaders' = {}
    BY <1>9 DEF PowerLoss, LiveLeaders
  <2> QED BY <2>1, EvidenceTypes DEF IInv, Promise!Next, Promise!Outage
<1>10. CASE PollStep
  BY <1>2, <1>5, <1>10
     DEF PollStep, ConfirmIdentity, PollChildExit, PollPendingGroup,
         IdentityChanges, AttachedDisappears, AfterExplicitExit,
         AfterUnexpectedExit, PendingGroup, osVars
<1>11. CASE OsStep
  BY <1>2, <1>7, <1>8, <1>9, <1>11
     DEF OsStep, ResidueExits, LeaderEscapes
<1>12. CASE StartStep
  BY <1>2, <1>3, <1>4, <1>12
     DEF StartStep, StartDeferred, StartWithoutConfig, StartWithoutAccess,
         StartRefusedWith, StartAwaitsRead, BeginLaunch, SpawnFails,
         CommitSpawned, StartVars, osVars
<1>13. CASE UserStep
  BY <1>2, <1>6, <1>13
     DEF UserStep, RequestStart, RequestStop, RequestRestart, ContinueStop,
         Command, osVars
<1>14. CASE RetryStep \/ TimerStep \/ BootStep \/ HealthStep \/ CredentialStep
  <2>1. RetryStep => leader' = leader
    BY DEF RetryStep, RetrySave, UnwindMarker, ResumeIntent, ResumeExit,
           ResumeConvergence, osVars
  <2>2. TimerStep => leader' = leader
    BY DEF TimerStep, CheckUnverified, RestartDue, PortRetryDue, StopTimesOut,
           osVars
  <2>3. BootStep => leader' = leader
    BY DEF BootStep, Boot, BootUnreadable, Inspect, InspectMatches, Probe,
           Converge, BootVars, ReattachVars, osVars
  <2>4. HealthStep \/ CredentialStep => leader' = leader
    BY DEF HealthStep, StableRun, HealthyAnswer, UnhealthyAnswer,
           StaleHealthyAnswer, CredentialStep, AccessLost, AccessNotNeeded,
           RequestRead, PasswordApplied, ReadWithoutPassword, CredVars, osVars
  <2> QED BY <1>2, <1>14, <2>1, <2>2, <2>3, <2>4
<1>15. CASE UNCHANGED vars
  BY <1>2, <1>15 DEF vars
<1> QED BY <1>10, <1>11, <1>12, <1>13, <1>14, <1>15 DEF Next

(* Custody, with the live leaders as alive and the visible file as its     *)
(* evidence, is implemented by every behaviour of the event loop.          *)
THEOREM CustodyKept == Spec => KeepsCustody
<1>1. IInv /\ IInv' /\ [Next]_vars => [Promise!Next]_(Promise!vars)
  BY StepKeepsCustody
<1> QED BY <1>1, InitKeepsCustody, Invariant, PTL
        DEF Spec, KeepsCustody, Promise!Spec
=============================================================================

------------------------- MODULE RegistrationProofs -------------------------
(***************************************************************************)
(* Registration keeps its inductive invariant, for every number of         *)
(* attempts, checks, requests, failures and crashes: each operator that a  *)
(* handler may end with leaves a sound state, and each handler ends with   *)
(* one of them. The last part is about the order in which a transaction    *)
(* takes its steps.                                                        *)
(***************************************************************************)
EXTENDS Registration, TLAPS

USE RegistrationConstants

(* No timer is due for the present generation.                             *)
Past(s) ==
  \A t \in s.timers :
    t.generation < s.generation /\ IsTimed(t.phase)

(* Whatever a crash leaves has an attempt as far as the transaction got.   *)
Stored(s, c) ==
  \A d \in s.stored :
    IsRecord(d.record) => Within(s.history, d.record.attempt, c + 1)

(* A transaction that may be given up here.                                *)
Ends(s, c) ==
  /\ StateType(s) /\ Past(s) /\ Stored(s, c) /\ CommitIsProven(s)
  /\ s.history.wanted /\ c \in Nat /\ bundle \in Bundle

(* A transaction of purpose p, about to register in its attempt n.         *)
Goes(s, p, n, c) ==
  /\ Ends(s, c) /\ p \in Purpose /\ n \in Attempt
  /\ Within(s.history, n, c)
  /\ s.repair => p = "explicitRepair"

(* The record is that of attempt n, whatever a crash leaves.               *)
Recorded(s, p, n) ==
  \A d \in s.stored :
    /\ d.record.version = bundle /\ d.record.purpose = p
    /\ d.record.attempt = n /\ d.record.phase \in DurablePhase

(* One that has registered in its attempt n.                               *)
HasRegistered(s, p, n, c) ==
  /\ Ends(s, c) /\ p \in Purpose /\ n \in Attempt
  /\ Within(s.history, n, c + 1)
  /\ s.repair => p = "explicitRepair"

(* What every operator of a transaction leaves.                            *)
Kept(s, c) == Sound(s, c) /\ Driven(s) /\ s.history.wanted

LEMMA RestingIsDriven ==
  ASSUME NEW s, ~Active(s)
  PROVE  Driven(s)
  BY DEF Active, Driven, DurablePhase

(* Only the phase and what continues it matter.                            *)
LEMMA DrivenAlike ==
  ASSUME NEW s, NEW f, Driven(s), f.phase = s.phase,
         f.generation = s.generation, s.timers \subseteq f.timers,
         s.callbacks \subseteq f.callbacks
  PROVE  Driven(f)
  BY DEF Driven

-----------------------------------------------------------------------------
(* The writes                                                              *)

LEMMA GoesRegistered ==
  ASSUME NEW s, NEW p, NEW n, NEW c, Goes(s, p, n, c)
  PROVE  HasRegistered(s, p, n, c)
  <1>1. s.history \in History BY DEF Goes, Ends, StateType
  <1> QED BY <1>1 DEF Goes, Ends, HasRegistered, Within, History, Attempt

LEMMA ClearIs ==
  ASSUME NEW s, StateType(s)
  PROVE  LET d == [s.defaults EXCEPT !.record = NoRecord]
         IN  Clear(s) = [s EXCEPT !.defaults = d, !.stored = s.stored \cup {d}]
  BY DEF Clear, Set, StateType

LEMMA FailIsSound ==
  ASSUME NEW s, NEW c, Ends(s, c)
  PROVE  Kept(Fail(s), c)
  <1> DEFINE d == [s.defaults EXCEPT !.record = NoRecord]
             f == Fail(s)
  <1>1. f = [s EXCEPT !.defaults = d, !.stored = s.stored \cup {d},
                      !.phase = Failed, !.repair = FALSE]
    BY DEF Fail, Clear, Set, Ends, StateType
  <1>2. d \in Defaults /\ d.record = NoRecord
        /\ d.committed = s.defaults.committed /\ s.defaults \in s.stored
    BY DEF Ends, StateType, Defaults, Record
  <1>3. Failed \in Phase
    BY DEF Failed, At, Phase, Attempt
  <1> HIDE DEF d
  <1>4. StateType(f)
    <2> HIDE DEF f
    <2>1. s.stored \cup {d} \in SUBSET Defaults
      BY <1>2 DEF Ends, StateType
    <2>2. d \in s.stored \cup {d}
      OBVIOUS
    <2> QED BY <1>1, <1>2, <1>3, <2>1, <2>2 DEF Ends, StateType
  <1>5. /\ f.phase = Failed /\ ~f.repair /\ f.timers = s.timers
        /\ f.generation = s.generation /\ f.history = s.history
        /\ f.stored = s.stored \cup {d}
    BY <1>1 DEF Ends, StateType
  <1> HIDE DEF f
  <1>6. ~Active(f) /\ f.phase # Idle
    BY <1>5 DEF Active, DurablePhase, Failed, Idle, At
  <1>7. RecordsHold(f, c)
    BY <1>2, <1>5, <1>6 DEF RecordsHold, Ends, Stored, IsRecord
  <1>8. TimersMatch(f)
    BY <1>5 DEF Ends, StateType, Past, TimersMatch, Timer
  <1>9. CommitIsProven(f)
    BY <1>2, <1>5 DEF Ends, CommitIsProven
  <1>10. Driven(f)
    BY <1>6, RestingIsDriven
  <1> QED
    BY <1>4, <1>5, <1>6, <1>7, <1>8, <1>9, <1>10
    DEF Sound, BudgetHolds, CrashResumes, RepairIsOwned, RemovedIsIdle, Ends,
        Kept, f

(* What a write of attempt n leaves as it was, and what it makes of the    *)
(* record.                                                                 *)
LEMMA PersistKeeps ==
  ASSUME NEW s, NEW q \in DurablePhase, NEW p \in Purpose, NEW n \in Attempt,
         NEW ok \in BOOLEAN, StateType(s), bundle \in Bundle,
         CommitIsProven(s)
  PROVE  LET r == Persist(s, q, p, n, ok) IN
         /\ StateType(r) /\ CommitIsProven(r)
         /\ r.phase = s.phase /\ r.generation = s.generation
         /\ r.repair = s.repair /\ r.timers = s.timers
         /\ r.callbacks = s.callbacks /\ r.service = s.service
         /\ r.history = s.history
         /\ \A d \in r.stored :
              \/ d \in s.stored /\ ~ok
              \/ /\ d.record.version = bundle /\ d.record.purpose = p
                 /\ d.record.attempt = n /\ d.record.phase = q
  <1> DEFINE e == [s.defaults EXCEPT
                     !.record = [version |-> bundle, purpose |-> p,
                                 phase |-> q, attempt |-> n]]
             r == Persist(s, q, p, n, ok)
  <1>1. /\ e \in Defaults /\ s.defaults \in s.stored
        /\ e.committed = s.defaults.committed
        /\ e.record.version = bundle /\ e.record.purpose = p
        /\ e.record.attempt = n /\ e.record.phase = q
    BY DEF StateType, Defaults, Record
  <1>2. r = IF ok THEN [s EXCEPT !.defaults = e, !.stored = {e}]
            ELSE [s EXCEPT !.defaults = e, !.stored = @ \cup {e}]
    BY DEF Persist, Set
  <1> HIDE DEF e, r
  <1> DEFINE w == IF ok THEN {e} ELSE s.stored \cup {e}
  <1>3. /\ w \in SUBSET Defaults /\ e \in w
        /\ \A d \in w : (d \in s.stored /\ ~ok) \/ d = e
    BY <1>1 DEF StateType
  <1> HIDE DEF w
  <1>4. r = [s EXCEPT !.defaults = e, !.stored = w]
    BY <1>2 DEF StateType, w
  <1>5. StateType(r)
    BY <1>1, <1>3, <1>4 DEF StateType
  <1>6. /\ r.phase = s.phase /\ r.generation = s.generation
        /\ r.repair = s.repair /\ r.timers = s.timers
        /\ r.callbacks = s.callbacks /\ r.service = s.service
        /\ r.history = s.history /\ r.stored = w
    BY <1>4 DEF StateType
  <1>7. CommitIsProven(r)
    BY <1>1, <1>3, <1>6 DEF CommitIsProven
  <1> QED BY <1>1, <1>3, <1>5, <1>6, <1>7 DEF r

LEMMA WriteEnds ==
  ASSUME NEW s, NEW c, NEW q \in DurablePhase, NEW p \in Purpose,
         NEW n \in Attempt, NEW ok \in BOOLEAN, Ends(s, c),
         Within(s.history, n, c + 1)
  PROVE  /\ Ends(Persist(s, q, p, n, ok), c)
         /\ ok => Recorded(Persist(s, q, p, n, ok), p, n)
  <1> DEFINE r == Persist(s, q, p, n, ok)
  <1>1. /\ StateType(r) /\ CommitIsProven(r)
        /\ r.phase = s.phase /\ r.generation = s.generation
        /\ r.repair = s.repair /\ r.timers = s.timers
        /\ r.callbacks = s.callbacks /\ r.service = s.service
        /\ r.history = s.history
        /\ \A d \in r.stored :
              \/ d \in s.stored /\ ~ok
              \/ /\ d.record.version = bundle /\ d.record.purpose = p
                 /\ d.record.attempt = n /\ d.record.phase = q
    BY PersistKeeps DEF Ends
  <1> HIDE DEF r
  <1>2. Past(r) BY <1>1 DEF Past, Ends
  <1>3. Stored(r, c) BY <1>1 DEF Stored, Ends
  <1>4. Ends(r, c) BY <1>1, <1>2, <1>3 DEF Ends
  <1>5. ok => Recorded(r, p, n) BY <1>1 DEF Recorded
  <1> QED BY <1>4, <1>5 DEF r

LEMMA WriteGoes ==
  ASSUME NEW s, NEW c, NEW q \in DurablePhase, NEW p, NEW n,
         NEW ok \in BOOLEAN, Goes(s, p, n, c)
  PROVE  LET r == Persist(s, q, p, n, ok) IN
         /\ Goes(r, p, n, c)
         /\ ok => Recorded(r, p, n)
         /\ r.service = s.service /\ r.generation = s.generation
         /\ r.phase = s.phase /\ r.history = s.history
  <1> DEFINE r == Persist(s, q, p, n, ok)
  <1>1. /\ Ends(s, c) /\ p \in Purpose /\ n \in Attempt /\ StateType(s)
        /\ bundle \in Bundle /\ CommitIsProven(s)
    BY DEF Goes, Ends
  <1>2. Within(s.history, n, c + 1)
    BY GoesRegistered DEF HasRegistered
  <1>3. Ends(r, c) /\ (ok => Recorded(r, p, n))
    BY <1>1, <1>2, WriteEnds
  <1>4. /\ r.history = s.history /\ r.repair = s.repair
        /\ r.service = s.service /\ r.generation = s.generation
        /\ r.phase = s.phase
    BY <1>1, PersistKeeps
  <1> HIDE DEF r
  <1>5. Goes(r, p, n, c) BY <1>1, <1>3, <1>4 DEF Goes
  <1> QED BY <1>3, <1>4, <1>5 DEF r

-----------------------------------------------------------------------------
(* The steps of a transaction                                              *)

LEMMA AfterIsSound ==
  ASSUME NEW s, NEW c, NEW step \in DurablePhase \ {"unregistering"}, NEW p,
         NEW n, NEW k \in Nat, HasRegistered(s, p, n, c), Recorded(s, p, n),
         step # "awaitingIPC" => Within(s.history, n, c),
         step \in {"awaitingUnregistered", "awaitingIPC"} => k > 0
  PROVE  Kept(After(s, At(step, p, n, k)), c)
  <1> DEFINE q == At(step, p, n, k)
             f == After(s, q)
             t == [generation |-> s.generation, phase |-> q]
  <1>1. /\ q \in Phase /\ q.step = step /\ q.purpose = p /\ q.attempt = n
        /\ q.step \in DurablePhase /\ IsTimed(q)
    BY DEF HasRegistered, At, Phase, IsTimed
  <1> HIDE DEF q
  <1>2. t \in Timer /\ t.phase = q /\ t.generation = s.generation
    BY <1>1 DEF HasRegistered, Ends, StateType, Timer
  <1>2a. t = [generation |-> s.generation, phase |-> q]
    OBVIOUS
  <1>3. f = [s EXCEPT !.phase = q, !.timers = s.timers \cup {t}]
    BY DEF After, HasRegistered, Ends, StateType
  <1> HIDE DEF f, t
  <1>4. StateType(f)
    <2>1. s.timers \cup {t} \in SUBSET Timer
      BY <1>2 DEF HasRegistered, Ends, StateType
    <2> QED BY <1>1, <1>3, <2>1 DEF HasRegistered, Ends, StateType
  <1>5. /\ f.phase = q /\ f.timers = s.timers \cup {t}
        /\ f.generation = s.generation /\ f.history = s.history
        /\ f.stored = s.stored /\ f.repair = s.repair
        /\ f.defaults = s.defaults
    BY <1>3 DEF HasRegistered, Ends, StateType
  <1>6. Active(f) /\ f.phase # Idle
    BY <1>1, <1>5 DEF Active, DurablePhase, Idle, At
  <1>7. BudgetHolds(f, c)
    BY <1>1, <1>5 DEF BudgetHolds, HasRegistered
  <1>8. CrashResumes(f)
    BY <1>1, <1>5 DEF CrashResumes, Recorded
  <1>9. RecordsHold(f, c)
    BY <1>5, <1>6 DEF RecordsHold, HasRegistered, Ends, Stored
  <1>10. TimersMatch(f)
    BY <1>1, <1>2, <1>5
    DEF TimersMatch, HasRegistered, Ends, Past, StateType, Timer
  <1>11. RepairIsOwned(f) /\ CommitIsProven(f) /\ RemovedIsIdle(f)
    BY <1>1, <1>5, <1>6
    DEF RepairIsOwned, CommitIsProven, RemovedIsIdle, HasRegistered, Ends
  <1>12. f.history.wanted
    BY <1>5 DEF HasRegistered, Ends
  <1>13. Driven(f)
    BY <1>1, <1>2a, <1>5 DEF Driven
  <1> QED
    BY <1>4, <1>7, <1>8, <1>9, <1>10, <1>11, <1>12, <1>13 DEF Sound, Kept, f, q

LEMMA ScheduleRetryIsSound ==
  ASSUME NEW s, NEW p, NEW n, NEW c, NEW o \in Outcome,
         HasRegistered(s, p, n, c)
  PROVE  Kept(ScheduleRetry(s, p, n, o), c)
  <1> DEFINE r == Persist(s, "retryScheduled", p, n + 1, o.first)
             q == At("retryScheduled", p, n + 1, 0)
             a == After(r, q)
             b == [r EXCEPT !.history.reached = n + 1]
  <1>0. Ends(s, c) /\ p \in Purpose /\ n \in Attempt /\ o.first \in BOOLEAN
        /\ s.history \in History /\ c \in Nat
    BY DEF HasRegistered, Outcome, Ends, StateType
  <1>1. CASE n + 1 >= MaximumAttempts
    BY <1>0, <1>1, FailIsSound DEF ScheduleRetry
  <1>2. CASE ~(n + 1 >= MaximumAttempts)
    <2>1. n + 1 \in Attempt BY <1>0, <1>2 DEF Attempt
    <2>2. Within(s.history, n + 1, c) /\ Within(s.history, n + 1, c + 1)
      BY <1>0 DEF HasRegistered, Within, History, Attempt
    <2>3. Ends(r, c) /\ (o.first => Recorded(r, p, n + 1))
      BY <1>0, <2>1, <2>2, WriteEnds DEF DurablePhase
    <2>4. r.history = s.history /\ r.repair = s.repair
      BY <1>0, <2>1, PersistKeeps DEF Ends, DurablePhase
    <2> HIDE DEF r
    <2>5. CASE ~o.first
      BY <1>2, <2>3, <2>5, FailIsSound DEF ScheduleRetry, r
    <2>6. CASE o.first
      <3>1. [a EXCEPT !.history.reached = n + 1] = After(b, q)
        BY <2>3 DEF Ends, StateType, After
      <3>2. /\ StateType(b) /\ b.history.reached = n + 1
            /\ b.history.spent = r.history.spent
            /\ b.history.wanted = r.history.wanted
            /\ b.timers = r.timers /\ b.generation = r.generation
            /\ b.stored = r.stored /\ b.repair = r.repair
        BY <2>1, <2>3 DEF Ends, StateType, History
      <3> HIDE DEF b
      <3>3. Within(b.history, n + 1, c) /\ Within(b.history, n + 1, c + 1)
        BY <2>1, <2>2, <2>4, <3>2, <1>0 DEF Within, History, Attempt
      <3>4. Recorded(b, p, n + 1)
        BY <2>3, <2>6, <3>2 DEF Recorded
      <3>5. Stored(b, c)
        BY <3>3, <3>4, <3>2 DEF Stored, Recorded
      <3>6. Past(b) /\ CommitIsProven(b)
        BY <2>3, <3>2 DEF Past, CommitIsProven, Ends
      <3>7. HasRegistered(b, p, n + 1, c)
        BY <1>0, <2>1, <2>3, <2>4, <3>2, <3>3, <3>5, <3>6
        DEF HasRegistered, Ends
      <3>8. Kept(After(b, q), c)
        BY <3>3, <3>4, <3>7, AfterIsSound DEF DurablePhase
      <3> QED BY <1>2, <2>6, <3>1, <3>8 DEF ScheduleRetry, r
    <2> QED BY <1>0, <2>5, <2>6
  <1> QED BY <1>1, <1>2

LEMMA WaitForIPCIsSound ==
  ASSUME NEW s, NEW p, NEW n, NEW k \in Nat, NEW c, NEW o \in Outcome,
         HasRegistered(s, p, n, c), Recorded(s, p, n)
  PROVE  Kept(WaitForIPC(s, p, n, k, o), c)
  <1>1. CASE k > 0
    <2>1. "awaitingIPC" \in DurablePhase \ {"unregistering"}
      BY DEF DurablePhase
    <2> QED BY <1>1, <2>1, AfterIsSound DEF WaitForIPC
  <1>2. CASE ~(k > 0) /\ p = "initialRegistration"
    BY <1>2, FailIsSound DEF WaitForIPC, HasRegistered
  <1>3. CASE ~(k > 0) /\ p # "initialRegistration"
    BY <1>3, ScheduleRetryIsSound DEF WaitForIPC
  <1> QED BY <1>1, <1>2, <1>3

LEMMA RegisteredHas ==
  ASSUME NEW s, NEW p, NEW n, NEW c, NEW o \in Outcome,
         Goes(s, p, n, c), Recorded(s, p, n)
  PROVE  LET r == Registered(s, o) IN
         HasRegistered(r, p, n, c) /\ Recorded(r, p, n)
  <1> DEFINE r == Registered(s, o)
             h == [s.history EXCEPT !.spent = @ + 1]
             v == [s.service EXCEPT
                     !.status = IF o.register = "error" \/ Listed(@) THEN @
                                ELSE o.register]
  <1>1. Ends(s, c) /\ StateType(s) /\ c \in Nat /\ n \in Attempt
        /\ s.history \in History /\ s.service \in Service
        /\ o.register \in {"enabled", "requiresApproval", "error"}
    BY DEF Goes, Ends, StateType, Outcome
  <1>2. h \in History /\ h.reached = s.history.reached
        /\ h.spent = s.history.spent + 1
        /\ h.wanted = s.history.wanted
    BY <1>1 DEF History
  <1>3. v \in Service
    BY <1>1 DEF Service
  <1>4. r = [s EXCEPT !.history = h, !.service = v]
    BY <1>1 DEF Registered, StateType
  <1> HIDE DEF h, v, r
  <1>5. /\ r.history = h /\ r.timers = s.timers /\ r.stored = s.stored
        /\ r.generation = s.generation /\ r.repair = s.repair
    BY <1>1, <1>4 DEF StateType
  <1>6. StateType(r)
    BY <1>1, <1>2, <1>3, <1>4 DEF StateType
  <1>7. Within(r.history, n, c + 1)
    BY <1>1, <1>2, <1>5 DEF Goes, Within, History, Attempt
  <1>8. Recorded(r, p, n)
    BY <1>5 DEF Recorded
  <1>9. Stored(r, c)
    BY <1>7, <1>8 DEF Stored, Recorded
  <1>10. Past(r) /\ CommitIsProven(r)
    BY <1>1, <1>2, <1>5 DEF Ends, Past, CommitIsProven
  <1> QED
    BY <1>1, <1>2, <1>5, <1>6, <1>7, <1>8, <1>9, <1>10
    DEF HasRegistered, Goes, Ends, r

LEMMA PerformRegistrationIsSound ==
  ASSUME NEW s, NEW p, NEW n, NEW c, NEW o \in Outcome, Goes(s, p, n, c)
  PROVE  Kept(PerformRegistration(s, p, n, o), c)
  <1> DEFINE asked == Persist(s, "awaitingRegistration", p, n, o.first)
             done == Registered(asked, o)
             accepted == Persist(done, "awaitingIPC", p, n, o.second)
  <1>1. o.first \in BOOLEAN /\ o.second \in BOOLEAN /\ o.checks \in Nat
        /\ "awaitingRegistration" \in DurablePhase
        /\ "awaitingIPC" \in DurablePhase
    BY DEF Outcome, DurablePhase
  <1>2. Goes(asked, p, n, c) /\ (o.first => Recorded(asked, p, n))
    BY <1>1, WriteGoes
  <1>3. CASE ~o.first
    <2>1. Ends(asked, c) BY <1>2 DEF Goes
    <2> HIDE DEF asked
    <2> QED BY <1>3, <2>1, FailIsSound DEF PerformRegistration, asked
  <1>4. CASE o.first
    <2>1. HasRegistered(done, p, n, c) /\ Recorded(done, p, n)
      BY <1>2, <1>4, RegisteredHas
    <2>2. Ends(done, c) /\ Within(done.history, n, c + 1) /\ n \in Attempt
          /\ p \in Purpose /\ StateType(done) /\ bundle \in Bundle
          /\ CommitIsProven(done)
      BY <2>1 DEF HasRegistered, Ends
    <2>3. Ends(accepted, c) /\ (o.second => Recorded(accepted, p, n))
      BY <1>1, <2>2, WriteEnds
    <2>4. accepted.history = done.history /\ accepted.repair = done.repair
      BY <1>1, <2>2, PersistKeeps
    <2> HIDE DEF accepted
    <2>5. HasRegistered(accepted, p, n, c)
      BY <2>1, <2>3, <2>4 DEF HasRegistered
    <2>6. o.second => Kept(WaitForIPC(accepted, p, n, o.checks, o), c)
      BY <1>1, <2>3, <2>5, WaitForIPCIsSound
    <2>7. Kept(Fail(done), c) /\ Kept(Fail(accepted), c)
      BY <2>2, <2>3, FailIsSound
    <2> QED BY <1>1, <1>4, <2>6, <2>7 DEF PerformRegistration, accepted
  <1> QED BY <1>1, <1>3, <1>4

LEMMA ScheduleRegistrationIsSound ==
  ASSUME NEW s, NEW p, NEW n, NEW c, NEW o \in Outcome, Goes(s, p, n, c)
  PROVE  Kept(ScheduleRegistration(s, p, n, o), c)
  <1> DEFINE r == Persist(s, "awaitingRegistration", p, n, o.second)
  <1>1. o.second \in BOOLEAN /\ "awaitingRegistration" \in DurablePhase
        /\ "awaitingRegistration" \in DurablePhase \ {"unregistering"}
    BY DEF Outcome, DurablePhase
  <1>2. Goes(r, p, n, c) /\ (o.second => Recorded(r, p, n))
    BY <1>1, WriteGoes
  <1> HIDE DEF r
  <1>3. Ends(r, c) /\ HasRegistered(r, p, n, c) /\ Within(r.history, n, c)
    BY <1>2, GoesRegistered DEF Goes
  <1>4. o.second =>
          Kept(After(r, At("awaitingRegistration", p, n, 0)), c)
    BY <1>1, <1>2, <1>3, AfterIsSound
  <1> QED BY <1>1, <1>3, <1>4, FailIsSound DEF ScheduleRegistration, r

LEMMA WaitForUnregisteredIsSound ==
  ASSUME NEW s, NEW p, NEW n, NEW k \in Nat, NEW c, NEW o \in Outcome,
         Goes(s, p, n, c), k # StatusChecks => Recorded(s, p, n)
  PROVE  Kept(WaitForUnregistered(s, p, n, k, o), c)
  <1> DEFINE r == IF k = StatusChecks
                    THEN Persist(s, "awaitingUnregistered", p, n, o.first)
                    ELSE s
  <1>1. o.first \in BOOLEAN /\ "awaitingUnregistered" \in DurablePhase
        /\ "awaitingUnregistered" \in DurablePhase \ {"unregistering"}
    BY DEF Outcome, DurablePhase
  <1>2. Goes(r, p, n, c)
        /\ (~(k = StatusChecks /\ ~o.first) => Recorded(r, p, n))
    BY <1>1, WriteGoes
  <1> HIDE DEF r
  <1>3. Ends(r, c) /\ HasRegistered(r, p, n, c) /\ Within(r.history, n, c)
    BY <1>2, GoesRegistered DEF Goes
  <1>4. k # 0 /\ ~(k = StatusChecks /\ ~o.first) =>
          Kept(After(r, At("awaitingUnregistered", p, n, k)), c)
    BY <1>1, <1>2, <1>3, AfterIsSound
  <1>5. Kept(ScheduleRegistration(r, p, n, o), c)
    BY <1>2, ScheduleRegistrationIsSound
  <1>6. Kept(Fail(r), c)
    BY <1>3, FailIsSound
  <1> QED BY <1>1, <1>4, <1>5, <1>6 DEF WaitForUnregistered, r

LEMMA StartReplacementIsSound ==
  ASSUME NEW s, NEW p, NEW n, NEW c, NEW o \in Outcome, Goes(s, p, n, c)
  PROVE  Kept(StartReplacement(s, p, n, o), c)
  <1> DEFINE r == Persist(s, "unregistering", p, n, o.first)
             e == [generation |-> s.generation, purpose |-> p, attempt |-> n]
             v == [r.service EXCEPT !.leaving = TRUE]
             q == At("unregistering", p, n, 0)
             f == [r EXCEPT !.phase = q, !.service = v,
                            !.callbacks = r.callbacks \cup {e}]
  <1>1. CASE s.service.status # "enabled"
    BY <1>1, PerformRegistrationIsSound DEF StartReplacement
  <1>2. CASE s.service.status = "enabled"
    <2>1. o.first \in BOOLEAN /\ "unregistering" \in DurablePhase
      BY DEF Outcome, DurablePhase
    <2>2. Goes(r, p, n, c) /\ (o.first => Recorded(r, p, n))
      BY <2>1, WriteGoes
    <2> HIDE DEF r
    <2>3. Ends(r, c) /\ StateType(r) /\ p \in Purpose /\ n \in Attempt
          /\ StateType(s)
      BY <2>2 DEF Goes, Ends
    <2>4. CASE ~o.first
      BY <1>2, <2>3, <2>4, FailIsSound DEF StartReplacement, r
    <2>5. CASE o.first
      <3>1. StartReplacement(s, p, n, o) = f
        BY <1>2, <2>3, <2>5 DEF StartReplacement, StateType, r
      <3>2. /\ q \in Phase /\ q.step = "unregistering" /\ q.purpose = p
            /\ q.attempt = n
        BY <2>1, <2>3 DEF At, Phase
      <3>2a. /\ e.purpose = p /\ e.attempt = n
             /\ q = At("unregistering", p, n, 0)
        OBVIOUS
      <3>3. v \in Service
        BY <2>3 DEF StateType, Service
      <3>4. r.callbacks \cup {e} \in SUBSET Callback
        BY <2>3 DEF StateType, Callback
      <3> HIDE DEF q, v, e
      <3>5. StateType(f)
        BY <2>3, <3>2, <3>3, <3>4 DEF StateType
      <3>6. /\ f.phase = q /\ f.timers = r.timers
            /\ f.generation = r.generation /\ f.history = r.history
            /\ f.stored = r.stored /\ f.repair = r.repair
            /\ f.callbacks = r.callbacks \cup {e}
        BY <2>3 DEF StateType
      <3> HIDE DEF f
      <3>7. Active(f) /\ f.phase # Idle
        BY <3>2, <3>6 DEF Active, DurablePhase, Idle, At
      <3>8. BudgetHolds(f, c) /\ CrashResumes(f)
        BY <2>2, <2>5, <3>2, <3>6
        DEF BudgetHolds, CrashResumes, Recorded, Goes
      <3>9. RecordsHold(f, c)
        BY <2>3, <3>6, <3>7 DEF RecordsHold, Ends, Stored
      <3>10. TimersMatch(f)
        BY <2>3, <3>6 DEF TimersMatch, Ends, Past, StateType, Timer
      <3>11. RepairIsOwned(f) /\ CommitIsProven(f) /\ RemovedIsIdle(f)
        BY <2>2, <2>3, <3>2, <3>6, <3>7
        DEF RepairIsOwned, CommitIsProven, RemovedIsIdle, Goes, Ends
      <3>12. f.history.wanted
        BY <2>3, <3>6 DEF Ends
      <3>13. Driven(f)
        <4>1. e \in f.callbacks BY <3>6
        <4> QED BY <3>2, <3>2a, <3>6, <4>1 DEF Driven
      <3> QED
        BY <3>1, <3>5, <3>8, <3>9, <3>10, <3>11, <3>12, <3>13 DEF Sound, Kept
    <2> QED BY <2>1, <2>4, <2>5
  <1> QED BY <1>1, <1>2

-----------------------------------------------------------------------------
(* Beginnings and ends                                                     *)

(* What a transaction begins from: idle, with a user who wants the agent.  *)
Rests(s, c) ==
  /\ StateType(s) /\ TimersMatch(s) /\ Stored(s, c) /\ CommitIsProven(s)
  /\ s.phase = Idle /\ s.history.wanted /\ c \in Nat /\ bundle \in Bundle

LEMMA BegunGoes ==
  ASSUME NEW s, NEW c, NEW p \in Purpose, Rests(s, c),
         s.repair => p = "explicitRepair"
  PROVE  Goes(Begun(s), p, 0, c)
  <1> DEFINE h == [s.history EXCEPT !.reached = 0, !.spent = 0]
             b == Begun(s)
  <1>0. StateType(s) /\ s.history \in History /\ 0 \in Attempt
    BY DEF Rests, StateType, Attempt
  <1>1. /\ h \in History /\ h.reached = 0 /\ h.spent = 0
        /\ h.wanted = s.history.wanted
    BY <1>0 DEF History
  <1>2. b = [s EXCEPT !.generation = s.generation + 1, !.history = h]
    BY DEF Begun, Rests, StateType
  <1>3. 0 \in Attempt BY DEF Attempt
  <1> HIDE DEF h, b
  <1>4. StateType(b)
    <2>1. s.generation + 1 \in Nat BY <1>0 DEF StateType
    <2> QED BY <1>0, <1>1, <1>2, <2>1 DEF StateType
  <1>5. /\ b.history = h /\ b.timers = s.timers /\ b.stored = s.stored
        /\ b.generation = s.generation + 1 /\ b.repair = s.repair
    BY <1>2 DEF Rests, StateType
  <1>6. Past(b)
    BY <1>5 DEF Past, Rests, TimersMatch, StateType, Timer
  <1>7. Stored(b, c)
    BY <1>1, <1>5
    DEF Stored, Rests, StateType, Within, Defaults, Record, IsRecord, Attempt
  <1>8. CommitIsProven(b) BY <1>1, <1>5 DEF CommitIsProven, Rests
  <1>9. Within(b.history, 0, c)
    BY <1>1, <1>5 DEF Within, Rests
  <1>10. Ends(b, c)
    BY <1>1, <1>4, <1>5, <1>6, <1>7, <1>8 DEF Ends, Rests
  <1> QED BY <1>3, <1>5, <1>9, <1>10 DEF Goes, b

LEMMA BeginsSound ==
  ASSUME NEW s, NEW c, NEW p \in Purpose, NEW o \in Outcome, Rests(s, c),
         s.repair => p = "explicitRepair"
  PROVE  /\ Kept(BeginRegistration(s, p, o), c)
         /\ Kept(BeginReplacement(s, p, o), c)
  <1>1. Goes(Begun(s), p, 0, c) BY BegunGoes
  <1>2. s.phase = Idle BY DEF Rests
  <1> QED
    BY <1>1, <1>2, PerformRegistrationIsSound, StartReplacementIsSound
    DEF BeginRegistration, BeginReplacement

LEMMA IdleRests ==
  ASSUME NEW s, NEW c \in Nat, Sound(s, c), s.phase = Idle, s.history.wanted,
         bundle \in Bundle
  PROVE  Rests(s, c) /\ ~s.repair
  <1>1. ~Active(s) BY DEF Active, Idle, At, DurablePhase
  <1> QED BY <1>1 DEF Sound, Rests, RepairIsOwned, RecordsHold, Stored

LEMMA ResumeIsSound ==
  ASSUME NEW s, NEW c \in Nat, NEW o \in Outcome, Sound(s, c), Driven(s),
         s.history.wanted, bundle \in Bundle, Lookup(s.defaults) = "valid"
  PROVE  Kept(Resume(s, o), c)
  <1>1. CASE s.phase # Idle
    BY <1>1 DEF Resume, Kept
  <1>2. CASE s.phase = Idle
    <2> DEFINE r == s.defaults.record
               t == [s EXCEPT !.generation = @ + 1]
               p == r.purpose
               n == r.attempt
    <2>1. Rests(s, c) /\ ~s.repair BY <1>2, IdleRests
    <2>2. StateType(s) /\ s.defaults \in Defaults /\ s.history \in History
      BY DEF Sound, StateType
    <2>3. IsRecord(r) /\ r.version = bundle
      BY DEF Lookup, IsRecord
    <2>4. p \in Purpose /\ n \in Attempt /\ r.phase \in DurablePhase
      BY <2>2, <2>3 DEF Defaults, Record, IsRecord
    <2>5. s.stored = {s.defaults} /\ Within(s.history, n, c)
      BY <1>2, <2>3 DEF Sound, RecordsHold
    <2>6. /\ StateType(t) /\ t.history = s.history /\ t.stored = s.stored
          /\ t.timers = s.timers /\ t.generation = s.generation + 1
          /\ t.repair = s.repair /\ t.service = s.service
      BY <2>2 DEF StateType
    <2>7. Resume(s, o) = Resumed(t, p, n, r.phase, o)
      BY <1>2 DEF Resume
    <2> HIDE DEF t
    <2>8. Recorded(t, p, n)
      BY <2>3, <2>4, <2>5, <2>6 DEF Recorded
    <2>9. Past(t)
      BY <2>1, <2>2, <2>6 DEF Past, Rests, TimersMatch, StateType, Timer
    <2>10. Stored(t, c) /\ CommitIsProven(t)
      BY <2>1, <2>6 DEF Rests, Stored, CommitIsProven
    <2>11. Goes(t, p, n, c)
      BY <2>1, <2>4, <2>5, <2>6, <2>9, <2>10 DEF Goes, Ends
    <2> HIDE DEF r, p, n
    <2>12. HasRegistered(t, p, n, c)
      BY <2>11, GoesRegistered
    <2>13. StatusChecks \in Nat /\ o.checks \in Nat
      BY DEF Outcome
    <2>14. /\ Kept(WaitForUnregistered(t, p, n, StatusChecks, o), c)
           /\ Kept(StartReplacement(t, p, n, o), c)
           /\ Kept(ScheduleRegistration(t, p, n, o), c)
           /\ Kept(WaitForIPC(t, p, n, o.checks, o), c)
           /\ Kept(PerformRegistration(t, p, n, o), c)
      BY <2>8, <2>11, <2>12, <2>13, WaitForUnregisteredIsSound,
         StartReplacementIsSound, ScheduleRegistrationIsSound,
         WaitForIPCIsSound, PerformRegistrationIsSound
    <2>15. Kept(Resumed(t, p, n, r.phase, o), c)
      BY <2>4, <2>14 DEF Resumed, DurablePhase
    <2> QED BY <2>7, <2>15 DEF p, n
  <1> QED BY <1>1, <1>2

(* A record of this bundle is never one that cannot be decoded.            *)
LEMMA FailClosedIsSound ==
  ASSUME NEW s, NEW c \in Nat, Sound(s, c), s.history.wanted,
         bundle \in Bundle, Lookup(s.defaults) = "invalid"
  PROVE  Kept(FailClosed(s), c)
  <1> DEFINE f == FailClosed(s)
  <1>1. StateType(s) BY DEF Sound
  <1>2. ~Active(s)
    BY <1>1 DEF Sound, CrashResumes, StateType, Lookup, Corrupt, NoRecord,
                DurablePhase
  <1>3. Failed \in Phase BY DEF Failed, At, Phase, Attempt
  <1>4. StateType(f) BY <1>1, <1>3 DEF FailClosed, StateType
  <1>5. /\ f.phase = Failed /\ f.timers = s.timers /\ f.repair = s.repair
        /\ f.generation = s.generation /\ f.history = s.history
        /\ f.stored = s.stored
    BY <1>1 DEF FailClosed, StateType
  <1> HIDE DEF f
  <1>6. ~Active(f) /\ f.phase # Idle
    BY <1>5 DEF Active, DurablePhase, Failed, Idle, At
  <1>7. TimersMatch(f)
    BY <1>2, <1>5 DEF Sound, TimersMatch, IsTimed, Active
  <1>8. Driven(f)
    BY <1>6, RestingIsDriven
  <1> QED
    BY <1>2, <1>4, <1>5, <1>6, <1>7, <1>8
    DEF Sound, BudgetHolds, CrashResumes, RecordsHold, RepairIsOwned,
        CommitIsProven, RemovedIsIdle, Kept, f

LEMMA RegisterUnlistedIsSound ==
  ASSUME NEW s, NEW c \in Nat, NEW o \in Outcome, Sound(s, c), Driven(s),
         s.history.wanted, bundle \in Bundle
  PROVE  Kept(RegisterUnlisted(s, o), c)
  <1>1. s.phase = Idle =>
          /\ Kept(BeginRegistration(s, "bundleUpgrade", o), c)
          /\ Kept(BeginRegistration(s, "initialRegistration", o), c)
    BY IdleRests, BeginsSound DEF Purpose
  <1>2. s.phase # Idle =>
          /\ BeginRegistration(s, "bundleUpgrade", o) = s
          /\ BeginRegistration(s, "initialRegistration", o) = s
    BY DEF BeginRegistration
  <1>3. Lookup(s.defaults) \in {"valid", "staleVersion", "missing", "invalid"}
    BY DEF Lookup
  <1>4. Lookup(s.defaults) = "valid" => Kept(Resume(s, o), c)
    BY ResumeIsSound
  <1>5. Lookup(s.defaults) = "invalid" => Kept(FailClosed(s), c)
    BY FailClosedIsSound
  <1> QED BY <1>1, <1>2, <1>3, <1>4, <1>5 DEF RegisterUnlisted, Kept

LEMMA BootstrapIsSound ==
  ASSUME NEW s, NEW c \in Nat, NEW o \in Outcome, Sound(s, c), Driven(s),
         s.phase = Idle, s.history.wanted, bundle \in Bundle
  PROVE  Kept(Bootstrap(s, o), c)
  <1>1. Kept(BeginReplacement(s, "bundleUpgrade", o), c)
    BY IdleRests, BeginsSound DEF Purpose
  <1>2. Lookup(s.defaults) \in {"valid", "staleVersion", "missing", "invalid"}
    BY DEF Lookup
  <1>3. Kept(BootstrapEnabled(s, o), c)
    BY <1>1, <1>2, ResumeIsSound, FailClosedIsSound DEF BootstrapEnabled, Kept
  <1>4. Kept(RegisterUnlisted(s, o), c)
    BY RegisterUnlistedIsSound
  <1> QED BY <1>3, <1>4 DEF Bootstrap, Kept

LEMMA WantedIsSound ==
  ASSUME NEW s, NEW c, NEW yes \in BOOLEAN, Sound(s, c), Driven(s),
         yes \/ s.phase = Idle
  PROVE  LET w == Wanted(s, yes) IN
         /\ Sound(w, c) /\ Driven(w) /\ w.history.wanted = yes
         /\ w.phase = s.phase /\ w.defaults = s.defaults
         /\ w.service = s.service
  <1> DEFINE w == Wanted(s, yes)
             h == [s.history EXCEPT !.wanted = yes]
  <1>1. StateType(s) BY DEF Sound
  <1>2. /\ h \in History /\ h.reached = s.history.reached
        /\ h.spent = s.history.spent
        /\ h.wanted = yes
    BY <1>1 DEF StateType, History
  <1>3. w = [s EXCEPT !.history = h]
    BY <1>1 DEF Wanted, StateType
  <1> HIDE DEF w, h
  <1>4. StateType(w) BY <1>1, <1>2, <1>3 DEF StateType
  <1>5. /\ w.history = h /\ w.phase = s.phase /\ w.timers = s.timers
        /\ w.generation = s.generation /\ w.stored = s.stored
        /\ w.repair = s.repair /\ w.defaults = s.defaults
        /\ w.service = s.service /\ w.callbacks = s.callbacks
    BY <1>1, <1>3 DEF StateType
  <1>6. BudgetHolds(w, c) /\ CrashResumes(w) /\ RecordsHold(w, c)
    BY <1>2, <1>5
    DEF Sound, BudgetHolds, CrashResumes, RecordsHold, Within, Active
  <1>7. TimersMatch(w) /\ RepairIsOwned(w) /\ CommitIsProven(w)
        /\ RemovedIsIdle(w)
    BY <1>2, <1>5
    DEF Sound, TimersMatch, RepairIsOwned, CommitIsProven, RemovedIsIdle, Active
  <1>8. Driven(w)
    BY <1>5, DrivenAlike
  <1> QED BY <1>2, <1>4, <1>5, <1>6, <1>7, <1>8 DEF Sound, w

(* Giving a transaction up, whatever its phase.                            *)
LEMMA CancelIsSound ==
  ASSUME NEW s, NEW c, StateType(s), TimersMatch(s), Stored(s, c),
         CommitIsProven(s)
  PROVE  LET f == Cancel(s) IN
         /\ Sound(f, c) /\ Driven(f) /\ f.phase = Idle /\ ~f.repair
         /\ f.history = s.history /\ f.service = s.service
  <1> DEFINE d == [s.defaults EXCEPT !.record = NoRecord]
             w == s.stored \cup {d}
             f == Cancel(s)
  <1>1. f = [s EXCEPT !.defaults = d, !.stored = w, !.phase = Idle,
                      !.repair = FALSE, !.generation = s.generation + 1]
    BY DEF Cancel, Clear, Set, StateType
  <1>2. d \in Defaults /\ d.record = NoRecord
        /\ d.committed = s.defaults.committed /\ s.defaults \in s.stored
    BY DEF StateType, Defaults, Record
  <1>3. Idle \in Phase /\ s.generation + 1 \in Nat
    BY DEF Idle, At, Phase, Attempt, StateType
  <1> HIDE DEF d
  <1>4. w \in SUBSET Defaults /\ d \in w /\ \A e \in w : e \in s.stored \/ e = d
    BY <1>2 DEF StateType
  <1> HIDE DEF f, w
  <1>5. StateType(f)
    BY <1>1, <1>2, <1>3, <1>4 DEF StateType
  <1>6. /\ f.phase = Idle /\ ~f.repair /\ f.timers = s.timers
        /\ f.generation = s.generation + 1 /\ f.history = s.history
        /\ f.stored = w /\ f.defaults = d /\ f.service = s.service
    BY <1>1 DEF StateType
  <1>7. ~Active(f)
    BY <1>6 DEF Active, DurablePhase, Idle, At
  <1>8. RecordsHold(f, c)
    BY <1>2, <1>4, <1>6 DEF RecordsHold, Stored, IsRecord
  <1>9. TimersMatch(f)
    BY <1>6 DEF TimersMatch, StateType, Timer
  <1>10. CommitIsProven(f)
    BY <1>2, <1>4, <1>6 DEF CommitIsProven
  <1>11. Driven(f)
    BY <1>7, RestingIsDriven
  <1> QED
    BY <1>5, <1>6, <1>7, <1>8, <1>9, <1>10, <1>11
    DEF Sound, BudgetHolds, CrashResumes, RepairIsOwned, RemovedIsIdle, f

LEMMA CompleteIsSound ==
  ASSUME NEW s, NEW c, Sound(s, c), bundle \in ran, bundle \in Bundle
  PROVE  Sound(Complete(s), c) /\ Driven(Complete(s))
  <1> DEFINE d == [s.defaults EXCEPT !.committed = bundle]
             w == s.stored \cup {d}
             f == Set(s, d)
  <1>1. StateType(s) BY DEF Sound
  <1>2. /\ d \in Defaults /\ d.record = s.defaults.record
        /\ d.committed = bundle /\ s.defaults \in s.stored
    BY <1>1 DEF StateType, Defaults, Bundle
  <1> HIDE DEF d
  <1>3. w \in SUBSET Defaults /\ d \in w /\ \A e \in w : e \in s.stored \/ e = d
    BY <1>1, <1>2 DEF StateType
  <1>4. f = [s EXCEPT !.defaults = d, !.stored = w]
    BY <1>1 DEF Set, StateType
  <1> HIDE DEF f, w
  <1>5. StateType(f)
    BY <1>1, <1>2, <1>3, <1>4 DEF StateType
  <1>6. /\ f.phase = s.phase /\ f.timers = s.timers /\ f.stored = w
        /\ f.generation = s.generation /\ f.history = s.history
    BY <1>1, <1>4 DEF StateType
  <1>7. TimersMatch(f)
    BY <1>6 DEF Sound, TimersMatch
  <1>8. Stored(f, c)
    BY <1>2, <1>3, <1>6 DEF Sound, RecordsHold, Stored
  <1>9. CommitIsProven(f)
    BY <1>2, <1>3, <1>6 DEF Sound, CommitIsProven
  <1> QED
    BY <1>5, <1>7, <1>8, <1>9, CancelIsSound DEF Complete, d, f

-----------------------------------------------------------------------------
(* The handlers                                                            *)

(* What the transaction in flight may go on from, once the timer or the    *)
(* completion that it waits for has been taken.                            *)
LEMMA InFlight ==
  ASSUME NEW s, NEW c \in Nat, Sound(s, c), Active(s), bundle \in Bundle,
         Past(s)
  PROVE  LET p == s.phase.purpose
             n == s.phase.attempt
         IN  /\ HasRegistered(s, p, n, c) /\ Recorded(s, p, n)
             /\ s.phase.step # "awaitingIPC" => Goes(s, p, n, c)
  <1> DEFINE p == s.phase.purpose
             n == s.phase.attempt
  <1>1. StateType(s) /\ s.defaults \in s.stored /\ s.defaults \in Defaults
        /\ s.history \in History
    BY DEF Sound, StateType
  <1>2. Recorded(s, p, n)
    BY DEF Sound, CrashResumes, Recorded
  <1>3. p \in Purpose /\ n \in Attempt
    BY <1>1, <1>2
    DEF Recorded, Defaults, Record, NoRecord, Corrupt, DurablePhase
  <1>4. s.phase # Idle
    BY DEF Active, DurablePhase, Idle, At
  <1>5. Ends(s, c)
    BY <1>1, <1>4 DEF Ends, Sound, RecordsHold, Stored, RemovedIsIdle, History
  <1>6. s.repair => p = "explicitRepair"
    BY DEF Sound, RepairIsOwned
  <1>7. /\ Within(s.history, n, c + 1)
        /\ s.phase.step # "awaitingIPC" => Within(s.history, n, c)
    BY <1>1, <1>3 DEF Sound, BudgetHolds, Within, History, Attempt
  <1> QED BY <1>2, <1>3, <1>5, <1>6, <1>7 DEF HasRegistered, Goes

LEMMA FiredIsSound ==
  ASSUME NEW s, NEW c, NEW o \in Outcome, NEW q \in Phase, IsTimed(q),
         HasRegistered(s, q.purpose, q.attempt, c),
         Recorded(s, q.purpose, q.attempt),
         q.step # "awaitingIPC" => Goes(s, q.purpose, q.attempt, c)
  PROVE  Kept(Fired(s, q, o), c)
  <1>1. q.step \in {"awaitingUnregistered", "awaitingRegistration",
                    "awaitingIPC", "retryScheduled"}
    BY DEF IsTimed, DurablePhase
  <1>2. q.step \in {"awaitingUnregistered", "awaitingIPC"}
          => q.checks - 1 \in Nat
    BY DEF IsTimed, Phase
  <1>3. CASE q.step = "awaitingUnregistered"
    BY <1>2, <1>3, WaitForUnregisteredIsSound DEF Fired
  <1>4. CASE q.step = "awaitingRegistration"
    BY <1>4, PerformRegistrationIsSound DEF Fired
  <1>5. CASE q.step = "awaitingIPC"
    BY <1>2, <1>5, WaitForIPCIsSound DEF Fired
  <1>6. CASE q.step = "retryScheduled"
    BY <1>6, StartReplacementIsSound DEF Fired
  <1> QED BY <1>1, <1>3, <1>4, <1>5, <1>6

(* The timer of the phase is the only one of its generation.               *)
LEMMA TakenTimer ==
  ASSUME NEW s, NEW c \in Nat, Sound(s, c), NEW t \in s.timers,
         NEW o \in Outcome, bundle \in Bundle
  PROVE  LET r == [s EXCEPT !.timers = @ \ {t}] IN
         /\ Sound(r, c)
         /\ t.generation = s.generation => Kept(Fired(r, t.phase, o), c)
         /\ t.generation # s.generation /\ Driven(s) => Driven(r)
  <1> DEFINE r == [s EXCEPT !.timers = @ \ {t}]
  <1>1. StateType(s) /\ t \in Timer BY DEF Sound, StateType
  <1>2. s.timers \ {t} \in SUBSET Timer BY <1>1 DEF StateType
  <1>3. StateType(r) BY <1>1, <1>2 DEF StateType
  <1>4. /\ r.timers = s.timers \ {t} /\ r.phase = s.phase
        /\ r.generation = s.generation /\ r.repair = s.repair
        /\ r.stored = s.stored /\ r.history = s.history
        /\ r.defaults = s.defaults /\ r.callbacks = s.callbacks
    BY <1>1 DEF StateType
  <1> HIDE DEF r
  <1>5. TimersMatch(r)
    BY <1>4 DEF Sound, TimersMatch
  <1>6. Sound(r, c)
    BY <1>3, <1>4, <1>5
    DEF Sound, BudgetHolds, CrashResumes, RecordsHold, RepairIsOwned,
        CommitIsProven, RemovedIsIdle, Active
  <1>7. ASSUME t.generation = s.generation
        PROVE  Kept(Fired(r, t.phase, o), c)
    <2>1. IsTimed(t.phase) /\ t.phase = r.phase /\ t.phase \in Phase
      BY <1>1, <1>4, <1>7 DEF Sound, TimersMatch, Timer
    <2>2. Active(r)
      BY <2>1 DEF Active, IsTimed
    <2>3. ASSUME NEW u \in r.timers
          PROVE  u.generation < r.generation /\ IsTimed(u.phase)
      <3>1. u \in Timer /\ u \in s.timers /\ u # t
        BY <1>1, <1>4 DEF StateType
      <3>2. u.generation <= s.generation /\ IsTimed(u.phase)
        BY <3>1 DEF Sound, TimersMatch
      <3>3. u.generation # s.generation
        BY <1>1, <1>4, <1>7, <2>1, <3>1 DEF Sound, TimersMatch, Timer
      <3>4. s.generation \in Nat /\ u.generation \in Nat
        BY <1>1, <3>1 DEF StateType, Timer
      <3> QED BY <1>4, <3>2, <3>3, <3>4
    <2>4. Past(r) BY <2>3 DEF Past
    <2>5. /\ HasRegistered(r, t.phase.purpose, t.phase.attempt, c)
          /\ Recorded(r, t.phase.purpose, t.phase.attempt)
          /\ t.phase.step # "awaitingIPC"
               => Goes(r, t.phase.purpose, t.phase.attempt, c)
      BY <1>6, <2>1, <2>2, <2>4, InFlight
    <2> QED BY <2>1, <2>5, FiredIsSound
  <1>8. t.generation # s.generation /\ Driven(s) => Driven(r)
    BY <1>4 DEF Driven
  <1> QED BY <1>6, <1>7, <1>8 DEF r

LEMMA HandleUnregistrationIsSound ==
  ASSUME NEW s, NEW c \in Nat, Sound(s, c), Driven(s), NEW e \in s.callbacks,
         NEW error \in BOOLEAN, NEW o \in Outcome, bundle \in Bundle
  PROVE  LET r == [s EXCEPT !.callbacks = @ \ {e}]
             f == HandleUnregistration(r, e, error, o)
         IN  Sound(f, c) /\ Driven(f) /\ (f = r \/ Kept(f, c))
  <1> DEFINE r == [s EXCEPT !.callbacks = @ \ {e}]
  <1>1. StateType(s) /\ e \in Callback BY DEF Sound, StateType
  <1>2. s.callbacks \ {e} \in SUBSET Callback BY <1>1 DEF StateType
  <1>3. StateType(r) BY <1>1, <1>2 DEF StateType
  <1>4. /\ r.timers = s.timers /\ r.phase = s.phase
        /\ r.generation = s.generation /\ r.repair = s.repair
        /\ r.stored = s.stored /\ r.history = s.history
        /\ r.defaults = s.defaults /\ r.callbacks = s.callbacks \ {e}
    BY <1>1 DEF StateType
  <1> HIDE DEF r
  <1>5. Sound(r, c)
    BY <1>3, <1>4
    DEF Sound, BudgetHolds, CrashResumes, RecordsHold, TimersMatch,
        RepairIsOwned, CommitIsProven, RemovedIsIdle, Active
  <1>6. CASE r.phase # At("unregistering", e.purpose, e.attempt, 0)
    <2>1. Driven(r)
      BY <1>4, <1>6 DEF Driven
    <2> QED BY <1>5, <1>6, <2>1 DEF HandleUnregistration, r
  <1>7. CASE r.phase = At("unregistering", e.purpose, e.attempt, 0)
    <2>1. /\ r.phase.step = "unregistering" /\ r.phase.purpose = e.purpose
          /\ r.phase.attempt = e.attempt
      BY <1>7 DEF At
    <2>2. Active(r) BY <2>1 DEF Active, DurablePhase
    <2>3. Past(r)
      BY <1>3, <1>5, <2>1
      DEF Past, Sound, TimersMatch, IsTimed, StateType, Timer
    <2>4. Goes(r, e.purpose, e.attempt, c) /\ Recorded(r, e.purpose, e.attempt)
      BY <1>5, <2>1, <2>2, <2>3, InFlight
    <2>5. Ends(r, c) /\ StatusChecks \in Nat BY <2>4 DEF Goes
    <2> QED
      BY <1>7, <2>4, <2>5, FailIsSound, WaitForUnregisteredIsSound
      DEF HandleUnregistration, Kept, r
  <1> QED BY <1>6, <1>7

LEMMA StateIsTyped ==
  ASSUME TypeOK, Sound(State, budget.crashes)
  PROVE  /\ budget.crashes \in Nat /\ bundle \in Bundle
         /\ StateType(State)
         /\ State.phase = controller.phase /\ State.timers = timers
         /\ State.generation = controller.generation
         /\ State.callbacks = callbacks /\ State.service = service
         /\ State.defaults = defaults /\ State.history = history
         /\ State.repair = controller.repair /\ State.stored = stored
  BY DEF TypeOK, Budget, Sound, State

(* A handler that makes a sound state the next one keeps the invariant.    *)
LEMMA BecomesIInv ==
  ASSUME IInv, NEW s, Sound(s, budget.crashes), Driven(s), Becomes(s),
         app' = TRUE, budget' \in Budget, budget'.crashes = budget.crashes,
         answer' \in {0, answer}, UNCHANGED <<bundle, agent, ran>>
  PROVE  IInv'
  <1>1. StateType(s) BY DEF Sound
  <1>2. State' = s
    BY <1>1 DEF State, Becomes, StateType
  <1>3. Sound(State, budget.crashes)'
    BY <1>2
    DEF Sound, StateType, BudgetHolds, CrashResumes, RecordsHold, TimersMatch,
        RepairIsOwned, CommitIsProven, RemovedIsIdle, Active
  <1>4. /\ controller' \in Controller /\ timers' \subseteq Timer
        /\ callbacks' \subseteq Callback /\ defaults' \in Defaults
        /\ stored' \subseteq Defaults /\ service' \in Service
        /\ history' \in History
    BY <1>1 DEF Becomes, StateType, Controller
  <1>5. TypeOK'
    BY <1>4 DEF IInv, TypeOK
  <1>6. Driven(State)'
    BY <1>2 DEF Driven
  <1> QED BY <1>3, <1>5, <1>6 DEF IInv

LEMMA FaultKeeps ==
  ASSUME TypeOK, NEW n \in Nat, Fault(n)
  PROVE  budget' \in Budget /\ budget'.crashes = budget.crashes
  BY DEF TypeOK, Budget, Fault

LEMMA RequestKeeps ==
  ASSUME TypeOK, NEW n \in Nat, Request(n)
  PROVE  budget' \in Budget /\ budget'.crashes = budget.crashes
  <1>1. budget' = [requests |-> budget.requests + 1,
                   faults |-> budget.faults + n, crashes |-> budget.crashes]
    BY DEF TypeOK, Budget, Request
  <1>2. /\ budget.requests + 1 \in 0..MaxRequests
        /\ budget.faults + n \in 0..MaxFaults
    BY DEF TypeOK, Budget, Request
  <1> QED BY <1>1, <1>2 DEF TypeOK, Budget

LEMMA CostIsNat == ASSUME NEW o \in Outcome PROVE Cost(o) \in Nat
  BY DEF Cost, Outcome

LEMMA LaunchKeeps ==
  ASSUME IInv, NEW o \in Outcome, Launch(o)
  PROVE  IInv'
  <1> DEFINE c == budget.crashes
             w == Wanted(State, TRUE)
  <1>1. TypeOK /\ Sound(State, c) /\ Driven(State) /\ State.phase = Idle
    BY StateIsTyped DEF IInv, Launch
  <1>2. c \in Nat /\ bundle \in Bundle
    BY <1>1, StateIsTyped
  <1>3. Sound(w, c) /\ Driven(w) /\ w.history.wanted = TRUE /\ w.phase = Idle
    BY <1>1, WantedIsSound
  <1> HIDE DEF w
  <1>4. Kept(Bootstrap(w, o), c)
    BY <1>2, <1>3, BootstrapIsSound
  <1>5. budget' \in Budget /\ budget'.crashes = budget.crashes
    BY <1>1, FaultKeeps, CostIsNat DEF Launch
  <1> QED BY <1>4, <1>5, BecomesIInv DEF Launch, Kept, w

LEMMA RegisterKeeps ==
  ASSUME IInv, NEW o \in Outcome, Register(o)
  PROVE  IInv'
  <1> DEFINE c == budget.crashes
             w == Wanted(State, TRUE)
  <1>1. TypeOK /\ Sound(State, c) /\ Driven(State) BY DEF IInv
  <1>2. c \in Nat /\ bundle \in Bundle
    BY <1>1, StateIsTyped
  <1>3. Sound(w, c) /\ Driven(w) /\ w.history.wanted = TRUE
    BY <1>1, WantedIsSound
  <1> HIDE DEF w
  <1>4. Kept(RegisterUnlisted(w, o), c)
    BY <1>2, <1>3, RegisterUnlistedIsSound
  <1>5. /\ budget' \in Budget /\ budget'.crashes = budget.crashes
        /\ app' = TRUE
    BY <1>1, RequestKeeps, CostIsNat DEF Register, Request, TypeOK
  <1> QED BY <1>4, <1>5, BecomesIInv DEF Register, Kept, w

(* A repair begins from idle, or where it gave another transaction up.     *)
LEMMA RepairBegins ==
  ASSUME IInv, NEW o \in Outcome, Repair(o)
  PROVE  \E f : /\ Becomes(f) /\ Sound(f, budget.crashes) /\ Driven(f)
                /\ service.status = "requiresApproval"
                     \/ Kept(f, budget.crashes)
  <1> DEFINE c == budget.crashes
             s == IF controller.phase = Idle THEN State ELSE Cancel(State)
             x == [s EXCEPT !.repair = TRUE]
             r == Wanted(x, TRUE)
             h == [s.history EXCEPT !.wanted = TRUE]
  <1>1. TypeOK /\ Sound(State, c) /\ Driven(State) BY DEF IInv
  <1>2. c \in Nat /\ bundle \in Bundle /\ StateType(State)
    BY <1>1, StateIsTyped
  <1>3. Stored(State, c)
    BY <1>1 DEF Sound, RecordsHold, Stored
  <1>4. Sound(s, c) /\ Driven(s) /\ s.phase = Idle
    <2>1. CASE controller.phase = Idle
      BY <1>1, <2>1, StateIsTyped
    <2>2. CASE controller.phase # Idle
      BY <1>1, <1>2, <1>3, <2>2, CancelIsSound DEF Sound
    <2> QED BY <2>1, <2>2
  <1> HIDE DEF s
  <1>5. StateType(s) /\ h \in History /\ h.wanted = TRUE
        /\ h.reached = s.history.reached /\ h.spent = s.history.spent
    BY <1>4 DEF Sound, StateType, History
  <1>6. r = [s EXCEPT !.repair = TRUE, !.history = h]
    BY <1>5 DEF Wanted, StateType
  <1> HIDE DEF h, r
  <1>7. /\ StateType(r) /\ r.phase = s.phase /\ r.timers = s.timers
        /\ r.generation = s.generation /\ r.stored = s.stored
        /\ r.history = h
    BY <1>5, <1>6 DEF StateType
  <1>8. TimersMatch(r) /\ CommitIsProven(r)
    BY <1>4, <1>7 DEF Sound, TimersMatch, CommitIsProven
  <1>9. Stored(r, c)
    BY <1>4, <1>5, <1>7 DEF Sound, RecordsHold, Stored, Within
  <1>10. Rests(r, c)
    BY <1>2, <1>4, <1>5, <1>7, <1>8, <1>9 DEF Rests
  <1>11. /\ Kept(BeginReplacement(r, "explicitRepair", o), c)
         /\ Kept(BeginRegistration(r, "explicitRepair", o), c)
    BY <1>10, BeginsSound DEF Purpose
  <1>12. CASE service.status = "requiresApproval"
    BY <1>4, <1>12 DEF Repair, r, s
  <1>13. CASE service.status # "requiresApproval"
    <2>1. \/ Becomes(BeginReplacement(r, "explicitRepair", o))
          \/ Becomes(BeginRegistration(r, "explicitRepair", o))
      BY <1>13 DEF Repair, r, s
    <2> QED BY <1>11, <2>1 DEF Kept
  <1> QED BY <1>12, <1>13

LEMMA RepairKeeps ==
  ASSUME IInv, NEW o \in Outcome, Repair(o)
  PROVE  IInv'
  <1>1. PICK f : Becomes(f) /\ Sound(f, budget.crashes) /\ Driven(f)
    BY RepairBegins
  <1>2. /\ budget' \in Budget /\ budget'.crashes = budget.crashes
        /\ app' = TRUE /\ UNCHANGED <<bundle, agent, answer, ran>>
    BY RequestKeeps, CostIsNat DEF Repair, Request, IInv, TypeOK
  <1> QED BY <1>1, <1>2, BecomesIInv

LEMMA UnregisterKeeps ==
  ASSUME IInv, Unregister
  PROVE  IInv'
  <1> DEFINE c == budget.crashes
             s == Cancel(State)
             w == Wanted(s, FALSE)
             v == [w.service EXCEPT !.leaving = TRUE]
             f == [w EXCEPT !.service.leaving = TRUE]
  <1>1. TypeOK /\ Sound(State, c) /\ Driven(State) BY DEF IInv
  <1>2. c \in Nat /\ bundle \in Bundle /\ StateType(State)
    BY <1>1, StateIsTyped
  <1>3. Stored(State, c)
    BY <1>1 DEF Sound, RecordsHold, Stored
  <1>4. Sound(s, c) /\ Driven(s) /\ s.phase = Idle
    BY <1>1, <1>2, <1>3, CancelIsSound DEF Sound
  <1> HIDE DEF s
  <1>5. Sound(w, c) /\ Driven(w) BY <1>4, WantedIsSound
  <1> HIDE DEF w
  <1>6. StateType(w) /\ v \in Service
    BY <1>5 DEF Sound, StateType, Service
  <1>7. f = [w EXCEPT !.service = v]
    BY <1>6 DEF StateType
  <1>8. Sound(f, c) /\ Driven(f)
    <2> HIDE DEF f, v
    <2>1. /\ StateType(f) /\ f.phase = w.phase /\ f.timers = w.timers
          /\ f.generation = w.generation /\ f.stored = w.stored
          /\ f.repair = w.repair /\ f.history = w.history
          /\ f.defaults = w.defaults /\ f.callbacks = w.callbacks
      BY <1>6, <1>7 DEF StateType
    <2>2. Driven(f)
      BY <1>5, <2>1, DrivenAlike
    <2> QED
      BY <1>5, <2>1, <2>2
      DEF Sound, BudgetHolds, CrashResumes, RecordsHold, TimersMatch,
          RepairIsOwned, CommitIsProven, RemovedIsIdle, Active
  <1>9. /\ budget' \in Budget /\ budget'.crashes = budget.crashes
        /\ app' = TRUE
    BY <1>1, RequestKeeps DEF Unregister, Request, TypeOK
  <1>10. Becomes(f) /\ UNCHANGED <<bundle, agent, answer, ran>>
    BY DEF Unregister, w, s
  <1> QED BY <1>8, <1>9, <1>10, BecomesIInv

LEMMA TimerKeeps ==
  ASSUME IInv, NEW t, NEW o \in Outcome, TimerFires(t, o)
  PROVE  IInv'
  <1> DEFINE s == [State EXCEPT !.timers = @ \ {t}]
             f == IF IsCurrent(t) THEN Fired(s, t.phase, o) ELSE s
  <1>1. TypeOK /\ Sound(State, budget.crashes) /\ Driven(State)
        /\ t \in State.timers /\ State.phase = controller.phase
    BY StateIsTyped DEF IInv, TimerFires
  <1>2. budget.crashes \in Nat /\ bundle \in Bundle
        /\ State.generation = controller.generation
    BY <1>1, StateIsTyped
  <1>3. /\ Sound(s, budget.crashes)
        /\ t.generation = State.generation
             => Kept(Fired(s, t.phase, o), budget.crashes)
        /\ t.generation # State.generation => Driven(s)
    BY <1>1, <1>2, TakenTimer
  <1> HIDE DEF s
  <1>4. t.generation = State.generation => t.phase = State.phase
    BY <1>1 DEF Sound, TimersMatch
  <1>4a. Sound(f, budget.crashes) /\ Driven(f)
    BY <1>1, <1>2, <1>3, <1>4 DEF IsCurrent, Kept
  <1>5. budget' \in Budget /\ budget'.crashes = budget.crashes
    BY <1>1, FaultKeeps, CostIsNat DEF TimerFires
  <1>6. app' = TRUE
    BY <1>1, StateIsTyped DEF TimerFires, IInv, TypeOK
  <1>7. Becomes(f) /\ UNCHANGED <<bundle, agent, answer, ran>>
    BY DEF TimerFires, s
  <1> QED BY <1>4a, <1>5, <1>6, <1>7, BecomesIInv

LEMMA CompletionKeeps ==
  ASSUME IInv, NEW e, NEW error \in BOOLEAN, NEW o \in Outcome,
         UnregisterReturns(e, error, o)
  PROVE  IInv'
  <1> DEFINE f == HandleUnregistration([State EXCEPT !.callbacks = @ \ {e}], e,
                                       error, o)
  <1>1. TypeOK /\ Sound(State, budget.crashes) /\ Driven(State)
        /\ e \in State.callbacks
    BY StateIsTyped DEF IInv, UnregisterReturns
  <1>2. budget.crashes \in Nat /\ bundle \in Bundle
    BY <1>1, StateIsTyped
  <1>3. Sound(f, budget.crashes) /\ Driven(f)
    BY <1>1, <1>2, HandleUnregistrationIsSound
  <1>4. Cost(o) + (IF error THEN 1 ELSE 0) \in Nat
    BY CostIsNat
  <1>5. budget' \in Budget /\ budget'.crashes = budget.crashes
    BY <1>1, <1>4, FaultKeeps DEF UnregisterReturns
  <1>6. app' = TRUE
    BY <1>1, StateIsTyped DEF UnregisterReturns, IInv, TypeOK
  <1>7. Becomes(f) /\ UNCHANGED <<bundle, agent, answer, ran>>
    BY DEF UnregisterReturns
  <1> QED BY <1>3, <1>5, <1>6, <1>7, BecomesIInv

LEMMA ObserveKeeps ==
  ASSUME IInv, Observe
  PROVE  IInv'
  <1> DEFINE f == IF service.status = "enabled" /\ Proves
                       /\ controller.phase.step = "awaitingIPC"
                    THEN Complete(State) ELSE State
  <1>1. TypeOK /\ Sound(State, budget.crashes) /\ Driven(State) BY DEF IInv
  <1>2. bundle \in Bundle BY <1>1, StateIsTyped
  <1>3. Proves => bundle \in ran
    BY DEF Observe, Proves, IInv
  <1>4. Sound(f, budget.crashes) /\ Driven(f)
    BY <1>1, <1>2, <1>3, CompleteIsSound
  <1>5. Becomes(f) /\ answer' = 0 /\ UNCHANGED <<bundle, agent, ran, budget>>
        /\ app'
    BY DEF Observe
  <1>6. app' = TRUE BY <1>1 DEF Observe, TypeOK
  <1> QED BY <1>1, <1>4, <1>5, <1>6, BecomesIInv DEF TypeOK

-----------------------------------------------------------------------------
(* What happens outside the controller                                     *)

(* The properties do not look at the service.                              *)
LEMMA ServiceKeeps ==
  ASSUME IInv, service' \in Service, UNCHANGED <<app, history, ran>>,
         ControllerUnchanged, budget' \in Budget,
         budget'.crashes = budget.crashes, UNCHANGED <<agent, answer>>
  PROVE  IInv'
  <1>1. TypeOK' BY DEF IInv, TypeOK, ControllerUnchanged
  <1>2. StateType(State)'
    BY DEF IInv, Sound, StateType, State, ControllerUnchanged
  <1>3. /\ State'.phase = State.phase /\ State'.timers = State.timers
        /\ State'.generation = State.generation
        /\ State'.stored = State.stored /\ State'.repair = State.repair
        /\ State'.history = State.history
        /\ State'.defaults = State.defaults
    BY DEF State, ControllerUnchanged
  <1>4. UNCHANGED <<bundle, ran>> BY DEF ControllerUnchanged
  <1>5. Sound(State, budget.crashes)'
    BY <1>2, <1>3, <1>4
    DEF IInv, Sound, BudgetHolds, CrashResumes, RecordsHold, TimersMatch,
        RepairIsOwned, CommitIsProven, RemovedIsIdle, Active
  <1>6. Driven(State)'
    BY DEF IInv, Driven, State, ControllerUnchanged
  <1> QED BY <1>1, <1>5, <1>6 DEF IInv, ControllerUnchanged

(* Nor at the agent but for the builds that ever ran.                      *)
LEMMA AgentKeeps ==
  ASSUME IInv, ControllerUnchanged, ran \subseteq ran', ran' \subseteq Bundle,
         agent' \in 0..LastBundle, answer' \in 0..LastBundle,
         UNCHANGED <<service, history, budget>>,
         answer' # 0 => app /\ answer' \in ran', agent' # 0 => agent' \in ran'
  PROVE  IInv'
  <1>1. TypeOK' BY DEF IInv, TypeOK, ControllerUnchanged
  <1>2. State' = State /\ UNCHANGED bundle
    BY DEF State, ControllerUnchanged
  <1> DEFINE c == budget.crashes
  <1>3. CommitIsProven(State)'
    BY <1>2 DEF IInv, Sound, CommitIsProven
  <1>4. Sound(State, c)'
    BY <1>2, <1>3
    DEF IInv, Sound, StateType, BudgetHolds, CrashResumes, RecordsHold,
        TimersMatch, RepairIsOwned, RemovedIsIdle, Active
  <1>5. Driven(State)'
    BY <1>2 DEF IInv, Driven
  <1> QED BY <1>1, <1>4, <1>5 DEF IInv, ControllerUnchanged

LEMMA EnvironmentKeeps ==
  ASSUME IInv,
         \/ UnregistrationShows \/ ApprovalChanges
         \/ AgentStarts \/ AgentExits \/ AgentAnswers
  PROVE  IInv'
  <1>0. TypeOK /\ service \in Service /\ bundle \in 1..LastBundle
    BY DEF IInv, TypeOK, Bundle
  <1>1. CASE UnregistrationShows
    <2>1. service' \in Service BY <1>0, <1>1 DEF UnregistrationShows, Service
    <2> QED
      BY <1>0, <1>1, <2>1, ServiceKeeps
      DEF UnregistrationShows, ControllerUnchanged, TypeOK
  <1>2. CASE ApprovalChanges
    <2>1. service' \in Service BY <1>0, <1>2 DEF ApprovalChanges, Service
    <2>2. budget' \in Budget /\ budget'.crashes = budget.crashes
      BY <1>0, <1>2, FaultKeeps DEF ApprovalChanges
    <2> QED
      BY <1>2, <2>1, <2>2, ServiceKeeps
      DEF ApprovalChanges, ControllerUnchanged
  <1>3. CASE AgentStarts
    BY <1>0, <1>3, AgentKeeps DEF AgentStarts, IInv, TypeOK, Bundle
  <1>4. CASE AgentExits
    BY <1>0, <1>4, AgentKeeps DEF AgentExits, IInv, TypeOK
  <1>5. CASE AgentAnswers
    BY <1>0, <1>5, AgentKeeps DEF AgentAnswers, IInv, TypeOK
  <1> QED BY <1>1, <1>2, <1>3, <1>4, <1>5

(* A crash keeps one of the values that may have been stored.              *)
LEMMA CrashKeeps ==
  ASSUME IInv, NEW next \in Bundle, Crash(next)
  PROVE  IInv'
  <1>1. TypeOK /\ Sound(State, budget.crashes) BY DEF IInv
  <1>2. /\ budget.crashes \in Nat /\ StateType(State)
        /\ State.stored = stored /\ State.history = history
    BY <1>1, StateIsTyped
  <1>3. /\ budget' \in Budget /\ budget'.crashes = budget.crashes + 1
        /\ budget'.crashes \in Nat
    BY <1>1 DEF TypeOK, Budget, Crash
  <1>4. Idle \in Phase BY DEF Idle, At, Phase, Attempt
  <1>5. defaults' \in stored /\ defaults' \in Defaults
    BY <1>1 DEF Crash, TypeOK
  <1>6. TypeOK'
    <2>1. controller' \in Controller
      BY <1>4 DEF Crash, Controller
    <2>2. stored' \in SUBSET Defaults /\ defaults' \in Defaults
      BY <1>5 DEF Crash
    <2>3. app' \in BOOLEAN
      BY DEF Crash
    <2>4. /\ bundle' \in Bundle /\ timers' = {} /\ callbacks' = {}
          /\ answer' = 0 /\ UNCHANGED <<service, agent, ran, history>>
      BY DEF Crash
    <2>5. 0 \in 0..LastBundle
      OBVIOUS
    <2> QED BY <1>1, <1>3, <2>1, <2>2, <2>3, <2>4, <2>5 DEF TypeOK
  <1> DEFINE s == State'
  <1>7. s = [phase |-> Idle, generation |-> 0, repair |-> FALSE,
             timers |-> {}, callbacks |-> {}, defaults |-> defaults',
             stored |-> {defaults'}, service |-> service, history |-> history]
    BY DEF State, Crash
  <1>8. StateType(State)'
    BY <1>1, <1>4, <1>5, <1>7 DEF StateType, TypeOK
  <1>9. ~Active(State)' /\ s.phase = Idle
    BY <1>7 DEF Active, DurablePhase, Idle, At
  <1>10. RecordsHold(State, budget.crashes)'
    <2>1. IsRecord(defaults'.record)
            => Within(history, defaults'.record.attempt, budget.crashes + 1)
      BY <1>1, <1>2, <1>5 DEF Sound, RecordsHold
    <2>2. IsRecord(defaults'.record)
            => defaults'.record.attempt \in Attempt /\ history \in History
      BY <1>1, <1>5 DEF Defaults, Record, IsRecord, TypeOK
    <2>3. IsRecord(defaults'.record)
            => Within(history, defaults'.record.attempt, budget.crashes + 2)
      BY <1>2, <2>1, <2>2 DEF Within, History, Attempt
    <2> QED
      BY <1>2, <1>3, <1>7, <2>1, <2>3 DEF RecordsHold, IsRecord, Within
  <1>11. CommitIsProven(State)'
    BY <1>1, <1>2, <1>5, <1>7 DEF Sound, CommitIsProven, Crash
  <1>12. TimersMatch(State)' /\ RepairIsOwned(State)' /\ RemovedIsIdle(State)'
    BY <1>7 DEF TimersMatch, RepairIsOwned, RemovedIsIdle
  <1>13. BudgetHolds(State, budget.crashes)' /\ CrashResumes(State)'
    BY <1>9 DEF BudgetHolds, CrashResumes, Active
  <1>14. Sound(State, budget.crashes)'
    BY <1>8, <1>10, <1>11, <1>12, <1>13 DEF Sound
  <1>15. Driven(State)'
    BY <1>9 DEF Active, Driven, DurablePhase
  <1> QED BY <1>1, <1>6, <1>14, <1>15 DEF IInv, Crash

-----------------------------------------------------------------------------
(* The theorems                                                            *)

LEMMA InitIInv == Init => IInv
  <1> SUFFICES ASSUME Init PROVE IInv
    OBVIOUS
  <1>1. Idle \in Phase /\ 0 \in Attempt BY DEF Idle, At, Phase, Attempt
  <1>2. defaults \in Defaults /\ defaults.committed = 0
        /\ defaults.record \in {NoRecord, Corrupt}
    BY DEF Init, Defaults, Record
  <1>3. service \in Service /\ history \in History
    BY <1>1 DEF Init, Service, History
  <1>4. TypeOK
    <2>1. controller \in Controller
      BY <1>1 DEF Init, Controller
    <2>2. budget \in Budget
      BY DEF Init, Budget
    <2>3. app \in BOOLEAN
      BY DEF Init
    <2>4. /\ bundle \in Bundle /\ answer \in 0..LastBundle
          /\ agent \in 0..LastBundle
      BY DEF Init, Bundle
    <2>5. timers = {} /\ callbacks = {} /\ stored = {defaults} /\ ran = {}
      BY DEF Init
    <2> QED BY <1>2, <1>3, <2>1, <2>2, <2>3, <2>4, <2>5 DEF TypeOK
  <1>5. State = [phase |-> Idle, generation |-> 0, repair |-> FALSE,
                 timers |-> {}, callbacks |-> {}, defaults |-> defaults,
                 stored |-> {defaults}, service |-> service,
                 history |-> history]
    BY DEF State, Init
  <1>6. StateType(State)
    BY <1>1, <1>2, <1>3, <1>5 DEF StateType
  <1>7. ~Active(State) BY <1>5 DEF Active, DurablePhase, Idle, At
  <1>8. RecordsHold(State, budget.crashes) /\ CommitIsProven(State)
    BY <1>2, <1>5 DEF RecordsHold, CommitIsProven, IsRecord
  <1>9. TimersMatch(State) /\ RepairIsOwned(State) /\ RemovedIsIdle(State)
    BY <1>5 DEF TimersMatch, RepairIsOwned, RemovedIsIdle
  <1>10. Sound(State, budget.crashes)
    BY <1>6, <1>7, <1>8, <1>9 DEF Sound, BudgetHolds, CrashResumes
  <1>11. Driven(State) BY <1>7, RestingIsDriven
  <1> QED BY <1>4, <1>10, <1>11 DEF IInv, Init

LEMMA NextIInv == IInv /\ [Next]_vars => IInv'
  <1> SUFFICES ASSUME IInv, [Next]_vars PROVE IInv'
    OBVIOUS
  <1>1. CASE \E o \in Outcome : Launch(o) BY <1>1, LaunchKeeps
  <1>2. CASE User
    BY <1>2, UnregisterKeeps, RegisterKeeps, RepairKeeps DEF User
  <1>3. CASE Timers BY <1>3, TimerKeeps DEF Timers
  <1>4. CASE Completions BY <1>4, CompletionKeeps DEF Completions
  <1>5. CASE Observe BY <1>5, ObserveKeeps
  <1>6. CASE Environment
    BY <1>6, EnvironmentKeeps, CrashKeeps DEF Environment
  <1>7. CASE UNCHANGED vars
    BY <1>7
    DEF vars, IInv, TypeOK, Sound, StateType, BudgetHolds, CrashResumes,
        RecordsHold, TimersMatch, RepairIsOwned, CommitIsProven,
        RemovedIsIdle, Active, Driven, State
  <1> QED BY <1>1, <1>2, <1>3, <1>4, <1>5, <1>6, <1>7 DEF Next

(* The inductive invariant always holds.                                   *)
THEOREM Invariance == Spec => []IInv
  <1> QED BY InitIInv, NextIInv, PTL DEF Spec

(* A relaunch gives no attempt back, and no attempt registers twice but    *)
(* for one that a crash interrupted.                                       *)
THEOREM Budgeted == Spec => []BudgetSurvives
  <1>1. IInv => BudgetSurvives BY DEF IInv, Sound, BudgetSurvives
  <1> QED BY <1>1, Invariance, PTL

(* A step that leaves the agent registered that was not was taken for a    *)
(* user who wants it.                                                      *)
LEMMA NextRemoval ==
  ASSUME IInv, [Next]_vars, ~Listed(service.status),
         service'.status = "enabled"
  PROVE  history'.wanted
  <1> DEFINE c == budget.crashes
  <1>1. TypeOK /\ Sound(State, c) /\ Driven(State) BY DEF IInv
  <1>2. /\ c \in Nat /\ bundle \in Bundle /\ StateType(State)
        /\ State.service = service /\ State.callbacks = callbacks
        /\ State.timers = timers /\ State.phase = controller.phase
        /\ State.generation = controller.generation
    BY <1>1, StateIsTyped
  <1>3. ASSUME NEW s, Becomes(s), Kept(s, c)
        PROVE  history'.wanted
    BY <1>3 DEF Becomes, Kept
  <1>4. ASSUME NEW s, Becomes(s), s.service = service
        PROVE  FALSE
    BY <1>4 DEF Becomes, Listed
  <1>5. /\ Sound(Wanted(State, TRUE), c) /\ Driven(Wanted(State, TRUE))
        /\ Wanted(State, TRUE).history.wanted
        /\ Wanted(State, TRUE).phase = controller.phase
    BY <1>1, <1>2, WantedIsSound
  <1>6. CASE \E o \in Outcome : Launch(o)
    <2>1. PICK o \in Outcome : Launch(o) BY <1>6
    <2>2. Kept(Bootstrap(Wanted(State, TRUE), o), c)
      BY <1>2, <1>5, <2>1, BootstrapIsSound DEF IInv, Launch
    <2> QED BY <1>3, <2>1, <2>2 DEF Launch
  <1>7. CASE \E o \in Outcome : Register(o)
    <2>1. PICK o \in Outcome : Register(o) BY <1>7
    <2>2. Kept(RegisterUnlisted(Wanted(State, TRUE), o), c)
      BY <1>2, <1>5, RegisterUnlistedIsSound
    <2> QED BY <1>3, <2>1, <2>2 DEF Register
  <1>8. CASE \E o \in Outcome : Repair(o)
    <2>1. PICK o \in Outcome : Repair(o) BY <1>8
    <2>2. PICK s : Becomes(s) /\ Kept(s, c)
      BY <2>1, RepairBegins DEF Listed
    <2> QED BY <1>3, <2>2
  <1>9. CASE Timers
    <2>1. PICK t \in timers, o \in Outcome : TimerFires(t, o)
      BY <1>9 DEF Timers
    <2> DEFINE r == [State EXCEPT !.timers = @ \ {t}]
    <2>2. r.service = service BY <1>2 DEF StateType
    <2>3. t.generation = State.generation => Kept(Fired(r, t.phase, o), c)
      BY <1>1, <1>2, <2>1, TakenTimer
    <2> HIDE DEF r
    <2>4. CASE IsCurrent(t)
      BY <1>2, <1>3, <2>1, <2>3, <2>4 DEF TimerFires, IsCurrent, r
    <2>5. CASE ~IsCurrent(t)
      BY <1>4, <2>1, <2>2, <2>5 DEF TimerFires, r
    <2> QED BY <2>4, <2>5
  <1>10. CASE Completions
    <2>1. PICK e \in callbacks, error \in BOOLEAN, o \in Outcome :
            UnregisterReturns(e, error, o)
      BY <1>10 DEF Completions
    <2> DEFINE r == [State EXCEPT !.callbacks = @ \ {e}]
               f == HandleUnregistration(r, e, error, o)
    <2>2. r.service = service BY <1>2 DEF StateType
    <2>3. f = r \/ Kept(f, c)
      BY <1>1, <1>2, HandleUnregistrationIsSound
    <2>4. Becomes(f) BY <2>1 DEF UnregisterReturns
    <2> HIDE DEF f, r
    <2> QED BY <1>3, <1>4, <2>2, <2>3, <2>4
  <1>11. CASE Observe
    <2>1. Complete(State).service = service
      BY <1>2 DEF Complete, Cancel, Clear, Set, StateType
    <2> QED BY <1>2, <1>4, <1>11, <2>1 DEF Observe
  <1>12. CASE Unregister
    BY <1>12 DEF Unregister, Listed
  <1>13. CASE Environment
    BY <1>1, <1>13
    DEF Environment, UnregistrationShows, ApprovalChanges, AgentStarts,
        AgentExits, AgentAnswers, Crash, Listed, TypeOK, Service
  <1>14. CASE UNCHANGED vars
    BY <1>14 DEF vars, Listed
  <1> QED
    BY <1>6, <1>7, <1>8, <1>9, <1>10, <1>11, <1>12, <1>13, <1>14
    DEF Next, User

(* After the user took the agent away it is registered only when the user  *)
(* asks for it, or by a launch.                                            *)
THEOREM RemovalIsFinal == Spec => RemovalStands
  <1>1. IInv /\ [Next]_vars
          => [~Listed(service.status) /\ service'.status = "enabled"
                => history'.wanted]_vars
    BY NextRemoval
  <1> QED BY <1>1, Invariance, PTL DEF Spec, RemovalStands

(* A version is committed only after its own build ran.                    *)
THEOREM Proven == Spec => []CommitIsProven(State)
  <1>1. IInv => CommitIsProven(State) BY DEF IInv, Sound
  <1> QED BY <1>1, Invariance, PTL

(* A transaction in flight is never left alone, whatever was cancelled,    *)
(* refused or overtaken before: its timer is due, or the completion of its *)
(* unregistration is still to come.                                        *)
THEOREM NeverStranded == Spec => []Driven(State)
  <1>1. IInv => Driven(State) BY DEF IInv
  <1> QED BY <1>1, Invariance, PTL

-----------------------------------------------------------------------------
(* A transaction only goes ahead. How far each operator takes one that is  *)
(* in its attempt n, if it does not end it; for this the contents of the   *)
(* record do not matter.                                                   *)

(* A value with the fields of State.                                       *)
Shaped(s) ==
  s = [phase |-> s.phase, generation |-> s.generation, repair |-> s.repair,
       timers |-> s.timers, callbacks |-> s.callbacks,
       defaults |-> s.defaults, stored |-> s.stored, service |-> s.service,
       history |-> s.history]

(* In flight, f is in attempt n at step number k, or in a later attempt.   *)
Leads(f, g, p, n, k) ==
  Active(f) =>
    /\ f.generation = g /\ f.phase.purpose = p
    /\ \/ f.phase.attempt > n
       \/ f.phase.attempt = n /\ Rank(f.phase.step) >= k

(* In flight, f is in attempt n at the step with k checks, or further.     *)
Counts(f, g, p, n, step, k) ==
  Active(f) =>
    /\ f.generation = g /\ f.phase.purpose = p
    /\ \/ f.phase.attempt > n
       \/ /\ f.phase.attempt = n
          /\ \/ Rank(f.phase.step) > Rank(step)
             \/ f.phase.step = step /\ f.phase.checks = k

LEMMA RankIs ==
  /\ Rank("retryScheduled") = 0 /\ Rank("unregistering") = 1
  /\ Rank("awaitingUnregistered") = 2 /\ Rank("awaitingRegistration") = 3
  /\ Rank("awaitingIPC") = 4
  BY DEF Rank

LEMMA TypedIsShaped ==
  ASSUME NEW s, StateType(s)
  PROVE  Shaped(s)
  BY DEF StateType, Shaped

LEMMA PersistShapes ==
  ASSUME NEW s, NEW q, NEW p, NEW n, NEW ok, Shaped(s)
  PROVE  LET r == Persist(s, q, p, n, ok) IN
         /\ Shaped(r) /\ r.generation = s.generation /\ r.phase = s.phase
         /\ r.service = s.service
  BY DEF Persist, Set, Shaped

LEMMA RegisteredShapes ==
  ASSUME NEW s, NEW o, Shaped(s)
  PROVE  /\ Shaped(Registered(s, o))
         /\ Registered(s, o).generation = s.generation
  <1> DEFINE h == [s.history EXCEPT !.spent = @ + 1]
             v == [s.service EXCEPT
                     !.status = IF o.register = "error" \/ Listed(@) THEN @
                                ELSE o.register]
  <1>1. Registered(s, o) = [s EXCEPT !.history = h, !.service = v]
    BY DEF Registered, Shaped
  <1> HIDE DEF h, v
  <1> QED BY <1>1 DEF Shaped

LEMMA SetShapes ==
  ASSUME NEW s, NEW d, Shaped(s)
  PROVE  /\ Shaped(Set(s, d)) /\ Set(s, d).generation = s.generation
         /\ Shaped(Clear(s)) /\ Clear(s).generation = s.generation
  <1>1. ASSUME NEW e
        PROVE  Shaped(Set(s, e)) /\ Set(s, e).generation = s.generation
    <2> DEFINE w == s.stored \cup {e}
    <2>1. Set(s, e) = [s EXCEPT !.defaults = e, !.stored = w]
      BY DEF Set, Shaped
    <2> HIDE DEF w
    <2> QED BY <2>1 DEF Shaped
  <1>2. Clear(s) = Set(s, [s.defaults EXCEPT !.record = NoRecord])
    BY DEF Clear
  <1> QED BY <1>1, <1>2

LEMMA WantedShapes ==
  ASSUME NEW s, NEW yes, Shaped(s)
  PROVE  /\ Shaped(Wanted(s, yes)) /\ Wanted(s, yes).phase = s.phase
         /\ Wanted(s, yes).generation = s.generation
         /\ Wanted(s, yes).repair = s.repair
  <1> DEFINE h == [s.history EXCEPT !.wanted = yes]
  <1>1. Wanted(s, yes) = [s EXCEPT !.history = h]
    BY DEF Wanted, Shaped
  <1> HIDE DEF h
  <1> QED BY <1>1 DEF Shaped

LEMMA RepairShapes ==
  ASSUME NEW s, NEW y, Shaped(s)
  PROVE  LET x == [s EXCEPT !.repair = y] IN
         Shaped(x) /\ x.phase = s.phase /\ x.generation = s.generation
  BY DEF Shaped

LEMMA FailLeaves ==
  ASSUME NEW s, Shaped(s)
  PROVE  ~Active(Fail(s))
  <1>1. Fail(s).phase = Failed
    BY DEF Fail, Clear, Set, Shaped
  <1> QED BY <1>1 DEF Active, DurablePhase, Failed, At

LEMMA CancelLeaves ==
  ASSUME NEW s, Shaped(s)
  PROVE  /\ Cancel(s).phase = Idle /\ ~Active(Cancel(s))
         /\ Cancel(s).generation = s.generation + 1
         /\ Shaped(Cancel(s))
  <1> DEFINE r == Clear(s)
             g == s.generation + 1
             f == [r EXCEPT !.phase = Idle, !.repair = FALSE,
                            !.generation = g]
  <1>0. Shaped(r) /\ r.generation = s.generation /\ Cancel(s) = f
    BY SetShapes DEF Cancel, Shaped
  <1> HIDE DEF r, g
  <1>1. /\ Cancel(s).phase = Idle /\ Shaped(Cancel(s))
        /\ Cancel(s).generation = g
    BY <1>0 DEF Shaped
  <1> QED BY <1>1 DEF Active, DurablePhase, Idle, At, g

LEMMA AfterLeads ==
  ASSUME NEW s, NEW q, Shaped(s)
  PROVE  /\ After(s, q).phase = q
         /\ After(s, q).generation = s.generation
  BY DEF After, Shaped

LEMMA ScheduleRetryLeads ==
  ASSUME NEW s, NEW p, NEW n \in Nat, NEW o, Shaped(s)
  PROVE  Active(ScheduleRetry(s, p, n, o)) =>
           /\ ScheduleRetry(s, p, n, o).generation = s.generation
           /\ ScheduleRetry(s, p, n, o).phase.purpose = p
           /\ ScheduleRetry(s, p, n, o).phase.attempt = n + 1
  <1> DEFINE r == Persist(s, "retryScheduled", p, n + 1, o.first)
             q == At("retryScheduled", p, n + 1, 0)
             a == After(r, q)
             f == [a EXCEPT !.history.reached = n + 1]
  <1>1. Shaped(r) /\ r.generation = s.generation
    BY PersistShapes
  <1> HIDE DEF r
  <1>2. ~Active(Fail(s)) /\ ~Active(Fail(r))
    BY <1>1, FailLeaves
  <1>3. f.phase = q /\ f.generation = s.generation
    BY <1>1 DEF After, Shaped
  <1>4. q.purpose = p /\ q.attempt = n + 1
    BY DEF At
  <1> HIDE DEF q
  <1>5. \/ ScheduleRetry(s, p, n, o) = Fail(s)
        \/ ScheduleRetry(s, p, n, o) = Fail(r)
        \/ ScheduleRetry(s, p, n, o) = f
    BY DEF ScheduleRetry, r, q
  <1> HIDE DEF f
  <1> QED BY <1>2, <1>3, <1>4, <1>5

LEMMA WaitForIPCLeads ==
  ASSUME NEW s, NEW p, NEW n \in Nat, NEW k, NEW o, Shaped(s)
  PROVE  /\ Counts(WaitForIPC(s, p, n, k, o), s.generation, p, n,
                   "awaitingIPC", k)
         /\ Leads(WaitForIPC(s, p, n, k, o), s.generation, p, n, 4)
  <1> DEFINE f == WaitForIPC(s, p, n, k, o)
             q == At("awaitingIPC", p, n, k)
  <1>1. /\ q.purpose = p /\ q.attempt = n /\ q.step = "awaitingIPC"
        /\ q.checks = k
    BY DEF At
  <1>2. \/ f = After(s, q)
        \/ f = Fail(s)
        \/ f = ScheduleRetry(s, p, n, o)
    BY DEF WaitForIPC
  <1> HIDE DEF f, q
  <1>3. CASE f = After(s, q)
    <2>1. f.phase = q /\ f.generation = s.generation
      BY <1>3, AfterLeads
    <2> QED BY <1>1, <2>1, RankIs DEF Counts, Leads, f
  <1>4. CASE f = Fail(s)
    BY <1>4, FailLeaves DEF Counts, Leads, f
  <1>5. CASE f = ScheduleRetry(s, p, n, o)
    <2>1. Active(f) =>
            /\ f.generation = s.generation /\ f.phase.purpose = p
            /\ f.phase.attempt = n + 1
      BY <1>5, ScheduleRetryLeads
    <2>2. n + 1 > n
      OBVIOUS
    <2> QED BY <2>1, <2>2 DEF Counts, Leads, f
  <1> QED BY <1>2, <1>3, <1>4, <1>5

LEMMA PerformRegistrationLeads ==
  ASSUME NEW s, NEW p, NEW n \in Nat, NEW o, Shaped(s)
  PROVE  Leads(PerformRegistration(s, p, n, o), s.generation, p, n, 4)
  <1> DEFINE asked == Persist(s, "awaitingRegistration", p, n, o.first)
             done == Registered(asked, o)
             accepted == Persist(done, "awaitingIPC", p, n, o.second)
             f == PerformRegistration(s, p, n, o)
  <1>1. Shaped(asked) /\ asked.generation = s.generation
    BY PersistShapes
  <1>2. Shaped(done) /\ done.generation = s.generation
    BY <1>1, RegisteredShapes
  <1>3. Shaped(accepted) /\ accepted.generation = s.generation
    BY <1>2, PersistShapes
  <1>4. \/ f = Fail(asked)
        \/ f = Fail(done)
        \/ f = Fail(accepted)
        \/ f = WaitForIPC(accepted, p, n, o.checks, o)
    BY DEF PerformRegistration
  <1> HIDE DEF asked, done, accepted, f
  <1>5. ~Active(Fail(asked)) /\ ~Active(Fail(done)) /\ ~Active(Fail(accepted))
    BY <1>1, <1>2, <1>3, FailLeaves
  <1>6. Leads(WaitForIPC(accepted, p, n, o.checks, o), s.generation, p, n, 4)
    BY <1>3, WaitForIPCLeads
  <1>7. Leads(f, s.generation, p, n, 4)
    BY <1>4, <1>5, <1>6 DEF Leads
  <1> QED BY <1>7 DEF f

LEMMA ScheduleRegistrationLeads ==
  ASSUME NEW s, NEW p, NEW n \in Nat, NEW o, Shaped(s)
  PROVE  Leads(ScheduleRegistration(s, p, n, o), s.generation, p, n, 3)
  <1> DEFINE r == Persist(s, "awaitingRegistration", p, n, o.second)
             q == At("awaitingRegistration", p, n, 0)
             f == ScheduleRegistration(s, p, n, o)
  <1>1. Shaped(r) /\ r.generation = s.generation
    BY PersistShapes
  <1>2. f = After(r, q) \/ f = Fail(r)
    BY DEF ScheduleRegistration
  <1>3. q.purpose = p /\ q.attempt = n /\ q.step = "awaitingRegistration"
    BY DEF At
  <1> HIDE DEF r, q, f
  <1>4. ~Active(Fail(r)) BY <1>1, FailLeaves
  <1>5. After(r, q).phase = q /\ After(r, q).generation = s.generation
    BY <1>1, AfterLeads
  <1>6. Leads(f, s.generation, p, n, 3)
    BY <1>2, <1>3, <1>4, <1>5, RankIs DEF Leads
  <1> QED BY <1>6 DEF f

LEMMA WaitForUnregisteredLeads ==
  ASSUME NEW s, NEW p, NEW n \in Nat, NEW k, NEW o, Shaped(s)
  PROVE  Counts(WaitForUnregistered(s, p, n, k, o), s.generation, p, n,
                "awaitingUnregistered", k)
  <1> DEFINE r == IF k = StatusChecks
                    THEN Persist(s, "awaitingUnregistered", p, n, o.first)
                    ELSE s
             q == At("awaitingUnregistered", p, n, k)
             f == WaitForUnregistered(s, p, n, k, o)
  <1>1. Shaped(r) /\ r.generation = s.generation
    BY PersistShapes
  <1>2. \/ f = Fail(r)
        \/ f = After(r, q)
        \/ f = ScheduleRegistration(r, p, n, o)
    BY DEF WaitForUnregistered
  <1>3. /\ q.purpose = p /\ q.attempt = n /\ q.step = "awaitingUnregistered"
        /\ q.checks = k
    BY DEF At
  <1> HIDE DEF r, q, f
  <1>4. ~Active(Fail(r)) BY <1>1, FailLeaves
  <1>5. After(r, q).phase = q /\ After(r, q).generation = s.generation
    BY <1>1, AfterLeads
  <1>6. Leads(ScheduleRegistration(r, p, n, o), s.generation, p, n, 3)
    BY <1>1, ScheduleRegistrationLeads
  <1>7. CASE f = Fail(r)
    BY <1>4, <1>7 DEF Counts, f
  <1>8. CASE f = After(r, q)
    BY <1>3, <1>5, <1>8 DEF Counts, f
  <1>9. CASE f = ScheduleRegistration(r, p, n, o)
    <2>1. Leads(f, s.generation, p, n, 3) BY <1>6, <1>9
    <2>2. f.phase.step \in DurablePhase /\ Rank(f.phase.step) >= 3
            => Rank(f.phase.step) > Rank("awaitingUnregistered")
      BY RankIs DEF DurablePhase
    <2> QED BY <2>1, <2>2 DEF Leads, Counts, Active, f
  <1> QED BY <1>2, <1>7, <1>8, <1>9

LEMMA StartReplacementLeads ==
  ASSUME NEW s, NEW p, NEW n \in Nat, NEW o, Shaped(s)
  PROVE  Leads(StartReplacement(s, p, n, o), s.generation, p, n, 1)
  <1> DEFINE r == Persist(s, "unregistering", p, n, o.first)
             e == [generation |-> s.generation, purpose |-> p, attempt |-> n]
             q == At("unregistering", p, n, 0)
             u == [r EXCEPT !.phase = q, !.service.leaving = TRUE,
                            !.callbacks = @ \cup {e}]
             f == StartReplacement(s, p, n, o)
  <1>1. Shaped(r) /\ r.generation = s.generation
    BY PersistShapes
  <1>2. \/ f = PerformRegistration(s, p, n, o)
        \/ f = Fail(r)
        \/ f = u
    BY DEF StartReplacement
  <1>3. q.purpose = p /\ q.attempt = n /\ q.step = "unregistering"
    BY DEF At
  <1> HIDE DEF r, q, e
  <1>4. u.phase = q /\ u.generation = s.generation
    BY <1>1 DEF Shaped
  <1> HIDE DEF f, u
  <1>5. ~Active(Fail(r)) BY <1>1, FailLeaves
  <1>6. Leads(PerformRegistration(s, p, n, o), s.generation, p, n, 4)
    BY PerformRegistrationLeads
  <1>7. CASE f = PerformRegistration(s, p, n, o)
    <2>1. Leads(f, s.generation, p, n, 4) BY <1>6, <1>7
    <2>2. f.phase.step \in DurablePhase /\ Rank(f.phase.step) >= 4
            => Rank(f.phase.step) >= 1
      BY RankIs DEF DurablePhase
    <2> QED BY <2>1, <2>2 DEF Leads, Active, f
  <1>8. CASE f = Fail(r)
    BY <1>5, <1>8 DEF Leads, f
  <1>9. CASE f = u
    BY <1>3, <1>4, <1>9, RankIs DEF Leads, f
  <1> QED BY <1>2, <1>7, <1>8, <1>9

(* Beginning from idle, with the user's repair.                            *)
LEMMA BeginsLead ==
  ASSUME NEW s, NEW p, NEW o, Shaped(s), s.phase = Idle
  PROVE  /\ Leads(BeginRegistration(s, p, o), s.generation + 1, p, 0, 1)
         /\ Leads(BeginReplacement(s, p, o), s.generation + 1, p, 0, 1)
  <1> DEFINE b == Begun(s)
             f == BeginRegistration(s, p, o)
  <1>1. Shaped(b) /\ b.generation = s.generation + 1
    <2> DEFINE g == s.generation + 1
               h == [s.history EXCEPT !.reached = 0, !.spent = 0]
    <2>1. b = [s EXCEPT !.generation = g, !.history = h]
      BY DEF Begun, Shaped
    <2> HIDE DEF b, g, h
    <2>2. Shaped(b) /\ b.generation = g
      BY <2>1 DEF Shaped
    <2> QED BY <2>2 DEF g
  <1>2. /\ f = PerformRegistration(b, p, 0, o)
        /\ BeginReplacement(s, p, o) = StartReplacement(b, p, 0, o)
    BY DEF BeginRegistration, BeginReplacement
  <1> HIDE DEF b, f
  <1>3. Leads(f, s.generation + 1, p, 0, 4)
    BY <1>1, <1>2, PerformRegistrationLeads
  <1>4. f.phase.step \in DurablePhase /\ Rank(f.phase.step) >= 4
          => Rank(f.phase.step) >= 1
    BY RankIs DEF DurablePhase
  <1>5. Leads(f, s.generation + 1, p, 0, 1)
    BY <1>3, <1>4 DEF Leads, Active
  <1>6. Leads(StartReplacement(b, p, 0, o), s.generation + 1, p, 0, 1)
    BY <1>1, StartReplacementLeads
  <1> QED BY <1>2, <1>5, <1>6 DEF f

(* What a timer of the phase q makes of it.                                *)
LEMMA FiredGoesAhead ==
  ASSUME NEW s, NEW q \in Phase, NEW o, Shaped(s), IsTimed(q),
         Active(Fired(s, q, o))
  PROVE  LET f == Fired(s, q, o) IN
         f.generation = s.generation /\ Ahead(q, f.phase)
  <1> DEFINE f == Fired(s, q, o)
             p == q.purpose
             n == q.attempt
  <1>1. q.step \in {"awaitingUnregistered", "awaitingRegistration",
                    "awaitingIPC", "retryScheduled"}
    BY DEF IsTimed, DurablePhase
  <1>2. n \in Nat /\ q.checks \in Nat
    BY DEF Phase, Attempt
  <1>3. f.phase.step \in DurablePhase
    BY DEF Active
  <1>4. CASE q.step = "awaitingUnregistered"
    <2>1. f = WaitForUnregistered(s, p, n, q.checks - 1, o)
      BY <1>4 DEF Fired
    <2> HIDE DEF f, p, n
    <2>2. Counts(f, s.generation, p, n, q.step, q.checks - 1)
      BY <1>2, <1>4, <2>1, WaitForUnregisteredLeads
    <2> QED BY <1>2, <2>2 DEF Counts, Ahead, f, p, n
  <1>5. CASE q.step = "awaitingRegistration"
    <2>1. f = PerformRegistration(s, p, n, o)
      BY <1>5 DEF Fired
    <2> HIDE DEF f, p, n
    <2>2. Leads(f, s.generation, p, n, 4)
      BY <1>2, <2>1, PerformRegistrationLeads
    <2>3. Rank(f.phase.step) >= 4 => Rank(f.phase.step) > Rank(q.step)
      BY <1>3, <1>5, RankIs DEF DurablePhase
    <2> QED BY <2>2, <2>3 DEF Leads, Ahead, f, p, n
  <1>6. CASE q.step = "awaitingIPC"
    <2>1. f = WaitForIPC(s, p, n, q.checks - 1, o)
      BY <1>6 DEF Fired
    <2> HIDE DEF f, p, n
    <2>2. Counts(f, s.generation, p, n, q.step, q.checks - 1)
      BY <1>2, <1>6, <2>1, WaitForIPCLeads
    <2> QED BY <1>2, <2>2 DEF Counts, Ahead, f, p, n
  <1>7. CASE q.step = "retryScheduled"
    <2>1. f = StartReplacement(s, p, n, o)
      BY <1>7 DEF Fired
    <2> HIDE DEF f, p, n
    <2>2. Leads(f, s.generation, p, n, 1)
      BY <1>2, <2>1, StartReplacementLeads
    <2>3. Rank(f.phase.step) >= 1 => Rank(f.phase.step) > Rank(q.step)
      BY <1>3, <1>7, RankIs DEF DurablePhase
    <2> QED BY <2>2, <2>3 DEF Leads, Ahead, f, p, n
  <1> QED BY <1>1, <1>4, <1>5, <1>6, <1>7

LEMMA CompletionGoesAhead ==
  ASSUME NEW s, NEW e \in Callback, NEW error, NEW o, Shaped(s),
         s.phase = At("unregistering", e.purpose, e.attempt, 0),
         Active(HandleUnregistration(s, e, error, o))
  PROVE  LET f == HandleUnregistration(s, e, error, o) IN
         f.generation = s.generation /\ Ahead(s.phase, f.phase)
  <1> DEFINE f == HandleUnregistration(s, e, error, o)
             w == WaitForUnregistered(s, e.purpose, e.attempt, StatusChecks, o)
             p == e.purpose
             n == e.attempt
  <1>1. /\ s.phase.step = "unregistering" /\ s.phase.purpose = p
        /\ s.phase.attempt = n
    BY DEF At
  <1>2. n \in Nat BY DEF Callback, Attempt
  <1>3. f = Fail(s) \/ f = w BY DEF HandleUnregistration
  <1>4. f = w BY <1>3, FailLeaves
  <1>5. Counts(w, s.generation, p, n, "awaitingUnregistered", StatusChecks)
    BY <1>2, WaitForUnregisteredLeads
  <1>6. f.phase.step \in DurablePhase BY DEF Active
  <1> HIDE DEF f, w, p, n
  <1>7. Active(f) BY DEF f
  <1>8. /\ f.generation = s.generation /\ f.phase.purpose = p
        /\ \/ f.phase.attempt > n
           \/ /\ f.phase.attempt = n
              /\ \/ Rank(f.phase.step) > Rank("awaitingUnregistered")
                 \/ f.phase.step = "awaitingUnregistered"
    BY <1>4, <1>5, <1>7 DEF Counts
  <1>9. ASSUME \/ Rank(f.phase.step) > Rank("awaitingUnregistered")
               \/ f.phase.step = "awaitingUnregistered"
        PROVE  Rank(f.phase.step) > Rank(s.phase.step)
    BY <1>1, <1>6, <1>9, RankIs DEF DurablePhase
  <1> QED BY <1>1, <1>8, <1>9 DEF Ahead, f

(* Every step of the application and of its surroundings.                  *)
LEMMA NextAdvances ==
  ASSUME IInv, [Next]_vars, Active(State), Active(State)'
  PROVE  \/ controller' = controller
         \/ /\ controller'.generation = controller.generation
            /\ Ahead(controller.phase, controller'.phase)
         \/ /\ controller'.generation > controller.generation
            /\ controller'.phase.purpose = "explicitRepair"
  <1>1. TypeOK /\ Sound(State, budget.crashes) BY DEF IInv
  <1>2. /\ StateType(State) /\ Shaped(State)
        /\ State.phase = controller.phase /\ State.timers = timers
        /\ State.generation = controller.generation
        /\ State.callbacks = callbacks
        /\ State.repair = controller.repair
    BY <1>1, StateIsTyped, TypedIsShaped
  <1>3. /\ controller.phase # Idle /\ State.phase # Idle
        /\ controller'.phase.step \in DurablePhase
    BY <1>2 DEF Active, DurablePhase, Idle, At, State
  <1>4. /\ controller = [phase |-> controller.phase,
                         generation |-> controller.generation,
                         repair |-> controller.repair]
        /\ controller.generation \in Nat
    BY <1>1 DEF TypeOK, Controller
  <1>5. ASSUME NEW f, Becomes(f)
        PROVE  /\ controller'.phase = f.phase
               /\ controller'.generation = f.generation
               /\ Active(f)
    BY <1>3, <1>5 DEF Becomes, Active
  <1>6. ASSUME NEW f, Becomes(f), f.phase = State.phase,
               f.generation = State.generation, f.repair = State.repair
        PROVE  controller' = controller
    BY <1>2, <1>4, <1>6 DEF Becomes
  <1>7. CASE \E o \in Outcome : Launch(o)
    BY <1>3, <1>7 DEF Launch, IInv
  <1>8. CASE Unregister
    <2> DEFINE f == [Wanted(Cancel(State), FALSE) EXCEPT
                       !.service.leaving = TRUE]
    <2>1. Cancel(State).phase = Idle /\ Shaped(Cancel(State))
      BY <1>2, CancelLeaves
    <2>2. f.phase = Idle
      BY <2>1 DEF Wanted, Shaped
    <2>3. Becomes(f) BY <1>8 DEF Unregister
    <2> HIDE DEF f
    <2> QED BY <1>5, <2>2, <2>3 DEF Active, DurablePhase, Idle, At
  <1>9. CASE \E o \in Outcome : Register(o)
    <2>1. PICK o \in Outcome : Register(o) BY <1>9
    <2> DEFINE w == Wanted(State, TRUE)
               f == RegisterUnlisted(w, o)
    <2>2. /\ w.phase = State.phase /\ w.generation = State.generation
          /\ w.repair = State.repair /\ Shaped(w)
      BY <1>2, WantedShapes
    <2>3. Becomes(f) /\ Active(f)
      BY <1>5, <2>1 DEF Register
    <2> HIDE DEF w
    <2>4. FailClosed(w).phase = Failed
      BY <2>2 DEF FailClosed, Shaped
    <2>5. ~Active(FailClosed(w))
      BY <2>4 DEF Active, DurablePhase, Failed, At
    <2>6. /\ BeginRegistration(w, "bundleUpgrade", o) = w
          /\ BeginRegistration(w, "initialRegistration", o) = w
          /\ Resume(w, o) = w
      BY <1>3, <2>2 DEF BeginRegistration, Resume
    <2>7. Lookup(w.defaults)
            \in {"valid", "staleVersion", "missing", "invalid"}
      BY DEF Lookup
    <2>8. f = w
      BY <2>3, <2>5, <2>6, <2>7 DEF RegisterUnlisted
    <2> QED BY <1>6, <2>2, <2>3, <2>8
  <1>10. CASE \E o \in Outcome : Repair(o)
    <2>1. PICK o \in Outcome : Repair(o) BY <1>10
    <2> DEFINE s == Cancel(State)
               x == [s EXCEPT !.repair = TRUE]
               r == Wanted(x, TRUE)
               f == BeginReplacement(r, "explicitRepair", o)
               g == BeginRegistration(r, "explicitRepair", o)
    <2>2. /\ s.phase = Idle /\ ~Active(s) /\ Shaped(s)
          /\ s.generation = controller.generation + 1
      BY <1>2, CancelLeaves
    <2>3. Becomes(f) \/ Becomes(s) \/ Becomes(g)
      BY <1>3, <2>1 DEF Repair
    <2> HIDE DEF s
    <2>4. /\ r.phase = Idle /\ Shaped(r)
          /\ r.generation = controller.generation + 1
      <3>1. /\ x.phase = Idle /\ Shaped(x)
            /\ x.generation = controller.generation + 1
        BY <2>2, RepairShapes
      <3> HIDE DEF x
      <3> QED BY <3>1, WantedShapes
    <2> HIDE DEF x, r
    <2>5. /\ Leads(f, r.generation + 1, "explicitRepair", 0, 1)
          /\ Leads(g, r.generation + 1, "explicitRepair", 0, 1)
      BY <2>4, BeginsLead
    <2> HIDE DEF f, g
    <2>6. ~Becomes(s) BY <1>5, <2>2
    <2>7. PICK h : /\ Becomes(h)
                   /\ Leads(h, r.generation + 1, "explicitRepair", 0, 1)
      BY <2>3, <2>5, <2>6
    <2>8. /\ controller'.generation = r.generation + 1
          /\ controller'.phase.purpose = "explicitRepair"
      BY <1>5, <2>7 DEF Leads
    <2> QED BY <1>4, <2>4, <2>8
  <1>11. CASE Timers
    <2>1. PICK t \in timers, o \in Outcome : TimerFires(t, o)
      BY <1>11 DEF Timers
    <2> DEFINE r == [State EXCEPT !.timers = @ \ {t}]
    <2>2. /\ Shaped(r) /\ r.phase = State.phase
          /\ r.generation = State.generation /\ r.repair = State.repair
      BY <1>2 DEF Shaped
    <2>3. Becomes(IF IsCurrent(t) THEN Fired(r, t.phase, o) ELSE r)
      BY <2>1 DEF TimerFires
    <2> HIDE DEF r
    <2>4. CASE ~IsCurrent(t)
      BY <1>6, <2>2, <2>3, <2>4
    <2>5. CASE IsCurrent(t)
      <3>1. IsTimed(t.phase) /\ t.phase = State.phase /\ t.phase \in Phase
        BY <1>1, <1>2, <2>1, <2>5
        DEF Sound, TimersMatch, IsCurrent, StateType, Timer
      <3>2. Becomes(Fired(r, t.phase, o)) BY <2>3, <2>5
      <3>3. Active(Fired(r, t.phase, o)) BY <1>5, <3>2
      <3>4. /\ Fired(r, t.phase, o).generation = r.generation
            /\ Ahead(t.phase, Fired(r, t.phase, o).phase)
        BY <2>2, <3>1, <3>3, FiredGoesAhead
      <3> QED BY <1>2, <1>5, <2>2, <3>1, <3>2, <3>4
    <2> QED BY <2>4, <2>5
  <1>12. CASE Completions
    <2>1. PICK e \in callbacks, error \in BOOLEAN, o \in Outcome :
            UnregisterReturns(e, error, o)
      BY <1>12 DEF Completions
    <2> DEFINE r == [State EXCEPT !.callbacks = @ \ {e}]
               f == HandleUnregistration(r, e, error, o)
    <2>2. /\ Shaped(r) /\ r.phase = State.phase
          /\ r.generation = State.generation /\ r.repair = State.repair
      BY <1>2 DEF Shaped
    <2>3. Becomes(f) BY <2>1 DEF UnregisterReturns
    <2>4. e \in Callback BY <1>2, <2>1 DEF StateType
    <2> HIDE DEF r
    <2>5. CASE r.phase # At("unregistering", e.purpose, e.attempt, 0)
      <3>1. f = r BY <2>5 DEF HandleUnregistration
      <3> HIDE DEF f
      <3> QED BY <1>6, <2>2, <2>3, <3>1
    <2>6. CASE r.phase = At("unregistering", e.purpose, e.attempt, 0)
      <3>1. Active(f) BY <1>5, <2>3
      <3>2. f.generation = r.generation /\ Ahead(r.phase, f.phase)
        BY <2>2, <2>4, <2>6, <3>1, CompletionGoesAhead
      <3> HIDE DEF f
      <3> QED BY <1>2, <1>5, <2>2, <2>3, <3>2
    <2> QED BY <2>5, <2>6
  <1>13. CASE Observe
    <2> DEFINE d == Set(State, [State.defaults EXCEPT !.committed = bundle])
    <2>1. Shaped(d) BY <1>2, SetShapes
    <2>2. ~Active(Complete(State))
      BY <2>1, CancelLeaves DEF Complete
    <2>3. Becomes(Complete(State)) \/ Becomes(State)
      BY <1>13 DEF Observe
    <2>4. Becomes(State) BY <1>5, <2>2, <2>3
    <2> QED BY <1>6, <2>4
  <1>14. CASE Environment
    <2>1. CASE \E next \in Bundle : next >= bundle /\ Crash(next)
      <3>1. controller'.phase = Idle BY <2>1 DEF Crash
      <3> QED BY <1>3, <3>1 DEF DurablePhase, Idle, At
    <2>2. CASE ControllerUnchanged
      BY <2>2 DEF ControllerUnchanged
    <2> QED
      BY <1>14, <2>1, <2>2
      DEF Environment, UnregistrationShows, ApprovalChanges, AgentStarts,
          AgentExits, AgentAnswers
  <1>15. CASE UNCHANGED vars
    BY <1>15 DEF vars
  <1> QED
    BY <1>7, <1>8, <1>9, <1>10, <1>11, <1>12, <1>13, <1>14, <1>15
    DEF Next, User

(* A transaction in flight only goes ahead, in an order without an endless *)
(* descent, until it ends or a repair of the user takes its place. With    *)
(* NeverStranded this is all of TransactionEnds but its fairness.          *)
THEOREM Advances == Spec => TransactionAdvances
  <1>1. IInv /\ [Next]_vars
          => [Active(State) /\ Active(State)' =>
                \/ controller' = controller
                \/ /\ controller'.generation = controller.generation
                   /\ Ahead(controller.phase, controller'.phase)
                \/ /\ controller'.generation > controller.generation
                   /\ controller'.phase.purpose = "explicitRepair"]_vars
    BY NextAdvances
  <1> QED BY <1>1, Invariance, PTL DEF Spec, TransactionAdvances

=============================================================================

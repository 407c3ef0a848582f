---------------------------- MODULE Registration ----------------------------
(***************************************************************************)
(* The transaction with which the application registers its agent at       *)
(* Service Management and proves that the build it registered answers:     *)
(* OpenCodeServerAgentRegistrationController and its extensions            *)
(* (+Registration, +Verification, +Lifecycle), the durable record of       *)
(* ServiceRegistrationTransaction.swift, and the entry points of           *)
(* ServiceController.swift.                                                *)
(*                                                                         *)
(* Every handler runs on the main thread: a launch, a request of the user, *)
(* a timer, the completion of an unregistration, a status. A crash between *)
(* a write of a handler and what follows it is the failure of what follows *)
(* and then a crash.                                                       *)
(***************************************************************************)
EXTENDS Integers

CONSTANTS
  LastBundle,       \* bound: bundle versions 1..LastBundle are installed
  MaximumAttempts,  \* maximumRegistrationAttempts
  StatusChecks,     \* unregistrationStatusChecks
  IPCChecks,        \* the windows: interactive and cold system
  MaxRequests,      \* bound: requests of the user
  MaxFaults,        \* bound: failures, and changes of the user's approval
  MaxCrashes        \* bound: times the application ends

ASSUME RegistrationConstants ==
  /\ LastBundle \in Nat \ {0} /\ MaximumAttempts \in Nat \ {0}
  /\ StatusChecks \in Nat \ {0}
  /\ IPCChecks \subseteq Nat \ {0} /\ IPCChecks # {}
  /\ MaxRequests \in Nat /\ MaxFaults \in Nat /\ MaxCrashes \in Nat

VARIABLES
  app,         \* does the application run?
  bundle,      \* its bundle version
  controller,  \* the memory of the registration controller
  timers,      \* what the scheduler still has to run
  callbacks,   \* completions of unregister() still to come
  defaults,    \* the user defaults, as this process reads them
  stored,      \* what may be read after a crash
  service,     \* Service Management
  agent,       \* the build of the running agent, 0 for none
  answer,      \* the build that a status under way names, 0 for none
  ran,         \* history: the builds that ever ran
  history,     \* history: what the properties are about
  budget       \* history: bounds already used

vars == <<app, bundle, controller, timers, callbacks, defaults, stored,
          service, agent, answer, ran, history, budget>>

-----------------------------------------------------------------------------
(* Data                                                                    *)

Bundle == 1..LastBundle

Attempt == 0..MaximumAttempts - 1

Purpose == {"initialRegistration", "bundleUpgrade", "explicitRepair"}

(* OpenCodeServerAgentRegistrationTransactionPhase                         *)
DurablePhase == {"unregistering", "awaitingUnregistered",
                 "awaitingRegistration", "awaitingIPC", "retryScheduled"}

(* Phase, whose version is always the bundle's.                            *)
Phase ==
  [step : DurablePhase \cup {"idle", "failed"}, purpose : Purpose \cup {"none"},
   attempt : Attempt, checks : Nat]

At(step, p, n, k) ==
  [step |-> step, purpose |-> p, attempt |-> n, checks |-> k]

Idle == At("idle", "none", 0, 0)

Failed == At("failed", "none", 0, 0)

NoRecord == [version |-> 0, purpose |-> "none", phase |-> "none", attempt |-> 0]

(* A value that cannot be decoded, or with an attempt out of range.        *)
Corrupt == [NoRecord EXCEPT !.phase = "corrupt"]

(* OpenCodeServerAgentRegistrationTransaction                              *)
Record == [version : Bundle, purpose : Purpose, phase : DurablePhase,
           attempt : Attempt] \cup {NoRecord, Corrupt}

(* committed is RegisteredBundleVersion, 0 when it was never set.          *)
Defaults == [record : Record, committed : 0..LastBundle]

Controller == [phase : Phase, generation : Nat, repair : BOOLEAN]

Timer == [generation : Nat, phase : Phase]

Callback == [generation : Nat, purpose : Purpose, attempt : Attempt]

(* leaving: an unregistration was accepted and does not show in the status *)
(* yet.                                                                    *)
Service ==
  [status : {"notRegistered", "enabled", "requiresApproval", "notFound"},
   leaving : BOOLEAN]

(* reached and spent: the last attempt of the present transaction and its  *)
(* calls of register(); wanted: the user has not unticked the agent since  *)
(* the launch.                                                             *)
History == [reached : Attempt, spent : Nat, wanted : BOOLEAN]

Budget == [requests : 0..MaxRequests, faults : 0..MaxFaults,
           crashes : 0..MaxCrashes]

TypeOK ==
  /\ app \in BOOLEAN /\ bundle \in Bundle
  /\ controller \in Controller
  /\ timers \subseteq Timer /\ callbacks \subseteq Callback
  /\ defaults \in Defaults /\ stored \subseteq Defaults
  /\ service \in Service
  /\ agent \in 0..LastBundle /\ answer \in 0..LastBundle
  /\ ran \subseteq Bundle /\ history \in History /\ budget \in Budget

(* How the calls of one handler end: its first and second write of the     *)
(* record, register(), and the window it opens.                            *)
Outcome ==
  [first : BOOLEAN, second : BOOLEAN,
   register : {"enabled", "requiresApproval", "error"}, checks : IPCChecks]

Cost(o) ==
  (IF o.first THEN 0 ELSE 1) + (IF o.second THEN 0 ELSE 1)
    + (IF o.register = "enabled" THEN 0 ELSE 1)

Fault(n) ==
  /\ budget.faults + n <= MaxFaults
  /\ budget' = [budget EXCEPT !.faults = @ + n]

-----------------------------------------------------------------------------
(* The user defaults. save() waits until the value is stored; a removal or *)
(* a write that nobody waits for is lost or not in a crash, in order.      *)

(* Handlers work on all they change: s = State becomes the next state.     *)
State ==
  [phase |-> controller.phase, generation |-> controller.generation,
   repair |-> controller.repair, timers |-> timers, callbacks |-> callbacks,
   defaults |-> defaults, stored |-> stored, service |-> service,
   history |-> history]

Becomes(s) ==
  /\ controller' = [phase |-> s.phase, generation |-> s.generation,
                    repair |-> s.repair]
  /\ timers' = s.timers /\ callbacks' = s.callbacks
  /\ defaults' = s.defaults /\ stored' = s.stored
  /\ service' = s.service /\ history' = s.history

Set(s, d) == [s EXCEPT !.defaults = d, !.stored = @ \cup {d}]

Clear(s) == Set(s, [s.defaults EXCEPT !.record = NoRecord])

(* persist: the value is set even when synchronize() then fails.           *)
Persist(s, phase, p, n, ok) ==
  LET d == [s.defaults EXCEPT
              !.record = [version |-> bundle, purpose |-> p, phase |-> phase,
                          attempt |-> n]]
  IN  IF ok THEN [s EXCEPT !.defaults = d, !.stored = {d}] ELSE Set(s, d)

-----------------------------------------------------------------------------
(* The ends of a transaction                                               *)

(* fail, with the completion of an explicit repair                         *)
Fail(s) == [Clear(s) EXCEPT !.phase = Failed, !.repair = FALSE]

(* Mutant of Cancel: the generation is left as it is.                      *)
CancelOnlyPhase(s) == [Clear(s) EXCEPT !.phase = Idle, !.repair = FALSE]

(* cancel drops the completion of a repair without calling it.             *)
Cancel(s) ==
  [Clear(s) EXCEPT !.phase = Idle, !.repair = FALSE, !.generation = @ + 1]

Complete(s) == Cancel(Set(s, [s.defaults EXCEPT !.committed = bundle]))

-----------------------------------------------------------------------------
(* The steps of a transaction of purpose p in its attempt n                *)

(* A timer remembers the generation and the phase.                         *)
After(s, phase) ==
  [s EXCEPT !.phase = phase,
            !.timers = @ \cup {[generation |-> s.generation, phase |-> phase]}]

(* Mutant of ScheduleRetry: the record keeps the attempt that ended.       *)
ScheduleRetryOfRecord(s, p, n, o) ==
  IF n + 1 >= MaximumAttempts THEN Fail(s)
  ELSE LET r == Persist(s, "retryScheduled", p, n, o.first)
       IN  IF o.first
             THEN [After(r, At("retryScheduled", p, n + 1, 0)) EXCEPT
                     !.history.reached = n + 1]
             ELSE Fail(r)

ScheduleRetry(s, p, n, o) ==
  IF n + 1 >= MaximumAttempts THEN Fail(s)
  ELSE LET r == Persist(s, "retryScheduled", p, n + 1, o.first)
       IN  IF o.first
             THEN [After(r, At("retryScheduled", p, n + 1, 0)) EXCEPT
                     !.history.reached = n + 1]
             ELSE Fail(r)

Listed(status) == status \in {"enabled", "requiresApproval"}

WaitForIPC(s, p, n, k, o) ==
  IF k > 0 THEN After(s, At("awaitingIPC", p, n, k))
  ELSE IF p = "initialRegistration" THEN Fail(s)
  ELSE ScheduleRetry(s, p, n, o)

(* register() of Service Management, which asks nobody again who has       *)
(* forbidden the agent.                                                    *)
Registered(s, o) ==
  [s EXCEPT !.history.spent = @ + 1,
            !.service.status =
              IF o.register = "error" \/ Listed(@) THEN @ ELSE o.register]

PerformRegistration(s, p, n, o) ==
  LET asked == Persist(s, "awaitingRegistration", p, n, o.first)
      done == Registered(asked, o)
      accepted == Persist(done, "awaitingIPC", p, n, o.second)
  IN  IF ~o.first THEN Fail(asked)
      ELSE IF done.service.status # "enabled"
                /\ (o.register = "error"
                      \/ done.service.status = "requiresApproval")
        THEN Fail(done)
      ELSE IF ~o.second THEN Fail(accepted)
      ELSE WaitForIPC(accepted, p, n, o.checks, o)

ScheduleRegistration(s, p, n, o) ==
  LET r == Persist(s, "awaitingRegistration", p, n, o.second)
  IN  IF o.second THEN After(r, At("awaitingRegistration", p, n, 0)) ELSE Fail(r)

WaitForUnregistered(s, p, n, k, o) ==
  LET writes == k = StatusChecks
      r == IF writes THEN Persist(s, "awaitingUnregistered", p, n, o.first)
                     ELSE s
  IN  IF writes /\ ~o.first THEN Fail(r)
      ELSE IF s.service.status = "notRegistered"
        THEN ScheduleRegistration(r, p, n, o)
      ELSE IF s.service.status = "requiresApproval" \/ k = 0 THEN Fail(r)
      ELSE After(r, At("awaitingUnregistered", p, n, k))

(* The intent is stored before unregister() is called.                     *)
StartReplacement(s, p, n, o) ==
  IF s.service.status # "enabled" THEN PerformRegistration(s, p, n, o)
  ELSE LET r == Persist(s, "unregistering", p, n, o.first)
       IN  IF ~o.first THEN Fail(r)
           ELSE [r EXCEPT
                   !.phase = At("unregistering", p, n, 0),
                   !.service.leaving = TRUE,
                   !.callbacks = @ \cup {[generation |-> s.generation,
                                          purpose |-> p, attempt |-> n]}]

(* handleUnregistration compares the phase, not the generation.            *)
HandleUnregistration(s, c, error, o) ==
  IF s.phase # At("unregistering", c.purpose, c.attempt, 0) THEN s
  ELSE IF error /\ s.service.status # "notRegistered" THEN Fail(s)
  ELSE WaitForUnregistered(s, c.purpose, c.attempt, StatusChecks, o)

-----------------------------------------------------------------------------
(* How a transaction begins. One begins or is resumed only from idle.      *)

Begun(s) ==
  [s EXCEPT !.generation = @ + 1, !.history.reached = 0,
            !.history.spent = 0]

BeginRegistration(s, p, o) ==
  IF s.phase # Idle THEN s ELSE PerformRegistration(Begun(s), p, 0, o)

BeginReplacement(s, p, o) ==
  IF s.phase # Idle THEN s ELSE StartReplacement(Begun(s), p, 0, o)

(* resume, by the action recoveryAction names                              *)
Resumed(t, p, n, record, o) ==
  LET status == t.service.status IN
  CASE record = "unregistering" ->
         IF status = "notRegistered"
           THEN WaitForUnregistered(t, p, n, StatusChecks, o)
           ELSE StartReplacement(t, p, n, o)
    [] record = "awaitingUnregistered" ->
         WaitForUnregistered(t, p, n, StatusChecks, o)
    [] record = "awaitingRegistration" ->
         IF status = "enabled" THEN WaitForIPC(t, p, n, o.checks, o)
                               ELSE ScheduleRegistration(t, p, n, o)
    [] record = "awaitingIPC" ->
         IF status = "enabled" THEN WaitForIPC(t, p, n, o.checks, o)
                               ELSE PerformRegistration(t, p, n, o)
    [] record = "retryScheduled" ->
         IF status = "notRegistered" THEN PerformRegistration(t, p, n, o)
                                     ELSE StartReplacement(t, p, n, o)

Resume(s, o) ==
  LET r == s.defaults.record
  IN  IF s.phase # Idle THEN s
      ELSE Resumed([s EXCEPT !.generation = @ + 1], r.purpose, r.attempt,
                   r.phase, o)

(* lookup of the coordinator                                               *)
Lookup(d) ==
  IF d.record = NoRecord THEN "missing"
  ELSE IF d.record = Corrupt THEN "invalid"
  ELSE IF d.record.version = bundle THEN "valid" ELSE "staleVersion"

FailClosed(s) == [s EXCEPT !.phase = Failed]

(* What a launch and register() do of an agent that is not registered.     *)
RegisterUnlisted(s, o) ==
  CASE Lookup(s.defaults) = "valid" -> Resume(s, o)
    [] Lookup(s.defaults) = "staleVersion" ->
         BeginRegistration(s, "bundleUpgrade", o)
    [] Lookup(s.defaults) = "missing" ->
         BeginRegistration(s, "initialRegistration", o)
    [] Lookup(s.defaults) = "invalid" -> FailClosed(s)

BootstrapEnabled(s, o) ==
  CASE Lookup(s.defaults) = "valid" -> Resume(s, o)
    [] Lookup(s.defaults) = "staleVersion" ->
         BeginReplacement(s, "bundleUpgrade", o)
    [] Lookup(s.defaults) = "missing" ->
         IF s.defaults.committed = bundle THEN s
         ELSE BeginReplacement(s, "bundleUpgrade", o)
    [] Lookup(s.defaults) = "invalid" -> FailClosed(s)

Bootstrap(s, o) ==
  CASE s.service.status = "enabled" -> BootstrapEnabled(s, o)
    [] s.service.status = "requiresApproval" -> s
    [] OTHER -> RegisterUnlisted(s, o)

-----------------------------------------------------------------------------
(* The handlers                                                            *)

Wanted(s, yes) == [s EXCEPT !.history.wanted = yes]

Launch(o) ==
  /\ ~app /\ app' = TRUE
  /\ Fault(Cost(o))
  /\ Becomes(Bootstrap(Wanted(State, TRUE), o))
  /\ UNCHANGED <<bundle, agent, answer, ran>>

(* A request of the user                                                   *)
Request(faults) ==
  /\ app
  /\ budget.requests < MaxRequests /\ budget.faults + faults <= MaxFaults
  /\ budget' = [budget EXCEPT !.requests = @ + 1, !.faults = @ + faults]

(* register(), from Settings                                               *)
Register(o) ==
  /\ Request(Cost(o))
  /\ ~Listed(service.status)
  /\ Becomes(RegisterUnlisted(Wanted(State, TRUE), o))
  /\ UNCHANGED <<app, bundle, agent, answer, ran>>

(* repair(): one that another transaction refuses changes nothing.         *)
Repair(o) ==
  /\ Request(Cost(o))
  /\ controller.phase.step
       \notin {"unregistering", "awaitingUnregistered", "awaitingRegistration"}
  /\ LET s == IF controller.phase = Idle THEN State ELSE Cancel(State)
         r == Wanted([s EXCEPT !.repair = TRUE], TRUE)
     IN  CASE service.status = "enabled" ->
                Becomes(BeginReplacement(r, "explicitRepair", o))
           [] service.status = "requiresApproval" -> Becomes(s)
           [] OTHER -> Becomes(BeginRegistration(r, "explicitRepair", o))
  /\ UNCHANGED <<app, bundle, agent, answer, ran>>

(* unregisterOpenCodeServerAgent, from Settings and "Stop and Quit"; its   *)
(* completion is no part of a transaction.                                 *)
Unregister ==
  /\ Request(0)
  /\ service.status = "enabled"
  /\ Becomes([Wanted(Cancel(State), FALSE) EXCEPT !.service.leaving = TRUE])
  /\ UNCHANGED <<app, bundle, agent, answer, ran>>

(* Each timer compares the generation and, but for that of                 *)
(* waitForUnregistered, the phase.                                         *)
IsCurrent(t) ==
  /\ t.generation = controller.generation
  /\ t.phase.step # "awaitingUnregistered" => t.phase = controller.phase

(* Mutant of Fired: the status checks never run out.                       *)
FiredUncounted(s, q, o) ==
  CASE q.step = "awaitingUnregistered" ->
         WaitForUnregistered(s, q.purpose, q.attempt, q.checks, o)
    [] q.step = "awaitingRegistration" ->
         PerformRegistration(s, q.purpose, q.attempt, o)
    [] q.step = "awaitingIPC" ->
         WaitForIPC(s, q.purpose, q.attempt, q.checks - 1, o)
    [] q.step = "retryScheduled" ->
         StartReplacement(s, q.purpose, q.attempt, o)

Fired(s, q, o) ==
  CASE q.step = "awaitingUnregistered" ->
         WaitForUnregistered(s, q.purpose, q.attempt, q.checks - 1, o)
    [] q.step = "awaitingRegistration" ->
         PerformRegistration(s, q.purpose, q.attempt, o)
    [] q.step = "awaitingIPC" ->
         WaitForIPC(s, q.purpose, q.attempt, q.checks - 1, o)
    [] q.step = "retryScheduled" ->
         StartReplacement(s, q.purpose, q.attempt, o)

TimerFires(t, o) ==
  /\ t \in timers
  /\ Fault(Cost(o))
  /\ LET s == [State EXCEPT !.timers = @ \ {t}]
     IN  Becomes(IF IsCurrent(t) THEN Fired(s, t.phase, o) ELSE s)
  /\ UNCHANGED <<app, bundle, agent, answer, ran>>

(* Service Management calls back; the status may lag behind.               *)
UnregisterReturns(c, error, o) ==
  /\ c \in callbacks
  /\ Fault(Cost(o) + IF error THEN 1 ELSE 0)
  /\ Becomes(HandleUnregistration([State EXCEPT !.callbacks = @ \ {c}], c,
                                  error, o))
  /\ UNCHANGED <<app, bundle, agent, answer, ran>>

(* Mutant of Proves: any agent that answers will do.                       *)
ProvesByAnswering == answer # 0

(* The build that answers is the one this bundle contains.                 *)
Proves == answer = bundle

(* observeReachability                                                     *)
Observe ==
  /\ app /\ answer # 0
  /\ answer' = 0
  /\ Becomes(IF service.status = "enabled" /\ Proves
                  /\ controller.phase.step = "awaitingIPC"
               THEN Complete(State) ELSE State)
  /\ UNCHANGED <<app, bundle, agent, ran, budget>>

-----------------------------------------------------------------------------
(* Service Management, the agent and the end of the application            *)

ControllerUnchanged ==
  UNCHANGED <<app, bundle, controller, timers, callbacks, defaults, stored>>

UnregistrationShows ==
  /\ service.leaving
  /\ service' = [service EXCEPT !.leaving = FALSE, !.status = "notRegistered"]
  /\ ControllerUnchanged /\ UNCHANGED <<agent, answer, ran, history, budget>>

(* The user allows or forbids the agent in System Settings.                *)
ApprovalChanges ==
  /\ Listed(service.status)
  /\ Fault(1)
  /\ service' = [service EXCEPT !.status =
                   IF @ = "enabled" THEN "requiresApproval" ELSE "enabled"]
  /\ ControllerUnchanged /\ UNCHANGED <<agent, answer, ran, history>>

(* launchd runs the agent of the installed bundle. An agent that runs may  *)
(* outlive its registration.                                               *)
AgentStarts ==
  /\ agent = 0 /\ service.status = "enabled"
  /\ agent' = bundle
  /\ ran' = ran \cup {bundle}
  /\ ControllerUnchanged /\ UNCHANGED <<service, answer, history, budget>>

AgentExits ==
  /\ agent # 0 /\ agent' = 0
  /\ ControllerUnchanged /\ UNCHANGED <<service, answer, ran, history, budget>>

AgentAnswers ==
  /\ app /\ agent # 0
  /\ answer' = agent
  /\ ControllerUnchanged /\ UNCHANGED <<service, agent, ran, history, budget>>

(* The application ends; a new one may be installed before it is launched. *)
Crash(next) ==
  /\ app /\ app' = FALSE
  /\ budget.crashes < MaxCrashes
  /\ budget' = [budget EXCEPT !.crashes = @ + 1]
  /\ bundle' = next
  /\ controller' = [phase |-> Idle, generation |-> 0, repair |-> FALSE]
  /\ timers' = {} /\ callbacks' = {} /\ answer' = 0
  /\ defaults' \in stored /\ stored' = {defaults'}
  /\ UNCHANGED <<service, agent, ran, history>>

-----------------------------------------------------------------------------
Init ==
  /\ app = FALSE /\ bundle = 1
  /\ controller = [phase |-> Idle, generation |-> 0, repair |-> FALSE]
  /\ timers = {} /\ callbacks = {}
  /\ defaults \in [record : {NoRecord, Corrupt}, committed : {0}]
  /\ stored = {defaults}
  /\ service \in [status : {"notRegistered", "notFound"}, leaving : {FALSE}]
  /\ agent = 0 /\ answer = 0 /\ ran = {}
  /\ history = [reached |-> 0, spent |-> 0, wanted |-> TRUE]
  /\ budget = [requests |-> 0, faults |-> 0, crashes |-> 0]

User == Unregister \/ \E o \in Outcome : Register(o) \/ Repair(o)

Timers == \E t \in timers, o \in Outcome : TimerFires(t, o)

Completions ==
  \E c \in callbacks, error \in BOOLEAN, o \in Outcome :
    UnregisterReturns(c, error, o)

Environment ==
  \/ UnregistrationShows \/ ApprovalChanges
  \/ AgentStarts \/ AgentExits \/ AgentAnswers
  \/ \E next \in Bundle : next >= bundle /\ Crash(next)

Next ==
  \/ \E o \in Outcome : Launch(o)
  \/ User \/ Timers \/ Completions \/ Observe \/ Environment

Spec == Init /\ [][Next]_vars

(* The main queue runs the timers that are due, and Service Management     *)
(* calls back.                                                             *)
FairSpec == Spec /\ WF_vars(Timers) /\ WF_vars(Completions)

-----------------------------------------------------------------------------
(* Properties. They are about the next state as a handler computes it, so  *)
(* that each operator can be shown to establish them.                      *)

Active(s) == s.phase.step \in DurablePhase

(* A record that this bundle, or a later one at its launch, goes by.       *)
IsRecord(r) == r # NoRecord /\ r # Corrupt

(* register() was called at most once in each attempt up to n, but for     *)
(* those that a crash interrupted.                                         *)
Within(h, n, crashes) == h.reached <= n /\ h.spent <= n + crashes

(* No registration is made in an attempt that was made before.             *)
BudgetHolds(s, crashes) ==
  Active(s) =>
    Within(s.history, s.phase.attempt,
           IF s.phase.step = "awaitingIPC" THEN crashes + 1 ELSE crashes)

(* While a transaction is in flight, a crash leaves its purpose and its    *)
(* attempt to the next launch, whatever was not yet waited for.            *)
CrashResumes(s) ==
  Active(s) =>
    \A d \in s.stored :
      /\ d.record.version = bundle
      /\ d.record.purpose = s.phase.purpose
      /\ d.record.attempt = s.phase.attempt
      /\ d.record.phase \in DurablePhase

(* What a crash may leave of a transaction that is over, or that waits for *)
(* the user's approval, is as far as that got.                             *)
RecordsHold(s, crashes) ==
  /\ \A d \in s.stored :
       IsRecord(d.record) => Within(s.history, d.record.attempt, crashes + 1)
  /\ s.phase = Idle /\ IsRecord(s.defaults.record)
       => /\ s.stored = {s.defaults}
          /\ Within(s.history, s.defaults.record.attempt, crashes)

(* A phase that a timer ends, with checks left if it counts them.          *)
IsTimed(q) ==
  /\ q.step \in DurablePhase \ {"unregistering"}
  /\ q.step \in {"awaitingUnregistered", "awaitingIPC"} => q.checks > 0

(* At most one timer is due for the present generation: that of the phase. *)
TimersMatch(s) ==
  \A t \in s.timers :
    /\ t.generation <= s.generation /\ IsTimed(t.phase)
    /\ t.generation = s.generation => t.phase = s.phase

(* A transaction in flight is never left alone: the timer of its phase is  *)
(* due, or the completion of its unregistration is still to come.          *)
Driven(s) ==
  /\ s.phase.step \in DurablePhase \ {"unregistering"} =>
       [generation |-> s.generation, phase |-> s.phase] \in s.timers
  /\ s.phase.step = "unregistering" =>
       \E c \in s.callbacks :
         s.phase = At("unregistering", c.purpose, c.attempt, 0)

(* A repair that waits for its completion is the transaction in flight.    *)
RepairIsOwned(s) ==
  s.repair => Active(s) /\ s.phase.purpose = "explicitRepair"

(* A version is committed only after its own build ran.                    *)
CommitIsProven(s) ==
  \A d \in s.stored : d.committed # 0 => d.committed \in ran

(* After the user took the agent away nothing is under way.                *)
RemovedIsIdle(s) == ~s.history.wanted => s.phase = Idle

StateType(s) ==
  /\ s \in [phase : Phase, generation : Nat, repair : BOOLEAN,
            timers : SUBSET Timer, callbacks : SUBSET Callback,
            defaults : Defaults, stored : SUBSET Defaults, service : Service,
            history : History]
  /\ s.defaults \in s.stored

Sound(s, crashes) ==
  /\ StateType(s)
  /\ BudgetHolds(s, crashes) /\ CrashResumes(s) /\ RecordsHold(s, crashes)
  /\ TimersMatch(s) /\ RepairIsOwned(s) /\ CommitIsProven(s)
  /\ RemovedIsIdle(s)

(* The inductive invariant.                                                *)
IInv ==
  /\ TypeOK /\ Sound(State, budget.crashes) /\ Driven(State)
  /\ ~app => /\ controller.phase = Idle /\ timers = {} /\ callbacks = {}
             /\ answer = 0 /\ stored = {defaults}
  /\ answer # 0 => answer \in ran
  /\ agent # 0 => agent \in ran

(* A relaunch gives no attempt back, and no attempt registers twice but    *)
(* for one that a crash interrupted: three registrations are all that a    *)
(* transaction makes if nothing crashes.                                   *)
BudgetSurvives == BudgetHolds(State, budget.crashes)

(* After the user took the agent away it is registered only when the user  *)
(* asks for it, or by a launch.                                            *)
RemovalStands ==
  [][~Listed(service.status) /\ service'.status = "enabled"
       => history'.wanted]_vars

(* The order of the steps of one attempt                                   *)
Rank(step) ==
  CASE step = "retryScheduled" -> 0
    [] step = "unregistering" -> 1
    [] step = "awaitingUnregistered" -> 2
    [] step = "awaitingRegistration" -> 3
    [] step = "awaitingIPC" -> 4

(* Phase r is further in the transaction than phase q.                     *)
Ahead(q, r) ==
  /\ r.purpose = q.purpose
  /\ \/ r.attempt > q.attempt
     \/ /\ r.attempt = q.attempt
        /\ \/ Rank(r.step) > Rank(q.step)
           \/ r.step = q.step /\ r.checks < q.checks

(* A transaction in flight only goes ahead, until it ends or a repair that *)
(* the user asks for takes its place: no late timer or completion, no      *)
(* second registration and no request throws it back. As a phase has       *)
(* finitely many ahead of it, this bounds the steps a transaction takes.   *)
TransactionAdvances ==
  [][Active(State) /\ Active(State)' =>
       \/ controller' = controller
       \/ /\ controller'.generation = controller.generation
          /\ Ahead(controller.phase, controller'.phase)
       \/ /\ controller'.generation > controller.generation
          /\ controller'.phase.purpose = "explicitRepair"]_vars

(* Every transaction ends, and with it the wait for a repair's completion. *)
TransactionEnds == Active(State) ~> ~Active(State)
=============================================================================

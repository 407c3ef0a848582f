------------------------- MODULE CredentialJournal -------------------------
(***************************************************************************)
(* How Settings changes a Keychain item and the configuration that names   *)
(* it, and how the agent is told: the journal                              *)
(* (swift/Sources/OpenCodeServer/CredentialMutationJournal.swift), the two *)
(* save transactions, the recovery of a username migration, and the        *)
(* delivery of notices (CredentialMutationCoordinator.swift).              *)
(*                                                                         *)
(* The main thread runs one handler at a time; Keychain, the configuration *)
(* of a recovery and the agent are asked on workers. The application may   *)
(* quit and the machine may lose power between any two steps. A crash      *)
(* between two writes of one handler is the failure of the second write    *)
(* followed by a crash.                                                    *)
(***************************************************************************)
EXTENDS Integers

CONSTANTS
  Account,       \* user names, one Keychain item each
  NoAccount,
  FirstAccount,  \* the account of the first configuration
  MaxSaves,      \* bound: saves, and so generations and passwords
  MaxFaults,     \* bound: failures of files, of Keychain and of requests,
                 \* and edits of config.plist by hand
  MaxCrashes,    \* bound: the application quits or the power fails
  AckRace,       \* may a notice be acknowledged while a save writes its item?
  StageOver      \* may a save replace a notice an earlier one left staged?

ASSUME JournalConstants ==
  /\ NoAccount \notin Account /\ FirstAccount \in Account
  /\ MaxSaves \in Nat /\ MaxFaults \in Nat /\ MaxCrashes \in Nat
  /\ AckRace \in BOOLEAN /\ StageOver \in BOOLEAN

VARIABLES
  app,       \* is the application down, up, or up without its journal?
  journal,   \* CredentialMutationJournal.state
  disk,      \* the journal's file and config.plist
  item,      \* Keychain: the password of each account, 0 when it has none
  editor,    \* what the Settings window keeps after a save that failed
  txn,       \* the save transaction of the Settings window
  recovery,  \* CredentialMigrationReconciler.inFlightGeneration and its work
  delivery,  \* the coordinator's inFlightGeneration and the request
  status,    \* latestStatus: the account the last status named
  wish,      \* the user's "Allow & Restart"
  agent,     \* the agent, as far as notices concern it
  budget     \* history: bounds already used

vars == <<app, journal, disk, item, editor, txn, recovery, delivery, status,
          wish, agent, budget>>

-----------------------------------------------------------------------------
(* Data                                                                    *)

Generation == 0..MaxSaves

NoNotice == [account |-> NoAccount, notice |-> "none", generation |-> 0]

(* CredentialMutationRecord                                                *)
Notice ==
  [account : Account, notice : {"changed", "removed"}, generation : Generation]
    \cup {NoNotice}

NoMigration ==
  [generation |-> 0, old |-> NoAccount, new |-> NoAccount, phase |-> "none"]

(* CredentialMigrationRecord                                               *)
Migration ==
  [generation : Generation, old : Account, new : Account,
   phase : {"staged", "newCredentialReady", "configurationSaved",
            "cleanupNew", "cleanupOld"}]
    \cup {NoMigration}

(* CredentialMutationJournal.State                                         *)
Journal == [generation : Generation, pending : Notice, staged : Notice,
            migration : Migration]

EmptyJournal == [generation |-> 0, pending |-> NoNotice, staged |-> NoNotice,
                 migration |-> NoMigration]

(* journals and plists are the earlier versions a power loss may bring     *)
(* back: those renamed over since the directory, which the two files       *)
(* share, was last flushed.                                                *)
Disk == [journal : Journal, plist : Account,
         journals : SUBSET Journal, plists : SUBSET Account]

Transaction ==
  [step : {"idle", "write", "create", "inspect", "removeNew", "removeOld"},
   op : {"none", "create", "update", "delete"},
   account : Account \cup {NoAccount}, old : Account \cup {NoAccount},
   generation : Generation,
   result : {"none", "ok", "failed", "newAndSaved", "newOnly", "savedOnly",
             "neither"}]

(* credentialEditorState, when a failed save preserved it.                 *)
Editor == [op : {"none", "create", "update", "delete"},
           account : Account \cup {NoAccount}]

Untouched == [op |-> "none", account |-> NoAccount]

NoTxn == [step |-> "idle", op |-> "none", account |-> NoAccount,
          old |-> NoAccount, generation |-> 0, result |-> "none"]

(* record is the migration as recover() found it; the probe's answers are  *)
(* kept with it.                                                           *)
Recovery ==
  [step : {"idle", "probe", "validate", "reread", "removeNew", "removeOld"},
   record : Migration, result : {"none", "ok", "failed"},
   newExists : BOOLEAN, oldExists : BOOLEAN,
   current : Account \cup {NoAccount}, validated : BOOLEAN]

NoRecovery == [step |-> "idle", record |-> NoMigration, result |-> "none",
               newExists |-> FALSE, oldExists |-> FALSE,
               current |-> NoAccount, validated |-> FALSE]

Request == [record : Notice, answer : {"none", "acknowledged", "failed"}]

NoRequest == [record |-> NoNotice, answer |-> "none"]

(* latest and active are the accounts of the agent's configuration and of  *)
(* the running OpenCode's; holds is the password it took for current.      *)
Agent == [latest : Account, active : Account \cup {NoAccount},
          state : {"NotConfigured", "AccessPending", "Configured"},
          holds : 0..MaxSaves]

Budget == [saves : 0..MaxSaves, faults : 0..MaxFaults,
           crashes : 0..MaxCrashes, edits : 0..MaxFaults]

TypeOK ==
  /\ app \in {"down", "up", "unavailable"}
  /\ journal \in Journal /\ disk \in Disk
  /\ item \in [Account -> 0..MaxSaves]
  /\ editor \in Editor /\ txn \in Transaction /\ recovery \in Recovery
  /\ delivery \in Request
  /\ status \in Account \cup {NoAccount}
  /\ wish \in {"none", "deferred", "granting", "restarted", "refused"}
  /\ agent \in Agent /\ budget \in Budget

MayFail(n) == budget.faults + budget.edits + n <= MaxFaults

Fault(n) == MayFail(n) /\ budget' = [budget EXCEPT !.faults = @ + n]

Crash ==
  /\ budget.crashes < MaxCrashes
  /\ budget' = [budget EXCEPT !.crashes = @ + 1]

-----------------------------------------------------------------------------
(* The journal's operations, on its state                                  *)

Changed(a, g) == [account |-> a, notice |-> "changed", generation |-> g]

(* hasUnacknowledgedMutation of the journal                                *)
Outstanding(j) ==
  \/ j.pending # NoNotice \/ j.staged # NoNotice
  \/ j.migration.phase \notin {"none", "cleanupOld"}

MayStage(j) ==
  j.migration = NoMigration
    \/ (j.migration.phase = "cleanupOld" /\ j.pending = NoNotice)

Staged(j, a) ==
  [j EXCEPT !.generation = @ + 1, !.staged = Changed(a, j.generation + 1)]

MayStageMigration(j) ==
  j.migration = NoMigration /\ j.staged = NoNotice /\ j.pending = NoNotice

MigrationStaged(j, old, new) ==
  [j EXCEPT !.generation = @ + 1,
            !.migration = [generation |-> j.generation + 1, old |-> old,
                           new |-> new, phase |-> "staged"]]

(* setMigrationPhase                                                       *)
InPhase(j, phase) == [j EXCEPT !.migration.phase = phase]

MayCommitMigration(j) ==
  j.migration.phase = "configurationSaved" /\ j.pending = NoNotice

MigrationCommitted(j) ==
  [InPhase(j, "cleanupOld") EXCEPT
     !.pending = Changed(j.migration.new, j.migration.generation)]

(* completeMigration and rollbackMigration                                 *)
WithoutMigration(j) == [j EXCEPT !.migration = NoMigration]

(* commit                                                                  *)
Committed(j, notice) ==
  [j EXCEPT !.pending = [j.staged EXCEPT !.notice = notice],
            !.staged = NoNotice]

RolledBack(j) == [j EXCEPT !.staged = NoNotice]

(* The promotion of a staged notice, by a launch and by an acknowledgement *)
(* that empties pending.                                                   *)
Promoted(j) ==
  IF j.pending = NoNotice /\ j.staged # NoNotice
    THEN Committed(j, "changed") ELSE j

Acknowledged(j) == Promoted([j EXCEPT !.pending = NoNotice])

-----------------------------------------------------------------------------
(* Files. A write is durable, fails before the rename, or leaves it        *)
(* uncertain whether the rename survives a power loss.                     *)

Outcome == {"ok", "failed", "uncertain"}

Cost(out) == IF out = "ok" THEN 0 ELSE 1

Flushed(d) == [d EXCEPT !.journals = {}, !.plists = {}]

(* Mutant of Persisted: any failure restores the state before it.          *)
PersistedOrRestored(s, j, out) ==
  CASE out = "ok" ->
         [journal |-> j, disk |-> Flushed([s.disk EXCEPT !.journal = j])]
    [] out = "failed" -> s
    [] OTHER ->
         [s EXCEPT !.disk = [@ EXCEPT !.journal = j,
                                      !.journals = @ \cup {s.disk.journal}]]

(* persist() and restoreOrRetain, on s = the journal's state and the disk. *)
Persisted(s, j, out) ==
  CASE out = "ok" ->
         [journal |-> j, disk |-> Flushed([s.disk EXCEPT !.journal = j])]
    [] out = "failed" -> s
    [] OTHER ->
         [journal |-> j,
          disk |-> [s.disk EXCEPT !.journal = j,
                                  !.journals = @ \cup {s.disk.journal}]]

(* ConfigStore.save: an equal configuration is not written again.          *)
Saved(s, a, out) ==
  IF s.disk.plist = a \/ out = "failed" THEN s
  ELSE LET d == [s.disk EXCEPT !.plist = a]
       IN  [s EXCEPT !.disk =
              IF out = "ok" THEN Flushed(d)
              ELSE [d EXCEPT !.plists = @ \cup {s.disk.plist}]]

Store == [journal |-> journal, disk |-> disk]

StoreBecomes(s) == journal' = s.journal /\ disk' = s.disk

-----------------------------------------------------------------------------
(* What follows a change of the journal                                    *)

(* attemptDelivery, by a handler that leaves the journal at j.             *)
Attempt(d, j, a) ==
  IF d = NoRequest /\ j.pending # NoNotice /\ a = j.pending.account
    THEN [record |-> j.pending, answer |-> "none"] ELSE d

(* drainDeferredActionsIfReady: the deferred work asks the agent to read.  *)
Drained(w, j) ==
  IF w = "deferred" /\ ~Outstanding(j) THEN "granting" ELSE w

(* pendingStateDidChange, attemptDelivery and the drain after a write that *)
(* succeeded; one that threw tells nobody.                                 *)
Announce(s, out) ==
  /\ StoreBecomes(s)
  /\ delivery' = IF out = "ok" THEN Attempt(delivery, s.journal, status)
                               ELSE delivery
  /\ wish' = IF out = "ok" THEN Drained(wish, s.journal) ELSE wish

AgentState(a) == IF item[a] = 0 THEN "NotConfigured" ELSE "AccessPending"

-----------------------------------------------------------------------------
(* Saves. The editor shows the item of the configured account, or what a   *)
(* failed save left in it.                                                 *)

CanSave ==
  /\ app = "up" /\ txn = NoTxn /\ recovery = NoRecovery
  /\ StageOver \/ journal.staged = NoNotice

Offers(op, a) ==
  \/ op = "create" /\ item[disk.plist] = 0
  \/ op \in {"update", "delete"} /\ item[disk.plist] # 0 /\ a = disk.plist
  \/ editor = [op |-> op, account |-> a]

Running(step, op, a, old, g) ==
  [step |-> step, op |-> op, account |-> a, old |-> old, generation |-> g,
   result |-> "none"]

SpendSave(faults) ==
  /\ budget.saves < MaxSaves /\ MayFail(faults)
  /\ budget' = [budget EXCEPT !.saves = @ + 1, !.faults = @ + faults]

(* CredentialMutationSaveTransaction.start: the configuration, then the    *)
(* staged notice, then the item. Keychain is asked only once both are      *)
(* durable.                                                                *)
SaveSameAccount(op, a, out1, out2) ==
  /\ CanSave /\ Offers(op, a)
  /\ SpendSave(Cost(out1) + Cost(out2))
  /\ LET saved == Saved(Store, a, out1)
         staged == Persisted(saved, Staged(journal, a), out2)
         reached == out1 = "ok" /\ MayStage(journal)
     IN  /\ IF reached THEN Announce(staged, out2)
                       ELSE StoreBecomes(saved) /\ UNCHANGED <<delivery, wish>>
         /\ IF reached /\ out2 = "ok"
              THEN /\ txn' = Running("write", op, a, NoAccount,
                                     journal.generation + 1)
                   /\ editor' = Untouched
              ELSE txn' = NoTxn /\ editor' = [op |-> op, account |-> a]
  /\ UNCHANGED <<app, item, recovery, status, agent>>

(* finishSave: another user name without a password.                       *)
SaveConfiguration(a, out) ==
  /\ CanSave
  /\ item[disk.plist] = 0 /\ a # disk.plist
  /\ Fault(Cost(out))
  /\ StoreBecomes(Saved(Store, a, out))
  /\ UNCHANGED <<app, item, editor, txn, recovery, delivery, status, wish,
                 agent>>

(* CredentialMigrationSaveTransaction.start                                *)
SaveMigration(a, out) ==
  /\ CanSave
  /\ item[disk.plist] # 0 /\ a # disk.plist
  /\ MayStageMigration(journal)
  /\ SpendSave(Cost(out))
  /\ Announce(Persisted(Store, MigrationStaged(journal, disk.plist, a), out),
              out)
  /\ txn' = IF out = "ok"
              THEN Running("create", "create", a, disk.plist,
                           journal.generation + 1)
              ELSE NoTxn
  /\ editor' = Untouched
  /\ UNCHANGED <<app, item, recovery, status, agent>>

-----------------------------------------------------------------------------
(* The workers of a save                                                   *)

Answered(result) == txn' = [txn EXCEPT !.result = result]

WorkerUnchanged ==
  UNCHANGED <<app, journal, disk, editor, recovery, delivery, status, wish,
              agent>>

(* Keychain carries out the operation; it adds no item twice and updates   *)
(* none that is not there.                                                 *)
KeychainWrites ==
  /\ txn.step \in {"write", "create"} /\ txn.result = "none"
  /\ IF \/ txn.op = "create" /\ item[txn.account] # 0
        \/ txn.op = "update" /\ item[txn.account] = 0
       THEN Answered("failed") /\ UNCHANGED item
       ELSE /\ item' = [item EXCEPT ![txn.account] =
                          IF txn.op = "delete" THEN 0 ELSE budget.saves]
            /\ Answered("ok")
  /\ UNCHANGED budget /\ WorkerUnchanged

KeychainRemoves ==
  /\ txn.step \in {"removeNew", "removeOld"} /\ txn.result = "none"
  /\ item' = [item EXCEPT ![IF txn.step = "removeNew" THEN txn.account
                                                      ELSE txn.old] = 0]
  /\ Answered("ok")
  /\ UNCHANGED budget /\ WorkerUnchanged

KeychainFails ==
  /\ txn.step \notin {"idle", "inspect"} /\ txn.result = "none"
  /\ Fault(1)
  /\ Answered("failed")
  /\ UNCHANGED item /\ WorkerUnchanged

(* inspectFailedConfiguration: the file, and whether the new item exists.  *)
Inspect ==
  /\ txn.step = "inspect" /\ txn.result = "none"
  /\ \/ /\ Answered(IF disk.plist = txn.account
                       THEN IF item[txn.account] # 0 THEN "newAndSaved"
                                                     ELSE "savedOnly"
                       ELSE IF item[txn.account] # 0 THEN "newOnly"
                                                     ELSE "neither")
        /\ UNCHANGED budget
     \/ Fault(1) /\ Answered("failed")
  /\ UNCHANGED item /\ WorkerUnchanged

-----------------------------------------------------------------------------
(* The main thread goes on with a save                                     *)

Goes(step) == [txn EXCEPT !.step = step, !.result = "none"]

(* CredentialMutationSaveTransaction.finish. The staged notice may have    *)
(* been promoted meanwhile; then there is nothing to commit.               *)
FinishWrite(out) ==
  /\ txn.step = "write" /\ txn.result # "none"
  /\ LET notice == IF txn.op = "delete" THEN "removed" ELSE "changed"
         mine == journal.staged.generation = txn.generation
         landed == txn.result = "ok"
     IN  /\ out # "ok" => mine
         /\ CASE mine /\ ~landed ->
                   Announce(Persisted(Store, RolledBack(journal), out), out)
              [] mine /\ landed ->
                   Announce(Persisted(Store, Committed(journal, notice), out),
                            out)
              [] ~mine /\ ~landed -> Announce(Store, "ok")
              [] OTHER -> StoreBecomes(Store) /\ UNCHANGED <<delivery, wish>>
         /\ editor' = IF landed /\ mine /\ out = "ok" THEN Untouched
                      ELSE [op |-> txn.op, account |-> txn.account]
  /\ Fault(Cost(out))
  /\ txn' = NoTxn
  /\ UNCHANGED <<app, item, recovery, status, agent>>

(* commitConfiguration: mark, commit, and the removal of the old item.     *)
ConfigurationCommitted(s, out1, out2) ==
  LET m == Persisted(s, InPhase(s.journal, "configurationSaved"), out1)
      c == Persisted(m, MigrationCommitted(m.journal), out2)
  IN  IF out1 = "ok" /\ MayCommitMigration(m.journal)
        THEN /\ Announce(c, out2)
             /\ txn' = IF out2 = "ok" THEN Goes("removeOld") ELSE NoTxn
        ELSE Announce(m, out1) /\ txn' = NoTxn

(* rollbackMigration and completeMigration                                 *)
MigrationEnds(out) ==
  Announce(Persisted(Store, WithoutMigration(journal), out), out)

FinishCreate(out1, out2, out3, out4) ==
  /\ txn.step = "create" /\ txn.result # "none"
  /\ Fault(Cost(out1) + Cost(out2) + Cost(out3) + Cost(out4))
  /\ LET ready == Persisted(Store, InPhase(journal, "newCredentialReady"),
                            out1)
         saved == Saved(ready, txn.account, out2)
     IN  CASE txn.result = "failed" -> MigrationEnds(out1) /\ txn' = NoTxn
           [] txn.result = "ok" /\ out1 # "ok" ->
                Announce(ready, out1) /\ txn' = NoTxn
           [] txn.result = "ok" /\ out1 = "ok" /\ out2 # "ok" ->
                Announce(saved, "ok") /\ txn' = Goes("inspect")
           [] OTHER -> ConfigurationCommitted(saved, out3, out4)
  /\ UNCHANGED <<app, item, editor, recovery, status, agent>>

FinishInspect(out1, out2) ==
  /\ txn.step = "inspect" /\ txn.result # "none"
  /\ Fault(Cost(out1) + Cost(out2))
  /\ CASE txn.result \in {"failed", "savedOnly"} ->
            Announce(Store, "ok") /\ txn' = NoTxn
       [] txn.result = "neither" -> MigrationEnds(out1) /\ txn' = NoTxn
       [] txn.result = "newOnly" ->
            /\ Announce(Persisted(Store, InPhase(journal, "cleanupNew"), out1),
                        out1)
            /\ txn' = IF out1 = "ok" THEN Goes("removeNew") ELSE NoTxn
       [] txn.result = "newAndSaved" ->
            ConfigurationCommitted(Store, out1, out2)
  /\ UNCHANGED <<app, item, editor, recovery, status, agent>>

(* Mutant of FinishRemoval: a removal that failed ends the migration too.  *)
FinishRemovalForgetting(out) ==
  /\ txn.step \in {"removeNew", "removeOld"} /\ txn.result # "none"
  /\ Fault(Cost(out))
  /\ MigrationEnds(out) /\ txn' = NoTxn
  /\ UNCHANGED <<app, item, editor, recovery, status, agent>>

(* The removal was answered: its intent ends, or is kept for a later try.  *)
FinishRemoval(out) ==
  /\ txn.step \in {"removeNew", "removeOld"} /\ txn.result # "none"
  /\ Fault(Cost(out))
  /\ IF txn.result = "ok" THEN MigrationEnds(out) ELSE Announce(Store, "ok")
  /\ txn' = NoTxn
  /\ UNCHANGED <<app, item, editor, recovery, status, agent>>

-----------------------------------------------------------------------------
(* Recovery of a migration, once per launch                                *)

(* recover() dispatches the probe.                                         *)
Recovering(m) ==
  IF m = NoMigration THEN NoRecovery
  ELSE [NoRecovery EXCEPT !.step = "probe", !.record = m]

RecoveryWorkerUnchanged ==
  UNCHANGED <<app, journal, disk, editor, txn, delivery, status, wish, agent>>

(* The worker looks at both items and at the configuration, and again at   *)
(* the configuration alone.                                                *)
Probe ==
  /\ recovery.step \in {"probe", "reread"} /\ recovery.result = "none"
  /\ \/ /\ recovery' = [recovery EXCEPT
                          !.result = "ok", !.current = disk.plist,
                          !.newExists = recovery.step = "reread"
                             \/ item[recovery.record.new] # 0,
                          !.oldExists = IF recovery.step = "reread" THEN @
                             ELSE item[recovery.record.old] # 0]
        /\ UNCHANGED budget
     \/ Fault(1) /\ recovery' = [recovery EXCEPT !.result = "failed"]
  /\ UNCHANGED item /\ RecoveryWorkerUnchanged

(* Mutant of ConfirmedAccount: the configuration is not read again.        *)
AssumedAccount(a) == TRUE

(* requireCurrentAccount                                                   *)
ConfirmedAccount(a) == disk.plist = a

(* The worker confirms the account and, in a cleanup, removes the inactive *)
(* item in the same closure.                                               *)
ConfirmAndRemove ==
  /\ recovery.step \in {"validate", "removeNew", "removeOld"}
  /\ recovery.result = "none"
  /\ LET r == recovery.record
     IN  IF ConfirmedAccount(IF recovery.step = "removeNew" THEN r.old
                                                            ELSE r.new)
           THEN /\ recovery' = [recovery EXCEPT !.result = "ok"]
                /\ item' = CASE recovery.step = "removeNew" ->
                                  [item EXCEPT ![r.new] = 0]
                             [] recovery.step = "removeOld" ->
                                  [item EXCEPT ![r.old] = 0]
                             [] OTHER -> item
           ELSE /\ recovery' = [recovery EXCEPT !.result = "failed"]
                /\ UNCHANGED item
  /\ UNCHANGED budget /\ RecoveryWorkerUnchanged

(* The file cannot be read, or Keychain wants to ask the user.             *)
ConfirmFails ==
  /\ recovery.step \in {"validate", "removeNew", "removeOld"}
  /\ recovery.result = "none"
  /\ Fault(1)
  /\ recovery' = [recovery EXCEPT !.result = "failed"]
  /\ UNCHANGED item /\ RecoveryWorkerUnchanged

RecoveryGoes(step) == [recovery EXCEPT !.step = step, !.result = "none"]

RecoveryMainUnchanged == UNCHANGED <<app, item, editor, txn, status, agent>>

(* The notice for the new account is still to be committed.                *)
NeedsNotice(r) == journal.pending = NoNotice /\ r.phase # "cleanupOld"

(* useNewConfiguration: the notice, unless it was committed before, then   *)
(* the removal of the old item.                                            *)
UseNew(validated, out1, out2, out3) ==
  LET r == recovery.record
      needs == NeedsNotice(r)
      marked == Persisted(Store, InPhase(journal, "configurationSaved"), out1)
      committed == Persisted(marked, MigrationCommitted(marked.journal), out2)
      s == IF needs THEN committed ELSE Store
      last == IF recovery.oldExists THEN InPhase(s.journal, "cleanupOld")
                                    ELSE WithoutMigration(s.journal)
  IN  CASE needs /\ ~validated ->
             Announce(Store, "ok") /\ recovery' = RecoveryGoes("validate")
        [] ~needs /\ journal.pending.account # r.new
             /\ ~(r.phase = "cleanupOld" /\ journal.pending = NoNotice) ->
             Announce(Store, "ok") /\ recovery' = NoRecovery
        [] needs /\ validated /\ out1 # "ok" ->
             Announce(marked, out1) /\ recovery' = NoRecovery
        [] needs /\ validated /\ out1 = "ok" /\ out2 # "ok" ->
             Announce(committed, out2) /\ recovery' = NoRecovery
        [] OTHER ->
             /\ Announce(Persisted(s, last, out3),
                         IF needs THEN "ok" ELSE out3)
             /\ recovery' = IF recovery.oldExists /\ out3 = "ok"
                              THEN RecoveryGoes("removeOld") ELSE NoRecovery

(* finishRecovery, by CredentialMigrationRecovery.decide                   *)
Decide(out1, out2, out3) ==
  /\ recovery.step \in {"probe", "reread"} /\ recovery.result # "none"
  /\ Fault(Cost(out1) + Cost(out2) + Cost(out3))
  /\ LET r == recovery.record
         current == recovery.current
         mine == journal.migration.generation = r.generation
         known == recovery.result = "ok" /\ mine
         onOld == known /\ current = r.old
         onNew == known /\ current = r.new
     IN  \/ /\ ~onOld /\ ~(onNew /\ recovery.newExists)
            /\ Announce(Store, "ok") /\ recovery' = NoRecovery
         \/ /\ onOld /\ journal.pending.account = r.new
            /\ Announce(Store, "ok") /\ recovery' = NoRecovery
         \/ /\ onOld /\ journal.pending.account # r.new
            /\ ~recovery.newExists
            /\ MigrationEnds(out1) /\ recovery' = NoRecovery
         \/ /\ onOld /\ journal.pending.account # r.new
            /\ recovery.newExists
            /\ Announce(Persisted(Store, InPhase(journal, "cleanupNew"), out1),
                        out1)
            /\ recovery' = IF out1 = "ok" THEN RecoveryGoes("removeNew")
                                          ELSE NoRecovery
         \/ /\ onNew /\ recovery.newExists
            /\ UseNew(recovery.validated \/ recovery.step = "reread",
                      out1, out2, out3)
  /\ RecoveryMainUnchanged

(* finishUseNewValidation; a configuration that changed is read again.     *)
FinishValidation(out1, out2, out3) ==
  /\ recovery.step = "validate" /\ recovery.result # "none"
  /\ Fault(Cost(out1) + Cost(out2) + Cost(out3))
  /\ IF recovery.result = "ok" THEN UseNew(TRUE, out1, out2, out3)
     ELSE Announce(Store, "ok") /\ recovery' = RecoveryGoes("reread")
  /\ RecoveryMainUnchanged

(* finishInactiveNewCleanup and finishInactiveOldCleanup                   *)
FinishCleanup(out) ==
  /\ recovery.step \in {"removeNew", "removeOld"} /\ recovery.result # "none"
  /\ Fault(Cost(out))
  /\ IF recovery.result = "ok" THEN MigrationEnds(out)
                               ELSE Announce(Store, "ok")
  /\ recovery' = NoRecovery
  /\ RecoveryMainUnchanged

-----------------------------------------------------------------------------
(* Notices                                                                 *)

(* status().username: the running OpenCode's account comes first.          *)
Username == IF agent.active # NoAccount THEN agent.active ELSE agent.latest

(* mark_credential_changed and mark_credential_removed                     *)
Handled(notice) ==
  IF notice = "removed"
    THEN [agent EXCEPT !.state = "NotConfigured", !.holds = 0]
    ELSE [agent EXCEPT !.state = "AccessPending", !.holds = 0]

(* The agent handles the notice in flight and answers with its status,     *)
(* which proves that it landed if it names the notice's account.           *)
AgentHandles ==
  /\ delivery # NoRequest /\ delivery.answer = "none"
  /\ agent' = Handled(delivery.record.notice)
  /\ \/ /\ delivery' = [delivery EXCEPT !.answer =
              IF Username = delivery.record.account THEN "acknowledged"
                                                    ELSE "failed"]
        /\ UNCHANGED budget
     \/ Fault(1) /\ delivery' = [delivery EXCEPT !.answer = "failed"]
  /\ UNCHANGED <<app, journal, disk, item, editor, txn, recovery, status,
                 wish>>

RequestIsLost ==
  /\ delivery # NoRequest /\ delivery.answer = "none"
  /\ Fault(1)
  /\ delivery' = [delivery EXCEPT !.answer = "failed"]
  /\ UNCHANGED <<app, journal, disk, item, editor, txn, recovery, status,
                 wish, agent>>

(* The acknowledged notice is the one that is still pending.               *)
Cleared(r, a) ==
  /\ delivery.answer = "acknowledged"
  /\ journal.pending.generation = r.generation

(* Mutant of AfterDelivery: a failed request stays in flight.              *)
AfterDeliveryOnce(s, out) ==
  IF delivery.answer = "failed" THEN delivery
  ELSE Attempt(NoRequest, s.journal, delivery.record.account)

(* The next request. A failure waits for the next status.                  *)
AfterDelivery(s, out) ==
  IF delivery.answer = "failed" \/ out # "ok" THEN NoRequest
  ELSE Attempt(Attempt(NoRequest, s.journal, status), s.journal,
               delivery.record.account)

(* finishDelivery                                                          *)
FinishDelivery(out) ==
  /\ delivery.answer # "none"
  /\ AckRace \/ txn.step # "write"
  /\ Fault(Cost(out))
  /\ LET clears == Cleared(delivery.record, status)
         s == IF clears THEN Persisted(Store, Acknowledged(journal), out)
                        ELSE Store
     IN  /\ out # "ok" => clears
         /\ StoreBecomes(s)
         /\ delivery' = AfterDelivery(s, out)
         /\ wish' = IF clears /\ out = "ok" THEN Drained(wish, s.journal)
                                            ELSE wish
         /\ status' = IF delivery.answer = "acknowledged" /\ out = "ok"
                        THEN delivery.record.account ELSE status
  /\ UNCHANGED <<app, item, editor, txn, recovery, agent>>

MayStart == app = "up" /\ ~Outstanding(journal)

(* refresh_config: a password held for the account stays in use as long as *)
(* no change was noticed and its item exists.                              *)
Reloaded ==
  LET a == disk.plist
      kept == agent.latest = a /\ agent.state = "Configured" /\ item[a] # 0
  IN  IF kept THEN agent
      ELSE [agent EXCEPT !.latest = a, !.holds = 0, !.state = AgentState(a)]

(* start_now reads the configuration again.                                *)
AgentMayStart == Reloaded.state # "AccessPending"

Started == [Reloaded EXCEPT !.active = Reloaded.latest]

(* applyStatus: delivery is tried, and a granted read redeems the user's   *)
(* "Allow & Restart"; sendCommand refuses it while a notice is outstanding.*)
Observe ==
  /\ app # "down"
  /\ status' = Username
  /\ delivery' = Attempt(delivery, journal, Username)
  /\ LET redeems == wish = "granting" /\ agent.state = "Configured"
     IN  /\ wish' = IF redeems
                      THEN IF MayStart THEN "restarted" ELSE "refused"
                      ELSE wish
         /\ agent' = IF redeems /\ MayStart /\ AgentMayStart
                       THEN Started ELSE agent
  /\ UNCHANGED <<app, journal, disk, item, editor, txn, recovery, budget>>

(* authorizeAndRestart by way of performAfterAcknowledgement               *)
AllowAndRestart ==
  /\ app = "up" /\ txn = NoTxn
  /\ wish = "none" /\ agent.active # NoAccount
  /\ wish' = IF Outstanding(journal) THEN "deferred" ELSE "granting"
  /\ UNCHANGED <<app, journal, disk, item, editor, txn, recovery, delivery,
                 status, agent, budget>>

-----------------------------------------------------------------------------
(* The agent                                                               *)

AgentUnchanged ==
  UNCHANGED <<app, journal, disk, item, editor, txn, recovery, delivery,
              status, wish, budget>>

(* A reload probes the item and reads nothing.                             *)
AgentReloads == agent' = Reloaded /\ AgentUnchanged

(* The user allows the read, or an earlier grant does.                     *)
AgentReads ==
  /\ agent.state = "AccessPending"
  /\ agent' = [agent EXCEPT !.holds = item[agent.latest],
                 !.state = IF item[agent.latest] = 0 THEN "NotConfigured"
                                                     ELSE "Configured"]
  /\ AgentUnchanged

(* Mutant of StartOpenCode: sendCommand does not ask the journal.          *)
StartOpenCodeUnasked ==
  /\ app = "up"
  /\ agent.active = NoAccount /\ AgentMayStart
  /\ agent' = Started /\ AgentUnchanged

(* The user starts OpenCode from the menu.                                 *)
StartOpenCode ==
  /\ MayStart
  /\ agent.active = NoAccount /\ AgentMayStart
  /\ agent' = Started /\ AgentUnchanged

(* The agent restarts OpenCode by itself after an exit.                    *)
AgentRestartsOpenCode ==
  /\ agent.active # NoAccount /\ AgentMayStart
  /\ agent' = Started /\ AgentUnchanged

StopOpenCode ==
  /\ agent.active # NoAccount
  /\ agent' = [agent EXCEPT !.active = NoAccount] /\ AgentUnchanged

-----------------------------------------------------------------------------
(* Crashes and launches                                                    *)

Gone ==
  /\ app' = "down" /\ journal' = EmptyJournal
  /\ editor' = Untouched /\ txn' = NoTxn /\ recovery' = NoRecovery
  /\ delivery' = NoRequest
  /\ status' = NoAccount /\ wish' = "none"

Quit ==
  /\ app # "down"
  /\ Crash
  /\ Gone
  /\ UNCHANGED <<disk, item, agent>>

(* Each file comes back in a version it had since the last flush.          *)
PowerLoss ==
  /\ Crash
  /\ Gone
  /\ \E j \in {disk.journal} \cup disk.journals,
        p \in {disk.plist} \cup disk.plists :
       /\ disk' = [journal |-> j, plist |-> p, journals |-> {}, plists |-> {}]
       /\ agent' = [latest |-> p, active |-> NoAccount, holds |-> 0,
                    state |-> AgentState(p)]
  /\ UNCHANGED item

(* Mutant of Opened: a staged notice is taken for one that never landed.   *)
OpenedWithoutStaged(j, out) ==
  Persisted([journal |-> EmptyJournal, disk |-> disk],
            IF j.pending = NoNotice THEN RolledBack(j) ELSE j, out)

(* CredentialMutationJournal.init: a staged notice without a pending one   *)
(* is promoted, which is a write; there is none to do otherwise.           *)
Opened(j, out) ==
  IF Promoted(j) = j THEN [journal |-> j, disk |-> disk]
  ELSE Persisted([journal |-> EmptyJournal, disk |-> disk], Promoted(j), out)

(* The journal is read, cannot be read, or its promotion cannot be stored. *)
Open(out, readable) ==
  LET s == Opened(disk.journal, out)
      usable == readable /\ out = "ok"
  IN  /\ out # "ok" => readable /\ Promoted(disk.journal) # disk.journal
      /\ Fault(Cost(out) + IF readable THEN 0 ELSE 1)
      /\ app' = IF usable THEN "up" ELSE "unavailable"
      /\ journal' = IF usable THEN s.journal ELSE EmptyJournal
      /\ disk' = IF readable THEN s.disk ELSE disk

(* A launch recovers a migration; the coordinator stays without a journal  *)
(* that could not be opened.                                               *)
Launch(out, readable) ==
  /\ app = "down"
  /\ Open(out, readable)
  /\ recovery' = Recovering(journal'.migration)
  /\ UNCHANGED <<item, editor, txn, delivery, status, wish, agent>>

(* retryAvailability opens the journal and does not recover.               *)
Retry(out, readable) ==
  /\ app = "unavailable"
  /\ Open(out, readable)
  /\ delivery' = Attempt(delivery, journal', status)
  /\ UNCHANGED <<item, editor, txn, recovery, status, wish, agent>>

(* Somebody edits config.plist, not during a save; the edit is durable.    *)
EditByHand(a) ==
  /\ txn = NoTxn /\ a # disk.plist
  /\ MayFail(1) /\ budget' = [budget EXCEPT !.edits = @ + 1]
  /\ disk' = [disk EXCEPT !.plist = a, !.plists = {}]
  /\ UNCHANGED <<app, journal, item, editor, txn, recovery, delivery, status,
                 wish, agent>>

-----------------------------------------------------------------------------
Init ==
  /\ app = "up" /\ journal = EmptyJournal
  /\ disk = [journal |-> EmptyJournal, plist |-> FirstAccount,
             journals |-> {}, plists |-> {}]
  /\ item = [a \in Account |-> 0]
  /\ editor = Untouched /\ txn = NoTxn /\ recovery = NoRecovery
  /\ delivery = NoRequest /\ status = NoAccount /\ wish = "none"
  /\ agent = [latest |-> FirstAccount, active |-> NoAccount,
              state |-> "NotConfigured", holds |-> 0]
  /\ budget = [saves |-> 0, faults |-> 0, crashes |-> 0, edits |-> 0]

Save ==
  \/ \E op \in {"create", "update", "delete"}, a \in Account,
        out1, out2 \in Outcome : SaveSameAccount(op, a, out1, out2)
  \/ \E a \in Account, out \in Outcome :
       SaveConfiguration(a, out) \/ SaveMigration(a, out)

SaveWorker == KeychainWrites \/ KeychainRemoves \/ KeychainFails \/ Inspect

SaveMain ==
  \/ \E out \in Outcome : FinishWrite(out) \/ FinishRemoval(out)
  \/ \E out1, out2, out3, out4 \in Outcome :
       FinishCreate(out1, out2, out3, out4)
  \/ \E out1, out2 \in Outcome : FinishInspect(out1, out2)

RecoveryWorker == Probe \/ ConfirmAndRemove \/ ConfirmFails

RecoveryMain ==
  \/ \E out1, out2, out3 \in Outcome :
       Decide(out1, out2, out3) \/ FinishValidation(out1, out2, out3)
  \/ \E out \in Outcome : FinishCleanup(out)

NoticeDelivery ==
  \/ AgentHandles \/ RequestIsLost \/ Observe \/ AllowAndRestart
  \/ \E out \in Outcome : FinishDelivery(out)

AgentSteps ==
  \/ AgentReloads \/ AgentReads
  \/ StartOpenCode \/ AgentRestartsOpenCode \/ StopOpenCode

Environment ==
  \/ Quit \/ PowerLoss
  \/ \E out \in Outcome, readable \in BOOLEAN :
       Launch(out, readable) \/ Retry(out, readable)
  \/ \E a \in Account : EditByHand(a)

Next ==
  \/ Save \/ SaveWorker \/ SaveMain \/ RecoveryWorker \/ RecoveryMain
  \/ NoticeDelivery \/ AgentSteps \/ Environment

Spec == Init /\ [][Next]_vars

(* Workers return and the main thread runs what they post; a status is     *)
(* pushed every ten seconds, the agent reloads and answers; a user who     *)
(* clicked "Allow & Restart" allows the read.                              *)
Fairness ==
  /\ WF_vars(SaveWorker) /\ WF_vars(SaveMain)
  /\ WF_vars(RecoveryWorker) /\ WF_vars(RecoveryMain)
  /\ WF_vars(AgentReloads) /\ WF_vars(Observe)
  /\ WF_vars(AgentHandles)
  /\ WF_vars(\E out \in Outcome : FinishDelivery(out))
  /\ WF_vars(wish = "granting" /\ AgentReads)

FairSpec == Spec /\ Fairness

-----------------------------------------------------------------------------
(* What the proofs rest on                                                 *)

(* A stored migration is between two accounts, and generations count the   *)
(* saves.                                                                  *)
WellFormed(j) ==
  /\ j.generation <= budget.saves
  /\ j.migration # NoMigration =>
       j.migration.generation > 0 /\ j.migration.old # j.migration.new

JournalsWellFormed ==
  \A j \in {journal, disk.journal} \cup disk.journals : WellFormed(j)

(* A save owns the migration it works on, and removes an item only while   *)
(* the configuration durably names the other account.                      *)
TxnOwns ==
  txn.step # "idle" =>
    /\ app = "up" /\ recovery = NoRecovery
    /\ txn.account \in Account /\ txn.op # "none"
    /\ 0 < txn.generation /\ 0 < budget.saves
    /\ txn.step # "write" =>
         /\ txn.op = "create"
         /\ txn.old \in Account /\ txn.old # txn.account
         /\ journal.migration # NoMigration
    /\ txn.step = "removeOld" =>
         disk.plist = txn.account /\ disk.plists = {}
    /\ txn.step = "removeNew" =>
         disk.plist # txn.account /\ disk.plists = {}
    /\ txn.step = "inspect" =>
         /\ txn.result = "newAndSaved" => disk.plist = txn.account
         /\ txn.result = "newOnly" => disk.plist # txn.account
         /\ txn.result # "ok"
    /\ txn.step # "inspect" => txn.result \in {"none", "ok", "failed"}

(* So does a recovery; it looks at the configuration as it removes.        *)
RecoveryOwns ==
  recovery.step # "idle" =>
    /\ app = "up" /\ txn = NoTxn
    /\ recovery.record # NoMigration
    /\ recovery.record.old # recovery.record.new
    /\ journal.migration # NoMigration
    /\ recovery.step \in {"removeNew", "removeOld"} => disk.plists = {}

(* An idle program counter keeps nothing.                                  *)
IdleIsEmpty ==
  /\ txn.step = "idle" => txn = NoTxn
  /\ recovery.step = "idle" => recovery = NoRecovery

(* Memory and the visible file agree, whatever becomes of a write, so that *)
(* a relaunch goes on where the application was.                           *)
MemoryIsFile == app = "up" => journal = disk.journal

(* The inductive invariant.                                                *)
IInv ==
  /\ TypeOK /\ MemoryIsFile /\ JournalsWellFormed
  /\ TxnOwns /\ RecoveryOwns /\ IdleIsEmpty

-----------------------------------------------------------------------------
(* Why the agent is told of every password that changes                    *)

(* A migration that is still to put its new item into service.             *)
Live(j) == j.migration.phase \notin {"none", "cleanupOld"}

(* The agent has a password that the item no longer has.                   *)
Stale ==
  /\ agent.state = "Configured"
  /\ item[agent.latest] \notin {0, agent.holds}

(* The generation of the notice that the answer in flight clears.          *)
Acked == IF delivery.answer = "acknowledged" THEN delivery.record.generation
                                             ELSE 0

(* The accounts whose notice makes the agent ask again: its own, or any    *)
(* since somebody edited the configuration by hand.                        *)
Heeded == IF budget.edits = 0 THEN {agent.latest} ELSE Account

(* The journal j will tell an agent that heeds the notices of some          *)
(* accounts of the item of a, once the notice of generation g is cleared.  *)
Tells(j, g, a, heeded) ==
  \/ j.staged.account \in heeded
  \/ j.pending.account \in heeded /\ j.pending.generation # g
  \/ Live(j) /\ j.migration.new = a /\ j.pending.account # a

Told == Stale => Tells(disk.journal, Acked, agent.latest, Heeded)

(* The configuration leaves an account that the agent is still to be told  *)
(* of only for the time of a migration, whatever the editor offers.        *)
Elsewhere ==
  Stale /\ budget.edits = 0 =>
    \/ Live(disk.journal) /\ disk.journal.migration.new = agent.latest
    \/ /\ disk.plist = agent.latest
       /\ editor # Untouched => editor.account = agent.latest

(* Generations tell the notices of a journal apart and order them.         *)
Ordered(j) ==
  /\ j.pending # NoNotice =>
       0 < j.pending.generation /\ j.pending.generation <= j.generation
  /\ j.staged # NoNotice =>
       /\ j.pending.generation < j.staged.generation
       /\ j.migration.generation < j.staged.generation
       /\ j.staged.generation <= j.generation
  /\ j.migration # NoMigration =>
       /\ 0 < j.migration.generation
       /\ j.migration.generation <= j.generation
       /\ j.pending.generation = j.migration.generation =>
            ~Live(j) /\ j.pending.account = j.migration.new

JournalsOrdered ==
  \A j \in {journal, disk.journal} \cup disk.journals : Ordered(j)

(* A request belongs to the running application and to a notice it had.    *)
InFlight ==
  /\ delivery # NoRequest =>
       /\ app = "up"
       /\ 0 < delivery.record.generation
       /\ delivery.record.generation <= journal.generation
  /\ app # "up" => journal = EmptyJournal /\ editor = Untouched

(* A same-account save keeps its notice staged until it knows what became  *)
(* of the item.                                                            *)
WriteTells ==
  txn.step = "write" =>
    /\ disk.plist = txn.account /\ ~Live(journal)
    /\ journal.staged = Changed(txn.account, txn.generation)
    /\ delivery.record.generation # txn.generation
    /\ Stale /\ txn.result # "ok" =>
         Tells(RolledBack(journal), Acked, agent.latest, Heeded)

(* A migration starts when nothing is outstanding and commits its notice   *)
(* before it ends, unless its new item is gone.                            *)
MigrationTells ==
  txn.step \in {"create", "inspect", "removeNew", "removeOld"} =>
    /\ txn.step = "removeOld" <=> ~Live(journal)
    /\ Stale /\ Live(journal) => agent.latest = txn.account
    /\ journal.migration.new = txn.account
    /\ txn.step = "create" /\ txn.result # "ok" => ~Stale
    /\ txn.step \in {"create", "inspect"} =>
         /\ journal.pending = NoNotice /\ journal.staged = NoNotice
         /\ delivery.record.generation # journal.migration.generation
    /\ \/ txn.step = "inspect" /\ txn.result \in {"neither", "savedOnly"}
       \/ txn.step = "removeNew" /\ txn.result = "ok"
       => item[txn.account] = 0

(* So does a recovery, which knows what it found.                          *)
RecoveryTells ==
  recovery.step # "idle" =>
    /\ editor = Untouched
    /\ journal.migration.new = recovery.record.new
    /\ recovery.step = "removeOld" => ~Live(journal)
    /\ recovery.step \in {"probe", "validate", "reread"} =>
         /\ journal.migration = recovery.record
         /\ Live(journal) =>
              delivery.record.generation # journal.migration.generation
    /\ recovery.result = "ok" =>
         /\ recovery.step = "removeNew" => item[recovery.record.new] = 0
         /\ recovery.step = "validate" /\ budget.edits = 0 =>
              disk.plist = recovery.record.new
         /\ recovery.step \in {"probe", "reread"} =>
              /\ budget.edits = 0 => disk.plist = recovery.current
              /\ recovery.newExists \/ item[recovery.record.new] = 0

(* The inductive invariant about notices.                                  *)
NoticeInv ==
  /\ IInv /\ JournalsOrdered /\ InFlight
  /\ Told /\ Elsewhere
  /\ txn.step # "idle" => editor = Untouched
  /\ WriteTells /\ MigrationTells /\ RecoveryTells

-----------------------------------------------------------------------------
(* Properties                                                              *)

Mentions(j, a) ==
  \/ j.pending.account = a \/ j.staged.account = a
  \/ j.migration.new = a /\ j.migration.phase # "cleanupOld"

(* An agent that would keep, on its next reload, a password the item no     *)
(* longer has is still to be told, in memory and on disk, through every    *)
(* crash, unless somebody edited the configuration by hand.                *)
BeliefIsNoticed ==
  LET g == Reloaded
  IN  budget.edits = 0 /\ g.state = "Configured" /\ g.holds # item[g.latest]
        => /\ Mentions(disk.journal, g.latest)
           /\ app = "up" => Mentions(journal, g.latest)

(* An OpenCode that the application starts gets the current password, or   *)
(* none because there is none.                                             *)
StartIsInformed ==
  [][app = "up" /\ agent.active = NoAccount /\ agent'.active # NoAccount
     => agent'.holds = item[agent'.active]]_vars

(* The item that no configuration names is remembered for removal, unless  *)
(* somebody edited the configuration by hand.                              *)
NoneLeftBehind ==
  budget.edits = 0 =>
    \A a \in Account : item[a] # 0 /\ a # disk.plist =>
      a \in {disk.journal.migration.old, disk.journal.migration.new}

(* Except for the removal the user asked for, no item is removed that the  *)
(* configuration names, or would name again after a power loss.            *)
CleanupSparesActive ==
  [][\A a \in Account :
       item[a] # 0 /\ item'[a] = 0 /\ txn.op # "delete"
         => a \notin {disk.plist} \cup disk.plists]_vars

(* A notice is not stuck while the agent answers for its account.          *)
Stuck ==
  /\ app = "up" /\ journal.pending # NoNotice
  /\ Username = journal.pending.account

NoticeSettles == ~<>[]Stuck

(* "AppDelegate performs the restart automatically once the agent reports  *)
(* the grant" (SaveFlow.swift:376): as long as OpenCode runs, the restart  *)
(* the user allowed does not wait for ever behind the notice it needs.     *)
DeferredRestartIsDone ==
  wish = "deferred" /\ item[disk.plist] # 0
    ~> wish # "deferred" \/ agent.active = NoAccount
=============================================================================

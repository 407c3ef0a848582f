----------------------- MODULE CredentialJournalProofs -----------------------
(***************************************************************************)
(* Proofs about CredentialJournal: the inductive invariant; that no        *)
(* cleanup removes the item the configuration names; that the agent is     *)
(* told of every password that changes; that no item is left behind.       *)
(***************************************************************************)
EXTENDS CredentialJournal, TLAPS

-----------------------------------------------------------------------------
(* Journals and stores                                                     *)

Fine(j, n) ==
  /\ j \in Journal /\ j.generation <= n
  /\ j.migration # NoMigration =>
       j.migration.generation > 0 /\ j.migration.old # j.migration.new

Stores == [journal : Journal, disk : Disk]

GoodStore(s, n) ==
  /\ s \in Stores
  /\ \A j \in {s.journal, s.disk.journal} \cup s.disk.journals : Fine(j, n)

Agree(s) == s.journal = s.disk.journal

(* The empty values are distinguished by their fields.                     *)
LEMMA EmptyFacts ==
  /\ NoMigration \in Migration /\ NoNotice \in Notice
  /\ EmptyJournal \in Journal /\ Fine(EmptyJournal, 0)
  /\ NoTxn \in Transaction /\ NoRecovery \in Recovery
  /\ NoRequest \in Request /\ Untouched \in Editor
BY JournalConstants
   DEF JournalConstants, Fine, NoMigration, Migration, NoNotice, Notice,
       EmptyJournal, Journal, Generation, NoTxn, Transaction, NoRecovery,
       Recovery, NoRequest, Request, Untouched, Editor

LEMMA FlushedIs ==
  ASSUME NEW d \in Disk
  PROVE  Flushed(d) = [journal |-> d.journal, plist |-> d.plist,
                       journals |-> {}, plists |-> {}]
<1> DEFINE e == [d EXCEPT !.journals = {}]
<1>1. /\ e \in Disk /\ e.journal = d.journal
      /\ e.plist = d.plist /\ e.journals = {}
  BY DEF Disk
<1> HIDE DEF e
<1>2. [e EXCEPT !.plists = {}]
        = [journal |-> d.journal, plist |-> d.plist,
           journals |-> {}, plists |-> {}]
  BY <1>1 DEF Disk
<1> QED BY <1>2 DEF e, Flushed

(* persist() and restoreOrRetain keep what is well formed well formed, and *)
(* memory like the file.                                                   *)
LEMMA PersistedFacts ==
  ASSUME NEW n \in Nat, NEW s, GoodStore(s, n), NEW j, Fine(j, n),
         NEW out \in Outcome
  PROVE  LET p == Persisted(s, j, out)
         IN  /\ GoodStore(p, n)
             /\ Agree(s) \/ out = "ok" => Agree(p)
             /\ p.disk.plist = s.disk.plist
             /\ p.disk.plists \subseteq s.disk.plists
             /\ out = "ok" => p.journal = j /\ p.disk.plists = {}
             /\ p.journal \in {s.journal, j}
<1> DEFINE p == Persisted(s, j, out)
           d == [s.disk EXCEPT !.journal = j]
<1>1. s.disk \in Disk /\ j \in Journal
  BY DEF GoodStore, Stores, Fine
<1>2. CASE out = "ok"
  <2>1. d \in Disk /\ d.plist = s.disk.plist /\ d.journal = j
    BY <1>1 DEF Disk
  <2>2. p = [journal |-> j, disk |-> [journal |-> j, plist |-> s.disk.plist,
                                      journals |-> {}, plists |-> {}]]
    BY <1>2, <2>1, FlushedIs DEF Persisted
  <2>3. p \in Stores
    BY <2>2, <1>1 DEF Stores, Disk
  <2>4. GoodStore(p, n)
    BY <2>2, <2>3 DEF GoodStore
  <2> QED BY <2>2, <2>4, <1>2 DEF Agree
<1>3. CASE out = "failed"
  <2>1. p = s
    BY <1>3 DEF Persisted
  <2> QED BY <2>1, <1>3
<1>4. CASE out = "uncertain"
  <2>1. p = [journal |-> j,
             disk |-> [journal |-> j, plist |-> s.disk.plist,
                       journals |-> s.disk.journals \cup {s.disk.journal},
                       plists |-> s.disk.plists]]
    BY <1>4, <1>1 DEF Persisted, Disk
  <2>2. p \in Stores
    BY <2>1, <1>1 DEF Stores, Disk
  <2>3. GoodStore(p, n)
    BY <2>1, <2>2 DEF GoodStore
  <2> QED BY <2>1, <2>3, <1>4 DEF Agree
<1> QED BY <1>2, <1>3, <1>4 DEF Outcome

(* ConfigStore.save does not touch the journal in memory or on disk.       *)
LEMMA SavedFacts ==
  ASSUME NEW n \in Nat, NEW s, GoodStore(s, n), NEW a \in Account,
         NEW out \in Outcome
  PROVE  LET p == Saved(s, a, out)
         IN  /\ GoodStore(p, n)
             /\ Agree(s) => Agree(p)
             /\ p.journal = s.journal
             /\ out = "ok" => p.disk.plist = a
<1> DEFINE p == Saved(s, a, out)
           d == [s.disk EXCEPT !.plist = a]
<1>1. /\ s \in Stores /\ s.disk \in Disk
      /\ d \in Disk /\ d.journal = s.disk.journal /\ d.plist = a
      /\ d.journals = s.disk.journals /\ d.plists = s.disk.plists
  BY DEF GoodStore, Stores, Disk
<1>2. CASE s.disk.plist = a \/ out = "failed"
  BY <1>2 DEF Saved
<1>3. CASE s.disk.plist # a /\ out = "ok"
  <2>1. p = [s EXCEPT !.disk = [journal |-> s.disk.journal, plist |-> a,
                                journals |-> {}, plists |-> {}]]
    BY <1>1, <1>3, FlushedIs DEF Saved
  <2>2. /\ p \in Stores /\ p.journal = s.journal
        /\ p.disk = [journal |-> s.disk.journal, plist |-> a,
                     journals |-> {}, plists |-> {}]
    BY <2>1, <1>1 DEF Stores, Disk
  <2>3. GoodStore(p, n)
    BY <2>2 DEF GoodStore
  <2> QED BY <2>2, <2>3 DEF Agree
<1>4. CASE s.disk.plist # a /\ out = "uncertain"
  <2>1. p = [s EXCEPT !.disk = [d EXCEPT !.plists = @ \cup {s.disk.plist}]]
    BY <1>4 DEF Saved
  <2> HIDE DEF d
  <2>2. [d EXCEPT !.plists = @ \cup {s.disk.plist}]
          = [journal |-> s.disk.journal, plist |-> a,
             journals |-> s.disk.journals,
             plists |-> s.disk.plists \cup {s.disk.plist}]
    BY <1>1 DEF Disk
  <2>3. /\ p \in Stores /\ p.journal = s.journal
        /\ p.disk = [journal |-> s.disk.journal, plist |-> a,
                     journals |-> s.disk.journals,
                     plists |-> s.disk.plists \cup {s.disk.plist}]
    BY <2>1, <2>2, <1>1 DEF Stores, Disk
  <2>4. GoodStore(p, n)
    BY <2>3 DEF GoodStore
  <2> QED BY <2>3, <2>4, <1>4 DEF Agree
<1> QED BY <1>2, <1>3, <1>4 DEF Outcome

-----------------------------------------------------------------------------
(* The journal's operations                                                *)

LEMMA NextGeneration ==
  ASSUME NEW n \in Nat, n < MaxSaves, NEW j, Fine(j, n)
  PROVE  /\ j.generation + 1 \in Generation /\ j.generation + 1 > 0
         /\ j.generation + 1 <= n + 1 /\ j.generation <= n + 1
BY JournalConstants DEF JournalConstants, Fine, Journal, Generation

LEMMA StagedFine ==
  ASSUME NEW n \in Nat, n < MaxSaves, NEW j, Fine(j, n), NEW a \in Account
  PROVE  Fine(Staged(j, a), n + 1)
<1> DEFINE k == Staged(j, a)
<1>1. Changed(a, j.generation + 1) \in Notice
  BY NextGeneration DEF Changed, Notice
<1>2. /\ k \in Journal /\ k.generation = j.generation + 1
      /\ k.migration = j.migration
  BY <1>1, NextGeneration DEF Fine, Staged, Journal
<1> QED BY <1>2, NextGeneration DEF Fine

LEMMA MigrationStagedFine ==
  ASSUME NEW n \in Nat, n < MaxSaves, NEW j, Fine(j, n),
         NEW a \in Account, NEW b \in Account, a # b
  PROVE  /\ Fine(MigrationStaged(j, a, b), n + 1)
         /\ MigrationStaged(j, a, b).migration # NoMigration
<1> DEFINE k == MigrationStaged(j, a, b)
           g == j.generation + 1
           m == [generation |-> g, old |-> a, new |-> b, phase |-> "staged"]
<1>1. /\ m \in Migration /\ m.generation > 0 /\ m.old # m.new
      /\ m # NoMigration
  BY NextGeneration DEF Migration, NoMigration
<1>2. j \in Journal /\ g \in Generation /\ g <= n + 1
  BY NextGeneration DEF Fine
<1>3. k = [j EXCEPT !.generation = g, !.migration = m]
  BY DEF MigrationStaged
<1> HIDE DEF m, g
<1> DEFINE e == [j EXCEPT !.generation = g]
<1>4. e \in Journal /\ e.generation = g
  BY <1>2 DEF Journal
<1> HIDE DEF e
<1>5. k = [e EXCEPT !.migration = m]
  BY <1>3 DEF e
<1>6. k \in Journal /\ k.generation = g /\ k.migration = m
  BY <1>1, <1>4, <1>5 DEF Journal
<1> QED BY <1>1, <1>2, <1>6 DEF Fine

(* setMigrationPhase, of a migration there is.                             *)
LEMMA InPhaseFine ==
  ASSUME NEW n \in Nat, NEW j, Fine(j, n), j.migration # NoMigration,
         NEW phase \in {"newCredentialReady", "configurationSaved",
                        "cleanupNew", "cleanupOld"}
  PROVE  /\ Fine(InPhase(j, phase), n)
         /\ InPhase(j, phase).migration # NoMigration
         /\ InPhase(j, phase).pending = j.pending
BY DEF Fine, InPhase, Journal, Migration, NoMigration

LEMMA MigrationCommittedFine ==
  ASSUME NEW n \in Nat, NEW j, Fine(j, n), j.migration # NoMigration
  PROVE  /\ Fine(MigrationCommitted(j), n)
         /\ MigrationCommitted(j).migration # NoMigration
<1> DEFINE i == InPhase(j, "cleanupOld")
<1>1. Fine(i, n) /\ i.migration # NoMigration
  BY InPhaseFine
<1>2. Changed(j.migration.new, j.migration.generation) \in Notice
  BY DEF Fine, Changed, Notice, Journal, Migration
<1> QED BY <1>1, <1>2 DEF MigrationCommitted, Fine, Journal

LEMMA WithoutMigrationFine ==
  ASSUME NEW n \in Nat, NEW j, Fine(j, n)
  PROVE  Fine(WithoutMigration(j), n)
BY EmptyFacts DEF Fine, WithoutMigration, Journal

LEMMA CommittedFine ==
  ASSUME NEW n \in Nat, NEW j, Fine(j, n), j.staged # NoNotice,
         NEW notice \in {"changed", "removed"}
  PROVE  Fine(Committed(j, notice), n)
BY EmptyFacts DEF Fine, Committed, Journal, Notice

LEMMA RolledBackFine ==
  ASSUME NEW n \in Nat, NEW j, Fine(j, n)
  PROVE  Fine(RolledBack(j), n)
BY EmptyFacts DEF Fine, RolledBack, Journal

LEMMA PromotedFine ==
  ASSUME NEW n \in Nat, NEW j, Fine(j, n)
  PROVE  Fine(Promoted(j), n)
BY CommittedFine DEF Promoted

LEMMA AcknowledgedFine ==
  ASSUME NEW n \in Nat, NEW j, Fine(j, n)
  PROVE  Fine(Acknowledged(j), n)
<1>1. Fine([j EXCEPT !.pending = NoNotice], n)
  BY EmptyFacts DEF Fine, Journal
<1> QED BY <1>1, PromotedFine DEF Acknowledged

-----------------------------------------------------------------------------
(* The pieces of a step                                                    *)

(* The types, but for the store.                                           *)
RestOK ==
  /\ app \in {"down", "up", "unavailable"}
  /\ item \in [Account -> 0..MaxSaves]
  /\ editor \in Editor /\ txn \in Transaction /\ recovery \in Recovery
  /\ delivery \in Request
  /\ status \in Account \cup {NoAccount}
  /\ wish \in {"none", "deferred", "granting", "restarted", "refused"}
  /\ agent \in Agent /\ budget \in Budget

LEMMA BudgetFacts ==
  ASSUME budget \in Budget
  PROVE  /\ budget.saves \in Nat
         /\ \A n \in Nat : Fault(n) =>
              budget' \in Budget /\ budget'.saves = budget.saves
         /\ \A n \in Nat : SpendSave(n) =>
              /\ budget' \in Budget /\ budget'.saves = budget.saves + 1
              /\ budget.saves < MaxSaves
<1>1. /\ MaxSaves \in Nat /\ MaxFaults \in Nat
      /\ budget.saves \in Nat /\ budget.saves <= MaxSaves
      /\ budget.faults \in Nat /\ budget.edits \in Nat
  BY JournalConstants DEF JournalConstants, Budget
<1>2. ASSUME NEW n \in Nat, Fault(n)
      PROVE  budget' \in Budget /\ budget'.saves = budget.saves
  <2> DEFINE f == budget.faults + n
  <2>1. f \in 0..MaxFaults /\ budget' = [budget EXCEPT !.faults = f]
    BY <1>1, <1>2 DEF Fault, MayFail
  <2> HIDE DEF f
  <2> QED BY <2>1 DEF Budget
<1>3. ASSUME NEW n \in Nat, SpendSave(n)
      PROVE  /\ budget' \in Budget /\ budget'.saves = budget.saves + 1
             /\ budget.saves < MaxSaves
  <2> DEFINE f == budget.faults + n
             m == budget.saves + 1
             e == [budget EXCEPT !.saves = m]
  <2>1. /\ f \in 0..MaxFaults /\ m \in 0..MaxSaves
        /\ budget' = [e EXCEPT !.faults = f] /\ budget.saves < MaxSaves
    BY <1>1, <1>3 DEF SpendSave, MayFail
  <2> HIDE DEF f, m
  <2>2. e \in Budget /\ e.saves = m
    BY <2>1 DEF Budget
  <2> HIDE DEF e
  <2>3. budget' \in Budget /\ budget'.saves = m
    BY <2>1, <2>2 DEF Budget
  <2> QED BY <2>1, <2>3 DEF m
<1> QED BY <1>1, <1>2, <1>3

LEMMA CostFacts ==
  /\ \A out : Cost(out) \in Nat
  /\ \A o1, o2 : Cost(o1) + Cost(o2) \in Nat
  /\ \A o1, o2, o3 : Cost(o1) + Cost(o2) + Cost(o3) \in Nat
  /\ \A o1, o2, o3, o4 : Cost(o1) + Cost(o2) + Cost(o3) + Cost(o4) \in Nat
BY DEF Cost

(* The invariant about the store, of a value it may become.                *)
LEMMA StoreFacts ==
  ASSUME IInv
  PROVE  /\ RestOK
         /\ budget.saves \in Nat
         /\ GoodStore(Store, budget.saves)
         /\ app = "up" => Agree(Store)
         /\ Store.journal = journal /\ Store.disk = disk
         /\ Fine(journal, budget.saves)
         /\ Fine(disk.journal, budget.saves)
<1>1. /\ journal \in Journal /\ disk \in Disk
      /\ disk.journal \in Journal /\ disk.journals \subseteq Journal
  BY DEF IInv, TypeOK, Disk
<1>2. Store \in Stores /\ Store.journal = journal /\ Store.disk = disk
  BY <1>1 DEF Store, Stores
<1>3. \A j \in {journal, disk.journal} \cup disk.journals :
        Fine(j, budget.saves)
  BY <1>1 DEF IInv, JournalsWellFormed, WellFormed, Fine
<1>4. RestOK
  BY DEF IInv, TypeOK, RestOK
<1>5. budget.saves \in Nat
  BY <1>4, BudgetFacts DEF RestOK
<1> QED
  BY <1>2, <1>3, <1>4, <1>5 DEF GoodStore, Agree, IInv, MemoryIsFile

LEMMA StoreKept ==
  ASSUME NEW s, StoreBecomes(s), GoodStore(s, budget'.saves),
         app' = "up" => Agree(s), RestOK'
  PROVE  TypeOK' /\ MemoryIsFile' /\ JournalsWellFormed'
<1>1. journal' = s.journal /\ disk' = s.disk
  BY DEF StoreBecomes
<1>2. journal' \in Journal /\ disk' \in Disk
  BY <1>1 DEF GoodStore, Stores
<1>3. \A j \in {journal', disk'.journal} \cup disk'.journals :
        Fine(j, budget'.saves)
  BY <1>1 DEF GoodStore
<1> QED
  BY <1>1, <1>2, <1>3
     DEF TypeOK, RestOK, MemoryIsFile, JournalsWellFormed, WellFormed, Fine,
         Agree

LEMMA FineGrows ==
  ASSUME NEW n \in Nat, NEW m \in Nat, n <= m, NEW s, GoodStore(s, n)
  PROVE  GoodStore(s, m)
<1>1. \A j : Fine(j, n) => Fine(j, m)
  <2> SUFFICES ASSUME NEW j, Fine(j, n) PROVE Fine(j, m)
    OBVIOUS
  <2>1. j.generation \in Nat
    BY JournalConstants
       DEF Fine, Journal, Generation, JournalConstants
  <2> QED BY <2>1 DEF Fine
<1> QED BY <1>1 DEF GoodStore

LEMMA AttemptType ==
  ASSUME NEW d \in Request, NEW j \in Journal, NEW a
  PROVE  Attempt(d, j, a) \in Request
BY DEF Attempt, Request, Journal

LEMMA AnnounceFacts ==
  ASSUME RestOK, NEW s, s.journal \in Journal, NEW out, Announce(s, out)
  PROVE  /\ StoreBecomes(s)
         /\ journal' = s.journal /\ disk' = s.disk
         /\ delivery' \in Request
         /\ wish' \in {"none", "deferred", "granting", "restarted",
                       "refused"}
BY AttemptType DEF Announce, RestOK, Drained, StoreBecomes

LEMMA RunningType ==
  ASSUME NEW step \in {"write", "create"},
         NEW op \in {"create", "update", "delete"}, NEW a \in Account,
         NEW old \in Account \cup {NoAccount}, NEW g \in Generation
  PROVE  /\ Running(step, op, a, old, g) \in Transaction
         /\ Running(step, op, a, old, g).step = step
         /\ Running(step, op, a, old, g).result = "none"
         /\ Running(step, op, a, old, g).op = op
         /\ Running(step, op, a, old, g).account = a
         /\ Running(step, op, a, old, g).old = old
         /\ Running(step, op, a, old, g).generation = g
BY DEF Running, Transaction

-----------------------------------------------------------------------------
(* Steps that leave journal and disk alone                                 *)

LEMMA StoreQuiet ==
  ASSUME IInv, UNCHANGED <<app, journal, disk>>, RestOK',
         budget'.saves = budget.saves
  PROVE  TypeOK' /\ MemoryIsFile' /\ JournalsWellFormed'
<1>1. StoreBecomes(Store)
  BY DEF StoreBecomes, Store
<1> QED BY <1>1, StoreFacts, StoreKept

LEMMA OwnersQuiet ==
  ASSUME TxnOwns, RecoveryOwns, IdleIsEmpty,
         UNCHANGED <<app, txn, recovery>>,
         txn.step # "idle" \/ recovery.step # "idle" =>
           /\ journal' = journal \/ journal'.migration = journal.migration
           /\ disk'.plist = disk.plist
           /\ disk'.plists \subseteq disk.plists,
         budget'.saves = budget.saves
  PROVE  TxnOwns' /\ RecoveryOwns' /\ IdleIsEmpty'
<1>1. TxnOwns'
  BY DEF TxnOwns
<1>2. RecoveryOwns'
  BY DEF RecoveryOwns
<1> QED BY <1>1, <1>2 DEF IdleIsEmpty

LEMMA QuietStep ==
  ASSUME IInv, UNCHANGED <<app, journal, disk, txn, recovery>>, RestOK',
         budget'.saves = budget.saves
  PROVE  IInv'
<1>1. TxnOwns' /\ RecoveryOwns' /\ IdleIsEmpty'
  BY OwnersQuiet DEF IInv
<1> QED BY <1>1, StoreQuiet DEF IInv

(* The agent                                                               *)
LEMMA AgentFacts ==
  ASSUME RestOK, disk \in Disk
  PROVE  /\ Username \in Account
         /\ \A notice : Handled(notice) \in Agent
         /\ Reloaded \in Agent /\ Started \in Agent
<1>1. /\ agent.latest \in Account
      /\ agent.active \in Account \cup {NoAccount}
      /\ 0 \in 0..MaxSaves
  BY JournalConstants DEF RestOK, Agent, JournalConstants
<1>2. Username \in Account
  BY <1>1 DEF Username
<1>3. \A notice : Handled(notice) \in Agent
  <2> TAKE notice
  <2>1. CASE notice = "removed"
    BY <2>1, <1>1 DEF Handled, RestOK, Agent
  <2>2. CASE notice # "removed"
    BY <2>2, <1>1 DEF Handled, RestOK, Agent
  <2> QED BY <2>1, <2>2
<1>4. Reloaded \in Agent
  <2> DEFINE x == AgentState(disk.plist)
  <2>1. x \in {"NotConfigured", "AccessPending"} /\ disk.plist \in Account
    BY DEF AgentState, Disk
  <2>2. \/ Reloaded = agent
        \/ Reloaded = [agent EXCEPT !.latest = disk.plist, !.holds = 0,
                                    !.state = x]
    BY DEF Reloaded
  <2> HIDE DEF x
  <2>3. agent \in Agent
    BY DEF RestOK
  <2> QED BY <2>1, <2>2, <2>3, <1>1 DEF Agent
<1>5. Started \in Agent
  BY <1>4 DEF Started, Agent
<1> QED BY <1>2, <1>3, <1>4, <1>5

LEMMA DiskType ==
  ASSUME IInv
  PROVE  disk \in Disk /\ journal \in Journal /\ disk.journal \in Journal
BY DEF IInv, TypeOK, Disk

LEMMA AgentStep ==
  ASSUME IInv, AgentSteps
  PROVE  IInv'
<1> USE StoreFacts, DiskType
<1>1. agent' \in Agent /\ AgentUnchanged
  <2>1. CASE AgentReloads
    BY <2>1, AgentFacts DEF AgentReloads
  <2>2. CASE AgentReads
    <3>1. /\ agent \in Agent /\ item[agent.latest] \in 0..MaxSaves
          /\ agent' = [agent EXCEPT !.holds = item[agent.latest],
               !.state = IF item[agent.latest] = 0 THEN "NotConfigured"
                                                   ELSE "Configured"]
      BY <2>2 DEF AgentReads, RestOK, Agent
    <3>2. agent' \in Agent
      BY <3>1 DEF Agent
    <3> QED BY <3>2, <2>2 DEF AgentReads
  <2>3. CASE StartOpenCode
    BY <2>3, AgentFacts DEF StartOpenCode
  <2>4. CASE AgentRestartsOpenCode
    BY <2>4, AgentFacts DEF AgentRestartsOpenCode
  <2>5. CASE StopOpenCode
    BY <2>5 DEF StopOpenCode, RestOK, Agent
  <2> QED BY <2>1, <2>2, <2>3, <2>4, <2>5 DEF AgentSteps
<1>2. RestOK'
  BY <1>1 DEF AgentUnchanged, RestOK
<1> QED BY <1>1, <1>2, QuietStep DEF AgentUnchanged

(* The delivery, but for the acknowledgement                               *)
LEMMA DeliveryStep ==
  ASSUME IInv, AgentHandles \/ RequestIsLost \/ Observe \/ AllowAndRestart
  PROVE  IInv'
<1> USE StoreFacts, DiskType
<1>1. CASE AgentHandles
  <2>1. agent' \in Agent
    BY <1>1, AgentFacts DEF AgentHandles
  <2>2. delivery' \in Request
    BY <1>1 DEF AgentHandles, RestOK, Request
  <2>3. budget' \in Budget /\ budget'.saves = budget.saves
    BY <1>1, BudgetFacts DEF AgentHandles, RestOK
  <2>4. RestOK'
    BY <1>1, <2>1, <2>2, <2>3 DEF AgentHandles, RestOK
  <2> QED BY <1>1, <2>3, <2>4, QuietStep DEF AgentHandles
<1>2. CASE RequestIsLost
  <2>1. delivery' \in Request
    BY <1>2 DEF RequestIsLost, RestOK, Request
  <2>2. budget' \in Budget /\ budget'.saves = budget.saves
    BY <1>2, BudgetFacts DEF RequestIsLost, RestOK
  <2>3. RestOK'
    BY <1>2, <2>1, <2>2 DEF RequestIsLost, RestOK
  <2> QED BY <1>2, <2>2, <2>3, QuietStep DEF RequestIsLost
<1>3. CASE Observe
  <2>1. agent' \in Agent /\ status' \in Account
    BY <1>3, AgentFacts DEF Observe, RestOK
  <2>2. delivery' \in Request
    BY <1>3, AttemptType DEF Observe, RestOK
  <2>3. wish' \in {"none", "deferred", "granting", "restarted", "refused"}
    BY <1>3 DEF Observe, RestOK
  <2>4. RestOK'
    BY <1>3, <2>1, <2>2, <2>3 DEF Observe, RestOK
  <2> QED BY <1>3, <2>4, QuietStep DEF Observe
<1>4. CASE AllowAndRestart
  <2>1. RestOK'
    BY <1>4 DEF AllowAndRestart, RestOK
  <2> QED BY <1>4, <2>1, QuietStep DEF AllowAndRestart
<1> QED BY <1>1, <1>2, <1>3, <1>4

-----------------------------------------------------------------------------
(* Workers                                                                 *)

LEMMA SaveWorkerStep ==
  ASSUME IInv, SaveWorker
  PROVE  IInv'
<1> USE StoreFacts, DiskType
<1>1. /\ WorkerUnchanged /\ txn.step # "idle"
      /\ \E r \in {"ok", "failed", "newAndSaved", "newOnly", "savedOnly",
                   "neither"} :
           /\ Answered(r)
           /\ txn.step = "inspect" =>
                /\ r # "ok"
                /\ r = "newAndSaved" => disk.plist = txn.account
                /\ r = "newOnly" => disk.plist # txn.account
           /\ txn.step # "inspect" => r \in {"ok", "failed"}
  <2>1. CASE KeychainWrites
    <3>1. txn.step \in {"write", "create"} /\ WorkerUnchanged
          /\ (Answered("ok") \/ Answered("failed"))
      BY <2>1 DEF KeychainWrites
    <3> QED BY <3>1
  <2>2. CASE KeychainRemoves
    BY <2>2 DEF KeychainRemoves
  <2>3. CASE KeychainFails
    BY <2>3 DEF KeychainFails
  <2>4. CASE Inspect
    <3> DEFINE x == IF disk.plist = txn.account
                      THEN IF item[txn.account] # 0 THEN "newAndSaved"
                                                    ELSE "savedOnly"
                      ELSE IF item[txn.account] # 0 THEN "newOnly"
                                                    ELSE "neither"
    <3>1. /\ x \in {"newAndSaved", "savedOnly", "newOnly", "neither"}
          /\ x = "newAndSaved" => disk.plist = txn.account
          /\ x = "newOnly" => disk.plist # txn.account
      OBVIOUS
    <3>2. /\ WorkerUnchanged /\ txn.step = "inspect"
          /\ Answered("failed") \/ Answered(x)
      BY <2>4 DEF Inspect
    <3> HIDE DEF x
    <3> QED BY <3>1, <3>2
  <2> QED BY <2>1, <2>2, <2>3, <2>4 DEF SaveWorker
<1>2. PICK r \in {"ok", "failed", "newAndSaved", "newOnly", "savedOnly",
                  "neither"} :
        /\ Answered(r)
        /\ txn.step = "inspect" =>
             /\ r # "ok"
             /\ r = "newAndSaved" => disk.plist = txn.account
             /\ r = "newOnly" => disk.plist # txn.account
        /\ txn.step # "inspect" => r \in {"ok", "failed"}
  BY <1>1
<1>3. txn' = [txn EXCEPT !.result = r] /\ txn \in Transaction
  BY <1>2 DEF Answered, RestOK
<1>4. /\ txn' \in Transaction /\ txn'.result = r
      /\ txn'.step = txn.step /\ txn'.op = txn.op /\ txn'.old = txn.old
      /\ txn'.account = txn.account /\ txn'.generation = txn.generation
  BY <1>3 DEF Transaction
<1>5. budget' \in Budget /\ budget'.saves = budget.saves
  BY BudgetFacts
     DEF SaveWorker, KeychainWrites, KeychainRemoves, KeychainFails, Inspect,
         RestOK
<1>6. item' \in [Account -> 0..MaxSaves]
  <2>1. 0 \in 0..MaxSaves /\ budget.saves \in 0..MaxSaves
    BY JournalConstants DEF JournalConstants, RestOK, Budget
  <2>2. \A a, b : item \in [Account -> 0..MaxSaves] /\ b \in 0..MaxSaves =>
          [item EXCEPT ![a] = b] \in [Account -> 0..MaxSaves]
    OBVIOUS
  <2> QED
    BY <2>1, <2>2
       DEF SaveWorker, KeychainWrites, KeychainRemoves, KeychainFails,
           Inspect, RestOK
<1>7. RestOK'
  BY <1>1, <1>4, <1>5, <1>6 DEF WorkerUnchanged, RestOK
<1>8. TypeOK' /\ MemoryIsFile' /\ JournalsWellFormed'
  BY <1>1, <1>5, <1>7, StoreQuiet DEF WorkerUnchanged
<1>9. TxnOwns'
  BY <1>1, <1>2, <1>4, <1>5 DEF IInv, TxnOwns, WorkerUnchanged
<1>10. RecoveryOwns' /\ IdleIsEmpty'
  <2>1. recovery = NoRecovery /\ recovery' = recovery
    BY <1>1 DEF IInv, TxnOwns, WorkerUnchanged
  <2> QED BY <2>1, <1>1, <1>4 DEF RecoveryOwns, IdleIsEmpty, NoRecovery
<1> QED BY <1>8, <1>9, <1>10 DEF IInv

LEMMA RecoveryWorkerStep ==
  ASSUME IInv, RecoveryWorker
  PROVE  IInv'
<1> USE StoreFacts, DiskType
<1>1. /\ RecoveryWorkerUnchanged /\ recovery.step # "idle"
      /\ \/ recovery' = [recovery EXCEPT !.result = "ok"]
         \/ recovery' = [recovery EXCEPT !.result = "failed"]
         \/ \E n, o \in BOOLEAN :
              recovery' = [recovery EXCEPT !.result = "ok",
                             !.current = disk.plist,
                             !.newExists = n, !.oldExists = o]
  <2>1. CASE Probe
    <3>1. recovery.oldExists \in BOOLEAN
      BY DEF RestOK, Recovery
    <3>2. (recovery.step = "reread" \/ item[recovery.record.new] # 0)
            \in BOOLEAN
      OBVIOUS
    <3>3. (IF recovery.step = "reread" THEN recovery.oldExists
             ELSE item[recovery.record.old] # 0) \in BOOLEAN
      BY <3>1
    <3> QED BY <2>1, <3>2, <3>3 DEF Probe
  <2>2. CASE ConfirmAndRemove
    BY <2>2 DEF ConfirmAndRemove
  <2>3. CASE ConfirmFails
    BY <2>3 DEF ConfirmFails
  <2> QED BY <2>1, <2>2, <2>3 DEF RecoveryWorker
<1>2. /\ recovery' \in Recovery
      /\ recovery'.step = recovery.step /\ recovery'.record = recovery.record
  <2>1. recovery \in Recovery /\ disk.plist \in Account
    BY DEF RestOK, Disk
  <2>2. CASE recovery' = [recovery EXCEPT !.result = "ok"]
    BY <2>1, <2>2 DEF Recovery
  <2>3. CASE recovery' = [recovery EXCEPT !.result = "failed"]
    BY <2>1, <2>3 DEF Recovery
  <2>4. ASSUME NEW n \in BOOLEAN, NEW o \in BOOLEAN,
               recovery' = [recovery EXCEPT !.result = "ok",
                              !.current = disk.plist,
                              !.newExists = n, !.oldExists = o]
        PROVE  /\ recovery' \in Recovery
               /\ recovery'.step = recovery.step
               /\ recovery'.record = recovery.record
    BY <2>1, <2>4 DEF Recovery
  <2> QED BY <1>1, <2>2, <2>3, <2>4
<1>3. budget' \in Budget /\ budget'.saves = budget.saves
  BY BudgetFacts
     DEF RecoveryWorker, Probe, ConfirmAndRemove, ConfirmFails, RestOK
<1>4. item' \in [Account -> 0..MaxSaves]
  <2>1. 0 \in 0..MaxSaves
    BY JournalConstants DEF JournalConstants
  <2>2. \A a : item \in [Account -> 0..MaxSaves] =>
          [item EXCEPT ![a] = 0] \in [Account -> 0..MaxSaves]
    BY <2>1
  <2> QED
    BY <2>2 DEF RecoveryWorker, Probe, ConfirmAndRemove, ConfirmFails, RestOK
<1>5. RestOK'
  BY <1>1, <1>2, <1>3, <1>4 DEF RecoveryWorkerUnchanged, RestOK
<1>6. TypeOK' /\ MemoryIsFile' /\ JournalsWellFormed'
  BY <1>1, <1>3, <1>5, StoreQuiet DEF RecoveryWorkerUnchanged
<1>7. RecoveryOwns'
  BY <1>1, <1>2 DEF IInv, RecoveryOwns, RecoveryWorkerUnchanged
<1>8. TxnOwns' /\ IdleIsEmpty'
  <2>1. txn = NoTxn /\ txn' = txn
    BY <1>1 DEF IInv, RecoveryOwns, RecoveryWorkerUnchanged
  <2> QED BY <2>1, <1>1, <1>2 DEF TxnOwns, IdleIsEmpty, NoTxn
<1> QED BY <1>6, <1>7, <1>8 DEF IInv

-----------------------------------------------------------------------------
(* Saves                                                                   *)

LEMMA IdleFacts ==
  ASSUME txn' = NoTxn, recovery' = NoRecovery
  PROVE  TxnOwns' /\ RecoveryOwns' /\ IdleIsEmpty'
BY DEF TxnOwns, RecoveryOwns, IdleIsEmpty, NoTxn, NoRecovery

LEMMA SaveSameAccountStep ==
  ASSUME IInv, NEW op \in {"create", "update", "delete"}, NEW a \in Account,
         NEW out1 \in Outcome, NEW out2 \in Outcome,
         SaveSameAccount(op, a, out1, out2)
  PROVE  IInv'
<1> USE StoreFacts, DiskType
<1> DEFINE n == budget.saves
           saved == Saved(Store, a, out1)
           staged == Persisted(saved, Staged(journal, a), out2)
           reached == out1 = "ok" /\ MayStage(journal)
           begun == reached /\ out2 = "ok"
<1>1. /\ app = "up" /\ txn = NoTxn /\ recovery = NoRecovery
      /\ UNCHANGED <<app, item, recovery, status, agent>>
  BY DEF SaveSameAccount, CanSave
<1>2. /\ budget' \in Budget /\ budget'.saves = n + 1 /\ n < MaxSaves
      /\ n \in Nat /\ n + 1 \in Nat /\ n <= n + 1
  BY BudgetFacts, CostFacts DEF SaveSameAccount, RestOK
<1>3. /\ GoodStore(saved, n) /\ Agree(saved)
      /\ saved.journal = journal /\ saved.journal \in Journal
  BY <1>1, SavedFacts DEF GoodStore, Stores
<1>4. GoodStore(saved, n + 1)
  BY <1>2, <1>3, FineGrows
<1>5. Fine(Staged(journal, a), n + 1)
  BY <1>2, StagedFine
<1>6. GoodStore(staged, n + 1) /\ Agree(staged)
  BY <1>2, <1>3, <1>4, <1>5, PersistedFacts
<1> HIDE DEF saved, staged, n
<1>7. /\ IF reached THEN Announce(staged, out2)
                    ELSE StoreBecomes(saved) /\ UNCHANGED <<delivery, wish>>
      /\ IF begun
           THEN /\ txn' = Running("write", op, a, NoAccount,
                                  journal.generation + 1)
                /\ editor' = Untouched
           ELSE txn' = NoTxn /\ editor' = [op |-> op, account |-> a]
  BY DEF SaveSameAccount, saved, staged
<1>8. \E s : /\ s \in {saved, staged} /\ StoreBecomes(s)
             /\ delivery' \in Request
             /\ wish' \in {"none", "deferred", "granting", "restarted",
                           "refused"}
  <2>1. CASE reached
    <3>1. staged.journal \in Journal
      BY <1>6 DEF GoodStore, Stores
    <3> QED BY <2>1, <3>1, <1>7, AnnounceFacts
  <2>2. CASE ~reached
    BY <2>2, <1>7 DEF RestOK
  <2> QED BY <2>1, <2>2
<1>9. journal.generation + 1 \in Generation /\ journal.generation + 1 > 0
  BY <1>2, NextGeneration DEF n
<1>10. /\ editor' \in Editor /\ txn' \in Transaction
       /\ \/ txn' = NoTxn
          \/ /\ txn'.step = "write" /\ txn'.account = a /\ txn'.op = op
             /\ txn'.result = "none"
             /\ txn'.generation = journal.generation + 1
  <2>1. CASE begun
    BY <2>1, <1>7, <1>9, RunningType, EmptyFacts
  <2>2. CASE ~begun
    BY <2>2, <1>7, EmptyFacts DEF Editor
  <2> QED BY <2>1, <2>2
<1>11. RestOK'
  BY <1>1, <1>2, <1>8, <1>10 DEF RestOK
<1>12. TypeOK' /\ MemoryIsFile' /\ JournalsWellFormed'
  BY <1>2, <1>3, <1>4, <1>6, <1>8, <1>11, StoreKept
<1>13. TxnOwns' /\ RecoveryOwns' /\ IdleIsEmpty'
  <2>1. recovery' = NoRecovery
    BY <1>1
  <2>2. CASE txn' = NoTxn
    BY <2>1, <2>2, IdleFacts
  <2>3. CASE /\ txn'.step = "write" /\ txn'.account = a /\ txn'.op = op
             /\ txn'.result = "none"
             /\ txn'.generation = journal.generation + 1
    <3>1. 0 < budget'.saves
      BY <1>2
    <3>2. TxnOwns'
      BY <2>1, <2>3, <3>1, <1>1, <1>9 DEF TxnOwns
    <3> QED BY <2>1, <2>3, <3>2 DEF RecoveryOwns, IdleIsEmpty, NoRecovery
  <2> QED BY <1>10, <2>2, <2>3
<1> QED BY <1>12, <1>13 DEF IInv

LEMMA SaveConfigurationStep ==
  ASSUME IInv, NEW a \in Account, NEW out \in Outcome,
         SaveConfiguration(a, out)
  PROVE  IInv'
<1> USE StoreFacts, DiskType
<1> DEFINE saved == Saved(Store, a, out)
<1>1. /\ app = "up" /\ txn = NoTxn /\ recovery = NoRecovery
      /\ UNCHANGED <<app, item, editor, txn, recovery, delivery, status,
                     wish, agent>>
      /\ StoreBecomes(saved)
  BY DEF SaveConfiguration, CanSave
<1>2. budget' \in Budget /\ budget'.saves = budget.saves
  BY BudgetFacts, CostFacts DEF SaveConfiguration, RestOK
<1>3. GoodStore(saved, budget.saves) /\ Agree(saved)
  BY <1>1, SavedFacts
<1>4. RestOK'
  BY <1>1, <1>2 DEF RestOK
<1>5. TypeOK' /\ MemoryIsFile' /\ JournalsWellFormed'
  BY <1>1, <1>2, <1>3, <1>4, StoreKept
<1> QED BY <1>1, <1>5, IdleFacts DEF IInv

LEMMA SaveMigrationStep ==
  ASSUME IInv, NEW a \in Account, NEW out \in Outcome, SaveMigration(a, out)
  PROVE  IInv'
<1> USE StoreFacts, DiskType
<1> DEFINE n == budget.saves
           old == disk.plist
           k == MigrationStaged(journal, old, a)
           p == Persisted(Store, k, out)
<1>1. /\ app = "up" /\ txn = NoTxn /\ recovery = NoRecovery
      /\ UNCHANGED <<app, item, recovery, status, agent>>
      /\ old \in Account /\ old # a
      /\ editor' \in Editor
  BY EmptyFacts DEF SaveMigration, CanSave, Disk
<1>2. /\ budget' \in Budget /\ budget'.saves = n + 1 /\ n < MaxSaves
      /\ n \in Nat /\ n + 1 \in Nat /\ n <= n + 1
  BY BudgetFacts, CostFacts DEF SaveMigration, RestOK
<1>3. Fine(k, n + 1) /\ k.migration # NoMigration
  BY <1>1, <1>2, MigrationStagedFine
<1>4. GoodStore(Store, n + 1)
  BY <1>2, FineGrows
<1>5. /\ GoodStore(p, n + 1) /\ Agree(p)
      /\ out = "ok" => p.journal = k
  BY <1>1, <1>2, <1>3, <1>4, PersistedFacts
<1>6. p.journal \in Journal
  BY <1>5 DEF GoodStore, Stores
<1>7. Announce(p, out)
  BY DEF SaveMigration
<1> HIDE DEF p, k, n, old
<1>8. /\ StoreBecomes(p) /\ journal' = p.journal
      /\ delivery' \in Request
      /\ wish' \in {"none", "deferred", "granting", "restarted", "refused"}
  BY <1>6, <1>7, AnnounceFacts
<1>9. journal.generation + 1 \in Generation /\ journal.generation + 1 > 0
  BY <1>2, NextGeneration DEF n
<1>10. /\ txn' \in Transaction
       /\ \/ txn' = NoTxn
          \/ /\ txn'.step = "create" /\ txn'.account = a
             /\ txn'.result = "none"
             /\ txn'.op = "create" /\ txn'.old = old
             /\ txn'.generation = journal.generation + 1
             /\ out = "ok"
  <2>1. CASE out = "ok"
    <3>1. txn' = Running("create", "create", a, old, journal.generation + 1)
      BY <2>1 DEF SaveMigration, old
    <3> QED BY <2>1, <3>1, <1>1, <1>9, RunningType
  <2>2. CASE out # "ok"
    BY <2>2, EmptyFacts DEF SaveMigration
  <2> QED BY <2>1, <2>2
<1>11. RestOK'
  BY <1>1, <1>2, <1>8, <1>10 DEF RestOK
<1>12. TypeOK' /\ MemoryIsFile' /\ JournalsWellFormed'
  BY <1>2, <1>5, <1>8, <1>11, StoreKept
<1>13. TxnOwns' /\ RecoveryOwns' /\ IdleIsEmpty'
  <2>1. recovery' = NoRecovery
    BY <1>1
  <2>2. CASE txn' = NoTxn
    BY <2>1, <2>2, IdleFacts
  <2>3. CASE /\ txn'.step = "create" /\ txn'.account = a
             /\ txn'.result = "none"
             /\ txn'.op = "create" /\ txn'.old = old
             /\ txn'.generation = journal.generation + 1
             /\ out = "ok"
    <3>1. 0 < budget'.saves
      BY <1>2
    <3>2. journal'.migration # NoMigration
      BY <2>3, <1>3, <1>5, <1>8
    <3>3. TxnOwns'
      BY <2>1, <2>3, <3>1, <3>2, <1>1, <1>9 DEF TxnOwns
    <3> QED BY <2>1, <2>3, <3>3 DEF RecoveryOwns, IdleIsEmpty, NoRecovery
  <2> QED BY <1>10, <2>2, <2>3
<1> QED BY <1>12, <1>13 DEF IInv

-----------------------------------------------------------------------------
(* The main thread goes on                                                 *)

LEMMA Announced ==
  ASSUME IInv, NEW s, GoodStore(s, budget.saves), app = "up" => Agree(s),
         NEW out, Announce(s, out),
         UNCHANGED <<app, item, status, agent>>,
         editor' \in Editor, txn' \in Transaction, recovery' \in Recovery,
         budget' \in Budget, budget'.saves = budget.saves
  PROVE  /\ TypeOK' /\ MemoryIsFile' /\ JournalsWellFormed'
         /\ journal' = s.journal /\ disk' = s.disk
<1> USE StoreFacts
<1>1. s.journal \in Journal
  BY DEF GoodStore, Stores
<1>2. /\ StoreBecomes(s) /\ journal' = s.journal /\ disk' = s.disk
      /\ delivery' \in Request
      /\ wish' \in {"none", "deferred", "granting", "restarted", "refused"}
  BY <1>1, AnnounceFacts
<1>3. RestOK'
  BY <1>2 DEF RestOK
<1> QED BY <1>2, <1>3, StoreKept

(* What a durable or failed write of an operation leaves.                  *)
LEMMA Written ==
  ASSUME IInv, app = "up", NEW j, Fine(j, budget.saves), NEW out \in Outcome
  PROVE  LET p == Persisted(Store, j, out)
         IN  /\ GoodStore(p, budget.saves) /\ Agree(p)
             /\ p.disk.plist = disk.plist
             /\ p.disk.plists \subseteq disk.plists
             /\ out = "ok" => p.journal = j /\ p.disk.plists = {}
             /\ p.journal \in {journal, j}
BY StoreFacts, PersistedFacts

LEMMA FinishWriteStep ==
  ASSUME IInv, NEW out \in Outcome, FinishWrite(out)
  PROVE  IInv'
<1> USE StoreFacts, DiskType
<1> DEFINE notice == IF txn.op = "delete" THEN "removed" ELSE "changed"
           mine == journal.staged.generation = txn.generation
           p == Persisted(Store, RolledBack(journal), out)
           q == Persisted(Store, Committed(journal, notice), out)
<1>1. /\ app = "up" /\ txn.step = "write" /\ recovery = NoRecovery
      /\ txn.account \in Account /\ txn.generation > 0 /\ txn.op # "none"
      /\ txn' = NoTxn /\ UNCHANGED <<app, item, recovery, status, agent>>
  BY DEF FinishWrite, IInv, TxnOwns
<1>2. budget' \in Budget /\ budget'.saves = budget.saves
  BY BudgetFacts, CostFacts DEF FinishWrite, RestOK
<1>3. /\ editor' \in Editor /\ txn' \in Transaction
      /\ recovery' \in Recovery
  <2>1. editor' \in {Untouched, [op |-> txn.op, account |-> txn.account]}
    BY DEF FinishWrite
  <2> QED BY <2>1, <1>1, EmptyFacts DEF Editor, RestOK, Transaction
<1>4. GoodStore(p, budget.saves) /\ Agree(p)
  BY <1>1, RolledBackFine, Written
<1>5. mine => GoodStore(q, budget.saves) /\ Agree(q)
  <2>1. mine => journal.staged # NoNotice
    BY <1>1 DEF NoNotice
  <2> QED BY <1>1, <2>1, CommittedFine, Written
<1> HIDE DEF p, q
<1>6. \/ Announce(p, out)
      \/ mine /\ Announce(q, out)
      \/ Announce(Store, "ok")
      \/ StoreBecomes(Store) /\ UNCHANGED <<delivery, wish>>
  <2> DEFINE landed == txn.result = "ok"
  <2>1. CASE mine /\ ~landed
    BY <2>1 DEF FinishWrite, p
  <2>2. CASE mine /\ landed
    BY <2>2 DEF FinishWrite, q
  <2>3. CASE ~mine /\ ~landed
    BY <2>3 DEF FinishWrite
  <2>4. CASE ~mine /\ landed
    BY <2>4 DEF FinishWrite
  <2> QED BY <2>1, <2>2, <2>3, <2>4
<1>7. TypeOK' /\ MemoryIsFile' /\ JournalsWellFormed'
  <2>1. CASE Announce(p, out)
    BY <2>1, <1>1, <1>2, <1>3, <1>4, Announced
  <2>2. CASE mine /\ Announce(q, out)
    BY <2>2, <1>1, <1>2, <1>3, <1>5, Announced
  <2>3. CASE Announce(Store, "ok")
    BY <2>3, <1>1, <1>2, <1>3, Announced
  <2>4. CASE StoreBecomes(Store) /\ UNCHANGED <<delivery, wish>>
    <3>1. RestOK'
      BY <2>4, <1>1, <1>2, <1>3 DEF RestOK
    <3> QED BY <2>4, <3>1, <1>1, <1>2, StoreKept
  <2> QED BY <1>6, <2>1, <2>2, <2>3, <2>4
<1> QED BY <1>1, <1>7, IdleFacts DEF IInv

(* What a save owns while it goes on with the item of its migration.       *)
LEMMA GoesType ==
  ASSUME txn \in Transaction, NEW step \in {"inspect", "removeNew",
                                            "removeOld"}
  PROVE  LET t == Goes(step)
         IN  /\ t \in Transaction /\ t.step = step /\ t.result = "none"
             /\ t.op = txn.op /\ t.old = txn.old /\ t.account = txn.account
             /\ t.generation = txn.generation
BY DEF Goes, Transaction

LEMMA SaveGoesOn ==
  ASSUME IInv, txn.step \in {"create", "inspect"},
         NEW step \in {"inspect", "removeNew", "removeOld"},
         txn' = Goes(step), UNCHANGED <<app, recovery>>,
         budget'.saves = budget.saves, journal'.migration # NoMigration,
         step = "removeOld" =>
           disk'.plist = txn.account /\ disk'.plists = {},
         step = "removeNew" =>
           disk'.plist # txn.account /\ disk'.plists = {}
  PROVE  TxnOwns' /\ RecoveryOwns' /\ IdleIsEmpty'
<1>1. txn \in Transaction
  BY StoreFacts DEF RestOK
<1>2. /\ txn'.step = step /\ txn'.result = "none" /\ txn'.op = txn.op
      /\ txn'.old = txn.old /\ txn'.account = txn.account
      /\ txn'.generation = txn.generation
  BY <1>1, GoesType
<1>3. TxnOwns'
  BY <1>2 DEF IInv, TxnOwns
<1>4. recovery' = NoRecovery
  BY DEF IInv, TxnOwns
<1> QED BY <1>2, <1>3, <1>4 DEF RecoveryOwns, IdleIsEmpty, NoRecovery

(* commitConfiguration                                                     *)
LEMMA ConfigurationCommittedStep ==
  ASSUME IInv, txn.step \in {"create", "inspect"}, NEW s,
         GoodStore(s, budget.saves), Agree(s),
         s.journal.migration # NoMigration, s.disk.plist = txn.account,
         NEW out1 \in Outcome, NEW out2 \in Outcome,
         ConfigurationCommitted(s, out1, out2),
         UNCHANGED <<app, item, editor, recovery, status, agent>>,
         budget' \in Budget, budget'.saves = budget.saves
  PROVE  IInv'
<1> USE StoreFacts, DiskType
<1> DEFINE n == budget.saves
           j == InPhase(s.journal, "configurationSaved")
           m == Persisted(s, j, out1)
           k == MigrationCommitted(m.journal)
           c == Persisted(m, k, out2)
<1>1. Fine(s.journal, n) /\ n \in Nat
  BY DEF GoodStore
<1>2. Fine(j, n) /\ j.migration # NoMigration
  BY <1>1, InPhaseFine
<1>3. /\ GoodStore(m, n) /\ Agree(m)
      /\ m.disk.plist = txn.account
      /\ m.journal.migration # NoMigration
  BY <1>1, <1>2, PersistedFacts
<1>4. Fine(k, n) /\ k.migration # NoMigration
  BY <1>1, <1>3, MigrationCommittedFine DEF GoodStore
<1>5. /\ GoodStore(c, n) /\ Agree(c)
      /\ c.disk.plist = txn.account
      /\ out2 = "ok" => c.disk.plists = {}
      /\ c.journal.migration # NoMigration
  BY <1>1, <1>3, <1>4, PersistedFacts
<1> HIDE DEF j, k
<1>6. \/ Announce(c, out2) /\ txn' = NoTxn
      \/ Announce(c, out2) /\ out2 = "ok" /\ txn' = Goes("removeOld")
      \/ Announce(m, out1) /\ txn' = NoTxn
  BY DEF ConfigurationCommitted, j, k
<1> HIDE DEF m, c
<1>7. txn' \in Transaction /\ editor' \in Editor /\ recovery' \in Recovery
  BY <1>6, EmptyFacts, GoesType DEF RestOK
<1>8. recovery = NoRecovery /\ recovery' = NoRecovery
  BY DEF IInv, TxnOwns
<1>9. CASE Announce(c, out2) /\ txn' = NoTxn
  BY <1>9, <1>5, <1>7, <1>8, Announced, IdleFacts DEF IInv
<1>10. CASE Announce(m, out1) /\ txn' = NoTxn
  BY <1>10, <1>3, <1>7, <1>8, Announced, IdleFacts DEF IInv
<1>11. CASE Announce(c, out2) /\ out2 = "ok" /\ txn' = Goes("removeOld")
  <2>1. /\ TypeOK' /\ MemoryIsFile' /\ JournalsWellFormed'
        /\ journal' = c.journal /\ disk' = c.disk
    BY <1>11, <1>5, <1>7, Announced
  <2>2. TxnOwns' /\ RecoveryOwns' /\ IdleIsEmpty'
    BY <1>5, <1>11, <2>1, SaveGoesOn
  <2> QED BY <2>1, <2>2 DEF IInv
<1> QED BY <1>6, <1>9, <1>10, <1>11

(* The end of a migration, after which the save is over.                   *)
LEMMA EndedStep ==
  ASSUME IInv, app = "up", NEW s, GoodStore(s, budget.saves), Agree(s),
         NEW out, Announce(s, out), txn' = NoTxn, recovery' = NoRecovery,
         UNCHANGED <<app, item, editor, status, agent>>,
         budget' \in Budget, budget'.saves = budget.saves
  PROVE  IInv'
<1>1. TypeOK' /\ MemoryIsFile' /\ JournalsWellFormed'
  <2>1. txn' \in Transaction /\ recovery' \in Recovery /\ editor' \in Editor
    BY EmptyFacts, StoreFacts DEF RestOK
  <2> QED BY <2>1, Announced
<1> QED BY <1>1, IdleFacts DEF IInv

LEMMA MigrationEnded ==
  ASSUME IInv, app = "up", NEW out \in Outcome, MigrationEnds(out),
         txn' = NoTxn, recovery' = NoRecovery,
         UNCHANGED <<app, item, editor, status, agent>>,
         budget' \in Budget, budget'.saves = budget.saves
  PROVE  IInv'
<1>1. Fine(WithoutMigration(journal), budget.saves)
  BY StoreFacts, WithoutMigrationFine
<1>2. /\ GoodStore(Persisted(Store, WithoutMigration(journal), out),
                   budget.saves)
      /\ Agree(Persisted(Store, WithoutMigration(journal), out))
  BY <1>1, Written
<1>3. Announce(Persisted(Store, WithoutMigration(journal), out), out)
  BY DEF MigrationEnds
<1> QED BY <1>2, <1>3, EndedStep

LEMMA StoreEnded ==
  ASSUME IInv, app = "up", Announce(Store, "ok"), txn' = NoTxn,
         recovery' = NoRecovery,
         UNCHANGED <<app, item, editor, status, agent>>,
         budget' \in Budget, budget'.saves = budget.saves
  PROVE  IInv'
BY StoreFacts, EndedStep

LEMMA FinishCreateStep ==
  ASSUME IInv, NEW out1 \in Outcome, NEW out2 \in Outcome,
         NEW out3 \in Outcome, NEW out4 \in Outcome,
         FinishCreate(out1, out2, out3, out4)
  PROVE  IInv'
<1> USE StoreFacts, DiskType
<1> DEFINE n == budget.saves
           j == InPhase(journal, "newCredentialReady")
           ready == Persisted(Store, j, out1)
           saved == Saved(ready, txn.account, out2)
<1>1. /\ app = "up" /\ txn.step = "create" /\ recovery = NoRecovery
      /\ txn.account \in Account /\ journal.migration # NoMigration
      /\ UNCHANGED <<app, item, editor, recovery, status, agent>>
  BY DEF FinishCreate, IInv, TxnOwns
<1>2. budget' \in Budget /\ budget'.saves = n
  BY BudgetFacts, CostFacts DEF FinishCreate, RestOK
<1>3. Fine(j, n) /\ j.migration # NoMigration
  BY <1>1, InPhaseFine
<1>4. /\ GoodStore(ready, n) /\ Agree(ready)
      /\ ready.journal.migration # NoMigration
  BY <1>1, <1>3, Written
<1>5. /\ GoodStore(saved, n) /\ Agree(saved)
      /\ saved.journal.migration # NoMigration
      /\ out2 = "ok" => saved.disk.plist = txn.account
  BY <1>1, <1>4, SavedFacts
<1>6. txn.result \in {"ok", "failed"} \/ txn.result \notin {"ok", "failed"}
  OBVIOUS
<1> HIDE DEF j, n
<1>7. CASE txn.result = "failed"
  <2>1. MigrationEnds(out1) /\ txn' = NoTxn
    BY <1>7 DEF FinishCreate
  <2> QED BY <2>1, <1>1, <1>2, MigrationEnded DEF n
<1>8. CASE txn.result = "ok" /\ out1 # "ok"
  <2>1. Announce(ready, out1) /\ txn' = NoTxn
    BY <1>8 DEF FinishCreate, j
  <2> HIDE DEF ready
  <2> QED BY <2>1, <1>1, <1>2, <1>4, EndedStep DEF n
<1>9. CASE txn.result = "ok" /\ out1 = "ok" /\ out2 # "ok"
  <2>1. Announce(saved, "ok") /\ txn' = Goes("inspect")
    BY <1>9 DEF FinishCreate, j
  <2> HIDE DEF ready, saved
  <2>2. txn' \in Transaction /\ editor' \in Editor /\ recovery' \in Recovery
    BY <2>1, <1>1, GoesType DEF RestOK
  <2>3. /\ TypeOK' /\ MemoryIsFile' /\ JournalsWellFormed'
        /\ journal' = saved.journal
    BY <2>1, <2>2, <1>1, <1>2, <1>5, Announced DEF n
  <2>4. TxnOwns' /\ RecoveryOwns' /\ IdleIsEmpty'
    BY <2>1, <2>3, <1>1, <1>2, <1>5, SaveGoesOn DEF n
  <2> QED BY <2>3, <2>4 DEF IInv
<1>10. CASE /\ txn.result # "failed"
            /\ ~(txn.result = "ok" /\ out1 # "ok")
            /\ ~(txn.result = "ok" /\ out1 = "ok" /\ out2 # "ok")
  <2>1. ConfigurationCommitted(saved, out3, out4)
    BY <1>10 DEF FinishCreate, j
  <2>2. saved.disk.plist = txn.account
    <3>1. txn.result = "ok"
      BY <1>10 DEF IInv, TxnOwns, FinishCreate
    <3> QED BY <3>1, <1>5, <1>10
  <2> HIDE DEF ready, saved
  <2> QED
    BY <2>1, <2>2, <1>1, <1>2, <1>5, ConfigurationCommittedStep DEF n
<1> QED BY <1>7, <1>8, <1>9, <1>10

LEMMA FinishInspectStep ==
  ASSUME IInv, NEW out1 \in Outcome, NEW out2 \in Outcome,
         FinishInspect(out1, out2)
  PROVE  IInv'
<1> USE StoreFacts, DiskType
<1> DEFINE j == InPhase(journal, "cleanupNew")
           p == Persisted(Store, j, out1)
<1>1. /\ app = "up" /\ txn.step = "inspect" /\ recovery = NoRecovery
      /\ txn.account \in Account /\ journal.migration # NoMigration
      /\ UNCHANGED <<app, item, editor, recovery, status, agent>>
      /\ txn.result = "newAndSaved" => disk.plist = txn.account
      /\ txn.result = "newOnly" => disk.plist # txn.account
      /\ txn.result \in {"failed", "newAndSaved", "newOnly", "savedOnly",
                         "neither"}
  BY DEF FinishInspect, IInv, TxnOwns, RestOK, Transaction
<1>2. budget' \in Budget /\ budget'.saves = budget.saves
  BY BudgetFacts, CostFacts DEF FinishInspect, RestOK
<1>3. CASE txn.result \in {"failed", "savedOnly"}
  <2>1. Announce(Store, "ok") /\ txn' = NoTxn
    BY <1>3 DEF FinishInspect
  <2> QED BY <2>1, <1>1, <1>2, StoreEnded
<1>4. CASE txn.result = "neither"
  <2>1. MigrationEnds(out1) /\ txn' = NoTxn
    BY <1>4 DEF FinishInspect
  <2> QED BY <2>1, <1>1, <1>2, MigrationEnded
<1>5. CASE txn.result = "newOnly"
  <2>1. Fine(j, budget.saves) /\ j.migration # NoMigration
    BY <1>1, InPhaseFine
  <2>2. /\ GoodStore(p, budget.saves) /\ Agree(p)
        /\ p.disk.plist = disk.plist
        /\ out1 = "ok" => p.disk.plists = {}
        /\ p.journal.migration # NoMigration
    BY <1>1, <2>1, Written
  <2>3. /\ Announce(p, out1)
        /\ txn' = IF out1 = "ok" THEN Goes("removeNew") ELSE NoTxn
    BY <1>5 DEF FinishInspect
  <2> HIDE DEF p
  <2>4. CASE out1 # "ok"
    BY <2>2, <2>3, <2>4, <1>1, <1>2, EndedStep
  <2>5. CASE out1 = "ok"
    <3>1. /\ txn' \in Transaction /\ editor' \in Editor
          /\ recovery' \in Recovery
      BY <2>3, <2>5, <1>1, GoesType DEF RestOK
    <3>2. /\ TypeOK' /\ MemoryIsFile' /\ JournalsWellFormed'
          /\ journal' = p.journal /\ disk' = p.disk
      BY <2>2, <2>3, <3>1, <1>1, <1>2, Announced
    <3>3. TxnOwns' /\ RecoveryOwns' /\ IdleIsEmpty'
      BY <2>2, <2>3, <2>5, <3>2, <1>1, <1>2, <1>5, SaveGoesOn
    <3> QED BY <3>2, <3>3 DEF IInv
  <2> QED BY <2>4, <2>5
<1>6. CASE txn.result = "newAndSaved"
  <2>1. ConfigurationCommitted(Store, out1, out2)
    BY <1>6 DEF FinishInspect
  <2> QED BY <2>1, <1>1, <1>2, <1>6, ConfigurationCommittedStep
<1> QED BY <1>1, <1>3, <1>4, <1>5, <1>6

LEMMA FinishRemovalStep ==
  ASSUME IInv, NEW out \in Outcome, FinishRemoval(out)
  PROVE  IInv'
<1>1. /\ app = "up" /\ recovery' = NoRecovery /\ txn' = NoTxn
      /\ UNCHANGED <<app, item, editor, status, agent>>
  BY DEF FinishRemoval, IInv, TxnOwns
<1>2. budget' \in Budget /\ budget'.saves = budget.saves
  BY BudgetFacts, CostFacts, StoreFacts DEF FinishRemoval, RestOK
<1>3. MigrationEnds(out) \/ Announce(Store, "ok")
  BY DEF FinishRemoval
<1> QED BY <1>1, <1>2, <1>3, MigrationEnded, StoreEnded

-----------------------------------------------------------------------------
(* Recovery                                                                *)

LEMMA RecoveryGoesType ==
  ASSUME recovery \in Recovery,
         NEW step \in {"validate", "reread", "removeNew", "removeOld"}
  PROVE  LET r == RecoveryGoes(step)
         IN  /\ r \in Recovery /\ r.step = step
             /\ r.record = recovery.record
BY DEF RecoveryGoes, Recovery

(* The next step of a recovery, or its end.                                *)
LEMMA RecoveryGoesOn ==
  ASSUME IInv, recovery.step # "idle", NEW s, GoodStore(s, budget.saves),
         Agree(s), NEW out, Announce(s, out), RecoveryMainUnchanged,
         budget' \in Budget, budget'.saves = budget.saves,
         \/ recovery' = NoRecovery
         \/ /\ s.journal.migration # NoMigration
            /\ \/ recovery' = RecoveryGoes("validate")
               \/ recovery' = RecoveryGoes("reread")
               \/ recovery' = RecoveryGoes("removeNew") /\ s.disk.plists = {}
               \/ recovery' = RecoveryGoes("removeOld") /\ s.disk.plists = {}
  PROVE  IInv'
<1> USE StoreFacts
<1>1. app = "up" /\ txn = NoTxn /\ txn' = NoTxn
      /\ UNCHANGED <<app, item, editor, status, agent>>
  BY DEF IInv, RecoveryOwns, RecoveryMainUnchanged
<1>2. CASE recovery' = NoRecovery
  BY <1>1, <1>2, EndedStep
<1>3. ASSUME NEW step \in {"validate", "reread", "removeNew", "removeOld"},
             recovery' = RecoveryGoes(step),
             s.journal.migration # NoMigration,
             step \in {"removeNew", "removeOld"} => s.disk.plists = {}
      PROVE  IInv'
  <2>1. recovery' \in Recovery /\ recovery'.step = step
        /\ recovery'.record = recovery.record
    BY <1>3, RecoveryGoesType DEF RestOK
  <2>2. txn' \in Transaction /\ editor' \in Editor
    BY <1>1 DEF RestOK
  <2>3. /\ TypeOK' /\ MemoryIsFile' /\ JournalsWellFormed'
        /\ journal' = s.journal /\ disk' = s.disk
    BY <1>1, <2>1, <2>2, Announced
  <2>4. RecoveryOwns'
    BY <1>1, <1>3, <2>1, <2>3 DEF IInv, RecoveryOwns
  <2>5. TxnOwns' /\ IdleIsEmpty'
    BY <1>1, <1>3, <2>1 DEF TxnOwns, IdleIsEmpty, NoTxn
  <2> QED BY <2>3, <2>4, <2>5 DEF IInv
<1> QED BY <1>2, <1>3

LEMMA UseNewStep ==
  ASSUME IInv, recovery.step # "idle", NEW validated,
         NEW out1 \in Outcome, NEW out2 \in Outcome, NEW out3 \in Outcome,
         UseNew(validated, out1, out2, out3), RecoveryMainUnchanged,
         budget' \in Budget, budget'.saves = budget.saves
  PROVE  IInv'
<1> USE StoreFacts
<1> DEFINE n == budget.saves
           r == recovery.record
           needs == NeedsNotice(r)
           j == InPhase(journal, "configurationSaved")
           marked == Persisted(Store, j, out1)
           k == MigrationCommitted(marked.journal)
           committed == Persisted(marked, k, out2)
           s == IF needs THEN committed ELSE Store
           last == IF recovery.oldExists THEN InPhase(s.journal, "cleanupOld")
                                         ELSE WithoutMigration(s.journal)
           final == Persisted(s, last, out3)
<1>1. app = "up" /\ journal.migration # NoMigration /\ n \in Nat
  BY DEF IInv, RecoveryOwns
<1>2. Fine(j, n) /\ j.migration # NoMigration
  BY <1>1, InPhaseFine
<1>3. /\ GoodStore(marked, n) /\ Agree(marked)
      /\ marked.journal.migration # NoMigration
  BY <1>1, <1>2, Written
<1>4. Fine(k, n) /\ k.migration # NoMigration
  BY <1>1, <1>3, MigrationCommittedFine DEF GoodStore
<1>5. /\ GoodStore(committed, n) /\ Agree(committed)
      /\ committed.journal.migration # NoMigration
  <2>1. /\ GoodStore(committed, n) /\ Agree(committed)
        /\ committed.journal \in {marked.journal, k}
    BY <1>1, <1>3, <1>4, PersistedFacts
  <2> QED BY <2>1, <1>3, <1>4
<1> HIDE DEF j, k, marked, committed
<1>6. /\ GoodStore(s, n) /\ Agree(s)
      /\ s.journal.migration # NoMigration /\ Fine(s.journal, n)
  BY <1>1, <1>5 DEF GoodStore
<1> HIDE DEF s
<1>7. Fine(last, n) /\ (recovery.oldExists => last.migration # NoMigration)
  BY <1>1, <1>6, InPhaseFine, WithoutMigrationFine
<1> HIDE DEF last
<1>8. /\ GoodStore(final, n) /\ Agree(final)
      /\ recovery.oldExists => final.journal.migration # NoMigration
      /\ out3 = "ok" => final.disk.plists = {}
  <2>1. /\ GoodStore(final, n) /\ Agree(final)
        /\ out3 = "ok" => final.disk.plists = {}
        /\ final.journal \in {s.journal, last}
    BY <1>1, <1>6, <1>7, PersistedFacts
  <2> QED BY <2>1, <1>6, <1>7
<1> HIDE DEF final
<1>9. \/ Announce(Store, "ok") /\ recovery' = RecoveryGoes("validate")
      \/ Announce(Store, "ok") /\ recovery' = NoRecovery
      \/ Announce(marked, out1) /\ recovery' = NoRecovery
      \/ Announce(committed, out2) /\ recovery' = NoRecovery
      \/ \E o : Announce(final, o) /\ recovery' = NoRecovery
      \/ \E o : /\ Announce(final, o)
                /\ recovery' = RecoveryGoes("removeOld")
                /\ recovery.oldExists /\ out3 = "ok"
  <2> DEFINE foreign ==
               /\ ~needs /\ journal.pending.account # r.new
               /\ ~(r.phase = "cleanupOld" /\ journal.pending = NoNotice)
  <2>1. CASE needs /\ ~validated
    BY <2>1 DEF UseNew
  <2>2. CASE foreign
    BY <2>2 DEF UseNew
  <2>3. CASE needs /\ validated /\ out1 # "ok"
    BY <2>3 DEF UseNew, marked, j
  <2>4. CASE needs /\ validated /\ out1 = "ok" /\ out2 # "ok"
    BY <2>4 DEF UseNew, committed, marked, j, k
  <2>5. CASE /\ ~(needs /\ ~validated) /\ ~foreign
             /\ ~(needs /\ validated /\ out1 # "ok")
             /\ ~(needs /\ validated /\ out1 = "ok" /\ out2 # "ok")
    <3>1. /\ Announce(final, IF needs THEN "ok" ELSE out3)
          /\ recovery' = IF recovery.oldExists /\ out3 = "ok"
                           THEN RecoveryGoes("removeOld") ELSE NoRecovery
      BY <2>5 DEF UseNew, final, last, s, committed, marked, j, k
    <3> QED BY <3>1
  <2> QED BY <2>1, <2>2, <2>3, <2>4, <2>5
<1>10. CASE Announce(Store, "ok") /\ recovery' = RecoveryGoes("validate")
  BY <1>1, <1>10, RecoveryGoesOn
<1>11. CASE Announce(Store, "ok") /\ recovery' = NoRecovery
  BY <1>1, <1>11, RecoveryGoesOn
<1>12. CASE Announce(marked, out1) /\ recovery' = NoRecovery
  BY <1>3, <1>12, RecoveryGoesOn
<1>13. CASE Announce(committed, out2) /\ recovery' = NoRecovery
  BY <1>5, <1>13, RecoveryGoesOn
<1>14. CASE \E o : Announce(final, o) /\ recovery' = NoRecovery
  BY <1>8, <1>14, RecoveryGoesOn
<1>15. CASE \E o : /\ Announce(final, o)
                   /\ recovery' = RecoveryGoes("removeOld")
                   /\ recovery.oldExists /\ out3 = "ok"
  BY <1>8, <1>15, RecoveryGoesOn
<1> QED BY <1>9, <1>10, <1>11, <1>12, <1>13, <1>14, <1>15

LEMMA DecideStep ==
  ASSUME IInv, NEW out1 \in Outcome, NEW out2 \in Outcome,
         NEW out3 \in Outcome, Decide(out1, out2, out3)
  PROVE  IInv'
<1> USE StoreFacts
<1> DEFINE n == budget.saves
           r == recovery.record
           p == Persisted(Store, WithoutMigration(journal), out1)
           j == InPhase(journal, "cleanupNew")
           q == Persisted(Store, j, out1)
<1>1. /\ app = "up" /\ journal.migration # NoMigration
      /\ recovery.step # "idle" /\ RecoveryMainUnchanged
  BY DEF Decide, IInv, RecoveryOwns
<1>2. budget' \in Budget /\ budget'.saves = n
  BY BudgetFacts, CostFacts DEF Decide, RestOK
<1>3. GoodStore(p, n) /\ Agree(p)
  BY <1>1, WithoutMigrationFine, Written
<1>4. Fine(j, n) /\ j.migration # NoMigration
  BY <1>1, InPhaseFine
<1>5. /\ GoodStore(q, n) /\ Agree(q) /\ q.journal.migration # NoMigration
      /\ out1 = "ok" => q.disk.plists = {}
  BY <1>1, <1>4, Written
<1> HIDE DEF p, q
<1>6. \/ Announce(Store, "ok") /\ recovery' = NoRecovery
      \/ Announce(p, out1) /\ recovery' = NoRecovery
      \/ Announce(q, out1) /\ recovery' = NoRecovery
      \/ /\ Announce(q, out1) /\ out1 = "ok"
         /\ recovery' = RecoveryGoes("removeNew")
      \/ UseNew(recovery.validated \/ recovery.step = "reread",
                out1, out2, out3)
  BY DEF Decide, MigrationEnds, p, q
<1>7. CASE Announce(Store, "ok") /\ recovery' = NoRecovery
  BY <1>1, <1>2, <1>7, RecoveryGoesOn
<1>8. CASE Announce(p, out1) /\ recovery' = NoRecovery
  BY <1>1, <1>2, <1>3, <1>8, RecoveryGoesOn
<1>9. CASE Announce(q, out1) /\ recovery' = NoRecovery
  BY <1>1, <1>2, <1>5, <1>9, RecoveryGoesOn
<1>10. CASE /\ Announce(q, out1) /\ out1 = "ok"
            /\ recovery' = RecoveryGoes("removeNew")
  BY <1>1, <1>2, <1>5, <1>10, RecoveryGoesOn
<1>11. CASE UseNew(recovery.validated \/ recovery.step = "reread",
                   out1, out2, out3)
  BY <1>1, <1>2, <1>11, UseNewStep
<1> QED BY <1>6, <1>7, <1>8, <1>9, <1>10, <1>11

LEMMA FinishValidationStep ==
  ASSUME IInv, NEW out1 \in Outcome, NEW out2 \in Outcome,
         NEW out3 \in Outcome, FinishValidation(out1, out2, out3)
  PROVE  IInv'
<1> USE StoreFacts
<1>1. /\ app = "up" /\ journal.migration # NoMigration
      /\ recovery.step # "idle" /\ RecoveryMainUnchanged
  BY DEF FinishValidation, IInv, RecoveryOwns
<1>2. budget' \in Budget /\ budget'.saves = budget.saves
  BY BudgetFacts, CostFacts DEF FinishValidation, RestOK
<1>3. CASE recovery.result = "ok"
  <2>1. UseNew(TRUE, out1, out2, out3)
    BY <1>3 DEF FinishValidation
  <2> QED BY <2>1, <1>1, <1>2, UseNewStep
<1>4. CASE recovery.result # "ok"
  <2>1. Announce(Store, "ok") /\ recovery' = RecoveryGoes("reread")
    BY <1>4 DEF FinishValidation
  <2> QED BY <2>1, <1>1, <1>2, RecoveryGoesOn
<1> QED BY <1>3, <1>4

LEMMA FinishCleanupStep ==
  ASSUME IInv, NEW out \in Outcome, FinishCleanup(out)
  PROVE  IInv'
<1>1. /\ app = "up" /\ txn' = NoTxn /\ recovery' = NoRecovery
      /\ UNCHANGED <<app, item, editor, status, agent>>
  BY DEF FinishCleanup, IInv, RecoveryOwns, RecoveryMainUnchanged
<1>2. budget' \in Budget /\ budget'.saves = budget.saves
  BY BudgetFacts, CostFacts, StoreFacts DEF FinishCleanup, RestOK
<1>3. MigrationEnds(out) \/ Announce(Store, "ok")
  BY DEF FinishCleanup
<1> QED BY <1>1, <1>2, <1>3, MigrationEnded, StoreEnded

-----------------------------------------------------------------------------
(* Acknowledgement, crashes and launches                                   *)

LEMMA FinishDeliveryStep ==
  ASSUME IInv, NEW out \in Outcome, FinishDelivery(out)
  PROVE  IInv'
<1> USE StoreFacts, DiskType
<1> DEFINE p == Persisted(Store, Acknowledged(journal), out)
<1>1. UNCHANGED <<app, item, editor, txn, recovery, agent>>
  BY DEF FinishDelivery
<1>2. budget' \in Budget /\ budget'.saves = budget.saves
  BY BudgetFacts, CostFacts DEF FinishDelivery, RestOK
<1>3. /\ Fine(Acknowledged(journal), budget.saves)
      /\ Acknowledged(journal).migration = journal.migration
  BY AcknowledgedFine DEF Acknowledged, Promoted, Committed, Journal
<1>4. /\ GoodStore(p, budget.saves) /\ (app = "up" => Agree(p))
      /\ p.disk.plist = disk.plist /\ p.disk.plists \subseteq disk.plists
      /\ p.journal.migration = journal.migration
  BY <1>3, PersistedFacts
<1> HIDE DEF p
<1>5. \E s \in {p, Store} :
        /\ StoreBecomes(s) /\ delivery' = AfterDelivery(s, out)
  BY DEF FinishDelivery, p
<1>6. PICK s \in {p, Store} :
        /\ StoreBecomes(s) /\ delivery' = AfterDelivery(s, out)
  BY <1>5
<1>7. /\ GoodStore(s, budget.saves) /\ (app = "up" => Agree(s))
      /\ s.disk.plist = disk.plist /\ s.disk.plists \subseteq disk.plists
      /\ s.journal.migration = journal.migration
      /\ s.journal \in Journal
  BY <1>4, <1>6 DEF GoodStore, Stores
<1>8. delivery' \in Request
  BY <1>6, <1>7, AttemptType, EmptyFacts DEF AfterDelivery
<1>9. /\ status' \in Account \cup {NoAccount}
      /\ wish' \in {"none", "deferred", "granting", "restarted", "refused"}
  <2>1. delivery.record.account \in Account \cup {NoAccount}
    BY DEF RestOK, Request, Notice, NoNotice
  <2> QED BY <2>1 DEF FinishDelivery, Drained, RestOK
<1>10. RestOK'
  BY <1>1, <1>2, <1>8, <1>9 DEF RestOK
<1>11. TypeOK' /\ MemoryIsFile' /\ JournalsWellFormed'
  BY <1>1, <1>2, <1>6, <1>7, <1>10, StoreKept
<1>12. TxnOwns' /\ RecoveryOwns' /\ IdleIsEmpty'
  <2>1. journal' = s.journal /\ disk' = s.disk
    BY <1>6 DEF StoreBecomes
  <2> QED BY <2>1, <1>1, <1>2, <1>7, OwnersQuiet DEF IInv
<1> QED BY <1>11, <1>12 DEF IInv

LEMMA GoneFacts ==
  ASSUME IInv, Gone
  PROVE  /\ app' = "down" /\ journal' = EmptyJournal
         /\ editor' \in Editor /\ txn' \in Transaction
         /\ recovery' \in Recovery /\ delivery' \in Request
         /\ status' \in Account \cup {NoAccount} /\ wish' = "none"
         /\ MemoryIsFile' /\ TxnOwns' /\ RecoveryOwns' /\ IdleIsEmpty'
BY EmptyFacts, IdleFacts DEF Gone, MemoryIsFile

LEMMA CrashFacts ==
  ASSUME budget \in Budget, Crash
  PROVE  budget' \in Budget /\ budget'.saves = budget.saves
<1> DEFINE c == budget.crashes + 1
<1>1. c \in 0..MaxCrashes /\ budget' = [budget EXCEPT !.crashes = c]
  BY JournalConstants DEF JournalConstants, Crash, Budget
<1> HIDE DEF c
<1> QED BY <1>1 DEF Budget

LEMMA EmptyWellFormed ==
  ASSUME NEW n \in Nat
  PROVE  Fine(EmptyJournal, n)
BY EmptyFacts, JournalConstants DEF Fine, EmptyJournal, JournalConstants

(* The store after a crash: no memory, and one version of each file.       *)
LEMMA CrashedStore ==
  ASSUME IInv, Gone, RestOK', budget'.saves = budget.saves,
         NEW d \in Disk, disk' = d,
         {d.journal} \cup d.journals \subseteq
           {disk.journal} \cup disk.journals
  PROVE  IInv'
<1> DEFINE s == [journal |-> EmptyJournal, disk |-> d]
<1>1. s \in Stores /\ s.journal = EmptyJournal /\ s.disk = d
  BY EmptyFacts DEF Stores
<1>2. GoodStore(s, budget.saves)
  BY <1>1, StoreFacts, EmptyWellFormed DEF GoodStore
<1>3. StoreBecomes(s) /\ app' = "down"
  BY <1>1, GoneFacts DEF StoreBecomes
<1>4. TypeOK' /\ JournalsWellFormed'
  BY <1>2, <1>3, StoreKept
<1> QED BY <1>4, GoneFacts DEF IInv

LEMMA QuitStep ==
  ASSUME IInv, Quit
  PROVE  IInv'
<1> USE StoreFacts, DiskType
<1>1. budget' \in Budget /\ budget'.saves = budget.saves
  BY CrashFacts DEF Quit, RestOK
<1>2. RestOK'
  BY <1>1, GoneFacts DEF Quit, RestOK
<1> QED BY <1>1, <1>2, CrashedStore DEF Quit

LEMMA PowerLossStep ==
  ASSUME IInv, PowerLoss
  PROVE  IInv'
<1> USE StoreFacts, DiskType
<1>1. budget' \in Budget /\ budget'.saves = budget.saves
  BY CrashFacts DEF PowerLoss, RestOK
<1>2. PICK j \in {disk.journal} \cup disk.journals,
           p \in {disk.plist} \cup disk.plists :
        /\ disk' = [journal |-> j, plist |-> p, journals |-> {},
                    plists |-> {}]
        /\ agent' = [latest |-> p, active |-> NoAccount, holds |-> 0,
                     state |-> AgentState(p)]
  BY DEF PowerLoss
<1>3. j \in Journal /\ p \in Account
  BY <1>2 DEF Disk
<1>4. disk' \in Disk /\ disk'.journal = j /\ disk'.journals = {}
  BY <1>2, <1>3 DEF Disk
<1>5. agent' \in Agent
  BY <1>2, <1>3, JournalConstants DEF JournalConstants, Agent, AgentState
<1>6. RestOK'
  BY <1>1, <1>5, GoneFacts DEF PowerLoss, RestOK
<1> QED BY <1>1, <1>2, <1>4, <1>6, CrashedStore DEF PowerLoss

LEMMA OpenFacts ==
  ASSUME IInv, app # "up", NEW out \in Outcome, NEW readable \in BOOLEAN,
         Open(out, readable)
  PROVE  /\ app' \in {"up", "unavailable"}
         /\ budget' \in Budget /\ budget'.saves = budget.saves
         /\ \E s : /\ StoreBecomes(s) /\ GoodStore(s, budget.saves)
                   /\ app' = "up" => Agree(s)
         /\ Fine(journal', budget.saves)
         /\ app' = "unavailable" => journal' = EmptyJournal
<1> USE StoreFacts, DiskType
<1> DEFINE n == budget.saves
           e == [journal |-> EmptyJournal, disk |-> disk]
           o == Opened(disk.journal, out)
           p == Persisted(e, Promoted(disk.journal), out)
<1>1. budget' \in Budget /\ budget'.saves = n
  <2>1. Cost(out) + (IF readable THEN 0 ELSE 1) \in Nat
    BY DEF Cost
  <2> QED BY <2>1, BudgetFacts DEF Open, RestOK
<1>2. \A j : Fine(j, n) => j \in Journal
  BY DEF Fine
<1>3. \A j \in {disk.journal} \cup disk.journals : Fine(j, n)
  BY DEF GoodStore
<1>4. GoodStore(e, n) /\ Fine(EmptyJournal, n) /\ e.disk = disk
  <2>1. e \in Stores /\ e.journal = EmptyJournal /\ e.disk = disk
    BY EmptyFacts DEF Stores
  <2> QED BY <2>1, <1>3, EmptyWellFormed DEF GoodStore
<1>5. GoodStore(p, n) /\ (out = "ok" => Agree(p))
  <2>1. Fine(Promoted(disk.journal), n)
    BY <1>3, PromotedFine
  <2> QED BY <2>1, <1>4, PersistedFacts
<1>6. GoodStore(o, n) /\ (out = "ok" => Agree(o))
  <2>1. CASE Promoted(disk.journal) = disk.journal
    <3>1. o = [journal |-> disk.journal, disk |-> disk]
      BY <2>1 DEF Opened
    <3>2. o \in Stores /\ o.journal = disk.journal /\ o.disk = disk
      BY <3>1 DEF Stores
    <3> QED BY <3>2, <1>3 DEF GoodStore, Agree
  <2>2. CASE Promoted(disk.journal) # disk.journal
    BY <2>2, <1>5 DEF Opened
  <2> QED BY <2>1, <2>2
<1> HIDE DEF o, p
<1>7. /\ app' = IF readable /\ out = "ok" THEN "up" ELSE "unavailable"
      /\ journal' = IF readable /\ out = "ok" THEN o.journal
                                              ELSE EmptyJournal
      /\ disk' = IF readable THEN o.disk ELSE disk
  BY DEF Open, o
<1>8. CASE readable /\ out = "ok"
  <2>1. StoreBecomes(o) /\ app' = "up"
    BY <1>7, <1>8 DEF StoreBecomes
  <2>2. Fine(journal', n)
    BY <1>6, <1>7, <1>8 DEF GoodStore
  <2> QED BY <2>1, <2>2, <1>1, <1>6, <1>8
<1>9. CASE ~(readable /\ out = "ok")
  <2> DEFINE s == [journal |-> EmptyJournal,
                   disk |-> IF readable THEN o.disk ELSE disk]
  <2>1. /\ s.journal = EmptyJournal
        /\ s.disk = IF readable THEN o.disk ELSE disk
        /\ s \in Stores
    BY <1>6, EmptyFacts DEF GoodStore, Stores
  <2>2. GoodStore(s, n)
    BY <2>1, <1>3, <1>4, <1>6 DEF GoodStore
  <2>3. StoreBecomes(s) /\ app' = "unavailable"
    BY <2>1, <1>7, <1>9 DEF StoreBecomes
  <2> QED BY <2>2, <2>3, <1>1, <1>4, <1>7, <1>9
<1> QED BY <1>8, <1>9

LEMMA LaunchStep ==
  ASSUME IInv, NEW out \in Outcome, NEW readable \in BOOLEAN,
         Launch(out, readable)
  PROVE  IInv'
<1> USE StoreFacts, DiskType
<1>1. /\ app = "down" /\ Open(out, readable)
      /\ recovery' = Recovering(journal'.migration)
      /\ txn = NoTxn /\ txn' = NoTxn
      /\ UNCHANGED <<item, editor, delivery, status, wish, agent>>
  BY DEF Launch, IInv, TxnOwns, IdleIsEmpty
<1>2. /\ app' \in {"up", "unavailable"}
      /\ budget' \in Budget /\ budget'.saves = budget.saves
      /\ \E s : /\ StoreBecomes(s) /\ GoodStore(s, budget.saves)
                /\ app' = "up" => Agree(s)
      /\ Fine(journal', budget.saves)
      /\ app' = "unavailable" => journal' = EmptyJournal
  BY <1>1, OpenFacts
<1>3. /\ recovery' \in Recovery
      /\ \/ recovery' = NoRecovery
         \/ /\ recovery'.step = "probe"
            /\ recovery'.record = journal'.migration
            /\ journal'.migration # NoMigration
  <2>1. journal'.migration \in Migration
    BY <1>2 DEF Fine, Journal
  <2>2. CASE journal'.migration = NoMigration
    BY <2>2, <1>1, EmptyFacts DEF Recovering
  <2>3. CASE journal'.migration # NoMigration
    <3>1. recovery' = [NoRecovery EXCEPT !.step = "probe",
                                         !.record = journal'.migration]
      BY <2>3, <1>1 DEF Recovering
    <3> QED BY <2>1, <2>3, <3>1 DEF Recovery, NoRecovery
  <2> QED BY <2>2, <2>3
<1>4. RestOK'
  BY <1>1, <1>2, <1>3 DEF RestOK
<1>5. TypeOK' /\ MemoryIsFile' /\ JournalsWellFormed'
  BY <1>2, <1>4, StoreKept
<1>6. TxnOwns' /\ RecoveryOwns' /\ IdleIsEmpty'
  <2>1. CASE recovery' = NoRecovery
    BY <2>1, <1>1, IdleFacts
  <2>2. CASE /\ recovery'.step = "probe"
             /\ recovery'.record = journal'.migration
             /\ journal'.migration # NoMigration
    <3>1. app' = "up"
      BY <2>2, <1>2 DEF EmptyJournal
    <3>2. RecoveryOwns'
      BY <2>2, <3>1, <1>1, <1>2 DEF RecoveryOwns, Fine
    <3> QED BY <2>2, <3>2, <1>1 DEF TxnOwns, IdleIsEmpty, NoTxn
  <2> QED BY <1>3, <2>1, <2>2
<1> QED BY <1>5, <1>6 DEF IInv

LEMMA RetryStep ==
  ASSUME IInv, NEW out \in Outcome, NEW readable \in BOOLEAN,
         Retry(out, readable)
  PROVE  IInv'
<1> USE StoreFacts, DiskType
<1>1. /\ app = "unavailable" /\ Open(out, readable)
      /\ delivery' = Attempt(delivery, journal', status)
      /\ txn' = NoTxn /\ recovery' = NoRecovery
      /\ UNCHANGED <<item, editor, txn, recovery, status, wish, agent>>
  BY DEF Retry, IInv, TxnOwns, RecoveryOwns, IdleIsEmpty
<1>2. /\ app' \in {"up", "unavailable"}
      /\ budget' \in Budget /\ budget'.saves = budget.saves
      /\ \E s : /\ StoreBecomes(s) /\ GoodStore(s, budget.saves)
                /\ app' = "up" => Agree(s)
      /\ Fine(journal', budget.saves)
  BY <1>1, OpenFacts
<1>3. delivery' \in Request
  BY <1>1, <1>2, AttemptType DEF Fine, RestOK
<1>4. RestOK'
  BY <1>1, <1>2, <1>3 DEF RestOK
<1>5. TypeOK' /\ MemoryIsFile' /\ JournalsWellFormed'
  BY <1>2, <1>4, StoreKept
<1> QED BY <1>1, <1>5, IdleFacts DEF IInv

LEMMA EditByHandStep ==
  ASSUME IInv, NEW a \in Account, EditByHand(a)
  PROVE  IInv'
<1> USE StoreFacts, DiskType
<1> DEFINE d == [disk EXCEPT !.plist = a, !.plists = {}]
           s == [journal |-> journal, disk |-> d]
<1>1. /\ d \in Disk /\ d.journal = disk.journal /\ d.plist = a
      /\ d.journals = disk.journals /\ d.plists = {}
  BY DEF Disk
<1> HIDE DEF d
<1>2. s \in Stores /\ s.journal = journal /\ s.disk = d
  BY <1>1 DEF Stores
<1> HIDE DEF s
<1>3. StoreBecomes(s) /\ disk' = d
  BY <1>2 DEF EditByHand, StoreBecomes, d
<1>4. GoodStore(s, budget.saves) /\ (app = "up" => Agree(s))
  BY <1>1, <1>2 DEF GoodStore, Agree
<1>5. budget' \in Budget /\ budget'.saves = budget.saves
  <2> DEFINE e == budget.edits + 1
  <2>1. e \in 0..MaxFaults /\ budget' = [budget EXCEPT !.edits = e]
    BY JournalConstants
       DEF JournalConstants, EditByHand, MayFail, RestOK, Budget
  <2> HIDE DEF e
  <2> QED BY <2>1 DEF RestOK, Budget
<1>6. RestOK'
  BY <1>5 DEF EditByHand, RestOK
<1>7. TypeOK' /\ MemoryIsFile' /\ JournalsWellFormed'
  BY <1>3, <1>4, <1>5, <1>6, StoreKept DEF EditByHand
<1>8. TxnOwns' /\ RecoveryOwns' /\ IdleIsEmpty'
  <2>1. txn' = NoTxn /\ UNCHANGED <<app, journal, txn, recovery>>
    BY DEF EditByHand
  <2>2. RecoveryOwns'
    BY <2>1, <1>1, <1>3 DEF IInv, RecoveryOwns
  <2> QED BY <2>1, <2>2 DEF IInv, TxnOwns, IdleIsEmpty, NoTxn
<1> QED BY <1>7, <1>8 DEF IInv

-----------------------------------------------------------------------------
(* The invariant                                                           *)

LEMMA InitInv == Init => IInv
<1> SUFFICES ASSUME Init PROVE IInv
  OBVIOUS
<1>1. disk \in Disk /\ disk.journal = EmptyJournal /\ disk.journals = {}
  BY EmptyFacts, JournalConstants DEF Init, Disk, JournalConstants
<1>2. TypeOK
  BY <1>1, EmptyFacts, JournalConstants
     DEF Init, TypeOK, JournalConstants, Agent, Budget
<1>3. JournalsWellFormed
  BY <1>1 DEF Init, JournalsWellFormed, WellFormed, EmptyJournal
<1> QED
  BY <1>1, <1>2, <1>3
     DEF Init, IInv, MemoryIsFile, TxnOwns, RecoveryOwns, IdleIsEmpty, NoTxn,
         NoRecovery

LEMMA NextInv == IInv /\ [Next]_vars => IInv'
<1> SUFFICES ASSUME IInv, [Next]_vars PROVE IInv'
  OBVIOUS
<1>1. CASE Save
  BY <1>1, SaveSameAccountStep, SaveConfigurationStep, SaveMigrationStep
     DEF Save
<1>2. CASE SaveWorker
  BY <1>2, SaveWorkerStep
<1>3. CASE SaveMain
  BY <1>3, FinishWriteStep, FinishRemovalStep, FinishCreateStep,
     FinishInspectStep
     DEF SaveMain
<1>4. CASE RecoveryWorker
  BY <1>4, RecoveryWorkerStep
<1>5. CASE RecoveryMain
  BY <1>5, DecideStep, FinishValidationStep, FinishCleanupStep
     DEF RecoveryMain
<1>6. CASE NoticeDelivery
  BY <1>6, DeliveryStep, FinishDeliveryStep DEF NoticeDelivery
<1>7. CASE AgentSteps
  BY <1>7, AgentStep
<1>8. CASE Environment
  BY <1>8, QuitStep, PowerLossStep, LaunchStep, RetryStep, EditByHandStep
     DEF Environment
<1>9. CASE UNCHANGED vars
  <2>1. UNCHANGED <<app, journal, disk, item, editor, txn, recovery,
                    delivery, status, wish, agent, budget>>
    BY <1>9 DEF vars
  <2>2. RestOK'
    BY <2>1, StoreFacts DEF RestOK
  <2> QED BY <2>1, <2>2, QuietStep
<1> QED
  BY <1>1, <1>2, <1>3, <1>4, <1>5, <1>6, <1>7, <1>8, <1>9 DEF Next

(* The journal, the two files and what a save or a recovery works on stay  *)
(* well formed, and memory is what the visible file says, through every    *)
(* failed write, crash and launch (CredentialMutationJournal.swift:300).   *)
THEOREM Invariance == Spec => []IInv
<1>1. Init => IInv
  BY InitInv
<1>2. IInv /\ [Next]_vars => IInv'
  BY NextInv
<1> QED BY <1>1, <1>2, PTL DEF Spec

(* A relaunch reads what the application last knew, but for a power loss.  *)
THEOREM MemoryAgrees == Spec => []MemoryIsFile
<1>1. IInv => MemoryIsFile
  BY DEF IInv
<1> QED BY <1>1, Invariance, PTL

-----------------------------------------------------------------------------
(* What a removal spares                                                   *)

LEMMA WritesSpare ==
  ASSUME IInv, KeychainWrites, txn.op # "delete", NEW a \in Account,
         item[a] # 0
  PROVE  item'[a] # 0
<1>1. /\ item \in [Account -> 0..MaxSaves] /\ txn.account \in Account
      /\ budget.saves # 0
  BY StoreFacts DEF KeychainWrites, IInv, TxnOwns, RestOK
<1>2. \/ item' = item
      \/ item' = [item EXCEPT ![txn.account] = budget.saves]
  BY DEF KeychainWrites
<1> QED BY <1>1, <1>2

LEMMA RemovalSpares ==
  ASSUME IInv, KeychainRemoves, NEW a \in Account, item[a] # 0, item'[a] = 0
  PROVE  a \notin {disk.plist} \cup disk.plists
<1> DEFINE gone == IF txn.step = "removeNew" THEN txn.account ELSE txn.old
<1>1. /\ item \in [Account -> 0..MaxSaves]
      /\ item' = [item EXCEPT ![gone] = 0] /\ gone \in Account
      /\ disk.plists = {} /\ disk.plist # gone
  BY StoreFacts DEF KeychainRemoves, IInv, TxnOwns, RestOK
<1> HIDE DEF gone
<1> QED BY <1>1

LEMMA ConfirmedRemovalSpares ==
  ASSUME IInv, ConfirmAndRemove, NEW a \in Account, item[a] # 0,
         item'[a] = 0
  PROVE  a \notin {disk.plist} \cup disk.plists
<1> DEFINE r == recovery.record
<1>1. /\ item \in [Account -> 0..MaxSaves]
      /\ r.old # r.new /\ recovery.step # "idle"
      /\ recovery.step \in {"removeNew", "removeOld"} => disk.plists = {}
  BY StoreFacts DEF ConfirmAndRemove, IInv, RecoveryOwns, RestOK
<1>2. \/ item' = item
      \/ /\ recovery.step = "removeNew" /\ disk.plist = r.old
         /\ item' = [item EXCEPT ![r.new] = 0]
      \/ /\ recovery.step = "removeOld" /\ disk.plist = r.new
         /\ item' = [item EXCEPT ![r.old] = 0]
  BY DEF ConfirmAndRemove, ConfirmedAccount
<1> QED BY <1>1, <1>2

(* Except for the removal the user asked for, no item is removed that the  *)
(* configuration names, or would name again after a power loss             *)
(* (CredentialMigrationRecoveryCleanup.swift:261).                         *)
THEOREM CleanupSpares == Spec => CleanupSparesActive
<1>1. ASSUME IInv, [Next]_vars, NEW a \in Account,
             item[a] # 0, item'[a] = 0, txn.op # "delete"
      PROVE  a \notin {disk.plist} \cup disk.plists
  <2>1. CASE UNCHANGED item
    BY <2>1, <1>1
  <2>2. CASE SaveWorker
    <3>1. CASE KeychainWrites
      BY <3>1, <1>1, WritesSpare
    <3>2. CASE KeychainRemoves
      BY <3>2, <1>1, RemovalSpares
    <3>3. CASE KeychainFails \/ Inspect
      BY <3>3, <2>1 DEF KeychainFails, Inspect
    <3> QED BY <2>2, <3>1, <3>2, <3>3 DEF SaveWorker
  <2>3. CASE RecoveryWorker
    <3>1. CASE ConfirmAndRemove
      BY <3>1, <1>1, ConfirmedRemovalSpares
    <3>2. CASE Probe \/ ConfirmFails
      BY <3>2, <2>1 DEF Probe, ConfirmFails
    <3> QED BY <2>3, <3>1, <3>2 DEF RecoveryWorker
  <2>4. CASE Save
    BY <2>4, <2>1
       DEF Save, SaveSameAccount, SaveConfiguration, SaveMigration
  <2>5. CASE SaveMain
    BY <2>5, <2>1
       DEF SaveMain, FinishWrite, FinishRemoval, FinishCreate, FinishInspect
  <2>6. CASE RecoveryMain
    BY <2>6, <2>1
       DEF RecoveryMain, Decide, FinishValidation, FinishCleanup,
           RecoveryMainUnchanged
  <2>7. CASE NoticeDelivery
    BY <2>7, <2>1
       DEF NoticeDelivery, AgentHandles, RequestIsLost, Observe,
           AllowAndRestart, FinishDelivery
  <2>8. CASE AgentSteps
    BY <2>8, <2>1
       DEF AgentSteps, AgentReloads, AgentReads, StartOpenCode,
           AgentRestartsOpenCode, StopOpenCode, AgentUnchanged
  <2>9. CASE Environment
    BY <2>9, <2>1
       DEF Environment, Quit, PowerLoss, Launch, Retry, EditByHand
  <2>10. CASE UNCHANGED vars
    BY <2>10, <2>1 DEF vars
  <2> QED
    BY <1>1, <2>2, <2>3, <2>4, <2>5, <2>6, <2>7, <2>8, <2>9, <2>10 DEF Next
<1>2. IInv /\ [Next]_vars =>
        [\A a \in Account :
           item[a] # 0 /\ item'[a] = 0 /\ txn.op # "delete"
             => a \notin {disk.plist} \cup disk.plists]_vars
  BY <1>1
<1> QED BY <1>2, Invariance, PTL DEF Spec, CleanupSparesActive

-----------------------------------------------------------------------------
(* The journal's operations, as the notices see them                       *)

LEMMA NoticeKinds ==
  ASSUME NEW n \in Notice
  PROVE  /\ n.account \in Account \cup {NoAccount} /\ n.generation \in Nat
         /\ n = NoNotice <=> n.account = NoAccount
         /\ n = NoNotice => n.generation = 0
         /\ NoAccount \notin Account
BY JournalConstants
   DEF JournalConstants, Notice, NoNotice, Generation

LEMMA JournalKinds ==
  ASSUME NEW j \in Journal
  PROVE  /\ j.generation \in Nat
         /\ j.pending \in Notice /\ j.staged \in Notice
         /\ j.migration \in Migration /\ j.migration.generation \in Nat
         /\ j.migration.new \in Account \cup {NoAccount}
         /\ j.migration = NoMigration => j.migration.generation = 0
         /\ Live(j) => j.migration # NoMigration
         /\ j.migration # NoMigration => j.migration.new \in Account
BY JournalConstants
   DEF JournalConstants, Journal, Generation, Migration, NoMigration, Live

LEMMA StagedIs ==
  ASSUME NEW j \in Journal, NEW a
  PROVE  LET k == Staged(j, a)
         IN  /\ k.generation = j.generation + 1 /\ k.pending = j.pending
             /\ k.staged = Changed(a, j.generation + 1)
             /\ k.migration = j.migration
BY DEF Staged, Journal

LEMMA MigrationStagedIs ==
  ASSUME NEW j \in Journal, NEW old, NEW new
  PROVE  LET k == MigrationStaged(j, old, new)
         IN  /\ k.generation = j.generation + 1
             /\ k.pending = j.pending /\ k.staged = j.staged
             /\ k.migration.generation = j.generation + 1
             /\ k.migration.new = new /\ Live(k)
<1> DEFINE g == j.generation + 1
           m == [generation |-> g, old |-> old, new |-> new,
                 phase |-> "staged"]
<1>1. MigrationStaged(j, old, new)
        = [j EXCEPT !.generation = g, !.migration = m]
  BY DEF MigrationStaged
<1>2. m.generation = g /\ m.new = new /\ m.phase = "staged"
  OBVIOUS
<1> HIDE DEF m, g
<1> QED BY <1>1, <1>2 DEF Journal, Live, g

LEMMA InPhaseIs ==
  ASSUME NEW j \in Journal, NEW phase
  PROVE  LET k == InPhase(j, phase)
         IN  /\ k.generation = j.generation
             /\ k.pending = j.pending /\ k.staged = j.staged
             /\ k.migration.generation = j.migration.generation
             /\ k.migration.new = j.migration.new
             /\ k.migration.phase = phase
BY DEF InPhase, Journal, Migration, NoMigration

LEMMA MigrationCommittedIs ==
  ASSUME NEW j \in Journal
  PROVE  LET k == MigrationCommitted(j)
         IN  /\ k.generation = j.generation /\ k.staged = j.staged
             /\ k.pending = Changed(j.migration.new, j.migration.generation)
             /\ k.migration.generation = j.migration.generation
             /\ k.migration.new = j.migration.new
             /\ ~Live(k)
<1> DEFINE i == InPhase(j, "cleanupOld")
<1>1. /\ i.generation = j.generation /\ i.staged = j.staged
      /\ i.migration.generation = j.migration.generation
      /\ i.migration.new = j.migration.new
      /\ i.migration.phase = "cleanupOld"
  BY InPhaseIs
<1>2. DOMAIN i = {"generation", "pending", "staged", "migration"}
  BY DEF InPhase, Journal
<1>3. MigrationCommitted(j)
        = [i EXCEPT !.pending =
             Changed(j.migration.new, j.migration.generation)]
  BY DEF MigrationCommitted
<1> HIDE DEF i
<1> QED BY <1>1, <1>2, <1>3 DEF Live

LEMMA WithoutMigrationIs ==
  ASSUME NEW j \in Journal
  PROVE  LET k == WithoutMigration(j)
         IN  /\ k.generation = j.generation
             /\ k.pending = j.pending /\ k.staged = j.staged
             /\ k.migration = NoMigration
BY DEF WithoutMigration, Journal

LEMMA CommittedIs ==
  ASSUME NEW j \in Journal, NEW notice
  PROVE  LET k == Committed(j, notice)
         IN  /\ k.generation = j.generation /\ k.staged = NoNotice
             /\ k.pending.account = j.staged.account
             /\ k.pending.generation = j.staged.generation
             /\ k.migration = j.migration
BY DEF Committed, Journal, Notice, NoNotice

LEMMA RolledBackIs ==
  ASSUME NEW j \in Journal
  PROVE  LET k == RolledBack(j)
         IN  /\ k.generation = j.generation
             /\ k.pending = j.pending /\ k.staged = NoNotice
             /\ k.migration = j.migration
BY DEF RolledBack, Journal

LEMMA AcknowledgedIs ==
  ASSUME NEW j \in Journal
  PROVE  LET k == Acknowledged(j)
         IN  /\ k.generation = j.generation /\ k.staged = NoNotice
             /\ k.pending.account = j.staged.account
             /\ k.pending.generation = j.staged.generation
             /\ k.migration = j.migration
             /\ j.staged = NoNotice => k.pending = NoNotice
<1> DEFINE e == [j EXCEPT !.pending = NoNotice]
<1>1. /\ e \in Journal /\ e.pending = NoNotice /\ e.staged = j.staged
      /\ e.generation = j.generation /\ e.migration = j.migration
  BY EmptyFacts DEF Journal
<1>2. Acknowledged(j) = Promoted(e)
  BY DEF Acknowledged
<1> HIDE DEF e
<1>3. CASE e.staged = NoNotice
  <2>1. Promoted(e) = e
    BY <1>3 DEF Promoted
  <2> QED BY <1>1, <1>2, <1>3, <2>1
<1>4. CASE e.staged # NoNotice
  <2>1. Promoted(e) = Committed(e, "changed")
    BY <1>1, <1>4 DEF Promoted
  <2> QED BY <1>1, <1>2, <1>4, <2>1, CommittedIs
<1> QED BY <1>3, <1>4

LEMMA PromotedIs ==
  ASSUME NEW j \in Journal
  PROVE  LET k == Promoted(j)
         IN  \/ k = j
             \/ /\ j.pending = NoNotice /\ k.generation = j.generation
                /\ k.staged = NoNotice /\ j.staged # NoNotice
                /\ k.pending.account = j.staged.account
                /\ k.pending.generation = j.staged.generation
                /\ k.migration = j.migration
BY CommittedIs DEF Promoted

(* What keeps generations in order                                         *)

LEMMA StagedOrdered ==
  ASSUME NEW j \in Journal, Ordered(j), NEW a \in Account
  PROVE  Ordered(Staged(j, a))
<1> DEFINE k == Staged(j, a)
<1>1. /\ k.generation = j.generation + 1 /\ k.pending = j.pending
      /\ k.staged = Changed(a, j.generation + 1)
      /\ k.migration = j.migration
  BY StagedIs
<1>2. k.staged.generation = j.generation + 1
  BY <1>1 DEF Changed
<1>3. j.pending.generation <= j.generation
  BY JournalKinds, NoticeKinds DEF Ordered
<1> QED BY <1>1, <1>2, <1>3, JournalKinds, NoticeKinds DEF Ordered, Live

LEMMA MigrationStagedOrdered ==
  ASSUME NEW j \in Journal, Ordered(j), MayStageMigration(j),
         NEW old, NEW new
  PROVE  Ordered(MigrationStaged(j, old, new))
<1> DEFINE k == MigrationStaged(j, old, new)
<1>1. /\ k.generation = j.generation + 1
      /\ k.pending = NoNotice /\ k.staged = NoNotice
      /\ k.migration.generation = j.generation + 1
  BY MigrationStagedIs DEF MayStageMigration
<1>2. NoNotice.generation = 0 /\ j.generation \in Nat
  BY JournalKinds DEF NoNotice
<1> QED BY <1>1, <1>2 DEF Ordered

(* A migration returns to life only while its notice is not pending.       *)
LEMMA InPhaseOrdered ==
  ASSUME NEW j \in Journal, Ordered(j), NEW phase, j.migration # NoMigration,
         \/ Live(j) \/ phase = "cleanupOld"
         \/ j.pending.account # j.migration.new
  PROVE  Ordered(InPhase(j, phase))
<1> DEFINE k == InPhase(j, phase)
<1>1. /\ k.generation = j.generation
      /\ k.pending = j.pending /\ k.staged = j.staged
      /\ k.migration.generation = j.migration.generation
      /\ k.migration.new = j.migration.new
      /\ k.migration.phase = phase
  BY InPhaseIs
<1> QED BY <1>1 DEF Ordered, Live

LEMMA MigrationCommittedOrdered ==
  ASSUME NEW j \in Journal, Ordered(j), j.migration # NoMigration
  PROVE  Ordered(MigrationCommitted(j))
<1> DEFINE k == MigrationCommitted(j)
<1>1. /\ k.generation = j.generation /\ k.staged = j.staged
      /\ k.pending = Changed(j.migration.new, j.migration.generation)
      /\ k.migration.generation = j.migration.generation
      /\ k.migration.new = j.migration.new
      /\ ~Live(k)
  BY MigrationCommittedIs
<1>2. /\ k.pending.generation = j.migration.generation
      /\ k.pending.account = j.migration.new
  BY <1>1 DEF Changed
<1> QED BY <1>1, <1>2, JournalKinds DEF Ordered

LEMMA WithoutMigrationOrdered ==
  ASSUME NEW j \in Journal, Ordered(j)
  PROVE  Ordered(WithoutMigration(j))
<1> DEFINE k == WithoutMigration(j)
<1>1. /\ k.generation = j.generation
      /\ k.pending = j.pending /\ k.staged = j.staged
      /\ k.migration = NoMigration /\ NoMigration.generation = 0
  BY WithoutMigrationIs DEF NoMigration
<1>2. /\ j.generation \in Nat /\ j.pending.generation \in Nat
      /\ j.staged.generation \in Nat
  BY JournalKinds, NoticeKinds
<1> QED BY <1>1, <1>2 DEF Ordered

LEMMA CommittedOrdered ==
  ASSUME NEW j \in Journal, Ordered(j), j.staged # NoNotice, NEW notice
  PROVE  Ordered(Committed(j, notice))
<1> DEFINE k == Committed(j, notice)
<1>1. /\ k.generation = j.generation /\ k.staged = NoNotice
      /\ k.pending.account = j.staged.account
      /\ k.pending.generation = j.staged.generation
      /\ k.migration = j.migration
  BY CommittedIs
<1>2. /\ j.generation \in Nat /\ j.pending.generation \in Nat
      /\ j.staged.generation \in Nat /\ j.migration.generation \in Nat
  BY JournalKinds, NoticeKinds
<1> QED BY <1>1, <1>2 DEF Ordered

LEMMA RolledBackOrdered ==
  ASSUME NEW j \in Journal, Ordered(j)
  PROVE  Ordered(RolledBack(j))
<1> DEFINE k == RolledBack(j)
<1>1. /\ k.generation = j.generation
      /\ k.pending = j.pending /\ k.staged = NoNotice
      /\ k.migration = j.migration
  BY RolledBackIs
<1> QED BY <1>1 DEF Ordered, Live

LEMMA PromotedOrdered ==
  ASSUME NEW j \in Journal, Ordered(j)
  PROVE  Ordered(Promoted(j))
BY CommittedOrdered DEF Promoted

LEMMA AcknowledgedOrdered ==
  ASSUME NEW j \in Journal, Ordered(j)
  PROVE  Ordered(Acknowledged(j))
<1> DEFINE k == Acknowledged(j)
<1>1. /\ k.generation = j.generation /\ k.staged = NoNotice
      /\ k.pending.account = j.staged.account
      /\ k.pending.generation = j.staged.generation
      /\ k.migration = j.migration
      /\ j.staged = NoNotice => k.pending = NoNotice
  BY AcknowledgedIs
<1>2. /\ j.generation \in Nat /\ j.pending.generation \in Nat
      /\ j.staged.generation \in Nat /\ j.migration.generation \in Nat
  BY JournalKinds, NoticeKinds
<1>3. CASE j.staged = NoNotice
  <2>1. k.pending.generation = 0
    BY <1>1, <1>3 DEF NoNotice
  <2> QED BY <1>1, <1>2, <1>3, <2>1 DEF Ordered
<1>4. CASE j.staged # NoNotice
  BY <1>1, <1>2, <1>4 DEF Ordered
<1> QED BY <1>3, <1>4

(* What keeps the agent's notice in the journal                            *)

LEMMA TellsWeakens ==
  ASSUME NEW j \in Journal, Ordered(j), NEW g, NEW a, NEW h \in SUBSET Account,
         Tells(j, g, a, h)
  PROVE  Tells(j, 0, a, h)
<1>1. j.pending.account \in h => j.pending # NoNotice
  BY JournalKinds, NoticeKinds
<1> QED BY <1>1, JournalKinds, NoticeKinds DEF Tells, Ordered

LEMMA StagedTells ==
  ASSUME NEW j \in Journal, NEW g, NEW a, NEW h \in SUBSET Account,
         NEW b, j.staged = NoNotice \/ b \in h
  PROVE  /\ Tells(j, g, a, h) => Tells(Staged(j, b), g, a, h)
         /\ b \in h => Tells(Staged(j, b), g, a, h)
<1> DEFINE k == Staged(j, b)
<1>1. k.pending = j.pending /\ k.migration = j.migration
      /\ k.staged = Changed(b, j.generation + 1)
  BY StagedIs
<1>2. k.staged.account = b
  BY <1>1 DEF Changed
<1>3. j.staged = NoNotice => j.staged.account \notin h
  BY NoticeKinds, JournalKinds DEF NoNotice
<1> QED BY <1>1, <1>2, <1>3 DEF Tells, Live

LEMMA InPhaseTells ==
  ASSUME NEW j \in Journal, NEW g, NEW a, NEW h, Tells(j, g, a, h),
         NEW phase \in {"newCredentialReady", "configurationSaved",
                        "cleanupNew", "cleanupOld"},
         phase # "cleanupOld" \/ ~Live(j)
           \/ j.pending.account = j.migration.new
  PROVE  Tells(InPhase(j, phase), g, a, h)
<1> DEFINE k == InPhase(j, phase)
<1>1. /\ k.pending = j.pending /\ k.staged = j.staged
      /\ k.migration.new = j.migration.new
      /\ k.migration.phase = phase
  BY InPhaseIs
<1> QED BY <1>1 DEF Tells, Live

LEMMA MigrationCommittedTells ==
  ASSUME NEW j \in Journal, NEW g, NEW a, NEW h, a \in h,
         Tells(j, g, a, h), j.pending = NoNotice, NoAccount \notin h,
         Live(j) => j.migration.generation # g
  PROVE  Tells(MigrationCommitted(j), g, a, h)
<1> DEFINE k == MigrationCommitted(j)
<1>1. /\ k.staged = j.staged
      /\ k.pending = Changed(j.migration.new, j.migration.generation)
  BY MigrationCommittedIs
<1>2. /\ k.pending.account = j.migration.new
      /\ k.pending.generation = j.migration.generation
  BY <1>1 DEF Changed
<1> QED BY <1>1, <1>2 DEF Tells, NoNotice

LEMMA WithoutMigrationTells ==
  ASSUME NEW j \in Journal, NEW g, NEW a, NEW h, Tells(j, g, a, h),
         ~Live(j) \/ j.migration.new # a \/ j.pending.account = a
  PROVE  Tells(WithoutMigration(j), g, a, h)
<1> DEFINE k == WithoutMigration(j)
<1>1. k.pending = j.pending /\ k.staged = j.staged
  BY WithoutMigrationIs
<1> QED BY <1>1 DEF Tells

LEMMA CommittedTells ==
  ASSUME NEW j \in Journal, NEW g, NEW a, NEW h, NEW notice,
         j.staged.account \in h, j.staged.generation # g
  PROVE  Tells(Committed(j, notice), g, a, h)
BY CommittedIs DEF Tells

LEMMA PromotedTells ==
  ASSUME NEW j \in Journal, Ordered(j), NEW a, NEW h \in SUBSET Account,
         a \in h, Tells(j, 0, a, h)
  PROVE  Tells(Promoted(j), 0, a, h)
<1> DEFINE k == Promoted(j)
<1>1. ASSUME k # j
      PROVE  /\ j.pending = NoNotice /\ j.staged # NoNotice
             /\ k.pending.account = j.staged.account
             /\ k.pending.generation = j.staged.generation
             /\ k.migration = j.migration
  BY <1>1, PromotedIs
<1>2. /\ j.staged # NoNotice => j.staged.generation # 0
      /\ NoNotice.account \notin h
  BY JournalKinds, NoticeKinds DEF Ordered, NoNotice
<1> QED BY <1>1, <1>2 DEF Tells, Live

(* The notice that an acknowledgement clears is not the only one.          *)
LEMMA AcknowledgedTells ==
  ASSUME NEW j \in Journal, Ordered(j), NEW a, NEW h \in SUBSET Account,
         a \in h, Tells(j, j.pending.generation, a, h)
  PROVE  Tells(Acknowledged(j), 0, a, h)
<1> DEFINE k == Acknowledged(j)
<1>1. /\ k.pending.account = j.staged.account
      /\ k.pending.generation = j.staged.generation
      /\ k.migration = j.migration
  BY AcknowledgedIs
<1>2. j.staged.account \in h => j.staged.generation # 0
  BY JournalKinds, NoticeKinds DEF Ordered
<1> QED BY <1>1, <1>2 DEF Tells, Live

(* Stores                                                                  *)

OrderedStore(s) ==
  \A j \in {s.journal, s.disk.journal} \cup s.disk.journals : Ordered(j)

LEMMA PersistedOrdered ==
  ASSUME NEW s \in Stores, OrderedStore(s), NEW j \in Journal, Ordered(j),
         NEW out \in Outcome
  PROVE  LET p == Persisted(s, j, out)
         IN  OrderedStore(p) /\ p.disk.journals \subseteq Journal
<1> DEFINE p == Persisted(s, j, out)
           d == [s.disk EXCEPT !.journal = j]
<1>1. s.disk \in Disk
  BY DEF Stores
<1>2. CASE out = "ok"
  <2>1. d \in Disk /\ d.journal = j
    BY <1>1 DEF Disk
  <2>2. p = [journal |-> j, disk |-> Flushed(d)]
    BY <1>2 DEF Persisted
  <2> HIDE DEF d
  <2>3. Flushed(d) = [journal |-> d.journal, plist |-> d.plist,
                      journals |-> {}, plists |-> {}]
    BY <2>1, FlushedIs
  <2>4. p.journal = j /\ p.disk.journal = j /\ p.disk.journals = {}
    BY <2>1, <2>2, <2>3
  <2> QED BY <2>4 DEF OrderedStore
<1>3. CASE out = "failed"
  BY <1>1, <1>3 DEF Persisted, Disk
<1>4. CASE out = "uncertain"
  <2>1. /\ p.journal = j /\ p.disk.journal = j
        /\ p.disk.journals = s.disk.journals \cup {s.disk.journal}
    BY <1>4, <1>1 DEF Persisted, Disk
  <2> QED BY <1>1, <2>1 DEF OrderedStore, Disk
<1> QED BY <1>2, <1>3, <1>4 DEF Outcome

LEMMA SavedOrdered ==
  ASSUME NEW s \in Stores, OrderedStore(s), NEW a \in Account,
         NEW out \in Outcome
  PROVE  OrderedStore(Saved(s, a, out))
<1> DEFINE p == Saved(s, a, out)
           d == [s.disk EXCEPT !.plist = a]
<1>1. /\ s.disk \in Disk
      /\ d \in Disk /\ d.journal = s.disk.journal
      /\ d.journals = s.disk.journals
  BY DEF Stores, Disk
<1>2. CASE s.disk.plist = a \/ out = "failed"
  BY <1>2 DEF Saved
<1>3. CASE s.disk.plist # a /\ out = "ok"
  <2>1. p = [s EXCEPT !.disk = Flushed(d)]
    BY <1>3 DEF Saved
  <2> HIDE DEF d
  <2>2. Flushed(d) = [journal |-> d.journal, plist |-> d.plist,
                      journals |-> {}, plists |-> {}]
    BY <1>1, FlushedIs
  <2>3. /\ p.journal = s.journal /\ p.disk.journal = s.disk.journal
        /\ p.disk.journals = {}
    BY <1>1, <2>1, <2>2 DEF Stores
  <2> QED BY <2>3 DEF OrderedStore
<1>4. CASE s.disk.plist # a /\ out = "uncertain"
  <2>1. p = [s EXCEPT !.disk = [d EXCEPT !.plists = @ \cup {s.disk.plist}]]
    BY <1>4 DEF Saved
  <2> HIDE DEF d
  <2>2. /\ p.journal = s.journal /\ p.disk.journal = s.disk.journal
        /\ p.disk.journals = s.disk.journals
    BY <1>1, <2>1 DEF Stores, Disk
  <2> QED BY <2>2 DEF OrderedStore
<1> QED BY <1>2, <1>3, <1>4 DEF Outcome

-----------------------------------------------------------------------------
(* The pieces of a step, as the notices see them                           *)

LEMMA NoticeFacts ==
  ASSUME NoticeInv
  PROVE  /\ RestOK /\ disk \in Disk
         /\ journal \in Journal /\ disk.journal \in Journal
         /\ disk.journals \subseteq Journal
         /\ app = "up" => journal = disk.journal
         /\ Ordered(journal) /\ Ordered(disk.journal)
         /\ Store \in Stores /\ OrderedStore(Store)
         /\ Store.journal = journal /\ Store.disk = disk
         /\ agent.latest \in Account /\ agent.latest \in Heeded
         /\ Heeded \in SUBSET Account /\ NoAccount \notin Heeded
<1>1. IInv
  BY DEF NoticeInv
<1>2. /\ RestOK /\ disk \in Disk
      /\ journal \in Journal /\ disk.journal \in Journal
      /\ app = "up" => journal = disk.journal
      /\ Store \in Stores /\ Store.journal = journal /\ Store.disk = disk
  BY <1>1, StoreFacts, DiskType DEF IInv, MemoryIsFile, GoodStore
<1>3. agent.latest \in Account
  BY <1>2 DEF RestOK, Agent
<1>4. Ordered(journal) /\ Ordered(disk.journal) /\ OrderedStore(Store)
  BY <1>2 DEF NoticeInv, JournalsOrdered, OrderedStore
<1>5. disk.journals \subseteq Journal
  BY <1>2 DEF Disk
<1> QED
  BY <1>2, <1>3, <1>4, <1>5, JournalConstants DEF Heeded, JournalConstants

LEMMA EditsKept ==
  ASSUME budget \in Budget
  PROVE  \A n : Fault(n) \/ SpendSave(n) => budget'.edits = budget.edits
BY DEF Budget, Fault, SpendSave

(* A handler leaves the request in flight alone or asks about a notice     *)
(* that the journal j has pending.                                         *)
Requested(j) ==
  \/ /\ delivery'.record.generation = delivery.record.generation
     /\ delivery' # NoRequest => delivery # NoRequest
  \/ /\ delivery = NoRequest /\ j.pending # NoNotice
     /\ delivery'.record = j.pending

LEMMA AttemptRequests ==
  ASSUME delivery \in Request, NEW j,
         delivery' = delivery \/ \E a : delivery' = Attempt(delivery, j, a)
  PROVE  Requested(j) /\ Acked' = Acked
<1>1. CASE delivery' = delivery
  BY <1>1 DEF Requested, Acked
<1>2. CASE delivery' # delivery
  <2>1. /\ delivery = NoRequest /\ j.pending # NoNotice
        /\ delivery' = [record |-> j.pending, answer |-> "none"]
    BY <1>2 DEF Attempt
  <2>2. delivery.answer = "none" /\ delivery'.answer = "none"
    BY <2>1 DEF NoRequest
  <2> QED BY <2>1, <2>2 DEF Requested, Acked
<1> QED BY <1>1, <1>2

LEMMA AnnounceRequests ==
  ASSUME delivery \in Request, NEW s, NEW out, Announce(s, out)
  PROVE  Requested(s.journal) /\ Acked' = Acked /\ StoreBecomes(s)
BY AttemptRequests DEF Announce

(* Generations of a request, by where it comes from.                       *)
LEMMA RequestedFacts ==
  ASSUME NEW j \in Journal, Ordered(j), Requested(j)
  PROVE  /\ \A g : /\ delivery.record.generation # g
                   /\ j.pending.generation # g \/ j.pending = NoNotice
                   => delivery'.record.generation # g
         /\ delivery' # NoRequest =>
              \/ /\ delivery # NoRequest
                 /\ delivery'.record.generation = delivery.record.generation
              \/ /\ 0 < delivery'.record.generation
                 /\ delivery'.record.generation <= j.generation
                 /\ j.pending # NoNotice
BY DEF Requested, Ordered

LEMMA StaleKept ==
  ASSUME UNCHANGED <<agent, item>>, budget'.edits = budget.edits
  PROVE  Stale' = Stale /\ Heeded' = Heeded
BY DEF Stale, Heeded

(* A handler of the main thread                                            *)
LEMMA MainStep ==
  ASSUME NoticeInv, IInv', app = "up", UNCHANGED <<app, item, agent>>,
         budget'.edits = budget.edits,
         NEW s, StoreBecomes(s), OrderedStore(s),
         Requested(journal'), Acked' = Acked,
         journal.generation <= journal'.generation,
         Stale => Tells(journal', Acked, agent.latest, Heeded),
         Stale /\ budget.edits = 0 =>
           \/ Live(journal') /\ journal'.migration.new = agent.latest
           \/ /\ disk'.plist = agent.latest
              /\ editor' # Untouched => editor'.account = agent.latest,
         txn'.step # "idle" => editor' = Untouched,
         WriteTells', MigrationTells', RecoveryTells'
  PROVE  NoticeInv'
<1>1. journal' = disk'.journal /\ journal' \in Journal /\ journal \in Journal
  BY NoticeFacts DEF IInv, MemoryIsFile, TypeOK
<1>2. JournalsOrdered'
  BY DEF StoreBecomes, OrderedStore, JournalsOrdered
<1>3. Stale' = Stale /\ Heeded' = Heeded /\ agent' = agent
  BY StaleKept
<1>4. Told'
  BY <1>1, <1>3 DEF Told
<1>5. Elsewhere'
  BY <1>1, <1>3 DEF Elsewhere
<1>6. InFlight'
  <2>1. Ordered(journal') /\ journal.generation \in Nat
        /\ journal'.generation \in Nat
    BY <1>1, <1>2, JournalKinds DEF JournalsOrdered
  <2>2. CASE delivery' = NoRequest
    BY <2>2 DEF InFlight
  <2>3. CASE delivery # NoRequest
             /\ delivery'.record.generation = delivery.record.generation
    <3>1. delivery.record.generation \in Nat
      BY NoticeFacts, NoticeKinds DEF RestOK, Request
    <3> QED BY <2>1, <2>3, <3>1 DEF NoticeInv, InFlight
  <2>4. CASE 0 < delivery'.record.generation
             /\ delivery'.record.generation <= journal'.generation
    BY <2>4 DEF InFlight
  <2> QED BY <1>1, <2>1, <2>2, <2>3, <2>4, RequestedFacts
<1> QED BY <1>2, <1>4, <1>5, <1>6 DEF NoticeInv

-----------------------------------------------------------------------------
(* Steps that leave the journal alone                                      *)

LEMMA QuietNotice ==
  ASSUME NoticeInv, IInv',
         UNCHANGED <<app, journal, disk, item, editor, txn, recovery>>,
         budget'.edits = budget.edits,
         Requested(journal),
         Stale' => Stale /\ agent'.latest = agent.latest /\ Acked' = Acked
  PROVE  NoticeInv'
<1> USE NoticeFacts
<1>1. JournalsOrdered'
  BY DEF NoticeInv, JournalsOrdered
<1>2. Stale' => Heeded' = Heeded
  BY DEF Heeded
<1>3. Told'
  BY <1>2 DEF NoticeInv, Told
<1>4. Elsewhere'
  BY DEF NoticeInv, Elsewhere
<1>5. /\ delivery.record \in Notice /\ delivery.record.generation \in Nat
      /\ journal.generation \in Nat
  BY NoticeKinds, JournalKinds DEF RestOK, Request
<1>6. InFlight'
  <2>1. app = "up" \/ journal.pending = NoNotice
    BY DEF NoticeInv, InFlight, EmptyJournal
  <2> QED BY <1>5, <2>1, RequestedFacts DEF NoticeInv, InFlight
<1>7. WriteTells'
  <2>1. SUFFICES ASSUME txn.step = "write"
                 PROVE  /\ delivery'.record.generation # txn.generation
                        /\ Stale' /\ txn.result # "ok" =>
                             Tells(RolledBack(journal), Acked',
                                   agent'.latest, Heeded')
    BY DEF NoticeInv, WriteTells
  <2>2. /\ journal.staged = Changed(txn.account, txn.generation)
        /\ delivery.record.generation # txn.generation
    BY <2>1 DEF NoticeInv, WriteTells
  <2>3. txn.account \in Account /\ journal.staged.generation = txn.generation
        /\ journal.staged # NoNotice
    BY <2>1, <2>2, JournalConstants
       DEF NoticeInv, IInv, TxnOwns, Changed, NoNotice, JournalConstants
  <2>4. journal.pending.generation # txn.generation
    BY <2>3, JournalKinds, NoticeKinds DEF Ordered
  <2>5. delivery'.record.generation # txn.generation
    BY <2>2, <2>4, RequestedFacts
  <2> QED BY <2>1, <2>5, <1>2 DEF NoticeInv, WriteTells
<1>8. MigrationTells'
  <2>1. txn.step \in {"create", "inspect"} =>
          delivery'.record.generation # journal.migration.generation
    BY RequestedFacts DEF NoticeInv, MigrationTells
  <2> QED BY <2>1 DEF NoticeInv, MigrationTells
<1>9. RecoveryTells'
  <2>1. ASSUME recovery.step \in {"probe", "validate", "reread"},
               Live(journal)
        PROVE  delivery'.record.generation # journal.migration.generation
    <3>1. journal.pending.generation # journal.migration.generation
      BY <2>1, JournalKinds DEF Ordered
    <3>2. delivery.record.generation # journal.migration.generation
      BY <2>1 DEF NoticeInv, RecoveryTells
    <3> QED BY <3>1, <3>2, RequestedFacts
  <2> QED BY <2>1 DEF NoticeInv, RecoveryTells
<1> QED
  BY <1>1, <1>3, <1>4, <1>6, <1>7, <1>8, <1>9 DEF NoticeInv

(* A reload keeps a password or forgets it.                                *)
LEMMA ReloadedKeeps ==
  ASSUME NoticeInv, NEW x, x = Reloaded \/ x = Started,
         x.state = "Configured"
  PROVE  /\ agent.state = "Configured"
         /\ x.latest = agent.latest /\ x.holds = agent.holds
<1>1. agent \in Agent
  BY NoticeFacts DEF RestOK
<1>2. \/ Reloaded = agent
      \/ Reloaded.state # "Configured"
  BY <1>1 DEF Reloaded, AgentState, Agent
<1>3. CASE x = Reloaded
  BY <1>1, <1>2, <1>3
<1>4. CASE x = Started
  <2>1. Reloaded \in Agent
    BY NoticeFacts, AgentFacts
  <2>2. /\ x.state = Reloaded.state /\ x.latest = Reloaded.latest
        /\ x.holds = Reloaded.holds
    BY <1>4, <2>1 DEF Started, Agent
  <2> QED BY <1>2, <2>2
<1> QED BY <1>3, <1>4

(* What the agent does by itself never leaves it with an older password.   *)
LEMMA AgentNotice ==
  ASSUME NoticeInv, IInv', AgentSteps
  PROVE  NoticeInv'
<1> USE NoticeFacts
<1>1. AgentUnchanged
  BY DEF AgentSteps, AgentReloads, AgentReads, StartOpenCode,
         AgentRestartsOpenCode, StopOpenCode
<1>2. Requested(journal) /\ Acked' = Acked
  BY <1>1, AttemptRequests DEF AgentUnchanged, RestOK
<1>3. agent \in Agent
  BY DEF RestOK
<1>4. Stale' => Stale /\ agent'.latest = agent.latest
  <2>1. CASE AgentReads
    <3>1. /\ agent'.latest = agent.latest
          /\ agent'.holds = item[agent.latest]
      BY <2>1, <1>3 DEF AgentReads, Agent
    <3> QED BY <3>1, <1>1 DEF Stale, AgentUnchanged
  <2>2. CASE agent' = Reloaded \/ agent' = Started
    BY <2>2, <1>1, ReloadedKeeps DEF AgentUnchanged, Stale
  <2>3. CASE StopOpenCode
    BY <2>3, <1>1, <1>3 DEF StopOpenCode, Agent, Stale, AgentUnchanged
  <2> QED
    BY <2>1, <2>2, <2>3
       DEF AgentSteps, AgentReloads, StartOpenCode, AgentRestartsOpenCode
<1> QED BY <1>1, <1>2, <1>4, QuietNotice DEF AgentUnchanged

LEMMA DeliveryNotice ==
  ASSUME NoticeInv, IInv', AgentHandles \/ RequestIsLost \/ Observe
                             \/ AllowAndRestart
  PROVE  NoticeInv'
<1> USE NoticeFacts
<1>1. agent \in Agent /\ delivery \in Request /\ budget \in Budget
  BY DEF RestOK
<1>2. CASE AgentHandles
  <2>1. delivery'.record = delivery.record /\ delivery # NoRequest
    BY <1>1, <1>2 DEF AgentHandles, Request
  <2>2. ~Stale'
    BY <1>1, <1>2 DEF AgentHandles, Handled, Agent, Stale
  <2>3. budget'.edits = budget.edits
    BY <1>1, <1>2, EditsKept DEF AgentHandles
  <2> QED BY <1>2, <2>1, <2>2, <2>3, QuietNotice DEF AgentHandles, Requested
<1>3. CASE RequestIsLost
  <2>1. /\ delivery'.record = delivery.record /\ delivery # NoRequest
        /\ delivery'.answer = "failed" /\ delivery.answer = "none"
    BY <1>1, <1>3 DEF RequestIsLost, Request
  <2>2. Stale' = Stale /\ Acked' = Acked
    BY <1>3, <2>1 DEF RequestIsLost, Stale, Acked
  <2>3. budget'.edits = budget.edits
    BY <1>1, <1>3, EditsKept DEF RequestIsLost
  <2> QED BY <1>3, <2>1, <2>2, <2>3, QuietNotice DEF RequestIsLost, Requested
<1>4. CASE Observe
  <2>1. Requested(journal) /\ Acked' = Acked
    BY <1>1, <1>4, AttemptRequests DEF Observe
  <2>2. agent' = agent \/ agent' = Started
    BY <1>4 DEF Observe
  <2>3. Stale' => Stale /\ agent'.latest = agent.latest
    BY <1>4, <2>2, ReloadedKeeps DEF Observe, Stale
  <2> QED BY <1>4, <2>1, <2>3, QuietNotice DEF Observe
<1>5. CASE AllowAndRestart
  <2>1. Requested(journal) /\ Acked' = Acked
    BY <1>1, <1>5, AttemptRequests DEF AllowAndRestart
  <2>2. Stale' = Stale
    BY <1>5 DEF AllowAndRestart, Stale
  <2> QED BY <1>5, <2>1, <2>2, QuietNotice DEF AllowAndRestart
<1> QED BY <1>2, <1>3, <1>4, <1>5

-----------------------------------------------------------------------------
(* Workers                                                                 *)

(* A worker's answer, where the item it changed is empty or the agent's    *)
(* password is no older than it was or the journal tells of it.            *)
LEMMA WorkerNotice ==
  ASSUME NoticeInv, IInv', WorkerUnchanged, budget'.edits = budget.edits,
         txn' = [txn EXCEPT !.result = txn'.result], txn.step # "idle",
         Stale' => \/ Stale
                   \/ /\ agent.latest = txn.account /\ txn'.result = "ok"
                      /\ txn.step \in {"write", "create"},
         txn.step = "create" /\ txn'.result # "ok" => ~Stale',
         \/ txn.step = "inspect" /\ txn'.result \in {"neither", "savedOnly"}
         \/ txn.step = "removeNew" /\ txn'.result = "ok"
         => item'[txn.account] = 0,
         txn.step = "write" /\ txn'.result # "ok" => txn.result # "ok"
  PROVE  NoticeInv'
<1> USE NoticeFacts
<1>1. /\ app = "up" /\ journal = disk.journal /\ txn.account \in Account
      /\ editor = Untouched /\ recovery = NoRecovery
      /\ UNCHANGED <<app, journal, disk, editor, recovery, delivery, agent>>
  BY DEF NoticeInv, IInv, TxnOwns, WorkerUnchanged
<1>2. /\ txn'.step = txn.step /\ txn'.account = txn.account
      /\ txn'.generation = txn.generation
  BY DEF RestOK, Transaction
<1>3. Heeded' = Heeded /\ Acked' = Acked
  BY <1>1 DEF Heeded, Acked
<1>4. ASSUME txn.step = "write"
      PROVE  /\ journal.staged.account = txn.account
             /\ disk.plist = txn.account
  BY <1>4 DEF NoticeInv, WriteTells, Changed
<1>5. ASSUME txn.step = "create"
      PROVE  /\ Live(journal) /\ journal.migration.new = txn.account
             /\ journal.pending.account = NoAccount
  BY <1>5 DEF NoticeInv, MigrationTells, NoNotice
<1>6. Told'
  <2>1. CASE Stale
    BY <2>1, <1>1, <1>3 DEF NoticeInv, Told
  <2>2. CASE agent.latest = txn.account /\ txn.step = "write"
    BY <2>2, <1>1, <1>3, <1>4 DEF Told, Tells
  <2>3. CASE agent.latest = txn.account /\ txn.step = "create"
    <3>1. NoAccount # agent.latest
      BY JournalConstants DEF JournalConstants
    <3> QED BY <2>3, <3>1, <1>1, <1>3, <1>5 DEF Told, Tells
  <2> QED BY <2>1, <2>2, <2>3 DEF Told
<1>7. Elsewhere'
  <2>1. CASE Stale
    BY <2>1, <1>1 DEF NoticeInv, Elsewhere
  <2>2. CASE agent.latest = txn.account /\ txn.step = "write"
    BY <2>2, <1>1, <1>4 DEF Elsewhere
  <2>3. CASE agent.latest = txn.account /\ txn.step = "create"
    BY <2>3, <1>1, <1>5 DEF Elsewhere
  <2> QED BY <2>1, <2>2, <2>3 DEF Elsewhere
<1>8. WriteTells'
  <2>1. txn.step = "write" /\ Stale' /\ txn'.result # "ok" =>
          Tells(RolledBack(journal), Acked, agent.latest, Heeded)
    BY DEF NoticeInv, WriteTells
  <2> QED BY <2>1, <1>1, <1>2, <1>3 DEF NoticeInv, WriteTells
<1>9. MigrationTells'
  <2>1. txn.step # "write" /\ Stale' /\ Live(journal) =>
          agent.latest = txn.account
    BY DEF NoticeInv, MigrationTells, IInv, TypeOK, Transaction
  <2> QED BY <2>1, <1>1, <1>2 DEF NoticeInv, MigrationTells
<1>10. JournalsOrdered' /\ InFlight' /\ RecoveryTells'
  BY <1>1 DEF NoticeInv, JournalsOrdered, InFlight, RecoveryTells, NoRecovery
<1> QED
  BY <1>1, <1>6, <1>7, <1>8, <1>9, <1>10 DEF NoticeInv

LEMMA SaveWorkerNotice ==
  ASSUME NoticeInv, IInv', SaveWorker
  PROVE  NoticeInv'
<1> USE NoticeFacts
<1>1. /\ txn \in Transaction /\ item \in [Account -> 0..MaxSaves]
      /\ budget \in Budget
  BY DEF RestOK
<1>2. txn.step # "idle" =>
        /\ txn.account \in Account
        /\ txn.step # "write" => txn.old \in Account
  BY DEF NoticeInv, IInv, TxnOwns
<1>3. CASE KeychainWrites
  <2>1. /\ WorkerUnchanged /\ budget' = budget
        /\ txn.step \in {"write", "create"} /\ txn.result = "none"
        /\ \/ Answered("failed") /\ item' = item
           \/ /\ Answered("ok")
              /\ \E p : item' = [item EXCEPT ![txn.account] = p]
    BY <1>3 DEF KeychainWrites
  <2>2. agent' = agent
    BY <2>1 DEF WorkerUnchanged
  <2>3. CASE Answered("failed") /\ item' = item
    <3>1. /\ txn'.result = "failed" /\ Stale' = Stale
          /\ txn' = [txn EXCEPT !.result = txn'.result]
      BY <2>2, <2>3, <1>1 DEF Answered, Transaction, Stale
    <3>2. txn.step = "create" => ~Stale
      BY <2>1 DEF NoticeInv, MigrationTells
    <3> QED BY <2>1, <2>3, <3>1, <3>2, WorkerNotice
  <2>4. CASE /\ Answered("ok")
             /\ \E p : item' = [item EXCEPT ![txn.account] = p]
    <3>1. txn'.result = "ok" /\ txn' = [txn EXCEPT !.result = txn'.result]
      BY <2>4, <1>1 DEF Answered, Transaction
    <3>2. agent.latest # txn.account =>
            item'[agent.latest] = item[agent.latest]
      BY <2>4, <1>1
    <3>3. Stale' => Stale \/ agent.latest = txn.account
      BY <2>2, <3>2 DEF Stale
    <3> QED BY <2>1, <2>4, <3>1, <3>3, WorkerNotice
  <2> QED BY <2>1, <2>3, <2>4
<1>4. CASE KeychainRemoves
  <2> DEFINE gone == IF txn.step = "removeNew" THEN txn.account ELSE txn.old
  <2>1. /\ WorkerUnchanged /\ budget' = budget
        /\ txn.step \in {"removeNew", "removeOld"}
        /\ Answered("ok") /\ item' = [item EXCEPT ![gone] = 0]
        /\ txn.step = "removeNew" => gone = txn.account
        /\ gone \in Account
    BY <1>2, <1>4 DEF KeychainRemoves
  <2> HIDE DEF gone
  <2>2. /\ txn'.result = "ok" /\ agent' = agent
        /\ txn' = [txn EXCEPT !.result = txn'.result]
    BY <2>1, <1>1 DEF Answered, Transaction, WorkerUnchanged
  <2>3. item'[agent.latest] \in {0, item[agent.latest]} /\ item'[gone] = 0
    BY <2>1, <1>1
  <2>4. Stale' => Stale
    BY <2>2, <2>3 DEF Stale
  <2> QED BY <2>1, <2>2, <2>3, <2>4, WorkerNotice
<1>5. CASE KeychainFails
  <2>1. /\ WorkerUnchanged /\ budget'.edits = budget.edits
        /\ txn.step \notin {"idle", "inspect"} /\ txn.result = "none"
        /\ Answered("failed") /\ item' = item
    BY <1>1, <1>5, EditsKept DEF KeychainFails
  <2>2. /\ txn'.result = "failed" /\ Stale' = Stale
        /\ txn' = [txn EXCEPT !.result = txn'.result]
    BY <2>1, <1>1 DEF Answered, Transaction, WorkerUnchanged, Stale
  <2>3. txn.step = "create" => ~Stale
    BY <2>1 DEF NoticeInv, MigrationTells
  <2> QED BY <2>1, <2>2, <2>3, WorkerNotice
<1>6. CASE Inspect
  <2>1. /\ WorkerUnchanged /\ budget'.edits = budget.edits
        /\ txn.step = "inspect" /\ item' = item
        /\ \E r \in {"newAndSaved", "savedOnly", "newOnly", "neither",
                     "failed"} :
             /\ Answered(r)
             /\ r \in {"savedOnly", "neither"} => item[txn.account] = 0
    BY <1>1, <1>6, EditsKept DEF Inspect
  <2>2. /\ txn' = [txn EXCEPT !.result = txn'.result] /\ Stale' = Stale
        /\ txn'.result \in {"savedOnly", "neither"} => item[txn.account] = 0
    BY <2>1, <1>1 DEF Answered, Transaction, WorkerUnchanged, Stale
  <2> QED BY <2>1, <2>2, WorkerNotice
<1> QED BY <1>3, <1>4, <1>5, <1>6 DEF SaveWorker

LEMMA RecoveryWorkerNotice ==
  ASSUME NoticeInv, IInv', RecoveryWorker
  PROVE  NoticeInv'
<1> USE NoticeFacts
<1>1. /\ recovery \in Recovery /\ item \in [Account -> 0..MaxSaves]
      /\ budget \in Budget
  BY DEF RestOK
<1>2. /\ RecoveryWorkerUnchanged /\ recovery.step # "idle"
      /\ budget'.edits = budget.edits /\ txn = NoTxn
  BY <1>1, EditsKept
     DEF RecoveryWorker, Probe, ConfirmAndRemove, ConfirmFails, NoticeInv,
         IInv, RecoveryOwns
<1>3. /\ recovery'.step = recovery.step /\ recovery'.record = recovery.record
      /\ recovery.step \in {"probe", "reread"} /\ recovery'.result = "ok" =>
           /\ item' = item /\ recovery'.current = disk.plist
           /\ recovery'.newExists \/ item[recovery.record.new] = 0
      /\ recovery.step = "validate" /\ recovery'.result = "ok" =>
           disk.plist = recovery.record.new
      /\ recovery.step = "removeNew" /\ recovery'.result = "ok" =>
           item'[recovery.record.new] = 0
      /\ item' = item \/ \E a \in Account : item' = [item EXCEPT ![a] = 0]
  <2>1. CASE Probe
    BY <2>1, <1>1 DEF Probe, Recovery
  <2>2. CASE ConfirmAndRemove
    <3>1. /\ recovery.record.new \in Account /\ recovery.record.old \in Account
      BY <1>1, <1>2 DEF NoticeInv, IInv, RecoveryOwns, Recovery, Migration
    <3> QED
      BY <2>2, <3>1, <1>1 DEF ConfirmAndRemove, ConfirmedAccount, Recovery
  <2>3. CASE ConfirmFails
    BY <2>3, <1>1 DEF ConfirmFails, Recovery
  <2> QED BY <2>1, <2>2, <2>3 DEF RecoveryWorker
<1>4. Stale' => Stale
  <2>1. item'[agent.latest] \in {0, item[agent.latest]} /\ agent' = agent
    BY <1>1, <1>2, <1>3 DEF RecoveryWorkerUnchanged
  <2> QED BY <2>1 DEF Stale
<1>5. Heeded' = Heeded /\ Acked' = Acked
  BY <1>2 DEF Heeded, Acked, RecoveryWorkerUnchanged
<1>6. Told' /\ Elsewhere'
  BY <1>2, <1>4, <1>5 DEF NoticeInv, Told, Elsewhere, RecoveryWorkerUnchanged
<1>7. RecoveryTells'
  BY <1>2, <1>3 DEF NoticeInv, RecoveryTells, RecoveryWorkerUnchanged
<1>8. /\ JournalsOrdered' /\ InFlight' /\ WriteTells' /\ MigrationTells'
      /\ txn'.step # "idle" => editor' = Untouched
  BY <1>2 DEF NoticeInv, JournalsOrdered, InFlight, WriteTells,
              MigrationTells, NoTxn, RecoveryWorkerUnchanged
<1> QED BY <1>6, <1>7, <1>8 DEF NoticeInv

-----------------------------------------------------------------------------
(* Saves                                                                   *)

(* A store that memory agrees with and whose journals are in order.        *)
Kept(s) == GoodStore(s, budget.saves) /\ Agree(s) /\ OrderedStore(s)

LEMMA StoreIsKept ==
  ASSUME NoticeInv, app = "up"
  PROVE  Kept(Store) /\ budget.saves \in Nat
BY NoticeFacts, StoreFacts DEF Kept, NoticeInv

LEMMA PersistedKept ==
  ASSUME NEW n \in Nat, NEW s, GoodStore(s, n), Agree(s), OrderedStore(s),
         NEW j, Fine(j, n), Ordered(j), NEW out \in Outcome
  PROVE  LET p == Persisted(s, j, out)
         IN  /\ GoodStore(p, n) /\ Agree(p) /\ OrderedStore(p)
             /\ p.disk.plist = s.disk.plist
             /\ p.journal \in {s.journal, j}
             /\ out = "ok" => p.journal = j
BY PersistedFacts, PersistedOrdered DEF GoodStore, Fine

LEMMA SavedKept ==
  ASSUME NEW n \in Nat, NEW s, GoodStore(s, n), Agree(s), OrderedStore(s),
         NEW a \in Account, NEW out \in Outcome
  PROVE  LET p == Saved(s, a, out)
         IN  /\ GoodStore(p, n) /\ Agree(p) /\ OrderedStore(p)
             /\ p.journal = s.journal
             /\ p.disk.plist \in {s.disk.plist, a}
             /\ out = "ok" => p.disk.plist = a
<1> DEFINE p == Saved(s, a, out)
           d == [s.disk EXCEPT !.plist = a]
<1>1. /\ GoodStore(p, n) /\ Agree(p) /\ OrderedStore(p)
      /\ p.journal = s.journal
      /\ out = "ok" => p.disk.plist = a
  BY SavedFacts, SavedOrdered DEF GoodStore
<1>2. p.disk.plist \in {s.disk.plist, a}
  <2>1. s \in Stores /\ s.disk \in Disk /\ d \in Disk /\ d.plist = a
    BY DEF GoodStore, Stores, Disk
  <2>2. CASE s.disk.plist = a \/ out = "failed"
    <3>1. p = s
      BY <2>2 DEF Saved
    <3> QED BY <3>1
  <2>3. CASE out = "ok"
    BY <1>1, <2>3
  <2>4. CASE s.disk.plist # a /\ out = "uncertain"
    <3>1. p = [s EXCEPT !.disk = [d EXCEPT !.plists = @ \cup {s.disk.plist}]]
      BY <2>4 DEF Saved
    <3> HIDE DEF d
    <3>2. p.disk.plist = d.plist
      BY <2>1, <3>1 DEF Stores, Disk
    <3> QED BY <2>1, <3>2
  <2> QED BY <2>2, <2>3, <2>4 DEF Outcome
<1> QED BY <1>1, <1>2

(* A notice that is staged and rolled back changes nothing.                *)
LEMMA StagedRolledBackTells ==
  ASSUME NEW j \in Journal, NEW g, NEW a, NEW h, NoAccount \notin h,
         j.staged = NoNotice, Tells(j, g, a, h), NEW b,
         Staged(j, b) \in Journal
  PROVE  Tells(RolledBack(Staged(j, b)), g, a, h)
<1> DEFINE k == RolledBack(Staged(j, b))
<1>1. k.pending = j.pending /\ k.migration = j.migration
  BY StagedIs, RolledBackIs
<1> QED BY <1>1 DEF Tells, Live, NoNotice

(* A save of the account in use is of the one the agent is to be told of.  *)
LEMMA OfferedAccount ==
  ASSUME NoticeInv, CanSave, NEW op \in {"create", "update", "delete"},
         NEW a \in Account, Offers(op, a), Stale, budget.edits = 0
  PROVE  \/ Live(journal) /\ journal.migration.new = agent.latest
         \/ disk.plist = agent.latest /\ a = agent.latest
<1>1. CASE Live(disk.journal) /\ disk.journal.migration.new = agent.latest
  BY <1>1, NoticeFacts DEF CanSave
<1>2. CASE /\ disk.plist = agent.latest
           /\ editor # Untouched => editor.account = agent.latest
  <2>1. item[disk.plist] # 0
    BY <1>2 DEF Stale
  <2>2. editor = [op |-> op, account |-> a] =>
          editor # Untouched /\ editor.account = a
    BY DEF Untouched
  <2> QED BY <1>2, <2>1, <2>2 DEF Offers
<1> QED BY <1>1, <1>2 DEF NoticeInv, Elsewhere

LEMMA SaveSameAccountNotice ==
  ASSUME ~StageOver, NoticeInv, IInv',
         NEW op \in {"create", "update", "delete"},
         NEW a \in Account, NEW out1 \in Outcome, NEW out2 \in Outcome,
         SaveSameAccount(op, a, out1, out2)
  PROVE  NoticeInv'
<1> USE NoticeFacts
<1> DEFINE saved == Saved(Store, a, out1)
           j == Staged(journal, a)
           staged == Persisted(saved, j, out2)
           reached == out1 = "ok" /\ MayStage(journal)
<1>1. /\ app = "up" /\ txn = NoTxn /\ recovery = NoRecovery
      /\ journal.staged = NoNotice /\ journal = disk.journal
      /\ UNCHANGED <<app, item, recovery, status, agent>>
      /\ Offers(op, a) /\ CanSave
  BY DEF SaveSameAccount, CanSave
<1>2. /\ budget \in Budget /\ delivery \in Request
      /\ budget'.edits = budget.edits
  BY EditsKept DEF SaveSameAccount, RestOK
<1>3. /\ budget.saves < MaxSaves /\ budget'.saves = budget.saves + 1
      /\ budget.saves \in Nat
  BY <1>2, CostFacts, BudgetFacts DEF SaveSameAccount
<1>4. /\ GoodStore(saved, budget.saves) /\ Agree(saved)
      /\ OrderedStore(saved) /\ saved.journal = journal
      /\ saved.disk.plist \in {disk.plist, a}
      /\ out1 = "ok" => saved.disk.plist = a
  BY <1>1, <1>3, StoreIsKept, SavedKept DEF Kept
<1>5. /\ Ordered(j) /\ Fine(j, budget.saves + 1) /\ j \in Journal
      /\ j.generation = journal.generation + 1
      /\ j.pending = journal.pending /\ j.migration = journal.migration
      /\ j.staged = Changed(a, journal.generation + 1)
      /\ journal.generation \in Nat
  <2>1. Fine(journal, budget.saves)
    BY StoreFacts DEF NoticeInv
  <2> QED
    BY <1>3, <2>1, StagedOrdered, StagedFine, StagedIs, JournalKinds DEF Fine
<1>6. Stale => Tells(journal, Acked, agent.latest, Heeded)
  BY <1>1 DEF NoticeInv, Told
<1>7. Stale /\ budget.edits = 0 =>
        \/ Live(journal) /\ journal.migration.new = agent.latest
        \/ disk.plist = agent.latest /\ a = agent.latest
  BY <1>1, OfferedAccount
<1>8. RecoveryTells'
  BY <1>1 DEF RecoveryTells, NoRecovery
<1>9. CASE ~reached
  <2>1. /\ StoreBecomes(saved) /\ delivery' = delivery
        /\ txn' = NoTxn /\ editor' = [op |-> op, account |-> a]
    BY <1>9 DEF SaveSameAccount
  <2>2. /\ Requested(journal') /\ Acked' = Acked
        /\ journal' = journal /\ disk' = saved.disk
    BY <1>2, <1>4, <2>1, AttemptRequests DEF StoreBecomes
  <2>3. WriteTells' /\ MigrationTells' /\ txn'.step = "idle"
    BY <2>1 DEF WriteTells, MigrationTells, NoTxn
  <2>4. Stale /\ budget.edits = 0 =>
           \/ Live(journal') /\ journal'.migration.new = agent.latest
           \/ /\ disk'.plist = agent.latest
              /\ editor' # Untouched => editor'.account = agent.latest
    BY <1>4, <1>7, <2>1, <2>2
  <2> QED
    BY <1>1, <1>2, <1>4, <1>5, <1>6, <1>8, <2>1, <2>2, <2>3, <2>4, MainStep
<1>10. CASE reached
  <2>1. Announce(staged, out2)
    BY <1>10 DEF SaveSameAccount
  <2>2. /\ OrderedStore(staged) /\ staged.disk.plist = a
        /\ staged.journal \in {journal, j}
        /\ out2 = "ok" => staged.journal = j
    <3>1. GoodStore(saved, budget.saves + 1)
      BY <1>3, <1>4, FineGrows
    <3>2. saved.disk.plist = a
      BY <1>4, <1>10
    <3> QED BY <1>3, <1>4, <1>5, <3>1, <3>2, PersistedKept
  <2> HIDE DEF staged
  <2>3. /\ StoreBecomes(staged) /\ Requested(journal') /\ Acked' = Acked
        /\ journal' = staged.journal /\ disk'.plist = a
    BY <1>2, <2>1, <2>2, AnnounceRequests DEF StoreBecomes
  <2>4. Stale => Tells(journal', Acked, agent.latest, Heeded)
    BY <1>1, <1>6, <2>2, <2>3, StagedTells
  <2>5. journal.generation <= journal'.generation
    BY <1>5, <2>2, <2>3
  <2>6. /\ Live(journal') = Live(journal)
        /\ journal'.migration = journal.migration
    BY <1>5, <2>2, <2>3 DEF Live
  <2>7. CASE out2 # "ok"
    <3>1. txn' = NoTxn /\ editor' = [op |-> op, account |-> a]
      BY <1>10, <2>7 DEF SaveSameAccount
    <3>2. WriteTells' /\ MigrationTells' /\ txn'.step = "idle"
      BY <3>1 DEF WriteTells, MigrationTells, NoTxn
    <3>3. Stale /\ budget.edits = 0 =>
            \/ Live(journal') /\ journal'.migration.new = agent.latest
            \/ /\ disk'.plist = agent.latest
               /\ editor' # Untouched => editor'.account = agent.latest
      BY <1>7, <2>3, <2>6, <3>1
    <3> QED
      BY <1>1, <1>2, <1>8, <2>2, <2>3, <2>4, <2>5, <3>2, <3>3, MainStep
  <2>8. CASE out2 = "ok"
    <3>1. /\ editor' = Untouched /\ journal' = j
          /\ txn' = Running("write", op, a, NoAccount,
                            journal.generation + 1)
      BY <1>10, <2>2, <2>3, <2>8 DEF SaveSameAccount
    <3>2. /\ txn'.step = "write" /\ txn'.account = a
          /\ txn'.generation = journal.generation + 1
      BY <3>1 DEF Running
    <3>3. ~Live(journal)
      BY <1>10 DEF MayStage, Live, NoMigration
    <3>4. delivery'.record.generation # journal.generation + 1
      <4>1. delivery.record.generation <= journal.generation
            /\ delivery.record.generation \in Nat
        BY <1>2, <1>5, NoticeKinds
           DEF NoticeInv, InFlight, NoRequest, NoNotice, Request
      <4>2. j.pending = NoNotice \/ j.pending.generation <= journal.generation
        BY <1>5 DEF Ordered
      <4> QED
        BY <1>5, <2>3, <3>1, <4>1, <4>2, RequestedFacts, NoticeKinds,
           JournalKinds
    <3>5. Stale' /\ txn'.result # "ok" =>
            Tells(RolledBack(journal'), Acked', agent'.latest, Heeded')
      <4>1. Stale' = Stale /\ Heeded' = Heeded
        BY <1>1, <1>2, StaleKept
      <4> QED
        BY <1>1, <1>5, <1>6, <2>3, <3>1, <4>1, StagedRolledBackTells
    <3>6. WriteTells'
      BY <1>5, <2>3, <2>6, <3>1, <3>2, <3>3, <3>4, <3>5 DEF WriteTells
    <3>7. MigrationTells'
      BY <3>2 DEF MigrationTells
    <3>8. Stale /\ budget.edits = 0 =>
            \/ Live(journal') /\ journal'.migration.new = agent.latest
            \/ /\ disk'.plist = agent.latest
               /\ editor' # Untouched => editor'.account = agent.latest
      BY <1>7, <2>3, <2>6, <3>1
    <3> QED
      BY <1>1, <1>2, <1>8, <2>2, <2>3, <2>4, <2>5, <3>1, <3>6, <3>7, <3>8,
         MainStep
  <2> QED BY <2>7, <2>8
<1> QED BY <1>9, <1>10

LEMMA SaveConfigurationNotice ==
  ASSUME NoticeInv, IInv', NEW a \in Account, NEW out \in Outcome,
         SaveConfiguration(a, out)
  PROVE  NoticeInv'
<1> USE NoticeFacts
<1> DEFINE saved == Saved(Store, a, out)
<1>1. /\ app = "up" /\ txn = NoTxn /\ recovery = NoRecovery
      /\ journal = disk.journal /\ item[disk.plist] = 0
      /\ StoreBecomes(saved)
      /\ UNCHANGED <<app, item, editor, txn, recovery, delivery, agent>>
  BY DEF SaveConfiguration, CanSave
<1>2. /\ delivery \in Request /\ budget'.edits = budget.edits
  BY EditsKept DEF SaveConfiguration, RestOK
<1>3. OrderedStore(saved) /\ saved.journal = journal
  BY <1>1, StoreIsKept, SavedKept DEF Kept
<1>4. Requested(journal') /\ Acked' = Acked /\ journal' = journal
  BY <1>1, <1>2, <1>3, AttemptRequests DEF StoreBecomes
<1>5. Stale => Tells(journal, Acked, agent.latest, Heeded)
  BY <1>1 DEF NoticeInv, Told
<1>6. Stale /\ budget.edits = 0 =>
        Live(journal) /\ journal.migration.new = agent.latest
  BY <1>1 DEF NoticeInv, Elsewhere, Stale
<1>7. /\ WriteTells' /\ MigrationTells' /\ RecoveryTells'
      /\ txn'.step = "idle"
  BY <1>1 DEF WriteTells, MigrationTells, RecoveryTells, NoTxn, NoRecovery
<1>8. journal.generation <= journal'.generation
  BY <1>4, JournalKinds
<1> QED
  BY <1>1, <1>2, <1>3, <1>4, <1>5, <1>6, <1>7, <1>8, MainStep

(* Nothing is outstanding, so no agent is to be told of anything.          *)
LEMMA NothingToTell ==
  ASSUME NoticeInv, app = "up", ~Outstanding(journal)
  PROVE  ~Stale
<1>1. ~Tells(journal, Acked, agent.latest, Heeded)
  BY NoticeFacts DEF Tells, Outstanding, Live, NoNotice
<1> QED BY <1>1, NoticeFacts DEF NoticeInv, Told

LEMMA SaveMigrationNotice ==
  ASSUME NoticeInv, IInv', NEW a \in Account, NEW out \in Outcome,
         SaveMigration(a, out)
  PROVE  NoticeInv'
<1> USE NoticeFacts
<1> DEFINE j == MigrationStaged(journal, disk.plist, a)
           staged == Persisted(Store, j, out)
<1>1. /\ app = "up" /\ recovery = NoRecovery /\ editor' = Untouched
      /\ journal = disk.journal /\ MayStageMigration(journal)
      /\ disk.plist # a /\ disk.plist \in Account
      /\ Announce(staged, out)
      /\ UNCHANGED <<app, item, recovery, agent>>
  BY DEF SaveMigration, CanSave, Disk
<1>2. /\ delivery \in Request /\ budget \in Budget
      /\ budget'.edits = budget.edits
  BY EditsKept DEF SaveMigration, RestOK
<1>3. /\ budget.saves < MaxSaves /\ budget.saves \in Nat
  BY <1>2, CostFacts, BudgetFacts DEF SaveMigration
<1>4. /\ Ordered(j) /\ Fine(j, budget.saves + 1)
      /\ j.generation = journal.generation + 1
      /\ j.pending = NoNotice /\ j.staged = NoNotice
      /\ j.migration.generation = journal.generation + 1
      /\ j.migration.new = a /\ Live(j)
      /\ journal.generation \in Nat
  <2>1. Fine(journal, budget.saves)
    BY StoreFacts DEF NoticeInv
  <2>2. Fine(j, budget.saves + 1) /\ Ordered(j)
    BY <1>1, <1>3, <2>1, MigrationStagedFine, MigrationStagedOrdered
  <2>3. /\ j.generation = journal.generation + 1
        /\ j.pending = journal.pending /\ j.staged = journal.staged
        /\ j.migration.generation = journal.generation + 1
        /\ j.migration.new = a /\ Live(j)
    BY MigrationStagedIs
  <2> QED BY <1>1, <2>2, <2>3, JournalKinds DEF MayStageMigration
<1> HIDE DEF j
<1>5. OrderedStore(staged) /\ staged.journal \in {journal, j}
      /\ (out = "ok" => staged.journal = j)
  <2>1. GoodStore(Store, budget.saves + 1) /\ Agree(Store)
    BY <1>1, <1>3, StoreIsKept, FineGrows DEF Kept
  <2> QED BY <1>3, <1>4, <2>1, PersistedKept
<1> HIDE DEF staged
<1>6. /\ StoreBecomes(staged) /\ Requested(journal') /\ Acked' = Acked
      /\ journal' = staged.journal
  BY <1>1, <1>2, AnnounceRequests DEF StoreBecomes
<1>7. ~Stale
  BY <1>1, NothingToTell DEF MayStageMigration, Outstanding, NoMigration
<1>8. RecoveryTells' /\ journal.generation <= journal'.generation
  BY <1>1, <1>4, <1>5, <1>6 DEF RecoveryTells, NoRecovery
<1>9. CASE out # "ok"
  <2>1. txn' = NoTxn
    BY <1>9 DEF SaveMigration
  <2>2. WriteTells' /\ MigrationTells' /\ txn'.step = "idle"
    BY <2>1 DEF WriteTells, MigrationTells, NoTxn
  <2> QED BY <1>1, <1>2, <1>5, <1>6, <1>7, <1>8, <2>2, MainStep
<1>10. CASE out = "ok"
  <2>1. /\ txn' = Running("create", "create", a, disk.plist,
                          journal.generation + 1)
        /\ journal' = j
    BY <1>5, <1>6, <1>10 DEF SaveMigration
  <2>2. txn'.step = "create" /\ txn'.account = a
    BY <2>1 DEF Running
  <2>3. delivery'.record.generation # journal.generation + 1
    <3>1. delivery.record.generation <= journal.generation
          /\ delivery.record.generation \in Nat
      BY <1>2, <1>4, NoticeKinds
         DEF NoticeInv, InFlight, NoRequest, NoNotice, Request
    <3>2. j \in Journal
      BY <1>4 DEF Fine
    <3> QED BY <1>4, <1>6, <2>1, <3>1, <3>2, RequestedFacts
  <2>4. ~Stale'
    BY <1>1, <1>2, <1>7, StaleKept
  <2>5. MigrationTells'
    BY <1>4, <2>1, <2>2, <2>3, <2>4 DEF MigrationTells
  <2>6. WriteTells'
    BY <2>2 DEF WriteTells
  <2> QED BY <1>1, <1>2, <1>5, <1>6, <1>7, <1>8, <2>5, <2>6, MainStep
<1> QED BY <1>9, <1>10

-----------------------------------------------------------------------------
(* The main thread goes on with a save                                     *)

LEMMA AckedFacts ==
  ASSUME NoticeInv
  PROVE  Acked = 0 \/ Acked = delivery.record.generation
BY DEF Acked

LEMMA SaveFacts ==
  ASSUME NoticeInv, txn.step # "idle"
  PROVE  /\ app = "up" /\ recovery = NoRecovery /\ editor = Untouched
         /\ journal = disk.journal /\ txn.account \in Account
         /\ txn \in Transaction /\ 0 < txn.generation
         /\ budget \in Budget /\ delivery \in Request
         /\ budget.saves \in Nat /\ Fine(journal, budget.saves)
         /\ Kept(Store) /\ Store.journal = journal /\ Store.disk = disk
         /\ Stale => Tells(journal, Acked, agent.latest, Heeded)
<1>1. app = "up" /\ recovery = NoRecovery /\ txn.account \in Account
      /\ 0 < txn.generation
  BY DEF NoticeInv, IInv, TxnOwns
<1>2. budget.saves \in Nat /\ Fine(journal, budget.saves)
  BY StoreFacts DEF NoticeInv
<1>3. Kept(Store)
  BY <1>1, StoreIsKept
<1> QED BY <1>1, <1>2, <1>3, NoticeFacts DEF NoticeInv, Told, RestOK

(* A save that ends, whatever it leaves in the journal.                    *)
LEMMA SaveEndsNotice ==
  ASSUME NoticeInv, IInv', txn.step # "idle", txn' = NoTxn,
         UNCHANGED <<app, item, editor, recovery, agent>>,
         budget'.edits = budget.edits,
         NEW s, NEW out, Announce(s, out), OrderedStore(s),
         journal.generation <= s.journal.generation,
         Stale => Tells(s.journal, Acked, agent.latest, Heeded),
         Stale /\ budget.edits = 0 =>
           \/ Live(s.journal) /\ s.journal.migration.new = agent.latest
           \/ s.disk.plist = agent.latest
  PROVE  NoticeInv'
<1>1. /\ StoreBecomes(s) /\ Requested(journal') /\ Acked' = Acked
      /\ journal' = s.journal /\ disk' = s.disk
  BY SaveFacts, AnnounceRequests DEF StoreBecomes
<1>2. WriteTells' /\ MigrationTells' /\ RecoveryTells' /\ txn'.step = "idle"
  BY SaveFacts
     DEF WriteTells, MigrationTells, RecoveryTells, NoTxn, NoRecovery
<1> QED BY <1>1, <1>2, SaveFacts, MainStep

(* The migration ends: its new item is gone, or its notice was committed.  *)
LEMMA MigrationEndsNotice ==
  ASSUME NoticeInv, IInv', txn.step # "idle", txn.step # "write",
         txn' = NoTxn, UNCHANGED <<app, item, editor, recovery, agent>>,
         budget'.edits = budget.edits,
         NEW out \in Outcome, MigrationEnds(out), Stale => ~Live(journal)
  PROVE  NoticeInv'
<1> DEFINE j == WithoutMigration(journal)
           s == Persisted(Store, j, out)
<1> USE SaveFacts
<1>1. /\ Fine(j, budget.saves) /\ Ordered(j)
      /\ j.generation = journal.generation /\ journal.generation \in Nat
  BY NoticeFacts, WithoutMigrationFine, WithoutMigrationOrdered,
     WithoutMigrationIs, JournalKinds
<1>2. Stale => Tells(j, Acked, agent.latest, Heeded)
  BY NoticeFacts, WithoutMigrationTells
<1> HIDE DEF j
<1>3. /\ OrderedStore(s) /\ s.disk.plist = disk.plist
      /\ s.journal \in {journal, j}
  BY <1>1, PersistedKept DEF Kept
<1>4. Announce(s, out)
  BY DEF MigrationEnds, j
<1> HIDE DEF s
<1>5. Stale /\ budget.edits = 0 => s.disk.plist = agent.latest
  BY <1>3 DEF NoticeInv, Elsewhere
<1> QED BY <1>1, <1>2, <1>3, <1>4, <1>5, SaveEndsNotice

LEMMA StoreEndsNotice ==
  ASSUME NoticeInv, IInv', txn.step # "idle",
         txn' = NoTxn, UNCHANGED <<app, item, editor, recovery, agent>>,
         budget'.edits = budget.edits, Announce(Store, "ok")
  PROVE  NoticeInv'
<1>1. Stale /\ budget.edits = 0 =>
        \/ Live(journal) /\ journal.migration.new = agent.latest
        \/ disk.plist = agent.latest
  BY SaveFacts DEF NoticeInv, Elsewhere
<1>2. journal.generation <= journal.generation
  BY NoticeFacts, JournalKinds
<1> QED BY <1>1, <1>2, SaveFacts, SaveEndsNotice DEF Kept

LEMMA FinishWriteNotice ==
  ASSUME NoticeInv, IInv', NEW out \in Outcome, FinishWrite(out)
  PROVE  NoticeInv'
<1> USE SaveFacts
<1> DEFINE notice == IF txn.op = "delete" THEN "removed" ELSE "changed"
           j == IF txn.result = "ok" THEN Committed(journal, notice)
                                     ELSE RolledBack(journal)
           s == Persisted(Store, j, out)
<1>1. /\ txn.step = "write" /\ txn' = NoTxn
      /\ UNCHANGED <<app, item, recovery, status, agent>>
      /\ budget'.edits = budget.edits
      /\ editor' # Untouched => editor'.account = txn.account
  BY EditsKept DEF FinishWrite
<1>2. /\ disk.plist = txn.account /\ ~Live(journal)
      /\ journal.staged = Changed(txn.account, txn.generation)
      /\ delivery.record.generation # txn.generation
      /\ Stale /\ txn.result # "ok" =>
           Tells(RolledBack(journal), Acked, agent.latest, Heeded)
  BY <1>1 DEF NoticeInv, WriteTells
<1>3. /\ journal.staged.account = txn.account
      /\ journal.staged.generation = txn.generation
      /\ journal.staged # NoNotice
  BY <1>1, <1>2, JournalConstants DEF Changed, NoNotice, JournalConstants
<1>4. Announce(s, out)
  BY <1>1, <1>3 DEF FinishWrite
<1>5. notice \in {"changed", "removed"}
  OBVIOUS
<1> HIDE DEF notice
<1>6. /\ Fine(j, budget.saves) /\ Ordered(j)
      /\ j.generation = journal.generation
      /\ j.migration = journal.migration
  <2>1. CASE txn.result = "ok"
    <3>1. j = Committed(journal, notice)
      BY <2>1
    <3>2. journal \in Journal /\ Ordered(journal)
      BY NoticeFacts
    <3> HIDE DEF j
    <3>3. Fine(j, budget.saves)
      BY <1>1, <1>3, <1>5, <3>1, CommittedFine
    <3>4. Ordered(j)
      BY <1>3, <3>1, <3>2, CommittedOrdered
    <3> QED BY <3>1, <3>2, <3>3, <3>4, CommittedIs
  <2>2. CASE txn.result # "ok"
    <3>1. j = RolledBack(journal)
      BY <2>2
    <3>2. journal \in Journal /\ Ordered(journal)
      BY NoticeFacts
    <3> HIDE DEF j
    <3>3. Fine(j, budget.saves)
      BY <1>1, <3>1, RolledBackFine
    <3> QED BY <3>1, <3>2, <3>3, RolledBackOrdered, RolledBackIs
  <2> QED BY <2>1, <2>2
<1>7. Stale /\ budget.edits = 0 => agent.latest = txn.account
  BY <1>1, <1>2 DEF NoticeInv, Elsewhere
<1>8. Stale => Tells(j, Acked, agent.latest, Heeded)
  <2>1. CASE txn.result # "ok"
    BY <1>2, <2>1
  <2>2. CASE txn.result = "ok"
    <3>1. Stale => txn.account \in Heeded
      BY <1>1, <1>7 DEF Heeded
    <3>2. txn.generation # Acked
      BY <1>1, <1>2, AckedFacts
    <3>3. j = Committed(journal, notice)
      BY <2>2
    <3> QED BY <1>3, <3>1, <3>2, <3>3, NoticeFacts, CommittedTells
  <2> QED BY <2>1, <2>2
<1> HIDE DEF j
<1>9. /\ OrderedStore(s) /\ s.disk.plist = disk.plist
      /\ s.journal \in {journal, j}
  BY <1>1, <1>6, PersistedKept DEF Kept
<1> HIDE DEF s
<1>10. /\ StoreBecomes(s) /\ Requested(journal') /\ Acked' = Acked
       /\ journal' = s.journal /\ disk' = s.disk
  BY <1>1, <1>4, AnnounceRequests DEF StoreBecomes
<1>11. WriteTells' /\ MigrationTells' /\ RecoveryTells' /\ txn'.step = "idle"
  BY <1>1 DEF WriteTells, MigrationTells, RecoveryTells, NoTxn, NoRecovery
<1>12. /\ Stale => Tells(journal', Acked, agent.latest, Heeded)
       /\ journal.generation <= journal'.generation
  BY <1>1, <1>6, <1>8, <1>9, <1>10, NoticeFacts, JournalKinds
<1>13. Stale /\ budget.edits = 0 =>
         /\ disk'.plist = agent.latest
         /\ editor' # Untouched => editor'.account = agent.latest
  BY <1>1, <1>2, <1>7, <1>9, <1>10
<1> QED BY <1>1, <1>9, <1>10, <1>11, <1>12, <1>13, MainStep

(* The new item is in service: its notice is committed before the old item *)
(* is removed.                                                             *)
LEMMA ConfigurationCommittedNotice ==
  ASSUME NoticeInv, IInv', txn.step \in {"create", "inspect"},
         UNCHANGED <<app, item, editor, recovery, agent>>,
         budget'.edits = budget.edits,
         NEW s, GoodStore(s, budget.saves), Agree(s), OrderedStore(s),
         s.disk.plist = txn.account,
         s.journal.generation = journal.generation,
         s.journal.pending = NoNotice, s.journal.staged = NoNotice,
         s.journal.migration.generation = journal.migration.generation,
         s.journal.migration.new = txn.account, Live(s.journal),
         NEW out1 \in Outcome, NEW out2 \in Outcome,
         ConfigurationCommitted(s, out1, out2)
  PROVE  NoticeInv'
<1> USE SaveFacts
<1> DEFINE i == InPhase(s.journal, "configurationSaved")
           m == Persisted(s, i, out1)
           k == MigrationCommitted(m.journal)
           c == Persisted(m, k, out2)
<1>1. /\ Stale => agent.latest = txn.account
      /\ delivery.record.generation # journal.migration.generation
  BY DEF NoticeInv, MigrationTells
<1>2. /\ s.journal \in Journal /\ Fine(s.journal, budget.saves)
      /\ Ordered(s.journal) /\ s.journal.migration # NoMigration
  BY JournalKinds DEF GoodStore, OrderedStore, Fine
<1>3. /\ Fine(i, budget.saves) /\ Ordered(i) /\ i.migration # NoMigration
      /\ i.generation = journal.generation
      /\ i.pending = NoNotice /\ i.staged = NoNotice
      /\ i.migration.generation = journal.migration.generation
      /\ i.migration.new = txn.account
      /\ i.migration.phase = "configurationSaved"
  BY <1>2, InPhaseFine, InPhaseOrdered, InPhaseIs
<1>4. Live(i)
  BY <1>3 DEF Live
<1> HIDE DEF i
<1>5. /\ GoodStore(m, budget.saves) /\ Agree(m) /\ OrderedStore(m)
      /\ m.disk.plist = txn.account /\ m.journal \in {s.journal, i}
      /\ out1 = "ok" => m.journal = i
  BY <1>3, PersistedKept
<1> HIDE DEF m
<1>6. /\ m.journal \in Journal /\ Fine(m.journal, budget.saves)
      /\ Ordered(m.journal) /\ m.journal.migration # NoMigration
      /\ m.journal.generation = journal.generation
      /\ m.journal.pending = NoNotice /\ m.journal.staged = NoNotice
      /\ m.journal.migration.generation = journal.migration.generation
      /\ m.journal.migration.new = txn.account /\ Live(m.journal)
  BY <1>2, <1>3, <1>4, <1>5 DEF Fine
<1>7. Stale => Tells(m.journal, Acked, agent.latest, Heeded)
  <2>1. NoNotice.account # txn.account
    BY JournalConstants DEF NoNotice, JournalConstants
  <2> QED BY <1>1, <1>6, <2>1 DEF Tells
<1>8. journal.generation <= m.journal.generation
  BY <1>6, NoticeFacts, JournalKinds
<1>9. CASE out1 # "ok"
  <2>1. Announce(m, out1) /\ txn' = NoTxn
    BY <1>9 DEF ConfigurationCommitted, m, i
  <2> QED BY <1>1, <1>5, <1>6, <1>7, <1>8, <2>1, SaveEndsNotice
<1>10. CASE out1 = "ok"
  <2>1. MayCommitMigration(m.journal)
    BY <1>3, <1>5, <1>10 DEF MayCommitMigration
  <2>2. /\ Announce(c, out2)
        /\ txn' = IF out2 = "ok" THEN Goes("removeOld") ELSE NoTxn
    BY <1>10, <2>1 DEF ConfigurationCommitted, m, i
  <2>3. /\ Fine(k, budget.saves) /\ Ordered(k)
        /\ k.generation = journal.generation /\ ~Live(k)
        /\ k.migration.new = txn.account
    BY <1>6, MigrationCommittedFine, MigrationCommittedOrdered,
       MigrationCommittedIs
  <2>4. Stale => Tells(k, Acked, agent.latest, Heeded)
    <3>1. Acked # journal.migration.generation
      BY <1>1, <1>6, AckedFacts DEF Ordered
    <3> QED BY <1>6, <1>7, <3>1, NoticeFacts, MigrationCommittedTells
  <2> HIDE DEF k
  <2>5. /\ OrderedStore(c) /\ c.disk.plist = txn.account
        /\ c.journal \in {m.journal, k}
        /\ out2 = "ok" => c.journal = k
    BY <1>5, <2>3, PersistedKept
  <2> HIDE DEF c
  <2>6. /\ Stale => Tells(c.journal, Acked, agent.latest, Heeded)
        /\ journal.generation <= c.journal.generation
    BY <1>6, <1>7, <1>8, <2>3, <2>4, <2>5
  <2>7. CASE out2 # "ok"
    BY <1>1, <2>2, <2>5, <2>6, <2>7, SaveEndsNotice
  <2>8. CASE out2 = "ok"
    <3>1. txn'.step = "removeOld" /\ txn'.account = txn.account
      BY <2>2, <2>8 DEF Goes, Transaction
    <3>2. /\ StoreBecomes(c) /\ Requested(journal') /\ Acked' = Acked
          /\ journal' = k /\ disk' = c.disk
      BY <2>2, <2>5, <2>8, AnnounceRequests DEF StoreBecomes
    <3>3. WriteTells' /\ MigrationTells' /\ RecoveryTells'
      BY <2>3, <3>1, <3>2
         DEF WriteTells, MigrationTells, RecoveryTells, NoRecovery
    <3>4. journal' = c.journal
      BY <2>5, <2>8, <3>2
    <3> QED BY <1>1, <2>5, <2>6, <3>2, <3>3, <3>4, MainStep
  <2> QED BY <2>7, <2>8
<1> QED BY <1>9, <1>10

LEMMA MigrationFacts ==
  ASSUME NoticeInv, txn.step \in {"create", "inspect"}
  PROVE  /\ journal.pending = NoNotice /\ journal.staged = NoNotice
         /\ Live(journal) /\ journal.migration.new = txn.account
         /\ journal.migration # NoMigration
         /\ delivery.record.generation # journal.migration.generation
         /\ Stale => agent.latest = txn.account
         /\ txn.step = "create" /\ txn.result # "ok" => ~Stale
         /\ journal \in Journal /\ Ordered(journal)
         /\ journal.generation \in Nat
<1>1. /\ journal.pending = NoNotice /\ journal.staged = NoNotice
      /\ Live(journal) /\ journal.migration.new = txn.account
      /\ delivery.record.generation # journal.migration.generation
      /\ Stale => agent.latest = txn.account
      /\ txn.step = "create" /\ txn.result # "ok" => ~Stale
  BY DEF NoticeInv, MigrationTells
<1>2. journal \in Journal /\ Ordered(journal)
  BY NoticeFacts
<1> QED BY <1>1, <1>2, JournalKinds

(* A phase is recorded and the migration stays live.                       *)
LEMMA PhaseKept ==
  ASSUME NoticeInv, txn.step \in {"create", "inspect"},
         NEW phase \in {"newCredentialReady", "cleanupNew"},
         NEW out \in Outcome
  PROVE  LET i == InPhase(journal, phase)
             s == Persisted(Store, i, out)
         IN  /\ GoodStore(s, budget.saves) /\ Agree(s) /\ OrderedStore(s)
             /\ s.disk.plist = disk.plist
             /\ s.journal.generation = journal.generation
             /\ s.journal.pending = NoNotice /\ s.journal.staged = NoNotice
             /\ s.journal.migration.generation = journal.migration.generation
             /\ s.journal.migration.new = txn.account /\ Live(s.journal)
             /\ Stale => Tells(s.journal, Acked, agent.latest, Heeded)
<1> DEFINE i == InPhase(journal, phase)
           s == Persisted(Store, i, out)
<1> USE SaveFacts, MigrationFacts
<1>1. /\ Fine(i, budget.saves) /\ Ordered(i)
      /\ i.generation = journal.generation
      /\ i.pending = NoNotice /\ i.staged = NoNotice
      /\ i.migration.generation = journal.migration.generation
      /\ i.migration.new = txn.account /\ i.migration.phase = phase
  BY InPhaseFine, InPhaseOrdered, InPhaseIs
<1>2. Live(i)
  BY <1>1 DEF Live
<1>3. Stale => Tells(i, Acked, agent.latest, Heeded)
  BY InPhaseTells
<1> HIDE DEF i
<1>4. /\ GoodStore(s, budget.saves) /\ Agree(s) /\ OrderedStore(s)
      /\ s.disk.plist = disk.plist /\ s.journal \in {journal, i}
  BY <1>1, PersistedKept DEF Kept
<1> HIDE DEF s
<1>5. /\ s.journal.generation = journal.generation
      /\ s.journal.pending = NoNotice /\ s.journal.staged = NoNotice
      /\ s.journal.migration.generation = journal.migration.generation
      /\ s.journal.migration.new = txn.account /\ Live(s.journal)
      /\ Stale => Tells(s.journal, Acked, agent.latest, Heeded)
  BY <1>1, <1>2, <1>3, <1>4
<1> QED BY <1>4, <1>5 DEF s, i

(* The save goes on with a live migration.                                 *)
LEMMA SaveGoesOnNotice ==
  ASSUME NoticeInv, IInv', txn.step \in {"create", "inspect"},
         NEW step \in {"inspect", "removeNew"}, txn' = Goes(step),
         UNCHANGED <<app, item, editor, recovery, agent>>,
         budget'.edits = budget.edits,
         NEW s, NEW out, Announce(s, out), OrderedStore(s),
         s.journal.generation = journal.generation,
         s.journal.pending = NoNotice, s.journal.staged = NoNotice,
         s.journal.migration.generation = journal.migration.generation,
         s.journal.migration.new = txn.account, Live(s.journal),
         Stale => Tells(s.journal, Acked, agent.latest, Heeded)
  PROVE  NoticeInv'
<1> USE SaveFacts, MigrationFacts
<1>1. /\ txn'.step = step /\ txn'.account = txn.account
      /\ txn'.result = "none"
  BY DEF Goes, Transaction
<1>2. /\ StoreBecomes(s) /\ Requested(journal') /\ Acked' = Acked
      /\ journal' = s.journal /\ disk' = s.disk
  BY AnnounceRequests DEF StoreBecomes
<1>3. delivery'.record.generation # journal'.migration.generation
  BY <1>2 DEF Requested
<1>4. Stale' = Stale /\ agent' = agent
  BY StaleKept
<1>5. MigrationTells'
  BY <1>1, <1>2, <1>3, <1>4 DEF MigrationTells
<1>6. WriteTells' /\ RecoveryTells'
  BY <1>1 DEF WriteTells, RecoveryTells, NoRecovery
<1> QED BY <1>2, <1>5, <1>6, MainStep

LEMMA FinishCreateNotice ==
  ASSUME NoticeInv, IInv', NEW out1 \in Outcome, NEW out2 \in Outcome,
         NEW out3 \in Outcome, NEW out4 \in Outcome,
         FinishCreate(out1, out2, out3, out4)
  PROVE  NoticeInv'
<1> DEFINE ready == Persisted(Store, InPhase(journal, "newCredentialReady"),
                              out1)
           saved == Saved(ready, txn.account, out2)
<1>1. /\ txn.step = "create"
      /\ UNCHANGED <<app, item, editor, recovery, agent>>
  BY DEF FinishCreate
<1> USE SaveFacts, MigrationFacts
<1>2. budget'.edits = budget.edits
  BY <1>1, EditsKept DEF FinishCreate
<1>3. /\ GoodStore(ready, budget.saves) /\ Agree(ready)
      /\ OrderedStore(ready) /\ ready.disk.plist = disk.plist
      /\ ready.journal.generation = journal.generation
      /\ ready.journal.pending = NoNotice
      /\ ready.journal.staged = NoNotice
      /\ ready.journal.migration.generation = journal.migration.generation
      /\ ready.journal.migration.new = txn.account /\ Live(ready.journal)
      /\ Stale => Tells(ready.journal, Acked, agent.latest, Heeded)
  BY <1>1, PhaseKept
<1> HIDE DEF ready
<1>4. /\ GoodStore(saved, budget.saves) /\ Agree(saved)
      /\ OrderedStore(saved) /\ saved.journal = ready.journal
      /\ out2 = "ok" => saved.disk.plist = txn.account
  BY <1>1, <1>3, SavedKept
<1> HIDE DEF saved
<1>5. CASE txn.result = "failed"
  <2>1. MigrationEnds(out1) /\ txn' = NoTxn
    BY <1>5 DEF FinishCreate
  <2> QED BY <1>1, <1>2, <1>5, <2>1, MigrationEndsNotice
<1>6. CASE txn.result = "ok" /\ out1 # "ok"
  <2>1. Announce(ready, out1) /\ txn' = NoTxn
    BY <1>6 DEF FinishCreate, ready
  <2> QED BY <1>1, <1>2, <1>3, <2>1, SaveEndsNotice
<1>7. CASE txn.result = "ok" /\ out1 = "ok" /\ out2 # "ok"
  <2>1. Announce(saved, "ok") /\ txn' = Goes("inspect")
    BY <1>7 DEF FinishCreate, saved, ready
  <2> QED BY <1>1, <1>2, <1>3, <1>4, <2>1, SaveGoesOnNotice
<1>8. CASE /\ txn.result # "failed"
           /\ ~(txn.result = "ok" /\ out1 # "ok")
           /\ ~(txn.result = "ok" /\ out1 = "ok" /\ out2 # "ok")
  <2>1. ConfigurationCommitted(saved, out3, out4)
    BY <1>8 DEF FinishCreate, saved, ready
  <2>2. txn.result = "ok" /\ out2 = "ok"
    BY <1>1, <1>8 DEF FinishCreate, NoticeInv, IInv, TxnOwns
  <2> QED
    BY <1>1, <1>2, <1>3, <1>4, <2>1, <2>2, ConfigurationCommittedNotice
<1> QED BY <1>5, <1>6, <1>7, <1>8

LEMMA FinishInspectNotice ==
  ASSUME NoticeInv, IInv', NEW out1 \in Outcome, NEW out2 \in Outcome,
         FinishInspect(out1, out2)
  PROVE  NoticeInv'
<1>1. /\ txn.step = "inspect"
      /\ UNCHANGED <<app, item, editor, recovery, agent>>
  BY DEF FinishInspect
<1> USE SaveFacts, MigrationFacts
<1>2. budget'.edits = budget.edits
  BY <1>1, EditsKept DEF FinishInspect
<1>3. CASE txn.result \in {"failed", "savedOnly"}
  <2>1. Announce(Store, "ok") /\ txn' = NoTxn
    BY <1>3 DEF FinishInspect
  <2> QED BY <1>1, <1>2, <2>1, StoreEndsNotice
<1>4. CASE txn.result = "neither"
  <2>1. MigrationEnds(out1) /\ txn' = NoTxn
    BY <1>4 DEF FinishInspect
  <2>2. item[txn.account] = 0
    BY <1>1, <1>4 DEF NoticeInv, MigrationTells
  <2>3. ~Stale
    BY <1>1, <2>2 DEF Stale
  <2> QED BY <1>1, <1>2, <2>1, <2>3, MigrationEndsNotice
<1>5. CASE txn.result = "newOnly"
  <2> DEFINE s == Persisted(Store, InPhase(journal, "cleanupNew"), out1)
  <2>1. /\ Announce(s, out1)
        /\ txn' = IF out1 = "ok" THEN Goes("removeNew") ELSE NoTxn
    BY <1>5 DEF FinishInspect
  <2>2. /\ OrderedStore(s)
        /\ s.journal.generation = journal.generation
        /\ s.journal.pending = NoNotice /\ s.journal.staged = NoNotice
        /\ s.journal.migration.generation = journal.migration.generation
        /\ s.journal.migration.new = txn.account /\ Live(s.journal)
        /\ Stale => Tells(s.journal, Acked, agent.latest, Heeded)
    BY <1>1, PhaseKept
  <2> HIDE DEF s
  <2>3. CASE out1 = "ok"
    BY <1>1, <1>2, <2>1, <2>2, <2>3, SaveGoesOnNotice
  <2>4. CASE out1 # "ok"
    BY <1>1, <1>2, <2>1, <2>2, <2>4, SaveEndsNotice
  <2> QED BY <2>3, <2>4
<1>6. CASE txn.result = "newAndSaved"
  <2>1. ConfigurationCommitted(Store, out1, out2)
    BY <1>6 DEF FinishInspect
  <2>2. disk.plist = txn.account
    BY <1>1, <1>6 DEF NoticeInv, IInv, TxnOwns
  <2> QED
    BY <1>1, <1>2, <2>1, <2>2, ConfigurationCommittedNotice DEF Kept
<1>7. txn.result \in {"failed", "savedOnly", "neither", "newOnly",
                      "newAndSaved"}
  BY <1>1 DEF FinishInspect, NoticeInv, IInv, TxnOwns, Transaction
<1> QED BY <1>3, <1>4, <1>5, <1>6, <1>7

LEMMA FinishRemovalNotice ==
  ASSUME NoticeInv, IInv', NEW out \in Outcome, FinishRemoval(out)
  PROVE  NoticeInv'
<1>1. /\ txn.step \in {"removeNew", "removeOld"} /\ txn' = NoTxn
      /\ UNCHANGED <<app, item, editor, recovery, agent>>
  BY DEF FinishRemoval
<1>2. budget'.edits = budget.edits
  BY <1>1, SaveFacts, EditsKept DEF FinishRemoval
<1>3. CASE txn.result = "ok"
  <2>1. MigrationEnds(out)
    BY <1>3 DEF FinishRemoval
  <2>2. Stale => ~Live(journal)
    <3>1. CASE txn.step = "removeOld"
      BY <3>1 DEF NoticeInv, MigrationTells
    <3>2. CASE txn.step = "removeNew"
      <4>1. item[txn.account] = 0
        BY <1>3, <3>2 DEF NoticeInv, MigrationTells
      <4>2. Stale /\ Live(journal) => agent.latest = txn.account
        BY <3>2 DEF NoticeInv, MigrationTells
      <4> QED BY <4>1, <4>2 DEF Stale
    <3> QED BY <1>1, <3>1, <3>2
  <2> QED BY <1>1, <1>2, <2>1, <2>2, MigrationEndsNotice
<1>4. CASE txn.result # "ok"
  <2>1. Announce(Store, "ok")
    BY <1>4 DEF FinishRemoval
  <2> QED BY <1>1, <1>2, <2>1, StoreEndsNotice
<1> QED BY <1>3, <1>4

-----------------------------------------------------------------------------
(* Recovery                                                                *)

LEMMA RecoveryFacts ==
  ASSUME NoticeInv, recovery.step # "idle"
  PROVE  /\ app = "up" /\ txn = NoTxn /\ editor = Untouched
         /\ journal = disk.journal /\ journal.migration # NoMigration
         /\ Live(journal) <=> journal.migration.phase # "cleanupOld"
         /\ journal.migration.new = recovery.record.new
         /\ recovery \in Recovery
         /\ journal \in Journal /\ Ordered(journal)
         /\ journal.generation \in Nat
         /\ budget \in Budget /\ delivery \in Request
         /\ budget.saves \in Nat /\ Fine(journal, budget.saves)
         /\ Kept(Store) /\ Store.journal = journal /\ Store.disk = disk
         /\ Stale => Tells(journal, Acked, agent.latest, Heeded)
<1>1. /\ app = "up" /\ txn = NoTxn /\ editor = Untouched
      /\ journal.migration # NoMigration
      /\ journal.migration.new = recovery.record.new
  BY DEF NoticeInv, IInv, RecoveryOwns, RecoveryTells
<1>2. /\ budget.saves \in Nat /\ Fine(journal, budget.saves)
  BY StoreFacts DEF NoticeInv
<1>3. Kept(Store)
  BY <1>1, StoreIsKept
<1>4. journal \in Journal /\ Ordered(journal) /\ journal.generation \in Nat
  BY NoticeFacts, JournalKinds
<1>5. Live(journal) <=> journal.migration.phase # "cleanupOld"
  BY <1>1, <1>4 DEF Live, Journal, Migration
<1> QED
  BY <1>1, <1>2, <1>3, <1>4, <1>5, NoticeFacts DEF NoticeInv, Told, RestOK

LEMMA RecoveryMainNotice ==
  ASSUME NoticeInv, IInv', recovery.step # "idle", RecoveryMainUnchanged,
         budget'.edits = budget.edits,
         NEW s, NEW out, Announce(s, out), OrderedStore(s),
         journal.generation <= s.journal.generation,
         Stale => Tells(s.journal, Acked, agent.latest, Heeded),
         Stale /\ budget.edits = 0 =>
           \/ Live(s.journal) /\ s.journal.migration.new = agent.latest
           \/ s.disk.plist = agent.latest,
         RecoveryTells'
  PROVE  NoticeInv'
<1>1. /\ StoreBecomes(s) /\ Requested(journal') /\ Acked' = Acked
      /\ journal' = s.journal /\ disk' = s.disk
  BY RecoveryFacts, AnnounceRequests DEF StoreBecomes
<1>2. WriteTells' /\ MigrationTells' /\ txn'.step = "idle"
  BY RecoveryFacts
     DEF WriteTells, MigrationTells, NoTxn, RecoveryMainUnchanged
<1> QED
  BY <1>1, <1>2, RecoveryFacts, MainStep DEF RecoveryMainUnchanged

LEMMA RecoveryEndsNotice ==
  ASSUME NoticeInv, IInv', recovery.step # "idle", RecoveryMainUnchanged,
         budget'.edits = budget.edits, recovery' = NoRecovery,
         NEW s, NEW out, Announce(s, out), OrderedStore(s),
         journal.generation <= s.journal.generation,
         Stale => Tells(s.journal, Acked, agent.latest, Heeded),
         Stale /\ budget.edits = 0 =>
           \/ Live(s.journal) /\ s.journal.migration.new = agent.latest
           \/ s.disk.plist = agent.latest
  PROVE  NoticeInv'
<1>1. RecoveryTells'
  BY DEF RecoveryTells, NoRecovery
<1> QED BY <1>1, RecoveryMainNotice

LEMMA RecoveredMigrationEndsNotice ==
  ASSUME NoticeInv, IInv', recovery.step # "idle", RecoveryMainUnchanged,
         budget'.edits = budget.edits, recovery' = NoRecovery,
         NEW out \in Outcome, MigrationEnds(out),
         item[recovery.record.new] = 0 \/ ~Live(journal)
  PROVE  NoticeInv'
<1> DEFINE j == WithoutMigration(journal)
           s == Persisted(Store, j, out)
<1> USE RecoveryFacts
<1>1. /\ Fine(j, budget.saves) /\ Ordered(j)
      /\ j.generation = journal.generation
  BY WithoutMigrationFine, WithoutMigrationOrdered, WithoutMigrationIs
<1>2. Stale => ~Live(journal) \/ journal.migration.new # agent.latest
  BY DEF Stale
<1>3. Stale => Tells(j, Acked, agent.latest, Heeded)
  BY <1>2, WithoutMigrationTells
<1> HIDE DEF j
<1>4. /\ OrderedStore(s) /\ s.disk.plist = disk.plist
      /\ s.journal \in {journal, j}
  BY <1>1, PersistedKept DEF Kept
<1>5. Announce(s, out)
  BY DEF MigrationEnds, j
<1> HIDE DEF s
<1>6. Stale /\ budget.edits = 0 => s.disk.plist = agent.latest
  BY <1>2, <1>4 DEF NoticeInv, Elsewhere
<1> QED BY <1>1, <1>3, <1>4, <1>5, <1>6, RecoveryEndsNotice

(* The journal stays as it is, and the recovery ends or looks further.     *)
LEMMA RecoveryLeavesNotice ==
  ASSUME NoticeInv, IInv', recovery.step # "idle", RecoveryMainUnchanged,
         budget'.edits = budget.edits, Announce(Store, "ok"),
         \/ recovery' = NoRecovery
         \/ /\ recovery.step \in {"probe", "reread", "validate"}
            /\ \E step \in {"validate", "reread"} :
                 recovery' = RecoveryGoes(step)
  PROVE  NoticeInv'
<1> USE RecoveryFacts
<1>1. Stale /\ budget.edits = 0 =>
        \/ Live(journal) /\ journal.migration.new = agent.latest
        \/ disk.plist = agent.latest
  BY DEF NoticeInv, Elsewhere
<1>2. /\ Requested(journal) /\ journal' = journal /\ editor' = editor
  BY AnnounceRequests DEF StoreBecomes, RecoveryMainUnchanged
<1>3. RecoveryTells'
  <2>1. CASE recovery' = NoRecovery
    BY <2>1 DEF RecoveryTells, NoRecovery
  <2>2. ASSUME recovery.step \in {"probe", "reread", "validate"},
               NEW step \in {"validate", "reread"},
               recovery' = RecoveryGoes(step)
        PROVE  RecoveryTells'
    <3>1. /\ recovery'.step = step /\ recovery'.result = "none"
          /\ recovery'.record = recovery.record
      BY <2>2 DEF RecoveryGoes, Recovery
    <3>2. /\ journal.migration = recovery.record
          /\ Live(journal) =>
               delivery.record.generation # journal.migration.generation
      BY <2>2 DEF NoticeInv, RecoveryTells
    <3>3. Live(journal) =>
            journal.pending.generation # journal.migration.generation
      BY DEF Ordered
    <3>4. Live(journal) =>
            delivery'.record.generation # journal.migration.generation
      BY <1>2, <3>2, <3>3, RequestedFacts
    <3> QED BY <1>2, <2>2, <3>1, <3>2, <3>4 DEF RecoveryTells
  <2> QED BY <2>1, <2>2
<1> QED BY <1>1, <1>3, RecoveryMainNotice DEF Kept

(* The new configuration is used: the agent is told before the migration   *)
(* is forgotten.                                                           *)
LEMMA UseNewNotice ==
  ASSUME NoticeInv, IInv',
         recovery.step \in {"probe", "reread", "validate"},
         RecoveryMainUnchanged, budget'.edits = budget.edits,
         budget.edits = 0 => disk.plist = recovery.record.new,
         NEW validated \in BOOLEAN, NEW out1 \in Outcome,
         NEW out2 \in Outcome, NEW out3 \in Outcome,
         UseNew(validated, out1, out2, out3)
  PROVE  NoticeInv'
<1> DEFINE r == recovery.record
           needs == NeedsNotice(r)
           i == InPhase(journal, "configurationSaved")
           marked == Persisted(Store, i, out1)
           k == MigrationCommitted(marked.journal)
           committed == Persisted(marked, k, out2)
           s == IF needs THEN committed ELSE Store
           last == IF recovery.oldExists THEN InPhase(s.journal, "cleanupOld")
                                         ELSE WithoutMigration(s.journal)
           final == Persisted(s, last, out3)
           quits == /\ journal.pending.account # r.new
                    /\ ~(r.phase = "cleanupOld" /\ journal.pending = NoNotice)
           Keeps(t) == /\ GoodStore(t, budget.saves) /\ Agree(t)
                       /\ OrderedStore(t) /\ t.disk.plist = disk.plist
                       /\ t.journal.generation = journal.generation
                       /\ t.journal \in Journal
                       /\ t.journal.migration # NoMigration
                       /\ t.journal.migration.new = r.new
                       /\ Stale =>
                            Tells(t.journal, Acked, agent.latest, Heeded)
<1> recovery.step # "idle"
  OBVIOUS
<1> USE RecoveryFacts
<1>1. journal.migration = r
      /\ (Live(journal) =>
            delivery.record.generation # journal.migration.generation)
  BY DEF NoticeInv, RecoveryTells
<1>2. Stale /\ budget.edits = 0 => disk.plist = agent.latest
  BY DEF NoticeInv, Elsewhere
<1>3. Keeps(Store)
  BY DEF Kept
<1>4. CASE needs /\ ~validated
  <2>1. Announce(Store, "ok") /\ recovery' = RecoveryGoes("validate")
    BY <1>4 DEF UseNew
  <2> QED BY <2>1, RecoveryLeavesNotice
<1>5. CASE ~needs /\ quits
  <2>1. Announce(Store, "ok") /\ recovery' = NoRecovery
    BY <1>5 DEF UseNew
  <2> QED BY <2>1, RecoveryLeavesNotice
<1>6. ASSUME needs
      PROVE  /\ Keeps(marked) /\ journal.pending = NoNotice /\ Live(journal)
             /\ marked.journal.pending = NoNotice
             /\ marked.journal.migration.generation
                  = journal.migration.generation
  <2>1. journal.pending = NoNotice /\ Live(journal)
    BY <1>1, <1>6 DEF NeedsNotice
  <2>2. /\ Fine(i, budget.saves) /\ Ordered(i)
        /\ i.generation = journal.generation
        /\ i.pending = NoNotice
        /\ i.migration.generation = journal.migration.generation
        /\ i.migration.new = r.new /\ i.migration # NoMigration
    BY <1>1, <2>1, InPhaseFine, InPhaseOrdered, InPhaseIs
  <2>3. Stale => Tells(i, Acked, agent.latest, Heeded)
    BY InPhaseTells
  <2> HIDE DEF i
  <2>4. /\ GoodStore(marked, budget.saves) /\ Agree(marked)
        /\ OrderedStore(marked) /\ marked.disk.plist = disk.plist
        /\ marked.journal \in {journal, i}
    BY <2>2, PersistedKept DEF Kept
  <2> HIDE DEF marked
  <2> QED BY <1>1, <2>1, <2>2, <2>3, <2>4 DEF Fine
<1>7. CASE needs /\ validated /\ out1 # "ok"
  <2>1. Announce(marked, out1) /\ recovery' = NoRecovery
    BY <1>7 DEF UseNew
  <2> HIDE DEF marked
  <2> QED BY <1>2, <1>6, <1>7, <2>1, RecoveryEndsNotice
<1>8. ASSUME needs
      PROVE  Keeps(committed) /\ (out2 = "ok" => ~Live(committed.journal))
  <2> HIDE DEF marked, i
  <2>1. /\ marked.journal \in Journal /\ Ordered(marked.journal)
        /\ Fine(marked.journal, budget.saves)
        /\ GoodStore(marked, budget.saves)
    BY <1>6, <1>8 DEF GoodStore, OrderedStore
  <2>2. /\ Fine(k, budget.saves) /\ Ordered(k)
        /\ k.generation = journal.generation /\ ~Live(k)
        /\ k.migration.new = r.new /\ k.migration # NoMigration
    BY <1>6, <1>8, <2>1, MigrationCommittedFine, MigrationCommittedOrdered,
       MigrationCommittedIs
  <2>3. Stale => Tells(k, Acked, agent.latest, Heeded)
    <3>1. Acked # journal.migration.generation
      BY <1>1, <1>6, <1>8, AckedFacts DEF Ordered
    <3> QED
      BY <1>6, <1>8, <2>1, <3>1, NoticeFacts, MigrationCommittedTells
  <2> HIDE DEF k
  <2>4. /\ GoodStore(committed, budget.saves) /\ Agree(committed)
        /\ OrderedStore(committed) /\ committed.disk.plist = disk.plist
        /\ committed.journal \in {marked.journal, k}
        /\ out2 = "ok" => committed.journal = k
    BY <1>6, <1>8, <2>2, PersistedKept
  <2> HIDE DEF committed
  <2> QED BY <1>6, <1>8, <2>1, <2>2, <2>3, <2>4 DEF Fine
<1>9. CASE needs /\ validated /\ out1 = "ok" /\ out2 # "ok"
  <2>1. Announce(committed, out2) /\ recovery' = NoRecovery
    BY <1>9 DEF UseNew
  <2> HIDE DEF committed
  <2> QED BY <1>2, <1>8, <1>9, <2>1, RecoveryEndsNotice
<1>10. CASE /\ ~(needs /\ ~validated) /\ ~(~needs /\ quits)
            /\ ~(needs /\ validated /\ out1 # "ok")
            /\ ~(needs /\ validated /\ out1 = "ok" /\ out2 # "ok")
  <2>1. /\ Announce(final, IF needs THEN "ok" ELSE out3)
        /\ recovery' = IF recovery.oldExists /\ out3 = "ok"
                         THEN RecoveryGoes("removeOld") ELSE NoRecovery
    BY <1>10 DEF UseNew
  <2> HIDE DEF marked, i, k, committed
  <2>2. /\ Keeps(s)
        /\ Live(s.journal) => s.journal.pending.account = r.new
    <3>1. CASE needs
      BY <1>8, <1>10, <3>1
    <3>2. CASE ~needs
      BY <1>1, <1>3, <1>10, <3>2 DEF NeedsNotice
    <3> QED BY <3>1, <3>2
  <2> HIDE DEF s, needs
  <2>3. /\ s.journal \in Journal /\ Ordered(s.journal)
        /\ Fine(s.journal, budget.saves)
    BY <2>2 DEF GoodStore, OrderedStore
  <2>4. /\ Fine(last, budget.saves) /\ Ordered(last)
        /\ last.generation = journal.generation
        /\ Stale => Tells(last, Acked, agent.latest, Heeded)
        /\ recovery.oldExists =>
             last.migration.new = r.new /\ ~Live(last)
    <3>1. CASE recovery.oldExists
      <4>1. last = InPhase(s.journal, "cleanupOld")
        BY <3>1
      <4> HIDE DEF last
      <4>2. /\ last.generation = journal.generation
            /\ last.migration.new = r.new /\ ~Live(last)
        BY <2>2, <2>3, <4>1, InPhaseIs DEF Live
      <4> QED
        BY <2>2, <2>3, <4>1, <4>2, InPhaseFine, InPhaseOrdered, InPhaseTells
    <3>2. CASE ~recovery.oldExists
      <4>1. last = WithoutMigration(s.journal)
        BY <3>2
      <4> HIDE DEF last
      <4> QED
        BY <2>2, <2>3, <3>2, <4>1, WithoutMigrationFine,
           WithoutMigrationOrdered, WithoutMigrationTells, WithoutMigrationIs
    <3> QED BY <3>1, <3>2
  <2> HIDE DEF last
  <2>5. /\ OrderedStore(final) /\ final.disk.plist = disk.plist
        /\ final.journal \in {s.journal, last}
        /\ out3 = "ok" => final.journal = last
    BY <2>2, <2>4, PersistedKept
  <2> HIDE DEF final
  <2>6. /\ journal.generation <= final.journal.generation
        /\ Stale => Tells(final.journal, Acked, agent.latest, Heeded)
    BY <2>2, <2>4, <2>5
  <2>7. Stale /\ budget.edits = 0 => final.disk.plist = agent.latest
    BY <1>2, <2>5
  <2>8. CASE recovery.oldExists /\ out3 = "ok"
    <3>1. /\ recovery'.step = "removeOld" /\ recovery'.result = "none"
          /\ recovery'.record = r
      BY <2>1, <2>8 DEF RecoveryGoes, Recovery
    <3>2. journal' = final.journal /\ editor' = editor
      BY <2>1, AnnounceRequests DEF StoreBecomes, RecoveryMainUnchanged
    <3>3. RecoveryTells'
      BY <2>4, <2>5, <2>8, <3>1, <3>2 DEF RecoveryTells
    <3> QED BY <2>1, <2>5, <2>6, <2>7, <3>3, RecoveryMainNotice
  <2>9. CASE ~(recovery.oldExists /\ out3 = "ok")
    BY <2>1, <2>5, <2>6, <2>7, <2>9, RecoveryEndsNotice
  <2> QED BY <2>8, <2>9
<1> QED BY <1>4, <1>5, <1>7, <1>9, <1>10

LEMMA DecideNotice ==
  ASSUME NoticeInv, IInv', NEW out1 \in Outcome, NEW out2 \in Outcome,
         NEW out3 \in Outcome, Decide(out1, out2, out3)
  PROVE  NoticeInv'
<1> DEFINE r == recovery.record
           j == InPhase(journal, "cleanupNew")
           s == Persisted(Store, j, out1)
           onOld == recovery.result = "ok" /\ recovery.current = r.old
           onNew == recovery.result = "ok" /\ recovery.current = r.new
<1>1. /\ recovery.step \in {"probe", "reread"} /\ recovery.step # "idle"
      /\ RecoveryMainUnchanged
  BY DEF Decide
<1> USE RecoveryFacts
<1>2. budget'.edits = budget.edits
  BY <1>1, EditsKept DEF Decide
<1>3. recovery.result = "ok" =>
        /\ budget.edits = 0 => disk.plist = recovery.current
        /\ recovery.newExists \/ item[r.new] = 0
  BY <1>1 DEF NoticeInv, RecoveryTells
<1>4. \/ Announce(Store, "ok") /\ recovery' = NoRecovery
      \/ onOld /\ ~recovery.newExists
           /\ MigrationEnds(out1) /\ recovery' = NoRecovery
      \/ /\ onOld /\ journal.pending.account # r.new
         /\ Announce(s, out1)
         /\ recovery' = IF out1 = "ok" THEN RecoveryGoes("removeNew")
                                       ELSE NoRecovery
      \/ onNew /\ UseNew(recovery.validated \/ recovery.step = "reread",
                         out1, out2, out3)
  BY DEF Decide
<1>5. CASE Announce(Store, "ok") /\ recovery' = NoRecovery
  BY <1>1, <1>2, <1>5, RecoveryLeavesNotice
<1>6. CASE /\ onOld /\ ~recovery.newExists
           /\ MigrationEnds(out1) /\ recovery' = NoRecovery
  BY <1>1, <1>2, <1>3, <1>6, RecoveredMigrationEndsNotice
<1>7. CASE /\ onOld /\ journal.pending.account # r.new
           /\ Announce(s, out1)
           /\ recovery' = IF out1 = "ok" THEN RecoveryGoes("removeNew")
                                         ELSE NoRecovery
  <2>1. /\ Fine(j, budget.saves) /\ Ordered(j)
        /\ j.generation = journal.generation
        /\ j.migration.new = r.new /\ Live(j)
    BY <1>1, <1>7, InPhaseFine, InPhaseOrdered, InPhaseIs DEF Live
  <2>2. Stale => Tells(j, Acked, agent.latest, Heeded)
    BY <1>1, InPhaseTells
  <2> HIDE DEF j
  <2>3. /\ OrderedStore(s) /\ s.disk.plist = disk.plist
        /\ s.journal \in {journal, j}
        /\ out1 = "ok" => s.journal = j
    BY <1>1, <2>1, PersistedKept DEF Kept
  <2> HIDE DEF s
  <2>4. Stale /\ budget.edits = 0 =>
          \/ Live(s.journal) /\ s.journal.migration.new = agent.latest
          \/ s.disk.plist = agent.latest
    BY <1>1, <2>1, <2>3 DEF NoticeInv, Elsewhere
  <2>5. /\ journal.generation <= s.journal.generation
        /\ Stale => Tells(s.journal, Acked, agent.latest, Heeded)
    BY <1>1, <2>1, <2>2, <2>3
  <2>6. CASE out1 = "ok"
    <3>1. /\ recovery'.step = "removeNew" /\ recovery'.result = "none"
          /\ recovery'.record = r
      BY <1>1, <1>7, <2>6 DEF RecoveryGoes, Recovery
    <3>2. journal' = s.journal /\ editor' = editor
      BY <1>1, <1>7, AnnounceRequests DEF StoreBecomes, RecoveryMainUnchanged
    <3>3. RecoveryTells'
      BY <1>1, <2>1, <2>3, <2>6, <3>1, <3>2 DEF RecoveryTells
    <3> QED
      BY <1>1, <1>2, <1>7, <2>3, <2>4, <2>5, <3>3, RecoveryMainNotice
  <2>7. CASE out1 # "ok"
    BY <1>1, <1>2, <1>7, <2>3, <2>4, <2>5, <2>7, RecoveryEndsNotice
  <2> QED BY <2>6, <2>7
<1>8. CASE onNew /\ UseNew(recovery.validated \/ recovery.step = "reread",
                           out1, out2, out3)
  <2>1. (recovery.validated \/ recovery.step = "reread") \in BOOLEAN
    BY <1>1 DEF Recovery
  <2> QED BY <1>1, <1>2, <1>3, <1>8, <2>1, UseNewNotice
<1> QED BY <1>4, <1>5, <1>6, <1>7, <1>8

LEMMA FinishValidationNotice ==
  ASSUME NoticeInv, IInv', NEW out1 \in Outcome, NEW out2 \in Outcome,
         NEW out3 \in Outcome, FinishValidation(out1, out2, out3)
  PROVE  NoticeInv'
<1>1. /\ recovery.step = "validate" /\ recovery.step # "idle"
      /\ RecoveryMainUnchanged
  BY DEF FinishValidation
<1>2. budget'.edits = budget.edits
  BY <1>1, RecoveryFacts, EditsKept DEF FinishValidation
<1>3. CASE recovery.result = "ok"
  <2>1. UseNew(TRUE, out1, out2, out3)
    BY <1>3 DEF FinishValidation
  <2>2. budget.edits = 0 => disk.plist = recovery.record.new
    BY <1>1, <1>3 DEF NoticeInv, RecoveryTells
  <2> QED BY <1>1, <1>2, <2>1, <2>2, UseNewNotice
<1>4. CASE recovery.result # "ok"
  <2>1. Announce(Store, "ok") /\ recovery' = RecoveryGoes("reread")
    BY <1>4 DEF FinishValidation
  <2> QED BY <1>1, <1>2, <2>1, RecoveryLeavesNotice
<1> QED BY <1>3, <1>4

LEMMA FinishCleanupNotice ==
  ASSUME NoticeInv, IInv', NEW out \in Outcome, FinishCleanup(out)
  PROVE  NoticeInv'
<1>1. /\ recovery.step \in {"removeNew", "removeOld"}
      /\ recovery.step # "idle"
      /\ recovery' = NoRecovery /\ RecoveryMainUnchanged
  BY DEF FinishCleanup
<1>2. budget'.edits = budget.edits
  BY <1>1, RecoveryFacts, EditsKept DEF FinishCleanup
<1>3. CASE recovery.result = "ok" /\ MigrationEnds(out)
  <2>1. item[recovery.record.new] = 0 \/ ~Live(journal)
    BY <1>1, <1>3 DEF NoticeInv, RecoveryTells
  <2> QED BY <1>1, <1>2, <1>3, <2>1, RecoveredMigrationEndsNotice
<1>4. CASE Announce(Store, "ok")
  BY <1>1, <1>2, <1>4, RecoveryLeavesNotice
<1> QED BY <1>3, <1>4 DEF FinishCleanup

-----------------------------------------------------------------------------
(* Acknowledgement, crashes and launches                                   *)

LEMMA ClearedTells ==
  ASSUME NoticeInv, delivery.answer # "none", Stale,
         NEW k,
         \/ k = journal
         \/ k = Acknowledged(journal) /\ Cleared(delivery.record, status)
  PROVE  Tells(k, 0, agent.latest, Heeded)
<1> USE NoticeFacts
<1>1. journal = disk.journal
  BY DEF NoticeInv, InFlight, NoRequest
<1>2. Tells(journal, Acked, agent.latest, Heeded)
  BY <1>1 DEF NoticeInv, Told
<1>3. CASE k = journal
  BY <1>2, <1>3, TellsWeakens
<1>4. CASE k = Acknowledged(journal) /\ Cleared(delivery.record, status)
  <2>1. Acked = journal.pending.generation
    BY <1>4 DEF Cleared, Acked
  <2> QED BY <1>2, <1>4, <2>1, AcknowledgedTells
<1> QED BY <1>3, <1>4

LEMMA AfterDeliveryRequests ==
  ASSUME NEW s, NEW out, delivery' = AfterDelivery(s, out)
  PROVE  /\ delivery'.answer = "none"
         /\ \/ delivery' = NoRequest
            \/ /\ s.journal.pending # NoNotice
               /\ delivery'.record = s.journal.pending
<1>1. \/ delivery' = NoRequest
      \/ /\ s.journal.pending # NoNotice
         /\ delivery' = [record |-> s.journal.pending, answer |-> "none"]
  BY DEF AfterDelivery, Attempt
<1> QED BY <1>1 DEF NoRequest

LEMMA FinishDeliveryNotice ==
  ASSUME ~AckRace, NoticeInv, IInv', NEW out \in Outcome, FinishDelivery(out)
  PROVE  NoticeInv'
<1> DEFINE k == Acknowledged(journal)
           p == Persisted(Store, k, out)
           clears == Cleared(delivery.record, status)
           s == IF clears THEN p ELSE Store
<1> USE NoticeFacts
<1>1. /\ delivery.answer # "none" /\ txn.step # "write"
      /\ UNCHANGED <<app, item, editor, txn, recovery, agent>>
      /\ StoreBecomes(s) /\ delivery' = AfterDelivery(s, out)
      /\ Fault(Cost(out))
  BY DEF FinishDelivery
<1>2. /\ app = "up" /\ journal = disk.journal /\ journal.generation \in Nat
      /\ 0 < delivery.record.generation
  BY <1>1, JournalKinds DEF NoticeInv, InFlight, NoRequest
<1>3. budget'.edits = budget.edits /\ Stale' = Stale /\ Heeded' = Heeded
  BY <1>1, EditsKept, StaleKept DEF RestOK
<1>4. /\ Fine(k, budget.saves) /\ Ordered(k)
      /\ k.generation = journal.generation
      /\ k.migration = journal.migration
  BY StoreFacts, AcknowledgedFine, AcknowledgedOrdered, AcknowledgedIs
     DEF NoticeInv
<1>5. /\ OrderedStore(p) /\ p.disk.plist = disk.plist
      /\ p.journal \in {journal, k}
  <2> HIDE DEF k
  <2> QED BY <1>2, <1>4, StoreIsKept, PersistedKept DEF Kept
<1> HIDE DEF p
<1>6. /\ OrderedStore(s) /\ s.disk.plist = disk.plist
      /\ \/ s.journal = journal
         \/ s.journal = k /\ clears
  BY <1>5
<1>7. Stale => Tells(s.journal, 0, agent.latest, Heeded)
  BY <1>1, <1>6, ClearedTells
<1>8. /\ s.journal.generation = journal.generation
      /\ s.journal.migration = journal.migration
      /\ Live(s.journal) = Live(journal)
  BY <1>4, <1>6 DEF Live
<1>9. journal.pending = NoNotice => s.journal = journal
  BY <1>2, <1>6 DEF Cleared, NoNotice
<1> HIDE DEF s, k, clears
<1>10. /\ journal' = s.journal /\ disk' = s.disk /\ app' = "up"
       /\ journal' = disk'.journal
  BY <1>1, <1>2 DEF StoreBecomes, IInv, MemoryIsFile
<1>11. /\ Acked' = 0
       /\ \/ delivery' = NoRequest
          \/ /\ s.journal.pending # NoNotice
             /\ delivery'.record = s.journal.pending
  BY <1>1, AfterDeliveryRequests DEF Acked
<1>12. JournalsOrdered' /\ Ordered(journal')
  BY <1>6, <1>10 DEF OrderedStore, JournalsOrdered
<1>13. InFlight'
  BY <1>10, <1>11, <1>12 DEF InFlight, Ordered
<1>14. Told' /\ Elsewhere'
  BY <1>1, <1>2, <1>3, <1>6, <1>7, <1>8, <1>10, <1>11
     DEF NoticeInv, Told, Elsewhere
<1>15. Live(journal) =>
         delivery'.record.generation # journal.migration.generation
  <2> SUFFICES ASSUME Live(s.journal)
               PROVE  delivery'.record.generation
                        # s.journal.migration.generation
    BY <1>8
  <2>1. s.journal.migration # NoMigration /\ Ordered(s.journal)
    BY <1>6, <1>8, JournalKinds DEF OrderedStore
  <2>2. /\ s.journal.migration.generation > 0
        /\ s.journal.pending.generation # s.journal.migration.generation
    BY <2>1 DEF Ordered
  <2> QED BY <1>11, <2>2 DEF NoRequest, NoNotice
<1>16. WriteTells' /\ MigrationTells'
  BY <1>1, <1>3, <1>8, <1>9, <1>10, <1>15
     DEF NoticeInv, WriteTells, MigrationTells
<1>17. RecoveryTells'
  BY <1>1, <1>3, <1>6, <1>8, <1>10, <1>15 DEF NoticeInv, RecoveryTells
<1> QED
  BY <1>1, <1>12, <1>13, <1>14, <1>16, <1>17 DEF NoticeInv

LEMMA EmptyOrdered == Ordered(EmptyJournal)
BY DEF Ordered, EmptyJournal

LEMMA CrashKeepsEdits ==
  ASSUME budget \in Budget, Crash
  PROVE  budget'.edits = budget.edits
BY DEF Crash, Budget

LEMMA GoneNotice ==
  ASSUME NoticeInv, IInv', Gone, disk' \in Disk,
         {disk'.journal} \cup disk'.journals
           \subseteq {disk.journal} \cup disk.journals,
         Told', Elsewhere'
  PROVE  NoticeInv'
<1>1. /\ app' = "down" /\ journal' = EmptyJournal /\ editor' = Untouched
      /\ txn'.step = "idle" /\ recovery'.step = "idle"
      /\ delivery' = NoRequest
  BY DEF Gone, NoTxn, NoRecovery
<1>2. JournalsOrdered'
  BY <1>1, EmptyOrdered DEF NoticeInv, JournalsOrdered
<1> QED
  BY <1>1, <1>2
     DEF NoticeInv, InFlight, WriteTells, MigrationTells, RecoveryTells

LEMMA QuitNotice ==
  ASSUME NoticeInv, IInv', Quit
  PROVE  NoticeInv'
<1> USE NoticeFacts
<1>1. Gone /\ UNCHANGED <<disk, item, agent>>
  BY DEF Quit
<1>2. budget'.edits = budget.edits /\ Stale' = Stale /\ Heeded' = Heeded
  BY <1>1, CrashKeepsEdits, StaleKept DEF Quit, RestOK
<1>3. Acked' = 0 /\ editor' = Untouched
  BY <1>1 DEF Gone, NoRequest, Acked
<1>4. Told'
  BY <1>1, <1>2, <1>3, TellsWeakens DEF NoticeInv, Told
<1>5. Elsewhere'
  BY <1>1, <1>2, <1>3 DEF NoticeInv, Elsewhere
<1> QED BY <1>1, <1>4, <1>5, GoneNotice

(* The agent restarts too, without a password.                             *)
LEMMA PowerLossNotice ==
  ASSUME NoticeInv, IInv', PowerLoss
  PROVE  NoticeInv'
<1>1. PICK j \in {disk.journal} \cup disk.journals,
           p \in {disk.plist} \cup disk.plists :
        /\ disk' = [journal |-> j, plist |-> p, journals |-> {},
                    plists |-> {}]
        /\ agent' = [latest |-> p, active |-> NoAccount, holds |-> 0,
                     state |-> AgentState(p)]
  BY DEF PowerLoss
<1>2. Gone /\ disk' \in Disk
  BY DEF PowerLoss, IInv, TypeOK
<1>3. ~Stale'
  BY <1>1 DEF Stale, AgentState
<1>4. Told' /\ Elsewhere'
  BY <1>3 DEF Told, Elsewhere
<1>5. {disk'.journal} \cup disk'.journals
        \subseteq {disk.journal} \cup disk.journals
  BY <1>1
<1> QED BY <1>2, <1>4, <1>5, GoneNotice

(* What a write leaves on disk, whatever memory held.                      *)
LEMMA OpenedWrite ==
  ASSUME NEW s \in Stores, NEW j \in Journal, NEW out \in Outcome
  PROVE  LET p == Persisted(s, j, out)
         IN  /\ p \in Stores /\ p.disk.plist = s.disk.plist
             /\ p.disk.journal \in {s.disk.journal, j}
<1> DEFINE p == Persisted(s, j, out)
           d == [s.disk EXCEPT !.journal = j]
<1>1. s.disk \in Disk /\ d \in Disk /\ d.journal = j
      /\ d.plist = s.disk.plist
  BY DEF Stores, Disk
<1>2. CASE out = "ok"
  <2>1. p = [journal |-> j, disk |-> [journal |-> j, plist |-> s.disk.plist,
                                      journals |-> {}, plists |-> {}]]
    BY <1>1, <1>2, FlushedIs DEF Persisted
  <2> QED BY <1>1, <2>1 DEF Stores, Disk
<1>3. CASE out = "failed"
  <2>1. p = s
    BY <1>3 DEF Persisted
  <2> QED BY <2>1
<1>4. CASE out = "uncertain"
  <2>1. p = [journal |-> j,
             disk |-> [journal |-> j, plist |-> s.disk.plist,
                       journals |-> s.disk.journals \cup {s.disk.journal},
                       plists |-> s.disk.plists]]
    BY <1>1, <1>4 DEF Persisted, Disk
  <2> QED BY <1>1, <2>1 DEF Stores, Disk
<1> QED BY <1>2, <1>3, <1>4 DEF Outcome

(* A launch reads or promotes what the file says.                          *)
LEMMA OpenedNotice ==
  ASSUME NoticeInv, IInv', app # "up", NEW out \in Outcome,
         NEW readable \in BOOLEAN, Open(out, readable),
         UNCHANGED <<item, editor, txn, agent>>,
         \/ delivery' = NoRequest
         \/ \E a : delivery' = Attempt(delivery, journal', a),
         RecoveryTells'
  PROVE  NoticeInv'
<1> DEFINE k == Promoted(disk.journal)
           e == [journal |-> EmptyJournal, disk |-> disk]
           p == Persisted(e, k, out)
           o == Opened(disk.journal, out)
<1> USE NoticeFacts
<1>1. /\ delivery = NoRequest /\ editor' = Untouched
      /\ txn'.step = "idle" /\ UNCHANGED <<item, agent>>
  BY DEF NoticeInv, InFlight, IInv, TxnOwns
<1>2. /\ app' = IF readable /\ out = "ok" THEN "up" ELSE "unavailable"
      /\ journal' = IF readable /\ out = "ok" THEN o.journal
                                              ELSE EmptyJournal
      /\ disk' = IF readable THEN o.disk ELSE disk
      /\ Fault(Cost(out) + IF readable THEN 0 ELSE 1)
  BY DEF Open
<1>3. budget'.edits = budget.edits /\ Stale' = Stale /\ Heeded' = Heeded
  BY <1>1, <1>2, EditsKept, StaleKept DEF RestOK
<1>4. /\ e \in Stores /\ e.journal = EmptyJournal /\ e.disk = disk
      /\ OrderedStore(e)
  BY EmptyFacts, EmptyOrdered
     DEF Stores, OrderedStore, NoticeInv, JournalsOrdered
<1>5. /\ Ordered(k) /\ k \in Journal /\ k.migration = disk.journal.migration
      /\ Live(k) = Live(disk.journal)
      /\ Stale => Tells(k, 0, agent.latest, Heeded)
  <2>1. k.migration = disk.journal.migration
    BY PromotedIs
  <2>2. k \in Journal
    BY StoreFacts, PromotedFine DEF NoticeInv, Fine
  <2>3. Stale => Tells(k, 0, agent.latest, Heeded)
    BY TellsWeakens, PromotedTells DEF NoticeInv, Told
  <2> QED BY <2>1, <2>2, <2>3, PromotedOrdered DEF Live
<1> HIDE DEF k, e
<1>6. /\ OrderedStore(p) /\ p.disk.plist = disk.plist
      /\ p.disk.journal \in {disk.journal, k}
  <2>1. p \in Stores /\ p.disk.plist = disk.plist
        /\ p.disk.journal \in {disk.journal, k}
    BY <1>4, <1>5, OpenedWrite
  <2> QED BY <1>4, <1>5, <2>1, PersistedOrdered
<1>7. /\ OrderedStore(o) /\ o.disk.plist = disk.plist
      /\ o.disk.journal \in {disk.journal, k}
  <2>1. CASE k = disk.journal
    <3>1. o = [journal |-> disk.journal, disk |-> disk]
      BY <2>1 DEF Opened, k
    <3>2. o.journal = disk.journal /\ o.disk = disk
      BY <3>1
    <3> QED BY <3>2 DEF OrderedStore, NoticeInv, JournalsOrdered
  <2>2. CASE k # disk.journal
    <3>1. o = p
      BY <2>2 DEF Opened, k, e
    <3> QED BY <1>6, <3>1
  <2> QED BY <2>1, <2>2
<1> HIDE DEF p, o
<1>8. JournalsOrdered' /\ Ordered(journal')
  BY <1>2, <1>7, EmptyOrdered
     DEF OrderedStore, NoticeInv, JournalsOrdered
<1>9. /\ disk'.plist = disk.plist /\ disk'.journal \in {disk.journal, k}
  BY <1>2, <1>7
<1>10. Acked = 0 /\ Acked' = 0
  BY <1>1 DEF NoRequest, Acked, Attempt
<1>11. InFlight'
  <2>1. \/ delivery' = NoRequest
        \/ /\ journal'.pending # NoNotice
           /\ delivery'.record = journal'.pending
    BY <1>1 DEF Attempt
  <2>2. app' = "up" \/ journal' = EmptyJournal
    BY <1>2
  <2> QED BY <1>1, <1>8, <2>1, <2>2 DEF InFlight, Ordered, EmptyJournal
<1>12. Told' /\ Elsewhere'
  BY <1>1, <1>3, <1>5, <1>9, <1>10
     DEF NoticeInv, Told, Elsewhere
<1> QED
  BY <1>1, <1>8, <1>11, <1>12
     DEF NoticeInv, WriteTells, MigrationTells

LEMMA LaunchNotice ==
  ASSUME NoticeInv, IInv', NEW out \in Outcome, NEW readable \in BOOLEAN,
         Launch(out, readable)
  PROVE  NoticeInv'
<1> USE NoticeFacts
<1>1. /\ app # "up" /\ Open(out, readable)
      /\ recovery' = Recovering(journal'.migration)
      /\ UNCHANGED <<item, editor, txn, agent, delivery>>
  BY DEF Launch
<1>2. delivery' = NoRequest /\ editor' = Untouched
  BY <1>1 DEF NoticeInv, InFlight
<1>3. RecoveryTells'
  <2>1. CASE journal'.migration = NoMigration
    BY <1>1, <2>1 DEF Recovering, NoRecovery, RecoveryTells
  <2>2. CASE journal'.migration # NoMigration
    <3>1. /\ recovery' = [NoRecovery EXCEPT !.step = "probe",
                                            !.record = journal'.migration]
      BY <1>1, <2>2 DEF Recovering
    <3>2. /\ recovery'.step = "probe" /\ recovery'.result = "none"
          /\ recovery'.record = journal'.migration
      BY <3>1 DEF NoRecovery
    <3>3. journal'.migration.generation > 0
      BY <2>2 DEF IInv, JournalsWellFormed, WellFormed
    <3> QED BY <1>2, <3>2, <3>3 DEF RecoveryTells, NoRequest, NoNotice
  <2> QED BY <2>1, <2>2
<1> QED BY <1>1, <1>2, <1>3, OpenedNotice

LEMMA RetryNotice ==
  ASSUME NoticeInv, IInv', NEW out \in Outcome, NEW readable \in BOOLEAN,
         Retry(out, readable)
  PROVE  NoticeInv'
<1>1. /\ app # "up" /\ Open(out, readable)
      /\ delivery' = Attempt(delivery, journal', status)
      /\ UNCHANGED <<item, editor, txn, agent, recovery>>
  BY DEF Retry
<1>2. RecoveryTells'
  BY <1>1 DEF RecoveryTells, NoticeInv, IInv, RecoveryOwns
<1> QED BY <1>1, <1>2, OpenedNotice

LEMMA EditByHandNotice ==
  ASSUME NoticeInv, IInv', NEW a \in Account, EditByHand(a)
  PROVE  NoticeInv'
<1> USE NoticeFacts
<1>1. /\ txn = NoTxn /\ budget' = [budget EXCEPT !.edits = @ + 1]
      /\ disk' = [disk EXCEPT !.plist = a, !.plists = {}]
      /\ UNCHANGED <<app, journal, item, editor, txn, recovery, delivery,
                     agent>>
  BY DEF EditByHand
<1>2. budget'.edits # 0
  <2>1. budget.edits \in Nat /\ budget'.edits = budget.edits + 1
    BY <1>1, JournalConstants DEF JournalConstants, RestOK, Budget
  <2> QED BY <2>1
<1>3. disk'.journal = disk.journal /\ disk'.journals = disk.journals
  BY <1>1 DEF Disk
<1>4. /\ Stale' = Stale /\ Acked' = Acked /\ Heeded' = Account
      /\ Live(journal') = Live(journal)
  BY <1>1, <1>2 DEF Stale, Acked, Heeded, Live
<1>5. Told'
  BY <1>1, <1>3, <1>4 DEF NoticeInv, Told, Tells
<1>6. JournalsOrdered' /\ InFlight' /\ Elsewhere'
  BY <1>1, <1>2, <1>3
     DEF NoticeInv, JournalsOrdered, InFlight, Elsewhere
<1>7. WriteTells' /\ MigrationTells' /\ txn'.step = "idle"
  BY <1>1 DEF WriteTells, MigrationTells, NoTxn
<1>8. RecoveryTells'
  BY <1>1, <1>2, <1>4 DEF NoticeInv, RecoveryTells
<1> QED BY <1>5, <1>6, <1>7, <1>8 DEF NoticeInv

-----------------------------------------------------------------------------
(* The agent is told of every password that changes                        *)

LEMMA NoticeInit == Init => NoticeInv
<1> SUFFICES ASSUME Init PROVE NoticeInv
  OBVIOUS
<1>1. JournalsOrdered
  BY EmptyOrdered DEF Init, JournalsOrdered
<1>2. ~Stale
  BY DEF Init, Stale
<1> QED
  BY <1>1, <1>2, InitInv
     DEF Init, NoticeInv, InFlight, Told, Elsewhere, WriteTells,
         MigrationTells, RecoveryTells, NoTxn, NoRecovery

LEMMA NoticeNext ==
  ~AckRace /\ ~StageOver /\ NoticeInv /\ [Next]_vars => NoticeInv'
<1> SUFFICES ASSUME ~AckRace, ~StageOver, NoticeInv, [Next]_vars
             PROVE  NoticeInv'
  OBVIOUS
<1>1. IInv'
  BY NextInv DEF NoticeInv
<1>2. CASE Save
  BY <1>1, <1>2, SaveSameAccountNotice, SaveConfigurationNotice,
     SaveMigrationNotice
     DEF Save
<1>3. CASE SaveWorker
  BY <1>1, <1>3, SaveWorkerNotice
<1>4. CASE SaveMain
  BY <1>1, <1>4, FinishWriteNotice, FinishRemovalNotice,
     FinishCreateNotice, FinishInspectNotice
     DEF SaveMain
<1>5. CASE RecoveryWorker
  BY <1>1, <1>5, RecoveryWorkerNotice
<1>6. CASE RecoveryMain
  BY <1>1, <1>6, DecideNotice, FinishValidationNotice, FinishCleanupNotice
     DEF RecoveryMain
<1>7. CASE NoticeDelivery
  BY <1>1, <1>7, DeliveryNotice, FinishDeliveryNotice DEF NoticeDelivery
<1>8. CASE AgentSteps
  BY <1>1, <1>8, AgentNotice
<1>9. CASE Environment
  BY <1>1, <1>9, QuitNotice, PowerLossNotice, LaunchNotice, RetryNotice,
     EditByHandNotice
     DEF Environment
<1>10. CASE UNCHANGED vars
  <2>1. UNCHANGED <<app, journal, disk, item, editor, txn, recovery,
                    delivery, status, wish, agent, budget>>
    BY <1>10 DEF vars
  <2>2. Requested(journal) /\ Acked' = Acked /\ Stale' = Stale
    BY <2>1 DEF Requested, Acked, Stale
  <2> QED BY <1>1, <2>1, <2>2, QuietNotice
<1> QED
  BY <1>2, <1>3, <1>4, <1>5, <1>6, <1>7, <1>8, <1>9, <1>10 DEF Next

(* Unless a notice is acknowledged while a save writes its item, or a save *)
(* replaces a notice that an earlier one left staged, some notice or       *)
(* migration in the journal's file leads to the agent's account as long as *)
(* the agent has an older password                                         *)
(* (CredentialMutationJournal.swift:300,                                   *)
(* CredentialMutationCoordinator.swift:174).                               *)
THEOREM NoticeInvariance ==
  ~AckRace /\ ~StageOver /\ Spec => []NoticeInv
<1>1. Init => NoticeInv
  BY NoticeInit
<1>2. CASE ~AckRace /\ ~StageOver
  <2>1. NoticeInv /\ [Next]_vars => NoticeInv'
    BY <1>2, NoticeNext
  <2> QED BY <1>1, <2>1, PTL DEF Spec
<1> QED BY <1>2

(* An agent that would keep, on its next reload, a password the item no    *)
(* longer has is still to be told, in memory and on disk, through every    *)
(* crash and every failed write, by the same two hypotheses.               *)
THEOREM BeliefNoticed ==
  ~AckRace /\ ~StageOver /\ Spec => []BeliefIsNoticed
<1>1. NoticeInv => BeliefIsNoticed
  <2> SUFFICES ASSUME NoticeInv, budget.edits = 0,
                      Reloaded.state = "Configured",
                      Reloaded.holds # item[Reloaded.latest]
               PROVE  /\ Mentions(disk.journal, Reloaded.latest)
                      /\ app = "up" => Mentions(journal, Reloaded.latest)
    BY DEF BeliefIsNoticed
  <2>1. /\ agent.state = "Configured" /\ Reloaded.latest = agent.latest
        /\ Reloaded.holds = agent.holds
    BY ReloadedKeeps
  <2>2. item[agent.latest] # 0
    <3>1. agent \in Agent
      BY NoticeFacts DEF RestOK
    <3> QED BY <3>1 DEF Reloaded, AgentState, Agent
  <2>3. Tells(disk.journal, Acked, agent.latest, {agent.latest})
    BY <2>1, <2>2 DEF NoticeInv, Told, Stale, Heeded
  <2>4. Mentions(disk.journal, agent.latest)
    BY <2>3 DEF Tells, Mentions, Live
  <2> QED BY <2>1, <2>4, NoticeFacts
<1> QED BY <1>1, NoticeInvariance, PTL

LEMMA StartedInformed ==
  ASSUME NoticeInv, MayStart, AgentMayStart
  PROVE  Started.holds = item[Started.active]
<1> USE NoticeFacts
<1>1. ~Stale /\ agent \in Agent /\ Reloaded \in Agent
  BY NothingToTell, AgentFacts DEF MayStart, RestOK
<1>2. Started.holds = Reloaded.holds /\ Started.active = Reloaded.latest
  BY <1>1 DEF Started, Agent
<1>3. CASE /\ agent.latest = disk.plist /\ agent.state = "Configured"
           /\ item[disk.plist] # 0
  BY <1>1, <1>2, <1>3 DEF Reloaded, Stale
<1>4. CASE ~(/\ agent.latest = disk.plist /\ agent.state = "Configured"
             /\ item[disk.plist] # 0)
  <2>1. /\ Reloaded.latest = disk.plist /\ Reloaded.holds = 0
        /\ Reloaded.state = AgentState(disk.plist)
    BY <1>1, <1>4 DEF Reloaded, Agent
  <2>2. item[disk.plist] = 0
    BY <2>1 DEF AgentMayStart, AgentState
  <2> QED BY <1>2, <2>1, <2>2
<1> QED BY <1>3, <1>4

(* An OpenCode that the application starts gets the current password, or   *)
(* none because there is none (ApplicationLifecycle.swift), by the same    *)
(* two hypotheses.                                                         *)
THEOREM StartInformed ==
  ~AckRace /\ ~StageOver /\ Spec => StartIsInformed
<1>1. ASSUME NoticeInv, [Next]_vars, app = "up",
             agent.active = NoAccount, agent'.active # NoAccount
      PROVE  agent'.holds = item[agent'.active]
  <2>1. agent \in Agent /\ Reloaded \in Agent
    BY <1>1, NoticeFacts, AgentFacts DEF RestOK
  <2>2. CASE agent' = Started /\ MayStart /\ AgentMayStart
    BY <1>1, <2>2, StartedInformed
  <2>3. CASE agent' = agent
    BY <1>1, <2>3
  <2>4. CASE AgentHandles \/ AgentReads
    BY <1>1, <2>1, <2>4 DEF AgentHandles, Handled, AgentReads, Agent
  <2>5. CASE AgentReloads
    BY <1>1, <2>1, <2>5 DEF AgentReloads, Reloaded, Agent
  <2>6. CASE StopOpenCode \/ PowerLoss
    BY <1>1, <2>1, <2>6 DEF StopOpenCode, PowerLoss, Agent
  <2>7. CASE Observe
    BY <2>2, <2>3, <2>7 DEF Observe
  <2>8. CASE StartOpenCode \/ AgentRestartsOpenCode
    BY <1>1, <2>2, <2>8 DEF StartOpenCode, AgentRestartsOpenCode
  <2>9. CASE UNCHANGED vars
    BY <2>3, <2>9 DEF vars
  <2>10. CASE Save \/ SaveWorker \/ SaveMain
    BY <2>3, <2>10
       DEF Save, SaveSameAccount, SaveConfiguration, SaveMigration,
           SaveWorker, KeychainWrites, KeychainRemoves, KeychainFails,
           Inspect, WorkerUnchanged, SaveMain, FinishWrite, FinishRemoval,
           FinishCreate, FinishInspect
  <2>11. CASE RecoveryWorker \/ RecoveryMain
    BY <2>3, <2>11
       DEF RecoveryWorker, Probe, ConfirmAndRemove, ConfirmFails,
           RecoveryWorkerUnchanged, RecoveryMain, Decide, FinishValidation,
           FinishCleanup, RecoveryMainUnchanged
  <2>12. CASE NoticeDelivery
    BY <2>3, <2>4, <2>7, <2>12
       DEF NoticeDelivery, RequestIsLost, AllowAndRestart, FinishDelivery
  <2>13. CASE Environment
    BY <2>3, <2>6, <2>13
       DEF Environment, Quit, Launch, Retry, EditByHand
  <2> QED
    BY <1>1, <2>4, <2>5, <2>6, <2>8, <2>9, <2>10, <2>11, <2>12, <2>13
       DEF Next, AgentSteps
<1>2. NoticeInv /\ [Next]_vars
        => [app = "up" /\ agent.active = NoAccount
              /\ agent'.active # NoAccount
            => agent'.holds = item[agent'.active]]_vars
  BY <1>1
<1> QED BY <1>2, NoticeInvariance, PTL DEF StartIsInformed, Spec

-----------------------------------------------------------------------------
(* Why no item is left behind                                              *)

(* The journal j remembers every item of i but that of p.                  *)
Covers(i, j, p) ==
  \A a \in Account : i[a] # 0 /\ a # p =>
    a \in {j.migration.old, j.migration.new}

(* What the visible files say, and what they would say if one of them came *)
(* back in an earlier version.                                             *)
DiskCovers(i, d) ==
  /\ Covers(i, d.journal, d.plist)
  /\ d.plists = {} => \A j \in d.journals : Covers(i, j, d.plist)
  /\ d.journals = {} => \A p \in d.plists : Covers(i, d.journal, p)

(* The Settings window offers to go back to another account only while     *)
(* that leaves nothing.                                                    *)
EditorCovers ==
  editor # Untouched =>
    /\ app = "up" /\ txn.step = "idle" /\ recovery.step = "idle"
    /\ Covers(item, disk.journal, editor.account)

(* A save knows which of its items exist and which one is configured.      *)
SaveCovers ==
  /\ txn.step = "write" => disk.plist = txn.account /\ disk.plists = {}
  /\ txn.step \notin {"idle", "write"} =>
       /\ disk.journal.migration.old = txn.old
       /\ disk.journal.migration.new = txn.account
  /\ txn.step = "create" =>
       /\ disk.plist = txn.old
       /\ \A j \in disk.journals : j.migration.new = txn.account
       /\ txn.result # "ok" => item[txn.account] = 0
  /\ txn.step = "inspect" =>
       /\ disk.plist \in {txn.old, txn.account}
       /\ txn.result = "neither" =>
            disk.plist = txn.old /\ item[txn.account] = 0
  /\ txn.step = "removeNew" =>
       /\ disk.plist = txn.old
       /\ txn.result = "ok" => item[txn.account] = 0
  /\ txn.step = "removeOld" /\ txn.result = "ok" => item[txn.old] = 0

(* So does a recovery, from its probe on.                                  *)
RecoveryCovers ==
  recovery.step # "idle" =>
    /\ disk.journal.migration.old = recovery.record.old
    /\ disk.journal.migration.new = recovery.record.new
    /\ recovery.step # "probe" \/ recovery.result = "ok" =>
         /\ recovery.newExists \/ item[recovery.record.new] = 0
         /\ recovery.oldExists \/ item[recovery.record.old] = 0
    /\ recovery.step \in {"probe", "reread"} /\ recovery.result = "ok" =>
         disk.plist = recovery.current
    /\ recovery.step = "validate" /\ recovery.result = "ok" =>
         disk.plist = recovery.record.new
    /\ recovery.step = "removeNew" =>
         /\ disk.plist = recovery.record.old
         /\ recovery.result = "ok" => item[recovery.record.new] = 0
    /\ recovery.step = "removeOld" =>
         /\ disk.plist = recovery.record.new
         /\ recovery.result = "ok" => item[recovery.record.old] = 0

Cover == DiskCovers(item, disk) /\ EditorCovers /\ SaveCovers /\ RecoveryCovers

(* An application without a journal waits for no answer.                   *)
DownIsEmpty == app # "up" => journal = EmptyJournal /\ delivery = NoRequest

(* The inductive invariant about items.                                    *)
CoverInv == IInv /\ DownIsEmpty /\ (budget.edits = 0 => Cover)

(* A power loss finds at most one of the two files not flushed.            *)
OneFileLost == PowerLoss => disk.journals = {} \/ disk.plists = {}

(* Two journals that name the same accounts.                               *)
SameAccounts(j, k) ==
  /\ j.migration.old = k.migration.old
  /\ j.migration.new = k.migration.new

(* What a handler that keeps the accounts of the journal leaves on disk.   *)
DiskKept(d, e) ==
  /\ SameAccounts(e.journal, d.journal)
  /\ e.plist = d.plist /\ e.plists \subseteq d.plists
  /\ e.journals \subseteq d.journals \cup {d.journal}

LEMMA SameCovers ==
  ASSUME NEW i, NEW j, NEW k, SameAccounts(j, k), NEW p, Covers(i, k, p)
  PROVE  Covers(i, j, p)
BY DEF SameAccounts, Covers

(* Fewer items are covered by what covered more.                           *)
LEMMA FewerCovered ==
  ASSUME NEW i, NEW k, \A a \in Account : k[a] # 0 => i[a] # 0, NEW d,
         DiskCovers(i, d)
  PROVE  DiskCovers(k, d)
BY DEF DiskCovers, Covers

LEMMA OperationsKeepAccounts ==
  ASSUME NEW j \in Journal
  PROVE  /\ \A a : SameAccounts(Staged(j, a), j)
         /\ \A phase : SameAccounts(InPhase(j, phase), j)
         /\ SameAccounts(MigrationCommitted(j), j)
         /\ \A notice : SameAccounts(Committed(j, notice), j)
         /\ SameAccounts(RolledBack(j), j)
         /\ SameAccounts(Promoted(j), j)
         /\ SameAccounts(Acknowledged(j), j)
<1>1. \A phase : SameAccounts(InPhase(j, phase), j)
  BY DEF InPhase, SameAccounts, Journal, Migration, NoMigration
<1>2. SameAccounts(MigrationCommitted(j), j)
  <2> DEFINE i == InPhase(j, "cleanupOld")
  <2>1. MigrationCommitted(j).migration = i.migration
    BY DEF MigrationCommitted, InPhase, Journal
  <2> HIDE DEF i
  <2> QED BY <1>1, <2>1 DEF SameAccounts, i
<1> QED
  BY <1>1, <1>2, StagedIs, CommittedIs, RolledBackIs, PromotedIs,
     AcknowledgedIs
     DEF SameAccounts

LEMMA MigrationStagedAccounts ==
  ASSUME NEW j \in Journal, NEW old, NEW new
  PROVE  LET k == MigrationStaged(j, old, new)
         IN  k.migration.old = old /\ k.migration.new = new
<1> DEFINE g == j.generation + 1
           m == [generation |-> g, old |-> old, new |-> new,
                 phase |-> "staged"]
<1>1. MigrationStaged(j, old, new)
        = [j EXCEPT !.generation = g, !.migration = m]
  BY DEF MigrationStaged
<1>2. m.old = old /\ m.new = new
  OBVIOUS
<1> HIDE DEF g, m
<1> QED BY <1>1, <1>2 DEF Journal

-----------------------------------------------------------------------------
(* Files, as the items see them                                            *)

LEMMA PersistedShape ==
  ASSUME NEW s \in Stores, NEW j \in Journal, NEW out \in Outcome
  PROVE  LET d == Persisted(s, j, out).disk
         IN  /\ out = "ok" => /\ d.journal = j /\ d.plist = s.disk.plist
                              /\ d.journals = {} /\ d.plists = {}
             /\ out = "failed" => d = s.disk
             /\ out = "uncertain" =>
                  /\ d.journal = j /\ d.plist = s.disk.plist
                  /\ d.journals = s.disk.journals \cup {s.disk.journal}
                  /\ d.plists = s.disk.plists
<1> DEFINE p == Persisted(s, j, out)
           d == [s.disk EXCEPT !.journal = j]
<1>1. s.disk \in Disk /\ d \in Disk /\ d.journal = j
      /\ d.plist = s.disk.plist
  BY DEF Stores, Disk
<1>2. CASE out = "ok"
  <2>1. p = [journal |-> j, disk |-> [journal |-> j, plist |-> s.disk.plist,
                                      journals |-> {}, plists |-> {}]]
    BY <1>1, <1>2, FlushedIs DEF Persisted
  <2> HIDE DEF p
  <2> QED BY <1>2, <2>1 DEF p
<1>3. CASE out = "failed"
  <2>1. p = s
    BY <1>3 DEF Persisted
  <2> QED BY <1>3, <2>1
<1>4. CASE out = "uncertain"
  <2>1. p = [journal |-> j,
             disk |-> [journal |-> j, plist |-> s.disk.plist,
                       journals |-> s.disk.journals \cup {s.disk.journal},
                       plists |-> s.disk.plists]]
    BY <1>1, <1>4 DEF Persisted, Disk
  <2> HIDE DEF p
  <2> QED BY <1>4, <2>1 DEF p
<1> QED BY <1>2, <1>3, <1>4 DEF Outcome

LEMMA SavedShape ==
  ASSUME NEW s \in Stores, NEW a \in Account, NEW out \in Outcome
  PROVE  LET d == Saved(s, a, out).disk
         IN  /\ s.disk.plist = a \/ out = "failed" => d = s.disk
             /\ s.disk.plist # a /\ out = "ok" =>
                  /\ d.journal = s.disk.journal /\ d.plist = a
                  /\ d.journals = {} /\ d.plists = {}
             /\ s.disk.plist # a /\ out = "uncertain" =>
                  /\ d.journal = s.disk.journal /\ d.plist = a
                  /\ d.journals = s.disk.journals
                  /\ d.plists = s.disk.plists \cup {s.disk.plist}
<1> DEFINE p == Saved(s, a, out)
           d == [s.disk EXCEPT !.plist = a]
<1>1. /\ s.disk \in Disk /\ d \in Disk /\ d.journal = s.disk.journal
      /\ d.plist = a /\ d.plists = s.disk.plists
      /\ d.journals = s.disk.journals
  BY DEF Stores, Disk
<1>2. CASE s.disk.plist = a \/ out = "failed"
  <2>1. p = s
    BY <1>2 DEF Saved
  <2> HIDE DEF p
  <2> QED BY <1>2, <2>1 DEF p
<1>3. CASE s.disk.plist # a /\ out = "ok"
  <2>1. p = [s EXCEPT !.disk = Flushed(d)]
    BY <1>3 DEF Saved
  <2> HIDE DEF d
  <2>2. Flushed(d) = [journal |-> d.journal, plist |-> d.plist,
                      journals |-> {}, plists |-> {}]
    BY <1>1, FlushedIs
  <2>3. p.disk = Flushed(d)
    BY <2>1 DEF Stores
  <2> QED BY <1>1, <1>3, <2>2, <2>3
<1>4. CASE s.disk.plist # a /\ out = "uncertain"
  <2> DEFINE o == s.disk.plists \cup {s.disk.plist}
  <2>1. p = [s EXCEPT !.disk = [d EXCEPT !.plists = o]]
    BY <1>1, <1>4 DEF Saved
  <2> HIDE DEF d, o
  <2>2. p.disk = [d EXCEPT !.plists = o]
    BY <2>1 DEF Stores
  <2>3. /\ p.disk.journal = d.journal /\ p.disk.plist = d.plist
        /\ p.disk.journals = d.journals /\ p.disk.plists = o
    BY <1>1, <2>2 DEF Disk
  <2> QED BY <1>1, <1>4, <2>3 DEF o
<1> QED BY <1>2, <1>3, <1>4 DEF Outcome

(* A journal that covers what is configured may be written in any way.     *)
LEMMA PersistedCovers ==
  ASSUME NEW i, NEW s \in Stores, DiskCovers(i, s.disk),
         NEW j \in Journal, Covers(i, j, s.disk.plist), NEW out \in Outcome
  PROVE  DiskCovers(i, Persisted(s, j, out).disk)
<1> DEFINE d == Persisted(s, j, out).disk
<1>1. CASE out = "ok"
  BY <1>1, PersistedShape DEF DiskCovers
<1>2. CASE out = "failed"
  BY <1>2, PersistedShape
<1>3. CASE out = "uncertain"
  <2>1. /\ d.journal = j /\ d.plist = s.disk.plist
        /\ d.journals = s.disk.journals \cup {s.disk.journal}
        /\ d.plists = s.disk.plists
    BY <1>3, PersistedShape
  <2> HIDE DEF d
  <2>2. DiskCovers(i, d)
    BY <2>1 DEF DiskCovers
  <2> QED BY <2>2 DEF d
<1> QED BY <1>1, <1>2, <1>3 DEF Outcome

(* So may one that names the same accounts.                                *)
LEMMA AccountsKept ==
  ASSUME NEW i, NEW s \in Stores, DiskCovers(i, s.disk), NEW j \in Journal,
         SameAccounts(j, s.disk.journal), NEW out \in Outcome
  PROVE  LET d == Persisted(s, j, out).disk
         IN  DiskCovers(i, d) /\ DiskKept(s.disk, d)
<1>1. Covers(i, j, s.disk.plist)
  BY SameCovers DEF DiskCovers
<1>2. DiskKept(s.disk, Persisted(s, j, out).disk)
  BY PersistedShape DEF DiskKept, SameAccounts, Outcome
<1> QED BY <1>1, <1>2, PersistedCovers

(* A configuration is saved that the journal covers.                       *)
LEMMA SavedCovers ==
  ASSUME NEW i, NEW s \in Stores, DiskCovers(i, s.disk), NEW a \in Account,
         Covers(i, s.disk.journal, a), NEW out \in Outcome
  PROVE  LET d == Saved(s, a, out).disk
         IN  /\ DiskCovers(i, d) /\ d.journal = s.disk.journal
             /\ d.plist \in {s.disk.plist, a}
             /\ out = "ok" => d.plist = a
<1> DEFINE d == Saved(s, a, out).disk
<1>1. CASE s.disk.plist = a \/ out = "failed"
  BY <1>1, SavedShape
<1>2. CASE s.disk.plist # a /\ out = "ok"
  BY <1>2, SavedShape DEF DiskCovers
<1>3. CASE s.disk.plist # a /\ out = "uncertain"
  <2>1. /\ d.journal = s.disk.journal /\ d.plist = a
        /\ d.journals = s.disk.journals
        /\ d.plists = s.disk.plists \cup {s.disk.plist}
    BY <1>3, SavedShape
  <2> HIDE DEF d
  <2>2. DiskCovers(i, d)
    BY <2>1 DEF DiskCovers
  <2> QED BY <1>3, <2>1, <2>2 DEF d
<1> QED BY <1>1, <1>2, <1>3 DEF Outcome

-----------------------------------------------------------------------------
(* Steps, as the items see them                                            *)

LEMMA CoverFacts ==
  ASSUME IInv
  PROVE  /\ Store \in Stores /\ Store.journal = journal /\ Store.disk = disk
         /\ disk \in Disk /\ disk.plist \in Account
         /\ disk.journal \in Journal /\ journal \in Journal
         /\ item \in [Account -> 0..MaxSaves] /\ txn \in Transaction
         /\ recovery \in Recovery /\ editor \in Editor
         /\ app = "up" => journal = disk.journal
         /\ txn.step # "idle" => app = "up" /\ recovery.step = "idle"
         /\ recovery.step # "idle" => app = "up" /\ txn.step = "idle"
<1>1. /\ txn.step # "idle" => app = "up" /\ recovery.step = "idle"
      /\ recovery.step # "idle" => app = "up" /\ txn.step = "idle"
  BY DEF IInv, TxnOwns, RecoveryOwns, NoTxn, NoRecovery
<1> QED
  BY <1>1, StoreFacts DEF IInv, TypeOK, MemoryIsFile, Disk, GoodStore

LEMMA IdleSaveCovers ==
  ASSUME txn'.step = "idle"
  PROVE  SaveCovers'
BY DEF SaveCovers

LEMMA IdleRecoveryCovers ==
  ASSUME recovery'.step = "idle"
  PROVE  RecoveryCovers'
BY DEF RecoveryCovers

LEMMA SameStepCovers ==
  ASSUME Cover, UNCHANGED <<app, disk, item, editor, txn, recovery>>
  PROVE  Cover'
BY DEF Cover, EditorCovers, SaveCovers, RecoveryCovers

(* A handler that has nothing to do with the accounts.                     *)
LEMMA KeptStepCovers ==
  ASSUME IInv, Cover, UNCHANGED <<app, item, editor, txn, recovery>>,
         DiskCovers(item, disk'), DiskKept(disk, disk')
  PROVE  Cover'
<1>1. EditorCovers'
  BY SameCovers DEF Cover, EditorCovers, DiskKept
<1>2. \A j \in disk'.journals :
        txn.step = "create" => j.migration.new = txn.account
  BY DEF Cover, SaveCovers, DiskKept
<1>3. SaveCovers'
  BY <1>2 DEF Cover, SaveCovers, DiskKept, SameAccounts
<1>4. RecoveryCovers'
  BY DEF Cover, RecoveryCovers, DiskKept, SameAccounts
<1> QED BY <1>1, <1>3, <1>4 DEF Cover

-----------------------------------------------------------------------------
(* Saves begin                                                             *)

LEMMA OfferCovers ==
  ASSUME Cover, NEW op \in {"create", "update", "delete"}, NEW a \in Account,
         Offers(op, a)
  PROVE  Covers(item, disk.journal, a)
<1>1. CASE item[disk.plist] = 0
  BY <1>1 DEF Cover, DiskCovers, Covers
<1>2. CASE a = disk.plist
  BY <1>2 DEF Cover, DiskCovers
<1>3. CASE editor = [op |-> op, account |-> a]
  <2>1. editor # Untouched /\ editor.account = a
    BY <1>3 DEF Untouched
  <2> QED BY <2>1 DEF Cover, EditorCovers
<1> QED BY <1>1, <1>2, <1>3 DEF Offers

LEMMA SaveSameAccountCovers ==
  ASSUME IInv, Cover, NEW op \in {"create", "update", "delete"},
         NEW a \in Account, NEW out1 \in Outcome, NEW out2 \in Outcome,
         SaveSameAccount(op, a, out1, out2)
  PROVE  Cover'
<1> USE CoverFacts
<1> DEFINE saved == Saved(Store, a, out1)
           j == Staged(journal, a)
           staged == Persisted(saved, j, out2)
           reached == out1 = "ok" /\ MayStage(journal)
<1>1. /\ app = "up" /\ txn = NoTxn /\ recovery = NoRecovery
      /\ journal = disk.journal /\ Offers(op, a)
      /\ UNCHANGED <<app, item, recovery>>
  BY DEF SaveSameAccount, CanSave
<1>2. Covers(item, journal, a)
  BY <1>1, OfferCovers
<1>3. /\ saved \in Stores /\ DiskCovers(item, saved.disk)
      /\ saved.disk.journal = journal
      /\ out1 = "ok" => saved.disk.plist = a
  <2>1. saved \in Stores
    BY StoreFacts, SavedFacts DEF GoodStore
  <2> QED BY <1>1, <1>2, <2>1, SavedCovers DEF Cover
<1>4. reached => j \in Journal
  <2>1. budget.saves < MaxSaves /\ budget.saves \in Nat
    BY StoreFacts, CostFacts, BudgetFacts DEF SaveSameAccount, RestOK
  <2> QED BY <2>1, StoreFacts, StagedFine DEF Fine
<1>5. SameAccounts(j, journal)
  BY OperationsKeepAccounts
<1>6. reached =>
        /\ DiskCovers(item, staged.disk)
        /\ SameAccounts(staged.disk.journal, journal)
        /\ out2 = "ok" => staged.disk.plist = a /\ staged.disk.plists = {}
  <2> HIDE DEF saved, j
  <2> QED
    BY <1>3, <1>4, <1>5, AccountsKept, PersistedShape DEF DiskKept
<1> HIDE DEF saved, staged
<1>7. /\ DiskCovers(item, disk') /\ SameAccounts(disk'.journal, journal)
      /\ \/ txn' = NoTxn /\ editor' = [op |-> op, account |-> a]
         \/ /\ \E g : txn' = Running("write", op, a, NoAccount, g)
            /\ editor' = Untouched
            /\ disk'.plist = a /\ disk'.plists = {}
  BY <1>3, <1>6
     DEF SaveSameAccount, Announce, StoreBecomes, saved, staged, SameAccounts
<1>8. EditorCovers'
  BY <1>1, <1>2, <1>7, SameCovers DEF EditorCovers, NoTxn, NoRecovery
<1>9. SaveCovers'
  BY <1>7 DEF SaveCovers, NoTxn, Running
<1>10. RecoveryCovers'
  BY <1>1, IdleRecoveryCovers DEF NoRecovery
<1> QED BY <1>1, <1>7, <1>8, <1>9, <1>10 DEF Cover

LEMMA SaveConfigurationCovers ==
  ASSUME IInv, Cover, NEW a \in Account, NEW out \in Outcome,
         SaveConfiguration(a, out)
  PROVE  Cover'
<1> USE CoverFacts
<1> DEFINE saved == Saved(Store, a, out)
<1>1. /\ txn.step = "idle" /\ recovery.step = "idle"
      /\ UNCHANGED <<app, item, editor, txn, recovery>>
      /\ StoreBecomes(saved) /\ item[disk.plist] = 0
  BY DEF SaveConfiguration, CanSave, NoTxn, NoRecovery
<1>2. Covers(item, disk.journal, a)
  BY <1>1 DEF Cover, DiskCovers, Covers
<1>3. DiskCovers(item, disk') /\ disk'.journal = disk.journal
  BY <1>1, <1>2, SavedCovers DEF Cover, StoreBecomes
<1>4. EditorCovers'
  BY <1>1, <1>3 DEF Cover, EditorCovers
<1> QED
  BY <1>1, <1>3, <1>4, IdleSaveCovers, IdleRecoveryCovers DEF Cover

LEMMA SaveMigrationCovers ==
  ASSUME IInv, Cover, NEW a \in Account, NEW out \in Outcome,
         SaveMigration(a, out)
  PROVE  Cover'
<1> USE CoverFacts
<1> DEFINE j == MigrationStaged(journal, disk.plist, a)
           staged == Persisted(Store, j, out)
<1>1. /\ app = "up" /\ recovery.step = "idle" /\ editor' = Untouched
      /\ journal = disk.journal /\ MayStageMigration(journal)
      /\ disk.plist # a /\ Announce(staged, out)
      /\ UNCHANGED <<app, item, recovery>>
  BY DEF SaveMigration, CanSave, NoRecovery
<1>2. j \in Journal
  <2>1. budget.saves < MaxSaves /\ budget.saves \in Nat
    BY StoreFacts, CostFacts, BudgetFacts DEF SaveMigration, RestOK
  <2> QED BY <1>1, <2>1, StoreFacts, MigrationStagedFine DEF Fine
<1>3. j.migration.old = disk.plist /\ j.migration.new = a
  BY MigrationStagedAccounts
<1>4. /\ Covers(item, j, disk.plist)
      /\ \A b \in Account : item[b] # 0 => b = disk.plist
  <2>1. \A b \in Account : item[b] # 0 => b = disk.plist
    BY <1>1, JournalConstants
       DEF Cover, DiskCovers, Covers, MayStageMigration, NoMigration,
           JournalConstants
  <2> QED BY <2>1 DEF Covers
<1> HIDE DEF j
<1>5. /\ DiskCovers(item, staged.disk)
      /\ out = "ok" => /\ staged.disk.journal = j
                       /\ staged.disk.plist = disk.plist
                       /\ staged.disk.journals = {}
  BY <1>2, <1>4, PersistedCovers, PersistedShape DEF Cover
<1> HIDE DEF staged
<1>6. disk' = staged.disk
  BY <1>1 DEF Announce, StoreBecomes
<1>7. SaveCovers'
  <2>1. CASE out = "ok"
    <3>1. \E g : txn' = Running("create", "create", a, disk.plist, g)
      BY <2>1 DEF SaveMigration
    <3>2. /\ txn'.step = "create" /\ txn'.account = a
          /\ txn'.old = disk.plist /\ txn'.result = "none"
      BY <3>1 DEF Running
    <3>3. item'[a] = 0
      BY <1>1, <1>4
    <3> QED BY <1>3, <1>5, <1>6, <2>1, <3>2, <3>3 DEF SaveCovers
  <2>2. CASE out # "ok"
    BY <2>2, IdleSaveCovers DEF SaveMigration, NoTxn
  <2> QED BY <2>1, <2>2
<1> QED
  BY <1>1, <1>5, <1>6, <1>7, IdleRecoveryCovers DEF Cover, EditorCovers

-----------------------------------------------------------------------------
(* The workers of a save                                                   *)

LEMMA KeychainWritesCovers ==
  ASSUME IInv, Cover, KeychainWrites
  PROVE  Cover'
<1> USE CoverFacts
<1>1. /\ txn.step \in {"write", "create"} /\ txn.result = "none"
      /\ app = "up" /\ recovery.step = "idle" /\ editor = Untouched
      /\ UNCHANGED <<disk, editor, recovery>>
      /\ txn.account \in Account
  BY DEF KeychainWrites, WorkerUnchanged, Cover, EditorCovers, IInv, TxnOwns
<1>2. /\ txn'.step = txn.step /\ txn'.account = txn.account
      /\ txn'.old = txn.old
      /\ \/ txn'.result = "failed" /\ item' = item
         \/ /\ txn'.result = "ok"
            /\ \E n : item' = [item EXCEPT ![txn.account] = n]
  BY DEF KeychainWrites, Answered, Transaction
<1>3. /\ \A b \in Account : b # txn.account => item'[b] = item[b]
      /\ txn'.result # "ok" => item' = item
  BY <1>2
<1>4. DiskCovers(item', disk)
  <2>1. CASE txn.step = "write"
    <3>1. disk.plist = txn.account /\ disk.plists = {}
      BY <2>1 DEF Cover, SaveCovers
    <3> QED BY <1>3, <3>1 DEF Cover, DiskCovers, Covers
  <2>2. CASE txn.step = "create"
    <3>1. \A j \in {disk.journal} \cup disk.journals :
            j.migration.new = txn.account
      BY <2>2 DEF Cover, SaveCovers
    <3> QED BY <1>3, <3>1 DEF Cover, DiskCovers, Covers
  <2> QED BY <1>1, <2>1, <2>2
<1>5. SaveCovers'
  BY <1>1, <1>2, <1>3 DEF Cover, SaveCovers
<1> QED
  BY <1>1, <1>4, <1>5, IdleRecoveryCovers DEF Cover, EditorCovers

LEMMA SaveWorkerCovers ==
  ASSUME IInv, Cover, SaveWorker
  PROVE  Cover'
<1> USE CoverFacts
<1>1. /\ txn.step # "idle" /\ UNCHANGED <<disk, editor, recovery>>
      /\ app = "up" /\ recovery.step = "idle" /\ editor = Untouched
  BY DEF SaveWorker, KeychainWrites, KeychainRemoves, KeychainFails,
         Inspect, WorkerUnchanged, Cover, EditorCovers
<1>2. CASE KeychainWrites
  BY <1>2, KeychainWritesCovers
<1>3. CASE KeychainRemoves
  <2> DEFINE gone == IF txn.step = "removeNew" THEN txn.account ELSE txn.old
  <2>1. /\ txn.step \in {"removeNew", "removeOld"}
        /\ txn' = [txn EXCEPT !.result = "ok"]
        /\ item' = [item EXCEPT ![gone] = 0]
    BY <1>3 DEF KeychainRemoves, Answered
  <2>2. /\ txn'.step = txn.step /\ txn'.account = txn.account
        /\ txn'.old = txn.old
    BY <2>1 DEF Transaction
  <2>3. item'[gone] = 0 /\ (\A b \in Account : item'[b] # 0 => item[b] # 0)
    <3>1. txn.account \in Account /\ txn.old \in Account
      BY <1>1, <2>1 DEF IInv, TxnOwns
    <3> QED BY <2>1, <3>1
  <2>4. DiskCovers(item', disk)
    BY <2>3, FewerCovered DEF Cover
  <2>5. SaveCovers'
    BY <1>1, <2>1, <2>2, <2>3 DEF Cover, SaveCovers
  <2> QED BY <1>1, <2>4, <2>5, IdleRecoveryCovers DEF Cover, EditorCovers
<1>4. CASE KeychainFails \/ Inspect
  <2>1. UNCHANGED item
    BY <1>4 DEF KeychainFails, Inspect
  <2>2. /\ txn'.step = txn.step /\ txn'.account = txn.account
        /\ txn'.old = txn.old
        /\ txn'.result # "ok" /\ (txn.step # "inspect" => txn.result = "none")
        /\ txn'.result = "neither" /\ txn.step = "inspect" =>
             disk.plist # txn.account /\ item[txn.account] = 0
    BY <1>4 DEF KeychainFails, Inspect, Answered, Transaction
  <2>3. SaveCovers'
    BY <1>1, <2>1, <2>2 DEF Cover, SaveCovers
  <2> QED
    BY <1>1, <2>1, <2>3, IdleRecoveryCovers DEF Cover, EditorCovers
<1> QED BY <1>2, <1>3, <1>4 DEF SaveWorker

-----------------------------------------------------------------------------
(* The main thread goes on with a save                                     *)

LEMMA SaveCoverFacts ==
  ASSUME IInv, Cover, txn.step # "idle"
  PROVE  /\ app = "up" /\ recovery.step = "idle" /\ editor = Untouched
         /\ journal = disk.journal /\ txn.account \in Account
         /\ budget.saves \in Nat /\ Fine(journal, budget.saves)
         /\ GoodStore(Store, budget.saves) /\ Agree(Store)
         /\ DiskCovers(item, disk)
BY CoverFacts, StoreFacts DEF Cover, EditorCovers, IInv, TxnOwns

(* A handler of a save ends it or goes on, and only the disk changes.      *)
LEMMA SaveStepCovers ==
  ASSUME IInv, Cover, txn.step # "idle",
         UNCHANGED <<app, item, recovery>>, DiskCovers(item, disk'),
         editor' = Untouched
           \/ /\ txn'.step = "idle"
              /\ Covers(item, disk'.journal, editor'.account),
         SaveCovers'
  PROVE  Cover'
BY SaveCoverFacts, IdleRecoveryCovers DEF Cover, EditorCovers

LEMMA FinishWriteCovers ==
  ASSUME IInv, Cover, NEW out \in Outcome, FinishWrite(out)
  PROVE  Cover'
<1> USE CoverFacts
<1> DEFINE j == RolledBack(journal)
           k == Committed(journal, IF txn.op = "delete" THEN "removed"
                                                        ELSE "changed")
           p == Persisted(Store, j, out)
           q == Persisted(Store, k, out)
<1>1. /\ txn.step = "write" /\ txn.step # "idle" /\ txn'.step = "idle"
      /\ UNCHANGED <<app, item, recovery>>
      /\ editor' = Untouched \/ editor'.account = txn.account
  BY DEF FinishWrite, NoTxn
<1> USE SaveCoverFacts
<1>2. journal.staged.generation = txn.generation =>
        journal.staged # NoNotice
  BY <1>1 DEF IInv, TxnOwns, NoNotice
<1>3. /\ j \in Journal /\ SameAccounts(j, journal)
      /\ SameAccounts(k, journal)
      /\ journal.staged # NoNotice => k \in Journal
  BY <1>1, RolledBackFine, CommittedFine, OperationsKeepAccounts DEF Fine
<1> HIDE DEF j, k
<1>4. /\ DiskCovers(item, p.disk) /\ DiskKept(disk, p.disk)
      /\ journal.staged # NoNotice =>
           DiskCovers(item, q.disk) /\ DiskKept(disk, q.disk)
  BY <1>1, <1>3, AccountsKept DEF Cover
<1> HIDE DEF p, q
<1>5. \/ disk' = disk
      \/ disk' = p.disk
      \/ disk' = q.disk /\ journal.staged # NoNotice
  BY <1>2
     DEF FinishWrite, Announce, StoreBecomes, p, q, j, k
<1>6. DiskCovers(item, disk') /\ DiskKept(disk, disk')
  BY <1>1, <1>4, <1>5 DEF DiskKept, SameAccounts
<1>7. Covers(item, disk'.journal, txn.account)
  <2>1. disk'.plist = txn.account
    BY <1>1, <1>6 DEF Cover, SaveCovers, DiskKept
  <2> QED BY <1>6, <2>1 DEF DiskCovers
<1> QED BY <1>1, <1>6, <1>7, IdleSaveCovers, SaveStepCovers

(* A migration ends: one of its items is gone and the other is configured. *)
LEMMA EndedCovers ==
  ASSUME IInv, app = "up", DiskCovers(item, disk), NEW out \in Outcome,
         MigrationEnds(out),
         LET m == disk.journal.migration
         IN  \/ disk.plist = m.old /\ item[m.new] = 0
             \/ disk.plist = m.new /\ item[m.old] = 0
  PROVE  DiskCovers(item, disk')
<1> USE CoverFacts
<1> DEFINE j == WithoutMigration(journal)
<1>1. j \in Journal
  BY StoreFacts, WithoutMigrationFine DEF Fine
<1>2. Covers(item, j, disk.plist)
  BY DEF DiskCovers, Covers
<1> HIDE DEF j
<1>3. disk' = Persisted(Store, j, out).disk
  BY DEF MigrationEnds, Announce, StoreBecomes, j
<1> QED BY <1>1, <1>2, <1>3, PersistedCovers

LEMMA ConfigurationCommittedCovers ==
  ASSUME IInv, Cover, txn.step \in {"create", "inspect"},
         UNCHANGED <<app, item, editor, recovery>>,
         NEW s, GoodStore(s, budget.saves), Agree(s),
         DiskCovers(item, s.disk),
         s.disk.journal.migration.old = txn.old,
         s.disk.journal.migration.new = txn.account,
         s.disk.plist = txn.account, s.journal.migration # NoMigration,
         NEW out1 \in Outcome, NEW out2 \in Outcome,
         ConfigurationCommitted(s, out1, out2)
  PROVE  Cover'
<1> DEFINE i == InPhase(s.journal, "configurationSaved")
           m == Persisted(s, i, out1)
           k == MigrationCommitted(m.journal)
           c == Persisted(m, k, out2)
           n == budget.saves
           Keeps(t) == /\ DiskCovers(item, t.disk)
                       /\ t.disk.journal.migration.old = txn.old
                       /\ t.disk.journal.migration.new = txn.account
                       /\ t.disk.plist = txn.account
<1>1. txn.step # "idle"
  OBVIOUS
<1>2. /\ n \in Nat /\ s \in Stores /\ s.journal \in Journal
      /\ s.journal = s.disk.journal /\ Fine(s.journal, n)
      /\ txn \in Transaction /\ editor' = Untouched
  BY <1>1, CoverFacts, SaveCoverFacts DEF GoodStore, Stores, Agree
<1>3. /\ Fine(i, n) /\ i \in Journal /\ SameAccounts(i, s.disk.journal)
      /\ i.migration # NoMigration
  BY <1>2, InPhaseFine, OperationsKeepAccounts DEF Fine
<1> HIDE DEF i
<1>4. /\ m \in Stores /\ m.journal \in Journal /\ GoodStore(m, n)
      /\ m.journal = m.disk.journal /\ Keeps(m)
      /\ m.journal.migration # NoMigration /\ Fine(m.journal, n)
  <2>1. DiskCovers(item, m.disk) /\ DiskKept(s.disk, m.disk)
    BY <1>2, <1>3, AccountsKept
  <2>2. /\ GoodStore(m, n) /\ Agree(m) /\ m.journal \in {s.journal, i}
    BY <1>2, <1>3, PersistedFacts
  <2> HIDE DEF m
  <2> QED
    BY <1>3, <2>1, <2>2
       DEF DiskKept, SameAccounts, GoodStore, Stores, Agree
<1> HIDE DEF m
<1>5. Keeps(c)
  <2>1. k \in Journal /\ SameAccounts(k, m.disk.journal)
    BY <1>2, <1>4, MigrationCommittedFine, OperationsKeepAccounts DEF Fine
  <2> HIDE DEF k
  <2>2. DiskCovers(item, c.disk) /\ DiskKept(m.disk, c.disk)
    BY <1>4, <2>1, AccountsKept
  <2> QED BY <1>4, <2>2 DEF DiskKept, SameAccounts
<1> HIDE DEF c
<1>6. /\ disk' = c.disk \/ disk' = m.disk
      /\ txn' = NoTxn \/ txn' = Goes("removeOld")
  BY DEF ConfigurationCommitted, Announce, StoreBecomes, m, c, i, k
<1>7. SaveCovers'
  <2>1. CASE txn' = NoTxn
    BY <2>1, IdleSaveCovers DEF NoTxn
  <2>2. CASE txn' = Goes("removeOld")
    <3>1. /\ txn'.step = "removeOld" /\ txn'.result = "none"
          /\ txn'.old = txn.old /\ txn'.account = txn.account
      BY <1>2, <2>2 DEF Goes, Transaction
    <3> QED BY <1>4, <1>5, <1>6, <3>1 DEF SaveCovers
  <2> QED BY <1>6, <2>1, <2>2
<1>8. DiskCovers(item, disk')
  BY <1>4, <1>5, <1>6
<1> QED BY <1>1, <1>2, <1>7, <1>8, SaveStepCovers

(* A save goes on with the migration it keeps.                             *)
LEMMA GoesOnCovers ==
  ASSUME IInv, Cover, txn.step \in {"create", "inspect"},
         UNCHANGED <<app, item, editor, recovery>>,
         DiskCovers(item, disk'), SameAccounts(disk'.journal, disk.journal),
         \/ txn' = NoTxn
         \/ txn' = Goes("inspect") /\ disk'.plist \in {txn.old, txn.account}
         \/ txn' = Goes("removeNew") /\ disk'.plist = txn.old
  PROVE  Cover'
<1>1. txn.step # "idle"
  OBVIOUS
<1>2. /\ txn \in Transaction /\ editor' = Untouched
      /\ disk.journal.migration.old = txn.old
      /\ disk.journal.migration.new = txn.account
  BY <1>1, CoverFacts, SaveCoverFacts DEF Cover, SaveCovers
<1>3. CASE txn' = NoTxn
  BY <1>1, <1>2, <1>3, IdleSaveCovers, SaveStepCovers DEF NoTxn
<1>4. CASE txn' # NoTxn
  <2>1. /\ txn'.step \in {"inspect", "removeNew"} /\ txn'.result = "none"
        /\ txn'.old = txn.old /\ txn'.account = txn.account
        /\ disk'.plist \in {txn.old, txn.account}
        /\ txn'.step = "removeNew" => disk'.plist = txn.old
    BY <1>2, <1>4 DEF Goes, Transaction
  <2>2. SaveCovers'
    BY <1>2, <2>1 DEF SaveCovers, SameAccounts
  <2> QED BY <1>1, <1>2, <2>2, SaveStepCovers
<1> QED BY <1>3, <1>4

LEMMA SaveEndsCovers ==
  ASSUME IInv, Cover, txn.step # "idle", txn' = NoTxn,
         UNCHANGED <<app, item, editor, recovery>>,
         DiskCovers(item, disk')
  PROVE  Cover'
BY IdleSaveCovers, SaveStepCovers, SaveCoverFacts DEF NoTxn

LEMMA FinishCreateCovers ==
  ASSUME IInv, Cover, NEW out1 \in Outcome, NEW out2 \in Outcome,
         NEW out3 \in Outcome, NEW out4 \in Outcome,
         FinishCreate(out1, out2, out3, out4)
  PROVE  Cover'
<1> USE CoverFacts
<1> DEFINE n == budget.saves
           j == InPhase(journal, "newCredentialReady")
           ready == Persisted(Store, j, out1)
           saved == Saved(ready, txn.account, out2)
<1>1. /\ txn.step = "create" /\ txn.step # "idle"
      /\ UNCHANGED <<app, item, editor, recovery>>
  BY DEF FinishCreate
<1> USE SaveCoverFacts
<1>2. /\ disk.plist = txn.old /\ journal.migration # NoMigration
      /\ disk.journal.migration.old = txn.old
      /\ disk.journal.migration.new = txn.account
      /\ txn.result # "ok" => item[txn.account] = 0
  BY <1>1 DEF Cover, SaveCovers, IInv, TxnOwns
<1>3. /\ Fine(j, n) /\ j \in Journal /\ SameAccounts(j, journal)
      /\ j.migration # NoMigration
  BY <1>1, <1>2, InPhaseFine, OperationsKeepAccounts DEF Fine
<1> HIDE DEF j
<1>4. /\ GoodStore(ready, n) /\ Agree(ready)
      /\ ready \in Stores /\ DiskCovers(item, ready.disk)
      /\ SameAccounts(ready.disk.journal, disk.journal)
      /\ ready.disk.plist = txn.old
      /\ ready.journal \in {journal, j}
  <2>1. DiskCovers(item, ready.disk) /\ DiskKept(disk, ready.disk)
    BY <1>1, <1>3, AccountsKept
  <2>2. /\ GoodStore(ready, n) /\ Agree(ready)
        /\ ready.journal \in {journal, j}
    BY <1>1, <1>3, PersistedFacts
  <2> HIDE DEF ready
  <2> QED BY <1>2, <2>1, <2>2 DEF DiskKept, GoodStore
<1> HIDE DEF ready
<1>5. /\ GoodStore(saved, n) /\ Agree(saved)
      /\ saved.journal = ready.journal
      /\ DiskCovers(item, saved.disk)
      /\ saved.disk.journal = ready.disk.journal
      /\ saved.disk.plist \in {txn.old, txn.account}
      /\ out2 = "ok" => saved.disk.plist = txn.account
  <2>1. Covers(item, ready.disk.journal, txn.account)
    BY <1>2, <1>4 DEF DiskCovers, Covers, SameAccounts
  <2>2. /\ GoodStore(saved, n) /\ Agree(saved)
        /\ saved.journal = ready.journal
    BY <1>1, <1>4, SavedFacts
  <2> QED BY <1>1, <1>4, <2>1, <2>2, SavedCovers
<1> HIDE DEF saved
<1>6. CASE txn.result = "failed"
  <2>1. MigrationEnds(out1) /\ txn' = NoTxn
    BY <1>6 DEF FinishCreate
  <2>2. DiskCovers(item, disk')
    BY <1>1, <1>2, <1>6, <2>1, EndedCovers
  <2> QED BY <1>1, <2>1, <2>2, SaveEndsCovers
<1>7. CASE txn.result = "ok" /\ out1 # "ok"
  <2>1. txn' = NoTxn /\ disk' = ready.disk
    BY <1>7 DEF FinishCreate, Announce, StoreBecomes, ready, j
  <2> QED BY <1>1, <1>4, <2>1, SaveEndsCovers
<1>8. CASE txn.result = "ok" /\ out1 = "ok" /\ out2 # "ok"
  <2>1. txn' = Goes("inspect") /\ disk' = saved.disk
    BY <1>8 DEF FinishCreate, Announce, StoreBecomes, saved, ready, j
  <2> QED BY <1>1, <1>4, <1>5, <2>1, GoesOnCovers
<1>9. CASE /\ txn.result # "failed"
           /\ ~(txn.result = "ok" /\ out1 # "ok")
           /\ ~(txn.result = "ok" /\ out1 = "ok" /\ out2 # "ok")
  <2>1. ConfigurationCommitted(saved, out3, out4)
    BY <1>9 DEF FinishCreate, saved, ready, j
  <2>2. txn.result = "ok"
    BY <1>1, <1>9 DEF FinishCreate, IInv, TxnOwns
  <2>3. /\ saved.disk.journal.migration.old = txn.old
        /\ saved.disk.journal.migration.new = txn.account
        /\ saved.disk.plist = txn.account
        /\ saved.journal.migration # NoMigration
    BY <1>2, <1>3, <1>4, <1>5, <1>9, <2>2 DEF SameAccounts
  <2> QED BY <1>1, <1>5, <2>1, <2>3, ConfigurationCommittedCovers
<1> QED BY <1>6, <1>7, <1>8, <1>9

LEMMA FinishInspectCovers ==
  ASSUME IInv, Cover, NEW out1 \in Outcome, NEW out2 \in Outcome,
         FinishInspect(out1, out2)
  PROVE  Cover'
<1> USE CoverFacts
<1> DEFINE j == InPhase(journal, "cleanupNew")
           p == Persisted(Store, j, out1)
<1>1. /\ txn.step = "inspect" /\ txn.step # "idle"
      /\ txn.result # "none" /\ txn.result # "ok"
      /\ UNCHANGED <<app, item, editor, recovery>>
  BY DEF FinishInspect, IInv, TxnOwns
<1> USE SaveCoverFacts
<1>2. /\ journal.migration # NoMigration
      /\ disk.journal.migration.old = txn.old
      /\ disk.journal.migration.new = txn.account
      /\ disk.plist \in {txn.old, txn.account}
      /\ txn.result = "neither" =>
           disk.plist = txn.old /\ item[txn.account] = 0
      /\ txn.result = "newAndSaved" => disk.plist = txn.account
      /\ txn.result = "newOnly" => disk.plist = txn.old
  BY <1>1 DEF Cover, SaveCovers, IInv, TxnOwns
<1>3. CASE txn.result \in {"failed", "savedOnly"}
  <2>1. txn' = NoTxn /\ disk' = disk
    BY <1>3 DEF FinishInspect, Announce, StoreBecomes
  <2> QED BY <1>1, <2>1, SaveEndsCovers
<1>4. CASE txn.result = "neither"
  <2>1. MigrationEnds(out1) /\ txn' = NoTxn
    BY <1>4 DEF FinishInspect
  <2>2. DiskCovers(item, disk')
    BY <1>1, <1>2, <1>4, <2>1, EndedCovers
  <2> QED BY <1>1, <2>1, <2>2, SaveEndsCovers
<1>5. CASE txn.result = "newOnly"
  <2>1. /\ disk' = p.disk
        /\ txn' = NoTxn \/ txn' = Goes("removeNew")
    BY <1>5 DEF FinishInspect, Announce, StoreBecomes
  <2>2. j \in Journal /\ SameAccounts(j, journal)
    BY <1>1, <1>2, InPhaseFine, OperationsKeepAccounts DEF Fine
  <2> HIDE DEF j
  <2>3. DiskCovers(item, p.disk) /\ DiskKept(disk, p.disk)
    BY <1>1, <2>2, AccountsKept
  <2> HIDE DEF p
  <2> QED BY <1>1, <1>2, <1>5, <2>1, <2>3, GoesOnCovers DEF DiskKept
<1>6. CASE txn.result = "newAndSaved"
  <2>1. ConfigurationCommitted(Store, out1, out2)
    BY <1>6 DEF FinishInspect
  <2> QED BY <1>1, <1>2, <1>6, <2>1, ConfigurationCommittedCovers
<1> QED BY <1>1, <1>3, <1>4, <1>5, <1>6 DEF Transaction

LEMMA FinishRemovalCovers ==
  ASSUME IInv, Cover, NEW out \in Outcome, FinishRemoval(out)
  PROVE  Cover'
<1> USE CoverFacts
<1>1. /\ txn.step \in {"removeNew", "removeOld"} /\ txn.step # "idle"
      /\ UNCHANGED <<app, item, editor, recovery>> /\ txn' = NoTxn
  BY DEF FinishRemoval
<1> USE SaveCoverFacts
<1>2. DiskCovers(item, disk')
  <2>1. CASE txn.result = "ok"
    <3>1. /\ disk.journal.migration.old = txn.old
          /\ disk.journal.migration.new = txn.account
          /\ \/ disk.plist = txn.old /\ item[txn.account] = 0
             \/ disk.plist = txn.account /\ item[txn.old] = 0
      BY <1>1, <2>1 DEF Cover, SaveCovers, IInv, TxnOwns
    <3>2. MigrationEnds(out)
      BY <2>1 DEF FinishRemoval
    <3> QED BY <1>1, <3>1, <3>2, EndedCovers
  <2>2. CASE txn.result # "ok"
    BY <1>1, <2>2 DEF FinishRemoval, Announce, StoreBecomes
  <2> QED BY <2>1, <2>2
<1> QED BY <1>1, <1>2, SaveEndsCovers

-----------------------------------------------------------------------------
(* The recovery of a migration                                             *)

LEMMA RecoveryWorkerCovers ==
  ASSUME IInv, Cover, RecoveryWorker
  PROVE  Cover'
<1> USE CoverFacts
<1>1. /\ recovery.step # "idle" /\ txn.step = "idle"
      /\ UNCHANGED <<app, disk, editor, txn>> /\ editor = Untouched
      /\ recovery.record.new \in Account /\ recovery.record.old \in Account
  BY DEF RecoveryWorker, Probe, ConfirmAndRemove, ConfirmFails,
         RecoveryWorkerUnchanged, Cover, EditorCovers, IInv, RecoveryOwns,
         Recovery, Migration
<1>2. CASE Probe
  <2>1. /\ recovery'.step = recovery.step /\ UNCHANGED item
        /\ recovery'.record = recovery.record
        /\ recovery.step \in {"probe", "reread"}
        /\ recovery'.result = "ok" => recovery'.current = disk.plist
        /\ recovery.step = "reread" =>
             \/ recovery'.newExists
             \/ /\ recovery'.newExists = recovery.newExists
                /\ recovery'.oldExists = recovery.oldExists
    BY <1>2 DEF Probe, Recovery
  <2>2. /\ recovery.step = "reread" =>
             recovery'.oldExists = recovery.oldExists
        /\ recovery.step = "probe" /\ recovery'.result = "ok" =>
             /\ recovery'.newExists \/ item[recovery.record.new] = 0
             /\ recovery'.oldExists \/ item[recovery.record.old] = 0
    BY <1>2 DEF Probe, Recovery
  <2>3. RecoveryCovers'
    BY <1>1, <2>1, <2>2 DEF Cover, RecoveryCovers
  <2> QED
    BY <1>1, <2>1, <2>3, IdleSaveCovers DEF Cover, EditorCovers
<1>3. CASE ConfirmAndRemove \/ ConfirmFails
  <2>1. /\ recovery.step \in {"validate", "removeNew", "removeOld"}
        /\ \E r : recovery' = [recovery EXCEPT !.result = r]
    BY <1>3 DEF ConfirmAndRemove, ConfirmFails
  <2>2. /\ recovery'.step = recovery.step
        /\ recovery'.record = recovery.record
        /\ recovery'.newExists = recovery.newExists
        /\ recovery'.oldExists = recovery.oldExists
    BY <2>1 DEF Recovery
  <2>3. /\ \A b \in Account : item'[b] # 0 => item[b] # 0
        /\ recovery.step = "removeNew" /\ recovery'.result = "ok" =>
             item'[recovery.record.new] = 0
        /\ recovery.step = "removeOld" /\ recovery'.result = "ok" =>
             item'[recovery.record.old] = 0
        /\ recovery.step = "validate" /\ recovery'.result = "ok" =>
             disk.plist = recovery.record.new
    <3>1. CASE ConfirmAndRemove
      BY <1>1, <3>1 DEF ConfirmAndRemove, ConfirmedAccount, Recovery
    <3>2. CASE ConfirmFails
      BY <1>1, <3>2 DEF ConfirmFails, Recovery
    <3> QED BY <1>3, <3>1, <3>2
  <2>4. DiskCovers(item', disk)
    BY <2>3, FewerCovered DEF Cover
  <2>5. \A b \in Account : item[b] = 0 => item'[b] = 0
    BY <2>3
  <2>6. RecoveryCovers'
    BY <1>1, <2>1, <2>2, <2>3, <2>5 DEF Cover, RecoveryCovers
  <2> QED
    BY <1>1, <2>4, <2>6, IdleSaveCovers DEF Cover, EditorCovers
<1> QED BY <1>2, <1>3 DEF RecoveryWorker

LEMMA RecoveryCoverFacts ==
  ASSUME IInv, Cover, recovery.step # "idle"
  PROVE  /\ app = "up" /\ txn.step = "idle" /\ editor = Untouched
         /\ journal = disk.journal /\ journal.migration # NoMigration
         /\ budget.saves \in Nat /\ Fine(journal, budget.saves)
         /\ GoodStore(Store, budget.saves) /\ Agree(Store)
         /\ DiskCovers(item, disk)
         /\ disk.journal.migration.old = recovery.record.old
         /\ disk.journal.migration.new = recovery.record.new
BY CoverFacts, StoreFacts
   DEF Cover, EditorCovers, RecoveryCovers, IInv, RecoveryOwns

LEMMA RecoveryEndsCovers ==
  ASSUME IInv, Cover, recovery.step # "idle", RecoveryMainUnchanged,
         recovery' = NoRecovery, DiskCovers(item, disk')
  PROVE  Cover'
BY RecoveryCoverFacts, IdleSaveCovers, IdleRecoveryCovers
   DEF Cover, EditorCovers, RecoveryMainUnchanged, NoRecovery

LEMMA RecoveryGoesCovers ==
  ASSUME IInv, Cover, recovery.step # "idle", RecoveryMainUnchanged,
         NEW step \in {"validate", "reread", "removeNew", "removeOld"},
         recovery' = RecoveryGoes(step),
         recovery.step # "probe" \/ recovery.result = "ok",
         DiskCovers(item, disk'), SameAccounts(disk'.journal, disk.journal),
         step = "removeNew" => disk'.plist = recovery.record.old,
         step = "removeOld" => disk'.plist = recovery.record.new
  PROVE  Cover'
<1>1. /\ recovery'.step = step /\ recovery'.result = "none"
      /\ recovery'.record = recovery.record
      /\ recovery'.newExists = recovery.newExists
      /\ recovery'.oldExists = recovery.oldExists
  BY CoverFacts DEF RecoveryGoes, Recovery
<1>2. RecoveryCovers'
  BY <1>1 DEF Cover, RecoveryCovers, SameAccounts, RecoveryMainUnchanged
<1> QED
  BY <1>2, RecoveryCoverFacts, IdleSaveCovers
     DEF Cover, EditorCovers, RecoveryMainUnchanged

LEMMA UseNewCovers ==
  ASSUME IInv, Cover, recovery.step # "idle", RecoveryMainUnchanged,
         recovery.result = "ok", disk.plist = recovery.record.new,
         NEW validated,
         NEW out1 \in Outcome, NEW out2 \in Outcome, NEW out3 \in Outcome,
         UseNew(validated, out1, out2, out3)
  PROVE  Cover'
<1> USE CoverFacts, RecoveryCoverFacts
<1> DEFINE n == budget.saves
           r == recovery.record
           needs == NeedsNotice(r)
           j == InPhase(journal, "configurationSaved")
           marked == Persisted(Store, j, out1)
           k == MigrationCommitted(marked.journal)
           committed == Persisted(marked, k, out2)
           s == IF needs THEN committed ELSE Store
           last == IF recovery.oldExists THEN InPhase(s.journal, "cleanupOld")
                                         ELSE WithoutMigration(s.journal)
           final == Persisted(s, last, out3)
           Keeps(t) == /\ GoodStore(t, n) /\ Agree(t)
                       /\ t \in Stores /\ t.journal \in Journal
                       /\ t.journal = t.disk.journal
                       /\ Fine(t.journal, n)
                       /\ t.journal.migration # NoMigration
                       /\ DiskCovers(item, t.disk)
                       /\ SameAccounts(t.disk.journal, disk.journal)
                       /\ t.disk.plist = disk.plist
<1>1. ASSUME NEW t, Keeps(t), NEW i \in Journal, Fine(i, n),
             i.migration # NoMigration, SameAccounts(i, t.journal),
             NEW out \in Outcome
      PROVE  Keeps(Persisted(t, i, out))
  <2> DEFINE p == Persisted(t, i, out)
  <2>1. /\ GoodStore(p, n) /\ Agree(p) /\ p.journal \in {t.journal, i}
    BY <1>1, PersistedFacts
  <2>2. DiskCovers(item, p.disk) /\ DiskKept(t.disk, p.disk)
    BY <1>1, AccountsKept
  <2> HIDE DEF p
  <2>3. Keeps(p)
    BY <1>1, <2>1, <2>2 DEF DiskKept, SameAccounts, GoodStore, Agree, Stores
  <2> QED BY <2>3 DEF p
<1>2. Keeps(Store)
  BY DEF SameAccounts, GoodStore
<1> HIDE DEF Keeps
<1>3. Keeps(marked)
  <2>1. /\ Fine(j, n) /\ j \in Journal /\ j.migration # NoMigration
        /\ SameAccounts(j, journal)
    BY InPhaseFine, OperationsKeepAccounts DEF Fine
  <2> HIDE DEF j
  <2> QED BY <1>1, <1>2, <2>1
<1> HIDE DEF j, marked
<1>4. Keeps(committed)
  <2>1. /\ Fine(k, n) /\ k \in Journal /\ k.migration # NoMigration
        /\ SameAccounts(k, marked.journal)
    BY <1>3, MigrationCommittedFine, OperationsKeepAccounts DEF Fine, Keeps
  <2> HIDE DEF k
  <2> QED BY <1>1, <1>3, <2>1
<1> HIDE DEF k, committed
<1>5. Keeps(s)
  BY <1>2, <1>4
<1> HIDE DEF s
<1>6. /\ DiskCovers(item, final.disk) /\ final.disk.plist = disk.plist
      /\ recovery.oldExists => SameAccounts(final.disk.journal, disk.journal)
  <2>1. CASE recovery.oldExists
    <3>1. /\ Fine(last, n) /\ last \in Journal
          /\ last.migration # NoMigration /\ SameAccounts(last, s.journal)
      BY <1>5, <2>1, InPhaseFine, OperationsKeepAccounts DEF Fine, Keeps
    <3> HIDE DEF last
    <3> QED BY <1>1, <1>5, <3>1 DEF Keeps
  <2>2. CASE ~recovery.oldExists
    <3>1. last \in Journal /\ last = WithoutMigration(s.journal)
      BY <1>5, <2>2, WithoutMigrationFine DEF Fine, Keeps
    <3>2. item[disk.journal.migration.old] = 0
      BY <2>2 DEF Cover, RecoveryCovers
    <3>3. Covers(item, last, s.disk.plist)
      BY <1>5, <3>2 DEF Keeps, DiskCovers, Covers, SameAccounts
    <3> HIDE DEF last
    <3>4. s \in Stores /\ DiskCovers(item, s.disk) /\ last \in Journal
      BY <1>5, <3>1 DEF Keeps
    <3>5. DiskCovers(item, final.disk)
      BY <3>3, <3>4, PersistedCovers
    <3>6. final.disk.plist = s.disk.plist
      BY <3>4, PersistedShape DEF Outcome
    <3> QED BY <1>5, <2>2, <3>5, <3>6 DEF Keeps
  <2> QED BY <2>1, <2>2
<1> HIDE DEF last, final
<1>7. \/ disk' = disk /\ recovery' = RecoveryGoes("validate")
      \/ disk' = disk /\ recovery' = NoRecovery
      \/ disk' = marked.disk /\ recovery' = NoRecovery
      \/ disk' = committed.disk /\ recovery' = NoRecovery
      \/ disk' = final.disk /\ recovery' = NoRecovery
      \/ /\ disk' = final.disk /\ recovery' = RecoveryGoes("removeOld")
         /\ recovery.oldExists
  <2> DEFINE foreign ==
               /\ ~needs /\ journal.pending.account # r.new
               /\ ~(r.phase = "cleanupOld" /\ journal.pending = NoNotice)
  <2>1. CASE needs /\ ~validated
    BY <2>1 DEF UseNew, Announce, StoreBecomes
  <2>2. CASE foreign
    BY <2>2 DEF UseNew, Announce, StoreBecomes
  <2>3. CASE needs /\ validated /\ out1 # "ok"
    BY <2>3 DEF UseNew, Announce, StoreBecomes, marked, j
  <2>4. CASE needs /\ validated /\ out1 = "ok" /\ out2 # "ok"
    BY <2>4 DEF UseNew, Announce, StoreBecomes, committed, marked, j, k
  <2>5. CASE /\ ~(needs /\ ~validated) /\ ~foreign
             /\ ~(needs /\ validated /\ out1 # "ok")
             /\ ~(needs /\ validated /\ out1 = "ok" /\ out2 # "ok")
    <3>1. /\ Announce(final, IF needs THEN "ok" ELSE out3)
          /\ recovery' = IF recovery.oldExists /\ out3 = "ok"
                           THEN RecoveryGoes("removeOld") ELSE NoRecovery
      BY <2>5 DEF UseNew, final, last, s, committed, marked, j, k
    <3> QED BY <3>1 DEF Announce, StoreBecomes
  <2> QED BY <2>1, <2>2, <2>3, <2>4, <2>5
<1>8. /\ DiskCovers(item, disk') /\ disk'.plist = recovery.record.new
      /\ recovery' # NoRecovery => SameAccounts(disk'.journal, disk.journal)
  BY <1>2, <1>3, <1>4, <1>6, <1>7 DEF Keeps
<1> QED
  BY <1>7, <1>8, RecoveryEndsCovers, RecoveryGoesCovers

LEMMA DecideCovers ==
  ASSUME IInv, Cover, NEW out1 \in Outcome, NEW out2 \in Outcome,
         NEW out3 \in Outcome, Decide(out1, out2, out3)
  PROVE  Cover'
<1> USE CoverFacts, RecoveryCoverFacts
<1> DEFINE r == recovery.record
           current == recovery.current
           j == InPhase(journal, "cleanupNew")
           q == Persisted(Store, j, out1)
<1>1. /\ recovery.step \in {"probe", "reread"} /\ recovery.step # "idle"
      /\ RecoveryMainUnchanged
  BY DEF Decide
<1>2. \/ Announce(Store, "ok") /\ recovery' = NoRecovery
      \/ /\ recovery.result = "ok" /\ current = r.old
         /\ ~recovery.newExists
         /\ MigrationEnds(out1) /\ recovery' = NoRecovery
      \/ /\ recovery.result = "ok" /\ current = r.old
         /\ Announce(q, out1)
         /\ recovery' \in {NoRecovery, RecoveryGoes("removeNew")}
      \/ /\ recovery.result = "ok" /\ current = r.new
         /\ UseNew(recovery.validated \/ recovery.step = "reread",
                   out1, out2, out3)
  BY DEF Decide
<1>3. recovery.result = "ok" =>
        /\ disk.plist = current
        /\ recovery.newExists \/ item[r.new] = 0
  BY <1>1 DEF Cover, RecoveryCovers
<1>4. DiskCovers(item, q.disk) /\ DiskKept(disk, q.disk)
  <2>1. j \in Journal /\ SameAccounts(j, journal)
    BY <1>1, InPhaseFine, OperationsKeepAccounts DEF Fine
  <2> HIDE DEF j
  <2> QED BY <1>1, <2>1, AccountsKept
<1> HIDE DEF q
<1>5. CASE Announce(Store, "ok") /\ recovery' = NoRecovery
  BY <1>1, <1>5, RecoveryEndsCovers DEF Announce, StoreBecomes
<1>6. CASE /\ recovery.result = "ok" /\ current = r.old
           /\ ~recovery.newExists
           /\ MigrationEnds(out1) /\ recovery' = NoRecovery
  <2>1. DiskCovers(item, disk')
    BY <1>1, <1>3, <1>6, EndedCovers
  <2> QED BY <1>1, <1>6, <2>1, RecoveryEndsCovers
<1>7. CASE /\ recovery.result = "ok" /\ current = r.old
           /\ Announce(q, out1)
           /\ recovery' \in {NoRecovery, RecoveryGoes("removeNew")}
  <2>1. /\ DiskCovers(item, disk') /\ disk'.plist = r.old
        /\ SameAccounts(disk'.journal, disk.journal)
    BY <1>3, <1>4, <1>7 DEF Announce, StoreBecomes, DiskKept
  <2> QED
    BY <1>1, <1>7, <2>1, RecoveryEndsCovers, RecoveryGoesCovers
<1>8. CASE /\ recovery.result = "ok" /\ current = r.new
           /\ UseNew(recovery.validated \/ recovery.step = "reread",
                     out1, out2, out3)
  BY <1>1, <1>3, <1>8, UseNewCovers
<1> QED BY <1>2, <1>5, <1>6, <1>7, <1>8

LEMMA FinishValidationCovers ==
  ASSUME IInv, Cover, NEW out1 \in Outcome, NEW out2 \in Outcome,
         NEW out3 \in Outcome, FinishValidation(out1, out2, out3)
  PROVE  Cover'
<1>1. /\ recovery.step = "validate" /\ recovery.step # "idle"
      /\ RecoveryMainUnchanged
  BY DEF FinishValidation
<1>2. CASE recovery.result = "ok"
  <2>1. UseNew(TRUE, out1, out2, out3)
    BY <1>2 DEF FinishValidation
  <2>2. disk.plist = recovery.record.new
    BY <1>1, <1>2 DEF Cover, RecoveryCovers
  <2> QED BY <1>1, <1>2, <2>1, <2>2, UseNewCovers
<1>3. CASE recovery.result # "ok"
  <2>1. Announce(Store, "ok") /\ recovery' = RecoveryGoes("reread")
    BY <1>3 DEF FinishValidation
  <2>2. disk' = disk
    BY <2>1, CoverFacts DEF Announce, StoreBecomes
  <2> QED
    BY <1>1, <2>1, <2>2, RecoveryCoverFacts, RecoveryGoesCovers
       DEF SameAccounts
<1> QED BY <1>2, <1>3

LEMMA FinishCleanupCovers ==
  ASSUME IInv, Cover, NEW out \in Outcome, FinishCleanup(out)
  PROVE  Cover'
<1>1. /\ recovery.step \in {"removeNew", "removeOld"}
      /\ recovery.step # "idle"
      /\ RecoveryMainUnchanged /\ recovery' = NoRecovery
  BY DEF FinishCleanup
<1> USE RecoveryCoverFacts
<1>2. DiskCovers(item, disk')
  <2>1. CASE recovery.result = "ok"
    <3>1. \/ /\ disk.plist = recovery.record.old
             /\ item[recovery.record.new] = 0
          \/ /\ disk.plist = recovery.record.new
             /\ item[recovery.record.old] = 0
      BY <1>1, <2>1 DEF Cover, RecoveryCovers
    <3>2. MigrationEnds(out)
      BY <2>1 DEF FinishCleanup
    <3> QED BY <1>1, <3>1, <3>2, EndedCovers
  <2>2. CASE recovery.result # "ok"
    BY <1>1, <2>2, CoverFacts DEF FinishCleanup, Announce, StoreBecomes
  <2> QED BY <2>1, <2>2
<1> QED BY <1>1, <1>2, RecoveryEndsCovers

-----------------------------------------------------------------------------
(* Notices, the agent, crashes and launches                                *)

LEMMA FinishDeliveryCovers ==
  ASSUME IInv, DownIsEmpty, Cover, NEW out \in Outcome, FinishDelivery(out)
  PROVE  Cover'
<1> USE CoverFacts
<1> DEFINE k == Acknowledged(journal)
           p == Persisted(Store, k, out)
<1>1. /\ UNCHANGED <<app, item, editor, txn, recovery>>
      /\ disk' = p.disk \/ disk' = disk
  BY DEF FinishDelivery, StoreBecomes
<1>2. app = "up" /\ journal = disk.journal
  BY DEF FinishDelivery, DownIsEmpty, NoRequest
<1>3. k \in Journal /\ SameAccounts(k, journal)
  BY StoreFacts, AcknowledgedFine, OperationsKeepAccounts DEF Fine
<1> HIDE DEF k
<1>4. DiskCovers(item, p.disk) /\ DiskKept(disk, p.disk)
  BY <1>2, <1>3, AccountsKept DEF Cover
<1> HIDE DEF p
<1>5. DiskCovers(item, disk') /\ DiskKept(disk, disk')
  BY <1>1, <1>4 DEF Cover, DiskKept, SameAccounts
<1> QED BY <1>1, <1>5, KeptStepCovers

LEMMA CrashCovers ==
  ASSUME Gone, DiskCovers(item', disk')
  PROVE  Cover'
BY IdleSaveCovers, IdleRecoveryCovers
   DEF Gone, Cover, EditorCovers, NoTxn, NoRecovery

(* Only a power loss needs the hypothesis.                                 *)
LEMMA PowerLossCovers ==
  ASSUME IInv, Cover, PowerLoss, OneFileLost
  PROVE  Cover'
<1>1. PICK j \in {disk.journal} \cup disk.journals,
           p \in {disk.plist} \cup disk.plists :
        disk' = [journal |-> j, plist |-> p, journals |-> {}, plists |-> {}]
  BY DEF PowerLoss
<1>2. Gone /\ UNCHANGED item
  BY DEF PowerLoss
<1>3. Covers(item, j, p)
  BY <1>1 DEF OneFileLost, Cover, DiskCovers
<1>4. DiskCovers(item', disk')
  BY <1>1, <1>2, <1>3 DEF DiskCovers
<1> QED BY <1>2, <1>4, CrashCovers

LEMMA OpenCovers ==
  ASSUME IInv, Cover, app # "up", NEW out \in Outcome,
         NEW readable \in BOOLEAN, Open(out, readable),
         UNCHANGED <<item, editor, txn>>, RecoveryCovers'
  PROVE  Cover'
<1> USE CoverFacts
<1> DEFINE e == [journal |-> EmptyJournal, disk |-> disk]
           k == Promoted(disk.journal)
           p == Persisted(e, k, out)
<1>1. e \in Stores /\ e.disk = disk
  BY EmptyFacts DEF Stores
<1>2. k \in Journal /\ SameAccounts(k, disk.journal)
  BY StoreFacts, PromotedFine, OperationsKeepAccounts DEF Fine
<1>3. disk' = p.disk \/ disk' = disk
  BY DEF Open, Opened
<1> HIDE DEF e, k
<1>4. DiskCovers(item, p.disk)
  BY <1>1, <1>2, AccountsKept DEF Cover
<1> HIDE DEF p
<1>5. DiskCovers(item', disk')
  BY <1>3, <1>4 DEF Cover
<1>6. editor' = Untouched /\ txn'.step = "idle"
  BY DEF Cover, EditorCovers
<1> QED BY <1>5, <1>6, IdleSaveCovers DEF Cover, EditorCovers

LEMMA LaunchCovers ==
  ASSUME IInv, IInv', DownIsEmpty', Cover, NEW out \in Outcome,
         NEW readable \in BOOLEAN, Launch(out, readable)
  PROVE  Cover'
<1>1. /\ app # "up" /\ Open(out, readable)
      /\ recovery' = Recovering(journal'.migration)
      /\ UNCHANGED <<item, editor, txn>>
  BY DEF Launch
<1>2. RecoveryCovers'
  <2>1. CASE journal'.migration = NoMigration
    BY <1>1, <2>1, IdleRecoveryCovers DEF Recovering, NoRecovery
  <2>2. CASE journal'.migration # NoMigration
    <3>1. recovery' = [NoRecovery EXCEPT !.step = "probe",
                                         !.record = journal'.migration]
      BY <1>1, <2>2 DEF Recovering
    <3>2. /\ recovery'.step = "probe" /\ recovery'.result = "none"
          /\ recovery'.record = journal'.migration
      BY <3>1 DEF NoRecovery
    <3>3. journal' = disk'.journal
      BY <2>2 DEF DownIsEmpty, EmptyJournal, IInv, MemoryIsFile
    <3> QED BY <3>2, <3>3 DEF RecoveryCovers
  <2> QED BY <2>1, <2>2
<1> QED BY <1>1, <1>2, OpenCovers

LEMMA RetryCovers ==
  ASSUME IInv, Cover, NEW out \in Outcome, NEW readable \in BOOLEAN,
         Retry(out, readable)
  PROVE  Cover'
<1>1. /\ app # "up" /\ Open(out, readable)
      /\ UNCHANGED <<item, editor, txn, recovery>>
  BY DEF Retry
<1> QED BY <1>1, CoverFacts, IdleRecoveryCovers, OpenCovers

-----------------------------------------------------------------------------
(* No item is left behind                                                  *)

(* A handler spends faults, a save or a crash; only an edit is an edit.    *)
LEMMA EditsStay ==
  ASSUME IInv, [Next]_vars, budget'.edits = 0
  PROVE  budget.edits = 0 /\ (\A a \in Account : ~EditByHand(a))
<1>1. budget \in Budget
  BY DEF IInv, TypeOK
<1>2. /\ UNCHANGED budget => budget.edits = 0
      /\ Crash => budget.edits = 0
      /\ \A n : Fault(n) => budget.edits = 0
      /\ \A n : SpendSave(n) => budget.edits = 0
  BY <1>1, EditsKept, CrashKeepsEdits
<1>3. \A a \in Account : EditByHand(a) => budget'.edits = budget.edits + 1
  BY <1>1 DEF EditByHand, Budget
<1>4. budget.edits \in Nat
  BY <1>1, JournalConstants DEF JournalConstants, Budget
<1>5. \A a \in Account : ~EditByHand(a)
  BY <1>3, <1>4
<1>6. CASE Save
  BY <1>2, <1>5, <1>6
     DEF Save, SaveSameAccount, SaveConfiguration, SaveMigration
<1>7. CASE SaveWorker
  BY <1>2, <1>5, <1>7
     DEF SaveWorker, KeychainWrites, KeychainRemoves, KeychainFails, Inspect
<1>8. CASE SaveMain
  BY <1>2, <1>5, <1>8
     DEF SaveMain, FinishWrite, FinishCreate, FinishInspect, FinishRemoval
<1>9. CASE RecoveryWorker \/ RecoveryMain
  BY <1>2, <1>5, <1>9
     DEF RecoveryWorker, Probe, ConfirmAndRemove, ConfirmFails,
         RecoveryMain, Decide, FinishValidation, FinishCleanup
<1>10. CASE NoticeDelivery \/ AgentSteps
  BY <1>2, <1>5, <1>10
     DEF NoticeDelivery, AgentHandles, RequestIsLost, Observe,
         AllowAndRestart, FinishDelivery, AgentSteps, AgentReloads,
         AgentReads, StartOpenCode, AgentRestartsOpenCode, StopOpenCode,
         AgentUnchanged
<1>11. CASE Environment
  BY <1>2, <1>5, <1>11
     DEF Environment, Quit, PowerLoss, Launch, Retry, Open
<1>12. CASE UNCHANGED vars
  BY <1>2, <1>5, <1>12 DEF vars
<1> QED
  BY <1>5, <1>6, <1>7, <1>8, <1>9, <1>10, <1>11, <1>12 DEF Next

LEMMA DownStaysEmpty ==
  ASSUME IInv, DownIsEmpty, [Next]_vars
  PROVE  DownIsEmpty'
<1>1. CASE Save \/ SaveWorker \/ SaveMain \/ RecoveryWorker \/ RecoveryMain
  <2>1. app = "up" /\ app' = app
    BY <1>1, CoverFacts
       DEF Save, SaveSameAccount, SaveConfiguration, SaveMigration, CanSave,
           SaveWorker, KeychainWrites, KeychainRemoves, KeychainFails,
           Inspect, WorkerUnchanged, SaveMain, FinishWrite, FinishCreate,
           FinishInspect, FinishRemoval, RecoveryWorker, Probe,
           ConfirmAndRemove, ConfirmFails, RecoveryWorkerUnchanged,
           RecoveryMain, Decide, FinishValidation, FinishCleanup,
           RecoveryMainUnchanged
  <2> QED BY <2>1 DEF DownIsEmpty
<1>2. CASE NoticeDelivery
  <2>1. CASE Observe
    BY <2>1 DEF Observe, DownIsEmpty, Attempt, EmptyJournal
  <2>2. CASE AllowAndRestart
    BY <2>2 DEF AllowAndRestart, DownIsEmpty
  <2>3. CASE AgentHandles \/ RequestIsLost
             \/ \E out \in Outcome : FinishDelivery(out)
    <3>1. app = "up" /\ app' = app
      BY <2>3
         DEF AgentHandles, RequestIsLost, FinishDelivery, DownIsEmpty,
             NoRequest
    <3> QED BY <3>1 DEF DownIsEmpty
  <2> QED BY <1>2, <2>1, <2>2, <2>3 DEF NoticeDelivery
<1>3. CASE AgentSteps \/ UNCHANGED vars
  BY <1>3
     DEF AgentSteps, AgentReloads, AgentReads, StartOpenCode,
         AgentRestartsOpenCode, StopOpenCode, AgentUnchanged, vars,
         DownIsEmpty
<1>4. CASE Environment
  <2>1. CASE Quit \/ PowerLoss
    BY <2>1 DEF Quit, PowerLoss, Gone, DownIsEmpty
  <2>2. CASE \E out \in Outcome, readable \in BOOLEAN :
               Launch(out, readable) \/ Retry(out, readable)
    BY <2>2
       DEF Launch, Retry, Open, DownIsEmpty, Attempt, EmptyJournal
  <2>3. CASE \E a \in Account : EditByHand(a)
    BY <2>3 DEF EditByHand, DownIsEmpty
  <2> QED BY <1>4, <2>1, <2>2, <2>3 DEF Environment
<1> QED BY <1>1, <1>2, <1>3, <1>4 DEF Next

LEMMA CoverInit == Init => CoverInv
<1> SUFFICES ASSUME Init PROVE CoverInv
  OBVIOUS
<1>1. DiskCovers(item, disk)
  BY DEF Init, DiskCovers, Covers
<1> QED
  BY <1>1, InitInv
     DEF Init, CoverInv, DownIsEmpty, Cover, EditorCovers, SaveCovers,
         RecoveryCovers, NoTxn, NoRecovery

LEMMA CoverNext ==
  CoverInv /\ [Next]_vars /\ [OneFileLost]_vars => CoverInv'
<1> SUFFICES ASSUME CoverInv, [Next]_vars, [OneFileLost]_vars
             PROVE  CoverInv'
  OBVIOUS
<1>1. IInv /\ IInv' /\ DownIsEmpty /\ DownIsEmpty'
  BY NextInv, DownStaysEmpty DEF CoverInv
<1> SUFFICES ASSUME budget'.edits = 0 PROVE Cover'
  BY <1>1 DEF CoverInv
<1>2. Cover /\ (\A a \in Account : ~EditByHand(a))
  BY <1>1, EditsStay DEF CoverInv
<1>3. CASE Save
  BY <1>1, <1>2, <1>3, SaveSameAccountCovers, SaveConfigurationCovers,
     SaveMigrationCovers
     DEF Save
<1>4. CASE SaveWorker
  BY <1>1, <1>2, <1>4, SaveWorkerCovers
<1>5. CASE SaveMain
  BY <1>1, <1>2, <1>5, FinishWriteCovers, FinishRemovalCovers,
     FinishCreateCovers, FinishInspectCovers
     DEF SaveMain
<1>6. CASE RecoveryWorker
  BY <1>1, <1>2, <1>6, RecoveryWorkerCovers
<1>7. CASE RecoveryMain
  BY <1>1, <1>2, <1>7, DecideCovers, FinishValidationCovers,
     FinishCleanupCovers
     DEF RecoveryMain
<1>8. CASE \E out \in Outcome : FinishDelivery(out)
  BY <1>1, <1>2, <1>8, FinishDeliveryCovers
<1>9. CASE \/ AgentHandles \/ RequestIsLost \/ Observe \/ AllowAndRestart
           \/ AgentSteps \/ UNCHANGED vars
  <2>1. UNCHANGED <<app, disk, item, editor, txn, recovery>>
    BY <1>9
       DEF AgentHandles, RequestIsLost, Observe, AllowAndRestart,
           AgentSteps, AgentReloads, AgentReads, StartOpenCode,
           AgentRestartsOpenCode, StopOpenCode, AgentUnchanged, vars
  <2> QED BY <1>2, <2>1, SameStepCovers
<1>10. CASE Quit
  <2>1. Gone /\ UNCHANGED <<disk, item>>
    BY <1>10 DEF Quit
  <2> QED BY <1>2, <2>1, CrashCovers DEF Cover
<1>11. CASE PowerLoss
  BY <1>1, <1>2, <1>9, <1>11, PowerLossCovers
<1>12. CASE \E out \in Outcome, readable \in BOOLEAN :
              Launch(out, readable) \/ Retry(out, readable)
  BY <1>1, <1>2, <1>12, LaunchCovers, RetryCovers
<1> QED
  BY <1>2, <1>3, <1>4, <1>5, <1>6, <1>7, <1>8, <1>9, <1>10, <1>11, <1>12
     DEF Next, NoticeDelivery, Environment

(* As long as no power loss finds both the journal and config.plist not    *)
(* flushed, and nobody edited the configuration by hand, every Keychain    *)
(* item but the configured one is named by the migration in the journal's  *)
(* file (CredentialMutationJournal.swift), so that a relaunch can still    *)
(* remove it, through every failure, crash and restart of a save or of a   *)
(* recovery (CredentialMutationCoordinator.swift).                         *)
THEOREM NoneLeft ==
  Spec /\ [][OneFileLost]_vars => []NoneLeftBehind
<1>1. CoverInv => NoneLeftBehind
  BY DEF CoverInv, Cover, DiskCovers, Covers, NoneLeftBehind
<1> QED BY <1>1, CoverInit, CoverNext, PTL DEF Spec
=============================================================================

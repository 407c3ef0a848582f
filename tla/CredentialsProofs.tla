-------------------------- MODULE CredentialsProofs -------------------------
(***************************************************************************)
(* Proofs about Credentials: the inductive invariant, that no password     *)
(* reaches the configuration of another account, that a removal is final,  *)
(* that an available password is current, and that no start is silently    *)
(* unauthenticated, for any accounts, passwords and bounds.                *)
(***************************************************************************)
EXTENDS Credentials, TLAPS

(* What the invariant says of the read.                                    *)
ReadSound(r) ==
  /\ r.answer = "Found" =>
       /\ r.password \in Password
       /\ r.password.account = r.account
       /\ ReadRace \/ r.password = item[r.account]
  /\ r.account = NoAccount => r = NoReading

(* What the invariant says of the controller c and the configuration l.    *)
Sound(c, l) ==
  /\ c \in Controller /\ l \in Config
  /\ l.password # NoPassword => l.password.account = l.account
  /\ c.removed => l.password = NoPassword /\ c.state # "Available"
  /\ c.state = "Available" =>
       ~c.stale /\ (l # NoConfig => l.password # NoPassword)
  /\ ReadSound(c.reading)
  /\ ~ReadRace /\ l.password # NoPassword /\ ~c.stale =>
       notice # NoNotice \/ l.password = item[l.account]

Belongs(l) == l.password # NoPassword => l.password.account = l.account

(* The invariant but for the controller and its configuration.             *)
Around ==
  /\ item \in [Account -> MaybePassword]
  /\ \A a \in Account : item[a] # NoPassword => item[a].account = a
  /\ trusted \in SUBSET Account
  /\ plist \in Account \cup {NoAccount}
  /\ notice \in Notice
  /\ active \in Config /\ launched \in Config
  /\ Belongs(active) /\ Belongs(launched)
  /\ grant \in Grant
  /\ budget \in [passwords : 0..MaxPasswords, events : 0..MaxEvents]

LEMMA Split == IInv <=> Around /\ Sound(cred, latest)
<1>1. IInv => Around /\ Sound(cred, latest)
  BY DEF IInv, TypeOK, PasswordBelongs, RemovedStaysOut, AvailableIsTrusted,
         AnswerBelongs, OutdatedIsNoticed, Around, Sound, ReadSound,
         Belongs
<1>2. Around /\ Sound(cred, latest) => IInv
  BY DEF IInv, TypeOK, PasswordBelongs, RemovedStaysOut, AvailableIsTrusted,
         AnswerBelongs, OutdatedIsNoticed, Around, Sound, ReadSound,
         Belongs
<1> QED BY <1>1, <1>2

-----------------------------------------------------------------------------
(* The operators of the controller.                                        *)

(* A request starts a read about the account or leaves the one under way.  *)
LEMMA RequestedIs ==
  ASSUME NEW c \in Controller, NEW a \in Account
  PROVE  /\ Requested(c, a) \in Controller
         /\ Requested(c, a).state = c.state
         /\ Requested(c, a).stale = c.stale
         /\ Requested(c, a).removed = c.removed
         /\ \/ Requested(c, a).reading = c.reading
            \/ Requested(c, a).reading =
                 [account |-> a, answer |-> "none", password |-> NoPassword]
  BY DEF Requested, Controller, Reading, Answers, MaybePassword

(* The same holds for the one automatic read.                              *)
LEMMA ReadOnceIs ==
  ASSUME NEW c \in Controller, NEW a \in Account
  PROVE  /\ ReadOnce(c, a) \in Controller
         /\ ReadOnce(c, a).state = c.state
         /\ ReadOnce(c, a).stale = c.stale
         /\ ReadOnce(c, a).removed = c.removed
         /\ \/ ReadOnce(c, a).reading = c.reading
            \/ ReadOnce(c, a).reading =
                 [account |-> a, answer |-> "none", password |-> NoPassword]
<1> DEFINE d == [c EXCEPT !.attempted = @ \cup {a}]
<1>1. /\ d \in Controller
      /\ d.state = c.state /\ d.stale = c.stale /\ d.removed = c.removed
      /\ d.reading = c.reading
  BY DEF Controller
<1> HIDE DEF d
<1>2. Requested(d, a) \in Controller
      /\ Requested(d, a).state = c.state /\ Requested(d, a).stale = c.stale
      /\ Requested(d, a).removed = c.removed
      /\ \/ Requested(d, a).reading = c.reading
         \/ Requested(d, a).reading =
              [account |-> a, answer |-> "none", password |-> NoPassword]
  BY <1>1, RequestedIs
<1>3. ReadOnce(c, a) \in {c, Requested(d, a)}
  BY DEF ReadOnce, d
<1> QED BY <1>2, <1>3

(* A probe makes the credential available only with a carried password.    *)
LEMMA ProbedIs ==
  ASSUME NEW c \in Controller, NEW g, NEW a \in Account, NEW previous
  PROVE  /\ Probed(c, g, a, previous) \in Controller
         /\ \/ Probed(c, g, a, previous).state = "AccessPending"
            \/ /\ Probed(c, g, a, previous).state = "Available"
               /\ ~c.stale /\ Carries(previous, a)
         /\ Probed(c, g, a, previous).stale = c.stale
         /\ Probed(c, g, a, previous).removed = c.removed
         /\ \/ Probed(c, g, a, previous).reading = c.reading
            \/ Probed(c, g, a, previous).reading =
                 [account |-> a, answer |-> "none", password |-> NoPassword]
<1> DEFINE u == Unavailable(c)
           v == [c EXCEPT !.state = "Available"]
<1>1. /\ u \in Controller /\ u.state = "AccessPending"
      /\ u.stale = c.stale /\ u.removed = c.removed /\ u.reading = c.reading
  BY DEF Controller, Unavailable
<1>2. /\ v \in Controller /\ v.state = "Available"
      /\ v.stale = c.stale /\ v.removed = c.removed /\ v.reading = c.reading
  BY DEF Controller
<1>3. \/ Probed(c, g, a, previous)
             \in {u, Requested(u, a), ReadOnce(u, a)}
      \/ /\ ~c.stale /\ Carries(previous, a)
         /\ Probed(c, g, a, previous) = v
  <2> c.stale \in BOOLEAN BY DEF Controller
  <2> QED BY DEF Probed
<1> HIDE DEF u, v
<1>4. CASE Probed(c, g, a, previous) = u BY <1>1, <1>4
<1>5. CASE Probed(c, g, a, previous) = Requested(u, a)
  BY <1>1, <1>5, RequestedIs
<1>6. CASE Probed(c, g, a, previous) = ReadOnce(u, a)
  BY <1>1, <1>6, ReadOnceIs
<1>7. CASE /\ ~c.stale /\ Carries(previous, a)
           /\ Probed(c, g, a, previous) = v
  BY <1>2, <1>7
<1> QED BY <1>3, <1>4, <1>5, <1>6, <1>7

-----------------------------------------------------------------------------
(* Loading a configuration.                                                *)

(* A read that was just requested is sound.                                *)
LEMMA NewReadSound ==
  ASSUME NEW a \in Account
  PROVE  ReadSound([account |-> a, answer |-> "none", password |-> NoPassword])
  BY CredentialConstants DEF ReadSound

(* The bounds: spending what a step costs keeps the budget in its type.    *)
LEMMA SpendKeeps ==
  ASSUME Around, NEW n \in Nat, Spend(n)
  PROVE  budget' \in [passwords : 0..MaxPasswords, events : 0..MaxEvents]
  BY CredentialConstants DEF Around, Spend

(* A merge into any sound controller keeps it sound; previous need not be  *)
(* the configuration that goes with the state of the controller.           *)
LEMMA MergeSound ==
  ASSUME Around, NEW c, NEW g \in Grant, NEW a \in Account, NEW previous,
         NEW cost \in Nat, Sound(c, previous), Merge(c, g, a, previous, cost)
  PROVE  /\ Sound(cred', latest') /\ grant' \in Grant
         /\ budget' \in [passwords : 0..MaxPasswords, events : 0..MaxEvents]
<1>0. /\ NoAccount \notin Account /\ NoPassword \notin Password
      /\ NoGrant \in Grant
  BY CredentialConstants, NoPasswordAssumption DEF NoGrant, Grant
<1>1. budget' \in [passwords : 0..MaxPasswords, events : 0..MaxEvents]
  BY SpendKeeps DEF Merge
<1>2. grant' \in Grant
  BY <1>0 DEF Merge, Cleared
<1>3. CASE /\ item[a] = NoPassword
           /\ latest' = [account |-> a, password |-> NoPassword]
           /\ cred' = [c EXCEPT !.state = "NotConfigured", !.stale = FALSE]
  <2>1. /\ cred' \in Controller /\ cred'.state = "NotConfigured"
        /\ cred'.removed = c.removed /\ cred'.reading = c.reading
    BY <1>3 DEF Sound, Controller
  <2>2. latest' \in Config /\ latest'.password = NoPassword
    BY <1>3 DEF Config, MaybePassword
  <2>3. ReadSound(cred'.reading) BY <2>1 DEF Sound
  <2> QED BY <1>1, <1>2, <2>1, <2>2, <2>3 DEF Sound
<1>4. CASE /\ latest' = [account |-> a, password |->
                  IF Carries(previous, a) THEN previous.password
                                          ELSE NoPassword]
           /\ \/ item[a] # NoPassword /\ cred' = Probed(c, g, a, previous)
              \/ cred' = Unavailable(c)
  <2>1. /\ latest' \in Config /\ latest'.account = a
        /\ \/ Carries(previous, a) /\ latest'.password = previous.password
           \/ ~Carries(previous, a) /\ latest'.password = NoPassword
    BY <1>4 DEF Sound, Config, MaybePassword
  <2>2. /\ cred' \in Controller
        /\ cred'.stale = c.stale /\ cred'.removed = c.removed
        /\ \/ cred'.state = "AccessPending"
           \/ /\ cred'.state = "Available"
              /\ ~c.stale /\ Carries(previous, a)
        /\ \/ cred'.reading = c.reading
           \/ cred'.reading =
                [account |-> a, answer |-> "none", password |-> NoPassword]
    <3>1. CASE cred' = Probed(c, g, a, previous)
      BY <3>1, ProbedIs DEF Sound
    <3>2. CASE cred' = Unavailable(c)
      BY <3>2 DEF Sound, Unavailable, Controller
    <3> QED BY <1>4, <3>1, <3>2
  <2>3. /\ latest'.password # NoPassword => latest'.password.account = a
        /\ latest'.password # NoPassword /\ ~c.stale /\ ~ReadRace =>
             notice # NoNotice \/ latest'.password = item[a]
        /\ c.removed => ~Carries(previous, a)
        /\ Carries(previous, a) => latest'.password # NoPassword
    BY <2>1 DEF Sound, Carries
  <2>4. ReadSound(cred'.reading)
    BY <2>2, NewReadSound DEF Sound
  <2> QED BY <1>0, <1>1, <1>2, <2>1, <2>2, <2>3, <2>4 DEF Sound
<1> QED BY <1>1, <1>2, <1>3, <1>4 DEF Merge

(* So does loading the file, valid or not.                                 *)
LEMMA RefreshSound ==
  ASSUME Around, NEW c, NEW g \in Grant, NEW previous, NEW cost \in Nat,
         Sound(c, previous), RefreshConfig(c, g, previous, cost)
  PROVE  /\ Sound(cred', latest') /\ grant' \in Grant
         /\ budget' \in [passwords : 0..MaxPasswords, events : 0..MaxEvents]
<1>1. CASE plist # NoAccount /\ Merge(c, g, plist, previous, cost)
  <2> plist \in Account BY <1>1 DEF Around
  <2> QED BY <1>1, MergeSound
<1>2. CASE /\ latest' \in {NoConfig, previous}
           /\ cred' = c /\ grant' = g /\ Spend(cost)
  <2>1. NoConfig \in Config /\ NoConfig.password = NoPassword
    BY DEF NoConfig, Config, MaybePassword
  <2>2. Sound(c, NoConfig) BY <2>1 DEF Sound
  <2> QED BY <1>2, <2>2, SpendKeeps
<1> QED BY <1>1, <1>2 DEF RefreshConfig

(* And a start, whose configuration becomes that of the process.           *)
LEMMA StartNowSound ==
  ASSUME Around, NEW c, NEW g \in Grant, NEW previous,
         Sound(c, previous), StartNow(c, g, previous)
  PROVE  /\ Sound(cred', latest') /\ grant' \in Grant
         /\ budget' \in [passwords : 0..MaxPasswords, events : 0..MaxEvents]
         /\ active' \in Config /\ launched' \in Config
         /\ Belongs(active') /\ Belongs(launched')
<1>1. /\ Sound(cred', latest') /\ grant' \in Grant
      /\ budget' \in [passwords : 0..MaxPasswords, events : 0..MaxEvents]
  BY RefreshSound DEF StartNow
<1>2. NoConfig \in Config /\ Belongs(NoConfig)
  BY DEF NoConfig, Config, MaybePassword, Belongs
<1>3. latest' \in Config /\ Belongs(latest')
  BY <1>1 DEF Sound, Belongs
<1>4. launched' \in {latest', NoConfig} /\ active' = launched'
  BY DEF StartNow
<1> QED BY <1>1, <1>2, <1>3, <1>4

-----------------------------------------------------------------------------
(* The steps.                                                              *)

(* A step that leaves items and notice alone and keeps the rest sound.     *)
LEMMA Framed ==
  ASSUME Around, Sound(cred', latest'),
         UNCHANGED <<item, notice>>,
         trusted' \in SUBSET Account, plist' \in Account \cup {NoAccount},
         active' \in Config, launched' \in Config,
         Belongs(active'), Belongs(launched'), grant' \in Grant,
         budget' \in [passwords : 0..MaxPasswords, events : 0..MaxEvents]
  PROVE  IInv'
<1>1. Around' BY DEF Around, Belongs
<1>2. Sound(cred, latest)' BY DEF Sound, ReadSound
<1> QED BY <1>1, <1>2, Split, PTL

(* The invariant holds in the initial states.                              *)
LEMMA InitSound == Init => IInv
<1> SUFFICES ASSUME Init PROVE IInv OBVIOUS
<1>1. NoConfig \in Config /\ NoConfig.password = NoPassword
  BY DEF NoConfig, Config, MaybePassword
<1>2. latest \in Config /\ latest.password = NoPassword
  BY CredentialConstants DEF Init, Config, MaybePassword
<1>3. NoGrant \in Grant /\ NoNotice \in Notice
  BY DEF NoGrant, Grant, NoNotice, Notice
<1>4. NewController \in Controller /\ ReadSound(NewController.reading)
  BY CredentialConstants
  DEF NewController, Controller, Reading, Answers, NoReading, MaybePassword,
      ReadSound
<1>5. Around
  BY <1>1, <1>3, CredentialConstants DEF Init, Around, Belongs, MaybePassword
<1>6. Sound(cred, latest)
  BY <1>2, <1>4 DEF Init, Sound, NewController
<1> QED BY <1>5, <1>6, Split

(* Loading, starting and adopting.                                         *)
LEMMA LoadStep ==
  ASSUME Around, Sound(cred, latest), Reload \/ Start
  PROVE  IInv'
<1>1. CASE Reload
  <2>1. RefreshConfig(cred, grant, latest, 0)
        /\ UNCHANGED <<item, trusted, plist, notice, active, launched>>
    BY <1>1 DEF Reload, keychainVars
  <2>2. /\ Sound(cred', latest') /\ grant' \in Grant
        /\ budget' \in [passwords : 0..MaxPasswords, events : 0..MaxEvents]
    BY <2>1, RefreshSound DEF Around
  <2> QED BY <2>1, <2>2, Framed DEF Around
<1>2. CASE Start
  <2>1. StartNow(cred, grant, latest)
        /\ UNCHANGED <<item, trusted, plist, notice>>
    BY <1>2 DEF Start, keychainVars
  <2>2. /\ Sound(cred', latest') /\ grant' \in Grant
        /\ budget' \in [passwords : 0..MaxPasswords, events : 0..MaxEvents]
        /\ active' \in Config /\ launched' \in Config
        /\ Belongs(active') /\ Belongs(launched')
    BY <2>1, StartNowSound DEF Around
  <2> QED BY <2>1, <2>2, Framed DEF Around
<1> QED BY <1>1, <1>2

(* What happens to the process alone.                                      *)
LEMMA ProcessStep ==
  ASSUME Around, Sound(cred, latest), ProcessExits \/ Adopt
  PROVE  IInv'
<1>1. NoConfig \in Config /\ Belongs(NoConfig)
  BY DEF NoConfig, Config, MaybePassword, Belongs
<1>2. latest \in Config /\ Belongs(latest) BY DEF Sound, Belongs
<1>3. /\ active' \in {NoConfig, latest} /\ launched' \in {NoConfig, launched}
      /\ UNCHANGED <<item, trusted, plist, notice, latest, cred, grant, budget>>
  BY DEF ProcessExits, Adopt, keychainVars
<1> QED BY <1>1, <1>2, <1>3, Framed DEF Around

(* A new agent.                                                            *)
LEMMA RestartStep ==
  ASSUME Around, Sound(cred, latest), AgentRestarts
  PROVE  IInv'
<1>1. NewController \in Controller /\ ReadSound(NewController.reading)
  BY CredentialConstants
  DEF NewController, Controller, Reading, Answers, NoReading, MaybePassword,
      ReadSound
<1>2. NoConfig \in Config /\ NoConfig.password = NoPassword
  BY DEF NoConfig, Config, MaybePassword
<1>3. Sound(NewController, NoConfig)
  BY <1>1, <1>2 DEF Sound, NewController
<1>4. PICK g : /\ g \in Grant
               /\ \/ /\ plist # NoAccount
                     /\ Merge(NewController, g, plist, NoConfig, 1)
                  \/ /\ plist = NoAccount /\ Spend(1)
                     /\ latest' = NoConfig /\ cred' = NewController
                     /\ grant' = g
  <2>1. \A team \in {grant.team, FALSE} :
          [grant EXCEPT !.build = FALSE, !.team = team] \in Grant
    BY DEF Around, Grant
  <2> QED BY <2>1 DEF AgentRestarts, Around
<1>5. /\ Sound(cred', latest') /\ grant' \in Grant
      /\ budget' \in [passwords : 0..MaxPasswords, events : 0..MaxEvents]
  <2>1. CASE plist # NoAccount /\ Merge(NewController, g, plist, NoConfig, 1)
    <3> plist \in Account BY <2>1 DEF Around
    <3> QED BY <1>3, <1>4, <2>1, MergeSound
  <2>2. CASE /\ plist = NoAccount /\ Spend(1)
             /\ latest' = NoConfig /\ cred' = NewController /\ grant' = g
    BY <1>3, <1>4, <2>2, SpendKeeps
  <2> QED BY <1>4, <2>1, <2>2
<1>6. /\ active' \in {NoConfig, launched} /\ trusted' \in {trusted, {}}
      /\ UNCHANGED <<item, plist, notice, launched>>
  BY DEF AgentRestarts, userVars
<1> QED BY <1>2, <1>5, <1>6, Framed DEF Around, Belongs

(* The account the agent speaks of is an account.                          *)
LEMMA OwnAccountIs ==
  ASSUME Sound(cred, latest)
  PROVE  OwnAccount \in Account
<1>1. CASE latest = NoConfig BY <1>1, CredentialConstants DEF OwnAccount
<1>2. CASE latest # NoConfig
  <2>1. latest.account # NoAccount
    <3> SUFFICES ASSUME latest.account = NoAccount PROVE FALSE OBVIOUS
    <3>1. latest.password = NoPassword
      <4> SUFFICES ASSUME latest.password # NoPassword PROVE FALSE OBVIOUS
      <4>1. latest.password \in Password
        BY DEF Sound, Config, MaybePassword
      <4>2. latest.password.account \in Account BY <4>1 DEF Password
      <4> QED BY <4>2, CredentialConstants DEF Sound
    <3> QED BY <1>2, <3>1 DEF Sound, Config, NoConfig
  <2> QED BY <1>2, <2>1 DEF OwnAccount, Sound, Config
<1> QED BY <1>1, <1>2

(* A command that starts a read.                                           *)
LEMMA AuthorizeStep ==
  ASSUME Around, Sound(cred, latest), Authorize
  PROVE  IInv'
<1> DEFINE d == [cred EXCEPT !.removed = FALSE]
<1>1. Sound(d, latest) /\ d \in Controller
  BY DEF Sound, Controller
<1>2. cred' = cred \/ cred' = Requested(d, OwnAccount)
  BY DEF Authorize
<1> HIDE DEF d
<1>3. Sound(Requested(d, OwnAccount), latest)
  BY <1>1, OwnAccountIs, RequestedIs, NewReadSound DEF Sound
<1>4. Sound(cred', latest) BY <1>2, <1>3
<1>5. UNCHANGED <<item, trusted, plist, notice, latest, active, launched, grant>>
  BY DEF Authorize, keychainVars
<1>6. budget' \in [passwords : 0..MaxPasswords, events : 0..MaxEvents]
  BY SpendKeeps DEF Authorize
<1> QED BY <1>4, <1>5, <1>6, Framed DEF Around

(* An answer that tells what Keychain has is sound.                        *)
LEMMA AnsweredSound ==
  ASSUME Around, Sound(cred, latest), NEW answer, NEW password,
         Answered(answer, password),
         \/ answer \in Answers \ {"Found"} /\ password = NoPassword
         \/ /\ answer = "Found" /\ cred.reading.account \in Account
            /\ password = item[cred.reading.account] /\ password # NoPassword
  PROVE  Sound(cred', latest')
<1>1. /\ cred' = [cred EXCEPT !.reading.answer = answer,
                              !.reading.password = password]
      /\ cred.reading # NoReading /\ latest' = latest
  BY DEF Answered
<1>2. cred.reading \in Reading /\ cred.reading.account # NoAccount
  BY <1>1 DEF Sound, ReadSound, Controller
<1>3. password \in MaybePassword
  BY DEF Around, MaybePassword
<1>4. /\ cred' \in Controller
      /\ cred'.state = cred.state /\ cred'.stale = cred.stale
      /\ cred'.removed = cred.removed
      /\ cred'.reading.account = cred.reading.account
      /\ cred'.reading.answer = answer /\ cred'.reading.password = password
  BY <1>1, <1>2, <1>3 DEF Sound, Controller, Reading, Answers
<1>5. ReadSound(cred'.reading)
  BY <1>2, <1>4 DEF ReadSound, Around, MaybePassword
<1> QED BY <1>1, <1>4, <1>5 DEF Sound

(* The worker's answers.                                                   *)
LEMMA AnswerStep ==
  ASSUME Around, Sound(cred, latest), ReadSilently \/ AnswerDialog \/ ReadFails
  PROVE  IInv'
<1>1. cred.reading # NoReading => cred.reading.account \in Account
  BY DEF Sound, ReadSound, Controller, Reading
<1>2. PICK answer, password :
        /\ Answered(answer, password)
        /\ \/ answer \in Answers \ {"Found"} /\ password = NoPassword
           \/ /\ answer = "Found" /\ cred.reading.account \in Account
              /\ password = item[cred.reading.account]
              /\ password # NoPassword
  <2>1. CASE ReadSilently
    BY <1>1, <2>1, CredentialConstants DEF ReadSilently, Answers
  <2>2. CASE AnswerDialog BY <1>1, <2>2 DEF AnswerDialog, Answers
  <2>3. CASE ReadFails BY <2>3 DEF ReadFails, Answers
  <2> QED BY <2>1, <2>2, <2>3
<1>3. Sound(cred', latest') BY <1>2, AnsweredSound
<1>4. UNCHANGED <<item, plist, notice, latest, active, launched, grant>>
  BY <1>2 DEF Answered, userVars
<1>5. trusted' \in SUBSET Account
  BY <1>1 DEF ReadSilently, AnswerDialog, ReadFails, Around
<1>6. budget' \in [passwords : 0..MaxPasswords, events : 0..MaxEvents]
  <2>1. CASE ReadFails BY <2>1, SpendKeeps DEF ReadFails
  <2>2. CASE budget' = budget BY <2>2 DEF Around
  <2> QED BY <2>1, <2>2 DEF ReadSilently, AnswerDialog
<1> QED BY <1>3, <1>4, <1>5, <1>6, Framed DEF Around

(* Clearing the marker leaves a marker or none.                            *)
LEMMA ClearedIs ==
  ASSUME NEW g \in Grant, NEW a
  PROVE  Cleared(g, a) \in Grant
<1>1. NoGrant \in Grant BY DEF NoGrant, Grant
<1> QED BY <1>1 DEF Cleared

(* The controller after the slot of the read is free again.                *)
LEMMA ReleasedIs ==
  ASSUME Sound(cred, latest)
  PROVE  /\ Released \in Controller
         /\ Released.state = cred.state /\ Released.stale = cred.stale
         /\ Released.removed = cred.removed
         /\ Released.reading = NoReading
         /\ ReadSound(NoReading)
  BY CredentialConstants
  DEF Released, Sound, Controller, NoReading, Reading, Answers, MaybePassword,
      ReadSound

(* A password that is applied, and the start it resumes.                   *)
LEMMA AppliedStep ==
  ASSUME Around, Sound(cred, latest), ~Discarded,
         cred.reading.answer = "Found", PasswordApplied,
         UNCHANGED <<item, trusted, plist, notice>>
  PROVE  IInv'
<1> DEFINE a == cred.reading.account
           c == [Released EXCEPT !.state = "Available", !.stale = FALSE,
                                 !.attempted = @ \ {a}]
           l == [latest EXCEPT !.password = cred.reading.password]
<1>1. /\ cred.reading.password \in Password
      /\ cred.reading.password.account = a
      /\ ReadRace \/ cred.reading.password = item[a]
      /\ cred.removed = FALSE /\ latest.account = a
  BY DEF Sound, ReadSound, Discarded, Controller
<1>2. a \in Account BY <1>1 DEF Password
<1>3. /\ l \in Config /\ l.account = a
      /\ l.password = cred.reading.password /\ l.password # NoPassword
  BY <1>1, NoPasswordAssumption DEF Sound, Config, MaybePassword
<1>4. /\ c \in Controller /\ c.state = "Available" /\ c.stale = FALSE
      /\ c.removed = FALSE /\ c.reading = NoReading
  BY <1>1, ReleasedIs DEF Controller
<1>5. Sound(c, l)
  <2> HIDE DEF c, l
  <2> QED BY <1>1, <1>3, <1>4, ReleasedIs DEF Sound
<1>6. Recorded(a) \in Grant
  BY <1>2, CredentialConstants DEF Recorded, Grant
<1>7. CASE StartNow(c, Recorded(a), l)
  <2>1. /\ Sound(cred', latest') /\ grant' \in Grant
        /\ budget' \in [passwords : 0..MaxPasswords, events : 0..MaxEvents]
        /\ active' \in Config /\ launched' \in Config
        /\ Belongs(active') /\ Belongs(launched')
    BY <1>5, <1>6, <1>7, StartNowSound
  <2> QED BY <2>1, Framed DEF Around
<1>8. CASE /\ cred' = c /\ latest' = l /\ grant' = Recorded(a)
           /\ UNCHANGED <<active, launched, budget>>
  BY <1>5, <1>6, <1>8, Framed DEF Around
<1> QED BY <1>7, <1>8 DEF PasswordApplied

(* Every other answer.                                                     *)
LEMMA PollStep ==
  ASSUME Around, Sound(cred, latest), PollRead
  PROVE  IInv'
<1>1. UNCHANGED <<item, trusted, plist, notice>>
  BY DEF PollRead, keychainVars
<1>2. CASE ~Discarded /\ cred.reading.answer = "Found" /\ PasswordApplied
  BY <1>1, <1>2, AppliedStep
<1>3. CASE /\ UNCHANGED <<active, launched, budget>>
           /\ \/ cred' = Released /\ latest' = latest
              \/ /\ cred' = [Released EXCEPT !.state = "NotConfigured",
                                             !.stale = FALSE]
                 /\ latest' = [latest EXCEPT !.password = NoPassword]
              \/ cred' = Unavailable(Released) /\ latest' = latest
           /\ grant' \in {grant, Cleared(grant, cred.reading.account)}
  <2>1. grant' \in Grant
    BY <1>3, ClearedIs DEF Around
  <2>2. Sound(cred', latest')
    <3>1. CASE cred' = Released /\ latest' = latest
      BY <3>1, ReleasedIs DEF Sound
    <3>2. CASE /\ cred' = [Released EXCEPT !.state = "NotConfigured",
                                           !.stale = FALSE]
               /\ latest' = [latest EXCEPT !.password = NoPassword]
      <4>1. /\ cred' \in Controller /\ cred'.state = "NotConfigured"
            /\ cred'.removed = cred.removed /\ cred'.reading = NoReading
        BY <3>2, ReleasedIs DEF Controller
      <4>2. latest' \in Config /\ latest'.password = NoPassword
        BY <3>2 DEF Sound, Config, MaybePassword
      <4> QED BY <4>1, <4>2, ReleasedIs DEF Sound
    <3>3. CASE cred' = Unavailable(Released) /\ latest' = latest
      <4>1. /\ cred' \in Controller /\ cred'.state = "AccessPending"
            /\ cred'.stale = cred.stale
            /\ cred'.removed = cred.removed /\ cred'.reading = NoReading
        BY <3>3, ReleasedIs DEF Controller, Unavailable
      <4> QED BY <3>3, <4>1, ReleasedIs DEF Sound
    <3> QED BY <1>3, <3>1, <3>2, <3>3
  <2> QED BY <1>1, <1>3, <2>1, <2>2, Framed DEF Around
<1> QED BY <1>2, <1>3 DEF PollRead

(* A notice, delivered; it may be delivered again.                         *)
LEMMA DeliverStep ==
  ASSUME Around, Sound(cred, latest), Deliver
  PROVE  IInv'
<1>1. UNCHANGED <<item, trusted, plist, active, launched>>
  BY DEF Deliver, keychainVars
<1>2. notice' \in Notice
  BY DEF Deliver, Around, NoNotice, Notice
<1>3. grant' \in Grant
  BY ClearedIs DEF Deliver, Around
<1>4. budget' \in [passwords : 0..MaxPasswords, events : 0..MaxEvents]
  BY SpendKeeps DEF Deliver
<1>5. Around'
  BY <1>1, <1>2, <1>3, <1>4 DEF Around, Belongs
<1>6. /\ cred' \in Controller /\ ReadSound(cred'.reading)
      /\ \/ /\ cred'.stale = TRUE /\ cred'.removed = FALSE
            /\ cred'.state = "AccessPending" /\ latest' = latest
         \/ /\ cred'.state = "NotConfigured"
            /\ latest' = [latest EXCEPT !.password = NoPassword]
  <2>1. CASE cred' = Changed(cred, OwnAccount) /\ latest' = latest
    <3> DEFINE m == [cred EXCEPT !.removed = FALSE, !.stale = TRUE,
                                 !.state = "AccessPending"]
    <3>1. /\ m \in Controller /\ m.removed = FALSE /\ m.stale = TRUE
          /\ m.state = "AccessPending" /\ m.reading = cred.reading
      BY DEF Sound, Controller
    <3>2. cred' = m \/ cred' = ReadOnce(m, OwnAccount)
      BY <2>1 DEF Changed
    <3> HIDE DEF m
    <3>3. CASE cred' = m BY <2>1, <3>1, <3>3 DEF Sound
    <3>4. CASE cred' = ReadOnce(m, OwnAccount)
      <4>1. ReadSound(cred'.reading)
        BY <3>1, <3>4, OwnAccountIs, ReadOnceIs, NewReadSound DEF Sound
      <4> QED BY <2>1, <3>1, <3>4, <4>1, OwnAccountIs, ReadOnceIs
    <3> QED BY <3>2, <3>3, <3>4
  <2>2. CASE /\ cred' = [cred EXCEPT !.removed = TRUE, !.stale = FALSE,
                                     !.state = "NotConfigured"]
             /\ latest' = [latest EXCEPT !.password = NoPassword]
    BY <2>2 DEF Sound, Controller
  <2> QED BY <2>1, <2>2 DEF Deliver
<1>7. Sound(cred', latest')
  <2>1. CASE latest' = [latest EXCEPT !.password = NoPassword]
             /\ cred'.state = "NotConfigured"
    <3>1. latest' \in Config /\ latest'.password = NoPassword
      BY <2>1 DEF Sound, Config, MaybePassword
    <3> QED BY <1>6, <2>1, <3>1 DEF Sound
  <2>2. CASE /\ cred'.stale = TRUE /\ cred'.removed = FALSE
             /\ cred'.state = "AccessPending" /\ latest' = latest
    BY <1>6, <2>2 DEF Sound
  <2> QED BY <1>6, <2>1, <2>2
<1>8. Sound(cred, latest)'
  <2>1. CASE cred'.stale = TRUE BY <1>1, <1>7, <2>1 DEF Sound, ReadSound
  <2>2. CASE latest' = [latest EXCEPT !.password = NoPassword]
    <3>1. latest'.password = NoPassword
      BY <2>2 DEF Sound, Config
    <3> QED BY <1>1, <1>7, <3>1 DEF Sound, ReadSound
  <2> QED BY <1>6, <2>1, <2>2
<1> QED BY <1>5, <1>8, Split, PTL

(* A write of an item is followed by a notice, and never falls between a   *)
(* decrypt and its poll.                                                   *)
LEMMA ItemStep ==
  ASSUME Around, Sound(cred, latest), SavePassword \/ RemovePassword
  PROVE  IInv'
<1>1. UNCHANGED <<latest, active, launched, cred, grant>>
  BY DEF SavePassword, RemovePassword, agentVars
<1>2. budget' \in [passwords : 0..MaxPasswords, events : 0..MaxEvents]
  <2>1. CASE SavePassword
    BY <2>1, CredentialConstants DEF SavePassword, Around
  <2>2. CASE RemovePassword BY <2>2, SpendKeeps DEF RemovePassword
  <2> QED BY <2>1, <2>2
<1>3. /\ item' \in [Account -> MaybePassword]
      /\ \A a \in Account : item'[a] # NoPassword => item'[a].account = a
  <2>1. CASE SavePassword
    <3>1. PICK a \in Account :
            \/ item' = [item EXCEPT ![a] =
                          [account |-> a, n |-> budget.passwords + 1]]
            \/ item' = [item EXCEPT ![plist] = NoPassword, ![a] =
                          [account |-> a, n |-> budget.passwords + 1]]
      BY <2>1 DEF SavePassword
    <3>2. [account |-> a, n |-> budget.passwords + 1] \in Password
      BY <2>1, CredentialConstants DEF SavePassword, Password, Around
    <3> DEFINE p == [account |-> a, n |-> budget.passwords + 1]
    <3>3. p \in MaybePassword /\ NoPassword \in MaybePassword /\ p.account = a
      BY <3>2 DEF MaybePassword
    <3>4. \/ item' = [item EXCEPT ![a] = p]
          \/ item' = [item EXCEPT ![plist] = NoPassword, ![a] = p]
      BY <3>1
    <3> HIDE DEF p
    <3> QED BY <3>3, <3>4 DEF Around
  <2>2. CASE RemovePassword
    BY <2>2 DEF RemovePassword, Around, MaybePassword
  <2> QED BY <2>1, <2>2
<1>4. /\ trusted' \in SUBSET Account /\ plist' \in Account \cup {NoAccount}
      /\ notice' \in Notice /\ notice' # NoNotice
      /\ cred.reading.answer = "Found" => ReadRace
  BY DEF SavePassword, RemovePassword, Around, Notice, NoNotice, Quiet
<1>5. Around' BY <1>1, <1>2, <1>3, <1>4 DEF Around, Belongs
<1>6. ReadSound(cred.reading)'
  BY <1>1, <1>4 DEF Sound, ReadSound
<1>7. Sound(cred, latest)'
  BY <1>1, <1>4, <1>6 DEF Sound
<1> QED BY <1>5, <1>7, Split, PTL

(* An edit of the file.                                                    *)
LEMMA EditStep ==
  ASSUME Around, Sound(cred, latest), EditConfig
  PROVE  IInv'
<1>1. /\ UNCHANGED <<item, trusted, notice, latest, active, launched, cred,
                     grant>>
      /\ plist' \in Account \cup {NoAccount}
  BY DEF EditConfig, keychainVars, agentVars
<1>2. budget' \in [passwords : 0..MaxPasswords, events : 0..MaxEvents]
  BY SpendKeeps DEF EditConfig
<1> QED BY <1>1, <1>2, Framed DEF Around

-----------------------------------------------------------------------------
(* The inductive invariant: the controller, the configuration it fills and *)
(* the read under way agree with Keychain and the journal, through every   *)
(* reload, read, notice, write and restart.                                *)
THEOREM CredentialInvariant == Spec => []IInv
<1>1. IInv /\ [Next]_vars => IInv'
  <2> SUFFICES ASSUME Around, Sound(cred, latest), [Next]_vars PROVE IInv'
    BY Split
  <2>1. CASE Reload \/ Start BY <2>1, LoadStep
  <2>2. CASE ProcessExits \/ Adopt BY <2>2, ProcessStep
  <2>3. CASE Authorize BY <2>3, AuthorizeStep
  <2>4. CASE ReadSilently \/ AnswerDialog \/ ReadFails BY <2>4, AnswerStep
  <2>5. CASE PollRead BY <2>5, PollStep
  <2>6. CASE Deliver BY <2>6, DeliverStep
  <2>7. CASE SavePassword \/ RemovePassword BY <2>7, ItemStep
  <2>8. CASE EditConfig BY <2>8, EditStep
  <2>9. CASE AgentRestarts BY <2>9, RestartStep
  <2>10. CASE UNCHANGED vars
    BY <2>10, Framed DEF vars, Around, Belongs
  <2> QED BY <2>1, <2>2, <2>3, <2>4, <2>5, <2>6, <2>7, <2>8, <2>9, <2>10
          DEF Next
<1> QED BY <1>1, InitSound, PTL DEF Spec

(* No password ever gets into the configuration of another account.        *)
THEOREM PasswordBelongsHolds == Spec => []PasswordBelongs
<1>1. IInv => PasswordBelongs BY DEF IInv
<1> QED BY <1>1, CredentialInvariant, PTL

(* A removal is final: no read under way and no reload undoes it.          *)
THEOREM RemovedStaysOutHolds == Spec => []RemovedStaysOut
<1>1. IInv => RemovedStaysOut BY DEF IInv
<1> QED BY <1>1, CredentialInvariant, PTL

(* When no item is written between a decrypt and its poll, a password that *)
(* is reported as available is the one in Keychain.                        *)
THEOREM AvailableIsCurrentHolds ==
  ASSUME ~ReadRace
  PROVE  Spec => []AvailableIsCurrent
<1>1. IInv => AvailableIsCurrent
  BY DEF IInv, AvailableIsTrusted, OutdatedIsNoticed, AvailableIsCurrent
<1> QED BY <1>1, CredentialInvariant, PTL

(* A start that goes through has read the password, or proved that there   *)
(* is none.                                                                *)
LEMMA StartNowAuthenticated ==
  ASSUME NEW c \in Controller, NEW g, NEW previous, StartNow(c, g, previous),
         plist \in Account \cup {NoAccount},
         launched' # NoConfig, launched'.password = NoPassword
  PROVE  item[launched'.account] = NoPassword
<1>1. /\ launched' = latest' /\ cred'.state # "AccessPending"
      /\ latest' # NoConfig
  BY DEF StartNow, MayStart
<1>2. Merge(c, g, plist, previous, 0) /\ plist \in Account
  BY <1>1 DEF StartNow, RefreshConfig
<1>3. CASE /\ item[plist] = NoPassword
           /\ latest' = [account |-> plist, password |-> NoPassword]
  BY <1>1, <1>3
<1>4. CASE /\ latest' = [account |-> plist, password |->
                  IF Carries(previous, plist) THEN previous.password
                                              ELSE NoPassword]
           /\ \/ cred' = Probed(c, g, plist, previous)
              \/ cred' = Unavailable(c)
  <2>1. Unavailable(c).state = "AccessPending"
    BY DEF Unavailable, Controller
  <2>2. Carries(previous, plist) BY <1>1, <1>2, <1>4, <2>1, ProbedIs
  <2> QED BY <1>1, <1>4, <2>2 DEF Carries
<1> QED BY <1>2, <1>3, <1>4 DEF Merge

(* OpenCode is never started without authentication while its account has  *)
(* a password.                                                             *)
THEOREM StartIsAuthenticatedHolds == Spec => StartIsAuthenticated
<1>1. IInv /\ [Next]_vars =>
        (launched = NoConfig /\ launched' # NoConfig
           /\ launched'.password = NoPassword
         => item[launched'.account] = NoPassword)
  <2> SUFFICES ASSUME Around, Sound(cred, latest), [Next]_vars,
                      launched = NoConfig, launched' # NoConfig,
                      launched'.password = NoPassword
               PROVE  item[launched'.account] = NoPassword
    BY Split
  <2>1. plist \in Account \cup {NoAccount} BY DEF Around
  <2>2. CASE Start
    BY <2>1, <2>2, StartNowAuthenticated DEF Start, Sound
  <2>3. CASE PollRead
    <3>1. PasswordApplied BY <2>3 DEF PollRead
    <3> DEFINE a == cred.reading.account
               c == [Released EXCEPT !.state = "Available", !.stale = FALSE,
                                     !.attempted = @ \ {a}]
               l == [latest EXCEPT !.password = cred.reading.password]
    <3>2. StartNow(c, Recorded(a), l) BY <3>1 DEF PasswordApplied
    <3>3. c \in Controller BY ReleasedIs DEF Controller
    <3> HIDE DEF c, l
    <3> QED BY <2>1, <3>2, <3>3, StartNowAuthenticated
  <2> QED BY <2>2, <2>3
     DEF Next, vars, Reload, ProcessExits, Adopt, Authorize, ReadSilently,
         AnswerDialog, ReadFails, Answered, Deliver, SavePassword,
         RemovePassword, EditConfig, AgentRestarts, agentVars
<1> QED BY <1>1, CredentialInvariant, PTL DEF Spec, StartIsAuthenticated
=============================================================================

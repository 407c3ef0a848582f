---------------------------- MODULE Credentials -----------------------------
(***************************************************************************)
(* The credential controller of the agent: which Keychain password the     *)
(* configuration carries, whether it may be trusted as current, and when   *)
(* the agent may decrypt an item by itself                                 *)
(* (rust/src/supervisor/credential.rs, rust/src/credential_grant.rs),      *)
(* with the parts of the supervisor that use it, the application that      *)
(* writes the items, and Keychain.                                         *)
(*                                                                         *)
(* A decrypt runs on a worker and may wait for a consent dialog; items,    *)
(* account and notices move on meanwhile.                                  *)
(***************************************************************************)
EXTENDS Integers

CONSTANTS
  Account,         \* user names, one Keychain item each
  NoAccount,       \* no configuration, no account
  DefaultAccount,  \* "opencode"
  NoPassword,
  HasTeam,         \* is this build signed by a team?
  MaxPasswords,    \* bound: passwords the user invents
  MaxEvents,       \* bound: acts of the user and the environment
  ReadRace         \* may an item change between its decrypt and the poll?

ASSUME CredentialConstants ==
  /\ NoAccount \notin Account /\ DefaultAccount \in Account
  /\ HasTeam \in BOOLEAN /\ ReadRace \in BOOLEAN
  /\ MaxPasswords \in Nat /\ MaxEvents \in Nat

VARIABLES
  item,      \* Keychain: the password of each account, if it has one
  trusted,   \* Keychain: the accounts whose item this build decrypts silently
  plist,     \* the account config.plist names; NoAccount when it is invalid
  notice,    \* the journal's notice the agent has not acknowledged
  latest,    \* Supervisor.latest_config
  active,    \* Supervisor.active_config
  launched,  \* the configuration the running OpenCode was started with
  cred,      \* the CredentialController
  grant,     \* the persisted grant marker
  budget     \* history: bounds already used

vars == <<item, trusted, plist, notice, latest, active, launched, cred, grant,
          budget>>

Password == [account : Account, n : 1..MaxPasswords]

ASSUME NoPasswordAssumption == NoPassword \notin Password

MaybePassword == Password \cup {NoPassword}

Config == [account : Account \cup {NoAccount}, password : MaybePassword]

NoConfig == [account |-> NoAccount, password |-> NoPassword]

Answers == {"none", "Found", "NotConfigured", "AccessPending", "Failed"}

(* CredentialRefreshInFlight: the answer is in the channel once it is not  *)
(* "none"; a reading for NoAccount is no reading.                          *)
Reading == [account : Account \cup {NoAccount}, answer : Answers,
            password : MaybePassword]

NoReading ==
  [account |-> NoAccount, answer |-> "none", password |-> NoPassword]

(* attempted is automatic_read_attempted, removed is                       *)
(* credential_explicitly_removed.                                          *)
Controller ==
  [state : {"NotConfigured", "AccessPending", "Available"}, stale : BOOLEAN,
   removed : BOOLEAN, attempted : SUBSET Account, reading : Reading]

NewController ==
  [state |-> "NotConfigured", stale |-> FALSE, removed |-> FALSE,
   attempted |-> {}, reading |-> NoReading]

(* The marker's account, whether it names this bundle version and whether  *)
(* it names the team of this build.                                        *)
Grant == [account : Account \cup {NoAccount}, build : BOOLEAN, team : BOOLEAN]

NoGrant == [account |-> NoAccount, build |-> FALSE, team |-> FALSE]

Notice == [account : Account \cup {NoAccount},
           kind : {"none", "changed", "removed"}]

NoNotice == [account |-> NoAccount, kind |-> "none"]

TypeOK ==
  /\ item \in [Account -> MaybePassword]
  /\ trusted \in SUBSET Account
  /\ plist \in Account \cup {NoAccount}
  /\ notice \in Notice
  /\ latest \in Config /\ active \in Config /\ launched \in Config
  /\ cred \in Controller
  /\ grant \in Grant
  /\ budget \in [passwords : 0..MaxPasswords, events : 0..MaxEvents]

keychainVars == <<item, trusted>>
userVars     == <<item, plist, notice>>
agentVars    == <<latest, active, launched, cred, grant>>

Spend(n) ==
  /\ budget.events + n <= MaxEvents
  /\ budget' = [budget EXCEPT !.events = @ + n]

-----------------------------------------------------------------------------
(* The grant marker and the single-flight read.                            *)

(* background_decrypt_allowed                                              *)
Covered(g, a) == g.account = a /\ g.build

TeamMatches(g, a) == g.account = a /\ g.team

(* clear_for                                                               *)
Cleared(g, a) == IF g.account = a THEN NoGrant ELSE g

Recorded(a) == [account |-> a, build |-> TRUE, team |-> HasTeam]

(* request_credential_refresh_for                                          *)
Requested(c, a) ==
  IF c.reading # NoReading THEN c
  ELSE [c EXCEPT !.reading =
          [account |-> a, answer |-> "none", password |-> NoPassword]]

(* dispatch_automatic_credential_read                                      *)
ReadOnce(c, a) ==
  IF c.reading # NoReading \/ a \in c.attempted THEN c
  ELSE Requested([c EXCEPT !.attempted = @ \cup {a}], a)

-----------------------------------------------------------------------------
(* merge_credentials: a configuration for account a replaces previous.     *)

(* Mutant of Carries: a password of an earlier account is reused.          *)
CarriesAny(previous, a) == previous.password # NoPassword

(* carry_over_password                                                     *)
Carries(previous, a) ==
  previous.account = a /\ previous.password # NoPassword

Unavailable(c) == [c EXCEPT !.state = "AccessPending"]

(* Mutant of Probed: a change that was noticed is forgotten by a reload.   *)
ProbedAsCurrent(c, g, a, previous) ==
  IF Carries(previous, a) THEN [c EXCEPT !.state = "Available"]
                          ELSE Unavailable(c)

(* Mutant of Probed: a proven grant does not lead to a read.               *)
ProbedOnly(c, g, a, previous) ==
  IF ~c.stale /\ Carries(previous, a) THEN [c EXCEPT !.state = "Available"]
                                      ELSE Unavailable(c)

(* The item exists.                                                        *)
Probed(c, g, a, previous) ==
  IF c.stale                     THEN Unavailable(c)
  ELSE IF Carries(previous, a)   THEN [c EXCEPT !.state = "Available"]
  ELSE IF Covered(g, a)          THEN Requested(Unavailable(c), a)
  ELSE IF TeamMatches(g, a)      THEN ReadOnce(Unavailable(c), a)
  ELSE Unavailable(c)

Merge(c, g, a, previous, cost) ==
  \/ /\ item[a] = NoPassword
     /\ latest' = [account |-> a, password |-> NoPassword]
     /\ cred' = [c EXCEPT !.state = "NotConfigured", !.stale = FALSE]
     /\ grant' = Cleared(g, a)
     /\ Spend(cost)
  \/ /\ latest' = [account |-> a, password |->
          IF Carries(previous, a) THEN previous.password ELSE NoPassword]
     /\ \/ /\ item[a] # NoPassword /\ cred' = Probed(c, g, a, previous)
           /\ Spend(cost)
        \/ cred' = Unavailable(c) /\ Spend(cost + 1)        \* the probe fails
     /\ grant' = g

(* refresh_config; an agent without a process drops its configuration      *)
(* when the file is invalid.                                               *)
RefreshConfig(c, g, previous, cost) ==
  \/ plist # NoAccount /\ Merge(c, g, plist, previous, cost)
  \/ /\ plist = NoAccount
     /\ \/ active = NoConfig /\ latest' = NoConfig
        \/ launched # NoConfig /\ latest' = previous
     /\ cred' = c /\ grant' = g /\ Spend(cost)

(* A change of the file, or the recheck every minute.                      *)
Reload ==
  /\ RefreshConfig(cred, grant, latest, 0)
  /\ UNCHANGED <<keychainVars, plist, notice, active, launched>>

(* Mutant of MayStart: a pending authorization does not refuse the start.  *)
MayStartPending(c, config) == config # NoConfig

MayStart(c, config) == config # NoConfig /\ c.state # "AccessPending"

(* start_now, for Keychain and configuration.                              *)
StartNow(c, g, previous) ==
  /\ launched = NoConfig
  /\ RefreshConfig(c, g, previous, 0)
  /\ launched' = IF MayStart(cred', latest') THEN latest' ELSE NoConfig
  /\ active' = launched'

Start ==
  /\ StartNow(cred, grant, latest)
  /\ UNCHANGED <<keychainVars, plist, notice>>

ProcessExits ==
  /\ launched # NoConfig
  /\ launched' = NoConfig /\ active' = NoConfig
  /\ UNCHANGED <<keychainVars, plist, notice, latest, cred, grant, budget>>

(* apply_stale_health_result: a process found running answers, and its     *)
(* fingerprint is that of the configuration.                               *)
Adopt ==
  /\ launched # NoConfig /\ active = NoConfig
  /\ latest = launched
  /\ active' = latest
  /\ UNCHANGED <<keychainVars, plist, notice, latest, launched, cred, grant,
                 budget>>

-----------------------------------------------------------------------------
(* The read: request, worker, answer.                                      *)

(* The account a command without one is about.                             *)
OwnAccount == IF latest = NoConfig THEN DefaultAccount ELSE latest.account

(* Allow Keychain Access in the settings window.                           *)
Authorize ==
  /\ Spend(1)
  /\ cred' = IF cred.reading # NoReading THEN cred
             ELSE Requested([cred EXCEPT !.removed = FALSE], OwnAccount)
  /\ UNCHANGED <<keychainVars, plist, notice, latest, active, launched, grant>>

Answered(answer, password) ==
  /\ cred.reading # NoReading /\ cred.reading.answer = "none"
  /\ cred' = [cred EXCEPT !.reading.answer = answer,
                          !.reading.password = password]
  /\ UNCHANGED <<userVars, latest, active, launched, grant>>

(* read_password without a dialog.                                         *)
ReadSilently ==
  LET a == cred.reading.account IN
  /\ cred.reading # NoReading
  /\ \/ item[a] = NoPassword /\ Answered("NotConfigured", NoPassword)
     \/ item[a] # NoPassword /\ a \in trusted /\ Answered("Found", item[a])
  /\ UNCHANGED <<trusted, budget>>

(* The user allows the read, once or always, or dismisses the dialog.      *)
AnswerDialog ==
  LET a == cred.reading.account IN
  /\ cred.reading # NoReading /\ a \notin trusted /\ item[a] # NoPassword
  /\ \/ /\ Answered("Found", item[a])
        /\ trusted' \in {trusted, trusted \cup {a}}
     \/ Answered("AccessPending", NoPassword) /\ UNCHANGED trusted
  /\ UNCHANGED budget

ReadFails ==
  /\ Answered("Failed", NoPassword) /\ Spend(1)
  /\ UNCHANGED trusted

(* Mutant of Discarded: the answer for an earlier account is applied.      *)
DiscardedIfRemoved == cred.removed

(* Mutant of Discarded: an answer is applied after the removal.            *)
DiscardedIfForeign == latest.account # cred.reading.account

Discarded == cred.removed \/ latest.account # cred.reading.account

(* Mutant of Released: a discarded answer keeps the slot of the read.      *)
ReleasedIfApplied ==
  IF Discarded THEN cred ELSE [cred EXCEPT !.reading = NoReading]

Released == [cred EXCEPT !.reading = NoReading]

(* poll_credential_refresh: an applied password resumes a wanted start.    *)
PasswordApplied ==
  LET a == cred.reading.account
      c == [Released EXCEPT !.state = "Available", !.stale = FALSE,
                            !.attempted = @ \ {a}]
      l == [latest EXCEPT !.password = cred.reading.password]
  IN
  \/ StartNow(c, Recorded(a), l)
  \/ /\ cred' = c /\ latest' = l /\ grant' = Recorded(a)
     /\ UNCHANGED <<active, launched, budget>>

PollRead ==
  LET a == cred.reading.account  answer == cred.reading.answer IN
  /\ answer # "none"
  /\ \/ /\ ~Discarded /\ answer = "Found"
        /\ PasswordApplied
     \/ /\ \/ /\ Discarded
              /\ cred' = Released
              /\ UNCHANGED <<latest, grant>>
           \/ /\ ~Discarded /\ answer = "NotConfigured"
              /\ cred' = [Released EXCEPT !.state = "NotConfigured",
                                          !.stale = FALSE]
              /\ latest' = [latest EXCEPT !.password = NoPassword]
              /\ grant' = Cleared(grant, a)
           \/ /\ ~Discarded /\ answer = "AccessPending"
              /\ cred' = Unavailable(Released)
              /\ grant' = Cleared(grant, a) /\ UNCHANGED latest
           \/ /\ ~Discarded /\ answer = "Failed"
              /\ cred' = Unavailable(Released)
              /\ UNCHANGED <<latest, grant>>
        /\ UNCHANGED <<active, launched, budget>>
  /\ UNCHANGED <<keychainVars, plist, notice>>

-----------------------------------------------------------------------------
(* Notices of the application.                                             *)

(* Supervisor::status                                                      *)
StatusAccount ==
  CASE active # NoConfig -> active.account
    [] active = NoConfig /\ latest # NoConfig -> latest.account
    [] OTHER -> DefaultAccount

(* Mutant of Changed: the password in memory remains trusted.              *)
ChangedUntracked(c, a) ==
  LET m == [c EXCEPT !.removed = FALSE, !.state = "AccessPending"] IN
  IF TeamMatches(grant, a) THEN ReadOnce(m, a) ELSE m

(* mark_credential_changed                                                 *)
Changed(c, a) ==
  LET m == [c EXCEPT !.removed = FALSE, !.stale = TRUE,
                     !.state = "AccessPending"] IN
  IF TeamMatches(grant, a) THEN ReadOnce(m, a) ELSE m

(* CredentialChanged, CredentialRemoved: the application sends a notice    *)
(* when the status it knows names the account, and again until an answer   *)
(* does; the agent applies it to its own account.                          *)
Deliver ==
  LET a == OwnAccount IN
  /\ notice # NoNotice
  /\ \/ /\ notice.kind = "changed"
        /\ cred' = Changed(cred, a)
        /\ grant' = IF TeamMatches(grant, a) THEN grant
                                              ELSE Cleared(grant, a)
        /\ UNCHANGED latest
     \/ /\ notice.kind = "removed"
        /\ cred' = [cred EXCEPT !.removed = TRUE, !.stale = FALSE,
                                !.state = "NotConfigured"]
        /\ grant' = Cleared(grant, a)
        /\ latest' = [latest EXCEPT !.password = NoPassword]
  /\ \/ StatusAccount = notice.account /\ notice' = NoNotice /\ Spend(0)
     \/ notice' = notice /\ Spend(1)  \* answer lost, or status out of date
  /\ UNCHANGED <<keychainVars, plist, active, launched>>

-----------------------------------------------------------------------------
(* The user, the application, the agent's life.                            *)

(* Settings writes a password: a new item for the account of the           *)
(* configuration, an update in place, or, when the user name changes, a    *)
(* new item while the old one is removed. An update may lose the trust.    *)
Quiet == cred.reading.answer = "Found" => ReadRace

SavePassword ==
  /\ budget.passwords < MaxPasswords /\ Quiet
  /\ budget' = [budget EXCEPT !.passwords = @ + 1]
  /\ \E a \in Account :
       /\ \/ a = plist /\ UNCHANGED plist
             /\ item' = [item EXCEPT ![a] =
                           [account |-> a, n |-> budget.passwords + 1]]
          \/ /\ plist # NoAccount /\ a # plist /\ notice = NoNotice
             /\ item[a] = NoPassword /\ item[plist] # NoPassword
             /\ plist' = a
             /\ item' = [item EXCEPT ![plist] = NoPassword, ![a] =
                           [account |-> a, n |-> budget.passwords + 1]]
       /\ notice' = [account |-> a, kind |-> "changed"]
       /\ trusted' \in {trusted, trusted \ {a}}
       /\ item[a] = NoPassword => trusted' = trusted \ {a}
  /\ UNCHANGED agentVars

RemovePassword ==
  /\ Quiet /\ Spend(1)
  /\ plist # NoAccount /\ item[plist] # NoPassword
  /\ item' = [item EXCEPT ![plist] = NoPassword]
  /\ notice' = [account |-> plist, kind |-> "removed"]
  /\ UNCHANGED <<trusted, plist, agentVars>>

(* config.plist is edited: another user name, or an invalid file.          *)
EditConfig ==
  /\ Spend(1)
  /\ plist' \in (Account \cup {NoAccount}) \ {plist}
  /\ UNCHANGED <<keychainVars, notice, agentVars>>

(* The agent is replaced, perhaps by another build, which the marker does  *)
(* not cover and Keychain need not trust, perhaps of another team.         *)
(* OpenCode keeps running; with_options loads the configuration and adopts *)
(* a process that answers and has its fingerprint.                         *)
AgentRestarts ==
  \E g \in {grant} \cup {[grant EXCEPT !.build = FALSE, !.team = team] :
                              team \in {grant.team, FALSE}} :
    /\ \/ plist # NoAccount /\ Merge(NewController, g, plist, NoConfig, 1)
       \/ /\ plist = NoAccount /\ Spend(1)
          /\ latest' = NoConfig /\ cred' = NewController /\ grant' = g
    /\ active' \in {NoConfig} \cup {c \in {launched} : c = latest'}
    /\ trusted' \in IF g = grant THEN {trusted} ELSE {trusted, {}}
    /\ UNCHANGED <<userVars, launched>>

-----------------------------------------------------------------------------
Init ==
  /\ item = [a \in Account |-> NoPassword]
  /\ trusted = {}
  /\ plist = DefaultAccount /\ notice = NoNotice
  /\ latest = [account |-> DefaultAccount, password |-> NoPassword]
  /\ active = NoConfig /\ launched = NoConfig
  /\ cred = NewController /\ grant = NoGrant
  /\ budget = [passwords |-> 0, events |-> 0]

Next ==
  \/ Reload \/ Start \/ ProcessExits \/ Adopt
  \/ Authorize \/ ReadSilently \/ AnswerDialog \/ ReadFails \/ PollRead
  \/ Deliver \/ SavePassword \/ RemovePassword \/ EditConfig
  \/ AgentRestarts

Spec == Init /\ [][Next]_vars

(* The loop rechecks the configuration every minute and polls the worker   *)
(* every iteration; a read that needs no dialog returns.                   *)
Fairness == WF_vars(Reload) /\ WF_vars(ReadSilently) /\ WF_vars(PollRead)

FairSpec == Spec /\ Fairness

-----------------------------------------------------------------------------
(* A password decrypted for one account never gets into the configuration  *)
(* of another, whatever changes while a read is under way.                 *)
PasswordBelongs ==
  \A c \in {latest, active, launched} :
    c.password # NoPassword => c.password.account = c.account

(* OpenCode is never started without authentication while its account has  *)
(* a password that merely cannot be read.                                  *)
StartIsAuthenticated ==
  [][launched = NoConfig /\ launched' # NoConfig
       /\ launched'.password = NoPassword
     => item[launched'.account] = NoPassword]_vars

(* Once every notice is acknowledged, a password the agent reports as      *)
(* available is the one in Keychain.                                       *)
AvailableIsCurrent ==
  cred.state = "Available" /\ notice = NoNotice /\ latest # NoConfig =>
    latest.password = item[latest.account]

(* After a removal nothing that was already under way, and no reload,      *)
(* brings a password back.                                                 *)
RemovedStaysOut ==
  cred.removed => latest.password = NoPassword /\ cred.state # "Available"

(* What the agent may read by itself: the marker proves an earlier decrypt *)
(* by this build, Keychain still trusts it, and nothing is to be cleared   *)
(* up by the user first.                                                   *)
DialogOpen ==
  /\ cred.reading # NoReading /\ cred.reading.answer = "none"
  /\ cred.reading.account \notin trusted

Granted ==
  /\ plist # NoAccount /\ Covered(grant, plist) /\ plist \in trusted
  /\ item[plist] # NoPassword
  /\ ~cred.stale /\ ~cred.removed /\ ~DialogOpen

(* Such a password is read sooner or later, also when the account changed  *)
(* while another read was in flight or a read failed.                      *)
GrantedReadConverges ==
  Granted ~> ~Granted \/ (cred.state = "Available" /\ latest.account = plist)

-----------------------------------------------------------------------------
(* The inductive invariant behind the four safety properties.              *)

(* An available password is there, and no change of it was noticed.        *)
AvailableIsTrusted ==
  cred.state = "Available" =>
    ~cred.stale /\ (latest # NoConfig => latest.password # NoPassword)

(* An answer is about the account it was read for; without the race it is  *)
(* still what Keychain has.                                                *)
AnswerBelongs ==
  /\ cred.reading.answer = "Found" =>
       /\ cred.reading.password \in Password
       /\ cred.reading.password.account = cred.reading.account
       /\ ReadRace \/ cred.reading.password = item[cred.reading.account]
  /\ cred.reading.account = NoAccount => cred.reading = NoReading
  /\ \A a \in Account : item[a] # NoPassword => item[a].account = a

(* A password that is no longer current is about to be questioned.         *)
OutdatedIsNoticed ==
  ~ReadRace /\ latest.password # NoPassword /\ ~cred.stale =>
    notice # NoNotice \/ latest.password = item[latest.account]

IInv ==
  /\ TypeOK /\ PasswordBelongs /\ RemovedStaysOut
  /\ AvailableIsTrusted /\ AnswerBelongs /\ OutdatedIsNoticed
=============================================================================

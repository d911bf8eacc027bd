---------------------------- MODULE Credentials ----------------------------
(***************************************************************************)
(* GitHub calls of a supervised process: the proxy ops/github_credential_gh*)
(* asks the helper providers/github_credential_gh.py for a credential.  Of *)
(* the source github-cli-user the helper takes the token gh stores and     *)
(* verifies it at GitHub, or relies on an attestation of an earlier        *)
(* verification; of the source github-app it mints a token and looks for   *)
(* the target among the installation's repositories.  The proxy runs gh    *)
(* with the token or reports a health fact.                                *)
(* Time is in units of which an attestation lasts TTL; the monotonic clock *)
(* starts again at a boot, the attestation file stays.                     *)
(***************************************************************************)
EXTENDS Naturals, Nothing

CONSTANTS
  Calls, Tokens, Targets,
  First,                \* the token gh has for the login at first
  TTL,                  \* ATTESTATION_TTL_SECONDS
  MaxClock, MaxBoots, MaxChanges, \* bounds: clock, reboots, changes at GitHub or of the stored token
  Troubles \* what may go wrong besides a request of the helper that fails at once: "slow", the
           \* time the proxy gives the helper runs out; "broken", a command, the resolver of the
           \* app too, is missing, fails, dies, or hands out nothing of use; "limit", GitHub answers
           \* 401 or 403 to a token it accepts

Facts == {"unavailable", "unhealthy", "call-failed"}
Phases ==
  {"idle", "mint", "clock", "lock", "second", "repositories", "login", "push", "passed", "issued", "failed"}
Helping == Phases \ {"idle", "failed"} \* the proxy waits for the helper, or has just heard of it
Stamps == [boot : 0..MaxBoots, at : 0..MaxClock]
ASSUME CredentialAssumption ==
  /\ TTL \in Nat \ {0} /\ MaxClock \in Nat /\ MaxBoots \in Nat /\ MaxChanges \in Nat
  /\ First \in Tokens /\ Troubles \subseteq {"slow", "broken", "limit"}
  /\ None \notin Tokens \cup Targets \cup Facts \cup Stamps

VARIABLES
  source,       \* the declared credential source
  now, boot,    \* the monotonic clock and the boot session
  accepted,     \* tokens GitHub accepts as the declared login's
  writable,     \* targets the login may push to, or the installation has
  stored,       \* what gh has for the login
  attestation,  \* the document in the runtime root
  guard,        \* which call holds the attestation lock
  phase,        \* where a call is
  authCheck,    \* was it asked with --fkst-auth-check
  target, token, clock, \* what it was given and has read
  fact,         \* the health fact it reported
  verified,     \* history: when a token last passed for a target
  verifier,     \* history: did this call verify
  grounds,      \* history: what a call failed on: something it learned against the credential, or a trouble
  changes

github == <<source, accepted, writable, stored>>
given == <<authCheck, target>>
history == <<verified, verifier, grounds>>
call == <<phase, given, token, clock, fact>>
credentialVars == <<now, boot, github, attestation, guard, call, history, changes>>

CredentialInit ==
  /\ source \in {"github-cli-user", "github-app"}
  /\ now = 0 /\ boot = 0 /\ changes = 0
  /\ accepted = Tokens /\ writable = Targets /\ stored = First
  /\ attestation = None /\ guard = None
  /\ phase = [c \in Calls |-> "idle"] /\ fact = [c \in Calls |-> None]
  /\ authCheck = [c \in Calls |-> FALSE] /\ target \in [Calls -> Targets]
  /\ token = [c \in Calls |-> None] /\ clock = [c \in Calls |-> None]
  /\ verified = [seen \in Tokens \X Targets |-> None]
  /\ verifier = [c \in Calls |-> FALSE] /\ grounds = [c \in Calls |-> None]

On(c, s) == phase[c] = s
Enter(c, s) == phase' = [phase EXCEPT ![c] = s]
Release(c) == guard' = IF guard = c THEN None ELSE guard

-----------------------------------------------------------------------------
(* The end of a call without credential: the proxy makes a health fact of  *)
(* the failure, whoever failed.  Only the marker of an unavailable         *)
(* verification asserts no health.  What the helper had read, and its      *)
(* lock, go with it.                                                       *)
Forget(c) ==
  /\ Release(c)
  /\ authCheck' = [authCheck EXCEPT ![c] = FALSE]
  /\ token' = [token EXCEPT ![c] = None] /\ clock' = [clock EXCEPT ![c] = None]
ReportAny(c, cause) == Enter(c, "failed") /\ Forget(c) /\ fact' = [fact EXCEPT ![c] = "unhealthy"] \* a faulty variant
Report(c, cause) ==
  /\ Enter(c, "failed") /\ Forget(c)
  /\ fact' = [fact EXCEPT ![c] = IF cause = "verification-unavailable" THEN "unavailable" ELSE "unhealthy"]
Refuted(c) == grounds' = [grounds EXCEPT ![c] = "refuted"]
Troubled(c, t) == t \in Troubles /\ grounds' = [grounds EXCEPT ![c] = "trouble"]

StartCall(c) ==
  /\ phase[c] \in {"idle", "failed"}
  /\ Enter(c, "mint")
  /\ \E check \in BOOLEAN : authCheck' = [authCheck EXCEPT ![c] = check]
  /\ fact' = [fact EXCEPT ![c] = None]
  /\ token' = [token EXCEPT ![c] = None] /\ clock' = [clock EXCEPT ![c] = None]
  /\ grounds' = [grounds EXCEPT ![c] = None]
  /\ UNCHANGED <<now, boot, github, attestation, guard, target, verified, verifier, changes>>

(* The resolver of the app, or gh auth token, which may fail though there  *)
(* is a token; an authorization check goes on to verify at once.           *)
Mint(c) ==
  /\ On(c, "mint")
  /\ \/ stored = None /\ Report(c, "token-mint-failed") /\ Refuted(c)
     \/ Troubled(c, "broken") /\ Report(c, "token-mint-failed")
     \/ /\ stored # None
        /\ token' = [token EXCEPT ![c] = stored]
        /\ Enter(c, IF source = "github-app" THEN "repositories" ELSE IF authCheck[c] THEN "login" ELSE "clock")
        /\ UNCHANGED <<authCheck, clock, fact, guard, grounds>>
  /\ UNCHANGED <<now, boot, github, attestation, target, verified, verifier, changes>>

Issue(c) ==
  /\ Enter(c, "issued") /\ Release(c) /\ verifier' = [verifier EXCEPT ![c] = TRUE]
  /\ verified' = [verified EXCEPT ![<<token[c], target[c]>>] = [boot |-> boot, at |-> now]]
Repositories(c) ==
  /\ On(c, "repositories")
  /\ \/ /\ token[c] \in accepted /\ target[c] \in writable
        /\ Issue(c) /\ UNCHANGED <<authCheck, token, clock, fact, grounds>>
     \/ /\ token[c] \in accepted /\ target[c] \notin writable
        /\ Report(c, "declared-target-not-accessible") /\ Refuted(c) /\ UNCHANGED <<verified, verifier>>
     \/ Report(c, "verification-unavailable") /\ UNCHANGED history
  /\ UNCHANGED <<now, boot, github, attestation, target, changes>>

MatchesAnyTime(c) == \* a faulty variant: clocks of two boots are compared
  /\ attestation # None
  /\ attestation.target = target[c] /\ attestation.token = token[c]
  /\ attestation.at <= clock'[c] /\ clock'[c] < attestation.at + TTL
Matches(c) ==
  /\ attestation # None
  /\ attestation.target = target[c] /\ attestation.token = token[c]
  /\ attestation.boot = boot
  /\ attestation.at <= clock'[c] /\ clock'[c] < attestation.at + TTL

ReadClock(c) == clock' = [clock EXCEPT ![c] = now]
(* Without a boot session or a clock no attestation is used.               *)
FirstLook(c) ==
  /\ On(c, "clock")
  /\ \/ ReadClock(c) /\ Enter(c, IF Matches(c) THEN "issued" ELSE "lock")
     \/ UNCHANGED clock /\ Enter(c, "login")
  /\ UNCHANGED <<now, boot, github, attestation, guard, given, token, fact, history, changes>>

(* A lock that stays busy for a quarter of a second, or that cannot be     *)
(* opened, is given up.                                                    *)
TakeLock(c) ==
  /\ On(c, "lock")
  /\ \/ guard = None /\ guard' = c /\ Enter(c, "second")
     \/ Enter(c, "login") /\ UNCHANGED guard
  /\ UNCHANGED <<now, boot, github, attestation, given, token, clock, fact, history, changes>>

SecondLook(c) ==
  /\ On(c, "second")
  /\ ReadClock(c)
  /\ IF Matches(c) THEN Enter(c, "issued") /\ Release(c) ELSE Enter(c, "login") /\ UNCHANGED guard
  /\ UNCHANGED <<now, boot, github, attestation, given, token, fact, history, changes>>

-----------------------------------------------------------------------------
(* verify_github_cli_user: /user, then the permissions of the target.  A   *)
(* request that failed is made again to see the status GitHub answers with:*)
(* a 401 or 403, of a rate limit too, is a failed verification.            *)
Unanswered(c) ==
  \/ token[c] \notin accepted /\ Report(c, "verification-failed") /\ Refuted(c)
  \/ Troubled(c, "limit") /\ Report(c, "verification-failed")
  \/ Report(c, "verification-unavailable") /\ UNCHANGED grounds

Login(c) ==
  /\ On(c, "login")
  /\ \/ /\ token[c] \in accepted /\ Enter(c, "push")
        /\ UNCHANGED <<guard, authCheck, token, clock, fact, grounds>>
     \/ token[c] \notin accepted /\ Report(c, "login-mismatch") /\ Refuted(c)
     \/ Unanswered(c)
  /\ UNCHANGED <<now, boot, github, attestation, target, verified, verifier, changes>>

CheckPush(c) ==
  /\ On(c, "push")
  /\ \/ /\ token[c] \in accepted /\ target[c] \in writable
        /\ Enter(c, "passed") /\ UNCHANGED <<guard, authCheck, token, clock, fact, grounds>>
     \/ /\ token[c] \in accepted /\ target[c] \notin writable
        /\ Report(c, "push-permission-missing") /\ Refuted(c)
     \/ Unanswered(c)
  /\ UNCHANGED <<now, boot, github, attestation, target, verified, verifier, changes>>

(* The proxy gives the helper thirty seconds for all it does, as long as   *)
(* the helper gives one request: they run out on a request left unanswered *)
(* and on several that are slow.                                           *)
GiveUp(c, t, cause) ==
  /\ phase[c] \in Helping
  /\ Report(c, cause) /\ Troubled(c, t) /\ verifier' = [verifier EXCEPT ![c] = FALSE]
  /\ UNCHANGED <<now, boot, github, attestation, target, verified, changes>>
HelperTimeout(c) == GiveUp(c, "slow", "timed out")
(* A helper that cannot be started, that dies, or whose output the proxy   *)
(* does not accept.                                                        *)
HelperFails(c) == GiveUp(c, "broken", "refresh-failed")

(* Whoever holds the lock publishes, if it can; the time is read anew.     *)
Passed(c) ==
  /\ On(c, "passed")
  /\ Issue(c)
  /\ \/ /\ guard = c
        /\ attestation' = [token |-> token[c], target |-> target[c], boot |-> boot, at |-> now]
     \/ UNCHANGED attestation
  /\ UNCHANGED <<now, boot, github, given, token, clock, fact, grounds, changes>>

(* The proxy runs gh with the credential: its failure asserts no health.   *)
Use(c) ==
  /\ On(c, "issued") /\ fact[c] = None
  /\ \/ Enter(c, "idle") /\ UNCHANGED fact
     \/ ~authCheck[c] /\ Enter(c, "failed") /\ fact' = [fact EXCEPT ![c] = "call-failed"]
  /\ Forget(c) /\ verifier' = [verifier EXCEPT ![c] = FALSE]
  /\ UNCHANGED <<now, boot, github, attestation, target, verified, grounds, changes>>

(* The proxy itself is killed: nobody reports.                             *)
CallDies(c) ==
  /\ phase[c] \in Helping
  /\ Enter(c, "idle") /\ Forget(c) /\ verifier' = [verifier EXCEPT ![c] = FALSE]
  /\ UNCHANGED <<now, boot, github, attestation, target, fact, verified, grounds, changes>>

-----------------------------------------------------------------------------
ClockTick == now < MaxClock /\ now' = now + 1 /\ UNCHANGED <<boot, github, attestation, guard, call, history, changes>>
Reboot ==
  /\ boot < MaxBoots /\ boot' = boot + 1 /\ now' = 0
  /\ phase' = [c \in Calls |-> "idle"] /\ guard' = None
  /\ authCheck' = [c \in Calls |-> FALSE]
  /\ token' = [c \in Calls |-> None] /\ clock' = [c \in Calls |-> None]
  /\ verifier' = [c \in Calls |-> FALSE]
  /\ UNCHANGED <<github, attestation, target, fact, verified, grounds, changes>>
(* Revocation, a login that loses or regains push, another login of gh.    *)
Change ==
  /\ changes < MaxChanges /\ changes' = changes + 1
  /\ \/ \E k \in accepted : accepted' = accepted \ {k} /\ UNCHANGED <<writable, stored>>
     \/ \E g \in writable : writable' = writable \ {g} /\ UNCHANGED <<accepted, stored>>
     \/ stored' \in (Tokens \cup {None}) \ {stored} /\ UNCHANGED <<accepted, writable>>
  /\ UNCHANGED <<source, now, boot, attestation, guard, call, history>>

CredentialNext ==
  \/ \E c \in Calls :
       \/ StartCall(c) \/ Mint(c) \/ FirstLook(c) \/ TakeLock(c) \/ SecondLook(c)
       \/ Repositories(c) \/ Login(c) \/ CheckPush(c) \/ Passed(c)
       \/ HelperTimeout(c) \/ HelperFails(c) \/ Use(c) \/ CallDies(c)
  \/ ClockTick \/ Reboot \/ Change
CredentialSpec == CredentialInit /\ [][CredentialNext]_credentialVars

-----------------------------------------------------------------------------
CredentialTypeOK ==
  /\ source \in {"github-cli-user", "github-app"}
  /\ now \in 0..MaxClock /\ boot \in 0..MaxBoots /\ changes \in 0..MaxChanges
  /\ accepted \subseteq Tokens /\ writable \subseteq Targets /\ stored \in Tokens \cup {None}
  /\ attestation \in [token : Tokens, target : Targets, boot : 0..MaxBoots, at : 0..MaxClock] \cup {None}
  /\ guard \in Calls \cup {None}
  /\ phase \in [Calls -> Phases]
  /\ authCheck \in [Calls -> BOOLEAN] /\ target \in [Calls -> Targets]
  /\ token \in [Calls -> Tokens \cup {None}] /\ clock \in [Calls -> (0..MaxClock) \cup {None}]
  /\ fact \in [Calls -> Facts \cup {None}]
  /\ verified \in [Tokens \X Targets -> Stamps \cup {None}]
  /\ verifier \in [Calls -> BOOLEAN] /\ grounds \in [Calls -> {"refuted", "trouble", None}]

(* A credential is issued only by a call that verified it, or on a         *)
(* verification of that token for that target in this boot that ended less *)
(* than TTL before the call read the clock; an authorization check always  *)
(* verified itself.                                                        *)
IssuedIsVerified ==
  \A c \in Calls : On(c, "issued") /\ ~verifier[c] =>
    /\ ~authCheck[c]
    /\ verified[<<token[c], target[c]>>] # None
    /\ verified[<<token[c], target[c]>>].boot = boot
    /\ clock[c] < verified[<<token[c], target[c]>>].at + TTL
(* A deployment is reported unhealthy only by a call that learned something*)
(* against its credential: absence of evidence is no health verdict.       *)
UnhealthyIsRefuted == \A c \in Calls : fact[c] = "unhealthy" => grounds[c] = "refuted"
(* The same of calls that met no trouble: a request of the verification    *)
(* that fails, in whichever of its steps, is never taken for a refusal.    *)
UntroubledUnhealthyIsRefuted ==
  \A c \in Calls : fact[c] = "unhealthy" /\ grounds[c] # "trouble" => grounds[c] = "refuted"
=============================================================================
